--------------------------- MODULE SharedConnection ---------------------------
(***************************************************************************)
(* SharedAsyncMqttConnection, SharedAsyncMqttClient, SharedClientState and *)
(* RecvResultQueue (lib/include/hacpp/shared_mqtt_client.h): one physical  *)
(* client, a pump that receives from it, and logical clients with a queue  *)
(* each.  The physical client is the one ReceiveClient specifies, which    *)
(* AsyncMqttClient implements; the broker keeps no session (clean_start).  *)
(* An action is the code between two suspension points; push_back and      *)
(* async_detach never suspend, so a dispatch is one action and the order   *)
(* of the entries of clients_ and of topics_ cannot be observed: each of   *)
(* these vectors is modelled by its number of entries for every value.     *)
(***************************************************************************)
EXTENDS ReceiveClient, Naturals, Sequences

CONSTANTS
  Clients,    \* SharedClientState objects, one per SharedAsyncMqttClient
  Topics,     \* MQTT topics; a publish packet is its topic
  Sends,      \* Sends[c]: what c sends: topics it subscribes to, publishes
  Readers,    \* coroutines that call SharedAsyncMqttClient::async_recv
  Owner,      \* Owner[r]: the logical client on which r receives
  MaxQueue    \* bound of the model, see Room

Publishes == {"publish", "publish0"}   \* with QoS 1 and with QoS 0

(* What async_recv of the physical client returns as errors: SessionReset, *)
(* after which the pump goes on, and those that end the pump, Disconnected,*)
(* InvalidPacket and any error of the last reconnect attempt.              *)
Errors == {"SessionReset", "Fatal"}

ASSUME SharedAssumption ==
  /\ Sends \in [Clients -> SUBSET (Topics \cup Publishes)]
  /\ Owner \in [Readers -> Clients]
  /\ MaxQueue \in Nat \ {0}
  /\ Topics # {}
  /\ Topics \cap (Errors \cup Publishes \cup {"UnknownError"}) = {}

SingleReader == \A r, s \in Readers : Owner[r] = Owner[s] => r = s

VARIABLES
  link,      \* "up": the transport and the broker's session exist
  subs,      \* broker: topics subscribed in the current session
  clients,   \* clients[c]: entries of clients_, weak pointers, that are c
  topics,    \* topics[c][t]: entries of topics_ of c that are t
  queue,     \* queue[c]: queue_ of c
  alive,     \* alive[c]: somebody owns the state of c
  want,      \* want[c]: what c sends: a topic to subscribe to, or a publish
  spc,       \* spc[c]: where that async_subscribe or async_publish is suspended
  rpc,       \* rpc[r]: where reader r is suspended in pop_front
  pump,      \* "off", "run" (async_run) or "one" (async_pump_one) in async_recv
  closed,    \* history: async_close of c was called
  owed       \* history: topics c was told to restore and has not restored

conn == <<phys, looping, link, subs>>
vars == <<phys, looping, link, subs, clients, topics, queue, alive, want, spc, rpc,
          pump, closed, owed>>

Rng(s) == {s[i] : i \in DOMAIN s}
Results == Topics \cup Errors

(* The values that a vector has entries for.                               *)
Entries(v) == {x \in DOMAIN v : v[x] > 0}
Registered == Entries(clients)

(* The types; a client or topic is registered once, and there are          *)
(* subscriptions and sends that may be answered only on a live transport.  *)
SharedTypeOK ==
  /\ ClientTypeOK
  /\ link \in {"up", "down"}
  /\ subs \subseteq Topics
  /\ clients \in [Clients -> {0, 1}]
  /\ topics \in [Clients -> [Topics -> {0, 1}]]
  /\ queue \in [Clients -> Seq(Results)]
  /\ alive \in [Clients -> BOOLEAN]
  /\ want \in [Clients -> Topics \cup Publishes]
  /\ spc \in [Clients -> {"idle", "wait", "woken", "sent", "lost", "acked"}]
  /\ rpc \in [Readers -> {"idle", "wait", "woken"}]
  /\ pump \in {"off", "run", "one"}
  /\ closed \in [Clients -> BOOLEAN]
  /\ owed \in [Clients -> SUBSET Topics]
  /\ link = "down" => subs = {} /\ \A c \in Clients : spc[c] # "sent"

Init ==
  /\ ClientInit
  /\ link = "down"
  /\ subs = {}
  /\ clients = [c \in Clients |-> 0]
  /\ topics = [c \in Clients |-> [t \in Topics |-> 0]]
  /\ queue = [c \in Clients |-> <<>>]
  /\ alive = [c \in Clients |-> TRUE]
  /\ want = [c \in Clients |-> CHOOSE t \in Topics : TRUE]
  /\ spc = [c \in Clients |-> "idle"]
  /\ rpc = [r \in Readers |-> "idle"]
  /\ pump = "off"
  /\ closed = [c \in Clients |-> FALSE]
  /\ owed = [c \in Clients |-> {}]
-----------------------------------------------------------------------------
(* MUTANT of Register: without the search for the client.                  *)
RegisterTwice(c) == clients' = [clients EXCEPT ![c] = @ + 1]

(* clients_.push_back(state) unless the client is registered.              *)
Register(c) ==
  clients' = IF c \in Registered THEN clients ELSE [clients EXCEPT ![c] = @ + 1]

(* MUTANT of AddTopic: without the search for the topic.                   *)
AddTopicTwice(ts, t) == [ts EXCEPT ![t] = @ + 1]

(* registered_topics after a subscribe to t: the entry of a topic that is  *)
(* there already is only refreshed.                                        *)
AddTopic(ts, t) == IF t \in Entries(ts) THEN ts ELSE [ts EXCEPT ![t] = @ + 1]

(* MUTANT of Without: the test of std::erase_if is the wrong way round.    *)
WithoutOthers(v, c) == [d \in DOMAIN v |-> IF d = c THEN v[d] ELSE 0]

(* std::erase_if(clients_, c) and remove_expired_clients().                *)
Without(v, c) == [v EXCEPT ![c] = 0]
Live(v) == [d \in DOMAIN v |-> IF alive[d] THEN v[d] ELSE 0]

(* How often the dispatch loops push a result to c: for an error once per  *)
(* entry in clients_, for a packet once per entry and matching topic.      *)
Copies(c, v) ==
  IF ~alive[c] THEN 0
  ELSE IF v \in Errors THEN clients[c] ELSE clients[c] * topics[c][v]

(* MUTANT of Dispatch: push_back does not cancel the timer.                *)
DispatchSilent(v) ==
  /\ queue' = [c \in Clients |-> queue[c] \o [i \in 1..Copies(c, v) |-> v]]
  /\ UNCHANGED rpc

(* RecvResultQueue::push_back for every recipient: its waiters wake up.    *)
Dispatch(v) ==
  /\ queue' = [c \in Clients |-> queue[c] \o [i \in 1..Copies(c, v) |-> v]]
  /\ rpc' = [r \in Readers |->
              IF rpc[r] = "wait" /\ Copies(Owner[r], v) > 0 THEN "woken"
                                                            ELSE rpc[r]]

(* What the physical client does to sends under way: those that wait for   *)
(* the reconnect resume, the answers to those on a lost session never come.*)
WakeSends == [c \in Clients |-> IF spc[c] = "wait" THEN "woken" ELSE spc[c]]
LoseSends(s) == [c \in Clients |-> IF s[c] = "sent" THEN "lost" ELSE s[c]]
-----------------------------------------------------------------------------
(* The bound: the pump starts, and receives anything but a final error,    *)
(* while the queue of every logical client has room.                       *)
Room == \A c \in Clients : alive[c] => Len(queue[c]) < MaxQueue

(* The application connects, and then starts the pump.  A client that was  *)
(* connected before has lost its session; the application knows, and it is *)
(* for the application to subscribe anew.  A connect takes a handshake     *)
(* with the broker, so a subscribe acknowledged earlier has resumed.       *)
AsyncConnect ==
  /\ phys = "Closed" /\ pump = "off"
  /\ \A c \in Clients : spc[c] # "acked"
  /\ AppConnect
  /\ link' = "up"
  /\ owed' = [c \in Clients |-> owed[c] \cup Entries(topics[c])]
  /\ UNCHANGED <<subs, clients, topics, queue, alive, want, spc, rpc, pump, closed>>

(* The application closes the connection; the reconnect loop, if it runs,  *)
(* goes on (see AsyncMqttClient).                                          *)
AsyncClose ==
  /\ phys # "Closed"
  /\ AppClose
  /\ link' = "down" /\ subs' = {}
  /\ spc' = LoseSends(WakeSends)
  /\ UNCHANGED <<clients, topics, queue, alive, want, rpc, pump, closed, owed>>

(* The transport or the broker fails, and with it the session.             *)
Drop ==
  /\ link = "up"
  /\ link' = "down" /\ subs' = {}
  /\ spc' = LoseSends(spc)
  /\ UNCHANGED <<phys, looping, clients, topics, queue, alive, want, rpc, pump, closed, owed>>

(* async_run and async_pump_one up to the receive.                         *)
PumpStart(m) ==
  /\ pump = "off"
  /\ Room
  /\ pump' = m
  /\ clients' = Live(clients)
  /\ UNCHANGED <<conn, topics, queue, alive, want, spc, rpc, closed, owed>>

(* After a result that is no error: async_run starts over.                 *)
PumpAgain ==
  /\ pump' = IF pump = "run" THEN "run" ELSE "off"
  /\ clients' = IF pump = "run" THEN Live(clients) ELSE clients

(* A publish packet of topic t is received and dispatched.                 *)
PumpPacket(t) ==
  /\ pump # "off" /\ ~looping
  /\ t \in subs
  /\ Room
  /\ Dispatch(t)
  /\ PumpAgain
  /\ UNCHANGED <<conn, topics, alive, want, spc, closed, owed>>

(* Any other packet is skipped.                                            *)
PumpOther ==
  /\ pump # "off" /\ ~looping
  /\ link = "up"
  /\ PumpAgain
  /\ UNCHANGED <<conn, topics, queue, alive, want, spc, rpc, closed, owed>>

(* The physical receive fails and starts to reconnect.                     *)
PumpLoses ==
  /\ pump # "off" /\ link = "down"
  /\ LoseLink
  /\ UNCHANGED <<link, subs, clients, topics, queue, alive, want, spc, rpc, pump, closed, owed>>

(* MUTANT of PumpReset: SessionReset is not forwarded.                     *)
PumpResetSilent ==
  /\ pump # "off"
  /\ \A c \in Clients : spc[c] # "acked"
  /\ Reset
  /\ link' = "up"
  /\ UNCHANGED <<queue, rpc>>
  /\ spc' = WakeSends
  /\ PumpAgain
  /\ UNCHANGED <<subs, topics, alive, want, closed, owed>>

(* The physical client is connected again: SessionReset is forwarded.  A   *)
(* reconnect takes its back-off of a second or more, so a subscribe that   *)
(* was acknowledged before has resumed by then.                            *)
PumpReset ==
  /\ pump # "off"
  /\ \A c \in Clients : spc[c] # "acked"
  /\ Room
  /\ Reset
  /\ link' = "up"
  /\ Dispatch("SessionReset")
  /\ spc' = WakeSends
  /\ PumpAgain
  /\ UNCHANGED <<subs, topics, alive, want, closed, owed>>

(* MUTANT of PumpEnds: the error is not forwarded.                         *)
PumpEndsSilent ==
  /\ UNCHANGED <<queue, rpc>>
  /\ pump' = "off"
  /\ UNCHANGED <<link, subs, clients, topics, alive, want, closed, owed>>

(* The receive ends with an error, which is forwarded and ends the pump.   *)
PumpEnds ==
  /\ Dispatch("Fatal")
  /\ pump' = "off"
  /\ UNCHANGED <<link, subs, clients, topics, alive, want, closed, owed>>

(* The reconnect loop gave up.                                             *)
PumpGaveUp ==
  /\ pump # "off"
  /\ GiveUp
  /\ spc' = WakeSends
  /\ PumpEnds

(* The client was closed under the receive.                                *)
PumpClosed ==
  /\ pump # "off"
  /\ phys = "Closed" /\ ~looping
  /\ PumpEnds
  /\ UNCHANGED <<phys, looping, spc>>

(* The receive completed without a packet.                                 *)
PumpInvalid ==
  /\ pump # "off"
  /\ link = "up" /\ ~looping
  /\ PumpEnds
  /\ UNCHANGED <<phys, looping, spc>>
-----------------------------------------------------------------------------
(* Where a send of the physical client is when it has found it Connected.  *)
Written == IF link = "up" THEN "sent" ELSE "lost"

(* async_subscribe and async_publish of SharedAsyncMqttClient, up to the   *)
(* first suspension in the physical client, which refuses it when closed.  *)
Send(c, w) ==
  /\ alive[c] /\ spc[c] = "idle"
  /\ phys # "Closed"
  /\ want' = [want EXCEPT ![c] = w]
  /\ spc' = [spc EXCEPT ![c] = IF phys = "Connected" THEN Written ELSE "wait"]
  /\ UNCHANGED <<conn, clients, topics, queue, alive, rpc, pump, closed, owed>>

(* The physical client has woken the send: it is written, or refused.      *)
SendWoken(c) ==
  /\ spc[c] = "woken"
  /\ spc' = [spc EXCEPT ![c] = IF phys = "Connected" THEN Written ELSE "idle"]
  /\ UNCHANGED <<conn, clients, topics, queue, alive, want, rpc, pump, closed, owed>>

(* It fails: the client returns the error and changes nothing.             *)
SendFails(c) ==
  /\ spc[c] \in {"sent", "lost"}
  /\ spc' = [spc EXCEPT ![c] = "idle"]
  /\ UNCHANGED <<conn, clients, topics, queue, alive, want, rpc, pump, closed, owed>>

(* The broker subscribes and acknowledges, or receives the publish.        *)
SendAcked(c) ==
  /\ spc[c] = "sent"
  /\ subs' = subs \cup ({want[c]} \cap Topics)
  /\ spc' = [spc EXCEPT ![c] = "acked"]
  /\ UNCHANGED <<phys, looping, link, clients, topics, queue, alive, want, rpc, pump, closed, owed>>

(* The send succeeds; async_subscribe registers topic and client.  With    *)
(* QoS 0 a publish succeeds when it is written, to a dead transport too.   *)
SendDone(c) ==
  /\ spc[c] = "acked" \/ (spc[c] = "lost" /\ want[c] = "publish0")
  /\ spc' = [spc EXCEPT ![c] = "idle"]
  /\ \/ /\ want[c] \in Topics
        /\ topics' = [topics EXCEPT ![c] = AddTopic(topics[c], want[c])]
        /\ Register(c)
        /\ owed' = [owed EXCEPT ![c] = @ \ {want[c]}]
     \/ /\ want[c] \notin Topics
        /\ UNCHANGED <<topics, clients, owed>>
  /\ UNCHANGED <<conn, queue, alive, want, rpc, pump, closed>>

(* What pop_front returns when it does not wait: the oldest result or, if  *)
(* another reader was faster, the mapped operation_aborted of the timer.   *)
Result(r) == IF queue[Owner[r]] = <<>> THEN "UnknownError" ELSE Head(queue[Owner[r]])

(* The end of pop_front.                                                   *)
PopFront(r) ==
  LET c == Owner[r] IN
  /\ rpc' = [rpc EXCEPT ![r] = "idle"]
  /\ queue' = [queue EXCEPT ![c] = IF @ = <<>> THEN @ ELSE Tail(@)]
  /\ owed' = IF Result(r) \in Errors
             THEN [owed EXCEPT ![c] = @ \cup Entries(topics[c])] ELSE owed

(* MUTANT of AsyncRecv: waits also when there are results.                 *)
AsyncRecvAlwaysWaits(r) ==
  /\ alive[Owner[r]] /\ rpc[r] = "idle"
  /\ Register(Owner[r])
  /\ rpc' = [rpc EXCEPT ![r] = "wait"]
  /\ UNCHANGED <<conn, topics, queue, alive, want, spc, pump, closed, owed>>

(* SharedAsyncMqttClient::async_recv: registers the client, then takes a   *)
(* result or waits for one.                                                *)
AsyncRecv(r) ==
  /\ alive[Owner[r]] /\ rpc[r] = "idle"
  /\ Register(Owner[r])
  /\ \/ /\ queue[Owner[r]] # <<>>
        /\ PopFront(r)
     \/ /\ queue[Owner[r]] = <<>>
        /\ rpc' = [rpc EXCEPT ![r] = "wait"]
        /\ UNCHANGED <<queue, owed>>
  /\ UNCHANGED <<conn, topics, alive, want, spc, pump, closed>>

(* The timer of pop_front was cancelled: it resumes.                       *)
RecvWoken(r) ==
  /\ rpc[r] = "woken"
  /\ PopFront(r)
  /\ UNCHANGED <<conn, clients, topics, alive, want, spc, pump, closed>>

(* MUTANT of Detach: the queue's timer is cancelled, the queue left empty. *)
DetachCancels(c) ==
  /\ alive[c]
  /\ clients' = Without(clients, c)
  /\ closed' = [closed EXCEPT ![c] = TRUE]
  /\ rpc' = [r \in Readers |->
              IF Owner[r] = c /\ rpc[r] = "wait" THEN "woken" ELSE rpc[r]]
  /\ UNCHANGED <<conn, topics, queue, alive, want, spc, pump, owed>>

(* SharedAsyncMqttClient::async_close: the logical client is detached.     *)
Detach(c) ==
  /\ alive[c]
  /\ clients' = Without(clients, c)
  /\ closed' = [closed EXCEPT ![c] = TRUE]
  /\ UNCHANGED <<conn, topics, queue, alive, want, spc, rpc, pump, owed>>

(* The logical client is destroyed, when none of its coroutines runs.      *)
Destroy(c) ==
  /\ alive[c]
  /\ spc[c] = "idle"
  /\ \A r \in Readers : Owner[r] = c => rpc[r] = "idle"
  /\ alive' = [alive EXCEPT ![c] = FALSE]
  /\ UNCHANGED <<conn, clients, topics, queue, want, spc, rpc, pump, closed, owed>>
-----------------------------------------------------------------------------
PumpStep ==
  \/ PumpOther \/ PumpLoses \/ PumpReset
  \/ PumpGaveUp \/ PumpClosed \/ PumpInvalid
  \/ \E t \in Topics : PumpPacket(t)

SendStep(c) == SendWoken(c) \/ SendFails(c) \/ SendAcked(c) \/ SendDone(c)

Next ==
  \/ AsyncConnect
  \/ AsyncClose
  \/ Drop
  \/ \E m \in {"run", "one"} : PumpStart(m)
  \/ PumpStep
  \/ \E c \in Clients :
       \/ \E w \in Sends[c] : Send(c, w)
       \/ SendStep(c)
       \/ Detach(c)
       \/ Destroy(c)
  \/ \E r \in Readers : AsyncRecv(r) \/ RecvWoken(r)

Spec == Init /\ [][Next]_vars

(* The physical receive completes once the client is closed, and so does   *)
(* the reconnect loop (AsyncMqttClient, OutageHandled); a reader that has  *)
(* been woken and a send that is under way resume.                         *)
Fairness ==
  /\ WF_vars(PumpReset \/ PumpGaveUp)
  /\ WF_vars(PumpClosed)
  /\ \A c \in Clients : WF_vars(SendStep(c))
  /\ \A r \in Readers : WF_vars(RecvWoken(r))

FairSpec == Spec /\ Fairness
-----------------------------------------------------------------------------
(* A reader that waits in pop_front has nothing to take: a result pushed   *)
(* by the pump, while it was about to wait or waiting, always wakes it.    *)
NoLostWakeup ==
  \A r \in Readers : rpc[r] = "wait" => queue[Owner[r]] = <<>>

(* With one reader per logical client, a reader that wakes up finds a      *)
(* result: async_recv never returns the mapped operation_aborted of an     *)
(* empty wakeup (TODO.md, "robust against empty wakeups").                 *)
NoEmptyWakeup ==
  SingleReader =>
    \A r \in Readers : rpc[r] = "woken" => queue[Owner[r]] # <<>>

(* While there is a session with the broker, every topic of a registered   *)
(* logical client is subscribed at the broker, or the client has been told *)
(* of the lost session (or will read of it in its queue) and has not       *)
(* subscribed anew.  No reconnect silently loses a subscription, whatever  *)
(* subscribes, receives and closes it interleaves with.                    *)
SubscriptionsCovered ==
  link = "up" =>
    \A c \in Registered :
      alive[c] /\ ~closed[c] =>
        \A t \in Entries(topics[c]) :
          t \in subs \/ t \in owed[c] \/ Rng(queue[c]) \cap Errors # {}

(* The shared connection implements LogicalChannels: a result reaches      *)
(* every registered logical client it concerns exactly once and in order,  *)
(* although clients_ is a vector of weak pointers that both async_recv and *)
(* async_subscribe append to and that is cleaned up lazily.                *)
Channels == INSTANCE LogicalChannels
              WITH members <- {c \in Registered : alive[c]},
                   interest <- [c \in Clients |-> Entries(topics[c])],
                   inbox <- queue
ImplementsChannels == Channels!ChannelSpec

(* A logical client hears every packet of a topic it has subscribed to,    *)
(* once, until it is closed: nothing else takes it out of clients_.        *)
SubscribersHear ==
  [][\A t \in Topics : PumpPacket(t) =>
       \A c \in Clients :
         alive[c] /\ ~closed[c] /\ t \in Entries(topics[c])
           => queue'[c] = Append(queue[c], t)]_vars

(* Closing the connection ends every receive: with the pump running, a     *)
(* registered reader that waits on a closed client returns, unless the     *)
(* reconnect loop brings the client back or the reader is detached.        *)
CloseReachesReaders ==
  \A r \in Readers :
    (phys = "Closed" /\ pump = "run" /\ rpc[r] = "wait"
       /\ Owner[r] \in Registered)
    ~> (rpc[r] = "idle" \/ phys = "Connected" \/ Owner[r] \notin Registered)
=============================================================================
