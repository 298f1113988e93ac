--------------------------- MODULE AsyncMqttClient ---------------------------
(***************************************************************************)
(* hacpp::mqtt::AsyncMqttClient (lib/include/hacpp/async_mqtt_client.h).   *)
(*                                                                         *)
(* The application runs a set of coroutines on one strand; each of them    *)
(* executes one member function of the client at a time.  A coroutine runs *)
(* without interleaving between two suspension points (a co_await of an    *)
(* operation of async_mqtt::client or of a timer), so every action below   *)
(* is the code from one suspension point to the next.  Calls between the   *)
(* client's own coroutines (async_recv -> async_handle_reconnect ->        *)
(* async_connect) do not suspend and are part of the same action.  Ready   *)
(* continuations may run in any order: the strand serialises them, it does *)
(* not say which completes first.                                          *)
(*                                                                         *)
(* async_mqtt::client (impl_) and the broker are external: link is the     *)
(* transport, and an awaited operation completes in any way link allows.   *)
(***************************************************************************)
EXTENDS ErrorMap, Naturals, FiniteSets

CONSTANTS
  Procs,            \* the application's coroutines
  Calls,            \* Calls[p]: the member functions that coroutine p calls
  MaxAttempts,      \* Connection::max_attempts
  MaxDelay,         \* max_delay of the reconnect back-off, in seconds
  ImplErrors        \* the error codes that operations of impl_ complete with

Operations == {"connect", "disconnect", "close", "publish0", "publish",
               "subscribe", "recv"}

ASSUME ClientAssumption ==
  /\ Procs # {}
  /\ Calls \in [Procs -> SUBSET Operations]
  /\ MaxAttempts \in Nat \ {0}
  /\ MaxDelay \in Nat \ {0}
  /\ ImplErrors # {}
  /\ \A ec \in ImplErrors : Failed(ec)

(* What the application sees of them.                                      *)
TransportErrors == {map_err(ec) : ec \in ImplErrors}

(* The coroutines that receive.  docs/client-lifecycle.md allows one.      *)
Receivers == {p \in Procs : "recv" \in Calls[p]}
SingleReceiver == \A p, q \in Receivers : p = q

(* The documented lifecycle (connect, set up, then run): the coroutine     *)
(* that receives is also the only one that connects.                       *)
ReceiverConnects ==
  \A p, q \in Procs :
    /\ Calls[p] \cap {"connect", "recv"} # {}
    /\ Calls[q] \cap {"connect", "recv"} # {}
    => p = q

VARIABLES
  state,     \* conn_.state
  attempt,   \* conn_.attempt
  pc,        \* pc[p]: where coroutine p is suspended ("idle": not in a call)
  op,        \* op[p]: the call p is in, or was in last
  res,       \* res[p]: what p's last call returned ("None" during a call)
  delay,     \* delay[p]: local of async_handle_reconnect, in seconds
  link,      \* impl_: "down", "tcp" (underlying handshake done), "up" (CONNACK)
  rxerr,     \* impl_ holds a receive error that async_recv has not returned
  tries,     \* history: connects p made in its reconnect loop, up to MaxAttempts
  shut       \* history: the application closed the client, no connect since

vars == <<state, attempt, pc, op, res, delay, link, rxerr, tries, shut>>

States == {"Closed", "Connected", "Reconnecting"}
Labels == {"idle", "handshake", "start", "acked", "closing", "closed", "wait",
           "woken", "pid", "send", "lost", "recv", "backoff"}
Results == ErrorCode \cup {"None", "Packet"}

TypeOK ==
  /\ state \in States
  /\ attempt \in Nat
  /\ pc \in [Procs -> Labels]
  /\ op \in [Procs -> Operations \cup {"none"}]
  /\ res \in [Procs -> Results]
  /\ delay \in [Procs -> 1..MaxDelay]
  /\ link \in {"down", "tcp", "up"}
  /\ rxerr \in BOOLEAN
  /\ tries \in [Procs -> 0..MaxAttempts]
  /\ shut \in BOOLEAN

Init ==
  /\ state = "Closed"
  /\ attempt = 0
  /\ pc = [p \in Procs |-> "idle"]
  /\ op = [p \in Procs |-> "none"]
  /\ res = [p \in Procs |-> "None"]
  /\ delay = [p \in Procs |-> 1]
  /\ link = "down"
  /\ rxerr = FALSE
  /\ tries = [p \in Procs |-> 0]
  /\ shut = FALSE
-----------------------------------------------------------------------------
MinOf(a, b) == IF a < b THEN a ELSE b

(* p is inside the loop of async_handle_reconnect.                         *)
InLoop(p) ==
  op[p] = "recv" /\ pc[p] \in {"backoff", "handshake", "start", "acked"}

(* Coroutine p calls member function o and suspends at label l.            *)
Enter(p, o, l) ==
  /\ pc[p] = "idle"
  /\ o \in Calls[p]
  /\ pc' = [pc EXCEPT ![p] = l]
  /\ op' = [op EXCEPT ![p] = o]
  /\ res' = [res EXCEPT ![p] = "None"]

(* p's call returns r; the other coroutines are at pcs.                    *)
Return(p, r, pcs) ==
  /\ pc' = [pcs EXCEPT ![p] = "idle"]
  /\ res' = [res EXCEPT ![p] = r]

(* MUTANT of CancelWait: the timer is not cancelled.                       *)
CancelWaitForgotten(pcs) == pcs

(* conn_.autorec_wait_timer.cancel(): every waiter gets operation_aborted. *)
CancelWait(pcs) ==
  [q \in Procs |-> IF pcs[q] = "wait" THEN "woken" ELSE pcs[q]]

(* The operations impl_ has in flight when its connection ends.            *)
LoseSends(pcs) ==
  [q \in Procs |-> IF pcs[q] = "send" THEN "lost" ELSE pcs[q]]

(* impl_ gives up the connection it has, for transport state l.  If it was *)
(* up, the receive will fail.                                              *)
LinkTo(l) ==
  /\ link' = l
  /\ rxerr' = (rxerr \/ link = "up")

(* The connection drops: broker or network outage.                         *)
Drop ==
  /\ link # "down"
  /\ LinkTo("down")
  /\ pc' = LoseSends(pc)
  /\ UNCHANGED <<state, attempt, op, res, delay, tries, shut>>
-----------------------------------------------------------------------------
(* async_connect, called by the application: up to its first suspension.   *)
AsyncConnect(p) ==
  /\ Enter(p, "connect", "handshake")
  /\ shut' = FALSE
  /\ UNCHANGED <<state, attempt, delay, link, rxerr, tries>>

(* The underlying handshake succeeds, and async_start is called.  The      *)
(* handshake opens the socket anew: a connection that was up is lost.      *)
HandshakeOk(p) ==
  /\ pc[p] = "handshake"
  /\ LinkTo("tcp")
  /\ pc' = LoseSends([pc EXCEPT ![p] = "start"])
  /\ UNCHANGED <<state, attempt, op, res, delay, tries, shut>>

(* MUTANTS of LoopTest: the loop ends one attempt early; giving up does    *)
(* not close.                                                              *)
LoopTestOneEarly(p, e, s, pcs) ==
  /\ attempt' = attempt + 1
  /\ IF attempt + 1 < MaxAttempts
     THEN state' = s /\ pc' = [pcs EXCEPT ![p] = "backoff"] /\ UNCHANGED res
     ELSE state' = "Closed" /\ Return(p, e, CancelWait(pcs))
LoopTestNoClose(p, e, s, pcs) ==
  /\ attempt' = attempt + 1
  /\ state' = s
  /\ IF attempt < MaxAttempts
     THEN pc' = [pcs EXCEPT ![p] = "backoff"] /\ UNCHANGED res
     ELSE Return(p, e, CancelWait(pcs))

(* The head of the reconnect loop, conn_.attempt++ < conn_.max_attempts,   *)
(* with conn_.state = s and the loop's err = e: start the back-off timer,  *)
(* or give up, close, wake the waiters and return e.                       *)
LoopTest(p, e, s, pcs) ==
  /\ attempt' = attempt + 1
  /\ \/ /\ attempt < MaxAttempts
        /\ state' = s
        /\ pc' = [pcs EXCEPT ![p] = "backoff"]
        /\ UNCHANGED res
     \/ /\ attempt >= MaxAttempts
        /\ state' = "Closed"
        /\ Return(p, e, CancelWait(pcs))

(* async_connect returns the error e, to the application or to the loop.   *)
ConnectFails(p, e, pcs) ==
  \/ /\ op[p] = "connect"
     /\ Return(p, e, pcs)
     /\ UNCHANGED <<state, attempt, tries>>
  \/ /\ op[p] = "recv"
     /\ tries' = [tries EXCEPT ![p] = MinOf(tries[p] + 1, MaxAttempts)]
     /\ LoopTest(p, e, state, pcs)

(* The handshake fails, before the socket is opened anew (name resolution) *)
(* or after it.                                                            *)
HandshakeFail(p) ==
  /\ pc[p] = "handshake"
  /\ \E e \in TransportErrors :
       \/ UNCHANGED <<link, rxerr>> /\ ConnectFails(p, e, pc)
       \/ LinkTo("down") /\ ConnectFails(p, e, LoseSends(pc))
  /\ UNCHANGED <<op, delay, shut>>

(* The broker accepts: impl_ is connected, async_start is about to resume. *)
(* A receive error of the former connection may be discarded.              *)
ConnAck(p) ==
  /\ pc[p] = "start"
  /\ link = "tcp"
  /\ link' = "up"
  /\ rxerr' \in {rxerr, FALSE}
  /\ pc' = [pc EXCEPT ![p] = "acked"]
  /\ UNCHANGED <<state, attempt, op, res, delay, tries, shut>>

(* MUTANT of ConnectDone: the attempts are not reset.                      *)
ConnectDoneNoReset(p) ==
  /\ pc[p] = "acked"
  /\ state' = "Connected"
  /\ \/ op[p] = "connect" /\ Return(p, "Success", pc)
     \/ op[p] = "recv" /\ Return(p, "SessionReset", CancelWait(pc))
  /\ UNCHANGED <<attempt, op, delay, link, rxerr, tries, shut>>

(* async_connect returns Success.  The reconnect loop then wakes the       *)
(* waiters and makes async_recv return SessionReset.                       *)
ConnectDone(p) ==
  /\ pc[p] = "acked"
  /\ state' = "Connected"
  /\ attempt' = 0
  /\ \/ op[p] = "connect" /\ Return(p, "Success", pc)
     \/ op[p] = "recv" /\ Return(p, "SessionReset", CancelWait(pc))
  /\ UNCHANGED <<op, delay, link, rxerr, tries, shut>>

(* async_start fails: CONNACK refused, or the connection was lost.         *)
StartFail(p) ==
  /\ pc[p] = "start"
  /\ link' = IF link = "tcp" THEN "down" ELSE link
  /\ \E e \in TransportErrors : ConnectFails(p, e, pc)
  /\ UNCHANGED <<op, delay, rxerr, shut>>
-----------------------------------------------------------------------------
(* async_close and async_disconnect up to their suspension.                *)
AsyncClose(p) ==
  /\ \E o \in {"close", "disconnect"} : Enter(p, o, "closing")
  /\ UNCHANGED <<state, attempt, delay, link, rxerr, tries, shut>>

(* impl_ ends the connection.  A disconnect may leave that to the broker   *)
(* or fail; the code after it runs either way.                             *)
ImplClosed(p) ==
  /\ pc[p] = "closing"
  /\ \/ LinkTo("down") /\ pc' = LoseSends([pc EXCEPT ![p] = "closed"])
     \/ /\ op[p] = "disconnect"
        /\ pc' = [pc EXCEPT ![p] = "closed"]
        /\ UNCHANGED <<link, rxerr>>
  /\ UNCHANGED <<state, attempt, op, res, delay, tries, shut>>

(* MUTANT of CloseDone: the waiters are not woken.                         *)
CloseDoneNoCancel(p) ==
  /\ pc[p] = "closed"
  /\ state' = "Closed"
  /\ shut' = TRUE
  /\ \E r \in TransportErrors \cup {"Success"} : Return(p, r, pc)
  /\ UNCHANGED <<attempt, op, delay, link, rxerr, tries>>

(* async_close and async_disconnect after the co_await, error or not.      *)
CloseDone(p) ==
  /\ pc[p] = "closed"
  /\ state' = "Closed"
  /\ shut' = TRUE
  /\ \E r \in TransportErrors \cup {"Success"} : Return(p, r, CancelWait(pc))
  /\ UNCHANGED <<attempt, op, delay, link, rxerr, tries>>
-----------------------------------------------------------------------------
(* The label at which p suspends once it hands a packet to impl_: one that *)
(* is not connected refuses the packet.                                    *)
Transmit == IF link = "up" THEN "send" ELSE "lost"

(* async_publish and async_subscribe after the test for Reconnecting: fail *)
(* unless connected, acquire a packet id (not for QoS 0) and send.         *)
Proceed(p, o, pcs) ==
  \/ /\ state # "Connected"
     /\ Return(p, "NotConnected", pcs)
  \/ /\ state = "Connected"
     /\ pc' = [pcs EXCEPT ![p] = IF o = "publish0" THEN Transmit ELSE "pid"]
     /\ res' = [res EXCEPT ![p] = "None"]

(* async_publish (QoS 0: publish0) and async_subscribe up to their first   *)
(* suspension.                                                             *)
AsyncSend(p) ==
  /\ pc[p] = "idle"
  /\ \E o \in Calls[p] \cap {"publish0", "publish", "subscribe"} :
       /\ op' = [op EXCEPT ![p] = o]
       /\ \/ /\ state = "Reconnecting"
             /\ pc' = [pc EXCEPT ![p] = "wait"]
             /\ res' = [res EXCEPT ![p] = "None"]
          \/ /\ state # "Reconnecting"
             /\ Proceed(p, o, pc)
  /\ UNCHANGED <<state, attempt, delay, link, rxerr, tries, shut>>

(* async_wait_autoreconnect resumes.                                       *)
WaitDone(p) ==
  /\ pc[p] = "woken"
  /\ Proceed(p, op[p], pc)
  /\ UNCHANGED <<state, attempt, op, delay, link, rxerr, tries, shut>>

(* The packet id is there: send.  conn_.state is not looked at again.      *)
AcquirePid(p) ==
  /\ pc[p] = "pid"
  /\ pc' = [pc EXCEPT ![p] = Transmit]
  /\ UNCHANGED <<state, attempt, op, res, delay, link, rxerr, tries, shut>>

(* The send completes: acknowledged by the broker, or with an error, also  *)
(* when the connection is lost under it.  A publish with QoS 0 is complete *)
(* when it is written, to a connection that is already dead too.           *)
SendDone(p) ==
  /\ pc[p] \in {"send", "lost"}
  /\ \E r \in TransportErrors \cup {"Success"} :
       /\ r = "Success" => pc[p] = "send" \/ op[p] = "publish0"
       /\ Return(p, r, pc)
  /\ UNCHANGED <<state, attempt, op, delay, link, rxerr, tries, shut>>
-----------------------------------------------------------------------------
(* async_recv up to its suspension.                                        *)
AsyncRecv(p) ==
  /\ Enter(p, "recv", "recv")
  /\ UNCHANGED <<state, attempt, delay, link, rxerr, tries, shut>>

(* A packet, or a completion without one.  Packets received before the     *)
(* connection was lost are still delivered.                                *)
RecvOk(p) ==
  /\ pc[p] = "recv"
  /\ link = "up" \/ rxerr
  /\ \E r \in {"Packet", "InvalidPacket"} : Return(p, r, pc)
  /\ UNCHANGED <<state, attempt, op, delay, link, rxerr, tries, shut>>

(* MUTANT of RecvFail: the loop starts without leaving Connected.          *)
RecvFailStaysConnected(p) ==
  /\ pc[p] = "recv"
  /\ rxerr
  /\ rxerr' = FALSE
  /\ IF state # "Connected"
     THEN /\ Return(p, IF state = "Closed" THEN "Disconnected"
                                           ELSE "InternalError", pc)
          /\ UNCHANGED <<state, attempt, delay, tries>>
     ELSE /\ delay' = [delay EXCEPT ![p] = 1]
          /\ tries' = [tries EXCEPT ![p] = 0]
          /\ LoopTest(p, "Success", state, CancelWait(pc))
  /\ UNCHANGED <<op, link, shut>>

(* The receive fails: async_handle_reconnect up to its first suspension.   *)
(* Its expires_at cancels the waits that are pending.                      *)
RecvFail(p) ==
  /\ pc[p] = "recv"
  /\ rxerr
  /\ rxerr' = FALSE
  /\ \/ /\ state = "Closed"
        /\ Return(p, "Disconnected", pc)
        /\ UNCHANGED <<state, attempt, delay, tries>>
     \/ /\ state = "Reconnecting"
        /\ Return(p, "InternalError", pc)
        /\ UNCHANGED <<state, attempt, delay, tries>>
     \/ /\ state = "Connected"
        /\ delay' = [delay EXCEPT ![p] = 1]
        /\ tries' = [tries EXCEPT ![p] = 0]
        /\ LoopTest(p, "Success", "Reconnecting", CancelWait(pc))
  /\ UNCHANGED <<op, link, shut>>

(* MUTANT of BackoffFires: the delay is not capped.                        *)
BackoffFiresUncapped(p) ==
  /\ pc[p] = "backoff"
  /\ pc' = [pc EXCEPT ![p] = "handshake"]
  /\ delay' = [delay EXCEPT ![p] = 2 * delay[p]]
  /\ UNCHANGED <<state, attempt, op, res, link, rxerr, tries, shut>>

(* The back-off timer fires: the delay is doubled and async_connect called.*)
BackoffFires(p) ==
  /\ pc[p] = "backoff"
  /\ pc' = [pc EXCEPT ![p] = "handshake"]
  /\ delay' = [delay EXCEPT ![p] = MinOf(2 * delay[p], MaxDelay)]
  /\ UNCHANGED <<state, attempt, op, res, link, rxerr, tries, shut>>
-----------------------------------------------------------------------------
(* The application makes a call.                                           *)
Call(p) == AsyncConnect(p) \/ AsyncClose(p) \/ AsyncSend(p) \/ AsyncRecv(p)

(* A call that is suspended resumes.                                       *)
Resume(p) ==
  \/ HandshakeOk(p) \/ HandshakeFail(p)
  \/ ConnAck(p) \/ ConnectDone(p) \/ StartFail(p)
  \/ ImplClosed(p) \/ CloseDone(p)
  \/ WaitDone(p) \/ AcquirePid(p) \/ SendDone(p)
  \/ RecvFail(p) \/ BackoffFires(p)

Next == Drop \/ \E p \in Procs : Call(p) \/ Resume(p) \/ RecvOk(p)

Spec == Init /\ [][Next]_vars

(* Every operation of impl_ and every timer completes; a wait for the      *)
(* reconnect only ends when it is cancelled.  The application keeps coming *)
(* back to its receive loop, and a receive error is delivered there once   *)
(* the packets received before it are used up.                             *)
Fairness ==
  /\ \A p \in Procs : WF_vars(Resume(p))
  /\ \A p \in Receivers : SF_vars(RecvFail(p))
  /\ \A p \in Receivers : SF_vars(AsyncRecv(p))

FairSpec == Spec /\ Fairness
-----------------------------------------------------------------------------
(* A publish or subscribe that waits for the reconnect has someone to wake *)
(* it: while a coroutine waits on autorec_wait_timer the client is not     *)
(* closed and some coroutine is still in the loop of                       *)
(* async_handle_reconnect, whose every exit cancels the timer.  Closing    *)
(* the client, giving up and a connect by the application must not strand  *)
(* a waiter on a timer that never expires.                                 *)
WaiterHasWaker ==
  \A q \in Procs :
    pc[q] = "wait" => state # "Closed" /\ \E r \in Procs : InLoop(r)

(* async_handle_reconnect returns the err of its last attempt.  If its loop *)
(* body never ran, err would be Success and async_recv would report a       *)
(* failed receive as unexpected(Success).  That never happens with the one  *)
(* receiver the documentation allows: attempt is 0 whenever a loop starts.  *)
RecvNeverReportsSuccess ==
  SingleReceiver =>
    \A p \in Procs : pc[p] = "idle" /\ op[p] = "recv" => res[p] # "Success"

(* async_recv returns the error of an attempt only after max_attempts       *)
(* connects in that very loop: attempts left over from an earlier outage,   *)
(* or a close in the middle, never shorten it.  (Disconnected is also what  *)
(* a closed client answers, so it says nothing.)                            *)
FullRetryBudget ==
  SingleReceiver =>
    \A p \in Procs :
      /\ pc[p] = "idle"
      /\ op[p] = "recv"
      /\ res[p] \in TransportErrors \ {"Disconnected"}
      => tries[p] = MaxAttempts

(* A client that believes it is connected on a transport that is not has a *)
(* receive error on its way, so the receive loop will find out.  It holds  *)
(* when the coroutine that receives is also the one that connects: with a  *)
(* second one that connects, the receive error of its connection may be    *)
(* consumed between CONNACK and the resumption of async_connect.           *)
BrokenLinkIsNoticed ==
  ReceiverConnects => (state = "Connected" /\ link # "up" => rxerr)

(* Every publish, subscribe, connect, close and disconnect returns, those  *)
(* that wait for a reconnect included.                                     *)
CallsReturn ==
  \A p \in Procs \ Receivers : pc[p] # "idle" ~> pc[p] = "idle"

(* An outage of a connected client is handled: its transport comes back or *)
(* the client ends up Closed, never Connected or Reconnecting for ever.    *)
OutageHandled ==
  (state = "Connected" /\ link # "up") ~> (link = "up" \/ state = "Closed")

(* The client implements ReceiveClient, the interface the shared connection *)
(* is built on: with one receiver, conn_.state is Reconnecting only inside  *)
(* the loop of async_handle_reconnect, a loop is entered only from          *)
(* Connected, and it is left only Connected or Closed.                      *)
Promise == INSTANCE ReceiveClient
             WITH phys <- state, looping <- \E r \in Procs : InLoop(r)
ImplementsReceiveClient == Promise!ClientSpec

(* SessionReset is the loop's own answer: no error of the transport is     *)
(* mapped to it, and a call returns it only out of the loop and with the   *)
(* client connected.  An entity replays its setup on the strength of it.   *)
ResetMeansConnected ==
  [][\A p \in Procs :
       (pc[p] # "idle" /\ pc'[p] = "idle" /\ res'[p] = "SessionReset")
         => InLoop(p) /\ state' = "Connected" /\ attempt' = 0]_vars

(* Once the application has closed the client, and until it connects it    *)
(* again, the client does not become Connected (requirements.md            *)
(* REQ-F-CON-04, "immediate closure").                                     *)
ClosedStaysClosed == shut => state # "Connected"
=============================================================================
