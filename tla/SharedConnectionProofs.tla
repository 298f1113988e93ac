------------------------ MODULE SharedConnectionProofs ------------------------
(***************************************************************************)
(* Proofs about SharedConnection: type correctness, the wakeups of         *)
(* RecvResultQueue, the subscriptions of logical clients, and that the     *)
(* shared connection implements LogicalChannels; for any number of logical *)
(* clients, readers and topics, and queues of any length.                  *)
(***************************************************************************)
EXTENDS SharedConnection, SequenceTheorems, TLAPS

(* A logical client that has subscribed, and was not closed, is registered.*)
SubscribersRegistered ==
  \A c \in Clients :
    alive[c] /\ ~closed[c] /\ Entries(topics[c]) # {} => c \in Registered

(* A subscribe whose answer has arrived is in the session, if there is one.*)
AckedIsSubscribed ==
  link = "up" =>
    \A c \in Clients : spc[c] = "acked" /\ want[c] \in Topics => want[c] \in subs

(* A logical client outlives the sends that it has under way.              *)
SendersAlive == \A c \in Clients : spc[c] # "idle" => alive[c]

(* SubscriptionsCovered made inductive: it holds of every logical client   *)
(* that is not closed, because such a client is registered if it has       *)
(* subscribed at all.                                                      *)
TopicsCovered ==
  link = "up" =>
    \A c \in Clients :
      alive[c] /\ ~closed[c] =>
        \A t \in Entries(topics[c]) :
          t \in subs \/ t \in owed[c] \/ Rng(queue[c]) \cap Errors # {}

(* The inductive invariant of the proofs below.                            *)
IndInv ==
  /\ SharedTypeOK
  /\ NoLostWakeup
  /\ NoEmptyWakeup
  /\ SubscribersRegistered
  /\ AckedIsSubscribed
  /\ TopicsCovered
  /\ SendersAlive
-----------------------------------------------------------------------------
(* What pushing to and popping from a queue do to its elements.            *)
LEMMA QueueFacts ==
  ASSUME NEW S, NEW s \in Seq(S), NEW v \in S
  PROVE  /\ s \o [i \in 1..0 |-> v] = s
         /\ s \o [i \in 1..1 |-> v] = Append(s, v)
         /\ Append(s, v) \in Seq(S)
         /\ Append(s, v) # <<>>
         /\ Rng(Append(s, v)) = Rng(s) \cup {v}
         /\ s # <<>> => /\ Head(s) \in S
                        /\ Tail(s) \in Seq(S)
                        /\ Rng(s) = Rng(Tail(s)) \cup {Head(s)}
<1>1. [i \in 1..0 |-> v] = <<>> /\ [i \in 1..1 |-> v] = <<v>>
  OBVIOUS
<1>2. s \o [i \in 1..0 |-> v] = s
  BY <1>1, ConcatEmptySeq
<1>3. s \o [i \in 1..1 |-> v] = Append(s, v)
  BY <1>1, AppendIsConcat
<1>4. Append(s, v) \in Seq(S) /\ Append(s, v) # <<>>
  BY AppendProperties, EmptySeq
<1>5. Rng(Append(s, v)) = Rng(s) \cup {v}
  <2>1. /\ Len(s) \in Nat /\ DOMAIN s = 1..Len(s)
        /\ DOMAIN Append(s, v) = 1..(Len(s) + 1)
    BY <1>4, AppendProperties, LenProperties
  <2>2. /\ \A i \in 1..Len(s) : Append(s, v)[i] = s[i]
        /\ Append(s, v)[Len(s) + 1] = v
    BY AppendProperties
  <2>3. 1..(Len(s) + 1) = (1..Len(s)) \cup {Len(s) + 1}
    BY <2>1
  <2> QED BY <2>1, <2>2, <2>3 DEF Rng
<1>6. ASSUME s # <<>>
      PROVE  /\ Head(s) \in S
             /\ Tail(s) \in Seq(S)
             /\ Rng(s) = Rng(Tail(s)) \cup {Head(s)}
  <2>1. Head(s) \in S /\ Tail(s) \in Seq(S)
    BY <1>6, HeadTailProperties
  <2>2. /\ Len(s) \in Nat \ {0} /\ DOMAIN s = 1..Len(s)
        /\ Len(Tail(s)) = Len(s) - 1 /\ DOMAIN Tail(s) = 1..(Len(s) - 1)
        /\ \A i \in 1..(Len(s) - 1) : Tail(s)[i] = s[i + 1]
        /\ Head(s) = s[1]
    BY <1>6, <2>1, EmptySeq, HeadTailProperties, LenProperties
  <2>3. ASSUME NEW i \in 1..Len(s)
        PROVE  s[i] \in Rng(Tail(s)) \cup {Head(s)}
    <3>1. CASE i = 1
      BY <2>2, <3>1
    <3>2. CASE i # 1
      <4>1. i - 1 \in 1..(Len(s) - 1) /\ s[i] = Tail(s)[i - 1]
        BY <2>2, <3>2
      <4> QED BY <2>2, <4>1 DEF Rng
    <3> QED BY <3>1, <3>2
  <2>4. \A i \in 1..(Len(s) - 1) : i + 1 \in 1..Len(s)
    BY <2>2
  <2>5. Rng(s) \subseteq Rng(Tail(s)) \cup {Head(s)}
    BY <2>2, <2>3 DEF Rng
  <2>6. Rng(Tail(s)) \cup {Head(s)} \subseteq Rng(s)
    BY <2>2, <2>4 DEF Rng
  <2> QED BY <2>1, <2>5, <2>6
<1> QED BY <1>2, <1>3, <1>4, <1>5, <1>6

(* Copies: a result goes to a logical client at most once, and it goes to  *)
(* every live registered client that it concerns.                          *)
LEMMA CopiesFacts ==
  ASSUME SharedTypeOK, NEW c \in Clients, NEW v \in Results
  PROVE  /\ Copies(c, v) \in {0, 1}
         /\ Copies(c, v) = 1 <=> /\ alive[c] /\ c \in Registered
                                 /\ v \in Errors \/ v \in Entries(topics[c])
<1>1. clients[c] \in {0, 1} /\ (c \in Registered <=> clients[c] = 1)
  BY DEF SharedTypeOK, Registered, Entries
<1>2. CASE v \in Errors
  BY <1>1, <1>2 DEF Copies
<1>3. CASE v \notin Errors
  <2>1. v \in Topics
    BY <1>3 DEF Results
  <2>2. topics[c][v] \in {0, 1} /\ (v \in Entries(topics[c]) <=> topics[c][v] = 1)
    BY <2>1 DEF SharedTypeOK, Entries
  <2> QED BY <1>1, <1>3, <2>2 DEF Copies
<1> QED BY <1>2, <1>3

(* Dispatch: every client's queue grows by the result or stays as it is,   *)
(* and readers wake up exactly where it grows.                             *)
LEMMA DispatchFacts ==
  ASSUME SharedTypeOK, NEW v \in Results, Dispatch(v)
  PROVE  /\ queue' = [c \in Clients |-> IF Copies(c, v) = 1 THEN Append(queue[c], v)
                                                            ELSE queue[c]]
         /\ rpc' = [r \in Readers |->
                      IF rpc[r] = "wait" /\ Copies(Owner[r], v) = 1 THEN "woken"
                                                                    ELSE rpc[r]]
         /\ queue' \in [Clients -> Seq(Results)]
         /\ rpc' \in [Readers -> {"idle", "wait", "woken"}]
<1>1. ASSUME NEW c \in Clients
      PROVE  /\ queue[c] \o [i \in 1..Copies(c, v) |-> v]
                  = IF Copies(c, v) = 1 THEN Append(queue[c], v) ELSE queue[c]
             /\ Append(queue[c], v) \in Seq(Results)
             /\ queue[c] \in Seq(Results)
  <2>1. queue[c] \in Seq(Results)
    BY DEF SharedTypeOK
  <2> QED BY <2>1, CopiesFacts, QueueFacts
<1>2. queue' = [c \in Clients |-> IF Copies(c, v) = 1 THEN Append(queue[c], v)
                                                      ELSE queue[c]]
  BY <1>1 DEF Dispatch
<1>3. rpc' = [r \in Readers |->
                IF rpc[r] = "wait" /\ Copies(Owner[r], v) = 1 THEN "woken"
                                                              ELSE rpc[r]]
  <2>1. \A r \in Readers : Copies(Owner[r], v) \in {0, 1}
    BY CopiesFacts, SharedAssumption DEF SharedAssumption
  <2> QED BY <2>1 DEF Dispatch
<1> QED BY <1>1, <1>2, <1>3 DEF SharedTypeOK

(* Register and AddTopic leave one entry at most, and add nothing else;    *)
(* remove_expired_clients takes out exactly the clients that are gone.     *)
LEMMA RegisterFacts ==
  ASSUME SharedTypeOK, NEW c \in Clients, Register(c)
  PROVE  /\ clients' \in [Clients -> {0, 1}]
         /\ Entries(clients') = Registered \cup {c}
<1>1. clients \in [Clients -> {0, 1}] /\ (c \in Registered <=> clients[c] = 1)
  BY DEF SharedTypeOK, Registered, Entries
<1>2. CASE c \in Registered
  BY <1>1, <1>2 DEF Register, Registered
<1>3. CASE c \notin Registered
  <2>1. clients[c] + 1 = 1
    BY <1>1, <1>3
  <2>2. clients' = [clients EXCEPT ![c] = 1]
    BY <1>3, <2>1 DEF Register
  <2> QED BY <1>1, <2>2 DEF Registered, Entries
<1> QED BY <1>2, <1>3

LEMMA AddTopicFacts ==
  ASSUME NEW ts \in [Topics -> {0, 1}], NEW t \in Topics
  PROVE  /\ AddTopic(ts, t) \in [Topics -> {0, 1}]
         /\ Entries(AddTopic(ts, t)) = Entries(ts) \cup {t}
<1>1. CASE t \in Entries(ts)
  BY <1>1 DEF AddTopic
<1>2. CASE t \notin Entries(ts)
  <2>1. ts[t] + 1 = 1
    BY <1>2 DEF Entries
  <2>2. AddTopic(ts, t) = [ts EXCEPT ![t] = 1]
    BY <1>2, <2>1 DEF AddTopic
  <2> QED BY <2>2 DEF Entries
<1> QED BY <1>1, <1>2

LEMMA LiveFacts ==
  ASSUME SharedTypeOK
  PROVE  /\ Live(clients) \in [Clients -> {0, 1}]
         /\ Entries(Live(clients)) = {c \in Registered : alive[c]}
BY DEF SharedTypeOK, Live, Entries, Registered

(* PumpAgain takes no client out of clients_ but those that are gone.      *)
LEMMA PumpAgainFacts ==
  ASSUME SharedTypeOK, PumpAgain
  PROVE  /\ pump' \in {"off", "run", "one"}
         /\ clients' \in [Clients -> {0, 1}]
         /\ Entries(clients') \subseteq Registered
         /\ \A c \in Registered : alive[c] => c \in Entries(clients')
<1>1. clients \in [Clients -> {0, 1}]
  BY DEF SharedTypeOK
<1> QED BY <1>1, LiveFacts DEF PumpAgain, Registered

(* PopFront: the queue of the reader's client loses its oldest result, and *)
(* a result that is an error makes the client owe what it had subscribed.  *)
LEMMA PopFrontFacts ==
  ASSUME SharedTypeOK, NEW r \in Readers, PopFront(r)
  PROVE  /\ rpc' = [rpc EXCEPT ![r] = "idle"]
         /\ queue' \in [Clients -> Seq(Results)]
         /\ owed' \in [Clients -> SUBSET Topics]
         /\ \A c \in Clients :
              /\ c # Owner[r] => queue'[c] = queue[c] /\ owed'[c] = owed[c]
              /\ queue[c] = <<>> => queue'[c] = <<>>
              /\ owed[c] \subseteq owed'[c]
              /\ \/ Rng(queue[c]) \cap Errors = Rng(queue'[c]) \cap Errors
                 \/ Entries(topics[c]) \subseteq owed'[c]
<1> DEFINE d == Owner[r]
<1>0. /\ d \in Clients /\ queue[d] \in Seq(Results) /\ owed[d] \in SUBSET Topics
      /\ Entries(topics[d]) \subseteq Topics
      /\ queue \in [Clients -> Seq(Results)] /\ owed \in [Clients -> SUBSET Topics]
  BY SharedAssumption DEF SharedAssumption, SharedTypeOK, Entries
<1>1. /\ rpc' = [rpc EXCEPT ![r] = "idle"]
      /\ queue' = [queue EXCEPT ![d] = IF queue[d] = <<>> THEN queue[d] ELSE Tail(queue[d])]
      /\ owed' = IF Result(r) \in Errors
                 THEN [owed EXCEPT ![d] = owed[d] \cup Entries(topics[d])] ELSE owed
  BY DEF PopFront
<1>2. CASE queue[d] = <<>>
  <2>1. queue' = queue
    BY <1>0, <1>1, <1>2
  <2>2. owed' = owed
    BY <1>1, <1>2 DEF Result, Errors
  <2> QED BY <1>0, <1>1, <2>1, <2>2
<1>3. CASE queue[d] # <<>>
  <2>1. /\ Head(queue[d]) \in Results
        /\ Tail(queue[d]) \in Seq(Results)
        /\ Rng(queue[d]) = Rng(Tail(queue[d])) \cup {Head(queue[d])}
    <3>1. "Fatal" \in Results
      BY DEF Results, Errors
    <3> QED BY <1>0, <1>3, <3>1, QueueFacts
  <2>2. queue' = [queue EXCEPT ![d] = Tail(queue[d])]
    BY <1>1, <1>3
  <2>3. Result(r) = Head(queue[d])
    BY <1>3 DEF Result
  <2>4. /\ queue' \in [Clients -> Seq(Results)]
        /\ queue'[d] = Tail(queue[d])
        /\ \A c \in Clients : c # d => queue'[c] = queue[c]
    BY <1>0, <2>1, <2>2
  <2>5. CASE Head(queue[d]) \in Errors
    <3>1. owed' = [owed EXCEPT ![d] = owed[d] \cup Entries(topics[d])]
      BY <1>1, <2>3, <2>5
    <3>2. /\ owed' \in [Clients -> SUBSET Topics]
          /\ owed'[d] = owed[d] \cup Entries(topics[d])
          /\ \A c \in Clients : c # d => owed'[c] = owed[c]
      BY <1>0, <3>1
    <3> QED BY <1>0, <1>1, <1>3, <2>4, <3>2
  <2>6. CASE Head(queue[d]) \notin Errors
    <3>1. owed' = owed
      BY <1>1, <2>3, <2>6
    <3>2. Rng(queue[d]) \cap Errors = Rng(queue'[d]) \cap Errors
      BY <2>1, <2>4, <2>6
    <3> QED BY <1>0, <1>1, <1>3, <2>4, <3>1, <3>2
  <2> QED BY <2>5, <2>6
<1> QED BY <1>2, <1>3

(* Waking and losing sends keep the labels of sends well-typed, and only   *)
(* losing sends takes them out of "sent".                                  *)
LEMMA SendFacts ==
  ASSUME SharedTypeOK, NEW s \in {spc, WakeSends}
  PROVE  /\ s \in [Clients -> {"idle", "wait", "woken", "sent", "lost", "acked"}]
         /\ LoseSends(s) \in [Clients -> {"idle", "wait", "woken", "sent", "lost", "acked"}]
         /\ \A c \in Clients : /\ s[c] = "sent" <=> spc[c] = "sent"
                               /\ s[c] = "acked" <=> spc[c] = "acked"
                               /\ LoseSends(s)[c] # "sent"
                               /\ LoseSends(s)[c] = "acked" <=> spc[c] = "acked"
BY DEF SharedTypeOK, WakeSends, LoseSends
-----------------------------------------------------------------------------
(* The initial state satisfies the inductive invariant.                    *)
LEMMA InitInv == Init => IndInv
<1> SUFFICES ASSUME Init PROVE IndInv
  OBVIOUS
<1>1. SharedTypeOK
  <2>1. <<>> \in Seq(Results)
    BY EmptySeq
  <2>2. (CHOOSE t \in Topics : TRUE) \in Topics
    BY SharedAssumption DEF SharedAssumption
  <2> QED BY <2>1, <2>2 DEF Init, SharedTypeOK, ClientInit, ClientTypeOK
<1>2. \A c \in Clients : Entries(topics[c]) = {}
  BY DEF Init, Entries
<1>3. NoLostWakeup /\ NoEmptyWakeup
  BY DEF Init, NoLostWakeup, NoEmptyWakeup
<1>4. SubscribersRegistered /\ AckedIsSubscribed /\ TopicsCovered /\ SendersAlive
  BY <1>2
     DEF Init, SubscribersRegistered, AckedIsSubscribed, TopicsCovered, SendersAlive
<1> QED BY <1>1, <1>3, <1>4 DEF IndInv

(* Types: every step keeps the variables in their types, registers nobody  *)
(* and nothing twice, and leaves no subscription on a lost session.        *)
LEMMA TypeStep == SharedTypeOK /\ [Next]_vars => SharedTypeOK'
<1> SUFFICES ASSUME SharedTypeOK, [Next]_vars PROVE SharedTypeOK'
  OBVIOUS
<1> USE DEF SharedTypeOK, ClientTypeOK
<1>0. \A c \in Clients : Entries(topics[c]) \subseteq Topics
  BY DEF Entries
<1>1. CASE AsyncConnect
  BY <1>0, <1>1 DEF AsyncConnect, AppConnect
<1>2. CASE AsyncClose
  <2>1. spc' = LoseSends(WakeSends)
    BY <1>2 DEF AsyncClose
  <2> QED BY <1>2, <2>1, SendFacts DEF AsyncClose, AppClose
<1>3. CASE Drop
  <2>1. spc' = LoseSends(spc)
    BY <1>3 DEF Drop
  <2> QED BY <1>3, <2>1, SendFacts DEF Drop
<1>4. ASSUME NEW m \in {"run", "one"}, PumpStart(m) PROVE SharedTypeOK'
  BY <1>4, LiveFacts DEF PumpStart, conn
<1>5. ASSUME NEW t \in Topics, PumpPacket(t) PROVE SharedTypeOK'
  <2>1. t \in Results /\ Dispatch(t) /\ PumpAgain
    BY <1>5 DEF PumpPacket, Results
  <2> QED BY <1>5, <2>1, DispatchFacts, PumpAgainFacts DEF PumpPacket, conn
<1>6. CASE PumpOther
  <2>1. PumpAgain
    BY <1>6 DEF PumpOther
  <2> QED BY <1>6, <2>1, PumpAgainFacts DEF PumpOther, conn
<1>7. CASE PumpLoses
  BY <1>7 DEF PumpLoses, LoseLink
<1>8. CASE PumpReset
  <2>1. "SessionReset" \in Results /\ Dispatch("SessionReset") /\ PumpAgain
    BY <1>8 DEF PumpReset, Results, Errors
  <2> QED BY <1>8, <2>1, DispatchFacts, PumpAgainFacts, SendFacts DEF PumpReset, Reset
<1>9. CASE PumpGaveUp \/ PumpClosed \/ PumpInvalid
  <2>1. PumpEnds
    BY <1>9 DEF PumpGaveUp, PumpClosed, PumpInvalid
  <2>2. "Fatal" \in Results /\ Dispatch("Fatal")
    BY <2>1 DEF PumpEnds, Results, Errors
  <2>3. /\ phys' \in {"Closed", "Connected", "Reconnecting"} /\ looping' \in BOOLEAN
        /\ spc' \in [Clients -> {"idle", "wait", "woken", "sent", "lost", "acked"}]
        /\ \A c \in Clients : spc'[c] = "sent" => spc[c] = "sent"
    <3>1. spc' = WakeSends \/ spc' = spc
      BY <1>9 DEF PumpGaveUp, PumpClosed, PumpInvalid
    <3> QED BY <1>9, <3>1, SendFacts DEF PumpGaveUp, PumpClosed, PumpInvalid, GiveUp
  <2> QED BY <2>1, <2>2, <2>3, DispatchFacts DEF PumpEnds
<1>10. ASSUME NEW c \in Clients, NEW w \in Sends[c], Send(c, w) PROVE SharedTypeOK'
  <2>1. w \in Topics \cup Publishes
    BY SharedAssumption DEF SharedAssumption
  <2> QED BY <1>10, <2>1 DEF Send, Written, conn
<1>11. ASSUME NEW c \in Clients, SendWoken(c) \/ SendFails(c) \/ SendAcked(c)
       PROVE  SharedTypeOK'
  BY <1>11 DEF SendWoken, SendFails, SendAcked, Written, conn
<1>12. ASSUME NEW c \in Clients, SendDone(c) PROVE SharedTypeOK'
  <2>1. CASE want[c] \in Topics
    <3>1. Register(c) /\ topics' = [topics EXCEPT ![c] = AddTopic(topics[c], want[c])]
      BY <1>12, <2>1 DEF SendDone
    <3>2. AddTopic(topics[c], want[c]) \in [Topics -> {0, 1}]
      BY <2>1, AddTopicFacts
    <3>3. clients' \in [Clients -> {0, 1}]
      BY <3>1, RegisterFacts
    <3> QED BY <1>12, <2>1, <3>1, <3>2, <3>3 DEF SendDone, conn
  <2>2. CASE want[c] \notin Topics
    BY <1>12, <2>2 DEF SendDone, conn
  <2> QED BY <2>1, <2>2
<1>13. ASSUME NEW r \in Readers, AsyncRecv(r) PROVE SharedTypeOK'
  <2>1. Owner[r] \in Clients /\ Register(Owner[r])
    BY <1>13, SharedAssumption DEF AsyncRecv, SharedAssumption
  <2>2. clients' \in [Clients -> {0, 1}]
    BY <2>1, RegisterFacts
  <2>3. CASE PopFront(r)
    BY <1>13, <2>2, <2>3, PopFrontFacts DEF AsyncRecv, conn
  <2>4. CASE ~PopFront(r)
    BY <1>13, <2>2, <2>4 DEF AsyncRecv, conn
  <2> QED BY <2>3, <2>4
<1>14. ASSUME NEW r \in Readers, RecvWoken(r) PROVE SharedTypeOK'
  <2>1. PopFront(r)
    BY <1>14 DEF RecvWoken
  <2> QED BY <1>14, <2>1, PopFrontFacts DEF RecvWoken, conn
<1>15. ASSUME NEW c \in Clients, Detach(c) PROVE SharedTypeOK'
  BY <1>15 DEF Detach, Without, conn
<1>16. ASSUME NEW c \in Clients, Destroy(c) PROVE SharedTypeOK'
  BY <1>16 DEF Destroy, conn
<1>17. CASE UNCHANGED vars
  BY <1>17 DEF vars
<1> QED BY <1>1, <1>2, <1>3, <1>4, <1>5, <1>6, <1>7, <1>8, <1>9, <1>10, <1>11, <1>12,
           <1>13, <1>14, <1>15, <1>16, <1>17 DEF Next, PumpStep, SendStep

(* Wakeups: a step that pushes to a queue wakes the readers that wait on   *)
(* it, a reader waits only after it has found its queue empty, and with    *)
(* one reader per client nobody empties the queue of a woken reader.       *)
LEMMA WakeupStep ==
  SharedTypeOK /\ NoLostWakeup /\ NoEmptyWakeup /\ [Next]_vars
    => NoLostWakeup' /\ NoEmptyWakeup'
<1> SUFFICES ASSUME SharedTypeOK, NoLostWakeup, NoEmptyWakeup, [Next]_vars
             PROVE  NoLostWakeup' /\ NoEmptyWakeup'
  OBVIOUS
<1>0. \A r \in Readers : Owner[r] \in Clients
  BY SharedAssumption DEF SharedAssumption
<1>1. ASSUME NEW v \in Results, Dispatch(v) PROVE NoLostWakeup' /\ NoEmptyWakeup'
  <2>1. ASSUME NEW r \in Readers
        PROVE  /\ rpc'[r] = "wait" => queue'[Owner[r]] = queue[Owner[r]] /\ rpc[r] = "wait"
               /\ rpc'[r] = "woken" => \/ queue'[Owner[r]] = Append(queue[Owner[r]], v)
                                       \/ rpc[r] = "woken" /\ queue'[Owner[r]] = queue[Owner[r]]
               /\ Append(queue[Owner[r]], v) # <<>>
    <3>1. queue[Owner[r]] \in Seq(Results) /\ Owner[r] \in Clients
      BY <1>0 DEF SharedTypeOK
    <3>2. Append(queue[Owner[r]], v) # <<>>
      BY <3>1, QueueFacts
    <3> QED BY <1>1, <3>1, <3>2, DispatchFacts
  <2> QED BY <2>1 DEF NoLostWakeup, NoEmptyWakeup
<1>2. ASSUME NEW r \in Readers, PopFront(r) PROVE NoLostWakeup' /\ NoEmptyWakeup'
  <2>1. NoLostWakeup'
    BY <1>0, <1>2, PopFrontFacts DEF NoLostWakeup, SharedTypeOK
  <2>2. ASSUME SingleReader, NEW s \in Readers, rpc'[s] = "woken"
        PROVE  queue'[Owner[s]] # <<>>
    <3>1. s # r /\ rpc[s] = "woken"
      BY <1>2, <2>2, PopFrontFacts DEF SharedTypeOK
    <3>2. Owner[s] # Owner[r]
      BY <2>2, <3>1 DEF SingleReader
    <3> QED BY <1>0, <1>2, <2>2, <3>1, <3>2, PopFrontFacts DEF NoEmptyWakeup
  <2> QED BY <2>1, <2>2 DEF NoEmptyWakeup
<1>3. CASE UNCHANGED <<queue, rpc>>
  BY <1>3 DEF NoLostWakeup, NoEmptyWakeup
<1>4. CASE PumpStep
  <2>1. CASE PumpOther \/ PumpLoses
    BY <1>3, <2>1 DEF PumpOther, PumpLoses
  <2>2. CASE PumpReset
    <3>1. Dispatch("SessionReset") /\ "SessionReset" \in Results
      BY <2>2 DEF PumpReset, Results, Errors
    <3> QED BY <1>1, <3>1
  <2>3. CASE PumpGaveUp \/ PumpClosed \/ PumpInvalid
    <3>1. Dispatch("Fatal") /\ "Fatal" \in Results
      BY <2>3 DEF PumpGaveUp, PumpClosed, PumpInvalid, PumpEnds, Results, Errors
    <3> QED BY <1>1, <3>1
  <2>4. ASSUME NEW t \in Topics, PumpPacket(t) PROVE NoLostWakeup' /\ NoEmptyWakeup'
    <3>1. Dispatch(t) /\ t \in Results
      BY <2>4 DEF PumpPacket, Results
    <3> QED BY <1>1, <3>1
  <2> QED BY <1>4, <2>1, <2>2, <2>3, <2>4 DEF PumpStep
<1>5. ASSUME NEW r \in Readers, AsyncRecv(r) PROVE NoLostWakeup' /\ NoEmptyWakeup'
  <2>1. CASE PopFront(r)
    BY <1>2, <2>1
  <2>2. CASE ~PopFront(r)
    <3>1. /\ queue[Owner[r]] = <<>> /\ queue' = queue
          /\ rpc' = [rpc EXCEPT ![r] = "wait"]
      BY <1>5, <2>2 DEF AsyncRecv
    <3> QED BY <3>1 DEF NoLostWakeup, NoEmptyWakeup, SharedTypeOK
  <2> QED BY <2>1, <2>2
<1>6. ASSUME NEW r \in Readers, RecvWoken(r) PROVE NoLostWakeup' /\ NoEmptyWakeup'
  BY <1>2, <1>6 DEF RecvWoken
<1>7. CASE \/ AsyncConnect \/ AsyncClose \/ Drop \/ UNCHANGED vars
           \/ \E m \in {"run", "one"} : PumpStart(m)
  BY <1>3, <1>7 DEF AsyncConnect, AsyncClose, Drop, PumpStart, vars
<1>8. ASSUME NEW c \in Clients,
             \/ \E w \in Sends[c] : Send(c, w)
             \/ SendStep(c) \/ Detach(c) \/ Destroy(c)
      PROVE  NoLostWakeup' /\ NoEmptyWakeup'
  BY <1>3, <1>8
     DEF Send, SendStep, SendWoken, SendFails, SendAcked, SendDone, Detach, Destroy
<1> QED BY <1>4, <1>5, <1>6, <1>7, <1>8 DEF Next

(* A subscriber stays registered: only its close and its destruction take  *)
(* it out of clients_, and a subscribe registers it.                       *)
LEMMA RegisteredStep ==
  SharedTypeOK /\ SubscribersRegistered /\ [Next]_vars => SubscribersRegistered'
<1> SUFFICES ASSUME SharedTypeOK, SubscribersRegistered, [Next]_vars
             PROVE  SubscribersRegistered'
  OBVIOUS
<1>1. CASE /\ UNCHANGED <<topics, alive, closed>>
           /\ \A c \in Registered : alive[c] => c \in Entries(clients')
  BY <1>1 DEF SubscribersRegistered, Registered
<1>2. CASE UNCHANGED <<clients, topics, alive, closed>>
  BY <1>1, <1>2 DEF Registered
<1>3. CASE PumpAgain /\ UNCHANGED <<topics, alive, closed>>
  BY <1>1, <1>3, PumpAgainFacts
<1>4. ASSUME NEW m \in {"run", "one"}, PumpStart(m) PROVE SubscribersRegistered'
  BY <1>1, <1>4, LiveFacts DEF PumpStart
<1>5. CASE PumpStep
  BY <1>2, <1>3, <1>5
     DEF PumpStep, PumpOther, PumpLoses, PumpReset, PumpGaveUp, PumpClosed, PumpInvalid,
         PumpEnds, PumpPacket
<1>6. ASSUME NEW c \in Clients, SendDone(c) PROVE SubscribersRegistered'
  <2>1. CASE want[c] \in Topics
    <3>1. /\ Register(c) /\ alive' = alive /\ closed' = closed
          /\ topics' = [topics EXCEPT ![c] = AddTopic(topics[c], want[c])]
      BY <1>6, <2>1 DEF SendDone
    <3>2. Entries(clients') = Registered \cup {c}
      BY <3>1, RegisterFacts
    <3>3. \A d \in Clients : d # c => topics'[d] = topics[d]
      BY <3>1 DEF SharedTypeOK
    <3> QED BY <3>1, <3>2, <3>3 DEF SubscribersRegistered, Registered
  <2>2. CASE want[c] \notin Topics
    BY <1>2, <1>6, <2>2 DEF SendDone
  <2> QED BY <2>1, <2>2
<1>7. ASSUME NEW c \in Clients,
             \/ \E w \in Sends[c] : Send(c, w)
             \/ SendWoken(c) \/ SendFails(c) \/ SendAcked(c)
      PROVE  SubscribersRegistered'
  BY <1>2, <1>7 DEF Send, SendWoken, SendFails, SendAcked
<1>8. ASSUME NEW c \in Clients, Detach(c) PROVE SubscribersRegistered'
  <2>1. /\ closed' = [closed EXCEPT ![c] = TRUE]
        /\ clients' = [clients EXCEPT ![c] = 0]
        /\ topics' = topics /\ alive' = alive
    BY <1>8 DEF Detach, Without
  <2>2. \A d \in Clients : d # c => (d \in Registered <=> d \in Entries(clients'))
    BY <2>1 DEF Registered, Entries, SharedTypeOK
  <2> QED BY <2>1, <2>2 DEF SubscribersRegistered, Registered, SharedTypeOK
<1>9. ASSUME NEW c \in Clients, Destroy(c) PROVE SubscribersRegistered'
  BY <1>9 DEF Destroy, SubscribersRegistered, Registered, SharedTypeOK
<1>10. ASSUME NEW r \in Readers, AsyncRecv(r) \/ RecvWoken(r) PROVE SubscribersRegistered'
  <2>1. CASE AsyncRecv(r)
    <3>1. Owner[r] \in Clients /\ Register(Owner[r])
      BY <2>1, SharedAssumption DEF AsyncRecv, SharedAssumption
    <3> QED BY <1>1, <2>1, <3>1, RegisterFacts DEF AsyncRecv
  <2> QED BY <1>2, <1>10, <2>1 DEF RecvWoken
<1>11. CASE AsyncConnect \/ AsyncClose \/ Drop \/ UNCHANGED vars
  BY <1>2, <1>11 DEF AsyncConnect, AsyncClose, Drop, vars
<1> QED BY <1>4, <1>5, <1>6, <1>7, <1>8, <1>9, <1>10, <1>11 DEF Next, SendStep

(* An acknowledged subscribe stays in the session, or the session ends: no *)
(* session begins before that subscribe has resumed.                       *)
LEMMA AckedStep ==
  SharedTypeOK /\ AckedIsSubscribed /\ [Next]_vars => AckedIsSubscribed'
<1> SUFFICES ASSUME SharedTypeOK, AckedIsSubscribed, [Next]_vars
             PROVE  AckedIsSubscribed'
  OBVIOUS
<1> USE DEF AckedIsSubscribed
<1>1. CASE /\ UNCHANGED <<link, subs, want>>
           /\ \A c \in Clients : spc'[c] = "acked" => spc[c] = "acked"
  BY <1>1
<1>2. CASE UNCHANGED <<link, subs, want, spc>>
  BY <1>2
<1>3. CASE AsyncConnect
  BY <1>3 DEF AsyncConnect
<1>4. CASE AsyncClose \/ Drop
  BY <1>4 DEF AsyncClose, Drop
<1>5. CASE PumpStep
  <2>1. CASE PumpReset
    <3>1. \A c \in Clients : spc[c] # "acked"
      BY <2>1 DEF PumpReset
    <3>2. spc' = WakeSends
      BY <2>1 DEF PumpReset
    <3> QED BY <3>1, <3>2, SendFacts
  <2>2. CASE PumpGaveUp
    <3>1. spc' = WakeSends /\ UNCHANGED <<link, subs, want>>
      BY <2>2 DEF PumpGaveUp, PumpEnds
    <3> QED BY <1>1, <3>1, SendFacts
  <2>3. CASE \/ PumpOther \/ PumpLoses \/ PumpClosed \/ PumpInvalid
             \/ \E t \in Topics : PumpPacket(t)
    BY <1>2, <2>3
       DEF PumpOther, PumpLoses, PumpClosed, PumpInvalid, PumpEnds, PumpPacket, conn
  <2> QED BY <1>5, <2>1, <2>2, <2>3 DEF PumpStep
<1>6. ASSUME NEW c \in Clients, NEW w \in Sends[c], Send(c, w) PROVE AckedIsSubscribed'
  BY <1>6 DEF Send, SharedTypeOK, Written, conn
<1>7. ASSUME NEW c \in Clients, SendWoken(c) \/ SendFails(c) \/ SendDone(c)
      PROVE  AckedIsSubscribed'
  <2>1. \A d \in Clients : spc'[d] = "acked" => spc[d] = "acked"
    BY <1>7 DEF SendWoken, SendFails, SendDone, SharedTypeOK, Written
  <2> QED BY <1>1, <1>7, <2>1 DEF SendWoken, SendFails, SendDone, conn
<1>8. ASSUME NEW c \in Clients, SendAcked(c) PROVE AckedIsSubscribed'
  BY <1>8 DEF SendAcked, SharedTypeOK
<1>9. CASE \/ \E m \in {"run", "one"} : PumpStart(m)
           \/ \E c \in Clients : Detach(c) \/ Destroy(c)
           \/ \E r \in Readers : AsyncRecv(r) \/ RecvWoken(r)
           \/ UNCHANGED vars
  BY <1>2, <1>9 DEF PumpStart, Detach, Destroy, AsyncRecv, RecvWoken, conn, vars
<1> QED BY <1>3, <1>4, <1>5, <1>6, <1>7, <1>8, <1>9 DEF Next, SendStep

(* Subscriptions: when a session begins, every subscriber is told of it or *)
(* already owes its topics; it stops owing one only by subscribing in the  *)
(* session, and takes an error out of its queue only to owe its topics.    *)
LEMMA CoveredStep ==
  /\ SharedTypeOK /\ SubscribersRegistered /\ AckedIsSubscribed /\ TopicsCovered
  /\ [Next]_vars
  => TopicsCovered'
<1> SUFFICES ASSUME SharedTypeOK, SubscribersRegistered, AckedIsSubscribed, TopicsCovered,
                    [Next]_vars
             PROVE  TopicsCovered'
  OBVIOUS
<1> USE DEF TopicsCovered
<1>1. CASE /\ UNCHANGED <<link, topics, alive, owed>>
           /\ subs \subseteq subs'
           /\ \A c \in Clients : /\ closed[c] => closed'[c]
                                 /\ Rng(queue[c]) \subseteq Rng(queue'[c])
  BY <1>1
<1>2. CASE UNCHANGED <<link, subs, topics, alive, owed, closed, queue>>
  BY <1>1, <1>2
<1>3. ASSUME NEW v \in Results, Dispatch(v)
      PROVE  \A c \in Clients : /\ Rng(queue[c]) \subseteq Rng(queue'[c])
                                /\ Copies(c, v) = 1 => v \in Rng(queue'[c])
  <2> TAKE c \in Clients
  <2>1. queue'[c] = IF Copies(c, v) = 1 THEN Append(queue[c], v) ELSE queue[c]
    BY <1>3, DispatchFacts
  <2>2. Rng(Append(queue[c], v)) = Rng(queue[c]) \cup {v}
    BY QueueFacts DEF SharedTypeOK
  <2> QED BY <2>1, <2>2
<1>4. CASE AsyncConnect
  <2>1. \A c \in Clients : Entries(topics'[c]) \subseteq owed'[c]
    BY <1>4 DEF AsyncConnect
  <2> QED BY <2>1
<1>5. CASE AsyncClose \/ Drop
  BY <1>5 DEF AsyncClose, Drop
<1>6. CASE PumpReset
  <2>1. "SessionReset" \in Results \cap Errors /\ Dispatch("SessionReset")
    BY <1>6 DEF PumpReset, Results, Errors
  <2>2. UNCHANGED <<topics, alive, closed>>
    BY <1>6 DEF PumpReset
  <2>3. ASSUME NEW c \in Clients, alive[c], ~closed[c], Entries(topics[c]) # {}
        PROVE  Rng(queue'[c]) \cap Errors # {}
    <3>1. Copies(c, "SessionReset") = 1
      BY <2>1, <2>3, CopiesFacts DEF SubscribersRegistered
    <3> QED BY <1>3, <2>1, <3>1
  <2> QED BY <2>2, <2>3
<1>7. CASE PumpGaveUp \/ PumpClosed \/ PumpInvalid
  <2>1. Dispatch("Fatal") /\ "Fatal" \in Results
    BY <1>7 DEF PumpGaveUp, PumpClosed, PumpInvalid, PumpEnds, Results, Errors
  <2> QED BY <1>1, <1>3, <1>7, <2>1 DEF PumpGaveUp, PumpClosed, PumpInvalid, PumpEnds
<1>8. ASSUME NEW t \in Topics, PumpPacket(t) PROVE TopicsCovered'
  <2>1. Dispatch(t) /\ t \in Results
    BY <1>8 DEF PumpPacket, Results
  <2> QED BY <1>1, <1>3, <1>8, <2>1 DEF PumpPacket, conn
<1>9. ASSUME NEW c \in Clients, SendAcked(c) PROVE TopicsCovered'
  BY <1>1, <1>9 DEF SendAcked
<1>10. ASSUME NEW c \in Clients, SendDone(c) PROVE TopicsCovered'
  <2>1. CASE want[c] \in Topics
    <3>1. /\ topics' = [topics EXCEPT ![c] = AddTopic(topics[c], want[c])]
          /\ owed' = [owed EXCEPT ![c] = owed[c] \ {want[c]}]
          /\ UNCHANGED <<link, subs, queue, alive, closed>>
      BY <1>10, <2>1 DEF SendDone, conn
    <3>2. link = "up" => want[c] \in subs
      <4>1. want[c] # "publish0"
        BY <2>1, SharedAssumption DEF SharedAssumption, Publishes
      <4> QED BY <1>10, <2>1, <4>1 DEF SendDone, AckedIsSubscribed
    <3>3. Entries(topics'[c]) = Entries(topics[c]) \cup {want[c]}
      BY <2>1, <3>1, AddTopicFacts DEF SharedTypeOK
    <3>4. owed'[c] = owed[c] \ {want[c]}
      BY <3>1 DEF SharedTypeOK
    <3>5. \A d \in Clients : d # c => topics'[d] = topics[d] /\ owed'[d] = owed[d]
      BY <3>1 DEF SharedTypeOK
    <3> QED BY <3>1, <3>2, <3>3, <3>4, <3>5
  <2>2. CASE want[c] \notin Topics
    BY <1>2, <1>10, <2>2 DEF SendDone, conn
  <2> QED BY <2>1, <2>2
<1>11. ASSUME NEW r \in Readers, PopFront(r), UNCHANGED <<link, subs, topics, alive, closed>>
       PROVE  TopicsCovered'
  BY <1>11, PopFrontFacts
<1>12. ASSUME NEW r \in Readers, AsyncRecv(r) \/ RecvWoken(r) PROVE TopicsCovered'
  BY <1>2, <1>11, <1>12 DEF AsyncRecv, RecvWoken, conn
<1>13. ASSUME NEW c \in Clients, Detach(c) PROVE TopicsCovered'
  BY <1>1, <1>13 DEF Detach, conn, SharedTypeOK
<1>14. ASSUME NEW c \in Clients, Destroy(c) PROVE TopicsCovered'
  BY <1>14 DEF Destroy, conn, SharedTypeOK
<1>15. ASSUME NEW c \in Clients,
              \/ \E w \in Sends[c] : Send(c, w)
              \/ SendWoken(c) \/ SendFails(c)
       PROVE  TopicsCovered'
  BY <1>2, <1>15 DEF Send, SendWoken, SendFails, conn
<1>16. CASE \/ PumpOther \/ PumpLoses \/ UNCHANGED vars
            \/ \E m \in {"run", "one"} : PumpStart(m)
  BY <1>2, <1>16 DEF PumpOther, PumpLoses, PumpStart, conn, vars
<1> QED BY <1>4, <1>5, <1>6, <1>7, <1>8, <1>9, <1>10, <1>12, <1>13, <1>14, <1>15, <1>16
           DEF Next, PumpStep, SendStep

(* Sends: only a live client starts one, and a client is destroyed only    *)
(* when it has none.                                                       *)
LEMMA SendersStep == SharedTypeOK /\ SendersAlive /\ [Next]_vars => SendersAlive'
<1> SUFFICES ASSUME SharedTypeOK, SendersAlive, [Next]_vars PROVE SendersAlive'
  OBVIOUS
<1> USE DEF SendersAlive
<1>1. CASE /\ UNCHANGED alive
           /\ \A c \in Clients : spc'[c] # "idle" => spc[c] # "idle"
  BY <1>1
<1>2. CASE UNCHANGED <<alive, spc>>
  BY <1>2
<1>3. /\ \A c \in Clients : WakeSends[c] # "idle" => spc[c] # "idle"
      /\ \A c \in Clients : LoseSends(WakeSends)[c] # "idle" => spc[c] # "idle"
      /\ \A c \in Clients : LoseSends(spc)[c] # "idle" => spc[c] # "idle"
  BY DEF WakeSends, LoseSends, SharedTypeOK
<1>4. CASE AsyncClose \/ Drop \/ PumpReset \/ PumpGaveUp
  <2>1. spc' \in {WakeSends, LoseSends(WakeSends), LoseSends(spc)} /\ alive' = alive
    BY <1>4 DEF AsyncClose, Drop, PumpReset, PumpGaveUp, PumpEnds
  <2> QED BY <1>1, <1>3, <2>1
<1>5. ASSUME NEW c \in Clients, (\E w \in Sends[c] : Send(c, w)) \/ SendStep(c)
      PROVE  SendersAlive'
  <2>1. alive' = alive /\ alive[c] /\ \E l : spc' = [spc EXCEPT ![c] = l]
    BY <1>5 DEF Send, SendStep, SendWoken, SendFails, SendAcked, SendDone
  <2> QED BY <2>1 DEF SharedTypeOK
<1>6. ASSUME NEW c \in Clients, Destroy(c) PROVE SendersAlive'
  BY <1>6 DEF Destroy, SharedTypeOK
<1>7. CASE \/ AsyncConnect \/ PumpOther \/ PumpLoses \/ PumpClosed \/ PumpInvalid
           \/ \E m \in {"run", "one"} : PumpStart(m)
           \/ \E t \in Topics : PumpPacket(t)
           \/ \E c \in Clients : Detach(c)
           \/ \E r \in Readers : AsyncRecv(r) \/ RecvWoken(r)
           \/ UNCHANGED vars
  BY <1>2, <1>7
     DEF AsyncConnect, PumpOther, PumpLoses, PumpClosed, PumpInvalid, PumpEnds, PumpStart,
         PumpPacket, Detach, AsyncRecv, RecvWoken, vars
<1> QED BY <1>4, <1>5, <1>6, <1>7 DEF Next, PumpStep

(* The inductive invariant holds in every reachable state.                 *)
LEMMA Invariant == Spec => []IndInv
<1>1. IndInv /\ [Next]_vars => IndInv'
  BY TypeStep, WakeupStep, RegisteredStep, AckedStep, CoveredStep,
     SendersStep
     DEF IndInv
<1> QED BY InitInv, <1>1, PTL DEF Spec
-----------------------------------------------------------------------------
(* Type correctness; in particular clients_ never has two entries for one  *)
(* logical client nor topics_ two for one topic, although async_recv and   *)
(* async_subscribe both append to clients_, and no subscription survives   *)
(* the session it was made in.                                             *)
THEOREM TypeCorrect == Spec => []SharedTypeOK
<1>1. IndInv => SharedTypeOK
  BY DEF IndInv
<1> QED BY Invariant, <1>1, PTL

(* A reader that waits in pop_front has an empty queue: no push_back is    *)
(* lost between the test of the queue and the wait on the timer.           *)
THEOREM WaitersHaveNothing == Spec => []NoLostWakeup
<1>1. IndInv => NoLostWakeup
  BY DEF IndInv
<1> QED BY Invariant, <1>1, PTL

(* With one reader per logical client, a reader that was woken finds a     *)
(* result: async_recv never returns the operation_aborted of its timer.    *)
THEOREM WokenHaveResults == Spec => []NoEmptyWakeup
<1>1. IndInv => NoEmptyWakeup
  BY DEF IndInv
<1> QED BY Invariant, <1>1, PTL

(* No reconnect silently loses a subscription of a logical client: while   *)
(* there is a session its topic is subscribed, or the client was told.     *)
THEOREM SubscriptionsSurvive == Spec => []SubscriptionsCovered
<1>1. IndInv => SubscriptionsCovered
  <2>1. SharedTypeOK => Registered \subseteq Clients
    BY DEF SharedTypeOK, Registered, Entries
  <2> QED BY <2>1 DEF IndInv, TopicsCovered, SubscriptionsCovered
<1> QED BY Invariant, <1>1, PTL

(* A logical client that is not closed hears every packet of a topic it    *)
(* has subscribed to, exactly once and after what it has not yet taken.    *)
THEOREM PacketsAreHeard == Spec => SubscribersHear
<1>1. ASSUME IndInv, NEW t \in Topics, PumpPacket(t), NEW c \in Clients,
             alive[c], ~closed[c], t \in Entries(topics[c])
      PROVE  queue'[c] = Append(queue[c], t)
  <2>1. t \in Results /\ Dispatch(t)
    BY <1>1 DEF PumpPacket, Results
  <2>2. c \in Registered
    BY <1>1 DEF IndInv, SubscribersRegistered
  <2>3. Copies(c, t) = 1
    BY <1>1, <2>1, <2>2, CopiesFacts DEF IndInv
  <2> QED BY <1>1, <2>1, <2>3, DispatchFacts DEF IndInv
<1>2. IndInv => \A t \in Topics : PumpPacket(t) =>
                  \A c \in Clients :
                    alive[c] /\ ~closed[c] /\ t \in Entries(topics[c])
                      => queue'[c] = Append(queue[c], t)
  BY <1>1
<1> QED BY Invariant, <1>2, PTL DEF SubscribersHear
-----------------------------------------------------------------------------
(* Refinement: the variables of LogicalChannels, as ImplementsChannels     *)
(* maps them.                                                              *)
Members == {c \in Registered : alive[c]}
Interest == [c \in Clients |-> Entries(topics[c])]

(* Dispatch, with what the pump does to clients_ in the same step, is one  *)
(* Deliver: it reaches each member that the result concerns once.          *)
LEMMA DispatchDelivers ==
  ASSUME SharedTypeOK, NEW v \in Topics \cup Errors, Dispatch(v),
         PumpAgain \/ UNCHANGED clients, UNCHANGED <<topics, alive>>
  PROVE  Channels!Deliver(v)
<1>1. v \in Results
  BY DEF Results
<1>2. Members' = Members /\ Interest' = Interest
  BY PumpAgainFacts DEF Members, Interest, Registered
<1>3. \A c \in Clients : Copies(c, v) = 1 <=> Channels!Concerns(c, v)
  BY <1>1, CopiesFacts DEF Channels!Concerns
<1>4. queue' = [c \in Clients |-> IF Channels!Concerns(c, v) THEN Append(queue[c], v)
                                                             ELSE queue[c]]
  BY <1>1, <1>3, DispatchFacts
<1> QED BY <1>2, <1>4 DEF Channels!Deliver, Members, Interest

(* PopFront takes the oldest result, if there is one.                      *)
LEMMA PopFrontTakes ==
  ASSUME SharedTypeOK, NEW r \in Readers, PopFront(r), UNCHANGED <<topics, alive>>,
         Members' \in {Members, Members \cup {Owner[r]}}
  PROVE  \/ Channels!TakeNext(Owner[r])
         \/ queue[Owner[r]] = <<>> /\ queue' = queue
<1>1. Interest' = Interest
  BY DEF Interest
<1>2. queue' = [queue EXCEPT ![Owner[r]] = IF queue[Owner[r]] = <<>> THEN queue[Owner[r]]
                                           ELSE Tail(queue[Owner[r]])]
  BY DEF PopFront
<1>3. CASE queue[Owner[r]] = <<>>
  <2>1. Owner[r] \in Clients
    BY SharedAssumption DEF SharedAssumption
  <2> QED BY <1>2, <1>3, <2>1 DEF SharedTypeOK
<1>4. CASE queue[Owner[r]] # <<>>
  BY <1>1, <1>2, <1>4 DEF Channels!TakeNext, Members, Interest
<1> QED BY <1>3, <1>4

(* Every step of the shared connection is a step of the channels, or       *)
(* leaves them as they are.                                                *)
LEMMA ChannelStep ==
  ASSUME IndInv, [Next]_vars
  PROVE  Channels!ChannelNext \/ UNCHANGED <<Members, Interest, queue>>
<1> USE DEF IndInv
<1>0. \A r \in Readers : Owner[r] \in Clients
  BY SharedAssumption DEF SharedAssumption
<1>1. CASE UNCHANGED <<clients, topics, queue, alive>>
  BY <1>1 DEF Members, Interest, Registered
<1>2. CASE \E v \in Topics \cup Errors : Channels!Deliver(v)
  BY <1>2 DEF Channels!ChannelNext
<1>3. CASE \/ AsyncConnect \/ AsyncClose \/ Drop \/ PumpLoses \/ UNCHANGED vars
           \/ \E c \in Clients : \/ \E w \in Sends[c] : Send(c, w)
                                 \/ SendWoken(c) \/ SendFails(c) \/ SendAcked(c)
  BY <1>1, <1>3
     DEF AsyncConnect, AsyncClose, Drop, PumpLoses, Send, SendWoken, SendFails, SendAcked,
         vars
<1>4. CASE PumpOther \/ \E m \in {"run", "one"} : PumpStart(m)
  <2>1. UNCHANGED <<topics, queue, alive>> /\ (PumpAgain \/ clients' = Live(clients))
    BY <1>4 DEF PumpOther, PumpStart
  <2> QED BY <2>1, PumpAgainFacts, LiveFacts DEF Members, Interest, Registered
<1>5. ASSUME NEW t \in Topics, PumpPacket(t) PROVE Channels!Deliver(t)
  BY <1>5, DispatchDelivers DEF PumpPacket
<1>6. CASE PumpReset
  <2>1. "SessionReset" \in Errors
    BY DEF Errors
  <2> QED BY <1>2, <1>6, <2>1, DispatchDelivers DEF PumpReset
<1>7. CASE PumpGaveUp \/ PumpClosed \/ PumpInvalid
  <2>1. "Fatal" \in Errors
    BY DEF Errors
  <2> QED BY <1>2, <1>7, <2>1, DispatchDelivers
             DEF PumpGaveUp, PumpClosed, PumpInvalid, PumpEnds
<1>8. ASSUME NEW c \in Clients, SendDone(c)
      PROVE  \/ UNCHANGED <<Members, Interest, queue>>
             \/ \E t \in Topics : Channels!Follow(c, t)
  <2>1. CASE want[c] \notin Topics
    BY <1>8, <2>1 DEF SendDone, Members, Interest, Registered
  <2>2. CASE want[c] \in Topics
    <3>1. /\ Register(c) /\ UNCHANGED <<alive, queue>> /\ alive[c]
          /\ topics' = [topics EXCEPT ![c] = AddTopic(topics[c], want[c])]
      BY <1>8, <2>2 DEF SendDone, SendersAlive
    <3>2. Members' = Members \cup {c}
      BY <3>1, RegisterFacts DEF Members, Registered
    <3>3. Entries(topics'[c]) = Entries(topics[c]) \cup {want[c]}
      BY <2>2, <3>1, AddTopicFacts DEF SharedTypeOK
    <3>4. Interest' = [Interest EXCEPT ![c] = Interest[c] \cup {want[c]}]
      BY <3>1, <3>3 DEF Interest, SharedTypeOK
    <3> QED BY <2>2, <3>1, <3>2, <3>4 DEF Channels!Follow, Members, Interest
  <2> QED BY <2>1, <2>2
<1>9. ASSUME NEW r \in Readers, AsyncRecv(r)
      PROVE  Channels!Join(Owner[r]) \/ Channels!TakeNext(Owner[r])
  <2>1. Register(Owner[r]) /\ UNCHANGED <<topics, alive>> /\ alive[Owner[r]]
    BY <1>9 DEF AsyncRecv
  <2>2. Members' = Members \cup {Owner[r]} /\ Interest' = Interest
    BY <1>0, <2>1, RegisterFacts DEF Members, Interest, Registered
  <2>3. CASE queue[Owner[r]] # <<>> /\ PopFront(r)
    BY <2>1, <2>2, <2>3, PopFrontTakes
  <2>4. CASE queue' = queue
    BY <2>2, <2>4 DEF Channels!Join, Members, Interest
  <2> QED BY <1>9, <2>3, <2>4 DEF AsyncRecv
<1>10. ASSUME NEW r \in Readers, RecvWoken(r)
       PROVE  \/ UNCHANGED <<Members, Interest, queue>>
              \/ Channels!TakeNext(Owner[r])
  <2>1. PopFront(r) /\ UNCHANGED <<clients, topics, alive>>
    BY <1>10 DEF RecvWoken
  <2>2. Members' = Members /\ Interest' = Interest
    BY <2>1 DEF Members, Interest, Registered
  <2> QED BY <2>1, <2>2, PopFrontTakes
<1>11. ASSUME NEW c \in Clients, Detach(c) \/ Destroy(c) PROVE Channels!Leave(c)
  <2>1. UNCHANGED <<topics, queue>>
    BY <1>11 DEF Detach, Destroy
  <2>2. Members' = Members \ {c}
    BY <1>11 DEF Detach, Without, Destroy, Members, Registered, Entries, SharedTypeOK
  <2> QED BY <2>1, <2>2 DEF Channels!Leave, Members, Interest
<1>12. CASE \E c \in Clients : Channels!Join(c) \/ Channels!Leave(c) \/ Channels!TakeNext(c)
                              \/ \E t \in Topics : Channels!Follow(c, t)
  BY <1>12 DEF Channels!ChannelNext
<1> QED BY <1>0, <1>2, <1>3, <1>4, <1>5, <1>6, <1>7, <1>8, <1>9, <1>10, <1>11, <1>12
           DEF Next, PumpStep, SendStep

(* The shared connection implements LogicalChannels: each result of the    *)
(* physical receive reaches every registered logical client it concerns    *)
(* once, in order, and no other.                                           *)
THEOREM ChannelsImplemented == Spec => ImplementsChannels
<1>1. Init => Channels!ChannelInit
  BY DEF Init, Channels!ChannelInit, Registered, Entries
<1>2. IndInv /\ [Next]_vars
        => [Channels!ChannelNext]_<<{c \in Registered : alive[c]},
                                    [c \in Clients |-> Entries(topics[c])], queue>>
  BY ChannelStep DEF Members, Interest
<1> QED BY Invariant, <1>1, <1>2, PTL DEF Spec, ImplementsChannels, Channels!ChannelSpec
=============================================================================
