------------------------- MODULE SharedEntitiesProofs -------------------------
(***************************************************************************)
(* Proofs about SharedEntities: entities on a shared connection use it as  *)
(* SharedConnection says, so that what is proved there holds for them, and *)
(* commands reach every entity that waits for them; for any number of      *)
(* entities of any kinds, with topics of their own or shared ones.         *)
(***************************************************************************)
EXTENDS SharedEntities, SharedConnectionProofs

(* The application of this composition owns its entities for good.         *)
AllAlive == \A c \in Clients : alive[c]

(* A logical client has a send under way only in a stage of its entity's   *)
(* setup, and then the one of that stage.                                  *)
SendsFit ==
  \A c \in Clients : spc[c] # "idle" => want[c] = Message(c, ent[c].stage)

(* The subscribe of the entity's setup has succeeded, and nothing has told *)
(* the entity since that its session is gone.                              *)
PastSubscribe(c) ==
  \/ ent[c].stage \in {"availability", "recv"}
  \/ ent[c].stage = "idle" /\ ent[c].ready

(* CommandsCovered made inductive: from then on the topic is in topics_ of *)
(* the logical client, which does not owe it.                              *)
SubscribeStands ==
  \A c \in Clients :
    Commands(KindOf[c]) /\ ~closed[c] /\ PastSubscribe(c)
      => TopicOf[c] \in Entries(topics[c]) \ owed[c]

(* With IndInv of SharedConnectionProofs, the inductive invariant.         *)
EntitiesInv == EntitiesTypeOK /\ AllAlive /\ SendsFit /\ SubscribeStands
-----------------------------------------------------------------------------
(* Every step of the composition is a step of SharedConnection, or leaves  *)
(* its state alone.                                                        *)
LEMMA SharedStep == [EntitiesNext]_evars => [Next]_vars
<1> SUFFICES ASSUME [EntitiesNext]_evars PROVE Next \/ UNCHANGED vars
  OBVIOUS
<1>1. CASE Connect
  BY <1>1 DEF Connect, Next
<1>2. CASE Environment
  BY <1>2 DEF Environment, Next
<1>3. ASSUME NEW c \in Clients, AsyncSetup(c) \/ StageSend(c) PROVE Next \/ UNCHANGED vars
  <2>1. "discovery" \in SetupStages
    BY DEF SetupStages
  <2>2. \A s \in SetupStages : Message(c, s) \in Sends[c]
    BY EntitiesAssumption DEF EntitiesAssumption
  <2> QED BY <1>3, <2>1, <2>2 DEF AsyncSetup, StageSend, shared, Next
<1>4. ASSUME NEW c \in Clients,
             StageWoken(c) \/ StageAcked(c) \/ StageDone(c) \/ StageFails(c)
      PROVE  Next
  BY <1>4 DEF StageWoken, StageAcked, StageDone, StageFails, SendStep, Next
<1>5. ASSUME NEW c \in Clients, AsyncRun(c) \/ EntityRecv(c) \/ EntityClose(c)
      PROVE  Next \/ UNCHANGED vars
  <2>1. c \in Readers
    BY EntitiesAssumption DEF EntitiesAssumption
  <2> QED BY <1>5, <2>1 DEF AsyncRun, EntityRecv, EntityClose, shared, Next
<1>6. CASE UNCHANGED evars
  BY <1>6 DEF evars
<1> QED BY <1>1, <1>2, <1>3, <1>4, <1>5, <1>6 DEF EntitiesNext, StageStep

(* Entities use the shared connection as SharedConnection allows, so every *)
(* theorem about it holds for them.                                        *)
THEOREM EntitiesUseShared == EntitiesSpec => Spec
<1>1. EntitiesInit => Init
  BY DEF EntitiesInit
<1> QED BY <1>1, SharedStep, PTL DEF EntitiesSpec, Spec
-----------------------------------------------------------------------------
(* The progress that EntitySetup goes to is well-typed.                    *)
LEMMA ProgressFacts ==
  /\ NotSetUp \in Progress /\ NotSetUp.stage = "idle" /\ ~NotSetUp.ready
  /\ Receive \in Progress /\ Receive.stage = "recv"
  /\ \A b \in BOOLEAN : BeginSetup(b) \in Progress /\ BeginSetup(b).stage = "discovery"
BY DEF NotSetUp, Receive, BeginSetup, Progress, SetupStages

(* The order of the sends, for an entity with an availability topic.       *)
LEMMA AdvanceFacts ==
  ASSUME NEW k \in Kinds, NEW p \in Progress, p.stage \in SetupStages
  PROVE  LET q == Advance(k, TRUE, p) IN
         /\ q \in Progress
         /\ Commands(k) /\ p.stage = "discovery" => q.stage = "subscribe"
<1>1. CASE AfterStage(k, TRUE, p.stage) = "done"
  BY <1>1 DEF Advance, SetupSucceeds, Receive, AfterStage, Progress, SetupStages
<1>2. CASE AfterStage(k, TRUE, p.stage) # "done"
  <2>1. Advance(k, TRUE, p) = [p EXCEPT !.stage = AfterStage(k, TRUE, p.stage)]
    BY <1>2 DEF Advance
  <2>2. AfterStage(k, TRUE, p.stage) \in {"subscribe", "availability"}
    BY <1>2 DEF AfterStage
  <2>3. Commands(k) /\ p.stage = "discovery" => AfterStage(k, TRUE, p.stage) = "subscribe"
    BY DEF AfterStage
  <2> QED BY <2>1, <2>2, <2>3 DEF Progress, SetupStages
<1> QED BY <1>1, <1>2

(* A message of a setup is on the command topic exactly in its subscribe.  *)
LEMMA MessageFacts ==
  ASSUME NEW c \in Clients, NEW s
  PROVE  /\ s = "subscribe" => Message(c, s) = TopicOf[c] /\ TopicOf[c] \in Topics
         /\ s # "subscribe" => Message(c, s) \notin Topics
BY SharedAssumption, EntitiesAssumption
   DEF SharedAssumption, EntitiesAssumption, Publishes, Message

(* What the application, the pump and the broker do starts and ends no     *)
(* send and no receive.                                                    *)
LEMMA EnvironmentFacts ==
  ASSUME SharedTypeOK, AsyncConnect \/ AsyncClose \/ Drop \/ PumpStart("run") \/ PumpStep
  PROVE  /\ UNCHANGED <<topics, alive, want, closed>>
         /\ ~AsyncConnect => UNCHANGED owed
         /\ \A c \in Clients : spc'[c] = "idle" <=> spc[c] = "idle"
         /\ \A r \in Readers : rpc'[r] = "idle" <=> rpc[r] = "idle"
<1>1. /\ UNCHANGED <<topics, alive, want, closed>>
      /\ ~AsyncConnect => UNCHANGED owed
  BY DEF AsyncConnect, AsyncClose, Drop, PumpStart, PumpStep, PumpOther, PumpLoses, PumpReset,
         PumpGaveUp, PumpClosed, PumpInvalid, PumpEnds, PumpPacket
<1>2. \A c \in Clients : spc'[c] = "idle" <=> spc[c] = "idle"
  <2>1. spc' \in {spc, WakeSends, LoseSends(spc), LoseSends(WakeSends)}
    BY DEF AsyncConnect, AsyncClose, Drop, PumpStart, PumpStep, PumpOther, PumpLoses,
           PumpReset, PumpGaveUp, PumpClosed, PumpInvalid, PumpEnds, PumpPacket
  <2>2. \A c \in Clients : /\ WakeSends[c] = "idle" <=> spc[c] = "idle"
                           /\ LoseSends(spc)[c] = "idle" <=> spc[c] = "idle"
                           /\ LoseSends(WakeSends)[c] = "idle" <=> spc[c] = "idle"
    BY DEF WakeSends, LoseSends
  <2> QED BY <2>1, <2>2
<1>3. \A r \in Readers : rpc'[r] = "idle" <=> rpc[r] = "idle"
  <2>1. rpc' = rpc \/ \E v \in Results : Dispatch(v)
    <3>1. "SessionReset" \in Results /\ "Fatal" \in Results /\ Topics \subseteq Results
      BY DEF Results, Errors
    <3> QED BY <3>1
        DEF AsyncConnect, AsyncClose, Drop, PumpStart, PumpStep, PumpOther, PumpLoses,
            PumpReset, PumpGaveUp, PumpClosed, PumpInvalid, PumpEnds, PumpPacket
  <2> QED BY <2>1, DispatchFacts
<1> QED BY <1>1, <1>2, <1>3
-----------------------------------------------------------------------------
(* The initial state satisfies the inductive invariant.                    *)
LEMMA EntitiesInitInv == EntitiesInit => EntitiesInv
<1> SUFFICES ASSUME EntitiesInit PROVE EntitiesInv
  OBVIOUS
<1>1. Init /\ SharedTypeOK
  BY InitInv DEF EntitiesInit, IndInv
<1>2. EntitiesTypeOK
  BY <1>1, ProgressFacts, EntitiesAssumption
     DEF EntitiesInit, Init, EntitiesTypeOK, EntitiesAssumption
<1>3. AllAlive /\ SendsFit /\ SubscribeStands
  BY <1>1, ProgressFacts
     DEF EntitiesInit, Init, AllAlive, SendsFit, SubscribeStands, PastSubscribe
<1> QED BY <1>2, <1>3 DEF EntitiesInv

(* A step in which only the coroutine of c makes progress, in which it     *)
(* keeps to the order of its setup, preserves the invariant.               *)
LEMMA ProgressStep ==
  ASSUME EntitiesInv, SharedTypeOK', NEW c \in Clients, NEW p \in Progress, Goes(c, p),
         announced' \subseteq Clients,
         UNCHANGED <<alive, closed>>,
         \A d \in Clients : d # c => /\ spc'[d] = spc[d] /\ rpc'[d] = rpc[d]
                                     /\ want'[d] = want[d] /\ topics'[d] = topics[d]
                                     /\ owed'[d] = owed[d],
         spc'[c] # "idle" => p.stage \in SetupStages /\ want'[c] = Message(c, p.stage),
         rpc'[c] # "idle" => p.stage = "recv",
         Commands(KindOf[c]) /\ ~closed[c]
           /\ (p.stage \in {"availability", "recv"} \/ (p.stage = "idle" /\ p.ready))
           => TopicOf[c] \in Entries(topics'[c]) \ owed'[c]
  PROVE  EntitiesInv'
<1>1. /\ ent' \in [Clients -> Progress] /\ ent'[c] = p
      /\ \A d \in Clients : d # c => ent'[d] = ent[d]
  BY DEF EntitiesInv, EntitiesTypeOK, Goes
<1>2. EntitiesTypeOK'
  BY <1>1 DEF EntitiesInv, EntitiesTypeOK
<1>3. AllAlive' /\ SendsFit'
  BY <1>1 DEF EntitiesInv, AllAlive, SendsFit
<1>4. SubscribeStands'
  BY <1>1 DEF EntitiesInv, SubscribeStands, PastSubscribe
<1> QED BY <1>2, <1>3, <1>4 DEF EntitiesInv

(* The receive of an entity: it goes on receiving only if it has not been  *)
(* told of an error, and then it owes nothing that it did not owe before.  *)
LEMMA EntityRecvStep ==
  ASSUME EntitiesInv, SharedTypeOK', NEW c \in Clients, EntityRecv(c)
  PROVE  EntitiesInv'
<1>1. c \in Readers /\ Owner[c] = c /\ SharedTypeOK
  BY EntitiesAssumption DEF EntitiesAssumption, EntitiesInv, EntitiesTypeOK
<1>2. /\ UNCHANGED <<alive, closed, want, spc, topics, announced>>
      /\ ent[c].stage = "recv" /\ spc[c] = "idle" /\ announced \subseteq Clients
  BY DEF EntityRecv, AsyncRecv, RecvWoken, EntitiesInv, EntitiesTypeOK, SetupStages
<1> DEFINE p == IF rpc'[c] = "wait" \/ Result(c) \in Topics THEN Receive
                ELSE HandleErr(Result(c))
<1>3. Goes(c, p)
  BY DEF EntityRecv
<1>4. p \in {Receive, NotSetUp, BeginSetup(TRUE)}
  BY DEF HandleErr
<1>5. p \in Progress
  BY <1>4, ProgressFacts
<1>6. TopicOf[c] \in Entries(topics[c]) \ owed[c] \/ ~Commands(KindOf[c]) \/ closed[c]
  BY <1>2 DEF EntitiesInv, SubscribeStands, PastSubscribe
<1>7. CASE PopFront(c)
  <2>1. rpc' = [rpc EXCEPT ![c] = "idle"]
    BY <1>7 DEF PopFront
  <2>2. rpc'[c] = "idle" /\ \A d \in Clients : d # c => rpc'[d] = rpc[d]
    BY <1>1, <2>1, EntitiesAssumption DEF EntitiesAssumption, SharedTypeOK
  <2>3. \A d \in Clients : d # c => owed'[d] = owed[d]
    BY <1>1, <1>7, PopFrontFacts
  <2>4. p = Receive => owed' = owed
    <3>1. p = Receive => Result(c) \in Topics
      BY <2>2, ProgressFacts DEF HandleErr
    <3>2. Result(c) \in Topics => Result(c) \notin Errors
      BY SharedAssumption DEF SharedAssumption
    <3> QED BY <1>7, <3>1, <3>2 DEF PopFront
  <2>5. (p.stage \in {"availability", "recv"} \/ (p.stage = "idle" /\ p.ready)) => p = Receive
    BY <1>4, ProgressFacts
  <2> HIDE DEF p
  <2> QED BY <1>2, <1>3, <1>5, <1>6, <2>2, <2>3, <2>4, <2>5, ProgressStep
<1>8. CASE ~PopFront(c)
  <2>1. rpc' = [rpc EXCEPT ![c] = "wait"] /\ owed' = owed
    BY <1>1, <1>8 DEF EntityRecv, AsyncRecv, RecvWoken
  <2>2. rpc'[c] = "wait" /\ \A d \in Clients : d # c => rpc'[d] = rpc[d]
    BY <1>1, <2>1, EntitiesAssumption DEF EntitiesAssumption, SharedTypeOK
  <2>3. p = Receive
    BY <2>2
  <2> HIDE DEF p
  <2> QED BY <1>2, <1>3, <1>5, <1>6, <2>1, <2>2, <2>3, ProgressFacts, ProgressStep
<1> QED BY <1>7, <1>8

(* The sends of a setup: each stage sends its own message, and the stage   *)
(* after the subscribe is reached only when the subscribe has put the      *)
(* topic into topics_ and out of what the client owes.                     *)
LEMMA StageStepInv ==
  ASSUME EntitiesInv, SharedTypeOK', NEW c \in Clients, AsyncSetup(c) \/ StageStep(c)
  PROVE  EntitiesInv'
<1>0. /\ SharedTypeOK /\ ent \in [Clients -> Progress] /\ ent[c] \in Progress
      /\ announced \subseteq Clients /\ KindOf[c] \in Kinds
      /\ spc[c] # "idle" => /\ ent[c].stage \in SetupStages
                            /\ want[c] = Message(c, ent[c].stage)
      /\ rpc[c] # "idle" => ent[c].stage = "recv"
  BY EntitiesAssumption DEF EntitiesAssumption, EntitiesInv, EntitiesTypeOK, SendsFit
<1>1. \A s \in SetupStages : s \notin {"recv", "idle"}
  BY DEF SetupStages
<1>2. ASSUME UNCHANGED ent PROVE Goes(c, ent[c])
  BY <1>0, <1>2 DEF Goes
<1>3. Commands(KindOf[c]) /\ ~closed[c] /\ PastSubscribe(c)
        => TopicOf[c] \in Entries(topics[c]) \ owed[c]
  BY DEF EntitiesInv, SubscribeStands
<1>4. ASSUME NEW w, Send(c, w)
      PROVE  /\ spc' = [spc EXCEPT ![c] = spc'[c]] /\ want' = [want EXCEPT ![c] = w]
             /\ want'[c] = w
             /\ \A d \in Clients : d # c => spc'[d] = spc[d] /\ want'[d] = want[d]
             /\ UNCHANGED <<rpc, topics, owed, alive, closed>>
  BY <1>0, <1>4 DEF Send, SharedTypeOK
<1>5. CASE AsyncSetup(c)
  <2>1. /\ Send(c, Message(c, "discovery")) /\ Goes(c, BeginSetup(FALSE))
        /\ announced' = announced /\ ent[c].stage = "idle"
    BY <1>5 DEF AsyncSetup
  <2>2. BeginSetup(FALSE) \in Progress /\ BeginSetup(FALSE).stage = "discovery"
    BY ProgressFacts
  <2>3. "discovery" \in SetupStages
    BY DEF SetupStages
  <2> QED BY <1>0, <1>4, <2>1, <2>2, <2>3, ProgressStep
<1>6. CASE StageSend(c)
  <2>1. CASE Send(c, Message(c, ent[c].stage)) /\ UNCHANGED ent
    <3>1. Goes(c, ent[c]) /\ announced' = announced /\ ent[c].stage \in SetupStages
      BY <1>2, <1>6, <2>1 DEF StageSend
    <3> QED BY <1>0, <1>3, <1>4, <2>1, <3>1, ProgressStep DEF PastSubscribe
  <2>2. CASE Goes(c, NotSetUp) /\ UNCHANGED shared
    <3>1. /\ announced' = announced /\ spc[c] = "idle" /\ rpc[c] = "idle"
          /\ UNCHANGED <<spc, rpc, want, topics, owed, alive, closed>>
      BY <1>0, <1>1, <1>6, <2>2 DEF StageSend, shared, vars
    <3> QED BY <1>0, <2>2, <3>1, ProgressFacts, ProgressStep
  <2> QED BY <1>6, <2>1, <2>2 DEF StageSend, SetupFails
<1>7. ASSUME SendWoken(c) \/ SendFails(c) \/ SendAcked(c)
      PROVE  /\ spc[c] # "idle"
             /\ \A d \in Clients : d # c => spc'[d] = spc[d]
             /\ UNCHANGED <<rpc, want, topics, owed, alive, closed>>
  BY <1>0, <1>7 DEF SendWoken, SendFails, SendAcked, SharedTypeOK
<1>8. ASSUME SendWoken(c) \/ SendFails(c) \/ SendAcked(c), UNCHANGED ent,
             announced' \subseteq Clients
      PROVE  EntitiesInv'
  BY <1>0, <1>1, <1>2, <1>3, <1>7, <1>8, ProgressStep DEF PastSubscribe
<1>9. ASSUME SendWoken(c) \/ SendFails(c), spc'[c] = "idle", Goes(c, NotSetUp),
             announced' = announced
      PROVE  EntitiesInv'
  BY <1>0, <1>1, <1>7, <1>9, ProgressFacts, ProgressStep
<1>10. CASE StageWoken(c)
  <2>1. CASE phys = "Connected"
    <3>1. ent' = ent
      BY <1>0, <1>10, <2>1 DEF StageWoken, Goes
    <3> QED BY <1>0, <1>8, <1>10, <3>1 DEF StageWoken
  <2>2. CASE phys # "Connected"
    <3>1. spc'[c] = "idle"
      BY <1>0, <1>10, <2>2 DEF StageWoken, SendWoken, SharedTypeOK
    <3> QED BY <1>9, <1>10, <2>2, <3>1 DEF StageWoken, SetupFails
  <2> QED BY <2>1, <2>2
<1>11. CASE StageAcked(c)
  BY <1>0, <1>8, <1>11 DEF StageAcked
<1>12. CASE StageFails(c)
  <2>1. spc'[c] = "idle"
    BY <1>0, <1>12 DEF StageFails, SendFails, SharedTypeOK
  <2> QED BY <1>9, <1>12, <2>1 DEF StageFails, SetupFails
<1>13. CASE StageDone(c)
  <2> DEFINE q == Advance(KindOf[c], TRUE, ent[c])
  <2>1. SendDone(c) /\ Goes(c, q) /\ announced' = announced
    BY <1>13 DEF StageDone
  <2>2. /\ spc[c] # "idle" /\ spc'[c] = "idle"
        /\ \A d \in Clients : d # c => spc'[d] = spc[d]
        /\ UNCHANGED <<rpc, want, alive, closed>>
    BY <1>0, <2>1 DEF SendDone, SharedTypeOK
  <2>3. ent[c].stage \in SetupStages /\ want[c] = Message(c, ent[c].stage) /\ rpc[c] = "idle"
    BY <1>0, <1>1, <2>2
  <2>4. q \in Progress /\ (Commands(KindOf[c]) /\ ent[c].stage = "discovery"
                             => q.stage = "subscribe")
    BY <1>0, <2>3, AdvanceFacts
  <2>5. \A d \in Clients : d # c => topics'[d] = topics[d] /\ owed'[d] = owed[d]
    BY <1>0, <2>1 DEF SendDone, SharedTypeOK
  <2>6. ASSUME Commands(KindOf[c]), ~closed[c],
               q.stage \in {"availability", "recv"} \/ (q.stage = "idle" /\ q.ready)
        PROVE  TopicOf[c] \in Entries(topics'[c]) \ owed'[c]
    <3>1. CASE ent[c].stage = "subscribe"
      <4>1. want[c] = TopicOf[c] /\ want[c] \in Topics
        BY <2>3, <3>1, MessageFacts
      <4>2. /\ topics'[c] = AddTopic(topics[c], want[c])
            /\ owed'[c] = owed[c] \ {want[c]}
        BY <1>0, <2>1, <4>1 DEF SendDone, SharedTypeOK
      <4>3. Entries(topics'[c]) = Entries(topics[c]) \cup {want[c]}
        <5>1. topics[c] \in [Topics -> {0, 1}]
          BY <1>0 DEF SharedTypeOK
        <5> QED BY <4>1, <4>2, <5>1, AddTopicFacts
      <4> QED BY <4>1, <4>2, <4>3
    <3>2. CASE ent[c].stage = "availability"
      <4>1. want[c] \notin Topics
        BY <2>3, <3>2, MessageFacts
      <4>2. topics' = topics /\ owed' = owed
        BY <2>1, <4>1 DEF SendDone
      <4> QED BY <1>3, <2>6, <3>2, <4>2 DEF PastSubscribe
    <3> QED BY <2>3, <2>4, <2>6, <3>1, <3>2 DEF SetupStages
  <2> HIDE DEF q
  <2> QED BY <1>0, <2>1, <2>2, <2>3, <2>4, <2>5, <2>6, ProgressStep
<1> QED BY <1>5, <1>6, <1>10, <1>11, <1>12, <1>13 DEF StageStep

(* Every step of the composition preserves the invariant.                  *)
LEMMA EntitiesStep ==
  ASSUME EntitiesInv, SharedTypeOK', [EntitiesNext]_evars
  PROVE  EntitiesInv'
<1>0. SharedTypeOK /\ ent \in [Clients -> Progress] /\ Readers = Clients
  BY EntitiesAssumption DEF EntitiesAssumption, EntitiesInv, EntitiesTypeOK
<1>1. CASE Connect
  <2>1. /\ UNCHANGED <<topics, alive, want, closed, announced>>
        /\ \A c \in Clients : spc'[c] = "idle" <=> spc[c] = "idle"
        /\ \A r \in Readers : rpc'[r] = "idle" <=> rpc[r] = "idle"
    BY <1>0, <1>1, EnvironmentFacts DEF Connect
  <2>2. ASSUME NEW c \in Clients
        PROVE  /\ ent'[c] \in Progress
               /\ ent'[c] = ent[c] \/ (ent[c].stage = "idle" /\ ent'[c] = NotSetUp)
               /\ closed[c] \/ ent'[c] = NotSetUp
    BY <1>0, <1>1, ProgressFacts DEF Connect
  <2>3. ent' \in [Clients -> Progress]
    BY <1>1, <2>2 DEF Connect
  <2>4. EntitiesTypeOK'
    BY <1>0, <2>1, <2>2, <2>3, ProgressFacts DEF EntitiesInv, EntitiesTypeOK
  <2>5. AllAlive' /\ SendsFit'
    BY <2>1, <2>2, ProgressFacts DEF EntitiesInv, EntitiesTypeOK, AllAlive, SendsFit, SetupStages
  <2>6. SubscribeStands'
    BY <2>1, <2>2, ProgressFacts DEF SubscribeStands, PastSubscribe
  <2> QED BY <2>4, <2>5, <2>6 DEF EntitiesInv
<1>2. CASE Environment
  <2>1. /\ UNCHANGED <<topics, alive, want, closed, ent, announced>>
        /\ \A c \in Clients : spc'[c] = "idle" <=> spc[c] = "idle"
        /\ \A r \in Readers : rpc'[r] = "idle" <=> rpc[r] = "idle"
    BY <1>0, <1>2, EnvironmentFacts DEF Environment
  <2>2. owed' = owed
    BY <1>2 DEF Environment, AsyncClose, Drop, PumpStart, PumpStep, PumpOther, PumpLoses,
                PumpReset, PumpGaveUp, PumpClosed, PumpInvalid, PumpEnds, PumpPacket
  <2> QED BY <1>0, <2>1, <2>2
          DEF EntitiesInv, EntitiesTypeOK, AllAlive, SendsFit, SubscribeStands, PastSubscribe
<1>3. ASSUME NEW c \in Clients, AsyncRun(c) PROVE EntitiesInv'
  <2>1. /\ Goes(c, Receive) /\ announced' = announced
        /\ UNCHANGED <<spc, rpc, want, topics, owed, alive, closed>>
        /\ ent[c].stage = "idle" /\ PastSubscribe(c)
    BY <1>3 DEF AsyncRun, shared, vars, PastSubscribe
  <2>2. spc[c] = "idle" /\ announced \subseteq Clients
    BY <2>1 DEF EntitiesInv, EntitiesTypeOK, SetupStages
  <2>3. Commands(KindOf[c]) /\ ~closed[c] => TopicOf[c] \in Entries(topics[c]) \ owed[c]
    BY <2>1 DEF EntitiesInv, SubscribeStands
  <2> QED BY <2>1, <2>2, <2>3, ProgressFacts, ProgressStep
<1>4. ASSUME NEW c \in Clients, EntityClose(c) PROVE EntitiesInv'
  <2>1. /\ UNCHANGED <<topics, alive, want, spc, rpc, owed, ent, announced>>
        /\ \A d \in Clients : closed[d] => closed'[d]
    BY <1>0, <1>4 DEF EntityClose, Detach, SharedTypeOK
  <2> QED BY <2>1
          DEF EntitiesInv, EntitiesTypeOK, AllAlive, SendsFit, SubscribeStands, PastSubscribe
<1>5. CASE UNCHANGED evars
  BY <1>5 DEF evars, vars, EntitiesInv, EntitiesTypeOK, AllAlive, SendsFit, SubscribeStands,
              PastSubscribe
<1> QED BY <1>1, <1>2, <1>3, <1>4, <1>5, EntityRecvStep, StageStepInv DEF EntitiesNext

(* The invariants of the shared connection and of the entities on it hold  *)
(* in every reachable state.                                               *)
LEMMA EntitiesInvariant == EntitiesSpec => [](IndInv /\ EntitiesInv)
<1>1. IndInv => SharedTypeOK
  BY DEF IndInv
<1>2. EntitiesInv /\ SharedTypeOK' /\ [EntitiesNext]_evars => EntitiesInv'
  BY EntitiesStep
<1> QED BY <1>1, <1>2, EntitiesInitInv, EntitiesUseShared, Invariant, PTL DEF EntitiesSpec

(* An entity whose subscribe stands hears its commands, unless the link is *)
(* down or an error in its queue will make it set up again.                *)
LEMMA StandingIsHeard ==
  ASSUME IndInv, EntitiesInv, NEW c \in Clients,
         Commands(KindOf[c]), ~closed[c], PastSubscribe(c),
         link = "up", Rng(queue[c]) \cap Errors = {}
  PROVE  Hears(c)
<1>1. TopicOf[c] \in Entries(topics[c]) \ owed[c] /\ alive[c]
  BY DEF EntitiesInv, SubscribeStands, AllAlive
<1>2. TopicOf[c] \in subs
  BY <1>1 DEF IndInv, TopicsCovered
<1>3. c \in Registered
  BY <1>1 DEF IndInv, SubscribersRegistered
<1> QED BY <1>1, <1>2, <1>3 DEF Hears
-----------------------------------------------------------------------------
(* Type correctness; an entity sends only in a stage of its setup, and     *)
(* receives only in async_run.                                             *)
THEOREM EntitiesTypeCorrect == EntitiesSpec => []EntitiesTypeOK
<1>1. EntitiesInv => EntitiesTypeOK
  BY DEF EntitiesInv
<1> QED BY EntitiesInvariant, <1>1, PTL

(* Every entity that waits for commands on a live session hears them,      *)
(* whatever setups, replays, drops and closes interleave.                  *)
THEOREM CommandsReachEntities == EntitiesSpec => []CommandsCovered
<1>1. IndInv /\ EntitiesInv => CommandsCovered
  BY StandingIsHeard DEF CommandsCovered, Running, PastSubscribe
<1> QED BY EntitiesInvariant, <1>1, PTL

(* A setup declares an entity with commands available only when it hears   *)
(* them, or has been told to set up once more.                             *)
THEOREM OnlineEntitiesHear == EntitiesSpec => OnlineAfterSubscribe
<1>1. ASSUME IndInv, EntitiesInv, NEW c \in Clients, StageAcked(c),
             ent[c].stage = "availability", Commands(KindOf[c]), ~closed[c]
      PROVE  Hears(c) \/ Rng(queue[c]) \cap Errors # {}
  <2>1. link = "up"
    BY <1>1 DEF StageAcked, SendAcked, IndInv, SharedTypeOK
  <2> QED BY <1>1, <2>1, StandingIsHeard DEF PastSubscribe
<1>2. IndInv /\ EntitiesInv =>
        \A c \in Clients :
          StageAcked(c) /\ ent[c].stage = "availability"
            /\ Commands(KindOf[c]) /\ ~closed[c]
            => Hears(c) \/ Rng(queue[c]) \cap Errors # {}
  BY <1>1
<1> QED BY EntitiesInvariant, <1>2, PTL DEF OnlineAfterSubscribe
=============================================================================
