----------------------------- MODULE EntityProofs -----------------------------
(***************************************************************************)
(* Proofs about Entity: type correctness, and that an entity of any kind   *)
(* that receives on a live session is subscribed and announced; for every  *)
(* set of states that the application may publish.                         *)
(***************************************************************************)
EXTENDS Entity, TLAPS

(* Only the receive of async_run reconnects, and a client that reconnects  *)
(* is in that loop.                                                        *)
LoopOK ==
  /\ looping => ent.stage = "recv"
  /\ phys = "Reconnecting" => looping

(* A send of the setup never waits for a reconnect; it is under way or     *)
(* applied only on a live session, and lost only on a dead one.  A publish *)
(* of the application that is under way is one of its updates.             *)
SendsOK ==
  /\ step \in {"none", "sent", "applied", "lost"}
  /\ step \in {"sent", "applied"} => link = "up"
  /\ step = "lost" => link = "down"
  /\ ustep # "none" => upub \in Updates

(* The setup has succeeded: the coroutine receives, or is about to.        *)
SetUp == ent.stage = "recv" \/ (ent.stage = "idle" /\ ent.ready)

(* The sends of the setup that the broker has, if the link is up.          *)
DiscoverySent ==
  \/ SetUp \/ ent.stage \in {"subscribe", "availability"}
  \/ ent.stage = "discovery" /\ step = "applied"
SubscribeSent ==
  \/ SetUp \/ ent.stage = "availability"
  \/ ent.stage = "subscribe" /\ step = "applied"
OnlineSent == SetUp \/ (ent.stage = "availability" /\ step = "applied")

(* CommandsCovered and AnnouncementCovered made inductive: what the setup  *)
(* has done in a session stays done in it, from the stage that does it on. *)
CoverInv ==
  link = "up" =>
    /\ DiscoverySent => retained.config = "json"
    /\ Commands(kind) /\ SubscribeSent => subscribed
    /\ avail /\ OnlineSent => retained.availability # "none"

(* The inductive invariant of the proofs below.                            *)
IndInv == TypeOK /\ LoopOK /\ SendsOK /\ CoverInv
-----------------------------------------------------------------------------
(* GoTo: the coroutine reaches the progress it was to go to, or has failed *)
(* on a closed client; the send of a stage starts on the link there is.    *)
LEMMA GoToFacts ==
  ASSUME NEW p \in Progress, NEW ph, ph # "Reconnecting", NEW lk \in {"up", "down"},
         GoTo(p, ph, lk)
  PROVE  /\ ent' = p \/ ent' = NotSetUp
         /\ ent' \in Progress
         /\ step' # "none" <=> ent'.stage \in SetupStages
         /\ step' \in {"none", "sent", "lost"}
         /\ step' = "sent" => lk = "up"
         /\ step' = "lost" => lk = "down"
<1>1. NotSetUp \in Progress /\ NotSetUp.stage \notin SetupStages
  BY DEF NotSetUp, Progress, SetupStages
<1>2. ent' = p \/ ent' = NotSetUp
  BY DEF GoTo, SetupFails
<1>3. step' = IF ent'.stage \in SetupStages THEN Starts(ph, lk) ELSE "none"
  BY DEF GoTo
<1>4. Starts(ph, lk) = IF lk = "up" THEN "sent" ELSE "lost"
  BY DEF Starts
<1> QED BY <1>1, <1>2, <1>3, <1>4

(* Advance: the order of the sends of async_setup.  It publishes the       *)
(* availability after the subscribe of a kind that has commands, and it    *)
(* succeeds after the last send that the kind and its configuration need.  *)
LEMMA AdvanceFacts ==
  ASSUME NEW k \in Kinds, NEW a \in BOOLEAN, NEW p \in Progress, p.stage \in SetupStages
  PROVE  LET q == Advance(k, a, p) IN
         /\ q \in Progress
         /\ q.stage # "discovery"
         /\ q.stage = "subscribe" => p.stage = "discovery"
         /\ q.stage = "availability" => \/ p.stage = "subscribe"
                                        \/ p.stage = "discovery" /\ ~Commands(k)
         /\ q.stage \in {"recv", "idle"} => /\ Commands(k) => p.stage # "discovery"
                                            /\ a => p.stage = "availability"
<1>1. CASE AfterStage(k, a, p.stage) = "done"
  <2>1. Advance(k, a, p) \in Progress /\ Advance(k, a, p).stage \in {"recv", "idle"}
    BY <1>1 DEF Advance, SetupSucceeds, Receive, Progress, SetupStages
  <2>2. (Commands(k) => p.stage # "discovery") /\ (a => p.stage = "availability")
    BY <1>1 DEF AfterStage
  <2> QED BY <2>1, <2>2
<1>2. CASE AfterStage(k, a, p.stage) # "done"
  <2>1. Advance(k, a, p) = [p EXCEPT !.stage = AfterStage(k, a, p.stage)]
    BY <1>2 DEF Advance
  <2>2. AfterStage(k, a, p.stage) \in {"subscribe", "availability"}
    BY <1>2 DEF AfterStage
  <2>3. Advance(k, a, p) \in Progress /\ Advance(k, a, p).stage = AfterStage(k, a, p.stage)
    BY <2>1, <2>2 DEF Progress, SetupStages
  <2>4. /\ AfterStage(k, a, p.stage) = "subscribe" => p.stage = "discovery"
        /\ AfterStage(k, a, p.stage) = "availability" =>
             p.stage = "subscribe" \/ (p.stage = "discovery" /\ ~Commands(k))
    BY DEF AfterStage, SetupStages
  <2> QED BY <2>2, <2>3, <2>4
<1> QED BY <1>1, <1>2

(* Updates: what an update of the application retains has the right type,  *)
(* touches no discovery document, and is never an empty availability.      *)
LEMMA UpdateFacts ==
  ASSUME NEW u \in Updates, NEW rt \in Retained
  PROVE  LET new == [rt EXCEPT ![u[1]] = u[2]] IN
         /\ new \in Retained
         /\ new.config = rt.config
         /\ rt.availability # "none" => new.availability # "none"
<1>1. \/ u[1] = "state" /\ u[2] \in Payloads
      \/ u[1] = "availability" /\ u[2] \in {"online", "offline"}
  BY DEF Updates
<1>2. CASE u[1] = "state" /\ u[2] \in Payloads
  BY <1>2 DEF Retained
<1>3. CASE u[1] = "availability" /\ u[2] \in {"online", "offline"}
  BY <1>3 DEF Retained
<1> QED BY <1>1, <1>2, <1>3
-----------------------------------------------------------------------------
(* The initial state satisfies the inductive invariant.                    *)
LEMMA InitInv == Init => IndInv
<1> SUFFICES ASSUME Init PROVE IndInv
  OBVIOUS
<1>1. NotSetUp \in Progress /\ NotSetUp.stage = "idle" /\ ~NotSetUp.ready
  BY DEF NotSetUp, Progress
<1>2. NothingRetained \in Retained
  BY DEF NothingRetained, Retained
<1>3. TypeOK
  BY <1>1, <1>2 DEF Init, ClientInit, TypeOK, ClientTypeOK, SendSteps, SetupStages
<1>4. LoopOK /\ SendsOK /\ CoverInv
  BY DEF Init, ClientInit, LoopOK, SendsOK, CoverInv
<1> QED BY <1>3, <1>4 DEF IndInv

(* The actions in which the coroutine of the entity goes on, and where to. *)
LEMMA EntitySteps ==
  ASSUME IndInv,
         \/ AsyncSetup \/ SetupDone \/ SetupError \/ AsyncRun
         \/ RecvReset \/ RecvGaveUp \/ RecvFatal
  PROVE  /\ phys' # "Reconnecting" /\ looping' = FALSE
         /\ phys' \in {"Closed", "Connected", "Reconnecting"}
         /\ link' \in {"up", "down"}
         /\ UNCHANGED <<kind, avail, upub, subscribed, retained>>
         /\ ustep' \in {ustep, Wake(ustep)}
         /\ \E p \in Progress :
              /\ GoTo(p, phys', link')
              /\ \/ p.stage = "discovery"
                 \/ p = NotSetUp
                 \/ p = Receive /\ SetUp /\ link' = link
                 \/ SetupDone /\ p = Advance(kind, avail, ent) /\ link' = link
<1>1. /\ Receive \in Progress /\ NotSetUp \in Progress
      /\ \A b \in BOOLEAN : BeginSetup(b) \in Progress /\ BeginSetup(b).stage = "discovery"
  BY DEF Receive, NotSetUp, BeginSetup, Progress, SetupStages
<1>2. ent.stage # "recv" => looping = FALSE /\ phys # "Reconnecting"
  BY DEF IndInv, TypeOK, ClientTypeOK, LoopOK
<1>3. step # "none" => ent.stage \in SetupStages
  BY DEF IndInv, TypeOK
<1>4. /\ looping \in BOOLEAN /\ phys \in {"Closed", "Connected", "Reconnecting"}
      /\ link \in {"up", "down"} /\ kind \in Kinds /\ avail \in BOOLEAN /\ ent \in Progress
  BY DEF IndInv, TypeOK, ClientTypeOK
<1>5. CASE AsyncSetup
  BY <1>1, <1>2, <1>4, <1>5 DEF AsyncSetup, client, cls, app, broker
<1>6. CASE SetupDone
  <2>1. ent.stage \in SetupStages /\ ent.stage # "recv"
    BY <1>3, <1>6 DEF SetupDone, SetupStages
  <2>2. Advance(kind, avail, ent) \in Progress
    BY <1>4, <2>1, AdvanceFacts
  <2>3. GoTo(Advance(kind, avail, ent), phys, link) /\ UNCHANGED <<client, cls, app, broker>>
    BY <1>6 DEF SetupDone
  <2>4. phys' = phys /\ link' = link
    BY <2>3 DEF client, broker
  <2> QED BY <1>2, <1>4, <1>6, <2>1, <2>2, <2>3, <2>4 DEF client, cls, app, broker
<1>7. CASE SetupError
  <2>1. ent.stage # "recv"
    BY <1>3, <1>7 DEF SetupError, SetupStages
  <2> QED BY <1>1, <1>2, <1>4, <1>7, <2>1 DEF SetupError, SetupFails, client, cls, app, broker
<1>8. CASE AsyncRun
  <2>1. SetUp
    BY <1>8 DEF AsyncRun, SetUp
  <2> QED BY <1>1, <1>2, <1>4, <1>8, <2>1 DEF AsyncRun, client, cls, app, broker
<1>9. CASE RecvReset
  BY <1>1, <1>9 DEF RecvReset, Reset, HandleErr, cls
<1>10. CASE RecvGaveUp
  BY <1>1, <1>4, <1>10 DEF RecvGaveUp, GiveUp, HandleErr, cls, broker
<1>11. CASE RecvFatal
  <2>1. phys # "Reconnecting" /\ looping = FALSE
    BY <1>4, <1>11 DEF RecvFatal, IndInv, LoopOK
  <2> QED BY <1>1, <1>4, <1>11, <2>1 DEF RecvFatal, HandleErr, client, cls, app, broker
<1> QED BY <1>5, <1>6, <1>7, <1>8, <1>9, <1>10, <1>11

(* When the coroutine goes on, the sends that it leaves behind are with    *)
(* the broker, or the link is down, or the setup starts over.              *)
LEMMA EntityStepInv ==
  ASSUME IndInv,
         \/ AsyncSetup \/ SetupDone \/ SetupError \/ AsyncRun
         \/ RecvReset \/ RecvGaveUp \/ RecvFatal
  PROVE  IndInv'
<1>1. PICK p \in Progress :
        /\ GoTo(p, phys', link')
        /\ \/ p.stage = "discovery"
           \/ p = NotSetUp
           \/ p = Receive /\ SetUp /\ link' = link
           \/ SetupDone /\ p = Advance(kind, avail, ent) /\ link' = link
  BY EntitySteps
<1>2. /\ phys' # "Reconnecting" /\ looping' = FALSE
      /\ phys' \in {"Closed", "Connected", "Reconnecting"}
      /\ link' \in {"up", "down"}
      /\ UNCHANGED <<kind, avail, upub, subscribed, retained>>
      /\ ustep' \in {ustep, Wake(ustep)}
  BY EntitySteps
<1>3. /\ ent' = p \/ ent' = NotSetUp
      /\ ent' \in Progress
      /\ step' # "none" <=> ent'.stage \in SetupStages
      /\ step' \in {"none", "sent", "lost"}
      /\ step' = "sent" => link' = "up"
      /\ step' = "lost" => link' = "down"
  BY <1>1, <1>2, GoToFacts
<1>4. Updates' = Updates
  BY <1>2 DEF Updates
<1>5. /\ ustep' \in SendSteps
      /\ ustep' # "none" => ustep # "none"
  BY <1>2 DEF IndInv, TypeOK, Wake, SendSteps
<1>6. TypeOK'
  BY <1>2, <1>3, <1>4, <1>5 DEF IndInv, TypeOK, ClientTypeOK, SendSteps
<1>7. LoopOK'
  BY <1>2 DEF LoopOK
<1>8. SendsOK'
  BY <1>2, <1>3, <1>4, <1>5 DEF IndInv, SendsOK
<1>9. CoverInv'
  <2>1. CASE ent'.stage = "discovery" \/ ent' = NotSetUp
    <3>1. ~DiscoverySent' /\ ~SubscribeSent' /\ ~OnlineSent'
      BY <1>3, <2>1 DEF NotSetUp, SetUp, DiscoverySent, SubscribeSent, OnlineSent
    <3> QED BY <3>1 DEF CoverInv
  <2>2. CASE ent' = Receive /\ SetUp /\ link' = link
    BY <1>2, <2>2 DEF IndInv, CoverInv, DiscoverySent, SubscribeSent, OnlineSent
  <2>3. CASE SetupDone /\ ent' = Advance(kind, avail, ent) /\ link' = link
    <3> DEFINE q == Advance(kind, avail, ent)
    <3> SUFFICES ASSUME link = "up"
                 PROVE  /\ DiscoverySent' => retained.config = "json"
                        /\ Commands(kind) /\ SubscribeSent' => subscribed
                        /\ avail /\ OnlineSent' => retained.availability # "none"
      BY <1>2, <2>3 DEF CoverInv
    <3>1. step = "applied" /\ ent.stage \in SetupStages
      BY <2>3 DEF SetupDone, IndInv, SendsOK, TypeOK
    <3>2. kind \in Kinds /\ avail \in BOOLEAN /\ ent \in Progress
      BY DEF IndInv, TypeOK
    <3>3. /\ q.stage # "discovery"
          /\ q.stage = "subscribe" => ent.stage = "discovery"
          /\ q.stage = "availability" => \/ ent.stage = "subscribe"
                                         \/ ent.stage = "discovery" /\ ~Commands(kind)
          /\ q.stage \in {"recv", "idle"} => /\ Commands(kind) => ent.stage # "discovery"
                                             /\ avail => ent.stage = "availability"
      BY <3>1, <3>2, AdvanceFacts
    <3>4. DiscoverySent
      BY <3>1 DEF DiscoverySent, SetupStages
    <3>5. Commands(kind) /\ SubscribeSent' => SubscribeSent
      BY <1>3, <2>3, <3>1, <3>3 DEF SubscribeSent, SetUp, SetupStages
    <3>6. avail /\ OnlineSent' => OnlineSent
      BY <1>3, <2>3, <3>1, <3>3 DEF OnlineSent, SetUp
    <3> QED BY <3>4, <3>5, <3>6 DEF IndInv, CoverInv
  <2> QED BY <1>1, <1>3, <2>1, <2>2, <2>3
<1> QED BY <1>6, <1>7, <1>8, <1>9 DEF IndInv

(* Every other step: what the broker does with a send, what ends a link,   *)
(* and what the application does beside the coroutine of the entity.       *)
LEMMA OtherStepInv ==
  ASSUME IndInv,
         \/ SetupApplied \/ RecvLoses \/ AsyncConnect \/ AsyncClose \/ Drop
         \/ (\E u \in Updates : AsyncUpdate(u)) \/ Update \/ UNCHANGED vars
  PROVE  IndInv'
<1> USE DEF IndInv
<1>0. /\ looping \in BOOLEAN /\ phys \in {"Closed", "Connected", "Reconnecting"}
      /\ link \in {"up", "down"} /\ step \in SendSteps /\ ustep \in SendSteps
      /\ retained \in Retained
  BY DEF TypeOK, ClientTypeOK
<1>1. \A s \in SendSteps : /\ Lose(s) \in SendSteps /\ Lose(Wake(s)) \in SendSteps
                           /\ Lose(s) = "none" <=> s = "none"
                           /\ Lose(Wake(s)) = "none" <=> s = "none"
  BY DEF SendSteps, Wake, Lose
<1>2. Starts(phys, link) \in SendSteps /\ Starts(phys, link) # "none"
  BY DEF Starts, SendSteps
<1>3. CASE SetupApplied
  <2>1. /\ step = "sent" /\ step' = "applied" /\ link = "up" /\ ent.stage \in SetupStages
        /\ UNCHANGED <<phys, looping, kind, avail, ent, upub, ustep, link>>
        /\ subscribed' = (subscribed \/ ent.stage = "subscribe")
    BY <1>3 DEF SetupApplied, client, cls, app, SendsOK, TypeOK
  <2>2. /\ retained' \in Retained
        /\ retained.config = "json" \/ ent.stage = "discovery" => retained'.config = "json"
        /\ (retained.availability # "none" \/ ent.stage = "availability")
             => retained'.availability # "none"
    <3>1. CASE ent.stage = "discovery"
      <4>1. retained' = [retained EXCEPT !.config = "json"]
        BY <1>3, <3>1 DEF SetupApplied
      <4> QED BY <1>0, <3>1, <4>1 DEF Retained
    <3>2. CASE ent.stage = "subscribe"
      <4>1. retained' = retained
        BY <1>3, <3>2 DEF SetupApplied
      <4> QED BY <1>0, <3>2, <4>1
    <3>3. CASE ent.stage = "availability"
      <4>1. retained' = [retained EXCEPT !.availability = "online"]
        BY <1>3, <3>3 DEF SetupApplied
      <4> QED BY <1>0, <3>3, <4>1 DEF Retained
    <3> QED BY <2>1, <3>1, <3>2, <3>3 DEF SetupStages
  <2>3. Updates' = Updates
    BY <2>1 DEF Updates
  <2>4. TypeOK'
    BY <2>1, <2>2, <2>3 DEF TypeOK, ClientTypeOK, SendSteps
  <2>5. LoopOK' /\ SendsOK'
    BY <2>1, <2>3 DEF LoopOK, SendsOK
  <2>6. CoverInv'
    <3>1. DiscoverySent' => DiscoverySent \/ ent.stage = "discovery"
      BY <2>1 DEF DiscoverySent, SetUp
    <3>2. SubscribeSent' => SubscribeSent \/ ent.stage = "subscribe"
      BY <2>1 DEF SubscribeSent, SetUp
    <3>3. OnlineSent' => OnlineSent \/ ent.stage = "availability"
      BY <2>1 DEF OnlineSent, SetUp
    <3> QED BY <2>1, <2>2, <3>1, <3>2, <3>3 DEF CoverInv
  <2> QED BY <2>4, <2>5, <2>6
<1>4. CASE RecvLoses
  <2>1. Updates' = Updates
    BY <1>4 DEF RecvLoses, cls, Updates
  <2> QED BY <1>4, <2>1
          DEF RecvLoses, LoseLink, cls, main, app, broker, TypeOK, ClientTypeOK, LoopOK,
              SendsOK, CoverInv, DiscoverySent, SubscribeSent, OnlineSent, SetUp
<1>5. CASE AsyncConnect
  <2>1. /\ UNCHANGED <<kind, avail, step, upub, ustep, subscribed, retained, looping>>
        /\ phys' = "Connected" /\ link' = "up" /\ ent' = NotSetUp /\ ent.stage = "idle"
    BY <1>5 DEF AsyncConnect, AppConnect, cls, app
  <2>2. /\ NotSetUp \in Progress /\ NotSetUp.stage = "idle" /\ ~NotSetUp.ready
        /\ step = "none" /\ looping = FALSE
    BY <1>0, <2>1 DEF NotSetUp, Progress, SetupStages, TypeOK, LoopOK
  <2>3. Updates' = Updates
    BY <2>1 DEF Updates
  <2>4. TypeOK'
    BY <2>1, <2>2, <2>3 DEF TypeOK, ClientTypeOK, SetupStages
  <2>5. LoopOK' /\ SendsOK'
    BY <2>1, <2>2, <2>3 DEF LoopOK, SendsOK
  <2>6. ~DiscoverySent' /\ ~SubscribeSent' /\ ~OnlineSent'
    BY <2>1, <2>2 DEF SetUp, DiscoverySent, SubscribeSent, OnlineSent
  <2> QED BY <2>4, <2>5, <2>6 DEF CoverInv
<1>6. CASE AsyncClose \/ Drop
  <2>1. /\ UNCHANGED <<kind, avail, ent, upub, looping>>
        /\ link' = "down" /\ subscribed' = FALSE
        /\ retained' \in {retained, NothingRetained}
        /\ phys' \in {phys, "Closed"}
        /\ step' = Lose(step) /\ ustep' \in {Lose(ustep), Lose(Wake(ustep))}
    BY <1>6 DEF AsyncClose, Drop, AppClose, client, cls
  <2>2. retained' \in Retained
    BY <1>0, <2>1 DEF NothingRetained, Retained
  <2>3. Updates' = Updates
    BY <2>1 DEF Updates
  <2>4. TypeOK'
    BY <1>0, <1>1, <2>1, <2>2, <2>3 DEF TypeOK, ClientTypeOK
  <2>5. SendsOK'
    BY <1>0, <1>1, <2>1, <2>3 DEF SendsOK, Lose
  <2> QED BY <2>1, <2>4, <2>5 DEF LoopOK, CoverInv
<1>7. CASE (\E u \in Updates : AsyncUpdate(u)) \/ Update \/ UNCHANGED vars
  <2>1. UNCHANGED <<phys, looping, kind, avail, ent, step, link, subscribed>>
    BY <1>7 DEF AsyncUpdate, Update, UpdateWoken, UpdateApplied, UpdateReturns, vars, client,
                cls, main, broker
  <2>2. Updates' = Updates
    BY <2>1 DEF Updates
  <2>3. /\ ustep' \in SendSteps
        /\ upub' \in Updates \cup {NoUpdate}
        /\ ustep' # "none" => upub' \in Updates
    BY <1>0, <1>2, <1>7
       DEF AsyncUpdate, Update, UpdateWoken, UpdateApplied, UpdateReturns, vars, app, TypeOK,
           SendsOK, SendSteps
  <2>4. /\ retained' \in Retained
        /\ retained'.config = retained.config
        /\ retained.availability # "none" => retained'.availability # "none"
    <3>1. CASE UpdateApplied
      <4>1. upub \in Updates /\ retained' = [retained EXCEPT ![upub[1]] = upub[2]]
        BY <3>1 DEF UpdateApplied, SendsOK
      <4> QED BY <1>0, <4>1, UpdateFacts
    <3>2. CASE ~UpdateApplied
      <4>1. retained' = retained
        BY <1>7, <3>2 DEF AsyncUpdate, Update, UpdateWoken, UpdateReturns, vars, broker
      <4> QED BY <1>0, <4>1
    <3> QED BY <3>1, <3>2
  <2>5. TypeOK' /\ LoopOK' /\ SendsOK'
    BY <2>1, <2>2, <2>3, <2>4 DEF TypeOK, ClientTypeOK, LoopOK, SendsOK
  <2>6. CoverInv'
    BY <2>1, <2>4 DEF CoverInv, DiscoverySent, SubscribeSent, OnlineSent, SetUp
  <2> QED BY <2>5, <2>6
<1> QED BY <1>3, <1>4, <1>5, <1>6, <1>7

(* The inductive invariant holds in every reachable state.                 *)
LEMMA Invariant == Spec => []IndInv
<1>1. IndInv /\ [Next]_vars => IndInv'
  BY EntityStepInv, OtherStepInv DEF Next, Setup, LoopEnds
<1> QED BY InitInv, <1>1, PTL DEF Spec
-----------------------------------------------------------------------------
(* Type correctness: in particular the coroutine has a send under way      *)
(* exactly while it is in a stage of the setup.                            *)
THEOREM TypeCorrect == Spec => []TypeOK
<1>1. IndInv => TypeOK
  BY DEF IndInv
<1> QED BY Invariant, <1>1, PTL

(* An entity of a kind with commands that receives on a live session is    *)
(* subscribed to its command topic.                                        *)
THEOREM CommandsArrive == Spec => []CommandsCovered
<1>1. IndInv => CommandsCovered
  BY DEF IndInv, CoverInv, SubscribeSent, SetUp, CommandsCovered, Running
<1> QED BY Invariant, <1>1, PTL

(* An entity that receives on a live session has its discovery document    *)
(* and its availability with the broker.                                   *)
THEOREM AnnouncementStands == Spec => []AnnouncementCovered
<1>1. IndInv => AnnouncementCovered
  BY DEF IndInv, CoverInv, DiscoverySent, OnlineSent, SetUp, AnnouncementCovered, Running
<1> QED BY Invariant, <1>1, PTL

(* The setup of an entity with commands declares it available only in a    *)
(* session that is subscribed to its command topic.                        *)
THEOREM OnlineMeansSubscribed == Spec => OnlineAfterSubscribe
<1>1. IndInv => (SetupApplied /\ ent.stage = "availability" /\ Commands(kind) => subscribed)
  BY DEF IndInv, SetupApplied, SendsOK, CoverInv, SubscribeSent
<1> QED BY Invariant, <1>1, PTL DEF OnlineAfterSubscribe
=============================================================================
