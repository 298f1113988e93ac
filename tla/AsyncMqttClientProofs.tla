------------------------ MODULE AsyncMqttClientProofs ------------------------
(***************************************************************************)
(* Proofs about AsyncMqttClient, for every set of coroutines, every choice *)
(* of the calls they make, every number of attempts and every delay.       *)
(***************************************************************************)
EXTENDS AsyncMqttClient, TLAPS

(* The call a suspended coroutine is in fits the label it is suspended at, *)
(* and only receivers are in async_recv.                                   *)
PhaseOK ==
  \A p \in Procs :
    /\ pc[p] \in {"recv", "backoff"} => op[p] = "recv"
    /\ pc[p] \in {"handshake", "start", "acked"} => op[p] \in {"connect", "recv"}
    /\ pc[p] \in {"wait", "woken", "pid", "send", "lost", "closing", "closed"}
         => op[p] \notin {"connect", "recv"}
    /\ op[p] = "recv" => p \in Receivers

(* WaiterHasWaker made inductive: Reconnecting itself means that a loop is *)
(* running, so whoever starts to wait will be woken.                       *)
WakerInv ==
  /\ state = "Reconnecting" => \E r \in Procs : InLoop(r)
  /\ WaiterHasWaker

(* RecvNeverReportsSuccess and FullRetryBudget made inductive: a connected *)
(* client outside the loop has made no attempt, and inside the loop every  *)
(* attempt counted, but the one under way, has been made.                  *)
BudgetInv ==
  SingleReceiver =>
    /\ state = "Connected" /\ (\A r \in Procs : ~InLoop(r)) => attempt = 0
    /\ \A p \in Procs : InLoop(p) => attempt <= tries[p] + 1
    /\ \A p \in Procs : pc[p] = "idle" /\ op[p] = "recv" =>
         /\ res[p] # "Success"
         /\ res[p] \in TransportErrors \ {"Disconnected"}
              => tries[p] = MaxAttempts

(* The inductive invariant of the proofs below.                            *)
IndInv == TypeOK /\ PhaseOK /\ WakerInv /\ BudgetInv
-----------------------------------------------------------------------------
(* What the helpers return when the labels are well-typed: waking waiters  *)
(* and losing sends change no other label, and never put a coroutine into  *)
(* the wait.                                                               *)
LEMMA HelperFacts ==
  ASSUME NEW f \in [Procs -> Labels]
  PROVE  /\ CancelWait(f) \in [Procs -> Labels]
         /\ LoseSends(f) \in [Procs -> Labels]
         /\ \A q \in Procs : CancelWait(f)[q] # "wait"
         /\ \A q \in Procs : f[q] # "wait" => CancelWait(f)[q] = f[q]
         /\ \A q \in Procs : \/ CancelWait(f)[q] = f[q]
                             \/ f[q] = "wait" /\ CancelWait(f)[q] = "woken"
         /\ \A q \in Procs : f[q] # "send" => LoseSends(f)[q] = f[q]
         /\ \A q \in Procs : \/ LoseSends(f)[q] = f[q]
                             \/ f[q] = "send" /\ LoseSends(f)[q] = "lost"
<1>1. /\ CancelWait(f) \in [Procs -> Labels]
      /\ LoseSends(f) \in [Procs -> Labels]
  BY DEF CancelWait, LoseSends, Labels
<1>2. ASSUME NEW q \in Procs
      PROVE  /\ CancelWait(f)[q] # "wait"
             /\ f[q] # "wait" => CancelWait(f)[q] = f[q]
             /\ f[q] = "wait" => CancelWait(f)[q] = "woken"
             /\ f[q] # "send" => LoseSends(f)[q] = f[q]
             /\ f[q] = "send" => LoseSends(f)[q] = "lost"
  BY DEF CancelWait, LoseSends
<1> QED BY <1>1, <1>2

(* map_err gives every error one of seven codes: never Success, and none   *)
(* of the codes that the library itself answers with.                      *)
LEMMA MapErrCodes ==
  ASSUME NEW ec
  PROVE  /\ Failed(ec) => map_err(ec) \in MappedCodes
         /\ ~Failed(ec) => map_err(ec) = "Success"
BY DEF map_err, map_connect_error, map_netdb_error, map_misc_error,
       map_system_error, map_mqtt_error, MappedCodes

(* So what a call returns of the transport's errors is one of the seven.   *)
LEMMA MappedErrors ==
  /\ TransportErrors \subseteq MappedCodes
  /\ TransportErrors \subseteq ErrorCode
  /\ TransportErrors # {}
BY MapErrCodes, ClientAssumption
   DEF TransportErrors, ClientAssumption, MappedCodes, ErrorCode

(* The initial state satisfies the inductive invariant.                    *)
LEMMA InitInv == Init => IndInv
<1> SUFFICES ASSUME Init PROVE IndInv
  OBVIOUS
<1>1. TypeOK
  <2>1. 1 \in 1..MaxDelay /\ 0 \in 0..MaxAttempts
    BY ClientAssumption DEF ClientAssumption
  <2>2. "idle" \in Labels /\ "None" \in Results /\ "Closed" \in States
    BY DEF Labels, Results, States
  <2> QED BY <2>1, <2>2 DEF Init, TypeOK
<1>2. PhaseOK /\ WakerInv /\ BudgetInv
  BY DEF Init, PhaseOK, WakerInv, WaiterHasWaker, BudgetInv, InLoop
<1> QED BY <1>1, <1>2 DEF IndInv

(* Types: every step of the client keeps its variables in their types.     *)
LEMMA TypeStep == TypeOK /\ [Next]_vars => TypeOK'
<1> SUFFICES ASSUME TypeOK, [Next]_vars PROVE TypeOK'
  OBVIOUS
<1> USE ClientAssumption, MappedErrors DEF ClientAssumption, MappedCodes, ErrorCode
<1>0. CancelWait(pc) \in [Procs -> Labels] /\ LoseSends(pc) \in [Procs -> Labels]
  BY HelperFacts DEF TypeOK
<1>1. ASSUME NEW p \in Procs, NEW e \in TransportErrors \cup {"Success"},
             NEW s \in States, NEW f \in [Procs -> Labels],
             LoopTest(p, e, s, f)
      PROVE  /\ attempt' \in Nat /\ state' \in States
             /\ pc' \in [Procs -> Labels] /\ res' \in [Procs -> Results]
  <2>1. CancelWait(f) \in [Procs -> Labels]
    BY HelperFacts
  <2> QED BY <1>1, <2>1 DEF LoopTest, Return, TypeOK, States, Labels, Results
<1>2. ASSUME NEW p \in Procs, NEW e \in TransportErrors,
             NEW f \in [Procs -> Labels], ConnectFails(p, e, f)
      PROVE  /\ attempt' \in Nat /\ state' \in States
             /\ pc' \in [Procs -> Labels] /\ res' \in [Procs -> Results]
             /\ tries' \in [Procs -> 0..MaxAttempts]
  <2>1. CASE op[p] = "connect" /\ Return(p, e, f) /\ UNCHANGED <<state, attempt, tries>>
    BY <2>1 DEF Return, TypeOK, Labels, Results
  <2>2. CASE /\ tries' = [tries EXCEPT ![p] = MinOf(tries[p] + 1, MaxAttempts)]
             /\ LoopTest(p, e, state, f)
    <3>1. tries' \in [Procs -> 0..MaxAttempts]
      BY <2>2 DEF MinOf, TypeOK
    <3> QED BY <2>2, <3>1, <1>1 DEF TypeOK
  <2> QED BY <1>2, <2>1, <2>2 DEF ConnectFails
<1>3. CASE Drop
  BY <1>3, <1>0 DEF Drop, LinkTo, TypeOK
<1>4. ASSUME NEW p \in Procs, Call(p) PROVE TypeOK'
  <2>1. CASE AsyncConnect(p)
    BY <2>1 DEF AsyncConnect, Enter, TypeOK, Labels, Operations, Results
  <2>2. CASE AsyncClose(p)
    BY <2>2 DEF AsyncClose, Enter, TypeOK, Labels, Operations, Results
  <2>3. CASE AsyncSend(p)
    BY <2>3 DEF AsyncSend, Proceed, Transmit, Return, TypeOK, Labels, Operations, Results
  <2>4. CASE AsyncRecv(p)
    BY <2>4 DEF AsyncRecv, Enter, TypeOK, Labels, Operations, Results
  <2> QED BY <1>4, <2>1, <2>2, <2>3, <2>4 DEF Call
<1>5. ASSUME NEW p \in Procs, Resume(p) PROVE TypeOK'
  <2>1. CASE HandshakeOk(p)
    <3>1. LoseSends([pc EXCEPT ![p] = "start"]) \in [Procs -> Labels]
      BY HelperFacts DEF TypeOK, Labels
    <3> QED BY <2>1, <3>1 DEF HandshakeOk, LinkTo, TypeOK
  <2>2. CASE HandshakeFail(p)
    <3> PICK e \in TransportErrors :
          \/ UNCHANGED <<link, rxerr>> /\ ConnectFails(p, e, pc)
          \/ LinkTo("down") /\ ConnectFails(p, e, LoseSends(pc))
      BY <2>2 DEF HandshakeFail
    <3>1. link' \in {"down", "tcp", "up"} /\ rxerr' \in BOOLEAN
      BY <2>2 DEF HandshakeFail, LinkTo, TypeOK
    <3>2. ConnectFails(p, e, pc) \/ ConnectFails(p, e, LoseSends(pc))
      OBVIOUS
    <3>3. /\ attempt' \in Nat /\ state' \in States
          /\ pc' \in [Procs -> Labels] /\ res' \in [Procs -> Results]
          /\ tries' \in [Procs -> 0..MaxAttempts]
      BY <3>2, <1>0, <1>2 DEF TypeOK
    <3> QED BY <2>2, <3>1, <3>3 DEF HandshakeFail, TypeOK
  <2>3. CASE ConnAck(p)
    BY <2>3 DEF ConnAck, TypeOK, Labels
  <2>4. CASE ConnectDone(p)
    BY <2>4, <1>0 DEF ConnectDone, Return, TypeOK, States, Labels, Results
  <2>5. CASE StartFail(p)
    <3>1. /\ attempt' \in Nat /\ state' \in States
          /\ pc' \in [Procs -> Labels] /\ res' \in [Procs -> Results]
          /\ tries' \in [Procs -> 0..MaxAttempts]
      BY <2>5, <1>2 DEF StartFail, TypeOK
    <3> QED BY <2>5, <3>1 DEF StartFail, TypeOK
  <2>6. CASE ImplClosed(p)
    <3>1. LoseSends([pc EXCEPT ![p] = "closed"]) \in [Procs -> Labels]
      BY HelperFacts DEF TypeOK, Labels
    <3> QED BY <2>6, <3>1 DEF ImplClosed, LinkTo, TypeOK, Labels
  <2>7. CASE CloseDone(p)
    BY <2>7, <1>0 DEF CloseDone, Return, TypeOK, States, Labels, Results
  <2>8. CASE WaitDone(p)
    BY <2>8 DEF WaitDone, Proceed, Transmit, Return, TypeOK, Labels, Results
  <2>9. CASE AcquirePid(p)
    BY <2>9 DEF AcquirePid, Transmit, TypeOK, Labels
  <2>10. CASE SendDone(p)
    BY <2>10 DEF SendDone, Return, TypeOK, Labels, Results
  <2>11. CASE RecvFail(p)
    <3>1. CASE state # "Connected"
      BY <2>11, <3>1 DEF RecvFail, Return, TypeOK, Labels, Results
    <3>2. CASE state = "Connected"
      <4>1. LoopTest(p, "Success", "Reconnecting", CancelWait(pc))
        BY <2>11, <3>2 DEF RecvFail
      <4>2. /\ attempt' \in Nat /\ state' \in States
            /\ pc' \in [Procs -> Labels] /\ res' \in [Procs -> Results]
        BY <4>1, <1>0, <1>1 DEF States
      <4>3. /\ delay' = [delay EXCEPT ![p] = 1]
            /\ tries' = [tries EXCEPT ![p] = 0]
            /\ rxerr' = FALSE
            /\ UNCHANGED <<op, link, shut>>
        BY <2>11, <3>2 DEF RecvFail
      <4>4. 1 \in 1..MaxDelay /\ 0 \in 0..MaxAttempts
        OBVIOUS
      <4> QED BY <4>2, <4>3, <4>4 DEF TypeOK
    <3> QED BY <3>1, <3>2
  <2>12. CASE BackoffFires(p)
    BY <2>12 DEF BackoffFires, MinOf, TypeOK, Labels
  <2> QED BY <1>5, <2>1, <2>2, <2>3, <2>4, <2>5, <2>6, <2>7, <2>8, <2>9,
             <2>10, <2>11, <2>12 DEF Resume
<1>6. ASSUME NEW p \in Procs, RecvOk(p) PROVE TypeOK'
  BY <1>6 DEF RecvOk, Return, TypeOK, Labels, Results
<1>7. CASE UNCHANGED vars
  BY <1>7 DEF vars, TypeOK
<1> QED BY <1>3, <1>4, <1>5, <1>6, <1>7 DEF Next

(* Type correctness of the client, whatever the coroutines do.             *)
THEOREM TypeCorrect == Spec => []TypeOK
<1>1. Init => TypeOK
  BY InitInv DEF IndInv
<1> QED BY <1>1, TypeStep, PTL DEF Spec
-----------------------------------------------------------------------------
(* A failed async_connect, or the start of the reconnect loop, leads to    *)
(* the next back-off with state s or to a return from a closed client      *)
(* nobody waits on.                                                        *)
LEMMA LoopTestCases ==
  ASSUME TypeOK, NEW p \in Procs, NEW e, NEW s, NEW f \in [Procs -> Labels],
         LoopTest(p, e, s, f)
  PROVE  \/ /\ attempt < MaxAttempts
            /\ attempt' = attempt + 1
            /\ state' = s
            /\ pc' = [f EXCEPT ![p] = "backoff"]
            /\ res' = res
         \/ /\ attempt >= MaxAttempts
            /\ attempt' = attempt + 1
            /\ state' = "Closed"
            /\ pc' = [CancelWait(f) EXCEPT ![p] = "idle"]
            /\ res' = [res EXCEPT ![p] = e]
BY DEF LoopTest, Return

(* The steps of the client that fail to connect: the application's connect *)
(* returns, or the receiver's loop goes round.                             *)
LEMMA ConnectFailsCases ==
  ASSUME TypeOK, NEW p \in Procs, NEW e, NEW f \in [Procs -> Labels],
         ConnectFails(p, e, f)
  PROVE  \/ /\ op[p] = "connect"
            /\ pc' = [f EXCEPT ![p] = "idle"]
            /\ res' = [res EXCEPT ![p] = e]
            /\ UNCHANGED <<state, attempt, tries>>
         \/ /\ op[p] = "recv"
            /\ tries' = [tries EXCEPT ![p] = MinOf(tries[p] + 1, MaxAttempts)]
            /\ attempt < MaxAttempts
            /\ attempt' = attempt + 1
            /\ state' = state
            /\ pc' = [f EXCEPT ![p] = "backoff"]
            /\ res' = res
         \/ /\ op[p] = "recv"
            /\ tries' = [tries EXCEPT ![p] = MinOf(tries[p] + 1, MaxAttempts)]
            /\ attempt >= MaxAttempts
            /\ attempt' = attempt + 1
            /\ state' = "Closed"
            /\ pc' = [CancelWait(f) EXCEPT ![p] = "idle"]
            /\ res' = [res EXCEPT ![p] = e]
BY LoopTestCases DEF ConnectFails, Return

(* A step that fails to connect is HandshakeFail or StartFail: one of p's  *)
(* suspended connects, the other labels as they were or with lost sends.   *)
LEMMA FailSteps ==
  ASSUME TypeOK, NEW p \in Procs, HandshakeFail(p) \/ StartFail(p)
  PROVE  \E e \in TransportErrors, f \in [Procs -> Labels] :
           /\ ConnectFails(p, e, f)
           /\ pc[p] \in {"handshake", "start"}
           /\ f \in {pc, LoseSends(pc)}
           /\ UNCHANGED <<op, delay, shut>>
<1>1. LoseSends(pc) \in [Procs -> Labels] /\ pc \in [Procs -> Labels]
  BY HelperFacts DEF TypeOK
<1>2. CASE HandshakeFail(p)
  <2>1. PICK e \in TransportErrors :
          ConnectFails(p, e, pc) \/ ConnectFails(p, e, LoseSends(pc))
    BY <1>2 DEF HandshakeFail
  <2> QED BY <1>1, <1>2, <2>1 DEF HandshakeFail
<1>3. CASE StartFail(p)
  <2>1. PICK e \in TransportErrors : ConnectFails(p, e, pc)
    BY <1>3 DEF StartFail
  <2> QED BY <1>1, <1>3, <2>1 DEF StartFail
<1> QED BY <1>2, <1>3

(* Every step keeps the call of a coroutine in line with its label.        *)
LEMMA PhaseStep == TypeOK /\ PhaseOK /\ [Next]_vars => PhaseOK'
<1> SUFFICES ASSUME TypeOK, PhaseOK, [Next]_vars PROVE PhaseOK'
  OBVIOUS
<1> USE ClientAssumption, MappedErrors DEF ClientAssumption, MappedCodes, ErrorCode
<1>0. pc \in [Procs -> Labels] /\ op \in [Procs -> Operations \cup {"none"}]
  BY DEF TypeOK
<1>1. CASE Drop
  BY <1>0, <1>1, HelperFacts DEF Drop, PhaseOK
<1>2. ASSUME NEW p \in Procs, Call(p) PROVE PhaseOK'
  BY <1>0, <1>2 DEF Call, AsyncConnect, AsyncClose, AsyncSend, AsyncRecv, Enter,
       Proceed, Transmit, Return, PhaseOK, Receivers, Labels, Operations
<1>3. ASSUME NEW p \in Procs, Resume(p) PROVE PhaseOK'
  <2>1. CASE HandshakeOk(p)
    <3>2. \A q \in Procs : \/ pc'[q] = [pc EXCEPT ![p] = "start"][q]
                           \/ q # p /\ pc[q] = "send" /\ pc'[q] = "lost"
      <4>2. \A q \in Procs :
              LoseSends([pc EXCEPT ![p] = "start"])[q] =
                IF q = p THEN "start" ELSE IF pc[q] = "send" THEN "lost" ELSE pc[q]
        BY <1>0 DEF LoseSends
      <4> QED BY <1>0, <2>1, <4>2 DEF HandshakeOk
    <3> QED BY <1>0, <2>1, <3>2 DEF HandshakeOk, PhaseOK
  <2>2. CASE HandshakeFail(p) \/ StartFail(p)
    <3>1. PICK e \in TransportErrors, f \in [Procs -> Labels] :
            /\ ConnectFails(p, e, f)
            /\ pc[p] \in {"handshake", "start"}
            /\ f \in {pc, LoseSends(pc)}
            /\ UNCHANGED <<op, delay, shut>>
      BY <2>2, FailSteps
    <3>2. \A q \in Procs : f[q] = pc[q] \/ (pc[q] = "send" /\ f[q] = "lost")
      BY <1>0, <3>1, HelperFacts
    <3>3. \A q \in Procs : \/ CancelWait(f)[q] = f[q]
                           \/ f[q] = "wait" /\ CancelWait(f)[q] = "woken"
      BY <3>1, HelperFacts
    <3>4. CancelWait(f) \in [Procs -> Labels]
      BY <3>1, HelperFacts
    <3> QED BY <1>0, <3>1, <3>2, <3>3, <3>4, ConnectFailsCases DEF PhaseOK
  <2>3. CASE ConnAck(p) \/ AcquirePid(p) \/ SendDone(p) \/ BackoffFires(p)
    BY <1>0, <2>3 DEF ConnAck, AcquirePid, SendDone, BackoffFires, Transmit,
         Return, PhaseOK
  <2>4. CASE ConnectDone(p)
    BY <1>0, <2>4, HelperFacts DEF ConnectDone, Return, PhaseOK
  <2>5. CASE ImplClosed(p)
    <3>2. \A q \in Procs : \/ pc'[q] = [pc EXCEPT ![p] = "closed"][q]
                           \/ q # p /\ pc[q] = "send" /\ pc'[q] = "lost"
      <4>2. \A q \in Procs :
              LoseSends([pc EXCEPT ![p] = "closed"])[q] =
                IF q = p THEN "closed" ELSE IF pc[q] = "send" THEN "lost" ELSE pc[q]
        BY <1>0 DEF LoseSends
      <4> QED BY <1>0, <2>5, <4>2 DEF ImplClosed
    <3> QED BY <1>0, <2>5, <3>2 DEF ImplClosed, PhaseOK
  <2>6. CASE CloseDone(p)
    BY <1>0, <2>6, HelperFacts DEF CloseDone, Return, PhaseOK
  <2>7. CASE WaitDone(p)
    BY <1>0, <2>7 DEF WaitDone, Proceed, Transmit, Return, PhaseOK
  <2>8. CASE RecvFail(p)
    <3>1. CASE state # "Connected"
      BY <1>0, <2>8, <3>1 DEF RecvFail, Return, PhaseOK
    <3>2. CASE state = "Connected"
      <4>1. LoopTest(p, "Success", "Reconnecting", CancelWait(pc)) /\ op' = op
            /\ pc[p] = "recv"
        BY <2>8, <3>2 DEF RecvFail
      <4>2. CancelWait(pc) \in [Procs -> Labels]
            /\ CancelWait(CancelWait(pc)) \in [Procs -> Labels]
        BY <1>0, HelperFacts
      <4>3. \A q \in Procs : /\ \/ CancelWait(pc)[q] = pc[q]
                                \/ pc[q] = "wait" /\ CancelWait(pc)[q] = "woken"
                             /\ CancelWait(CancelWait(pc))[q] = CancelWait(pc)[q]
        BY <1>0, <4>2, HelperFacts
      <4> QED BY <1>0, <4>1, <4>2, <4>3, LoopTestCases DEF PhaseOK
    <3> QED BY <3>1, <3>2
  <2> QED BY <1>3, <2>1, <2>2, <2>3, <2>4, <2>5, <2>6, <2>7, <2>8 DEF Resume
<1>4. ASSUME NEW p \in Procs, RecvOk(p) PROVE PhaseOK'
  BY <1>0, <1>4 DEF RecvOk, Return, PhaseOK
<1>5. CASE UNCHANGED vars
  BY <1>5 DEF vars, PhaseOK
<1> QED BY <1>1, <1>2, <1>3, <1>4, <1>5 DEF Next
-----------------------------------------------------------------------------
(* What an async_recv may return without having been through the loop.     *)
LoopFree(r) == r \notin (TransportErrors \ {"Disconnected"}) \cup {"Success"}

(* A step that leaves the loops and the attempts alone, lets nobody wait   *)
(* unless the client is reconnecting, and ends no loop with a result.      *)
Quiet ==
  /\ attempt' = attempt
  /\ tries' = tries
  /\ \A q \in Procs : InLoop(q)' <=> InLoop(q)
  /\ \A q \in Procs : pc'[q] = "wait" => pc[q] = "wait" \/ state = "Reconnecting"
  /\ \A q \in Procs :
       pc'[q] = "idle" /\ op'[q] = "recv" =>
         \/ pc[q] = "idle" /\ op[q] = "recv" /\ res'[q] = res[q]
         \/ LoopFree(res'[q])

(* The environment's and the application's steps, and the completions that *)
(* neither connect nor close, are quiet and leave conn_.state alone.       *)
LEMMA QuietSteps ==
  ASSUME TypeOK, PhaseOK, NEW p \in Procs,
         \/ Drop \/ Call(p) \/ RecvOk(p) \/ HandshakeOk(p) \/ ConnAck(p)
         \/ ImplClosed(p) \/ WaitDone(p) \/ AcquirePid(p) \/ SendDone(p)
         \/ BackoffFires(p)
         \/ RecvFail(p) /\ state # "Connected"
         \/ UNCHANGED vars
  PROVE  Quiet /\ state' = state
<1> USE ClientAssumption, MappedErrors DEF ClientAssumption, MappedCodes, ErrorCode
<1>0. /\ pc \in [Procs -> Labels] /\ op \in [Procs -> Operations \cup {"none"}]
      /\ res \in [Procs -> Results]
  BY DEF TypeOK
<1>1. CASE Drop
  BY <1>0, <1>1, HelperFacts DEF Drop, Quiet, InLoop
<1>2. CASE Call(p)
  <2>1. CASE AsyncConnect(p) \/ AsyncClose(p) \/ AsyncRecv(p)
    BY <1>0, <2>1 DEF AsyncConnect, AsyncClose, AsyncRecv, Enter, Quiet, InLoop
  <2>2. CASE AsyncSend(p)
    BY <1>0, <2>2 DEF AsyncSend, Proceed, Transmit, Return, Quiet, InLoop
  <2> QED BY <1>2, <2>1, <2>2 DEF Call
<1>3. CASE RecvOk(p)
  BY <1>0, <1>3 DEF RecvOk, Return, Quiet, InLoop, LoopFree
<1>4. CASE HandshakeOk(p)
  <2>2. \A q \in Procs : \/ pc'[q] = [pc EXCEPT ![p] = "start"][q]
                         \/ q # p /\ pc[q] = "send" /\ pc'[q] = "lost"
    <3>2. \A q \in Procs :
            LoseSends([pc EXCEPT ![p] = "start"])[q] =
              IF q = p THEN "start" ELSE IF pc[q] = "send" THEN "lost" ELSE pc[q]
      BY <1>0 DEF LoseSends
    <3> QED BY <1>0, <1>4, <3>2 DEF HandshakeOk
  <2> QED BY <1>0, <1>4, <2>2 DEF HandshakeOk, Quiet, InLoop
<1>5. CASE ImplClosed(p)
  <2>2. \A q \in Procs : \/ pc'[q] = [pc EXCEPT ![p] = "closed"][q]
                         \/ q # p /\ pc[q] = "send" /\ pc'[q] = "lost"
    <3>2. \A q \in Procs :
            LoseSends([pc EXCEPT ![p] = "closed"])[q] =
              IF q = p THEN "closed" ELSE IF pc[q] = "send" THEN "lost" ELSE pc[q]
      BY <1>0 DEF LoseSends
    <3> QED BY <1>0, <1>5, <3>2 DEF ImplClosed
  <2> QED BY <1>0, <1>5, <2>2 DEF ImplClosed, Quiet, InLoop
<1>6. CASE ConnAck(p) \/ AcquirePid(p) \/ BackoffFires(p)
  BY <1>0, <1>6 DEF ConnAck, AcquirePid, BackoffFires, Transmit, Quiet, InLoop, PhaseOK
<1>7. CASE WaitDone(p)
  BY <1>0, <1>7 DEF WaitDone, Proceed, Transmit, Return, Quiet, InLoop, PhaseOK
<1>8. CASE SendDone(p)
  BY <1>0, <1>8 DEF SendDone, Return, Quiet, InLoop, PhaseOK
<1>9. CASE RecvFail(p) /\ state # "Connected"
  BY <1>0, <1>9 DEF RecvFail, Return, Quiet, InLoop, LoopFree
<1>10. CASE UNCHANGED vars
  BY <1>10 DEF vars, Quiet, InLoop
<1> QED BY <1>1, <1>2, <1>3, <1>4, <1>5, <1>6, <1>7, <1>8, <1>9, <1>10

(* The steps that are not quiet: a coroutine closes, connects, fails to    *)
(* connect or enters the reconnect loop.                                   *)
LEMMA StepCases ==
  ASSUME TypeOK, PhaseOK, [Next]_vars
  PROVE  \/ Quiet /\ state' = state
         \/ \E p \in Procs : \/ HandshakeFail(p) \/ StartFail(p)
                             \/ ConnectDone(p) \/ CloseDone(p)
                             \/ RecvFail(p) /\ state = "Connected"
<1>1. CASE Drop \/ UNCHANGED vars
  BY <1>1, QuietSteps, ClientAssumption, MappedErrors DEF ClientAssumption, MappedCodes
<1>2. CASE \E p \in Procs : Call(p) \/ Resume(p) \/ RecvOk(p)
  BY <1>2, QuietSteps DEF Resume
<1> QED BY <1>1, <1>2 DEF Next

(* Entering the reconnect loop: the receiver backs off and the client is   *)
(* Reconnecting, or, with no attempt left, the client is Closed.           *)
LEMMA EnterLoop ==
  ASSUME TypeOK, NEW p \in Procs, RecvFail(p), state = "Connected"
  PROVE  /\ tries' = [tries EXCEPT ![p] = 0]
         /\ attempt' = attempt + 1
         /\ op' = op
         /\ pc[p] = "recv"
         /\ \A q \in Procs : q # p =>
              \/ pc'[q] = pc[q] /\ pc[q] # "wait"
              \/ pc[q] = "wait" /\ pc'[q] = "woken"
         /\ \/ /\ attempt < MaxAttempts
               /\ state' = "Reconnecting"
               /\ pc'[p] = "backoff"
               /\ res' = res
            \/ /\ attempt >= MaxAttempts
               /\ state' = "Closed"
               /\ pc'[p] = "idle"
               /\ res' = [res EXCEPT ![p] = "Success"]
<1>1. /\ tries' = [tries EXCEPT ![p] = 0]
      /\ op' = op
      /\ pc[p] = "recv"
      /\ LoopTest(p, "Success", "Reconnecting", CancelWait(pc))
  BY DEF RecvFail
<1>2. CancelWait(pc) \in [Procs -> Labels]
      /\ CancelWait(CancelWait(pc)) \in [Procs -> Labels]
  BY HelperFacts DEF TypeOK
<1>3. \A q \in Procs :
        /\ pc[q] # "wait" => CancelWait(pc)[q] = pc[q]
        /\ pc[q] = "wait" => CancelWait(pc)[q] = "woken"
        /\ CancelWait(CancelWait(pc))[q] = CancelWait(pc)[q]
  BY <1>2, HelperFacts DEF TypeOK
<1> QED BY <1>1, <1>2, <1>3, LoopTestCases

(* A connect that fails: the application's call returns, or the loop goes  *)
(* round, or the loop gives up and wakes everyone.                         *)
LEMMA LeaveConnect ==
  ASSUME TypeOK, NEW p \in Procs, HandshakeFail(p) \/ StartFail(p)
  PROVE  /\ op' = op
         /\ pc[p] \in {"handshake", "start"}
         /\ \A q \in Procs : q # p =>
              \/ pc'[q] = pc[q]
              \/ pc[q] \in {"wait", "send"} /\ pc'[q] \in {"woken", "lost"}
         /\ \/ /\ op[p] = "connect"
               /\ pc'[p] = "idle"
               /\ UNCHANGED <<state, attempt, tries>>
               /\ \A q \in Procs : q # p => res'[q] = res[q]
            \/ /\ op[p] = "recv"
               /\ tries' = [tries EXCEPT ![p] = MinOf(tries[p] + 1, MaxAttempts)]
               /\ attempt' = attempt + 1
               /\ \/ /\ attempt < MaxAttempts
                     /\ state' = state
                     /\ pc'[p] = "backoff"
                     /\ res' = res
                  \/ /\ attempt >= MaxAttempts
                     /\ state' = "Closed"
                     /\ pc'[p] = "idle"
                     /\ \A q \in Procs : pc'[q] # "wait"
                     /\ \E e \in TransportErrors : res' = [res EXCEPT ![p] = e]
<1>1. PICK e \in TransportErrors, f \in [Procs -> Labels] :
        /\ ConnectFails(p, e, f)
        /\ pc[p] \in {"handshake", "start"}
        /\ f \in {pc, LoseSends(pc)}
        /\ UNCHANGED <<op, delay, shut>>
  BY FailSteps
<1>2. pc \in [Procs -> Labels] /\ res \in [Procs -> Results]
      /\ CancelWait(f) \in [Procs -> Labels]
  BY HelperFacts DEF TypeOK
<1>3. \A q \in Procs : f[q] = pc[q] \/ (pc[q] = "send" /\ f[q] = "lost")
  BY <1>1, <1>2, HelperFacts
<1>4. \A q \in Procs : /\ CancelWait(f)[q] # "wait"
                       /\ \/ CancelWait(f)[q] = f[q]
                          \/ f[q] = "wait" /\ CancelWait(f)[q] = "woken"
  BY <1>1, HelperFacts
<1> QED BY <1>1, <1>2, <1>3, <1>4, ConnectFailsCases

(* A connect that succeeds.                                                *)
LEMMA DoneConnect ==
  ASSUME TypeOK, NEW p \in Procs, ConnectDone(p)
  PROVE  /\ op' = op /\ tries' = tries
         /\ state' = "Connected" /\ attempt' = 0
         /\ pc[p] = "acked" /\ pc'[p] = "idle"
         /\ \A q \in Procs : q # p =>
              /\ pc'[q] = pc[q] \/ (pc[q] = "wait" /\ pc'[q] = "woken")
              /\ res'[q] = res[q]
         /\ \/ op[p] = "connect"
            \/ /\ op[p] = "recv"
               /\ res'[p] = "SessionReset"
               /\ \A q \in Procs : pc'[q] # "wait"
<1>1. pc \in [Procs -> Labels] /\ res \in [Procs -> Results]
      /\ CancelWait(pc) \in [Procs -> Labels]
  BY HelperFacts DEF TypeOK
<1>2. \A q \in Procs : /\ CancelWait(pc)[q] # "wait"
                       /\ \/ CancelWait(pc)[q] = pc[q]
                          \/ pc[q] = "wait" /\ CancelWait(pc)[q] = "woken"
  BY <1>1, HelperFacts
<1> QED BY <1>1, <1>2 DEF ConnectDone, Return

(* A close or disconnect that is done.                                     *)
LEMMA DoneClose ==
  ASSUME TypeOK, NEW p \in Procs, CloseDone(p)
  PROVE  /\ op' = op /\ tries' = tries /\ attempt' = attempt
         /\ state' = "Closed"
         /\ pc[p] = "closed" /\ pc'[p] = "idle"
         /\ \A q \in Procs : q # p =>
              /\ pc'[q] = pc[q] \/ (pc[q] = "wait" /\ pc'[q] = "woken")
              /\ res'[q] = res[q]
         /\ \A q \in Procs : pc'[q] # "wait"
<1>1. pc \in [Procs -> Labels] /\ res \in [Procs -> Results]
      /\ CancelWait(pc) \in [Procs -> Labels]
  BY HelperFacts DEF TypeOK
<1>2. \A q \in Procs : /\ CancelWait(pc)[q] # "wait"
                       /\ \/ CancelWait(pc)[q] = pc[q]
                          \/ pc[q] = "wait" /\ CancelWait(pc)[q] = "woken"
  BY <1>1, HelperFacts
<1> QED BY <1>1, <1>2 DEF CloseDone, Return
-----------------------------------------------------------------------------
(* Every step keeps a loop alive for whoever waits.                        *)
LEMMA WakerStep == TypeOK /\ PhaseOK /\ WakerInv /\ [Next]_vars => WakerInv'
<1> SUFFICES ASSUME TypeOK, PhaseOK, WakerInv, [Next]_vars PROVE WakerInv'
  OBVIOUS
<1>1. CASE Quiet /\ state' = state
  BY <1>1 DEF Quiet, WakerInv, WaiterHasWaker
<1>2. ASSUME NEW p \in Procs, HandshakeFail(p) \/ StartFail(p) PROVE WakerInv'
  <2>1. CASE state' = "Closed" /\ \A q \in Procs : pc'[q] # "wait"
    BY <2>1 DEF WakerInv, WaiterHasWaker
  <2>2. CASE op[p] = "connect" /\ pc'[p] = "idle" /\ state' = state
    <3>1. \A q \in Procs : InLoop(q)' <=> InLoop(q)
      BY <1>2, <2>2, LeaveConnect DEF InLoop
    <3>2. \A q \in Procs : pc'[q] = "wait" => pc[q] = "wait"
      BY <1>2, <2>2, LeaveConnect
    <3> QED BY <2>2, <3>1, <3>2 DEF WakerInv, WaiterHasWaker
  <2>3. CASE op[p] = "recv" /\ pc'[p] = "backoff" /\ state' = state
    <3>1. InLoop(p)'
      BY <1>2, <2>3, LeaveConnect DEF InLoop
    <3>2. \A q \in Procs : pc'[q] = "wait" => pc[q] = "wait"
      BY <1>2, <2>3, LeaveConnect
    <3> QED BY <2>3, <3>1, <3>2 DEF WakerInv, WaiterHasWaker
  <2> QED BY <1>2, <2>1, <2>2, <2>3, LeaveConnect
<1>3. ASSUME NEW p \in Procs, ConnectDone(p) PROVE WakerInv'
  <2>1. CASE \A q \in Procs : pc'[q] # "wait"
    BY <1>3, <2>1, DoneConnect DEF WakerInv, WaiterHasWaker
  <2>2. CASE op[p] = "connect"
    <3>1. \A q \in Procs : InLoop(q)' <=> InLoop(q)
      BY <1>3, <2>2, DoneConnect DEF InLoop
    <3>2. \A q \in Procs : pc'[q] = "wait" => pc[q] = "wait"
      BY <1>3, DoneConnect
    <3> QED BY <1>3, <3>1, <3>2, DoneConnect DEF WakerInv, WaiterHasWaker
  <2> QED BY <1>3, <2>1, <2>2, DoneConnect
<1>4. ASSUME NEW p \in Procs, CloseDone(p) PROVE WakerInv'
  BY <1>4, DoneClose DEF WakerInv, WaiterHasWaker
<1>5. ASSUME NEW p \in Procs, RecvFail(p), state = "Connected" PROVE WakerInv'
  <2>1. \A q \in Procs : pc'[q] # "wait"
    BY <1>5, EnterLoop
  <2>2. state' = "Reconnecting" => InLoop(p)'
    BY <1>5, EnterLoop, PhaseStep DEF InLoop, PhaseOK
  <2> QED BY <1>5, <2>1, <2>2, EnterLoop DEF WakerInv, WaiterHasWaker
<1> QED BY <1>1, <1>2, <1>3, <1>4, <1>5, StepCases

(* With one receiver, whoever is in async_recv is that receiver.           *)
LEMMA OneLoop ==
  ASSUME PhaseOK, SingleReceiver, NEW p \in Procs, NEW q \in Procs,
         op[p] = "recv", op[q] = "recv"
  PROVE  p = q
BY DEF PhaseOK, SingleReceiver

(* Every step keeps the attempts in line with the connects made.           *)
LEMMA BudgetStep == TypeOK /\ PhaseOK /\ BudgetInv /\ [Next]_vars => BudgetInv'
<1> SUFFICES ASSUME TypeOK, PhaseOK, BudgetInv, [Next]_vars, SingleReceiver
             PROVE  BudgetInv'
  BY DEF BudgetInv, SingleReceiver, Receivers
<1>0. /\ tries \in [Procs -> 0..MaxAttempts] /\ attempt \in Nat
      /\ res \in [Procs -> Results] /\ MaxAttempts \in Nat \ {0}
  BY ClientAssumption DEF TypeOK, ClientAssumption
<1>1. CASE Quiet /\ state' = state
  BY <1>1 DEF Quiet, BudgetInv, LoopFree
<1>2. ASSUME NEW p \in Procs, HandshakeFail(p) \/ StartFail(p) PROVE BudgetInv'
  <2>1. CASE op[p] = "connect"
    <3>1. \A q \in Procs : InLoop(q)' <=> InLoop(q)
      BY <1>2, <2>1, LeaveConnect DEF InLoop
    <3>2. \A q \in Procs : pc'[q] = "idle" /\ op'[q] = "recv" =>
            pc[q] = "idle" /\ op[q] = "recv" /\ res'[q] = res[q]
      BY <1>2, <2>1, LeaveConnect
    <3>3. UNCHANGED <<state, attempt, tries, op>>
      BY <1>2, <2>1, LeaveConnect
    <3> QED BY <3>1, <3>2, <3>3 DEF BudgetInv
  <2>2. CASE op[p] = "recv"
    <3>1. /\ op' = op
          /\ attempt' = attempt + 1
          /\ tries'[p] = MinOf(tries[p] + 1, MaxAttempts)
          /\ attempt <= tries[p] + 1
      BY <1>0, <1>2, <2>2, LeaveConnect DEF BudgetInv, InLoop
    <3>2. \A q \in Procs : op'[q] = "recv" => q = p
      BY <2>2, <3>1, OneLoop
    <3>3. CASE attempt < MaxAttempts
      <4>1. InLoop(p)' /\ pc'[p] = "backoff"
        BY <1>0, <1>2, <2>2, <3>3, LeaveConnect DEF InLoop
      <4>2. attempt' <= tries'[p] + 1
        BY <1>0, <3>1, <3>3 DEF MinOf
      <4> QED BY <3>2, <4>1, <4>2 DEF BudgetInv, InLoop
    <3>4. CASE attempt >= MaxAttempts
      <4>1. state' = "Closed" /\ pc'[p] = "idle" /\ res'[p] \in TransportErrors
        BY <1>0, <1>2, <2>2, <3>4, LeaveConnect
      <4>2. tries'[p] = MaxAttempts
        BY <1>0, <3>1, <3>4 DEF MinOf
      <4>3. "Success" \notin TransportErrors
        BY MappedErrors DEF MappedCodes
      <4> QED BY <3>2, <4>1, <4>2, <4>3 DEF BudgetInv, InLoop
    <3> QED BY <1>0, <3>3, <3>4
  <2> QED BY <1>2, <2>1, <2>2, LeaveConnect
<1>3. ASSUME NEW p \in Procs, ConnectDone(p) PROVE BudgetInv'
  <2>1. \A q \in Procs : pc'[q] = "idle" /\ op'[q] = "recv" =>
          \/ pc[q] = "idle" /\ op[q] = "recv" /\ res'[q] = res[q]
          \/ res'[q] = "SessionReset"
    BY <1>3, DoneConnect
  <2>2. "SessionReset" \notin TransportErrors
    BY MappedErrors DEF MappedCodes
  <2> QED BY <1>0, <1>3, <2>1, <2>2, DoneConnect DEF BudgetInv
<1>4. ASSUME NEW p \in Procs, CloseDone(p) PROVE BudgetInv'
  <2>1. \A q \in Procs : InLoop(q)' <=> InLoop(q)
    BY <1>4, DoneClose DEF InLoop
  <2>2. \A q \in Procs : pc'[q] = "idle" /\ op'[q] = "recv" =>
          pc[q] = "idle" /\ op[q] = "recv" /\ res'[q] = res[q]
    BY <1>4, DoneClose DEF PhaseOK
  <2> QED BY <1>4, <2>1, <2>2, DoneClose DEF BudgetInv
<1>5. ASSUME NEW p \in Procs, RecvFail(p), state = "Connected" PROVE BudgetInv'
  <2>1. op[p] = "recv" /\ pc[p] = "recv" /\ op' = op
    BY <1>5, EnterLoop DEF PhaseOK
  <2>2. \A q \in Procs : op[q] = "recv" => q = p
    BY <2>1, OneLoop
  <2>3. attempt = 0
    BY <1>5, <2>1, <2>2 DEF BudgetInv, InLoop
  <2>4. attempt' = 1 /\ tries'[p] = 0 /\ pc'[p] = "backoff"
    BY <1>0, <1>5, <2>3, EnterLoop
  <2>5. InLoop(p)'
    BY <2>1, <2>4 DEF InLoop
  <2> QED BY <2>1, <2>2, <2>4, <2>5 DEF BudgetInv, InLoop
<1> QED BY <1>1, <1>2, <1>3, <1>4, <1>5, StepCases
-----------------------------------------------------------------------------
(* IndInv is an invariant of the client.                                   *)
THEOREM Inductive == Spec => []IndInv
<1>1. IndInv /\ [Next]_vars => IndInv'
  BY TypeStep, PhaseStep, WakerStep, BudgetStep DEF IndInv
<1> QED BY <1>1, InitInv, PTL DEF Spec

(* No waiter is stranded: for any number of coroutines and receivers, a    *)
(* publish or subscribe that waits in async_wait_autoreconnect has a       *)
(* reconnect loop running whose exit cancels the timer.                    *)
THEOREM NoStrandedWaiter == Spec => []WaiterHasWaker
<1>1. IndInv => WaiterHasWaker
  BY DEF IndInv, WakerInv
<1> QED BY <1>1, Inductive, PTL

(* A failed receive is never reported as unexpected(Success).              *)
THEOREM NoSuccessAsError == Spec => []RecvNeverReportsSuccess
<1>1. IndInv => RecvNeverReportsSuccess
  BY DEF IndInv, BudgetInv, RecvNeverReportsSuccess
<1> QED BY <1>1, Inductive, PTL

(* The receiver gives up only after max_attempts connects of its own.      *)
THEOREM BudgetRespected == Spec => []FullRetryBudget
<1>1. IndInv => FullRetryBudget
  BY DEF IndInv, BudgetInv, FullRetryBudget
<1> QED BY <1>1, Inductive, PTL
-----------------------------------------------------------------------------
(* Every step of a client with one receiver is a step of ReceiveClient or  *)
(* leaves its state and its loop alone.                                    *)
LEMMA PromiseStep ==
  ASSUME IndInv, SingleReceiver, [Next]_vars
  PROVE  [Promise!ClientNext]_<<state, \E r \in Procs : InLoop(r)>>
<1> DEFINE loop == \E r \in Procs : InLoop(r)
<1> USE DEF Promise!ClientNext, Promise!AppConnect, Promise!AppClose,
        Promise!LoseLink, Promise!Reset, Promise!GiveUp
<1>0. TypeOK /\ PhaseOK /\ BudgetInv
  BY DEF IndInv
<1>1. CASE Quiet /\ state' = state
  BY <1>1 DEF Quiet
<1>2. ASSUME NEW p \in Procs, HandshakeFail(p) \/ StartFail(p)
      PROVE  [Promise!ClientNext]_<<state, loop>>
  <2>1. CASE op[p] = "connect"
    <3>1. \A q \in Procs : InLoop(q)' <=> InLoop(q)
      BY <1>0, <1>2, <2>1, LeaveConnect DEF InLoop
    <3>2. state' = state
      BY <1>0, <1>2, <2>1, LeaveConnect
    <3> QED BY <3>1, <3>2
  <2>2. CASE op[p] = "recv"
    <3>1. InLoop(p)
      BY <1>0, <1>2, <2>2, LeaveConnect DEF InLoop
    <3>2. CASE state' = state /\ pc'[p] = "backoff"
      <4>1. InLoop(p)'
        BY <1>0, <1>2, <2>2, <3>2, LeaveConnect DEF InLoop
      <4> QED BY <3>1, <3>2, <4>1
    <3>3. CASE state' = "Closed" /\ pc'[p] = "idle"
      <4>1. op' = op
        BY <1>0, <1>2, LeaveConnect
      <4>2. \A q \in Procs : op[q] = "recv" => q = p
        BY <1>0, <2>2, OneLoop
      <4>3. \A q \in Procs : ~InLoop(q)'
        BY <3>3, <4>1, <4>2 DEF InLoop
      <4> QED BY <3>1, <3>3, <4>3
    <3> QED BY <1>0, <1>2, <2>2, <3>2, <3>3, LeaveConnect
  <2> QED BY <1>0, <1>2, <2>1, <2>2, LeaveConnect
<1>3. ASSUME NEW p \in Procs, ConnectDone(p)
      PROVE  [Promise!ClientNext]_<<state, loop>>
  <2>1. CASE op[p] = "connect"
    <3>1. \A q \in Procs : InLoop(q)' <=> InLoop(q)
      BY <1>0, <1>3, <2>1, DoneConnect DEF InLoop
    <3> QED BY <1>0, <1>3, <3>1, DoneConnect
  <2>2. CASE op[p] = "recv"
    <3>1. InLoop(p)
      BY <1>0, <1>3, <2>2, DoneConnect DEF InLoop
    <3>2. \A q \in Procs : op[q] = "recv" => q = p
      BY <1>0, <2>2, OneLoop
    <3>3. \A q \in Procs : ~InLoop(q)'
      BY <1>0, <1>3, <3>2, DoneConnect DEF InLoop
    <3> QED BY <1>0, <1>3, <3>1, <3>3, DoneConnect
  <2> QED BY <1>0, <1>3, <2>1, <2>2, DoneConnect
<1>4. ASSUME NEW p \in Procs, CloseDone(p)
      PROVE  [Promise!ClientNext]_<<state, loop>>
  <2>1. \A q \in Procs : InLoop(q)' <=> InLoop(q)
    BY <1>0, <1>4, DoneClose DEF InLoop
  <2> QED BY <1>0, <1>4, <2>1, DoneClose
<1>5. ASSUME NEW p \in Procs, RecvFail(p), state = "Connected"
      PROVE  [Promise!ClientNext]_<<state, loop>>
  <2>1. op[p] = "recv" /\ pc[p] = "recv" /\ op' = op
    BY <1>0, <1>5, EnterLoop DEF PhaseOK
  <2>2. \A q \in Procs : op[q] = "recv" => q = p
    BY <1>0, <2>1, OneLoop
  <2>3. \A q \in Procs : ~InLoop(q)
    BY <2>1, <2>2 DEF InLoop
  <2>4. attempt = 0
    BY <1>0, <1>5, <2>3 DEF BudgetInv
  <2>5. state' = "Reconnecting" /\ pc'[p] = "backoff"
    BY <1>0, <1>5, <2>4, EnterLoop, ClientAssumption, MappedErrors DEF ClientAssumption, MappedCodes
  <2>6. InLoop(p)'
    BY <2>1, <2>5 DEF InLoop
  <2> QED BY <1>5, <2>3, <2>5, <2>6
<1> QED BY <1>0, <1>1, <1>2, <1>3, <1>4, <1>5, StepCases

(* A client with one receiver implements ReceiveClient.                    *)
THEOREM Implements ==
  ASSUME SingleReceiver
  PROVE  Spec => ImplementsReceiveClient
<1>1. Init => Promise!ClientInit
  BY DEF Init, Promise!ClientInit, InLoop
<1>2. IndInv /\ [Next]_vars => [Promise!ClientNext]_<<state, \E r \in Procs : InLoop(r)>>
  BY PromiseStep
<1> QED BY <1>1, <1>2, Inductive, PTL
      DEF Spec, ImplementsReceiveClient, Promise!ClientSpec
-----------------------------------------------------------------------------
(* A step in which a call returns SessionReset is the end of the loop.     *)
LEMMA ResetStep ==
  ASSUME TypeOK, PhaseOK, [Next]_vars, NEW q \in Procs,
         pc[q] # "idle", pc'[q] = "idle", res'[q] = "SessionReset"
  PROVE  InLoop(q) /\ state' = "Connected" /\ attempt' = 0
<1>0. /\ pc \in [Procs -> Labels] /\ res \in [Procs -> Results]
      /\ "SessionReset" \notin TransportErrors \cup {"Success"}
  BY MappedErrors DEF TypeOK, MappedCodes
<1>1. ASSUME NEW p \in Procs, ConnectDone(p)
      PROVE  InLoop(q) /\ state' = "Connected" /\ attempt' = 0
  <2>1. p = q
    BY <1>0, <1>1, HelperFacts DEF ConnectDone, Return
  <2> QED BY <1>0, <1>1, <2>1 DEF ConnectDone, Return, InLoop
<1>2. ASSUME NEW p \in Procs, HandshakeFail(p) \/ StartFail(p)
      PROVE  FALSE
  <2>1. PICK e \in TransportErrors, f \in [Procs -> Labels] :
          /\ ConnectFails(p, e, f)
          /\ f \in {pc, LoseSends(pc)}
    BY <1>2, FailSteps
  <2>2. f[q] # "idle" /\ CancelWait(f)[q] # "idle"
    <3>1. f[q] # "idle"
      BY <1>0, <2>1, HelperFacts
    <3> QED BY <3>1, HelperFacts
  <2>3. CancelWait(f) \in [Procs -> Labels]
    BY HelperFacts
  <2> QED BY <1>0, <2>1, <2>2, <2>3, ConnectFailsCases
<1>3. ASSUME NEW p \in Procs, CloseDone(p)
      PROVE  FALSE
  BY <1>0, <1>3, HelperFacts DEF CloseDone, Return
<1>4. ASSUME NEW p \in Procs, RecvFail(p)
      PROVE  FALSE
  <2>1. CancelWait(pc) \in [Procs -> Labels] /\ CancelWait(pc)[q] # "idle"
    BY <1>0, HelperFacts
  <2>2. CancelWait(CancelWait(pc)) \in [Procs -> Labels]
           /\ CancelWait(CancelWait(pc))[q] # "idle"
    BY <2>1, HelperFacts
  <2> QED BY <1>0, <1>4, <2>1, <2>2 DEF RecvFail, LoopTest, Return
<1>5. ASSUME NEW p \in Procs,
             \/ Call(p) \/ ConnAck(p) \/ WaitDone(p) \/ AcquirePid(p)
             \/ SendDone(p) \/ RecvOk(p) \/ BackoffFires(p)
      PROVE  FALSE
  <2>1. CASE Call(p)
    BY <1>0, <2>1 DEF Call, AsyncConnect, AsyncClose, AsyncRecv, AsyncSend,
                      Enter, Proceed, Transmit, Return
  <2>2. CASE ConnAck(p) \/ AcquirePid(p) \/ BackoffFires(p)
    BY <1>0, <2>2 DEF ConnAck, AcquirePid, BackoffFires, Transmit
  <2>3. CASE WaitDone(p)
    BY <1>0, <2>3 DEF WaitDone, Proceed, Transmit, Return
  <2>4. CASE SendDone(p) \/ RecvOk(p)
    BY <1>0, <2>4 DEF SendDone, RecvOk, Return
  <2> QED BY <1>5, <2>1, <2>2, <2>3, <2>4
<1>6. ASSUME NEW p \in Procs, HandshakeOk(p) \/ ImplClosed(p)
      PROVE  FALSE
  <2> DEFINE F(l) == [pc EXCEPT ![p] = l]
  <2>1. ASSUME NEW l \in {"start", "closed"}
        PROVE  F(l)[q] # "idle" /\ LoseSends(F(l))[q] # "idle"
    <3>1. F(l) \in [Procs -> Labels] /\ F(l)[q] # "idle"
      BY <1>0 DEF Labels
    <3> HIDE DEF F
    <3> QED BY <3>1, HelperFacts
  <2> QED BY <1>6, <2>1 DEF HandshakeOk, ImplClosed
<1>7. CASE Drop
  BY <1>0, <1>7, HelperFacts DEF Drop
<1>8. CASE UNCHANGED vars
  BY <1>8 DEF vars
<1> QED BY <1>1, <1>2, <1>3, <1>4, <1>5, <1>6, <1>7, <1>8 DEF Next, Resume

(* A call returns SessionReset only out of the reconnect loop and with the *)
(* client connected, for any errors of the transport and any number of     *)
(* receivers.                                                              *)
THEOREM ResetIsGenuine == Spec => ResetMeansConnected
<1>1. TypeOK /\ PhaseOK /\ [Next]_vars =>
        [\A p \in Procs :
           (pc[p] # "idle" /\ pc'[p] = "idle" /\ res'[p] = "SessionReset")
             => InLoop(p) /\ state' = "Connected" /\ attempt' = 0]_vars
  BY ResetStep
<1>2. IndInv => TypeOK /\ PhaseOK
  BY DEF IndInv
<1> QED BY <1>1, <1>2, Inductive, PTL DEF Spec, ResetMeansConnected
-----------------------------------------------------------------------------
(* A coroutine is in a call that the application makes of it.              *)
CallsOK == \A p \in Procs : op[p] = "none" \/ op[p] \in Calls[p]

(* BrokenLinkIsNoticed made inductive: between CONNACK and the resumption  *)
(* of async_connect, which makes the client Connected without a look at    *)
(* the transport, a loss of the transport has left its receive error.      *)
NoticeInv ==
  /\ BrokenLinkIsNoticed
  /\ ReceiverConnects =>
       \A p \in Procs : pc[p] = "acked" => link = "up" \/ rxerr

(* A coroutine starts only calls that are its own, and keeps to one until  *)
(* it returns.                                                             *)
LEMMA CallsStep == TypeOK /\ CallsOK /\ [Next]_vars => CallsOK'
<1> SUFFICES ASSUME TypeOK, CallsOK, [Next]_vars PROVE CallsOK'
  OBVIOUS
<1>1. CASE op' = op
  BY <1>1 DEF CallsOK
<1>2. ASSUME NEW p \in Procs, Call(p) PROVE CallsOK'
  BY <1>2 DEF Call, AsyncConnect, AsyncClose, AsyncSend, AsyncRecv, Enter,
       CallsOK, TypeOK
<1>3. ASSUME NEW p \in Procs, Resume(p) \/ RecvOk(p) PROVE op' = op
  BY <1>3 DEF Resume, HandshakeOk, HandshakeFail, ConnAck, ConnectDone,
       StartFail, ImplClosed, CloseDone, WaitDone, AcquirePid, SendDone,
       RecvFail, BackoffFires, RecvOk
<1> QED BY <1>1, <1>2, <1>3 DEF Next, Drop, vars

(* Only CONNACK brings a coroutine to the point where it will find itself  *)
(* connected.                                                              *)
LEMMA AckedBefore ==
  ASSUME TypeOK, [Next]_vars, \A p \in Procs : ~ConnAck(p),
         NEW q \in Procs, pc'[q] = "acked"
  PROVE  pc[q] = "acked"
<1>0. pc \in [Procs -> Labels]
  BY DEF TypeOK
<1>1. ASSUME NEW f \in [Procs -> Labels]
      PROVE  /\ CancelWait(f)[q] = "acked" => f[q] = "acked"
             /\ LoseSends(f)[q] = "acked" => f[q] = "acked"
  BY HelperFacts
<1>2. ASSUME NEW p \in Procs, Call(p) PROVE pc[q] = "acked"
  BY <1>0, <1>2 DEF Call, AsyncConnect, AsyncClose, AsyncRecv, AsyncSend,
       Enter, Proceed, Transmit, Return
<1>3. ASSUME NEW p \in Procs, HandshakeFail(p) \/ StartFail(p)
      PROVE  pc[q] = "acked"
  <2>1. PICK e \in TransportErrors, f \in [Procs -> Labels] :
          ConnectFails(p, e, f) /\ f \in {pc, LoseSends(pc)}
    BY <1>3, FailSteps
  <2>2. CancelWait(f) \in [Procs -> Labels]
    BY HelperFacts
  <2>3. f[q] = "acked"
    BY <1>1, <2>1, <2>2, ConnectFailsCases
  <2> QED BY <1>0, <1>1, <2>1, <2>3
<1>4. ASSUME NEW p \in Procs, HandshakeOk(p) \/ ImplClosed(p)
      PROVE  pc[q] = "acked"
  <2> DEFINE F(l) == [pc EXCEPT ![p] = l]
  <2>1. ASSUME NEW l \in {"start", "closed"}
        PROVE  /\ F(l)[q] = "acked" => pc[q] = "acked"
               /\ LoseSends(F(l))[q] = "acked" => pc[q] = "acked"
    <3>1. F(l) \in [Procs -> Labels] /\ (F(l)[q] = "acked" => pc[q] = "acked")
      BY <1>0 DEF Labels
    <3> HIDE DEF F
    <3> QED BY <1>1, <3>1
  <2> QED BY <1>4, <2>1 DEF HandshakeOk, ImplClosed
<1>5. ASSUME NEW p \in Procs, ConnectDone(p) \/ CloseDone(p)
      PROVE  pc[q] = "acked"
  <2>1. CancelWait(pc) \in [Procs -> Labels]
    BY <1>0, HelperFacts
  <2> QED BY <1>0, <1>1, <1>5, <2>1 DEF ConnectDone, CloseDone, Return
<1>6. ASSUME NEW p \in Procs,
             WaitDone(p) \/ AcquirePid(p) \/ SendDone(p) \/ BackoffFires(p) \/ RecvOk(p)
      PROVE  pc[q] = "acked"
  BY <1>0, <1>6 DEF WaitDone, AcquirePid, SendDone, BackoffFires, RecvOk,
       Proceed, Transmit, Return
<1>7. ASSUME NEW p \in Procs, RecvFail(p) PROVE pc[q] = "acked"
  <2>1. /\ CancelWait(pc) \in [Procs -> Labels]
        /\ CancelWait(CancelWait(pc)) \in [Procs -> Labels]
    BY <1>0, HelperFacts
  <2>2. /\ CancelWait(pc)[q] = "acked" => pc[q] = "acked"
        /\ CancelWait(CancelWait(pc))[q] = "acked" => pc[q] = "acked"
    BY <1>0, <1>1, <2>1
  <2> QED BY <1>0, <1>7, <2>1, <2>2 DEF RecvFail, LoopTest, Return
<1>8. CASE Drop \/ UNCHANGED vars
  BY <1>0, <1>1, <1>8 DEF Drop, vars
<1> QED BY <1>2, <1>3, <1>4, <1>5, <1>6, <1>7, <1>8 DEF Next, Resume

(* Every step keeps a loss of the transport from going unnoticed.  The one *)
(* that consumes the receive error is a receive: it leaves Connected, and  *)
(* its coroutine, the only one that connects, is not at CONNACK.           *)
LEMMA NoticeStep ==
  ASSUME TypeOK, PhaseOK, CallsOK, NoticeInv, [Next]_vars
  PROVE  NoticeInv'
<1> DEFINE Noticed == link = "up" \/ rxerr
           Sure == /\ state = "Connected" => Noticed
                   /\ \A q \in Procs : pc[q] = "acked" => Noticed
<1> SUFFICES ASSUME ReceiverConnects PROVE Sure'
  BY DEF NoticeInv, BrokenLinkIsNoticed
<1>0. Sure
  BY DEF NoticeInv, BrokenLinkIsNoticed
<1>1. ASSUME NEW l, LinkTo(l), Noticed PROVE Noticed'
  <2>1. rxerr' = (rxerr \/ link = "up")
    BY <1>1, Zenon DEF LinkTo
  <2>2. (rxerr \/ link = "up") = TRUE
    BY <1>1, Zenon
  <2> QED BY <2>1, <2>2, Zenon
<1>2. ASSUME NEW p \in Procs, ConnAck(p) PROVE Sure'
  BY <1>2 DEF ConnAck
<1>3. ASSUME NEW p \in Procs, ConnectDone(p) PROVE Noticed'
  BY <1>0, <1>3 DEF ConnectDone
<1>4. ASSUME NEW p \in Procs, HandshakeFail(p) \/ StartFail(p)
      PROVE  (Noticed => Noticed') /\ state' \in {state, "Closed"}
  <2>1. Noticed => Noticed'
    BY <1>4 DEF HandshakeFail, StartFail, LinkTo
  <2>2. PICK e \in TransportErrors, f \in [Procs -> Labels] : ConnectFails(p, e, f)
    BY <1>4, FailSteps
  <2>3. state' \in {state, "Closed"}
    BY <2>2, ConnectFailsCases
  <2> QED BY <2>1, <2>3
<1>5. ASSUME NEW p \in Procs, RecvFail(p)
      PROVE  state' # "Connected" /\ \A q \in Procs : pc[q] # "acked"
  <2>1. state' # "Connected"
    BY <1>5 DEF RecvFail, LoopTest, TypeOK, States
  <2>2. pc[p] = "recv" /\ "recv" \in Calls[p]
    BY <1>5 DEF RecvFail, PhaseOK, CallsOK
  <2>3. ASSUME NEW q \in Procs, pc[q] = "acked" PROVE FALSE
    <3>1. Calls[q] \cap {"connect", "recv"} # {}
      BY <2>3 DEF PhaseOK, CallsOK
    <3>2. Calls[p] \cap {"connect", "recv"} # {}
      BY <2>2
    <3> QED BY <2>2, <2>3, <3>1, <3>2 DEF ReceiverConnects
  <2> QED BY <2>1, <2>3
<1>6. ASSUME NEW p \in Procs,
             \/ Call(p) \/ HandshakeOk(p) \/ ImplClosed(p) \/ CloseDone(p)
             \/ WaitDone(p) \/ AcquirePid(p) \/ SendDone(p) \/ BackoffFires(p)
             \/ RecvOk(p)
      PROVE  (Noticed => Noticed') /\ state' \in {state, "Closed"}
  <2>1. (\E l : LinkTo(l)) \/ UNCHANGED <<link, rxerr>>
    BY <1>6 DEF Call, AsyncConnect, AsyncClose, AsyncSend, AsyncRecv, HandshakeOk,
         ImplClosed, CloseDone, WaitDone, AcquirePid, SendDone, BackoffFires, RecvOk
  <2>2. state' \in {state, "Closed"}
    BY <1>6 DEF Call, AsyncConnect, AsyncClose, AsyncSend, AsyncRecv, HandshakeOk,
         ImplClosed, CloseDone, WaitDone, AcquirePid, SendDone, BackoffFires, RecvOk
  <2> QED BY <1>1, <2>1, <2>2
<1>7. ASSUME Drop \/ UNCHANGED vars
      PROVE  (Noticed => Noticed') /\ state' \in {state, "Closed"}
  <2>1. (\E l : LinkTo(l)) \/ UNCHANGED <<link, rxerr>>
    BY <1>7 DEF Drop, vars
  <2>2. state' = state
    BY <1>7 DEF Drop, vars
  <2> QED BY <1>1, <2>1, <2>2
<1>8. CASE \A p \in Procs : ~ConnAck(p)
  <2>1. \A q \in Procs : pc'[q] = "acked" => pc[q] = "acked"
    BY <1>8, AckedBefore
  <2>2. CASE (Noticed => Noticed') /\ state' \in {state, "Closed"}
    BY <1>0, <2>1, <2>2
  <2>3. ASSUME NEW p \in Procs, ConnectDone(p) PROVE Sure'
    BY <1>3, <2>3
  <2>4. ASSUME NEW p \in Procs, RecvFail(p) PROVE Sure'
    BY <1>5, <2>1, <2>4
  <2> QED BY <1>4, <1>6, <1>7, <1>8, <2>2, <2>3, <2>4 DEF Next, Resume
<1> QED BY <1>2, <1>8

(* With the lifecycle the documentation describes, a client that believes  *)
(* it is connected on a transport that is not always has the receive error *)
(* that will tell it, for any number of senders and closers, any errors    *)
(* and any number of reconnects.                                           *)
THEOREM OutagesAreNoticed == Spec => []BrokenLinkIsNoticed
<1> DEFINE Inv == TypeOK /\ PhaseOK /\ CallsOK /\ NoticeInv
<1>1. Init => Inv
  <2>1. Init => CallsOK /\ NoticeInv
    BY DEF Init, CallsOK, NoticeInv, BrokenLinkIsNoticed
  <2> QED BY <2>1, InitInv DEF IndInv
<1>2. Inv /\ [Next]_vars => Inv'
  BY TypeStep, PhaseStep, CallsStep, NoticeStep
<1>3. Inv => BrokenLinkIsNoticed
  BY DEF NoticeInv
<1> QED BY <1>1, <1>2, <1>3, PTL DEF Spec
=============================================================================
