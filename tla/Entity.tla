-------------------------------- MODULE Entity --------------------------------
(***************************************************************************)
(* An entity of any kind (entity.h, sensor.h, binary_sensor.h, button.h,   *)
(* cover.h) that owns its client: setup, the receive loop that replays it  *)
(* after a SessionReset, and the application's own publishes, on a client  *)
(* that behaves as ReceiveClient says.  An action is the code between two  *)
(* suspension points of a coroutine.                                       *)
(***************************************************************************)
EXTENDS ReceiveClient, EntitySetup

CONSTANT
  Payloads    \* states that the application publishes

ASSUME EntityAssumption == "none" \notin Payloads

VARIABLES
  kind,        \* the Impl parameter
  avail,       \* the configuration has an availability topic
  link,        \* "up": the transport and the broker's session exist
  ent,         \* progress of the coroutine of async_setup and async_run
  step,        \* how far the send of its stage is
  upub,        \* what the application publishes: a pair of topic and payload
  ustep,       \* how far that publish is
  subscribed,  \* broker: the session is subscribed to the command topic
  retained     \* broker: the retained payloads

cls == <<kind, avail>>
client == <<phys, looping>>
main == <<ent, step>>
app == <<upub, ustep>>
broker == <<link, subscribed, retained>>
vars == <<phys, looping, cls, main, app, broker>>

SendSteps == {"none", "wait", "woken", "sent", "applied", "lost"}
NoUpdate == <<"none", "none">>
Updates ==
  (IF HasState(kind) THEN {"state"} \X Payloads ELSE {})
    \cup (IF avail THEN {"availability"} \X {"online", "offline"} ELSE {})
Retained == [config : {"none", "json"}, state : Payloads \cup {"none"},
             availability : {"none", "online", "offline"}]
NothingRetained == [config |-> "none", state |-> "none", availability |-> "none"]

TypeOK ==
  /\ ClientTypeOK
  /\ kind \in Kinds /\ {avail, subscribed} \subseteq BOOLEAN
  /\ link \in {"up", "down"}
  /\ ent \in Progress
  /\ step \in SendSteps /\ ustep \in SendSteps
  /\ upub \in Updates \cup {NoUpdate}
  /\ retained \in Retained
  /\ step # "none" <=> ent.stage \in SetupStages

Init ==
  /\ ClientInit
  /\ kind \in Kinds /\ avail \in BOOLEAN
  /\ link = "down" /\ subscribed = FALSE /\ retained = NothingRetained
  /\ ent = NotSetUp /\ step = "none"
  /\ upub = NoUpdate /\ ustep = "none"
-----------------------------------------------------------------------------
(* Where async_publish and async_subscribe of the client first suspend,    *)
(* when its state is ph and the transport lk.                              *)
Starts(ph, lk) == IF ph = "Reconnecting" THEN "wait"
                  ELSE IF lk = "up" THEN "sent" ELSE "lost"

(* MUTANT of Wake: the waiters are not woken.                              *)
WakeForgotten(s) == s

(* What a wakeup of the waiters, and a loss of the transport, do to a send.*)
Wake(s) == IF s = "wait" THEN "woken" ELSE s
Lose(s) == IF s \in {"sent", "applied"} THEN "lost" ELSE s

(* MUTANT of GoTo: the check that the client is connected is missing.      *)
GoToUnchecked(p, ph, lk) ==
  /\ ent' = p
  /\ step' = IF p.stage \notin SetupStages THEN "none"
             ELSE IF ph = "Closed" THEN "refused" ELSE Starts(ph, lk)

(* The coroutine goes on to progress p, where the send of a stage is       *)
(* refused by a closed client.                                             *)
GoTo(p, ph, lk) ==
  LET q == IF p.stage \in SetupStages /\ ph = "Closed" THEN SetupFails(p) ELSE p
  IN  /\ ent' = q
      /\ step' = IF q.stage \in SetupStages THEN Starts(ph, lk) ELSE "none"
-----------------------------------------------------------------------------
(* async_setup, called by the application.  It never meets a client that   *)
(* reconnects: the coroutine that would reconnect is this one.             *)
AsyncSetup ==
  /\ ent.stage = "idle"
  /\ GoTo(BeginSetup(FALSE), phys, link)
  /\ UNCHANGED <<client, cls, app, broker>>

(* The broker has received it.                                             *)
SetupApplied ==
  /\ step = "sent"
  /\ step' = "applied"
  /\ subscribed' = (subscribed \/ ent.stage = "subscribe")
  /\ retained' = CASE ent.stage = "discovery"    -> [retained EXCEPT !.config = "json"]
                   [] ent.stage = "subscribe"    -> retained
                   [] ent.stage = "availability" -> [retained EXCEPT !.availability = "online"]
  /\ UNCHANGED <<client, cls, ent, app, link>>

(* It completes with Success: when the broker has acknowledged it or, for  *)
(* a publish with QoS 0, when it has been written, to a dead transport too.*)
SetupDone ==
  /\ \/ step = "applied"
     \/ step = "lost" /\ QoS0(kind) /\ ent.stage # "subscribe"
  /\ GoTo(Advance(kind, avail, ent), phys, link)
  /\ UNCHANGED <<client, cls, app, broker>>

(* It completes with an error, and so does async_setup.                    *)
SetupError ==
  /\ step \in {"sent", "applied", "lost"}
  /\ GoTo(SetupFails(ent), phys, link)
  /\ UNCHANGED <<client, cls, app, broker>>
-----------------------------------------------------------------------------
(* async_run, which the application starts when the setup succeeded.  A    *)
(* packet that it receives leaves the state as it is: it is dispatched     *)
(* (EntityFactory), and async_run receives again.                          *)
AsyncRun ==
  /\ ent.stage = "idle" /\ ent.ready
  /\ GoTo(Receive, phys, link)
  /\ UNCHANGED <<client, cls, app, broker>>

(* The receive fails and starts to reconnect.                              *)
RecvLoses ==
  /\ ent.stage = "recv" /\ link = "down"
  /\ LoseLink
  /\ UNCHANGED <<cls, main, app, broker>>

(* A reconnect succeeds: a new session, since clean_start is set.          *)
RecvReset ==
  /\ ent.stage = "recv"
  /\ Reset
  /\ link' = "up"
  /\ GoTo(HandleErr("SessionReset"), phys', link')
  /\ ustep' = Wake(ustep)
  /\ UNCHANGED <<cls, upub, subscribed, retained>>

(* The last attempt fails.                                                 *)
RecvGaveUp ==
  /\ ent.stage = "recv"
  /\ GiveUp
  /\ GoTo(HandleErr("GaveUp"), phys', link)
  /\ ustep' = Wake(ustep)
  /\ UNCHANGED <<cls, upub, broker>>

(* The receive fails on a closed client, or completes without a packet.    *)
RecvFatal ==
  /\ ent.stage = "recv" /\ ~looping
  /\ phys = "Closed" \/ link = "up"
  /\ GoTo(HandleErr("Fatal"), phys, link)
  /\ UNCHANGED <<client, cls, app, broker>>
-----------------------------------------------------------------------------
(* The application connects the client.  What was set up before is lost.   *)
AsyncConnect ==
  /\ phys = "Closed" /\ ent.stage = "idle" /\ ustep = "none"
  /\ AppConnect
  /\ link' = "up"
  /\ ent' = NotSetUp
  /\ UNCHANGED <<cls, step, app, subscribed, retained>>

(* async_close of the entity closes its client: waiters wake up.           *)
AsyncClose ==
  /\ phys # "Closed"
  /\ AppClose
  /\ link' = "down" /\ subscribed' = FALSE
  /\ step' = Lose(step) /\ ustep' = Lose(Wake(ustep))
  /\ UNCHANGED <<cls, ent, upub, retained>>

(* The transport or the broker fails: the broker drops the session, and    *)
(* when it restarts, it may have lost what it retained, or a publish with  *)
(* QoS 0 that was under way.                                               *)
Drop ==
  /\ link = "up"
  /\ link' = "down" /\ subscribed' = FALSE
  /\ retained' \in {retained, NothingRetained}
  /\ step' = Lose(step) /\ ustep' = Lose(ustep)
  /\ UNCHANGED <<client, cls, ent, upub>>

(* async_update_state or async_update_availability, called by another      *)
(* coroutine of the application; refused when closed.                      *)
AsyncUpdate(u) ==
  /\ ustep = "none" /\ phys # "Closed"
  /\ upub' = u
  /\ ustep' = Starts(phys, link)
  /\ UNCHANGED <<client, cls, main, broker>>

UpdateWoken ==
  /\ ustep = "woken"
  /\ ustep' = IF phys = "Connected" THEN Starts(phys, link) ELSE "none"
  /\ UNCHANGED <<client, cls, main, upub, broker>>

UpdateApplied ==
  /\ ustep = "sent"
  /\ ustep' = "applied"
  /\ retained' = [retained EXCEPT ![upub[1]] = upub[2]]
  /\ UNCHANGED <<client, cls, main, upub, link, subscribed>>

(* It returns, with Success or an error.                                   *)
UpdateReturns ==
  /\ ustep \in {"sent", "applied", "lost"}
  /\ ustep' = "none" /\ upub' = NoUpdate
  /\ UNCHANGED <<client, cls, main, broker>>
-----------------------------------------------------------------------------
Setup == SetupApplied \/ SetupDone \/ SetupError
LoopEnds == RecvReset \/ RecvGaveUp
Update == UpdateWoken \/ UpdateApplied \/ UpdateReturns

Next ==
  \/ AsyncSetup \/ Setup \/ AsyncRun
  \/ RecvLoses \/ LoopEnds \/ RecvFatal
  \/ AsyncConnect \/ AsyncClose \/ Drop
  \/ (\E u \in Updates : AsyncUpdate(u)) \/ Update

Spec == Init /\ [][Next]_vars

(* Coroutines resume; a broken transport and a closed client end a         *)
(* receive; the reconnect loop ends (AsyncMqttClient, OutageHandled); a    *)
(* send completes, for a broker that answers as long as the transport is up.*)
Fairness ==
  /\ WF_vars(SetupApplied) /\ WF_vars(SetupDone)
  /\ WF_vars(SetupError /\ step = "lost")
  /\ WF_vars(RecvLoses) /\ WF_vars(LoopEnds)
  /\ WF_vars(RecvFatal /\ phys = "Closed")
  /\ WF_vars(Update)

FairSpec == Spec /\ Fairness
-----------------------------------------------------------------------------
(* The entity receives, on a session with the broker.                      *)
Running == ent.stage = "recv" /\ link = "up"

(* An entity that waits for commands on a live session is subscribed to    *)
(* its command topic: no drop, at whatever step of a setup or replay,      *)
(* leaves async_run waiting for commands that cannot come.                 *)
CommandsCovered == Running /\ Commands(kind) => subscribed

(* The same of what Home Assistant knows of it: the discovery document     *)
(* and, unless the application has published its own, the availability are *)
(* with the broker, even when the broker lost them in a restart or a       *)
(* publish with QoS 0 went to a dead transport and was reported as Success *)
(* (docs/errors-and-reconnect.md: "This republishes discovery, recreates   *)
(* subscriptions, and updates availability").                              *)
AnnouncementCovered ==
  Running => /\ retained.config = "json"
             /\ avail => retained.availability # "none"

(* Setup declares a command entity available only when commands reach it:  *)
(* its availability publish arrives in a session that is subscribed.       *)
OnlineAfterSubscribe ==
  [][SetupApplied /\ ent.stage = "availability" /\ Commands(kind) => subscribed]_vars

(* When the link stays up and the entity keeps running, it receives, and   *)
(* commands reach it, for good.                                            *)
StableLinkRestores ==
  <>[](link = "up" /\ phys = "Connected" /\ ~looping /\ ent.stage # "idle")
    => <>[](ent.stage = "recv" /\ (Commands(kind) => subscribed))

(* An update of the application returns, whatever setup, reconnect loop or *)
(* close it runs beside.                                                   *)
UpdatesReturn == (ustep # "none") ~> (ustep = "none")

(* A run that reconnected goes on (TODO.md: "Keep entity async_run() loops *)
(* alive after a successful reconnect"): a second loss of the transport,   *)
(* while setup is replayed, does not end it as long as the client is not   *)
(* closed and can reconnect again.                                         *)
RunSurvivesReconnect ==
  [][ent.replay /\ link = "down" /\ ent'.stage = "idle" => phys' = "Closed"]_vars
=============================================================================
