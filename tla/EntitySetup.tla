----------------------------- MODULE EntitySetup -----------------------------
(***************************************************************************)
(* The control of an Entity (entity.h): which sends async_setup makes, in  *)
(* which order, for each of the four kinds, and where the coroutine goes   *)
(* when one returns or when a receive fails.  Entity runs it on a client   *)
(* of its own, SharedEntities on a shared connection.                      *)
(***************************************************************************)

Kinds == {"Sensor", "BinarySensor", "Button", "Cover"}

(* The kinds that subscribe to a command topic, that publish a state, and  *)
(* whose factory sets qos_ to at_most_once.                                *)
Commands(k) == k \in {"Button", "Cover"}
HasState(k) == k # "Button"
QoS0(k) == k \in {"Sensor", "BinarySensor"}

SetupStages == {"discovery", "subscribe", "availability"}

(* Where the coroutine of async_setup and async_run is; whether the setup  *)
(* was started by handle_err; whether the application's last one succeeded.*)
Progress == [stage : SetupStages \cup {"idle", "recv"},
             replay : BOOLEAN, ready : BOOLEAN]

(* Not started, or async_setup or async_run has returned an error.         *)
NotSetUp == [stage |-> "idle", replay |-> FALSE, ready |-> FALSE]

(* async_run, and its call of client_.async_recv().                        *)
Receive == [stage |-> "recv", replay |-> FALSE, ready |-> TRUE]

(* async_setup, called by the application or by handle_err.                *)
BeginSetup(rep) == [stage |-> "discovery", replay |-> rep, ready |-> FALSE]

(* async_setup returns Success: to the application, or async_recv goes on. *)
SetupSucceeds(p) == IF p.replay THEN Receive ELSE [Receive EXCEPT !.stage = "idle"]

(* MUTANT of SetupFails: handle_err drops the error and receives on.       *)
SetupFailsIgnored(p) == IF p.replay THEN Receive ELSE NotSetUp

(* async_setup returns an error: to the application, or through handle_err *)
(* and async_recv out of async_run.                                        *)
SetupFails(p) == NotSetUp

(* MUTANT of AfterStage: availability is published before the subscribe.   *)
AfterStageOnlineFirst(k, avail, s) ==
  IF s = "discovery" /\ avail THEN "availability"
  ELSE IF s # "subscribe" /\ Commands(k) THEN "subscribe" ELSE "done"

(* The send after that of stage s: a Sensor or BinarySensor subscribes to  *)
(* nothing, and async_update_availability does nothing without a topic.    *)
AfterStage(k, avail, s) ==
  IF s = "discovery" /\ Commands(k) THEN "subscribe"
  ELSE IF s # "availability" /\ avail THEN "availability" ELSE "done"

(* A send of the setup has succeeded.                                      *)
Advance(k, avail, p) ==
  IF AfterStage(k, avail, p.stage) = "done" THEN SetupSucceeds(p)
  ELSE [p EXCEPT !.stage = AfterStage(k, avail, p.stage)]

(* MUTANT of HandleErr: SessionReset is swallowed, without a setup.        *)
HandleErrSwallows(err) == IF err = "SessionReset" THEN Receive ELSE NotSetUp

(* client_.async_recv() has returned an error to Entity::async_recv.       *)
HandleErr(err) == IF err = "SessionReset" THEN BeginSetup(TRUE) ELSE NotSetUp
=============================================================================
