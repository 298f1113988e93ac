---------------------------- MODULE ReceiveClient ----------------------------
(***************************************************************************)
(* What AsyncMqttClient promises to the code built on it, when one         *)
(* coroutine receives: conn_.state changes only by a connect or a close of *)
(* the application and by the reconnect loop inside async_recv, which is   *)
(* entered from Connected and left either Connected (async_recv returns    *)
(* SessionReset) or Closed (it returns the error of the last attempt).     *)
(***************************************************************************)

VARIABLES
  phys,      \* conn_.state of the client
  looping    \* async_recv is in the loop of async_handle_reconnect

ClientTypeOK ==
  /\ phys \in {"Closed", "Connected", "Reconnecting"}
  /\ looping \in BOOLEAN

ClientInit == phys = "Closed" /\ looping = FALSE

(* async_connect, called by the application, succeeds.                     *)
AppConnect == phys' = "Connected" /\ UNCHANGED looping

(* async_close and async_disconnect.  They do not stop a running loop.     *)
AppClose == phys' = "Closed" /\ UNCHANGED looping

(* async_recv fails and starts to reconnect.                               *)
LoseLink ==
  /\ phys = "Connected"
  /\ ~looping
  /\ phys' = "Reconnecting"
  /\ looping' = TRUE

(* The loop reconnects: async_recv returns SessionReset.                   *)
Reset == looping /\ phys' = "Connected" /\ looping' = FALSE

(* The loop gives up: async_recv returns an error.                         *)
GiveUp == looping /\ phys' = "Closed" /\ looping' = FALSE

ClientNext == AppConnect \/ AppClose \/ LoseLink \/ Reset \/ GiveUp

ClientSpec == ClientInit /\ [][ClientNext]_<<phys, looping>>
=============================================================================
