-------------------------- MODULE MCAsyncMqttClient --------------------------
(* Instances of AsyncMqttClient for TLC, with the one receiver that the    *)
(* documentation allows.                                                   *)
EXTENDS AsyncMqttClient, TLC

CONSTANTS r1, a, w

(* Errors of several categories.  Those of the last two lines are mapped   *)
(* alike, and a code that only an attempt produces is told from            *)
(* Disconnected, which a closed client answers too.                        *)
MCErrors ==
  {[category |-> "misc", value |-> "eof"],
   [category |-> "system", value |-> "connection_refused"],
   [category |-> "netdb", value |-> "no_recovery"],
   [category |-> "puback_reason_code", value |-> "quota_exceeded"]}

(* One receiver, one coroutine that connects and closes, one that sends.   *)
MCCalls ==
  (r1 :> {"recv"}) @@ (a :> {"connect", "close", "disconnect"})
  @@ (w :> {"publish0", "publish", "subscribe"})

(* The receiver's coroutine connects, as in docs/client-lifecycle.md.      *)
MCCallsLifecycle ==
  (r1 :> {"connect", "recv"}) @@ (a :> {"publish", "close"})
  @@ (w :> {"publish0", "subscribe"})

(* One application coroutine and the receive loop.                         *)
MCCallsClose == (r1 :> {"recv"}) @@ (a :> {"connect", "close"})
=============================================================================
