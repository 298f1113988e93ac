-------------------------- MODULE MCSharedConnection --------------------------
(* Instances of SharedConnection for TLC.                                  *)
EXTENDS SharedConnection, TLC

CONSTANTS c1, c2, r1, r2, t1

(* A client with a command topic (Button, Cover) and one without (Sensor). *)
MCSends == (c1 :> {t1}) @@ (c2 :> {})
MCOwner == (r1 :> c1) @@ (r2 :> c2)

(* One logical client with two readers.                                    *)
MCSendsOne == c1 :> {t1, "publish"}
MCOwnerSame == (r1 :> c1) @@ (r2 :> c1)
=============================================================================
