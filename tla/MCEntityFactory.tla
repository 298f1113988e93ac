--------------------------- MODULE MCEntityFactory ---------------------------
(* An instance of EntityFactory for TLC.                                   *)
EXTENDS EntityFactory

(* A payload of the application's own, and for open and close also the     *)
(* default of the other; the application sets one of the topics.           *)
MCValues ==
  [f \in Fields |->
     CASE f = "open"                                 -> {"CUSTOM", "CLOSE"}
       [] f = "close"                                -> {"CUSTOM", "OPEN"}
       [] f \in {"command_topic", "state_topic"}     -> {}
       [] OTHER                                      -> {"CUSTOM"}]

(* A Device with a member that another one leaves empty.                   *)
MCDevices == {[name |-> "lamp", model |-> "m"], [name |-> "lamp", model |-> ""]}
=============================================================================
