--------------------------- MODULE MCSharedEntities ---------------------------
(* Instances of SharedEntities for TLC.                                    *)
EXTENDS SharedEntities, TLC

CONSTANTS c1, c2, t1

(* What an entity sends.                                                   *)
MCSends == [c \in Clients |-> {Message(c, s) : s \in SetupStages}]
MCOwner == [c \in Clients |-> c]
MCTopicOf == [c \in Clients |-> t1]

(* A Cover and a Sensor, and each alone.                                   *)
MCKinds == (c1 :> "Cover") @@ (c2 :> "Sensor")
MCCover == c1 :> "Cover"
MCSensor == c2 :> "Sensor"
=============================================================================
