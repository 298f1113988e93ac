------------------------------- MODULE MCEntity -------------------------------
(* Instances of Entity for TLC: the constants are given in the cfg files.  *)
EXTENDS Entity
=============================================================================
