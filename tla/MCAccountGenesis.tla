-------------------------- MODULE MCAccountGenesis --------------------------
(* Instances of AccountGenesis for TLC. *)
EXTENDS AccountGenesis, TLC
=============================================================================
