------------------------------ MODULE MCSystem ------------------------------
(***************************************************************************)
(* Instances of System for TLC.                                            *)
(***************************************************************************)
EXTENDS System, TLC

\* Any client may give any command.
ClientSymmetry == Permutations(Clients)
=============================================================================
