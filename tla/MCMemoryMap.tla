---------------------------- MODULE MCMemoryMap ----------------------------
(***************************************************************************)
(* Instances of MemoryMap for TLC.                                         *)
(***************************************************************************)
EXTENDS MemoryMap, TLC

ThreadSymmetry == Permutations(Threads)
=============================================================================
