------------------------------ MODULE MCTabble ------------------------------
(***************************************************************************)
(* Instances of Tabble for TLC.                                            *)
(***************************************************************************)
EXTENDS Tabble, TLC

\* Threads with the same clients can be exchanged.
ThreadSymmetry ==
    {p \in Permutations(Threads) :
        \A t \in Threads : /\ p[t] \in Inserters <=> t \in Inserters
                           /\ p[t] \in Deleters <=> t \in Deleters
                           /\ p[t] \in Updaters <=> t \in Updaters}
=============================================================================
