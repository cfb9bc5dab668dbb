------------------------------ MODULE Storage ------------------------------
(***************************************************************************)
(* What the storage of one table promises its callers: an array of lines   *)
(* whose lines are read and written atomically and which only ever grows,  *)
(* by doubling, keeping what it holds.  MemoryMap implements it.           *)
(***************************************************************************)
EXTENDS Integers

CONSTANTS Threads,    \* the threads that use the storage
          Lines,      \* the line numbers the callers ask for
          Vals,       \* what a line may hold
          Zero,       \* what ftruncate fills a new line with
          InitLines   \* the size of a new file, in lines

VARIABLES cells,      \* what each line holds
          size,       \* the number of lines
          got         \* what each thread's last read returned

vars == <<cells, size, got>>

Init ==
    /\ cells = [l \in Lines |-> Zero]
    /\ size = InitLines
    /\ got = [t \in Threads |-> Zero]

Write(l, v) ==
    /\ l < size
    /\ cells' = [cells EXCEPT ![l] = v]
    /\ UNCHANGED <<size, got>>

Read(t, l) ==
    /\ l < size
    /\ got' = [got EXCEPT ![t] = cells[l]]
    /\ UNCHANGED <<cells, size>>

Grow ==
    /\ size' = 2 * size
    /\ UNCHANGED <<cells, got>>

Next ==
    \/ \E l \in Lines, v \in Vals : Write(l, v)
    \/ \E t \in Threads, l \in Lines : Read(t, l)
    \/ Grow

Spec == Init /\ [][Next]_vars
=============================================================================
