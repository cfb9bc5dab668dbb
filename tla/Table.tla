------------------------------- MODULE Table -------------------------------
(***************************************************************************)
(* What a table promises a client that works alone: its rows appear,       *)
(* change and go whole, each under an id that no other row has, and the    *)
(* end of the process harms at most the one row it interrupts.             *)
(***************************************************************************)
EXTENDS Integers

CONSTANTS Ids,    \* the ids rows may get
          Rows,   \* what the columns of a row may hold
          Whole,  \* the rows a client may store
          NoRow   \* stands for the absence of a row

VARIABLES rows,   \* the rows of the table
          ends    \* how often the process has ended

Init ==
    /\ rows = [l \in Ids |-> NoRow]
    /\ ends = 0

Insert(l, r) ==
    /\ rows[l] = NoRow
    /\ rows' = [rows EXCEPT ![l] = r]
    /\ UNCHANGED ends

Update(l, r) ==
    /\ rows[l] # NoRow
    /\ rows' = [rows EXCEPT ![l] = r]
    /\ UNCHANGED ends

Erase(l) ==
    /\ rows[l] # NoRow
    /\ rows' = [rows EXCEPT ![l] = NoRow]
    /\ UNCHANGED ends

\* The process ends, perhaps in the middle of an insert or an update of l,
\* and the table is opened again.
End(l) ==
    /\ rows' \in {rows} \cup {[rows EXCEPT ![l] = r] : r \in Rows}
    /\ ends' = ends + 1

Next ==
    \E l \in Ids :
        \/ \E r \in Whole : Insert(l, r) \/ Update(l, r)
        \/ Erase(l)
        \/ End(l)

Spec == Init /\ [][Next]_<<rows, ends>>
=============================================================================
