------------------------------- MODULE Tabble -------------------------------
(***************************************************************************)
(* One table: class Tabble, its allocation of lines and its counters, used *)
(* by the client threads through the INSERT, DELETE and UPDATE of class    *)
(* Executor, and reopened after the process ends.                          *)
(*                                                                         *)
(* The storage is at the level of module Storage, which MemoryMap          *)
(* implements: one call is one step.  What expand() does to the other      *)
(* threads is kept: nobody touches a line while the expanding thread holds *)
(* the stripes, and the size is read with no lock.                         *)
(***************************************************************************)
EXTENDS Integers, Sequences, FiniteSets

CONSTANTS Inserters,  \* the threads whose clients send INSERT
          Deleters,   \* the threads whose clients send DELETE
          Updaters,   \* the threads whose clients send UPDATE
          Cols,       \* the number of columns
          Vals,       \* what a client may store in them
          Zero,       \* what a column of a new line holds
          InitLines,  \* the lines of a new file (100 in the code)
          LastLine,   \* bound: the last line the instance keeps the row of
          SizeMax,    \* SIZE_MAX
          MaxOps,     \* bound: the operations of one thread
          MaxOpens    \* bound: how often the table is reopened

Threads == Inserters \cup Deleters \cup Updaters
Lines   == 0 .. LastLine

ASSUME TabbleAssumption ==
    /\ IsFiniteSet(Threads) /\ Threads # {}
    /\ Cols \in Nat \ {0}
    /\ Zero \notin Vals
    /\ InitLines \in Nat \ {0}
    /\ LastLine \in Nat
    /\ SizeMax \in Nat \ {0}
    /\ MaxOps \in Nat
    /\ MaxOpens \in Nat

(***************************************************************************)
(* What keeps the ids inside the file: the clients at once are at most one *)
(* more than half the lines of a new file.  The code starts with 100 lines *)
(* and has a thread per client, without limit.                             *)
(***************************************************************************)
FewThreads == 2 * Cardinality(Threads) <= InitLines + 2

VARIABLES active,        \* the lines whose flag byte is set
          row,           \* the columns of each line
          size,          \* storage.getMaxLines()
          expanding,     \* MemoryMap::expanding
          stack,         \* stack_freeId, its top last
          freeId,        \* freeId
          activePlaces,  \* activePlaces
          pc,            \* where each thread is
          op,            \* the operation it is in
          id,            \* the line it works on
          val,           \* the value it stores in the columns
          col,           \* the next column it writes
          left,          \* the operations it may still begin
          opens          \* how often the table was reopened

fileVars  == <<active, row, size>>
allocVars == <<expanding, stack, freeId, activePlaces>>
callVars  == <<op, val, left, opens>>
vars == <<fileVars, allocVars, callVars, pc, id, col>>

Locations == {"idle", "pop", "load", "room", "cas", "spin", "lockAll", "grow",
              "store", "release", "count", "claim", "activate", "write",
              "counted", "probe", "deactivate", "push", "uncount"}

TypeOK ==
    /\ active \subseteq Nat
    /\ row \in [Lines -> [1 .. Cols -> Vals \cup {Zero}]]
    /\ size \in Nat \ {0}
    /\ expanding \in BOOLEAN
    /\ stack \in Seq(Nat)
    /\ freeId \in Nat
    /\ activePlaces \in 0 .. SizeMax
    /\ pc \in [Threads -> Locations]
    /\ op \in [Threads -> {"insert", "erase", "update"}]
    /\ id \in [Threads -> Nat]
    /\ val \in [Threads -> Vals \cup {Zero}]
    /\ col \in [Threads -> 1 .. Cols + 1]
    /\ left \in [Threads -> Nat]
    /\ opens \in Nat

Goto(t, l) == pc' = [pc EXCEPT ![t] = l]

\* size_t arithmetic
Inc(n) == (n + 1) % (SizeMax + 1)
Dec(n) == (n + SizeMax) % (SizeMax + 1)

\* No thread holds all the stripes, so a line can be locked.
Unlocked == \A t \in Threads : pc[t] \notin {"grow", "store", "release"}

Init ==
    /\ active = {}
    /\ row = [l \in Lines |-> [c \in 1 .. Cols |-> Zero]]
    /\ size = InitLines
    /\ expanding = FALSE
    /\ stack = <<>>
    /\ freeId = 0
    /\ activePlaces = 0
    /\ pc = [t \in Threads |-> "idle"]
    /\ op = [t \in Threads |-> "insert"]
    /\ id = [t \in Threads |-> 0]
    /\ val = [t \in Threads |-> Zero]
    /\ col = [t \in Threads |-> 1]
    /\ left = [t \in Threads |-> MaxOps]
    /\ opens = 0

-----------------------------------------------------------------------------
(***************************************************************************)
(* A client's request reaches the table: executeInsert calls insert, and   *)
(* executeDelete and executeUpdate look at the flag of a line of the file  *)
(* before they erase or update it.                                         *)
(***************************************************************************)
Begin(t, o, l, v) ==
    /\ pc[t] = "idle" /\ left[t] > 0
    /\ op' = [op EXCEPT ![t] = o]
    /\ val' = [val EXCEPT ![t] = v]
    /\ id' = [id EXCEPT ![t] = l]
    /\ left' = [left EXCEPT ![t] = @ - 1]
    /\ Goto(t, IF o = "insert" THEN "pop" ELSE "probe")
    /\ UNCHANGED <<fileVars, allocVars, opens, col>>

BeginInsert(t) == t \in Inserters /\ \E v \in Vals : Begin(t, "insert", 0, v)

BeginErase(t) ==
    t \in Deleters /\ \E l \in Lines : l < size /\ Begin(t, "erase", l, Zero)

BeginUpdate(t) ==
    /\ t \in Updaters
    /\ \E l \in Lines, v \in Vals : l < size /\ Begin(t, "update", l, v)

-----------------------------------------------------------------------------
(***************************************************************************)
(* allocateId: a line from the stack, under stack_mtx, or the line after   *)
(* the last one, by a load and a later fetch_add of freeId.                *)
(***************************************************************************)
\* Faulty variant of PopFreeId: top() without pop().
PopFreeId_KeepsTop(t) ==
    /\ pc[t] = "pop" /\ stack # <<>>
    /\ id' = [id EXCEPT ![t] = stack[Len(stack)]]
    /\ Goto(t, "activate")
    /\ UNCHANGED <<fileVars, allocVars, callVars, col>>

PopFreeId(t) ==
    /\ pc[t] = "pop" /\ stack # <<>>
    /\ id' = [id EXCEPT ![t] = stack[Len(stack)]]
    /\ stack' = SubSeq(stack, 1, Len(stack) - 1)
    /\ Goto(t, "activate")
    /\ UNCHANGED <<fileVars, expanding, freeId, activePlaces, callVars, col>>

StackEmpty(t) ==
    /\ pc[t] = "pop" /\ stack = <<>>
    /\ Goto(t, "load")
    /\ UNCHANGED <<fileVars, allocVars, callVars, id, col>>

LoadFreeId(t) ==
    /\ pc[t] = "load"
    /\ id' = [id EXCEPT ![t] = freeId]
    /\ Goto(t, "room")
    /\ UNCHANGED <<fileVars, allocVars, callVars, col>>

\* Faulty variant of CheckRoom: > instead of >=.
CheckRoom_OffByOne(t) ==
    /\ pc[t] = "room"
    /\ Goto(t, IF id[t] > size THEN "cas" ELSE "count")
    /\ UNCHANGED <<fileVars, allocVars, callVars, id, col>>

CheckRoom(t) ==
    /\ pc[t] = "room"
    /\ Goto(t, IF id[t] >= size THEN "cas" ELSE "count")
    /\ UNCHANGED <<fileVars, allocVars, callVars, id, col>>

(***************************************************************************)
(* storage.expand(), as module MemoryMap has it.                           *)
(***************************************************************************)
CompareExchange(t) ==
    /\ pc[t] = "cas"
    /\ expanding' = TRUE
    /\ Goto(t, IF expanding THEN "spin" ELSE "lockAll")
    /\ UNCHANGED <<fileVars, stack, freeId, activePlaces, callVars, id, col>>

Spin(t) ==
    /\ pc[t] = "spin" /\ ~expanding
    /\ Goto(t, "count")
    /\ UNCHANGED <<fileVars, allocVars, callVars, id, col>>

LockStripes(t) ==
    /\ pc[t] = "lockAll" /\ Unlocked
    /\ Goto(t, "grow")
    /\ UNCHANGED <<fileVars, allocVars, callVars, id, col>>

ExpandFile(t) ==
    /\ pc[t] = "grow"
    /\ size' = 2 * size
    /\ Goto(t, "store")
    /\ UNCHANGED <<active, row, allocVars, callVars, id, col>>

StoreExpanding(t) ==
    /\ pc[t] = "store"
    /\ expanding' = FALSE
    /\ Goto(t, "release")
    /\ UNCHANGED <<fileVars, stack, freeId, activePlaces, callVars, id, col>>

ReleaseStripes(t) ==
    /\ pc[t] = "release"
    /\ Goto(t, "count")
    /\ UNCHANGED <<fileVars, allocVars, callVars, id, col>>

CountNewLine(t) ==
    /\ pc[t] = "count"
    /\ activePlaces' = Inc(activePlaces)
    /\ Goto(t, "claim")
    /\ UNCHANGED <<fileVars, expanding, stack, freeId, callVars, id, col>>

\* Faulty variant of ClaimLine: freeId.store(cur + 1) instead of fetch_add.
ClaimLine_Stores(t) ==
    /\ pc[t] = "claim"
    /\ freeId' = id[t] + 1
    /\ Goto(t, "activate")
    /\ UNCHANGED <<fileVars, expanding, stack, activePlaces, callVars, id, col>>

ClaimLine(t) ==
    /\ pc[t] = "claim"
    /\ freeId' = freeId + 1
    /\ Goto(t, "activate")
    /\ UNCHANGED <<fileVars, expanding, stack, activePlaces, callVars, id, col>>

-----------------------------------------------------------------------------
(***************************************************************************)
(* insert after its allocateId, and update: one storage call per column.   *)
(* The line of a call exists here, so writeInfo's own size check is false. *)
(***************************************************************************)
Activate(t) ==
    /\ pc[t] = "activate" /\ Unlocked
    /\ active' = active \cup {id[t]}
    /\ col' = [col EXCEPT ![t] = 1]
    /\ Goto(t, "write")
    /\ UNCHANGED <<row, size, allocVars, callVars, id>>

\* Faulty variant of WriteColumn: the last column is left out.
WriteColumn_SkipsLast(t) ==
    /\ pc[t] = "write" /\ Unlocked
    /\ row' = [row EXCEPT ![id[t]][col[t]] = val[t]]
    /\ col' = [col EXCEPT ![t] = @ + 1]
    /\ Goto(t, IF col[t] + 1 < Cols THEN "write"
               ELSE IF op[t] = "insert" THEN "counted" ELSE "idle")
    /\ UNCHANGED <<active, size, allocVars, callVars, id>>

WriteColumn(t) ==
    /\ pc[t] = "write" /\ Unlocked
    /\ row' = [row EXCEPT ![id[t]][col[t]] = val[t]]
    /\ col' = [col EXCEPT ![t] = @ + 1]
    /\ Goto(t, IF col[t] < Cols THEN "write"
               ELSE IF op[t] = "insert" THEN "counted" ELSE "idle")
    /\ UNCHANGED <<active, size, allocVars, callVars, id>>

\* Faulty variant of CountInserted: only allocateId counts the row.
CountInserted_Missing(t) ==
    /\ pc[t] = "counted"
    /\ Goto(t, "idle")
    /\ UNCHANGED <<fileVars, allocVars, callVars, id, col>>

CountInserted(t) ==
    /\ pc[t] = "counted"
    /\ activePlaces' = Inc(activePlaces)
    /\ Goto(t, "idle")
    /\ UNCHANGED <<fileVars, expanding, stack, freeId, callVars, id, col>>

(***************************************************************************)
(* The isActive of executeDelete and executeUpdate, and erase.             *)
(***************************************************************************)
ProbeActive(t) ==
    /\ pc[t] = "probe" /\ Unlocked
    /\ col' = [col EXCEPT ![t] = 1]
    /\ Goto(t, IF id[t] \notin active THEN "idle"
               ELSE IF op[t] = "erase" THEN "deactivate" ELSE "write")
    /\ UNCHANGED <<fileVars, allocVars, callVars, id>>

Deactivate(t) ==
    /\ pc[t] = "deactivate" /\ Unlocked
    /\ active' = active \ {id[t]}
    /\ Goto(t, "push")
    /\ UNCHANGED <<row, size, allocVars, callVars, id, col>>

PushInStack(t) ==
    /\ pc[t] = "push"
    /\ stack' = Append(stack, id[t])
    /\ Goto(t, "uncount")
    /\ UNCHANGED <<fileVars, expanding, freeId, activePlaces, callVars, id, col>>

\* Faulty variant of Uncount: the counter is not a size_t.
Uncount_BelowZero(t) ==
    /\ pc[t] = "uncount"
    /\ activePlaces' = activePlaces - 1
    /\ Goto(t, "idle")
    /\ UNCHANGED <<fileVars, expanding, stack, freeId, callVars, id, col>>

Uncount(t) ==
    /\ pc[t] = "uncount"
    /\ activePlaces' = Dec(activePlaces)
    /\ Goto(t, "idle")
    /\ UNCHANGED <<fileVars, expanding, stack, freeId, callVars, id, col>>

-----------------------------------------------------------------------------
(***************************************************************************)
(* The process ends, at any moment, and the table is opened again: what    *)
(* was stored through the shared mapping is in the file, everything else   *)
(* is rebuilt from the flags by analyzeHoles.                              *)
(***************************************************************************)
Ascending(s) == \A i, j \in 1 .. Len(s) : i < j => s[i] < s[j]

AnalyzeHoles ==
    \E f \in 0 .. size :
        LET holes == {l \in 0 .. f - 1 : l \notin active} IN
        /\ \A l \in active : l < f
        /\ f > 0 => f - 1 \in active
        /\ size' = IF \A l \in 0 .. size - 1 : l \in active
                   THEN 2 * size ELSE size
        /\ freeId' = f
        /\ activePlaces' = Cardinality(active) % (SizeMax + 1)
        /\ \E s \in [1 .. Cardinality(holes) -> holes] :
               Ascending(s) /\ stack' = s

Reopen ==
    /\ opens < MaxOpens
    /\ opens' = opens + 1
    /\ AnalyzeHoles
    /\ expanding' = FALSE
    /\ pc' = [t \in Threads |-> "idle"]
    /\ UNCHANGED <<active, row, op, val, left, id, col>>

-----------------------------------------------------------------------------
Call(t) == BeginInsert(t) \/ BeginErase(t) \/ BeginUpdate(t)

Step(t) ==
    \/ PopFreeId(t) \/ StackEmpty(t) \/ LoadFreeId(t) \/ CheckRoom(t)
    \/ CompareExchange(t) \/ Spin(t) \/ LockStripes(t) \/ ExpandFile(t)
    \/ StoreExpanding(t) \/ ReleaseStripes(t) \/ CountNewLine(t) \/ ClaimLine(t)
    \/ Activate(t) \/ WriteColumn(t) \/ CountInserted(t)
    \/ ProbeActive(t) \/ Deactivate(t) \/ PushInStack(t) \/ Uncount(t)

Next == Reopen \/ \E t \in Threads : Call(t) \/ Step(t)

Spec == Init /\ [][Next]_vars

-----------------------------------------------------------------------------
Idle == \A t \in Threads : pc[t] = "idle"

(***************************************************************************)
(* A full scan reaches every row: the lines that are in use lie below      *)
(* freeId, the bound of the scans (Executor.h 99, 122), at every moment of *)
(* any number of inserts and deletes and after a crash at any moment.  So  *)
(* do the lines that insert will reuse.                                    *)
(***************************************************************************)
ScanReachesEveryRow ==
    /\ \A l \in active : l < freeId
    /\ \A i \in 1 .. Len(stack) : stack[i] < freeId

(***************************************************************************)
(* insert and erase never touch a line beyond the mapping: the unlocked    *)
(* size check of allocateId, the racing fetch_adds and the wait of expand  *)
(* always leave room (Tabble.h 77-85, MemoryMap.h 47-66).                  *)
(***************************************************************************)
TouchedLinesExist ==
    \A t \in Threads :
        pc[t] \in {"count", "claim", "activate", "write", "probe", "deactivate"}
            => id[t] < size

(***************************************************************************)
(* When no operation is under way, the counter that ends the scans early   *)
(* (Executor.h 117-122) is at least the number of rows, and has not        *)
(* wrapped below zero.  It counts a row on a new line twice.               *)
(***************************************************************************)
CounterCoversRows ==
    Idle => activePlaces \in Cardinality(active) .. (SizeMax \div 2)

(***************************************************************************)
(* No line is lost and none is offered twice: below freeId a line is in    *)
(* use, on the stack, or in the hands of the one thread that is inserting  *)
(* on it or erasing it (Tabble.h 33-86, 146-163).                          *)
(***************************************************************************)
InHand(t) ==
    \/ pc[t] = "activate"
    \/ pc[t] = "push"

LinesAccountedFor ==
    /\ \A l \in 0 .. freeId - 1 :
          Cardinality({i \in 1 .. Len(stack) : stack[i] = l})
            + Cardinality({t \in Threads : InHand(t) /\ id[t] = l})
            + (IF l \in active THEN 1 ELSE 0) = 1

(***************************************************************************)
(* The bound of a full scan is a line count of the mapped file: isActive   *)
(* of every line below freeId has a line to look at (Executor.h 99,        *)
(* 122-123, MemoryMapLinux.h 101).                                         *)
(***************************************************************************)
ScanStaysInFile == freeId <= size

(***************************************************************************)
(* "Direct Search, by primary key (ID)" (README 38): the id that insert    *)
(* takes belongs to no row.                                                *)
(***************************************************************************)
InsertTakesFreeLine ==
    \A t \in Threads : pc[t] = "activate" => id[t] \notin active

(***************************************************************************)
(* With one client the table is a set of rows that appear, change and go   *)
(* whole (module Table), although the flag of a line is set before its     *)
(* columns are written and the process may end at any step: a row counts   *)
(* as inserted with its last column and as updated with its first, and     *)
(* after the end of the process at most the row it was at is not whole     *)
(* (Tabble.h 33-86, 128-163).                                              *)
(***************************************************************************)
Writing(t, o, l) == pc[t] = "write" /\ op[t] = o /\ id[t] = l

RowSeen(l) ==
    IF l \notin active \/ \E t \in Threads : Writing(t, "insert", l) THEN <<>>
    ELSE IF \E t \in Threads : Writing(t, "update", l) /\ col[t] > 1
    THEN [c \in 1 .. Cols |->
             val[CHOOSE t \in Threads : Writing(t, "update", l) /\ col[t] > 1]]
    ELSE row[l]

AsTable == INSTANCE Table
    WITH Ids <- Lines, NoRow <- <<>>, Rows <- [1 .. Cols -> Vals \cup {Zero}],
         Whole <- {[c \in 1 .. Cols |-> v] : v \in Vals},
         rows <- [l \in Lines |-> RowSeen(l)], ends <- opens

TableSpec == AsTable!Spec
=============================================================================
