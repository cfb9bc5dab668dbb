----------------------------- MODULE MemoryMap -----------------------------
(***************************************************************************)
(* The memory-mapped file of one table: class MemoryMap (stripe locks and  *)
(* the expansion protocol) on top of class MemoryMapLinux (the mapping).   *)
(*                                                                         *)
(* Every member function that touches a line takes the stripe of the line, *)
(* shared to read and exclusive to write; expand() takes every stripe, one *)
(* after the other, and replaces the mapping by one of twice the size.     *)
(* A memcpy is two steps, one per half of the value, so that what the      *)
(* locks are for can go wrong.  Sizes are counted in lines: the file is    *)
(* created with a whole number of them and only ever doubles.              *)
(***************************************************************************)
EXTENDS Integers

CONSTANTS Threads,      \* the client threads
          Nobody,       \* the owner of a stripe nobody holds exclusively
          LastLine,     \* bound: the last line number the callers ask for
          Vals,         \* what one half of a value may be
          Zero,         \* what ftruncate fills the file with
          StripeCount,  \* STRIPE_COUNT
          InitLines,    \* the lines of a new file (100 in the code)
          MaxOps,       \* bound: the operations of one thread
          Kinds,        \* the operations the callers use
          Faults        \* the system calls of expandFile that may fail

Lines   == 0 .. LastLine
Stripes == 0 .. StripeCount - 1

(***************************************************************************)
(* The kinds of call.  "write" is writeNumber and writeText, "set" is      *)
(* activate and deactivate, "read" is readNumber and isActive, "view" is   *)
(* readText with its caller's copy of the string_view, and "reserve" is    *)
(* the caller's own  if (cur >= getMaxLines()) expand().                   *)
(***************************************************************************)
AllKinds == {"write", "set", "read", "view", "reserve"}
Writing  == {"write", "set"}
Reading  == {"read", "view"}

ASSUME MemoryMapAssumption ==
    /\ Nobody \notin Threads
    /\ LastLine \in Nat
    /\ Zero \in Vals
    /\ StripeCount \in Nat \ {0}
    /\ InitLines \in Nat \ {0}
    /\ MaxOps \in Nat
    /\ Kinds \subseteq AllKinds
    /\ Faults \subseteq {"ftruncate", "mmap"}

VARIABLES expanding,  \* std::atomic<bool> expanding
          excl,       \* who holds each stripe exclusively
          shared,     \* who holds each stripe shared
          mapped,     \* mappedData points at a live mapping
          gen,        \* which mapping it is: the number of mmap calls
          fileSize,   \* fileSize, in lines
          diskSize,   \* the length of the file itself, in lines
          word1,      \* the first half of each line
          word2,      \* the second half of each line
          pc,         \* where each thread is
          kind,       \* the call it is in
          line,       \* its lineNumber argument
          val,        \* its value argument
          held,       \* how many stripes its expand() holds
          buf,        \* the half it has read so far
          got,        \* what its last number read returned
          view,       \* the mapping its string_view points into
          left,       \* the operations it may still begin
          crashed     \* the process died of a bad access

mapVars   == <<expanding, mapped, gen, fileSize, diskSize>>
lockVars  == <<excl, shared, held>>
dataVars  == <<word1, word2, buf, got>>
callVars  == <<kind, line, val, left>>
vars == <<mapVars, lockVars, dataVars, callVars, pc, view, crashed>>

Locations == {"idle", "check", "cas", "spin", "lockAll", "unmap", "truncate",
              "remap", "store", "release", "lock", "copy1", "copy2", "unlock",
              "late"}

TypeOK ==
    /\ expanding \in BOOLEAN
    /\ excl \in [Stripes -> Threads \cup {Nobody}]
    /\ shared \in [Stripes -> SUBSET Threads]
    /\ mapped \in BOOLEAN
    /\ gen \in Nat
    /\ fileSize \in Nat \ {0}
    /\ diskSize \in Nat \ {0}
    /\ word1 \in [Lines -> Vals]
    /\ word2 \in [Lines -> Vals]
    /\ pc \in [Threads -> Locations]
    /\ kind \in [Threads -> AllKinds]
    /\ line \in [Threads -> Lines]
    /\ val \in [Threads -> Vals]
    /\ held \in [Threads -> 0 .. StripeCount]
    /\ buf \in [Threads -> Vals]
    /\ got \in [Threads -> Vals \X Vals]
    /\ view \in [Threads -> Nat]
    /\ left \in [Threads -> Nat]
    /\ crashed \in BOOLEAN

Goto(t, l) == pc' = [pc EXCEPT ![t] = l]

\* get_stripe
StripeOf(l) == l % StripeCount

\* MemoryMapLinux::getMaxLine
MaxLine == fileSize

(***************************************************************************)
(* openFile on a file of length 0: the file is given n lines and mapped.   *)
(***************************************************************************)
OpenFile(n) ==
    /\ expanding = FALSE
    /\ excl = [s \in Stripes |-> Nobody]
    /\ shared = [s \in Stripes |-> {}]
    /\ mapped = TRUE
    /\ gen = 1
    /\ fileSize = n
    /\ diskSize = n
    /\ word1 = [l \in Lines |-> Zero]
    /\ word2 = [l \in Lines |-> Zero]
    /\ pc = [t \in Threads |-> "idle"]
    /\ kind = [t \in Threads |-> "read"]
    /\ line = [t \in Threads |-> 0]
    /\ val = [t \in Threads |-> Zero]
    /\ held = [t \in Threads |-> 0]
    /\ buf = [t \in Threads |-> Zero]
    /\ got = [t \in Threads |-> <<Zero, Zero>>]
    /\ view = [t \in Threads |-> 0]
    /\ left = [t \in Threads |-> MaxOps]
    /\ crashed = FALSE

\* Faulty variant of Init: openFile maps the new file without giving it its
\* initial size.
Init_NoInitialSize == OpenFile(0)

Init == OpenFile(InitLines)

-----------------------------------------------------------------------------
(***************************************************************************)
(* A caller begins an operation.  It reads, activates and deactivates only *)
(* lines it knows to exist.  A line beyond the end is asked for by         *)
(* allocateId alone, and never one that the expansion under way would not  *)
(* provide (module Tabble shows that the ids of its callers obey this).    *)
(***************************************************************************)
Requestable(l) ==
    \/ l < fileSize
    \/ l < 2 * fileSize /\ \A u \in Threads : pc[u] # "store"

Begin(t, k, l, v) ==
    /\ pc[t] = "idle" /\ left[t] > 0 /\ ~crashed
    /\ IF k \in {"write", "reserve"} THEN Requestable(l) ELSE l < fileSize
    /\ kind' = [kind EXCEPT ![t] = k]
    /\ line' = [line EXCEPT ![t] = l]
    /\ val' = [val EXCEPT ![t] = v]
    /\ left' = [left EXCEPT ![t] = @ - 1]
    /\ Goto(t, IF k \in {"write", "reserve"} THEN "check" ELSE "lock")
    /\ UNCHANGED <<mapVars, lockVars, dataVars, view, crashed>>

\* What follows  if (core.getMaxLine() <= lineNumber) expand();
AfterExpand(t) == IF kind[t] = "reserve" THEN "idle" ELSE "lock"

(***************************************************************************)
(* getMaxLine is read with no lock held.                                   *)
(***************************************************************************)
CheckMaxLine(t) ==
    /\ pc[t] = "check" /\ ~crashed
    /\ Goto(t, IF MaxLine <= line[t] THEN "cas" ELSE AfterExpand(t))
    /\ UNCHANGED <<mapVars, lockVars, dataVars, callVars, view, crashed>>

-----------------------------------------------------------------------------
(***************************************************************************)
(* expand(): the compare_exchange that elects the expanding thread, the    *)
(* wait of the others, the stripes taken in order, expandFile, the store   *)
(* that ends the expansion and, last, the destructors of the locks.        *)
(***************************************************************************)
CompareExchange(t) ==
    /\ pc[t] = "cas" /\ ~crashed
    /\ expanding' = TRUE
    /\ held' = [held EXCEPT ![t] = IF expanding THEN @ ELSE 0]
    /\ Goto(t, IF expanding THEN "spin" ELSE "lockAll")
    /\ UNCHANGED <<mapped, gen, fileSize, diskSize, excl, shared, dataVars,
                   callVars, view, crashed>>

Spin(t) ==
    /\ pc[t] = "spin" /\ ~expanding /\ ~crashed
    /\ Goto(t, AfterExpand(t))
    /\ UNCHANGED <<mapVars, lockVars, dataVars, callVars, view, crashed>>

\* Faulty variant of LockStripe: the loop misses the last stripe.
LockStripe_MissesLast(t) ==
    /\ pc[t] = "lockAll" /\ ~crashed
    /\ excl[held[t]] = Nobody /\ shared[held[t]] = {}
    /\ excl' = [excl EXCEPT ![held[t]] = t]
    /\ held' = [held EXCEPT ![t] = @ + 1]
    /\ Goto(t, IF held[t] + 1 >= StripeCount - 1 THEN "unmap" ELSE "lockAll")
    /\ UNCHANGED <<mapVars, shared, dataVars, callVars, view, crashed>>

LockStripe(t) ==
    /\ pc[t] = "lockAll" /\ ~crashed
    /\ excl[held[t]] = Nobody /\ shared[held[t]] = {}
    /\ excl' = [excl EXCEPT ![held[t]] = t]
    /\ held' = [held EXCEPT ![t] = @ + 1]
    /\ Goto(t, IF held[t] + 1 = StripeCount THEN "unmap" ELSE "lockAll")
    /\ UNCHANGED <<mapVars, shared, dataVars, callVars, view, crashed>>

\* Faulty variant of Unmap: the new size is published before the file has it.
Unmap_PublishesSize(t) ==
    /\ pc[t] = "unmap" /\ ~crashed
    /\ mapped' = FALSE
    /\ fileSize' = 2 * fileSize
    /\ Goto(t, "truncate")
    /\ UNCHANGED <<expanding, gen, diskSize, lockVars, dataVars, callVars,
                   view, crashed>>

Unmap(t) ==
    /\ pc[t] = "unmap" /\ ~crashed
    /\ mapped' = FALSE
    /\ Goto(t, "truncate")
    /\ UNCHANGED <<expanding, gen, fileSize, diskSize, lockVars, dataVars,
                   callVars, view, crashed>>

Truncate(t) ==
    /\ pc[t] = "truncate" /\ ~crashed
    /\ diskSize' = 2 * fileSize
    /\ Goto(t, "remap")
    /\ UNCHANGED <<expanding, mapped, gen, fileSize, lockVars, dataVars,
                   callVars, view, crashed>>

Remap(t) ==
    /\ pc[t] = "remap" /\ ~crashed
    /\ mapped' = TRUE
    /\ gen' = gen + 1
    /\ fileSize' = 2 * fileSize
    /\ Goto(t, "store")
    /\ UNCHANGED <<expanding, diskSize, lockVars, dataVars, callVars, view,
                   crashed>>

\* Faulty variant of StoreExpanding: the flag stays set.
StoreExpanding_Forgotten(t) ==
    /\ pc[t] = "store" /\ ~crashed
    /\ Goto(t, "release")
    /\ UNCHANGED <<mapVars, lockVars, dataVars, callVars, view, crashed>>

StoreExpanding(t) ==
    /\ pc[t] = "store" /\ ~crashed
    /\ expanding' = FALSE
    /\ Goto(t, "release")
    /\ UNCHANGED <<mapped, gen, fileSize, diskSize, lockVars, dataVars,
                   callVars, view, crashed>>

\* The destructor of the vector of unique_locks.
ReleaseStripes(t) ==
    excl' = [s \in Stripes |-> IF excl[s] = t THEN Nobody ELSE excl[s]]

Release(t) ==
    /\ pc[t] = "release" /\ ~crashed
    /\ ReleaseStripes(t)
    /\ held' = [held EXCEPT ![t] = 0]
    /\ Goto(t, AfterExpand(t))
    /\ UNCHANGED <<mapVars, shared, dataVars, callVars, view, crashed>>

(***************************************************************************)
(* ftruncate or mmap fails: expandFile throws, the locks are destroyed on  *)
(* the way out, the exception leaves the caller (executeInsert reports     *)
(* it), and nothing restores the mapping or the flag.                      *)
(***************************************************************************)
ExpandThrows(t) ==
    /\ \/ pc[t] = "truncate" /\ "ftruncate" \in Faults
       \/ pc[t] = "remap" /\ "mmap" \in Faults
    /\ ~crashed
    /\ ReleaseStripes(t)
    /\ held' = [held EXCEPT ![t] = 0]
    /\ Goto(t, "idle")
    /\ UNCHANGED <<mapVars, shared, dataVars, callVars, view, crashed>>

-----------------------------------------------------------------------------
(***************************************************************************)
(* The locked access: the stripe of the line, shared or exclusive, and the *)
(* memcpy, which dies if findLine returned a null pointer or the mapping   *)
(* is gone.                                                                *)
(***************************************************************************)
\* Faulty variant of LockLine: a write does not wait for the readers.
LockLine_IgnoresReaders(t) ==
    /\ pc[t] = "lock" /\ ~crashed
    /\ excl[StripeOf(line[t])] = Nobody
    /\ IF kind[t] \in Writing
       THEN /\ excl' = [excl EXCEPT ![StripeOf(line[t])] = t]
            /\ UNCHANGED shared
       ELSE /\ shared' = [shared EXCEPT ![StripeOf(line[t])] = @ \cup {t}]
            /\ UNCHANGED excl
    /\ Goto(t, "copy1")
    /\ UNCHANGED <<mapVars, held, dataVars, callVars, view, crashed>>

LockLine(t) ==
    /\ pc[t] = "lock" /\ ~crashed
    /\ excl[StripeOf(line[t])] = Nobody
    /\ IF kind[t] \in Writing
       THEN /\ shared[StripeOf(line[t])] = {}
            /\ excl' = [excl EXCEPT ![StripeOf(line[t])] = t]
            /\ UNCHANGED shared
       ELSE /\ shared' = [shared EXCEPT ![StripeOf(line[t])] = @ \cup {t}]
            /\ UNCHANGED excl
    /\ Goto(t, "copy1")
    /\ UNCHANGED <<mapVars, held, dataVars, callVars, view, crashed>>

\* findLine(line[t]) is a pointer into a live mapping.
Accessible(t) == mapped /\ line[t] < fileSize

Copy1(t) ==
    /\ pc[t] = "copy1" /\ ~crashed /\ Accessible(t)
    /\ IF kind[t] \in Writing
       THEN word1' = [word1 EXCEPT ![line[t]] = val[t]] /\ UNCHANGED buf
       ELSE buf' = [buf EXCEPT ![t] = word1[line[t]]] /\ UNCHANGED word1
    /\ Goto(t, "copy2")
    /\ UNCHANGED <<mapVars, lockVars, word2, got, callVars, view, crashed>>

\* readText returns a view; the other reads return the value itself.
Copy2(t) ==
    /\ pc[t] = "copy2" /\ ~crashed /\ Accessible(t)
    /\ word2' = IF kind[t] \in Writing
                THEN [word2 EXCEPT ![line[t]] = val[t]] ELSE word2
    /\ got' = IF kind[t] = "read"
              THEN [got EXCEPT ![t] = <<buf[t], word2[line[t]]>>] ELSE got
    /\ view' = IF kind[t] = "view" THEN [view EXCEPT ![t] = gen] ELSE view
    /\ Goto(t, "unlock")
    /\ UNCHANGED <<mapVars, lockVars, word1, buf, callVars, crashed>>

UnlockLine(t) ==
    /\ pc[t] = "unlock" /\ ~crashed
    /\ IF kind[t] \in Writing
       THEN /\ excl' = [excl EXCEPT ![StripeOf(line[t])] = Nobody]
            /\ UNCHANGED shared
       ELSE /\ shared' = [shared EXCEPT ![StripeOf(line[t])] = @ \ {t}]
            /\ UNCHANGED excl
    /\ Goto(t, IF kind[t] = "view" THEN "late" ELSE "idle")
    /\ UNCHANGED <<mapVars, held, dataVars, callVars, view, crashed>>

(***************************************************************************)
(* satisfiesConditions and readRecord copy the string_view after readText  *)
(* has released the stripe.                                                *)
(***************************************************************************)
ViewAlive(t) == mapped /\ view[t] = gen

CopyView(t) ==
    /\ pc[t] = "late" /\ ~crashed
    /\ Goto(t, "idle")
    /\ UNCHANGED <<mapVars, lockVars, dataVars, callVars, view, crashed>>

\* A bad access ends the process.  A stale view does not always: the new
\* mapping may lie over the old addresses.
Segfault(t) ==
    /\ \/ pc[t] \in {"copy1", "copy2"} /\ ~Accessible(t)
       \/ pc[t] = "late" /\ ~ViewAlive(t)
    /\ ~crashed
    /\ crashed' = TRUE
    /\ UNCHANGED <<mapVars, lockVars, dataVars, callVars, pc, view>>

-----------------------------------------------------------------------------
Call(t) == \E k \in Kinds, l \in Lines, v \in Vals :
              /\ k \notin Writing => v = Zero
              /\ Begin(t, k, l, v)

Step(t) ==
    \/ CheckMaxLine(t) \/ CompareExchange(t) \/ Spin(t) \/ LockStripe(t)
    \/ Unmap(t) \/ Truncate(t) \/ Remap(t) \/ StoreExpanding(t) \/ Release(t)
    \/ ExpandThrows(t)
    \/ LockLine(t) \/ Copy1(t) \/ Copy2(t) \/ UnlockLine(t) \/ CopyView(t)
    \/ Segfault(t)

Next == \E t \in Threads : Call(t) \/ Step(t)

Spec == Init /\ [][Next]_vars

(***************************************************************************)
(* A thread that can take a step takes it: the operating system schedules  *)
(* every runnable thread.  Nothing is assumed of who wins a contended      *)
(* shared_mutex.                                                           *)
(***************************************************************************)
FairSpec == Spec /\ \A t \in Threads : WF_vars(Step(t))

-----------------------------------------------------------------------------
\* Threads inside expand() from the compare_exchange to the store.
Expanding(t) == pc[t] \in {"lockAll", "unmap", "truncate", "remap", "store"}

(***************************************************************************)
(* No memcpy under a stripe lock meets a missing mapping or a line beyond  *)
(* its end, whatever expansion runs: the locks of expand() and the size    *)
(* checks before them suffice (MemoryMap.h 47-66, 82-120).                 *)
(***************************************************************************)
LockedAccessIsMapped ==
    \A t \in Threads : pc[t] \in {"copy1", "copy2"} => Accessible(t)

(***************************************************************************)
(* The lines that getMaxLine reports are backed by the file at every       *)
(* moment, a failed expansion included: fileSize is assigned last          *)
(* (MemoryMapLinux.h 32-43).                                               *)
(***************************************************************************)
FileSizeBacked == fileSize <= diskSize

(***************************************************************************)
(* While a thread rebuilds the mapping, nobody else holds a stripe, not    *)
(* even after an expansion that threw (MemoryMap.h 49-60).                 *)
(***************************************************************************)
RemapIsExclusive ==
    \A t \in Threads : pc[t] \in {"truncate", "remap"} =>
        \A s \in Stripes : excl[s] = t /\ shared[s] = {}

(***************************************************************************)
(* "Concurrent access with stripe-based locking" (README 47): a text that  *)
(* a caller is about to copy still lies in the mapping.                    *)
(***************************************************************************)
TextViewIsMapped == \A t \in Threads : pc[t] = "late" => ViewAlive(t)

\* The mapping that expandFile leaves behind when it throws, with the flag set.
Broken == ~mapped /\ \A t \in Threads : ~Expanding(t)

(***************************************************************************)
(* Every operation ends: no deadlock between the stripes, the expansion    *)
(* and the threads that wait for it, and no wait that is never ended,      *)
(* unless an expansion threw: then nobody can use the table any more       *)
(* (MemoryMap.h 47-66, 82-120; MemoryMapLinux.h 25-43).                    *)
(***************************************************************************)
AllOperationsEnd ==
    \A t \in Threads : (pc[t] # "idle") ~> (pc[t] = "idle" \/ crashed \/ Broken)

\* What a line holds while nobody is in the middle of writing it.
Wholes == {<<x, x>> : x \in Vals}

(***************************************************************************)
(* The file is an array of atomic lines that grows (module Storage): a     *)
(* line is written when its second half is, and what a read returns is     *)
(* what the line held, whole.                                              *)
(***************************************************************************)
Abstract == INSTANCE Storage
    WITH Vals <- Wholes, Zero <- <<Zero, Zero>>,
         cells <- [l \in Lines |-> <<word2[l], word2[l]>>], size <- fileSize

StorageSpec == Abstract!Spec
=============================================================================
