-------------------------- MODULE MemoryMapProofs --------------------------
(***************************************************************************)
(* Proofs about MemoryMap, for any number of threads, stripes and lines.   *)
(***************************************************************************)
EXTENDS MemoryMap, TLAPS

\* While expand() still takes stripes, there is one left to take.
HeldInv == \A t \in Threads : pc[t] = "lockAll" => held[t] < StripeCount

TypeInv == TypeOK /\ HeldInv

\* get_stripe yields an index of the array stripes.
LEMMA StripeOfType == ASSUME NEW l \in Lines PROVE StripeOf(l) \in Stripes
  BY MemoryMapAssumption, Z3 DEF StripeOf, Stripes, Lines

LEMMA TypeInit == Init => TypeInv
  <1>1. 0 \in Lines /\ 0 \in 0 .. StripeCount
    BY MemoryMapAssumption DEF Lines
  <1>2. <<Zero, Zero>> \in Vals \X Vals
    BY MemoryMapAssumption
  <1>3. Nobody \in Threads \cup {Nobody} /\ {} \in SUBSET Threads
    OBVIOUS
  <1> SUFFICES ASSUME Init PROVE TypeInv
    OBVIOUS
  <1>4. HeldInv
    BY DEF Init, OpenFile, HeldInv
  <1>5. /\ expanding \in BOOLEAN /\ mapped \in BOOLEAN /\ crashed \in BOOLEAN
        /\ got \in [Threads -> Vals \X Vals]
    BY <1>2, Zenon DEF Init, OpenFile
  <1> QED
    BY <1>1, <1>3, <1>4, <1>5, MemoryMapAssumption
    DEF Init, OpenFile, TypeInv, TypeOK, AllKinds, Locations

\* Every step of the model keeps the types.
LEMMA TypeStep == TypeInv /\ [Next]_vars => TypeInv'
  <1> SUFFICES ASSUME TypeInv, [Next]_vars PROVE TypeInv'
    OBVIOUS
  <1> USE DEF TypeInv, TypeOK, HeldInv
  <1>1. ASSUME NEW t \in Threads, Call(t) PROVE TypeInv'
    <2>1. PICK k \in Kinds, l \in Lines, v \in Vals : Begin(t, k, l, v)
      BY <1>1 DEF Call
    <2> QED
      BY <2>1, MemoryMapAssumption
      DEF Begin, Goto, mapVars, lockVars, dataVars, Locations
  <1>2. ASSUME NEW t \in Threads, CheckMaxLine(t) PROVE TypeInv'
    BY <1>2 DEF CheckMaxLine, AfterExpand, Goto, mapVars, lockVars, dataVars,
                callVars, Locations
  <1>3. ASSUME NEW t \in Threads, CompareExchange(t) PROVE TypeInv'
    BY <1>3, MemoryMapAssumption
    DEF CompareExchange, Goto, dataVars, callVars, Locations
  <1>4. ASSUME NEW t \in Threads, Spin(t) PROVE TypeInv'
    BY <1>4 DEF Spin, AfterExpand, Goto, mapVars, lockVars, dataVars, callVars,
                Locations
  <1>5. ASSUME NEW t \in Threads, LockStripe(t) PROVE TypeInv'
    <2>1. held[t] \in 0 .. StripeCount - 1
      BY <1>5, MemoryMapAssumption DEF LockStripe
    <2>2. /\ held[t] + 1 \in 0 .. StripeCount
          /\ held[t] + 1 # StripeCount => held[t] + 1 < StripeCount
      BY <2>1, MemoryMapAssumption
    <2>3. /\ held' \in [Threads -> 0 .. StripeCount]
          /\ excl' \in [Stripes -> Threads \cup {Nobody}]
      BY <1>5, <2>1, <2>2 DEF LockStripe, Stripes
    <2>4. HeldInv'
      BY <1>5, <2>2 DEF LockStripe, Goto
    <2> QED
      BY <1>5, <2>3, <2>4
      DEF LockStripe, Goto, mapVars, dataVars, callVars, Locations
  <1>6. ASSUME NEW t \in Threads, Unmap(t) PROVE TypeInv'
    BY <1>6 DEF Unmap, Goto, lockVars, dataVars, callVars, Locations
  <1>7. ASSUME NEW t \in Threads, Truncate(t) PROVE TypeInv'
    BY <1>7 DEF Truncate, Goto, lockVars, dataVars, callVars, Locations
  <1>8. ASSUME NEW t \in Threads, Remap(t) PROVE TypeInv'
    BY <1>8 DEF Remap, Goto, lockVars, dataVars, callVars, Locations
  <1>9. ASSUME NEW t \in Threads, StoreExpanding(t) PROVE TypeInv'
    BY <1>9 DEF StoreExpanding, Goto, lockVars, dataVars, callVars, Locations
  <1>10. ASSUME NEW t \in Threads, Release(t) PROVE TypeInv'
    BY <1>10, MemoryMapAssumption
    DEF Release, ReleaseStripes, AfterExpand, Goto, mapVars, dataVars,
        callVars, Locations
  <1>11. ASSUME NEW t \in Threads, ExpandThrows(t) PROVE TypeInv'
    BY <1>11, MemoryMapAssumption
    DEF ExpandThrows, ReleaseStripes, Goto, mapVars, dataVars, callVars,
        Locations
  <1>12. ASSUME NEW t \in Threads, LockLine(t) PROVE TypeInv'
    <2>1. StripeOf(line[t]) \in Stripes
      BY StripeOfType
    <2>2. /\ excl' \in [Stripes -> Threads \cup {Nobody}]
          /\ shared' \in [Stripes -> SUBSET Threads]
      <3>1. CASE kind[t] \in Writing
        BY <1>12, <2>1, <3>1 DEF LockLine
      <3>2. CASE kind[t] \notin Writing
        BY <1>12, <2>1, <3>2, SMTT(30) DEF LockLine
      <3> QED BY <3>1, <3>2
    <2> QED
      BY <1>12, <2>2
      DEF LockLine, Goto, mapVars, dataVars, callVars, Locations
  <1>13. ASSUME NEW t \in Threads, Copy1(t) PROVE TypeInv'
    <2>1. word1' \in [Lines -> Vals] /\ buf' \in [Threads -> Vals]
      <3>1. CASE kind[t] \in Writing
        BY <1>13, <3>1 DEF Copy1
      <3>2. CASE kind[t] \notin Writing
        BY <1>13, <3>2, SMTT(30) DEF Copy1
      <3> QED BY <3>1, <3>2
    <2> QED
      BY <1>13, <2>1 DEF Copy1, Goto, mapVars, lockVars, callVars, Locations
  <1>14. ASSUME NEW t \in Threads, Copy2(t) PROVE TypeInv'
    BY <1>14 DEF Copy2, Goto, mapVars, lockVars, callVars, Locations
  <1>15. ASSUME NEW t \in Threads, UnlockLine(t) PROVE TypeInv'
    <2>1. StripeOf(line[t]) \in Stripes
      BY StripeOfType
    <2>2. /\ excl' \in [Stripes -> Threads \cup {Nobody}]
          /\ shared' \in [Stripes -> SUBSET Threads]
      <3>1. CASE kind[t] \in Writing
        BY <1>15, <2>1, <3>1 DEF UnlockLine
      <3>2. CASE kind[t] \notin Writing
        BY <1>15, <2>1, <3>2, SMTT(30) DEF UnlockLine
      <3> QED BY <3>1, <3>2
    <2> QED
      BY <1>15, <2>2
      DEF UnlockLine, Goto, mapVars, dataVars, callVars, Locations
  <1>16. ASSUME NEW t \in Threads, CopyView(t) PROVE TypeInv'
    BY <1>16
    DEF CopyView, Goto, mapVars, lockVars, dataVars, callVars, Locations
  <1>17. ASSUME NEW t \in Threads, Segfault(t) PROVE TypeInv'
    BY <1>17 DEF Segfault, mapVars, lockVars, dataVars, callVars
  <1>18. CASE UNCHANGED vars
    BY <1>18 DEF vars, mapVars, lockVars, dataVars, callVars
  <1> QED
    BY <1>1, <1>2, <1>3, <1>4, <1>5, <1>6, <1>7, <1>8, <1>9, <1>10, <1>11,
       <1>12, <1>13, <1>14, <1>15, <1>16, <1>17, <1>18 DEF Next, Step

(***************************************************************************)
(* Every variable keeps its type, faults included.                         *)
(***************************************************************************)
THEOREM TypeCorrect == Spec => []TypeOK
  <1>1. TypeInv => TypeOK
    BY DEF TypeInv
  <1> QED
    BY TypeInit, TypeStep, <1>1, PTL DEF Spec
-----------------------------------------------------------------------------
InAccess(t) == pc[t] \in {"copy1", "copy2", "unlock"}
InExpand(t) == pc[t] \in {"lockAll", "unmap", "truncate", "remap", "store",
                          "release"}

\* A stripe is held exclusively or shared, not both.
StripeInv == \A s \in Stripes : excl[s] # Nobody => shared[s] = {}

\* A thread that accesses a line holds its stripe.
AccessInv ==
    \A t \in Threads : InAccess(t) =>
        /\ kind[t] \in Writing => excl[StripeOf(line[t])] = t
        /\ kind[t] \notin Writing => t \in shared[StripeOf(line[t])]

\* A thread in expand() holds the stripes it has counted, in the end all.
ExpandInv ==
    \A t \in Threads : InExpand(t) =>
        /\ \A s \in Stripes : s < held[t] => excl[s] = t
        /\ pc[t] # "lockAll" => held[t] = StripeCount

LockInv == TypeInv /\ StripeInv /\ AccessInv /\ ExpandInv

\* Only a thread between munmap and mmap leaves the table without a mapping,
\* or one whose system call failed.
MappedInv ==
    Faults = {} => (mapped \/ \E t \in Threads : pc[t] \in {"truncate", "remap"})

\* What each thread knows of its line: before the stripe is taken it lies in
\* the file, or the expansion it waits for will provide it.
LineInv ==
    \A t \in Threads :
        /\ pc[t] \in {"store", "release", "lock", "copy1", "copy2"} =>
               line[t] < fileSize
        /\ pc[t] \in {"lockAll", "unmap", "truncate", "remap"} =>
               line[t] < 2 * fileSize
        /\ pc[t] \in {"check", "cas", "spin"} =>
               \/ line[t] < fileSize
               \/ /\ line[t] < 2 * fileSize
                  /\ \A u \in Threads : pc[u] # "store"
                  /\ pc[t] = "spin" => expanding

\* A line whose halves differ is one that a writer is in the middle of.
HalvesInv ==
    \A l \in Lines : word1[l] # word2[l] =>
        \E t \in Threads : /\ pc[t] = "copy2" /\ kind[t] \in Writing
                           /\ line[t] = l

\* The first half is the one that the thread wrote or read.
CopyInv ==
    \A t \in Threads : pc[t] = "copy2" =>
        word1[line[t]] = IF kind[t] \in Writing THEN val[t] ELSE buf[t]

DataInv == HalvesInv /\ CopyInv


LEMMA LockInit == Init => LockInv
  BY TypeInit
  DEF Init, OpenFile, LockInv, StripeInv, AccessInv, ExpandInv, InAccess,
      InExpand

LEMMA LockStep == LockInv /\ [Next]_vars => LockInv'
  <1> SUFFICES ASSUME LockInv, [Next]_vars
               PROVE StripeInv' /\ AccessInv' /\ ExpandInv'
    BY TypeStep DEF LockInv
  <1> USE DEF LockInv, TypeInv, TypeOK
  <1>0. /\ \A t \in Threads : StripeOf(line[t]) \in Stripes
        /\ Nobody \notin Threads
    BY StripeOfType, MemoryMapAssumption
  <1> DEFINE ChangesLock(t) ==
         \/ LockStripe(t) \/ Release(t) \/ ExpandThrows(t)
         \/ LockLine(t) \/ UnlockLine(t)
  <1>1. ASSUME NEW t \in Threads, Call(t)
        PROVE StripeInv' /\ AccessInv' /\ ExpandInv'
    <2>1. PICK k \in Kinds, l \in Lines, v \in Vals : Begin(t, k, l, v)
      BY <1>1 DEF Call
    <2> QED
      BY <2>1 DEF Begin, Goto, lockVars, StripeInv, AccessInv, ExpandInv,
                  InAccess, InExpand
  <1>2. ASSUME NEW t \in Threads, Step(t), ~ChangesLock(t)
        PROVE StripeInv' /\ AccessInv' /\ ExpandInv'
    <2>1. /\ excl' = excl /\ shared' = shared /\ kind' = kind /\ line' = line
          /\ \A u \in Threads \ {t} : pc'[u] = pc[u] /\ held'[u] = held[u]
          /\ InAccess(t)' => InAccess(t)
          /\ InExpand(t)' => \/ InExpand(t) /\ held'[t] = held[t]
                             \/ pc'[t] = "lockAll" /\ held'[t] = 0
          /\ InExpand(t) /\ pc'[t] # "lockAll" => pc[t] # "lockAll"
      BY <1>2 DEF Step, CheckMaxLine, CompareExchange, Spin, Unmap, Truncate,
           Remap, StoreExpanding, Copy1, Copy2, CopyView, Segfault,
           AfterExpand, Goto, lockVars, callVars, InAccess, InExpand
    <2>2. StripeInv' /\ AccessInv'
      BY <2>1 DEF StripeInv, AccessInv, InAccess
    <2>3. ASSUME NEW u \in Threads, InExpand(u)'
          PROVE  /\ \A s \in Stripes : s < held'[u] => excl'[s] = u
                 /\ pc'[u] # "lockAll" => held'[u] = StripeCount
      <3>1. CASE u = t
        BY <2>1, <2>3, <3>1, MemoryMapAssumption DEF ExpandInv, Stripes
      <3>2. CASE u # t
        BY <2>1, <2>3, <3>2 DEF ExpandInv, InExpand
      <3> QED BY <3>1, <3>2
    <2> QED
      BY <2>2, <2>3 DEF ExpandInv
  <1>3. ASSUME NEW t \in Threads, LockStripe(t)
        PROVE StripeInv' /\ AccessInv' /\ ExpandInv'
    <2>1. held[t] \in Stripes /\ held[t] + 1 \in 0 .. StripeCount
      BY <1>3, MemoryMapAssumption DEF LockStripe, HeldInv, Stripes
    <2>2. StripeInv'
      BY <1>3, <2>1 DEF LockStripe, StripeInv
    <2>3. AccessInv'
      BY <1>3, <2>1, <1>0
      DEF LockStripe, AccessInv, InAccess, Goto, callVars
    <2>4. ExpandInv'
      BY <1>3, <2>1, <1>0 DEF LockStripe, ExpandInv, InExpand, Goto, Stripes
    <2> QED BY <2>2, <2>3, <2>4
  <1>4. ASSUME NEW t \in Threads, Release(t) \/ ExpandThrows(t)
        PROVE StripeInv' /\ AccessInv' /\ ExpandInv'
    <2>1. /\ \A s \in Stripes : excl'[s] = IF excl[s] = t THEN Nobody ELSE excl[s]
          /\ shared' = shared /\ kind' = kind /\ line' = line
          /\ \A u \in Threads \ {t} : pc'[u] = pc[u] /\ held'[u] = held[u]
          /\ ~InAccess(t)' /\ ~InExpand(t)'
      BY <1>4 DEF Release, ExpandThrows, ReleaseStripes, AfterExpand, Goto,
                  callVars, InAccess, InExpand
    <2>2. StripeInv'
      BY <2>1 DEF StripeInv
    <2>3. AccessInv'
      BY <2>1, <1>0 DEF AccessInv, InAccess
    <2>4. ExpandInv'
      BY <2>1 DEF ExpandInv, InExpand
    <2> QED BY <2>2, <2>3, <2>4
  <1>5. ASSUME NEW t \in Threads, LockLine(t)
        PROVE StripeInv' /\ AccessInv' /\ ExpandInv'
    <2>1. /\ kind' = kind /\ line' = line /\ held' = held
          /\ \A u \in Threads \ {t} : pc'[u] = pc[u]
          /\ pc'[t] = "copy1" /\ excl[StripeOf(line[t])] = Nobody
      BY <1>5 DEF LockLine, Goto, callVars
    <2>2. CASE kind[t] \in Writing
      <3>1. /\ excl' = [excl EXCEPT ![StripeOf(line[t])] = t]
            /\ shared' = shared /\ shared[StripeOf(line[t])] = {}
        BY <1>5, <2>2 DEF LockLine
      <3> QED
        BY <2>1, <2>2, <3>1, <1>0
        DEF StripeInv, AccessInv, ExpandInv, InAccess, InExpand
    <2>3. CASE kind[t] \notin Writing
      <3>1. /\ shared' = [shared EXCEPT ![StripeOf(line[t])] = @ \cup {t}]
            /\ excl' = excl
        BY <1>5, <2>3 DEF LockLine
      <3> QED
        BY <2>1, <2>3, <3>1, <1>0
        DEF StripeInv, AccessInv, ExpandInv, InAccess, InExpand
    <2> QED BY <2>2, <2>3
  <1>6. ASSUME NEW t \in Threads, UnlockLine(t)
        PROVE StripeInv' /\ AccessInv' /\ ExpandInv'
    <2>1. /\ kind' = kind /\ line' = line /\ held' = held
          /\ \A u \in Threads \ {t} : pc'[u] = pc[u]
          /\ InAccess(t) /\ ~InAccess(t)' /\ ~InExpand(t)'
      BY <1>6 DEF UnlockLine, Goto, callVars, InAccess, InExpand
    <2>2. CASE kind[t] \in Writing
      <3>1. /\ excl' = [excl EXCEPT ![StripeOf(line[t])] = Nobody]
            /\ shared' = shared /\ excl[StripeOf(line[t])] = t
        BY <1>6, <2>1, <2>2 DEF UnlockLine, AccessInv
      <3> QED
        BY <2>1, <2>2, <3>1, <1>0
        DEF StripeInv, AccessInv, ExpandInv, InAccess, InExpand
    <2>3. CASE kind[t] \notin Writing
      <3>1. /\ shared' = [shared EXCEPT ![StripeOf(line[t])] = @ \ {t}]
            /\ excl' = excl
        BY <1>6, <2>3 DEF UnlockLine
      <3> QED
        BY <2>1, <2>3, <3>1, <1>0, SMTT(30)
        DEF StripeInv, AccessInv, ExpandInv, InAccess, InExpand
    <2> QED BY <2>2, <2>3
  <1>7. CASE UNCHANGED vars
    BY <1>7 DEF vars, lockVars, callVars, StripeInv, AccessInv, ExpandInv,
                InAccess, InExpand
  <1> QED
    BY <1>1, <1>2, <1>3, <1>4, <1>5, <1>6, <1>7 DEF Next

LEMMA ExclusiveRemap == LockInv => RemapIsExclusive
  <1>1. SUFFICES ASSUME LockInv, NEW t \in Threads,
                        pc[t] \in {"truncate", "remap"},
                        NEW s \in Stripes
                 PROVE  excl[s] = t /\ shared[s] = {}
    BY DEF RemapIsExclusive
  <1>2. held[t] = StripeCount /\ s < StripeCount
    BY <1>1, MemoryMapAssumption
    DEF LockInv, ExpandInv, InExpand, Stripes
  <1>3. excl[s] = t
    BY <1>1, <1>2 DEF LockInv, ExpandInv, InExpand
  <1> QED
    BY <1>1, <1>3, MemoryMapAssumption DEF LockInv, StripeInv

(***************************************************************************)
(* Between munmap and mmap the expanding thread holds every stripe and     *)
(* nobody else holds any: MemoryMap::expand excludes every access, for any *)
(* number of threads and stripes and with failing system calls.            *)
(***************************************************************************)
THEOREM RemapExclusive == Spec => []RemapIsExclusive
  BY LockInit, LockStep, ExclusiveRemap, PTL DEF Spec

-----------------------------------------------------------------------------
RoomInv == LockInv /\ MappedInv /\ LineInv

LEMMA RoomInit == Init => RoomInv
  BY LockInit DEF Init, OpenFile, RoomInv, MappedInv, LineInv

LEMMA MappedStep == RoomInv /\ [Next]_vars => MappedInv'
  <1> SUFFICES ASSUME RoomInv, [Next]_vars, Faults = {}
               PROVE mapped' \/ \E t \in Threads : pc'[t] \in {"truncate", "remap"}
    BY DEF MappedInv
  <1> USE DEF RoomInv, LockInv, TypeInv, TypeOK, MappedInv
  <1>1. ASSUME NEW t \in Threads, Call(t)
        PROVE mapped' \/ \E u \in Threads : pc'[u] \in {"truncate", "remap"}
    BY <1>1 DEF Call, Begin, Goto, mapVars
  <1>2. ASSUME NEW t \in Threads, Unmap(t) \/ Truncate(t) \/ Remap(t)
        PROVE mapped' \/ \E u \in Threads : pc'[u] \in {"truncate", "remap"}
    BY <1>2 DEF Unmap, Truncate, Remap, Goto
  <1>3. ASSUME NEW t \in Threads, Step(t), ~(Unmap(t) \/ Truncate(t) \/ Remap(t))
        PROVE mapped' \/ \E u \in Threads : pc'[u] \in {"truncate", "remap"}
    <2>1. /\ mapped' = mapped
          /\ \A u \in Threads \ {t} : pc'[u] = pc[u]
          /\ pc[t] \notin {"truncate", "remap"}
      BY <1>3 DEF Step, CheckMaxLine, CompareExchange, Spin, LockStripe,
           StoreExpanding, Release, ExpandThrows, LockLine, Copy1, Copy2,
           UnlockLine, CopyView, Segfault, Goto, mapVars
    <2> QED BY <2>1
  <1>4. CASE UNCHANGED vars
    BY <1>4 DEF vars, mapVars
  <1> QED
    BY <1>1, <1>2, <1>3, <1>4 DEF Next

LEMMA LineStep == RoomInv /\ [Next]_vars => LineInv'
  <1> SUFFICES ASSUME RoomInv, [Next]_vars PROVE LineInv'
    OBVIOUS
  <1> USE DEF RoomInv, LockInv, TypeInv, TypeOK, LineInv
  <1>0. /\ fileSize \in Nat /\ fileSize > 0
        /\ \A t \in Threads : line[t] \in Nat
    BY DEF Lines
  <1>1. ASSUME NEW t \in Threads, Call(t) PROVE LineInv'
    <2>1. PICK k \in Kinds, l \in Lines, v \in Vals : Begin(t, k, l, v)
      BY <1>1 DEF Call
    <2> QED
      BY <2>1, <1>0 DEF Begin, Requestable, Goto, mapVars
  <1>2. ASSUME NEW t \in Threads, CheckMaxLine(t) PROVE LineInv'
    BY <1>2, <1>0
    DEF CheckMaxLine, MaxLine, AfterExpand, Goto, mapVars, callVars
  <1>3. ASSUME NEW t \in Threads, CompareExchange(t) PROVE LineInv'
    BY <1>3, <1>0 DEF CompareExchange, Goto, callVars
  <1>4. ASSUME NEW t \in Threads, Spin(t) PROVE LineInv'
    BY <1>4, <1>0 DEF Spin, AfterExpand, Goto, mapVars, callVars
  <1>5. ASSUME NEW t \in Threads, Remap(t) PROVE LineInv'
    BY <1>5, <1>0 DEF Remap, Goto, callVars
  <1>6. ASSUME NEW t \in Threads, StoreExpanding(t) PROVE LineInv'
    BY <1>6, <1>0 DEF StoreExpanding, Goto, callVars
  <1>7. ASSUME NEW t \in Threads,
               \/ LockStripe(t) \/ Unmap(t) \/ Truncate(t) \/ Release(t)
               \/ ExpandThrows(t) \/ LockLine(t) \/ Copy1(t) \/ Copy2(t)
               \/ UnlockLine(t) \/ CopyView(t) \/ Segfault(t)
        PROVE LineInv'
    <2>1. /\ fileSize' = fileSize /\ expanding' = expanding /\ line' = line
          /\ \A u \in Threads \ {t} : pc'[u] = pc[u]
          /\ \/ pc'[t] \in {"idle", "unlock", "late"}
             \/ pc[t] = "release" /\ pc'[t] = "lock"
             \/ pc[t] = "lock" /\ pc'[t] = "copy1"
             \/ pc[t] = "copy1" /\ pc'[t] = "copy2"
             \/ pc[t] = "lockAll" /\ pc'[t] = "unmap"
             \/ pc[t] = "unmap" /\ pc'[t] = "truncate"
             \/ pc[t] = "truncate" /\ pc'[t] = "remap"
             \/ pc'[t] = pc[t]
      BY <1>7 DEF LockStripe, Unmap, Truncate, Release, ExpandThrows, LockLine,
           Copy1, Copy2, UnlockLine, CopyView, Segfault, AfterExpand, Goto,
           mapVars, callVars
    <2>2. \A u \in Threads : pc'[u] = "store" => pc[u] = "store"
      BY <2>1
    <2> QED BY <2>1, <2>2
  <1>8. CASE UNCHANGED vars
    BY <1>8 DEF vars, mapVars, callVars
  <1> QED
    BY <1>1, <1>2, <1>3, <1>4, <1>5, <1>6, <1>7, <1>8 DEF Next, Step

(***************************************************************************)
(* When no system call of expandFile fails, no memcpy under a stripe lock  *)
(* ever meets a missing mapping or a line beyond its end, for any number   *)
(* of threads, stripes and lines.                                          *)
(***************************************************************************)
THEOREM AccessIsMapped ==
  ASSUME Faults = {} PROVE Spec => []LockedAccessIsMapped
  <1>1. RoomInv /\ [Next]_vars => RoomInv'
    BY LockStep, MappedStep, LineStep DEF RoomInv
  <1>2. ASSUME RoomInv PROVE LockedAccessIsMapped
    <2> SUFFICES ASSUME NEW t \in Threads, pc[t] \in {"copy1", "copy2"}
                 PROVE  mapped /\ line[t] < fileSize
      BY DEF LockedAccessIsMapped, Accessible
    <2>1. line[t] < fileSize
      BY <1>2 DEF RoomInv, LineInv
    <2>2. ASSUME ~mapped PROVE FALSE
      <3>1. PICK u \in Threads : pc[u] \in {"truncate", "remap"}
        BY <1>2, <2>2 DEF RoomInv, MappedInv
      <3>2. StripeOf(line[t]) \in Stripes
        BY <1>2, StripeOfType DEF RoomInv, LockInv, TypeInv, TypeOK
      <3>3. /\ excl[StripeOf(line[t])] = u
            /\ shared[StripeOf(line[t])] = {}
        BY <1>2, <3>1, <3>2, ExclusiveRemap DEF RoomInv, RemapIsExclusive
      <3>4. t # u
        BY <3>1
      <3> QED
        BY <1>2, <3>3, <3>4 DEF RoomInv, LockInv, AccessInv, InAccess
    <2> QED BY <2>1, <2>2
  <1> QED
    BY RoomInit, <1>1, <1>2, PTL DEF Spec
-----------------------------------------------------------------------------
\* The file has its new length before the mapping is made.
BackedInv ==
    /\ LockInv
    /\ fileSize <= diskSize
    /\ \A t \in Threads : pc[t] = "remap" => 2 * fileSize <= diskSize

LEMMA BackedStep == BackedInv /\ [Next]_vars => BackedInv'
  <1> SUFFICES ASSUME BackedInv, [Next]_vars PROVE BackedInv'
    OBVIOUS
  <1> USE DEF BackedInv
  <1>0. /\ LockInv' /\ fileSize \in Nat /\ diskSize \in Nat
        /\ pc \in [Threads -> Locations]
    BY LockStep DEF LockInv, TypeInv, TypeOK
  <1>1. ASSUME NEW t \in Threads, Truncate(t) PROVE BackedInv'
    BY <1>0, <1>1 DEF Truncate, Goto
  <1>2. ASSUME NEW t \in Threads, Remap(t) PROVE BackedInv'
    <2>1. ASSUME NEW u \in Threads, u # t PROVE pc[u] # "remap"
      <3>1. 0 \in Stripes
        BY MemoryMapAssumption DEF Stripes
      <3> QED
        BY <1>2, <2>1, <3>1, ExclusiveRemap DEF Remap, RemapIsExclusive
    <2> QED
      BY <1>0, <1>2, <2>1 DEF Remap, Goto
  <1>3. ASSUME NEW t \in Threads, Call(t) \/ Step(t), ~Truncate(t), ~Remap(t)
        PROVE BackedInv'
    <2>1. /\ fileSize' = fileSize /\ diskSize' = diskSize
          /\ \A u \in Threads : pc'[u] = "remap" => pc[u] = "remap"
      BY <1>0, <1>3 DEF Call, Begin, Step, CheckMaxLine, CompareExchange, Spin,
           LockStripe, Unmap, StoreExpanding, Release, ExpandThrows, LockLine,
           Copy1, Copy2, UnlockLine, CopyView, Segfault, AfterExpand, Goto,
           mapVars
    <2> QED BY <1>0, <2>1
  <1>4. CASE UNCHANGED vars
    BY <1>0, <1>4 DEF vars, mapVars
  <1> QED
    BY <1>1, <1>2, <1>3, <1>4 DEF Next

(***************************************************************************)
(* The file is never shorter than the size that getMaxLine reports, even   *)
(* when an expansion fails half way.                                       *)
(***************************************************************************)
THEOREM SizeIsBacked == Spec => []FileSizeBacked
  <1>1. Init => BackedInv
    BY LockInit, MemoryMapAssumption DEF Init, OpenFile, BackedInv
  <1>2. BackedInv => FileSizeBacked
    BY DEF BackedInv, FileSizeBacked
  <1> QED
    BY <1>1, <1>2, BackedStep, PTL DEF Spec

-----------------------------------------------------------------------------
WordInv == LockInv /\ DataInv

LEMMA WordInit == Init => WordInv
  BY LockInit DEF Init, OpenFile, WordInv, DataInv, HalvesInv, CopyInv

\* A thread in the middle of a write is alone on its line.
LEMMA WriterAlone ==
  ASSUME LockInv, NEW t \in Threads, NEW u \in Threads, t # u,
         InAccess(t), InAccess(u), line[t] = line[u], kind[t] \in Writing
  PROVE  FALSE
  <1>1. StripeOf(line[t]) \in Stripes
    BY StripeOfType DEF LockInv, TypeInv, TypeOK
  <1>2. excl[StripeOf(line[t])] = t /\ shared[StripeOf(line[t])] = {}
    BY <1>1, MemoryMapAssumption DEF LockInv, AccessInv, StripeInv
  <1> QED
    BY <1>2 DEF LockInv, AccessInv

LEMMA DataStep == WordInv /\ [Next]_vars => DataInv'
  <1> SUFFICES ASSUME WordInv, [Next]_vars PROVE DataInv'
    OBVIOUS
  <1> USE DEF WordInv, LockInv, TypeInv, TypeOK, DataInv, HalvesInv, CopyInv
  <1>1. ASSUME NEW t \in Threads, Call(t) PROVE DataInv'
    <2>1. PICK k \in Kinds, l \in Lines, v \in Vals : Begin(t, k, l, v)
      BY <1>1 DEF Call
    <2>2. /\ word1' = word1 /\ word2' = word2 /\ buf' = buf
          /\ pc[t] = "idle" /\ pc'[t] # "copy2"
          /\ \A u \in Threads \ {t} : /\ pc'[u] = pc[u] /\ kind'[u] = kind[u]
                                      /\ line'[u] = line[u] /\ val'[u] = val[u]
      BY <2>1 DEF Begin, Goto, dataVars
    <2>3. CopyInv'
      BY <2>2
    <2>4. ASSUME NEW m \in Lines, word1'[m] # word2'[m]
          PROVE  \E u \in Threads : /\ pc'[u] = "copy2" /\ kind'[u] \in Writing
                                    /\ line'[u] = m
      <3>1. PICK u \in Threads : /\ pc[u] = "copy2" /\ kind[u] \in Writing
                                 /\ line[u] = m
        BY <2>2, <2>4
      <3>2. u # t
        BY <2>2, <3>1
      <3> QED BY <2>2, <3>1, <3>2
    <2> QED BY <2>3, <2>4
  <1>2. ASSUME NEW t \in Threads, Copy1(t) PROVE DataInv'
    <2>1. /\ pc[t] = "copy1" /\ pc'[t] = "copy2" /\ word2' = word2
          /\ kind' = kind /\ line' = line /\ val' = val
          /\ \A u \in Threads \ {t} : pc'[u] = pc[u]
      BY <1>2 DEF Copy1, Goto, callVars
    <2>2. CASE kind[t] \in Writing
      <3>1. word1' = [word1 EXCEPT ![line[t]] = val[t]] /\ buf' = buf
        BY <1>2, <2>2 DEF Copy1
      <3>2. \A u \in Threads \ {t} : pc[u] = "copy2" => line[u] # line[t]
        BY <2>1, <2>2, WriterAlone DEF InAccess
      <3>3. CopyInv'
        BY <2>1, <2>2, <3>1, <3>2
      <3>4. HalvesInv'
        BY <2>1, <2>2, <3>1
      <3> QED BY <3>3, <3>4
    <2>3. CASE kind[t] \notin Writing
      <3>1. word1' = word1 /\ buf' = [buf EXCEPT ![t] = word1[line[t]]]
        BY <1>2, <2>3 DEF Copy1
      <3> QED BY <2>1, <2>3, <3>1
    <2> QED BY <2>2, <2>3
  <1>3. ASSUME NEW t \in Threads, Copy2(t) PROVE DataInv'
    <2>1. /\ pc[t] = "copy2" /\ pc'[t] = "unlock" /\ word1' = word1
          /\ kind' = kind /\ line' = line /\ val' = val /\ buf' = buf
          /\ word2' = IF kind[t] \in Writing
                      THEN [word2 EXCEPT ![line[t]] = val[t]] ELSE word2
          /\ \A u \in Threads \ {t} : pc'[u] = pc[u]
      BY <1>3 DEF Copy2, Goto, callVars
    <2>2. CopyInv'
      BY <2>1
    <2>3. ASSUME NEW m \in Lines, word1'[m] # word2'[m]
          PROVE  \E u \in Threads : /\ pc'[u] = "copy2" /\ kind'[u] \in Writing
                                    /\ line'[u] = m
      <3>1. word1[m] # word2[m] /\ (kind[t] \in Writing => line[t] # m)
        BY <2>1, <2>3
      <3>2. PICK u \in Threads : /\ pc[u] = "copy2" /\ kind[u] \in Writing
                                 /\ line[u] = m
        BY <3>1
      <3> QED BY <2>1, <3>1, <3>2
    <2> QED BY <2>2, <2>3
  <1>4. ASSUME NEW t \in Threads, Step(t), ~Copy1(t), ~Copy2(t) PROVE DataInv'
    <2>1. /\ word1' = word1 /\ word2' = word2 /\ buf' = buf
          /\ kind' = kind /\ line' = line /\ val' = val
          /\ \A u \in Threads : pc'[u] = "copy2" <=> pc[u] = "copy2"
      BY <1>4 DEF Step, CheckMaxLine, CompareExchange, Spin, LockStripe, Unmap,
           Truncate, Remap, StoreExpanding, Release, ExpandThrows, LockLine,
           UnlockLine, CopyView, Segfault, AfterExpand, Goto, dataVars, callVars
    <2> QED BY <2>1
  <1>5. CASE UNCHANGED vars
    BY <1>5 DEF vars, dataVars, callVars
  <1> QED
    BY <1>1, <1>2, <1>3, <1>4, <1>5 DEF Next

\* What a reader has at its second half is the line, whole.
LEMMA ReadIsWhole ==
  ASSUME WordInv, NEW t \in Threads, pc[t] = "copy2", kind[t] \notin Writing
  PROVE  buf[t] = word2[line[t]]
  <1>1. line[t] \in Lines /\ buf[t] = word1[line[t]]
    BY DEF WordInv, LockInv, TypeInv, TypeOK, DataInv, CopyInv
  <1>2. ASSUME word1[line[t]] # word2[line[t]] PROVE FALSE
    <2>1. PICK u \in Threads : /\ pc[u] = "copy2" /\ kind[u] \in Writing
                               /\ line[u] = line[t]
      BY <1>1, <1>2 DEF WordInv, DataInv, HalvesInv
    <2> QED
      BY <2>1, WriterAlone DEF WordInv, InAccess
  <1> QED BY <1>1, <1>2

LEMMA StorageStep == WordInv /\ [Next]_vars => [Abstract!Next]_Abstract!vars
  <1> SUFFICES ASSUME WordInv, [Next]_vars
               PROVE  [Abstract!Next]_Abstract!vars
    OBVIOUS
  <1> USE DEF Abstract!vars
  <1>0. TypeOK
    BY DEF WordInv, LockInv, TypeInv
  <1>1. ASSUME NEW t \in Threads, Copy2(t)
        PROVE  [Abstract!Next]_Abstract!vars
    <2>1. line[t] \in Lines /\ line[t] < fileSize /\ fileSize' = fileSize
      BY <1>0, <1>1 DEF TypeOK, Copy2, Accessible, mapVars
    <2>2. CASE kind[t] \in Writing
      <3>1. /\ word2' = [word2 EXCEPT ![line[t]] = val[t]]
            /\ got' = got
        BY <1>1, <2>2 DEF Copy2, Writing
      <3>2. [l \in Lines |-> <<word2'[l], word2'[l]>>]
              = [[l \in Lines |-> <<word2[l], word2[l]>>]
                   EXCEPT ![line[t]] = <<val[t], val[t]>>]
        BY <1>0, <2>1, <3>1 DEF TypeOK
      <3>3. <<val[t], val[t]>> \in Wholes
        BY <1>0 DEF TypeOK, Wholes
      <3>4. PICK w \in Wholes : w = <<val[t], val[t]>>
        BY <3>3
      <3>5. Abstract!Write(line[t], w)
        BY <2>1, <3>1, <3>2, <3>4 DEF Abstract!Write
      <3> QED
        BY <2>1, <3>5, Zenon DEF Abstract!Next
    <2>3. CASE kind[t] = "read"
      <3>1. /\ word2' = word2
            /\ got' = [got EXCEPT ![t] = <<buf[t], word2[line[t]]>>]
        BY <1>1, <2>3 DEF Copy2, Writing
      <3>2. buf[t] = word2[line[t]]
        BY <1>1, <2>3, ReadIsWhole DEF Copy2, Writing
      <3>3. [l \in Lines |-> <<word2[l], word2[l]>>][line[t]]
              = <<buf[t], word2[line[t]]>>
        BY <2>1, <3>2
      <3>4. Abstract!Read(t, line[t])
        BY <2>1, <3>1, <3>3, Zenon DEF Abstract!Read
      <3> QED
        BY <2>1, <3>4, Zenon DEF Abstract!Next
    <2>4. CASE kind[t] \notin Writing /\ kind[t] # "read"
      BY <1>1, <2>1, <2>4 DEF Copy2
    <2> QED BY <2>2, <2>3, <2>4
  <1>2. ASSUME NEW t \in Threads, Remap(t)
        PROVE  [Abstract!Next]_Abstract!vars
    BY <1>2 DEF Remap, dataVars, Abstract!Next, Abstract!Grow
  <1>3. ASSUME NEW t \in Threads, Call(t) \/ Step(t), ~Copy2(t), ~Remap(t)
        PROVE  word2' = word2 /\ got' = got /\ fileSize' = fileSize
    BY <1>3 DEF Call, Begin, Step, CheckMaxLine, CompareExchange, Spin,
         LockStripe, Unmap, Truncate, StoreExpanding, Release, ExpandThrows,
         LockLine, Copy1, UnlockLine, CopyView, Segfault, dataVars, mapVars
  <1>4. CASE UNCHANGED vars
    BY <1>4 DEF vars, dataVars, mapVars
  <1> QED
    BY <1>1, <1>2, <1>3, <1>4 DEF Next

(***************************************************************************)
(* The striped, growing memory map implements an array of atomic lines     *)
(* that only ever doubles: no reader sees half of a write, no expansion    *)
(* loses a line, whatever the interleaving and whichever call fails.       *)
(***************************************************************************)
THEOREM ImplementsStorage == Spec => StorageSpec
  <1>1. Init => Abstract!Init
    BY DEF Init, OpenFile, Abstract!Init
  <1>2. WordInv /\ [Next]_vars => WordInv'
    BY LockStep, DataStep DEF WordInv
  <1> QED
    BY WordInit, <1>1, <1>2, StorageStep, PTL
    DEF Spec, StorageSpec, Abstract!Spec
=============================================================================
