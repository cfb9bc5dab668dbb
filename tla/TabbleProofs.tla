---------------------------- MODULE TabbleProofs ----------------------------
(***************************************************************************)
(* Proofs about Tabble, for any number of clients, operations and crashes, *)
(* and what holds besides of one client and of one that deletes.           *)
(***************************************************************************)
EXTENDS Tabble, FiniteSetTheorems, SequenceTheorems, TLAPS

\* A thread that writes columns has one left to write.
ColInv == \A t \in Threads : pc[t] = "write" => col[t] <= Cols

TypeInv == TypeOK /\ ColInv

\* size_t arithmetic stays in size_t.
LEMMA ModType == ASSUME NEW n \in Nat PROVE n % (SizeMax + 1) \in 0 .. SizeMax
  BY TabbleAssumption, Z3

LEMMA CounterType ==
  ASSUME NEW n \in 0 .. SizeMax
  PROVE  Inc(n) \in 0 .. SizeMax /\ Dec(n) \in 0 .. SizeMax
  <1>1. n + 1 \in Nat /\ n + SizeMax \in Nat
    BY TabbleAssumption
  <1> QED
    BY <1>1, ModType DEF Inc, Dec

LEMMA TypeInit == Init => TypeInv
  <1> SUFFICES ASSUME Init PROVE TypeInv
    OBVIOUS
  <1>1. ColInv /\ expanding \in BOOLEAN
    BY DEF Init, ColInv
  <1>2. row \in [Lines -> [1 .. Cols -> Vals \cup {Zero}]]
    BY DEF Init
  <1>3. /\ 1 \in 1 .. Cols + 1 /\ 0 \in 0 .. SizeMax
        /\ stack \in Seq(Nat)
    BY TabbleAssumption DEF Init
  <1> QED
    BY <1>1, <1>2, <1>3, TabbleAssumption DEF Init, TypeInv, TypeOK, Locations

LEMMA FunctionIsSeq ==
  ASSUME NEW S, NEW n \in Nat, NEW s \in [1 .. n -> S]
  PROVE  s \in Seq(S) /\ Len(s) = n
  OBVIOUS

\* What the flags leave of a reopened table.
LEMMA HolesType ==
  ASSUME TypeOK, AnalyzeHoles
  PROVE  /\ size' \in {size, 2 * size}
         /\ freeId' \in 0 .. size
         /\ activePlaces' \in 0 .. SizeMax
         /\ \A l \in active : l < freeId'
         /\ stack' \in Seq(Nat)
         /\ \A i \in 1 .. Len(stack') : stack'[i] < freeId'
  <1>1. PICK f \in 0 .. size :
          LET holes == {l \in 0 .. f - 1 : l \notin active} IN
          /\ \A l \in active : l < f
          /\ size' = IF \A l \in 0 .. size - 1 : l \in active
                     THEN 2 * size ELSE size
          /\ freeId' = f
          /\ activePlaces' = Cardinality(active) % (SizeMax + 1)
          /\ \E s \in [1 .. Cardinality(holes) -> holes] :
                 Ascending(s) /\ stack' = s
    BY DEF AnalyzeHoles
  <1> DEFINE holes == {l \in 0 .. f - 1 : l \notin active}
  <1>2. f \in Nat /\ f <= size
    BY DEF TypeOK
  <1>3. IsFiniteSet(0 .. f - 1)
    BY <1>2, FS_Interval
  <1>4. active \subseteq 0 .. f - 1 /\ holes \subseteq 0 .. f - 1
    BY <1>1, <1>2 DEF TypeOK
  <1>5. Cardinality(active) \in Nat /\ Cardinality(holes) \in Nat
    BY <1>3, <1>4, FS_Subset, FS_CardinalityType
  <1>6. PICK s \in [1 .. Cardinality(holes) -> holes] : stack' = s
    BY <1>1
  <1>7. /\ stack' \in Seq(Nat)
        /\ \A i \in 1 .. Len(stack') : stack'[i] < f
    <2>1. s \in Seq(holes) /\ Len(s) = Cardinality(holes)
      <3> HIDE DEF holes
      <3> QED BY <1>5, FunctionIsSeq
    <2>2. \A i \in 1 .. Len(s) : s[i] \in holes
      BY <2>1
    <2>3. s \in Seq(Nat)
      BY <2>1, <2>2
    <2> QED
      BY <1>2, <1>4, <1>6, <2>2, <2>3
  <1> QED
    BY <1>1, <1>2, <1>5, <1>7, ModType

LEMMA TypeStep == TypeInv /\ [Next]_vars => TypeInv'
  <1> SUFFICES ASSUME TypeInv, [Next]_vars PROVE TypeInv'
    OBVIOUS
  <1> USE DEF TypeInv, TypeOK, ColInv
  <1>1. ASSUME NEW t \in Threads, Call(t) PROVE TypeInv'
    <2>1. PICK o \in {"insert", "erase", "update"}, l \in Nat,
               v \in Vals \cup {Zero} : Begin(t, o, l, v)
      BY <1>1, TabbleAssumption
      DEF Call, BeginInsert, BeginErase, BeginUpdate, Lines
    <2> QED
      BY <2>1 DEF Begin, Goto, fileVars, allocVars, Locations
  <1>2. ASSUME NEW t \in Threads,
               \/ StackEmpty(t) \/ LoadFreeId(t) \/ CheckRoom(t)
               \/ CompareExchange(t) \/ Spin(t) \/ LockStripes(t)
               \/ StoreExpanding(t) \/ ReleaseStripes(t)
        PROVE TypeInv'
    BY <1>2, ZenonT(40)
    DEF StackEmpty, LoadFreeId, CheckRoom, CompareExchange, Spin,
         LockStripes, StoreExpanding, ReleaseStripes, Goto, fileVars,
         allocVars, callVars, Locations
  <1>3. ASSUME NEW t \in Threads, PopFreeId(t) PROVE TypeInv'
    <2>1. /\ stack[Len(stack)] \in Nat
          /\ SubSeq(stack, 1, Len(stack) - 1) \in Seq(Nat)
      BY <1>3 DEF PopFreeId
    <2> QED
      BY <1>3, <2>1 DEF PopFreeId, Goto, fileVars, callVars, Locations
  <1>4. ASSUME NEW t \in Threads, ExpandFile(t) PROVE TypeInv'
    BY <1>4 DEF ExpandFile, Goto, allocVars, callVars, Locations
  <1>5. ASSUME NEW t \in Threads, CountNewLine(t) \/ CountInserted(t) \/ Uncount(t)
        PROVE TypeInv'
    <2>1. activePlaces' \in 0 .. SizeMax
      BY <1>5, CounterType DEF CountNewLine, CountInserted, Uncount
    <2> QED
      BY <1>5, <2>1 DEF CountNewLine, CountInserted, Uncount, Goto, fileVars,
           callVars, Locations
  <1>6. ASSUME NEW t \in Threads, ClaimLine(t) PROVE TypeInv'
    BY <1>6 DEF ClaimLine, Goto, fileVars, callVars, Locations
  <1>7. ASSUME NEW t \in Threads, Activate(t) \/ ProbeActive(t) \/ Deactivate(t)
        PROVE TypeInv'
    <2>1. 1 \in 1 .. Cols + 1 /\ 1 <= Cols
      BY TabbleAssumption
    <2>2. active' \subseteq Nat /\ size' = size /\ row' = row
      BY <1>7, ZenonT(40) DEF Activate, ProbeActive, Deactivate, fileVars
    <2>3. col' \in [Threads -> 1 .. Cols + 1] /\ ColInv'
      BY <1>7, <2>1 DEF Activate, ProbeActive, Deactivate, Goto
    <2> QED
      BY <1>7, <2>2, <2>3 DEF Activate, ProbeActive, Deactivate, Goto,
           allocVars, callVars, Locations
  <1>8. ASSUME NEW t \in Threads, WriteColumn(t) PROVE TypeInv'
    <2>1. col[t] \in 1 .. Cols /\ col[t] + 1 \in 1 .. Cols + 1
      BY <1>8, TabbleAssumption DEF WriteColumn
    <2>2. row' \in [Lines -> [1 .. Cols -> Vals \cup {Zero}]]
      <3>1. CASE id[t] \in Lines
        BY <1>8, <2>1, <3>1 DEF WriteColumn
      <3>2. CASE id[t] \notin Lines
        BY <1>8, <3>2 DEF WriteColumn
      <3> QED BY <3>1, <3>2
    <2>3. ColInv'
      BY <1>8, <2>1, TabbleAssumption DEF WriteColumn, Goto
    <2> QED
      BY <1>8, <2>1, <2>2, <2>3
      DEF WriteColumn, Goto, allocVars, callVars, Locations
  <1>9. ASSUME NEW t \in Threads, PushInStack(t) PROVE TypeInv'
    <2>1. Append(stack, id[t]) \in Seq(Nat)
      OBVIOUS
    <2> QED
      BY <1>9, <2>1 DEF PushInStack, Goto, fileVars, callVars, Locations
  <1>10. CASE Reopen
    <2>1. /\ size' \in Nat \ {0} /\ freeId' \in Nat
          /\ activePlaces' \in 0 .. SizeMax /\ stack' \in Seq(Nat)
      BY <1>10, HolesType DEF Reopen
    <2>2. expanding' \in BOOLEAN
      BY <1>10, Zenon DEF Reopen
    <2>3. opens' \in Nat
      BY <1>10 DEF Reopen
    <2>4. pc' \in [Threads -> Locations] /\ ColInv'
      BY <1>10 DEF Reopen, Locations
    <2> QED
      BY <1>10, <2>1, <2>2, <2>3, <2>4 DEF Reopen
  <1>11. CASE UNCHANGED vars
    BY <1>11 DEF vars, fileVars, allocVars, callVars
  <1> QED
    BY <1>1, <1>2, <1>3, <1>4, <1>5, <1>6, <1>7, <1>8, <1>9, <1>10, <1>11
    DEF Next, Step

(***************************************************************************)
(* Every variable keeps its type; the counter stays a size_t, the stack a  *)
(* sequence of line numbers.                                               *)
(***************************************************************************)
THEOREM TypeCorrect == Spec => []TypeOK
  <1>1. TypeInv => TypeOK
    BY DEF TypeInv
  <1> QED
    BY TypeInit, TypeStep, <1>1, PTL DEF Spec
-----------------------------------------------------------------------------
Allocating(t) == pc[t] \in {"room", "cas", "spin", "lockAll", "grow", "store",
                            "release", "count", "claim"}

\* What each thread knows of its line compared with freeId.
IdInv ==
    /\ \A t \in Threads : Allocating(t) => id[t] <= freeId
    /\ \A t \in Threads :
          pc[t] \in {"activate", "deactivate", "push"} => id[t] < freeId

ScanInv == TypeInv /\ IdInv /\ ScanReachesEveryRow

LEMMA FrontFacts ==
  ASSUME NEW s \in Seq(Nat), NEW n \in Nat, n <= Len(s)
  PROVE  /\ SubSeq(s, 1, n) \in Seq(Nat)
         /\ Len(SubSeq(s, 1, n)) = n
         /\ \A i \in 1 .. n : SubSeq(s, 1, n)[i] = s[i]
  <1>1. \A i \in 1 .. n : s[i] \in Nat
    OBVIOUS
  <1>2. (IF 1 <= n THEN n - 1 + 1 ELSE 0) = n /\ n - 1 + 1 = n
    OBVIOUS
  <1>3. \A i \in 1 .. n : 1 + i - 1 = i
    OBVIOUS
  <1>4. /\ SubSeq(s, 1, n) \in Seq(Nat)
        /\ Len(SubSeq(s, 1, n)) = IF 1 <= n THEN n - 1 + 1 ELSE 0
        /\ \A i \in 1 .. n - 1 + 1 : SubSeq(s, 1, n)[i] = s[1 + i - 1]
    BY <1>1, SubSeqProperties
  <1> QED
    BY <1>2, <1>3, <1>4, Zenon

LEMMA PopFacts ==
  ASSUME NEW s \in Seq(Nat), s # <<>>
  PROVE  /\ Len(s) \in 1 .. Len(s)
         /\ Len(SubSeq(s, 1, Len(s) - 1)) = Len(s) - 1
         /\ \A i \in 1 .. Len(s) - 1 : SubSeq(s, 1, Len(s) - 1)[i] = s[i]
  <1>1. Len(s) \in Nat \ {0}
    BY EmptySeq
  <1>2. /\ Len(s) \in 1 .. Len(s)
        /\ Len(s) - 1 \in Nat /\ Len(s) - 1 <= Len(s)
    BY <1>1
  <1> QED
    BY <1>2, FrontFacts

LEMMA ScanInit == Init => ScanInv
  BY TypeInit DEF Init, ScanInv, IdInv, Allocating, ScanReachesEveryRow

LEMMA ScanStep == ScanInv /\ [Next]_vars => ScanInv'
  <1> SUFFICES ASSUME ScanInv, [Next]_vars
               PROVE  IdInv' /\ ScanReachesEveryRow'
    BY TypeStep DEF ScanInv
  <1> USE DEF ScanInv, IdInv, ScanReachesEveryRow, Allocating
  <1>0. TypeOK
    BY DEF TypeInv
  <1> USE DEF TypeOK
  <1>1. ASSUME NEW t \in Threads, Call(t) PROVE IdInv' /\ ScanReachesEveryRow'
    <2>1. /\ active' = active /\ stack' = stack /\ freeId' = freeId
          /\ \A u \in Threads \ {t} : pc'[u] = pc[u] /\ id'[u] = id[u]
          /\ pc'[t] \in {"pop", "probe"}
      BY <1>0, <1>1
      DEF Call, BeginInsert, BeginErase, BeginUpdate, Begin, Goto,
           fileVars, allocVars
    <2>2. IdInv'
      BY <2>1
    <2> QED BY <2>1, <2>2
  <1>2. ASSUME NEW t \in Threads, PopFreeId(t)
        PROVE IdInv' /\ ScanReachesEveryRow'
    <2>1. /\ Len(stack) \in 1 .. Len(stack)
          /\ Len(stack') = Len(stack) - 1
          /\ \A i \in 1 .. Len(stack') : stack'[i] = stack[i]
      BY <1>0, <1>2, PopFacts DEF PopFreeId
    <2>2. ScanReachesEveryRow'
      BY <1>0, <1>2, <2>1 DEF PopFreeId, fileVars
    <2>3. IdInv'
      BY <1>0, <1>2, <2>1 DEF PopFreeId, Goto
    <2> QED BY <2>2, <2>3
  <1>3. ASSUME NEW t \in Threads, ClaimLine(t)
        PROVE IdInv' /\ ScanReachesEveryRow'
    BY <1>0, <1>3 DEF ClaimLine, Goto, fileVars
  <1>4. ASSUME NEW t \in Threads, Activate(t) \/ ProbeActive(t) \/ Deactivate(t)
        PROVE IdInv' /\ ScanReachesEveryRow'
    BY <1>0, <1>4, ZenonT(40)
    DEF Activate, ProbeActive, Deactivate, Goto, fileVars, allocVars
  <1>5. ASSUME NEW t \in Threads, PushInStack(t)
        PROVE IdInv' /\ ScanReachesEveryRow'
    <2>1. /\ Len(stack') = Len(stack) + 1
          /\ \A i \in 1 .. Len(stack) : stack'[i] = stack[i]
          /\ stack'[Len(stack) + 1] = id[t]
      BY <1>0, <1>5 DEF PushInStack
    <2>2. ScanReachesEveryRow'
      BY <1>0, <1>5, <2>1 DEF PushInStack, fileVars
    <2>3. IdInv'
      BY <1>0, <1>5 DEF PushInStack, Goto
    <2> QED BY <2>2, <2>3
  <1>6. ASSUME NEW t \in Threads,
               \/ StackEmpty(t) \/ LoadFreeId(t) \/ CheckRoom(t)
               \/ CompareExchange(t) \/ Spin(t) \/ LockStripes(t)
               \/ ExpandFile(t) \/ StoreExpanding(t) \/ ReleaseStripes(t)
               \/ CountNewLine(t) \/ WriteColumn(t) \/ CountInserted(t)
               \/ Uncount(t)
        PROVE IdInv' /\ ScanReachesEveryRow'
    <2>1. /\ active' = active /\ stack' = stack /\ freeId' = freeId
          /\ \A u \in Threads \ {t} : pc'[u] = pc[u] /\ id'[u] = id[u]
          /\ pc'[t] \notin {"activate", "deactivate", "push"}
          /\ Allocating(t)' => \/ Allocating(t) /\ id'[t] = id[t]
                               \/ id'[t] = freeId
      BY <1>0, <1>6 DEF StackEmpty, LoadFreeId, CheckRoom, CompareExchange,
           Spin, LockStripes, ExpandFile, StoreExpanding, ReleaseStripes,
           CountNewLine, WriteColumn, CountInserted, Uncount, Goto, fileVars,
           allocVars
    <2>2. ASSUME NEW u \in Threads
          PROVE  /\ Allocating(u)' => id'[u] <= freeId'
                 /\ pc'[u] \in {"activate", "deactivate", "push"} =>
                       id'[u] < freeId'
      BY <1>0, <2>1
    <2> QED BY <2>1, <2>2
  <1>7. CASE Reopen
    <2>1. /\ \A l \in active' : l < freeId'
          /\ \A i \in 1 .. Len(stack') : stack'[i] < freeId'
      BY <1>0, <1>7, HolesType DEF Reopen
    <2> QED BY <1>7, <2>1 DEF Reopen
  <1>8. CASE UNCHANGED vars
    BY <1>8 DEF vars, fileVars, allocVars
  <1> QED
    BY <1>1, <1>2, <1>3, <1>4, <1>5, <1>6, <1>7, <1>8 DEF Next, Step

(***************************************************************************)
(* The bound of a full scan, freeId, lies beyond every row and every line  *)
(* that will be reused, for any number of clients and after a crash at any *)
(* moment.                                                                 *)
(***************************************************************************)
THEOREM ScanComplete == Spec => []ScanReachesEveryRow
  <1>1. ScanInv => ScanReachesEveryRow
    BY DEF ScanInv
  <1> QED
    BY ScanInit, ScanStep, <1>1, PTL DEF Spec
-----------------------------------------------------------------------------
\* The threads that will add 1 to freeId without waiting for an expansion.
Committed == {t \in Threads : Allocating(t) /\ id[t] < size}

\* The threads that can still add 1 to freeId while all the stripes are held:
\* each can do so once and then waits for a stripe.
MayClaim == {t \in Threads : pc[t] \notin {"activate", "store"}}

\* Every line that a thread is about to touch exists.
LineInv ==
    /\ InitLines <= size
    /\ \A l \in active : l < size
    /\ \A i \in 1 .. Len(stack) : stack[i] < size
    /\ \A t \in Threads :
          pc[t] \in {"store", "release", "count", "claim", "activate", "write",
                     "probe", "deactivate", "push"} => id[t] < size

\* One thread expands at a time, and who waits for it will have its line.
ExpandInv ==
    /\ \A t \in Threads : pc[t] \in {"lockAll", "grow", "store"} =>
          /\ expanding
          /\ \A u \in Threads : pc[u] \in {"lockAll", "grow", "store"} => u = t
    /\ \A t \in Threads : pc[t] = "spin" =>
          \/ id[t] < size
          \/ expanding /\ \A u \in Threads : pc[u] # "store"

\* How far freeId can run ahead of the size.
BoundInv ==
    freeId + Cardinality(Committed) <= size + Cardinality(Threads) - 1

\* A thread that stores FALSE in expanding has made room for everyone.
WindowInv ==
    (\E t \in Threads : pc[t] = "store") =>
        freeId + Cardinality(MayClaim) <= size

RoomInv == ScanInv /\ LineInv /\ ExpandInv /\ BoundInv /\ WindowInv

LEMMA CardSubset ==
  ASSUME NEW U \in SUBSET Threads, NEW S \in SUBSET U
  PROVE  /\ Cardinality(S) \in Nat /\ Cardinality(U) \in Nat
         /\ Cardinality(S) <= Cardinality(U)
  <1>1. IsFiniteSet(U)
    BY TabbleAssumption, FS_Subset
  <1> QED
    BY <1>1, FS_Subset, FS_CardinalityType

LEMMA CardDrop ==
  ASSUME NEW U \in SUBSET Threads, NEW t \in U, NEW S \in SUBSET (U \ {t})
  PROVE  Cardinality(S) + 1 <= Cardinality(U)
  <1>1. IsFiniteSet(U)
    BY TabbleAssumption, FS_Subset
  <1>2. Cardinality(U \ {t}) = Cardinality(U) - 1
    BY <1>1, FS_RemoveElement
  <1>3. Cardinality(S) <= Cardinality(U \ {t}) /\ Cardinality(U) \in Nat
        /\ Cardinality(S) \in Nat
    BY <1>1, CardSubset
  <1> QED
    BY <1>2, <1>3

\* freeId never runs so far ahead that doubling the file is not enough.
LEMMA DoublingSuffices ==
  ASSUME RoomInv, FewThreads
  PROVE  /\ Cardinality(Threads) \in Nat \ {0}
         /\ freeId <= size + Cardinality(Threads) - 1
         /\ freeId < 2 * size
         /\ Cardinality(Threads) <= size
         /\ 2 * Cardinality(Threads) <= size + 2
  <1>1. PICK t \in Threads : TRUE
    BY TabbleAssumption
  <1>2. Cardinality({}) + 1 <= Cardinality(Threads)
    BY <1>1, CardDrop
  <1>3. /\ Cardinality(Threads) \in Nat /\ Cardinality(Committed) \in Nat
        /\ Cardinality({}) \in Nat
    BY CardSubset DEF Committed
  <1>4. /\ freeId \in Nat /\ size \in Nat \ {0} /\ InitLines <= size
        /\ InitLines \in Nat
    BY TabbleAssumption DEF RoomInv, ScanInv, TypeInv, TypeOK, LineInv
  <1>5. freeId + Cardinality(Committed) <= size + Cardinality(Threads) - 1
    BY DEF RoomInv, BoundInv
  <1>6. Cardinality(Threads) \in Nat \ {0}
    BY <1>2, <1>3
  <1>7. 2 * Cardinality(Threads) <= size + 2
    BY <1>3, <1>4 DEF FewThreads
  <1> HIDE DEF Threads
  <1> QED
    BY <1>3, <1>4, <1>5, <1>6, <1>7

\* While a thread is about to store FALSE in expanding, nobody that still has
\* to claim a line has one beyond the end.
LEMMA WindowHasRoom ==
  ASSUME RoomInv, NEW e \in Threads, pc[e] = "store",
         NEW t \in Threads, pc[t] \notin {"store", "activate"}
  PROVE  freeId < size
  <1>1. t \in MayClaim /\ MayClaim \subseteq Threads
    BY DEF MayClaim
  <1>2. Cardinality({}) + 1 <= Cardinality(MayClaim)
    BY <1>1, CardDrop
  <1>3. Cardinality({}) \in Nat /\ Cardinality(MayClaim) \in Nat
    BY <1>1, CardSubset
  <1>4. freeId + Cardinality(MayClaim) <= size
    BY DEF RoomInv, WindowInv
  <1>5. freeId \in Nat /\ size \in Nat
    BY DEF RoomInv, ScanInv, TypeInv, TypeOK
  <1> QED
    BY <1>2, <1>3, <1>4, <1>5

LEMMA RoomInit == Init => RoomInv
  <1> SUFFICES ASSUME Init PROVE RoomInv
    OBVIOUS
  <1>1. LineInv /\ ExpandInv /\ WindowInv
    BY TabbleAssumption DEF Init, LineInv, ExpandInv, WindowInv
  <1>2. Committed = {}
    BY DEF Init, Committed, Allocating
  <1>3. PICK t \in Threads : TRUE
    BY TabbleAssumption
  <1>4. Cardinality({}) + 1 <= Cardinality(Threads)
    BY <1>3, CardDrop
  <1>5. Cardinality(Threads) \in Nat /\ Cardinality({}) \in Nat
    BY CardSubset
  <1>6. BoundInv
    <2> HIDE DEF Threads
    <2> QED BY <1>2, <1>4, <1>5, TabbleAssumption DEF Init, BoundInv
  <1> QED
    BY ScanInit, <1>1, <1>6 DEF RoomInv
LEMMA LineStep == FewThreads /\ RoomInv /\ [Next]_vars => LineInv'
  <1> SUFFICES ASSUME FewThreads, RoomInv, [Next]_vars PROVE LineInv'
    OBVIOUS
  <1>0. /\ TypeOK /\ IdInv /\ LineInv /\ ExpandInv
        /\ size \in Nat /\ freeId \in Nat /\ InitLines \in Nat
    BY TabbleAssumption DEF RoomInv, ScanInv, TypeInv, TypeOK
  <1> USE DEF LineInv, TypeOK
  <1>1. ASSUME NEW t \in Threads, Call(t) PROVE LineInv'
    <2>1. /\ size' = size /\ active' = active /\ stack' = stack
          /\ \A u \in Threads \ {t} : pc'[u] = pc[u] /\ id'[u] = id[u]
          /\ pc'[t] = "pop" \/ (pc'[t] = "probe" /\ id'[t] < size)
      BY <1>0, <1>1
      DEF Call, BeginInsert, BeginErase, BeginUpdate, Begin, Goto,
           fileVars, allocVars
    <2> QED BY <1>0, <2>1
  <1>2. ASSUME NEW t \in Threads, PopFreeId(t) PROVE LineInv'
    <2>1. /\ Len(stack) \in 1 .. Len(stack)
          /\ Len(stack') = Len(stack) - 1
          /\ \A i \in 1 .. Len(stack') : stack'[i] = stack[i]
      BY <1>0, <1>2, PopFacts DEF PopFreeId
    <2>2. /\ size' = size /\ active' = active
          /\ \A u \in Threads \ {t} : pc'[u] = pc[u] /\ id'[u] = id[u]
          /\ id'[t] < size
      BY <1>0, <1>2, <2>1 DEF PopFreeId, Goto, fileVars
    <2>3. \A i \in 1 .. Len(stack') : stack'[i] < size
      BY <1>0, <2>1
    <2> QED BY <1>0, <2>2, <2>3
  <1>3. ASSUME NEW t \in Threads, ExpandFile(t) PROVE LineInv'
    <2>1. id[t] < 2 * size
      BY <1>0, <1>3, DoublingSuffices DEF ExpandFile, IdInv, Allocating
    <2> QED BY <1>0, <1>3, <2>1 DEF ExpandFile, Goto, allocVars
  <1>4. ASSUME NEW t \in Threads, Spin(t) PROVE LineInv'
    BY <1>0, <1>4 DEF Spin, ExpandInv, Goto, fileVars, allocVars
  <1>5. ASSUME NEW t \in Threads, Activate(t) \/ Deactivate(t) PROVE LineInv'
    BY <1>0, <1>5, ZenonT(40) DEF Activate, Deactivate, Goto, allocVars
  <1>6. ASSUME NEW t \in Threads, PushInStack(t) PROVE LineInv'
    <2>1. /\ Len(stack') = Len(stack) + 1
          /\ \A i \in 1 .. Len(stack) : stack'[i] = stack[i]
          /\ stack'[Len(stack) + 1] = id[t]
      BY <1>0, <1>6 DEF PushInStack
    <2>2. /\ size' = size /\ active' = active /\ id' = id /\ id[t] < size
          /\ \A u \in Threads \ {t} : pc'[u] = pc[u]
          /\ pc'[t] = "uncount"
      BY <1>0, <1>6 DEF PushInStack, Goto, fileVars
    <2>3. ASSUME NEW i \in 1 .. Len(stack') PROVE stack'[i] < size
      <3>1. Len(stack) \in Nat
        BY <1>0, LenProperties
      <3>2. i \in 1 .. Len(stack) + 1
        BY <2>1
      <3>3. i \in 1 .. Len(stack) \/ i = Len(stack) + 1
        BY <3>1, <3>2
      <3> QED BY <1>0, <2>1, <2>2, <3>3
    <2> QED BY <1>0, <2>2, <2>3
  <1>7. ASSUME NEW t \in Threads,
               \/ StackEmpty(t) \/ LoadFreeId(t) \/ CheckRoom(t)
               \/ CompareExchange(t) \/ LockStripes(t) \/ StoreExpanding(t)
               \/ ReleaseStripes(t) \/ CountNewLine(t) \/ ClaimLine(t)
               \/ WriteColumn(t) \/ CountInserted(t) \/ ProbeActive(t)
               \/ Uncount(t)
        PROVE LineInv'
    <2>1. /\ size' = size /\ active' = active /\ stack' = stack
          /\ \A u \in Threads \ {t} : pc'[u] = pc[u] /\ id'[u] = id[u]
          /\ \/ pc'[t] \in {"idle", "load", "room", "cas", "spin", "lockAll",
                            "grow", "counted"}
             \/ id'[t] = id[t] /\ id[t] < size
      BY <1>0, <1>7 DEF StackEmpty, LoadFreeId, CheckRoom, CompareExchange,
           LockStripes, StoreExpanding, ReleaseStripes, CountNewLine, ClaimLine,
           WriteColumn, CountInserted, ProbeActive, Uncount, Goto, fileVars,
           allocVars
    <2> QED BY <1>0, <2>1
  <1>8. CASE Reopen
    <2>1. /\ size' \in {size, 2 * size} /\ freeId' \in 0 .. size
          /\ \A l \in active : l < freeId'
          /\ stack' \in Seq(Nat)
          /\ \A i \in 1 .. Len(stack') : stack'[i] < freeId'
      BY <1>0, <1>8, HolesType DEF Reopen
    <2>2. active' = active /\ \A u \in Threads : pc'[u] = "idle"
      BY <1>8 DEF Reopen
    <2>3. size <= size' /\ freeId' <= size'
      BY <1>0, <2>1
    <2>4. \A i \in 1 .. Len(stack') : stack'[i] \in Nat
      BY <2>1
    <2>5. /\ \A l \in active' : l < size'
          /\ \A i \in 1 .. Len(stack') : stack'[i] < size'
      BY <1>0, <2>1, <2>2, <2>3, <2>4
    <2> QED BY <1>0, <2>1, <2>2, <2>3, <2>5
  <1>9. CASE UNCHANGED vars
    BY <1>0, <1>9 DEF vars, fileVars, allocVars
  <1> QED
    BY <1>1, <1>2, <1>3, <1>4, <1>5, <1>6, <1>7, <1>8, <1>9 DEF Next, Step

LEMMA ExpandStep == FewThreads /\ RoomInv /\ [Next]_vars => ExpandInv'
  <1> SUFFICES ASSUME FewThreads, RoomInv, [Next]_vars PROVE ExpandInv'
    OBVIOUS
  <1>0. /\ TypeOK /\ IdInv /\ ExpandInv
        /\ size \in Nat /\ freeId \in Nat
    BY DEF RoomInv, ScanInv, TypeInv, TypeOK
  <1> USE DEF ExpandInv, TypeOK
  <1>1. ASSUME NEW t \in Threads, CompareExchange(t) PROVE ExpandInv'
    <2>1. ASSUME NEW e \in Threads, pc[e] = "store" PROVE id[t] < size
      BY <1>0, <1>1, <2>1, WindowHasRoom DEF CompareExchange, IdInv, Allocating
    <2> QED
      BY <1>0, <1>1, <2>1 DEF CompareExchange, Goto, fileVars
  <1>2. ASSUME NEW t \in Threads, ExpandFile(t) PROVE ExpandInv'
    <2>1. \A u \in Threads : pc[u] = "spin" => id[u] < 2 * size
      BY <1>0, DoublingSuffices, SMTT(20) DEF IdInv, Allocating
    <2> QED BY <1>0, <1>2, <2>1 DEF ExpandFile, Goto, allocVars
  <1>3. ASSUME NEW t \in Threads, StoreExpanding(t) PROVE ExpandInv'
    BY <1>0, <1>3 DEF StoreExpanding, Goto, fileVars
  <1>4. ASSUME NEW t \in Threads, Call(t) \/ Step(t), ~CompareExchange(t),
               ~ExpandFile(t), ~StoreExpanding(t)
        PROVE ExpandInv'
    <2>1. /\ size' = size /\ expanding' = expanding
          /\ \A u \in Threads \ {t} : pc'[u] = pc[u] /\ id'[u] = id[u]
          /\ pc'[t] \notin {"spin", "store", "lockAll"}
          /\ pc'[t] = "grow" => pc[t] = "lockAll"
      BY <1>0, <1>4, SMTT(30)
      DEF Call, BeginInsert, BeginErase, BeginUpdate, Begin, Step,
           PopFreeId, StackEmpty, LoadFreeId, CheckRoom, Spin, LockStripes,
           ReleaseStripes, CountNewLine, ClaimLine, Activate, WriteColumn,
           CountInserted, ProbeActive, Deactivate, PushInStack, Uncount, Goto,
           fileVars, allocVars
    <2> QED BY <1>0, <2>1
  <1>5. CASE Reopen
    BY <1>5 DEF Reopen
  <1>6. CASE UNCHANGED vars
    BY <1>0, <1>6 DEF vars, fileVars, allocVars
  <1> QED
    BY <1>1, <1>2, <1>3, <1>4, <1>5, <1>6 DEF Next, Step
LEMMA BoundStep == FewThreads /\ RoomInv /\ [Next]_vars => BoundInv'
  <1> SUFFICES ASSUME FewThreads, RoomInv, [Next]_vars PROVE BoundInv'
    OBVIOUS
  <1> DEFINE T == Cardinality(Threads)
  <1>0. /\ TypeOK /\ LineInv /\ ExpandInv /\ BoundInv
        /\ size \in Nat \ {0} /\ freeId \in Nat
    BY DEF RoomInv, ScanInv, TypeInv, TypeOK
  <1>1. /\ Cardinality(Committed) \in Nat /\ Cardinality(Committed') \in Nat
        /\ Cardinality(Committed') <= T
    BY CardSubset DEF Committed
  <1>2. /\ T \in Nat \ {0} /\ T <= size
        /\ freeId <= size + T - 1
    BY DoublingSuffices
  <1>3. ASSUME freeId' = freeId, size' = size, Committed' \subseteq Committed
        PROVE  BoundInv'
    <2>1. Cardinality(Committed') <= Cardinality(Committed)
      BY <1>3, CardSubset DEF Committed
    <2> HIDE DEF Committed, Threads
    <2> QED BY <1>0, <1>1, <1>2, <1>3, <2>1 DEF BoundInv
  <1>4. ASSUME NEW t \in Threads, LoadFreeId(t) PROVE BoundInv'
    <2>1. freeId' = freeId /\ size' = size
      BY <1>4 DEF LoadFreeId, fileVars, allocVars
    <2>2. CASE freeId < size
      <3> HIDE DEF Committed, Threads
      <3> QED BY <1>0, <1>1, <1>2, <2>1, <2>2 DEF BoundInv
    <2>3. CASE ~(freeId < size)
      <3>1. Committed' \subseteq Committed
        BY <1>0, <1>4, <2>1, <2>3
        DEF LoadFreeId, Committed, Allocating, Goto, TypeOK
      <3> QED BY <1>3, <2>1, <3>1
    <2> QED BY <2>2, <2>3
  <1>5. ASSUME NEW t \in Threads, ExpandFile(t) PROVE BoundInv'
    <2>1. freeId' = freeId /\ size' = 2 * size
      BY <1>5 DEF ExpandFile, allocVars
    <2> HIDE DEF Committed, Threads
    <2> QED BY <1>0, <1>1, <1>2, <2>1 DEF BoundInv
  <1>6. ASSUME NEW t \in Threads, ClaimLine(t) PROVE BoundInv'
    <2>1. freeId' = freeId + 1 /\ size' = size
      BY <1>6 DEF ClaimLine, fileVars
    <2>2. t \in Committed /\ Committed' \subseteq Committed \ {t}
      BY <1>0, <1>6, <2>1
      DEF ClaimLine, Committed, Allocating, LineInv, Goto, TypeOK
    <2>3. Cardinality(Committed') + 1 <= Cardinality(Committed)
      BY <2>2, CardDrop DEF Committed
    <2> HIDE DEF Committed, Threads
    <2> QED BY <1>0, <1>1, <1>2, <2>1, <2>3 DEF BoundInv
  <1>7. ASSUME NEW t \in Threads, Call(t) \/ Step(t),
               ~LoadFreeId(t), ~ExpandFile(t), ~ClaimLine(t)
        PROVE BoundInv'
    <2>1. /\ freeId' = freeId /\ size' = size
          /\ \A u \in Threads \ {t} : pc'[u] = pc[u] /\ id'[u] = id[u]
          /\ Allocating(t)' => Allocating(t) /\ id'[t] = id[t]
      BY <1>0, <1>7, SMTT(30)
      DEF Call, BeginInsert, BeginErase, BeginUpdate, Begin, Step,
           PopFreeId, StackEmpty, CheckRoom, CompareExchange, Spin, LockStripes,
           StoreExpanding, ReleaseStripes, CountNewLine, Activate, WriteColumn,
           CountInserted, ProbeActive, Deactivate, PushInStack, Uncount, Goto,
           Allocating, TypeOK, fileVars, allocVars
    <2>2. Committed' \subseteq Committed
      BY <2>1 DEF Committed, Allocating
    <2> QED BY <1>3, <2>1, <2>2
  <1>8. CASE Reopen
    <2>1. /\ size' \in {size, 2 * size} /\ freeId' \in 0 .. size
      BY <1>0, <1>8, HolesType DEF Reopen
    <2>2. Committed' = {}
      BY <1>8 DEF Reopen, Committed, Allocating
    <2>3. Cardinality(Committed') = 0
      BY <2>2, FS_EmptySet
    <2> HIDE DEF Committed, Threads
    <2> QED BY <1>0, <1>2, <2>1, <2>3 DEF BoundInv
  <1>9. CASE UNCHANGED vars
    <2>1. freeId' = freeId /\ size' = size /\ Committed' = Committed
      BY <1>9 DEF vars, fileVars, allocVars, Committed, Allocating
    <2> QED BY <1>3, <2>1
  <1> QED
    BY <1>4, <1>5, <1>6, <1>7, <1>8, <1>9 DEF Next

LEMMA WindowStep == FewThreads /\ RoomInv /\ [Next]_vars => WindowInv'
  <1> SUFFICES ASSUME FewThreads, RoomInv, [Next]_vars,
                      \E e \in Threads : pc'[e] = "store"
               PROVE  (freeId + Cardinality(MayClaim) <= size)'
    BY DEF WindowInv
  <1> DEFINE T == Cardinality(Threads)
  <1> DEFINE Goal == (freeId + Cardinality(MayClaim) <= size)'
  <1>0. /\ TypeOK /\ ExpandInv /\ WindowInv
        /\ size \in Nat \ {0} /\ freeId \in Nat
    BY DEF RoomInv, ScanInv, TypeInv, TypeOK
  <1>1. /\ Cardinality(MayClaim) \in Nat /\ Cardinality(MayClaim') \in Nat
        /\ T \in Nat
    BY CardSubset DEF MayClaim
  <1>2. ASSUME NEW t \in Threads, ExpandFile(t) PROVE Goal
    <2>1. freeId' = freeId /\ size' = 2 * size
      BY <1>2 DEF ExpandFile, allocVars
    <2>2. MayClaim' \subseteq Threads \ {t}
      BY <1>0, <1>2 DEF ExpandFile, MayClaim, Goto, TypeOK
    <2>3. Cardinality(MayClaim') + 1 <= T
      BY <2>2, CardDrop
    <2>4. /\ freeId <= size + T - 1 /\ 2 * T <= size + 2
      BY DoublingSuffices
    <2> HIDE DEF MayClaim, Threads
    <2> QED BY <1>0, <1>1, <2>1, <2>3, <2>4
  <1>3. ASSUME NEW t \in Threads, ClaimLine(t) PROVE Goal
    <2>1. freeId' = freeId + 1 /\ size' = size
      BY <1>3 DEF ClaimLine, fileVars
    <2>2. /\ t \in MayClaim /\ MayClaim' \subseteq MayClaim \ {t}
          /\ \E e \in Threads : pc[e] = "store"
      BY <1>0, <1>3 DEF ClaimLine, MayClaim, Goto, TypeOK
    <2>3. Cardinality(MayClaim') + 1 <= Cardinality(MayClaim)
      BY <2>2, CardDrop DEF MayClaim
    <2>4. freeId + Cardinality(MayClaim) <= size
      BY <1>0, <2>2 DEF WindowInv
    <2> HIDE DEF MayClaim
    <2> QED BY <1>0, <1>1, <2>1, <2>3, <2>4
  <1>4. ASSUME NEW t \in Threads, StoreExpanding(t) PROVE FALSE
    BY <1>0, <1>4 DEF StoreExpanding, ExpandInv, Goto, TypeOK
  <1>5. ASSUME NEW t \in Threads, Activate(t) PROVE FALSE
    BY <1>0, <1>5 DEF Activate, Unlocked, Goto, TypeOK
  <1>6. ASSUME freeId' = freeId, size' = size, MayClaim' \subseteq MayClaim,
               \E e \in Threads : pc[e] = "store"
        PROVE  Goal
    <2>1. Cardinality(MayClaim') <= Cardinality(MayClaim)
      BY <1>6, CardSubset DEF MayClaim
    <2>2. freeId + Cardinality(MayClaim) <= size
      BY <1>0, <1>6 DEF WindowInv
    <2> HIDE DEF MayClaim
    <2> QED BY <1>0, <1>1, <1>6, <2>1, <2>2
  <1>7. ASSUME NEW t \in Threads, Call(t) \/ Step(t), ~ExpandFile(t),
               ~ClaimLine(t), ~StoreExpanding(t), ~Activate(t)
        PROVE  Goal
    <2>1. /\ freeId' = freeId /\ size' = size
          /\ \A u \in Threads \ {t} : pc'[u] = pc[u]
          /\ pc[t] \notin {"activate", "store"} /\ pc'[t] # "store"
      BY <1>0, <1>7
      DEF Call, BeginInsert, BeginErase, BeginUpdate, Begin, Step,
           PopFreeId, StackEmpty, LoadFreeId, CheckRoom, CompareExchange, Spin,
           LockStripes, ReleaseStripes, CountNewLine, WriteColumn,
           CountInserted, ProbeActive, Deactivate, PushInStack, Uncount, Goto,
           TypeOK, fileVars, allocVars
    <2>2. MayClaim' \subseteq MayClaim /\ \E e \in Threads : pc[e] = "store"
      BY <2>1 DEF MayClaim
    <2> QED BY <1>6, <2>1, <2>2
  <1>8. CASE Reopen
    BY <1>8 DEF Reopen
  <1>9. CASE UNCHANGED vars
    <2>1. /\ freeId' = freeId /\ size' = size /\ MayClaim' = MayClaim
          /\ pc' = pc
      BY <1>9 DEF vars, fileVars, allocVars, MayClaim
    <2> QED BY <1>6, <2>1
  <1> QED
    BY <1>2, <1>3, <1>4, <1>5, <1>7, <1>8, <1>9 DEF Next

(***************************************************************************)
(* When the clients are few enough for the first file, no insert, update   *)
(* or delete ever touches a line beyond the mapping: the unlocked size     *)
(* check, the racing fetch_adds and the flag of expand() leave room for    *)
(* every thread, through any number of expansions and crashes.             *)
(***************************************************************************)
THEOREM LinesExist ==
  ASSUME FewThreads PROVE Spec => []TouchedLinesExist
  <1>1. RoomInv /\ [Next]_vars => RoomInv'
    BY ScanStep, LineStep, ExpandStep, BoundStep, WindowStep DEF RoomInv
  <1>2. RoomInv => TouchedLinesExist
    BY DEF RoomInv, LineInv, TouchedLinesExist
  <1> QED
    BY RoomInit, <1>1, <1>2, PTL DEF Spec

-----------------------------------------------------------------------------
(***************************************************************************)
(* A table with one client: its lines are accounted for, its scans stay in *)
(* the file, and it implements module Table.                               *)
(***************************************************************************)
\* One client at a time uses the table.
OneClient == \A t, u \in Threads : t = u

\* The lines that wait to be reused.
Stacked == {stack[i] : i \in 1 .. Len(stack)}

LEMMA OneIsFew == ASSUME OneClient PROVE FewThreads /\ Cardinality(Threads) = 1
  <1>1. PICK t \in Threads : TRUE
    BY TabbleAssumption
  <1>2. Threads = {t}
    BY <1>1 DEF OneClient
  <1>3. Cardinality(Threads) = 1
    BY <1>2, FS_Singleton
  <1> QED
    BY <1>3, TabbleAssumption DEF FewThreads

LEMMA RoomStep == FewThreads /\ RoomInv /\ [Next]_vars => RoomInv'
  BY ScanStep, LineStep, ExpandStep, BoundStep, WindowStep DEF RoomInv

(***************************************************************************)
(* With one client, freeId is a line count of the file at every moment, so *)
(* a full scan looks at no line beyond the mapping.                        *)
(***************************************************************************)
THEOREM ScanInFile == ASSUME OneClient PROVE Spec => []ScanStaysInFile
  <1>1. FewThreads /\ Cardinality(Threads) = 1
    BY OneIsFew
  <1>2. RoomInv /\ [Next]_vars => RoomInv'
    BY <1>1, RoomStep
  <1>3. RoomInv => ScanStaysInFile
    <2> SUFFICES ASSUME RoomInv PROVE freeId <= size
      BY DEF ScanStaysInFile
    <2>1. freeId <= size + Cardinality(Threads) - 1
      BY <1>1, DoublingSuffices
    <2>2. freeId \in Nat /\ size \in Nat
      BY DEF RoomInv, ScanInv, TypeInv, TypeOK
    <2> QED BY <1>1, <2>1, <2>2
  <1> QED
    BY RoomInit, <1>2, <1>3, PTL DEF Spec
-----------------------------------------------------------------------------
(***************************************************************************)
(* Every line below freeId is in use, on the stack or in the client's      *)
(* hand, and in one of these only.                                         *)
(***************************************************************************)
AccountInv ==
    /\ \A t \in Threads : Allocating(t) => id[t] = freeId
    /\ \A t \in Threads : pc[t] = "deactivate" => id[t] \in active
    /\ \A t \in Threads : InHand(t) => id[t] \notin active /\ id[t] \notin Stacked
    /\ \A l \in Stacked : l \notin active
    /\ \A i, j \in 1 .. Len(stack) : stack[i] = stack[j] => i = j
    /\ \A l \in 0 .. freeId - 1 :
          \/ l \in active
          \/ l \in Stacked
          \/ \E t \in Threads : InHand(t) /\ id[t] = l

\* The stack of a reopened table holds each of its holes once.
LEMMA HolesStacked ==
  ASSUME TypeOK, AnalyzeHoles
  PROVE  /\ Stacked' = {l \in 0 .. freeId' - 1 : l \notin active}
         /\ \A i, j \in 1 .. Len(stack') : stack'[i] = stack'[j] => i = j
         /\ Len(stack') = Cardinality({l \in 0 .. freeId' - 1 : l \notin active})
         /\ freeId' \in 0 .. size
         /\ \A l \in active : l < freeId'
         /\ activePlaces' = Cardinality(active) % (SizeMax + 1)
  <1>1. PICK f \in 0 .. size :
          LET holes == {l \in 0 .. f - 1 : l \notin active} IN
          /\ \A l \in active : l < f
          /\ freeId' = f
          /\ activePlaces' = Cardinality(active) % (SizeMax + 1)
          /\ \E s \in [1 .. Cardinality(holes) -> holes] :
                 Ascending(s) /\ stack' = s
    BY DEF AnalyzeHoles
  <1> DEFINE holes == {l \in 0 .. f - 1 : l \notin active}
  <1>2. f \in Nat
    BY DEF TypeOK
  <1>3. IsFiniteSet(holes) /\ holes \subseteq Nat
    <2>1. IsFiniteSet(0 .. f - 1) /\ holes \subseteq 0 .. f - 1
      BY <1>2, FS_Interval
    <2> QED BY <2>1, FS_Subset, <1>2
  <1> DEFINE n == Cardinality(holes)
  <1>4. n \in Nat
    BY <1>3, FS_CardinalityType
  <1>5. PICK s \in [1 .. n -> holes] : Ascending(s) /\ stack' = s
    BY <1>1
  <1> HIDE DEF holes
  <1>6. s \in Seq(holes) /\ Len(s) = n
    BY <1>4, FunctionIsSeq DEF n
  <1>7. \A i, j \in 1 .. n : s[i] = s[j] => i = j
    <2>1. \A i \in 1 .. n : s[i] \in Nat
      BY <1>3
    <2> HIDE DEF n
    <2>2. \A i, j \in 1 .. n : i < j => s[i] < s[j]
      BY <1>5, <1>6 DEF Ascending
    <2>3. \A i, j \in 1 .. n : i < j \/ j < i \/ i = j
      BY <1>4
    <2> QED BY <2>1, <2>2, <2>3
  <1>8. s \in Surjection(1 .. n, holes)
    <2>1. s \in Injection(1 .. n, holes)
      BY <1>7 DEF Injection, IsInjective
    <2>2. Cardinality(1 .. n) = n
      BY <1>4, FS_Interval
    <2> QED BY <1>3, <2>1, <2>2, FS_Injection
  <1>9. {s[i] : i \in 1 .. n} = holes
    BY <1>8 DEF Surjection
  <1> QED
    BY <1>1, <1>5, <1>6, <1>7, <1>9 DEF Stacked, holes

LEMMA PopStacked ==
  ASSUME TypeOK, NEW t \in Threads, PopFreeId(t),
         \A i, j \in 1 .. Len(stack) : stack[i] = stack[j] => i = j
  PROVE  /\ id'[t] \in Stacked
         /\ Stacked' = Stacked \ {id'[t]}
         /\ \A i, j \in 1 .. Len(stack') : stack'[i] = stack'[j] => i = j
  <1>1. /\ Len(stack) \in 1 .. Len(stack)
        /\ Len(stack') = Len(stack) - 1
        /\ \A i \in 1 .. Len(stack) - 1 : stack'[i] = stack[i]
        /\ id'[t] = stack[Len(stack)]
    BY PopFacts DEF PopFreeId, TypeOK
  <1>2. Len(stack) \in Nat
    BY DEF TypeOK
  <1>3. \A i \in 1 .. Len(stack) :
           i # Len(stack) <=> i \in 1 .. Len(stack) - 1
    BY <1>2
  <1>4. \A i \in 1 .. Len(stack) - 1 : i \in 1 .. Len(stack)
    BY <1>2
  <1>5. id'[t] \in Stacked
    BY <1>1 DEF Stacked
  <1>6. ASSUME NEW l \in Stacked' PROVE l \in Stacked \ {id'[t]}
    <2>1. PICK i \in 1 .. Len(stack) - 1 : l = stack[i]
      BY <1>1, <1>6 DEF Stacked
    <2>2. i \in 1 .. Len(stack) /\ i # Len(stack)
      BY <1>3, <1>4
    <2> QED BY <1>1, <2>1, <2>2 DEF Stacked
  <1>7. ASSUME NEW l \in Stacked \ {id'[t]} PROVE l \in Stacked'
    <2>1. PICK i \in 1 .. Len(stack) : l = stack[i]
      BY DEF Stacked
    <2>2. i \in 1 .. Len(stack) - 1
      BY <1>1, <1>3, <2>1
    <2> QED BY <1>1, <2>1, <2>2 DEF Stacked
  <1> QED
    BY <1>1, <1>4, <1>5, <1>6, <1>7

LEMMA PushStacked ==
  ASSUME TypeOK, NEW t \in Threads, PushInStack(t), id[t] \notin Stacked,
         \A i, j \in 1 .. Len(stack) : stack[i] = stack[j] => i = j
  PROVE  /\ Stacked' = Stacked \cup {id[t]}
         /\ \A i, j \in 1 .. Len(stack') : stack'[i] = stack'[j] => i = j
  <1>1. /\ Len(stack') = Len(stack) + 1
        /\ \A i \in 1 .. Len(stack) : stack'[i] = stack[i]
        /\ stack'[Len(stack) + 1] = id[t]
    BY DEF PushInStack, TypeOK
  <1>2. Len(stack) \in Nat
    BY DEF TypeOK
  <1>3. 1 .. Len(stack) + 1 = (1 .. Len(stack)) \cup {Len(stack) + 1}
    BY <1>2
  <1>4. \A i \in 1 .. Len(stack) : stack[i] # id[t]
    BY DEF Stacked
  <1> QED
    BY <1>1, <1>3, <1>4 DEF Stacked

LEMMA AccountStep ==
  OneClient /\ RoomInv /\ AccountInv /\ [Next]_vars => AccountInv'
  <1> SUFFICES ASSUME OneClient, RoomInv, AccountInv, [Next]_vars
               PROVE  AccountInv'
    OBVIOUS
  <1>0. /\ TypeOK /\ IdInv /\ ScanReachesEveryRow
        /\ freeId \in Nat
    BY DEF RoomInv, ScanInv, TypeInv, TypeOK
  <1>a. \A l \in Stacked : l < freeId
    BY <1>0 DEF Stacked, ScanReachesEveryRow
  <1> USE DEF AccountInv
  <1>1. ASSUME NEW t \in Threads, PopFreeId(t) PROVE AccountInv'
    <2>1. /\ id'[t] \in Stacked
          /\ Stacked' = Stacked \ {id'[t]}
          /\ \A i, j \in 1 .. Len(stack') : stack'[i] = stack'[j] => i = j
      BY <1>0, <1>1, PopStacked
    <2>2. /\ active' = active /\ freeId' = freeId /\ pc'[t] = "activate"
          /\ \A u \in Threads : u = t /\ pc[u] = "pop"
      BY <1>0, <1>1 DEF PopFreeId, Goto, fileVars, TypeOK, OneClient
    <2> QED BY <2>1, <2>2 DEF Allocating, InHand
  <1>2. ASSUME NEW t \in Threads, PushInStack(t) PROVE AccountInv'
    <2>1. /\ Stacked' = Stacked \cup {id[t]}
          /\ \A i, j \in 1 .. Len(stack') : stack'[i] = stack'[j] => i = j
      BY <1>0, <1>2, PushStacked DEF PushInStack, InHand
    <2>2. /\ active' = active /\ freeId' = freeId /\ id' = id
          /\ pc'[t] = "uncount" /\ pc[t] = "push"
          /\ \A u \in Threads : u = t
      BY <1>0, <1>2 DEF PushInStack, Goto, fileVars, TypeOK, OneClient
    <2> QED BY <2>1, <2>2 DEF Allocating, InHand
  <1>3. ASSUME NEW t \in Threads, ClaimLine(t) PROVE AccountInv'
    <2>1. /\ active' = active /\ stack' = stack /\ id' = id
          /\ freeId' = freeId + 1 /\ id[t] = freeId
          /\ pc'[t] = "activate" /\ pc[t] = "claim"
          /\ \A u \in Threads : u = t
      BY <1>0, <1>3
      DEF ClaimLine, Goto, fileVars, TypeOK, OneClient, Allocating
    <2>2. Stacked' = Stacked
      BY <2>1 DEF Stacked
    <2>3. freeId \notin active /\ freeId \notin Stacked
      BY <1>0, <1>a DEF ScanReachesEveryRow
    <2>4. \A l \in 0 .. freeId' - 1 : l = freeId \/ l \in 0 .. freeId - 1
      BY <1>0, <2>1
    <2> QED BY <2>1, <2>2, <2>3, <2>4 DEF Allocating, InHand
  <1>4. ASSUME NEW t \in Threads, Activate(t) PROVE AccountInv'
    <2>1. /\ active' = active \cup {id[t]} /\ stack' = stack /\ id' = id
          /\ freeId' = freeId
          /\ pc'[t] = "write" /\ pc[t] = "activate"
          /\ \A u \in Threads : u = t
      BY <1>0, <1>4 DEF Activate, Goto, allocVars, TypeOK, OneClient
    <2>2. Stacked' = Stacked
      BY <2>1 DEF Stacked
    <2> QED BY <2>1, <2>2 DEF Allocating, InHand
  <1>5. ASSUME NEW t \in Threads, Deactivate(t) PROVE AccountInv'
    <2>1. /\ active' = active \ {id[t]} /\ stack' = stack /\ id' = id
          /\ freeId' = freeId
          /\ pc'[t] = "push" /\ pc[t] = "deactivate"
          /\ \A u \in Threads : u = t
      BY <1>0, <1>5 DEF Deactivate, Goto, allocVars, TypeOK, OneClient
    <2>2. Stacked' = Stacked
      BY <2>1 DEF Stacked
    <2> QED BY <2>1, <2>2 DEF Allocating, InHand
  <1>6. ASSUME NEW t \in Threads, Call(t) \/ Step(t), ~PopFreeId(t),
               ~PushInStack(t), ~ClaimLine(t), ~Activate(t), ~Deactivate(t)
        PROVE AccountInv'
    <2>1. /\ active' = active /\ stack' = stack /\ freeId' = freeId
          /\ ~InHand(t) /\ ~InHand(t)'
          /\ Allocating(t)' => id'[t] = freeId
          /\ pc'[t] = "deactivate" => id'[t] \in active
      BY <1>0, <1>6, SMTT(30)
      DEF Call, BeginInsert, BeginErase, BeginUpdate, Begin, Step, StackEmpty,
          LoadFreeId, CheckRoom, CompareExchange, Spin, LockStripes, ExpandFile,
          StoreExpanding, ReleaseStripes, CountNewLine, WriteColumn,
          CountInserted, ProbeActive, Uncount, Goto, Allocating, InHand, TypeOK,
          fileVars, allocVars
    <2>2. \A u \in Threads : u = t
      BY DEF OneClient
    <2>3. Stacked' = Stacked
      BY <2>1 DEF Stacked
    <2> QED BY <2>1, <2>2, <2>3
  <1>7. CASE Reopen
    <2>1. /\ Stacked' = {l \in 0 .. freeId' - 1 : l \notin active}
          /\ \A i, j \in 1 .. Len(stack') : stack'[i] = stack'[j] => i = j
      BY <1>0, <1>7, HolesStacked DEF Reopen
    <2> QED BY <1>7, <2>1 DEF Reopen, Allocating, InHand
  <1>8. CASE UNCHANGED vars
    BY <1>8 DEF vars, fileVars, allocVars, Allocating, InHand, Stacked
  <1> QED
    BY <1>1, <1>2, <1>3, <1>4, <1>5, <1>6, <1>7, <1>8 DEF Next

LEMMA AccountInit == Init => AccountInv
  BY DEF Init, AccountInv, Allocating, InHand, Stacked

\* What accounts for a line, counted.
LEMMA Accounted ==
  ASSUME OneClient, RoomInv, AccountInv PROVE LinesAccountedFor
  <1> SUFFICES ASSUME NEW l \in 0 .. freeId - 1
               PROVE  Cardinality({i \in 1 .. Len(stack) : stack[i] = l})
                        + Cardinality({t \in Threads : InHand(t) /\ id[t] = l})
                        + (IF l \in active THEN 1 ELSE 0) = 1
    BY DEF LinesAccountedFor
  <1> DEFINE places == {i \in 1 .. Len(stack) : stack[i] = l}
  <1> DEFINE hands == {t \in Threads : InHand(t) /\ id[t] = l}
  <1>1. CASE l \in active
    <2>1. places = {} /\ hands = {}
      BY <1>1 DEF AccountInv, Stacked
    <2>2. Cardinality(places) = 0 /\ Cardinality(hands) = 0
      BY <2>1, FS_EmptySet
    <2> QED BY <1>1, <2>2
  <1>2. CASE l \notin active /\ l \in Stacked
    <2>1. hands = {}
      BY <1>2 DEF AccountInv
    <2>2. PICK i \in 1 .. Len(stack) : stack[i] = l
      BY <1>2 DEF Stacked
    <2>3. places = {i}
      BY <2>2 DEF AccountInv
    <2>4. Cardinality(places) = 1 /\ Cardinality(hands) = 0
      BY <2>1, <2>3, FS_EmptySet, FS_Singleton
    <2> QED BY <1>2, <2>4
  <1>3. CASE l \notin active /\ l \notin Stacked
    <2>1. places = {}
      BY <1>3 DEF Stacked
    <2>2. PICK t \in Threads : InHand(t) /\ id[t] = l
      BY <1>3 DEF AccountInv
    <2>3. hands = {t}
      BY <2>2 DEF OneClient
    <2>4. Cardinality(places) = 0 /\ Cardinality(hands) = 1
      BY <2>1, <2>3, FS_EmptySet, FS_Singleton
    <2> QED BY <1>3, <2>4
  <1> QED
    BY <1>1, <1>2, <1>3

(***************************************************************************)
(* With one client no line is lost and none is offered twice, through any  *)
(* number of inserts, deletes and reuses and after a crash at any moment.  *)
(***************************************************************************)
THEOREM NoLineLost == ASSUME OneClient PROVE Spec => []LinesAccountedFor
  <1>1. Init => RoomInv /\ AccountInv
    BY RoomInit, AccountInit
  <1>2. RoomInv /\ AccountInv /\ [Next]_vars => (RoomInv /\ AccountInv)'
    BY OneIsFew, RoomStep, AccountStep
  <1>3. RoomInv /\ AccountInv => LinesAccountedFor
    BY Accounted
  <1> QED
    BY <1>1, <1>2, <1>3, PTL DEF Spec

(***************************************************************************)
(* With one client insert never takes the line of a row: it takes two      *)
(* clients to see an id handed out twice.                                  *)
(***************************************************************************)
THEOREM OneClientFreshLine == ASSUME OneClient PROVE Spec => []InsertTakesFreeLine
  <1>1. Init => RoomInv /\ AccountInv
    BY RoomInit, AccountInit
  <1>2. RoomInv /\ AccountInv /\ [Next]_vars => (RoomInv /\ AccountInv)'
    BY OneIsFew, RoomStep, AccountStep
  <1>3. AccountInv => InsertTakesFreeLine
    BY DEF AccountInv, InsertTakesFreeLine, InHand
  <1> QED
    BY <1>1, <1>2, <1>3, PTL DEF Spec
-----------------------------------------------------------------------------
(***************************************************************************)
(* What the client stores, and that the columns it has passed hold it.     *)
(***************************************************************************)
RowInv ==
    \A t \in Threads :
        /\ Allocating(t) \/ pc[t] \in {"pop", "load", "activate", "counted"} =>
              op[t] = "insert" /\ val[t] \in Vals
        /\ pc[t] = "probe" =>
              \/ op[t] = "erase"
              \/ op[t] = "update" /\ val[t] \in Vals
        /\ pc[t] = "write" =>
              /\ op[t] \in {"insert", "update"}
              /\ val[t] \in Vals
              /\ id[t] \in active
              /\ id[t] \in Lines =>
                    \A c \in 1 .. col[t] - 1 : row[id[t]][c] = val[t]

LEMMA RowInit == Init => RowInv
  BY DEF Init, RowInv, Allocating

LEMMA RowStep == OneClient /\ RoomInv /\ RowInv /\ [Next]_vars => RowInv'
  <1> SUFFICES ASSUME OneClient, RoomInv, RowInv, [Next]_vars PROVE RowInv'
    OBVIOUS
  <1>0. TypeOK /\ ColInv
    BY DEF RoomInv, ScanInv, TypeInv
  <1> USE DEF RowInv, Allocating
  <1>1. ASSUME NEW t \in Threads, Call(t) PROVE RowInv'
    <2>1. \A u \in Threads : u = t
      BY DEF OneClient
    <2>2. PICK o \in {"insert", "erase", "update"}, l \in Nat,
               v \in Vals \cup {Zero} :
                 Begin(t, o, l, v) /\ (o # "erase" => v \in Vals)
      BY <1>1, TabbleAssumption
      DEF Call, BeginInsert, BeginErase, BeginUpdate, Lines
    <2>3. /\ op'[t] = o /\ val'[t] = v
          /\ pc'[t] = IF o = "insert" THEN "pop" ELSE "probe"
      BY <1>0, <2>2 DEF Begin, Goto, TypeOK
    <2> QED BY <2>1, <2>2, <2>3
  <1>2. ASSUME NEW t \in Threads, WriteColumn(t) PROVE RowInv'
    <2>1. /\ pc[t] = "write" /\ id' = id /\ op' = op /\ val' = val
          /\ active' = active
          /\ row' = [row EXCEPT ![id[t]][col[t]] = val[t]]
          /\ col'[t] = col[t] + 1
          /\ pc'[t] \in {"write", "counted", "idle"}
          /\ pc'[t] = "counted" => op[t] = "insert"
      BY <1>0, <1>2 DEF WriteColumn, Goto, callVars, TypeOK
    <2>2. ASSUME id[t] \in Lines, NEW c \in 1 .. col'[t] - 1
          PROVE  row'[id[t]][c] = val[t]
      <3>1. /\ col[t] \in 1 .. Cols
            /\ row[id[t]] \in [1 .. Cols -> Vals \cup {Zero}]
        BY <1>0, <2>1, <2>2 DEF ColInv, TypeOK
      <3>2. c \in 1 .. Cols /\ (c = col[t] \/ c \in 1 .. col[t] - 1)
        BY <2>1, <2>2, <3>1, TabbleAssumption
      <3>3. row'[id[t]] = [row[id[t]] EXCEPT ![col[t]] = val[t]]
        BY <1>0, <2>1, <2>2 DEF TypeOK
      <3>4. row'[id[t]][c] = IF c = col[t] THEN val[t] ELSE row[id[t]][c]
        BY <3>1, <3>2, <3>3
      <3> QED BY <2>1, <2>2, <3>2, <3>4
    <2>3. \A u \in Threads : u = t
      BY DEF OneClient
    <2> QED BY <2>1, <2>2, <2>3
  <1>3. ASSUME NEW t \in Threads, Activate(t) \/ ProbeActive(t) PROVE RowInv'
    <2>1. \A u \in Threads : u = t
      BY DEF OneClient
    <2>2. /\ id' = id /\ op' = op /\ val' = val /\ col'[t] = 1
          /\ \/ pc'[t] = "idle" \/ pc'[t] = "deactivate"
             \/ /\ pc'[t] = "write" /\ id[t] \in active'
                /\ op[t] \in {"insert", "update"} /\ val[t] \in Vals
      BY <1>0, <1>3, ZenonT(40)
      DEF Activate, ProbeActive, Goto, callVars, fileVars, TypeOK
    <2>3. \A c \in 1 .. col'[t] - 1 : FALSE
      BY <2>2
    <2> QED BY <2>1, <2>2, <2>3
  <1>4. ASSUME NEW t \in Threads, Step(t), ~WriteColumn(t), ~Activate(t),
               ~ProbeActive(t)
        PROVE RowInv'
    <2>1. \A u \in Threads : u = t
      BY DEF OneClient
    <2>2. /\ op' = op /\ val' = val
          /\ pc'[t] \notin {"probe", "write"}
          /\ Allocating(t)' \/ pc'[t] \in {"pop", "load", "activate", "counted"} =>
                Allocating(t) \/ pc[t] \in {"pop", "load", "activate", "counted"}
      BY <1>0, <1>4, SMTT(30)
      DEF Step, PopFreeId, StackEmpty,
          LoadFreeId, CheckRoom, CompareExchange, Spin, LockStripes, ExpandFile,
          StoreExpanding, ReleaseStripes, CountNewLine, ClaimLine, Deactivate,
          PushInStack, CountInserted, Uncount, Goto, TypeOK, callVars
    <2> QED BY <2>1, <2>2
  <1>5. CASE Reopen
    BY <1>5 DEF Reopen
  <1>6. CASE UNCHANGED vars
    BY <1>6 DEF vars, fileVars, allocVars, callVars
  <1> QED
    BY <1>1, <1>2, <1>3, <1>4, <1>5, <1>6 DEF Next

\* What the only client t leaves to be seen of line l.
Seen(t, l) ==
    IF l \notin active \/ Writing(t, "insert", l) THEN <<>>
    ELSE IF Writing(t, "update", l) /\ col[t] > 1
    THEN [c \in 1 .. Cols |-> val[t]]
    ELSE row[l]

LEMMA SeenSole ==
  ASSUME OneClient, NEW t \in Threads, NEW l
  PROVE  RowSeen(l) = Seen(t, l) /\ RowSeen(l)' = Seen(t, l)'
  <1>1. \A u \in Threads : u = t
    BY DEF OneClient
  <1>2. ASSUME Writing(t, "update", l) /\ col[t] > 1
        PROVE  (CHOOSE u \in Threads : Writing(u, "update", l) /\ col[u] > 1) = t
    BY <1>1, <1>2
  <1>3. ASSUME (Writing(t, "update", l) /\ col[t] > 1)'
        PROVE  (CHOOSE u \in Threads : Writing(u, "update", l) /\ col[u] > 1)' = t
    BY <1>1, <1>3
  <1>4. RowSeen(l) = Seen(t, l)
    BY <1>1, <1>2, Zenon DEF RowSeen, Seen
  <1>5. RowSeen(l)' = Seen(t, l)'
    BY <1>1, <1>3, Zenon DEF RowSeen, Seen
  <1> QED BY <1>4, <1>5

\* A row is not the absence of a row.
LEMMA RowIsSome ==
  ASSUME NEW S, NEW r \in [1 .. Cols -> S] PROVE r # <<>>
  <1>1. 1 \in DOMAIN r
    BY TabbleAssumption
  <1>2. DOMAIN <<>> = {}
    OBVIOUS
  <1> QED BY <1>1, <1>2, Zenon

\* The rows as a client sees them.
Shown == [l \in Lines |-> RowSeen(l)]

TableInv == RoomInv /\ AccountInv /\ RowInv

\* A step that leaves every line to be seen as it was.
LEMMA Unseen ==
  ASSUME OneClient, NEW t \in Threads, opens' = opens,
         \A l \in Lines : Seen(t, l)' = Seen(t, l)
  PROVE  Shown' = Shown /\ opens' = opens
  <1>1. \A l \in Lines : RowSeen(l)' = RowSeen(l)
    BY SeenSole, Zenon
  <1> QED BY <1>1, Zenon DEF Shown

\* A step that changes what is seen of one line.
LEMMA SeenAt ==
  ASSUME OneClient, NEW t \in Threads, NEW k \in Lines, NEW r,
         Seen(t, k)' = r,
         \A l \in Lines \ {k} : Seen(t, l)' = Seen(t, l)
  PROVE  Shown' = [Shown EXCEPT ![k] = r] /\ Shown[k] = Seen(t, k)
  <1>1. \A l \in Lines : RowSeen(l)' = IF l = k THEN r ELSE RowSeen(l)
    BY SeenSole, Zenon
  <1>2. Shown' = [l \in Lines |-> IF l = k THEN r ELSE RowSeen(l)]
    BY <1>1, Zenon DEF Shown
  <1>3. [Shown EXCEPT ![k] = r] = [l \in Lines |-> IF l = k THEN r ELSE RowSeen(l)]
    BY Zenon DEF Shown
  <1>4. Shown[k] = Seen(t, k)
    BY SeenSole, Zenon DEF Shown
  <1> QED BY <1>2, <1>3, <1>4, Zenon

\* Writing a column: an insert shows with the last, an update with the first.
LEMMA WriteRefines ==
  ASSUME OneClient, TableInv, NEW t \in Threads, WriteColumn(t)
  PROVE  [AsTable!Next]_<<Shown, opens>>
  <1>0. TypeOK /\ ColInv /\ RowInv
    BY DEF TableInv, RoomInv, ScanInv, TypeInv
  <1>a. PICK k, v : k = id[t] /\ v = val[t]
    OBVIOUS
  <1> DEFINE r == [c \in 1 .. Cols |-> v]
  <1>1. /\ pc[t] = "write" /\ id'[t] = k /\ id[t] = k /\ op' = op
        /\ val[t] = v /\ val'[t] = v
        /\ active' = active /\ opens' = opens
        /\ row' = [row EXCEPT ![k][col[t]] = v]
        /\ col'[t] = col[t] + 1
        /\ pc'[t] = IF col[t] < Cols THEN "write"
                    ELSE IF op[t] = "insert" THEN "counted" ELSE "idle"
    BY <1>0, <1>a DEF WriteColumn, Goto, callVars, TypeOK
  <1>2. /\ op[t] \in {"insert", "update"} /\ v \in Vals /\ k \in active
        /\ col[t] \in 1 .. Cols /\ Cols \in Nat \ {0}
    BY <1>0, <1>1, TabbleAssumption DEF RowInv, ColInv, TypeOK
  <1>3. \A l \in Lines \ {k} : row'[l] = row[l]
    BY <1>0, <1>1 DEF TypeOK
  <1>4. \A l \in Lines \ {k} : Seen(t, l)' = Seen(t, l)
    BY <1>1, <1>3, Zenon DEF Seen, Writing
  <1>5. CASE k \notin Lines
    BY <1>1, <1>4, <1>5, Unseen
  <1>6. ASSUME k \in Lines, ~(col[t] < Cols) PROVE row'[k] = r
    <2>1. /\ row[k] \in [1 .. Cols -> Vals \cup {Zero}]
          /\ \A c \in 1 .. col[t] - 1 : row[k][c] = v
      BY <1>0, <1>1, <1>6 DEF TypeOK, RowInv
    <2>2. row'[k] = [row[k] EXCEPT ![col[t]] = v]
      BY <1>0, <1>1, <1>6 DEF TypeOK
    <2>3. \A c \in 1 .. Cols : c = col[t] \/ c \in 1 .. col[t] - 1
      BY <1>2, <1>6
    <2>4. \A c \in 1 .. Cols : row'[k][c] = v
      BY <1>2, <2>1, <2>2, <2>3
    <2>5. row'[k] \in [1 .. Cols -> Vals \cup {Zero}]
      BY <1>2, <2>1, <2>2
    <2> QED BY <2>4, <2>5
  <1>7. CASE k \in Lines /\ op[t] = "insert" /\ col[t] < Cols
    <2>1. Seen(t, k)' = Seen(t, k)
      BY <1>1, <1>7 DEF Seen, Writing
    <2> QED BY <1>1, <1>4, <2>1, Unseen
  <1>8. CASE k \in Lines /\ op[t] = "insert" /\ ~(col[t] < Cols)
    <2>1. Seen(t, k) = <<>> /\ Seen(t, k)' = r
      BY <1>1, <1>2, <1>6, <1>8 DEF Seen, Writing
    <2>2. Shown' = [Shown EXCEPT ![k] = r] /\ Shown[k] = <<>>
      BY <1>4, <1>8, <2>1, SeenAt
    <2>3. AsTable!Insert(k, r)
      BY <1>1, <2>2 DEF AsTable!Insert, Shown
    <2> QED BY <1>2, <1>8, <2>3 DEF AsTable!Next
  <1>9. CASE k \in Lines /\ op[t] = "update" /\ col[t] = 1
    <2>1. Seen(t, k) = row[k]
      BY <1>1, <1>2, <1>9 DEF Seen, Writing
    <2>2. Seen(t, k)' = r
      BY <1>1, <1>2, <1>6, <1>9 DEF Seen, Writing
    <2>3. row[k] # <<>>
      BY <1>0, <1>9, RowIsSome DEF TypeOK
    <2>4. Shown' = [Shown EXCEPT ![k] = r] /\ Shown[k] # <<>>
      BY <1>4, <1>9, <2>1, <2>2, <2>3, SeenAt
    <2>5. AsTable!Update(k, r)
      BY <1>1, <2>4 DEF AsTable!Update, Shown
    <2> QED BY <1>2, <1>9, <2>5 DEF AsTable!Next
  <1>10. CASE k \in Lines /\ op[t] = "update" /\ col[t] # 1
    <2>1. Seen(t, k) = r
      BY <1>1, <1>2, <1>10 DEF Seen, Writing
    <2>2. Seen(t, k)' = r
      BY <1>1, <1>2, <1>6, <1>10 DEF Seen, Writing
    <2> QED BY <1>1, <1>4, <2>1, <2>2, Unseen
  <1> QED
    BY <1>2, <1>5, <1>7, <1>8, <1>9, <1>10

LEMMA RefinementStep ==
  OneClient /\ TableInv /\ [Next]_vars => [AsTable!Next]_<<Shown, opens>>
  <1> SUFFICES ASSUME OneClient, TableInv, [Next]_vars
               PROVE  [AsTable!Next]_<<Shown, opens>>
    OBVIOUS
  <1>0. TypeOK /\ AccountInv /\ RowInv
    BY DEF TableInv, RoomInv, ScanInv, TypeInv
  <1>1. ASSUME NEW t \in Threads, Activate(t)
        PROVE  [AsTable!Next]_<<Shown, opens>>
    <2>1. /\ pc[t] = "activate" /\ pc'[t] = "write" /\ op[t] = "insert"
          /\ id' = id /\ op' = op /\ row' = row /\ opens' = opens
          /\ active' = active \cup {id[t]} /\ id[t] \notin active
      BY <1>0, <1>1
      DEF Activate, Goto, callVars, TypeOK, RowInv, AccountInv, InHand
    <2>2. \A l \in Lines : Seen(t, l)' = Seen(t, l)
      BY <2>1 DEF Seen, Writing
    <2> QED BY <2>1, <2>2, Unseen
  <1>2. ASSUME NEW t \in Threads, ProbeActive(t)
        PROVE  [AsTable!Next]_<<Shown, opens>>
    <2>1. /\ pc[t] = "probe" /\ op[t] # "insert" /\ ~(col'[t] > 1)
          /\ id' = id /\ op' = op /\ row' = row /\ opens' = opens
          /\ active' = active
      BY <1>0, <1>2 DEF ProbeActive, Goto, callVars, fileVars, TypeOK, RowInv
    <2>2. \A l \in Lines : Seen(t, l)' = Seen(t, l)
      BY <2>1 DEF Seen, Writing
    <2> QED BY <2>1, <2>2, Unseen
  <1>3. ASSUME NEW t \in Threads, Deactivate(t)
        PROVE  [AsTable!Next]_<<Shown, opens>>
    <2>a. PICK k : k = id[t]
      OBVIOUS
    <2>1. /\ pc[t] = "deactivate" /\ pc'[t] = "push"
          /\ id[t] = k /\ id'[t] = k /\ op' = op /\ row' = row /\ opens' = opens
          /\ active' = active \ {k} /\ k \in active
      BY <1>0, <1>3, <2>a DEF Deactivate, Goto, callVars, TypeOK, AccountInv
    <2>2. \A l \in Lines \ {k} : Seen(t, l)' = Seen(t, l)
      BY <2>1 DEF Seen, Writing
    <2>3. CASE k \notin Lines
      BY <2>1, <2>2, <2>3, Unseen
    <2>4. CASE k \in Lines
      <3>1. Seen(t, k)' = <<>> /\ Seen(t, k) = row[k]
        BY <2>1 DEF Seen, Writing
      <3>2. row[k] # <<>>
        BY <1>0, <2>4, RowIsSome DEF TypeOK
      <3>3. Shown' = [Shown EXCEPT ![k] = <<>>] /\ Shown[k] # <<>>
        BY <2>2, <2>4, <3>1, <3>2, SeenAt
      <3>4. AsTable!Erase(k)
        BY <2>1, <3>3 DEF AsTable!Erase, Shown
      <3> QED BY <2>4, <3>4 DEF AsTable!Next
    <2> QED BY <2>3, <2>4
  <1>4. ASSUME NEW t \in Threads, Call(t) \/ Step(t), ~Activate(t),
               ~ProbeActive(t), ~Deactivate(t), ~WriteColumn(t)
        PROVE  [AsTable!Next]_<<Shown, opens>>
    <2>1. /\ pc[t] # "write" /\ pc'[t] # "write"
          /\ active' = active /\ row' = row /\ opens' = opens
      BY <1>0, <1>4, SMTT(30)
      DEF Call, BeginInsert, BeginErase, BeginUpdate, Begin, Step, StackEmpty,
          PopFreeId, LoadFreeId, CheckRoom, CompareExchange, Spin, LockStripes,
          ExpandFile, StoreExpanding, ReleaseStripes, CountNewLine, ClaimLine,
          CountInserted, PushInStack, Uncount, Goto, TypeOK, fileVars, callVars
    <2>2. \A l \in Lines : Seen(t, l)' = Seen(t, l)
      BY <2>1 DEF Seen, Writing
    <2> QED BY <2>1, <2>2, Unseen
  <1>5. CASE Reopen
    <2>1. PICK t \in Threads : TRUE
      BY TabbleAssumption
    <2>2. /\ pc'[t] = "idle" /\ active' = active /\ row' = row
          /\ opens' = opens + 1
      BY <1>5 DEF Reopen
    <2>a. PICK k : k = id[t]
      OBVIOUS
    <2>3. \A l \in Lines \ {k} : Seen(t, l)' = Seen(t, l)
      BY <2>2, <2>a DEF Seen, Writing
    <2>4. CASE k \in Lines /\ k \in active
      <3>1. Seen(t, k)' = row[k]
        BY <2>2, <2>4 DEF Seen, Writing
      <3>2. Shown' = [Shown EXCEPT ![k] = row[k]]
        BY <2>3, <2>4, <3>1, SeenAt
      <3>3. row[k] \in [1 .. Cols -> Vals \cup {Zero}]
        BY <1>0, <2>4 DEF TypeOK
      <3>4. AsTable!End(k)
        BY <2>2, <3>2, <3>3 DEF AsTable!End, Shown
      <3> QED BY <2>4, <3>4 DEF AsTable!Next
    <2>5. CASE ~(k \in Lines /\ k \in active)
      <3>1. \A l \in Lines : Seen(t, l)' = Seen(t, l)
        BY <2>2, <2>3, <2>5 DEF Seen
      <3>2. \A l \in Lines : RowSeen(l)' = RowSeen(l)
        BY <3>1, SeenSole, Zenon
      <3>3. Shown' = Shown
        BY <3>2, Zenon DEF Shown
      <3>4. 0 \in Lines
        BY TabbleAssumption DEF Lines
      <3>5. AsTable!End(0)
        BY <2>2, <3>3 DEF AsTable!End, Shown
      <3> QED BY <3>4, <3>5 DEF AsTable!Next
    <2> QED BY <2>4, <2>5
  <1>6. CASE UNCHANGED vars
    <2>1. Shown' = Shown /\ opens' = opens
      BY <1>6 DEF vars, fileVars, callVars, Shown, RowSeen, Writing
    <2> QED BY <2>1
  <1> QED
    BY <1>1, <1>2, <1>3, <1>4, <1>5, <1>6, WriteRefines DEF Next

(***************************************************************************)
(* With one client the table implements module Table, for any number of    *)
(* columns and operations: its rows appear, change and go whole, and the   *)
(* end of the process harms at most the row it interrupts.                 *)
(***************************************************************************)
THEOREM TableImplements == ASSUME OneClient PROVE Spec => TableSpec
  <1>1. Init => TableInv
    BY RoomInit, AccountInit, RowInit DEF TableInv
  <1>2. TableInv /\ [Next]_vars => TableInv'
    BY OneIsFew, RoomStep, AccountStep, RowStep DEF TableInv
  <1>3. Init => AsTable!Init
    BY DEF Init, AsTable!Init, RowSeen
  <1>4. TableInv /\ [Next]_vars => [AsTable!Next]_<<Shown, opens>>
    BY RefinementStep
  <1> QED
    BY <1>1, <1>2, <1>3, <1>4, PTL DEF Spec, TableSpec, AsTable!Spec, Shown

-----------------------------------------------------------------------------
(***************************************************************************)
(* activePlaces, the counter of rows that ends scans early, for any number *)
(* of clients that insert and update and one that deletes.                 *)
(***************************************************************************)
\* One client at a time deletes rows.
OneDeleter == \A t, u \in Deleters : t = u

\* The counter as a signed number: another client's delete may take it below
\* zero between the flag of a new row and its count.
Signed == IF activePlaces > SizeMax \div 2 THEN activePlaces - (SizeMax + 1)
          ELSE activePlaces

Inserting(t) == pc[t] = "write" /\ op[t] = "insert"

\* The threads whose row is in use and not counted yet,
Uncounted == {t \in Threads : Inserting(t) \/ pc[t] = "counted"}

\* those that have taken a line and not counted its row,
Fresh == {t \in Threads : Inserting(t) \/ pc[t] \in {"activate", "counted"}}

\* those whose row is gone and still counted,
Leaving == {t \in Threads : pc[t] \in {"push", "uncount"}}

\* and those that have counted a line that is not theirs yet, or not
\* uncounted one that is on the stack.
Owing == {t \in Threads : pc[t] \in {"claim", "uncount"}}

(***************************************************************************)
(* Who deletes, and what: a line that is about to be cleared is in use.    *)
(***************************************************************************)
OpInv ==
    \A t \in Threads :
        /\ Allocating(t) \/ pc[t] \in {"pop", "load", "activate", "counted"} =>
              op[t] = "insert"
        /\ pc[t] = "probe" => op[t] # "insert" /\ (op[t] = "erase" => t \in Deleters)
        /\ pc[t] \in {"deactivate", "push", "uncount"} => t \in Deleters
        /\ pc[t] = "deactivate" => id[t] \in active

(***************************************************************************)
(* The counter is between the number of rows and twice the lines that were *)
(* ever handed out, but for what the threads under way have still to add   *)
(* and to take.                                                            *)
(***************************************************************************)
CounterInv ==
    /\ Cardinality(active) + Cardinality(Leaving) <=
          Signed + Cardinality(Uncounted)
    /\ Signed + Len(stack) + Cardinality(Fresh) <=
          2 * freeId + Cardinality(Owing)

\* The file is far smaller than size_t can count.
FarFromLimit == 16 * size <= SizeMax

LEMMA OpInit == Init => OpInv
  BY DEF Init, OpInv, Allocating

LEMMA OpStep == OneDeleter /\ RoomInv /\ OpInv /\ [Next]_vars => OpInv'
  <1> SUFFICES ASSUME OneDeleter, RoomInv, OpInv, [Next]_vars PROVE OpInv'
    OBVIOUS
  <1>0. TypeOK
    BY DEF RoomInv, ScanInv, TypeInv
  <1> USE DEF OpInv, Allocating
  <1>1. ASSUME NEW t \in Threads, Call(t) PROVE OpInv'
    <2>1. /\ active' = active
          /\ \A u \in Threads \ {t} : /\ pc'[u] = pc[u] /\ op'[u] = op[u]
                                      /\ id'[u] = id[u]
          /\ \/ pc'[t] = "pop" /\ op'[t] = "insert"
             \/ pc'[t] = "probe" /\ op'[t] = "update"
             \/ pc'[t] = "probe" /\ op'[t] = "erase" /\ t \in Deleters
      BY <1>0, <1>1
      DEF Call, BeginInsert, BeginErase, BeginUpdate, Begin, Goto,
           fileVars, TypeOK
    <2> QED BY <2>1
  <1>2. ASSUME NEW t \in Threads, Deactivate(t) PROVE OpInv'
    <2>1. /\ active' = active \ {id[t]} /\ op' = op /\ id' = id
          /\ pc[t] = "deactivate" /\ pc'[t] = "push" /\ t \in Deleters
          /\ \A u \in Threads \ {t} : pc'[u] = pc[u]
      BY <1>0, <1>2 DEF Deactivate, Goto, callVars, TypeOK
    <2>2. \A u \in Threads : pc[u] = "deactivate" => u = t
      BY <2>1 DEF OneDeleter
    <2> QED BY <2>1, <2>2
  <1>3. ASSUME NEW t \in Threads, Step(t), ~Deactivate(t) PROVE OpInv'
    <2>1. /\ \A l \in active : l \in active'
          /\ op' = op
          /\ \A u \in Threads \ {t} : pc'[u] = pc[u] /\ id'[u] = id[u]
          /\ pc'[t] \notin {"probe"}
          /\ pc'[t] \in {"deactivate", "push", "uncount"} => t \in Deleters
          /\ pc'[t] = "deactivate" => id'[t] \in active
          /\ Allocating(t)' \/ pc'[t] \in {"pop", "load", "activate", "counted"} =>
                op[t] = "insert"
      BY <1>0, <1>3, SMTT(60)
      DEF Step, PopFreeId, StackEmpty, LoadFreeId, CheckRoom, CompareExchange,
          Spin, LockStripes, ExpandFile, StoreExpanding, ReleaseStripes,
          CountNewLine, ClaimLine, Activate, WriteColumn, ProbeActive,
          PushInStack, CountInserted, Uncount, Goto, TypeOK, callVars, fileVars
    <2> QED BY <2>1
  <1>4. CASE Reopen
    BY <1>4 DEF Reopen
  <1>5. CASE UNCHANGED vars
    BY <1>5 DEF vars, fileVars, allocVars, callVars
  <1> QED
    BY <1>1, <1>2, <1>3, <1>4, <1>5 DEF Next

LEMMA CounterSteps ==
  ASSUME NEW a \in 0 .. SizeMax
  PROVE  /\ Inc(a) = IF a = SizeMax THEN 0 ELSE a + 1
         /\ Dec(a) = IF a = 0 THEN SizeMax ELSE a - 1
  <1>1. SizeMax \in Nat \ {0}
    BY TabbleAssumption
  <1>2. CASE a = SizeMax
    BY <1>1, <1>2, Z3 DEF Inc, Dec
  <1>3. CASE a = 0
    BY <1>1, <1>3, Z3 DEF Inc, Dec
  <1>4. CASE a # 0 /\ a # SizeMax
    BY <1>1, <1>4, Z3 DEF Inc, Dec
  <1> QED BY <1>2, <1>3, <1>4

LEMMA SignedSteps ==
  ASSUME activePlaces \in 0 .. SizeMax
  PROVE  /\ Signed \in Int
         /\ Signed < SizeMax \div 2 /\ activePlaces' = Inc(activePlaces) =>
               Signed' = Signed + 1
         /\ Signed > -(SizeMax \div 2) /\ activePlaces' = Dec(activePlaces) =>
               Signed' = Signed - 1
  <1>1. SizeMax \in Nat \ {0}
    BY TabbleAssumption
  <1> QED BY <1>1, CounterSteps DEF Signed

LEMMA CardPlus ==
  ASSUME NEW S \in SUBSET Threads, NEW t \in Threads, t \notin S
  PROVE  Cardinality(S \cup {t}) = Cardinality(S) + 1
  <1>1. IsFiniteSet(S)
    BY TabbleAssumption, FS_Subset
  <1> QED BY <1>1, FS_AddElement

LEMMA CardMinus ==
  ASSUME NEW S \in SUBSET Threads, NEW t \in S
  PROVE  Cardinality(S \ {t}) = Cardinality(S) - 1
  <1>1. IsFiniteSet(S)
    BY TabbleAssumption, FS_Subset
  <1> QED BY <1>1, FS_RemoveElement

LEMMA Below ==
  ASSUME NEW f \in Nat PROVE IsFiniteSet(0 .. f - 1) /\ Cardinality(0 .. f - 1) = f
  BY FS_Interval

LEMMA SmallMod ==
  ASSUME NEW n \in Nat, n <= SizeMax PROVE n % (SizeMax + 1) = n
  BY TabbleAssumption, Z3

\* The numbers the invariant speaks of.
LEMMA Numbers ==
  ASSUME RoomInv
  PROVE  /\ IsFiniteSet(active)
         /\ Cardinality(active) \in Nat /\ Cardinality(active) <= freeId
         /\ Len(stack) \in Nat /\ freeId \in Nat /\ size \in Nat \ {0}
         /\ activePlaces \in 0 .. SizeMax /\ SizeMax \in Nat \ {0}
         /\ Cardinality(Uncounted) \in Nat /\ Cardinality(Fresh) \in Nat
         /\ Cardinality(Leaving) \in Nat /\ Cardinality(Owing) \in Nat
         /\ Cardinality(Threads) \in Nat
         /\ Cardinality(Uncounted) <= Cardinality(Threads)
         /\ Cardinality(Owing) <= Cardinality(Threads)
  <1>1. TypeOK /\ ScanReachesEveryRow
    BY DEF RoomInv, ScanInv, TypeInv
  <1>2. freeId \in Nat /\ active \subseteq 0 .. freeId - 1
    BY <1>1 DEF TypeOK, ScanReachesEveryRow
  <1>3. /\ IsFiniteSet(0 .. freeId - 1) /\ Cardinality(0 .. freeId - 1) = freeId
    BY <1>2, Below
  <1>4. /\ IsFiniteSet(active) /\ Cardinality(active) <= freeId
        /\ Cardinality(active) \in Nat
    BY <1>2, <1>3, FS_Subset, FS_CardinalityType
  <1>5. /\ Len(stack) \in Nat /\ size \in Nat \ {0}
        /\ activePlaces \in 0 .. SizeMax /\ SizeMax \in Nat \ {0}
    BY <1>1, TabbleAssumption DEF TypeOK
  <1>6. /\ Uncounted \subseteq Threads /\ Fresh \subseteq Threads
        /\ Leaving \subseteq Threads /\ Owing \subseteq Threads
    BY DEF Uncounted, Fresh, Leaving, Owing
  <1>7. \A S \in SUBSET Threads : /\ Cardinality(S) \in Nat
                                  /\ Cardinality(S) <= Cardinality(Threads)
    BY CardSubset
  <1> QED BY <1>2, <1>4, <1>5, <1>6, <1>7

\* The counter is so far from its limits that a step cannot wrap it twice.
LEMMA CounterRange ==
  ASSUME RoomInv, FewThreads, FarFromLimit, CounterInv
  PROVE  /\ Signed \in Int
         /\ Signed < SizeMax \div 2 /\ Signed > -(SizeMax \div 2)
         /\ 2 * freeId <= SizeMax \div 2
  <1>1. /\ Cardinality(Threads) \in Nat \ {0} /\ Cardinality(Threads) <= size
        /\ freeId <= size + Cardinality(Threads) - 1
    BY DoublingSuffices
  <1>2. Signed \in Int
    BY Numbers, SignedSteps
  <1>3. Signed <= 2 * freeId + Cardinality(Owing)
    <2>1. PICK o \in Nat, n \in Nat, m \in Nat, x \in Int, f \in Nat :
            /\ o = Cardinality(Owing) /\ n = Len(stack)
            /\ m = Cardinality(Fresh) /\ x = Signed /\ f = freeId
      BY <1>2, Numbers
    <2>2. x + n + m <= 2 * f + o
      BY <2>1 DEF CounterInv
    <2>3. x <= 2 * f + o
      BY <2>2
    <2> QED BY <2>1, <2>3
  <1>4. -Cardinality(Uncounted) <= Signed
    <2>1. PICK u \in Nat, n \in Nat, m \in Nat, x \in Int :
            /\ u = Cardinality(Uncounted) /\ n = Cardinality(active)
            /\ m = Cardinality(Leaving) /\ x = Signed
      BY <1>2, Numbers
    <2>2. n + m <= x + u
      BY <2>1 DEF CounterInv
    <2>3. -u <= x
      BY <2>2
    <2> QED BY <2>1, <2>3
  <1>5. 8 * size <= SizeMax \div 2
    BY Numbers DEF FarFromLimit
  <1>6. PICK m \in Int : m = SizeMax \div 2
    BY Numbers
  <1>7. /\ freeId \in Nat /\ size \in Nat \ {0}
        /\ Cardinality(Owing) \in Nat /\ Cardinality(Uncounted) \in Nat
        /\ Cardinality(Owing) <= Cardinality(Threads)
        /\ Cardinality(Uncounted) <= Cardinality(Threads)
    BY Numbers
  <1> HIDE DEF Owing, Uncounted, Signed, Threads
  <1>8. Signed < m /\ 2 * freeId <= m
    BY <1>1, <1>2, <1>3, <1>5, <1>6, <1>7
  <1>9. Signed > -m
    BY <1>1, <1>2, <1>4, <1>5, <1>6, <1>7
  <1> QED BY <1>2, <1>6, <1>8, <1>9

LEMMA CounterStep ==
  FewThreads /\ RoomInv /\ OpInv /\ CounterInv /\ FarFromLimit /\ [Next]_vars
      => CounterInv'
  <1> SUFFICES ASSUME FewThreads, RoomInv, OpInv, CounterInv, FarFromLimit,
                      [Next]_vars
               PROVE  CounterInv'
    OBVIOUS
  <1>0. TypeOK
    BY DEF RoomInv, ScanInv, TypeInv
  <1>a. /\ Uncounted \subseteq Threads /\ Fresh \subseteq Threads
        /\ Leaving \subseteq Threads /\ Owing \subseteq Threads
    BY DEF Uncounted, Fresh, Leaving, Owing
  <1>b. Signed \in Int /\ Signed < SizeMax \div 2 /\ Signed > -(SizeMax \div 2)
    BY CounterRange
  <1>c. Signed \in Int
    BY <1>b
  <1>d. /\ Cardinality(active) \in Nat /\ Len(stack) \in Nat /\ freeId \in Nat
        /\ Cardinality(Uncounted) \in Nat /\ Cardinality(Fresh) \in Nat
        /\ Cardinality(Leaving) \in Nat /\ Cardinality(Owing) \in Nat
    BY Numbers
  <1>e. /\ Cardinality(active) + Cardinality(Leaving) <=
              Signed + Cardinality(Uncounted)
        /\ Signed + Len(stack) + Cardinality(Fresh) <=
              2 * freeId + Cardinality(Owing)
    BY DEF CounterInv
  <1>1. ASSUME NEW t \in Threads, PopFreeId(t) PROVE CounterInv'
    <2>1. /\ Uncounted' = Uncounted /\ Leaving' = Leaving /\ Owing' = Owing
          /\ Fresh' = Fresh \cup {t} /\ t \notin Fresh
      BY <1>0, <1>1 DEF PopFreeId, Goto, callVars, TypeOK, Uncounted, Fresh,
           Leaving, Owing, Inserting
    <2>2. /\ active' = active /\ freeId' = freeId /\ Signed' = Signed
          /\ Len(stack') = Len(stack) - 1
      BY <1>0, <1>1, PopFacts DEF PopFreeId, fileVars, Signed, TypeOK
    <2>3. Cardinality(Fresh') = Cardinality(Fresh) + 1
      BY <1>a, <2>1, CardPlus
    <2> HIDE DEF Fresh, Uncounted, Leaving, Owing, Signed
    <2> QED BY <1>c, <1>d, <1>e, <2>1, <2>2, <2>3, SMTT(30) DEF CounterInv
  <1>2. ASSUME NEW t \in Threads, CountNewLine(t) PROVE CounterInv'
    <2>1. /\ Uncounted' = Uncounted /\ Leaving' = Leaving /\ Fresh' = Fresh
          /\ Owing' = Owing \cup {t} /\ t \notin Owing
      BY <1>0, <1>2 DEF CountNewLine, Goto, callVars, TypeOK, Uncounted, Fresh,
           Leaving, Owing, Inserting
    <2>2. active' = active /\ freeId' = freeId /\ stack' = stack
      BY <1>2 DEF CountNewLine, fileVars
    <2>3. Signed' = Signed + 1
      BY <1>2, <1>b, Numbers, SignedSteps DEF CountNewLine
    <2>4. Cardinality(Owing') = Cardinality(Owing) + 1
      BY <1>a, <2>1, CardPlus
    <2> HIDE DEF Fresh, Uncounted, Leaving, Owing, Signed
    <2> QED BY <1>c, <1>d, <1>e, <2>1, <2>2, <2>3, <2>4, SMTT(30) DEF CounterInv
  <1>3. ASSUME NEW t \in Threads, ClaimLine(t) PROVE CounterInv'
    <2>1. /\ Uncounted' = Uncounted /\ Leaving' = Leaving
          /\ Fresh' = Fresh \cup {t} /\ t \notin Fresh
          /\ Owing' = Owing \ {t} /\ t \in Owing
      BY <1>0, <1>3 DEF ClaimLine, Goto, callVars, TypeOK, Uncounted, Fresh,
           Leaving, Owing, Inserting
    <2>2. /\ active' = active /\ freeId' = freeId + 1 /\ stack' = stack
          /\ Signed' = Signed
      BY <1>3 DEF ClaimLine, fileVars, Signed
    <2>3. /\ Cardinality(Owing') = Cardinality(Owing) - 1
          /\ Cardinality(Fresh') = Cardinality(Fresh) + 1
      BY <1>a, <2>1, CardPlus, CardMinus
    <2> HIDE DEF Fresh, Uncounted, Leaving, Owing, Signed
    <2> QED BY <1>c, <1>d, <1>e, <2>1, <2>2, <2>3, SMTT(30) DEF CounterInv
  <1>4. ASSUME NEW t \in Threads, Activate(t) PROVE CounterInv'
    <2>1. /\ Fresh' = Fresh /\ Leaving' = Leaving /\ Owing' = Owing
          /\ Uncounted' = Uncounted \cup {t} /\ t \notin Uncounted
      BY <1>0, <1>4 DEF Activate, Goto, callVars, TypeOK, Uncounted, Fresh,
           Leaving, Owing, Inserting, OpInv
    <2>2. /\ active' = active \cup {id[t]} /\ freeId' = freeId
          /\ stack' = stack /\ Signed' = Signed
      BY <1>4 DEF Activate, allocVars, Signed
    <2>3. Cardinality(active') \in {Cardinality(active), Cardinality(active) + 1}
      BY <2>2, Numbers, FS_AddElement
    <2>4. Cardinality(Uncounted') = Cardinality(Uncounted) + 1
      BY <1>a, <2>1, CardPlus
    <2> HIDE DEF Fresh, Uncounted, Leaving, Owing, Signed
    <2> QED BY <1>c, <1>d, <1>e, <2>1, <2>2, <2>3, <2>4, SMTT(30) DEF CounterInv
  <1>5. ASSUME NEW t \in Threads, CountInserted(t) PROVE CounterInv'
    <2>1. /\ Leaving' = Leaving /\ Owing' = Owing
          /\ Uncounted' = Uncounted \ {t} /\ t \in Uncounted
          /\ Fresh' = Fresh \ {t} /\ t \in Fresh
      BY <1>0, <1>5
      DEF CountInserted, Goto, callVars, TypeOK, Uncounted, Fresh,
           Leaving, Owing, Inserting
    <2>2. active' = active /\ freeId' = freeId /\ stack' = stack
      BY <1>5 DEF CountInserted, fileVars
    <2>3. Signed' = Signed + 1
      BY <1>5, <1>b, Numbers, SignedSteps DEF CountInserted
    <2>4. /\ Cardinality(Uncounted') = Cardinality(Uncounted) - 1
          /\ Cardinality(Fresh') = Cardinality(Fresh) - 1
      BY <1>a, <2>1, CardMinus
    <2> HIDE DEF Fresh, Uncounted, Leaving, Owing, Signed
    <2>5. (Cardinality(active) + Cardinality(Leaving) <=
              Signed + Cardinality(Uncounted))'
      BY <1>c, <1>d, <1>e, <2>1, <2>2, <2>3, <2>4, SMTT(30)
    <2>6. (Signed + Len(stack) + Cardinality(Fresh) <=
              2 * freeId + Cardinality(Owing))'
      BY <1>c, <1>d, <1>e, <2>1, <2>2, <2>3, <2>4, SMTT(30)
    <2> QED BY <2>5, <2>6 DEF CounterInv
  <1>6. ASSUME NEW t \in Threads, Deactivate(t) PROVE CounterInv'
    <2>1. /\ Fresh' = Fresh /\ Uncounted' = Uncounted /\ Owing' = Owing
          /\ Leaving' = Leaving \cup {t} /\ t \notin Leaving
      BY <1>0, <1>6 DEF Deactivate, Goto, callVars, TypeOK, Uncounted, Fresh,
           Leaving, Owing, Inserting
    <2>2. /\ active' = active \ {id[t]} /\ id[t] \in active /\ freeId' = freeId
          /\ stack' = stack /\ Signed' = Signed
      BY <1>6 DEF Deactivate, allocVars, Signed, OpInv
    <2>3. Cardinality(active') = Cardinality(active) - 1
      BY <2>2, Numbers, FS_RemoveElement
    <2>4. Cardinality(Leaving') = Cardinality(Leaving) + 1
      BY <1>a, <2>1, CardPlus
    <2> HIDE DEF Fresh, Uncounted, Leaving, Owing, Signed
    <2> QED BY <1>c, <1>d, <1>e, <2>1, <2>2, <2>3, <2>4, SMTT(30) DEF CounterInv
  <1>7. ASSUME NEW t \in Threads, PushInStack(t) PROVE CounterInv'
    <2>1. /\ Fresh' = Fresh /\ Uncounted' = Uncounted /\ Leaving' = Leaving
          /\ Owing' = Owing \cup {t} /\ t \notin Owing
      BY <1>0, <1>7 DEF PushInStack, Goto, callVars, TypeOK, Uncounted, Fresh,
           Leaving, Owing, Inserting
    <2>2. /\ active' = active /\ freeId' = freeId /\ Signed' = Signed
          /\ Len(stack') = Len(stack) + 1
      BY <1>0, <1>7 DEF PushInStack, fileVars, Signed, TypeOK
    <2>3. Cardinality(Owing') = Cardinality(Owing) + 1
      BY <1>a, <2>1, CardPlus
    <2> HIDE DEF Fresh, Uncounted, Leaving, Owing, Signed
    <2> QED BY <1>c, <1>d, <1>e, <2>1, <2>2, <2>3, SMTT(30) DEF CounterInv
  <1>8. ASSUME NEW t \in Threads, Uncount(t) PROVE CounterInv'
    <2>1. /\ Fresh' = Fresh /\ Uncounted' = Uncounted
          /\ Leaving' = Leaving \ {t} /\ t \in Leaving
          /\ Owing' = Owing \ {t} /\ t \in Owing
      BY <1>0, <1>8 DEF Uncount, Goto, callVars, TypeOK, Uncounted, Fresh,
           Leaving, Owing, Inserting
    <2>2. active' = active /\ freeId' = freeId /\ stack' = stack
      BY <1>8 DEF Uncount, fileVars
    <2>3. Signed' = Signed - 1
      BY <1>8, <1>b, Numbers, SignedSteps DEF Uncount
    <2>4. /\ Cardinality(Leaving') = Cardinality(Leaving) - 1
          /\ Cardinality(Owing') = Cardinality(Owing) - 1
      BY <1>a, <2>1, CardMinus
    <2> HIDE DEF Fresh, Uncounted, Leaving, Owing, Signed
    <2>5. (Cardinality(active) + Cardinality(Leaving) <=
              Signed + Cardinality(Uncounted))'
      BY <1>c, <1>d, <1>e, <2>1, <2>2, <2>3, <2>4, SMTT(30)
    <2>6. (Signed + Len(stack) + Cardinality(Fresh) <=
              2 * freeId + Cardinality(Owing))'
      BY <1>c, <1>d, <1>e, <2>1, <2>2, <2>3, <2>4, SMTT(30)
    <2> QED BY <2>5, <2>6 DEF CounterInv
  <1>9. ASSUME NEW t \in Threads, Call(t) \/ Step(t), ~PopFreeId(t),
               ~CountNewLine(t), ~ClaimLine(t), ~Activate(t),
               ~CountInserted(t), ~Deactivate(t), ~PushInStack(t), ~Uncount(t)
        PROVE CounterInv'
    <2>1. /\ active' = active /\ stack' = stack /\ freeId' = freeId
          /\ activePlaces' = activePlaces
          /\ \A u \in Threads \ {t} : pc'[u] = pc[u] /\ op'[u] = op[u]
          /\ Inserting(t)' \/ pc'[t] = "counted" <=>
                Inserting(t) \/ pc[t] = "counted"
          /\ pc[t] \notin {"activate", "push", "uncount", "claim"}
          /\ pc'[t] \notin {"activate", "push", "uncount", "claim"}
      BY <1>0, <1>9, SMTT(60)
      DEF Call, BeginInsert, BeginErase, BeginUpdate, Begin, Step, StackEmpty,
          LoadFreeId, CheckRoom, CompareExchange, Spin, LockStripes, ExpandFile,
          StoreExpanding, ReleaseStripes, WriteColumn, ProbeActive, Goto,
          Inserting, OpInv, TypeOK, fileVars, allocVars, callVars
    <2>2. /\ Fresh' = Fresh /\ Uncounted' = Uncounted
          /\ Leaving' = Leaving /\ Owing' = Owing
      BY <2>1 DEF Fresh, Uncounted, Leaving, Owing, Inserting
    <2>3. Signed' = Signed
      BY <2>1 DEF Signed
    <2> QED BY <2>1, <2>2, <2>3 DEF CounterInv
  <1>10. CASE Reopen
    <2>1. /\ Fresh' = {} /\ Uncounted' = {} /\ Leaving' = {} /\ Owing' = {}
      BY <1>10 DEF Reopen, Fresh, Uncounted, Leaving, Owing, Inserting
    <2>2. /\ Len(stack') = Cardinality({l \in 0 .. freeId' - 1 : l \notin active})
          /\ freeId' \in 0 .. size
          /\ \A l \in active : l < freeId'
          /\ activePlaces' = Cardinality(active) % (SizeMax + 1)
          /\ active' = active
      BY <1>0, <1>10, HolesStacked DEF Reopen
    <2>3. PICK f \in Nat : f = freeId' /\ f <= size
      BY <2>2, Numbers
    <2> DEFINE below == 0 .. f - 1
               holes == {l \in below : l \notin active}
    <2>4. active \subseteq below /\ holes = below \ active
      <3>1. active \subseteq Nat /\ \A l \in active : l < f
        BY <1>0, <2>2, <2>3 DEF TypeOK
      <3>2. active \subseteq below
        BY <3>1
      <3>3. holes = below \ active
        BY Zenon
      <3> QED BY <3>2, <3>3
    <2>5. IsFiniteSet(below) /\ Cardinality(below) = f
      BY Below
    <2>6. Cardinality(holes) = f - Cardinality(active)
      <3>1. below \cap active = active
        BY <2>4
      <3>2. Cardinality(below \ active) =
               Cardinality(below) - Cardinality(below \cap active)
        BY <2>5, FS_Difference
      <3> HIDE DEF below
      <3> QED BY <2>4, <2>5, <3>1, <3>2
    <2>7. Cardinality(active) <= f
      <3> HIDE DEF below
      <3>1. Cardinality(active) <= Cardinality(below)
        BY <2>4, <2>5, FS_Subset, Zenon
      <3> QED BY <2>5, <3>1
    <2>8. Len(stack') = f - Cardinality(active)
      BY <2>2, <2>3, <2>6
    <2> HIDE DEF holes, below
    <2>9. Cardinality(active) \in 0 .. SizeMax \div 2
      <3>1. PICK a \in Nat, x \in Nat, n \in Nat :
               a = Cardinality(active) /\ x = SizeMax /\ n = size
        BY Numbers
      <3>2. 16 * n <= x /\ f <= n /\ a <= f
        BY <2>3, <2>7, <3>1, Numbers DEF FarFromLimit
      <3> QED BY <3>1, <3>2
    <2>10. Cardinality(active) % (SizeMax + 1) = Cardinality(active)
      BY <2>9, Numbers, SmallMod, SMTT(30)
    <2>11. Signed' = Cardinality(active)
      BY <2>2, <2>9, <2>10, Numbers, SMTT(30) DEF Signed
    <2> HIDE DEF Fresh, Uncounted, Leaving, Owing, Signed
    <2>12. /\ Cardinality(Fresh') = 0 /\ Cardinality(Uncounted') = 0
           /\ Cardinality(Leaving') = 0 /\ Cardinality(Owing') = 0
      BY <2>1, FS_EmptySet
    <2> QED
      BY <1>d, <2>2, <2>3, <2>7, <2>8, <2>11, <2>12, SMTT(30) DEF CounterInv
  <1>11. CASE UNCHANGED vars
    BY <1>11
    DEF vars, fileVars, allocVars, callVars, CounterInv, Signed, Fresh,
       Uncounted, Leaving, Owing, Inserting
  <1> QED
    BY <1>1, <1>2, <1>3, <1>4, <1>5, <1>6, <1>7, <1>8, <1>9, <1>10, <1>11
    DEF Next

LEMMA CounterInit == Init => CounterInv
  <1> SUFFICES ASSUME Init PROVE CounterInv
    OBVIOUS
  <1>1. /\ Fresh = {} /\ Uncounted = {} /\ Leaving = {} /\ Owing = {}
        /\ active = {} /\ Len(stack) = 0 /\ freeId = 0
    BY DEF Init, Fresh, Uncounted, Leaving, Owing, Inserting
  <1>2. Signed = 0
    BY TabbleAssumption DEF Init, Signed
  <1>3. /\ Cardinality(Fresh) = 0 /\ Cardinality(Uncounted) = 0
        /\ Cardinality(Leaving) = 0 /\ Cardinality(Owing) = 0
        /\ Cardinality(active) = 0
    BY <1>1, FS_EmptySet
  <1> HIDE DEF Fresh, Uncounted, Leaving, Owing, Signed
  <1> QED BY <1>1, <1>2, <1>3 DEF CounterInv

\* A file never shrinks.
LEMMA FarStays == RoomInv /\ [Next]_vars /\ FarFromLimit' => FarFromLimit
  <1> SUFFICES ASSUME RoomInv, [Next]_vars PROVE size' \in {size, 2 * size}
    BY Numbers DEF FarFromLimit
  <1>0. TypeOK
    BY DEF RoomInv, ScanInv, TypeInv
  <1>1. CASE Reopen
    BY <1>0, <1>1, HolesType DEF Reopen
  <1>2. ASSUME NEW t \in Threads, Call(t) \/ Step(t)
        PROVE  size' \in {size, 2 * size}
    BY <1>2, ZenonT(40)
    DEF Call, BeginInsert, BeginErase, BeginUpdate, Begin, Step, PopFreeId,
        StackEmpty, LoadFreeId, CheckRoom, CompareExchange, Spin, LockStripes,
        ExpandFile, StoreExpanding, ReleaseStripes, CountNewLine, ClaimLine,
        Activate, WriteColumn, CountInserted, ProbeActive, Deactivate,
        PushInStack, Uncount, fileVars
  <1>3. CASE UNCHANGED vars
    BY <1>3 DEF vars, fileVars
  <1> QED BY <1>1, <1>2, <1>3 DEF Next

LEMMA CounterCovers ==
  ASSUME FewThreads, RoomInv, CounterInv, FarFromLimit PROVE CounterCoversRows
  <1> SUFFICES ASSUME Idle
               PROVE  activePlaces \in Cardinality(active) .. (SizeMax \div 2)
    BY DEF CounterCoversRows
  <1>1. /\ Fresh = {} /\ Uncounted = {} /\ Leaving = {} /\ Owing = {}
    BY DEF Idle, Fresh, Uncounted, Leaving, Owing, Inserting
  <1>2. /\ Cardinality(Fresh) = 0 /\ Cardinality(Uncounted) = 0
        /\ Cardinality(Leaving) = 0 /\ Cardinality(Owing) = 0
    BY <1>1, FS_EmptySet
  <1>3. Signed \in Int /\ Signed < SizeMax \div 2
    BY CounterRange
  <1>4. Cardinality(active) <= Signed /\ Cardinality(active) \in Nat
    <2> HIDE DEF Fresh, Uncounted, Leaving, Owing, Signed
    <2> QED BY <1>2, <1>3, Numbers DEF CounterInv
  <1>5. Signed = activePlaces
    BY <1>3, <1>4, Numbers DEF Signed
  <1> QED
    BY <1>3, <1>4, <1>5, Numbers

(***************************************************************************)
(* While the file is far smaller than size_t can count and at most one     *)
(* client deletes, the counter that ends scans early is never less than    *)
(* the number of rows when the table is quiet, whatever the inserts and    *)
(* updates of the other clients and the crashes in between, although it    *)
(* wraps below zero on the way.                                            *)
(***************************************************************************)
THEOREM CounterCoversAllRows ==
  ASSUME FewThreads, OneDeleter
  PROVE  Spec => [](FarFromLimit => CounterCoversRows)
  <1> DEFINE Inv == RoomInv /\ OpInv /\ (FarFromLimit => CounterInv)
  <1>1. Init => Inv
    BY RoomInit, OpInit, CounterInit
  <1>2. Inv /\ [Next]_vars => Inv'
    BY RoomStep, OpStep, CounterStep, FarStays
  <1>3. Inv => (FarFromLimit => CounterCoversRows)
    BY CounterCovers
  <1> QED
    BY <1>1, <1>2, <1>3, PTL DEF Spec
=============================================================================
