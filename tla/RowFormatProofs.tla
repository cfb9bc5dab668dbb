-------------------------- MODULE RowFormatProofs --------------------------
(***************************************************************************)
(* Proofs about the layout of a line, for any columns.                     *)
(*                                                                         *)
(* The offsets are a recursive function and the length of the line is a    *)
(* sum, so what they are is proved by induction, each time by looking at   *)
(* the least counterexample.                                               *)
(***************************************************************************)
EXTENDS RowFormat, FiniteSetTheorems, WellFoundedInduction, TLAPS

-----------------------------------------------------------------------------
(***************************************************************************)
(* Induction: a set of natural numbers has a least element.                *)
(***************************************************************************)
LEMMA Least ==
  ASSUME NEW T, T \subseteq Nat, T # {}
  PROVE  \E x \in T : \A y \in T : x <= y
  <1> DEFINE R == OpToRel(<, Nat)
  <1>1. IsWellFoundedOn(R, Nat)
    BY NatLessThanWellFounded
  <1>2. R = {p \in Nat \X Nat : p[1] < p[2]}
    BY Zenon DEF OpToRel
  <1> HIDE DEF R
  <1>3. PICK x \in T : \A y \in T : <<y, x>> \notin R
    BY <1>1, WFMin
  <1>4. ASSUME NEW y \in T PROVE x <= y
    <2>1. x \in Nat /\ y \in Nat
      OBVIOUS
    <2>2. <<y, x>> \notin {p \in Nat \X Nat : p[1] < p[2]}
      BY <1>2, <1>3
    <2> QED BY <2>1, <2>2
  <1> QED BY <1>4

-----------------------------------------------------------------------------
(***************************************************************************)
(* Sums over finite sets, which MapThenSumSet takes element by element.    *)
(***************************************************************************)
\* W gives the sum of w over each subset of D.
IsSum(W, D, w) ==
    /\ W \in [SUBSET D -> Nat]
    /\ W[{}] = 0
    /\ \A s \in SUBSET D : \A x \in s : W[s] = w[x] + W[s \ {x}]

\* The recursion of MapThenSumSet.
SumStep(g, D, w) ==
    [s \in SUBSET D |-> IF s = {} THEN 0
                        ELSE w[CHOOSE x \in s : TRUE]
                                + g[s \ {CHOOSE x \in s : TRUE}]]
SumBy(g, D, w) == g = SumStep(g, D, w)

\* A sum over a set without an element gives the sum with it.
LEMMA SumExtends ==
  ASSUME NEW D, NEW w \in [D -> Nat], NEW E \in SUBSET D, NEW e \in E,
         NEW V, IsSum(V, E \ {e}, w)
  PROVE  \E W : IsSum(W, E, w)
  <1> DEFINE W == [s \in SUBSET E |-> IF e \in s THEN w[e] + V[s \ {e}] ELSE V[s]]
  <1>1. \A s \in SUBSET E : s \ {e} \in SUBSET (E \ {e})
    OBVIOUS
  <1>2. /\ V \in [SUBSET (E \ {e}) -> Nat] /\ V[{}] = 0
        /\ \A s \in SUBSET (E \ {e}) : \A x \in s : V[s] = w[x] + V[s \ {x}]
    BY DEF IsSum
  <1>3. \A x \in E : w[x] \in Nat
    OBVIOUS
  <1>4. W \in [SUBSET E -> Nat] /\ W[{}] = 0
    <2>1. ASSUME NEW s \in SUBSET E
          PROVE  (IF e \in s THEN w[e] + V[s \ {e}] ELSE V[s]) \in Nat
      <3>1. CASE e \in s
        <4>1. V[s \ {e}] \in Nat
          BY <1>1, <1>2
        <4> QED BY <1>3, <3>1, <4>1
      <3>2. CASE e \notin s
        <4>1. s \in SUBSET (E \ {e})
          BY <3>2
        <4> QED BY <1>2, <3>2, <4>1
      <3> QED BY <3>1, <3>2
    <2>2. W \in [SUBSET E -> Nat]
      BY <2>1
    <2>3. {} \in SUBSET E /\ e \notin {}
      OBVIOUS
    <2> QED BY <1>2, <2>2, <2>3
  <1>5. ASSUME NEW s \in SUBSET E, NEW x \in s PROVE W[s] = w[x] + W[s \ {x}]
    <2>1. s \ {x} \in SUBSET E
      OBVIOUS
    <2>2. CASE x = e
      <3>1. W[s] = w[e] + V[s \ {e}]
        BY <2>2
      <3>2. W[s \ {x}] = V[s \ {e}]
        BY <2>1, <2>2
      <3> QED BY <2>2, <3>1, <3>2
    <2>3. CASE x # e /\ e \in s
      <3>1. W[s] = w[e] + V[s \ {e}]
        BY <2>3
      <3>2. W[s \ {x}] = w[e] + V[(s \ {x}) \ {e}]
        BY <2>1, <2>3
      <3>3. (s \ {x}) \ {e} = (s \ {e}) \ {x}
        OBVIOUS
      <3>4. V[s \ {e}] = w[x] + V[(s \ {e}) \ {x}]
        BY <1>1, <1>2, <2>3
      <3>5. w[e] \in Nat /\ w[x] \in Nat /\ V[(s \ {e}) \ {x}] \in Nat
        <4>1. (s \ {e}) \ {x} \in SUBSET (E \ {e})
          OBVIOUS
        <4> QED BY <1>2, <1>3, <4>1
      <3>6. PICK v \in Nat : v = V[(s \ {e}) \ {x}]
        BY <3>5
      <3> HIDE DEF W
      <3>7. W[s] = w[e] + (w[x] + v) /\ W[s \ {x}] = w[e] + v
        BY <3>1, <3>2, <3>3, <3>4, <3>6, Zenon
      <3> QED BY <3>5, <3>7
    <2>4. CASE e \notin s
      <3>1. s \in SUBSET (E \ {e})
        BY <2>4
      <3>2. W[s] = V[s]
        BY <2>4
      <3>3. W[s \ {x}] = V[s \ {x}]
        <4>1. e \notin s \ {x}
          BY <2>4
        <4> QED BY <2>1, <4>1
      <3> HIDE DEF W
      <3> QED BY <1>2, <3>1, <3>2, <3>3
    <2> QED BY <2>2, <2>3, <2>4
  <1> HIDE DEF W
  <1>6. IsSum(W, E, w)
    BY <1>4, <1>5 DEF IsSum
  <1> QED BY <1>6

\* A sum satisfies the recursion of MapThenSumSet.
LEMMA SumFixed ==
  ASSUME NEW D, NEW w, NEW W, IsSum(W, D, w)
  PROVE  W = SumStep(W, D, w)
  <1>1. ASSUME NEW s \in SUBSET D, s # {}
        PROVE  W[s] = w[CHOOSE x \in s : TRUE] + W[s \ {CHOOSE x \in s : TRUE}]
    <2>1. PICK y \in s : y = CHOOSE x \in s : TRUE
      BY <1>1
    <2>2. W[s] = w[y] + W[s \ {y}]
      BY DEF IsSum
    <2> QED BY <2>1, <2>2, Zenon
  <1>2. W[{}] = 0 /\ W = [s \in SUBSET D |-> W[s]]
    BY DEF IsSum
  <1> QED BY <1>1, <1>2 DEF SumStep

\* Natural numbers have a sum over any finite set.
LEMMA SumExists ==
  ASSUME NEW D, IsFiniteSet(D), NEW w \in [D -> Nat]
  PROVE  \E W : IsSum(W, D, w)
  <1> DEFINE Bad == {E \in SUBSET D : ~\E W : IsSum(W, E, w)}
             T   == {Cardinality(E) : E \in Bad}
  <1>1. SUFFICES ASSUME Bad # {} PROVE FALSE
    OBVIOUS
  <1>2. \A E \in SUBSET D : IsFiniteSet(E) /\ Cardinality(E) \in Nat
    BY FS_Subset, FS_CardinalityType
  <1>3. T \subseteq Nat /\ T # {}
    BY <1>1, <1>2
  <1> HIDE DEF T
  <1>4. PICK n \in T : \A m \in T : n <= m
    BY <1>3, Least
  <1>5. PICK E \in Bad : n = Cardinality(E)
    BY DEF T
  <1>6. E # {}
    <2>1. SUFFICES ASSUME E = {} PROVE FALSE
      OBVIOUS
    <2> DEFINE W == [s \in SUBSET {} |-> 0]
    <2>2. IsSum(W, {}, w)
      BY DEF IsSum
    <2> QED BY <2>1, <2>2
  <1>7. PICK e \in E : TRUE
    BY <1>6
  <1>8. /\ E \ {e} \in SUBSET D /\ Cardinality(E \ {e}) = Cardinality(E) - 1
        /\ Cardinality(E) \in Nat
    BY <1>2, <1>7, FS_RemoveElement
  <1>9. E \ {e} \notin Bad
    BY <1>4, <1>5, <1>8 DEF T
  <1>10. PICK V : IsSum(V, E \ {e}, w)
    BY <1>8, <1>9
  <1> QED BY <1>10, SumExtends

\* What MapThenSumSet computes is the sum.
LEMMA SumUnique ==
  ASSUME NEW D, IsFiniteSet(D), NEW w \in [D -> Nat], NEW W, IsSum(W, D, w),
         NEW g, SumBy(g, D, w)
  PROVE  g[D] = W[D]
  <1> DEFINE Bad == {E \in SUBSET D : g[E] # W[E]}
             T   == {Cardinality(E) : E \in Bad}
  <1>1. SUFFICES ASSUME Bad # {} PROVE FALSE
    OBVIOUS
  <1>2. \A E \in SUBSET D : IsFiniteSet(E) /\ Cardinality(E) \in Nat
    BY FS_Subset, FS_CardinalityType
  <1>3. T \subseteq Nat /\ T # {}
    BY <1>1, <1>2
  <1> HIDE DEF T
  <1>4. PICK n \in T : \A m \in T : n <= m
    BY <1>3, Least
  <1>5. PICK E \in Bad : n = Cardinality(E)
    BY DEF T
  <1>6. E # {}
    BY DEF IsSum, SumStep, SumBy
  <1>7. PICK e \in E : e = CHOOSE x \in E : TRUE
    BY <1>6
  <1>8. /\ E \ {e} \in SUBSET D /\ Cardinality(E \ {e}) = Cardinality(E) - 1
        /\ Cardinality(E) \in Nat
    BY <1>2, <1>7, FS_RemoveElement
  <1>9. g[E \ {e}] = W[E \ {e}]
    <2>1. SUFFICES ASSUME E \ {e} \in Bad PROVE FALSE
      BY <1>8, Zenon
    <2> HIDE DEF Bad
    <2>2. Cardinality(E \ {e}) \in T
      BY <2>1, Zenon DEF T
    <2> QED BY <1>4, <1>5, <1>8, <2>2
  <1>10. g[E] = w[e] + g[E \ {e}]
    <2>1. g[E] = IF E = {} THEN 0
                 ELSE w[CHOOSE x \in E : TRUE] + g[E \ {CHOOSE x \in E : TRUE}]
      BY Zenon DEF SumStep, SumBy
    <2> QED BY <1>6, <1>7, <2>1, Zenon
  <1>11. W[E] = w[e] + W[E \ {e}]
    BY <1>7 DEF IsSum
  <1> QED BY <1>9, <1>10, <1>11
-----------------------------------------------------------------------------
(***************************************************************************)
(* The offsets that loadFile computes.                                     *)
(***************************************************************************)
N == Len(Columns)
Size(i) == Columns[i].size

\* There is a column, and the size of every column is a natural number.
LEMMA ColumnsType ==
  /\ N \in Nat \ {0} /\ DOMAIN Columns = 1 .. N
  /\ \A i \in 1 .. N : Size(i) \in Nat
  <1> DEFINE S == [name : STRING, text : BOOLEAN, size : Nat]
  <1>1. Columns \in Seq(S) /\ Columns # <<>>
    BY ColumnsAssumption
  <1>2. \A r \in S : r.size \in Nat
    OBVIOUS
  <1> HIDE DEF S
  <1>3. /\ Len(Columns) \in Nat \ {0} /\ DOMAIN Columns = 1 .. Len(Columns)
        /\ \A i \in 1 .. Len(Columns) : Columns[i] \in S
    BY <1>1
  <1> QED BY <1>2, <1>3 DEF N, Size

\* The recursion that defines Offset has a solution on any prefix of the columns.
LEMMA OffsetsExist ==
  ASSUME NEW n \in 0 .. N
  PROVE  \E f \in [1 .. n -> Nat] :
            \A i \in 1 .. n : f[i] = IF i = 1 THEN 1 ELSE f[i - 1] + Size(i - 1)
  <1> DEFINE P(k) == \E f \in [1 .. k -> Nat] :
                        \A i \in 1 .. k :
                           f[i] = IF i = 1 THEN 1 ELSE f[i - 1] + Size(i - 1)
             T == {k \in 0 .. N : ~P(k)}
  <1>1. SUFFICES ASSUME T # {} PROVE FALSE
    OBVIOUS
  <1>2. T \subseteq Nat
    BY ColumnsType
  <1>3. PICK k \in T : \A m \in T : k <= m
    BY <1>1, <1>2, Least
  <1>4. k \in 0 .. N /\ ~P(k)
    OBVIOUS
  <1>5. k # 0
    <2>1. SUFFICES ASSUME k = 0 PROVE P(0)
      BY <1>4
    <2>2. 1 .. 0 = {}
      OBVIOUS
    <2>3. [i \in {} |-> 0] \in [{} -> Nat]
      OBVIOUS
    <2>4. PICK f \in [1 .. 0 -> Nat] : TRUE
      BY <2>2, <2>3, Zenon
    <2>5. \A i \in 1 .. 0 : FALSE
      BY <2>2
    <2> QED BY <2>4, <2>5
  <1>6. k - 1 \in 0 .. N
    BY <1>4, <1>5, ColumnsType
  <1>7. P(k - 1)
    <2>1. k - 1 \notin T
      <3>1. k \in Int
        BY <1>4, ColumnsType
      <3> HIDE DEF T
      <3> QED BY <1>3, <3>1
    <2> HIDE DEF P
    <2> QED BY <1>6, <2>1
  <1>8. PICK f \in [1 .. k - 1 -> Nat] :
           \A i \in 1 .. k - 1 : f[i] = IF i = 1 THEN 1 ELSE f[i - 1] + Size(i - 1)
    BY <1>7
  <1> DEFINE h == [i \in 1 .. k |-> IF i = k THEN IF k = 1 THEN 1
                                                 ELSE f[k - 1] + Size(k - 1)
                                   ELSE f[i]]
  <1>9. h \in [1 .. k -> Nat]
    <2>1. k # 1 => f[k - 1] + Size(k - 1) \in Nat
      BY <1>4, <1>5, ColumnsType
    <2> QED BY <1>4, <1>5, <2>1, ColumnsType
  <1>10. \A i \in 1 .. k : h[i] = IF i = 1 THEN 1 ELSE h[i - 1] + Size(i - 1)
    BY <1>4, <1>5, <1>8, ColumnsType
  <1>11. P(k)
    BY <1>9, <1>10
  <1> QED BY <1>4, <1>11

\* The offsets satisfy their recursion and are natural numbers.
LEMMA OffsetIs ==
  /\ Offset \in [1 .. N -> Nat]
  /\ Offset[1] = 1
  /\ \A i \in 2 .. N : Offset[i] = Offset[i - 1] + Size(i - 1)
  <1>1. PICK f \in [1 .. N -> Nat] :
           \A i \in 1 .. N : f[i] = IF i = 1 THEN 1 ELSE f[i - 1] + Size(i - 1)
    <2>1. N \in 0 .. N
      BY ColumnsType
    <2> QED BY <2>1, OffsetsExist
  <1> DEFINE Rec(g) == [i \in DOMAIN Columns |->
                           IF i = 1 THEN 1 ELSE g[i - 1] + Columns[i - 1].size]
  <1>2. f = Rec(f)
    BY <1>1, ColumnsType DEF Size
  <1>3. Offset = CHOOSE g : g = Rec(g)
    BY DEF Offset
  <1>4. Offset = Rec(Offset)
    BY <1>2, <1>3
  <1>5. Offset[1] = 1
    <2>1. 1 \in DOMAIN Columns
      BY ColumnsType
    <2> QED BY <1>4, <2>1
  <1>6. \A i \in 2 .. N : Offset[i] = Offset[i - 1] + Size(i - 1)
    <2>1. \A i \in 2 .. N : i \in DOMAIN Columns /\ i # 1
      BY ColumnsType
    <2> QED BY <1>4, <2>1 DEF Size
  <1>7. Offset \in [1 .. N -> Nat]
    <2> DEFINE T == {i \in 1 .. N : Offset[i] # f[i]}
    <2>1. T = {}
      <3>1. SUFFICES ASSUME T # {} PROVE FALSE
        OBVIOUS
      <3>2. T \subseteq Nat
        BY ColumnsType
      <3> HIDE DEF T
      <3>3. PICK k \in T : \A m \in T : k <= m
        BY <3>1, <3>2, Least
      <3>4. k \in 2 .. N /\ k - 1 \in 1 .. N /\ Offset[k] # f[k]
        BY <1>1, <1>5, ColumnsType DEF T
      <3>5. k - 1 \notin T
        BY <3>3, <3>4
      <3>6. Offset[k - 1] = f[k - 1]
        BY <3>4, <3>5 DEF T
      <3>7. f[k] = f[k - 1] + Size(k - 1)
        BY <1>1, <3>4
      <3>8. Offset[k] = Offset[k - 1] + Size(k - 1)
        BY <1>6, <3>4
      <3> QED BY <3>4, <3>6, <3>7, <3>8, Zenon
    <2>2. Offset = [i \in 1 .. N |-> Offset[i]]
      BY <1>4, ColumnsType
    <2>3. \A i \in 1 .. N : Offset[i] \in Nat
      BY <1>1, <2>1
    <2> HIDE DEF T
    <2> QED BY <2>2, <2>3
  <1> QED BY <1>5, <1>6, <1>7

\* The sizes of the first k columns add up to where column k ends.
LEMMA PrefixSum ==
  ASSUME NEW W, IsSum(W, 1 .. N, [i \in 1 .. N |-> Size(i)]), NEW k \in 1 .. N
  PROVE  W[1 .. k] = Offset[k] + Size(k) - 1
  <1> DEFINE w == [i \in 1 .. N |-> Size(i)]
             T == {j \in 1 .. N : W[1 .. j] # Offset[j] + Size(j) - 1}
  <1>1. SUFFICES ASSUME T # {} PROVE FALSE
    OBVIOUS
  <1>2. T \subseteq Nat
    BY ColumnsType
  <1> HIDE DEF T
  <1>3. PICK j \in T : \A m \in T : j <= m
    BY <1>1, <1>2, Least
  <1>4. j \in 1 .. N /\ W[1 .. j] # Offset[j] + Size(j) - 1
    BY DEF T
  <1>5. 1 .. j \in SUBSET (1 .. N) /\ j \in 1 .. j /\ (1 .. j) \ {j} = 1 .. j - 1
    BY <1>4, ColumnsType
  <1>6. W[1 .. j] = w[j] + W[(1 .. j) \ {j}]
    BY <1>5 DEF IsSum
  <1>7. W[1 .. j] = Size(j) + W[1 .. j - 1]
    BY <1>4, <1>5, <1>6
  <1>8. CASE j = 1
    <2>1. W[1 .. 0] = 0
      <3>1. 1 .. 0 = {}
        OBVIOUS
      <3> QED BY <3>1, Zenon DEF IsSum
    <2> QED BY <1>4, <1>7, <1>8, <2>1, OffsetIs, ColumnsType
  <1>9. CASE j # 1
    <2>1. j - 1 \in 1 .. N /\ j \in 2 .. N
      BY <1>4, <1>9, ColumnsType
    <2>2. j - 1 \notin T
      BY <1>3, <2>1
    <2>3. W[1 .. j - 1] = Offset[j - 1] + Size(j - 1) - 1
      BY <2>1, <2>2 DEF T
    <2>4. Offset[j] = Offset[j - 1] + Size(j - 1)
      BY <2>1, OffsetIs
    <2>5. Offset[j - 1] \in Nat /\ Size(j - 1) \in Nat /\ Size(j) \in Nat
      BY <1>4, <2>1, OffsetIs, ColumnsType
    <2>6. PICK o \in Nat, p \in Nat, q \in Nat :
             o = Offset[j - 1] /\ p = Size(j - 1) /\ q = Size(j)
      BY <2>5
    <2>7. Offset[j] = o + p /\ W[1 .. j - 1] = o + p - 1
      BY <2>3, <2>4, <2>6, Zenon
    <2>8. W[1 .. j] = q + (o + p - 1) /\ W[1 .. j] # (o + p) + q - 1
      BY <1>4, <1>7, <2>6, <2>7, Zenon
    <2> QED BY <2>8
  <1> QED BY <1>8, <1>9

\* The line ends where its last column ends.
LEMMA LineLengthIs == LineLength = Offset[N] + Size(N)
  <1> DEFINE Rec(g) == [s \in SUBSET DOMAIN Columns |->
                           IF s = {} THEN 0
                           ELSE Columns[CHOOSE x \in s : TRUE].size
                                   + g[s \ {CHOOSE x \in s : TRUE}]]
  <1>1. LineLength = 1 + (CHOOSE g : g = Rec(g))[DOMAIN Columns]
    BY DEF LineLength, MapThenSumSet, MapThenFoldSet
  <1>2. PICK D : D = DOMAIN Columns
    OBVIOUS
  <1>3. PICK w : w = [i \in 1 .. N |-> Size(i)]
    OBVIOUS
  <1>4. D = 1 .. N /\ IsFiniteSet(D)
    <2>1. 1 \in Int /\ N \in Int
      BY ColumnsType
    <2> QED BY <1>2, <2>1, ColumnsType, FS_Interval
  <1>5. w \in [D -> Nat]
    BY <1>3, <1>4, ColumnsType
  <1>6. PICK W : IsSum(W, D, w)
    BY <1>4, <1>5, SumExists
  <1>7. ASSUME NEW g PROVE Rec(g) = SumStep(g, D, w)
    <2>1. ASSUME NEW s \in SUBSET D, s # {}
          PROVE  Columns[CHOOSE x \in s : TRUE].size = w[CHOOSE x \in s : TRUE]
      <3>1. PICK y \in s : y = CHOOSE x \in s : TRUE
        BY <2>1
      <3>2. Columns[y].size = w[y]
        BY <1>3, <1>4 DEF Size
      <3> QED BY <3>1, <3>2
    <2> QED BY <1>2, <2>1 DEF SumStep
  <1>8. W = SumStep(W, D, w)
    BY <1>6, SumFixed
  <1>9. PICK g : g = Rec(g) /\ LineLength = 1 + g[D]
    <2> HIDE DEF Rec
    <2>1. W = Rec(W)
      BY <1>7, <1>8
    <2>2. (CHOOSE g : g = Rec(g)) = Rec(CHOOSE g : g = Rec(g))
      BY <2>1
    <2> QED BY <1>1, <1>2, <2>2
  <1>10. SumBy(g, D, w)
    <2> HIDE DEF Rec
    <2> QED BY <1>7, <1>9 DEF SumBy
  <1>11. g[D] = W[D]
    BY <1>4, <1>5, <1>6, <1>10, SumUnique
  <1>12. W[1 .. N] = Offset[N] + Size(N) - 1
    <2>1. N \in 1 .. N
      BY ColumnsType
    <2> QED BY <1>3, <1>4, <1>6, <2>1, PrefixSum
  <1>13. Offset[N] \in Nat /\ Size(N) \in Nat
    <2>1. N \in 1 .. N
      BY ColumnsType
    <2> QED BY <2>1, OffsetIs, ColumnsType
  <1>14. LineLength = 1 + (Offset[N] + Size(N) - 1)
    BY <1>4, <1>9, <1>11, <1>12, Zenon
  <1>15. PICK o \in Nat, z \in Nat : o = Offset[N] /\ z = Size(N)
    BY <1>13
  <1> QED BY <1>14, <1>15

\* A column ends before every later one begins.
LEMMA OffsetsAscend ==
  ASSUME NEW i \in 1 .. N, NEW j \in i + 1 .. N
  PROVE  Offset[i] + Size(i) <= Offset[j]
  <1> DEFINE T == {k \in i + 1 .. N : ~(Offset[i] + Size(i) <= Offset[k])}
  <1>1. SUFFICES ASSUME T # {} PROVE FALSE
    OBVIOUS
  <1>2. T \subseteq Nat
    BY ColumnsType
  <1> HIDE DEF T
  <1>3. PICK k \in T : \A m \in T : k <= m
    BY <1>1, <1>2, Least
  <1>4. k \in i + 1 .. N /\ ~(Offset[i] + Size(i) <= Offset[k])
    BY DEF T
  <1>5. k \in 2 .. N /\ k - 1 \in 1 .. N
    BY <1>4, ColumnsType
  <1>6. PICK o \in Nat, a \in Nat, p \in Nat, z \in Nat :
           /\ o = Offset[i] /\ a = Size(i)
           /\ p = Offset[k - 1] /\ z = Size(k - 1)
    BY <1>5, OffsetIs, ColumnsType
  <1>7. Offset[k] = p + z
    BY <1>5, <1>6, OffsetIs
  <1>8. ~(o + a <= p + z)
    BY <1>4, <1>6, <1>7, Zenon
  <1>9. CASE k = i + 1
    <2>1. k - 1 = i
      BY <1>9, ColumnsType
    <2>2. o = p /\ a = z
      BY <1>6, <2>1, Zenon
    <2> QED BY <1>8, <2>2
  <1>10. CASE k # i + 1
    <2>1. k - 1 \in i + 1 .. N
      BY <1>4, <1>10, ColumnsType
    <2>2. k - 1 \notin T
      BY <1>3, <1>5, ColumnsType
    <2>3. Offset[i] + Size(i) <= Offset[k - 1]
      BY <2>1, <2>2 DEF T
    <2>4. o + a <= p
      BY <1>6, <2>3, Zenon
    <2> QED BY <1>8, <2>4
  <1> QED BY <1>9, <1>10

\* A column lies after the flag and within the line.
LEMMA ColumnEnds ==
  ASSUME NEW i \in 1 .. N
  PROVE  /\ Offset[i] \in Nat \ {0}
         /\ Offset[i] + Size(i) <= LineLength
         /\ LineLength \in Nat \ {0}
  <1>1. N \in 1 .. N /\ 1 \in 1 .. N
    BY ColumnsType
  <1>2. PICK o \in Nat, z \in Nat, p \in Nat, y \in Nat, q \in Nat :
           o = Offset[i] /\ z = Size(i) /\ p = Offset[N] /\ y = Size(N) /\ q = Size(1)
    BY <1>1, OffsetIs, ColumnsType
  <1>3. LineLength = p + y
    BY <1>2, LineLengthIs
  <1>4. o # 0
    <2>1. CASE i = 1
      BY <1>2, <2>1, OffsetIs
    <2>2. CASE i # 1
      <3>1. i \in 1 + 1 .. N
        BY <2>2
      <3>2. 1 + q <= o
        BY <1>1, <1>2, <3>1, OffsetsAscend, OffsetIs
      <3> QED BY <3>2
    <2> QED BY <2>1, <2>2
  <1>5. o + z <= p + y
    <2>1. CASE i = N
      <3>1. o = p /\ z = y
        BY <1>2, <2>1, Zenon
      <3> QED BY <3>1
    <2>2. CASE i # N
      <3>1. N \in i + 1 .. N
        BY <2>2, ColumnsType
      <3>2. o + z <= p
        BY <1>2, <3>1, OffsetsAscend
      <3> QED BY <3>2
    <2> QED BY <2>1, <2>2
  <1> QED BY <1>2, <1>3, <1>4, <1>5

\* No byte belongs to two columns.
LEMMA ColumnsApart ==
  ASSUME NEW i \in 1 .. N, NEW j \in 1 .. N, i # j,
         NEW b \in Offset[i] .. Offset[i] + Size(i) - 1
  PROVE  b \notin Offset[j] .. Offset[j] + Size(j) - 1
  <1>1. PICK o \in Nat, z \in Nat, p \in Nat, y \in Nat :
           o = Offset[i] /\ z = Size(i) /\ p = Offset[j] /\ y = Size(j)
    BY OffsetIs, ColumnsType
  <1>2. b \in o .. o + z - 1
    BY <1>1
  <1>3. CASE i < j
    <2>1. j \in i + 1 .. N
      BY <1>3, ColumnsType
    <2>2. o + z <= p
      BY <1>1, <2>1, OffsetsAscend
    <2>3. b \notin p .. p + y - 1
      BY <1>2, <2>2
    <2> QED BY <1>1, <2>3
  <1>4. CASE j < i
    <2>1. i \in j + 1 .. N
      BY <1>4, ColumnsType
    <2>2. p + y <= o
      BY <1>1, <2>1, OffsetsAscend
    <2>3. b \notin p .. p + y - 1
      BY <1>2, <2>2
    <2> QED BY <1>1, <2>3
  <1> QED BY <1>3, <1>4, ColumnsType

\* The offsets that loadFile computes (InfoLoader.h 67-93) fit the line that
\* createTable sized (DataBase.h 104-138), whatever the columns are: a column
\* lies inside the line and after its flag, two columns share no byte, and
\* every byte but the flag is one of some column.
THEOREM ColumnsPartitionLine ==
  /\ \A i \in DOMAIN Columns :
        /\ Offset[i] >= 1
        /\ Offset[i] + Columns[i].size <= LineLength
  /\ \A i, j \in DOMAIN Columns : i # j =>
        (Offset[i] .. Offset[i] + Columns[i].size - 1)
           \cap (Offset[j] .. Offset[j] + Columns[j].size - 1) = {}
  /\ \A b \in 1 .. LineLength - 1 :
        \E i \in DOMAIN Columns : b \in Offset[i] .. Offset[i] + Columns[i].size - 1
  <1>1. ASSUME NEW i \in 1 .. N
        PROVE  Offset[i] >= 1 /\ Offset[i] + Size(i) <= LineLength
    <2>1. Offset[i] \in Nat \ {0} /\ Offset[i] + Size(i) <= LineLength
      BY ColumnEnds
    <2>2. PICK o \in Nat \ {0} : o = Offset[i]
      BY <2>1
    <2> QED BY <2>1, <2>2
  <1>2. ASSUME NEW i \in 1 .. N, NEW j \in 1 .. N, i # j
        PROVE  (Offset[i] .. Offset[i] + Size(i) - 1)
                  \cap (Offset[j] .. Offset[j] + Size(j) - 1) = {}
    BY <1>2, ColumnsApart
  <1>3. ASSUME NEW b \in 1 .. LineLength - 1
        PROVE  \E i \in 1 .. N : b \in Offset[i] .. Offset[i] + Size(i) - 1
    <2> DEFINE T == {i \in 1 .. N : b < Offset[i] + Size(i)}
    <2>1. N \in 1 .. N /\ LineLength \in Nat /\ b \in Nat
      BY ColumnsType, ColumnEnds
    <2>2. N \in T
      <3>1. b < LineLength
        BY <2>1
      <3> QED BY <2>1, <3>1, LineLengthIs
    <2>3. T \subseteq Nat
      BY ColumnsType
    <2> HIDE DEF T
    <2>4. PICK i \in T : \A m \in T : i <= m
      BY <2>2, <2>3, Least
    <2>5. i \in 1 .. N /\ b < Offset[i] + Size(i)
      BY DEF T
    <2>6. PICK o \in Nat, z \in Nat : o = Offset[i] /\ z = Size(i)
      BY <2>5, OffsetIs, ColumnsType
    <2>7. o <= b
      <3>1. CASE i = 1
        BY <2>6, <3>1, OffsetIs
      <3>2. CASE i # 1
        <4>1. i \in 2 .. N /\ i - 1 \in 1 .. N
          BY <2>5, <3>2, ColumnsType
        <4>2. i - 1 \notin T
          BY <2>4, <4>1
        <4>3. ~(b < Offset[i - 1] + Size(i - 1))
          BY <4>1, <4>2 DEF T
        <4>4. ~(b < o)
          BY <2>6, <4>1, <4>3, OffsetIs
        <4> QED BY <2>1, <4>4
      <3> QED BY <3>1, <3>2
    <2>8. b \in o .. o + z - 1
      BY <2>1, <2>5, <2>6, <2>7
    <2> QED BY <2>5, <2>6, <2>8
  <1> HIDE DEF N
  <1> QED BY <1>1, <1>2, <1>3, ColumnsType DEF Size

-----------------------------------------------------------------------------
(***************************************************************************)
(* Writing a column.                                                       *)
(***************************************************************************)
Byte == 0 .. 255
ByteLines == [0 .. LineLength - 1 -> Byte]

\* A text is read up to the one length that ends it.
EndsAt(line, o, size, n) ==
    /\ n = size \/ line[o + n] = 0
    /\ \A j \in 0 .. n - 1 : line[o + j] # 0
Slice(line, o, n) == [j \in 1 .. n |-> line[o + j - 1]]

LEMMA ReadTextIs ==
  ASSUME NEW line, NEW o \in Nat, NEW size \in Nat, NEW n \in 0 .. size,
         EndsAt(line, o, size, n)
  PROVE  ReadText(line, o, size) = Slice(line, o, n)
  <1> DEFINE P(k) == /\ k = size \/ line[o + k] = 0
                     /\ \A j \in 0 .. k - 1 : line[o + j] # 0
             c == CHOOSE k \in 0 .. size : P(k)
  <1>1. P(n)
    BY DEF EndsAt
  <1>2. c \in 0 .. size /\ P(c)
    <2> HIDE DEF P
    <2> QED BY <1>1
  <1> HIDE DEF c
  <1>3. c = n
    <2>1. ~(c < n)
      <3>1. SUFFICES ASSUME c < n PROVE FALSE
        OBVIOUS
      <3>2. c \in 0 .. n - 1 /\ c # size
        BY <1>2, <3>1
      <3> QED BY <1>1, <1>2, <3>2
    <2>2. ~(n < c)
      <3>1. SUFFICES ASSUME n < c PROVE FALSE
        OBVIOUS
      <3>2. n \in 0 .. c - 1 /\ n # size
        BY <1>2, <3>1
      <3> QED BY <1>1, <1>2, <3>2
    <2> QED BY <1>2, <2>1, <2>2
  <1>4. ReadText(line, o, size) = Slice(line, o, c)
    BY Zenon DEF ReadText, Slice, c
  <1> QED BY <1>3, <1>4

\* There is such a length.
LEMMA TextEnds ==
  ASSUME NEW line, NEW o \in Nat, NEW size \in Nat
  PROVE  \E n \in 0 .. size : EndsAt(line, o, size, n)
  <1> DEFINE T == {k \in 0 .. size : k = size \/ line[o + k] = 0}
  <1>1. T \subseteq Nat /\ size \in T
    OBVIOUS
  <1> HIDE DEF T
  <1>2. PICK n \in T : \A m \in T : n <= m
    BY <1>1, Least
  <1>3. n \in 0 .. size /\ (n = size \/ line[o + n] = 0)
    BY DEF T
  <1>4. ASSUME NEW j \in 0 .. n - 1 PROVE line[o + j] # 0
    <2>1. j \in 0 .. size /\ ~(n <= j)
      BY <1>3
    <2>2. j \notin T
      BY <1>2, <2>1
    <2> QED BY <2>1, <2>2 DEF T
  <1> QED BY <1>3, <1>4 DEF EndsAt

\* A text depends on the bytes of its column only.
LEMMA SameText ==
  ASSUME NEW line, NEW other, NEW o \in Nat, NEW size \in Nat,
         \A b \in o .. o + size - 1 : other[b] = line[b]
  PROVE  ReadText(other, o, size) = ReadText(line, o, size)
  <1>1. PICK n \in 0 .. size : EndsAt(line, o, size, n)
    BY TextEnds
  <1>2. ReadText(line, o, size) = Slice(line, o, n)
    BY <1>1, ReadTextIs
  <1>3. EndsAt(other, o, size, n)
    BY <1>1 DEF EndsAt
  <1>4. ReadText(other, o, size) = Slice(other, o, n)
    BY <1>3, ReadTextIs
  <1>5. \A j \in 1 .. n : other[o + j - 1] = line[o + j - 1]
    OBVIOUS
  <1> QED BY <1>2, <1>4, <1>5 DEF Slice

\* A number depends on the bytes of its column only.
LEMMA SameNumber ==
  ASSUME NEW line, NEW other, NEW o \in Nat, NEW size \in Nat,
         \A b \in o .. o + size - 1 : other[b] = line[b]
  PROVE  ReadNumber(other, o, size) = ReadNumber(line, o, size)
  <1> DEFINE Rec(l, g) == [s \in SUBSET (0 .. size - 1) |->
                           IF s = {} THEN 0
                           ELSE l[o + (CHOOSE x \in s : TRUE)]
                                    * Weight[CHOOSE x \in s : TRUE]
                                   + g[s \ {CHOOSE x \in s : TRUE}]]
  <1>1. ReadNumber(line, o, size) = <<(CHOOSE g : g = Rec(line, g))[0 .. size - 1]>>
    BY DEF ReadNumber, MapThenSumSet, MapThenFoldSet
  <1>2. ReadNumber(other, o, size) = <<(CHOOSE g : g = Rec(other, g))[0 .. size - 1]>>
    BY DEF ReadNumber, MapThenSumSet, MapThenFoldSet
  <1>3. ASSUME NEW g PROVE Rec(other, g) = Rec(line, g)
    <2> DEFINE Sum(l, s) == IF s = {} THEN 0
                            ELSE l[o + (CHOOSE x \in s : TRUE)]
                                     * Weight[CHOOSE x \in s : TRUE]
                                    + g[s \ {CHOOSE x \in s : TRUE}]
    <2>1. ASSUME NEW s \in SUBSET (0 .. size - 1) PROVE Sum(other, s) = Sum(line, s)
      <3>1. CASE s = {}
        BY <3>1, Zenon
      <3>2. CASE s # {}
        <4>1. PICK y \in s : y = CHOOSE x \in s : TRUE
          BY <3>2
        <4>2. other[o + y] = line[o + y]
          <5>1. o + y \in o .. o + size - 1
            OBVIOUS
          <5> QED BY <5>1, Zenon
        <4>3. \A l : Sum(l, s) = l[o + y] * Weight[y] + g[s \ {y}]
          BY <3>2, <4>1, Zenon
        <4> HIDE DEF Sum
        <4> QED BY <4>2, <4>3, Zenon
      <3> QED BY <3>1, <3>2
    <2>2. \A l : Rec(l, g) = [s \in SUBSET (0 .. size - 1) |-> Sum(l, s)]
      BY Zenon
    <2> HIDE DEF Sum, Rec
    <2> QED BY <2>1, <2>2
  <1> HIDE DEF Rec
  <1>4. (CHOOSE g : g = Rec(line, g)) = (CHOOSE g : g = Rec(other, g))
    BY <1>3, Zenon
  <1> QED BY <1>1, <1>2, <1>4, Zenon

LEMMA SameCell ==
  ASSUME NEW f, NEW g, NEW i \in 1 .. N,
         \A b \in Offset[i] .. Offset[i] + Size(i) - 1 : g[b] = f[b]
  PROVE  Cell(g, i) = Cell(f, i)
  <1>1. PICK p \in Nat, y \in Nat : p = Offset[i] /\ y = Size(i)
    BY ColumnEnds, ColumnsType
  <1>2. \A b \in p .. p + y - 1 : g[b] = f[b]
    BY <1>1
  <1>3. ReadText(g, p, y) = ReadText(f, p, y)
    BY <1>2, SameText
  <1>4. ReadNumber(g, p, y) = ReadNumber(f, p, y)
    BY <1>2, SameNumber
  <1> QED BY <1>1, <1>3, <1>4, Zenon DEF Cell, Size

\* writeText and writeNumber (MemoryMapLinux.h 104-137) of bytes that fit in
\* their column change nothing else in the line: it stays a line of bytes, and
\* its flag and every other column read as before.
THEOREM StoreKeepsOthers ==
  ASSUME NEW line \in ByteLines, NEW i \in DOMAIN Columns,
         NEW s \in Seq(Byte), Len(s) <= Columns[i].size
  PROVE  LET new == Store(line, Offset[i], s)
         IN  /\ new \in ByteLines
             /\ new[0] = line[0]
             /\ \A j \in DOMAIN Columns \ {i} : Cell(new, j) = Cell(line, j)
  <1> DEFINE new == Store(line, Offset[i], s)
  <1>1. i \in 1 .. N
    BY ColumnsType
  <1>2. PICK o \in Nat \ {0}, z \in Nat, L \in Nat \ {0} :
           o = Offset[i] /\ z = Size(i) /\ L = LineLength /\ o + z <= L
    BY <1>1, ColumnEnds, ColumnsType
  <1>3. Len(s) \in Nat /\ Len(s) <= z /\ \A k \in 1 .. Len(s) : s[k] \in Byte
    BY <1>2 DEF Size
  <1>4. line \in [0 .. L - 1 -> Byte]
    BY <1>2 DEF ByteLines
  <1>5. new = [b \in 0 .. L - 1 |->
                 IF b \in o .. o + Len(s) - 1 THEN s[b - o + 1] ELSE line[b]]
    BY <1>2, <1>4 DEF Store
  <1> HIDE DEF new
  <1>6. new \in ByteLines
    <2>1. ASSUME NEW b \in 0 .. L - 1, b \in o .. o + Len(s) - 1
          PROVE  s[b - o + 1] \in Byte
      <3>1. b - o + 1 \in 1 .. Len(s)
        BY <1>3, <2>1
      <3> QED BY <1>3, <3>1
    <2>2. new \in [0 .. L - 1 -> Byte]
      BY <1>4, <1>5, <2>1
    <2> QED BY <1>2, <2>2 DEF ByteLines
  <1>7. \A b \in 0 .. L - 1 : b \notin o .. o + z - 1 => new[b] = line[b]
    BY <1>3, <1>5
  <1>8. new[0] = line[0]
    BY <1>2, <1>7
  <1>9. ASSUME NEW j \in DOMAIN Columns \ {i} PROVE Cell(new, j) = Cell(line, j)
    <2>1. j \in 1 .. N /\ j # i
      BY ColumnsType
    <2>2. PICK p \in Nat \ {0}, y \in Nat :
             p = Offset[j] /\ y = Size(j) /\ p + y <= L
      BY <1>2, <2>1, ColumnEnds, ColumnsType
    <2>3. \A b \in p .. p + y - 1 : b \notin o .. o + z - 1
      BY <1>1, <1>2, <2>1, <2>2, ColumnsApart
    <2>4. \A b \in p .. p + y - 1 : b \in 0 .. L - 1
      BY <2>2
    <2>5. \A b \in p .. p + y - 1 : new[b] = line[b]
      BY <1>7, <2>3, <2>4
    <2>6. ReadText(new, p, y) = ReadText(line, p, y)
      BY <2>5, SameText
    <2>7. ReadNumber(new, p, y) = ReadNumber(line, p, y)
      BY <2>5, SameNumber
    <2> QED BY <2>2, <2>6, <2>7, Zenon DEF Cell, Size
  <1> QED BY <1>6, <1>8, <1>9 DEF new

\* A text without a null character is read back as the INSERT gave it, cut at
\* the size of its column, whatever the line held before: optimizeInsertValues
\* resizes it (Optimizer.h 179-181), writeText stores it over the whole column
\* (MemoryMapLinux.h 104-112), and readText stops at the first null character
\* (MemoryMapLinux.h 114-124).
THEOREM TextReadBack ==
  ASSUME NEW line \in ByteLines, NEW i \in DOMAIN Columns, Columns[i].text,
         NEW v \in Seq(Byte \ {0})
  PROVE  Cell(Store(line, Offset[i], Resize(v, Columns[i].size)), i)
            = SubSeq(v, 1, IF Len(v) <= Columns[i].size THEN Len(v) ELSE Columns[i].size)
  <1>1. i \in 1 .. N
    BY ColumnsType
  <1>2. PICK o \in Nat \ {0}, z \in Nat, L \in Nat \ {0} :
           o = Offset[i] /\ z = Size(i) /\ L = LineLength /\ o + z <= L
    BY <1>1, ColumnEnds, ColumnsType
  <1>3. z = Columns[i].size
    BY <1>2 DEF Size
  <1>4. PICK u : u = Resize(v, z)
    OBVIOUS
  <1>5. PICK new : new = Store(line, o, u)
    OBVIOUS
  <1>6. Cell(Store(line, Offset[i], Resize(v, Columns[i].size)), i)
           = ReadText(new, o, z)
    BY <1>2, <1>3, <1>4, <1>5, Zenon DEF Cell
  <1>7. PICK n \in Nat : n = (IF Len(v) <= z THEN Len(v) ELSE z) /\ n <= z
    OBVIOUS
  <1>8. /\ SubSeq(v, 1, n) = [j \in 1 .. n |-> v[j]]
        /\ \A j \in 1 .. n : v[j] # 0
    <2>1. \A j \in 1 .. Len(v) : v[j] \in Byte \ {0}
      OBVIOUS
    <2>2. SubSeq(v, 1, n) = [j \in 1 .. n |-> v[j]]
      BY <1>7
    <2>3. \A j \in 1 .. n : j \in 1 .. Len(v)
      BY <1>7
    <2> QED BY <2>1, <2>2, <2>3, Zenon
  <1>9. /\ u = [j \in 1 .. z |-> IF j <= n THEN v[j] ELSE 0]
        /\ Len(u) = z
    <2>1. u = [j \in 1 .. z |-> IF j <= Len(v) THEN v[j] ELSE 0]
      BY <1>4 DEF Resize
    <2>2. \A j \in 1 .. z : (j <= Len(v)) <=> (j <= n)
      BY <1>7
    <2> QED BY <2>1, <2>2
  <1>10. line \in [0 .. L - 1 -> Byte]
    BY <1>2 DEF ByteLines
  <1>11. new = [b \in 0 .. L - 1 |->
                  IF b \in o .. o + z - 1 THEN u[b - o + 1] ELSE line[b]]
    BY <1>5, <1>9, <1>10 DEF Store
  <1>12. ASSUME NEW j \in 1 .. z
         PROVE  new[o + j - 1] = IF j <= n THEN v[j] ELSE 0
    <2>1. o + j - 1 \in 0 .. L - 1 /\ o + j - 1 \in o .. o + z - 1
      BY <1>2
    <2>2. (o + j - 1) - o + 1 = j
      OBVIOUS
    <2>3. new[o + j - 1] = u[(o + j - 1) - o + 1]
      BY <1>11, <2>1, Zenon
    <2>4. new[o + j - 1] = u[j]
      BY <2>2, <2>3
    <2> QED BY <1>9, <2>4
  <1>13. EndsAt(new, o, z, n)
    <2>1. n = z \/ new[o + n] = 0
      <3>1. SUFFICES ASSUME n # z PROVE new[o + n] = 0
        OBVIOUS
      <3>2. n + 1 \in 1 .. z /\ ~(n + 1 <= n) /\ o + (n + 1) - 1 = o + n
        BY <1>7, <3>1
      <3> QED BY <1>12, <3>2
    <2>2. ASSUME NEW j \in 0 .. n - 1 PROVE new[o + j] # 0
      <3>1. j + 1 \in 1 .. z /\ j + 1 \in 1 .. n /\ o + (j + 1) - 1 = o + j
        BY <1>7
      <3>2. new[o + (j + 1) - 1] = v[j + 1]
        BY <1>12, <3>1
      <3> QED BY <1>8, <3>1, <3>2
    <2> QED BY <2>1, <2>2 DEF EndsAt
  <1>14. ReadText(new, o, z) = Slice(new, o, n)
    <2>1. n \in 0 .. z /\ o \in Nat
      BY <1>7
    <2> QED BY <1>13, <2>1, ReadTextIs
  <1>15. \A j \in 1 .. n : new[o + j - 1] = v[j]
    BY <1>7, <1>12
  <1>16. Slice(new, o, n) = [j \in 1 .. n |-> v[j]]
    BY <1>15 DEF Slice
  <1> QED BY <1>3, <1>6, <1>7, <1>8, <1>14, <1>16, Zenon

-----------------------------------------------------------------------------
(***************************************************************************)
(* Numbers.                                                                *)
(***************************************************************************)
\* The weights of the first n + 1 bytes.
AreWeights(f, n) ==
    /\ f \in [0 .. n -> Nat \ {0}]
    /\ f[0] = 1
    /\ \A j \in 1 .. n : f[j] = 256 * f[j - 1]

\* There are weights for any number of bytes.
LEMMA WeightsExist ==
  ASSUME NEW n \in Nat
  PROVE  \E f : AreWeights(f, n)
  <1> DEFINE T == {m \in Nat : ~\E f : AreWeights(f, m)}
  <1>1. SUFFICES ASSUME T # {} PROVE FALSE
    OBVIOUS
  <1>2. T \subseteq Nat
    OBVIOUS
  <1> HIDE DEF T
  <1>3. PICK k \in T : \A m \in T : k <= m
    BY <1>1, <1>2, Least
  <1>4. k \in Nat /\ ~\E f : AreWeights(f, k)
    BY DEF T
  <1>5. k # 0
    <2>1. AreWeights([j \in 0 .. 0 |-> 1], 0)
      BY DEF AreWeights
    <2> QED BY <1>4, <2>1
  <1>6. k - 1 \in Nat /\ k - 1 \notin T
    BY <1>3, <1>4, <1>5
  <1>7. PICK f : AreWeights(f, k - 1)
    BY <1>6 DEF T
  <1> DEFINE h == [j \in 0 .. k |-> IF j = k THEN 256 * f[k - 1] ELSE f[j]]
  <1>8. f[k - 1] \in Nat \ {0}
    BY <1>6, <1>7 DEF AreWeights
  <1>9. h \in [0 .. k -> Nat \ {0}]
    <2>1. \A j \in 0 .. k : j # k => j \in 0 .. k - 1
      BY <1>4
    <2>2. \A j \in 0 .. k - 1 : f[j] \in Nat \ {0}
      BY <1>7 DEF AreWeights
    <2>3. 256 * f[k - 1] \in Nat \ {0}
      BY <1>8
    <2> QED BY <2>1, <2>2, <2>3
  <1>10. h[0] = 1
    BY <1>4, <1>5, <1>7 DEF AreWeights
  <1>11. \A j \in 1 .. k : h[j] = 256 * h[j - 1]
    BY <1>4, <1>5, <1>7 DEF AreWeights
  <1> HIDE DEF h
  <1>12. AreWeights(h, k)
    BY <1>9, <1>10, <1>11 DEF AreWeights
  <1> QED BY <1>4, <1>12

\* There is one weight for each byte.
LEMMA WeightsAgree ==
  ASSUME NEW m \in Nat, NEW n \in Nat, NEW f, AreWeights(f, m), NEW g, AreWeights(g, n),
         NEW j \in Nat, j <= m, j <= n
  PROVE  f[j] = g[j]
  <1> DEFINE T == {k \in Nat : k <= m /\ k <= n /\ f[k] # g[k]}
  <1>1. SUFFICES ASSUME T # {} PROVE FALSE
    OBVIOUS
  <1>2. T \subseteq Nat
    OBVIOUS
  <1> HIDE DEF T
  <1>3. PICK k \in T : \A h \in T : k <= h
    BY <1>1, <1>2, Least
  <1>4. k \in Nat /\ k <= m /\ k <= n /\ f[k] # g[k]
    BY DEF T
  <1>5. k # 0
    BY <1>4 DEF AreWeights
  <1>6. k - 1 \in Nat /\ k - 1 <= m /\ k - 1 <= n /\ k - 1 \notin T
    BY <1>3, <1>4, <1>5
  <1>7. f[k - 1] = g[k - 1]
    BY <1>6 DEF T
  <1>8. f[k] = 256 * f[k - 1] /\ g[k] = 256 * g[k - 1]
    BY <1>4, <1>5 DEF AreWeights
  <1> QED BY <1>4, <1>7, <1>8

\* The weights satisfy their recursion.
LEMMA WeightIs ==
  /\ Weight[0] = 1
  /\ \A j \in Nat : Weight[j] \in Nat \ {0} /\ Weight[j + 1] = 256 * Weight[j]
  <1> DEFINE w(n) == CHOOSE f : AreWeights(f, n)
             F == [n \in Nat |-> w(n)[n]]
             Rec(g) == [j \in Nat |-> IF j = 0 THEN 1 ELSE 256 * g[j - 1]]
  <1>1. ASSUME NEW n \in Nat PROVE AreWeights(w(n), n)
    BY WeightsExist
  <1> HIDE DEF w
  <1>2. ASSUME NEW n \in Nat PROVE F[n] \in Nat \ {0}
    <2>1. w(n)[n] \in Nat \ {0}
      BY <1>1 DEF AreWeights
    <2> QED BY <2>1
  <1>3. F[0] = 1
    BY <1>1 DEF AreWeights
  <1>4. ASSUME NEW n \in Nat PROVE F[n + 1] = 256 * F[n]
    <2>1. n + 1 \in Nat /\ n <= n + 1 /\ n <= n /\ n + 1 - 1 = n /\ n + 1 \in 1 .. n + 1
      OBVIOUS
    <2>2. PICK a : a = w(n) /\ AreWeights(a, n)
      BY <1>1
    <2>3. PICK b : b = w(n + 1) /\ AreWeights(b, n + 1)
      BY <1>1, <2>1
    <2>4. b[n + 1] = 256 * b[n]
      BY <2>1, <2>3 DEF AreWeights
    <2>5. b[n] = a[n]
      BY <2>1, <2>2, <2>3, WeightsAgree
    <2>6. F[n + 1] = b[n + 1] /\ F[n] = a[n]
      BY <2>1, <2>2, <2>3
    <2> QED BY <2>4, <2>5, <2>6, Zenon
  <1>5. F = Rec(F)
    <2>1. ASSUME NEW j \in Nat PROVE F[j] = IF j = 0 THEN 1 ELSE 256 * F[j - 1]
      <3>1. CASE j = 0
        BY <1>3, <3>1
      <3>2. CASE j # 0
        <4>1. j - 1 \in Nat /\ (j - 1) + 1 = j
          BY <3>2
        <4> HIDE DEF F
        <4>2. F[(j - 1) + 1] = 256 * F[j - 1]
          BY <1>4, <4>1
        <4> QED BY <3>2, <4>1, <4>2
      <3> QED BY <3>1, <3>2
    <2>2. F = [j \in Nat |-> F[j]]
      OBVIOUS
    <2> HIDE DEF F
    <2> QED BY <2>1, <2>2
  <1> HIDE DEF F
  <1>6. Weight = CHOOSE g : g = Rec(g)
    BY DEF Weight
  <1>7. Weight = Rec(Weight)
    <2> HIDE DEF Rec
    <2> QED BY <1>5, <1>6
  <1>8. Weight[0] = 1
    BY <1>7
  <1>9. ASSUME NEW j \in Nat PROVE Weight[j + 1] = 256 * Weight[j]
    <2>1. j + 1 \in Nat /\ j + 1 # 0 /\ j + 1 - 1 = j
      OBVIOUS
    <2> QED BY <1>7, <2>1
  <1>10. ASSUME NEW j \in Nat PROVE Weight[j] \in Nat \ {0}
    <2> DEFINE T == {k \in Nat : Weight[k] \notin Nat \ {0}}
    <2>1. SUFFICES ASSUME T # {} PROVE FALSE
      OBVIOUS
    <2>2. T \subseteq Nat
      OBVIOUS
    <2> HIDE DEF T
    <2>3. PICK k \in T : \A m \in T : k <= m
      BY <2>1, <2>2, Least
    <2>4. k \in Nat /\ Weight[k] \notin Nat \ {0}
      BY DEF T
    <2>5. k # 0
      BY <1>8, <2>4
    <2>6. k - 1 \in Nat /\ k - 1 \notin T /\ (k - 1) + 1 = k
      BY <2>3, <2>4, <2>5
    <2>7. Weight[k - 1] \in Nat \ {0}
      BY <2>6 DEF T
    <2>8. Weight[k] = 256 * Weight[k - 1]
      BY <1>9, <2>6, Zenon
    <2> QED BY <2>4, <2>7, <2>8
  <1> QED BY <1>8, <1>9, <1>10

\* What the bytes from o on count.
Counts(line, o, D, w) ==
    /\ w \in [D -> Nat]
    /\ \A j \in D : w[j] = line[o + j] * Weight[j]

\* A number is the sum of what its bytes count.
LEMMA ReadNumberIs ==
  ASSUME NEW line, NEW o \in Nat, NEW size \in Nat,
         NEW D, D = 0 .. size - 1, NEW w, Counts(line, o, D, w),
         NEW W, IsSum(W, D, w)
  PROVE  ReadNumber(line, o, size) = <<W[D]>>
  <1> DEFINE Rec(g) == [s \in SUBSET (0 .. size - 1) |->
                           IF s = {} THEN 0
                           ELSE line[o + (CHOOSE x \in s : TRUE)]
                                    * Weight[CHOOSE x \in s : TRUE]
                                   + g[s \ {CHOOSE x \in s : TRUE}]]
  <1>1. ReadNumber(line, o, size) = <<(CHOOSE g : g = Rec(g))[0 .. size - 1]>>
    BY DEF ReadNumber, MapThenSumSet, MapThenFoldSet
  <1>2. w \in [D -> Nat] /\ \A j \in D : w[j] = line[o + j] * Weight[j]
    BY DEF Counts
  <1>3. IsFiniteSet(D) /\ w \in [D -> Nat] /\ IsSum(W, D, w)
    <2>1. 0 \in Int /\ size - 1 \in Int
      OBVIOUS
    <2>2. IsFiniteSet(0 .. size - 1)
      BY <2>1, FS_Interval
    <2> QED BY <1>2, <2>2
  <1>4. ASSUME NEW g PROVE Rec(g) = SumStep(g, D, w)
    <2>1. ASSUME NEW s \in SUBSET D, s # {}
          PROVE  line[o + (CHOOSE x \in s : TRUE)] * Weight[CHOOSE x \in s : TRUE]
                    = w[CHOOSE x \in s : TRUE]
      <3>1. PICK y \in s : y = CHOOSE x \in s : TRUE
        BY <2>1
      <3>2. line[o + y] * Weight[y] = w[y]
        BY <1>2, Zenon
      <3> QED BY <3>1, <3>2, Zenon
    <2> DEFINE a(s) == line[o + (CHOOSE x \in s : TRUE)] * Weight[CHOOSE x \in s : TRUE]
               b(s) == w[CHOOSE x \in s : TRUE]
               rest(s) == g[s \ {CHOOSE x \in s : TRUE}]
    <2>2. Rec(g) = [s \in SUBSET D |-> IF s = {} THEN 0 ELSE a(s) + rest(s)]
      BY <1>2, Zenon
    <2>3. SumStep(g, D, w) = [s \in SUBSET D |-> IF s = {} THEN 0 ELSE b(s) + rest(s)]
      BY Zenon DEF SumStep
    <2>4. \A s \in SUBSET D : s # {} => a(s) = b(s)
      BY <2>1, Zenon
    <2> HIDE DEF a, b, rest, Rec
    <2> QED BY <2>2, <2>3, <2>4
  <1>5. W = SumStep(W, D, w)
    BY <1>3, SumFixed
  <1>6. PICK g : g = Rec(g) /\ ReadNumber(line, o, size) = <<g[D]>>
    <2> HIDE DEF Rec
    <2>1. W = Rec(W)
      BY <1>4, <1>5
    <2>2. (CHOOSE g : g = Rec(g)) = Rec(CHOOSE g : g = Rec(g))
      BY <2>1
    <2> QED BY <1>1, <1>2, <2>2
  <1>7. SumBy(g, D, w)
    <2> HIDE DEF Rec
    <2> QED BY <1>4, <1>6 DEF SumBy
  <1>8. g[D] = W[D]
    BY <1>3, <1>7, SumUnique
  <1> QED BY <1>2, <1>6, <1>8, Zenon

\* What a number leaves below the next byte, from what it leaves below a byte.
Splits(n, P) == n % (256 * P) = ((n \div P) % 256) * P + (n % P)

LEMMA NextByte ==
  ASSUME NEW n \in Nat, NEW P \in Nat \ {0}
  PROVE  Splits(n, P)
  <1>1. PICK q \in Nat, r \in Nat : n = q * P + r /\ r < P /\ n \div P = q /\ n % P = r
    <2>1. n = (n \div P) * P + (n % P)
      BY Z3
    <2>2. n \div P \in Nat /\ n % P \in 0 .. P - 1
      OBVIOUS
    <2> QED BY <2>1, <2>2
  <1>2. PICK e \in Nat, d \in Nat : q = e * 256 + d /\ d < 256 /\ q % 256 = d
    <2>1. q = (q \div 256) * 256 + (q % 256)
      BY Z3
    <2>2. q \div 256 \in Nat /\ q % 256 \in 0 .. 255
      OBVIOUS
    <2> QED BY <2>1, <2>2
  <1>3. n = e * (256 * P) + (d * P + r)
    <2>1. q * P = e * (256 * P) + d * P
      BY <1>2
    <2> QED BY <1>1, <2>1
  <1>4. d * P + r \in Nat /\ d * P + r < 256 * P
    <2>1. d * P <= 255 * P
      BY <1>2
    <2>2. d * P \in Nat /\ 256 * P = 255 * P + P
      OBVIOUS
    <2>3. PICK x \in Nat, y \in Nat : x = d * P /\ y = 255 * P
      BY <2>2
    <2> QED BY <1>1, <2>1, <2>2, <2>3
  <1>5. PICK M \in Nat \ {0}, j \in Nat : M = 256 * P /\ j = d * P + r /\ j < M
    BY <1>4
  <1>6. (e * M + j) % M = j
    <2>1. j \in 0 .. M - 1
      BY <1>5
    <2> QED BY <2>1
  <1>7. n % (256 * P) = d * P + r
    BY <1>3, <1>5, <1>6, Zenon
  <1>8. ((n \div P) % 256) * P + (n % P) = d * P + r
    <2>1. (n \div P) % 256 = d
      BY <1>1, <1>2, Zenon
    <2> QED BY <1>1, <2>1, Zenon
  <1> QED BY <1>7, <1>8, Zenon DEF Splits

\* What each byte of a number contributes to it.
AreBytes(w, n, size) ==
    /\ w \in [0 .. size - 1 -> Nat]
    /\ \A j \in 0 .. size - 1 : w[j] = ((n \div Weight[j]) % 256) * Weight[j]

\* The bytes of a number add up to the number.
LEMMA BytesAddUp ==
  ASSUME NEW n \in Nat, NEW size \in Nat, n < Weight[size],
         NEW w, AreBytes(w, n, size), NEW W, IsSum(W, 0 .. size - 1, w)
  PROVE  W[0 .. size - 1] = n
  <1> DEFINE T == {k \in 0 .. size : W[0 .. k - 1] # n % Weight[k]}
  <1>1. T = {}
    <2>1. SUFFICES ASSUME T # {} PROVE FALSE
      OBVIOUS
    <2>2. T \subseteq Nat
      OBVIOUS
    <2> HIDE DEF T
    <2>3. PICK k \in T : \A m \in T : k <= m
      BY <2>1, <2>2, Least
    <2>4. k \in 0 .. size /\ W[0 .. k - 1] # n % Weight[k]
      BY DEF T
    <2>5. k # 0
      <3>1. SUFFICES ASSUME k = 0 PROVE FALSE
        OBVIOUS
      <3>2. 0 .. k - 1 = {}
        BY <3>1
      <3>3. W[0 .. k - 1] = 0
        BY <3>2, Zenon DEF IsSum
      <3>4. Weight[k] = 1 /\ n % 1 = 0
        BY <3>1, WeightIs
      <3> QED BY <2>4, <3>3, <3>4, Zenon
    <2>6. k - 1 \in 0 .. size - 1 /\ k - 1 \notin T /\ k - 1 \in 0 .. size /\ (k - 1) + 1 = k
      BY <2>3, <2>4, <2>5
    <2>7. PICK m \in Nat : m = k - 1 /\ m + 1 = k
      BY <2>6
    <2>8. W[0 .. m - 1] = n % Weight[m]
      BY <2>6, <2>7 DEF T
    <2>9. 0 .. m \in SUBSET (0 .. size - 1) /\ m \in 0 .. m /\ (0 .. m) \ {m} = 0 .. m - 1
      BY <2>6, <2>7
    <2>10. W[0 .. m] = w[m] + W[0 .. m - 1]
      <3>1. PICK E \in SUBSET (0 .. size - 1) : E = 0 .. m /\ m \in E
        BY <2>9
      <3>2. \A s \in SUBSET (0 .. size - 1) : \A x \in s : W[s] = w[x] + W[s \ {x}]
        BY Zenon DEF IsSum
      <3>3. W[E] = w[m] + W[E \ {m}]
        BY <3>1, <3>2, Zenon
      <3> QED BY <2>9, <3>1, <3>3, Zenon
    <2>11. PICK P \in Nat \ {0} : P = Weight[m] /\ Weight[k] = 256 * P
      <3>1. Weight[m] \in Nat \ {0} /\ Weight[m + 1] = 256 * Weight[m]
        BY WeightIs
      <3> QED BY <2>7, <3>1, Zenon
    <2>12. w[m] = ((n \div P) % 256) * P
      BY <2>6, <2>7, <2>11 DEF AreBytes
    <2>13. W[0 .. m] = n % (256 * P)
      <3>1. Splits(n, P)
        BY <2>11, NextByte, Zenon
      <3>2. PICK x, y, z : /\ x = ((n \div P) % 256) * P /\ y = n % P
                           /\ z = n % (256 * P)
        OBVIOUS
      <3>3. z = x + y
        BY <3>1, <3>2, Zenon DEF Splits
      <3>4. W[0 .. m - 1] = y
        BY <2>8, <2>11, <3>2, Zenon
      <3>5. w[m] = x
        BY <2>12, <3>2, Zenon
      <3> QED BY <2>10, <3>2, <3>3, <3>4, <3>5, Zenon
    <2> QED BY <2>4, <2>7, <2>11, <2>13
  <1>2. W[0 .. size - 1] = n % Weight[size]
    <2>1. size \in 0 .. size
      OBVIOUS
    <2> QED BY <1>1, <2>1
  <1>3. Weight[size] \in Nat \ {0}
    BY WeightIs
  <1>4. n % Weight[size] = n
    BY <1>3
  <1> QED BY <1>2, <1>4

\* A number that its column can hold is read back as it was written: its bytes,
\* the lowest first, make up the number again (writeNumber and readNumber,
\* MemoryMapLinux.h 126-150; parse_value, SupportVariant.h 24-42).
THEOREM NumberReadBack ==
  ASSUME NEW line \in ByteLines, NEW i \in DOMAIN Columns, ~Columns[i].text,
         NEW v \in Seq(Nat), IsValue(i, v)
  PROVE  Cell(Store(line, Offset[i], Encode(i, v)), i) = v
  <1>1. i \in 1 .. N
    BY ColumnsType
  <1>2. PICK o \in Nat \ {0}, z \in Nat, L \in Nat \ {0} :
           o = Offset[i] /\ z = Size(i) /\ L = LineLength /\ o + z <= L
    BY <1>1, ColumnEnds, ColumnsType
  <1>3. z = Columns[i].size
    BY <1>2 DEF Size
  <1>4. PICK n \in Nat : v = <<n>> /\ v[1] = n /\ n < Weight[z]
    <2>1. Len(v) = 1 /\ v[1] < Weight[z]
      BY <1>3 DEF IsValue
    <2>2. v[1] \in Nat
      <3>1. \A j \in 1 .. Len(v) : v[j] \in Nat
        OBVIOUS
      <3>2. 1 \in 1 .. Len(v)
        BY <2>1
      <3> QED BY <3>1, <3>2, Zenon
    <2>3. v = <<v[1]>>
      BY <2>1, <2>2
    <2> QED BY <2>1, <2>2, <2>3, Zenon
  <1>5. \A j \in Nat : Weight[j] \in Nat \ {0}
    BY WeightIs
  <1> DEFINE d(j) == (n \div Weight[j]) % 256
  <1>6. ASSUME NEW j \in Nat PROVE d(j) \in Nat
    <2>1. PICK P \in Nat \ {0} : P = Weight[j]
      BY <1>5
    <2>2. n \div P \in Nat
      OBVIOUS
    <2> QED BY <2>1, <2>2
  <1>7. PICK u : u = Encode(i, v)
    OBVIOUS
  <1>8. u = [j \in 1 .. z |-> d(j - 1)]
    BY <1>3, <1>4, <1>7 DEF Encode
  <1> HIDE DEF d
  <1>9. Len(u) = z /\ \A j \in 0 .. z - 1 : u[j + 1] = d(j)
    <2>1. \A j \in 0 .. z - 1 : j + 1 \in 1 .. z /\ (j + 1) - 1 = j
      OBVIOUS
    <2>2. ASSUME NEW j \in 0 .. z - 1 PROVE u[j + 1] = d(j)
      <3>1. u[j + 1] = d((j + 1) - 1)
        BY <1>8, <2>1
      <3> QED BY <2>1, <3>1
    <2> QED BY <1>8, <2>2
  <1>10. PICK new : new = Store(line, o, u)
    OBVIOUS
  <1>11. line \in [0 .. L - 1 -> Byte]
    BY <1>2 DEF ByteLines
  <1>12. new = [b \in 0 .. L - 1 |->
                  IF b \in o .. o + z - 1 THEN u[b - o + 1] ELSE line[b]]
    BY <1>9, <1>10, <1>11 DEF Store
  <1>13. ASSUME NEW j \in 0 .. z - 1 PROVE new[o + j] = d(j)
    <2>1. o + j \in 0 .. L - 1 /\ o + j \in o .. o + z - 1
      BY <1>2
    <2>2. (o + j) - o + 1 = j + 1
      OBVIOUS
    <2>3. new[o + j] = u[(o + j) - o + 1]
      BY <1>12, <2>1, Zenon
    <2> QED BY <1>9, <2>2, <2>3
  <1>14. PICK w : w = [j \in 0 .. z - 1 |-> d(j) * Weight[j]]
    OBVIOUS
  <1>15. w \in [0 .. z - 1 -> Nat]
    <2>1. ASSUME NEW j \in 0 .. z - 1 PROVE d(j) * Weight[j] \in Nat
      <3>1. d(j) \in Nat /\ Weight[j] \in Nat
        BY <1>5, <1>6, SMTT(20)
      <3>2. PICK x \in Nat, y \in Nat : x = d(j) /\ y = Weight[j]
        BY <3>1
      <3> QED BY <3>2
    <2> QED BY <1>14, <2>1
  <1>16. PICK W : IsSum(W, 0 .. z - 1, w)
    <2>1. 0 \in Int /\ z - 1 \in Int
      OBVIOUS
    <2>2. IsFiniteSet(0 .. z - 1)
      BY <2>1, FS_Interval
    <2> QED BY <1>15, <2>2, SumExists
  <1>17. ReadNumber(new, o, z) = <<W[0 .. z - 1]>>
    <2>1. \A j \in 0 .. z - 1 : w[j] = new[o + j] * Weight[j]
      BY <1>13, <1>14
    <2>2. o \in Nat
      OBVIOUS
    <2>3. Counts(new, o, 0 .. z - 1, w)
      BY <1>15, <2>1 DEF Counts
    <2> QED BY <1>16, <2>2, <2>3, ReadNumberIs
  <1>18. W[0 .. z - 1] = n
    <2>1. \A j \in 0 .. z - 1 : w[j] = ((n \div Weight[j]) % 256) * Weight[j]
      BY <1>14 DEF d
    <2>2. AreBytes(w, n, z)
      BY <1>15, <2>1 DEF AreBytes
    <2>3. n \in Nat /\ z \in Nat /\ n < Weight[z] /\ IsSum(W, 0 .. z - 1, w)
      BY <1>4, <1>16
    <2> HIDE DEF d
    <2> QED BY <2>2, <2>3, BytesAddUp
  <1>19. Cell(Store(line, Offset[i], Encode(i, v)), i) = ReadNumber(new, o, z)
    BY <1>2, <1>3, <1>7, <1>10, Zenon DEF Cell
  <1> QED BY <1>4, <1>17, <1>18, <1>19, Zenon

-----------------------------------------------------------------------------
(***************************************************************************)
(* The order of the values.                                                *)
(***************************************************************************)
\* v comes before w, and it is item n + 1 that decides.
LessAt(v, w, n) ==
    /\ n \in 0 .. Len(v) /\ n < Len(w)
    /\ \A j \in 1 .. n : v[j] = w[j]
    /\ n = Len(v) \/ v[n + 1] < w[n + 1]

LEMMA LessIs ==
  ASSUME NEW v, NEW w
  PROVE  Less(v, w) <=> \E n : LessAt(v, w, n)
  BY DEF Less, LessAt

\* The order of variant_types by which conditions compare and stable_sort
\* sorts (Executor.h 130-143) is a strict total order on values of any length,
\* as stable_sort requires of its comparison.
THEOREM LessIsStrictTotalOrder ==
  /\ \A v \in Seq(Nat) : ~Less(v, v)
  /\ \A u, v, w \in Seq(Nat) : Less(u, v) /\ Less(v, w) => Less(u, w)
  /\ \A v, w \in Seq(Nat) : v # w => Less(v, w) \/ Less(w, v)
  <1>1. ASSUME NEW v \in Seq(Nat), Less(v, v) PROVE FALSE
    <2>1. PICK n : LessAt(v, v, n)
      BY <1>1, LessIs
    <2>2. n \in 0 .. Len(v) /\ n < Len(v) /\ v[n + 1] < v[n + 1]
      BY <2>1 DEF LessAt
    <2>3. v[n + 1] \in Nat
      <3>1. n + 1 \in 1 .. Len(v)
        BY <2>2
      <3> QED BY <3>1
    <2> QED BY <2>2, <2>3
  <1>2. ASSUME NEW u \in Seq(Nat), NEW v \in Seq(Nat), NEW w \in Seq(Nat),
               Less(u, v), Less(v, w)
        PROVE  Less(u, w)
    <2>1. PICK n : LessAt(u, v, n)
      BY <1>2, LessIs
    <2>2. PICK m : LessAt(v, w, m)
      BY <1>2, LessIs
    <2>3. PICK a \in Nat, b \in Nat, d \in Nat : a = Len(u) /\ b = Len(v) /\ d = Len(w)
      OBVIOUS
    <2>4. /\ n \in 0 .. a /\ n < b /\ \A j \in 1 .. n : u[j] = v[j]
          /\ n = a \/ u[n + 1] < v[n + 1]
      BY <2>1, <2>3 DEF LessAt
    <2>5. /\ m \in 0 .. b /\ m < d /\ \A j \in 1 .. m : v[j] = w[j]
          /\ m = b \/ v[m + 1] < w[m + 1]
      BY <2>2, <2>3 DEF LessAt
    <2>6. /\ \A j \in 1 .. a : u[j] \in Nat
          /\ \A j \in 1 .. b : v[j] \in Nat
          /\ \A j \in 1 .. d : w[j] \in Nat
      BY <2>3
    <2>7. CASE n < m
      <3>1. n < d /\ n + 1 \in 1 .. m /\ \A j \in 1 .. n : j \in 1 .. m
        BY <2>3, <2>4, <2>5, <2>7
      <3>2. \A j \in 1 .. n : u[j] = w[j]
        BY <2>4, <2>5, <3>1
      <3>3. v[n + 1] = w[n + 1]
        BY <2>5, <3>1
      <3>4. LessAt(u, w, n)
        BY <2>3, <2>4, <3>1, <3>2, <3>3 DEF LessAt
      <3> QED BY <3>4, LessIs
    <2>8. CASE m < n
      <3>1. m \in 0 .. a /\ m < d /\ m # b /\ m + 1 \in 1 .. n /\ \A j \in 1 .. m : j \in 1 .. n
        BY <2>3, <2>4, <2>5, <2>8
      <3>2. \A j \in 1 .. m : u[j] = w[j]
        BY <2>4, <2>5, <3>1
      <3>3. u[m + 1] = v[m + 1]
        BY <2>4, <3>1
      <3>4. LessAt(u, w, m)
        BY <2>3, <2>5, <3>1, <3>2, <3>3 DEF LessAt
      <3> QED BY <3>4, LessIs
    <2>9. CASE m = n
      <3>1. \A j \in 1 .. n : u[j] = w[j]
        BY <2>4, <2>5, <2>9
      <3>2. n < d /\ n # b /\ v[n + 1] < w[n + 1]
        BY <2>4, <2>5, <2>9
      <3>3. n = a \/ u[n + 1] < w[n + 1]
        <4>1. SUFFICES ASSUME n # a PROVE u[n + 1] < w[n + 1]
          OBVIOUS
        <4>2. n + 1 \in 1 .. a /\ n + 1 \in 1 .. b /\ n + 1 \in 1 .. d
          BY <2>3, <2>4, <3>2, <4>1
        <4>3. PICK x \in Nat, y \in Nat, z \in Nat :
                 x = u[n + 1] /\ y = v[n + 1] /\ z = w[n + 1]
          BY <2>6, <4>2
        <4>4. x < y /\ y < z
          BY <2>4, <3>2, <4>1, <4>3
        <4>5. x < z
          BY <4>3, <4>4, SMTT(20)
        <4> QED BY <4>3, <4>5, Zenon
      <3>4. LessAt(u, w, n)
        BY <2>3, <2>4, <3>1, <3>2, <3>3 DEF LessAt
      <3> QED BY <3>4, LessIs
    <2> QED BY <2>4, <2>5, <2>7, <2>8, <2>9
  <1>3. ASSUME NEW v \in Seq(Nat), NEW w \in Seq(Nat), v # w
        PROVE  Less(v, w) \/ Less(w, v)
    <2>1. PICK a \in Nat, b \in Nat : a = Len(v) /\ b = Len(w)
      OBVIOUS
    <2>2. /\ \A j \in 1 .. a : v[j] \in Nat
          /\ \A j \in 1 .. b : w[j] \in Nat
      BY <2>1
    <2> DEFINE T == {n \in Nat : n < a /\ n < b /\ v[n + 1] # w[n + 1]}
    <2>3. CASE T = {}
      <3>1. ASSUME NEW j \in Nat \ {0}, j <= a, j <= b PROVE v[j] = w[j]
        <4>1. j - 1 \in Nat /\ j - 1 < a /\ j - 1 < b /\ (j - 1) + 1 = j
          BY <3>1
        <4>2. v[(j - 1) + 1] = w[(j - 1) + 1]
          BY <2>3, <4>1
        <4> QED BY <4>1, <4>2
      <3>2. a # b
        <4>1. SUFFICES ASSUME a = b PROVE FALSE
          OBVIOUS
        <4>2. \A j \in 1 .. a : v[j] = w[j]
          BY <3>1, <4>1
        <4>3. v \in [1 .. a -> Nat]
          BY <2>1
        <4>4. w \in [1 .. a -> Nat]
          BY <2>1, <4>1
        <4> QED BY <1>3, <4>2, <4>3, <4>4
      <3>3. CASE a < b
        <4>1. LessAt(v, w, a)
          BY <2>1, <3>1, <3>3, SMTT(20) DEF LessAt
        <4> QED BY <4>1, LessIs
      <3>4. CASE b < a
        <4>1. LessAt(w, v, b)
          BY <2>1, <3>1, <3>4 DEF LessAt
        <4> QED BY <4>1, LessIs
      <3> QED BY <3>2, <3>3, <3>4
    <2>4. CASE T # {}
      <3>1. T \subseteq Nat
        OBVIOUS
      <3> HIDE DEF T
      <3>2. PICK n \in T : \A m \in T : n <= m
        BY <2>4, <3>1, Least
      <3>3. n \in Nat /\ n < a /\ n < b /\ v[n + 1] # w[n + 1]
        BY DEF T
      <3>4. ASSUME NEW j \in 1 .. n PROVE v[j] = w[j]
        <4>1. j - 1 \in Nat /\ j - 1 < a /\ j - 1 < b /\ (j - 1) + 1 = j /\ ~(n <= j - 1)
          BY <3>3, SMTT(30)
        <4>2. j - 1 \notin T
          BY <3>2, <4>1
        <4>3. v[(j - 1) + 1] = w[(j - 1) + 1]
          BY <4>1, <4>2 DEF T
        <4> QED BY <4>1, <4>3
      <3>5. PICK x \in Nat, y \in Nat : x = v[n + 1] /\ y = w[n + 1]
        <4>1. n + 1 \in 1 .. a /\ n + 1 \in 1 .. b
          BY <3>3
        <4> QED BY <2>2, <4>1
      <3>6. CASE x < y
        <4>1. LessAt(v, w, n)
          BY <2>1, <3>3, <3>4, <3>5, <3>6 DEF LessAt
        <4> QED BY <4>1, LessIs
      <3>7. CASE y < x
        <4>1. LessAt(w, v, n)
          BY <2>1, <3>3, <3>4, <3>5, <3>7 DEF LessAt
        <4> QED BY <4>1, LessIs
      <3> QED BY <3>3, <3>5, <3>6, <3>7
    <2> QED BY <2>3, <2>4
  <1> QED BY <1>1, <1>2, <1>3
=============================================================================
