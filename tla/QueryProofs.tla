---------------------------- MODULE QueryProofs ----------------------------
(***************************************************************************)
(* Proofs about the execution of statements, for any table, any clients    *)
(* and any statements.                                                     *)
(***************************************************************************)
EXTENDS Query, RowFormatProofs

-----------------------------------------------------------------------------
(***************************************************************************)
(* The optimizer's choice among the conditions.                            *)
(***************************************************************************)
\* The recursion of OfKinds.
PickStep(f, w, kinds, n) ==
    IF n = 0 THEN <<>>
    ELSE IF Kind(w[n]) \in kinds THEN Append(f[n - 1], w[n]) ELSE f[n - 1]

ArePicks(f, w, kinds, m) ==
    \A n \in 0 .. m : f[n] = PickStep(f, w, kinds, n)

LEMMA PicksExist ==
  ASSUME NEW w, NEW kinds, NEW m \in Nat
  PROVE  \E f : f = [n \in 0 .. m |-> f[n]] /\ ArePicks(f, w, kinds, m)
  <1> DEFINE P(k) == \E f : f = [n \in 0 .. k |-> f[n]] /\ ArePicks(f, w, kinds, k)
             T == {k \in Nat : ~P(k)}
  <1>1. SUFFICES ASSUME T # {} PROVE FALSE
    OBVIOUS
  <1>2. T \subseteq Nat
    OBVIOUS
  <1> HIDE DEF T
  <1>3. PICK k \in T : \A j \in T : k <= j
    BY <1>1, <1>2, Least
  <1>4. k \in Nat /\ ~P(k)
    BY DEF T
  <1>5. k # 0
    <2> DEFINE e == [n \in 0 .. 0 |-> <<>>]
    <2>1. e = [n \in 0 .. 0 |-> e[n]]
      OBVIOUS
    <2>2. ArePicks(e, w, kinds, 0)
      BY DEF ArePicks, PickStep
    <2> HIDE DEF e
    <2> QED BY <1>4, <2>1, <2>2
  <1>6. k - 1 \in Nat /\ k - 1 \notin T
    BY <1>3, <1>4, <1>5
  <1>7. PICK f : f = [n \in 0 .. k - 1 |-> f[n]] /\ ArePicks(f, w, kinds, k - 1)
    BY <1>6 DEF T
  <1> DEFINE h == [n \in 0 .. k |-> IF n = k THEN PickStep(f, w, kinds, k) ELSE f[n]]
  <1>8. h = [n \in 0 .. k |-> h[n]]
    OBVIOUS
  <1>9. ASSUME NEW n \in 0 .. k PROVE h[n] = PickStep(h, w, kinds, n)
    <2>1. CASE n = 0
      <3>1. h[0] = f[0] /\ 0 \in 0 .. k - 1
        BY <1>4, <1>5
      <3>2. f[0] = PickStep(f, w, kinds, 0)
        BY <1>7, <3>1 DEF ArePicks
      <3> HIDE DEF h
      <3> QED BY <2>1, <3>1, <3>2 DEF PickStep
    <2>2. CASE n # 0
      <3>1. n - 1 \in 0 .. k - 1 /\ n - 1 \in 0 .. k /\ n - 1 # k
        BY <1>4, <2>2
      <3>2. h[n - 1] = f[n - 1]
        BY <3>1
      <3>3. h[n] = PickStep(f, w, kinds, n)
        <4>1. CASE n = k
          BY <4>1
        <4>2. CASE n # k
          <5>1. n \in 0 .. k - 1
            BY <1>4, <4>2
          <5> QED BY <1>7, <4>2, <5>1 DEF ArePicks
        <4> QED BY <4>1, <4>2
      <3> HIDE DEF h
      <3> QED BY <2>2, <3>2, <3>3 DEF PickStep
    <2> QED BY <2>1, <2>2
  <1> HIDE DEF h
  <1>10. ArePicks(h, w, kinds, k)
    BY <1>9 DEF ArePicks
  <1> QED BY <1>4, <1>8, <1>10

LEMMA OfKindsIs ==
  ASSUME NEW w, Len(w) \in Nat, NEW kinds
  PROVE  \E f : OfKinds(w, kinds) = f[Len(w)] /\ ArePicks(f, w, kinds, Len(w))
  <1> DEFINE Rec(g) == [n \in 0 .. Len(w) |-> PickStep(g, w, kinds, n)]
  <1>1. OfKinds(w, kinds) = (CHOOSE g : g = Rec(g))[Len(w)]
    BY DEF OfKinds, PickStep
  <1>2. \E g : g = Rec(g)
    <2>1. PICK f : f = [n \in 0 .. Len(w) |-> f[n]] /\ ArePicks(f, w, kinds, Len(w))
      BY PicksExist
    <2>2. \A n \in 0 .. Len(w) : f[n] = PickStep(f, w, kinds, n)
      BY <2>1 DEF ArePicks
    <2>3. f = Rec(f)
      BY <2>1, <2>2
    <2> QED BY <2>3, Zenon
  <1>3. PICK g : g = Rec(g) /\ OfKinds(w, kinds) = g[Len(w)]
    <2> HIDE DEF Rec
    <2>1. (CHOOSE g : g = Rec(g)) = Rec(CHOOSE g : g = Rec(g))
      BY <1>2
    <2> QED BY <1>1, <2>1
  <1>4. ASSUME NEW n \in 0 .. Len(w) PROVE g[n] = PickStep(g, w, kinds, n)
    <2>1. Rec(g)[n] = PickStep(g, w, kinds, n)
      OBVIOUS
    <2> QED BY <1>3, <2>1
  <1> QED BY <1>3, <1>4 DEF ArePicks

\* u holds the items of the given kinds among the first n of w, in their order:
\* item j of u is item p[j] of w.
Picked(u, p, w, kinds, n) ==
    /\ p \in [1 .. Len(u) -> 1 .. n]
    /\ \A j \in 1 .. Len(u) : u[j] = w[p[j]] /\ Kind(w[p[j]]) \in kinds
    /\ \A j, h \in 1 .. Len(u) : j < h => p[j] < p[h]
    /\ \A m \in 1 .. n : Kind(w[m]) \in kinds => \E j \in 1 .. Len(u) : p[j] = m

LEMMA PickedNext ==
  ASSUME NEW X, NEW w \in Seq(X), NEW kinds, NEW n \in 1 .. Len(w),
         NEW u \in Seq(X), NEW p, Picked(u, p, w, kinds, n - 1),
         Kind(w[n]) \in kinds
  PROVE  \E q : Append(u, w[n]) \in Seq(X) /\ Picked(Append(u, w[n]), q, w, kinds, n)
  <1>1. PICK L \in Nat : L = Len(u)
    OBVIOUS
  <1>2. PICK x \in X : x = w[n]
    OBVIOUS
  <1>3. PICK v : v = Append(u, x)
    OBVIOUS
  <1>4. /\ v \in Seq(X) /\ Len(v) = L + 1 /\ v[L + 1] = x
        /\ \A j \in 1 .. L : v[j] = u[j]
    BY <1>1, <1>2, <1>3
  <1> DEFINE q == [j \in 1 .. L + 1 |-> IF j = L + 1 THEN n ELSE p[j]]
  <1>5. /\ p \in [1 .. L -> 1 .. n - 1]
        /\ \A j \in 1 .. L : u[j] = w[p[j]] /\ Kind(w[p[j]]) \in kinds
        /\ \A j, h \in 1 .. L : j < h => p[j] < p[h]
        /\ \A m \in 1 .. n - 1 : Kind(w[m]) \in kinds => \E j \in 1 .. L : p[j] = m
    BY <1>1 DEF Picked
  <1>6. \A j \in 1 .. L + 1 : j # L + 1 => j \in 1 .. L
    OBVIOUS
  <1>7. \A j \in 1 .. L : p[j] \in 1 .. n /\ p[j] < n
    BY <1>5
  <1>8. n \in 1 .. n /\ L + 1 \in 1 .. L + 1 /\ \A j \in 1 .. L : j \in 1 .. L + 1 /\ j # L + 1
    OBVIOUS
  <1>9. q \in [1 .. L + 1 -> 1 .. n]
    BY <1>6, <1>7, <1>8
  <1>10. q[L + 1] = n /\ \A j \in 1 .. L : q[j] = p[j]
    BY <1>8
  <1> HIDE DEF q
  <1>11. \A j \in 1 .. L + 1 : v[j] = w[q[j]] /\ Kind(w[q[j]]) \in kinds
    BY <1>2, <1>4, <1>5, <1>6, <1>10
  <1>12. \A j, h \in 1 .. L + 1 : j < h => q[j] < q[h]
    <2>1. SUFFICES ASSUME NEW j \in 1 .. L + 1, NEW h \in 1 .. L + 1, j < h
                   PROVE  q[j] < q[h]
      OBVIOUS
    <2>2. j \in 1 .. L
      BY <2>1
    <2>3. CASE h = L + 1
      BY <1>7, <1>10, <2>2, <2>3
    <2>4. CASE h # L + 1
      BY <1>5, <1>6, <1>10, <2>1, <2>2, <2>4
    <2> QED BY <2>3, <2>4
  <1>13. ASSUME NEW m \in 1 .. n, Kind(w[m]) \in kinds PROVE \E j \in 1 .. L + 1 : q[j] = m
    <2>1. CASE m = n
      BY <1>8, <1>10, <2>1
    <2>2. CASE m # n
      <3>1. m \in 1 .. n - 1
        BY <2>2
      <3>2. PICK j \in 1 .. L : p[j] = m
        BY <1>5, <1>13, <3>1
      <3> QED BY <1>8, <1>10, <3>2
    <2> QED BY <2>1, <2>2
  <1>14. Picked(v, q, w, kinds, n)
    BY <1>4, <1>9, <1>11, <1>12, <1>13 DEF Picked
  <1> QED BY <1>2, <1>3, <1>4, <1>14

LEMMA OfKindsPicks ==
  ASSUME NEW X, NEW w \in Seq(X), NEW kinds
  PROVE  \E p : /\ OfKinds(w, kinds) \in Seq(X)
                /\ Picked(OfKinds(w, kinds), p, w, kinds, Len(w))
  <1>1. PICK L \in Nat : L = Len(w)
    OBVIOUS
  <1>2. PICK f : OfKinds(w, kinds) = f[L] /\ ArePicks(f, w, kinds, L)
    BY <1>1, OfKindsIs
  <1> DEFINE T == {k \in 0 .. L : ~\E p : f[k] \in Seq(X) /\ Picked(f[k], p, w, kinds, k)}
  <1>3. SUFFICES ASSUME T # {} PROVE FALSE
    <2>1. L \in 0 .. L
      OBVIOUS
    <2> QED BY <1>1, <1>2, <2>1
  <1>4. T \subseteq Nat
    OBVIOUS
  <1> HIDE DEF T
  <1>5. PICK k \in T : \A j \in T : k <= j
    BY <1>3, <1>4, Least
  <1>6. k \in 0 .. L /\ ~\E p : f[k] \in Seq(X) /\ Picked(f[k], p, w, kinds, k)
    BY DEF T
  <1>7. f[k] = PickStep(f, w, kinds, k)
    BY <1>2, <1>6 DEF ArePicks
  <1>8. k # 0
    <2>1. SUFFICES ASSUME k = 0 PROVE FALSE
      OBVIOUS
    <2>2. f[k] = <<>>
      BY <1>7, <2>1 DEF PickStep
    <2>3. <<>> \in Seq(X) /\ Len(<<>>) = 0 /\ 1 .. 0 = {}
      OBVIOUS
    <2>4. Picked(<<>>, <<>>, w, kinds, 0)
      BY <2>3 DEF Picked
    <2> QED BY <1>6, <2>1, <2>2, <2>3, <2>4
  <1>9. k \in 1 .. Len(w) /\ k - 1 \in 0 .. L /\ k - 1 \notin T
    BY <1>1, <1>5, <1>6, <1>8
  <1>10. PICK u, p : u = f[k - 1] /\ u \in Seq(X) /\ Picked(u, p, w, kinds, k - 1)
    BY <1>9 DEF T
  <1>11. CASE Kind(w[k]) \in kinds
    <2>1. f[k] = Append(u, w[k])
      BY <1>7, <1>8, <1>10, <1>11 DEF PickStep
    <2>2. \E q : Append(u, w[k]) \in Seq(X) /\ Picked(Append(u, w[k]), q, w, kinds, k)
      BY <1>9, <1>10, <1>11, PickedNext
    <2> QED BY <1>6, <2>1, <2>2, Zenon
  <1>12. CASE Kind(w[k]) \notin kinds
    <2>1. f[k] = u
      BY <1>7, <1>8, <1>10, <1>12 DEF PickStep
    <2>2. PICK M \in Nat : M = Len(u)
      BY <1>10
    <2>3. Picked(u, p, w, kinds, k)
      <3>1. /\ p \in [1 .. M -> 1 .. k - 1]
            /\ \A j \in 1 .. M : u[j] = w[p[j]] /\ Kind(w[p[j]]) \in kinds
            /\ \A j, h \in 1 .. M : j < h => p[j] < p[h]
            /\ \A m \in 1 .. k - 1 : Kind(w[m]) \in kinds => \E j \in 1 .. M : p[j] = m
        BY <1>10, <2>2 DEF Picked
      <3>2. \A m \in 1 .. k : m = k \/ m \in 1 .. k - 1
        BY <1>9
      <3>3. p \in [1 .. M -> 1 .. k]
        BY <1>9, <3>1
      <3>4. \A m \in 1 .. k : Kind(w[m]) \in kinds => \E j \in 1 .. M : p[j] = m
        BY <1>12, <3>1, <3>2
      <3> QED BY <2>2, <3>1, <3>3, <3>4 DEF Picked
    <2> QED BY <1>6, <1>10, <2>1, <2>3
  <1> QED BY <1>11, <1>12

-----------------------------------------------------------------------------
(***************************************************************************)
(* The least and the greatest of some numbers.                             *)
(***************************************************************************)
LEMMA MinIs ==
  ASSUME NEW S, S \subseteq Nat, S # {}
  PROVE  Min(S) \in S /\ \A y \in S : Min(S) <= y
  <1>1. \E x \in S : \A y \in S : x <= y
    BY Least
  <1> QED BY <1>1 DEF Min

LEMMA MaxIs ==
  ASSUME NEW n \in Nat, NEW S, S \subseteq 0 .. n, S # {}
  PROVE  Max(S) \in S /\ \A y \in S : y <= Max(S)
  <1> DEFINE T == {m \in Nat : \A y \in S : y <= m}
  <1>1. T \subseteq Nat /\ n \in T
    OBVIOUS
  <1> HIDE DEF T
  <1>2. PICK m \in T : \A h \in T : m <= h
    BY <1>1, Least
  <1>3. m \in Nat /\ \A y \in S : y <= m
    BY DEF T
  <1>4. m \in S
    <2>1. SUFFICES ASSUME m \notin S PROVE FALSE
      OBVIOUS
    <2>2. \A y \in S : y <= m - 1 /\ y \in Nat
      BY <1>3, <2>1
    <2>3. m - 1 \in Nat
      <3>1. PICK y \in S : TRUE
        OBVIOUS
      <3> QED BY <1>3, <2>2, <3>1
    <2>4. m - 1 \in T
      BY <2>2, <2>3 DEF T
    <2> QED BY <1>2, <1>3, <2>4
  <1>5. \E x \in S : \A y \in S : y <= x
    BY <1>3, <1>4
  <1> QED BY <1>5 DEF Max

-----------------------------------------------------------------------------
(***************************************************************************)
(* What the parser and the optimizer make of a statement.                  *)
(***************************************************************************)
OrderItem == [col : STRING, dir : {"ASC", "DESC"}]

LEMMA Clauses ==
  ASSUME NEW s, IsStatement(s)
  PROVE  /\ WhereOf(s) \in Seq(WhereItem)
         /\ \A e \in Range(WhereOf(s)) : e.word = "cond" => e.val # <<>>
         /\ LimitOf(s) \in Nat
         /\ OrderOf(s) \in Seq(OrderItem)
  <1>1. PICK cls : cls = s.clauses
    OBVIOUS
  <1>2. PICK E : E = Range(cls)
    OBVIOUS
  <1>3. cls \in Seq(E)
    BY <1>1, <1>2 DEF IsStatement
  <1>4. /\ \A e \in E : e.word = "WHERE" =>
              /\ e.arg \in Seq(WhereItem)
              /\ \A w \in Range(e.arg) : w.word = "cond" => w.val # <<>>
        /\ \A e \in E : e.word = "LIMIT" => e.arg \in Nat
        /\ \A e \in E : e.word = "ORDER" => e.arg \in Seq(OrderItem)
    BY <1>1, <1>2 DEF IsStatement, OrderItem
  <1>5. ASSUME NEW r \in Seq(E), NEW word
        PROVE  /\ Begins(r, word) => r[1] \in E /\ r[1].word = word
               /\ After(r, word) \in Seq(E)
    <2>1. r # <<>> => r[1] \in E /\ Tail(r) \in Seq(E)
      OBVIOUS
    <2> QED BY <2>1 DEF Begins, After
  <1>6. <<>> \in Seq(WhereItem) /\ Range(<<>>) = {} /\ <<>> \in Seq(OrderItem)
    <2>1. DOMAIN <<>> = {}
      OBVIOUS
    <2> QED BY <2>1 DEF Range
  <1>7. /\ WhereOf(s) \in Seq(WhereItem)
        /\ \A e \in Range(WhereOf(s)) : e.word = "cond" => e.val # <<>>
    BY <1>1, <1>3, <1>4, <1>5, <1>6 DEF WhereOf
  <1>8. PICK r \in Seq(E) : r = After(cls, "WHERE")
    BY <1>3, <1>5
  <1>9. LimitOf(s) \in Nat
    <2>1. LimitOf(s) = IF Begins(r, "LIMIT") THEN r[1].arg ELSE SizeMax
      BY <1>1, <1>8 DEF LimitOf
    <2>2. SizeMax \in Nat
      BY QueryAssumption
    <2> QED BY <1>4, <1>5, <1>8, <2>1, <2>2
  <1>10. PICK o \in Seq(E) : o = After(r, "LIMIT")
    BY <1>5, <1>8
  <1>11. OrderOf(s) \in Seq(OrderItem)
    <2>1. OrderOf(s) = IF s.verb = "SELECT" /\ Begins(o, "ORDER") THEN o[1].arg ELSE <<>>
      BY <1>1, <1>8, <1>10 DEF OrderOf
    <2> QED BY <1>4, <1>5, <1>6, <1>10, <2>1
  <1> QED BY <1>7, <1>9, <1>11

IsPicked(u, w, kinds) == \E p : Picked(u, p, w, kinds, Len(w))

Bounds == {"DIRECT", "FROM", "TO"}
Others == {"COLUMN", "AND", "OR"}

LEMMA FunIsSeq ==
  ASSUME NEW n \in Nat, NEW X, NEW f \in [1 .. n -> X]
  PROVE  f \in Seq(X) /\ Len(f) = n
  OBVIOUS

LEMMA ConcatAt ==
  ASSUME NEW X, NEW a \in Seq(X), NEW b \in Seq(X)
  PROVE  /\ a \o b \in Seq(X) /\ Len(a \o b) = Len(a) + Len(b)
         /\ \A h \in 1 .. Len(a) + Len(b) :
               (a \o b)[h] = IF h <= Len(a) THEN a[h] ELSE b[h - Len(a)]
  OBVIOUS

LEMMA ConditionsAre ==
  ASSUME NEW s, IsStatement(s)
  PROVE  \E u, v \in Seq(WhereItem) :
            /\ IsPicked(u, WhereOf(s), Bounds)
            /\ IsPicked(v, WhereOf(s), Others)
            /\ Conditions(s) \in Seq(WhereItem)
            /\ Len(Conditions(s)) = Len(u) + Len(v)
            /\ \A j \in 1 .. Len(u) : Conditions(s)[j] = u[Len(u) - j + 1]
            /\ \A j \in 1 .. Len(v) : Conditions(s)[Len(u) + j] = v[j]
  <1>1. PICK w \in Seq(WhereItem) : w = WhereOf(s)
    BY Clauses
  <1>2. PICK u \in Seq(WhereItem) : u = OfKinds(w, Bounds) /\ IsPicked(u, w, Bounds)
    BY OfKindsPicks DEF IsPicked
  <1>3. PICK v \in Seq(WhereItem) : v = OfKinds(w, Others) /\ IsPicked(v, w, Others)
    BY OfKindsPicks DEF IsPicked
  <1>4. PICK r : r = Reverse(u)
    OBVIOUS
  <1>5. r \in Seq(WhereItem) /\ Len(r) = Len(u) /\ \A j \in 1 .. Len(u) : r[j] = u[Len(u) - j + 1]
    <2>1. PICK n \in Nat : n = Len(u)
      OBVIOUS
    <2>2. r = [j \in 1 .. n |-> u[(n - j) + 1]]
      BY <1>4, <2>1 DEF Reverse
    <2>3. \A j \in 1 .. n : (n - j) + 1 \in 1 .. n
      OBVIOUS
    <2>4. \A j \in 1 .. n : u[(n - j) + 1] \in WhereItem
      BY <2>1, <2>3
    <2>5. r \in Seq(WhereItem) /\ Len(r) = n
      BY <2>2, <2>4
    <2> QED BY <2>1, <2>2, <2>5
  <1>6. Conditions(s) = r \o v
    BY <1>1, <1>2, <1>3, <1>4 DEF Conditions, Bounds, Others
  <1>7. /\ Conditions(s) \in Seq(WhereItem)
        /\ Len(Conditions(s)) = Len(u) + Len(v)
        /\ \A j \in 1 .. Len(u) : Conditions(s)[j] = r[j]
        /\ \A j \in 1 .. Len(v) : Conditions(s)[Len(u) + j] = v[j]
    <2>1. PICK n \in Nat, m \in Nat : n = Len(u) /\ m = Len(v)
      OBVIOUS
    <2>2. PICK t : t = r \o v
      OBVIOUS
    <2>3. r \in Seq(WhereItem) /\ Len(r) = n
      BY <1>5, <2>1
    <2>4. t \in Seq(WhereItem)
      BY <2>2, <2>3
    <2>5. Len(t) = n + m
      BY <2>1, <2>2, <2>3
    <2>6. \A h \in 1 .. n + m : t[h] = IF h <= n THEN r[h] ELSE v[h - n]
      <3>1. \A h \in 1 .. Len(r) + Len(v) :
               (r \o v)[h] = IF h <= Len(r) THEN r[h] ELSE v[h - Len(r)]
        BY <2>3, ConcatAt
      <3> QED BY <2>1, <2>2, <2>3, <3>1, Zenon
    <2>7. \A j \in 1 .. n : t[j] = r[j]
      BY <2>6
    <2>8. ASSUME NEW j \in 1 .. m PROVE t[n + j] = v[j]
      <3>1. n + j \in 1 .. n + m /\ ~(n + j <= n) /\ (n + j) - n = j
        OBVIOUS
      <3> QED BY <2>6, <3>1
    <2> QED BY <1>6, <2>1, <2>2, <2>4, <2>5, <2>7, <2>8
  <1>8. \A j \in 1 .. Len(u) : Conditions(s)[j] = u[Len(u) - j + 1]
    BY <1>5, <1>7, Zenon
  <1> QED BY <1>1, <1>2, <1>3, <1>7, <1>8, Zenon

LEMMA ColumnIdType ==
  ASSUME NEW name, Known(name)
  PROVE  ColumnId(name) \in 1 .. N /\ Columns[ColumnId(name)].name = name
  <1> DEFINE S == {i \in DOMAIN Columns : Columns[i].name = name}
  <1>1. S \subseteq Nat /\ S # {}
    BY ColumnsType DEF Known
  <1>2. Min(S) \in S
    <2> HIDE DEF S
    <2> QED BY <1>1, MinIs
  <1> QED BY <1>2, ColumnsType DEF ColumnId

\* The columns named before the first "*", then all of them.
LEMMA ColumnsOfType ==
  ASSUME NEW s, IsStatement(s), ~Refused(s)
  PROVE  \E m \in 0 .. Len(s.cols) :
            /\ \A j \in 1 .. m : s.cols[j] # "*" /\ Known(s.cols[j])
            /\ \/ /\ m = Len(s.cols)
                  /\ ColumnsOf(s) = [j \in 1 .. m |-> ColumnId(s.cols[j])]
               \/ /\ m < Len(s.cols) /\ s.cols[m + 1] = "*"
                  /\ ColumnsOf(s) = [j \in 1 .. m |-> ColumnId(s.cols[j])]
                                       \o [j \in 1 .. N |-> j]
            /\ ColumnsOf(s) \in Seq(1 .. N)
  <1>1. PICK L \in Nat : L = Len(s.cols) /\ DOMAIN s.cols = 1 .. L
    BY DEF IsStatement
  <1> DEFINE stars == {j \in DOMAIN s.cols : s.cols[j] = "*"}
             named == IF stars = {} THEN L ELSE Min(stars) - 1
  <1>2. stars \subseteq Nat
    BY <1>1
  <1>3. stars # {} => Min(stars) \in stars /\ \A y \in stars : Min(stars) <= y
    <2> HIDE DEF stars
    <2> QED BY <1>2, MinIs
  <1>4. PICK m \in 0 .. L :
           /\ m = named
           /\ \A j \in 1 .. m : s.cols[j] # "*"
           /\ (stars = {} /\ m = L) \/ (stars # {} /\ m < L /\ s.cols[m + 1] = "*")
    <2>1. CASE stars = {}
      BY <1>1, <2>1
    <2>2. CASE stars # {}
      <3>1. PICK x \in 1 .. L : x = Min(stars) /\ s.cols[x] = "*"
        BY <1>1, <1>3, <2>2
      <3>2. x - 1 = named /\ x - 1 \in 0 .. L /\ x - 1 < L /\ x - 1 + 1 = x
        BY <2>2, <3>1
      <3>3. ASSUME NEW j \in 1 .. x - 1 PROVE s.cols[j] # "*"
        <4>1. j \in 1 .. L /\ ~(x <= j)
          BY <3>1
        <4> QED BY <1>1, <1>3, <2>2, <3>1, <4>1
      <3> HIDE DEF stars, named
      <3> QED BY <2>2, <3>1, <3>2, <3>3
    <2> QED BY <2>1, <2>2
  <1>5. ASSUME NEW j \in 1 .. m PROVE Known(s.cols[j])
    <2>1. j \in DOMAIN s.cols /\ \A h \in 1 .. j : s.cols[h] # "*"
      <3>1. j \in 1 .. L /\ \A h \in 1 .. j : h \in 1 .. m
        OBVIOUS
      <3> QED BY <1>1, <1>4, <3>1, Zenon
    <2> QED BY <2>1 DEF Refused, UnknownColumn
  <1> DEFINE a == [j \in 1 .. m |-> ColumnId(s.cols[j])]
             b == [j \in 1 .. N |-> j]
  <1>6. ColumnsOf(s) = a \o (IF stars = {} THEN <<>> ELSE b)
    <2>1. DOMAIN Columns = 1 .. N
      BY ColumnsType
    <2>2. Len(s.cols) = L
      BY <1>1
    <2> QED BY <1>4, <2>1, <2>2 DEF ColumnsOf
  <1>7. a \in Seq(1 .. N)
    <2>1. \A j \in 1 .. m : ColumnId(s.cols[j]) \in 1 .. N
      BY <1>5, ColumnIdType
    <2>2. PICK X : X = 1 .. N
      OBVIOUS
    <2>3. a \in [1 .. m -> X]
      BY <2>1, <2>2, Zenon
    <2>4. m \in Nat
      OBVIOUS
    <2> HIDE DEF a
    <2>5. a \in Seq(X)
      BY <2>3, <2>4, FunIsSeq, Zenon
    <2> QED BY <2>2, <2>5, Zenon
  <1>8. b \in Seq(1 .. N)
    <2>1. PICK n \in Nat : n = N
      BY ColumnsType
    <2>2. b = [j \in 1 .. n |-> j]
      BY <2>1
    <2> QED BY <2>1, <2>2
  <1> HIDE DEF a, b, stars, named, N
  <1>9. CASE stars = {}
    <2>1. ColumnsOf(s) = a
      BY <1>6, <1>7, <1>9
    <2>2. m = L
      BY <1>4, <1>9
    <2> QED BY <1>1, <1>4, <1>5, <1>7, <2>1, <2>2 DEF a
  <1>10. CASE stars # {}
    <2>1. ColumnsOf(s) = a \o b
      BY <1>6, <1>10
    <2>2. a \o b \in Seq(1 .. N)
      BY <1>7, <1>8
    <2>3. m < L /\ s.cols[m + 1] = "*"
      BY <1>4, <1>10
    <2>4. ColumnsOf(s) = [j \in 1 .. m |-> ColumnId(s.cols[j])] \o [j \in 1 .. N |-> j]
      BY <2>1 DEF a, b
    <2> QED BY <1>1, <1>4, <1>5, <2>1, <2>2, <2>3, <2>4
  <1> QED BY <1>9, <1>10

\* The bytes of a value.
LEMMA EncodeType ==
  ASSUME NEW i \in 1 .. N, NEW v \in Value, IsValue(i, v)
  PROVE  /\ Encode(i, v) \in Seq(Byte)
         /\ ~Columns[i].text => Len(Encode(i, v)) = Size(i)
         /\ Columns[i].text => v \in Seq(Byte \ {0})
  <1>1. CASE Columns[i].text
    <2>1. v \in Seq(1 .. 255)
      BY <1>1 DEF IsValue
    <2>2. 1 .. 255 = Byte \ {0}
      BY DEF Byte
    <2>3. v \in Seq(Byte \ {0})
      BY <2>1, <2>2
    <2>4. v \in Seq(Byte)
      BY <2>1 DEF Byte
    <2> QED BY <1>1, <2>3, <2>4 DEF Encode
  <1>2. CASE ~Columns[i].text
    <2>1. PICK z \in Nat : z = Size(i)
      BY ColumnsType
    <2>2. v[1] \in Nat
      <3>1. Len(v) = 1
        BY <1>2 DEF IsValue
      <3>2. \A j \in 1 .. Len(v) : v[j] \in Nat
        BY DEF Value
      <3> QED BY <3>1, <3>2
    <2>3. ASSUME NEW j \in 1 .. z PROVE (v[1] \div Weight[j - 1]) % 256 \in Byte
      <3>1. PICK n \in Nat, P \in Nat \ {0} : n = v[1] /\ P = Weight[j - 1]
        BY <2>2, WeightIs
      <3>2. n \div P \in Nat
        OBVIOUS
      <3>3. (n \div P) % 256 \in 0 .. 255
        BY <3>2
      <3> QED BY <3>1, <3>3 DEF Byte
    <2>4. PICK u : u = Encode(i, v)
      OBVIOUS
    <2>5. u = [j \in 1 .. z |-> (v[1] \div Weight[j - 1]) % 256]
      BY <1>2, <2>1, <2>4 DEF Encode, Size
    <2>6. u \in Seq(Byte) /\ Len(u) = z
      BY <2>3, <2>5
    <2> QED BY <1>2, <2>1, <2>4, <2>6
  <1> QED BY <1>1, <1>2

LEMMA ResizeType ==
  ASSUME NEW v \in Seq(Byte), NEW n \in Nat
  PROVE  Resize(v, n) \in Seq(Byte) /\ Len(Resize(v, n)) = n
  <1>1. ASSUME NEW j \in 1 .. n PROVE (IF j <= Len(v) THEN v[j] ELSE 0) \in Byte
    <2>1. CASE j <= Len(v)
      <3>1. j \in 1 .. Len(v)
        BY <2>1
      <3> QED BY <2>1, <3>1
    <2>2. CASE ~(j <= Len(v))
      BY <2>2 DEF Byte
    <2> QED BY <2>1, <2>2
  <1>2. PICK u : u = Resize(v, n)
    OBVIOUS
  <1>3. u = [j \in 1 .. n |-> IF j <= Len(v) THEN v[j] ELSE 0]
    BY <1>2 DEF Resize
  <1>4. u \in Seq(Byte) /\ Len(u) = n
    BY <1>1, <1>3
  <1> QED BY <1>2, <1>4

\* The statements a client may send, and those that reach the executor.
Sent(s) == \E c \in Clients : s \in Statements[c]
Accepted(s) == Sent(s) /\ ~Refused(s)

LEMMA SentType ==
  ASSUME NEW s, Sent(s)
  PROVE  /\ IsStatement(s)
         /\ Refused(s) \/ \A j \in Assigned(s) : IsValue(Target(s, j), s.vals[j])
  BY QueryAssumption DEF Sent

\* Where the values of a statement go, and as which bytes.
LEMMA TargetType ==
  ASSUME NEW s, Accepted(s), NEW j \in Assigned(s)
  PROVE  /\ j \in Nat \ {0}
         /\ s.vals[j] \in Value
         /\ Target(s, j) \in 1 .. N
         /\ IsValue(Target(s, j), s.vals[j])
         /\ Bytes(s, j) \in Seq(Byte)
  <1>1. /\ IsStatement(s) /\ ~Refused(s) /\ IsValue(Target(s, j), s.vals[j])
        /\ s.vals \in Seq(Value)
    BY SentType DEF Accepted, IsStatement
  <1>2. ColumnsOf(s) \in Seq(1 .. N)
    BY <1>1, ColumnsOfType
  <1>3. j \in Nat \ {0} /\ s.vals[j] \in Value
    <2>1. CASE s.verb = "INSERT"
      <3>1. j \in DOMAIN s.vals
        BY <2>1 DEF Assigned
      <3> QED BY <1>1, <3>1
    <2>2. CASE s.verb = "UPDATE"
      <3>1. j \in DOMAIN ColumnsOf(s) /\ ~(Len(s.vals) < Len(ColumnsOf(s)))
        BY <1>1, <2>2 DEF Assigned, Refused
      <3>2. j \in 1 .. Len(ColumnsOf(s)) /\ Len(ColumnsOf(s)) \in Nat /\ Len(s.vals) \in Nat
        BY <1>1, <1>2, <3>1
      <3>3. j \in 1 .. Len(s.vals) /\ j \in Nat \ {0}
        BY <3>1, <3>2
      <3> QED BY <1>1, <3>3
    <2>3. s.verb = "INSERT" \/ s.verb = "UPDATE"
      BY DEF Assigned
    <2> QED BY <2>1, <2>2, <2>3
  <1>4. Target(s, j) \in 1 .. N
    <2>1. CASE s.verb = "INSERT"
      <3>1. PICK n \in Nat \ {0} : n = N
        BY ColumnsType
      <3>2. j - 1 \in Nat
        BY <1>3
      <3>3. ((j - 1) % n) + 1 \in 1 .. n
        BY <3>2
      <3> QED BY <2>1, <3>1, <3>3 DEF Target, N
    <2>2. CASE s.verb # "INSERT"
      <3>1. j \in DOMAIN ColumnsOf(s)
        BY <2>2 DEF Assigned
      <3>2. Target(s, j) = ColumnsOf(s)[j]
        BY <2>2 DEF Target
      <3>3. PICK u, M : u = ColumnsOf(s) /\ u \in Seq(1 .. M) /\ M = N
        BY <1>2
      <3>4. u[j] \in 1 .. M
        <4>1. j \in DOMAIN u
          BY <3>1, <3>3
        <4>2. PICK D : D = 1 .. M
          OBVIOUS
        <4>3. u \in Seq(D)
          BY <3>3, <4>2
        <4>4. u[j] \in D
          BY <4>1, <4>3
        <4> QED BY <4>2, <4>4
      <3> QED BY <3>2, <3>3, <3>4
    <2> QED BY <2>1, <2>2
  <1>5. PICK i \in 1 .. N, v \in Value : i = Target(s, j) /\ v = s.vals[j] /\ IsValue(i, v)
    BY <1>1, <1>3, <1>4
  <1>6. Encode(i, v) \in Seq(Byte)
    BY <1>5, EncodeType
  <1>7. Columns[i].text => Resize(v, Columns[i].size) \in Seq(Byte)
    <2>1. SUFFICES ASSUME Columns[i].text PROVE Resize(v, Columns[i].size) \in Seq(Byte)
      OBVIOUS
    <2>2. Encode(i, v) = v /\ Columns[i].size \in Nat
      BY <2>1, ColumnsType DEF Encode, Size
    <2> QED BY <1>6, <2>2, ResizeType
  <1>8. Bytes(s, j) \in Seq(Byte)
    BY <1>5, <1>6, <1>7 DEF Bytes
  <1> QED BY <1>1, <1>3, <1>4, <1>8

-----------------------------------------------------------------------------
(***************************************************************************)
(* Lines of bytes.                                                         *)
(***************************************************************************)
LEMMA LengthType == LineLength \in Nat \ {0}
  <1>1. 1 \in 1 .. N
    BY ColumnsType
  <1> QED BY <1>1, ColumnEnds

LEMMA StoreType ==
  ASSUME NEW f \in ByteLines, NEW s \in Seq(Byte), NEW o \in Nat
  PROVE  Store(f, o, s) \in ByteLines
  <1>1. PICK L \in Nat \ {0} : L = LineLength
    BY LengthType
  <1>2. f \in [0 .. L - 1 -> Byte]
    BY <1>1 DEF ByteLines
  <1>3. PICK n \in Nat : n = Len(s)
    OBVIOUS
  <1>4. ASSUME NEW b \in 0 .. L - 1, b \in o .. o + n - 1 PROVE s[b - o + 1] \in Byte
    <2>1. b - o + 1 \in 1 .. n
      BY <1>4
    <2> QED BY <1>3, <2>1
  <1>5. Store(f, o, s) = [b \in 0 .. L - 1 |->
                             IF b \in o .. o + n - 1 THEN s[b - o + 1] ELSE f[b]]
    BY <1>2, <1>3 DEF Store
  <1>6. Store(f, o, s) \in [0 .. L - 1 -> Byte]
    BY <1>2, <1>4, <1>5
  <1> QED BY <1>1, <1>6 DEF ByteLines

LEMMA FlagType ==
  ASSUME NEW f \in ByteLines, NEW x \in Byte
  PROVE  /\ f[0] \in Byte
         /\ [f EXCEPT ![0] = x] \in ByteLines
         /\ [f EXCEPT ![0] = x][0] = x
  <1>1. PICK L \in Nat \ {0} : L = LineLength
    BY LengthType
  <1>2. f \in [0 .. L - 1 -> Byte] /\ 0 \in 0 .. L - 1
    BY <1>1 DEF ByteLines
  <1> QED BY <1>1, <1>2 DEF ByteLines

\* What a column holds is a value.
LEMMA CellType ==
  ASSUME NEW f \in ByteLines, NEW i \in 1 .. N
  PROVE  Cell(f, i) \in Value
  <1>1. PICK o \in Nat \ {0}, z \in Nat, L \in Nat \ {0} :
           o = Offset[i] /\ z = Size(i) /\ L = LineLength /\ o + z <= L
    BY ColumnEnds, ColumnsType
  <1>2. f \in [0 .. L - 1 -> Byte]
    BY <1>1 DEF ByteLines
  <1>3. ASSUME NEW h \in 0 .. z - 1 PROVE f[o + h] \in Byte /\ f[o + h] \in Nat
    <2>1. o + h \in 0 .. L - 1
      BY <1>1
    <2>2. f[o + h] \in Byte
      BY <1>2, <2>1
    <2> QED BY <2>2 DEF Byte
  <1>4. ReadText(f, o, z) \in Value
    <2>1. PICK n \in 0 .. z : EndsAt(f, o, z, n)
      BY TextEnds
    <2>2. ReadText(f, o, z) = Slice(f, o, n)
      BY <2>1, ReadTextIs
    <2>3. ASSUME NEW j \in 1 .. n PROVE f[o + j - 1] \in Nat
      <3>1. j - 1 \in 0 .. z - 1 /\ o + (j - 1) = o + j - 1
        OBVIOUS
      <3> QED BY <1>3, <3>1
    <2>4. Slice(f, o, n) \in Seq(Nat)
      BY <2>3 DEF Slice
    <2> QED BY <2>2, <2>4 DEF Value
  <1>5. ReadNumber(f, o, z) \in Value
    <2>1. PICK D : D = 0 .. z - 1
      OBVIOUS
    <2>2. IsFiniteSet(D)
      <3>1. 0 \in Int /\ z - 1 \in Int
        OBVIOUS
      <3> QED BY <2>1, <3>1, FS_Interval
    <2>3. PICK w : w = [j \in D |-> f[o + j] * Weight[j]]
      OBVIOUS
    <2>4. ASSUME NEW j \in D PROVE f[o + j] * Weight[j] \in Nat
      <3>1. PICK x \in Nat, y \in Nat : x = f[o + j] /\ y = Weight[j]
        <4>1. j \in 0 .. z - 1 /\ j \in Nat
          BY <2>1
        <4>2. f[o + j] \in Nat
          BY <1>3, <4>1
        <4>3. Weight[j] \in Nat
          BY <4>1, WeightIs
        <4> QED BY <4>2, <4>3
      <3> QED BY <3>1
    <2>5. w \in [D -> Nat]
      BY <2>3, <2>4
    <2>6. PICK W : IsSum(W, D, w)
      BY <2>2, <2>5, SumExists
    <2>7. Counts(f, o, D, w)
      BY <2>3, <2>5 DEF Counts
    <2>8. o \in Nat
      OBVIOUS
    <2>9. ReadNumber(f, o, z) = <<W[D]>>
      BY <2>1, <2>6, <2>7, <2>8, ReadNumberIs
    <2>10. PICK x \in Nat : x = W[D]
      BY <2>6 DEF IsSum
    <2>11. <<x>> \in Seq(Nat)
      OBVIOUS
    <2> QED BY <2>9, <2>10, <2>11, Zenon DEF Value
  <1> QED BY <1>1, <1>4, <1>5 DEF Cell, Size

Row(v) == /\ v \in Seq(Value) /\ Len(v) = Len(Columns)
          /\ \A i \in DOMAIN Columns : IsValue(i, v[i])

LEMMA ContentsAre == \A v \in Contents \cup Erased : Row(v)
  BY QueryAssumption DEF Row

\* The column a byte belongs to is the last that begins at or before it.
LEMMA ColumnOfByte ==
  ASSUME NEW i \in 1 .. N, NEW b \in Offset[i] .. Offset[i] + Size(i) - 1
  PROVE  Max({j \in DOMAIN Columns : Offset[j] <= b}) = i
  <1> DEFINE S == {j \in DOMAIN Columns : Offset[j] <= b}
  <1>1. PICK o \in Nat, z \in Nat : o = Offset[i] /\ z = Size(i) /\ b \in o .. o + z - 1
    BY OffsetIs, ColumnsType
  <1>2. i \in S
    BY <1>1, ColumnsType
  <1>3. N \in Nat /\ S \subseteq 0 .. N
    <2>1. N \in Nat /\ DOMAIN Columns = 1 .. N
      BY ColumnsType
    <2> HIDE DEF N
    <2> QED BY <2>1
  <1>4. Max(S) \in S /\ \A y \in S : y <= Max(S)
    <2> HIDE DEF S, N
    <2> QED BY <1>2, <1>3, MaxIs
  <1>5. PICK m \in 1 .. N : m = Max(S) /\ Offset[m] <= b /\ i <= m
    BY <1>2, <1>4, ColumnsType
  <1>6. m = i
    <2>1. SUFFICES ASSUME i # m PROVE FALSE
      OBVIOUS
    <2>2. m \in i + 1 .. N
      BY <1>5, <2>1, ColumnsType
    <2>3. Offset[i] + Size(i) <= Offset[m]
      BY <2>2, OffsetsAscend
    <2>4. PICK p \in Nat : p = Offset[m]
      BY <1>5, OffsetIs
    <2>5. o + z <= p /\ p <= b
      BY <1>1, <1>5, <2>3, <2>4, Zenon
    <2> QED BY <1>1, <2>5
  <1> QED BY <1>5, <1>6

\* The line of a row: its flag and the bytes of its values.
LEMMA RowLineIs ==
  ASSUME NEW v, Row(v)
  PROVE  /\ RowLine(v) \in ByteLines /\ RowLine(v)[0] = 1
         /\ \A i \in 1 .. N : \A h \in 0 .. Size(i) - 1 :
               RowLine(v)[Offset[i] + h] = Resize(Encode(i, v[i]), Size(i))[h + 1]
         /\ \A i \in 1 .. N : Resize(Encode(i, v[i]), Size(i)) \in Seq(Byte)
  <1>1. PICK L \in Nat \ {0} : L = LineLength
    BY LengthType
  <1>2. ASSUME NEW i \in 1 .. N
        PROVE  /\ Resize(Encode(i, v[i]), Size(i)) \in Seq(Byte)
               /\ Len(Resize(Encode(i, v[i]), Size(i))) = Size(i)
    <2>1. v[i] \in Value /\ IsValue(i, v[i])
      <3>1. i \in 1 .. Len(v) /\ v \in Seq(Value)
        BY DEF Row, N
      <3>2. v[i] \in Value
        BY <3>1
      <3> QED BY <3>2, ColumnsType DEF Row
    <2>2. Encode(i, v[i]) \in Seq(Byte) /\ Size(i) \in Nat
      BY <2>1, EncodeType, ColumnsType
    <2> QED BY <2>2, ResizeType
  <1> DEFINE Bt(b, j) == Resize(Encode(j, v[j]), Columns[j].size)[b - Offset[j] + 1]
             M(b) == Max({j \in DOMAIN Columns : Offset[j] <= b})
  <1>3. RowLine(v) = [b \in 0 .. L - 1 |-> IF b = 0 THEN 1 ELSE Bt(b, M(b))]
    BY <1>1 DEF RowLine
  <1>4. ASSUME NEW i \in 1 .. N, NEW h \in 0 .. Size(i) - 1
        PROVE  /\ Offset[i] + h \in 1 .. L - 1
               /\ RowLine(v)[Offset[i] + h] = Resize(Encode(i, v[i]), Size(i))[h + 1]
    <2>1. PICK o \in Nat \ {0}, z \in Nat :
             o = Offset[i] /\ z = Size(i) /\ o + z <= L
      BY <1>1, ColumnEnds, ColumnsType
    <2>2. o + h \in 1 .. L - 1 /\ o + h \in 0 .. L - 1 /\ o + h # 0 /\ o + h \in o .. o + z - 1
          /\ (o + h) - o + 1 = h + 1
      BY <2>1
    <2>3. M(o + h) = i
      BY <2>1, <2>2, ColumnOfByte
    <2> HIDE DEF M
    <2>4. RowLine(v)[o + h] = Bt(o + h, i)
      <3> HIDE DEF Bt
      <3> QED BY <1>3, <2>2, <2>3
    <2>5. Bt(o + h, i) = Resize(Encode(i, v[i]), Size(i))[(o + h) - o + 1]
      BY <2>1 DEF Size
    <2> HIDE DEF Bt
    <2> QED BY <2>1, <2>2, <2>4, <2>5
  <1>5. RowLine(v)[0] = 1 /\ RowLine(v) = [b \in 0 .. L - 1 |-> RowLine(v)[b]]
    <2> HIDE DEF M, Bt
    <2> QED BY <1>3
  <1>6. ASSUME NEW b \in 0 .. L - 1 PROVE RowLine(v)[b] \in Byte
    <2>1. CASE b = 0
      BY <1>5, <2>1 DEF Byte
    <2>2. CASE b # 0
      <3>1. b \in 1 .. L - 1
        BY <2>2
      <3>2. PICK i \in DOMAIN Columns : b \in Offset[i] .. Offset[i] + Columns[i].size - 1
        BY <1>1, <3>1, ColumnsPartitionLine
      <3>3. i \in 1 .. N
        BY ColumnsType
      <3>4. PICK o \in Nat \ {0}, z \in Nat :
               o = Offset[i] /\ z = Size(i) /\ o + z <= L /\ b \in o .. o + z - 1
        BY <1>1, <3>2, <3>3, ColumnEnds, ColumnsType DEF Size
      <3>5. PICK h \in 0 .. z - 1 : o + h = b /\ h + 1 \in 1 .. z
        <4>1. b - o \in 0 .. z - 1 /\ o + (b - o) = b
          BY <3>4
        <4> QED BY <4>1
      <3>6. PICK u : u = Resize(Encode(i, v[i]), Size(i)) /\ u \in Seq(Byte) /\ Len(u) = z
        BY <1>2, <3>3, <3>4
      <3>7. RowLine(v)[b] = u[h + 1]
        BY <1>4, <3>3, <3>4, <3>5, <3>6
      <3> QED BY <3>5, <3>6, <3>7
    <2> QED BY <2>1, <2>2
  <1>7. RowLine(v) \in ByteLines
    BY <1>1, <1>5, <1>6 DEF ByteLines
  <1> QED BY <1>2, <1>4, <1>5, <1>7

-----------------------------------------------------------------------------
(***************************************************************************)
(* Sorting by rank.                                                        *)
(***************************************************************************)
\* R is a strict total order on the positions 1 .. n.
TotalOrder(R, n) ==
    /\ \A j \in 1 .. n : <<j, j>> \notin R
    /\ \A h, j, m \in 1 .. n : <<h, j>> \in R /\ <<j, m>> \in R => <<h, m>> \in R
    /\ \A h, j \in 1 .. n : h # j => <<h, j>> \in R \/ <<j, h>> \in R

Below(R, n, j) == {h \in 1 .. n : <<h, j>> \in R}

\* Counting those in front gives each position its place.
LEMMA RanksAre ==
  ASSUME NEW n \in Nat, NEW R, TotalOrder(R, n)
  PROVE  \E rank \in [1 .. n -> 0 .. n - 1] :
            /\ \A j \in 1 .. n : rank[j] = Cardinality(Below(R, n, j))
            /\ \A h, j \in 1 .. n : <<h, j>> \in R => rank[h] < rank[j]
            /\ \A m \in 0 .. n - 1 : \E j \in 1 .. n : rank[j] = m
  <1>1. PICK D : D = 1 .. n
    OBVIOUS
  <1>2. IsFiniteSet(D) /\ Cardinality(D) = n
    <2>1. 1 \in Int /\ n \in Int
      OBVIOUS
    <2>2. Cardinality(1 .. n) = IF 1 > n THEN 0 ELSE n - 1 + 1
      BY <2>1, FS_Interval
    <2>3. Cardinality(1 .. n) = n
      BY <2>2
    <2> QED BY <1>1, <2>1, <2>3, FS_Interval
  <1>3. /\ \A j \in D : <<j, j>> \notin R
        /\ \A h, j, m \in D : <<h, j>> \in R /\ <<j, m>> \in R => <<h, m>> \in R
        /\ \A h, j \in D : h # j => <<h, j>> \in R \/ <<j, h>> \in R
    BY <1>1 DEF TotalOrder
  <1> DEFINE B(j) == Below(R, n, j)
             rank == [j \in D |-> Cardinality(B(j))]
  <1>4. ASSUME NEW j \in D
        PROVE  /\ B(j) = {h \in D : <<h, j>> \in R} /\ B(j) \in SUBSET (D \ {j})
               /\ IsFiniteSet(B(j)) /\ Cardinality(B(j)) \in 0 .. n - 1
    <2>1. B(j) = {h \in D : <<h, j>> \in R}
      BY <1>1 DEF Below
    <2> HIDE DEF B
    <2>2. B(j) \in SUBSET (D \ {j})
      BY <1>3, <2>1
    <2>3. IsFiniteSet(D \ {j}) /\ Cardinality(D \ {j}) = n - 1
      BY <1>2, FS_RemoveElement
    <2>4. IsFiniteSet(B(j)) /\ Cardinality(B(j)) <= n - 1
      BY <2>2, <2>3, FS_Subset
    <2>5. Cardinality(B(j)) \in Nat
      BY <2>4, FS_CardinalityType
    <2> QED BY <2>1, <2>2, <2>4, <2>5
  <1> HIDE DEF B
  <1>5. rank \in [D -> 0 .. n - 1]
    BY <1>4
  <1>6. ASSUME NEW h \in D, NEW j \in D, <<h, j>> \in R
        PROVE  rank[h] < rank[j]
    <2>1. B(h) \in SUBSET B(j)
      <3>1. \A m \in D : m \in B(h) <=> <<m, h>> \in R
        BY <1>4
      <3>2. \A m \in D : m \in B(j) <=> <<m, j>> \in R
        BY <1>4
      <3>3. \A m \in D : <<m, h>> \in R => <<m, j>> \in R
        BY <1>3, <1>6, Zenon
      <3>4. B(h) \subseteq D
        BY <1>4
      <3> QED BY <3>1, <3>2, <3>3, <3>4, Zenon
    <2>2. h \in B(j) /\ h \notin B(h)
      BY <1>3, <1>4, <1>6
    <2>3. Cardinality(B(h)) <= Cardinality(B(j)) /\ Cardinality(B(h)) # Cardinality(B(j))
      BY <1>4, <2>1, <2>2, FS_Subset
    <2>4. PICK x \in Nat, y \in Nat : x = Cardinality(B(h)) /\ y = Cardinality(B(j))
      BY <1>4
    <2>5. rank[h] = x /\ rank[j] = y /\ x <= y /\ x # y
      BY <2>3, <2>4
    <2> HIDE DEF rank
    <2> QED BY <2>5
  <1>7. \A j \in D : rank[j] = Cardinality(Below(R, n, j))
    BY DEF B
  <1> HIDE DEF rank
  <1>8. PICK E : E = 0 .. n - 1
    OBVIOUS
  <1>9. IsFiniteSet(E) /\ Cardinality(E) = n
    <2>1. 0 \in Int /\ n - 1 \in Int
      OBVIOUS
    <2>2. Cardinality(0 .. n - 1) = IF 0 > n - 1 THEN 0 ELSE n - 1 - 0 + 1
      BY <2>1, FS_Interval
    <2>3. Cardinality(0 .. n - 1) = n
      BY <2>2
    <2> QED BY <1>8, <2>1, <2>3, FS_Interval
  <1>10. rank \in Injection(D, E)
    <2>1. ASSUME NEW h \in D, NEW j \in D, rank[h] = rank[j] PROVE h = j
      <3>1. SUFFICES ASSUME h # j PROVE FALSE
        OBVIOUS
      <3>2. rank[h] \in 0 .. n - 1 /\ rank[j] \in 0 .. n - 1
        BY <1>5
      <3>3. rank[h] < rank[j] \/ rank[j] < rank[h]
        BY <1>3, <1>6, <3>1
      <3> QED BY <2>1, <3>2, <3>3
    <2> QED BY <1>5, <1>8, <2>1 DEF Injection, IsInjective
  <1>11. rank \in Surjection(D, E)
    BY <1>2, <1>9, <1>10, FS_Injection
  <1>12. \A m \in E : \E j \in D : rank[j] = m
    BY <1>11 DEF Surjection
  <1> QED BY <1>1, <1>5, <1>6, <1>7, <1>8, <1>12

\* Before is a strict total order on the records of a body.
InTotalOrder(s, body) ==
    /\ \A j \in DOMAIN body : ~Before(s, body[j], body[j])
    /\ \A h, j, m \in DOMAIN body :
          Before(s, body[h], body[j]) /\ Before(s, body[j], body[m]) =>
              Before(s, body[h], body[m])
    /\ \A h, j \in DOMAIN body :
          h # j => Before(s, body[h], body[j]) \/ Before(s, body[j], body[h])

\* The records of body in a new order, p[m] being the old place of record m.
Permutes(p, n, body, new) ==
    /\ p \in [1 .. n -> 1 .. n]
    /\ \A m, h \in 1 .. n : p[m] = p[h] => m = h
    /\ \A j \in 1 .. n : \E m \in 1 .. n : p[m] = j
    /\ new = [m \in 1 .. n |-> body[p[m]]]

LEMMA SortedIs ==
  ASSUME NEW X, NEW s, NEW body \in Seq(X), InTotalOrder(s, body)
  PROVE  \E p : /\ Permutes(p, Len(body), body, Sorted(s, body))
                /\ \A m, h \in 1 .. Len(body) : m < h =>
                      Before(s, body[p[m]], body[p[h]])
  <1>1. PICK n \in Nat : n = Len(body) /\ DOMAIN body = 1 .. n
    OBVIOUS
  <1> DEFINE R == {x \in (1 .. n) \X (1 .. n) : Before(s, body[x[1]], body[x[2]])}
  <1>2. \A h, j \in 1 .. n : <<h, j>> \in R <=> Before(s, body[h], body[j])
    OBVIOUS
  <1> HIDE DEF R
  <1>3. TotalOrder(R, n)
    BY <1>1, <1>2 DEF TotalOrder, InTotalOrder
  <1>4. PICK rank \in [1 .. n -> 0 .. n - 1] :
            /\ \A j \in 1 .. n : rank[j] = Cardinality(Below(R, n, j))
            /\ \A h, j \in 1 .. n : <<h, j>> \in R => rank[h] < rank[j]
            /\ \A m \in 0 .. n - 1 : \E j \in 1 .. n : rank[j] = m
    BY <1>3, RanksAre
  <1>5. ASSUME NEW j \in 1 .. n PROVE Rank(s, body, j) = rank[j]
    <2>1. {h \in DOMAIN body : Before(s, body[h], body[j])} = Below(R, n, j)
      BY <1>1, <1>2 DEF Below
    <2> QED BY <1>4, <2>1 DEF Rank
  <1> DEFINE p == [m \in 1 .. n |-> CHOOSE j \in DOMAIN body : Rank(s, body, j) = m - 1]
  <1>6. ASSUME NEW m \in 1 .. n PROVE p[m] \in 1 .. n /\ rank[p[m]] = m - 1
    <2>1. m - 1 \in 0 .. n - 1
      OBVIOUS
    <2>2. PICK j \in 1 .. n : rank[j] = m - 1
      BY <1>4, <2>1
    <2>3. j \in DOMAIN body /\ Rank(s, body, j) = m - 1
      BY <1>1, <1>5, <2>2
    <2>4. p[m] \in DOMAIN body /\ Rank(s, body, p[m]) = m - 1
      BY <2>3
    <2> QED BY <1>1, <1>5, <2>4
  <1>7. Sorted(s, body) = [m \in 1 .. n |-> body[p[m]]]
    BY <1>1 DEF Sorted
  <1> HIDE DEF p
  <1>8. ASSUME NEW m \in 1 .. n, NEW h \in 1 .. n, p[m] = p[h] PROVE m = h
    <2>1. m - 1 = h - 1
      BY <1>6, <1>8
    <2> QED BY <2>1
  <1>9. ASSUME NEW h \in 1 .. n, NEW j \in 1 .. n, rank[h] = rank[j] PROVE h = j
    <2>1. SUFFICES ASSUME h # j PROVE FALSE
      OBVIOUS
    <2>2. rank[h] < rank[j] \/ rank[j] < rank[h]
      BY <1>3, <1>4, <2>1 DEF TotalOrder
    <2>3. rank[h] \in Nat /\ rank[j] \in Nat
      OBVIOUS
    <2> QED BY <1>9, <2>2, <2>3
  <1>10. ASSUME NEW j \in 1 .. n PROVE \E m \in 1 .. n : p[m] = j
    <2>1. rank[j] \in 0 .. n - 1
      OBVIOUS
    <2>2. PICK m \in 1 .. n : m - 1 = rank[j]
      <3>1. rank[j] + 1 \in 1 .. n /\ (rank[j] + 1) - 1 = rank[j]
        BY <2>1
      <3> QED BY <3>1
    <2> QED BY <1>6, <1>9, <2>2
  <1>11. ASSUME NEW m \in 1 .. n, NEW h \in 1 .. n, m < h
         PROVE  Before(s, body[p[m]], body[p[h]])
    <2>1. p[m] \in 1 .. n /\ p[h] \in 1 .. n /\ rank[p[m]] < rank[p[h]]
      BY <1>6, <1>11
    <2>2. PICK x \in 1 .. n, y \in 1 .. n : x = p[m] /\ y = p[h]
      BY <2>1
    <2>3. rank[x] < rank[y] /\ rank[x] \in Nat /\ rank[y] \in Nat
      <3>1. rank[x] < rank[y]
        BY <2>1, <2>2, Zenon
      <3>2. rank[x] \in 0 .. n - 1 /\ rank[y] \in 0 .. n - 1
        OBVIOUS
      <3> QED BY <3>1, <3>2
    <2>4. <<x, y>> \in R
      <3>1. SUFFICES ASSUME <<x, y>> \notin R PROVE FALSE
        OBVIOUS
      <3>2. x # y
        BY <2>3
      <3>3. <<y, x>> \in R
        BY <1>3, <3>1, <3>2 DEF TotalOrder
      <3>4. rank[y] < rank[x]
        BY <1>4, <3>3
      <3> QED BY <2>3, <3>4
    <2> QED BY <1>2, <2>2, <2>4
  <1>12. p \in [1 .. n -> 1 .. n]
    <2>1. p = [m \in 1 .. n |-> p[m]]
      BY DEF p
    <2> QED BY <1>6, <2>1
  <1>13. Permutes(p, n, body, Sorted(s, body))
    BY <1>7, <1>8, <1>10, <1>12 DEF Permutes
  <1> QED BY <1>1, <1>11, <1>13

-----------------------------------------------------------------------------
(***************************************************************************)
(* Records and their order.                                                *)
(***************************************************************************)
\* A record: the id, and for a SELECT the columns.
Width(s) == IF s.verb = "SELECT" THEN Len(ColumnsOf(s)) + 1 ELSE 1

IsRecord(s, b) ==
    /\ b \in Seq(Value) /\ Len(b) = Width(s)
    /\ b[1][1] \in Nat

LEMMA WidthType ==
  ASSUME NEW s, IsStatement(s), ~Refused(s)
  PROVE  Width(s) \in Nat \ {0}
  <1>1. ColumnsOf(s) \in Seq(1 .. N)
    BY ColumnsOfType
  <1>2. Len(ColumnsOf(s)) \in Nat
    BY <1>1
  <1> QED BY <1>2 DEF Width

LEMMA ColumnsLength ==
  ASSUME NEW s, IsStatement(s), ~Refused(s), NEW m \in 0 .. Len(s.cols),
         \/ m = Len(s.cols) /\ ColumnsOf(s) = [j \in 1 .. m |-> ColumnId(s.cols[j])]
         \/ ColumnsOf(s) = [j \in 1 .. m |-> ColumnId(s.cols[j])] \o [j \in 1 .. N |-> j]
  PROVE  /\ Len(ColumnsOf(s)) \in {m, m + N}
         /\ \A j \in 1 .. m : ColumnsOf(s)[j] = ColumnId(s.cols[j])
         /\ Len(ColumnsOf(s)) = m \/ \A j \in 1 .. N : ColumnsOf(s)[m + j] = j
  <1> DEFINE a == [j \in 1 .. m |-> ColumnId(s.cols[j])]
             b == [j \in 1 .. N |-> j]
  <1>1. N \in Nat /\ m \in Nat
    BY ColumnsType DEF IsStatement
  <1> HIDE DEF N
  <1>2. a \in Seq({ColumnId(s.cols[j]) : j \in 1 .. m}) /\ Len(a) = m
    BY <1>1
  <1>3. b \in Seq(Nat) /\ Len(b) = N
    BY <1>1
  <1>4. /\ \A j \in 1 .. m : a[j] = ColumnId(s.cols[j])
        /\ \A j \in 1 .. N : b[j] = j
    OBVIOUS
  <1>5. ColumnsOf(s) = a \/ ColumnsOf(s) = a \o b
    OBVIOUS
  <1> HIDE DEF a, b
  <1>6. CASE ColumnsOf(s) = a
    BY <1>2, <1>4, <1>6
  <1>7. CASE ColumnsOf(s) = a \o b
    <2>1. PICK t : t = a \o b
      OBVIOUS
    <2>2. PICK X : a \in Seq(X) /\ Len(a) = m /\ Len(b) = N /\ b \in Seq(Nat)
      BY <1>2, <1>3
    <2>6. Len(t) = m + N
      <3>1. a \in Seq(X) /\ b \in Seq(Nat)
        BY <2>2
      <3>2. Len(a \o b) = Len(a) + Len(b)
        BY <3>1
      <3> QED BY <2>1, <2>2, <3>2, Zenon
    <2>3. \A h \in 1 .. m + N : t[h] = IF h <= m THEN a[h] ELSE b[h - m]
      BY <2>1, <2>2
    <2>4. \A j \in 1 .. m : t[j] = a[j]
      BY <1>1, <2>3
    <2>5. ASSUME NEW j \in 1 .. N PROVE t[m + j] = b[j]
      <3>1. m + j \in 1 .. m + N /\ ~(m + j <= m) /\ (m + j) - m = j
        BY <1>1
      <3> QED BY <2>3, <3>1
    <2> QED BY <1>4, <1>7, <2>1, <2>6, <2>4, <2>5
  <1> QED BY <1>5, <1>6, <1>7

\* optimizeOrdering finds a place in the record.
LEMMA KeyAtType ==
  ASSUME NEW s, IsStatement(s), ~Refused(s), NEW j \in DOMAIN OrderOf(s)
  PROVE  KeyAt(s, OrderOf(s)[j].col) \in 1 .. Width(s)
  <1>1. PICK W \in Nat \ {0} : W = Width(s)
    BY WidthType
  <1>2. PICK name : name = OrderOf(s)[j].col
    OBVIOUS
  <1>3. CASE IsId(name)
    BY <1>1, <1>2, <1>3 DEF KeyAt
  <1>4. CASE ~IsId(name)
    <2>1. Places(s, name) # {} /\ Known(name)
      <3>1. OrderOf(s)[j] \in Range(OrderOf(s))
        BY DEF Range
      <3> QED BY <1>2, <1>4, <3>1 DEF Refused
    <2>2. s.verb = "SELECT"
      <3>1. OrderOf(s) # <<>>
        OBVIOUS
      <3> QED BY <3>1 DEF OrderOf
    <2>3. PICK m \in 0 .. Len(s.cols) :
            /\ \A h \in 1 .. m : s.cols[h] # "*" /\ Known(s.cols[h])
            /\ \/ /\ m = Len(s.cols)
                  /\ ColumnsOf(s) = [h \in 1 .. m |-> ColumnId(s.cols[h])]
               \/ /\ m < Len(s.cols) /\ s.cols[m + 1] = "*"
                  /\ ColumnsOf(s) = [h \in 1 .. m |-> ColumnId(s.cols[h])]
                                       \o [h \in 1 .. N |-> h]
      BY ColumnsOfType
    <2>4. /\ Len(ColumnsOf(s)) \in {m, m + N}
          /\ m = Len(s.cols) \/ (m < Len(s.cols) /\ s.cols[m + 1] = "*" /\ Len(ColumnsOf(s)) = m + N)
      <3>1. Len(ColumnsOf(s)) \in {m, m + N}
        BY <2>3, ColumnsLength
      <3>2. CASE m = Len(s.cols)
        BY <3>1, <3>2
      <3>3. CASE m # Len(s.cols)
        <4>1. ColumnsOf(s) = [h \in 1 .. m |-> ColumnId(s.cols[h])] \o [h \in 1 .. N |-> h]
          BY <2>3, <3>3
        <4>2. N \in Nat /\ m \in Nat
          BY ColumnsType DEF IsStatement
        <4> HIDE DEF N
        <4>3. Len([h \in 1 .. m |-> ColumnId(s.cols[h])] \o [h \in 1 .. N |-> h]) = m + N
          BY <4>2
        <4> QED BY <2>3, <3>1, <3>3, <4>1, <4>3
      <3> QED BY <3>2, <3>3
    <2>5. PICK L \in Nat : L = Len(s.cols) /\ DOMAIN s.cols = 1 .. L
      BY DEF IsStatement
    <2>6. PICK h \in 1 .. L : h = Min(Places(s, name)) /\ s.cols[h] \in {"*", name}
                              /\ \A y \in Places(s, name) : h <= y
      <3>1. Places(s, name) \subseteq Nat
        BY <2>5 DEF Places
      <3>2. Min(Places(s, name)) \in Places(s, name)
            /\ \A y \in Places(s, name) : Min(Places(s, name)) <= y
        BY <2>1, <3>1, MinIs
      <3>3. PICK x : x = Min(Places(s, name))
        OBVIOUS
      <3>4. x \in Places(s, name) /\ \A y \in Places(s, name) : x <= y
        BY <3>2, <3>3
      <3>5. x \in 1 .. L /\ s.cols[x] \in {"*", name}
        BY <2>5, <3>4 DEF Places
      <3> QED BY <3>3, <3>4, <3>5
    <2>7. PICK n \in Nat : n = N
      BY ColumnsType
    <2>8. CASE s.cols[h] = "*"
      <3>1. KeyAt(s, name) = ColumnId(name) + 1
        BY <1>4, <2>6, <2>8 DEF KeyAt
      <3>2. ColumnId(name) \in 1 .. n
        BY <2>1, <2>7, ColumnIdType
      <3>3. ~(h <= m)
        <4>1. SUFFICES ASSUME h <= m PROVE FALSE
          OBVIOUS
        <4>2. h \in 1 .. m
          BY <2>5, <4>1
        <4> QED BY <2>3, <2>8, <4>2
      <3>4. m # Len(s.cols)
        BY <2>5, <2>6, <3>3
      <3>5. W = m + n + 1 /\ m \in Nat
        BY <1>1, <2>2, <2>4, <2>5, <2>7, <3>4 DEF Width
      <3> QED BY <1>1, <1>2, <3>1, <3>2, <3>5
    <2>9. CASE s.cols[h] # "*"
      <3>1. KeyAt(s, name) = h + 1
        BY <1>4, <2>6, <2>9 DEF KeyAt
      <3>2. h <= m
        <4>1. SUFFICES ASSUME ~(h <= m) PROVE FALSE
          OBVIOUS
        <4>2. m # Len(s.cols) /\ m \in Nat
          BY <2>5, <4>1
        <4>3. s.cols[m + 1] = "*" /\ m + 1 \in 1 .. L
          BY <2>4, <2>5, <4>2
        <4>4. m + 1 \in Places(s, name)
          BY <2>5, <4>3 DEF Places
        <4>5. h <= m + 1
          BY <2>6, <4>4
        <4>6. h = m + 1
          BY <4>1, <4>2, <4>5
        <4> QED BY <2>9, <4>3, <4>6
      <3>3. W \in {m + 1, m + n + 1} /\ m \in Nat
        BY <1>1, <2>2, <2>4, <2>5, <2>7 DEF Width
      <3> QED BY <1>1, <1>2, <3>1, <3>2, <3>3
    <2> QED BY <2>8, <2>9
  <1> QED BY <1>3, <1>4

\* What record b is sorted by, at place j of the ORDER BY.
SortKey(s, b, j) == b[KeyAt(s, OrderOf(s)[j].col)]

\* Value x stands in front of y by item j of the ORDER BY.
Precedes(s, j, x, y) == IF OrderOf(s)[j].dir = "ASC" THEN Less(y, x) ELSE Less(x, y)

SameUpTo(s, a, b, n) == \A h \in 1 .. n : SortKey(s, a, h) = SortKey(s, b, h)

\* Item j of the ORDER BY is the first that tells a and b apart.
DecidedAt(s, a, b, j) ==
    /\ j \in 1 .. Len(OrderOf(s))
    /\ SameUpTo(s, a, b, j - 1)
    /\ Precedes(s, j, SortKey(s, a, j), SortKey(s, b, j))

LEMMA SortKeyType ==
  ASSUME NEW s, IsStatement(s), ~Refused(s), NEW b, IsRecord(s, b),
         NEW j \in 1 .. Len(OrderOf(s))
  PROVE  SortKey(s, b, j) \in Seq(Nat)
  <1>1. j \in DOMAIN OrderOf(s)
    BY Clauses
  <1>2. PICK k \in 1 .. Width(s) : k = KeyAt(s, OrderOf(s)[j].col)
    BY <1>1, KeyAtType
  <1>3. b \in Seq(Value) /\ k \in 1 .. Len(b)
    BY DEF IsRecord
  <1>4. b[k] \in Value
    BY <1>3
  <1> QED BY <1>2, <1>4 DEF SortKey, Value

LEMMA PrecedesIsOrder ==
  ASSUME NEW s, NEW j
  PROVE  /\ \A v \in Seq(Nat) : ~Precedes(s, j, v, v)
         /\ \A u, v, w \in Seq(Nat) :
               Precedes(s, j, u, v) /\ Precedes(s, j, v, w) => Precedes(s, j, u, w)
         /\ \A v, w \in Seq(Nat) : v # w => Precedes(s, j, v, w) \/ Precedes(s, j, w, v)
  <1>1. CASE OrderOf(s)[j].dir = "ASC"
    BY <1>1, LessIsStrictTotalOrder DEF Precedes
  <1>2. CASE OrderOf(s)[j].dir # "ASC"
    BY <1>2, LessIsStrictTotalOrder DEF Precedes
  <1> QED BY <1>1, <1>2

\* The comparison of stable_sort: the first difference decides.
LEMMA BeforeIs ==
  ASSUME NEW s, IsStatement(s), ~Refused(s), NEW a, IsRecord(s, a), NEW b, IsRecord(s, b)
  PROVE  Before(s, a, b) <=>
            \/ \E j : DecidedAt(s, a, b, j)
            \/ SameUpTo(s, a, b, Len(OrderOf(s))) /\ a[1][1] < b[1][1]
  <1>1. PICK n \in Nat : n = Len(OrderOf(s)) /\ DOMAIN OrderOf(s) = 1 .. n
    BY Clauses
  <1> DEFINE differ == {j \in DOMAIN OrderOf(s) : SortKey(s, a, j) # SortKey(s, b, j)}
  <1>2. Before(s, a, b) <=>
           IF differ = {} THEN a[1][1] < b[1][1]
           ELSE Precedes(s, Min(differ), SortKey(s, a, Min(differ)), SortKey(s, b, Min(differ)))
    BY Zenon DEF Before, SortKey, Precedes
  <1>3. differ \subseteq Nat
    BY <1>1
  <1>4. CASE differ = {}
    <2>1. SameUpTo(s, a, b, n)
      BY <1>1, <1>4 DEF SameUpTo
    <2>2. ASSUME NEW j, DecidedAt(s, a, b, j) PROVE FALSE
      <3>1. j \in 1 .. n /\ Precedes(s, j, SortKey(s, a, j), SortKey(s, b, j))
        BY <1>1, <2>2 DEF DecidedAt
      <3>2. SortKey(s, a, j) = SortKey(s, b, j)
        BY <2>1, <3>1 DEF SameUpTo
      <3>3. SortKey(s, a, j) \in Seq(Nat)
        BY <1>1, <3>1, SortKeyType
      <3> QED BY <3>1, <3>2, <3>3, PrecedesIsOrder
    <2> QED BY <1>1, <1>2, <1>4, <2>1, <2>2
  <1>5. CASE differ # {}
    <2>1. Min(differ) \in differ /\ \A y \in differ : Min(differ) <= y
      <3> HIDE DEF differ
      <3> QED BY <1>3, <1>5, MinIs
    <2>2. PICK m \in 1 .. n : m = Min(differ) /\ SortKey(s, a, m) # SortKey(s, b, m)
      BY <1>1, <2>1
    <2>3. SameUpTo(s, a, b, m - 1)
      <3>1. ASSUME NEW h \in 1 .. m - 1 PROVE SortKey(s, a, h) = SortKey(s, b, h)
        <4>1. h \in 1 .. n /\ ~(m <= h)
          OBVIOUS
        <4>2. h \notin differ
          BY <2>1, <2>2, <4>1
        <4> QED BY <1>1, <4>1, <4>2
      <3> QED BY <3>1 DEF SameUpTo
    <2>4. ~SameUpTo(s, a, b, n)
      BY <2>2 DEF SameUpTo
    <2>5. ASSUME NEW j, DecidedAt(s, a, b, j) PROVE j = m
      <3>1. /\ j \in 1 .. n /\ SameUpTo(s, a, b, j - 1)
            /\ Precedes(s, j, SortKey(s, a, j), SortKey(s, b, j))
        BY <1>1, <2>5 DEF DecidedAt
      <3>2. SortKey(s, a, j) \in Seq(Nat)
        BY <1>1, <3>1, SortKeyType
      <3>3. SortKey(s, a, j) # SortKey(s, b, j)
        BY <3>1, <3>2, PrecedesIsOrder
      <3>4. ~(j < m)
        <4>1. SUFFICES ASSUME j < m PROVE FALSE
          OBVIOUS
        <4>2. j \in 1 .. m - 1
          BY <3>1, <4>1
        <4> QED BY <2>3, <3>3, <4>2 DEF SameUpTo
      <3>5. ~(m < j)
        <4>1. SUFFICES ASSUME m < j PROVE FALSE
          OBVIOUS
        <4>2. m \in 1 .. j - 1
          BY <3>1, <4>1
        <4> QED BY <2>2, <3>1, <4>2 DEF SameUpTo
      <3> QED BY <3>1, <3>4, <3>5
    <2>6. Before(s, a, b) <=> Precedes(s, m, SortKey(s, a, m), SortKey(s, b, m))
      BY <1>2, <1>5, <2>2
    <2>7. Before(s, a, b) <=> DecidedAt(s, a, b, m)
      BY <1>1, <2>3, <2>6 DEF DecidedAt
    <2> QED BY <1>1, <2>4, <2>5, <2>7
  <1> QED BY <1>4, <1>5

\* Records with different ids are in a total order.
LEMMA BeforeIsOrder ==
  ASSUME NEW s, IsStatement(s), ~Refused(s), NEW body,
         \A j \in DOMAIN body : IsRecord(s, body[j]),
         \A h, j \in DOMAIN body : body[h][1][1] = body[j][1][1] => h = j
  PROVE  InTotalOrder(s, body)
  <1>1. PICK n \in Nat : n = Len(OrderOf(s))
    BY Clauses
  <1> DEFINE Rec(a) == IsRecord(s, a)
  <1>2. \A a : Rec(a) => a[1][1] \in Nat
    BY DEF IsRecord
  <1>3. \A a, b : Rec(a) /\ Rec(b) =>
           (Before(s, a, b) <=> \/ \E j : DecidedAt(s, a, b, j)
                                \/ SameUpTo(s, a, b, n) /\ a[1][1] < b[1][1])
    BY <1>1, BeforeIs
  <1>4. \A a, b, j : DecidedAt(s, a, b, j) <=>
                        /\ j \in 1 .. n /\ SameUpTo(s, a, b, j - 1)
                        /\ Precedes(s, j, SortKey(s, a, j), SortKey(s, b, j))
    BY <1>1 DEF DecidedAt
  <1>5. \A a, j : Rec(a) /\ j \in 1 .. n => SortKey(s, a, j) \in Seq(Nat)
    BY <1>1, SortKeyType
  <1> HIDE DEF Rec
  <1>6. ASSUME NEW a, Rec(a) PROVE ~Before(s, a, a)
    <2>1. SUFFICES ASSUME Before(s, a, a) PROVE FALSE
      OBVIOUS
    <2>2. ~(a[1][1] < a[1][1])
      BY <1>2, <1>6
    <2>3. PICK j : DecidedAt(s, a, a, j)
      BY <1>3, <1>6, <2>1, <2>2
    <2> QED BY <1>4, <1>5, <1>6, <2>3, PrecedesIsOrder
  <1>7. ASSUME NEW a, NEW b, NEW d, Rec(a), Rec(b), Rec(d), Before(s, a, b), Before(s, b, d)
        PROVE  Before(s, a, d)
    <2>1. CASE \E j : DecidedAt(s, a, b, j)
      <3>1. PICK j : DecidedAt(s, a, b, j)
        BY <2>1
      <3>2. /\ j \in 1 .. n /\ SameUpTo(s, a, b, j - 1)
            /\ Precedes(s, j, SortKey(s, a, j), SortKey(s, b, j))
        BY <1>4, <3>1
      <3>3. CASE \E i : DecidedAt(s, b, d, i)
        <4>1. PICK i : DecidedAt(s, b, d, i)
          BY <3>3
        <4>2. /\ i \in 1 .. n /\ SameUpTo(s, b, d, i - 1)
              /\ Precedes(s, i, SortKey(s, b, i), SortKey(s, d, i))
          BY <1>4, <4>1
        <4>3. CASE j < i
          <5>1. j \in 1 .. i - 1 /\ \A h \in 1 .. j - 1 : h \in 1 .. i - 1
            BY <3>2, <4>2, <4>3
          <5>2. SameUpTo(s, a, d, j - 1) /\ SortKey(s, b, j) = SortKey(s, d, j)
            BY <3>2, <4>2, <5>1 DEF SameUpTo
          <5>3. DecidedAt(s, a, d, j)
            BY <1>4, <3>2, <5>2
          <5> QED BY <1>3, <1>7, <5>3
        <4>4. CASE i < j
          <5>1. i \in 1 .. j - 1 /\ \A h \in 1 .. i - 1 : h \in 1 .. j - 1
            BY <3>2, <4>2, <4>4
          <5>2. SameUpTo(s, a, d, i - 1) /\ SortKey(s, a, i) = SortKey(s, b, i)
            BY <3>2, <4>2, <5>1 DEF SameUpTo
          <5>3. DecidedAt(s, a, d, i)
            BY <1>4, <4>2, <5>2
          <5> QED BY <1>3, <1>7, <5>3
        <4>5. CASE i = j
          <5>1. SameUpTo(s, a, d, j - 1)
            BY <3>2, <4>2, <4>5 DEF SameUpTo
          <5>2. Precedes(s, j, SortKey(s, a, j), SortKey(s, d, j))
            BY <1>5, <1>7, <3>2, <4>2, <4>5, PrecedesIsOrder
          <5>3. DecidedAt(s, a, d, j)
            BY <1>4, <3>2, <5>1, <5>2
          <5> QED BY <1>3, <1>7, <5>3
        <4> QED BY <3>2, <4>2, <4>3, <4>4, <4>5
      <3>4. CASE SameUpTo(s, b, d, n)
        <4>1. SameUpTo(s, a, d, j - 1) /\ SortKey(s, b, j) = SortKey(s, d, j)
          <5>1. \A h \in 1 .. j - 1 : h \in 1 .. n
            BY <3>2
          <5> QED BY <3>2, <3>4, <5>1 DEF SameUpTo
        <4>2. DecidedAt(s, a, d, j)
          BY <1>4, <3>2, <4>1
        <4> QED BY <1>3, <1>7, <4>2
      <3> QED BY <1>3, <1>7, <3>3, <3>4
    <2>2. CASE SameUpTo(s, a, b, n) /\ a[1][1] < b[1][1]
      <3>1. CASE \E i : DecidedAt(s, b, d, i)
        <4>1. PICK i : DecidedAt(s, b, d, i)
          BY <3>1
        <4>2. /\ i \in 1 .. n /\ SameUpTo(s, b, d, i - 1)
              /\ Precedes(s, i, SortKey(s, b, i), SortKey(s, d, i))
          BY <1>4, <4>1
        <4>3. SameUpTo(s, a, d, i - 1) /\ SortKey(s, a, i) = SortKey(s, b, i)
          <5>1. \A h \in 1 .. i - 1 : h \in 1 .. n
            BY <4>2
          <5> QED BY <2>2, <4>2, <5>1 DEF SameUpTo
        <4>4. DecidedAt(s, a, d, i)
          BY <1>4, <4>2, <4>3
        <4> QED BY <1>3, <1>7, <4>4
      <3>2. CASE SameUpTo(s, b, d, n) /\ b[1][1] < d[1][1]
        <4>1. SameUpTo(s, a, d, n)
          BY <2>2, <3>2 DEF SameUpTo
        <4>2. PICK x \in Nat, y \in Nat, z \in Nat :
                 x = a[1][1] /\ y = b[1][1] /\ z = d[1][1]
          BY <1>2, <1>7
        <4>3. x < y /\ y < z
          BY <2>2, <3>2, <4>2
        <4>4. x < z
          BY <4>3
        <4>5. a[1][1] < d[1][1]
          BY <4>2, <4>4
        <4> QED BY <1>3, <1>7, <4>1, <4>5
      <3> QED BY <1>3, <1>7, <3>1, <3>2
    <2> QED BY <1>3, <1>7, <2>1, <2>2
  <1>8. ASSUME NEW a, NEW b, Rec(a), Rec(b), a[1][1] # b[1][1]
        PROVE  Before(s, a, b) \/ Before(s, b, a)
    <2> DEFINE T == {j \in 1 .. n : SortKey(s, a, j) # SortKey(s, b, j)}
    <2>1. CASE T = {}
      <3>1. SameUpTo(s, a, b, n) /\ SameUpTo(s, b, a, n)
        BY <2>1 DEF SameUpTo
      <3>2. PICK x \in Nat, y \in Nat : x = a[1][1] /\ y = b[1][1]
        BY <1>2, <1>8
      <3>3. x < y \/ y < x
        BY <1>8, <3>2
      <3>4. a[1][1] < b[1][1] \/ b[1][1] < a[1][1]
        BY <3>2, <3>3
      <3> QED BY <1>3, <1>8, <3>1, <3>4
    <2>2. CASE T # {}
      <3>1. T \subseteq Nat
        OBVIOUS
      <3> HIDE DEF T
      <3>2. PICK j \in T : \A m \in T : j <= m
        BY <2>2, <3>1, Least
      <3>3. j \in 1 .. n /\ SortKey(s, a, j) # SortKey(s, b, j)
        BY DEF T
      <3>4. \A h \in 1 .. j - 1 : SortKey(s, a, h) = SortKey(s, b, h)
        <4>1. SUFFICES ASSUME NEW h \in 1 .. j - 1 PROVE SortKey(s, a, h) = SortKey(s, b, h)
          OBVIOUS
        <4>2. h \in 1 .. n /\ ~(j <= h)
          BY <3>3
        <4>3. h \notin T
          BY <3>2, <4>2
        <4> QED BY <4>2, <4>3 DEF T
      <3>5. SameUpTo(s, a, b, j - 1) /\ SameUpTo(s, b, a, j - 1)
        BY <3>4 DEF SameUpTo
      <3>6. \/ Precedes(s, j, SortKey(s, a, j), SortKey(s, b, j))
            \/ Precedes(s, j, SortKey(s, b, j), SortKey(s, a, j))
        BY <1>5, <1>8, <3>3, PrecedesIsOrder
      <3>7. DecidedAt(s, a, b, j) \/ DecidedAt(s, b, a, j)
        BY <1>4, <3>3, <3>5, <3>6
      <3> QED BY <1>3, <1>8, <3>7
    <2> QED BY <2>1, <2>2
  <1>9. \A j \in DOMAIN body : Rec(body[j])
    BY DEF Rec
  <1>10. \A j \in DOMAIN body : ~Before(s, body[j], body[j])
    BY <1>6, <1>9
  <1>11. \A h, j, m \in DOMAIN body :
            Before(s, body[h], body[j]) /\ Before(s, body[j], body[m]) =>
                Before(s, body[h], body[m])
    BY <1>7, <1>9
  <1>12. \A h, j \in DOMAIN body :
            h # j => Before(s, body[h], body[j]) \/ Before(s, body[j], body[h])
    BY <1>8, <1>9
  <1> QED BY <1>10, <1>11, <1>12 DEF InTotalOrder

-----------------------------------------------------------------------------
(***************************************************************************)
(* The threads of the clients.                                             *)
(***************************************************************************)
Locations == {"idle", "uncaught", "answer", "bound", "count", "scan", "probe", "test", "read", "write",
              "deactivate", "push", "uncount", "take", "new", "claim", "activate", "counted"}

Files == [Lines -> ByteLines]
Stmts == {Idle.st} \cup UNION {Statements[c] : c \in Clients}
CondSeqs == Seq(WhereItem)
Record == Seq(Value)
Bodies == Seq(Record)
Snaps == Files \cup {<<>>}
Positive == Nat \ {0}
Threads == [pc : Locations, st : Stmts, conds : CondSeqs, i : Nat, last : Nat, cnt : Nat,
            k : Positive, ok : BOOLEAN, rec : Record, body : Bodies, snap : Snaps]

\* A condition has a value.
CondsOK(cs) == \A j \in 1 .. Len(cs) : cs[j].word = "cond" => cs[j].val # <<>>

\* The records of an answer have different ids, and during a scan they are
\* those of lines before the one the scan is at.
Records(s, body) ==
    /\ body \in Bodies
    /\ \A n \in 1 .. Len(body) : IsRecord(s, body[n])
    /\ \A h, j \in 1 .. Len(body) : body[h][1][1] = body[j][1][1] => h = j
BodyBelow(body, i) == \A n \in 1 .. Len(body) : body[n][1][1] < i

\* A SELECT, DELETE or UPDATE at work.
Scanning(c, r) ==
    /\ r.st \in Statements[c] /\ ~Refused(r.st) /\ r.st.verb # "INSERT"
    /\ r.snap \in Files
    /\ CondsOK(r.conds)
    /\ Records(r.st, r.body)
    /\ IsDirect(r.st) => r.body = <<>>
    /\ ~IsDirect(r.st) => BodyBelow(r.body, r.i)

\* An INSERT at work.
Inserting(c, r) ==
    /\ r.st \in Statements[c] /\ ~Refused(r.st) /\ r.st.verb = "INSERT"
    /\ r.snap \in Files
    /\ \A n \in 1 .. Len(r.body) : IsRecord(r.st, r.body[n])

Answered(c, r) ==
    /\ r.st \in Statements[c] /\ r.snap \in Files
    /\ \A n \in 1 .. Len(r.body) : IsRecord(r.st, r.body[n])
    /\ r.st.verb # "INSERT" => Records(r.st, r.body)

\* What holds of a thread at each location.
Poised(c, r) ==
    /\ r \in Threads
    /\ r.pc = "uncaught" => Refused(r.st)
    /\ r.pc = "answer" => Answered(c, r)
    /\ r.pc \in {"bound", "count", "scan", "probe", "test", "read", "deactivate", "push",
                 "uncount"} => Scanning(c, r)
    /\ r.pc \in {"take", "new", "claim", "activate", "counted"} => Inserting(c, r)
    /\ r.pc = "write" =>
          /\ r.i \in Lines /\ r.k \in Assigned(r.st)
          /\ \/ Inserting(c, r)
             \/ Scanning(c, r) /\ r.st.verb = "UPDATE" /\ r.rec = <<<<r.i>>>>
    /\ r.pc \in {"take", "new", "claim", "activate"} => r.k \in Assigned(r.st)
    /\ r.pc \in {"new", "claim", "activate", "counted", "test"} => r.i \in Lines
    /\ r.pc \in {"bound", "count"} => r.body = <<>>
    /\ r.pc \in {"bound", "count", "scan", "test"} => ~IsDirect(r.st)
    /\ r.pc = "probe" => IsDirect(r.st)
    /\ r.pc = "test" => r.k <= Len(r.conds)
    /\ r.pc = "read" =>
          /\ r.st.verb = "SELECT" /\ r.k <= Len(ColumnsOf(r.st))
          /\ Len(r.rec) = r.k /\ r.rec[1] = <<r.i>>
    /\ r.pc \in {"deactivate", "push", "uncount"} =>
          r.st.verb = "DELETE" /\ r.i \in Lines /\ r.rec = <<<<r.i>>>>

TypeInv ==
    /\ line \in Files
    /\ freeId \in Nat /\ places \in 0 .. SizeMax
    /\ stack \in Seq(Lines)
    /\ run \in [Clients -> Threads] /\ \A c \in Clients : Poised(c, run[c])
    /\ crashed \in BOOLEAN
    /\ touched \in [Clients -> SUBSET Lines]

LEMMA InStmts ==
  ASSUME NEW c \in Clients, NEW s \in Statements[c]
  PROVE  s \in Stmts /\ Sent(s) /\ IsStatement(s)
  <1>1. Sent(s)
    BY DEF Sent
  <1> QED BY <1>1, SentType DEF Stmts

\* What Finished does.
FinishedTo(r, n) ==
    /\ n \in Threads
    /\ n.st = r.st /\ n.conds = r.conds /\ n.last = r.last /\ n.cnt = r.cnt /\ n.k = r.k
    /\ n.ok = r.ok /\ n.rec = r.rec /\ n.body = r.body /\ n.snap = r.snap
    /\ \/ IsDirect(r.st) /\ n.pc = "answer" /\ n.i = r.i
       \/ ~IsDirect(r.st) /\ n.pc = "scan" /\ n.i = r.i + 1

LEMMA FinishedIs ==
  ASSUME NEW r \in Threads
  PROVE  FinishedTo(r, Finished(r))
  <1>1. CASE IsDirect(r.st)
    <2>1. PICK n : n = [r EXCEPT !.pc = "answer"]
      OBVIOUS
    <2>2. Finished(r) = n
      BY <1>1, <2>1 DEF Finished
    <2>3. n \in Threads
      BY <2>1 DEF Threads, Locations
    <2>4. FinishedTo(r, n)
      BY <1>1, <2>1, <2>3 DEF FinishedTo, Threads
    <2> QED BY <2>2, <2>4
  <1>2. CASE ~IsDirect(r.st)
    <2>1. PICK n : n = [r EXCEPT !.pc = "scan", !.i = @ + 1]
      OBVIOUS
    <2>2. Finished(r) = n
      BY <1>2, <2>1 DEF Finished
    <2>3. n \in Threads
      <3>1. r.i \in Nat
        BY DEF Threads
      <3>2. PICK x \in Nat : x = r.i + 1
        BY <3>1
      <3>3. n = [r EXCEPT !.pc = "scan", !.i = x]
        BY <2>1, <3>2
      <3> QED BY <3>3 DEF Threads, Locations
    <2>4. FinishedTo(r, n)
      BY <1>2, <2>1, <2>3 DEF FinishedTo, Threads
    <2> QED BY <2>2, <2>4
  <1> QED BY <1>1, <1>2

LEMMA FinishedPoised ==
  ASSUME NEW c \in Clients, NEW r \in Threads,
         r.st \in Statements[c], ~Refused(r.st), r.st.verb # "INSERT", r.snap \in Files,
         CondsOK(r.conds), Records(r.st, r.body),
         ~IsDirect(r.st) => BodyBelow(r.body, r.i + 1)
  PROVE  Poised(c, Finished(r))
  <1>1. PICK n : n = Finished(r) /\ FinishedTo(r, n)
    BY FinishedIs
  <1>2. n \in Threads /\ n.st = r.st /\ n.snap = r.snap /\ n.conds = r.conds /\ n.body = r.body
    BY <1>1 DEF FinishedTo
  <1>3. CASE IsDirect(r.st)
    <2>1. n.pc = "answer"
      BY <1>1, <1>3 DEF FinishedTo
    <2>2. Answered(c, n)
      BY <1>2 DEF Answered, Records
    <2> QED BY <1>1, <1>2, <2>1, <2>2 DEF Poised
  <1>4. CASE ~IsDirect(r.st)
    <2>1. n.pc = "scan" /\ n.i = r.i + 1
      BY <1>1, <1>4 DEF FinishedTo
    <2>2. Scanning(c, n)
      BY <1>2, <1>4, <2>1 DEF Scanning
    <2> QED BY <1>1, <1>2, <1>4, <2>1, <2>2 DEF Poised
  <1> QED BY <1>3, <1>4

\* A record is added to the answer.
LEMMA AppendRecord ==
  ASSUME NEW s, NEW body, Records(s, body), NEW i \in Nat, NEW b, IsRecord(s, b),
         b[1][1] = i, BodyBelow(body, i)
  PROVE  Records(s, Append(body, b)) /\ BodyBelow(Append(body, b), i + 1)
  <1>1. PICK L \in Nat : L = Len(body)
    BY DEF Records, Bodies
  <1>2. PICK v : v = Append(body, b)
    OBVIOUS
  <1>3. body \in Seq(Record) /\ b \in Record
    BY DEF Records, IsRecord, Bodies, Record
  <1>4. /\ v \in Seq(Record) /\ Len(v) = L + 1 /\ v[L + 1] = b
        /\ \A j \in 1 .. L : v[j] = body[j]
    BY <1>1, <1>2, <1>3
  <1>5. \A j \in 1 .. L + 1 : j = L + 1 \/ j \in 1 .. L
    OBVIOUS
  <1>6. \A n \in 1 .. L : IsRecord(s, body[n]) /\ body[n][1][1] \in Nat /\ body[n][1][1] < i
    BY <1>1 DEF Records, IsRecord, BodyBelow
  <1>7. \A n \in 1 .. L + 1 : IsRecord(s, v[n])
    BY <1>4, <1>5, <1>6
  <1>8. \A n \in 1 .. L + 1 : v[n][1][1] < i + 1
    BY <1>4, <1>5, <1>6
  <1>9. \A h, j \in 1 .. L + 1 : v[h][1][1] = v[j][1][1] => h = j
    <2>1. \A h, j \in 1 .. L : body[h][1][1] = body[j][1][1] => h = j
      BY <1>1 DEF Records
    <2>2. \A h \in 1 .. L : v[h][1][1] # i /\ v[h][1][1] = body[h][1][1]
      BY <1>4, <1>6
    <2> QED BY <1>4, <1>5, <2>1, <2>2
  <1> QED BY <1>2, <1>4, <1>7, <1>8, <1>9 DEF Records, BodyBelow, Bodies

LEMMA IdRecord ==
  ASSUME NEW s, Width(s) = 1, NEW i \in Nat
  PROVE  IsRecord(s, <<<<i>>>>) /\ <<<<i>>>>[1][1] = i /\ <<<<i>>>>[1] = <<i>>
  <1>1. <<<<i>>>> \in Seq(Value) /\ Len(<<<<i>>>>) = 1 /\ <<<<i>>>>[1][1] = i
        /\ <<<<i>>>>[1] = <<i>>
    BY DEF Value
  <1> QED BY <1>1 DEF IsRecord

\* What Selected does.
SelectedTo(r, n) ==
    /\ n \in Threads
    /\ n.st = r.st /\ n.conds = r.conds /\ n.last = r.last /\ n.cnt = r.cnt /\ n.ok = r.ok
    /\ n.snap = r.snap /\ n.k = 1 /\ n.rec = <<<<r.i>>>>
    /\ \/ /\ r.st.verb # "DELETE" /\ ColumnsOf(r.st) = <<>>
          /\ n.body = Append(r.body, <<<<r.i>>>>)
          /\ \/ IsDirect(r.st) /\ n.pc = "answer" /\ n.i = r.i
             \/ ~IsDirect(r.st) /\ n.pc = "scan" /\ n.i = r.i + 1
       \/ /\ r.st.verb = "DELETE" \/ ColumnsOf(r.st) # <<>>
          /\ n.body = r.body /\ n.i = r.i
          /\ \/ r.st.verb = "DELETE" /\ n.pc = "deactivate"
             \/ r.st.verb = "SELECT" /\ n.pc = "read"
             \/ r.st.verb \notin {"DELETE", "SELECT"} /\ n.pc = "write"

LEMMA AppendBody ==
  ASSUME NEW body \in Bodies, NEW b \in Record
  PROVE  Append(body, b) \in Bodies
  BY DEF Bodies

LEMMA IdType ==
  ASSUME NEW i \in Nat
  PROVE  <<<<i>>>> \in Record
  BY DEF Record, Value

LEMMA SelectedIs ==
  ASSUME NEW r \in Threads
  PROVE  SelectedTo(r, Selected(r))
  <1>1. PICK b \in Record : b = <<<<r.i>>>>
    <2>1. r.i \in Nat
      BY DEF Threads
    <2> QED BY <2>1, IdType
  <1>2. PICK x : x = [r EXCEPT !.k = 1, !.rec = b]
    OBVIOUS
  <1>3. 1 \in Positive
    BY DEF Positive
  <1>4. /\ x \in Threads
        /\ x.pc = r.pc /\ x.st = r.st /\ x.conds = r.conds /\ x.last = r.last
        /\ x.cnt = r.cnt /\ x.ok = r.ok /\ x.snap = r.snap /\ x.k = 1 /\ x.rec = b
        /\ x.body = r.body /\ x.i = r.i
    BY <1>2, <1>3 DEF Threads
  <1>5. CASE r.st.verb # "DELETE" /\ ColumnsOf(r.st) = <<>>
    <2>1. PICK y : y = [x EXCEPT !.body = Append(@, x.rec)]
      OBVIOUS
    <2>2. PICK z \in Bodies : z = Append(r.body, b)
      <3>1. r.body \in Bodies
        BY DEF Threads
      <3> QED BY <3>1, AppendBody
    <2>3. y = [x EXCEPT !.body = z]
      BY <1>4, <2>1, <2>2
    <2>4. /\ y \in Threads
          /\ y.st = r.st /\ y.conds = r.conds /\ y.last = r.last
          /\ y.cnt = r.cnt /\ y.ok = r.ok /\ y.snap = r.snap /\ y.k = 1 /\ y.rec = b
          /\ y.body = z /\ y.i = r.i
      <3>1. y \in Threads
        BY <1>4, <2>3 DEF Threads
      <3> QED BY <1>4, <2>3, <3>1 DEF Threads
    <2>5. Selected(r) = Finished(y)
      BY <1>1, <1>2, <1>5, <2>1 DEF Selected
    <2>6. PICK n : n = Finished(y) /\ FinishedTo(y, n)
      BY <2>4, FinishedIs
    <2>7. SelectedTo(r, n)
      BY <1>1, <1>5, <2>2, <2>4, <2>6 DEF SelectedTo, FinishedTo
    <2> QED BY <2>5, <2>6, <2>7
  <1>6. CASE r.st.verb = "DELETE" \/ ColumnsOf(r.st) # <<>>
    <2>1. PICK p \in {"deactivate", "read", "write"} :
             /\ p = CASE r.st.verb = "DELETE" -> "deactivate"
                      [] r.st.verb = "SELECT" -> "read"
                      [] OTHER -> "write"
             /\ \/ r.st.verb = "DELETE" /\ p = "deactivate"
                \/ r.st.verb = "SELECT" /\ p = "read"
                \/ r.st.verb \notin {"DELETE", "SELECT"} /\ p = "write"
      OBVIOUS
    <2>2. PICK n : n = [x EXCEPT !.pc = p]
      OBVIOUS
    <2>3. Selected(r) = n
      BY <1>1, <1>2, <1>6, <2>1, <2>2 DEF Selected
    <2>4. n \in Threads /\ n.pc = p
      BY <1>4, <2>2 DEF Threads, Locations
    <2>5. /\ n.st = r.st /\ n.conds = r.conds /\ n.last = r.last
          /\ n.cnt = r.cnt /\ n.ok = r.ok /\ n.snap = r.snap /\ n.k = 1 /\ n.rec = b
          /\ n.body = r.body /\ n.i = r.i
      BY <1>4, <2>2 DEF Threads
    <2>6. SelectedTo(r, n)
      BY <1>1, <1>6, <2>1, <2>4, <2>5 DEF SelectedTo
    <2> QED BY <2>3, <2>6
  <1> QED BY <1>5, <1>6

LEMMA SelectedPoised ==
  ASSUME NEW c \in Clients, NEW r \in Threads, Scanning(c, r),
         r.st.verb = "SELECT" \/ r.i \in Lines
  PROVE  Poised(c, Selected(r))
  <1>1. PICK n : n = Selected(r) /\ SelectedTo(r, n)
    BY SelectedIs
  <1>2. r.i \in Nat
    BY DEF Threads
  <1>3. /\ r.st \in Statements[c] /\ ~Refused(r.st) /\ r.st.verb # "INSERT"
        /\ r.snap \in Files /\ CondsOK(r.conds) /\ Records(r.st, r.body)
        /\ IsDirect(r.st) => r.body = <<>>
        /\ ~IsDirect(r.st) => BodyBelow(r.body, r.i)
    BY DEF Scanning
  <1>4. IsStatement(r.st) /\ r.st.verb \in {"SELECT", "DELETE", "UPDATE"}
    BY <1>3, InStmts DEF IsStatement
  <1>5. /\ n \in Threads /\ n.st = r.st /\ n.conds = r.conds /\ n.snap = r.snap
        /\ n.k = 1 /\ n.rec = <<<<r.i>>>>
    BY <1>1 DEF SelectedTo
  <1>6. BodyBelow(r.body, r.i)
    <2>1. CASE IsDirect(r.st)
      BY <1>3, <2>1 DEF BodyBelow
    <2> QED BY <1>3, <2>1
  <1>7. ColumnsOf(r.st) \in Seq(1 .. N)
    BY <1>3, <1>4, ColumnsOfType
  <1>8. CASE r.st.verb # "DELETE" /\ ColumnsOf(r.st) = <<>>
    <2>1. Width(r.st) = 1
      BY <1>8 DEF Width
    <2>2. PICK z : z = Append(r.body, <<<<r.i>>>>) /\ Records(r.st, z) /\ BodyBelow(z, r.i + 1)
      <3>1. PICK b : b = <<<<r.i>>>>
        OBVIOUS
      <3>2. IsRecord(r.st, b) /\ b[1][1] = r.i
        BY <1>2, <2>1, <3>1, IdRecord
      <3>3. PICK s, body, i : /\ s = r.st /\ body = r.body /\ i = r.i /\ i \in Nat
                              /\ Records(s, body) /\ BodyBelow(body, i)
        BY <1>2, <1>3, <1>6, Zenon
      <3>4. IsRecord(s, b) /\ b[1][1] = i
        BY <3>2, <3>3, Zenon
      <3>5. Records(s, Append(body, b)) /\ BodyBelow(Append(body, b), i + 1)
        BY <3>3, <3>4, AppendRecord
      <3> QED BY <3>1, <3>3, <3>5
    <2>3. n.body = z
      BY <1>1, <1>8, <2>2 DEF SelectedTo
    <2>4. CASE IsDirect(r.st)
      <3>1. n.pc = "answer"
        BY <1>1, <1>8, <2>4 DEF SelectedTo
      <3>2. Answered(c, n)
        BY <1>3, <1>5, <2>2, <2>3 DEF Answered, Records
      <3> QED BY <1>1, <1>5, <3>1, <3>2 DEF Poised
    <2>5. CASE ~IsDirect(r.st)
      <3>1. n.pc = "scan" /\ n.i = r.i + 1
        BY <1>1, <1>8, <2>5 DEF SelectedTo
      <3>2. Scanning(c, n)
        BY <1>3, <1>5, <2>2, <2>3, <2>5, <3>1 DEF Scanning
      <3> QED BY <1>1, <1>5, <2>5, <3>1, <3>2 DEF Poised
    <2> QED BY <2>4, <2>5
  <1>9. CASE r.st.verb = "DELETE" \/ ColumnsOf(r.st) # <<>>
    <2>1. n.body = r.body /\ n.i = r.i
      BY <1>1, <1>9 DEF SelectedTo
    <2>2. Scanning(c, n)
      BY <1>3, <1>5, <2>1 DEF Scanning
    <2>3. CASE r.st.verb = "DELETE"
      <3>1. n.pc = "deactivate"
        BY <1>1, <1>9, <2>3 DEF SelectedTo
      <3> QED BY <1>1, <1>5, <2>1, <2>2, <2>3, <3>1 DEF Poised
    <2>4. CASE r.st.verb = "SELECT"
      <3>1. n.pc = "read"
        BY <1>1, <1>9, <2>4 DEF SelectedTo
      <3>2. 1 <= Len(ColumnsOf(r.st))
        BY <1>7, <1>9, <2>4
      <3>3. Len(n.rec) = 1 /\ n.rec[1] = <<n.i>>
        BY <1>5, <2>1
      <3> QED BY <1>1, <1>5, <2>1, <2>2, <2>4, <3>1, <3>2, <3>3 DEF Poised
    <2>5. CASE r.st.verb = "UPDATE"
      <3>1. n.pc = "write"
        BY <1>1, <1>9, <2>5 DEF SelectedTo
      <3>2. 1 \in DOMAIN ColumnsOf(r.st)
        BY <1>7, <1>9, <2>5
      <3>3. 1 \in Assigned(r.st)
        BY <2>5, <3>2 DEF Assigned
      <3> QED BY <1>1, <1>5, <2>1, <2>2, <2>5, <3>1, <3>3 DEF Poised
    <2> QED BY <1>4, <2>3, <2>4, <2>5
  <1> QED BY <1>8, <1>9

-----------------------------------------------------------------------------
(***************************************************************************)
(* Types.                                                                  *)
(***************************************************************************)
LEMMA LinesAre ==
  /\ FileLines \in Nat \ {0} /\ Lines = 0 .. FileLines - 1 /\ Lines \subseteq Nat
  /\ SizeMax \in Nat /\ FileLines <= SizeMax /\ IsFiniteSet(Lines)
  /\ Cardinality(Lines) = FileLines
  <1>1. FileLines \in Nat \ {0} /\ SizeMax \in Nat /\ SizeMax > 4 * FileLines
    BY QueryAssumption
  <1>2. 0 \in Int /\ FileLines - 1 \in Int
    BY <1>1
  <1>3. Cardinality(0 .. FileLines - 1) = IF 0 > FileLines - 1 THEN 0 ELSE FileLines - 1 - 0 + 1
    BY <1>2, FS_Interval
  <1>4. Cardinality(0 .. FileLines - 1) = FileLines
    BY <1>1, <1>3
  <1>5. IsFiniteSet(0 .. FileLines - 1)
    BY <1>2, FS_Interval
  <1>6. FileLines <= SizeMax
    BY <1>1
  <1> QED BY <1>1, <1>4, <1>5, <1>6 DEF Lines

LEMMA IdleType == Idle \in Threads /\ Idle.pc = "idle" /\ Idle.body = <<>> /\ Idle.i = 0
  <1>1. PICK S : S = [verb |-> "NONE", cols |-> <<>>, vals |-> <<>>, clauses |-> <<>>]
    OBVIOUS
  <1>2. Idle.st \in Stmts /\ Idle.st = S
    <2>1. Idle.st \in Stmts
      BY DEF Stmts
    <2> QED BY <1>1, <2>1 DEF Idle
  <1>3. /\ <<>> \in CondSeqs /\ <<>> \in Record /\ <<>> \in Bodies /\ <<>> \in Snaps
        /\ 1 \in Positive /\ "idle" \in Locations
    BY DEF CondSeqs, Record, Bodies, Snaps, Positive, Locations
  <1>4. Idle = [pc |-> "idle", st |-> S, conds |-> <<>>, i |-> 0, last |-> 0, cnt |-> 0,
                k |-> 1, ok |-> FALSE, rec |-> <<>>, body |-> <<>>, snap |-> <<>>]
    BY <1>1 DEF Idle
  <1>5. S \in Stmts
    BY <1>2
  <1> HIDE DEF Locations
  <1> QED BY <1>3, <1>4, <1>5 DEF Threads

\* The lines of a table that was just opened.
LEMMA OpenedLine ==
  ASSUME NEW f \in {Blank} \cup {RowLine(v) : v \in Contents}
                       \cup {Store(RowLine(v), 0, << 0 >>) : v \in Erased}
  PROVE  f \in ByteLines /\ f[0] \in {0, 1}
  <1>1. PICK L \in Nat \ {0} : L = LineLength
    BY LengthType
  <1>2. CASE f = Blank
    <2>1. f = [b \in 0 .. L - 1 |-> 0] /\ 0 \in Byte
      BY <1>1, <1>2 DEF Blank, Byte
    <2> QED BY <1>1, <2>1 DEF ByteLines
  <1>3. CASE \E v \in Contents : f = RowLine(v)
    BY <1>3, ContentsAre, RowLineIs
  <1>4. CASE \E v \in Erased : f = Store(RowLine(v), 0, <<0>>)
    <2>1. PICK v \in Erased : f = Store(RowLine(v), 0, <<0>>)
      BY <1>4
    <2>2. PICK g \in ByteLines : g = RowLine(v)
      BY ContentsAre, RowLineIs
    <2>3. <<0>> \in Seq(Byte) /\ Len(<<0>>) = 1 /\ <<0>>[1] = 0
      BY DEF Byte
    <2>4. f \in ByteLines
      BY <2>1, <2>2, <2>3, StoreType
    <2>5. DOMAIN g = 0 .. L - 1 /\ 0 \in 0 .. L - 1
      BY <1>1 DEF ByteLines
    <2>6. f[0] = 0
      BY <2>1, <2>2, <2>3, <2>5 DEF Store
    <2> QED BY <2>4, <2>6
  <1> QED BY <1>2, <1>3, <1>4

LEMMA TypeInit == Init => TypeInv
  <1> SUFFICES ASSUME Init PROVE TypeInv
    OBVIOUS
  <1>1. line \in Files
    <2>1. PICK S : S = {Blank} \cup {RowLine(v) : v \in Contents}
                           \cup {Store(RowLine(v), 0, << 0 >>) : v \in Erased}
      OBVIOUS
    <2>2. line \in [Lines -> S]
      BY <2>1 DEF Init
    <2>3. S \subseteq ByteLines
      BY <2>1, OpenedLine
    <2> QED BY <2>2, <2>3 DEF Files
  <1> DEFINE R == {l \in Lines : Active(line, l)}
  <1>2. /\ freeId = IF R = {} THEN 0 ELSE Max(R) + 1
        /\ places = Cardinality(R)
        /\ \E s \in [1 .. freeId - places -> (0 .. freeId - 1) \ R] : stack = s
    BY DEF Init
  <1>3. PICK rows : rows = R
    OBVIOUS
  <1>4. rows \in SUBSET Lines
    BY <1>3
  <1> HIDE DEF R
  <1>5. PICK F \in Nat \ {0} : F = FileLines /\ Lines = 0 .. F - 1
    BY LinesAre
  <1>6. freeId \in Nat /\ freeId <= F
    <2>1. CASE rows = {}
      BY <1>2, <1>3, <2>1
    <2>2. CASE rows # {}
      <3>1. F - 1 \in Nat /\ rows \subseteq 0 .. F - 1
        BY <1>4, <1>5
      <3>2. Max(rows) \in rows
        BY <2>2, <3>1, MaxIs
      <3>3. PICK m \in 0 .. F - 1 : m = Max(rows)
        BY <3>1, <3>2
      <3>4. freeId = m + 1
        BY <1>2, <1>3, <2>2, <3>3
      <3> QED BY <3>4
    <2> QED BY <2>1, <2>2
  <1>7. places \in 0 .. SizeMax
    <2>1. IsFiniteSet(rows) /\ Cardinality(rows) <= FileLines
      BY <1>4, LinesAre, FS_Subset
    <2>2. Cardinality(rows) \in Nat
      BY <2>1, FS_CardinalityType
    <2>3. PICK n \in Nat : n = Cardinality(rows)
      BY <2>2
    <2> QED BY <1>2, <1>3, <2>1, <2>3, LinesAre
  <1>8. stack \in Seq(Lines)
    <2>1. PICK s \in [1 .. freeId - places -> (0 .. freeId - 1) \ rows] : stack = s
      BY <1>2, <1>3
    <2>2. (0 .. freeId - 1) \ rows \subseteq Lines
      BY <1>5, <1>6
    <2>3. s \in [1 .. freeId - places -> Lines]
      BY <2>1, <2>2
    <2>4. freeId - places \in Int
      BY <1>6, <1>7, LinesAre
    <2>5. PICK n \in Nat : 1 .. n = 1 .. freeId - places
      <3>1. CASE freeId - places \in Nat
        BY <3>1
      <3>2. CASE freeId - places \notin Nat
        <4>1. 1 .. 0 = 1 .. freeId - places
          BY <2>4, <3>2
        <4> QED BY <4>1
      <3> QED BY <3>1, <3>2
    <2>6. s \in [1 .. n -> Lines]
      BY <2>3, <2>5
    <2>7. s \in Seq(Lines)
      BY <2>6
    <2> QED BY <2>1, <2>7
  <1>9. run = [c \in Clients |-> Idle] /\ crashed = FALSE /\ touched = [c \in Clients |-> {}]
    BY DEF Init
  <1>10. \A c \in Clients : Poised(c, Idle)
    BY IdleType DEF Poised
  <1>11. run \in [Clients -> Threads] /\ \A c \in Clients : Poised(c, run[c])
    BY <1>9, <1>10, IdleType
  <1>12. touched \in [Clients -> SUBSET Lines]
    BY <1>9
  <1> QED BY <1>1, <1>6, <1>7, <1>8, <1>9, <1>11, <1>12 DEF TypeInv

\* The conditions of a statement.
LEMMA ConditionsOK ==
  ASSUME NEW s, IsStatement(s)
  PROVE  /\ Conditions(s) \in CondSeqs /\ CondsOK(Conditions(s))
         /\ \A j \in 1 .. Len(Conditions(s)) :
               /\ Conditions(s)[j] \in Range(WhereOf(s))
               /\ Kind(Conditions(s)[j]) \in Bounds \cup Others
  <1>1. PICK u \in Seq(WhereItem), v \in Seq(WhereItem) :
            /\ IsPicked(u, WhereOf(s), Bounds)
            /\ IsPicked(v, WhereOf(s), Others)
            /\ Conditions(s) \in Seq(WhereItem)
            /\ Len(Conditions(s)) = Len(u) + Len(v)
            /\ \A j \in 1 .. Len(u) : Conditions(s)[j] = u[Len(u) - j + 1]
            /\ \A j \in 1 .. Len(v) : Conditions(s)[Len(u) + j] = v[j]
    BY ConditionsAre
  <1>2. PICK w \in Seq(WhereItem) : w = WhereOf(s)
    BY Clauses
  <1>3. PICK n \in Nat, m \in Nat, L \in Nat : n = Len(u) /\ m = Len(v) /\ L = Len(w)
    OBVIOUS
  <1>4. ASSUME NEW a, NEW kinds, IsPicked(a, w, kinds), NEW j \in 1 .. Len(a)
        PROVE  a[j] \in Range(w) /\ Kind(a[j]) \in kinds
    <2>1. PICK p : Picked(a, p, w, kinds, L)
      BY <1>3, <1>4 DEF IsPicked
    <2>2. p[j] \in 1 .. L /\ a[j] = w[p[j]] /\ Kind(w[p[j]]) \in kinds
      BY <2>1 DEF Picked
    <2>3. DOMAIN w = 1 .. L
      BY <1>3
    <2> QED BY <2>2, <2>3 DEF Range
  <1>5. ASSUME NEW j \in 1 .. n + m
        PROVE  /\ Conditions(s)[j] \in Range(w)
               /\ Kind(Conditions(s)[j]) \in Bounds \cup Others
    <2>1. CASE j <= n
      <3>1. j \in 1 .. n /\ n - j + 1 \in 1 .. n
        BY <2>1
      <3>2. Conditions(s)[j] = u[n - j + 1]
        BY <1>1, <1>3, <3>1
      <3> QED BY <1>1, <1>2, <1>3, <1>4, <3>1, <3>2
    <2>2. CASE ~(j <= n)
      <3>1. j - n \in 1 .. m /\ n + (j - n) = j
        BY <2>2
      <3>2. Conditions(s)[n + (j - n)] = v[j - n]
        BY <1>1, <1>3, <3>1
      <3>3. Conditions(s)[j] = v[j - n]
        BY <3>1, <3>2
      <3> QED BY <1>1, <1>2, <1>3, <1>4, <3>1, <3>3
    <2> QED BY <2>1, <2>2
  <1>6. \A e \in Range(w) : e.word = "cond" => e.val # <<>>
    BY <1>2, Clauses
  <1>7. Len(Conditions(s)) = n + m
    BY <1>1, <1>3
  <1>8. CondsOK(Conditions(s))
    BY <1>5, <1>6, <1>7 DEF CondsOK
  <1> QED BY <1>1, <1>2, <1>5, <1>7, <1>8 DEF CondSeqs

LEMMA BoundValue ==
  ASSUME NEW e \in WhereItem, e.word = "cond" => e.val # <<>>, Kind(e) \in Bounds
  PROVE  e.val[1] \in Nat
  <1>1. e.word = "cond"
    <2>1. e.word \in {"cond", "AND", "OR"}
      BY DEF WhereItem
    <2>2. e.word # "cond" => Kind(e) = e.word
      BY DEF Kind
    <2> QED BY <2>1, <2>2 DEF Bounds
  <1>2. e.val \in Seq(Nat) /\ e.val # <<>>
    BY <1>1 DEF WhereItem, Value
  <1> QED BY <1>2

LEMMA LeadingIs ==
  ASSUME NEW cs, Len(cs) \in Nat, NEW kinds
  PROVE  /\ Leading(cs, kinds) \in 0 .. Len(cs)
         /\ \A j \in 1 .. Leading(cs, kinds) : Kind(cs[j]) \in kinds
         /\ Leading(cs, kinds) < Len(cs) => Kind(cs[Leading(cs, kinds) + 1]) \notin kinds
  <1> DEFINE S == {n \in 0 .. Len(cs) : \A j \in 1 .. n : Kind(cs[j]) \in kinds}
  <1>1. S \subseteq 0 .. Len(cs) /\ 0 \in S
    OBVIOUS
  <1>2. PICK m : m = Leading(cs, kinds) /\ m \in S /\ \A y \in S : y <= m
    <2>1. Leading(cs, kinds) = Max(S)
      BY DEF Leading
    <2> HIDE DEF S
    <2> QED BY <1>1, <2>1, MaxIs
  <1>3. m \in 0 .. Len(cs) /\ \A j \in 1 .. m : Kind(cs[j]) \in kinds
    BY <1>2
  <1>4. ASSUME m < Len(cs), Kind(cs[m + 1]) \in kinds PROVE FALSE
    <2>1. m + 1 \in 0 .. Len(cs) /\ \A j \in 1 .. m + 1 : j \in 1 .. m \/ j = m + 1
      BY <1>3, <1>4
    <2>2. m + 1 \in S
      BY <1>3, <1>4, <2>1
    <2>3. m + 1 <= m
      BY <1>2, <2>2
    <2> QED BY <1>3, <2>3
  <1> QED BY <1>2, <1>3, <1>4

LEMMA BoundInIs ==
  ASSUME NEW cs \in Seq(WhereItem), NEW kind, NEW default
  PROVE  \/ /\ BoundIn(cs, kind, default) = default
            /\ \A j \in 1 .. Len(cs) : Kind(cs[j]) # kind
         \/ \E m \in 1 .. Len(cs) :
               /\ BoundIn(cs, kind, default) = cs[m].val[1] /\ Kind(cs[m]) = kind
               /\ \A j \in 1 .. Len(cs) : Kind(cs[j]) = kind => j <= m
  <1> DEFINE at == {j \in DOMAIN cs : Kind(cs[j]) = kind}
  <1>1. BoundIn(cs, kind, default) = IF at = {} THEN default ELSE cs[Max(at)].val[1]
    BY DEF BoundIn
  <1>2. PICK L \in Nat : L = Len(cs) /\ DOMAIN cs = 1 .. L
    OBVIOUS
  <1>3. at \subseteq 0 .. L
    BY <1>2
  <1>4. CASE at = {}
    BY <1>1, <1>2, <1>4
  <1>5. CASE at # {}
    <2>1. Max(at) \in at /\ \A y \in at : y <= Max(at)
      <3> HIDE DEF at
      <3> QED BY <1>3, <1>5, MaxIs
    <2>2. PICK m \in 1 .. L : m = Max(at) /\ Kind(cs[m]) = kind
      BY <1>2, <2>1
    <2>3. \A j \in 1 .. L : Kind(cs[j]) = kind => j <= m
      BY <1>2, <2>1, <2>2
    <2>4. BoundIn(cs, kind, default) = cs[m].val[1]
      BY <1>1, <1>5, <2>2
    <2> QED BY <1>2, <2>2, <2>3, <2>4
  <1> QED BY <1>4, <1>5

LEMMA BoundInType ==
  ASSUME NEW cs \in Seq(WhereItem), CondsOK(cs), NEW kind \in {"TO", "FROM"},
         NEW default \in Nat
  PROVE  BoundIn(cs, kind, default) \in Nat
  <1>1. ASSUME NEW m \in 1 .. Len(cs), Kind(cs[m]) = kind PROVE cs[m].val[1] \in Nat
    <2>1. PICK e \in WhereItem : e = cs[m]
      OBVIOUS
    <2>2. e.word = "cond" => e.val # <<>>
      BY <2>1 DEF CondsOK
    <2>3. Kind(e) \in Bounds
      BY <1>1, <2>1 DEF Bounds
    <2> QED BY <2>1, <2>2, <2>3, BoundValue
  <1> QED BY <1>1, BoundInIs

-----------------------------------------------------------------------------
(***************************************************************************)
(* Every action keeps the types.                                           *)
(***************************************************************************)
LEMMA TypeKept ==
  ASSUME TypeInv, NEW c \in Clients, NEW n, Become(c, n), Poised(c, n),
         line' \in Files, freeId' \in Nat, places' \in 0 .. SizeMax,
         stack' \in Seq(Lines), crashed' \in BOOLEAN,
         touched' \in [Clients -> SUBSET Lines]
  PROVE  TypeInv'
  <1>1. n \in Threads
    BY DEF Poised
  <1>2. run' = [run EXCEPT ![c] = n] /\ run \in [Clients -> Threads]
    BY DEF Become, TypeInv
  <1>3. run' \in [Clients -> Threads] /\ \A d \in Clients : run'[d] = IF d = c THEN n ELSE run[d]
    BY <1>1, <1>2
  <1>4. \A d \in Clients : Poised(d, run'[d])
    BY <1>3 DEF TypeInv
  <1> QED BY <1>3, <1>4 DEF TypeInv

LEMMA ThreadKept ==
  ASSUME TypeInv, NEW c \in Clients, NEW n, Become(c, n), Poised(c, n),
         UNCHANGED <<line, tableVars, crashed, touched>>
  PROVE  TypeInv'
  <1>1. /\ line' = line /\ freeId' = freeId /\ places' = places /\ stack' = stack
        /\ crashed' = crashed /\ touched' = touched
    BY DEF tableVars
  <1> QED BY <1>1, TypeKept DEF TypeInv

\* A thread at work, as a constant.
LEMMA ThreadIs ==
  ASSUME TypeInv, NEW c \in Clients
  PROVE  \E r : r = run[c] /\ Poised(c, r) /\ r \in Threads
  BY DEF TypeInv, Poised

LEMMA TypeSubmit ==
  ASSUME TypeInv, NEW c \in Clients, Submit(c)
  PROVE  TypeInv'
  <1>1. PICK s \in Statements[c] :
          LET r == [Idle EXCEPT !.st = s, !.snap = line, !.conds = Conditions(s)]
              d == [r EXCEPT !.i = Conditions(s)[1].val[1]]
          IN Become(c, IF Refused(s)
                       THEN [r EXCEPT !.pc = IF Uncaught(s) THEN "uncaught" ELSE "answer"]
                       ELSE IF s.verb = "INSERT"
                       THEN [r EXCEPT !.pc = IF s.vals = <<>> THEN "answer" ELSE "take"]
                       ELSE IF ~IsDirect(s) THEN [r EXCEPT !.pc = "bound"]
                       ELSE IF s.verb = "SELECT" THEN Selected(d)
                       ELSE [d EXCEPT !.pc = "probe"])
    BY DEF Submit
  <1>2. PICK f \in Files, cs \in CondSeqs : f = line /\ cs = Conditions(s) /\ CondsOK(cs)
    BY InStmts, ConditionsOK DEF TypeInv
  <1>3. PICK r : r = [Idle EXCEPT !.st = s, !.snap = f, !.conds = cs]
    OBVIOUS
  <1>4. s \in Stmts /\ f \in Snaps /\ Sent(s) /\ IsStatement(s)
    BY InStmts DEF Snaps
  <1>5. /\ r \in Threads /\ r.st = s /\ r.snap = f /\ r.conds = cs /\ r.body = <<>>
        /\ r.k = 1 /\ r.rec = <<>>
    <2>1. Idle.k = 1 /\ Idle.rec = <<>>
      BY DEF Idle
    <2>2. r \in Threads
      BY <1>3, <1>4, IdleType DEF Threads
    <2> QED BY <1>3, <1>4, <2>1, IdleType DEF Threads
  <1>6. PICK d : d = [r EXCEPT !.i = Conditions(s)[1].val[1]]
    OBVIOUS
  <1>7. Become(c, IF Refused(s)
                  THEN [r EXCEPT !.pc = IF Uncaught(s) THEN "uncaught" ELSE "answer"]
                       ELSE IF s.verb = "INSERT"
                       THEN [r EXCEPT !.pc = IF s.vals = <<>> THEN "answer" ELSE "take"]
                       ELSE IF ~IsDirect(s) THEN [r EXCEPT !.pc = "bound"]
                       ELSE IF s.verb = "SELECT" THEN Selected(d)
                       ELSE [d EXCEPT !.pc = "probe"])
    BY <1>1, <1>2, <1>3, <1>6, Zenon
  <1>8. <<>> \in Bodies /\ Len(<<>>) = 0 /\ Records(s, <<>>) /\ BodyBelow(<<>>, r.i)
    <2>1. <<>> \in Bodies /\ Len(<<>>) = 0
      BY DEF Bodies
    <2> QED BY <2>1 DEF Records, BodyBelow
  <1>9. \A p \in {"answer", "uncaught", "take", "bound"} : \A n :
          n = [r EXCEPT !.pc = p] =>
             /\ n \in Threads /\ n.pc = p
             /\ n.st = s /\ n.snap = f /\ n.conds = cs /\ n.body = <<>> /\ n.k = 1
    BY <1>5 DEF Threads, Locations
  <1>10. PICK n : Become(c, n) /\ Poised(c, n)
    <2>5. CASE Refused(s) /\ Uncaught(s)
      <3>1. PICK n : n = [r EXCEPT !.pc = "uncaught"] /\ n.pc = "uncaught"
                     /\ n \in Threads /\ n.st = s
        BY <1>9
      <3>2. Become(c, n)
        BY <1>7, <2>5, <3>1
      <3> QED BY <2>5, <3>1, <3>2 DEF Poised
    <2>1. CASE (Refused(s) /\ ~Uncaught(s)) \/ (~Refused(s) /\ s.verb = "INSERT" /\ s.vals = <<>>)
      <3>1. PICK n : n = [r EXCEPT !.pc = "answer"] /\ n.pc = "answer"
                     /\ n \in Threads /\ n.st = s /\ n.snap = f /\ n.body = <<>>
        BY <1>9
      <3>2. Become(c, n)
        BY <1>7, <2>1, <3>1
      <3>3. Answered(c, n)
        BY <1>8, <3>1 DEF Answered
      <3> QED BY <3>1, <3>2, <3>3 DEF Poised
    <2>2. CASE ~Refused(s) /\ s.verb = "INSERT" /\ s.vals # <<>>
      <3>1. PICK n : /\ n = [r EXCEPT !.pc = "take"] /\ n.pc = "take" /\ n.k = 1
                     /\ n \in Threads /\ n.st = s /\ n.snap = f /\ n.body = <<>>
        BY <1>9
      <3>2. Become(c, n)
        BY <1>7, <2>2, <3>1
      <3>3. Inserting(c, n)
        BY <1>8, <2>2, <3>1 DEF Inserting
      <3>4. 1 \in DOMAIN s.vals
        BY <1>4, <2>2 DEF IsStatement
      <3>5. 1 \in Assigned(s)
        BY <2>2, <3>4 DEF Assigned
      <3> QED BY <3>1, <3>2, <3>3, <3>5 DEF Poised
    <2>3. CASE ~Refused(s) /\ s.verb # "INSERT" /\ ~IsDirect(s)
      <3>1. PICK n : /\ n = [r EXCEPT !.pc = "bound"] /\ n.pc = "bound" /\ n.conds = cs
                     /\ n \in Threads /\ n.st = s /\ n.snap = f /\ n.body = <<>>
        BY <1>9
      <3>2. Become(c, n)
        BY <1>7, <2>3, <3>1
      <3>3. BodyBelow(n.body, n.i)
        BY <1>8, <3>1 DEF BodyBelow
      <3>4. Scanning(c, n)
        BY <1>2, <1>8, <2>3, <3>1, <3>3 DEF Scanning
      <3> QED BY <2>3, <3>1, <3>2, <3>4 DEF Poised
    <2>4. CASE ~Refused(s) /\ s.verb # "INSERT" /\ IsDirect(s)
      <3>1. Conditions(s)[1].val[1] \in Nat
        <4>1. cs \in Seq(WhereItem) /\ cs # <<>> /\ Kind(cs[1]) = "DIRECT"
          BY <1>2, <2>4 DEF IsDirect, CondSeqs
        <4>2. 1 \in 1 .. Len(cs)
          BY <4>1
        <4>3. PICK e \in WhereItem : e = cs[1]
          BY <4>1, <4>2
        <4>4. e.word = "cond" => e.val # <<>>
          BY <1>2, <4>2, <4>3 DEF CondsOK
        <4>5. Kind(e) \in Bounds
          BY <4>1, <4>3 DEF Bounds
        <4> QED BY <1>2, <4>3, <4>4, <4>5, BoundValue
      <3>2. PICK x \in Nat : x = Conditions(s)[1].val[1]
        BY <3>1
      <3>3. /\ d \in Threads /\ d.st = s /\ d.snap = f /\ d.conds = cs /\ d.body = <<>>
            /\ d.i = x
        BY <1>5, <1>6, <3>2 DEF Threads
      <3>4. Scanning(c, d)
        BY <1>2, <1>8, <2>4, <3>3 DEF Scanning
      <3>5. CASE s.verb = "SELECT"
        <4>1. PICK n : n = Selected(d)
          OBVIOUS
        <4>2. Become(c, n)
          BY <1>7, <2>4, <3>5, <4>1
        <4>3. Poised(c, n)
          BY <3>3, <3>4, <3>5, <4>1, SelectedPoised
        <4> QED BY <4>2, <4>3
      <3>6. CASE s.verb # "SELECT"
        <4>1. PICK n : n = [d EXCEPT !.pc = "probe"]
          OBVIOUS
        <4>2. Become(c, n)
          BY <1>7, <2>4, <3>6, <4>1
        <4>3. n \in Threads /\ n.pc = "probe"
          BY <3>3, <4>1 DEF Threads, Locations
        <4>4. n.st = s /\ n.snap = f /\ n.conds = cs /\ n.body = <<>>
          BY <3>3, <4>1 DEF Threads
        <4>5. Scanning(c, n)
          BY <1>2, <1>8, <2>4, <4>4 DEF Scanning
        <4> QED BY <2>4, <4>2, <4>3, <4>4, <4>5 DEF Poised
      <3> QED BY <3>5, <3>6
    <2> QED BY <2>1, <2>2, <2>3, <2>4, <2>5
  <1>11. touched' \in [Clients -> SUBSET Lines]
    <2>1. PICK H : H = UNION {InHand(run[h]) : h \in Clients \ {c}}
      OBVIOUS
    <2>2. ASSUME NEW h \in Clients PROVE InHand(run[h]) \subseteq Lines
      <3>1. PICK q : q = run[h] /\ Poised(h, q)
        BY ThreadIs
      <3>2. InHand(q) \subseteq Lines
        BY <3>1 DEF InHand, Poised
      <3> QED BY <3>1, <3>2
    <2>3. H \in SUBSET Lines
      BY <2>1, <2>2
    <2>4. touched' = [touched EXCEPT ![c] = H] /\ touched \in [Clients -> SUBSET Lines]
      BY <2>1 DEF Submit, TypeInv
    <2> QED BY <2>3, <2>4
  <1>12. /\ line' = line /\ freeId' = freeId /\ places' = places /\ stack' = stack
         /\ crashed' = crashed
    BY DEF Submit, tableVars
  <1> QED BY <1>10, <1>11, <1>12, TypeKept DEF TypeInv

LEMMA TypeAnswer ==
  ASSUME TypeInv, NEW c \in Clients, Answer(c)
  PROVE  TypeInv'
  <1>1. PICK n : n = Idle
    OBVIOUS
  <1>2. Become(c, n) /\ Poised(c, n)
    BY <1>1, IdleType DEF Answer, Poised
  <1>3. touched' = [touched EXCEPT ![c] = {}] /\ touched \in [Clients -> SUBSET Lines]
    BY DEF Answer, TypeInv
  <1>4. touched' \in [Clients -> SUBSET Lines]
    BY <1>3
  <1>5. /\ line' = line /\ freeId' = freeId /\ places' = places /\ stack' = stack
        /\ crashed' = crashed
    BY DEF Answer, tableVars
  <1> QED BY <1>2, <1>4, <1>5, TypeKept DEF TypeInv

LEMMA TypeBound ==
  ASSUME TypeInv, NEW c \in Clients, Bound(c)
  PROVE  TypeInv'
  <1>1. PICK r : r = run[c] /\ Poised(c, r) /\ r \in Threads
    BY ThreadIs
  <1>2. r.pc = "bound"
    BY <1>1 DEF Bound, At
  <1>3. Scanning(c, r) /\ r.body = <<>> /\ ~IsDirect(r.st)
    BY <1>1, <1>2 DEF Poised
  <1>4. PICK cs \in Seq(WhereItem), L \in Nat : cs = r.conds /\ L = Len(cs) /\ CondsOK(cs)
    BY <1>1, <1>3 DEF Threads, CondSeqs, Scanning
  <1> DEFINE select == r.st.verb = "SELECT"
             kinds == {"TO", "FROM"} \cup (IF select THEN {"AND", "OR"} ELSE {})
  <1>5. PICK n \in 0 .. L : n = Leading(cs, kinds)
    <2> HIDE DEF kinds
    <2> QED BY <1>4, LeadingIs
  <1>6. PICK lead \in Seq(WhereItem) : lead = SubSeq(cs, 1, n) /\ CondsOK(lead)
    <2>1. SubSeq(cs, 1, n) \in Seq(WhereItem) /\ Len(SubSeq(cs, 1, n)) = n
          /\ \A j \in 1 .. n : SubSeq(cs, 1, n)[j] = cs[j]
      BY <1>4
    <2>2. \A j \in 1 .. n : j \in 1 .. L
      OBVIOUS
    <2>3. \A j \in 1 .. L : cs[j].word = "cond" => cs[j].val # <<>>
      BY <1>4 DEF CondsOK
    <2>4. PICK u : u = SubSeq(cs, 1, n)
      OBVIOUS
    <2>5. \A j \in 1 .. n : u[j].word = "cond" => u[j].val # <<>>
      BY <2>1, <2>2, <2>3, <2>4, Zenon
    <2> QED BY <2>1, <2>4, <2>5 DEF CondsOK
  <1>7. PICK rest \in Seq(WhereItem) : rest = SubSeq(cs, n + 1, L) /\ CondsOK(rest)
    <2>1. SubSeq(cs, n + 1, L) \in Seq(WhereItem) /\ Len(SubSeq(cs, n + 1, L)) = L - n
          /\ \A j \in 1 .. L - n : SubSeq(cs, n + 1, L)[j] = cs[n + j]
      BY <1>4
    <2>2. \A j \in 1 .. L - n : n + j \in 1 .. L
      OBVIOUS
    <2>3. \A j \in 1 .. L : cs[j].word = "cond" => cs[j].val # <<>>
      BY <1>4 DEF CondsOK
    <2>4. PICK u : u = SubSeq(cs, n + 1, L)
      OBVIOUS
    <2>5. \A j \in 1 .. L - n : u[j].word = "cond" => u[j].val # <<>>
      BY <2>1, <2>2, <2>3, <2>4, Zenon
    <2> QED BY <2>1, <2>4, <2>5 DEF CondsOK
  <1>8. PICK to \in Nat : to = BoundIn(lead, "TO", freeId)
    <2>1. PICK f \in Nat : f = freeId
      BY DEF TypeInv
    <2> QED BY <1>6, <2>1, BoundInType
  <1>9. PICK from \in Nat : from = IF select THEN BoundIn(lead, "FROM", 0) ELSE 0
    BY <1>6, BoundInType
  <1>10. PICK new \in CondSeqs : /\ new = IF select THEN rest ELSE cs
                                 /\ CondsOK(new)
    BY <1>4, <1>7 DEF CondSeqs
  <1>11. PICK m : m = [r EXCEPT !.pc = "count", !.last = to, !.i = from, !.conds = new]
    OBVIOUS
  <1>12. Become(c, m)
    <2>1. Become(c, [r EXCEPT !.pc = "count",
                              !.last = BoundIn(lead, "TO", freeId),
                              !.i = IF select THEN BoundIn(lead, "FROM", 0) ELSE 0,
                              !.conds = IF select THEN SubSeq(@, n + 1, Len(@)) ELSE @])
      BY <1>1, <1>4, <1>5, <1>6 DEF Bound
    <2>2. (IF select THEN SubSeq(r.conds, n + 1, Len(r.conds)) ELSE r.conds) = new
      BY <1>4, <1>7, <1>10
    <2> HIDE DEF select
    <2> QED BY <1>8, <1>9, <1>11, <2>1, <2>2
  <1>13. m \in Threads /\ m.pc = "count"
    BY <1>1, <1>11 DEF Threads, Locations
  <1>14. /\ m.st = r.st /\ m.snap = r.snap /\ m.conds = new /\ m.body = <<>>
    BY <1>1, <1>3, <1>11 DEF Threads
  <1>15. BodyBelow(m.body, m.i)
    BY <1>14 DEF BodyBelow
  <1>16. Scanning(c, m)
    BY <1>3, <1>10, <1>14, <1>15 DEF Scanning
  <1>17. Poised(c, m)
    BY <1>3, <1>13, <1>14, <1>16 DEF Poised
  <1> QED BY <1>12, <1>17, ThreadKept DEF Bound

LEMMA TypeCount ==
  ASSUME TypeInv, NEW c \in Clients, Count(c)
  PROVE  TypeInv'
  <1>1. PICK r : r = run[c] /\ Poised(c, r) /\ r \in Threads
    BY ThreadIs
  <1>2. r.pc = "count"
    BY <1>1 DEF Count, At
  <1>3. Scanning(c, r) /\ ~IsDirect(r.st)
    BY <1>1, <1>2 DEF Poised
  <1>4. PICK p \in Nat : p = ActiveCount(r)
    <2>1. PICK x \in Nat : x = places
      BY LinesAre DEF TypeInv
    <2>2. PICK y \in Nat : y = LimitOf(r.st)
      BY <1>3, InStmts, Clauses DEF Scanning
    <2>3. {x, y} \subseteq Nat /\ {x, y} # {}
      OBVIOUS
    <2>4. Min({x, y}) \in {x, y}
      BY <2>3, MinIs
    <2> QED BY <2>1, <2>2, <2>4 DEF ActiveCount
  <1>5. PICK m : m = [r EXCEPT !.pc = "scan", !.cnt = p]
    OBVIOUS
  <1>6. Become(c, m)
    BY <1>1, <1>4, <1>5 DEF Count
  <1>7. m \in Threads /\ m.pc = "scan"
    BY <1>1, <1>5 DEF Threads, Locations
  <1>8. /\ m.st = r.st /\ m.snap = r.snap /\ m.conds = r.conds /\ m.body = r.body
        /\ m.i = r.i
    BY <1>1, <1>5 DEF Threads
  <1>9. Scanning(c, m)
    BY <1>3, <1>8 DEF Scanning
  <1>10. Poised(c, m)
    BY <1>3, <1>7, <1>8, <1>9 DEF Poised
  <1> QED BY <1>6, <1>10, ThreadKept DEF Count

LEMMA TypeScanLine ==
  ASSUME TypeInv, NEW c \in Clients, ScanLine(c)
  PROVE  TypeInv'
  <1>1. PICK r : r = run[c] /\ Poised(c, r) /\ r \in Threads
    BY ThreadIs
  <1>2. r.pc = "scan" /\ r.i \in Lines
    BY <1>1 DEF ScanLine, At
  <1>3. Scanning(c, r) /\ ~IsDirect(r.st)
    BY <1>1, <1>2 DEF Poised
  <1>4. Become(c, IF ~Active(line, r.i) THEN Finished(r)
                  ELSE IF r.conds = <<>> THEN Selected(r)
                  ELSE [r EXCEPT !.pc = "test", !.k = 1, !.ok = FALSE])
    BY <1>1 DEF ScanLine
  <1>5. PICK n : Become(c, n) /\ Poised(c, n)
    <2>1. CASE ~Active(line, r.i)
      <3>1. BodyBelow(r.body, r.i + 1)
        <4>1. PICK i \in Nat : i = r.i
          BY <1>1 DEF Threads
        <4>2. \A n \in 1 .. Len(r.body) : r.body[n][1][1] \in Nat /\ r.body[n][1][1] < i
          BY <1>3, <4>1 DEF Scanning, Records, IsRecord, BodyBelow
        <4>3. \A n \in 1 .. Len(r.body) : r.body[n][1][1] < i + 1
          BY <4>1, <4>2
        <4> QED BY <4>1, <4>3 DEF BodyBelow
      <3>2. Poised(c, Finished(r))
        BY <1>1, <1>3, <3>1, FinishedPoised DEF Scanning
      <3> QED BY <1>4, <2>1, <3>2
    <2>2. CASE Active(line, r.i) /\ r.conds = <<>>
      <3>1. Poised(c, Selected(r))
        BY <1>1, <1>2, <1>3, SelectedPoised
      <3> QED BY <1>4, <2>2, <3>1
    <2>3. CASE Active(line, r.i) /\ r.conds # <<>>
      <3>1. PICK n : n = [r EXCEPT !.pc = "test", !.k = 1, !.ok = FALSE]
        OBVIOUS
      <3>2. n \in Threads /\ n.pc = "test" /\ n.k = 1
        <4>1. 1 \in Positive
          BY DEF Positive
        <4> QED BY <1>1, <3>1, <4>1 DEF Threads, Locations
      <3>3. /\ n.st = r.st /\ n.snap = r.snap /\ n.conds = r.conds /\ n.body = r.body
            /\ n.i = r.i
        BY <1>1, <3>1 DEF Threads
      <3>4. Scanning(c, n)
        BY <1>3, <3>3 DEF Scanning
      <3>5. n.k <= Len(n.conds)
        <4>1. r.conds \in Seq(WhereItem)
          BY <1>1 DEF Threads, CondSeqs
        <4> QED BY <2>3, <3>2, <3>3, <4>1
      <3>6. Poised(c, n)
        BY <1>2, <1>3, <3>2, <3>3, <3>4, <3>5 DEF Poised
      <3> QED BY <1>4, <2>3, <3>1, <3>6
    <2> QED BY <2>1, <2>2, <2>3
  <1> QED BY <1>5, ThreadKept DEF ScanLine

LEMMA TypeProbeLine ==
  ASSUME TypeInv, NEW c \in Clients, ProbeLine(c)
  PROVE  TypeInv'
  <1>1. PICK r : r = run[c] /\ Poised(c, r) /\ r \in Threads
    BY ThreadIs
  <1>2. r.pc = "probe" /\ r.i \in Lines
    BY <1>1 DEF ProbeLine, At
  <1>3. Scanning(c, r) /\ IsDirect(r.st)
    BY <1>1, <1>2 DEF Poised
  <1>4. Become(c, IF Active(line, r.i) THEN Selected(r)
                  ELSE [r EXCEPT !.pc = "answer",
                                 !.body = IF r.st.verb = "DELETE" THEN <<<<<<r.i>>>>>>
                                          ELSE <<>>])
    BY <1>1 DEF ProbeLine
  <1>5. PICK n : Become(c, n) /\ Poised(c, n)
    <2>1. CASE Active(line, r.i)
      <3>1. Poised(c, Selected(r))
        BY <1>1, <1>2, <1>3, SelectedPoised
      <3> QED BY <1>4, <2>1, <3>1
    <2>2. CASE ~Active(line, r.i)
      <3>1. r.i \in Nat
        BY <1>1 DEF Threads
      <3>2. PICK z : /\ z = IF r.st.verb = "DELETE" THEN <<<<<<r.i>>>>>> ELSE <<>>
                     /\ Records(r.st, z)
        <4>1. CASE r.st.verb = "DELETE"
          <5>1. PICK b : b = <<<<r.i>>>> /\ IsRecord(r.st, b)
            <6>1. Width(r.st) = 1
              BY <4>1 DEF Width
            <6> QED BY <3>1, <6>1, IdRecord
          <5>2. <<b>> \in Bodies /\ Len(<<b>>) = 1 /\ <<b>>[1] = b
            BY <5>1 DEF IsRecord, Bodies, Record
          <5>3. Records(r.st, <<b>>)
            BY <5>1, <5>2 DEF Records
          <5> QED BY <4>1, <5>1, <5>3
        <4>2. CASE r.st.verb # "DELETE"
          <5>1. <<>> \in Bodies /\ Len(<<>>) = 0
            BY DEF Bodies
          <5>2. Records(r.st, <<>>)
            BY <5>1 DEF Records
          <5> QED BY <4>2, <5>2
        <4> QED BY <4>1, <4>2
      <3>3. PICK n : n = [r EXCEPT !.pc = "answer", !.body = z]
        OBVIOUS
      <3>4. Become(c, n)
        BY <1>4, <2>2, <3>2, <3>3
      <3>5. z \in Bodies
        BY <3>2 DEF Records
      <3>6. n \in Threads /\ n.pc = "answer"
        BY <1>1, <3>3, <3>5 DEF Threads, Locations
      <3>7. n.st = r.st /\ n.snap = r.snap /\ n.body = z
        BY <1>1, <3>3, <3>5 DEF Threads
      <3>8. Answered(c, n)
        BY <1>3, <3>2, <3>7 DEF Answered, Scanning, Records
      <3> QED BY <3>4, <3>6, <3>8 DEF Poised
    <2> QED BY <2>1, <2>2
  <1> QED BY <1>5, ThreadKept DEF ProbeLine

LEMMA TypeTest ==
  ASSUME TypeInv, NEW c \in Clients, Test(c)
  PROVE  TypeInv'
  <1>1. PICK r : r = run[c] /\ Poised(c, r) /\ r \in Threads
    BY ThreadIs
  <1>2. r.pc = "test"
    BY <1>1 DEF Test, At
  <1>3. Scanning(c, r) /\ ~IsDirect(r.st) /\ r.i \in Lines /\ r.k <= Len(r.conds)
    BY <1>1, <1>2 DEF Poised
  <1>4. PICK met \in Met(r) :
          LET now == IF Kind(r.conds[r.k]) \in {"AND", "OR"} THEN r.ok
                     ELSE IF LogicOp(r.conds, r.k) = "OR" THEN r.ok \/ met
                     ELSE r.ok /\ met
          IN Become(c, IF r.k < Len(r.conds) THEN [r EXCEPT !.k = @ + 1, !.ok = now]
                       ELSE IF now THEN Selected(r) ELSE Finished(r))
    BY <1>1 DEF Test
  <1>5. r.ok \in BOOLEAN /\ r.k \in Nat /\ r.k + 1 \in Positive
    BY <1>1 DEF Threads, Positive
  <1> DEFINE now == IF Kind(r.conds[r.k]) \in {"AND", "OR"} THEN r.ok
                    ELSE IF LogicOp(r.conds, r.k) = "OR" THEN r.ok \/ met
                    ELSE r.ok /\ met
  <1>6. now \in BOOLEAN
    BY <1>5
  <1>7. Become(c, IF r.k < Len(r.conds) THEN [r EXCEPT !.k = @ + 1, !.ok = now]
                  ELSE IF now THEN Selected(r) ELSE Finished(r))
    BY <1>4
  <1> HIDE DEF now
  <1>8. PICK n : Become(c, n) /\ Poised(c, n)
    <2>1. CASE r.k < Len(r.conds)
      <3>1. PICK y \in BOOLEAN, k \in Positive : y = now /\ k = r.k + 1
        BY <1>5, <1>6
      <3>2. PICK n : n = [r EXCEPT !.k = k, !.ok = y]
        OBVIOUS
      <3>3. Become(c, n)
        BY <1>7, <2>1, <3>1, <3>2
      <3>4. n \in Threads /\ n.pc = "test" /\ n.k = r.k + 1
        BY <1>1, <1>2, <3>1, <3>2 DEF Threads
      <3>5. /\ n.st = r.st /\ n.snap = r.snap /\ n.conds = r.conds /\ n.body = r.body
            /\ n.i = r.i
        BY <1>1, <3>2 DEF Threads
      <3>6. Scanning(c, n)
        BY <1>3, <3>5 DEF Scanning
      <3>7. n.k <= Len(n.conds)
        <4>1. PICK L \in Nat : L = Len(r.conds)
          BY <1>1 DEF Threads, CondSeqs
        <4> QED BY <1>5, <2>1, <3>4, <3>5, <4>1
      <3> QED BY <1>3, <3>3, <3>4, <3>5, <3>6, <3>7 DEF Poised
    <2>2. CASE ~(r.k < Len(r.conds)) /\ now
      <3>1. Poised(c, Selected(r))
        BY <1>1, <1>3, SelectedPoised
      <3> QED BY <1>7, <2>2, <3>1
    <2>3. CASE ~(r.k < Len(r.conds)) /\ ~now
      <3>1. BodyBelow(r.body, r.i + 1)
        <4>1. PICK i \in Nat : i = r.i
          BY <1>1 DEF Threads
        <4>2. \A n \in 1 .. Len(r.body) : r.body[n][1][1] \in Nat /\ r.body[n][1][1] < i
          BY <1>3, <4>1 DEF Scanning, Records, IsRecord, BodyBelow
        <4>3. \A n \in 1 .. Len(r.body) : r.body[n][1][1] < i + 1
          BY <4>1, <4>2
        <4> QED BY <4>1, <4>3 DEF BodyBelow
      <3>2. Poised(c, Finished(r))
        BY <1>1, <1>3, <3>1, FinishedPoised DEF Scanning
      <3> QED BY <1>7, <2>3, <3>2
    <2> QED BY <2>1, <2>2, <2>3
  <1> QED BY <1>8, ThreadKept DEF Test

\* A record is completed.
LEMMA CompletedPoised ==
  ASSUME NEW c \in Clients, NEW r, Scanning(c, r), NEW x \in Threads,
         x.st = r.st /\ x.snap = r.snap /\ x.conds = r.conds /\ x.body = r.body /\ x.i = r.i,
         NEW b, IsRecord(r.st, b), b[1][1] = r.i
  PROVE  Poised(c, Finished([x EXCEPT !.body = Append(@, b)]))
  <1>1. PICK i \in Nat : i = r.i
    BY DEF Threads
  <1>2. BodyBelow(r.body, i)
    <2>1. CASE IsDirect(r.st)
      BY <2>1 DEF Scanning, BodyBelow
    <2> QED BY <1>1, <2>1 DEF Scanning
  <1>3. Records(r.st, r.body)
    BY DEF Scanning
  <1>4. PICK z : z = Append(r.body, b) /\ Records(r.st, z) /\ BodyBelow(z, i + 1)
    <2>1. PICK body : body = r.body /\ Records(r.st, body) /\ BodyBelow(body, i)
      BY <1>2, <1>3
    <2>2. b[1][1] = i
      BY <1>1
    <2>3. Records(r.st, Append(body, b)) /\ BodyBelow(Append(body, b), i + 1)
      BY <2>1, <2>2, AppendRecord
    <2> QED BY <2>1, <2>3
  <1>5. z \in Bodies
    BY <1>4 DEF Records
  <1>6. PICK y : y = [x EXCEPT !.body = z]
    OBVIOUS
  <1>7. y = [x EXCEPT !.body = Append(@, b)]
    BY <1>4, <1>6
  <1>8. /\ y \in Threads /\ y.st = r.st /\ y.snap = r.snap /\ y.conds = r.conds /\ y.body = z
        /\ y.i = i
    BY <1>1, <1>5, <1>6 DEF Threads
  <1>9. Poised(c, Finished(y))
    BY <1>4, <1>8, FinishedPoised DEF Scanning
  <1> QED BY <1>7, <1>9

LEMMA TypeReadColumn ==
  ASSUME TypeInv, NEW c \in Clients, ReadColumn(c)
  PROVE  TypeInv'
  <1>1. PICK r : r = run[c] /\ Poised(c, r) /\ r \in Threads
    BY ThreadIs
  <1>2. r.pc = "read" /\ r.i \in Lines
    BY <1>1 DEF ReadColumn, At
  <1>3. /\ Scanning(c, r) /\ r.st.verb = "SELECT" /\ r.k <= Len(ColumnsOf(r.st))
        /\ Len(r.rec) = r.k /\ r.rec[1] = <<r.i>>
    BY <1>1, <1>2 DEF Poised
  <1>4. PICK cols \in Seq(1 .. N), L \in Nat : cols = ColumnsOf(r.st) /\ L = Len(cols)
    BY <1>3, InStmts, ColumnsOfType DEF Scanning
  <1>5. PICK k \in Nat \ {0} : k = r.k /\ k <= L /\ k + 1 \in Positive
    BY <1>1, <1>3, <1>4 DEF Threads, Positive
  <1>6. PICK v \in Value : v = Cell(line[r.i], cols[r.k])
    <2>1. line[r.i] \in ByteLines
      BY <1>2 DEF TypeInv, Files
    <2>2. k \in 1 .. L
      BY <1>5
    <2>3. cols[k] \in 1 .. N
      <3>1. PICK D : D = 1 .. N
        OBVIOUS
      <3>2. cols \in Seq(D)
        BY <3>1
      <3>3. cols[k] \in D
        BY <1>4, <2>2, <3>2
      <3> QED BY <3>1, <3>3
    <2> QED BY <1>5, <2>1, <2>3, CellType
  <1>7. PICK rec \in Record : /\ rec = Append(r.rec, v)
                              /\ Len(rec) = k + 1 /\ rec[1] = <<r.i>>
    <2>1. r.rec \in Seq(Value) /\ Len(r.rec) = k /\ k \in Nat \ {0}
      BY <1>1, <1>3, <1>5 DEF Threads, Record
    <2>2. Append(r.rec, v) \in Seq(Value) /\ Len(Append(r.rec, v)) = k + 1
      BY <2>1
    <2>3. Append(r.rec, v)[1] = r.rec[1]
      BY <2>1
    <2> QED BY <1>3, <2>2, <2>3 DEF Record
  <1>8. PICK kk \in Positive : kk = k + 1
    BY <1>5
  <1>9. PICK x : x = [r EXCEPT !.k = kk, !.rec = rec]
    OBVIOUS
  <1>10. /\ x \in Threads /\ x.st = r.st /\ x.snap = r.snap /\ x.conds = r.conds
         /\ x.body = r.body /\ x.i = r.i /\ x.k = kk /\ x.rec = rec /\ x.pc = r.pc
    BY <1>1, <1>9 DEF Threads
  <1>11. x = [r EXCEPT !.k = @ + 1, !.rec = Append(@, Cell(line[r.i], cols[r.k]))]
    BY <1>5, <1>6, <1>7, <1>8, <1>9
  <1>12. Become(c, IF r.k < Len(cols) THEN x ELSE Finished([x EXCEPT !.body = Append(@, x.rec)]))
    BY <1>1, <1>4, <1>11, Zenon DEF ReadColumn
  <1>13. PICK n : Become(c, n) /\ Poised(c, n)
    <2>1. CASE r.k < Len(cols)
      <3>1. Scanning(c, x)
        BY <1>3, <1>10 DEF Scanning
      <3>2. x.k <= Len(ColumnsOf(x.st))
        BY <1>4, <1>5, <1>8, <1>10, <2>1
      <3>3. Len(x.rec) = x.k /\ x.rec[1] = <<x.i>>
        BY <1>7, <1>8, <1>10
      <3>4. Poised(c, x)
        BY <1>2, <1>3, <1>10, <3>1, <3>2, <3>3 DEF Poised
      <3> QED BY <1>12, <2>1, <3>4
    <2>2. CASE ~(r.k < Len(cols))
      <3>1. k = L
        BY <1>4, <1>5, <2>2
      <3>2. Width(r.st) = k + 1
        BY <1>3, <1>4, <3>1 DEF Width
      <3>3. rec[1][1] = r.i /\ r.i \in Nat
        BY <1>1, <1>7 DEF Threads
      <3>4. IsRecord(r.st, rec)
        BY <1>7, <3>2, <3>3 DEF IsRecord, Record
      <3>5. Poised(c, Finished([x EXCEPT !.body = Append(@, rec)]))
        BY <1>3, <1>10, <3>3, <3>4, CompletedPoised
      <3>6. Poised(c, Finished([x EXCEPT !.body = Append(@, x.rec)]))
        BY <1>10, <3>5
      <3> QED BY <1>12, <2>2, <3>6
    <2> QED BY <2>1, <2>2
  <1> QED BY <1>13, ThreadKept DEF ReadColumn

LEMMA TypeEndScan ==
  ASSUME TypeInv, NEW c \in Clients, EndScan(c)
  PROVE  TypeInv'
  <1>1. PICK r : r = run[c] /\ Poised(c, r) /\ r \in Threads
    BY ThreadIs
  <1>2. r.pc = "scan"
    BY <1>1 DEF EndScan, At
  <1>3. Scanning(c, r)
    BY <1>1, <1>2 DEF Poised
  <1>4. PICK s, body : s = r.st /\ body = r.body /\ Records(s, body)
    BY <1>3 DEF Scanning
  <1>5. IsStatement(s) /\ ~Refused(s) /\ body \in Seq(Record)
    BY <1>3, <1>4, InStmts DEF Scanning, Records, Bodies
  <1>6. PICK z : z = Sorted(s, body) /\ Records(s, z)
    <2>1. PICK L \in Nat : L = Len(body) /\ DOMAIN body = 1 .. L
      BY <1>5
    <2>2. InTotalOrder(s, body)
      BY <1>4, <1>5, <2>1, BeforeIsOrder DEF Records
    <2>3. PICK p, z : z = Sorted(s, body) /\ Permutes(p, L, body, z)
      BY <1>5, <2>1, <2>2, SortedIs
    <2>4. /\ p \in [1 .. L -> 1 .. L] /\ \A m, h \in 1 .. L : p[m] = p[h] => m = h
          /\ z = [m \in 1 .. L |-> body[p[m]]]
      BY <2>3 DEF Permutes
    <2>5. \A m \in 1 .. L : body[p[m]] \in Record /\ IsRecord(s, body[p[m]])
      BY <1>4, <1>5, <2>1, <2>4, SMTT(30) DEF Records
    <2>6. z \in Seq(Record) /\ Len(z) = L
      BY <2>4, <2>5
    <2>7. \A h, j \in 1 .. L : z[h][1][1] = z[j][1][1] => h = j
      <3>1. \A h, j \in 1 .. L : body[h][1][1] = body[j][1][1] => h = j
        BY <1>4, <2>1 DEF Records
      <3> QED BY <2>4, <3>1, SMTT(30)
    <2>8. \A m \in 1 .. L : IsRecord(s, z[m])
      BY <2>4, <2>5
    <2> QED BY <2>3, <2>6, <2>7, <2>8 DEF Records, Bodies
  <1>7. PICK n : n = [r EXCEPT !.pc = "answer", !.body = z]
    OBVIOUS
  <1>8. Become(c, n)
    BY <1>1, <1>4, <1>6, <1>7 DEF EndScan
  <1>9. z \in Bodies
    BY <1>6 DEF Records
  <1>10. n \in Threads /\ n.pc = "answer"
    BY <1>1, <1>7, <1>9 DEF Threads, Locations
  <1>11. n.st = s /\ n.snap = r.snap /\ n.body = z
    BY <1>1, <1>4, <1>7, <1>9 DEF Threads
  <1>12. Answered(c, n)
    BY <1>3, <1>4, <1>6, <1>11 DEF Answered, Scanning, Records
  <1>13. Poised(c, n)
    BY <1>10, <1>12 DEF Poised
  <1> QED BY <1>8, <1>13, ThreadKept DEF EndScan

\* A step that changes a line.
LEMMA LineKept ==
  ASSUME TypeInv, NEW c \in Clients, NEW n, Become(c, n), Poised(c, n),
         NEW l \in Lines, NEW f \in ByteLines, line' = [line EXCEPT ![l] = f],
         Touch(c, l), UNCHANGED <<tableVars, crashed>>
  PROVE  TypeInv'
  <1>1. line' \in Files
    BY DEF TypeInv, Files
  <1>2. touched' \in [Clients -> SUBSET Lines]
    <2>1. ASSUME NEW d \in Clients
          PROVE  touched[d] \in SUBSET Lines /\ touched[d] \cup {l} \in SUBSET Lines
      BY DEF TypeInv
    <2> QED BY <2>1 DEF Touch
  <1>3. freeId' = freeId /\ places' = places /\ stack' = stack /\ crashed' = crashed
    BY DEF tableVars
  <1> QED BY <1>1, <1>2, <1>3, TypeKept DEF TypeInv

LEMMA TypeWriteColumn ==
  ASSUME TypeInv, NEW c \in Clients, WriteColumn(c)
  PROVE  TypeInv'
  <1>1. PICK r : r = run[c] /\ Poised(c, r) /\ r \in Threads
    BY ThreadIs
  <1>2. r.pc = "write"
    BY <1>1 DEF WriteColumn, At
  <1>3. /\ r.i \in Lines /\ r.k \in Assigned(r.st)
        /\ \/ Inserting(c, r)
           \/ Scanning(c, r) /\ r.st.verb = "UPDATE" /\ r.rec = <<<<r.i>>>>
    BY <1>1, <1>2 DEF Poised
  <1>4. PICK s : s = r.st /\ s \in Statements[c] /\ ~Refused(s)
    BY <1>3 DEF Inserting, Scanning
  <1>5. IsStatement(s) /\ Accepted(s)
    BY <1>4, InStmts DEF Accepted
  <1>6. PICK k \in Nat \ {0} : k = r.k /\ k \in Assigned(s)
    BY <1>3, <1>4, <1>5, TargetType
  <1>7. PICK f \in ByteLines : f = Store(line[r.i], Offset[Target(s, k)], Bytes(s, k))
    <2>1. PICK t \in 1 .. N, v \in Seq(Byte) : t = Target(s, k) /\ v = Bytes(s, k)
      BY <1>5, <1>6, TargetType
    <2>2. PICK o \in Nat : o = Offset[t]
      BY OffsetIs
    <2>3. PICK g \in ByteLines : g = line[r.i]
      BY <1>3 DEF TypeInv, Files
    <2>4. Store(g, o, v) \in ByteLines
      BY StoreType
    <2> QED BY <2>1, <2>2, <2>3, <2>4
  <1>8. line' = [line EXCEPT ![r.i] = f]
    BY <1>1, <1>4, <1>6, <1>7 DEF WriteColumn
  <1>9. PICK kk \in Positive : kk = k + 1
    BY DEF Positive
  <1>10. PICK x : x = [r EXCEPT !.k = kk]
    OBVIOUS
  <1>11. /\ x \in Threads /\ x.st = s /\ x.snap = r.snap /\ x.conds = r.conds
         /\ x.body = r.body /\ x.i = r.i /\ x.k = kk /\ x.rec = r.rec /\ x.pc = r.pc
    BY <1>1, <1>4, <1>10 DEF Threads
  <1>12. Become(c, IF s.verb = "INSERT"
                   THEN [x EXCEPT !.pc = IF k % Len(Columns) = 0 THEN "counted" ELSE @]
                   ELSE IF k < Len(ColumnsOf(s)) THEN x
                   ELSE Finished([x EXCEPT !.body = Append(@, r.rec)]))
    <2>1. x = [r EXCEPT !.k = @ + 1]
      BY <1>6, <1>9, <1>10
    <2> QED BY <1>1, <1>4, <1>6, <2>1 DEF WriteColumn
  <1>13. PICK n : Become(c, n) /\ Poised(c, n)
    <2>1. CASE s.verb = "INSERT"
      <3>1. Inserting(c, r)
        BY <1>3, <1>4, <2>1 DEF Scanning
      <3>2. PICK L \in Nat : L = Len(s.vals) /\ DOMAIN s.vals = 1 .. L
        BY <1>5 DEF IsStatement
      <3>3. k \in 1 .. L
        BY <1>6, <2>1, <3>2 DEF Assigned
      <3>4. N \in Nat \ {0} /\ L % N = 0
        BY <1>4, <2>1, <3>2, ColumnsType DEF Refused, N
      <3>5. CASE k % N = 0
        <4>1. PICK n : n = [x EXCEPT !.pc = "counted"]
          OBVIOUS
        <4>2. Become(c, n)
          BY <1>12, <2>1, <3>5, <4>1 DEF N
        <4>3. n \in Threads /\ n.pc = "counted"
          BY <1>11, <4>1 DEF Threads, Locations
        <4>4. n.st = s /\ n.snap = r.snap /\ n.body = r.body /\ n.i = r.i
          BY <1>11, <4>1 DEF Threads
        <4>5. Inserting(c, n)
          BY <1>4, <3>1, <4>4 DEF Inserting
        <4> QED BY <1>3, <4>2, <4>3, <4>4, <4>5 DEF Poised
      <3>6. CASE k % N # 0
        <4>1. x = [x EXCEPT !.pc = IF k % Len(Columns) = 0 THEN "counted" ELSE @]
          BY <1>11, <3>6 DEF Threads, N
        <4>2. Become(c, x)
          BY <1>12, <2>1, <4>1
        <4>3. k # L
          <5> HIDE DEF N
          <5> QED BY <3>4, <3>6
        <4>4. kk \in 1 .. L
          BY <1>9, <3>3, <4>3
        <4>5. kk \in Assigned(s)
          BY <2>1, <3>2, <4>4 DEF Assigned
        <4>6. Inserting(c, x)
          BY <1>4, <1>11, <3>1 DEF Inserting
        <4> QED BY <1>2, <1>3, <1>11, <4>2, <4>5, <4>6 DEF Poised
      <3> QED BY <3>5, <3>6
    <2>2. CASE s.verb # "INSERT"
      <3>1. Scanning(c, r) /\ s.verb = "UPDATE" /\ r.rec = <<<<r.i>>>>
        BY <1>3, <1>4, <2>2 DEF Inserting
      <3>2. PICK L \in Nat : L = Len(ColumnsOf(s)) /\ DOMAIN ColumnsOf(s) = 1 .. L
        BY <1>4, <1>5, ColumnsOfType
      <3>3. k \in 1 .. L
        BY <1>6, <3>1, <3>2 DEF Assigned
      <3>4. CASE k < L
        <4>1. Become(c, x)
          BY <1>12, <2>2, <3>2, <3>4
        <4>2. kk \in 1 .. L
          BY <1>9, <3>3, <3>4
        <4>3. kk \in Assigned(s)
          BY <3>1, <3>2, <4>2 DEF Assigned
        <4>4. Scanning(c, x)
          BY <1>4, <1>11, <3>1 DEF Scanning
        <4> QED BY <1>2, <1>3, <1>11, <3>1, <4>1, <4>3, <4>4 DEF Poised
      <3>5. CASE ~(k < L)
        <4>1. PICK b : b = r.rec /\ IsRecord(s, b) /\ b[1][1] = r.i
          <5>1. Width(s) = 1
            BY <3>1 DEF Width
          <5>2. r.i \in Nat
            BY <1>1 DEF Threads
          <5> QED BY <3>1, <5>1, <5>2, IdRecord
        <4>2. Poised(c, Finished([x EXCEPT !.body = Append(@, b)]))
          BY <1>4, <1>11, <3>1, <4>1, CompletedPoised
        <4>3. Become(c, Finished([x EXCEPT !.body = Append(@, b)]))
          BY <1>12, <2>2, <3>2, <3>5, <4>1
        <4> QED BY <4>2, <4>3
      <3> QED BY <3>4, <3>5
    <2> QED BY <2>1, <2>2
  <1>14. Touch(c, r.i) /\ UNCHANGED <<tableVars, crashed>>
    BY <1>1 DEF WriteColumn
  <1>15. PICK l \in Lines : l = r.i
    BY <1>3
  <1> QED BY <1>8, <1>13, <1>14, <1>15, LineKept

LEMMA TypeDeactivate ==
  ASSUME TypeInv, NEW c \in Clients, Deactivate(c)
  PROVE  TypeInv'
  <1>1. PICK r : r = run[c] /\ Poised(c, r) /\ r \in Threads
    BY ThreadIs
  <1>2. r.pc = "deactivate"
    BY <1>1 DEF Deactivate, At
  <1>3. Scanning(c, r) /\ r.st.verb = "DELETE" /\ r.i \in Lines /\ r.rec = <<<<r.i>>>>
    BY <1>1, <1>2 DEF Poised
  <1>4. PICK f \in ByteLines : f = [line[r.i] EXCEPT ![0] = 0]
    <2>1. PICK g \in ByteLines : g = line[r.i]
      BY <1>3 DEF TypeInv, Files
    <2>2. 0 \in Byte
      BY DEF Byte
    <2> QED BY <2>1, <2>2, FlagType
  <1>5. line' = [line EXCEPT ![r.i] = f]
    BY <1>1, <1>4 DEF Deactivate
  <1>6. PICK n : n = [r EXCEPT !.pc = "push"]
    OBVIOUS
  <1>7. Become(c, n)
    BY <1>1, <1>6 DEF Deactivate
  <1>8. n \in Threads /\ n.pc = "push"
    BY <1>1, <1>6 DEF Threads, Locations
  <1>9. /\ n.st = r.st /\ n.snap = r.snap /\ n.conds = r.conds /\ n.body = r.body
        /\ n.i = r.i /\ n.rec = r.rec
    BY <1>1, <1>6 DEF Threads
  <1>10. Scanning(c, n)
    BY <1>3, <1>9 DEF Scanning
  <1>11. Poised(c, n)
    BY <1>3, <1>8, <1>9, <1>10 DEF Poised
  <1>12. Touch(c, r.i) /\ UNCHANGED <<tableVars, crashed>>
    BY <1>1 DEF Deactivate
  <1>13. PICK l \in Lines : l = r.i
    BY <1>3
  <1> QED BY <1>5, <1>7, <1>11, <1>12, <1>13, LineKept

LEMMA TypeActivate ==
  ASSUME TypeInv, NEW c \in Clients, Activate(c)
  PROVE  TypeInv'
  <1>1. PICK r : r = run[c] /\ Poised(c, r) /\ r \in Threads
    BY ThreadIs
  <1>2. r.pc = "activate"
    BY <1>1 DEF Activate, At
  <1>3. Inserting(c, r) /\ r.i \in Lines /\ r.k \in Assigned(r.st)
    BY <1>1, <1>2 DEF Poised
  <1>4. PICK f \in ByteLines : f = [line[r.i] EXCEPT ![0] = 1]
    <2>1. PICK g \in ByteLines : g = line[r.i]
      BY <1>3 DEF TypeInv, Files
    <2>2. 1 \in Byte
      BY DEF Byte
    <2> QED BY <2>1, <2>2, FlagType
  <1>5. line' = [line EXCEPT ![r.i] = f]
    BY <1>1, <1>4 DEF Activate
  <1>6. PICK n : n = [r EXCEPT !.pc = "write"]
    OBVIOUS
  <1>7. Become(c, n)
    BY <1>1, <1>6 DEF Activate
  <1>8. n \in Threads /\ n.pc = "write"
    BY <1>1, <1>6 DEF Threads, Locations
  <1>9. n.st = r.st /\ n.snap = r.snap /\ n.body = r.body /\ n.i = r.i /\ n.k = r.k
    BY <1>1, <1>6 DEF Threads
  <1>10. Inserting(c, n)
    BY <1>3, <1>9 DEF Inserting
  <1>11. Poised(c, n)
    BY <1>3, <1>8, <1>9, <1>10 DEF Poised
  <1>12. Touch(c, r.i) /\ UNCHANGED <<tableVars, crashed>>
    BY <1>1 DEF Activate
  <1>13. PICK l \in Lines : l = r.i
    BY <1>3
  <1> QED BY <1>5, <1>7, <1>11, <1>12, <1>13, LineKept

LEMMA TypePushInStack ==
  ASSUME TypeInv, NEW c \in Clients, PushInStack(c)
  PROVE  TypeInv'
  <1>1. PICK r : r = run[c] /\ Poised(c, r) /\ r \in Threads
    BY ThreadIs
  <1>2. r.pc = "push"
    BY <1>1 DEF PushInStack, At
  <1>3. Scanning(c, r) /\ r.st.verb = "DELETE" /\ r.i \in Lines /\ r.rec = <<<<r.i>>>>
    BY <1>1, <1>2 DEF Poised
  <1>4. PICK n : n = [r EXCEPT !.pc = "uncount"]
    OBVIOUS
  <1>5. Become(c, n)
    BY <1>1, <1>4 DEF PushInStack
  <1>6. n \in Threads /\ n.pc = "uncount"
    BY <1>1, <1>4 DEF Threads, Locations
  <1>7. /\ n.st = r.st /\ n.snap = r.snap /\ n.conds = r.conds /\ n.body = r.body
        /\ n.i = r.i /\ n.rec = r.rec
    BY <1>1, <1>4 DEF Threads
  <1>8. Scanning(c, n)
    BY <1>3, <1>7 DEF Scanning
  <1>9. Poised(c, n)
    BY <1>3, <1>6, <1>7, <1>8 DEF Poised
  <1>10. stack' = Append(stack, r.i) /\ stack \in Seq(Lines)
    BY <1>1 DEF PushInStack, TypeInv
  <1>11. stack' \in Seq(Lines)
    BY <1>3, <1>10
  <1>12. /\ line' = line /\ freeId' = freeId /\ places' = places
         /\ crashed' = crashed /\ touched' = touched
    BY DEF PushInStack
  <1> QED BY <1>5, <1>9, <1>11, <1>12, TypeKept DEF TypeInv

\* size_t arithmetic.
LEMMA CounterType ==
  ASSUME NEW x \in Nat
  PROVE  x % (SizeMax + 1) \in 0 .. SizeMax
  <1>1. PICK m \in Nat : m = SizeMax
    BY LinesAre
  <1>2. x % (m + 1) \in 0 .. m
    OBVIOUS
  <1> QED BY <1>1, <1>2

LEMMA TypeUncount ==
  ASSUME TypeInv, NEW c \in Clients, Uncount(c)
  PROVE  TypeInv'
  <1>1. PICK r : r = run[c] /\ Poised(c, r) /\ r \in Threads
    BY ThreadIs
  <1>2. r.pc = "uncount"
    BY <1>1 DEF Uncount, At
  <1>3. Scanning(c, r) /\ r.st.verb = "DELETE" /\ r.i \in Lines /\ r.rec = <<<<r.i>>>>
    BY <1>1, <1>2 DEF Poised
  <1>4. PICK b : b = r.rec /\ IsRecord(r.st, b) /\ b[1][1] = r.i
    <2>1. Width(r.st) = 1
      BY <1>3 DEF Width
    <2>2. r.i \in Nat
      BY <1>1 DEF Threads
    <2> QED BY <1>3, <2>1, <2>2, IdRecord
  <1>5. PICK n : n = Finished([r EXCEPT !.body = Append(@, b)])
    OBVIOUS
  <1>6. Become(c, n)
    BY <1>1, <1>4, <1>5 DEF Uncount
  <1>7. Poised(c, n)
    BY <1>1, <1>3, <1>4, <1>5, CompletedPoised
  <1>8. places' \in 0 .. SizeMax
    <2>1. PICK x \in Nat : x = places + SizeMax
      BY LinesAre DEF TypeInv
    <2>2. places' = x % (SizeMax + 1)
      BY <2>1 DEF Uncount
    <2> QED BY <2>2, CounterType
  <1>9. /\ line' = line /\ freeId' = freeId /\ stack' = stack
        /\ crashed' = crashed /\ touched' = touched
    BY DEF Uncount
  <1> QED BY <1>6, <1>7, <1>8, <1>9, TypeKept DEF TypeInv

\* A thread that inserts goes on to another location.
LEMMA InsertingOn ==
  ASSUME NEW c \in Clients, NEW r \in Threads, Inserting(c, r), r.k \in Assigned(r.st),
         NEW p \in {"new", "claim", "activate"}, NEW i \in Lines
  PROVE  Poised(c, [r EXCEPT !.pc = p, !.i = i])
  <1>1. PICK n : n = [r EXCEPT !.pc = p, !.i = i]
    OBVIOUS
  <1>2. p \in Locations /\ i \in Nat
    BY LinesAre DEF Locations
  <1>3. n \in Threads /\ n.pc = p /\ n.i = i
    BY <1>1, <1>2 DEF Threads
  <1>4. n.st = r.st /\ n.snap = r.snap /\ n.body = r.body /\ n.k = r.k
    BY <1>1, <1>2 DEF Threads
  <1>5. Inserting(c, n)
    BY <1>4 DEF Inserting
  <1>6. Poised(c, n)
    BY <1>3, <1>4, <1>5 DEF Poised
  <1> QED BY <1>1, <1>6

LEMMA StackTop ==
  ASSUME NEW st \in Seq(Lines), st # <<>>
  PROVE  Front(st) \in Seq(Lines) /\ Last(st) \in Lines
  <1>1. PICK L \in Nat \ {0} : L = Len(st)
    OBVIOUS
  <1>2. SubSeq(st, 1, L - 1) \in Seq(Lines) /\ st[L] \in Lines
    BY <1>1
  <1> QED BY <1>1, <1>2 DEF Front, Last

LEMMA TypePopFreeId ==
  ASSUME TypeInv, NEW c \in Clients, PopFreeId(c)
  PROVE  TypeInv'
  <1>1. PICK r : r = run[c] /\ Poised(c, r) /\ r \in Threads
    BY ThreadIs
  <1>2. r.pc = "take"
    BY <1>1 DEF PopFreeId, At
  <1>3. Inserting(c, r) /\ r.k \in Assigned(r.st)
    BY <1>1, <1>2 DEF Poised
  <1>4. PICK st : st = stack /\ st \in Seq(Lines) /\ st # <<>>
    BY DEF TypeInv, PopFreeId
  <1>5. PICK l \in Lines : l = Last(stack) /\ Front(stack) \in Seq(Lines)
    BY <1>4, StackTop
  <1>6. PICK n : n = [r EXCEPT !.pc = "activate", !.i = l]
    OBVIOUS
  <1>7. Become(c, n)
    BY <1>1, <1>5, <1>6 DEF PopFreeId
  <1>8. Poised(c, n)
    BY <1>1, <1>3, <1>6, InsertingOn
  <1>9. stack' \in Seq(Lines)
    BY <1>5 DEF PopFreeId
  <1>10. /\ line' = line /\ freeId' = freeId /\ places' = places
         /\ crashed' = crashed /\ touched' = touched
    BY DEF PopFreeId
  <1> QED BY <1>7, <1>8, <1>9, <1>10, TypeKept DEF TypeInv

LEMMA TypeLoadFreeId ==
  ASSUME TypeInv, NEW c \in Clients, LoadFreeId(c)
  PROVE  TypeInv'
  <1>1. PICK r : r = run[c] /\ Poised(c, r) /\ r \in Threads
    BY ThreadIs
  <1>2. r.pc = "take"
    BY <1>1 DEF LoadFreeId, At
  <1>3. Inserting(c, r) /\ r.k \in Assigned(r.st)
    BY <1>1, <1>2 DEF Poised
  <1>4. PICK l \in Lines : l = freeId
    BY LinesAre DEF TypeInv, LoadFreeId
  <1>5. PICK n : n = [r EXCEPT !.pc = "new", !.i = l]
    OBVIOUS
  <1>6. Become(c, n)
    BY <1>1, <1>4, <1>5 DEF LoadFreeId
  <1>7. Poised(c, n)
    BY <1>1, <1>3, <1>5, InsertingOn
  <1> QED BY <1>6, <1>7, ThreadKept DEF LoadFreeId

LEMMA TypeCountNewLine ==
  ASSUME TypeInv, NEW c \in Clients, CountNewLine(c)
  PROVE  TypeInv'
  <1>1. PICK r : r = run[c] /\ Poised(c, r) /\ r \in Threads
    BY ThreadIs
  <1>2. r.pc = "new"
    BY <1>1 DEF CountNewLine, At
  <1>3. Inserting(c, r) /\ r.k \in Assigned(r.st) /\ r.i \in Lines
    BY <1>1, <1>2 DEF Poised
  <1>4. PICK n : n = [r EXCEPT !.pc = "claim", !.i = r.i]
    OBVIOUS
  <1>5. n = [r EXCEPT !.pc = "claim"]
    BY <1>1, <1>4 DEF Threads
  <1>6. Become(c, n)
    BY <1>1, <1>5 DEF CountNewLine
  <1>7. Poised(c, n)
    BY <1>1, <1>3, <1>4, InsertingOn
  <1>8. places' \in 0 .. SizeMax
    <2>1. PICK x \in Nat : x = places + 1
      BY LinesAre DEF TypeInv
    <2>2. places' = x % (SizeMax + 1)
      BY <2>1 DEF CountNewLine
    <2> QED BY <2>2, CounterType
  <1>9. /\ line' = line /\ freeId' = freeId /\ stack' = stack
        /\ crashed' = crashed /\ touched' = touched
    BY DEF CountNewLine
  <1> QED BY <1>6, <1>7, <1>8, <1>9, TypeKept DEF TypeInv

LEMMA TypeClaimLine ==
  ASSUME TypeInv, NEW c \in Clients, ClaimLine(c)
  PROVE  TypeInv'
  <1>1. PICK r : r = run[c] /\ Poised(c, r) /\ r \in Threads
    BY ThreadIs
  <1>2. r.pc = "claim"
    BY <1>1 DEF ClaimLine, At
  <1>3. Inserting(c, r) /\ r.k \in Assigned(r.st) /\ r.i \in Lines
    BY <1>1, <1>2 DEF Poised
  <1>4. PICK n : n = [r EXCEPT !.pc = "activate", !.i = r.i]
    OBVIOUS
  <1>5. n = [r EXCEPT !.pc = "activate"]
    BY <1>1, <1>4 DEF Threads
  <1>6. Become(c, n)
    BY <1>1, <1>5 DEF ClaimLine
  <1>7. Poised(c, n)
    BY <1>1, <1>3, <1>4, InsertingOn
  <1>8. freeId' \in Nat
    BY DEF ClaimLine, TypeInv
  <1>9. /\ line' = line /\ places' = places /\ stack' = stack
        /\ crashed' = crashed /\ touched' = touched
    BY DEF ClaimLine
  <1> QED BY <1>6, <1>7, <1>8, <1>9, TypeKept DEF TypeInv

LEMMA TypeCountInserted ==
  ASSUME TypeInv, NEW c \in Clients, CountInserted(c)
  PROVE  TypeInv'
  <1>1. PICK r : r = run[c] /\ Poised(c, r) /\ r \in Threads
    BY ThreadIs
  <1>2. r.pc = "counted"
    BY <1>1 DEF CountInserted, At
  <1>3. Inserting(c, r)
    BY <1>1, <1>2 DEF Poised
  <1>4. PICK s : s = r.st /\ s.verb = "INSERT" /\ s \in Statements[c] /\ ~Refused(s)
    BY <1>3 DEF Inserting
  <1>5. PICK b : b = <<<<r.i>>>> /\ IsRecord(s, b)
    <2>1. Width(s) = 1
      BY <1>4 DEF Width
    <2>2. r.i \in Nat
      BY <1>1 DEF Threads
    <2> QED BY <2>1, <2>2, IdRecord
  <1>6. PICK z \in Bodies : z = Append(r.body, b) /\ \A n \in 1 .. Len(z) : IsRecord(s, z[n])
    <2>1. PICK body \in Seq(Record), L \in Nat : body = r.body /\ L = Len(body)
      BY <1>1 DEF Threads, Bodies
    <2>2. b \in Record
      BY <1>5 DEF IsRecord, Record
    <2>3. /\ Append(body, b) \in Seq(Record) /\ Len(Append(body, b)) = L + 1
          /\ Append(body, b)[L + 1] = b /\ \A n \in 1 .. L : Append(body, b)[n] = body[n]
      BY <2>1, <2>2
    <2>4. \A n \in 1 .. L : IsRecord(s, body[n])
      BY <1>3, <1>4, <2>1 DEF Inserting
    <2>5. \A n \in 1 .. L + 1 : n \in 1 .. L \/ n = L + 1
      OBVIOUS
    <2>6. \A n \in 1 .. L + 1 : IsRecord(s, Append(body, b)[n])
      BY <1>5, <2>3, <2>4, <2>5
    <2> QED BY <2>1, <2>3, <2>6 DEF Bodies
  <1>7. PICK p \in {"take", "answer"} : p = IF r.k <= Len(s.vals) THEN "take" ELSE "answer"
    OBVIOUS
  <1>8. PICK n : n = [r EXCEPT !.pc = p, !.body = z]
    OBVIOUS
  <1>9. Become(c, n)
    BY <1>1, <1>4, <1>5, <1>6, <1>7, <1>8 DEF CountInserted
  <1>10. n \in Threads /\ n.pc = p
    BY <1>1, <1>8 DEF Threads, Locations
  <1>11. n.st = s /\ n.snap = r.snap /\ n.body = z /\ n.k = r.k
    BY <1>1, <1>4, <1>8 DEF Threads
  <1>12. Inserting(c, n) /\ Answered(c, n)
    BY <1>3, <1>4, <1>6, <1>11 DEF Inserting, Answered
  <1>13. p = "take" => r.k \in Assigned(s)
    <2>1. IsStatement(s)
      BY <1>4, InStmts
    <2>2. PICK L \in Nat : L = Len(s.vals) /\ DOMAIN s.vals = 1 .. L
      BY <2>1 DEF IsStatement
    <2>3. r.k \in Nat \ {0}
      BY <1>1 DEF Threads, Positive
    <2>4. p = "take" => r.k \in 1 .. L
      BY <1>7, <2>2, <2>3
    <2> QED BY <1>4, <2>2, <2>4 DEF Assigned
  <1>14. Poised(c, n)
    BY <1>10, <1>11, <1>12, <1>13 DEF Poised
  <1>15. places' \in 0 .. SizeMax
    <2>1. PICK x \in Nat : x = places + 1
      BY LinesAre DEF TypeInv
    <2>2. places' = x % (SizeMax + 1)
      BY <2>1 DEF CountInserted
    <2> QED BY <2>2, CounterType
  <1>16. /\ line' = line /\ freeId' = freeId /\ stack' = stack
         /\ crashed' = crashed /\ touched' = touched
    BY DEF CountInserted
  <1> QED BY <1>9, <1>14, <1>15, <1>16, TypeKept DEF TypeInv

LEMMA TypeStep == TypeInv /\ [Next]_vars => TypeInv'
  <1> SUFFICES ASSUME TypeInv, [Next]_vars PROVE TypeInv'
    OBVIOUS
  <1>1. ASSUME NEW c \in Clients, Crash(c) PROVE TypeInv'
    <2>1. /\ line' = line /\ freeId' = freeId /\ places' = places /\ stack' = stack
          /\ run' = run /\ touched' = touched /\ crashed' = TRUE
      BY <1>1 DEF Crash, tableVars
    <2> QED BY <2>1 DEF TypeInv
  <1>2. CASE UNCHANGED vars
    <2>1. /\ line' = line /\ freeId' = freeId /\ places' = places /\ stack' = stack
          /\ run' = run /\ touched' = touched /\ crashed' = crashed
      BY <1>2 DEF vars, tableVars
    <2> QED BY <2>1 DEF TypeInv
  <1>3. ASSUME NEW c \in Clients, Submit(c) \/ Step(c) PROVE TypeInv'
    BY <1>1, <1>3, TypeSubmit, TypeAnswer, TypeBound, TypeCount, TypeScanLine, TypeProbeLine,
       TypeTest, TypeReadColumn, TypeEndScan, TypeWriteColumn, TypeDeactivate,
       TypePushInStack, TypeUncount, TypePopFreeId, TypeLoadFreeId, TypeCountNewLine,
       TypeClaimLine, TypeActivate, TypeCountInserted, ZenonT(60) DEF Step
  <1> QED BY <1>2, <1>3 DEF Next

LEMMA TypeAlways == Spec => []TypeInv
  BY TypeInit, TypeStep, PTL DEF Spec

(***************************************************************************)
(* Whatever the statements and however the clients interleave, a line      *)
(* stays a line of bytes, activePlaces a size_t, stack_freeId a stack of   *)
(* lines of the file, and the place of each thread a line number           *)
(* (Executor.h 48-311, Tabble.h 96-163).                                   *)
(***************************************************************************)
THEOREM TypeCorrect == Spec => []TypeOK
  <1>1. TypeInv => TypeOK
    <2> SUFFICES ASSUME TypeInv PROVE TypeOK
      OBVIOUS
    <2>1. line \in [Lines -> [0 .. LineLength - 1 -> 0 .. 255]]
      BY DEF TypeInv, Files, ByteLines, Byte
    <2>2. \A c \in Clients : run[c].i \in Nat /\ touched[c] \subseteq Lines
      BY DEF TypeInv, Threads
    <2> QED BY <2>1, <2>2 DEF TypeInv, TypeOK
  <1> QED BY <1>1, TypeAlways, PTL
=============================================================================
