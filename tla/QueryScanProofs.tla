--------------------------- MODULE QueryScanProofs --------------------------
(***************************************************************************)
(* Proofs about which rows a scan takes and about what ends the process, for *)
(* any table, any clients and any statements.                              *)
(***************************************************************************)
EXTENDS QueryChangeProofs

-----------------------------------------------------------------------------
(***************************************************************************)
(* What the conditions of a scan decide.                                   *)
(***************************************************************************)
IsColumn(cs, j) == Kind(cs[j]) = "COLUMN"
Joined(cs, j) == IsColumn(cs, j) /\ LogicOp(cs, j) = "AND"
True(cs, f, j) == Holds(cs[j].op, Cell(f, ColumnId(cs[j].col)), cs[j].val)

\* current_result after the first k conditions.
Verdict(cs, f, k) ==
    \E j \in 1 .. k : /\ IsColumn(cs, j) /\ ~Joined(cs, j) /\ True(cs, f, j)
                      /\ \A h \in j + 1 .. k : Joined(cs, h) => True(cs, f, h)

LEMMA VerdictNone ==
  ASSUME NEW cs, NEW f
  PROVE  ~Verdict(cs, f, 0)
  BY DEF Verdict

LEMMA LogicOpIs ==
  ASSUME NEW cs, NEW k \in Nat \ {0}
  PROVE  /\ LogicOp(cs, k) \in {"AND", "OR"}
         /\ k = 1 => LogicOp(cs, k) = "OR"
         /\ k > 1 /\ Kind(cs[k - 1]) \in {"AND", "OR"} => LogicOp(cs, k) = Kind(cs[k - 1])
  <1> DEFINE at == {j \in 1 .. k - 1 : Kind(cs[j]) \in {"AND", "OR"}}
  <1>1. LogicOp(cs, k) = IF at = {} THEN "OR" ELSE Kind(cs[Max(at)])
    BY DEF LogicOp
  <1>2. at \subseteq 0 .. k
    OBVIOUS
  <1>3. at # {} => Max(at) \in at /\ \A y \in at : y <= Max(at)
    <2> HIDE DEF at
    <2> QED BY <1>2, MaxIs
  <1>4. LogicOp(cs, k) \in {"AND", "OR"}
    BY <1>1, <1>3
  <1>5. k = 1 => at = {}
    OBVIOUS
  <1>6. ASSUME k > 1, Kind(cs[k - 1]) \in {"AND", "OR"} PROVE LogicOp(cs, k) = Kind(cs[k - 1])
    <2>1. k - 1 \in at
      BY <1>6
    <2>2. \A y \in at : y \in Nat /\ y <= k - 1
      OBVIOUS
    <2>3. Max(at) \in Nat /\ Max(at) = k - 1
      <3> HIDE DEF at
      <3>1. Max(at) \in at /\ k - 1 <= Max(at)
        BY <1>3, <2>1
      <3> QED BY <2>2, <3>1
    <2> HIDE DEF at
    <2> QED BY <1>1, <2>1, <2>3
  <1> QED BY <1>1, <1>4, <1>5, <1>6

LEMMA VerdictStep ==
  ASSUME NEW cs, NEW f, NEW k \in Nat \ {0}, Kind(cs[k]) \in Others
  PROVE  /\ Kind(cs[k]) # "COLUMN" => (Verdict(cs, f, k) <=> Verdict(cs, f, k - 1))
         /\ Kind(cs[k]) = "COLUMN" /\ LogicOp(cs, k) = "OR" =>
               (Verdict(cs, f, k) <=> Verdict(cs, f, k - 1) \/ True(cs, f, k))
         /\ Kind(cs[k]) = "COLUMN" /\ LogicOp(cs, k) # "OR" =>
               (Verdict(cs, f, k) <=> Verdict(cs, f, k - 1) /\ True(cs, f, k))
  <1>1. \A j \in 1 .. k - 1 : /\ j \in 1 .. k
                              /\ \A h \in j + 1 .. k - 1 : h \in j + 1 .. k
                              /\ \A h \in j + 1 .. k : h = k \/ h \in j + 1 .. k - 1
                              /\ k \in j + 1 .. k
    OBVIOUS
  <1>2. \A j \in 1 .. k : j = k \/ j \in 1 .. k - 1
    OBVIOUS
  <1>3. k \in 1 .. k /\ k + 1 .. k = {}
    OBVIOUS
  <1>4. LogicOp(cs, k) \in {"AND", "OR"}
    BY LogicOpIs
  <1>5. CASE Kind(cs[k]) # "COLUMN"
    <2>1. ~IsColumn(cs, k) /\ ~Joined(cs, k)
      BY <1>5 DEF IsColumn, Joined
    <2>2. Verdict(cs, f, k) => Verdict(cs, f, k - 1)
      BY <1>1, <1>2, <2>1 DEF Verdict
    <2>3. Verdict(cs, f, k - 1) => Verdict(cs, f, k)
      BY <1>1, <2>1 DEF Verdict
    <2> QED BY <1>5, <2>2, <2>3
  <1>6. CASE Kind(cs[k]) = "COLUMN" /\ LogicOp(cs, k) = "OR"
    <2>1. IsColumn(cs, k) /\ ~Joined(cs, k)
      BY <1>6 DEF IsColumn, Joined
    <2>2. Verdict(cs, f, k) => Verdict(cs, f, k - 1) \/ True(cs, f, k)
      BY <1>1, <1>2, <2>1 DEF Verdict
    <2>3. Verdict(cs, f, k - 1) => Verdict(cs, f, k)
      BY <1>1, <2>1 DEF Verdict
    <2>4. True(cs, f, k) => Verdict(cs, f, k)
      BY <1>3, <2>1 DEF Verdict
    <2> QED BY <1>6, <2>2, <2>3, <2>4
  <1>7. CASE Kind(cs[k]) = "COLUMN" /\ LogicOp(cs, k) # "OR"
    <2>1. IsColumn(cs, k) /\ Joined(cs, k)
      BY <1>4, <1>7 DEF IsColumn, Joined
    <2>2. Verdict(cs, f, k) => Verdict(cs, f, k - 1) /\ True(cs, f, k)
      BY <1>1, <1>2, <2>1 DEF Verdict
    <2>3. Verdict(cs, f, k - 1) /\ True(cs, f, k) => Verdict(cs, f, k)
      BY <1>1, <2>1 DEF Verdict
    <2> QED BY <1>7, <2>2, <2>3
  <1> QED BY <1>5, <1>6, <1>7

\* The conditions cs are those of the clause w that are not bounds, from the first
\* comparison of a column on: condition j is item q[j] of w.
RemainAs(cs, q, w) ==
    /\ q \in [1 .. Len(cs) -> 1 .. Len(w)]
    /\ \A j \in 1 .. Len(cs) : cs[j] = w[q[j]] /\ Kind(cs[j]) \in Others
    /\ \A j, h \in 1 .. Len(cs) : j < h => q[j] < q[h]
    /\ Len(cs) > 0 => Kind(cs[1]) = "COLUMN"
    /\ \A m, h \in 1 .. Len(w) : Kind(w[m]) \in Others /\ Kind(w[h]) = "COLUMN" /\ h <= m =>
          \E j \in 1 .. Len(cs) : q[j] = m

Remain(cs, w) == \E q : RemainAs(cs, q, w)

\* The item before a comparison of a column decides how it counts.
LEMMA JoinedIs ==
  ASSUME NEW w \in Seq(WhereItem), Alternating(w), NEW cs \in Seq(WhereItem), NEW q,
         RemainAs(cs, q, w), NEW j \in 1 .. Len(cs), Kind(cs[j]) = "COLUMN"
  PROVE  Joined(cs, j) <=> j > 1 /\ w[q[j] - 1].word = "AND"
  <1>1. PICK L \in Nat, n \in Nat : L = Len(w) /\ n = Len(cs)
    OBVIOUS
  <1>2. /\ q \in [1 .. n -> 1 .. L] /\ j \in 1 .. n
        /\ \A h \in 1 .. n : cs[h] = w[q[h]] /\ Kind(cs[h]) \in Others
        /\ \A h, m \in 1 .. n : h < m => q[h] < q[m]
        /\ n > 0 => Kind(cs[1]) = "COLUMN"
        /\ \A m, h \in 1 .. L : Kind(w[m]) \in Others /\ Kind(w[h]) = "COLUMN" /\ h <= m =>
              \E g \in 1 .. n : q[g] = m
    BY <1>1 DEF RemainAs
  <1>3. CASE j = 1
    BY <1>3, LogicOpIs DEF Joined
  <1>4. CASE j > 1
    <2>1. PICK m \in 1 .. L : m = q[j]
      BY <1>2
    <2>2. q[1] \in 1 .. L /\ q[1] < m /\ Kind(w[q[1]]) = "COLUMN" /\ 1 \in 1 .. n
      BY <1>2, <1>4, <2>1
    <2>3. w[m].word = "cond" /\ m - 1 \in 1 .. L /\ q[1] <= m - 1
      <3>1. Kind(w[m]) = "COLUMN"
        BY <1>2, <2>1
      <3>2. m \in DOMAIN w
        BY <1>1
      <3>3. w[m] \in WhereItem
        BY <3>2
      <3>4. w[m].word \in {"cond", "AND", "OR"}
        BY <3>3 DEF WhereItem
      <3>5. w[m].word = "cond"
        BY <3>1, <3>4 DEF Kind
      <3> QED BY <2>2, <3>5
    <2>4. w[m - 1].word \in {"AND", "OR"} /\ w[m - 1].word # "cond"
      <3>1. m % 2 = 1
        BY <1>1, <2>3 DEF Alternating
      <3>2. (m - 1) % 2 # 1
        BY <3>1
      <3>3. m - 1 \in DOMAIN w
        BY <1>1, <2>3
      <3>4. w[m - 1] \in WhereItem
        BY <3>3
      <3>5. w[m - 1].word \in {"cond", "AND", "OR"}
        BY <3>4 DEF WhereItem
      <3> QED BY <3>2, <3>3, <3>5 DEF Alternating
    <2>5. Kind(w[m - 1]) = w[m - 1].word
      BY <2>4 DEF Kind
    <2>6. PICK g \in 1 .. n : q[g] = m - 1
      <3>1. PICK x \in 1 .. L : x = q[1] /\ Kind(w[x]) = "COLUMN" /\ x <= m - 1
        BY <2>2, <2>3
      <3>2. PICK y \in 1 .. L : y = m - 1 /\ Kind(w[y]) \in Others
        BY <2>3, <2>4, <2>5 DEF Others
      <3>3. \E h \in 1 .. n : q[h] = y
        BY <1>2, <3>1, <3>2
      <3> QED BY <3>2, <3>3
    <2>7. g = j - 1
      <3>1. q[g] \in 1 .. L /\ \A h \in 1 .. n : q[h] \in 1 .. L
        BY <1>2
      <3>2. g < j
        <4>1. SUFFICES ASSUME ~(g < j) PROVE FALSE
          OBVIOUS
        <4>2. j < g \/ j = g
          BY <4>1
        <4>3. q[j] <= q[g]
          BY <1>2, <3>1, <4>2
        <4> QED BY <2>1, <2>6, <4>3
      <3>3. ~(g < j - 1)
        <4>1. SUFFICES ASSUME g < j - 1 PROVE FALSE
          OBVIOUS
        <4>2. j - 1 \in 1 .. n /\ j - 1 < j
          BY <1>2, <4>1
        <4>3. q[g] < q[j - 1] /\ q[j - 1] < q[j] /\ q[j - 1] \in 1 .. L
          BY <1>2, <3>1, <4>1, <4>2
        <4> QED BY <2>1, <2>6, <4>3
      <3> QED BY <3>2, <3>3
    <2>8. Kind(cs[j - 1]) = w[m - 1].word
      BY <1>2, <2>5, <2>6, <2>7
    <2>9. LogicOp(cs, j) = w[m - 1].word
      <3>1. j \in Nat \ {0} /\ Kind(cs[j - 1]) \in {"AND", "OR"}
        BY <1>2, <2>4, <2>8
      <3> QED BY <1>4, <2>8, <3>1, LogicOpIs
    <2> QED BY <1>4, <2>1, <2>9 DEF Joined, IsColumn
  <1> QED BY <1>2, <1>3, <1>4

\* All conditions together decide as the clause says.
LEMMA VerdictIs ==
  ASSUME NEW w \in Seq(WhereItem), Alternating(w), NEW cs \in Seq(WhereItem), Remain(cs, w),
         NEW f
  PROVE  /\ cs = <<>> => Satisfied(w, f)
         /\ cs # <<>> => (Verdict(cs, f, Len(cs)) <=> Satisfied(w, f))
  <1>1. PICK L \in Nat, n \in Nat : L = Len(w) /\ n = Len(cs) /\ DOMAIN w = 1 .. L
    OBVIOUS
  <1>2. PICK q : RemainAs(cs, q, w)
    BY DEF Remain
  <1>3. /\ q \in [1 .. n -> 1 .. L]
        /\ \A h \in 1 .. n : cs[h] = w[q[h]] /\ Kind(cs[h]) \in Others
        /\ \A h, m \in 1 .. n : h < m => q[h] < q[m]
        /\ n > 0 => Kind(cs[1]) = "COLUMN"
        /\ \A m, h \in 1 .. L : Kind(w[m]) \in Others /\ Kind(w[h]) = "COLUMN" /\ h <= m =>
              \E g \in 1 .. n : q[g] = m
    BY <1>1, <1>2 DEF RemainAs
  <1> DEFINE cols == {j \in DOMAIN w : Kind(w[j]) = "COLUMN"}
             true == {j \in cols : Holds(w[j].op, Cell(f, ColumnId(w[j].col)), w[j].val)}
             ands == {j \in cols : j # Min(cols) /\ w[j - 1].word = "AND"}
  <1>4. Satisfied(w, f) <=> cols = {} \/ \E j \in true \ ands : \A h \in ands : h > j => h \in true
    BY DEF Satisfied
  <1>5. ASSUME NEW m \in cols
        PROVE  m \in 1 .. L /\ \E g \in 1 .. n : q[g] = m /\ Kind(cs[g]) = "COLUMN"
    <2>1. m \in 1 .. L /\ Kind(w[m]) = "COLUMN" /\ "COLUMN" \in Others /\ m <= m
      BY <1>1 DEF Others
    <2>2. PICK g \in 1 .. n : q[g] = m
      BY <1>3, <2>1
    <2> QED BY <1>3, <2>1, <2>2
  <1>6. CASE cs = <<>>
    <2>1. n = 0
      BY <1>1, <1>6
    <2>2. cols = {}
      BY <1>5, <2>1
    <2> QED BY <1>4, <1>6, <2>2
  <1>7. CASE cs # <<>>
    <2>1. n > 0 /\ 1 \in 1 .. n
      BY <1>1, <1>7
    <2>2. ASSUME NEW j \in 1 .. n, Kind(cs[j]) = "COLUMN"
          PROVE  /\ q[j] \in cols /\ q[j] \in 1 .. L
                 /\ Joined(cs, j) <=> q[j] \in ands
                 /\ True(cs, f, j) <=> q[j] \in true
      <3>1. q[j] \in cols /\ q[j] \in 1 .. L
        BY <1>1, <1>3, <2>2
      <3>2. True(cs, f, j) <=> q[j] \in true
        BY <1>3, <3>1 DEF True
      <3>3. j > 1 <=> q[j] # Min(cols)
        <4>1. q[1] \in cols /\ q[1] \in 1 .. L
          BY <1>1, <1>3, <2>1
        <4>2. cols \subseteq Nat
          BY <1>1
        <4>3. \A m \in cols : q[1] <= m
          <5>1. SUFFICES ASSUME NEW m \in cols PROVE q[1] <= m
            OBVIOUS
          <5>2. PICK g \in 1 .. n : q[g] = m
            BY <1>5
          <5>3. q[g] \in 1 .. L /\ (g = 1 \/ 1 < g)
            BY <1>3
          <5>4. 1 < g => q[1] < q[g]
            BY <1>3, <2>1
          <5> HIDE DEF cols
          <5> QED BY <4>1, <5>2, <5>3, <5>4
        <4>4. Min(cols) = q[1]
          <5> HIDE DEF cols
          <5>1. Min(cols) \in cols /\ Min(cols) <= q[1]
            BY <4>1, <4>2, MinIs
          <5>2. q[1] <= Min(cols) /\ Min(cols) \in Nat /\ q[1] \in Nat
            BY <4>1, <4>2, <4>3, <5>1
          <5> QED BY <5>1, <5>2
        <4>5. j > 1 => q[1] < q[j]
          BY <1>3, <2>1
        <4>6. ~(j > 1) => j = 1
          OBVIOUS
        <4> HIDE DEF cols
        <4> QED BY <3>1, <4>1, <4>4, <4>5, <4>6
      <3>4. Joined(cs, j) <=> j > 1 /\ w[q[j] - 1].word = "AND"
        BY <1>1, <1>2, <2>2, JoinedIs
      <3> QED BY <3>1, <3>2, <3>3, <3>4
    <2> HIDE DEF cols, true, ands
    <2>3. cols # {} /\ true \subseteq cols /\ ands \subseteq cols
      BY <1>3, <2>1, <2>2 DEF true, ands
    <2>4. ASSUME Verdict(cs, f, n) PROVE Satisfied(w, f)
      <3>1. PICK j \in 1 .. n : /\ IsColumn(cs, j) /\ ~Joined(cs, j) /\ True(cs, f, j)
                                /\ \A h \in j + 1 .. n : Joined(cs, h) => True(cs, f, h)
        BY <2>4 DEF Verdict
      <3>2. q[j] \in true \ ands
        BY <2>2, <3>1 DEF IsColumn
      <3>3. ASSUME NEW h \in ands, h > q[j] PROVE h \in true
        <4>1. PICK g \in 1 .. n : q[g] = h /\ Kind(cs[g]) = "COLUMN"
          BY <1>5, <2>3
        <4>2. g \in j + 1 .. n
          <5>1. SUFFICES ASSUME ~(j < g) PROVE FALSE
            OBVIOUS
          <5>2. q[g] \in 1 .. L /\ q[j] \in 1 .. L /\ (g = j \/ g < j)
            BY <1>3, <5>1
          <5> QED BY <1>3, <3>3, <4>1, <5>2
        <4> QED BY <2>2, <3>1, <4>1, <4>2
      <3> QED BY <1>4, <3>2, <3>3
    <2>5. ASSUME Satisfied(w, f) PROVE Verdict(cs, f, n)
      <3>1. PICK m \in true \ ands : \A h \in ands : h > m => h \in true
        BY <1>4, <2>3, <2>5
      <3>2. PICK j \in 1 .. n : q[j] = m /\ Kind(cs[j]) = "COLUMN"
        BY <1>5, <2>3
      <3>3. IsColumn(cs, j) /\ ~Joined(cs, j) /\ True(cs, f, j)
        BY <2>2, <3>1, <3>2 DEF IsColumn
      <3>4. ASSUME NEW h \in j + 1 .. n, Joined(cs, h) PROVE True(cs, f, h)
        <4>1. h \in 1 .. n /\ j < h /\ Kind(cs[h]) = "COLUMN"
          BY <3>4 DEF Joined, IsColumn
        <4>2. q[j] < q[h] /\ q[h] \in 1 .. L /\ q[j] \in 1 .. L
          BY <1>3, <4>1
        <4>3. q[h] \in ands /\ q[h] > m
          BY <2>2, <3>2, <3>4, <4>1, <4>2
        <4> QED BY <2>2, <3>1, <4>1, <4>3
      <3> QED BY <3>3, <3>4 DEF Verdict
    <2> QED BY <1>1, <1>7, <2>4, <2>5
  <1> QED BY <1>6, <1>7

LEMMA KindType ==
  ASSUME NEW e \in WhereItem
  PROVE  /\ Kind(e) \in {"COLUMN", "DIRECT", "FROM", "TO", "LOST"} <=> e.word = "cond"
         /\ Kind(e) \in {"AND", "OR"} <=> e.word # "cond"
  <1>1. e.word \in {"cond", "AND", "OR"}
    BY DEF WhereItem
  <1>2. e.word # "cond" => Kind(e) = e.word
    BY DEF Kind
  <1>3. e.word = "cond" => Kind(e) \in {"COLUMN", "DIRECT", "FROM", "TO", "LOST"}
    BY DEF Kind
  <1> QED BY <1>1, <1>2, <1>3

\* What the optimizer has to do with in a statement that scans.
Scans(s) == IsStatement(s) /\ WellPosed(s) /\ s.verb # "INSERT" /\ ~IsDirect(s)

LEMMA ScanClause ==
  ASSUME NEW s, Scans(s)
  PROVE  \E w \in Seq(WhereItem) :
            /\ w = WhereOf(s) /\ w = WrittenWhere(s) /\ Alternating(w)
            /\ \A j \in 1 .. Len(w) :
                  /\ Kind(w[j]) \in {"COLUMN", "AND", "OR", "FROM", "TO"}
                  /\ s.verb # "SELECT" => Kind(w[j]) \in Others
                  /\ Kind(w[j]) = "TO" => w[j].val[1] <= FileLines
                  /\ w[j].word = "cond" => w[j].val # <<>>
  <1>1. IsStatement(s) /\ InOrder(s) /\ ~Refused(s) /\ ~IsDirect(s)
    BY DEF Scans, WellPosed
  <1>2. PICK w \in Seq(WhereItem) : w = WhereOf(s) /\ w = WrittenWhere(s)
    BY <1>1, Clauses, WrittenIs
  <1>3. PICK L \in Nat : L = Len(w) /\ DOMAIN w = 1 .. L
    OBVIOUS
  <1> DEFINE kinds == {Kind(e) : e \in Range(w)}
  <1>4. /\ Alternating(w) /\ "LOST" \notin kinds
        /\ s.verb # "SELECT" \/ "DIRECT" \in kinds => kinds \cap {"FROM", "TO"} = {}
        /\ \A e \in Range(w) : Kind(e) = "TO" => e.val[1] <= FileLines
    BY <1>2 DEF Scans, WellPosed
  <1>5. \A j \in 1 .. L : w[j] \in Range(w) /\ w[j] \in WhereItem /\ Kind(w[j]) \in kinds
    BY <1>3 DEF Range
  <1>6. "DIRECT" \notin kinds
    <2>1. SUFFICES ASSUME "DIRECT" \in kinds PROVE FALSE
      OBVIOUS
    <2>2. PICK j \in 1 .. L : Kind(w[j]) = "DIRECT"
      BY <1>3, <2>1 DEF Range
    <2>3. PICK u \in Seq(WhereItem), v \in Seq(WhereItem) :
            /\ IsPicked(u, w, Bounds)
            /\ Conditions(s) \in Seq(WhereItem)
            /\ Len(Conditions(s)) = Len(u) + Len(v)
            /\ \A h \in 1 .. Len(u) : Conditions(s)[h] = u[Len(u) - h + 1]
      BY <1>1, <1>2, ConditionsAre
    <2>4. PICK n \in Nat, m \in Nat : n = Len(u) /\ m = Len(v)
      OBVIOUS
    <2>5. PICK p : Picked(u, p, w, Bounds, L)
      BY <1>3, <2>3 DEF IsPicked
    <2>6. PICK a \in 1 .. n : p[a] = j
      BY <2>2, <2>4, <2>5 DEF Picked, Bounds
    <2>7. n \in 1 .. n /\ 1 \in 1 .. n /\ n - 1 + 1 = n
      BY <2>6
    <2>8. Conditions(s)[1] = u[n]
      BY <2>3, <2>4, <2>7
    <2>9. u[n] = w[p[n]] /\ p[n] \in 1 .. L /\ Kind(w[p[n]]) \in Bounds
      BY <2>4, <2>5, <2>7 DEF Picked
    <2>10. Kind(w[p[n]]) \in kinds
      BY <1>5, <2>9
    <2>11. Kind(u[n]) = "DIRECT"
      <3> HIDE DEF kinds
      <3> QED BY <1>4, <2>1, <2>9, <2>10 DEF Bounds
    <2>12. Conditions(s) # <<>>
      BY <2>3, <2>4, <2>7
    <2> QED BY <1>1, <2>8, <2>11, <2>12 DEF IsDirect
  <1>7. ASSUME NEW j \in 1 .. L
        PROVE  /\ Kind(w[j]) \in {"COLUMN", "AND", "OR", "FROM", "TO"}
               /\ s.verb # "SELECT" => Kind(w[j]) \in Others
    <2>1. Kind(w[j]) \in kinds /\ w[j] \in WhereItem
      BY <1>5
    <2>2. PICK x : x = Kind(w[j])
      OBVIOUS
    <2>3. x \in {"COLUMN", "DIRECT", "FROM", "TO", "LOST", "AND", "OR"}
      BY <2>1, <2>2, KindType
    <2> HIDE DEF kinds
    <2> QED BY <1>4, <1>6, <2>1, <2>2, <2>3 DEF Others
  <1>8. \A e \in Range(w) : e.word = "cond" => e.val # <<>>
    BY <1>1, <1>2, Clauses
  <1> QED BY <1>2, <1>3, <1>4, <1>5, <1>7, <1>8

\* Conditions without the first x, none of which compares a column.
Cut(cs, n, v, x, d) ==
    /\ n \in Nat /\ x \in Nat /\ n <= x /\ x <= n + Len(v)
    /\ \A j \in 1 .. Len(v) : cs[n + j] = v[j]
    /\ \A j \in 1 .. x : Kind(cs[j]) # "COLUMN"
    /\ x < n + Len(v) => Kind(cs[x + 1]) = "COLUMN"
    /\ Len(d) = n + Len(v) - x
    /\ \A j \in 1 .. n + Len(v) - x : d[j] = cs[x + j]

LEMMA RemainShift ==
  ASSUME NEW w \in Seq(WhereItem), NEW v \in Seq(WhereItem), IsPicked(v, w, Others),
         NEW cs, NEW n, NEW x, NEW d, Cut(cs, n, v, x, d)
  PROVE  Remain(d, w)
  <1>1. PICK L \in Nat, m \in Nat, y \in Nat, e \in Nat :
           /\ L = Len(w) /\ m = Len(v) /\ y = x - n /\ y <= m /\ e = n + m
           /\ n \in Nat /\ x \in Nat /\ n <= x /\ x <= e
           /\ \A j \in 1 .. m : cs[n + j] = v[j]
           /\ \A j \in 1 .. x : Kind(cs[j]) # "COLUMN"
           /\ x < e => Kind(cs[x + 1]) = "COLUMN"
           /\ Len(d) = e - x
           /\ \A j \in 1 .. e - x : d[j] = cs[x + j]
    <2>1. Len(v) \in Nat /\ Len(w) \in Nat
      OBVIOUS
    <2> QED BY <2>1 DEF Cut
  <1>2. PICK g : Picked(v, g, w, Others, L)
    BY <1>1 DEF IsPicked
  <1>3. /\ g \in [1 .. m -> 1 .. L]
        /\ \A j \in 1 .. m : v[j] = w[g[j]] /\ Kind(w[g[j]]) \in Others
        /\ \A j, h \in 1 .. m : j < h => g[j] < g[h]
        /\ \A h \in 1 .. L : Kind(w[h]) \in Others => \E j \in 1 .. m : g[j] = h
    BY <1>1, <1>2 DEF Picked
  <1>4. Len(d) = m - y
    BY <1>1
  <1>5. ASSUME NEW j \in 1 .. m - y PROVE y + j \in 1 .. m /\ d[j] = v[y + j]
    <2>1. j \in 1 .. e - x /\ y + j \in 1 .. m /\ n + (y + j) = x + j
      BY <1>1
    <2>2. d[j] = cs[x + j]
      BY <1>1, <2>1
    <2>3. cs[n + (y + j)] = v[y + j]
      BY <1>1, <2>1
    <2> QED BY <2>1, <2>2, <2>3
  <1> DEFINE q == [j \in 1 .. m - y |-> g[y + j]]
  <1>6. q \in [1 .. m - y -> 1 .. L] /\ \A j \in 1 .. m - y : q[j] = g[y + j]
    BY <1>3, <1>5
  <1> HIDE DEF q
  <1>7. \A j \in 1 .. m - y : d[j] = w[q[j]] /\ Kind(d[j]) \in Others
    BY <1>3, <1>5, <1>6
  <1>8. ASSUME NEW j \in 1 .. m - y, NEW h \in 1 .. m - y, j < h PROVE q[j] < q[h]
    <2>1. y + j \in 1 .. m /\ y + h \in 1 .. m /\ y + j < y + h
      BY <1>1, <1>8
    <2> QED BY <1>3, <1>6, <2>1
  <1>9. m - y > 0 => Kind(d[1]) = "COLUMN"
    <2>1. SUFFICES ASSUME m - y > 0 PROVE Kind(d[1]) = "COLUMN"
      OBVIOUS
    <2>2. x < e /\ 1 \in 1 .. e - x
      BY <1>1, <2>1
    <2> QED BY <1>1, <2>2
  <1>10. ASSUME NEW a \in 1 .. L, NEW b \in 1 .. L, Kind(w[a]) \in Others,
                Kind(w[b]) = "COLUMN", b <= a
         PROVE  \E j \in 1 .. m - y : q[j] = a
    <2>1. PICK i \in 1 .. m : g[i] = a
      BY <1>3, <1>10
    <2>2. PICK k \in 1 .. m : g[k] = b
      BY <1>3, <1>10 DEF Others
    <2>3. k <= i
      <3>1. SUFFICES ASSUME i < k PROVE FALSE
        OBVIOUS
      <3>2. g[i] < g[k]
        BY <1>3, <3>1
      <3> QED BY <1>10, <2>1, <2>2, <3>2
    <2>4. Kind(cs[n + k]) = "COLUMN"
      BY <1>1, <1>3, <1>10, <2>2
    <2>5. ~(n + k <= x)
      BY <1>1, <2>4
    <2>6. i - y \in 1 .. m - y /\ y + (i - y) = i
      BY <1>1, <2>3, <2>5
    <2> QED BY <1>6, <2>1, <2>6
  <1>11. RemainAs(d, q, w)
    BY <1>1, <1>4, <1>6, <1>7, <1>8, <1>9, <1>10 DEF RemainAs
  <1> QED BY <1>11 DEF Remain

\* The conditions of a statement: the bounds of its clause, the last one first, and
\* the rest.
SplitAs(cs, w, u, v) ==
    /\ u \in Seq(WhereItem) /\ v \in Seq(WhereItem) /\ cs \in Seq(WhereItem)
    /\ IsPicked(u, w, Bounds) /\ IsPicked(v, w, Others)
    /\ Len(cs) = Len(u) + Len(v)
    /\ \A j \in 1 .. Len(u) : cs[j] = u[Len(u) - j + 1]
    /\ \A j \in 1 .. Len(v) : cs[Len(u) + j] = v[j]

LEMMA ConditionsSplit ==
  ASSUME NEW s, IsStatement(s)
  PROVE  \E u, v : SplitAs(Conditions(s), WhereOf(s), u, v)
  <1>1. PICK u \in Seq(WhereItem), v \in Seq(WhereItem) :
            /\ IsPicked(u, WhereOf(s), Bounds)
            /\ IsPicked(v, WhereOf(s), Others)
            /\ Conditions(s) \in Seq(WhereItem)
            /\ Len(Conditions(s)) = Len(u) + Len(v)
            /\ \A j \in 1 .. Len(u) : Conditions(s)[j] = u[Len(u) - j + 1]
            /\ \A j \in 1 .. Len(v) : Conditions(s)[Len(u) + j] = v[j]
    BY ConditionsAre
  <1>2. SplitAs(Conditions(s), WhereOf(s), u, v)
    BY <1>1 DEF SplitAs
  <1> QED BY <1>2

LEMMA SplitKinds ==
  ASSUME NEW w \in Seq(WhereItem), NEW cs, NEW u, NEW v, SplitAs(cs, w, u, v)
  PROVE  /\ \A j \in 1 .. Len(u) : Kind(cs[j]) \in Bounds
         /\ \A j \in 1 .. Len(v) : Kind(cs[Len(u) + j]) \in Others /\ Kind(v[j]) \in Others
         /\ \A j \in 1 .. Len(cs) : j > Len(u) => Kind(cs[j]) \in Others
         /\ \A j \in 1 .. Len(u) : \E h \in 1 .. Len(w) : cs[j] = w[h]
  <1>1. PICK n \in Nat, m \in Nat, L \in Nat : n = Len(u) /\ m = Len(v) /\ L = Len(w) /\ Len(cs) = n + m
    BY DEF SplitAs
  <1>2. PICK p, g : Picked(u, p, w, Bounds, L) /\ Picked(v, g, w, Others, L)
    BY <1>1 DEF SplitAs, IsPicked
  <1>3. ASSUME NEW j \in 1 .. n
        PROVE  Kind(cs[j]) \in Bounds /\ \E h \in 1 .. L : cs[j] = w[h]
    <2>1. n - j + 1 \in 1 .. n
      OBVIOUS
    <2>2. cs[j] = u[n - j + 1]
      BY <1>1 DEF SplitAs
    <2> QED BY <1>1, <1>2, <2>1, <2>2 DEF Picked
  <1>4. ASSUME NEW j \in 1 .. m PROVE Kind(v[j]) \in Others /\ cs[n + j] = v[j]
    BY <1>1, <1>2 DEF Picked, SplitAs
  <1>5. ASSUME NEW j \in 1 .. n + m, j > n PROVE Kind(cs[j]) \in Others
    <2>1. j - n \in 1 .. m /\ n + (j - n) = j
      BY <1>5
    <2> QED BY <1>4, <2>1
  <1> QED BY <1>1, <1>3, <1>4, <1>5

\* The conditions left when the leading bounds, ANDs and ORs of a SELECT are gone.
LEMMA ScanRemain ==
  ASSUME NEW s, Scans(s), NEW cs, cs = Conditions(s)
  PROVE  /\ s.verb # "SELECT" => Remain(cs, WhereOf(s))
         /\ s.verb = "SELECT" =>
               \A x : x = Leading(cs, {"TO", "FROM", "AND", "OR"}) =>
                          Remain(SubSeq(cs, x + 1, Len(cs)), WhereOf(s))
  <1>1. PICK w \in Seq(WhereItem) :
            /\ w = WhereOf(s) /\ Alternating(w)
            /\ \A j \in 1 .. Len(w) :
                  /\ Kind(w[j]) \in {"COLUMN", "AND", "OR", "FROM", "TO"}
                  /\ s.verb # "SELECT" => Kind(w[j]) \in Others
    BY ScanClause
  <1>2. PICK u, v : SplitAs(cs, w, u, v)
    BY <1>1, ConditionsSplit DEF Scans
  <1>3. PICK n \in Nat, m \in Nat, L \in Nat : n = Len(u) /\ m = Len(v) /\ L = Len(w)
    BY <1>2 DEF SplitAs
  <1>4. /\ cs \in Seq(WhereItem) /\ v \in Seq(WhereItem) /\ IsPicked(v, w, Others)
        /\ Len(cs) = n + m /\ \A j \in 1 .. m : cs[n + j] = v[j]
    BY <1>2, <1>3 DEF SplitAs
  <1>5. /\ \A j \in 1 .. n : Kind(cs[j]) \in Bounds /\ \E h \in 1 .. L : cs[j] = w[h]
        /\ \A j \in 1 .. n + m : j > n => Kind(cs[j]) \in Others
    <2>1. /\ \A j \in 1 .. Len(u) : Kind(cs[j]) \in Bounds
          /\ \A j \in 1 .. Len(cs) : j > Len(u) => Kind(cs[j]) \in Others
          /\ \A j \in 1 .. Len(u) : \E h \in 1 .. Len(w) : cs[j] = w[h]
      BY <1>2, SplitKinds
    <2> QED BY <1>3, <1>4, <2>1
  <1>6. CASE s.verb # "SELECT"
    <2>1. n = 0
      <3>1. SUFFICES ASSUME n # 0 PROVE FALSE
        OBVIOUS
      <3>2. 1 \in 1 .. n
        BY <3>1
      <3>3. PICK h \in 1 .. L : cs[1] = w[h]
        BY <1>5, <3>2
      <3> QED BY <1>1, <1>3, <1>5, <1>6, <3>2, <3>3 DEF Bounds, Others
    <2>2. m > 0 => Kind(cs[1]) = "COLUMN"
      <3>1. SUFFICES ASSUME m > 0 PROVE Kind(cs[1]) = "COLUMN"
        OBVIOUS
      <3>2. PICK g : Picked(v, g, w, Others, L)
        BY <1>3, <1>4 DEF IsPicked
      <3>3. /\ g \in [1 .. m -> 1 .. L] /\ 1 \in 1 .. m
            /\ \A j \in 1 .. m : v[j] = w[g[j]]
            /\ \A j, h \in 1 .. m : j < h => g[j] < g[h]
            /\ \A h \in 1 .. L : Kind(w[h]) \in Others => \E j \in 1 .. m : g[j] = h
        BY <1>3, <3>1, <3>2 DEF Picked
      <3>4. 1 \in 1 .. L /\ g[1] \in 1 .. L
        BY <3>3
      <3>5. PICK a \in 1 .. m : g[a] = 1
        BY <1>1, <1>3, <1>6, <3>3, <3>4
      <3>6. g[1] = 1
        <4>1. a = 1 \/ 1 < a
          OBVIOUS
        <4>2. 1 < a => g[1] < g[a]
          BY <3>3
        <4> QED BY <3>4, <3>5, <4>1, <4>2
      <3>7. w[1] \in WhereItem /\ w[1].word = "cond"
        <4>1. 1 \in DOMAIN w /\ 1 % 2 = 1
          BY <1>3, <3>4
        <4> QED BY <1>1, <4>1 DEF Alternating
      <3>8. Kind(w[1]) \in Others
        BY <1>1, <1>3, <1>6, <3>4
      <3>9. Kind(w[1]) = "COLUMN"
        <4>1. Kind(w[1]) \notin {"AND", "OR"}
          BY <3>7, KindType
        <4> QED BY <3>8, <4>1 DEF Others
      <3>10. cs[0 + 1] = v[1]
        BY <1>4, <2>1, <3>3
      <3> QED BY <3>3, <3>6, <3>9, <3>10
    <2>3. Remain(cs, w)
      <3>1. /\ 0 \in Nat /\ 0 >= 0 /\ 0 <= m
            /\ \A j \in 1 .. 0 : Kind(cs[j]) # "COLUMN"
            /\ 0 < m => Kind(cs[0 + 1]) = "COLUMN"
        BY <2>2
      <3>2. Len(cs) = m - 0 /\ \A j \in 1 .. m - 0 : cs[j] = cs[0 + j]
        BY <1>4, <2>1
      <3>3. m = 0 + Len(v) /\ \A j \in 1 .. Len(v) : cs[0 + j] = v[j]
        BY <1>3, <1>4, <2>1
      <3>4. Cut(cs, 0, v, 0, cs)
        BY <3>1, <3>2, <3>3 DEF Cut
      <3> QED BY <1>4, <3>4, RemainShift
    <2> QED BY <1>1, <1>6, <2>3
  <1>7. CASE s.verb = "SELECT"
    <2> DEFINE K == {"TO", "FROM", "AND", "OR"}
    <2>1. PICK x : x = Leading(cs, K)
      OBVIOUS
    <2>2. /\ x \in 0 .. n + m
          /\ \A j \in 1 .. x : Kind(cs[j]) \in K
          /\ x < n + m => Kind(cs[x + 1]) \notin K
      <3>1. PICK len \in Nat : len = Len(cs) /\ len = n + m
        BY <1>4
      <3> HIDE DEF K
      <3>2. /\ Leading(cs, K) \in 0 .. Len(cs)
            /\ \A j \in 1 .. Leading(cs, K) : Kind(cs[j]) \in K
            /\ Leading(cs, K) < Len(cs) => Kind(cs[Leading(cs, K) + 1]) \notin K
        BY <3>1, LeadingIs
      <3> QED BY <2>1, <3>1, <3>2
    <2>3. x >= n
      <3>1. SUFFICES ASSUME x < n PROVE FALSE
        BY <2>2
      <3>2. x + 1 \in 1 .. n /\ x < n + m
        BY <2>2, <3>1
      <3>3. PICK h \in 1 .. L : cs[x + 1] = w[h]
        BY <1>5, <3>2
      <3>4. Kind(cs[x + 1]) \in K
        BY <1>1, <1>3, <1>5, <3>2, <3>3 DEF Bounds
      <3> QED BY <2>2, <3>2, <3>4
    <2>4. x < n + m => Kind(cs[x + 1]) = "COLUMN"
      <3>1. SUFFICES ASSUME x < n + m PROVE Kind(cs[x + 1]) = "COLUMN"
        OBVIOUS
      <3>2. x + 1 \in 1 .. n + m /\ x + 1 > n
        BY <2>2, <2>3, <3>1
      <3> QED BY <1>5, <2>2, <3>1, <3>2 DEF Others
    <2>5. \A j \in 1 .. x : Kind(cs[j]) # "COLUMN"
      BY <2>2
    <2>6. PICK d, y : y = n + m /\ d = SubSeq(cs, x + 1, y)
      OBVIOUS
    <2>7. x \in Nat /\ y \in Nat /\ x <= y /\ Len(cs) = y
      BY <1>4, <2>2, <2>6
    <2>8. Len(d) = y - x
      BY <1>4, <2>6, <2>7
    <2>9. Remain(d, w)
      <3>1. ASSUME NEW j \in 1 .. y - x PROVE d[j] = cs[x + j]
        BY <1>4, <2>6, <2>7, SMTT(30)
      <3>2. /\ y = n + Len(v) /\ \A j \in 1 .. Len(v) : cs[n + j] = v[j]
            /\ x < y => Kind(cs[x + 1]) = "COLUMN"
        BY <1>3, <1>4, <2>4, <2>6
      <3> HIDE DEF K
      <3>3. Cut(cs, n, v, x, d)
        BY <2>3, <2>5, <2>7, <2>8, <3>1, <3>2 DEF Cut
      <3> QED BY <1>4, <3>3, RemainShift
    <2> QED BY <1>1, <1>4, <1>7, <2>1, <2>6, <2>9
  <1> QED BY <1>6, <1>7

\* The bound that counts is the first one written.
LEMMA FirstBound ==
  ASSUME NEW w \in Seq(WhereItem), NEW cs, NEW u, NEW v, SplitAs(cs, w, u, v),
         NEW x \in Nat, Len(u) <= x, x <= Len(cs), NEW kind \in {"FROM", "TO"}, NEW default
  PROVE  \/ BoundIn(SubSeq(cs, 1, x), kind, default) = default /\ First(w, kind) = {}
         \/ \E j \in 1 .. Len(w) :
               /\ BoundIn(SubSeq(cs, 1, x), kind, default) = w[j].val[1]
               /\ First(w, kind) = {j} /\ Kind(w[j]) = kind
  <1>1. PICK n \in Nat, m \in Nat, L \in Nat :
           n = Len(u) /\ m = Len(v) /\ L = Len(w) /\ Len(cs) = n + m /\ n <= x /\ x <= n + m
    BY DEF SplitAs
  <1>2. cs \in Seq(WhereItem) /\ \A j \in 1 .. n : cs[j] = u[n - j + 1]
    BY <1>1 DEF SplitAs
  <1>3. PICK p : Picked(u, p, w, Bounds, L)
    BY <1>1 DEF SplitAs, IsPicked
  <1>4. /\ p \in [1 .. n -> 1 .. L]
        /\ \A j \in 1 .. n : u[j] = w[p[j]] /\ Kind(w[p[j]]) \in Bounds
        /\ \A j, h \in 1 .. n : j < h => p[j] < p[h]
        /\ \A h \in 1 .. L : Kind(w[h]) \in Bounds => \E j \in 1 .. n : p[j] = h
    BY <1>1, <1>3 DEF Picked
  <1>5. PICK d : d = SubSeq(cs, 1, x)
    OBVIOUS
  <1>6. d \in Seq(WhereItem) /\ Len(d) = x
    BY <1>1, <1>2, <1>5
  <1>7. ASSUME NEW j \in 1 .. x PROVE d[j] = cs[j]
    BY <1>1, <1>2, <1>5
  <1>8. kind \in Bounds /\ kind \notin Others
    BY DEF Bounds, Others
  <1>9. ASSUME NEW j \in 1 .. x, Kind(d[j]) = kind
        PROVE  j \in 1 .. n /\ n - j + 1 \in 1 .. n /\ d[j] = w[p[n - j + 1]]
    <2>1. j \in 1 .. Len(cs) /\ d[j] = cs[j]
      BY <1>1, <1>7
    <2>2. \A h \in 1 .. Len(cs) : h > Len(u) => Kind(cs[h]) \in Others
      BY SplitKinds
    <2>3. ~(j > n)
      BY <1>1, <1>8, <1>9, <2>1, <2>2
    <2>4. j \in 1 .. n /\ n - j + 1 \in 1 .. n
      BY <2>3
    <2> QED BY <1>2, <1>4, <2>1, <2>4
  <1>10. ASSUME NEW h \in 1 .. L, Kind(w[h]) = kind
         PROVE  \E j \in 1 .. x : /\ Kind(d[j]) = kind /\ d[j] = w[h]
                                  /\ n - j + 1 \in 1 .. n /\ p[n - j + 1] = h
    <2>1. PICK a \in 1 .. n : p[a] = h
      BY <1>4, <1>8, <1>10
    <2>2. PICK j \in 1 .. n : j = n - a + 1 /\ n - j + 1 = a /\ j \in 1 .. x
      <3>1. n - a + 1 \in 1 .. n /\ n - (n - a + 1) + 1 = a /\ n - a + 1 \in 1 .. x
        BY <1>1
      <3> QED BY <3>1
    <2>3. d[j] = u[a]
      BY <1>2, <1>7, <2>2
    <2>4. d[j] = w[h]
      BY <1>4, <2>1, <2>3
    <2> QED BY <1>10, <2>1, <2>2, <2>4
  <1>11. CASE /\ BoundIn(d, kind, default) = default
              /\ \A j \in 1 .. x : Kind(d[j]) # kind
    <2>1. \A h \in 1 .. L : Kind(w[h]) # kind
      BY <1>10, <1>11
    <2>2. First(w, kind) = {}
      BY <1>1, <2>1 DEF First
    <2> QED BY <1>5, <1>11, <2>2
  <1>12. CASE \E a \in 1 .. x : /\ BoundIn(d, kind, default) = d[a].val[1] /\ Kind(d[a]) = kind
                                /\ \A j \in 1 .. x : Kind(d[j]) = kind => j <= a
    <2>1. PICK a \in 1 .. x : /\ BoundIn(d, kind, default) = d[a].val[1] /\ Kind(d[a]) = kind
                              /\ \A j \in 1 .. x : Kind(d[j]) = kind => j <= a
      BY <1>12
    <2>2. a \in 1 .. n /\ n - a + 1 \in 1 .. n /\ d[a] = w[p[n - a + 1]]
      BY <1>9, <2>1
    <2>3. PICK g \in 1 .. L : g = p[n - a + 1] /\ d[a] = w[g] /\ Kind(w[g]) = kind
      BY <1>4, <2>1, <2>2
    <2>4. ASSUME NEW h \in 1 .. L, Kind(w[h]) = kind PROVE g <= h
      <3>1. PICK j \in 1 .. x : Kind(d[j]) = kind /\ n - j + 1 \in 1 .. n /\ p[n - j + 1] = h
        BY <1>10, <2>4
      <3>2. j <= a
        BY <2>1, <3>1
      <3>3. n - a + 1 = n - j + 1 \/ n - a + 1 < n - j + 1
        BY <3>2
      <3>4. PICK y \in 1 .. n, z \in 1 .. n : y = n - a + 1 /\ z = n - j + 1 /\ (y = z \/ y < z)
        BY <2>2, <3>1, <3>3
      <3>5. y < z => p[y] < p[z]
        BY <1>4
      <3>6. p[y] = g /\ p[z] = h
        BY <2>3, <3>1, <3>4
      <3> QED BY <3>4, <3>5, <3>6
    <2>5. g \in First(w, kind)
      <3>1. g \in DOMAIN w
        BY <1>1
      <3>2. ASSUME NEW h \in 1 .. g - 1 PROVE Kind(w[h]) # kind
        <4>1. h \in 1 .. L /\ ~(g <= h)
          OBVIOUS
        <4> QED BY <2>4, <4>1
      <3> QED BY <2>3, <3>1, <3>2 DEF First
    <2>6. ASSUME NEW h \in First(w, kind) PROVE h = g
      <3>1. h \in 1 .. L /\ Kind(w[h]) = kind /\ \A b \in 1 .. h - 1 : Kind(w[b]) # kind
        BY <1>1 DEF First
      <3>2. g <= h /\ g \notin 1 .. h - 1
        BY <2>3, <2>4, <3>1
      <3> QED BY <3>1, <3>2
    <2>7. First(w, kind) = {g}
      BY <2>5, <2>6
    <2> QED BY <1>1, <1>5, <2>1, <2>3, <2>7
  <1>13. \/ /\ BoundIn(d, kind, default) = default
            /\ \A j \in 1 .. x : Kind(d[j]) # kind
         \/ \E a \in 1 .. x : /\ BoundIn(d, kind, default) = d[a].val[1] /\ Kind(d[a]) = kind
                              /\ \A j \in 1 .. x : Kind(d[j]) = kind => j <= a
    <2>1. \/ /\ BoundIn(d, kind, default) = default
             /\ \A j \in 1 .. Len(d) : Kind(d[j]) # kind
          \/ \E a \in 1 .. Len(d) :
                /\ BoundIn(d, kind, default) = d[a].val[1] /\ Kind(d[a]) = kind
                /\ \A j \in 1 .. Len(d) : Kind(d[j]) = kind => j <= a
      BY <1>6, BoundInIs
    <2> QED BY <1>6, <2>1
  <1> QED BY <1>11, <1>12, <1>13

\* The loop of a scan ends before the line that a bound "id <= y" names.
Within(w, l) ==
    /\ \A j \in First(w, "FROM") : l >= w[j].val[1]
    /\ \A j \in First(w, "TO") : l < w[j].val[1]

\* The rows it looks for.
Sought(s, file, l) ==
    /\ Active(file, l)
    /\ Within(WrittenWhere(s), l)
    /\ Satisfied(WrittenWhere(s), file[l])

\* They are the wanted ones but for the line of the bound.
LEMMA SoughtIs ==
  ASSUME NEW s, Scans(s), NEW file, NEW l \in Nat
  PROVE  /\ Sought(s, file, l) => Wanted(s, file, l)
         /\ Wanted(s, file, l) /\ ~AtBound(WrittenWhere(s), l) => Sought(s, file, l)
  <1>1. PICK w \in Seq(WhereItem) :
            /\ w = WrittenWhere(s)
            /\ \A j \in 1 .. Len(w) : w[j].word = "cond" => w[j].val # <<>>
    BY ScanClause
  <1>2. PICK i \in Nat : i = l
    OBVIOUS
  <1>3. ASSUME NEW j \in First(w, "TO")
        PROVE  (i < w[j].val[1] => i <= w[j].val[1]) /\ (i <= w[j].val[1] /\ w[j].val[1] # i => i < w[j].val[1])
    <2>1. j \in 1 .. Len(w) /\ Kind(w[j]) = "TO"
      BY <1>1 DEF First
    <2>2. w[j] \in WhereItem /\ Kind(w[j]) \in Bounds
      BY <1>1, <2>1 DEF Bounds
    <2>3. PICK y \in Nat : y = w[j].val[1]
      BY <1>1, <2>1, <2>2, BoundValue
    <2> QED BY <2>3
  <1>4. /\ Within(w, i) => InBounds(w, i)
        /\ InBounds(w, i) /\ ~AtBound(w, i) => Within(w, i)
    BY <1>3 DEF Within, InBounds, AtBound
  <1> QED BY <1>1, <1>2, <1>4 DEF Sought, Wanted

\* The lines between the bounds of a scan, of a SELECT and of the others.
BoundsTo(s, cs, default, from, to) ==
    LET kinds == {"TO", "FROM"} \cup (IF s.verb = "SELECT" THEN {"AND", "OR"} ELSE {})
        lead == SubSeq(cs, 1, Leading(cs, kinds))
    IN /\ cs = Conditions(s) /\ default \in Nat
       /\ from = IF s.verb = "SELECT" THEN BoundIn(lead, "FROM", 0) ELSE 0
       /\ to = BoundIn(lead, "TO", default)

LEMMA ScanBounds ==
  ASSUME NEW s, Scans(s), NEW cs, NEW default, NEW from, NEW to,
         BoundsTo(s, cs, default, from, to)
  PROVE  /\ from \in Nat /\ to \in Nat
         /\ to = default \/ to <= FileLines
         /\ \A l \in Nat : from <= l /\ l < to => Within(WrittenWhere(s), l)
         /\ \A l \in Nat : Within(WrittenWhere(s), l) => from <= l /\ (l < to \/ to = default)
  <1>1. PICK w \in Seq(WhereItem) :
            /\ w = WhereOf(s) /\ w = WrittenWhere(s)
            /\ \A j \in 1 .. Len(w) :
                  /\ Kind(w[j]) \in {"COLUMN", "AND", "OR", "FROM", "TO"}
                  /\ s.verb # "SELECT" => Kind(w[j]) \in Others
                  /\ Kind(w[j]) = "TO" => w[j].val[1] <= FileLines
                  /\ w[j].word = "cond" => w[j].val # <<>>
    BY ScanClause
  <1> DEFINE kinds == {"TO", "FROM"} \cup (IF s.verb = "SELECT" THEN {"AND", "OR"} ELSE {})
  <1>2. PICK u, v : SplitAs(cs, w, u, v)
    <2>1. cs = Conditions(s) /\ IsStatement(s)
      BY DEF BoundsTo, Scans
    <2> QED BY <1>1, <2>1, ConditionsSplit
  <1>3. PICK n \in Nat, m \in Nat, L \in Nat :
           n = Len(u) /\ m = Len(v) /\ L = Len(w) /\ Len(cs) = n + m
    BY <1>2 DEF SplitAs
  <1>4. PICK x, lead :
           /\ x = Leading(cs, kinds) /\ lead = SubSeq(cs, 1, x) /\ default \in Nat
           /\ from = IF s.verb = "SELECT" THEN BoundIn(lead, "FROM", 0) ELSE 0
           /\ to = BoundIn(lead, "TO", default)
    BY DEF BoundsTo
  <1>14. "FROM" \in kinds /\ "TO" \in kinds
    OBVIOUS
  <1> HIDE DEF kinds
  <1>5. x \in 0 .. n + m /\ (x < n + m => Kind(cs[x + 1]) \notin kinds)
    <2>1. Len(cs) \in Nat
      BY <1>3
    <2>2. /\ Leading(cs, kinds) \in 0 .. Len(cs)
          /\ Leading(cs, kinds) < Len(cs) => Kind(cs[Leading(cs, kinds) + 1]) \notin kinds
      BY <2>1, LeadingIs
    <2> QED BY <1>3, <1>4, <2>2
  <1>6. n <= x
    <2>1. SUFFICES ASSUME x < n PROVE FALSE
      BY <1>5
    <2>2. x + 1 \in 1 .. n /\ x < n + m
      BY <1>5, <2>1
    <2>3. x + 1 \in 1 .. Len(u)
      BY <1>3, <2>2
    <2>4. Kind(cs[x + 1]) \in Bounds /\ \E h \in 1 .. Len(w) : cs[x + 1] = w[h]
      BY <1>2, <2>3, SplitKinds
    <2>5. Kind(cs[x + 1]) \in {"FROM", "TO"}
      BY <1>1, <2>4 DEF Bounds
    <2> QED BY <1>5, <1>14, <2>2, <2>5
  <1>7. x \in Nat /\ Len(u) <= x /\ x <= Len(cs) /\ lead = SubSeq(cs, 1, x)
    BY <1>3, <1>4, <1>5, <1>6
  <1>8. ASSUME NEW j \in 1 .. L, Kind(w[j]) \in {"FROM", "TO"}
        PROVE  w[j].val[1] \in Nat /\ s.verb = "SELECT"
    <2>1. w[j] \in WhereItem /\ Kind(w[j]) \in Bounds
      BY <1>3, <1>8 DEF Bounds
    <2>2. w[j].word = "cond" => w[j].val # <<>>
      BY <1>1, <1>3
    <2>3. w[j].val[1] \in Nat
      BY <2>1, <2>2, BoundValue
    <2>4. s.verb = "SELECT"
      BY <1>1, <1>3, <1>8 DEF Others
    <2> QED BY <2>3, <2>4
  <1>15. ASSUME NEW kind \in {"FROM", "TO"}, NEW d
         PROVE  \/ BoundIn(lead, kind, d) = d /\ First(w, kind) = {}
                \/ \E j \in 1 .. L : /\ BoundIn(lead, kind, d) = w[j].val[1]
                                     /\ First(w, kind) = {j} /\ Kind(w[j]) = kind
    <2>1. \/ BoundIn(SubSeq(cs, 1, x), kind, d) = d /\ First(w, kind) = {}
          \/ \E j \in 1 .. Len(w) : /\ BoundIn(SubSeq(cs, 1, x), kind, d) = w[j].val[1]
                                    /\ First(w, kind) = {j} /\ Kind(w[j]) = kind
      BY <1>1, <1>2, <1>7, FirstBound, SMTT(30)
    <2> QED BY <1>3, <1>7, <2>1
  <1>9. \/ to = default /\ First(w, "TO") = {}
        \/ \E j \in 1 .. L : to = w[j].val[1] /\ First(w, "TO") = {j} /\ Kind(w[j]) = "TO"
    <2>1. "TO" \in {"FROM", "TO"}
      OBVIOUS
    <2> QED BY <1>4, <1>15, <2>1
  <1>10. \/ from = 0 /\ First(w, "FROM") = {}
         \/ \E j \in 1 .. L : from = w[j].val[1] /\ First(w, "FROM") = {j} /\ Kind(w[j]) = "FROM"
    <2>1. "FROM" \in {"FROM", "TO"}
      OBVIOUS
    <2>2. \/ BoundIn(lead, "FROM", 0) = 0 /\ First(w, "FROM") = {}
          \/ \E j \in 1 .. L : /\ BoundIn(lead, "FROM", 0) = w[j].val[1]
                               /\ First(w, "FROM") = {j} /\ Kind(w[j]) = "FROM"
      BY <1>15, <2>1
    <2>3. CASE s.verb = "SELECT"
      BY <1>4, <2>2, <2>3
    <2>4. CASE s.verb # "SELECT"
      <3>1. First(w, "FROM") = {}
        BY <1>8, <2>2, <2>4
      <3> QED BY <1>4, <2>4, <3>1
    <2> QED BY <2>3, <2>4
  <1>11. \A l \in Nat : Within(w, l) <=> /\ \A j \in First(w, "FROM") : l >= w[j].val[1]
                                         /\ \A j \in First(w, "TO") : l < w[j].val[1]
    BY DEF Within
  <1>12. /\ to \in Nat /\ (to = default \/ to <= FileLines)
         /\ \A l \in Nat : l < to => \A j \in First(w, "TO") : l < w[j].val[1]
         /\ \A l \in Nat : (\A j \in First(w, "TO") : l < w[j].val[1]) => l < to \/ to = default
    BY <1>1, <1>3, <1>4, <1>8, <1>9
  <1>13. /\ from \in Nat
         /\ \A l \in Nat : from <= l <=> \A j \in First(w, "FROM") : l >= w[j].val[1]
    BY <1>8, <1>10
  <1> QED BY <1>1, <1>11, <1>12, <1>13

-----------------------------------------------------------------------------
(***************************************************************************)
(* The rows a scan takes.                                                  *)
(***************************************************************************)
\* Those it took are wanted, and of those behind it none is left out.
Sound(r, T) == \A l \in IdsIn(r.body) \ T : Sought(r.st, r.snap, l)
Covered(r, T) ==
    \A l \in Lines \ T : l < r.i /\ Sought(r.st, r.snap, l) => l \in IdsIn(r.body)

\* What is left to do of the WHERE.
Bounded(r) ==
    /\ Remain(r.conds, WhereOf(r.st))
    /\ \A l \in Nat : r.i <= l /\ l < r.last => Within(WrittenWhere(r.st), l)

\* The conditions looked at so far.
Judged(r, T) ==
    r.i \notin T => /\ Active(r.snap, r.i)
                    /\ r.ok <=> Verdict(r.conds, r.snap[r.i], r.k - 1)

Passed(r, T) == r.i \notin T => Sought(r.st, r.snap, r.i)

Handling == {"read", "write", "deactivate", "push", "uncount"}
OnLine == Handling \cup {"test"}

Sifted(r, T) ==
    Scans(r.st) /\ r.pc # "idle" =>
        /\ Sound(r, T)
        /\ r.pc = "bound" => r.conds = Conditions(r.st)
        /\ r.pc \in {"count", "scan"} \cup OnLine => Bounded(r) /\ Covered(r, T)
        /\ r.pc \in OnLine => r.i < r.last /\ r.i \in Lines
        /\ r.pc = "test" => Judged(r, T)
        /\ r.pc \in Handling => Passed(r, T)

SiftInv == \A c \in Clients : Sifted(run[c], touched[c])

LEMMA SiftLess ==
  ASSUME NEW r, NEW T, NEW U, T \subseteq U, Sifted(r, T)
  PROVE  Sifted(r, U)
  <1>1. Sound(r, T) => Sound(r, U)
    BY DEF Sound
  <1>2. Covered(r, T) => Covered(r, U)
    BY DEF Covered
  <1>3. Judged(r, T) => Judged(r, U)
    BY DEF Judged
  <1>4. Passed(r, T) => Passed(r, U)
    BY DEF Passed
  <1> QED BY <1>1, <1>2, <1>3, <1>4 DEF Sifted

LEMMA SiftKept ==
  ASSUME TypeInv, SiftInv, NEW c \in Clients, NEW n, Become(c, n), Sifted(n, touched'[c]),
         \A d \in Clients : d # c => touched[d] \subseteq touched'[d]
  PROVE  SiftInv'
  <1>1. \A d \in Clients : run'[d] = IF d = c THEN n ELSE run[d]
    BY DEF Become, TypeInv
  <1>2. ASSUME NEW d \in Clients PROVE Sifted(run'[d], touched'[d])
    <2>1. CASE d = c
      BY <1>1, <2>1
    <2>2. CASE d # c
      <3>1. PICK r, T, U : /\ r = run[d] /\ T = touched[d] /\ U = touched'[d]
                           /\ Sifted(r, T) /\ T \subseteq U
        BY <2>2 DEF SiftInv
      <3> QED BY <1>1, <2>2, <3>1, SiftLess
    <2> QED BY <2>1, <2>2
  <1> QED BY <1>2 DEF SiftInv

\* The same when nothing changes for the thread itself.
LEMMA SiftMoves ==
  ASSUME TypeInv, SiftInv, NEW c \in Clients, NEW n, Become(c, n), NEW T, T = touched[c],
         touched' = touched, Sifted(n, T)
  PROVE  SiftInv'
  <1>1. Sifted(n, touched'[c]) /\ \A d \in Clients : d # c => touched[d] \subseteq touched'[d]
    OBVIOUS
  <1> QED BY <1>1, SiftKept

\* The work on a line is over and nothing of it is missing.
LEMMA SiftFinished ==
  ASSUME NEW r \in Threads, NEW T, ~IsDirect(r.st), Sound(r, T), Bounded(r), Covered(r, T),
         r.i \notin T /\ Sought(r.st, r.snap, r.i) => r.i \in IdsIn(r.body)
  PROVE  Sifted(Finished(r), T)
  <1>1. PICK n : n = Finished(r) /\ FinishedTo(r, n)
    BY FinishedIs
  <1>2. /\ n.st = r.st /\ n.body = r.body /\ n.snap = r.snap /\ n.conds = r.conds
        /\ n.last = r.last /\ n.pc = "scan" /\ n.i = r.i + 1 /\ r.i \in Nat /\ r.last \in Nat
    BY <1>1 DEF FinishedTo, Threads
  <1>3. Sound(n, T)
    BY <1>2 DEF Sound
  <1>4. Bounded(n)
    <2>1. \A l \in Nat : r.i + 1 <= l => r.i <= l
      BY <1>2
    <2>2. \A l \in Nat : n.i <= l /\ l < n.last => Within(WrittenWhere(n.st), l)
      BY <1>2, <2>1 DEF Bounded
    <2> QED BY <1>2, <2>2 DEF Bounded
  <1>5. Covered(n, T)
    <2>1. ASSUME NEW l \in Lines \ T, l < r.i + 1, Sought(r.st, r.snap, l)
          PROVE  l \in IdsIn(r.body)
      <3>1. l < r.i \/ l = r.i
        <4>1. l \in Nat
          BY <2>1, LinesAre
        <4> QED BY <1>2, <2>1, <4>1
      <3> QED BY <2>1, <3>1 DEF Covered
    <2> QED BY <1>2, <2>1 DEF Covered
  <1> QED BY <1>1, <1>2, <1>3, <1>4, <1>5 DEF Sifted, OnLine, Handling

\* The record of the line is added.
LEMMA SiftReport ==
  ASSUME NEW x \in Threads, NEW T, ~IsDirect(x.st), Sound(x, T), Bounded(x), Covered(x, T),
         Passed(x, T), NEW b \in Record, b[1][1] = x.i, NEW y,
         y = [x EXCEPT !.body = Append(@, b)]
  PROVE  Sifted(Finished(y), T)
  <1>1. PICK z \in Bodies : z = Append(x.body, b) /\ IdsIn(z) = IdsIn(x.body) \cup {x.i}
    <2>1. x.body \in Bodies
      BY DEF Threads
    <2> QED BY <2>1, AppendBody, IdsAppend
  <1>2. y = [x EXCEPT !.body = z]
    BY <1>1
  <1>3. y \in Threads
    BY <1>1, <1>2 DEF Threads
  <1>4. /\ y.st = x.st /\ y.body = z /\ y.snap = x.snap /\ y.conds = x.conds
        /\ y.last = x.last /\ y.i = x.i
    BY <1>2 DEF Threads
  <1>5. Sound(y, T)
    BY <1>1, <1>4 DEF Sound, Passed
  <1>6. Bounded(y)
    BY <1>4 DEF Bounded
  <1>7. Covered(y, T) /\ y.i \in IdsIn(y.body)
    BY <1>1, <1>4 DEF Covered
  <1> QED BY <1>3, <1>4, <1>5, <1>6, <1>7, SiftFinished

LEMMA SiftSelected ==
  ASSUME NEW r \in Threads, NEW T, ~IsDirect(r.st), Sound(r, T), Bounded(r), Covered(r, T),
         Passed(r, T), r.i < r.last, r.i \in Lines
  PROVE  Sifted(Selected(r), T)
  <1>1. PICK n : n = Selected(r) /\ SelectedTo(r, n)
    BY SelectedIs
  <1>2. /\ n.st = r.st /\ n.snap = r.snap /\ n.conds = r.conds /\ n.last = r.last
        /\ r.i \in Nat /\ r.last \in Nat
    BY <1>1 DEF SelectedTo, Threads
  <1>3. CASE r.st.verb = "DELETE" \/ ColumnsOf(r.st) # <<>>
    <2>1. n.body = r.body /\ n.i = r.i /\ n.pc \in {"deactivate", "read", "write"}
      BY <1>1, <1>3 DEF SelectedTo
    <2>2. Sound(n, T) /\ Bounded(n) /\ Covered(n, T) /\ Passed(n, T)
      BY <1>2, <2>1 DEF Sound, Bounded, Covered, Passed
    <2> QED BY <1>1, <1>2, <2>1, <2>2 DEF Sifted, OnLine, Handling
  <1>4. CASE r.st.verb # "DELETE" /\ ColumnsOf(r.st) = <<>>
    <2>1. PICK b \in Record : b = <<<<r.i>>>> /\ b[1][1] = r.i
      <3>1. <<<<r.i>>>>[1][1] = r.i
        OBVIOUS
      <3> QED BY <1>2, <3>1, IdType
    <2>2. n.body = Append(r.body, b) /\ n.pc = "scan" /\ n.i = r.i + 1
      BY <1>1, <1>4, <2>1 DEF SelectedTo
    <2>3. IdsIn(n.body) = IdsIn(r.body) \cup {r.i}
      <3>1. r.body \in Bodies
        BY DEF Threads
      <3> QED BY <2>1, <2>2, <3>1, IdsAppend
    <2>4. Sound(n, T)
      BY <1>2, <2>3 DEF Sound, Passed
    <2>5. Bounded(n)
      <3>1. \A l \in Nat : r.i + 1 <= l => r.i <= l
        BY <1>2
      <3>2. \A l \in Nat : n.i <= l /\ l < n.last => Within(WrittenWhere(n.st), l)
        BY <1>2, <2>2, <3>1 DEF Bounded
      <3> QED BY <1>2, <3>2 DEF Bounded
    <2>6. Covered(n, T)
      <3>1. ASSUME NEW l \in Lines \ T, l < r.i + 1, Sought(r.st, r.snap, l)
            PROVE  l \in IdsIn(n.body)
        <4>1. l < r.i \/ l = r.i
          <5>1. l \in Nat
            BY <3>1, LinesAre
          <5> QED BY <1>2, <3>1, <5>1
        <4> QED BY <2>3, <3>1, <4>1 DEF Covered
      <3> QED BY <1>2, <2>2, <3>1 DEF Covered
    <2> QED BY <1>1, <1>2, <2>2, <2>4, <2>5, <2>6 DEF Sifted, OnLine, Handling
  <1> QED BY <1>3, <1>4

LEMMA BeforeSift ==
  ASSUME TypeInv, ChangeInv, SiftInv, NEW c \in Clients
  PROVE  \E r, T, file :
            /\ r = run[c] /\ T = touched[c] /\ file = line
            /\ r \in Threads /\ Poised(c, r) /\ Faithful(r, T, file) /\ Sifted(r, T)
  BY BeforeStep DEF SiftInv

\* A statement of another kind.
LEMMA SiftOther ==
  ASSUME NEW n, NEW T, ~Scans(n.st)
  PROVE  Sifted(n, T)
  BY DEF Sifted

\* The line a scan has come to is as it was, unless somebody else changed it.
LEMMA SiftHere ==
  ASSUME NEW c, NEW r, NEW T, NEW file, Poised(c, r), Faithful(r, T, file),
         r.pc \in {"scan", "test"}, r.i \in Lines \ T
  PROVE  file[r.i] = r.snap[r.i] /\ r.i \notin IdsIn(r.body)
  <1>1. AllSettled(r, T, file) /\ r.pc # "idle"
    BY Resting DEF Busy
  <1>2. Scanning(c, r) /\ ~IsDirect(r.st) /\ r \in Threads
    BY DEF Poised
  <1>3. r.body \in Bodies /\ r.i \in Nat /\ BodyBelow(r.body, r.i)
    BY <1>2 DEF Threads, Scanning
  <1>4. r.i \notin IdsIn(r.body)
    BY <1>3, Unseen
  <1>5. Settled(r.st, r.body, r.snap[r.i], r.i, file[r.i])
    BY <1>1 DEF AllSettled
  <1> QED BY <1>4, <1>5, SettledUnseen

LEMMA SiftBound ==
  ASSUME TypeInv, ChangeInv, SiftInv, NEW c \in Clients, Bound(c)
  PROVE  SiftInv'
  <1>1. PICK r, T, file :
            /\ r = run[c] /\ T = touched[c] /\ file = line
            /\ r \in Threads /\ Poised(c, r) /\ Faithful(r, T, file) /\ Sifted(r, T)
    BY BeforeSift
  <1>2. r.pc = "bound" /\ touched' = touched
    BY <1>1 DEF Bound, At
  <1>3. r.body = <<>>
    BY <1>1, <1>2 DEF Poised
  <1>4. PICK s, cs : s = r.st /\ cs = r.conds
    OBVIOUS
  <1> DEFINE select == s.verb = "SELECT"
             kinds == {"TO", "FROM"} \cup (IF select THEN {"AND", "OR"} ELSE {})
             lead == SubSeq(cs, 1, Leading(cs, kinds))
  <1>5. PICK x, from, to, d :
            /\ x = Leading(cs, kinds)
            /\ from = IF select THEN BoundIn(lead, "FROM", 0) ELSE 0
            /\ to = BoundIn(lead, "TO", freeId)
            /\ d = IF select THEN SubSeq(cs, x + 1, Len(cs)) ELSE cs
    OBVIOUS
  <1>6. PICK n : n = [r EXCEPT !.pc = "count", !.last = to, !.i = from, !.conds = d]
    OBVIOUS
  <1>7. Become(c, n)
    <2>1. Become(c, [r EXCEPT !.pc = "count",
                              !.last = BoundIn(lead, "TO", freeId),
                              !.i = IF select THEN BoundIn(lead, "FROM", 0) ELSE 0,
                              !.conds = IF select THEN SubSeq(@, Leading(cs, kinds) + 1, Len(@))
                                        ELSE @])
      BY <1>1, <1>4 DEF Bound
    <2>2. (IF select THEN SubSeq(r.conds, Leading(cs, kinds) + 1, Len(r.conds)) ELSE r.conds) = d
      BY <1>4, <1>5
    <2> HIDE DEF select, kinds
    <2> QED BY <1>5, <1>6, <2>1, <2>2
  <1>8. /\ n.pc = "count" /\ n.st = s /\ n.snap = r.snap /\ n.body = <<>> /\ n.last = to
        /\ n.i = from /\ n.conds = d
    BY <1>1, <1>3, <1>4, <1>6 DEF Threads
  <1>9. ASSUME Scans(s) PROVE Sifted(n, T)
    <2>1. cs = Conditions(s)
      BY <1>1, <1>2, <1>4, <1>9 DEF Sifted
    <2>2. PICK f \in Nat : f = freeId
      BY DEF TypeInv
    <2>3. BoundsTo(s, cs, f, from, to)
      BY <1>5, <2>1, <2>2 DEF BoundsTo
    <2>4. /\ \A l \in Nat : from <= l /\ l < to => Within(WrittenWhere(s), l)
          /\ \A l \in Nat : Within(WrittenWhere(s), l) => from <= l
          /\ from \in Nat
      BY <1>9, <2>3, ScanBounds
    <2>5. Remain(d, WhereOf(s))
      <3>1. select => x = Leading(cs, {"TO", "FROM", "AND", "OR"})
        <4>1. select => kinds = {"TO", "FROM", "AND", "OR"}
          OBVIOUS
        <4> HIDE DEF select, kinds
        <4> QED BY <1>5, <4>1
      <3> QED BY <1>5, <1>9, <2>1, <3>1, ScanRemain
    <2>6. Bounded(n)
      BY <1>8, <2>4, <2>5 DEF Bounded
    <2>7. IdsIn(n.body) = {}
      BY <1>8 DEF IdsIn
    <2>8. Covered(n, T)
      <3>1. ASSUME NEW l \in Lines, l < from, Sought(s, r.snap, l) PROVE FALSE
        <4>1. l \in Nat /\ from <= l
          BY <2>4, <3>1, LinesAre DEF Sought
        <4> QED BY <2>4, <3>1, <4>1
      <3> QED BY <1>8, <3>1 DEF Covered
    <2> QED BY <1>8, <2>6, <2>7, <2>8 DEF Sifted, Sound, OnLine, Handling
  <1>10. Sifted(n, T)
    BY <1>8, <1>9, SiftOther
  <1> QED BY <1>1, <1>2, <1>7, <1>10, SiftMoves

LEMMA SiftCount ==
  ASSUME TypeInv, ChangeInv, SiftInv, NEW c \in Clients, Count(c)
  PROVE  SiftInv'
  <1>1. PICK r, T, file :
            /\ r = run[c] /\ T = touched[c] /\ file = line
            /\ r \in Threads /\ Poised(c, r) /\ Faithful(r, T, file) /\ Sifted(r, T)
    BY BeforeSift
  <1>2. r.pc = "count" /\ touched' = touched
    BY <1>1 DEF Count, At
  <1>3. PICK a, n : n = [r EXCEPT !.pc = "scan", !.cnt = a] /\ Become(c, n)
    BY <1>1 DEF Count
  <1>4. /\ n.pc = "scan" /\ n.st = r.st /\ n.snap = r.snap /\ n.body = r.body
        /\ n.last = r.last /\ n.i = r.i /\ n.conds = r.conds
    BY <1>1, <1>3 DEF Threads
  <1>5. ASSUME Scans(r.st) PROVE Sifted(n, T)
    <2>1. Sound(r, T) /\ Bounded(r) /\ Covered(r, T)
      BY <1>1, <1>2, <1>5 DEF Sifted
    <2>2. Sound(n, T) /\ Bounded(n) /\ Covered(n, T)
      BY <1>4, <2>1 DEF Sound, Bounded, Covered
    <2> QED BY <1>4, <2>2 DEF Sifted, OnLine, Handling
  <1> QED BY <1>1, <1>2, <1>3, <1>4, <1>5, SiftOther, SiftMoves

LEMMA SiftScanLine ==
  ASSUME TypeInv, ChangeInv, SiftInv, NEW c \in Clients, ScanLine(c)
  PROVE  SiftInv'
  <1>1. PICK r, T, file :
            /\ r = run[c] /\ T = touched[c] /\ file = line
            /\ r \in Threads /\ Poised(c, r) /\ Faithful(r, T, file) /\ Sifted(r, T)
    BY BeforeSift
  <1>2. r.pc = "scan" /\ touched' = touched /\ r.i \in Lines /\ r.i < r.last
    BY <1>1 DEF ScanLine, At, Looping
  <1>3. ~IsDirect(r.st) /\ Scanning(c, r)
    BY <1>1, <1>2 DEF Poised
  <1>4. PICK n : /\ Become(c, n)
                 /\ n = IF ~Active(file, r.i) THEN Finished(r)
                        ELSE IF r.conds = <<>> THEN Selected(r)
                        ELSE [r EXCEPT !.pc = "test", !.k = 1, !.ok = FALSE]
    BY <1>1 DEF ScanLine
  <1>5. r.i \notin T => file[r.i] = r.snap[r.i]
    BY <1>1, <1>2, SiftHere
  <1>6. \/ ~Active(file, r.i) /\ n = Finished(r)
        \/ Active(file, r.i) /\ r.conds = <<>> /\ n = Selected(r)
        \/ /\ Active(file, r.i) /\ r.conds # <<>>
           /\ n = [r EXCEPT !.pc = "test", !.k = 1, !.ok = FALSE]
    BY <1>4
  <1>7. ASSUME ~Scans(r.st) PROVE Sifted(n, T)
    <2>1. n.st = r.st
      <3>1. Finished(r).st = r.st /\ Selected(r).st = r.st
        BY <1>1, FinishedIs, SelectedIs DEF FinishedTo, SelectedTo
      <3>2. [r EXCEPT !.pc = "test", !.k = 1, !.ok = FALSE].st = r.st
        BY <1>1 DEF Threads
      <3> QED BY <1>6, <3>1, <3>2
    <2> QED BY <1>7, <2>1, SiftOther
  <1>8. ASSUME Scans(r.st) PROVE Sifted(n, T)
    <2>1. Sound(r, T) /\ Bounded(r) /\ Covered(r, T)
      BY <1>1, <1>2, <1>8 DEF Sifted
    <2>2. CASE ~Active(file, r.i) /\ n = Finished(r)
      <3>1. ~(r.i \notin T /\ Sought(r.st, r.snap, r.i))
        BY <1>5, <2>2 DEF Sought, Active
      <3> QED BY <1>1, <1>3, <2>1, <2>2, <3>1, SiftFinished
    <2>3. CASE Active(file, r.i) /\ r.conds = <<>> /\ n = Selected(r)
      <3>1. Passed(r, T)
        <4>1. SUFFICES ASSUME r.i \notin T PROVE Sought(r.st, r.snap, r.i)
          BY DEF Passed
        <4>2. Active(r.snap, r.i)
          BY <1>5, <2>3, <4>1 DEF Active
        <4>3. Within(WrittenWhere(r.st), r.i)
          <5>1. r.i \in Nat /\ r.i <= r.i
            BY <1>1 DEF Threads
          <5> QED BY <1>2, <2>1, <5>1 DEF Bounded
        <4>4. Satisfied(WrittenWhere(r.st), r.snap[r.i])
          <5>1. PICK w \in Seq(WhereItem) :
                   w = WhereOf(r.st) /\ w = WrittenWhere(r.st) /\ Alternating(w)
            BY <1>8, ScanClause
          <5>2. PICK cs \in Seq(WhereItem) : cs = r.conds
            BY <1>1 DEF Threads, CondSeqs
          <5>3. Remain(cs, w)
            BY <2>1, <5>1, <5>2 DEF Bounded
          <5> QED BY <2>3, <5>1, <5>2, <5>3, VerdictIs
        <4> QED BY <4>2, <4>3, <4>4 DEF Sought
      <3> QED BY <1>1, <1>2, <1>3, <2>1, <2>3, <3>1, SiftSelected
    <2>4. CASE /\ Active(file, r.i) /\ r.conds # <<>>
               /\ n = [r EXCEPT !.pc = "test", !.k = 1, !.ok = FALSE]
      <3>1. /\ n.pc = "test" /\ n.st = r.st /\ n.snap = r.snap /\ n.body = r.body /\ n.k = 1
            /\ n.ok = FALSE /\ n.last = r.last /\ n.i = r.i /\ n.conds = r.conds
        BY <1>1, <2>4 DEF Threads
      <3>2. Sound(n, T) /\ Bounded(n) /\ Covered(n, T)
        BY <2>1, <3>1 DEF Sound, Bounded, Covered
      <3>3. Judged(n, T)
        <4>1. n.k - 1 = 0
          BY <3>1
        <4> QED BY <1>5, <2>4, <3>1, <4>1, VerdictNone DEF Judged, Active
      <3> QED BY <1>2, <3>1, <3>2, <3>3 DEF Sifted, OnLine, Handling
    <2> QED BY <1>6, <2>2, <2>3, <2>4
  <1> QED BY <1>1, <1>2, <1>4, <1>7, <1>8, SiftMoves

\* One more condition: current_result is what the conditions so far decide.
LEMMA SiftVerdict ==
  ASSUME NEW r \in Threads, NEW T, NEW f, r.i \notin T, r.pc = "test", r.k <= Len(r.conds),
         Bounded(r), Judged(r, T), f = r.snap[r.i], NEW met, NEW now,
         Kind(r.conds[r.k]) = "COLUMN" => met = True(r.conds, f, r.k),
         now = IF Kind(r.conds[r.k]) \in {"AND", "OR"} THEN r.ok
               ELSE IF LogicOp(r.conds, r.k) = "OR" THEN r.ok \/ met
               ELSE r.ok /\ met
  PROVE  now <=> Verdict(r.conds, f, r.k)
  <1>1. PICK cs \in Seq(WhereItem), k \in Nat \ {0} : cs = r.conds /\ k = r.k /\ k \in 1 .. Len(cs)
    <2>1. PICK cs \in Seq(WhereItem), k \in Nat \ {0} : cs = r.conds /\ k = r.k
      BY DEF Threads, CondSeqs, Positive
    <2>2. PICK L \in Nat : L = Len(cs)
      OBVIOUS
    <2>3. k \in 1 .. L
      BY <2>1, <2>2
    <2> QED BY <2>1, <2>2, <2>3
  <1>2. Kind(cs[k]) \in Others
    BY <1>1 DEF Bounded, Remain, RemainAs
  <1>3. r.ok <=> Verdict(cs, f, k - 1)
    BY <1>1 DEF Judged
  <1>4. Kind(cs[k]) # "COLUMN" => Kind(cs[k]) \in {"AND", "OR"}
    BY <1>2 DEF Others
  <1>5. /\ Kind(cs[k]) # "COLUMN" => (Verdict(cs, f, k) <=> Verdict(cs, f, k - 1))
        /\ Kind(cs[k]) = "COLUMN" /\ LogicOp(cs, k) = "OR" =>
              (Verdict(cs, f, k) <=> Verdict(cs, f, k - 1) \/ True(cs, f, k))
        /\ Kind(cs[k]) = "COLUMN" /\ LogicOp(cs, k) # "OR" =>
              (Verdict(cs, f, k) <=> Verdict(cs, f, k - 1) /\ True(cs, f, k))
    BY <1>2, VerdictStep
  <1>6. CASE Kind(cs[k]) # "COLUMN"
    BY <1>1, <1>3, <1>4, <1>5, <1>6
  <1>7. CASE Kind(cs[k]) = "COLUMN"
    <2>1. now = IF LogicOp(cs, k) = "OR" THEN r.ok \/ met ELSE r.ok /\ met
      BY <1>1, <1>7
    <2>2. met = True(cs, f, k)
      BY <1>1, <1>7
    <2>3. CASE LogicOp(cs, k) = "OR"
      BY <1>1, <1>3, <1>5, <1>7, <2>1, <2>2, <2>3
    <2>4. CASE LogicOp(cs, k) # "OR"
      BY <1>1, <1>3, <1>5, <1>7, <2>1, <2>2, <2>4
    <2> QED BY <2>3, <2>4
  <1> QED BY <1>6, <1>7

LEMMA SiftTest ==
  ASSUME TypeInv, ChangeInv, SiftInv, NEW c \in Clients, Test(c)
  PROVE  SiftInv'
  <1>1. PICK r, T, file :
            /\ r = run[c] /\ T = touched[c] /\ file = line
            /\ r \in Threads /\ Poised(c, r) /\ Faithful(r, T, file) /\ Sifted(r, T)
    BY BeforeSift
  <1>2. r.pc = "test" /\ touched' = touched
    BY <1>1 DEF Test, At
  <1>3. /\ ~IsDirect(r.st) /\ Scanning(c, r) /\ r.k <= Len(r.conds) /\ r.i \in Lines
    BY <1>1, <1>2 DEF Poised
  <1>4. PICK met \in Met(r) :
          LET now == IF Kind(r.conds[r.k]) \in {"AND", "OR"} THEN r.ok
                     ELSE IF LogicOp(r.conds, r.k) = "OR" THEN r.ok \/ met
                     ELSE r.ok /\ met
          IN Become(c, IF r.k < Len(r.conds) THEN [r EXCEPT !.k = @ + 1, !.ok = now]
                       ELSE IF now THEN Selected(r) ELSE Finished(r))
    BY <1>1 DEF Test
  <1>11. PICK now : now = IF Kind(r.conds[r.k]) \in {"AND", "OR"} THEN r.ok
                          ELSE IF LogicOp(r.conds, r.k) = "OR" THEN r.ok \/ met
                          ELSE r.ok /\ met
    OBVIOUS
  <1>12. PICK n : n = IF r.k < Len(r.conds) THEN [r EXCEPT !.k = @ + 1, !.ok = now]
                      ELSE IF now THEN Selected(r) ELSE Finished(r)
    OBVIOUS
  <1>13. Become(c, n)
    BY <1>4, <1>11, <1>12
  <1>5. r.i \notin T => file[r.i] = r.snap[r.i]
    BY <1>1, <1>2, <1>3, SiftHere
  <1>6. PICK y : y = [r EXCEPT !.k = @ + 1, !.ok = now]
    OBVIOUS
  <1>7. /\ y.pc = "test" /\ y.st = r.st /\ y.snap = r.snap /\ y.body = r.body /\ y.k = r.k + 1
        /\ y.ok = now /\ y.last = r.last /\ y.i = r.i /\ y.conds = r.conds
    BY <1>1, <1>2, <1>6 DEF Threads
  <1>8. \/ r.k < Len(r.conds) /\ n = y
        \/ ~(r.k < Len(r.conds)) /\ now /\ n = Selected(r)
        \/ ~(r.k < Len(r.conds)) /\ ~now /\ n = Finished(r)
    BY <1>6, <1>12
  <1>9. ASSUME ~Scans(r.st) PROVE Sifted(n, T)
    <2>1. Finished(r).st = r.st /\ Selected(r).st = r.st
      BY <1>1, FinishedIs, SelectedIs DEF FinishedTo, SelectedTo
    <2>2. n.st = r.st
      BY <1>7, <1>8, <2>1
    <2> QED BY <1>9, <2>2, SiftOther
  <1>10. ASSUME Scans(r.st) PROVE Sifted(n, T)
    <2>1. Sound(r, T) /\ Bounded(r) /\ Covered(r, T) /\ Judged(r, T) /\ r.i < r.last
      BY <1>1, <1>2, <1>10 DEF Sifted, OnLine
    <2>2. ASSUME r.i \notin T
          PROVE  /\ now <=> Verdict(r.conds, r.snap[r.i], r.k)
                 /\ Active(r.snap, r.i)
      <3>1. Kind(r.conds[r.k]) = "COLUMN" => met = True(r.conds, r.snap[r.i], r.k)
        BY <1>1, <1>4, <1>5, <2>2 DEF Met, True
      <3>2. now <=> Verdict(r.conds, r.snap[r.i], r.k)
        BY <1>1, <1>2, <1>3, <1>11, <2>1, <2>2, <3>1, SiftVerdict
      <3> QED BY <2>1, <2>2, <3>2 DEF Judged
    <2>3. CASE n = y
      <3>1. Sound(n, T) /\ Bounded(n) /\ Covered(n, T)
        BY <1>7, <2>1, <2>3 DEF Sound, Bounded, Covered
      <3>2. Judged(n, T)
        <4>1. n.k - 1 = r.k
          <5>1. r.k \in Nat
            BY <1>1 DEF Threads, Positive
          <5> QED BY <1>7, <2>3, <5>1
        <4> QED BY <1>7, <2>2, <2>3, <4>1 DEF Judged
      <3> QED BY <1>3, <1>7, <2>1, <2>3, <3>1, <3>2 DEF Sifted, OnLine, Handling
    <2>4. ASSUME ~(r.k < Len(r.conds)), r.i \notin T
          PROVE  now <=> Satisfied(WrittenWhere(r.st), r.snap[r.i])
      <3>1. PICK w \in Seq(WhereItem) :
               w = WhereOf(r.st) /\ w = WrittenWhere(r.st) /\ Alternating(w)
        BY <1>10, ScanClause
      <3>2. PICK cs \in Seq(WhereItem), L \in Nat, k \in Nat \ {0} :
               cs = r.conds /\ L = Len(cs) /\ k = r.k
        BY <1>1 DEF Threads, CondSeqs, Positive
      <3>3. k = L /\ cs # <<>>
        BY <1>3, <2>4, <3>2
      <3>4. Remain(cs, w)
        BY <2>1, <3>1, <3>2 DEF Bounded
      <3>5. Verdict(cs, r.snap[r.i], Len(cs)) <=> Satisfied(w, r.snap[r.i])
        BY <3>3, <3>4, <3>1, VerdictIs
      <3> QED BY <2>2, <2>4, <3>1, <3>2, <3>3, <3>5
    <2>5. CASE ~(r.k < Len(r.conds)) /\ now /\ n = Selected(r)
      <3>1. Passed(r, T)
        <4>1. Within(WrittenWhere(r.st), r.i)
          <5>1. r.i \in Nat /\ r.i <= r.i
            BY <1>1 DEF Threads
          <5> QED BY <2>1, <5>1 DEF Bounded
        <4> QED BY <2>2, <2>4, <2>5, <4>1 DEF Passed, Sought
      <3> QED BY <1>1, <1>3, <2>1, <2>5, <3>1, SiftSelected
    <2>6. CASE ~(r.k < Len(r.conds)) /\ ~now /\ n = Finished(r)
      <3>1. ~(r.i \notin T /\ Sought(r.st, r.snap, r.i))
        BY <2>4, <2>6 DEF Sought
      <3> QED BY <1>1, <1>3, <2>1, <2>6, <3>1, SiftFinished
    <2> QED BY <1>8, <2>3, <2>5, <2>6
  <1> QED BY <1>1, <1>2, <1>13, <1>9, <1>10, SiftMoves

\* A record of a SELECT begins with the id of its line.
LEMMA ReadType ==
  ASSUME TypeInv, NEW c \in Clients, NEW r, r = run[c], r.pc = "read", ReadColumn(c),
         NEW v, v = Cell(line[r.i], ColumnsOf(r.st)[r.k]), NEW x,
         x = [r EXCEPT !.k = @ + 1, !.rec = Append(@, v)]
  PROVE  x \in Threads /\ x.rec \in Record /\ x.rec[1][1] = r.i
  <1>1. r \in Threads /\ Poised(c, r) /\ r.i \in Lines
    BY ThreadIs DEF ReadColumn
  <1>2. PICK s, i, k, file : s = r.st /\ i = r.i /\ k = r.k /\ file = line
    OBVIOUS
  <1>3. /\ s.verb = "SELECT" /\ Scanning(c, r) /\ k <= Len(ColumnsOf(s))
        /\ Len(r.rec) = k /\ r.rec[1] = <<i>>
    BY <1>1, <1>2 DEF Poised
  <1>4. k \in Nat \ {0} /\ i \in Lines
    BY <1>1, <1>2 DEF Threads, Positive
  <1>5. v \in Value
    <2>1. ColumnsOf(s) \in Seq(1 .. N)
      BY <1>2, <1>3, InStmts, ColumnsOfType DEF Scanning
    <2>2. PICK h \in 1 .. N : h = ColumnsOf(s)[k]
      <3>1. PICK D : D = 1 .. N
        OBVIOUS
      <3>2. PICK cols \in Seq(D) : cols = ColumnsOf(s)
        BY <2>1, <3>1
      <3>3. \A j \in 1 .. Len(cols) : cols[j] \in D
        BY <3>2
      <3>4. k \in 1 .. Len(cols)
        BY <1>3, <1>4, <3>2
      <3> QED BY <3>1, <3>2, <3>3, <3>4
    <2>3. PICK f \in ByteLines : f = file[i]
      BY <1>2, <1>4 DEF TypeInv, Files
    <2> QED BY <1>2, <2>2, <2>3, CellType DEF Value
  <1>6. PICK old \in Record : old = r.rec /\ Len(old) = k /\ old[1] = <<i>>
    BY <1>1, <1>2, <1>3 DEF Threads
  <1>7. PICK rec \in Record : rec = Append(old, v)
    <2>1. Append(old, v) \in Seq(Value)
      BY <1>5, <1>6 DEF Record
    <2> QED BY <2>1 DEF Record
  <1>8. rec[1][1] = i
    <2>1. rec[1] = old[1]
      BY <1>4, <1>5, <1>6, <1>7 DEF Record
    <2> QED BY <1>6, <2>1
  <1>9. PICK kk \in Positive : kk = k + 1
    BY <1>4 DEF Positive
  <1>10. x = [r EXCEPT !.k = kk, !.rec = rec]
    BY <1>2, <1>6, <1>7, <1>9
  <1>11. x \in Threads /\ x.rec = rec
    BY <1>1, <1>10 DEF Threads
  <1> QED BY <1>2, <1>8, <1>11

\* Sorting leaves the rows of the answer what they are.
LEMMA SortedIds ==
  ASSUME NEW c \in Clients, NEW r, Scanning(c, r), NEW z, z = Sorted(r.st, r.body)
  PROVE  IdsIn(z) = IdsIn(r.body) /\ Len(z) = Len(r.body)
  <1>1. PICK s, body : s = r.st /\ body = r.body /\ Records(s, body)
    BY DEF Scanning
  <1>2. IsStatement(s) /\ ~Refused(s) /\ body \in Seq(Record)
    BY <1>1, InStmts DEF Scanning, Records, Bodies
  <1>3. PICK L \in Nat : L = Len(body) /\ DOMAIN body = 1 .. L
    BY <1>2
  <1>4. InTotalOrder(s, body)
    BY <1>1, <1>2, <1>3, BeforeIsOrder DEF Records
  <1>5. PICK p : Permutes(p, L, body, z)
    BY <1>1, <1>2, <1>3, <1>4, SortedIs
  <1>6. p \in [1 .. L -> 1 .. L] /\ z = [m \in 1 .. L |-> body[p[m]]]
    BY <1>5 DEF Permutes
  <1>10. \A j \in 1 .. L : \E m \in 1 .. L : p[m] = j
    BY <1>5 DEF Permutes
  <1>7. Len(z) = L /\ \A m \in 1 .. L : p[m] \in 1 .. L /\ z[m] = body[p[m]]
    BY <1>3, <1>6
  <1>8. IdsIn(z) \subseteq IdsIn(body)
    BY <1>3, <1>7 DEF IdsIn
  <1>9. IdsIn(body) \subseteq IdsIn(z)
    <2>1. ASSUME NEW j \in 1 .. L PROVE \E m \in 1 .. L : body[j][1][1] = z[m][1][1]
      <3>1. PICK m \in 1 .. L : p[m] = j
        BY <1>10
      <3>2. z[m] = body[j]
        BY <1>7, <3>1
      <3> QED BY <3>2
    <2>2. IdsIn(z) = {z[m][1][1] : m \in 1 .. L} /\ IdsIn(body) = {body[m][1][1] : m \in 1 .. L}
      BY <1>3, <1>7 DEF IdsIn
    <2> QED BY <2>1, <2>2
  <1> QED BY <1>1, <1>3, <1>7, <1>8, <1>9

LEMMA SiftProbeLine ==
  ASSUME TypeInv, ChangeInv, SiftInv, NEW c \in Clients, ProbeLine(c)
  PROVE  SiftInv'
  <1>1. PICK r, T, file :
            /\ r = run[c] /\ T = touched[c] /\ file = line
            /\ r \in Threads /\ Poised(c, r) /\ Faithful(r, T, file) /\ Sifted(r, T)
    BY BeforeSift
  <1>2. r.pc = "probe" /\ touched' = touched
    BY <1>1 DEF ProbeLine, At
  <1>3. PICK z, n :
            /\ n = IF Active(file, r.i) THEN Selected(r)
                   ELSE [r EXCEPT !.pc = "answer", !.body = z]
            /\ Become(c, n)
    BY <1>1 DEF ProbeLine
  <1>4. n.st = r.st
    <2>1. Selected(r).st = r.st
      BY <1>1, SelectedIs DEF SelectedTo
    <2>2. [r EXCEPT !.pc = "answer", !.body = z].st = r.st
      BY <1>1 DEF Threads
    <2> QED BY <1>3, <2>1, <2>2
  <1>5. ~Scans(n.st)
    BY <1>1, <1>2, <1>4 DEF Poised, Scans
  <1> QED BY <1>1, <1>2, <1>3, <1>5, SiftOther, SiftMoves

LEMMA SiftReadColumn ==
  ASSUME TypeInv, ChangeInv, SiftInv, NEW c \in Clients, ReadColumn(c)
  PROVE  SiftInv'
  <1>1. PICK r, T, file :
            /\ r = run[c] /\ T = touched[c] /\ file = line
            /\ r \in Threads /\ Poised(c, r) /\ Faithful(r, T, file) /\ Sifted(r, T)
    BY BeforeSift
  <1>2. r.pc = "read" /\ touched' = touched
    BY <1>1 DEF ReadColumn, At
  <1>3. PICK v, x : /\ x = [r EXCEPT !.k = @ + 1, !.rec = Append(@, v)]
                    /\ v = Cell(line[r.i], ColumnsOf(r.st)[r.k])
    OBVIOUS
  <1>4. /\ x.pc = "read" /\ x.st = r.st /\ x.snap = r.snap /\ x.body = r.body
        /\ x.last = r.last /\ x.i = r.i /\ x.conds = r.conds /\ x.rec = Append(r.rec, v)
    BY <1>1, <1>2, <1>3 DEF Threads
  <1>5. Become(c, x) \/ Become(c, Finished([x EXCEPT !.body = Append(@, x.rec)]))
    BY <1>1, <1>3 DEF ReadColumn
  <1>6. CASE Become(c, x)
    <2>1. ASSUME Scans(r.st) PROVE Sifted(x, T)
      <3>1. /\ Sound(r, T) /\ Bounded(r) /\ Covered(r, T) /\ Passed(r, T)
            /\ r.i < r.last /\ r.i \in Lines
        BY <1>1, <1>2, <2>1 DEF Sifted, OnLine, Handling
      <3>2. Sound(x, T) /\ Bounded(x) /\ Covered(x, T) /\ Passed(x, T)
        BY <1>4, <3>1 DEF Sound, Bounded, Covered, Passed
      <3> QED BY <1>4, <3>1, <3>2 DEF Sifted, OnLine, Handling
    <2> QED BY <1>1, <1>2, <1>4, <1>6, <2>1, SiftOther, SiftMoves
  <1>7. CASE Become(c, Finished([x EXCEPT !.body = Append(@, x.rec)]))
    <2>1. PICK z : z = Append(x.body, x.rec)
      OBVIOUS
    <2>2. PICK y : y = [x EXCEPT !.body = z]
      OBVIOUS
    <2>3. y = [x EXCEPT !.body = Append(@, x.rec)]
      BY <2>1, <2>2
    <2>4. x \in Threads /\ x.rec \in Record /\ x.rec[1][1] = r.i
      <3>1. x \in Threads /\ x.rec \in Record /\ x.rec[1][1] = r.i
        BY <1>1, <1>2, <1>3, ReadType, Zenon
      <3> QED BY <3>1
    <2>5. y \in Threads /\ y.st = r.st
      <3>1. z \in Bodies
        BY <2>1, <2>4, AppendBody DEF Threads
      <3> QED BY <1>4, <2>2, <2>4, <3>1 DEF Threads
    <2>6. ASSUME Scans(r.st) PROVE Sifted(Finished(y), T)
      <3>1. Sound(r, T) /\ Bounded(r) /\ Covered(r, T) /\ Passed(r, T) /\ ~IsDirect(r.st)
        BY <1>1, <1>2, <2>6 DEF Sifted, OnLine, Handling, Scans
      <3>2. Sound(x, T) /\ Bounded(x) /\ Covered(x, T) /\ Passed(x, T)
        BY <1>4, <3>1 DEF Sound, Bounded, Covered, Passed
      <3>3. PICK b \in Record : b = x.rec /\ b[1][1] = x.i
        BY <1>4, <2>4
      <3>4. y = [x EXCEPT !.body = Append(@, b)]
        BY <2>3, <3>3
      <3> QED BY <1>4, <2>4, <3>1, <3>2, <3>3, <3>4, SiftReport
    <2>7. Finished(y).st = r.st
      BY <2>5, FinishedIs DEF FinishedTo
    <2>8. Sifted(Finished(y), T)
      BY <2>6, <2>7, SiftOther
    <2> QED BY <1>1, <1>2, <1>7, <2>3, <2>8, SiftMoves
  <1> QED BY <1>5, <1>6, <1>7

LEMMA SiftEndScan ==
  ASSUME TypeInv, ChangeInv, SiftInv, NEW c \in Clients, EndScan(c)
  PROVE  SiftInv'
  <1>1. PICK r, T, file :
            /\ r = run[c] /\ T = touched[c] /\ file = line
            /\ r \in Threads /\ Poised(c, r) /\ Faithful(r, T, file) /\ Sifted(r, T)
    BY BeforeSift
  <1>2. r.pc = "scan" /\ touched' = touched
    BY <1>1 DEF EndScan, At
  <1>3. PICK z, n : z = Sorted(r.st, r.body) /\ n = [r EXCEPT !.pc = "answer", !.body = z]
    OBVIOUS
  <1>4. Become(c, n)
    BY <1>1, <1>3 DEF EndScan
  <1>5. n.pc = "answer" /\ n.st = r.st /\ n.snap = r.snap /\ n.body = z
    BY <1>1, <1>3 DEF Threads
  <1>6. IdsIn(z) = IdsIn(r.body) /\ Len(z) = Len(r.body)
    BY <1>1, <1>2, <1>3, SortedIds DEF Poised
  <1>7. ASSUME Scans(r.st) PROVE Sifted(n, T)
    <2>1. Sound(n, T)
      BY <1>1, <1>2, <1>5, <1>6, <1>7 DEF Sifted, Sound
    <2> QED BY <1>5, <2>1 DEF Sifted, OnLine, Handling
  <1> QED BY <1>1, <1>2, <1>4, <1>5, <1>7, SiftOther, SiftMoves

LEMMA SiftAnswer ==
  ASSUME TypeInv, SiftInv, NEW c \in Clients, Answer(c)
  PROVE  SiftInv'
  <1>1. Become(c, Idle) /\ \A d \in Clients : d # c => touched'[d] = touched[d]
    BY DEF Answer, TypeInv
  <1>2. Sifted(Idle, touched'[c])
    BY IdleType DEF Sifted
  <1> QED BY <1>1, <1>2, SiftKept

LEMMA SiftSubmit ==
  ASSUME TypeInv, SiftInv, NEW c \in Clients, Submit(c)
  PROVE  SiftInv'
  <1>1. PICK s, n, file : Become(c, n) /\ SubmitTo(n, s, file)
    BY SubmitIs
  <1>2. \A d \in Clients : d # c => touched'[d] = touched[d]
    BY DEF Submit, TypeInv
  <1>3. PICK T : T = touched'[c]
    OBVIOUS
  <1>4. n.st = s
    <2>1. ASSUME NEW d, Fresh(d, s, file), n = Selected(d) PROVE n.st = s
      BY <2>1, SelectedIs DEF Fresh, SelectedTo
    <2> QED BY <1>1, <2>1 DEF SubmitTo, Fresh
  <1>5. ASSUME Scans(s) PROVE Sifted(n, T)
    <2>1. ~Refused(s) /\ s.verb # "INSERT" /\ ~IsDirect(s)
      BY <1>5 DEF Scans, WellPosed
    <2>2. Fresh(n, s, file) /\ n.pc = "bound"
      BY <1>1, <2>1 DEF SubmitTo
    <2>3. IdsIn(n.body) = {}
      BY <2>2 DEF IdsIn, Fresh
    <2> QED BY <2>2, <2>3 DEF Sifted, Sound, OnLine, Handling, Fresh
  <1>6. Sifted(n, T)
    BY <1>4, <1>5, SiftOther
  <1> QED BY <1>1, <1>2, <1>3, <1>6, SiftKept

\* A thread that goes on with its line.
LEMMA SiftStays ==
  ASSUME NEW r, NEW T, Sifted(r, T), r.pc \in Handling, NEW n, n.pc \in Handling,
         n.st = r.st, n.snap = r.snap, n.body = r.body, n.conds = r.conds, n.last = r.last,
         n.i = r.i
  PROVE  Sifted(n, T)
  <1>1. ASSUME Scans(r.st) PROVE Sifted(n, T)
    <2>1. /\ Sound(r, T) /\ Bounded(r) /\ Covered(r, T) /\ Passed(r, T)
          /\ r.i < r.last /\ r.i \in Lines
      BY <1>1 DEF Sifted, OnLine, Handling
    <2>2. Sound(n, T) /\ Bounded(n) /\ Covered(n, T) /\ Passed(n, T)
      BY <2>1 DEF Sound, Bounded, Covered, Passed
    <2> QED BY <2>1, <2>2 DEF Sifted, OnLine, Handling
  <1> QED BY <1>1, SiftOther

\* A DELETE or UPDATE that is done with its line.
LEMMA SiftDone ==
  ASSUME NEW r, NEW x \in Threads, NEW T, Sifted(r, T), Scans(r.st), r.pc \in Handling,
         x.st = r.st, x.snap = r.snap, x.body = r.body, x.conds = r.conds, x.last = r.last,
         x.i = r.i, r.rec = <<<<r.i>>>>, NEW y, y = [x EXCEPT !.body = Append(@, r.rec)]
  PROVE  Sifted(Finished(y), T)
  <1>1. Sound(r, T) /\ Bounded(r) /\ Covered(r, T) /\ Passed(r, T) /\ ~IsDirect(r.st)
    BY DEF Sifted, OnLine, Handling, Scans
  <1>2. Sound(x, T) /\ Bounded(x) /\ Covered(x, T) /\ Passed(x, T) /\ ~IsDirect(x.st)
    BY <1>1 DEF Sound, Bounded, Covered, Passed
  <1>3. PICK b \in Record : b = <<<<x.i>>>> /\ b[1][1] = x.i
    <2>1. <<<<x.i>>>>[1][1] = x.i /\ x.i \in Nat
      BY DEF Threads
    <2> QED BY <2>1, IdType
  <1>4. y = [x EXCEPT !.body = Append(@, b)]
    BY <1>3
  <1> QED BY <1>2, <1>3, <1>4, SiftReport

LEMMA SiftWriteColumn ==
  ASSUME TypeInv, ChangeInv, SiftInv, NEW c \in Clients, WriteColumn(c), Scans(run[c].st)
  PROVE  \E n : Become(c, n) /\ Sifted(n, touched[c])
  <1>1. PICK r, T, file :
            /\ r = run[c] /\ T = touched[c] /\ file = line
            /\ r \in Threads /\ Poised(c, r) /\ Faithful(r, T, file) /\ Sifted(r, T)
    BY BeforeSift
  <1>2. r.pc = "write" /\ Scans(r.st) /\ r.st.verb # "INSERT"
    BY <1>1 DEF WriteColumn, At, Scans
  <1>3. r.rec = <<<<r.i>>>>
    BY <1>1, <1>2 DEF Poised, Inserting
  <1>4. PICK k \in Positive : k = r.k + 1
    <2>1. r.k + 1 \in Positive
      BY <1>1 DEF Threads, Positive
    <2> QED BY <2>1
  <1>5. PICK x : x = [r EXCEPT !.k = k]
    OBVIOUS
  <1>6. /\ x \in Threads /\ x.pc = "write" /\ x.st = r.st /\ x.snap = r.snap
        /\ x.body = r.body /\ x.last = r.last /\ x.i = r.i /\ x.conds = r.conds
    <2>1. x \in Threads
      BY <1>1, <1>5 DEF Threads
    <2> QED BY <1>1, <1>2, <1>5, <2>1 DEF Threads
  <1>7. x = [r EXCEPT !.k = @ + 1]
    BY <1>4, <1>5
  <1>8. PICK y : y = [x EXCEPT !.body = Append(@, r.rec)]
    OBVIOUS
  <1>9. Become(c, x) \/ Become(c, Finished(y))
    BY <1>1, <1>2, <1>7, <1>8 DEF WriteColumn
  <1>10. Sifted(Finished(y), T)
    BY <1>1, <1>2, <1>3, <1>6, <1>8, SiftDone DEF Handling
  <1>11. Sifted(x, T)
    BY <1>1, <1>2, <1>6, SiftStays DEF Handling
  <1> QED BY <1>1, <1>9, <1>10, <1>11

LEMMA SiftErase ==
  ASSUME TypeInv, ChangeInv, SiftInv, NEW c \in Clients, Scans(run[c].st),
         Deactivate(c) \/ PushInStack(c) \/ Uncount(c)
  PROVE  \E n : Become(c, n) /\ Sifted(n, touched[c])
  <1>1. PICK r, T, file :
            /\ r = run[c] /\ T = touched[c] /\ file = line
            /\ r \in Threads /\ Poised(c, r) /\ Faithful(r, T, file) /\ Sifted(r, T)
    BY BeforeSift
  <1>2. r.pc \in {"deactivate", "push", "uncount"}
    BY <1>1 DEF Deactivate, PushInStack, Uncount, At
  <1>3. r.rec = <<<<r.i>>>>
    BY <1>1, <1>2 DEF Poised
  <1>4. CASE Deactivate(c) \/ PushInStack(c)
    <2>1. PICK p \in {"push", "uncount"} : Become(c, [r EXCEPT !.pc = p])
      BY <1>1, <1>4 DEF Deactivate, PushInStack
    <2>2. PICK n : n = [r EXCEPT !.pc = p]
      OBVIOUS
    <2>3. /\ n.pc = p /\ n.st = r.st /\ n.snap = r.snap /\ n.body = r.body
          /\ n.conds = r.conds /\ n.last = r.last /\ n.i = r.i
      BY <1>1, <2>2 DEF Threads
    <2>4. Sifted(n, T)
      BY <1>1, <1>2, <2>1, <2>3, SiftStays DEF Handling
    <2> QED BY <1>1, <2>1, <2>2, <2>4
  <1>5. CASE Uncount(c)
    <2>1. PICK y : y = [r EXCEPT !.body = Append(@, r.rec)]
      OBVIOUS
    <2>2. Become(c, Finished(y))
      BY <1>1, <1>5, <2>1 DEF Uncount
    <2>3. Sifted(Finished(y), T)
      BY <1>1, <1>2, <1>3, <2>1, SiftDone DEF Handling
    <2> QED BY <1>1, <2>2, <2>3
  <1> QED BY <1>4, <1>5

LEMMA SiftWriting ==
  ASSUME TypeInv, ChangeInv, SiftInv, NEW c \in Clients,
         \/ WriteColumn(c) \/ Deactivate(c) \/ PushInStack(c) \/ Uncount(c) \/ PopFreeId(c)
         \/ LoadFreeId(c) \/ CountNewLine(c) \/ ClaimLine(c) \/ Activate(c) \/ CountInserted(c)
  PROVE  SiftInv'
  <1>1. PICK m : /\ Become(c, m) /\ m.st = run[c].st
                 /\ \A d \in Clients : touched[d] \subseteq touched'[d]
    BY WritingOn
  <1>2. CASE ~Scans(run[c].st)
    <2>1. Sifted(m, touched'[c])
      BY <1>1, <1>2, SiftOther
    <2> QED BY <1>1, <2>1, SiftKept
  <1>3. CASE Scans(run[c].st)
    <2>1. PICK r : r = run[c] /\ r \in Threads /\ Poised(c, r)
      BY ThreadIs
    <2>2. r.pc \notin {"take", "new", "claim", "activate", "counted"}
      BY <1>3, <2>1 DEF Poised, Inserting, Scans
    <2>3. WriteColumn(c) \/ Deactivate(c) \/ PushInStack(c) \/ Uncount(c)
      BY <2>1, <2>2 DEF PopFreeId, LoadFreeId, CountNewLine, ClaimLine, Activate,
                        CountInserted, At
    <2>4. PICK n : Become(c, n) /\ Sifted(n, touched[c])
      BY <1>3, <2>3, SiftWriteColumn, SiftErase
    <2>5. PICK T, U : T = touched[c] /\ U = touched'[c] /\ T \subseteq U
      BY <1>1
    <2>6. Sifted(n, U)
      BY <2>4, <2>5, SiftLess
    <2> QED BY <1>1, <2>4, <2>5, <2>6, SiftKept
  <1> QED BY <1>2, <1>3

LEMMA SiftInit == Init => SiftInv
  <1> SUFFICES ASSUME Init, NEW c \in Clients PROVE Sifted(run[c], touched[c])
    BY DEF SiftInv
  <1>1. run[c] = Idle
    BY DEF Init
  <1> QED BY <1>1, IdleType DEF Sifted

LEMMA SiftStep == TypeInv /\ ChangeInv /\ SiftInv /\ [Next]_vars => SiftInv'
  <1> SUFFICES ASSUME TypeInv, ChangeInv, SiftInv, [Next]_vars PROVE SiftInv'
    OBVIOUS
  <1>1. ASSUME run' = run, touched' = touched PROVE SiftInv'
    BY <1>1 DEF SiftInv
  <1>2. ASSUME NEW c \in Clients, Crash(c) PROVE SiftInv'
    BY <1>1, <1>2 DEF Crash
  <1>3. CASE UNCHANGED vars
    BY <1>1, <1>3 DEF vars
  <1>4. ASSUME NEW c \in Clients, Submit(c) \/ Step(c) PROVE SiftInv'
    BY <1>2, <1>4, SiftSubmit, SiftAnswer, SiftBound, SiftCount, SiftScanLine,
       SiftProbeLine, SiftTest, SiftReadColumn, SiftEndScan, SiftWriting, ZenonT(60) DEF Step
  <1> QED BY <1>3, <1>4 DEF Next

LEMMA SiftAlways == Spec => [](TypeInv /\ ChangeInv /\ SiftInv)
  BY SiftInit, SiftStep, ChangeAlways, PTL DEF Spec

(***************************************************************************)
(* Whatever the clients do at once, and whatever the conditions and bounds *)
(* of the WHERE, the rows a scan selects, deletes or updates satisfied it  *)
(* when the statement began, unless somebody else changed them meanwhile   *)
(* (Executor.h 98-127, 195-217, 255-277; Optimizer.h 13-100).              *)
(***************************************************************************)
THEOREM ScansTakeWantedRows == Spec => []OnlyWantedRows
  <1>1. TypeInv /\ SiftInv => OnlyWantedRows
    <2> SUFFICES ASSUME TypeInv, SiftInv, NEW c \in Clients, Scanned(c),
                        NEW l \in Ids(run[c]) \ touched[c]
                 PROVE  Wanted(run[c].st, run[c].snap, l)
      BY DEF OnlyWantedRows
    <2>1. PICK r, T : r = run[c] /\ T = touched[c] /\ r \in Threads /\ Poised(c, r) /\ Sifted(r, T)
      BY ThreadIs DEF SiftInv
    <2>2. /\ r.pc = "answer" /\ WellPosed(r.st) /\ r.st.verb # "INSERT" /\ ~IsDirect(r.st)
      BY <2>1 DEF Scanned, Answering
    <2>3. IsStatement(r.st)
      BY <2>1, <2>2, InStmts DEF Poised, Answered
    <2>4. Sound(r, T)
      BY <2>1, <2>2, <2>3 DEF Sifted, Scans
    <2>5. r.body \in Seq(Record)
      BY <2>1 DEF Threads, Bodies
    <2>6. Ids(r) = IdsIn(r.body)
      BY <2>5, IdsAre
    <2>7. l \in IdsIn(r.body) \ T
      BY <2>1, <2>6
    <2>8. Sought(r.st, r.snap, l)
      BY <2>4, <2>7 DEF Sound
    <2>9. l \in Nat
      <3>1. \A n \in 1 .. Len(r.body) : IsRecord(r.st, r.body[n])
        BY <2>1, <2>2 DEF Poised, Answered
      <3> QED BY <2>7, <3>1 DEF IdsIn, IsRecord
    <2> QED BY <2>1, <2>2, <2>3, <2>8, <2>9, SoughtIs DEF Scans
  <1> QED BY <1>1, SiftAlways, PTL

-----------------------------------------------------------------------------
(***************************************************************************)
(* The books of the table while one client inserts and deletes.            *)
(***************************************************************************)
\* Only w may send an INSERT or a DELETE.
OnlyWriter(w) ==
    /\ w \in Clients
    /\ \A c \in Clients \ {w} : \A s \in Statements[c] : s.verb \notin {"INSERT", "DELETE"}

OneWriter == \E w \in Clients : OnlyWriter(w)

Rows(file) == {l \in Lines : Active(file, l)}

\* The writer has set the flag of its row but not counted it yet, or has cleared
\* the flag and not taken it off the count yet.
Entering(r) == r.st.verb = "INSERT" /\ r.pc \in {"write", "counted"}
Leaving(r) == r.pc \in {"push", "uncount"}

\* It has a free line in hand, or one too many is counted.
Holding(r) == r.pc = "activate" \/ Entering(r)
Ahead(r) == r.pc \in {"claim", "uncount"}

One(b) == IF b THEN 1 ELSE 0

\* The counter n is not below the number m of rows, and with the stack of height
\* top not above twice the lines in use, a new line being counted twice.
Ledger(r, m, free, n, top) ==
    /\ m + One(Leaving(r)) <= n + One(Entering(r))
    /\ n + top + One(Holding(r)) <= 2 * free + One(Ahead(r))
    /\ r.pc = "uncount" => top > 0

\* The line the writer is at.
Grip(r, file, free) ==
    /\ r.st.verb = "DELETE" /\ r.pc \in {"test", "deactivate"} => Active(file, r.i)
    /\ Entering(r) => Active(file, r.i)
    /\ r.pc \in {"new", "claim"} => r.i = free /\ free < FileLines
    /\ r.pc \in {"activate", "push"} => r.i < free

\* All rows and all free lines are lines in use.
InUse(file, free, st) ==
    /\ free <= FileLines
    /\ \A l \in Rows(file) : l < free
    /\ \A j \in 1 .. Len(st) : st[j] < free

Seen(w) ==
    \A c \in Clients \ {w} :
        run[c].pc # "idle" /\ Entering(run[w]) => run[w].i \in touched[c]

LedgerInv(w) ==
    /\ InUse(line, freeId, stack)
    /\ Ledger(run[w], Cardinality(Rows(line)), freeId, places, Len(stack))
    /\ Grip(run[w], line, freeId)
    /\ Seen(w)

LEMMA RowsFinite ==
  ASSUME NEW file
  PROVE  /\ IsFiniteSet(Rows(file)) /\ Rows(file) \subseteq Lines
         /\ Cardinality(Rows(file)) \in Nat
  <1>1. Rows(file) \subseteq Lines
    BY DEF Rows
  <1>2. IsFiniteSet(Rows(file))
    BY <1>1, LinesAre, FS_Subset
  <1> QED BY <1>1, <1>2, FS_CardinalityType

FlagTo(f, g, i, b) == f = [g EXCEPT ![i] = [g[i] EXCEPT ![0] = b]]
FlagIs(f, g, i, b) == \A l \in Lines : f[l][0] = IF l = i THEN b ELSE g[l][0]

LEMMA FlagSet ==
  ASSUME NEW g \in Files, NEW i \in Lines, NEW b, NEW f, FlagTo(f, g, i, b)
  PROVE  FlagIs(f, g, i, b)
  <1>1. g[i] \in ByteLines /\ DOMAIN g = Lines
    BY DEF Files
  <1>2. PICK h : h = g[i] /\ 0 \in DOMAIN h
    <2>1. LineLength \in Nat \ {0}
      BY LengthType
    <2>2. 0 \in 0 .. LineLength - 1
      BY <2>1
    <2> QED BY <1>1, <2>2 DEF ByteLines
  <1>3. [h EXCEPT ![0] = b][0] = b
    BY <1>2
  <1>4. f = [g EXCEPT ![i] = [h EXCEPT ![0] = b]]
    BY <1>2 DEF FlagTo
  <1> QED BY <1>1, <1>2, <1>3, <1>4 DEF FlagIs

LEMMA RowsSame ==
  ASSUME NEW f, NEW g, \A l \in Lines : f[l][0] = g[l][0]
  PROVE  Rows(f) = Rows(g)
  BY DEF Rows, Active

\* A flag is set.
LEMMA RowsAdd ==
  ASSUME NEW g \in Files, NEW i \in Lines, NEW f, FlagTo(f, g, i, 1)
  PROVE  /\ Rows(f) = Rows(g) \cup {i}
         /\ Cardinality(Rows(f)) <= Cardinality(Rows(g)) + 1
  <1>1. \A l \in Lines : f[l][0] = IF l = i THEN 1 ELSE g[l][0]
    <2>1. FlagIs(f, g, i, 1)
      BY FlagSet
    <2> QED BY <2>1 DEF FlagIs
  <1>2. Rows(f) = Rows(g) \cup {i}
    BY <1>1 DEF Rows, Active
  <1>3. PICK S : S = Rows(g) /\ IsFiniteSet(S) /\ Cardinality(S) \in Nat
    BY RowsFinite
  <1>4. Cardinality(S \cup {i}) = IF i \in S THEN Cardinality(S) ELSE Cardinality(S) + 1
    BY <1>3, FS_AddElement
  <1>5. PICK n \in Nat : n = Cardinality(S)
    BY <1>3
  <1>6. PICK m : m = Cardinality(S \cup {i}) /\ (m = n \/ m = n + 1)
    BY <1>4, <1>5
  <1>7. m <= n + 1
    BY <1>6
  <1> QED BY <1>2, <1>3, <1>5, <1>6, <1>7

\* A flag is cleared.
LEMMA RowsRemove ==
  ASSUME NEW g \in Files, NEW i \in Lines, Active(g, i), NEW f, FlagTo(f, g, i, 0)
  PROVE  /\ Rows(f) = Rows(g) \ {i}
         /\ Cardinality(Rows(f)) + 1 = Cardinality(Rows(g))
  <1>1. \A l \in Lines : f[l][0] = IF l = i THEN 0 ELSE g[l][0]
    <2>1. FlagIs(f, g, i, 0)
      BY FlagSet
    <2> QED BY <2>1 DEF FlagIs
  <1>2. Rows(f) = Rows(g) \ {i} /\ i \in Rows(g)
    BY <1>1 DEF Rows, Active
  <1>3. PICK S : S = Rows(g) /\ IsFiniteSet(S) /\ Cardinality(S) \in Nat /\ i \in S
    BY <1>2, RowsFinite
  <1>4. Cardinality(S \ {i}) = Cardinality(S) - 1
    BY <1>3, FS_RemoveElement
  <1>5. PICK n \in Nat : n = Cardinality(S)
    BY <1>3
  <1>6. PICK m : m = Cardinality(S \ {i}) /\ m = n - 1
    BY <1>4, <1>5
  <1>7. m + 1 = n
    BY <1>6
  <1> QED BY <1>2, <1>3, <1>5, <1>6, <1>7

\* A thread with nothing in hand.
Even(r) ==
    r.pc \notin {"claim", "activate", "counted", "push", "uncount"} /\ ~Entering(r)

Ready(r, file, free) == Even(r) /\ Grip(r, file, free)

LEMMA EvenLedger ==
  ASSUME NEW r, NEW n, Even(r), Even(n), NEW m, NEW free, NEW p, NEW top,
         Ledger(r, m, free, p, top)
  PROVE  Ledger(n, m, free, p, top)
  <1>1. \A x : Even(x) => /\ ~Leaving(x) /\ ~Entering(x) /\ ~Holding(x) /\ ~Ahead(x)
                          /\ x.pc # "uncount"
    BY DEF Even, Leaving, Entering, Holding, Ahead
  <1> QED BY <1>1 DEF Ledger, One

LEMMA ReadyAt ==
  ASSUME NEW n, NEW file, NEW free,
         n.pc \in {"idle", "uncaught", "answer", "bound", "count", "scan", "probe", "read", "take"}
  PROVE  Ready(n, file, free)
  BY DEF Ready, Even, Grip, Entering

LEMMA ReadyFinished ==
  ASSUME NEW r \in Threads, NEW file, NEW free
  PROVE  Ready(Finished(r), file, free)
  <1>1. Finished(r).pc \in {"answer", "scan"}
    BY FinishedIs DEF FinishedTo
  <1> QED BY <1>1, ReadyAt

LEMMA ReadySelected ==
  ASSUME NEW r \in Threads, NEW file, NEW free, r.st.verb # "INSERT",
         r.st.verb = "DELETE" => Active(file, r.i)
  PROVE  Ready(Selected(r), file, free)
  <1>1. PICK n : n = Selected(r) /\ SelectedTo(r, n)
    BY SelectedIs
  <1>2. n.pc \in {"answer", "scan", "read", "write", "deactivate"} /\ n.st = r.st
        /\ (n.pc = "deactivate" => n.i = r.i)
    BY <1>1 DEF SelectedTo
  <1>3. Even(n)
    BY <1>2 DEF Even, Entering
  <1>4. Grip(n, file, free)
    BY <1>2 DEF Grip, Entering
  <1> QED BY <1>1, <1>3, <1>4 DEF Ready

\* A step of the writer.
LEMMA LedgerStep ==
  ASSUME NEW w \in Clients, TypeInv, NEW n, Become(w, n),
         InUse(line', freeId', stack'), Ledger(n, Cardinality(Rows(line')), freeId', places', Len(stack')),
         Grip(n, line', freeId'),
         \A d \in Clients \ {w} : run[d].pc # "idle" /\ Entering(n) => n.i \in touched'[d]
  PROVE  LedgerInv(w)'
  <1>1. \A d \in Clients : run'[d] = IF d = w THEN n ELSE run[d]
    BY DEF Become, TypeInv
  <1>2. Seen(w)'
    BY <1>1 DEF Seen
  <1> QED BY <1>1, <1>2 DEF LedgerInv

\* One that leaves the table alone.
LEMMA LedgerReady ==
  ASSUME NEW w \in Clients, TypeInv, LedgerInv(w), NEW n, Become(w, n),
         UNCHANGED <<line, tableVars>>, Even(run[w]), Ready(n, line, freeId)
  PROVE  LedgerInv(w)'
  <1>1. line' = line /\ freeId' = freeId /\ places' = places /\ stack' = stack
    BY DEF tableVars
  <1>2. InUse(line', freeId', stack')
    BY <1>1 DEF LedgerInv
  <1>3. Ledger(n, Cardinality(Rows(line')), freeId', places', Len(stack'))
    BY <1>1, EvenLedger DEF LedgerInv, Ready
  <1>4. Grip(n, line', freeId') /\ ~Entering(n)
    BY <1>1 DEF Ready, Even
  <1> QED BY <1>2, <1>3, <1>4, LedgerStep

\* A step of another client, which changes no flag.
LEMMA LedgerOther ==
  ASSUME NEW w \in Clients, TypeInv, LedgerInv(w), NEW c \in Clients \ {w}, NEW n, Become(c, n),
         UNCHANGED tableVars, \A l \in Lines : line'[l][0] = line[l][0],
         \A d \in Clients : d # c => touched[d] \subseteq touched'[d],
         \/ n.pc = "idle"
         \/ run[c].pc # "idle" /\ touched[c] \subseteq touched'[c]
         \/ InHand(run[w]) \subseteq touched'[c]
  PROVE  LedgerInv(w)'
  <1>1. PICK r, file, new :
            /\ r = run[w] /\ file = line /\ new = line' /\ r \in Threads /\ Poised(w, r)
            /\ InUse(file, freeId, stack)
            /\ Ledger(r, Cardinality(Rows(file)), freeId, places, Len(stack))
            /\ Grip(r, file, freeId)
    BY ThreadIs DEF LedgerInv
  <1>2. freeId' = freeId /\ places' = places /\ stack' = stack
    BY DEF tableVars
  <1>3. \A d \in Clients : run'[d] = IF d = c THEN n ELSE run[d]
    BY DEF Become, TypeInv
  <1>4. Rows(new) = Rows(file)
    BY <1>1, RowsSame
  <1>5. /\ InUse(new, freeId, stack)
        /\ Ledger(r, Cardinality(Rows(new)), freeId, places, Len(stack))
    BY <1>1, <1>4 DEF InUse
  <1>6. r.pc \in {"test", "deactivate"} \/ Entering(r) => r.i \in Lines
    BY <1>1 DEF Poised, Entering
  <1>7. Grip(r, new, freeId)
    <2>1. \A l \in Lines : Active(file, l) <=> Active(new, l)
      BY <1>1 DEF Active
    <2> QED BY <1>1, <1>6, <2>1 DEF Grip
  <1>8. Seen(w)'
    <2>1. SUFFICES ASSUME NEW d \in Clients \ {w}, run'[d].pc # "idle", Entering(r)
                   PROVE  r.i \in touched'[d]
      BY <1>1, <1>3 DEF Seen
    <2>2. InHand(r) = {r.i}
      BY <2>1 DEF Entering, InHand
    <2>3. CASE d # c
      BY <1>1, <1>3, <2>1, <2>3 DEF LedgerInv, Seen
    <2>4. CASE d = c
      BY <1>1, <1>3, <2>1, <2>2, <2>4 DEF LedgerInv, Seen
    <2> QED BY <2>3, <2>4
  <1> QED BY <1>1, <1>2, <1>3, <1>5, <1>7, <1>8 DEF LedgerInv

LEMMA BeforeLedger ==
  ASSUME TypeInv, NEW w \in Clients, LedgerInv(w)
  PROVE  \E r \in Threads, file \in Files, m \in Nat, free \in Nat, p \in Nat, top \in Nat :
            /\ r = run[w] /\ file = line /\ m = Cardinality(Rows(file))
            /\ free = freeId /\ p = places /\ p <= SizeMax /\ top = Len(stack)
            /\ Poised(w, r) /\ InUse(file, free, stack) /\ Ledger(r, m, free, p, top)
            /\ Grip(r, file, free)
  <1>1. PICK r \in Threads : r = run[w] /\ Poised(w, r)
    BY ThreadIs
  <1>2. PICK file \in Files, free \in Nat : file = line /\ free = freeId
    BY DEF TypeInv
  <1>3. PICK m \in Nat : m = Cardinality(Rows(file))
    BY RowsFinite
  <1>4. PICK p \in Nat, top \in Nat : p = places /\ p <= SizeMax /\ top = Len(stack)
    <2>1. places \in Nat /\ places <= SizeMax
      BY LinesAre DEF TypeInv
    <2>2. PICK st \in Seq(Lines) : st = stack
      BY DEF TypeInv
    <2>3. PICK top \in Nat : top = Len(st)
      BY <2>2
    <2> QED BY <2>1, <2>2, <2>3
  <1> QED BY <1>1, <1>2, <1>3, <1>4 DEF LedgerInv

\* What a scan or an answer does to the thread leaves it with nothing in hand.
LEMMA EvenAt ==
  ASSUME NEW r, r.pc \in {"idle", "answer", "bound", "count", "scan", "probe", "test", "read"}
  PROVE  Even(r)
  BY DEF Even, Entering

LEMMA LedgerSubmit ==
  ASSUME TypeInv, NEW w \in Clients, LedgerInv(w), Submit(w)
  PROVE  LedgerInv(w)'
  <1>1. PICK s, n, file : Become(w, n) /\ SubmitTo(n, s, file)
    BY SubmitIs
  <1>2. run[w].pc = "idle" /\ UNCHANGED <<line, tableVars>>
    BY DEF Submit, At
  <1>3. Ready(n, line, freeId)
    <2>1. CASE n.pc \in {"answer", "uncaught", "take", "bound", "probe"}
      BY <2>1, ReadyAt
    <2>2. ASSUME NEW d, Fresh(d, s, file), n = Selected(d), s.verb = "SELECT"
          PROVE  Ready(n, line, freeId)
      BY <2>2, ReadySelected DEF Fresh
    <2> QED BY <1>1, <2>1, <2>2 DEF SubmitTo
  <1>4. Even(run[w])
    BY <1>2, EvenAt
  <1> QED BY <1>1, <1>2, <1>3, <1>4, LedgerReady

LEMMA LedgerAnswer ==
  ASSUME TypeInv, NEW w \in Clients, LedgerInv(w), Answer(w)
  PROVE  LedgerInv(w)'
  <1>1. Become(w, Idle) /\ run[w].pc = "answer" /\ UNCHANGED <<line, tableVars>>
    BY DEF Answer, At
  <1>2. Ready(Idle, line, freeId)
    BY IdleType, ReadyAt
  <1>3. Even(run[w])
    BY <1>1, EvenAt
  <1> QED BY <1>1, <1>2, <1>3, LedgerReady

LEMMA LedgerBoundCount ==
  ASSUME TypeInv, NEW w \in Clients, LedgerInv(w), Bound(w) \/ Count(w) \/ EndScan(w)
  PROVE  LedgerInv(w)'
  <1>1. PICK r : r = run[w] /\ r \in Threads
    BY ThreadIs
  <1>2. r.pc \in {"bound", "count", "scan"} /\ UNCHANGED <<line, tableVars>>
    BY <1>1 DEF Bound, Count, EndScan, At
  <1>3. \/ \E x, y, z : Become(w, [r EXCEPT !.pc = "count", !.last = x, !.i = y, !.conds = z])
        \/ \E x : Become(w, [r EXCEPT !.pc = "scan", !.cnt = x])
        \/ \E x : Become(w, [r EXCEPT !.pc = "answer", !.body = x])
    <2>1. CASE Bound(w)
      BY <1>1, <2>1 DEF Bound
    <2>2. CASE Count(w)
      BY <1>1, <2>2 DEF Count
    <2>3. CASE EndScan(w)
      BY <1>1, <2>3 DEF EndScan
    <2> QED BY <2>1, <2>2, <2>3
  <1>4. PICK n : Become(w, n) /\ n.pc \in {"count", "scan", "answer"}
    <2>1. ASSUME NEW x, NEW y, NEW z,
                 Become(w, [r EXCEPT !.pc = "count", !.last = x, !.i = y, !.conds = z])
          PROVE  \E n : Become(w, n) /\ n.pc \in {"count", "scan", "answer"}
      <3>1. [r EXCEPT !.pc = "count", !.last = x, !.i = y, !.conds = z].pc = "count"
        BY <1>1 DEF Threads
      <3> QED BY <2>1, <3>1
    <2>2. ASSUME NEW x, Become(w, [r EXCEPT !.pc = "scan", !.cnt = x])
          PROVE  \E n : Become(w, n) /\ n.pc \in {"count", "scan", "answer"}
      <3>1. [r EXCEPT !.pc = "scan", !.cnt = x].pc = "scan"
        BY <1>1 DEF Threads
      <3> QED BY <2>2, <3>1
    <2>3. ASSUME NEW x, Become(w, [r EXCEPT !.pc = "answer", !.body = x])
          PROVE  \E n : Become(w, n) /\ n.pc \in {"count", "scan", "answer"}
      <3>1. [r EXCEPT !.pc = "answer", !.body = x].pc = "answer"
        BY <1>1 DEF Threads
      <3> QED BY <2>3, <3>1
    <2> QED BY <1>3, <2>1, <2>2, <2>3
  <1>5. Ready(n, line, freeId)
    BY <1>4, ReadyAt
  <1>6. Even(run[w])
    BY <1>1, <1>2, EvenAt
  <1> QED BY <1>2, <1>4, <1>5, <1>6, LedgerReady

LEMMA LedgerScanLine ==
  ASSUME TypeInv, NEW w \in Clients, LedgerInv(w), ScanLine(w)
  PROVE  LedgerInv(w)'
  <1>1. PICK r : r = run[w] /\ r \in Threads /\ Poised(w, r)
    BY ThreadIs
  <1>2. r.pc = "scan" /\ UNCHANGED <<line, tableVars>>
    BY <1>1 DEF ScanLine, At
  <1>3. r.st.verb # "INSERT"
    BY <1>1, <1>2 DEF Poised, Scanning
  <1>4. PICK n : /\ Become(w, n)
                 /\ n = IF ~Active(line, r.i) THEN Finished(r)
                        ELSE IF r.conds = <<>> THEN Selected(r)
                        ELSE [r EXCEPT !.pc = "test", !.k = 1, !.ok = FALSE]
    BY <1>1 DEF ScanLine
  <1>5. Ready(n, line, freeId)
    <2>1. CASE n = Finished(r)
      BY <1>1, <2>1, ReadyFinished
    <2>2. CASE Active(line, r.i) /\ n = Selected(r)
      BY <1>1, <1>3, <2>2, ReadySelected
    <2>3. CASE Active(line, r.i) /\ n = [r EXCEPT !.pc = "test", !.k = 1, !.ok = FALSE]
      <3>1. n.pc = "test" /\ n.st = r.st /\ n.i = r.i
        BY <1>1, <2>3 DEF Threads
      <3>2. Even(n)
        BY <3>1, EvenAt
      <3>3. Grip(n, line, freeId)
        BY <2>3, <3>1 DEF Grip, Entering
      <3> QED BY <3>2, <3>3 DEF Ready
    <2> QED BY <1>4, <2>1, <2>2, <2>3
  <1>6. Even(run[w])
    BY <1>1, <1>2, EvenAt
  <1> QED BY <1>2, <1>4, <1>5, <1>6, LedgerReady

LEMMA LedgerProbeLine ==
  ASSUME TypeInv, NEW w \in Clients, LedgerInv(w), ProbeLine(w)
  PROVE  LedgerInv(w)'
  <1>1. PICK r : r = run[w] /\ r \in Threads /\ Poised(w, r)
    BY ThreadIs
  <1>2. r.pc = "probe" /\ UNCHANGED <<line, tableVars>>
    BY <1>1 DEF ProbeLine, At
  <1>3. r.st.verb # "INSERT"
    BY <1>1, <1>2 DEF Poised, Scanning
  <1>4. PICK z, n :
            /\ n = IF Active(line, r.i) THEN Selected(r)
                   ELSE [r EXCEPT !.pc = "answer", !.body = z]
            /\ Become(w, n)
    BY <1>1 DEF ProbeLine
  <1>5. Ready(n, line, freeId)
    <2>1. CASE Active(line, r.i)
      <3>1. n = Selected(r)
        BY <1>4, <2>1
      <3> QED BY <1>1, <1>3, <2>1, <3>1, ReadySelected
    <2>2. CASE ~Active(line, r.i)
      <3>1. n.pc = "answer"
        BY <1>1, <1>4, <2>2 DEF Threads
      <3> QED BY <3>1, ReadyAt
    <2> QED BY <2>1, <2>2
  <1>6. Even(run[w])
    BY <1>1, <1>2, EvenAt
  <1> QED BY <1>2, <1>4, <1>5, <1>6, LedgerReady

LEMMA LedgerTest ==
  ASSUME TypeInv, NEW w \in Clients, LedgerInv(w), Test(w)
  PROVE  LedgerInv(w)'
  <1>1. PICK r : r = run[w] /\ r \in Threads /\ Poised(w, r) /\ Grip(r, line, freeId)
    BY ThreadIs DEF LedgerInv
  <1>2. r.pc = "test" /\ UNCHANGED <<line, tableVars>>
    BY <1>1 DEF Test, At
  <1>3. r.st.verb # "INSERT" /\ (r.st.verb = "DELETE" => Active(line, r.i))
    BY <1>1, <1>2 DEF Poised, Scanning, Grip
  <1>7. PICK met \in Met(r) :
          LET now == IF Kind(r.conds[r.k]) \in {"AND", "OR"} THEN r.ok
                     ELSE IF LogicOp(r.conds, r.k) = "OR" THEN r.ok \/ met
                     ELSE r.ok /\ met
          IN Become(w, IF r.k < Len(r.conds) THEN [r EXCEPT !.k = @ + 1, !.ok = now]
                       ELSE IF now THEN Selected(r) ELSE Finished(r))
    BY <1>1 DEF Test
  <1>8. PICK now : now = IF Kind(r.conds[r.k]) \in {"AND", "OR"} THEN r.ok
                          ELSE IF LogicOp(r.conds, r.k) = "OR" THEN r.ok \/ met
                          ELSE r.ok /\ met
    OBVIOUS
  <1>9. PICK n : n = IF r.k < Len(r.conds) THEN [r EXCEPT !.k = @ + 1, !.ok = now]
                      ELSE IF now THEN Selected(r) ELSE Finished(r)
    OBVIOUS
  <1>10. Become(w, n)
    BY <1>7, <1>8, <1>9
  <1>4. n \in {[r EXCEPT !.k = @ + 1, !.ok = now], Selected(r), Finished(r)}
    BY <1>9
  <1>5. Ready(n, line, freeId)
    <2>1. CASE n = Finished(r)
      BY <1>1, <2>1, ReadyFinished
    <2>2. CASE n = Selected(r)
      BY <1>1, <1>3, <2>2, ReadySelected
    <2>3. CASE n = [r EXCEPT !.k = @ + 1, !.ok = now]
      <3>1. n.pc = "test" /\ n.st = r.st /\ n.i = r.i
        BY <1>1, <1>2, <2>3 DEF Threads
      <3>2. Even(n)
        BY <3>1, EvenAt
      <3>3. Grip(n, line, freeId)
        BY <1>3, <3>1 DEF Grip, Entering
      <3> QED BY <3>2, <3>3 DEF Ready
    <2> QED BY <1>4, <2>1, <2>2, <2>3
  <1>6. Even(run[w])
    BY <1>1, <1>2, EvenAt
  <1> QED BY <1>2, <1>10, <1>5, <1>6, LedgerReady

LEMMA LedgerReadColumn ==
  ASSUME TypeInv, NEW w \in Clients, LedgerInv(w), ReadColumn(w)
  PROVE  LedgerInv(w)'
  <1>1. PICK r : r = run[w] /\ r \in Threads
    BY ThreadIs
  <1>2. r.pc = "read" /\ UNCHANGED <<line, tableVars>>
    BY <1>1 DEF ReadColumn, At
  <1>3. PICK v, x : /\ x = [r EXCEPT !.k = @ + 1, !.rec = Append(@, v)]
                    /\ v = Cell(line[r.i], ColumnsOf(r.st)[r.k])
    OBVIOUS
  <1>4. PICK y, z : z = Append(x.body, x.rec) /\ y = [x EXCEPT !.body = z]
    OBVIOUS
  <1>5. Become(w, x) \/ Become(w, Finished(y))
    <2>1. y = [x EXCEPT !.body = Append(@, x.rec)]
      BY <1>4
    <2> QED BY <1>1, <1>3, <2>1 DEF ReadColumn
  <1>6. x \in Threads
    BY <1>1, <1>2, <1>3, ReadType, Zenon
  <1>7. x.pc = "read"
    BY <1>1, <1>2, <1>3 DEF Threads
  <1>8. y \in Threads
    <2>1. x.rec \in Record
      BY <1>1, <1>2, <1>3, ReadType, Zenon
    <2>2. z \in Bodies
      BY <1>4, <1>6, <2>1, AppendBody DEF Threads
    <2> QED BY <1>4, <1>6, <2>2 DEF Threads
  <1>9. Ready(x, line, freeId) /\ Ready(Finished(y), line, freeId)
    BY <1>7, <1>8, ReadyAt, ReadyFinished
  <1>10. Even(run[w])
    BY <1>1, <1>2, EvenAt
  <1> QED BY <1>2, <1>5, <1>9, <1>10, LedgerReady

\* The counter does not wrap.
LEMMA CountUp ==
  ASSUME NEW p \in Nat, p < SizeMax
  PROVE  (p + 1) % (SizeMax + 1) = p + 1
  <1>1. PICK m \in Nat : m = SizeMax
    BY LinesAre
  <1>2. (p + 1) % (m + 1) = p + 1
    BY <1>1
  <1> QED BY <1>1, <1>2

LEMMA CountDown ==
  ASSUME NEW p \in Nat, 0 < p, p <= SizeMax
  PROVE  (p + SizeMax) % (SizeMax + 1) = p - 1
  <1>1. PICK m \in Nat : m = SizeMax
    BY LinesAre
  <1>2. \A x \in 0 .. m : (1 * (m + 1) + x) % (m + 1) = x
    <2>1. PICK M \in Nat \ {0} : M = m + 1
      BY <1>1
    <2>2. \A x \in 0 .. M - 1 : (1 * M + x) % M = x
      OBVIOUS
    <2> QED BY <1>1, <2>1, <2>2
  <1>3. p - 1 \in 0 .. m /\ p + m = 1 * (m + 1) + (p - 1)
    BY <1>1
  <1> QED BY <1>1, <1>2, <1>3

\* The flags stay when a column is written.
LEMMA FlagsKept ==
  ASSUME TypeInv, NEW c \in Clients, WriteColumn(c)
  PROVE  \A l \in Lines : line'[l][0] = line[l][0]
  <1>1. PICK r : r = run[c] /\ r \in Threads /\ Poised(c, r)
    BY ThreadIs
  <1>2. PICK s, k, i, file : s = r.st /\ k = r.k /\ i = r.i /\ file = line
    OBVIOUS
  <1>3. /\ r.pc = "write"
        /\ line' = [line EXCEPT ![i] = Store(file[i], Offset[Target(s, k)], Bytes(s, k))]
    BY <1>1, <1>2 DEF WriteColumn, At
  <1>4. i \in Lines /\ k \in Assigned(s) /\ s \in Statements[c] /\ ~Refused(s)
    BY <1>1, <1>2, <1>3 DEF Poised, Inserting, Scanning
  <1>5. Accepted(s)
    BY <1>4 DEF Accepted, Sent
  <1>6. PICK h, v : h = Target(s, k) /\ v = Bytes(s, k)
    OBVIOUS
  <1>7. h \in 1 .. N /\ Len(v) \in Nat
    BY <1>4, <1>5, <1>6, TargetType, BytesWrite, WritesType
  <1>8. file \in Files /\ file[i] \in ByteLines
    BY <1>2, <1>4 DEF TypeInv, Files
  <1>9. PICK g : g = Store(file[i], Offset[h], v) /\ g[0] = file[i][0]
    BY <1>7, <1>8, FlagStore
  <1>10. line' = [file EXCEPT ![i] = g]
    BY <1>2, <1>3, <1>6, <1>9
  <1> QED BY <1>2, <1>8, <1>9, <1>10 DEF Files

LEMMA LedgerWriteColumn ==
  ASSUME TypeInv, NEW w \in Clients, LedgerInv(w), WriteColumn(w)
  PROVE  LedgerInv(w)'
  <1>1. PICK r \in Threads, file \in Files, m \in Nat, free \in Nat, p \in Nat, top \in Nat :
            /\ r = run[w] /\ file = line /\ m = Cardinality(Rows(file))
            /\ free = freeId /\ p = places /\ p <= SizeMax /\ top = Len(stack)
            /\ Poised(w, r) /\ InUse(file, free, stack) /\ Ledger(r, m, free, p, top)
            /\ Grip(r, file, free)
    BY BeforeLedger
  <1>2. /\ r.pc = "write" /\ freeId' = free /\ places' = p /\ stack' = stack /\ Touch(w, r.i)
    BY <1>1 DEF WriteColumn, At, tableVars
  <1>3. r.i \in Lines
    BY <1>1, <1>2 DEF Poised
  <1>4. PICK new : new = line' /\ \A l \in Lines : new[l][0] = file[l][0]
    BY <1>1, FlagsKept
  <1>5. Rows(new) = Rows(file)
    BY <1>4, RowsSame
  <1>6. InUse(new, free, stack)
    BY <1>1, <1>5 DEF InUse
  <1>7. PICK x : x = [r EXCEPT !.k = @ + 1]
    OBVIOUS
  <1>8. CASE r.st.verb = "INSERT"
    <2>9. PICK pc : pc = IF r.k % Len(Columns) = 0 THEN "counted" ELSE x.pc
      OBVIOUS
    <2>1. Become(w, [x EXCEPT !.pc = pc])
      BY <1>1, <1>7, <1>8, <2>9 DEF WriteColumn
    <2>2. PICK n : n = [x EXCEPT !.pc = pc]
      OBVIOUS
    <2>3. pc \in {"counted", "write"}
      BY <1>2, <1>7, <2>9 DEF Threads
    <2>4. n.pc = pc /\ n.st = r.st /\ n.i = r.i
      BY <1>7, <2>2 DEF Threads
    <2>5. /\ Entering(r) /\ ~Leaving(r) /\ Holding(r) /\ ~Ahead(r)
          /\ Entering(n) /\ ~Leaving(n) /\ Holding(n) /\ ~Ahead(n)
      BY <1>2, <1>8, <2>3, <2>4 DEF Entering, Leaving, Holding, Ahead
    <2>6. Ledger(n, m, free, p, top)
      BY <1>1, <2>3, <2>4, <2>5 DEF Ledger, One
    <2>7. Grip(n, new, free)
      <3>1. Active(new, r.i)
        BY <1>1, <1>3, <1>4, <2>5 DEF Grip, Active
      <3> QED BY <2>3, <2>4, <3>1 DEF Grip
    <2>8. \A d \in Clients \ {w} : run[d].pc # "idle" /\ Entering(n) => n.i \in touched'[d]
      BY <1>2, <2>4 DEF Touch
    <2> QED BY <1>1, <1>2, <1>4, <1>5, <1>6, <2>1, <2>2, <2>6, <2>7, <2>8, LedgerStep
  <1>9. CASE r.st.verb # "INSERT"
    <2>1. r.st.verb = "UPDATE" /\ r.rec = <<<<r.i>>>>
      BY <1>1, <1>2, <1>9 DEF Poised, Inserting
    <2>2. PICK k \in Positive : k = r.k + 1
      <3>1. r.k + 1 \in Positive
        BY DEF Threads, Positive
      <3> QED BY <3>1
    <2>3. x = [r EXCEPT !.k = k]
      BY <1>7, <2>2
    <2>4. x \in Threads
      BY <2>3 DEF Threads
    <2>5. x.pc = "write" /\ x.st = r.st /\ x.body = r.body
      BY <1>2, <2>3 DEF Threads
    <2>6. PICK z, y : z = Append(x.body, r.rec) /\ y = [x EXCEPT !.body = z]
      OBVIOUS
    <2>7. Become(w, x) \/ Become(w, Finished(y))
      <3>1. y = [x EXCEPT !.body = Append(@, r.rec)]
        BY <2>6
      <3> QED BY <1>1, <1>7, <1>9, <3>1 DEF WriteColumn
    <2>8. y \in Threads
      <3>1. r.rec \in Record
        BY DEF Threads
      <3>2. z \in Bodies
        BY <2>4, <2>6, <3>1, AppendBody DEF Threads
      <3> QED BY <2>4, <2>6, <3>2 DEF Threads
    <2>9. Even(r)
      BY <1>2, <1>9 DEF Even, Entering
    <2>10. Ready(x, new, free)
      BY <2>1, <2>5 DEF Ready, Even, Grip, Entering
    <2>11. Ready(Finished(y), new, free)
      BY <2>8, ReadyFinished
    <2>12. ASSUME NEW n, Ready(n, new, free), Become(w, n) PROVE LedgerInv(w)'
      <3>1. Ledger(n, m, free, p, top) /\ Grip(n, new, free) /\ ~Entering(n)
        BY <1>1, <2>9, <2>12, EvenLedger DEF Ready, Even
      <3> QED BY <1>1, <1>2, <1>4, <1>5, <1>6, <2>12, <3>1, LedgerStep
    <2> QED BY <2>7, <2>10, <2>11, <2>12
  <1> QED BY <1>8, <1>9

LEMMA LedgerDeactivate ==
  ASSUME TypeInv, NEW w \in Clients, LedgerInv(w), Deactivate(w)
  PROVE  LedgerInv(w)'
  <1>1. PICK r \in Threads, file \in Files, m \in Nat, free \in Nat, p \in Nat, top \in Nat :
            /\ r = run[w] /\ file = line /\ m = Cardinality(Rows(file))
            /\ free = freeId /\ p = places /\ p <= SizeMax /\ top = Len(stack)
            /\ Poised(w, r) /\ InUse(file, free, stack) /\ Ledger(r, m, free, p, top)
            /\ Grip(r, file, free)
    BY BeforeLedger
  <1>2. /\ r.pc = "deactivate" /\ freeId' = free /\ places' = p /\ stack' = stack
        /\ line' = [line EXCEPT ![r.i][0] = 0] /\ Become(w, [r EXCEPT !.pc = "push"])
    BY <1>1 DEF Deactivate, At, tableVars
  <1>3. r.i \in Lines /\ r.st.verb = "DELETE"
    BY <1>1, <1>2 DEF Poised
  <1>14. PICK n : n = [r EXCEPT !.pc = "push"]
    OBVIOUS
  <1>4. n.pc = "push" /\ n.st = r.st /\ n.i = r.i
    BY <1>14 DEF Threads
  <1>5. PICK new : new = line' /\ FlagTo(new, file, r.i, 0)
    BY <1>1, <1>2 DEF FlagTo
  <1>6. Active(file, r.i)
    BY <1>1, <1>2, <1>3 DEF Grip
  <1>7. Rows(new) = Rows(file) \ {r.i} /\ Cardinality(Rows(new)) + 1 = Cardinality(Rows(file))
    BY <1>3, <1>5, <1>6, RowsRemove
  <1>8. PICK a \in Nat : a = Cardinality(Rows(new)) /\ a + 1 = m
    BY <1>1, <1>7, RowsFinite
  <1>9. /\ Leaving(n) /\ ~Entering(n) /\ ~Holding(n) /\ ~Ahead(n)
        /\ ~Leaving(r) /\ ~Entering(r) /\ ~Holding(r) /\ ~Ahead(r)
    BY <1>2, <1>3, <1>4 DEF Leaving, Entering, Holding, Ahead
  <1>10. Ledger(n, a, free, p, top)
    BY <1>1, <1>4, <1>8, <1>9 DEF Ledger, One
  <1>11. InUse(new, free, stack)
    BY <1>1, <1>7 DEF InUse
  <1>12. r.i < free
    BY <1>1, <1>3, <1>6 DEF InUse, Rows
  <1>13. Grip(n, new, free)
    BY <1>4, <1>9, <1>12 DEF Grip
  <1> QED BY <1>1, <1>2, <1>14, <1>5, <1>8, <1>9, <1>10, <1>11, <1>13, LedgerStep

\* What the counter can hold.
LEMMA LedgerFits ==
  ASSUME NEW r, NEW file, NEW m \in Nat, NEW free \in Nat, NEW p \in Nat, NEW top \in Nat, NEW st,
         InUse(file, free, st), Ledger(r, m, free, p, top)
  PROVE  p < SizeMax /\ p + 1 < SizeMax
  <1>1. PICK F \in Nat \ {0}, S \in Nat : F = FileLines /\ S = SizeMax /\ S > 4 * F
    BY QueryAssumption
  <1>2. free <= F
    BY <1>1 DEF InUse
  <1>3. p + top <= 2 * free + 1
    BY DEF Ledger, One
  <1>4. p <= 2 * F + 1
    BY <1>2, <1>3
  <1>5. p + 1 < S
    BY <1>1, <1>4
  <1> QED BY <1>1, <1>5

\* Whether a line is in hand follows from the location.
LEMMA Hands ==
  ASSUME NEW r
  PROVE  /\ Leaving(r) <=> r.pc \in {"push", "uncount"}
         /\ r.pc \notin {"write", "counted"} => ~Entering(r)
         /\ r.pc \in {"write", "counted"} /\ r.st.verb = "INSERT" => Entering(r)
         /\ Holding(r) <=> r.pc = "activate" \/ Entering(r)
         /\ Ahead(r) <=> r.pc \in {"claim", "uncount"}
  BY DEF Leaving, Entering, Holding, Ahead

LEMMA LedgerPushInStack ==
  ASSUME TypeInv, NEW w \in Clients, LedgerInv(w), PushInStack(w)
  PROVE  LedgerInv(w)'
  <1>1. PICK r \in Threads, file \in Files, m \in Nat, free \in Nat, p \in Nat, top \in Nat :
            /\ r = run[w] /\ file = line /\ m = Cardinality(Rows(file))
            /\ free = freeId /\ p = places /\ p <= SizeMax /\ top = Len(stack)
            /\ Poised(w, r) /\ InUse(file, free, stack) /\ Ledger(r, m, free, p, top)
            /\ Grip(r, file, free)
    BY BeforeLedger
  <1>2. /\ r.pc = "push" /\ freeId' = free /\ places' = p /\ line' = file
        /\ stack' = Append(stack, r.i) /\ Become(w, [r EXCEPT !.pc = "uncount"])
    BY <1>1 DEF PushInStack, At
  <1>3. PICK n : n = [r EXCEPT !.pc = "uncount"]
    OBVIOUS
  <1>4. n.pc = "uncount" /\ n.st = r.st /\ n.i = r.i
    BY <1>3 DEF Threads
  <1>5. PICK st : st = stack /\ st \in Seq(Lines)
    BY DEF TypeInv
  <1>6. r.i \in Lines
    BY <1>1, <1>2 DEF Poised
  <1>7. PICK new : new = Append(st, r.i)
    OBVIOUS
  <1>8. Len(new) = top + 1 /\ \A j \in 1 .. top : new[j] = st[j]
    BY <1>1, <1>5, <1>6, <1>7
  <1>9. new[top + 1] = r.i
    BY <1>1, <1>5, <1>6, <1>7
  <1>10. InUse(file, free, new)
    <2>1. r.i < free
      BY <1>1, <1>2 DEF Grip
    <2>2. ASSUME NEW j \in 1 .. top + 1 PROVE new[j] < free
      <3>1. CASE j = top + 1
        BY <1>9, <2>1, <3>1
      <3>2. CASE j # top + 1
        <4>1. j \in 1 .. top
          BY <3>2
        <4>2. st[j] < free
          BY <1>1, <1>5, <4>1 DEF InUse
        <4> QED BY <1>8, <4>1, <4>2
      <3> QED BY <3>1, <3>2
    <2> QED BY <1>1, <1>8, <2>2 DEF InUse
  <1>14. /\ Leaving(r) /\ ~Entering(r) /\ ~Holding(r) /\ ~Ahead(r)
         /\ Leaving(n) /\ ~Entering(n) /\ ~Holding(n) /\ Ahead(n)
    BY <1>2, <1>4, Hands
  <1>15. m + 1 <= p /\ p + top <= 2 * free
    BY <1>1, <1>14 DEF Ledger, One
  <1>11. Ledger(n, m, free, p, top + 1)
    BY <1>14, <1>15 DEF Ledger, One
  <1>12. Grip(n, file, free) /\ ~Entering(n)
    BY <1>4, Hands DEF Grip
  <1>13. stack' = new
    BY <1>2, <1>5, <1>7
  <1> QED BY <1>1, <1>2, <1>3, <1>8, <1>10, <1>11, <1>12, <1>13, LedgerStep

LEMMA LedgerUncount ==
  ASSUME TypeInv, NEW w \in Clients, LedgerInv(w), Uncount(w)
  PROVE  LedgerInv(w)'
  <1>1. PICK r \in Threads, file \in Files, m \in Nat, free \in Nat, p \in Nat, top \in Nat :
            /\ r = run[w] /\ file = line /\ m = Cardinality(Rows(file))
            /\ free = freeId /\ p = places /\ p <= SizeMax /\ top = Len(stack)
            /\ Poised(w, r) /\ InUse(file, free, stack) /\ Ledger(r, m, free, p, top)
            /\ Grip(r, file, free)
    BY BeforeLedger
  <1>2. /\ r.pc = "uncount" /\ freeId' = free /\ line' = file /\ stack' = stack
        /\ places' = (p + SizeMax) % (SizeMax + 1)
        /\ Become(w, Finished([r EXCEPT !.body = Append(@, r.rec)]))
    BY <1>1 DEF Uncount, At
  <1>3. PICK z, y : z = Append(r.body, r.rec) /\ y = [r EXCEPT !.body = z]
    OBVIOUS
  <1>4. Become(w, Finished(y))
    <2>1. y = [r EXCEPT !.body = Append(@, r.rec)]
      BY <1>3
    <2> QED BY <1>2, <2>1
  <1>5. y \in Threads
    <2>1. z \in Bodies
      BY <1>3, AppendBody DEF Threads
    <2> QED BY <1>3, <2>1 DEF Threads
  <1>6. PICK n : n = Finished(y)
    OBVIOUS
  <1>7. Ready(n, file, free)
    BY <1>5, <1>6, ReadyFinished
  <1>8. m + 1 <= p /\ p + top <= 2 * free + 1
    BY <1>1, <1>2, Hands, SMTT(30) DEF Ledger, One
  <1>9. places' = p - 1 /\ p - 1 \in Nat
    <2>1. 0 < p
      BY <1>8
    <2> QED BY <1>1, <1>2, <2>1, CountDown
  <1>10. Ledger(n, m, free, p - 1, top)
    <2>1. ~Leaving(n) /\ ~Entering(n) /\ ~Holding(n) /\ ~Ahead(n) /\ n.pc # "uncount"
      BY <1>7 DEF Ready, Even, Leaving, Holding, Ahead
    <2> QED BY <1>8, <2>1 DEF Ledger, One
  <1>11. Grip(n, file, free) /\ ~Entering(n)
    BY <1>7 DEF Ready, Even
  <1> QED BY <1>1, <1>2, <1>4, <1>6, <1>9, <1>10, <1>11, LedgerStep

LEMMA LedgerPopFreeId ==
  ASSUME TypeInv, NEW w \in Clients, LedgerInv(w), PopFreeId(w)
  PROVE  LedgerInv(w)'
  <1>1. PICK r \in Threads, file \in Files, m \in Nat, free \in Nat, p \in Nat, top \in Nat :
            /\ r = run[w] /\ file = line /\ m = Cardinality(Rows(file))
            /\ free = freeId /\ p = places /\ p <= SizeMax /\ top = Len(stack)
            /\ Poised(w, r) /\ InUse(file, free, stack) /\ Ledger(r, m, free, p, top)
            /\ Grip(r, file, free)
    BY BeforeLedger
  <1>2. /\ r.pc = "take" /\ freeId' = free /\ places' = p /\ line' = file /\ stack # <<>>
        /\ stack' = Front(stack)
        /\ Become(w, [r EXCEPT !.pc = "activate", !.i = Last(stack)])
    BY <1>1 DEF PopFreeId, At
  <1>3. PICK st : st = stack /\ st \in Seq(Lines) /\ st # <<>>
    BY <1>2 DEF TypeInv
  <1>4. top # 0
    BY <1>1, <1>3
  <1>5. PICK new : new = Front(st) /\ Len(new) = top - 1 /\ \A j \in 1 .. top - 1 : new[j] = st[j]
    <2>1. Len(st) = top
      BY <1>1, <1>3
    <2>2. Front(st) = [j \in 1 .. top - 1 |-> st[j]]
      BY <1>3, <1>4, <2>1 DEF Front
    <2> QED BY <1>4, <2>2
  <1>6. PICK i : i = Last(st) /\ i = st[top]
    BY <1>1, <1>3 DEF Last
  <1>7. PICK n : n = [r EXCEPT !.pc = "activate", !.i = i]
    OBVIOUS
  <1>8. n.pc = "activate" /\ n.i = i /\ n.st = r.st
    BY <1>7 DEF Threads
  <1>9. i < free
    <2>1. top \in 1 .. Len(st)
      BY <1>1, <1>3, <1>4
    <2> QED BY <1>1, <1>3, <1>6, <2>1 DEF InUse
  <1>10. InUse(file, free, new)
    <2>1. ASSUME NEW j \in 1 .. top - 1 PROVE new[j] < free
      <3>1. j \in 1 .. top
        BY <2>1
      <3>2. st[j] < free
        BY <1>1, <1>3, <3>1 DEF InUse
      <3> QED BY <1>5, <2>1, <3>2
    <2> QED BY <1>1, <1>5, <2>1 DEF InUse
  <1>14. /\ ~Leaving(r) /\ ~Entering(r) /\ ~Holding(r) /\ ~Ahead(r)
         /\ ~Leaving(n) /\ ~Entering(n) /\ Holding(n) /\ ~Ahead(n) /\ n.pc # "uncount"
    BY <1>2, <1>8, Hands
  <1>15. m <= p /\ p + top <= 2 * free
    BY <1>1, <1>14 DEF Ledger, One
  <1>11. Ledger(n, m, free, p, top - 1)
    BY <1>4, <1>14, <1>15 DEF Ledger, One
  <1>12. Grip(n, file, free) /\ ~Entering(n)
    BY <1>8, <1>9, Hands DEF Grip
  <1>13. stack' = new /\ Become(w, n)
    BY <1>2, <1>3, <1>5, <1>6, <1>7
  <1> QED BY <1>1, <1>2, <1>5, <1>10, <1>11, <1>12, <1>13, LedgerStep

LEMMA LedgerLoadFreeId ==
  ASSUME TypeInv, NEW w \in Clients, LedgerInv(w), LoadFreeId(w)
  PROVE  LedgerInv(w)'
  <1>1. PICK r \in Threads, file \in Files, m \in Nat, free \in Nat, p \in Nat, top \in Nat :
            /\ r = run[w] /\ file = line /\ m = Cardinality(Rows(file))
            /\ free = freeId /\ p = places /\ p <= SizeMax /\ top = Len(stack)
            /\ Poised(w, r) /\ InUse(file, free, stack) /\ Ledger(r, m, free, p, top)
            /\ Grip(r, file, free)
    BY BeforeLedger
  <1>2. /\ r.pc = "take" /\ free < FileLines /\ UNCHANGED <<line, tableVars>>
        /\ Become(w, [r EXCEPT !.pc = "new", !.i = free])
    BY <1>1 DEF LoadFreeId, At
  <1>3. PICK n : n = [r EXCEPT !.pc = "new", !.i = free]
    OBVIOUS
  <1>4. n.pc = "new" /\ n.i = free
    BY <1>3 DEF Threads
  <1>5. Even(r) /\ Even(n)
    BY <1>2, <1>4 DEF Even, Entering
  <1>6. Grip(n, line, freeId)
    BY <1>1, <1>2, <1>4, Hands DEF Grip
  <1>7. Ready(n, line, freeId) /\ Even(run[w])
    BY <1>1, <1>5, <1>6 DEF Ready
  <1> QED BY <1>2, <1>3, <1>7, LedgerReady

LEMMA LedgerCountNewLine ==
  ASSUME TypeInv, NEW w \in Clients, LedgerInv(w), CountNewLine(w)
  PROVE  LedgerInv(w)'
  <1>1. PICK r \in Threads, file \in Files, m \in Nat, free \in Nat, p \in Nat, top \in Nat :
            /\ r = run[w] /\ file = line /\ m = Cardinality(Rows(file))
            /\ free = freeId /\ p = places /\ p <= SizeMax /\ top = Len(stack)
            /\ Poised(w, r) /\ InUse(file, free, stack) /\ Ledger(r, m, free, p, top)
            /\ Grip(r, file, free)
    BY BeforeLedger
  <1>2. /\ r.pc = "new" /\ freeId' = free /\ line' = file /\ stack' = stack
        /\ places' = (p + 1) % (SizeMax + 1) /\ Become(w, [r EXCEPT !.pc = "claim"])
    BY <1>1 DEF CountNewLine, At
  <1>3. PICK n : n = [r EXCEPT !.pc = "claim"]
    OBVIOUS
  <1>4. n.pc = "claim" /\ n.st = r.st /\ n.i = r.i
    BY <1>3 DEF Threads
  <1>5. places' = p + 1
    BY <1>1, <1>2, LedgerFits, CountUp
  <1>6. Ledger(n, m, free, p + 1, top)
    BY <1>1, <1>2, <1>4, Hands, SMTT(30) DEF Ledger, One
  <1>7. Grip(n, file, free) /\ ~Entering(n)
    BY <1>1, <1>2, <1>4, Hands DEF Grip
  <1> QED BY <1>1, <1>2, <1>3, <1>5, <1>6, <1>7, LedgerStep

LEMMA LedgerClaimLine ==
  ASSUME TypeInv, NEW w \in Clients, LedgerInv(w), ClaimLine(w)
  PROVE  LedgerInv(w)'
  <1>1. PICK r \in Threads, file \in Files, m \in Nat, free \in Nat, p \in Nat, top \in Nat :
            /\ r = run[w] /\ file = line /\ m = Cardinality(Rows(file))
            /\ free = freeId /\ p = places /\ p <= SizeMax /\ top = Len(stack)
            /\ Poised(w, r) /\ InUse(file, free, stack) /\ Ledger(r, m, free, p, top)
            /\ Grip(r, file, free)
    BY BeforeLedger
  <1>2. /\ r.pc = "claim" /\ freeId' = free + 1 /\ line' = file /\ stack' = stack
        /\ places' = p /\ Become(w, [r EXCEPT !.pc = "activate"])
    BY <1>1 DEF ClaimLine, At
  <1>3. PICK n : n = [r EXCEPT !.pc = "activate"]
    OBVIOUS
  <1>4. n.pc = "activate" /\ n.st = r.st /\ n.i = r.i
    BY <1>3 DEF Threads
  <1>5. r.i = free /\ free < FileLines
    BY <1>1, <1>2 DEF Grip
  <1>6. InUse(file, free + 1, stack)
    <2>1. free + 1 <= FileLines
      BY <1>5, LinesAre
    <2>2. ASSUME NEW l \in Rows(file) PROVE l < free + 1
      <3>1. l < free /\ l \in Nat
        BY <1>1, RowsFinite, LinesAre DEF InUse
      <3> QED BY <3>1
    <2>3. ASSUME NEW j \in 1 .. Len(stack) PROVE stack[j] < free + 1
      <3>1. PICK st \in Seq(Lines) : st = stack
        BY DEF TypeInv
      <3>2. PICK L \in Nat : L = Len(st) /\ j \in 1 .. L
        BY <2>3, <3>1
      <3>3. st[j] \in Nat
        BY <3>1, <3>2, LinesAre
      <3>4. st[j] < free
        BY <1>1, <3>1 DEF InUse
      <3> QED BY <3>1, <3>3, <3>4
    <2> QED BY <2>1, <2>2, <2>3 DEF InUse
  <1>7. Ledger(n, m, free + 1, p, top)
    BY <1>1, <1>2, <1>4, Hands, SMTT(30) DEF Ledger, One
  <1>8. Grip(n, file, free + 1) /\ ~Entering(n)
    BY <1>4, <1>5, Hands DEF Grip
  <1> QED BY <1>1, <1>2, <1>3, <1>6, <1>7, <1>8, LedgerStep

LEMMA LedgerActivate ==
  ASSUME TypeInv, NEW w \in Clients, LedgerInv(w), Activate(w)
  PROVE  LedgerInv(w)'
  <1>1. PICK r \in Threads, file \in Files, m \in Nat, free \in Nat, p \in Nat, top \in Nat :
            /\ r = run[w] /\ file = line /\ m = Cardinality(Rows(file))
            /\ free = freeId /\ p = places /\ p <= SizeMax /\ top = Len(stack)
            /\ Poised(w, r) /\ InUse(file, free, stack) /\ Ledger(r, m, free, p, top)
            /\ Grip(r, file, free)
    BY BeforeLedger
  <1>2. /\ r.pc = "activate" /\ freeId' = free /\ places' = p /\ stack' = stack
        /\ line' = [line EXCEPT ![r.i][0] = 1] /\ Become(w, [r EXCEPT !.pc = "write"])
        /\ Touch(w, r.i)
    BY <1>1 DEF Activate, At, tableVars
  <1>3. PICK n : n = [r EXCEPT !.pc = "write"]
    OBVIOUS
  <1>4. n.pc = "write" /\ n.st = r.st /\ n.i = r.i
    BY <1>3 DEF Threads
  <1>5. r.i \in Lines /\ r.st.verb = "INSERT" /\ r.i < free
    BY <1>1, <1>2 DEF Poised, Inserting, Grip
  <1>6. PICK new : new = line' /\ FlagTo(new, file, r.i, 1)
    BY <1>1, <1>2 DEF FlagTo
  <1>7. Rows(new) = Rows(file) \cup {r.i} /\ Cardinality(Rows(new)) <= Cardinality(Rows(file)) + 1
    BY <1>5, <1>6, RowsAdd
  <1>8. PICK a \in Nat : a = Cardinality(Rows(new)) /\ a <= m + 1
    BY <1>1, <1>7, RowsFinite
  <1>14. /\ ~Leaving(r) /\ ~Entering(r) /\ Holding(r) /\ ~Ahead(r)
         /\ ~Leaving(n) /\ Entering(n) /\ Holding(n) /\ ~Ahead(n) /\ n.pc # "uncount"
    BY <1>2, <1>4, <1>5, Hands
  <1>15. m <= p /\ p + top + 1 <= 2 * free
    BY <1>1, <1>14 DEF Ledger, One
  <1>9. Ledger(n, a, free, p, top)
    BY <1>8, <1>14, <1>15 DEF Ledger, One
  <1>10. InUse(new, free, stack)
    BY <1>1, <1>5, <1>7 DEF InUse
  <1>11. Active(new, r.i)
    BY <1>7 DEF Rows
  <1>12. Grip(n, new, free)
    BY <1>4, <1>11 DEF Grip
  <1>13. \A d \in Clients \ {w} : run[d].pc # "idle" /\ Entering(n) => n.i \in touched'[d]
    BY <1>2, <1>4 DEF Touch
  <1> QED BY <1>1, <1>2, <1>3, <1>6, <1>8, <1>9, <1>10, <1>12, <1>13, LedgerStep

LEMMA LedgerCountInserted ==
  ASSUME TypeInv, NEW w \in Clients, LedgerInv(w), CountInserted(w)
  PROVE  LedgerInv(w)'
  <1>1. PICK r \in Threads, file \in Files, m \in Nat, free \in Nat, p \in Nat, top \in Nat :
            /\ r = run[w] /\ file = line /\ m = Cardinality(Rows(file))
            /\ free = freeId /\ p = places /\ p <= SizeMax /\ top = Len(stack)
            /\ Poised(w, r) /\ InUse(file, free, stack) /\ Ledger(r, m, free, p, top)
            /\ Grip(r, file, free)
    BY BeforeLedger
  <1>2. /\ r.pc = "counted" /\ freeId' = free /\ line' = file /\ stack' = stack
        /\ places' = (p + 1) % (SizeMax + 1)
    BY <1>1 DEF CountInserted, At
  <1>3. r.st.verb = "INSERT"
    BY <1>1, <1>2 DEF Poised, Inserting
  <1>4. PICK pc, z : /\ pc = IF r.k <= Len(r.st.vals) THEN "take" ELSE "answer"
                     /\ z = Append(r.body, <<<<r.i>>>>)
    OBVIOUS
  <1>5. PICK n : n = [r EXCEPT !.pc = pc, !.body = z]
    OBVIOUS
  <1>6. Become(w, n)
    BY <1>1, <1>4, <1>5 DEF CountInserted
  <1>7. n.pc = pc /\ pc \in {"take", "answer"}
    BY <1>4, <1>5 DEF Threads
  <1>8. Ready(n, file, free)
    BY <1>7, ReadyAt
  <1>9. places' = p + 1
    BY <1>1, <1>2, LedgerFits, CountUp
  <1>10. Ledger(n, m, free, p + 1, top)
    BY <1>1, <1>2, <1>3, <1>7, Hands, SMTT(30) DEF Ledger, One
  <1>11. Grip(n, file, free) /\ ~Entering(n)
    BY <1>8 DEF Ready, Even
  <1> QED BY <1>1, <1>2, <1>6, <1>9, <1>10, <1>11, LedgerStep

\* One client that alone sends INSERT and DELETE.
LEMMA LedgerWriter ==
  ASSUME TypeInv, NEW w \in Clients, LedgerInv(w), Submit(w) \/ Step(w)
  PROVE  LedgerInv(w)'
  <1>1. CASE Crash(w)
    BY <1>1 DEF Crash, LedgerInv, Seen, tableVars
  <1> QED BY <1>1, LedgerSubmit, LedgerAnswer, LedgerBoundCount, LedgerScanLine,
             LedgerProbeLine, LedgerTest, LedgerReadColumn, LedgerWriteColumn,
             LedgerDeactivate, LedgerPushInStack, LedgerUncount, LedgerPopFreeId,
             LedgerLoadFreeId, LedgerCountNewLine, LedgerClaimLine, LedgerActivate,
             LedgerCountInserted, ZenonT(60) DEF Step

\* Another one neither inserts nor deletes.
LEMMA OthersRead ==
  ASSUME TypeInv, NEW w, OnlyWriter(w), NEW c \in Clients \ {w}
  PROVE  ~\/ Deactivate(c) \/ PushInStack(c) \/ Uncount(c) \/ PopFreeId(c) \/ LoadFreeId(c)
          \/ CountNewLine(c) \/ ClaimLine(c) \/ Activate(c) \/ CountInserted(c)
  <1>1. PICK r : r = run[c] /\ r \in Threads /\ Poised(c, r)
    BY ThreadIs
  <1>2. \A s \in Statements[c] : s.verb \notin {"INSERT", "DELETE"}
    BY DEF OnlyWriter
  <1>3. r.pc \notin {"deactivate", "push", "uncount"}
    BY <1>1, <1>2 DEF Poised, Scanning
  <1>4. r.pc \notin {"take", "new", "claim", "activate", "counted"}
    BY <1>1, <1>2 DEF Poised, Inserting
  <1> QED BY <1>1, <1>3, <1>4 DEF Deactivate, PushInStack, Uncount, PopFreeId, LoadFreeId,
             CountNewLine, ClaimLine, Activate, CountInserted, At

\* A thread that moves on without a change of the table.
LEMMA LedgerElse ==
  ASSUME TypeInv, NEW w \in Clients, LedgerInv(w), NEW c \in Clients \ {w},
         NEW n, Become(c, n), run[c].pc # "idle", UNCHANGED <<line, tableVars, touched>>
  PROVE  LedgerInv(w)'
  <1>1. /\ \A l \in Lines : line'[l][0] = line[l][0]
        /\ \A d \in Clients : touched[d] \subseteq touched'[d]
        /\ UNCHANGED tableVars
    OBVIOUS
  <1> QED BY <1>1, LedgerOther

LEMMA LedgerOtherStep ==
  ASSUME TypeInv, NEW w \in Clients, OnlyWriter(w), LedgerInv(w), NEW c \in Clients \ {w},
         Submit(c) \/ Step(c)
  PROVE  LedgerInv(w)'
  <1>1. CASE Submit(c)
    <2>1. PICK s, n, file : Become(c, n) /\ SubmitTo(n, s, file)
      BY <1>1, SubmitIs
    <2>2. PICK T : T = UNION {InHand(run[d]) : d \in Clients \ {c}} /\ InHand(run[w]) \subseteq T
      OBVIOUS
    <2>3. touched' = [touched EXCEPT ![c] = T] /\ UNCHANGED <<line, tableVars>>
      BY <1>1, <2>2 DEF Submit
    <2>4. touched'[c] = T /\ \A d \in Clients : d # c => touched'[d] = touched[d]
      BY <2>3 DEF TypeInv
    <2>5. /\ \A l \in Lines : line'[l][0] = line[l][0]
          /\ \A d \in Clients : d # c => touched[d] \subseteq touched'[d]
          /\ UNCHANGED tableVars /\ InHand(run[w]) \subseteq touched'[c]
      BY <2>2, <2>3, <2>4
    <2> QED BY <2>1, <2>5, LedgerOther
  <1>2. CASE Answer(c)
    <2>1. /\ Become(c, Idle) /\ Idle.pc = "idle" /\ UNCHANGED <<line, tableVars>>
          /\ \A d \in Clients : d # c => touched'[d] = touched[d]
      BY <1>2, IdleType DEF Answer, TypeInv
    <2>2. /\ \A l \in Lines : line'[l][0] = line[l][0]
          /\ \A d \in Clients : d # c => touched[d] \subseteq touched'[d]
          /\ UNCHANGED tableVars
      BY <2>1
    <2> QED BY <2>1, <2>2, LedgerOther
  <1>3. CASE WriteColumn(c)
    <2>1. PICK n : Become(c, n) /\ \A d \in Clients : touched[d] \subseteq touched'[d]
      BY <1>3, WritingOn
    <2>2. run[c].pc = "write" /\ UNCHANGED tableVars
      BY <1>3 DEF WriteColumn, At
    <2>3. \A l \in Lines : line'[l][0] = line[l][0]
      BY <1>3, FlagsKept
    <2> QED BY <2>1, <2>2, <2>3, LedgerOther
  <1>4. CASE Crash(c)
    BY <1>4 DEF Crash, LedgerInv, Seen, tableVars
  <1>5. ASSUME \/ Bound(c) \/ Count(c) \/ ScanLine(c) \/ ProbeLine(c)
               \/ Test(c) \/ ReadColumn(c) \/ EndScan(c)
        PROVE  LedgerInv(w)'
    <2>1. \E n : Become(c, n)
      BY <1>5 DEF Bound, Count, ScanLine, ProbeLine, Test, ReadColumn, EndScan, Become
    <2>2. run[c].pc # "idle" /\ UNCHANGED <<line, tableVars, touched>>
      BY <1>5 DEF Bound, Count, ScanLine, ProbeLine, Test, ReadColumn, EndScan, At
    <2> QED BY <2>1, <2>2, LedgerElse
  <1> QED BY <1>1, <1>2, <1>3, <1>4, <1>5, OthersRead, ZenonT(60) DEF Step

LEMMA LedgerInit ==
  ASSUME Init, NEW w \in Clients
  PROVE  LedgerInv(w)
  <1>16. PICK F \in Nat \ {0} : F = FileLines /\ Lines = 0 .. F - 1
    BY LinesAre
  <1>17. PICK rows : rows = Rows(line) /\ rows \subseteq Lines
    BY RowsFinite
  <1>1. /\ rows = Rows(line) /\ rows \subseteq Lines /\ F = FileLines /\ Lines = 0 .. F - 1
        /\ F \in Nat \ {0}
    BY <1>16, <1>17
  <1>2. rows = {l \in Lines : Active(line, l)}
    BY <1>1 DEF Rows
  <1>3. /\ freeId = IF rows = {} THEN 0 ELSE Max(rows) + 1
        /\ places = Cardinality(rows)
        /\ \E s \in [1 .. freeId - places -> (0 .. freeId - 1) \ rows] : stack = s
    BY <1>2 DEF Init
  <1>4. PICK free \in Nat : free = freeId /\ free <= F /\ \A l \in rows : l < free
    <2>1. CASE rows = {}
      BY <1>1, <1>3, <2>1
    <2>2. CASE rows # {}
      <3>1. F - 1 \in Nat /\ rows \subseteq 0 .. F - 1
        BY <1>1
      <3>2. Max(rows) \in rows /\ \A l \in rows : l <= Max(rows)
        BY <2>2, <3>1, MaxIs
      <3>3. PICK m \in 0 .. F - 1 : m = Max(rows)
        BY <3>1, <3>2
      <3>4. freeId = m + 1 /\ \A l \in rows : l < m + 1
        BY <1>3, <2>2, <3>1, <3>2, <3>3
      <3> QED BY <3>3, <3>4
    <2> QED BY <2>1, <2>2
  <1>5. PICK p \in Nat : p = places /\ p = Cardinality(rows) /\ p <= free
    <2>1. rows \subseteq 0 .. free - 1
      BY <1>1, <1>4
    <2>2. Cardinality(0 .. free - 1) = IF 0 > free - 1 THEN 0 ELSE free - 1 - 0 + 1
      BY <1>4, FS_Interval
    <2>3. Cardinality(0 .. free - 1) = free
      BY <2>2
    <2>4. IsFiniteSet(0 .. free - 1)
      BY FS_Interval
    <2>5. IsFiniteSet(rows) /\ Cardinality(rows) <= free
      BY <2>1, <2>3, <2>4, FS_Subset
    <2>6. PICK n \in Nat : n = Cardinality(rows)
      BY <2>5, FS_CardinalityType
    <2> QED BY <1>3, <2>5, <2>6
  <1>6. PICK s \in [1 .. free - p -> (0 .. free - 1) \ rows] : stack = s
    BY <1>3, <1>4, <1>5
  <1>7. PICK top \in Nat : top = free - p
    BY <1>5
  <1>8. Len(s) = top /\ \A j \in 1 .. top : s[j] < free
    BY <1>6, <1>7
  <1>9. Len(stack) = top /\ \A j \in 1 .. Len(stack) : stack[j] < free
    BY <1>6, <1>8
  <1>10. run[w] = Idle /\ \A c \in Clients : run[c] = Idle
    BY DEF Init
  <1>11. PICK r : r = run[w] /\ r.pc = "idle"
    BY <1>10, IdleType
  <1>12. InUse(line, freeId, stack)
    BY <1>1, <1>4, <1>9 DEF InUse
  <1>13. Ledger(r, p, free, p, top)
    <2>1. ~Leaving(r) /\ ~Entering(r) /\ ~Holding(r) /\ ~Ahead(r)
      BY <1>11, Hands
    <2>2. p <= p /\ p + top <= 2 * free
      BY <1>5, <1>7
    <2> QED BY <1>11, <2>1, <2>2 DEF Ledger, One
  <1>14. Grip(r, line, freeId)
    BY <1>11, Hands DEF Grip
  <1>15. Seen(w)
    <2>1. \A c \in Clients : run[c].pc = "idle"
      BY <1>10, IdleType
    <2> QED BY <2>1 DEF Seen
  <1> QED BY <1>1, <1>4, <1>5, <1>9, <1>11, <1>12, <1>13, <1>14, <1>15 DEF LedgerInv

LEMMA LedgerNext ==
  ASSUME NEW w \in Clients, OnlyWriter(w), TypeInv, LedgerInv(w), [Next]_vars
  PROVE  LedgerInv(w)'
  <1>1. CASE UNCHANGED vars
    BY <1>1 DEF vars, tableVars, LedgerInv, Seen
  <1>2. ASSUME NEW c \in Clients, Submit(c) \/ Step(c) PROVE LedgerInv(w)'
    BY <1>2, LedgerWriter, LedgerOtherStep
  <1> QED BY <1>1, <1>2 DEF Next

-----------------------------------------------------------------------------
(***************************************************************************)
(* How far a scan goes.                                                    *)
(***************************************************************************)
\* Every wanted row is before max_line.
Far(r, T) ==
    /\ r.last <= FileLines
    /\ \A l \in Lines \ T : Sought(r.st, r.snap, l) => l < r.last

\* The rows nobody else has touched.
Still(r, T) == {l \in Lines \ T : Active(r.snap, l)}

\* active_count is the LIMIT, or there are not more rows than that.
Enough(r, T) == r.cnt = LimitOf(r.st) \/ Cardinality(Still(r, T)) <= r.cnt

\* The answer leaves out no row without a reason.
Complete(r, T) ==
    \A l \in Lines \ (T \cup IdsIn(r.body)) : Sought(r.st, r.snap, l) =>
        \/ IdsIn(r.body) \cap T # {}
        \/ Len(r.body) = LimitOf(r.st) /\ \A m \in IdsIn(r.body) : m < l

Reach(r, T) ==
    Scans(r.st) /\ r.pc # "idle" =>
        /\ IdsIn(r.body) \subseteq Lines
        /\ r.pc \in {"count", "scan"} \cup OnLine => Far(r, T)
        /\ r.pc \in {"scan"} \cup OnLine => Enough(r, T) /\ Len(r.body) <= r.cnt
        /\ r.pc \in OnLine => Len(r.body) < r.cnt
        /\ r.pc = "answer" => Complete(r, T)

ReachInv == \A c \in Clients : Reach(run[c], touched[c])

LEMMA StillFinite ==
  ASSUME NEW r, NEW T
  PROVE  IsFiniteSet(Still(r, T)) /\ Cardinality(Still(r, T)) \in Nat
  <1>1. Still(r, T) \subseteq Lines
    BY DEF Still
  <1>2. IsFiniteSet(Still(r, T))
    BY <1>1, LinesAre, FS_Subset
  <1> QED BY <1>2, FS_CardinalityType

LEMMA ReachLess ==
  ASSUME NEW r \in Threads, NEW T, NEW U, T \subseteq U, Reach(r, T)
  PROVE  Reach(r, U)
  <1>1. Far(r, T) => Far(r, U)
    BY DEF Far
  <1>2. Enough(r, T) => Enough(r, U)
    <2>1. Still(r, U) \subseteq Still(r, T)
      BY DEF Still
    <2>2. PICK S, V : S = Still(r, U) /\ V = Still(r, T)
      OBVIOUS
    <2>3. IsFiniteSet(V) /\ Cardinality(V) \in Nat /\ Cardinality(S) \in Nat
      BY <2>2, StillFinite
    <2>4. Cardinality(S) <= Cardinality(V)
      BY <2>1, <2>2, <2>3, FS_Subset
    <2>5. PICK a \in Nat, b \in Nat, n \in Nat :
             a = Cardinality(S) /\ b = Cardinality(V) /\ n = r.cnt
      BY <2>3 DEF Threads
    <2>6. a <= b
      BY <2>4, <2>5
    <2>7. b <= n => a <= n
      BY <2>6
    <2> QED BY <2>2, <2>5, <2>7 DEF Enough
  <1>3. Complete(r, T) => Complete(r, U)
    BY DEF Complete
  <1> QED BY <1>1, <1>2, <1>3 DEF Reach

LEMMA ReachKept ==
  ASSUME TypeInv, ReachInv, NEW c \in Clients, NEW n, Become(c, n), Reach(n, touched'[c]),
         \A d \in Clients : d # c => touched[d] \subseteq touched'[d]
  PROVE  ReachInv'
  <1>1. \A d \in Clients : run'[d] = IF d = c THEN n ELSE run[d]
    BY DEF Become, TypeInv
  <1>2. ASSUME NEW d \in Clients PROVE Reach(run'[d], touched'[d])
    <2>1. CASE d = c
      BY <1>1, <2>1
    <2>2. CASE d # c
      <3>1. PICK r \in Threads : r = run[d]
        BY DEF TypeInv
      <3>2. PICK T, U : T = touched[d] /\ U = touched'[d] /\ Reach(r, T) /\ T \subseteq U
        BY <2>2, <3>1 DEF ReachInv
      <3> QED BY <1>1, <2>2, <3>1, <3>2, ReachLess
    <2> QED BY <2>1, <2>2
  <1> QED BY <1>2 DEF ReachInv

LEMMA ReachMoves ==
  ASSUME TypeInv, ReachInv, NEW c \in Clients, NEW n, Become(c, n), NEW T, T = touched[c],
         touched' = touched, Reach(n, T)
  PROVE  ReachInv'
  <1>1. Reach(n, touched'[c]) /\ \A d \in Clients : d # c => touched[d] \subseteq touched'[d]
    OBVIOUS
  <1> QED BY <1>1, ReachKept

LEMMA ReachOther ==
  ASSUME NEW n, NEW T, ~Scans(n.st)
  PROVE  Reach(n, T)
  BY DEF Reach

\* A thread that goes on with the same statement and the same bounds.
Alike(n, r) == n.st = r.st /\ n.snap = r.snap /\ n.last = r.last /\ n.cnt = r.cnt

LEMMA ReachAlike ==
  ASSUME NEW r, NEW n, Alike(n, r), NEW T
  PROVE  (Far(r, T) => Far(n, T)) /\ (Enough(r, T) => Enough(n, T))
  <1>1. Still(n, T) = Still(r, T)
    BY DEF Still, Alike
  <1> QED BY <1>1 DEF Far, Enough, Alike

\* A scan whose bounds are known.
Under(r, T) ==
    /\ r \in Threads /\ ~IsDirect(r.st) /\ IdsIn(r.body) \subseteq Lines
    /\ Far(r, T) /\ Enough(r, T)

LEMMA ReachFinished ==
  ASSUME NEW r, NEW T, Under(r, T), Len(r.body) <= r.cnt
  PROVE  Reach(Finished(r), T)
  <1>1. PICK n : n = Finished(r) /\ FinishedTo(r, n)
    BY FinishedIs DEF Under
  <1>2. n.body = r.body /\ n.pc = "scan" /\ Alike(n, r)
    BY <1>1 DEF FinishedTo, Alike, Under
  <1>3. Far(n, T) /\ Enough(n, T)
    BY <1>2, ReachAlike DEF Under
  <1>4. Len(n.body) <= n.cnt /\ IdsIn(n.body) \subseteq Lines
    BY <1>2 DEF Under, Alike
  <1> QED BY <1>1, <1>2, <1>3, <1>4 DEF Reach, OnLine, Handling

LEMMA ReachReport ==
  ASSUME NEW x, NEW T, Under(x, T), Len(x.body) < x.cnt, x.i \in Lines,
         NEW b \in Record, b[1][1] = x.i, NEW y, y = [x EXCEPT !.body = Append(@, b)]
  PROVE  Reach(Finished(y), T)
  <1>1. PICK z \in Bodies : /\ z = Append(x.body, b) /\ IdsIn(z) = IdsIn(x.body) \cup {x.i}
                            /\ Len(z) <= x.cnt
    <2>1. PICK body \in Bodies, n \in Nat : body = x.body /\ n = x.cnt
      BY DEF Under, Threads
    <2>2. Append(body, b) \in Bodies /\ IdsIn(Append(body, b)) = IdsIn(body) \cup {x.i}
      BY <2>1, AppendBody, IdsAppend
    <2>3. PICK L \in Nat : L = Len(body)
      BY DEF Bodies
    <2>4. Len(Append(body, b)) = L + 1
      BY <2>3 DEF Bodies
    <2>5. L + 1 <= n
      <3>1. L < n
        BY <2>1, <2>3
      <3> QED BY <3>1
    <2>6. Len(Append(body, b)) <= n
      BY <2>4, <2>5
    <2> QED BY <2>1, <2>2, <2>6
  <1>2. y = [x EXCEPT !.body = z]
    BY <1>1
  <1>3. y \in Threads /\ Alike(y, x) /\ y.body = z
    BY <1>1, <1>2 DEF Under, Threads, Alike
  <1>4. Far(y, T) /\ Enough(y, T)
    BY <1>3, ReachAlike DEF Under
  <1>5. Under(y, T) /\ Len(y.body) <= y.cnt
    BY <1>1, <1>3, <1>4 DEF Under, Alike
  <1> QED BY <1>5, ReachFinished

\* A thread at work on a line.
LEMMA ReachOn ==
  ASSUME NEW r, NEW n, NEW T, Under(r, T), Len(r.body) < r.cnt,
         Alike(n, r), n.body = r.body, n.pc \in OnLine
  PROVE  Reach(n, T)
  <1>1. Far(n, T) /\ Enough(n, T)
    BY ReachAlike DEF Under
  <1>2. Len(n.body) < n.cnt /\ IdsIn(n.body) \subseteq Lines
    BY DEF Alike, Under
  <1>3. Len(n.body) <= n.cnt
    <2>1. PICK L \in Nat, m \in Nat : L = Len(n.body) /\ m = n.cnt
      BY DEF Under, Threads, Bodies, Alike
    <2>2. L < m
      BY <1>2, <2>1
    <2> QED BY <2>1, <2>2
  <1> QED BY <1>1, <1>2, <1>3 DEF Reach, OnLine, Handling

LEMMA ReachSelected ==
  ASSUME NEW r, NEW T, Under(r, T), Len(r.body) < r.cnt, r.i \in Lines
  PROVE  Reach(Selected(r), T)
  <1>1. PICK n : n = Selected(r) /\ SelectedTo(r, n)
    BY SelectedIs DEF Under
  <1>2. Alike(n, r)
    BY <1>1 DEF SelectedTo, Alike
  <1>3. CASE r.st.verb = "DELETE" \/ ColumnsOf(r.st) # <<>>
    <2>1. n.body = r.body /\ n.pc \in {"deactivate", "read", "write"}
      BY <1>1, <1>3 DEF SelectedTo
    <2> QED BY <1>1, <1>2, <2>1, ReachOn DEF OnLine, Handling
  <1>4. CASE r.st.verb # "DELETE" /\ ColumnsOf(r.st) = <<>>
    <2>1. PICK b \in Record : b = <<<<r.i>>>> /\ b[1][1] = r.i
      <3>1. <<<<r.i>>>>[1][1] = r.i /\ r.i \in Nat
        BY DEF Under, Threads
      <3> QED BY <3>1, IdType
    <2>2. n.body = Append(r.body, b) /\ n.pc = "scan" /\ n \in Threads
      BY <1>1, <1>4, <2>1 DEF SelectedTo, Under
    <2>3. IdsIn(n.body) = IdsIn(r.body) \cup {r.i}
      <3>1. r.body \in Bodies
        BY DEF Under, Threads
      <3> QED BY <2>1, <2>2, <3>1, IdsAppend
    <2>4. Far(n, T) /\ Enough(n, T)
      BY <1>2, ReachAlike DEF Under
    <2>5. Len(n.body) <= n.cnt
      <3>1. PICK body \in Bodies, m \in Nat : body = r.body /\ m = r.cnt
        BY DEF Under, Threads
      <3>2. PICK L \in Nat : L = Len(body)
        BY <3>1 DEF Bodies
      <3>3. Len(Append(body, b)) = L + 1 /\ L < m
        BY <3>1, <3>2 DEF Bodies
      <3> QED BY <1>2, <2>2, <3>1, <3>3 DEF Alike
    <2> QED BY <1>1, <2>2, <2>3, <2>4, <2>5 DEF Reach, Under, OnLine, Handling
  <1> QED BY <1>3, <1>4

LEMMA BeforeReach ==
  ASSUME TypeInv, ChangeInv, SiftInv, ReachInv, NEW c \in Clients
  PROVE  \E r, T, file :
            /\ r = run[c] /\ T = touched[c] /\ file = line
            /\ r \in Threads /\ Poised(c, r) /\ Faithful(r, T, file) /\ Sifted(r, T)
            /\ Reach(r, T)
  BY BeforeSift DEF ReachInv

LEMMA UnderIs ==
  ASSUME NEW r \in Threads, NEW T, Reach(r, T), Scans(r.st), r.pc \in {"scan"} \cup OnLine
  PROVE  Under(r, T)
  BY DEF Reach, Under, Scans, OnLine, Handling

\* Before a scan changes anything, the rows nobody touched are rows of the table.
LEMMA StillRows ==
  ASSUME NEW c, NEW r, NEW T, NEW file, Poised(c, r), Faithful(r, T, file),
         r.pc \in {"bound", "count"}
  PROVE  Still(r, T) \subseteq Rows(file)
  <1>1. AllSettled(r, T, file)
    BY Resting DEF Busy
  <1>2. r.body = <<>>
    BY DEF Poised
  <1>3. IdsIn(r.body) = {}
    BY <1>2 DEF IdsIn
  <1>4. \A l \in Lines \ T : file[l] = r.snap[l]
    <2>1. ASSUME NEW l \in Lines \ T PROVE file[l] = r.snap[l]
      <3>1. Settled(r.st, r.body, r.snap[l], l, file[l]) /\ l \notin IdsIn(r.body)
        BY <1>1, <1>3 DEF AllSettled
      <3> QED BY <3>1, SettledUnseen
    <2> QED BY <2>1
  <1> QED BY <1>4 DEF Still, Rows, Active

LEMMA ReachBound ==
  ASSUME TypeInv, ChangeInv, SiftInv, ReachInv, NEW w \in Clients, LedgerInv(w),
         NEW c \in Clients, Bound(c)
  PROVE  ReachInv'
  <1>1. PICK r, T, file :
            /\ r = run[c] /\ T = touched[c] /\ file = line
            /\ r \in Threads /\ Poised(c, r) /\ Faithful(r, T, file) /\ Sifted(r, T)
            /\ Reach(r, T)
    BY BeforeReach
  <1>2. r.pc = "bound" /\ touched' = touched
    BY <1>1 DEF Bound, At
  <1>3. r.body = <<>>
    BY <1>1, <1>2 DEF Poised
  <1>4. PICK s, cs : s = r.st /\ cs = r.conds
    OBVIOUS
  <1> DEFINE select == s.verb = "SELECT"
             kinds == {"TO", "FROM"} \cup (IF select THEN {"AND", "OR"} ELSE {})
             lead == SubSeq(cs, 1, Leading(cs, kinds))
  <1>5. PICK from, to, d :
            /\ from = IF select THEN BoundIn(lead, "FROM", 0) ELSE 0
            /\ to = BoundIn(lead, "TO", freeId)
            /\ d = IF select THEN SubSeq(cs, Leading(cs, kinds) + 1, Len(cs)) ELSE cs
    OBVIOUS
  <1>6. PICK n : n = [r EXCEPT !.pc = "count", !.last = to, !.i = from, !.conds = d]
    OBVIOUS
  <1>7. Become(c, n)
    <2>1. Become(c, [r EXCEPT !.pc = "count",
                              !.last = BoundIn(lead, "TO", freeId),
                              !.i = IF select THEN BoundIn(lead, "FROM", 0) ELSE 0,
                              !.conds = IF select THEN SubSeq(@, Leading(cs, kinds) + 1, Len(@))
                                        ELSE @])
      BY <1>1, <1>4 DEF Bound
    <2>2. (IF select THEN SubSeq(r.conds, Leading(cs, kinds) + 1, Len(r.conds)) ELSE r.conds) = d
      BY <1>4, <1>5
    <2> HIDE DEF select, kinds
    <2> QED BY <1>5, <1>6, <2>1, <2>2
  <1>8. n.pc = "count" /\ n.st = s /\ n.snap = r.snap /\ n.body = <<>> /\ n.last = to
    BY <1>1, <1>3, <1>4, <1>6 DEF Threads
  <1>9. ASSUME Scans(s) PROVE Reach(n, T)
    <2>1. cs = Conditions(s)
      BY <1>1, <1>2, <1>4, <1>9 DEF Sifted
    <2>2. PICK f \in Nat : f = freeId
      BY DEF TypeInv
    <2>3. BoundsTo(s, cs, f, from, to)
      BY <1>5, <2>1, <2>2 DEF BoundsTo
    <2>4. /\ to = f \/ to <= FileLines
          /\ \A l \in Nat : Within(WrittenWhere(s), l) => l < to \/ to = f
      BY <1>9, <2>3, ScanBounds
    <2>5. InUse(line, freeId, stack)
      BY DEF LedgerInv
    <2>6. n.last <= FileLines
      BY <1>8, <2>2, <2>4, <2>5 DEF InUse
    <2>7. ASSUME NEW l \in Lines \ T, Sought(s, r.snap, l) PROVE l < to
      <3>1. l \in Nat /\ Within(WrittenWhere(s), l)
        BY <2>7, LinesAre DEF Sought
      <3>2. l \in Still(r, T)
        BY <2>7 DEF Still, Sought
      <3>3. l < f
        BY <1>1, <1>2, <2>2, <2>5, <3>2, StillRows DEF InUse
      <3> QED BY <2>4, <3>1, <3>3
    <2>8. Far(n, T)
      BY <1>8, <2>6, <2>7 DEF Far
    <2>9. IdsIn(n.body) = {}
      BY <1>8 DEF IdsIn
    <2> QED BY <1>8, <2>8, <2>9 DEF Reach, OnLine, Handling
  <1>10. Reach(n, T)
    BY <1>8, <1>9, ReachOther
  <1> QED BY <1>1, <1>2, <1>7, <1>10, ReachMoves

\* The rows nobody touched are counted.
LEMMA StillCounted ==
  ASSUME TypeInv, ChangeInv, SiftInv, ReachInv, NEW w \in Clients, LedgerInv(w),
         NEW c \in Clients, NEW r, r = run[c], r.pc = "count", NEW T, T = touched[c]
  PROVE  Cardinality(Still(r, T)) <= places
  <1>1. PICK file : file = line /\ Poised(c, r) /\ Faithful(r, T, file)
    BY BeforeReach
  <1>2. PICK S, V : S = Still(r, T) /\ V = Rows(file) /\ S \subseteq V
    BY <1>1, StillRows
  <1>3. IsFiniteSet(V) /\ Cardinality(V) \in Nat /\ Cardinality(S) \in Nat
    BY <1>2, RowsFinite, StillFinite
  <1>4. PICK p \in Nat : p = places
    BY LinesAre DEF TypeInv
  <1>8. PICK x, m : x = run[w] /\ m = Cardinality(V)
    OBVIOUS
  <1>5. /\ x = run[w] /\ m = Cardinality(V) /\ m \in Nat
        /\ m + One(Leaving(x)) <= p + One(Entering(x))
    BY <1>1, <1>2, <1>3, <1>4, <1>8 DEF LedgerInv, Ledger
  <1>6. CASE ~Entering(x)
    <2>1. m <= p
      BY <1>5, <1>6 DEF One
    <2>2. Cardinality(S) <= m
      BY <1>2, <1>3, <1>5, FS_Subset
    <2>3. PICK a \in Nat : a = Cardinality(S)
      BY <1>3
    <2>4. a <= p
      BY <1>5, <2>1, <2>2, <2>3
    <2> QED BY <1>2, <1>4, <2>3, <2>4
  <1>7. CASE Entering(x)
    <2>1. m <= p + 1
      BY <1>5, <1>7 DEF One
    <2>2. c # w
      BY <1>5, <1>7 DEF Entering
    <2>3. PICK i : i = x.i /\ i \in T /\ Active(file, i)
      BY <1>1, <1>5, <1>7, <2>2 DEF LedgerInv, Seen, Grip
    <2>4. i \in Lines
      BY <2>3 DEF TypeInv
    <2>5. i \in V /\ i \notin S
      BY <1>2, <2>3, <2>4 DEF Rows, Still
    <2>6. Cardinality(V \ {i}) = Cardinality(V) - 1 /\ IsFiniteSet(V \ {i})
      BY <1>3, <2>5, FS_RemoveElement
    <2>7. S \subseteq V \ {i}
      BY <1>2, <2>5
    <2>8. Cardinality(S) <= Cardinality(V \ {i})
      BY <2>6, <2>7, FS_Subset
    <2>9. PICK a \in Nat : a = Cardinality(S)
      BY <1>3
    <2>10. a <= m - 1
      BY <1>5, <2>6, <2>8, <2>9
    <2>11. a <= p
      BY <1>5, <2>1, <2>10
    <2> QED BY <1>2, <1>4, <2>9, <2>11
  <1> QED BY <1>6, <1>7

LEMMA ReachCount ==
  ASSUME TypeInv, ChangeInv, SiftInv, ReachInv, NEW w \in Clients, LedgerInv(w),
         NEW c \in Clients, Count(c)
  PROVE  ReachInv'
  <1>1. PICK r, T, file :
            /\ r = run[c] /\ T = touched[c] /\ file = line
            /\ r \in Threads /\ Poised(c, r) /\ Faithful(r, T, file) /\ Sifted(r, T)
            /\ Reach(r, T)
    BY BeforeReach
  <1>2. r.pc = "count" /\ touched' = touched
    BY <1>1 DEF Count, At
  <1>3. PICK a : a = ActiveCount(r)
    OBVIOUS
  <1>4. PICK n : n = [r EXCEPT !.pc = "scan", !.cnt = a]
    OBVIOUS
  <1>5. Become(c, n)
    BY <1>1, <1>3, <1>4 DEF Count
  <1>6. /\ n.pc = "scan" /\ n.st = r.st /\ n.snap = r.snap /\ n.body = r.body
        /\ n.last = r.last /\ n.cnt = a
    BY <1>1, <1>4 DEF Threads
  <1>7. ASSUME Scans(r.st) PROVE Reach(n, T)
    <2>1. Far(r, T) /\ IdsIn(r.body) \subseteq Lines
      BY <1>1, <1>2, <1>7 DEF Reach
    <2>2. Far(n, T) /\ Still(n, T) = Still(r, T)
      BY <1>6, <2>1 DEF Far, Still
    <2>3. PICK p \in Nat, m \in Nat : p = places /\ m = LimitOf(r.st)
      <3>1. places \in Nat
        BY LinesAre DEF TypeInv
      <3>2. LimitOf(r.st) \in Nat
        BY <1>7, Clauses DEF Scans
      <3> QED BY <3>1, <3>2
    <2>4. a = IF p <= m THEN p ELSE m
      BY <1>3, <2>3, MinOfTwo DEF ActiveCount
    <2>5. Cardinality(Still(r, T)) <= p
      BY <1>1, <1>2, <2>3, StillCounted
    <2>6. Enough(n, T)
      BY <1>6, <2>2, <2>3, <2>4, <2>5 DEF Enough
    <2>7. Len(n.body) <= n.cnt
      <3>1. n.body = <<>>
        BY <1>1, <1>2, <1>6 DEF Poised
      <3>2. Len(n.body) = 0 /\ a \in Nat
        BY <2>3, <2>4, <3>1
      <3> QED BY <1>6, <3>2
    <2> QED BY <1>6, <2>1, <2>2, <2>6, <2>7 DEF Reach, OnLine, Handling
  <1>8. Reach(n, T)
    BY <1>6, <1>7, ReachOther
  <1> QED BY <1>1, <1>2, <1>5, <1>8, ReachMoves

LEMMA ReachScanLine ==
  ASSUME TypeInv, ChangeInv, SiftInv, ReachInv, NEW c \in Clients, ScanLine(c)
  PROVE  ReachInv'
  <1>1. PICK r, T, file :
            /\ r = run[c] /\ T = touched[c] /\ file = line
            /\ r \in Threads /\ Poised(c, r) /\ Faithful(r, T, file) /\ Sifted(r, T)
            /\ Reach(r, T)
    BY BeforeReach
  <1>2. r.pc = "scan" /\ touched' = touched /\ r.i \in Lines /\ Len(r.body) < r.cnt
    BY <1>1 DEF ScanLine, At, Looping
  <1>3. PICK n : /\ Become(c, n)
                 /\ n = IF ~Active(file, r.i) THEN Finished(r)
                        ELSE IF r.conds = <<>> THEN Selected(r)
                        ELSE [r EXCEPT !.pc = "test", !.k = 1, !.ok = FALSE]
    BY <1>1 DEF ScanLine
  <1>4. PICK y : y = [r EXCEPT !.pc = "test", !.k = 1, !.ok = FALSE]
    OBVIOUS
  <1>5. n = Finished(r) \/ n = Selected(r) \/ n = y
    BY <1>3, <1>4
  <1>6. y.pc = "test" /\ y.body = r.body /\ Alike(y, r)
    BY <1>1, <1>4 DEF Threads, Alike
  <1>7. n.st = r.st
    <2>1. Finished(r).st = r.st /\ Selected(r).st = r.st
      BY <1>1, FinishedIs, SelectedIs DEF FinishedTo, SelectedTo
    <2> QED BY <1>5, <1>6, <2>1 DEF Alike
  <1>8. ASSUME Scans(r.st) PROVE Reach(n, T)
    <2>1. Under(r, T)
      BY <1>1, <1>2, <1>8, UnderIs
    <2>2. Len(r.body) <= r.cnt
      BY <1>1, <1>2, <1>8 DEF Reach
    <2>3. Reach(Finished(r), T)
      BY <2>1, <2>2, ReachFinished
    <2>4. Reach(Selected(r), T)
      BY <1>2, <2>1, ReachSelected
    <2>5. Reach(y, T)
      BY <1>2, <1>6, <2>1, ReachOn DEF OnLine
    <2> QED BY <1>5, <2>3, <2>4, <2>5
  <1>9. Reach(n, T)
    BY <1>7, <1>8, ReachOther
  <1> QED BY <1>1, <1>2, <1>3, <1>9, ReachMoves

LEMMA ReachTest ==
  ASSUME TypeInv, ChangeInv, SiftInv, ReachInv, NEW c \in Clients, Test(c)
  PROVE  ReachInv'
  <1>1. PICK r, T, file :
            /\ r = run[c] /\ T = touched[c] /\ file = line
            /\ r \in Threads /\ Poised(c, r) /\ Faithful(r, T, file) /\ Sifted(r, T)
            /\ Reach(r, T)
    BY BeforeReach
  <1>2. r.pc = "test" /\ touched' = touched /\ r.i \in Lines
    BY <1>1 DEF Test, At, Poised
  <1>3. PICK met \in Met(r) :
          LET now == IF Kind(r.conds[r.k]) \in {"AND", "OR"} THEN r.ok
                     ELSE IF LogicOp(r.conds, r.k) = "OR" THEN r.ok \/ met
                     ELSE r.ok /\ met
          IN Become(c, IF r.k < Len(r.conds) THEN [r EXCEPT !.k = @ + 1, !.ok = now]
                       ELSE IF now THEN Selected(r) ELSE Finished(r))
    BY <1>1 DEF Test
  <1>4. PICK now : now = IF Kind(r.conds[r.k]) \in {"AND", "OR"} THEN r.ok
                         ELSE IF LogicOp(r.conds, r.k) = "OR" THEN r.ok \/ met
                         ELSE r.ok /\ met
    OBVIOUS
  <1>5. PICK n : n = IF r.k < Len(r.conds) THEN [r EXCEPT !.k = @ + 1, !.ok = now]
                     ELSE IF now THEN Selected(r) ELSE Finished(r)
    OBVIOUS
  <1>6. Become(c, n)
    BY <1>3, <1>4, <1>5
  <1>7. PICK y : y = [r EXCEPT !.k = @ + 1, !.ok = now]
    OBVIOUS
  <1>8. n = y \/ n = Selected(r) \/ n = Finished(r)
    BY <1>5, <1>7
  <1>9. y.pc = "test" /\ y.body = r.body /\ Alike(y, r)
    BY <1>1, <1>2, <1>7 DEF Threads, Alike
  <1>10. n.st = r.st
    <2>1. Finished(r).st = r.st /\ Selected(r).st = r.st
      BY <1>1, FinishedIs, SelectedIs DEF FinishedTo, SelectedTo
    <2> QED BY <1>8, <1>9, <2>1 DEF Alike
  <1>11. ASSUME Scans(r.st) PROVE Reach(n, T)
    <2>1. Under(r, T)
      BY <1>1, <1>2, <1>11, UnderIs DEF OnLine
    <2>2. Len(r.body) <= r.cnt /\ Len(r.body) < r.cnt
      BY <1>1, <1>2, <1>11 DEF Reach, OnLine
    <2>3. Reach(Finished(r), T)
      BY <2>1, <2>2, ReachFinished
    <2>4. Reach(Selected(r), T)
      BY <1>2, <2>1, <2>2, ReachSelected
    <2>5. Reach(y, T)
      BY <1>9, <2>1, <2>2, ReachOn DEF OnLine
    <2> QED BY <1>8, <2>3, <2>4, <2>5
  <1>12. Reach(n, T)
    BY <1>10, <1>11, ReachOther
  <1> QED BY <1>1, <1>2, <1>6, <1>12, ReachMoves

LEMMA ReachProbeLine ==
  ASSUME TypeInv, ChangeInv, SiftInv, ReachInv, NEW c \in Clients, ProbeLine(c)
  PROVE  ReachInv'
  <1>1. PICK r, T, file :
            /\ r = run[c] /\ T = touched[c] /\ file = line
            /\ r \in Threads /\ Poised(c, r) /\ Faithful(r, T, file) /\ Sifted(r, T)
            /\ Reach(r, T)
    BY BeforeReach
  <1>2. r.pc = "probe" /\ touched' = touched
    BY <1>1 DEF ProbeLine, At
  <1>3. PICK z, n :
            /\ n = IF Active(file, r.i) THEN Selected(r)
                   ELSE [r EXCEPT !.pc = "answer", !.body = z]
            /\ Become(c, n)
    BY <1>1 DEF ProbeLine
  <1>4. n.st = r.st
    <2>1. Selected(r).st = r.st
      BY <1>1, SelectedIs DEF SelectedTo
    <2>2. [r EXCEPT !.pc = "answer", !.body = z].st = r.st
      BY <1>1 DEF Threads
    <2> QED BY <1>3, <2>1, <2>2
  <1>5. ~Scans(n.st)
    BY <1>1, <1>2, <1>4 DEF Poised, Scans
  <1> QED BY <1>1, <1>2, <1>3, <1>5, ReachOther, ReachMoves

LEMMA ReachReadColumn ==
  ASSUME TypeInv, ChangeInv, SiftInv, ReachInv, NEW c \in Clients, ReadColumn(c)
  PROVE  ReachInv'
  <1>1. PICK r, T, file :
            /\ r = run[c] /\ T = touched[c] /\ file = line
            /\ r \in Threads /\ Poised(c, r) /\ Faithful(r, T, file) /\ Sifted(r, T)
            /\ Reach(r, T)
    BY BeforeReach
  <1>2. r.pc = "read" /\ touched' = touched /\ r.i \in Lines
    BY <1>1 DEF ReadColumn, At
  <1>3. PICK v, x : /\ x = [r EXCEPT !.k = @ + 1, !.rec = Append(@, v)]
                    /\ v = Cell(line[r.i], ColumnsOf(r.st)[r.k])
    OBVIOUS
  <1>4. x.pc = "read" /\ x.body = r.body /\ Alike(x, r) /\ x.i = r.i
    BY <1>1, <1>2, <1>3 DEF Threads, Alike
  <1>5. Become(c, x) \/ Become(c, Finished([x EXCEPT !.body = Append(@, x.rec)]))
    BY <1>1, <1>3 DEF ReadColumn
  <1>6. x \in Threads /\ x.rec \in Record /\ x.rec[1][1] = r.i
    <2>1. x \in Threads /\ x.rec \in Record /\ x.rec[1][1] = r.i
      BY <1>1, <1>2, <1>3, ReadType, Zenon
    <2> QED BY <2>1
  <1>7. ASSUME Scans(r.st) PROVE Under(r, T) /\ Len(r.body) < r.cnt
    <2>1. Under(r, T)
      BY <1>1, <1>2, <1>7, UnderIs DEF OnLine, Handling
    <2>2. Len(r.body) < r.cnt
      BY <1>1, <1>2, <1>7 DEF Reach, OnLine, Handling
    <2> QED BY <2>1, <2>2
  <1>8. CASE Become(c, x)
    <2>1. ASSUME Scans(r.st) PROVE Reach(x, T)
      BY <1>4, <1>7, <2>1, ReachOn DEF OnLine, Handling
    <2>2. Reach(x, T)
      BY <1>4, <2>1, ReachOther DEF Alike
    <2> QED BY <1>1, <1>2, <1>8, <2>2, ReachMoves
  <1>9. CASE Become(c, Finished([x EXCEPT !.body = Append(@, x.rec)]))
    <2>1. PICK z : z = Append(x.body, x.rec)
      OBVIOUS
    <2>2. PICK y : y = [x EXCEPT !.body = z]
      OBVIOUS
    <2>3. y = [x EXCEPT !.body = Append(@, x.rec)]
      BY <2>1, <2>2
    <2>4. y \in Threads /\ y.st = r.st
      <3>1. z \in Bodies
        BY <1>6, <2>1, AppendBody DEF Threads
      <3> QED BY <1>4, <1>6, <2>2, <3>1 DEF Threads, Alike
    <2>5. ASSUME Scans(r.st) PROVE Reach(Finished(y), T)
      <3>1. Under(x, T)
        BY <1>4, <1>6, <1>7, <2>5, ReachAlike DEF Under, Alike
      <3>2. Len(x.body) < x.cnt /\ x.i \in Lines
        BY <1>2, <1>4, <1>7, <2>5 DEF Alike
      <3>3. PICK b \in Record : b = x.rec /\ b[1][1] = x.i
        BY <1>4, <1>6
      <3>4. y = [x EXCEPT !.body = Append(@, b)]
        BY <2>3, <3>3
      <3> QED BY <3>1, <3>2, <3>3, <3>4, ReachReport
    <2>6. Finished(y).st = r.st
      BY <2>4, FinishedIs DEF FinishedTo
    <2>7. Reach(Finished(y), T)
      BY <2>5, <2>6, ReachOther
    <2> QED BY <1>1, <1>2, <1>9, <2>3, <2>7, ReachMoves
  <1> QED BY <1>5, <1>8, <1>9

\* An answer has as many rows as records.
LEMMA IdsCounted ==
  ASSUME NEW s, NEW body, Records(s, body)
  PROVE  /\ IsFiniteSet(IdsIn(body)) /\ Len(body) \in Nat
         /\ Cardinality(IdsIn(body)) = Len(body)
  <1>1. PICK L \in Nat : L = Len(body)
    BY DEF Records, Bodies
  <1>2. PICK f : f = [n \in 1 .. L |-> body[n][1][1]]
    OBVIOUS
  <1>3. IdsIn(body) = {f[n] : n \in 1 .. L}
    BY <1>1, <1>2 DEF IdsIn
  <1>4. f \in Bijection(1 .. L, IdsIn(body))
    <2>1. \A h, j \in 1 .. L : f[h] = f[j] => h = j
      BY <1>1, <1>2 DEF Records
    <2>2. f \in [1 .. L -> IdsIn(body)]
      BY <1>2, <1>3
    <2>3. \A t \in IdsIn(body) : \E n \in 1 .. L : f[n] = t
      BY <1>3
    <2> QED BY <2>1, <2>2, <2>3 DEF Bijection, Injection, Surjection, IsInjective
  <1>5. ExistsBijection(1 .. L, IdsIn(body))
    BY <1>4 DEF ExistsBijection
  <1>6. IsFiniteSet(1 .. L) /\ Cardinality(1 .. L) = L
    <2>1. Cardinality(1 .. L) = IF 1 > L THEN 0 ELSE L - 1 + 1
      BY FS_Interval
    <2>2. IsFiniteSet(1 .. L)
      BY FS_Interval
    <2> QED BY <2>1, <2>2
  <1>7. IsFiniteSet(IdsIn(body)) /\ Cardinality(IdsIn(body)) = Cardinality(1 .. L)
    BY <1>5, <1>6, FS_Bijection
  <1> QED BY <1>1, <1>6, <1>7

\* A row is left out when the answer is full.
LEMMA LeftOut ==
  ASSUME NEW c, NEW r, NEW T, Scanning(c, r), r \in Threads, Sifted(r, T), Reach(r, T),
         Scans(r.st), r.pc = "scan", ~Looping(r)
  PROVE  Complete(r, T)
  <1> SUFFICES ASSUME NEW l \in Lines \ (T \cup IdsIn(r.body)), Sought(r.st, r.snap, l),
                      IdsIn(r.body) \cap T = {}
               PROVE  Len(r.body) = LimitOf(r.st) /\ \A m \in IdsIn(r.body) : m < l
    BY DEF Complete
  <1>1. /\ Sound(r, T) /\ Covered(r, T) /\ Far(r, T) /\ Enough(r, T) /\ Len(r.body) <= r.cnt
        /\ IdsIn(r.body) \subseteq Lines /\ ~IsDirect(r.st)
    BY DEF Sifted, Reach, Scans
  <1>2. PICK body : body = r.body /\ Records(r.st, body) /\ BodyBelow(body, r.i)
    BY <1>1 DEF Scanning
  <1>3. PICK i, a, last, L : i = r.i /\ a = r.cnt /\ last = r.last /\ L = Len(body)
    OBVIOUS
  <1>4. i \in Nat /\ a \in Nat /\ last \in Nat /\ L \in Nat /\ l \in Nat
    BY <1>2, <1>3, LinesAre DEF Threads, Records, Bodies
  <1>5. l < last
    BY <1>1, <1>3 DEF Far
  <1>6. ~(l < i)
    BY <1>1, <1>3 DEF Covered
  <1>7. L = a
    <2>1. ~(i < last /\ L < a)
      BY <1>2, <1>3 DEF Looping
    <2>2. L <= a
      BY <1>1, <1>2, <1>3
    <2> QED BY <1>4, <1>5, <1>6, <2>1, <2>2
  <1>8. \A m \in IdsIn(body) : m < l
    <2>1. ASSUME NEW j \in 1 .. L PROVE body[j][1][1] < l
      <3>1. body[j][1][1] < i /\ body[j][1][1] \in Nat
        BY <1>2, <1>3, <2>1 DEF BodyBelow, Records, IsRecord
      <3> QED BY <1>4, <1>6, <3>1
    <2> QED BY <1>3, <2>1 DEF IdsIn
  <1>9. ~(Cardinality(Still(r, T)) <= a)
    <2>1. PICK I, S : I = IdsIn(body) /\ S = Still(r, T)
      OBVIOUS
    <2>2. IsFiniteSet(I) /\ Cardinality(I) = L
      BY <1>2, <1>3, <2>1, IdsCounted
    <2>3. IsFiniteSet(S) /\ Cardinality(S) \in Nat
      BY <2>1, StillFinite
    <2>4. I \cup {l} \subseteq S
      <3>1. ASSUME NEW m \in I PROVE m \in S
        <4>1. m \in Lines \ T /\ Sought(r.st, r.snap, m)
          BY <1>1, <1>2, <2>1, <3>1 DEF Sound
        <4> QED BY <2>1, <4>1 DEF Still, Sought
      <3>2. l \in S
        BY <2>1 DEF Still, Sought
      <3> QED BY <3>1, <3>2
    <2>5. l \notin I
      BY <1>2, <2>1
    <2>6. Cardinality(I \cup {l}) = L + 1
      BY <2>2, <2>5, FS_AddElement
    <2>7. Cardinality(I \cup {l}) <= Cardinality(S)
      BY <2>3, <2>4, FS_Subset
    <2>8. PICK n \in Nat : n = Cardinality(S)
      BY <2>3
    <2>9. L + 1 <= n
      BY <2>6, <2>7, <2>8
    <2>10. ~(n <= a)
      BY <1>4, <1>7, <2>9
    <2> QED BY <2>1, <2>8, <2>10
  <1>10. a = LimitOf(r.st)
    BY <1>1, <1>3, <1>9 DEF Enough
  <1> QED BY <1>2, <1>3, <1>7, <1>8, <1>10

LEMMA ReachEndScan ==
  ASSUME TypeInv, ChangeInv, SiftInv, ReachInv, NEW c \in Clients, EndScan(c)
  PROVE  ReachInv'
  <1>1. PICK r, T, file :
            /\ r = run[c] /\ T = touched[c] /\ file = line
            /\ r \in Threads /\ Poised(c, r) /\ Faithful(r, T, file) /\ Sifted(r, T)
            /\ Reach(r, T)
    BY BeforeReach
  <1>2. r.pc = "scan" /\ touched' = touched /\ ~Looping(r)
    BY <1>1 DEF EndScan, At
  <1>3. PICK z, n : z = Sorted(r.st, r.body) /\ n = [r EXCEPT !.pc = "answer", !.body = z]
    OBVIOUS
  <1>4. Become(c, n)
    BY <1>1, <1>3 DEF EndScan
  <1>5. n.pc = "answer" /\ n.st = r.st /\ n.snap = r.snap /\ n.body = z
    BY <1>1, <1>3 DEF Threads
  <1>6. IdsIn(z) = IdsIn(r.body) /\ Len(z) = Len(r.body) /\ Scanning(c, r)
    BY <1>1, <1>2, <1>3, SortedIds DEF Poised
  <1>7. ASSUME Scans(r.st) PROVE Reach(n, T)
    <2>1. Complete(r, T)
      BY <1>1, <1>2, <1>6, <1>7, LeftOut
    <2>2. Complete(n, T)
      BY <1>5, <1>6, <2>1 DEF Complete
    <2>3. IdsIn(n.body) \subseteq Lines
      BY <1>1, <1>2, <1>5, <1>6, <1>7 DEF Reach
    <2> QED BY <1>5, <2>2, <2>3 DEF Reach, OnLine, Handling
  <1>8. Reach(n, T)
    BY <1>5, <1>7, ReachOther
  <1> QED BY <1>1, <1>2, <1>4, <1>8, ReachMoves

LEMMA ReachAnswer ==
  ASSUME TypeInv, ReachInv, NEW c \in Clients, Answer(c)
  PROVE  ReachInv'
  <1>1. Become(c, Idle) /\ \A d \in Clients : d # c => touched'[d] = touched[d]
    BY DEF Answer, TypeInv
  <1>2. Reach(Idle, touched'[c])
    BY IdleType DEF Reach
  <1> QED BY <1>1, <1>2, ReachKept

LEMMA ReachSubmit ==
  ASSUME TypeInv, ReachInv, NEW c \in Clients, Submit(c)
  PROVE  ReachInv'
  <1>1. PICK s, n, file : Become(c, n) /\ SubmitTo(n, s, file)
    BY SubmitIs
  <1>2. \A d \in Clients : d # c => touched'[d] = touched[d]
    BY DEF Submit, TypeInv
  <1>3. PICK T : T = touched'[c]
    OBVIOUS
  <1>4. n.st = s
    <2>1. ASSUME NEW d, Fresh(d, s, file), n = Selected(d) PROVE n.st = s
      BY <2>1, SelectedIs DEF Fresh, SelectedTo
    <2> QED BY <1>1, <2>1 DEF SubmitTo, Fresh
  <1>5. ASSUME Scans(s) PROVE Reach(n, T)
    <2>1. ~Refused(s) /\ s.verb # "INSERT" /\ ~IsDirect(s)
      BY <1>5 DEF Scans, WellPosed
    <2>2. Fresh(n, s, file) /\ n.pc = "bound"
      BY <1>1, <2>1 DEF SubmitTo
    <2>3. IdsIn(n.body) = {}
      BY <2>2 DEF IdsIn, Fresh
    <2> QED BY <2>2, <2>3 DEF Reach, OnLine, Handling
  <1>6. Reach(n, T)
    BY <1>4, <1>5, ReachOther
  <1> QED BY <1>1, <1>2, <1>3, <1>6, ReachKept

LEMMA ReachWriteColumn ==
  ASSUME TypeInv, ChangeInv, SiftInv, ReachInv, NEW c \in Clients, WriteColumn(c),
         Scans(run[c].st)
  PROVE  \E n : Become(c, n) /\ Reach(n, touched[c])
  <1>1. PICK r, T, file :
            /\ r = run[c] /\ T = touched[c] /\ file = line
            /\ r \in Threads /\ Poised(c, r) /\ Faithful(r, T, file) /\ Sifted(r, T)
            /\ Reach(r, T)
    BY BeforeReach
  <1>2. r.pc = "write" /\ Scans(r.st) /\ r.st.verb # "INSERT"
    BY <1>1 DEF WriteColumn, At, Scans
  <1>3. r.rec = <<<<r.i>>>> /\ r.i \in Lines
    BY <1>1, <1>2 DEF Poised, Inserting
  <1>4. Under(r, T) /\ Len(r.body) < r.cnt
    <2>1. Under(r, T)
      BY <1>1, <1>2, UnderIs DEF OnLine, Handling
    <2>2. Len(r.body) < r.cnt
      BY <1>1, <1>2 DEF Reach, OnLine, Handling
    <2> QED BY <2>1, <2>2
  <1>5. PICK k \in Positive : k = r.k + 1
    <2>1. r.k + 1 \in Positive
      BY <1>1 DEF Threads, Positive
    <2> QED BY <2>1
  <1>6. PICK x : x = [r EXCEPT !.k = k]
    OBVIOUS
  <1>7. x \in Threads /\ x.pc = "write" /\ Alike(x, r) /\ x.body = r.body /\ x.i = r.i
    <2>1. x \in Threads
      BY <1>1, <1>6 DEF Threads
    <2> QED BY <1>1, <1>2, <1>6, <2>1 DEF Threads, Alike
  <1>8. x = [r EXCEPT !.k = @ + 1]
    BY <1>5, <1>6
  <1>9. PICK y : y = [x EXCEPT !.body = Append(@, r.rec)]
    OBVIOUS
  <1>10. Become(c, x) \/ Become(c, Finished(y))
    BY <1>1, <1>2, <1>8, <1>9 DEF WriteColumn
  <1>11. Reach(x, T)
    BY <1>4, <1>7, ReachOn DEF OnLine, Handling
  <1>12. Reach(Finished(y), T)
    <2>1. Under(x, T)
      BY <1>4, <1>7, ReachAlike DEF Under, Alike
    <2>2. Len(x.body) < x.cnt /\ x.i \in Lines
      BY <1>3, <1>4, <1>7 DEF Alike
    <2>3. PICK b \in Record : b = <<<<x.i>>>> /\ b[1][1] = x.i
      <3>1. <<<<x.i>>>>[1][1] = x.i /\ x.i \in Nat
        BY <1>7 DEF Threads
      <3> QED BY <3>1, IdType
    <2>4. y = [x EXCEPT !.body = Append(@, b)]
      BY <1>3, <1>7, <1>9, <2>3
    <2> QED BY <2>1, <2>2, <2>3, <2>4, ReachReport
  <1> QED BY <1>1, <1>10, <1>11, <1>12

LEMMA ReachErase ==
  ASSUME TypeInv, ChangeInv, SiftInv, ReachInv, NEW c \in Clients, Scans(run[c].st),
         Deactivate(c) \/ PushInStack(c) \/ Uncount(c)
  PROVE  \E n : Become(c, n) /\ Reach(n, touched[c])
  <1>1. PICK r, T, file :
            /\ r = run[c] /\ T = touched[c] /\ file = line
            /\ r \in Threads /\ Poised(c, r) /\ Faithful(r, T, file) /\ Sifted(r, T)
            /\ Reach(r, T)
    BY BeforeReach
  <1>2. r.pc \in {"deactivate", "push", "uncount"} /\ Scans(r.st)
    BY <1>1 DEF Deactivate, PushInStack, Uncount, At
  <1>3. r.rec = <<<<r.i>>>> /\ r.i \in Lines
    BY <1>1, <1>2 DEF Poised
  <1>4. Under(r, T) /\ Len(r.body) < r.cnt
    <2>1. Under(r, T)
      BY <1>1, <1>2, UnderIs DEF OnLine, Handling
    <2>2. Len(r.body) < r.cnt
      BY <1>1, <1>2 DEF Reach, OnLine, Handling
    <2> QED BY <2>1, <2>2
  <1>5. CASE Deactivate(c) \/ PushInStack(c)
    <2>1. PICK p \in {"push", "uncount"} : Become(c, [r EXCEPT !.pc = p])
      BY <1>1, <1>5 DEF Deactivate, PushInStack
    <2>2. PICK n : n = [r EXCEPT !.pc = p]
      OBVIOUS
    <2>3. n.pc = p /\ n.body = r.body /\ Alike(n, r)
      BY <1>1, <2>2 DEF Threads, Alike
    <2>4. Reach(n, T)
      BY <1>4, <2>1, <2>3, ReachOn DEF OnLine, Handling
    <2> QED BY <1>1, <2>1, <2>2, <2>4
  <1>6. CASE Uncount(c)
    <2>1. PICK y : y = [r EXCEPT !.body = Append(@, r.rec)]
      OBVIOUS
    <2>2. Become(c, Finished(y))
      BY <1>1, <1>6, <2>1 DEF Uncount
    <2>3. PICK b \in Record : b = <<<<r.i>>>> /\ b[1][1] = r.i
      <3>1. <<<<r.i>>>>[1][1] = r.i /\ r.i \in Nat
        BY <1>1 DEF Threads
      <3> QED BY <3>1, IdType
    <2>4. y = [r EXCEPT !.body = Append(@, b)]
      BY <1>3, <2>1, <2>3
    <2>5. Reach(Finished(y), T)
      BY <1>3, <1>4, <2>3, <2>4, ReachReport
    <2> QED BY <1>1, <2>2, <2>5
  <1> QED BY <1>5, <1>6

LEMMA ReachWriting ==
  ASSUME TypeInv, ChangeInv, SiftInv, ReachInv, NEW c \in Clients,
         \/ WriteColumn(c) \/ Deactivate(c) \/ PushInStack(c) \/ Uncount(c) \/ PopFreeId(c)
         \/ LoadFreeId(c) \/ CountNewLine(c) \/ ClaimLine(c) \/ Activate(c) \/ CountInserted(c)
  PROVE  ReachInv'
  <1>1. PICK m : /\ Become(c, m) /\ m.st = run[c].st
                 /\ \A d \in Clients : touched[d] \subseteq touched'[d]
    BY WritingOn
  <1>2. CASE ~Scans(run[c].st)
    <2>1. Reach(m, touched'[c])
      BY <1>1, <1>2, ReachOther
    <2> QED BY <1>1, <2>1, ReachKept
  <1>3. CASE Scans(run[c].st)
    <2>1. PICK r : r = run[c] /\ r \in Threads /\ Poised(c, r)
      BY ThreadIs
    <2>2. r.pc \notin {"take", "new", "claim", "activate", "counted"}
      BY <1>3, <2>1 DEF Poised, Inserting, Scans
    <2>3. WriteColumn(c) \/ Deactivate(c) \/ PushInStack(c) \/ Uncount(c)
      BY <2>1, <2>2 DEF PopFreeId, LoadFreeId, CountNewLine, ClaimLine, Activate,
                        CountInserted, At
    <2>4. PICK n : Become(c, n) /\ Reach(n, touched[c])
      BY <1>3, <2>3, ReachWriteColumn, ReachErase
    <2>5. PICK T, U : T = touched[c] /\ U = touched'[c] /\ T \subseteq U
      BY <1>1
    <2>6. n \in Threads
      <3>1. TypeInv'
        BY <2>3, TypeWriteColumn, TypeDeactivate, TypePushInStack, TypeUncount
      <3>2. run'[c] = n
        BY <2>4 DEF Become, TypeInv
      <3> QED BY <3>1, <3>2 DEF TypeInv
    <2>7. Reach(n, U)
      BY <2>4, <2>5, <2>6, ReachLess
    <2> QED BY <1>1, <2>4, <2>5, <2>7, ReachKept
  <1> QED BY <1>2, <1>3

LEMMA ReachInit == Init => ReachInv
  <1> SUFFICES ASSUME Init, NEW c \in Clients PROVE Reach(run[c], touched[c])
    BY DEF ReachInv
  <1>1. run[c] = Idle
    BY DEF Init
  <1> QED BY <1>1, IdleType DEF Reach

LEMMA ReachNext ==
  ASSUME TypeInv, ChangeInv, SiftInv, ReachInv, NEW w \in Clients, LedgerInv(w), [Next]_vars
  PROVE  ReachInv'
  <1>1. ASSUME run' = run, touched' = touched PROVE ReachInv'
    BY <1>1 DEF ReachInv
  <1>2. ASSUME NEW c \in Clients, Crash(c) PROVE ReachInv'
    BY <1>1, <1>2 DEF Crash
  <1>3. CASE UNCHANGED vars
    BY <1>1, <1>3 DEF vars
  <1>4. ASSUME NEW c \in Clients, Submit(c) \/ Step(c) PROVE ReachInv'
    BY <1>2, <1>4, ReachSubmit, ReachAnswer, ReachBound, ReachCount, ReachScanLine,
       ReachProbeLine, ReachTest, ReachReadColumn, ReachEndScan, ReachWriting, ZenonT(60) DEF Step
  <1> QED BY <1>3, <1>4 DEF Next

LEMMA ReachAlways ==
  ASSUME NEW w \in Clients, OnlyWriter(w)
  PROVE  Spec => [](TypeInv /\ ChangeInv /\ SiftInv /\ LedgerInv(w) /\ ReachInv)
  <1>1. Init => LedgerInv(w) /\ ReachInv
    BY LedgerInit, ReachInit
  <1>2. TypeInv /\ LedgerInv(w) /\ [Next]_vars => LedgerInv(w)'
    BY LedgerNext
  <1>3. TypeInv /\ ChangeInv /\ SiftInv /\ LedgerInv(w) /\ ReachInv /\ [Next]_vars => ReachInv'
    BY ReachNext
  <1> QED BY <1>1, <1>2, <1>3, SiftAlways, PTL DEF Spec

(***************************************************************************)
(* While one client alone inserts and deletes, the others reading and      *)
(* updating as they like, no scan misses a row, but for the row y of       *)
(* "id <= y": max_line and active_count, read one after the other and      *)
(* never again, reach far enough for every row that stays as it was        *)
(* (Executor.h 98-127, 195-217, 255-277; Tabble.h 66-90, 128-163).  With   *)
(* two such clients the counters drift apart.                              *)
(***************************************************************************)
THEOREM ScansMissNoRow ==
  ASSUME OneWriter
  PROVE  Spec => []EveryWantedRow
  <1>1. PICK w \in Clients : OnlyWriter(w)
    BY DEF OneWriter
  <1>2. TypeInv /\ ReachInv => EveryWantedRow
    <2> SUFFICES ASSUME TypeInv, ReachInv, NEW c \in Clients, Scanned(c),
                        NEW l \in Lacking(c), ~AtBound(WrittenWhere(run[c].st), l)
                 PROVE  FALSE
      BY DEF EveryWantedRow
    <2>1. PICK r, T : r = run[c] /\ T = touched[c] /\ r \in Threads /\ Poised(c, r) /\ Reach(r, T)
      BY ThreadIs DEF ReachInv
    <2>2. /\ r.pc = "answer" /\ WellPosed(r.st) /\ r.st.verb # "INSERT" /\ ~IsDirect(r.st)
      BY <2>1 DEF Scanned, Answering
    <2>3. IsStatement(r.st)
      BY <2>1, <2>2, InStmts DEF Poised, Answered
    <2>4. Complete(r, T)
      BY <2>1, <2>2, <2>3 DEF Reach, Scans
    <2>5. r.body \in Seq(Record)
      BY <2>1 DEF Threads, Bodies
    <2>6. Ids(r) = IdsIn(r.body)
      BY <2>5, IdsAre
    <2>7. Written(r.st, "LIMIT", SizeMax) = LimitOf(r.st)
      BY <2>2, <2>3, WrittenIs DEF WellPosed
    <2>8. /\ l \in Lines \ (T \cup IdsIn(r.body)) /\ Wanted(r.st, r.snap, l)
          /\ IdsIn(r.body) \cap T = {}
          /\ Len(r.body) = LimitOf(r.st) => \E m \in IdsIn(r.body) : m > l
      BY <2>1, <2>6, <2>7 DEF Lacking
    <2>9. Sought(r.st, r.snap, l)
      BY <2>1, <2>2, <2>3, <2>8, SoughtIs, LinesAre DEF Scans
    <2>10. Len(r.body) = LimitOf(r.st) /\ \A m \in IdsIn(r.body) : m < l
      BY <2>4, <2>8, <2>9 DEF Complete
    <2>11. IdsIn(r.body) \subseteq Lines
      BY <2>1, <2>2, <2>3 DEF Reach, Scans
    <2>12. PICK m \in Lines : m > l /\ m < l
      BY <2>8, <2>10, <2>11
    <2> QED BY <2>8, <2>12, LinesAre
  <1>3. Spec => [](TypeInv /\ ReachInv)
    BY <1>1, ReachAlways, PTL
  <1> QED BY <1>2, <1>3, PTL

-----------------------------------------------------------------------------
(***************************************************************************)
(* What a well posed statement does to the process: nothing.               *)
(***************************************************************************)
\* A thread that goes straight to the line its id names.
Placed(r) ==
    r.pc \in {"probe", "read"} /\ WellPosed(r.st) /\ IsDirect(r.st) => r.i \in Lines

PlacedInv == \A c \in Clients : Placed(run[c])

LEMMA DirectLine ==
  ASSUME NEW s, IsStatement(s), WellPosed(s), IsDirect(s)
  PROVE  Conditions(s)[1].val[1] \in Lines
  <1>1. PICK w \in Seq(WhereItem) : w = WhereOf(s) /\ w = WrittenWhere(s)
    BY Clauses, WrittenIs DEF WellPosed
  <1>2. PICK L \in Nat : L = Len(w) /\ DOMAIN w = 1 .. L
    OBVIOUS
  <1>3. \A e \in Range(w) : Kind(e) = "DIRECT" => e.val[1] \in Lines
    BY <1>1 DEF WellPosed
  <1>4. PICK u \in Seq(WhereItem), v \in Seq(WhereItem) :
          /\ IsPicked(u, w, Bounds) /\ IsPicked(v, w, Others)
          /\ Conditions(s) \in Seq(WhereItem)
          /\ Len(Conditions(s)) = Len(u) + Len(v)
          /\ \A h \in 1 .. Len(u) : Conditions(s)[h] = u[Len(u) - h + 1]
          /\ \A h \in 1 .. Len(v) : Conditions(s)[Len(u) + h] = v[h]
    BY <1>1, ConditionsAre
  <1>5. PICK n \in Nat, m \in Nat : n = Len(u) /\ m = Len(v)
    OBVIOUS
  <1>6. PICK e : e = Conditions(s)[1] /\ Kind(e) = "DIRECT" /\ n + m > 0
    <2>1. Conditions(s) # <<>>
      BY DEF IsDirect
    <2>2. Len(Conditions(s)) = n + m /\ Len(Conditions(s)) > 0
      BY <1>4, <1>5, <2>1
    <2> QED BY <2>2 DEF IsDirect
  <1>7. CASE n > 0
    <2>1. PICK p : Picked(u, p, w, Bounds, L)
      BY <1>2, <1>4 DEF IsPicked
    <2>2. n \in 1 .. n /\ 1 \in 1 .. n /\ n - 1 + 1 = n
      BY <1>7
    <2>3. e = u[n]
      BY <1>4, <1>5, <1>6, <2>2
    <2>4. u[n] = w[p[n]] /\ p[n] \in 1 .. L
      BY <1>5, <2>1, <2>2 DEF Picked
    <2>5. e \in Range(w)
      BY <1>2, <2>3, <2>4 DEF Range
    <2> QED BY <1>3, <1>6, <2>5
  <1>8. CASE n = 0
    <2>1. PICK p : Picked(v, p, w, Others, L)
      BY <1>2, <1>4 DEF IsPicked
    <2>2. 1 \in 1 .. m /\ n + 1 = 1
      BY <1>6, <1>8
    <2>3. e = v[1]
      BY <1>4, <1>5, <1>6, <2>2
    <2>4. v[1] = w[p[1]] /\ Kind(w[p[1]]) \in Others
      BY <1>5, <2>1, <2>2 DEF Picked
    <2> QED BY <1>6, <2>3, <2>4 DEF Others
  <1> QED BY <1>5, <1>7, <1>8

LEMMA PlacedMoves ==
  ASSUME TypeInv, PlacedInv, NEW c \in Clients, NEW n, Become(c, n), Placed(n)
  PROVE  PlacedInv'
  <1>1. \A d \in Clients : run'[d] = IF d = c THEN n ELSE run[d]
    BY DEF Become, TypeInv
  <1>2. \A d \in Clients : Placed(run'[d])
    BY <1>1 DEF PlacedInv
  <1> QED BY <1>2 DEF PlacedInv

LEMMA PlacedSelected ==
  ASSUME NEW r \in Threads, WellPosed(r.st) /\ IsDirect(r.st) => r.i \in Lines
  PROVE  Placed(Selected(r))
  <1>1. PICK n : n = Selected(r) /\ SelectedTo(r, n)
    BY SelectedIs
  <1>2. n.st = r.st /\ (n.pc \in {"probe", "read"} => n.i = r.i)
    BY <1>1 DEF SelectedTo
  <1> QED BY <1>1, <1>2 DEF Placed

LEMMA PlacedFinished ==
  ASSUME NEW r \in Threads
  PROVE  Placed(Finished(r))
  <1>1. PICK n : n = Finished(r) /\ FinishedTo(r, n)
    BY FinishedIs
  <1>2. n.pc \notin {"probe", "read"}
    BY <1>1 DEF FinishedTo
  <1> QED BY <1>1, <1>2 DEF Placed

LEMMA PlacedSubmit ==
  ASSUME TypeInv, PlacedInv, NEW c \in Clients, Submit(c)
  PROVE  PlacedInv'
  <1>1. PICK s, n, file : s \in Statements[c] /\ Become(c, n) /\ SubmitTo(n, s, file)
    BY SubmitIs
  <1>2. ASSUME WellPosed(s), IsDirect(s) PROVE Conditions(s)[1].val[1] \in Lines
    BY <1>1, <1>2, InStmts, DirectLine
  <1>3. Placed(n)
    <2>1. CASE Fresh(n, s, file) /\ n.pc \in {"answer", "uncaught", "take", "bound"}
      BY <2>1 DEF Placed
    <2>2. CASE Fresh(n, s, file) /\ n.i = Conditions(s)[1].val[1]
      BY <1>2, <2>2 DEF Placed, Fresh
    <2>3. CASE \E d : Fresh(d, s, file) /\ d.i = Conditions(s)[1].val[1] /\ n = Selected(d)
      <3>1. PICK d : /\ Fresh(d, s, file) /\ d.i = Conditions(s)[1].val[1] /\ n = Selected(d)
        BY <2>3
      <3> QED BY <1>2, <3>1, PlacedSelected DEF Fresh
    <2> QED BY <1>1, <2>1, <2>2, <2>3 DEF SubmitTo
  <1> QED BY <1>1, <1>3, PlacedMoves

LEMMA PlacedScan ==
  ASSUME TypeInv, PlacedInv, NEW c \in Clients, ScanLine(c) \/ Test(c) \/ ProbeLine(c)
  PROVE  PlacedInv'
  <1>1. PICK r : r = run[c] /\ r \in Threads /\ Poised(c, r)
    BY ThreadIs
  <1>2. r.pc \in {"scan", "test", "probe"}
    BY <1>1 DEF ScanLine, Test, ProbeLine, At
  <1>3. Placed(r)
    BY <1>1 DEF PlacedInv
  <1>4. Placed(Finished(r)) /\ Placed(Selected(r))
    <2>1. WellPosed(r.st) /\ IsDirect(r.st) => r.i \in Lines
      BY <1>1, <1>2, <1>3 DEF Poised, Placed
    <2> QED BY <1>1, <2>1, PlacedFinished, PlacedSelected
  <1>5. PICK n : Become(c, n) /\ Placed(n)
    <2>1. CASE ScanLine(c)
      <3>1. PICK y : y = [r EXCEPT !.pc = "test", !.k = 1, !.ok = FALSE]
        OBVIOUS
      <3>2. Become(c, Finished(r)) \/ Become(c, Selected(r)) \/ Become(c, y)
        BY <1>1, <2>1, <3>1 DEF ScanLine
      <3>3. y.pc = "test"
        BY <1>1, <3>1 DEF Threads
      <3>4. Placed(y)
        BY <3>3 DEF Placed
      <3> QED BY <1>4, <3>2, <3>4
    <2>2. CASE Test(c)
      <3>1. PICK met \in Met(r) :
              LET now == IF Kind(r.conds[r.k]) \in {"AND", "OR"} THEN r.ok
                         ELSE IF LogicOp(r.conds, r.k) = "OR" THEN r.ok \/ met
                         ELSE r.ok /\ met
              IN Become(c, IF r.k < Len(r.conds) THEN [r EXCEPT !.k = @ + 1, !.ok = now]
                           ELSE IF now THEN Selected(r) ELSE Finished(r))
        BY <1>1, <2>2 DEF Test
      <3>2. PICK now : now = IF Kind(r.conds[r.k]) \in {"AND", "OR"} THEN r.ok
                             ELSE IF LogicOp(r.conds, r.k) = "OR" THEN r.ok \/ met
                             ELSE r.ok /\ met
        OBVIOUS
      <3>3. PICK y : y = [r EXCEPT !.k = @ + 1, !.ok = now]
        OBVIOUS
      <3>4. Become(c, Finished(r)) \/ Become(c, Selected(r)) \/ Become(c, y)
        BY <3>1, <3>2, <3>3
      <3>5. y.pc = r.pc
        BY <1>1, <3>3 DEF Threads
      <3>6. Placed(y)
        BY <1>1, <2>2, <3>5 DEF Placed, Test, At
      <3> QED BY <1>4, <3>4, <3>6
    <2>3. CASE ProbeLine(c)
      <3>1. PICK z : \/ Become(c, Selected(r))
                     \/ Become(c, [r EXCEPT !.pc = "answer", !.body = z])
        BY <1>1, <2>3 DEF ProbeLine
      <3>2. PICK y : y = [r EXCEPT !.pc = "answer", !.body = z]
        OBVIOUS
      <3>3. y.pc = "answer"
        BY <1>1, <3>2 DEF Threads
      <3>4. Placed(y)
        BY <3>3 DEF Placed
      <3> QED BY <1>4, <3>1, <3>2, <3>4
    <2> QED BY <2>1, <2>2, <2>3
  <1> QED BY <1>5, PlacedMoves

LEMMA PlacedReadColumn ==
  ASSUME TypeInv, PlacedInv, NEW c \in Clients, ReadColumn(c)
  PROVE  PlacedInv'
  <1>1. PICK r : r = run[c] /\ r \in Threads /\ Poised(c, r) /\ Placed(r)
    BY ThreadIs DEF PlacedInv
  <1>2. r.i \in Lines
    BY <1>1 DEF ReadColumn
  <1>3. PICK v, x : /\ x = [r EXCEPT !.k = @ + 1, !.rec = Append(@, v)]
                    /\ v = Cell(line[r.i], ColumnsOf(r.st)[r.k])
    OBVIOUS
  <1>4. PICK y : y = [x EXCEPT !.body = Append(@, x.rec)]
    OBVIOUS
  <1>5. Become(c, x) \/ Become(c, Finished(y))
    BY <1>1, <1>3, <1>4 DEF ReadColumn
  <1>6. x.i = r.i
    BY <1>1, <1>3 DEF Threads
  <1>7. Placed(x)
    BY <1>2, <1>6 DEF Placed
  <1>8. Placed(Finished(y))
    <2>1. "pc" \in DOMAIN y
      BY <1>1, <1>3, <1>4 DEF Threads
    <2>2. Finished(y).pc \in {"answer", "scan"}
      <3>1. CASE IsDirect(y.st)
        <4>1. Finished(y) = [y EXCEPT !.pc = "answer"]
          BY <3>1 DEF Finished
        <4> QED BY <2>1, <4>1
      <3>2. CASE ~IsDirect(y.st)
        <4>1. Finished(y) = [y EXCEPT !.pc = "scan", !.i = @ + 1]
          BY <3>2 DEF Finished
        <4> QED BY <2>1, <4>1
      <3> QED BY <3>1, <3>2
    <2> QED BY <2>2 DEF Placed
  <1> QED BY <1>5, <1>7, <1>8, PlacedMoves

LEMMA PlacedElse ==
  ASSUME TypeInv, PlacedInv, NEW c \in Clients,
         \/ Answer(c) \/ Bound(c) \/ Count(c) \/ EndScan(c)
         \/ WriteColumn(c) \/ Deactivate(c) \/ PushInStack(c) \/ Uncount(c) \/ PopFreeId(c)
         \/ LoadFreeId(c) \/ CountNewLine(c) \/ ClaimLine(c) \/ Activate(c) \/ CountInserted(c)
  PROVE  PlacedInv'
  <1>1. PICK r : r = run[c] /\ r \in Threads
    BY ThreadIs
  <1>2. PICK n : Become(c, n) /\ n.pc \notin {"probe", "read"}
    <2>1. CASE Answer(c)
      <3>1. Become(c, Idle)
        BY <2>1 DEF Answer
      <3> QED BY <3>1, IdleType
    <2>2. CASE Bound(c)
      <3>1. PICK last, i, conds :
              Become(c, [r EXCEPT !.pc = "count", !.last = last, !.i = i, !.conds = conds])
        BY <1>1, <2>2 DEF Bound
      <3>2. PICK n : n = [r EXCEPT !.pc = "count", !.last = last, !.i = i, !.conds = conds]
        OBVIOUS
      <3>3. n.pc = "count"
        BY <1>1, <3>2 DEF Threads
      <3> QED BY <3>1, <3>2, <3>3
    <2>3. CASE Count(c)
      <3>1. PICK n : n = [r EXCEPT !.pc = "scan", !.cnt = ActiveCount(r)] /\ Become(c, n)
        BY <1>1, <2>3 DEF Count
      <3>2. n.pc = "scan"
        BY <1>1, <3>1 DEF Threads
      <3> QED BY <3>1, <3>2
    <2>4. CASE EndScan(c)
      <3>1. PICK n : n = [r EXCEPT !.pc = "answer", !.body = Sorted(r.st, @)] /\ Become(c, n)
        BY <1>1, <2>4 DEF EndScan
      <3>2. n.pc = "answer"
        BY <1>1, <3>1 DEF Threads
      <3> QED BY <3>1, <3>2
    <2>5. CASE \/ WriteColumn(c) \/ Deactivate(c) \/ PushInStack(c) \/ Uncount(c) \/ PopFreeId(c)
               \/ LoadFreeId(c) \/ CountNewLine(c) \/ ClaimLine(c) \/ Activate(c)
               \/ CountInserted(c)
      BY <2>5, WritingOn
    <2> QED BY <2>1, <2>2, <2>3, <2>4, <2>5
  <1>3. Placed(n)
    BY <1>2 DEF Placed
  <1> QED BY <1>2, <1>3, PlacedMoves

LEMMA PlacedInit == Init => PlacedInv
  <1> SUFFICES ASSUME Init, NEW c \in Clients PROVE Placed(run[c])
    BY DEF PlacedInv
  <1>1. run[c] = Idle
    BY DEF Init
  <1> QED BY <1>1, IdleType DEF Placed

LEMMA PlacedStep == TypeInv /\ PlacedInv /\ [Next]_vars => PlacedInv'
  <1> SUFFICES ASSUME TypeInv, PlacedInv, [Next]_vars PROVE PlacedInv'
    OBVIOUS
  <1>1. ASSUME run' = run PROVE PlacedInv'
    BY <1>1 DEF PlacedInv
  <1>2. ASSUME NEW c \in Clients, Crash(c) PROVE PlacedInv'
    BY <1>1, <1>2 DEF Crash
  <1>3. CASE UNCHANGED vars
    BY <1>1, <1>3 DEF vars
  <1>4. ASSUME NEW c \in Clients, Submit(c) \/ Step(c) PROVE PlacedInv'
    BY <1>2, <1>4, PlacedSubmit, PlacedScan, PlacedReadColumn, PlacedElse, ZenonT(60) DEF Step
  <1> QED BY <1>3, <1>4 DEF Next

LEMMA PlacesBounded ==
  ASSUME TypeInv, NEW w \in Clients, LedgerInv(w)
  PROVE  places \in Nat /\ places <= 2 * FileLines
  <1>1. PICK r : r = run[w] /\ r \in Threads /\ Poised(w, r)
    BY ThreadIs
  <1>2. PICK F \in Nat : F = FileLines
    BY LinesAre
  <1>3. PICK m \in Nat : m = Cardinality(Rows(line))
    BY RowsFinite
  <1>4. PICK p \in Nat, free \in Nat, top \in Nat :
           p = places /\ free = freeId /\ top = Len(stack)
    <2>1. places \in Nat /\ freeId \in Nat
      BY LinesAre DEF TypeInv
    <2>2. Len(stack) \in Nat
      BY DEF TypeInv
    <2> QED BY <2>1, <2>2
  <1>5. Ledger(r, m, free, p, top) /\ Grip(r, line, free) /\ free <= F
    BY <1>1, <1>2, <1>3, <1>4 DEF LedgerInv, InUse
  <1>6. /\ p + top + One(Holding(r)) <= 2 * free + One(Ahead(r))
        /\ r.pc = "uncount" => top > 0
        /\ r.pc = "claim" => free < F
    BY <1>2, <1>5 DEF Ledger, Grip
  <1>7. PICK h \in {0, 1}, a \in {0, 1} : h = One(Holding(r)) /\ a = One(Ahead(r))
    BY DEF One
  <1>8. a = 1 => r.pc \in {"claim", "uncount"}
    BY <1>7 DEF One, Ahead
  <1>9. p + top + h <= 2 * free + a
    BY <1>6, <1>7
  <1>10. p <= 2 * F
    BY <1>5, <1>6, <1>7, <1>8, <1>9
  <1> QED BY <1>2, <1>4, <1>10

LEMMA WellPosedIsNotFatal ==
  ASSUME TypeInv, SiftInv, ReachInv, PlacedInv, NEW w \in Clients, LedgerInv(w),
         NEW c \in Clients, WellPosed(run[c].st)
  PROVE  ~Fatal(run[c])
  <1>1. PICK r, T : /\ r = run[c] /\ T = touched[c] /\ r \in Threads /\ Poised(c, r)
                    /\ Sifted(r, T) /\ Reach(r, T) /\ Placed(r)
    BY ThreadIs DEF SiftInv, ReachInv, PlacedInv
  <1>2. ASSUME r.pc \in {"count", "scan", "probe", "test", "read"}
        PROVE  IsStatement(r.st) /\ r.st.verb # "INSERT"
    BY <1>1, <1>2, InStmts DEF Poised, Scanning
  <1>3. r.pc \in {"count", "scan", "probe", "test", "read"} /\ ~IsDirect(r.st) => Scans(r.st)
    BY <1>1, <1>2 DEF Scans
  <1>4. ASSUME r.pc = "scan", Looping(r) PROVE r.i \in Lines
    <2>1. Scans(r.st)
      BY <1>1, <1>3, <1>4 DEF Poised
    <2>2. r.last <= FileLines
      BY <1>1, <1>4, <2>1 DEF Reach, Far
    <2>3. PICK i \in Nat, last \in Nat, F \in Nat :
             i = r.i /\ last = r.last /\ F = FileLines /\ Lines = 0 .. F - 1
      BY <1>1, LinesAre DEF Threads
    <2>4. i < last /\ last <= F
      BY <1>4, <2>2, <2>3 DEF Looping
    <2>5. i \in 0 .. F - 1
      BY <2>4
    <2> QED BY <2>3, <2>5
  <1>5. ASSUME r.pc \in {"probe", "read"} PROVE r.i \in Lines
    <2>1. CASE IsDirect(r.st)
      BY <1>1, <1>5, <2>1 DEF Placed
    <2>2. CASE ~IsDirect(r.st)
      <3>1. r.pc = "read"
        BY <1>1, <1>5, <2>2 DEF Poised
      <3> QED BY <1>1, <1>3, <2>2, <3>1 DEF Sifted, OnLine, Handling
    <2> QED BY <2>1, <2>2
  <1>6. ASSUME r.pc = "count" PROVE Reservable(ActiveCount(r))
    <2>1. PICK p \in Nat, m \in Nat : p = places /\ m = LimitOf(r.st) /\ p <= 2 * FileLines
      <3>1. LimitOf(r.st) \in Nat
        BY <1>2, <1>6, Clauses
      <3>2. places \in Nat /\ places <= 2 * FileLines
        BY PlacesBounded
      <3> QED BY <3>1, <3>2
    <2>2. ActiveCount(r) = IF p <= m THEN p ELSE m
      BY <2>1, MinOfTwo DEF ActiveCount
    <2>3. PICK a \in Nat : a = ActiveCount(r) /\ a <= p
      BY <2>2
    <2>4. PICK F \in Nat, S \in Nat : F = FileLines /\ S = SizeMax /\ S > 4 * F
      BY QueryAssumption
    <2>5. 2 * F <= S \div 2
      BY <2>4
    <2>6. a <= SizeMax \div 2
      BY <2>1, <2>3, <2>4, <2>5
    <2> QED BY <2>3, <2>6 DEF Reservable
  <1>7. ASSUME r.pc = "test" PROVE Kind(r.conds[r.k]) \notin {"DIRECT", "FROM", "TO"}
    <2>1. Scans(r.st) /\ r.k \in Nat \ {0} /\ r.k <= Len(r.conds)
      BY <1>1, <1>3, <1>7 DEF Poised, Threads, Positive
    <2>2. Remain(r.conds, WhereOf(r.st))
      BY <1>1, <1>7, <2>1 DEF Sifted, OnLine, Bounded
    <2>3. r.k \in 1 .. Len(r.conds)
      BY <1>1, <2>1 DEF Threads, CondSeqs
    <2>4. Kind(r.conds[r.k]) \in Others
      BY <2>2, <2>3 DEF Remain, RemainAs
    <2> QED BY <2>4 DEF Others
  <1>8. ASSUME r.pc = "write" PROVE Writable(r)
    BY <1>1, <1>8 DEF Poised, WellPosed, Writable
  <1>9. r.pc # "uncaught"
    BY <1>1 DEF Poised, WellPosed
  <1> QED BY <1>1, <1>4, <1>5, <1>6, <1>7, <1>8, <1>9 DEF Fatal

LEMMA SurviveStep ==
  ASSUME TypeInv, SiftInv, ReachInv, PlacedInv, NEW w \in Clients, LedgerInv(w),
         WellPosedSurvive, [Next]_vars
  PROVE  WellPosedSurvive'
  <1>1. CASE UNCHANGED vars
    BY <1>1 DEF vars, tableVars, WellPosedSurvive, Fatal, ActiveCount
  <1>2. CASE \E c \in Clients : Crash(c)
    <2>1. PICK c \in Clients : Fatal(run[c]) /\ run' = run /\ places' = places
      BY <1>2 DEF Crash, tableVars
    <2>2. ~WellPosed(run[c].st)
      BY <2>1, WellPosedIsNotFatal
    <2>3. Fatal(run[c])'
      BY <2>1 DEF Fatal, ActiveCount
    <2> QED BY <2>1, <2>2, <2>3 DEF WellPosedSurvive
  <1>3. ASSUME NEW c \in Clients, Submit(c) \/ Step(c), ~Crash(c) PROVE ~crashed'
    BY <1>3, ZenonT(60)
       DEF Step, Submit, Answer, Bound, Count, ScanLine, ProbeLine, Test, ReadColumn, EndScan,
           WriteColumn, Deactivate, PushInStack, Uncount, PopFreeId, LoadFreeId,
           CountNewLine, ClaimLine, Activate, CountInserted, At
  <1>4. CASE ~crashed'
    BY <1>4 DEF WellPosedSurvive
  <1> QED BY <1>1, <1>2, <1>3, <1>4 DEF Next

(***************************************************************************)
(* While one client alone inserts and deletes, a statement with a defined  *)
(* behaviour never ends the process, whatever the other clients read and   *)
(* update: no scan leaves the file, no count is too large to reserve, no   *)
(* bound is taken for a condition and no text overruns the line            *)
(* (Executor.h 117-123, 208-214; MemoryMapLinux.h 96-150).  With two such  *)
(* clients the counter wraps below zero.                                   *)
(***************************************************************************)
THEOREM WellPosedNeverCrash ==
  ASSUME OneWriter
  PROVE  Spec => []WellPosedSurvive
  <1>1. PICK w \in Clients : OnlyWriter(w)
    BY DEF OneWriter
  <1> DEFINE Inv == TypeInv /\ SiftInv /\ LedgerInv(w) /\ ReachInv
  <1>2. Spec => []Inv
    BY <1>1, ReachAlways, PTL
  <1>3. Init => PlacedInv /\ WellPosedSurvive
    BY PlacedInit DEF Init, WellPosedSurvive
  <1>4. Inv /\ PlacedInv /\ [Next]_vars => PlacedInv'
    BY PlacedStep
  <1>5. Inv /\ PlacedInv /\ WellPosedSurvive /\ [Next]_vars => WellPosedSurvive'
    BY SurviveStep
  <1> HIDE DEF Inv
  <1> QED BY <1>2, <1>3, <1>4, <1>5, PTL DEF Spec
=============================================================================
