-------------------------- MODULE QueryChangeProofs -------------------------
(***************************************************************************)
(* Proofs about what a statement changes and what a SELECT shows, for any  *)
(* table, any clients and any statements.                                  *)
(***************************************************************************)
EXTENDS QueryProofs

-----------------------------------------------------------------------------
(***************************************************************************)
(* What the writes of a statement do to a line.  A text column never has   *)
(* anything behind a null character, so that a shorter text that is        *)
(* written over it ends where the old one ended.                           *)
(***************************************************************************)
CleanText(f, i) ==
    \A h, j \in 0 .. Size(i) - 1 : h < j /\ f[Offset[i] + h] = 0 => f[Offset[i] + j] = 0
Clean(f) == \A i \in 1 .. N : Columns[i].text => CleanText(f, i)

\* Bytes that may be written to column i: a text, which may be longer than
\* the column, or all bytes of the column.
Writes(i, v) ==
    \/ v \in Seq(Byte \ {0})
    \/ /\ v \in Seq(Byte) /\ Len(v) = Size(i)
       /\ Columns[i].text =>
             \A h, j \in 1 .. Len(v) : h < j /\ v[h] = 0 => v[j] = 0

LEMMA ColumnGeometry ==
  ASSUME NEW i \in 1 .. N
  PROVE  \E o \in Nat \ {0}, z \in Nat, L \in Nat \ {0} :
            o = Offset[i] /\ z = Size(i) /\ L = LineLength /\ o + z <= L
  BY ColumnEnds, ColumnsType

\* No column begins inside another one.
LEMMA OffsetsApart ==
  ASSUME NEW i \in 1 .. N, NEW q \in 1 .. N
  PROVE  \/ Offset[i] <= Offset[q] /\ (i # q => Offset[i] + Size(i) <= Offset[q])
         \/ i # q /\ Offset[q] + Size(q) <= Offset[i]
  <1>1. PICK o \in Nat, z \in Nat, p \in Nat, y \in Nat :
           o = Offset[i] /\ z = Size(i) /\ p = Offset[q] /\ y = Size(q)
    BY ColumnGeometry
  <1>2. N \in Nat
    BY ColumnsType
  <1> HIDE DEF N
  <1>3. CASE i = q
    BY <1>1, <1>3
  <1>4. CASE i < q
    <2>1. q \in i + 1 .. N
      BY <1>2, <1>4
    <2>2. o + z <= p
      BY <1>1, <2>1, OffsetsAscend DEF N
    <2> QED BY <1>1, <2>2
  <1>5. CASE q < i
    <2>1. i \in q + 1 .. N
      BY <1>2, <1>5
    <2>2. p + y <= o
      BY <1>1, <2>1, OffsetsAscend DEF N
    <2> QED BY <1>1, <1>5, <2>2
  <1> QED BY <1>2, <1>3, <1>4, <1>5

LEMMA StoreAt ==
  ASSUME NEW f \in ByteLines, NEW o \in Nat, NEW v, NEW n \in Nat, n = Len(v),
         NEW L \in Nat, L = LineLength, NEW b \in 0 .. L - 1
  PROVE  Store(f, o, v)[b] = IF b \in o .. o + n - 1 THEN v[b - o + 1] ELSE f[b]
  <1>1. DOMAIN f = 0 .. L - 1
    BY DEF ByteLines
  <1> QED BY <1>1 DEF Store

LEMMA FlagStore ==
  ASSUME NEW f \in ByteLines, NEW i \in 1 .. N, NEW v, Len(v) \in Nat
  PROVE  Store(f, Offset[i], v)[0] = f[0]
  <1>1. PICK o \in Nat \ {0}, L \in Nat \ {0}, n \in Nat :
           o = Offset[i] /\ L = LineLength /\ n = Len(v)
    BY ColumnGeometry
  <1>2. 0 \in 0 .. L - 1 /\ 0 \notin o .. o + n - 1
    BY <1>1
  <1> QED BY <1>1, <1>2, StoreAt

LEMMA WritesType ==
  ASSUME NEW i, NEW v, Writes(i, v)
  PROVE  v \in Seq(Byte) /\ Len(v) \in Nat
  <1>1. CASE v \in Seq(Byte \ {0})
    BY <1>1
  <1>2. CASE v \in Seq(Byte)
    BY <1>2
  <1> QED BY <1>1, <1>2 DEF Writes

LEMMA CleanStore ==
  ASSUME NEW f \in ByteLines, Clean(f), NEW i \in 1 .. N, NEW v, Writes(i, v)
  PROVE  Clean(Store(f, Offset[i], v))
  <1>1. PICK o \in Nat \ {0}, z \in Nat, L \in Nat \ {0} :
           o = Offset[i] /\ z = Size(i) /\ L = LineLength /\ o + z <= L
    BY ColumnGeometry
  <1>2. PICK n \in Nat : n = Len(v)
    BY WritesType
  <1>3. PICK g : g = Store(f, o, v)
    OBVIOUS
  <1>4. ASSUME NEW b \in 0 .. L - 1
        PROVE  g[b] = IF b \in o .. o + n - 1 THEN v[b - o + 1] ELSE f[b]
    <2>1. DOMAIN f = 0 .. L - 1
      BY <1>1 DEF ByteLines
    <2> QED BY <1>2, <1>3, <2>1 DEF Store
  <1>5. SUFFICES ASSUME NEW q \in 1 .. N, Columns[q].text PROVE CleanText(g, q)
    BY <1>1, <1>3 DEF Clean
  <1>6. PICK p \in Nat \ {0}, y \in Nat : p = Offset[q] /\ y = Size(q) /\ p + y <= L
    BY <1>1, ColumnGeometry
  <1>7. SUFFICES ASSUME NEW h \in 0 .. y - 1, NEW j \in 0 .. y - 1, h < j, g[p + h] = 0
                 PROVE  g[p + j] = 0
    BY <1>6 DEF CleanText
  <1>8. p + h \in 0 .. L - 1 /\ p + j \in 0 .. L - 1
    BY <1>6
  <1>9. f[p + h] = 0 => f[p + j] = 0
    BY <1>5, <1>6, <1>7 DEF Clean, CleanText
  <1>10. \/ o <= p /\ (i # q => o + z <= p)
         \/ i # q /\ p + y <= o
    BY <1>1, <1>6, OffsetsApart
  <1>11. CASE v \in Seq(Byte \ {0})
    <2>1. p + h \notin o .. o + n - 1
      <3>1. ASSUME p + h \in o .. o + n - 1 PROVE FALSE
        <4>1. (p + h) - o + 1 \in 1 .. n
          BY <3>1
        <4>2. v[(p + h) - o + 1] # 0
          BY <1>2, <1>11, <4>1
        <4> QED BY <1>4, <1>7, <1>8, <3>1, <4>2
      <3> QED BY <3>1
    <2>2. f[p + h] = 0
      BY <1>4, <1>7, <1>8, <2>1
    <2>3. p + j \notin o .. o + n - 1
      <3>1. ASSUME p + j \in o .. o + n - 1 PROVE FALSE
        <4>1. p + h < o /\ o <= p + j
          BY <1>7, <2>1, <3>1
        <4>2. CASE o <= p
          BY <4>1, <4>2
        <4>3. CASE p + y <= o
          BY <4>1, <4>3
        <4> QED BY <1>10, <4>2, <4>3
      <3> QED BY <3>1
    <2> QED BY <1>4, <1>8, <1>9, <2>2, <2>3
  <1>12. CASE /\ v \in Seq(Byte) /\ n = z
              /\ Columns[i].text => \A a, b \in 1 .. n : a < b /\ v[a] = 0 => v[b] = 0
    <2>1. CASE i = q
      <3>1. o = p /\ z = y
        BY <1>1, <1>6, <2>1
      <3>2. /\ p + h \in o .. o + n - 1 /\ p + j \in o .. o + n - 1
            /\ (p + h) - o + 1 = h + 1 /\ (p + j) - o + 1 = j + 1
            /\ h + 1 \in 1 .. n /\ j + 1 \in 1 .. n /\ h + 1 < j + 1
        BY <1>7, <1>12, <3>1
      <3>3. g[p + h] = v[h + 1] /\ g[p + j] = v[j + 1]
        BY <1>4, <1>8, <3>2
      <3>4. v[h + 1] = 0 => v[j + 1] = 0
        BY <1>5, <1>12, <2>1, <3>2
      <3> QED BY <1>7, <3>3, <3>4
    <2>2. CASE i # q
      <3>1. o + z <= p \/ p + y <= o
        BY <1>10, <2>2
      <3>2. p + h \notin o .. o + n - 1 /\ p + j \notin o .. o + n - 1
        BY <1>12, <3>1
      <3> QED BY <1>4, <1>7, <1>8, <1>9, <3>2
    <2> QED BY <2>1, <2>2
  <1> QED BY <1>1, <1>2, <1>11, <1>12 DEF Writes

\* A text written over another one leaves the end of a longer one.
Overlay(v, w) == v \o SubSeq(w, Len(v) + 1, Len(w))

LEMMA TextOverlaid ==
  ASSUME NEW f \in ByteLines, Clean(f), NEW i \in 1 .. N, Columns[i].text,
         NEW v \in Seq(Byte \ {0}), Len(v) <= Size(i)
  PROVE  Cell(Store(f, Offset[i], v), i) = Overlay(v, Cell(f, i))
  <1>1. PICK o \in Nat \ {0}, z \in Nat, L \in Nat \ {0} :
           o = Offset[i] /\ z = Size(i) /\ L = LineLength /\ o + z <= L
    BY ColumnGeometry
  <1>2. PICK n \in Nat : n = Len(v) /\ n <= z
    BY <1>1
  <1>3. PICK g : g = Store(f, o, v)
    OBVIOUS
  <1>4. ASSUME NEW b \in 0 .. L - 1
        PROVE  g[b] = IF b \in o .. o + n - 1 THEN v[b - o + 1] ELSE f[b]
    <2>1. DOMAIN f = 0 .. L - 1
      BY <1>1 DEF ByteLines
    <2> QED BY <1>2, <1>3, <2>1 DEF Store
  <1>5. \A j \in 1 .. n : v[j] # 0
    BY <1>2
  <1>6. ASSUME NEW j \in 0 .. z - 1
        PROVE  g[o + j] = IF j < n THEN v[j + 1] ELSE f[o + j]
    <2>1. o + j \in 0 .. L - 1 /\ (o + j) - o + 1 = j + 1
      BY <1>1, SMTT(30)
    <2>2. CASE j < n
      <3>1. o + j \in o .. o + n - 1
        BY <2>2
      <3> QED BY <1>4, <2>1, <2>2, <3>1
    <2>3. CASE ~(j < n)
      <3>1. o + j \notin o .. o + n - 1
        BY <2>3
      <3> QED BY <1>4, <2>1, <2>3, <3>1
    <2> QED BY <2>2, <2>3
  <1>7. PICK m \in 0 .. z : EndsAt(f, o, z, m)
    BY TextEnds
  <1>8. (m = z \/ f[o + m] = 0) /\ \A j \in 0 .. m - 1 : f[o + j] # 0
    BY <1>7 DEF EndsAt
  <1>9. PICK w : w = Slice(f, o, m) /\ w = Cell(f, i)
    <2>1. ReadText(f, o, z) = Slice(f, o, m)
      BY <1>7, ReadTextIs
    <2> QED BY <1>1, <2>1 DEF Cell, Size
  <1>10. w \in Seq(Byte) /\ Len(w) = m /\ \A j \in 1 .. m : w[j] = f[o + j - 1]
    <2>1. \A j \in 1 .. m : f[o + j - 1] \in Byte
      <3>1. \A j \in 1 .. m : o + j - 1 \in 0 .. L - 1
        BY <1>1, SMTT(30)
      <3>2. f \in [0 .. L - 1 -> Byte]
        BY <1>1 DEF ByteLines
      <3> QED BY <3>1, <3>2
    <2> HIDE DEF Byte
    <2> QED BY <1>9, <2>1 DEF Slice
  <1>11. PICK e \in 0 .. z : (n < m => e = m) /\ (~(n < m) => e = n)
    <2>1. CASE n < m
      BY <2>1
    <2>2. CASE ~(n < m)
      BY <1>2, <2>2
    <2> QED BY <2>1, <2>2
  <1>12. EndsAt(g, o, z, e)
    <2>1. ASSUME NEW j \in 0 .. e - 1 PROVE g[o + j] # 0
      <3>1. j \in 0 .. z - 1
        OBVIOUS
      <3>2. CASE j < n
        <4>1. j + 1 \in 1 .. n
          BY <3>1, <3>2
        <4> QED BY <1>5, <1>6, <3>1, <3>2, <4>1
      <3>3. CASE ~(j < n)
        <4>1. j \in 0 .. m - 1
          BY <1>11, <3>1, <3>3
        <4> QED BY <1>6, <1>8, <3>1, <3>3, <4>1
      <3> QED BY <3>2, <3>3
    <2>2. e = z \/ g[o + e] = 0
      <3>1. SUFFICES ASSUME e # z PROVE g[o + e] = 0
        OBVIOUS
      <3>2. e \in 0 .. z - 1 /\ ~(e < n) /\ m <= e /\ m # z
        BY <1>11, <3>1
      <3>3. g[o + e] = f[o + e]
        BY <1>6, <3>2
      <3>4. f[o + m] = 0
        BY <1>8, <3>2
      <3>5. CleanText(f, i)
        BY DEF Clean
      <3>6. m \in 0 .. z - 1
        BY <3>2
      <3>7. f[o + e] = 0
        <4>1. CASE m = e
          BY <3>4, <4>1
        <4>2. CASE m < e
          BY <1>1, <3>2, <3>4, <3>5, <3>6, <4>2 DEF CleanText
        <4> QED BY <3>2, <4>1, <4>2
      <3> QED BY <3>3, <3>7
    <2> QED BY <2>1, <2>2 DEF EndsAt
  <1>13. Cell(g, i) = Slice(g, o, e)
    <2>1. ReadText(g, o, z) = Slice(g, o, e)
      BY <1>12, ReadTextIs
    <2> QED BY <1>1, <2>1 DEF Cell, Size
  <1>14. \A j \in 1 .. e : Slice(g, o, e)[j] = IF j <= n THEN v[j] ELSE w[j]
    <2> TAKE j \in 1 .. e
    <2>1. j - 1 \in 0 .. z - 1 /\ (j - 1) + 1 = j /\ o + (j - 1) = o + j - 1
          /\ (j - 1 < n <=> j <= n)
      OBVIOUS
    <2>2. g[o + (j - 1)] = IF j - 1 < n THEN v[(j - 1) + 1] ELSE f[o + (j - 1)]
      BY <1>6, <2>1
    <2>3. ~(j <= n) => j \in 1 .. m
      BY <1>11
    <2>4. Slice(g, o, e)[j] = g[o + j - 1]
      BY DEF Slice
    <2>5. ~(j <= n) => w[j] = f[o + j - 1]
      BY <1>10, <2>3
    <2> QED BY <2>1, <2>2, <2>4, <2>5
  <1>15. Overlay(v, w) = [j \in 1 .. e |-> IF j <= n THEN v[j] ELSE w[j]]
    <2>1. v \in Seq(Byte)
      OBVIOUS
    <2> HIDE DEF Byte
    <2>2. PICK u : u = SubSeq(w, n + 1, m)
      OBVIOUS
    <2>3. u \in Seq(Byte) /\ Len(u) = e - n /\ \A j \in 1 .. e - n : u[j] = w[n + j]
      <3>1. CASE n < m
        <4>1. e = m
          BY <1>11, <3>1
        <4>3. PICK a \in Nat : a = n + 1 /\ a \in 1 .. m
          BY <3>1
        <4>4. SubSeq(w, a, m) \in Seq(Byte) /\ Len(SubSeq(w, a, m)) = m - a + 1
          BY <1>10, <4>3
        <4>5. \A j \in 1 .. m - a + 1 : SubSeq(w, a, m)[j] = w[a + j - 1]
          BY <1>10, <4>3
        <4>6. m - a + 1 = m - n /\ \A j \in 1 .. m - n : a + j - 1 = n + j
          BY <4>3
        <4>2. SubSeq(w, n + 1, m) \in Seq(Byte) /\ Len(SubSeq(w, n + 1, m)) = m - n
              /\ \A j \in 1 .. m - n : SubSeq(w, n + 1, m)[j] = w[n + j]
          BY <4>3, <4>4, <4>5, <4>6
        <4> QED BY <2>2, <4>1, <4>2
      <3>2. CASE ~(n < m)
        <4>1. e = n
          BY <1>11, <3>2
        <4>2. SubSeq(w, n + 1, m) = <<>>
          BY <1>10, <3>2
        <4>3. e - n = 0 /\ <<>> \in Seq(Byte) /\ Len(<<>>) = 0
          BY <4>1
        <4>4. u \in Seq(Byte) /\ Len(u) = e - n
          BY <2>2, <4>2, <4>3, Zenon
        <4>5. \A j \in 1 .. e - n : FALSE
          BY <4>3
        <4> QED BY <4>4, <4>5
      <3> QED BY <3>1, <3>2
    <2>4. /\ v \o u \in Seq(Byte) /\ Len(v \o u) = e
          /\ \A j \in 1 .. e : (v \o u)[j] = IF j <= n THEN v[j] ELSE u[j - n]
      <3>6. u \in Seq(Byte)
        BY <2>3
      <3>1. Len(v \o u) = Len(v) + Len(u)
        BY <2>1, <3>6
      <3>2. v \o u \in Seq(Byte)
        BY <2>1, <2>3
      <3>3. Len(v \o u) = e
        BY <1>2, <1>11, <2>3, <3>1
      <3>4. \A j \in 1 .. Len(v) + Len(u) :
               (v \o u)[j] = IF j <= Len(v) THEN v[j] ELSE u[j - Len(v)]
        BY <2>1, <2>3
      <3>5. Len(v) + Len(u) = e
        BY <1>2, <1>11, <2>3
      <3> QED BY <1>2, <3>2, <3>3, <3>4, <3>5
    <2>5. \A j \in 1 .. e : (v \o u)[j] = IF j <= n THEN v[j] ELSE w[j]
      <3>1. \A j \in 1 .. e : ~(j <= n) => j - n \in 1 .. e - n /\ n + (j - n) = j
        BY <1>2
      <3> QED BY <2>3, <2>4, <3>1
    <2>6. v \o u = [j \in 1 .. e |-> IF j <= n THEN v[j] ELSE w[j]]
      <3>1. PICK x : x = v \o u
        OBVIOUS
      <3>2. x \in Seq(Byte) /\ Len(x) = e
        BY <2>4, <3>1
      <3>3. x = [j \in 1 .. e |-> x[j]]
        BY <3>2
      <3> QED BY <2>5, <3>1, <3>3, Zenon
    <2>7. Overlay(v, w) = v \o u
      BY <1>2, <1>10, <2>2 DEF Overlay
    <2> QED BY <2>6, <2>7
  <1>16. Slice(g, o, e) = [j \in 1 .. e |-> IF j <= n THEN v[j] ELSE w[j]]
    <2>1. Slice(g, o, e) = [j \in 1 .. e |-> Slice(g, o, e)[j]]
      BY DEF Slice
    <2> QED BY <1>14, <2>1, Zenon
  <1> QED BY <1>1, <1>3, <1>9, <1>13, <1>15, <1>16

\* The flag of a line apart from its columns.
LEMMA FlagKeeps ==
  ASSUME NEW f \in ByteLines, NEW x \in Byte, NEW g, g = [f EXCEPT ![0] = x]
  PROVE  /\ g \in ByteLines /\ g[0] = x
         /\ \A i \in 1 .. N : Cell(g, i) = Cell(f, i)
         /\ Clean(f) => Clean(g)
  <1>1. PICK L \in Nat \ {0} : L = LineLength
    BY LengthType
  <1>2. \A b \in 1 .. L - 1 : g[b] = f[b]
    <2>1. f \in [0 .. L - 1 -> Byte]
      BY <1>1 DEF ByteLines
    <2> QED BY <2>1
  <1>3. ASSUME NEW i \in 1 .. N
        PROVE  \A b \in Offset[i] .. Offset[i] + Size(i) - 1 : g[b] = f[b]
    <2>1. PICK o \in Nat \ {0}, z \in Nat : o = Offset[i] /\ z = Size(i) /\ o + z <= L
      BY <1>1, ColumnGeometry
    <2>2. \A b \in o .. o + z - 1 : b \in 1 .. L - 1
      BY <2>1
    <2> QED BY <1>2, <2>1, <2>2
  <1>4. ASSUME NEW i \in 1 .. N PROVE Cell(g, i) = Cell(f, i)
    BY <1>3, SameCell
  <1>5. ASSUME Clean(f), NEW i \in 1 .. N, Columns[i].text PROVE CleanText(g, i)
    <2>1. PICK o \in Nat, z \in Nat : o = Offset[i] /\ z = Size(i)
      BY ColumnGeometry
    <2>2. \A h \in 0 .. z - 1 : g[o + h] = f[o + h]
      <3>1. \A h \in 0 .. z - 1 : o + h \in o .. o + z - 1
        BY <2>1
      <3> QED BY <1>3, <2>1, <3>1
    <2>3. CleanText(f, i)
      BY <1>5 DEF Clean
    <2> QED BY <2>1, <2>2, <2>3 DEF CleanText
  <1>6. Clean(f) => Clean(g)
    BY <1>5 DEF Clean
  <1> QED BY <1>4, <1>6, FlagType

\* The lines of a table that was just opened are clean.
LEMMA OpenedClean ==
  ASSUME NEW f \in {Blank} \cup {RowLine(v) : v \in Contents}
                       \cup {Store(RowLine(v), 0, << 0 >>) : v \in Erased}
  PROVE  Clean(f)
  <1>1. ASSUME NEW v, Row(v) PROVE Clean(RowLine(v))
    <2>1. SUFFICES ASSUME NEW i \in 1 .. N, Columns[i].text PROVE CleanText(RowLine(v), i)
      BY DEF Clean
    <2>2. PICK o \in Nat, z \in Nat : o = Offset[i] /\ z = Size(i)
      BY ColumnGeometry
    <2>3. PICK w : w = v[i] /\ w \in Seq(1 .. 255)
      <3>1. i \in DOMAIN Columns
        BY ColumnsType
      <3> QED BY <1>1, <2>1, <3>1 DEF Row, IsValue
    <2>4. PICK m \in Nat : m = Len(w)
      BY <2>3
    <2>5. Encode(i, w) = w
      BY <2>1 DEF Encode
    <2>6. ASSUME NEW h \in 0 .. z - 1
          PROVE  RowLine(v)[o + h] = IF h + 1 <= m THEN w[h + 1] ELSE 0
      <3>1. RowLine(v)[o + h] = Resize(w, z)[h + 1]
        BY <1>1, <2>2, <2>3, <2>5, RowLineIs
      <3>2. h + 1 \in 1 .. z
        OBVIOUS
      <3> QED BY <2>4, <3>1, <3>2 DEF Resize
    <2>7. \A j \in 1 .. m : w[j] # 0
      <3>1. PICK D : D = 1 .. 255
        OBVIOUS
      <3>2. w \in Seq(D)
        BY <2>3, <3>1
      <3>3. \A j \in 1 .. m : w[j] \in D
        BY <2>4, <3>2
      <3> QED BY <3>1, <3>3
    <2>8. \A h \in 0 .. z - 1 : h + 1 <= m => h + 1 \in 1 .. m
      OBVIOUS
    <2>9. \A h, j \in 0 .. z - 1 : h < j /\ RowLine(v)[o + h] = 0 => RowLine(v)[o + j] = 0
      <3> TAKE h \in 0 .. z - 1, j \in 0 .. z - 1
      <3>1. CASE h + 1 <= m
        BY <2>6, <2>7, <2>8, <3>1
      <3>2. CASE ~(h + 1 <= m)
        <4>1. h < j => ~(j + 1 <= m)
          BY <3>2
        <4> QED BY <2>6, <4>1
      <3> QED BY <3>1, <3>2
    <2> QED BY <2>2, <2>9 DEF CleanText
  <1>2. CASE f = Blank
    <2>1. PICK L \in Nat \ {0} : L = LineLength
      BY LengthType
    <2>2. f = [b \in 0 .. L - 1 |-> 0]
      BY <1>2, <2>1 DEF Blank
    <2>3. ASSUME NEW i \in 1 .. N PROVE CleanText(f, i)
      <3>1. PICK o \in Nat, z \in Nat : o = Offset[i] /\ z = Size(i) /\ o + z <= L
        BY <2>1, ColumnGeometry
      <3>2. \A h \in 0 .. z - 1 : f[o + h] = 0
        <4>1. \A h \in 0 .. z - 1 : o + h \in 0 .. L - 1
          BY <3>1
        <4> QED BY <2>2, <4>1
      <3> QED BY <3>1, <3>2 DEF CleanText
    <2> QED BY <2>3 DEF Clean
  <1>3. CASE \E v \in Contents : f = RowLine(v)
    BY <1>1, <1>3, ContentsAre
  <1>4. CASE \E v \in Erased : f = Store(RowLine(v), 0, <<0>>)
    <2>1. PICK v \in Erased : f = Store(RowLine(v), 0, <<0>>)
      BY <1>4
    <2>2. PICK g \in ByteLines : g = RowLine(v) /\ Clean(g)
      BY <1>1, ContentsAre, RowLineIs
    <2>3. PICK L \in Nat \ {0} : L = LineLength
      BY LengthType
    <2>4. g \in [0 .. L - 1 -> Byte]
      BY <2>2, <2>3 DEF ByteLines
    <2>5. f = [g EXCEPT ![0] = 0]
      <3>1. Len(<<0>>) = 1 /\ <<0>>[1] = 0
        OBVIOUS
      <3>2. \A b \in 0 .. L - 1 : (b \in 0 .. 0 + 1 - 1 <=> b = 0) /\ b - 0 + 1 = b + 1
        OBVIOUS
      <3>3. DOMAIN g = 0 .. L - 1
        BY <2>4
      <3>4. f = [b \in 0 .. L - 1 |->
                   IF b \in 0 .. 0 + 1 - 1 THEN <<0>>[b - 0 + 1] ELSE g[b]]
        BY <2>1, <2>2, <3>1, <3>3 DEF Store
      <3>5. f = [b \in 0 .. L - 1 |-> IF b = 0 THEN 0 ELSE g[b]]
        BY <3>1, <3>2, <3>4
      <3> QED BY <2>4, <3>5
    <2>6. 0 \in Byte
      BY DEF Byte
    <2> QED BY <2>2, <2>5, <2>6, FlagKeeps
  <1> QED BY <1>2, <1>3, <1>4

\* The bytes of a value may be written to its column.
LEMMA BytesWrite ==
  ASSUME NEW s, Accepted(s), NEW j \in Assigned(s)
  PROVE  Writes(Target(s, j), Bytes(s, j))
  <1>1. PICK i \in 1 .. N, v \in Value :
           i = Target(s, j) /\ v = s.vals[j] /\ IsValue(i, v) /\ Bytes(s, j) \in Seq(Byte)
    BY TargetType
  <1>2. CASE s.verb = "INSERT" /\ Columns[i].text
    <2>1. v \in Seq(Byte \ {0}) /\ v \in Seq(Byte)
      <3>1. v \in Seq(Byte \ {0})
        BY <1>1, <1>2, EncodeType
      <3> QED BY <3>1
    <2>2. PICK z \in Nat : z = Size(i)
      BY ColumnsType
    <2>3. PICK u : u = Resize(v, z) /\ u = Bytes(s, j)
      BY <1>1, <1>2, <2>2 DEF Bytes, Size
    <2>4. u \in Seq(Byte) /\ Len(u) = z
      BY <2>1, <2>2, <2>3, ResizeType
    <2>5. PICK m \in Nat : m = Len(v) /\ \A h \in 1 .. m : v[h] # 0
      BY <2>1
    <2>6. \A h \in 1 .. z : u[h] = IF h <= m THEN v[h] ELSE 0
      BY <2>3, <2>5 DEF Resize
    <2>7. \A h, k \in 1 .. z : h < k /\ u[h] = 0 => u[k] = 0
      <3> TAKE h \in 1 .. z, k \in 1 .. z
      <3>1. CASE h <= m
        <4>1. h \in 1 .. m
          BY <3>1
        <4> QED BY <2>5, <2>6, <3>1, <4>1
      <3>2. CASE ~(h <= m)
        <4>1. h < k => ~(k <= m)
          BY <3>2
        <4> QED BY <2>6, <4>1
      <3> QED BY <3>1, <3>2
    <2>8. Writes(i, u)
      BY <2>2, <2>4, <2>7 DEF Writes
    <2> QED BY <1>1, <2>3, <2>8
  <1>3. CASE s.verb # "INSERT" /\ Columns[i].text
    <2>1. Bytes(s, j) = v /\ v \in Seq(Byte \ {0})
      BY <1>1, <1>3, EncodeType DEF Bytes, Encode
    <2> QED BY <1>1, <2>1 DEF Writes
  <1>4. CASE ~Columns[i].text
    <2>1. Bytes(s, j) = Encode(i, v)
      BY <1>1, <1>4 DEF Bytes
    <2>2. Len(Encode(i, v)) = Size(i)
      BY <1>1, <1>4, EncodeType
    <2> QED BY <1>1, <1>4, <2>1, <2>2 DEF Writes
  <1> QED BY <1>2, <1>3, <1>4

\* What column i of a line holds after value j was written to it.
Shown(s, j, old) ==
    LET i == Target(s, j)
        v == s.vals[j]
    IN IF ~Columns[i].text THEN v
       ELSE IF s.verb = "INSERT" THEN SubSeq(v, 1, Min({Len(v), Columns[i].size}))
       ELSE Overlay(v, old)

LEMMA MinOfTwo ==
  ASSUME NEW a \in Nat, NEW b \in Nat
  PROVE  Min({a, b}) = IF a <= b THEN a ELSE b
  <1>1. {a, b} \subseteq Nat /\ {a, b} # {}
    OBVIOUS
  <1>2. PICK m : m = Min({a, b}) /\ m \in {a, b} /\ \A y \in {a, b} : m <= y
    BY <1>1, MinIs
  <1>3. m <= a /\ m <= b /\ (m = a \/ m = b)
    BY <1>2
  <1>4. m = IF a <= b THEN a ELSE b
    BY <1>3
  <1> QED BY <1>2, <1>4

LEMMA ColumnWritten ==
  ASSUME NEW s, Accepted(s), NEW j \in Assigned(s), NEW f \in ByteLines, Clean(f),
         s.verb = "INSERT" \/ Len(s.vals[j]) <= Columns[Target(s, j)].size
  PROVE  LET i == Target(s, j)
             g == Store(f, Offset[i], Bytes(s, j))
         IN /\ Cell(g, i) = Shown(s, j, Cell(f, i))
            /\ g[0] = f[0]
            /\ \A h \in 1 .. N : h # i => Cell(g, h) = Cell(f, h)
  <1>1. PICK i \in 1 .. N, v \in Value :
           i = Target(s, j) /\ v = s.vals[j] /\ IsValue(i, v) /\ Bytes(s, j) \in Seq(Byte)
    BY TargetType
  <1>2. i \in DOMAIN Columns /\ Columns[i].size = Size(i) /\ Size(i) \in Nat
    BY ColumnsType DEF Size
  <1>6. PICK u \in Seq(Byte) : u = Bytes(s, j)
    BY <1>1
  <1>3. PICK g : u = Bytes(s, j) /\ g = Store(f, Offset[i], u)
    BY <1>6
  <1>4. Len(u) <= Size(i) /\ Cell(g, i) = Shown(s, j, Cell(f, i))
    <2>1. CASE ~Columns[i].text
      <3>1. u = Encode(i, v) /\ Len(u) = Size(i)
        BY <1>1, <1>3, <2>1, EncodeType DEF Bytes
      <3>2. v \in Seq(Nat)
        BY <1>1 DEF Value
      <3>3. Cell(g, i) = v
        BY <1>1, <1>2, <1>3, <2>1, <3>1, <3>2, NumberReadBack
      <3> QED BY <1>1, <1>2, <2>1, <3>1, <3>3 DEF Shown
    <2>2. CASE Columns[i].text /\ s.verb = "INSERT"
      <3>1. v \in Seq(Byte \ {0})
        BY <1>1, <2>2, EncodeType
      <3>2. v \in Seq(Byte)
        BY <3>1
      <3>3. u = Resize(v, Columns[i].size) /\ Len(u) = Size(i)
        <4>1. u = Resize(v, Size(i))
          BY <1>1, <1>3, <2>2 DEF Bytes, Size
        <4> QED BY <1>2, <3>2, <4>1, ResizeType
      <3>4. PICK n \in Nat, z \in Nat : n = Len(v) /\ z = Columns[i].size
        BY <1>2, <3>1
      <3>5. Cell(g, i) = SubSeq(v, 1, IF n <= z THEN n ELSE z)
        BY <1>2, <1>3, <2>2, <3>1, <3>3, <3>4, TextReadBack
      <3>6. Cell(g, i) = SubSeq(v, 1, Min({n, z}))
        BY <3>5, MinOfTwo
      <3>7. Cell(g, i) = Shown(s, j, Cell(f, i))
        BY <1>1, <2>2, <3>4, <3>6 DEF Shown
      <3> QED BY <1>2, <3>3, <3>7
    <2>3. CASE Columns[i].text /\ s.verb # "INSERT"
      <3>1. v \in Seq(Byte \ {0})
        BY <1>1, <2>3, EncodeType
      <3>2. u = v /\ Len(v) <= Size(i)
        BY <1>1, <1>2, <1>3, <2>3 DEF Bytes, Encode
      <3>3. Cell(g, i) = Overlay(v, Cell(f, i))
        BY <1>3, <2>3, <3>1, <3>2, TextOverlaid
      <3> QED BY <1>1, <2>3, <3>2, <3>3 DEF Shown
    <2> QED BY <2>1, <2>2, <2>3
  <1>5. /\ g[0] = f[0]
        /\ \A h \in DOMAIN Columns \ {i} : Cell(g, h) = Cell(f, h)
    BY <1>2, <1>3, <1>4, StoreKeepsOthers
  <1> QED BY <1>1, <1>2, <1>3, <1>4, <1>5, ColumnsType

-----------------------------------------------------------------------------
(***************************************************************************)
(* What a statement has changed.                                           *)
(***************************************************************************)
Neat(f) == f[0] \in {0, 1} /\ Clean(f)

IdsIn(body) == {body[n][1][1] : n \in 1 .. Len(body)}

InsertedColumn(s, q, j, f) ==
    LET v == s.vals[q + j]
    IN Cell(f, j) = IF Columns[j].text
                    THEN SubSeq(v, 1, Min({Len(v), Columns[j].size})) ELSE v

\* A row of which the first m values of an UPDATE are written.
PartUpdated(s, m, old, f) ==
    Tidy(s) =>
        /\ f[0] = old[0]
        /\ \A j \in 1 .. m : Cell(f, Target(s, j)) = Shown(s, j, Cell(old, Target(s, j)))
        /\ \A i \in 1 .. N : (\A j \in 1 .. m : Target(s, j) # i) => Cell(f, i) = Cell(old, i)

\* A line that is not being worked on, the records in body being complete.
Settled(s, body, old, l, f) ==
    /\ s.verb = "INSERT" /\ l \in IdsIn(body) =>
          \E n \in 1 .. Len(body) : body[n][1][1] = l /\ InsertedRow(s, n, f)
    /\ s.verb = "UPDATE" /\ l \in IdsIn(body) => UpdatedRow(s, old, f)
    /\ s.verb = "DELETE" /\ l \in IdsIn(body) => f = [old EXCEPT ![0] = 0]
    /\ s.verb \notin {"INSERT", "UPDATE", "DELETE"} \/ l \notin IdsIn(body) => f = old

InWork(r, l) == l = r.i /\ r.pc \in {"push", "uncount", "write", "counted"}

\* The values of the rows before the one an INSERT is at.
Base(r) == Len(r.body) * N

Changed(r, l, f) ==
    IF InWork(r, l)
    THEN /\ r.pc \in {"push", "uncount"} => f = [r.snap[l] EXCEPT ![0] = 0]
         /\ r.pc = "write" /\ r.st.verb = "UPDATE" =>
               PartUpdated(r.st, r.k - 1, r.snap[l], f)
         /\ r.pc \in {"write", "counted"} /\ r.st.verb = "INSERT" =>
               f[0] = 1 /\ \A j \in 1 .. N : Base(r) + j < r.k =>
                              InsertedColumn(r.st, Base(r), j, f)
    ELSE Settled(r.st, r.body, r.snap[l], l, f)

Faithful(r, T, file) == r.pc # "idle" => \A l \in Lines \ T : Changed(r, l, file[l])

\* Where an INSERT is in its values.
Paced(r) ==
    /\ r.pc \in {"take", "new", "claim", "activate"} => r.k = Base(r) + 1
    /\ r.pc = "write" /\ r.st.verb = "INSERT" => r.k \in Base(r) + 1 .. Base(r) + N
    /\ r.pc = "counted" => r.k = Base(r) + N + 1

ChangeInv ==
    /\ \A l \in Lines : Neat(line[l])
    /\ \A c \in Clients : Paced(run[c]) /\ Faithful(run[c], touched[c], line)

LEMMA IdsAre ==
  ASSUME NEW r, NEW X, r.body \in Seq(X)
  PROVE  Ids(r) = IdsIn(r.body)
  <1>1. PICK body \in Seq(X) : body = r.body
    OBVIOUS
  <1>2. Range(body) = {body[n] : n \in 1 .. Len(body)}
    BY DEF Range
  <1> QED BY <1>1, <1>2 DEF Ids, IdsIn

LEMMA IdsAppend ==
  ASSUME NEW body \in Bodies, NEW b \in Record
  PROVE  IdsIn(Append(body, b)) = IdsIn(body) \cup {b[1][1]}
  <1>1. PICK L \in Nat : L = Len(body)
    BY DEF Bodies
  <1>2. PICK v : v = Append(body, b)
    OBVIOUS
  <1>3. Len(v) = L + 1 /\ v[L + 1] = b /\ \A j \in 1 .. L : v[j] = body[j]
    BY <1>1, <1>2 DEF Bodies
  <1>4. \A j \in 1 .. L + 1 : j = L + 1 \/ j \in 1 .. L
    OBVIOUS
  <1>5. L + 1 \in 1 .. L + 1 /\ \A j \in 1 .. L : j \in 1 .. L + 1
    OBVIOUS
  <1>6. IdsIn(v) \subseteq IdsIn(body) \cup {b[1][1]}
    BY <1>1, <1>3, <1>4 DEF IdsIn
  <1>7. IdsIn(body) \cup {b[1][1]} \subseteq IdsIn(v)
    BY <1>1, <1>3, <1>5 DEF IdsIn
  <1> QED BY <1>2, <1>6, <1>7

LEMMA SettledAppend ==
  ASSUME NEW s, NEW body \in Bodies, NEW b \in Record, NEW old, NEW l, NEW f,
         Settled(s, body, old, l, f), l # b[1][1]
  PROVE  Settled(s, Append(body, b), old, l, f)
  <1>1. PICK L \in Nat : L = Len(body)
    BY DEF Bodies
  <1>2. PICK v : v = Append(body, b)
    OBVIOUS
  <1>3. Len(v) = L + 1 /\ \A j \in 1 .. L : v[j] = body[j] /\ j \in 1 .. L + 1
    BY <1>1, <1>2 DEF Bodies
  <1>4. l \in IdsIn(v) <=> l \in IdsIn(body)
    BY <1>2, IdsAppend
  <1> QED BY <1>1, <1>2, <1>3, <1>4 DEF Settled

\* A record is added for line i, which a DELETE has erased or an UPDATE changed.
LEMMA SettledNow ==
  ASSUME NEW s, s.verb # "INSERT", NEW body, NEW old, NEW l, NEW f, l \in IdsIn(body),
         s.verb = "UPDATE" => UpdatedRow(s, old, f),
         s.verb = "DELETE" => f = [old EXCEPT ![0] = 0],
         s.verb \notin {"UPDATE", "DELETE"} => f = old
  PROVE  Settled(s, body, old, l, f)
  BY DEF Settled

LEMMA SettledUnseen ==
  ASSUME NEW s, NEW body, NEW old, NEW l, NEW f, Settled(s, body, old, l, f), l \notin IdsIn(body)
  PROVE  f = old
  BY DEF Settled

LEMMA SettledFresh ==
  ASSUME NEW s, NEW old, NEW l
  PROVE  Settled(s, <<>>, old, l, old)
  <1>1. IdsIn(<<>>) = {}
    BY DEF IdsIn
  <1> QED BY <1>1 DEF Settled

\* The line a thread has come to is in none of its records.
LEMMA Unseen ==
  ASSUME NEW body \in Bodies, NEW i \in Nat, BodyBelow(body, i)
  PROVE  i \notin IdsIn(body)
  <1>1. ASSUME NEW n \in 1 .. Len(body), body[n][1][1] = i PROVE FALSE
    <2>1. body[n][1][1] < i
      BY DEF BodyBelow
    <2> QED BY <1>1, <2>1
  <1> QED BY <1>1 DEF IdsIn

\* Scanning on: what is settled stays so, and a new record is accounted for.
LEMMA ChangedOn ==
  ASSUME NEW r, NEW n, NEW l, NEW f, ~InWork(n, l), n.st = r.st, n.snap = r.snap,
         n.body = r.body, Settled(r.st, r.body, r.snap[l], l, f)
  PROVE  Changed(n, l, f)
  BY DEF Changed

-----------------------------------------------------------------------------
(***************************************************************************)
(* A step of one thread and the others.                                    *)
(***************************************************************************)
LEMMA ChangeKept ==
  ASSUME TypeInv, ChangeInv, NEW c \in Clients, NEW n, Become(c, n), Paced(n),
         Faithful(n, touched[c], line), UNCHANGED <<line, touched>>
  PROVE  ChangeInv'
  <1>1. line' = line /\ touched' = touched
    OBVIOUS
  <1>2. \A d \in Clients : run'[d] = IF d = c THEN n ELSE run[d]
    BY DEF Become, TypeInv
  <1>3. \A l \in Lines : Neat(line'[l])
    BY <1>1 DEF ChangeInv
  <1>4. ASSUME NEW d \in Clients PROVE Paced(run'[d]) /\ Faithful(run'[d], touched'[d], line')
    <2>1. CASE d = c
      BY <1>1, <1>2, <2>1
    <2>2. CASE d # c
      BY <1>1, <1>2, <2>2 DEF ChangeInv
    <2> QED BY <2>1, <2>2
  <1> QED BY <1>3, <1>4 DEF ChangeInv

LEMMA ChangeLine ==
  ASSUME TypeInv, ChangeInv, NEW c \in Clients, NEW n, Become(c, n), Paced(n),
         NEW i \in Lines, NEW f, line' = [line EXCEPT ![i] = f], Neat(f), Touch(c, i),
         Faithful(n, touched[c], [line EXCEPT ![i] = f])
  PROVE  ChangeInv'
  <1>1. \A l \in Lines : line'[l] = IF l = i THEN f ELSE line[l]
    BY DEF TypeInv, Files
  <1>2. \A d \in Clients : run'[d] = IF d = c THEN n ELSE run[d]
    BY DEF Become, TypeInv
  <1>3. \A l \in Lines : Neat(line'[l])
    BY <1>1 DEF ChangeInv
  <1>4. ASSUME NEW d \in Clients PROVE Paced(run'[d]) /\ Faithful(run'[d], touched'[d], line')
    <2>1. CASE d = c
      <3>1. touched'[c] = touched[c]
        BY DEF Touch
      <3> QED BY <1>2, <2>1, <3>1
    <2>2. CASE d # c
      <3>1. Paced(run[d]) /\ Faithful(run[d], touched[d], line) /\ run'[d] = run[d]
        BY <1>2, <2>2 DEF ChangeInv
      <3>2. CASE run[d].pc = "idle"
        BY <3>1, <3>2 DEF Faithful
      <3>3. CASE run[d].pc # "idle"
        <4>1. touched'[d] = touched[d] \cup {i}
          BY <2>2, <3>3 DEF Touch
        <4>2. ASSUME NEW l \in Lines \ touched'[d] PROVE Changed(run[d], l, line'[l])
          <5>1. l \in Lines \ touched[d] /\ l # i
            BY <4>1, <4>2
          <5>2. line'[l] = line[l]
            BY <1>1, <5>1
          <5>3. Changed(run[d], l, line[l])
            BY <3>1, <3>3, <5>1 DEF Faithful
          <5> QED BY <5>2, <5>3
        <4> QED BY <3>1, <4>2 DEF Faithful
      <3> QED BY <3>2, <3>3
    <2> QED BY <2>1, <2>2
  <1> QED BY <1>3, <1>4 DEF ChangeInv

\* Where a thread stands before its step, as constants.
LEMMA BeforeStep ==
  ASSUME TypeInv, ChangeInv, NEW c \in Clients
  PROVE  \E r, T, file :
            /\ r = run[c] /\ T = touched[c] /\ file = line
            /\ r \in Threads /\ Poised(c, r) /\ Paced(r) /\ Faithful(r, T, file)
            /\ T \in SUBSET Lines /\ file \in Files /\ \A l \in Lines : Neat(file[l])
  BY ThreadIs DEF TypeInv, ChangeInv

AllSettled(r, T, file) ==
    \A l \in Lines \ T : Settled(r.st, r.body, r.snap[l], l, file[l])

Busy == {"push", "uncount", "write", "counted"}

LEMMA Resting ==
  ASSUME NEW r, r.pc \notin Busy, NEW T, NEW file
  PROVE  /\ r.pc # "idle" /\ Faithful(r, T, file) => AllSettled(r, T, file)
         /\ AllSettled(r, T, file) => Faithful(r, T, file)
  <1>1. \A l : ~InWork(r, l)
    BY DEF InWork, Busy
  <1>2. \A l, f : Changed(r, l, f) <=> Settled(r.st, r.body, r.snap[l], l, f)
    BY <1>1 DEF Changed
  <1> QED BY <1>2 DEF Faithful, AllSettled

LEMMA FinishedFaithful ==
  ASSUME NEW r \in Threads, NEW T, NEW file, AllSettled(r, T, file)
  PROVE  Faithful(Finished(r), T, file) /\ Paced(Finished(r))
  <1>1. PICK n : n = Finished(r) /\ FinishedTo(r, n)
    BY FinishedIs
  <1>2. n.st = r.st /\ n.body = r.body /\ n.snap = r.snap /\ n.pc \in {"answer", "scan"}
    BY <1>1 DEF FinishedTo
  <1>3. AllSettled(n, T, file)
    BY <1>2 DEF AllSettled
  <1>4. Faithful(n, T, file)
    BY <1>2, <1>3, Resting DEF Busy
  <1>5. Paced(n)
    BY <1>2 DEF Paced
  <1> QED BY <1>1, <1>4, <1>5

LEMMA SelectedFaithful ==
  ASSUME NEW c \in Clients, NEW r \in Threads, Scanning(c, r), NEW T, NEW file,
         AllSettled(r, T, file)
  PROVE  Faithful(Selected(r), T, file) /\ Paced(Selected(r))
  <1>1. PICK n : n = Selected(r) /\ SelectedTo(r, n)
    BY SelectedIs
  <1>2. n.st = r.st /\ n.snap = r.snap /\ n.k = 1 /\ r.st.verb # "INSERT"
    BY <1>1 DEF SelectedTo, Scanning
  <1>3. n.pc \in {"answer", "scan", "deactivate", "read", "write"}
    BY <1>1 DEF SelectedTo
  <1>4. Paced(n)
    BY <1>2, <1>3 DEF Paced
  <1>5. PICK i \in Nat, body \in Bodies : i = r.i /\ body = r.body
    BY DEF Threads
  <1>6. i \notin IdsIn(body)
    <2>1. BodyBelow(body, i)
      <3>1. CASE IsDirect(r.st)
        BY <1>5, <3>1 DEF Scanning, BodyBelow
      <3> QED BY <1>5, <3>1 DEF Scanning
    <2> QED BY <2>1, Unseen
  <1>7. CASE r.st.verb # "DELETE" /\ ColumnsOf(r.st) = <<>>
    <2>1. PICK b \in Record : b = <<<<i>>>> /\ b[1][1] = i
      <3>1. <<<<i>>>>[1][1] = i
        OBVIOUS
      <3> QED BY <3>1, IdType
    <2>2. n.body = Append(body, b) /\ n.pc \in {"answer", "scan"}
      BY <1>1, <1>5, <1>7, <2>1 DEF SelectedTo
    <2>3. ASSUME NEW l \in Lines \ T
          PROVE  Settled(r.st, Append(body, b), r.snap[l], l, file[l])
      <3>1. Settled(r.st, body, r.snap[l], l, file[l])
        BY <1>5 DEF AllSettled
      <3>2. CASE l # i
        BY <2>1, <3>1, <3>2, SettledAppend
      <3>3. CASE l = i
        <4>1. file[l] = r.snap[l]
          BY <1>6, <3>1, <3>3, SettledUnseen
        <4>2. l \in IdsIn(Append(body, b))
          BY <2>1, <3>3, IdsAppend
        <4>3. ASSUME r.st.verb = "UPDATE" PROVE UpdatedRow(r.st, r.snap[l], file[l])
          <5>1. DOMAIN <<>> = {}
            OBVIOUS
          <5>2. Assigned(r.st) = {}
            BY <1>7, <4>3, <5>1 DEF Assigned
          <5> QED BY <4>1, <5>2 DEF UpdatedRow
        <4> QED BY <1>2, <1>7, <4>1, <4>2, <4>3, SettledNow
      <3> QED BY <3>2, <3>3
    <2>4. AllSettled(n, T, file)
      BY <1>2, <2>2, <2>3 DEF AllSettled
    <2>5. Faithful(n, T, file)
      BY <2>2, <2>4, Resting DEF Busy
    <2> QED BY <1>1, <1>4, <2>5
  <1>8. CASE r.st.verb = "DELETE" \/ ColumnsOf(r.st) # <<>>
    <2>1. n.body = body /\ n.i = i
      BY <1>1, <1>5, <1>8 DEF SelectedTo
    <2>2. ASSUME NEW l \in Lines \ T PROVE Changed(n, l, file[l])
      <3>1. Settled(r.st, body, r.snap[l], l, file[l])
        BY <1>5 DEF AllSettled
      <3>2. CASE ~InWork(n, l)
        BY <1>2, <2>1, <3>1, <3>2 DEF Changed
      <3>3. CASE InWork(n, l)
        <4>1. l = i /\ n.pc = "write"
          BY <1>3, <2>1, <3>3 DEF InWork
        <4>2. file[l] = r.snap[l]
          BY <1>6, <3>1, <4>1, SettledUnseen
        <4>3. \A j \in 1 .. n.k - 1 : FALSE
          BY <1>2
        <4>4. PartUpdated(n.st, n.k - 1, r.snap[l], file[l])
          BY <4>2, <4>3 DEF PartUpdated
        <4> QED BY <1>2, <3>3, <4>1, <4>4 DEF Changed
      <3> QED BY <3>2, <3>3
    <2> QED BY <1>1, <1>4, <2>2 DEF Faithful
  <1> QED BY <1>7, <1>8

\* A thread that only moves on.
LEMMA ChangeMoves ==
  ASSUME TypeInv, ChangeInv, NEW c \in Clients, NEW n, Become(c, n),
         UNCHANGED <<line, touched>>,
         NEW r, r = run[c], r.pc # "idle", r.pc \notin Busy, n.pc \notin Busy,
         n.st = r.st, n.snap = r.snap, n.body = r.body, Paced(n)
  PROVE  ChangeInv'
  <1>1. PICK T, file : T = touched[c] /\ file = line /\ Faithful(r, T, file)
    BY DEF ChangeInv
  <1>2. AllSettled(r, T, file)
    BY <1>1, Resting
  <1>3. AllSettled(n, T, file)
    BY <1>2 DEF AllSettled
  <1>4. Faithful(n, T, file)
    BY <1>3, Resting
  <1> QED BY <1>1, <1>4, ChangeKept

LEMMA ChangeSubmit ==
  ASSUME TypeInv, ChangeInv, NEW c \in Clients, Submit(c)
  PROVE  ChangeInv'
  <1>1. PICK s \in Statements[c] :
          LET r == [Idle EXCEPT !.st = s, !.snap = line, !.conds = Conditions(s)]
              d == [r EXCEPT !.i = Conditions(s)[1].val[1]]
          IN Become(c, IF Refused(s)
                       THEN [r EXCEPT !.pc = IF Uncaught(s) THEN "uncaught" ELSE "answer"]
                       ELSE IF s.verb = "INSERT"
                       THEN [r EXCEPT !.pc = IF s.vals = <<>> THEN "answer" ELSE "take"]
                       ELSE IF ~IsDirect(s) THEN [r EXCEPT !.pc = "bound"]
                       ELSE IF s.verb = "SELECT" THEN Selected(d)
                       ELSE [d EXCEPT !.pc = "probe"])
    BY DEF Submit
  <1>2. PICK file : file = line /\ file \in Files
    BY DEF TypeInv
  <1>3. PICK r : r = [Idle EXCEPT !.st = s, !.snap = file, !.conds = Conditions(s)]
    OBVIOUS
  <1>4. PICK d : d = [r EXCEPT !.i = Conditions(s)[1].val[1]]
    OBVIOUS
  <1>5. Become(c, IF Refused(s)
                  THEN [r EXCEPT !.pc = IF Uncaught(s) THEN "uncaught" ELSE "answer"]
                  ELSE IF s.verb = "INSERT"
                  THEN [r EXCEPT !.pc = IF s.vals = <<>> THEN "answer" ELSE "take"]
                  ELSE IF ~IsDirect(s) THEN [r EXCEPT !.pc = "bound"]
                  ELSE IF s.verb = "SELECT" THEN Selected(d)
                  ELSE [d EXCEPT !.pc = "probe"])
    BY <1>1, <1>2, <1>3, <1>4, Zenon
  <1>6. /\ r.st = s /\ r.snap = file /\ r.body = <<>> /\ r.k = 1
        /\ d.st = s /\ d.snap = file /\ d.body = <<>>
    <2>1. PICK cs : cs = Conditions(s)
      OBVIOUS
    <2>2. PICK S : S = [verb |-> "NONE", cols |-> <<>>, vals |-> <<>>, clauses |-> <<>>]
      OBVIOUS
    <2>3. r = [[pc |-> "idle", st |-> S, conds |-> <<>>, i |-> 0, last |-> 0, cnt |-> 0,
                k |-> 1, ok |-> FALSE, rec |-> <<>>, body |-> <<>>, snap |-> <<>>]
                  EXCEPT !.st = s, !.snap = file, !.conds = cs]
      BY <1>3, <2>1, <2>2 DEF Idle
    <2>4. r = [pc |-> "idle", st |-> s, conds |-> cs, i |-> 0, last |-> 0, cnt |-> 0,
               k |-> 1, ok |-> FALSE, rec |-> <<>>, body |-> <<>>, snap |-> file]
      BY <2>3
    <2> QED BY <1>4, <2>4
  <1>7. \A l \in Lines : Settled(s, <<>>, file[l], l, file[l])
    BY SettledFresh
  <1>8. PICK n : /\ Become(c, n) /\ Paced(n)
                 /\ Faithful(n, {}, file)
    <2>1. ASSUME NEW p \in {"answer", "uncaught", "take", "bound"}, NEW n, n = [r EXCEPT !.pc = p]
          PROVE  Paced(n) /\ Faithful(n, {}, file)
      <3>1. n.st = s /\ n.snap = file /\ n.body = <<>> /\ n.k = 1 /\ n.pc = p
        <4>1. "pc" \in DOMAIN r
          BY <1>3 DEF Idle
        <4> QED BY <1>6, <2>1, <4>1
      <3>2. AllSettled(n, {}, file)
        BY <1>7, <3>1 DEF AllSettled
      <3>3. Faithful(n, {}, file)
        BY <2>1, <3>1, <3>2, Resting DEF Busy
      <3>4. Base(n) = 0
        <4>1. PICK m \in Nat : m = N
          BY ColumnsType
        <4>2. Len(<<>>) * m = 0
          OBVIOUS
        <4> QED BY <3>1, <4>1, <4>2 DEF Base
      <3>5. Paced(n)
        BY <2>1, <3>1, <3>4 DEF Paced
      <3> QED BY <3>3, <3>5
    <2>2. CASE Refused(s) \/ s.verb = "INSERT" \/ ~IsDirect(s)
      <3>1. \E p \in {"answer", "uncaught", "take", "bound"} : Become(c, [r EXCEPT !.pc = p])
        BY <1>5, <2>2
      <3> QED BY <2>1, <3>1
    <2>3. CASE ~Refused(s) /\ s.verb # "INSERT" /\ IsDirect(s) /\ s.verb # "SELECT"
      <3>1. PICK n : n = [d EXCEPT !.pc = "probe"] /\ Become(c, n)
        BY <1>5, <2>3
      <3>2. n.st = s /\ n.snap = file /\ n.body = <<>> /\ n.pc = "probe"
        <4>1. "pc" \in DOMAIN d
          BY <1>3, <1>4 DEF Idle
        <4> QED BY <1>6, <3>1, <4>1
      <3>3. AllSettled(n, {}, file)
        BY <1>7, <3>2 DEF AllSettled
      <3>4. Faithful(n, {}, file)
        BY <3>2, <3>3, Resting DEF Busy
      <3>5. Paced(n)
        BY <3>2 DEF Paced
      <3> QED BY <3>1, <3>4, <3>5
    <2>4. CASE ~Refused(s) /\ s.verb = "SELECT" /\ IsDirect(s)
      <3>1. PICK n : n = Selected(d) /\ Become(c, n)
        BY <1>5, <2>4
      <3>2. SelectedTo(d, n)
        <4>1. d \in Threads
          <5>1. PICK x \in Nat, cs \in CondSeqs :
                   x = Conditions(s)[1].val[1] /\ cs = Conditions(s)
            <6>1. PICK cs : cs = Conditions(s) /\ cs \in Seq(WhereItem) /\ CondsOK(cs)
                            /\ cs \in CondSeqs
              BY InStmts, ConditionsOK DEF CondSeqs
            <6>2. cs # <<>> /\ Kind(cs[1]) = "DIRECT"
              BY <2>4, <6>1 DEF IsDirect
            <6>3. 1 \in 1 .. Len(cs)
              BY <6>1, <6>2
            <6>4. PICK e \in WhereItem : e = cs[1]
              BY <6>1, <6>3
            <6>5. e.word = "cond" => e.val # <<>>
              BY <6>1, <6>3, <6>4 DEF CondsOK
            <6>6. Kind(e) \in Bounds
              BY <6>2, <6>4 DEF Bounds
            <6>7. e.val[1] \in Nat
              BY <6>5, <6>6, BoundValue
            <6> QED BY <6>1, <6>4, <6>7
          <5>2. r = [Idle EXCEPT !.st = s, !.snap = file, !.conds = cs]
            BY <1>3, <5>1
          <5>3. s \in Stmts /\ file \in Snaps
            BY <1>2, InStmts DEF Snaps
          <5>4. r \in Threads
            BY <5>2, <5>3, IdleType DEF Threads
          <5> QED BY <1>4, <5>1, <5>4 DEF Threads
        <4> QED BY <3>1, <4>1, SelectedIs
      <3>3. n.st = s /\ n.snap = file /\ n.pc \in {"answer", "scan", "read"}
        BY <1>6, <2>4, <3>2 DEF SelectedTo
      <3>4. AllSettled(n, {}, file)
        BY <2>4, <3>3 DEF AllSettled, Settled
      <3>5. Faithful(n, {}, file)
        BY <3>3, <3>4, Resting DEF Busy
      <3>6. Paced(n)
        BY <3>3 DEF Paced
      <3> QED BY <3>1, <3>5, <3>6
    <2>5. s.verb # "INSERT" \/ s.verb = "INSERT"
      OBVIOUS
    <2> QED BY <2>2, <2>3, <2>4
  <1>9. line' = line /\ \A d2 \in Clients : run'[d2] = IF d2 = c THEN n ELSE run[d2]
    BY <1>8 DEF Submit, Become, TypeInv
  <1>10. \A d2 \in Clients : d2 # c => touched'[d2] = touched[d2]
    BY DEF Submit, TypeInv
  <1>11. ASSUME NEW d2 \in Clients
         PROVE  Paced(run'[d2]) /\ Faithful(run'[d2], touched'[d2], line')
    <2>1. CASE d2 = c
      BY <1>2, <1>8, <1>9, <2>1 DEF Faithful
    <2>2. CASE d2 # c
      BY <1>9, <1>10, <2>2 DEF ChangeInv
    <2> QED BY <2>1, <2>2
  <1>12. \A l \in Lines : Neat(line'[l])
    BY <1>9 DEF ChangeInv
  <1> QED BY <1>11, <1>12 DEF ChangeInv

LEMMA ChangeAnswer ==
  ASSUME TypeInv, ChangeInv, NEW c \in Clients, Answer(c)
  PROVE  ChangeInv'
  <1>1. line' = line /\ \A d \in Clients : run'[d] = IF d = c THEN Idle ELSE run[d]
    BY DEF Answer, Become, TypeInv
  <1>2. \A d \in Clients : d # c => touched'[d] = touched[d]
    BY DEF Answer, TypeInv
  <1>3. \A T, file : Paced(Idle) /\ Faithful(Idle, T, file)
    BY IdleType DEF Paced, Faithful
  <1>4. ASSUME NEW d \in Clients PROVE Paced(run'[d]) /\ Faithful(run'[d], touched'[d], line')
    <2>1. CASE d = c
      BY <1>1, <1>3, <2>1
    <2>2. CASE d # c
      BY <1>1, <1>2, <2>2 DEF ChangeInv
    <2> QED BY <2>1, <2>2
  <1>5. \A l \in Lines : Neat(line'[l])
    BY <1>1 DEF ChangeInv
  <1> QED BY <1>4, <1>5 DEF ChangeInv

LEMMA ChangeBound ==
  ASSUME TypeInv, ChangeInv, NEW c \in Clients, Bound(c)
  PROVE  ChangeInv'
  <1>1. PICK r : r = run[c] /\ r \in Threads
    BY ThreadIs
  <1>2. r.pc = "bound" /\ UNCHANGED <<line, touched>>
    BY <1>1 DEF Bound, At
  <1>3. PICK a, b, d : Become(c, [r EXCEPT !.pc = "count", !.last = a, !.i = b, !.conds = d])
    BY <1>1 DEF Bound
  <1>4. PICK n : n = [r EXCEPT !.pc = "count", !.last = a, !.i = b, !.conds = d]
    OBVIOUS
  <1>5. n.pc = "count" /\ n.st = r.st /\ n.snap = r.snap /\ n.body = r.body
    BY <1>1, <1>4 DEF Threads
  <1>6. Paced(n)
    BY <1>5 DEF Paced
  <1>7. r.pc # "idle" /\ r.pc \notin Busy /\ n.pc \notin Busy
    BY <1>2, <1>5 DEF Busy
  <1> QED BY <1>1, <1>2, <1>3, <1>4, <1>5, <1>6, <1>7, ChangeMoves

LEMMA ChangeCount ==
  ASSUME TypeInv, ChangeInv, NEW c \in Clients, Count(c)
  PROVE  ChangeInv'
  <1>1. PICK r : r = run[c] /\ r \in Threads
    BY ThreadIs
  <1>2. r.pc = "count" /\ UNCHANGED <<line, touched>>
    BY <1>1 DEF Count, At
  <1>3. PICK a : Become(c, [r EXCEPT !.pc = "scan", !.cnt = a])
    BY <1>1 DEF Count
  <1>4. PICK n : n = [r EXCEPT !.pc = "scan", !.cnt = a]
    OBVIOUS
  <1>5. n.pc = "scan" /\ n.st = r.st /\ n.snap = r.snap /\ n.body = r.body
    BY <1>1, <1>4 DEF Threads
  <1>6. Paced(n)
    BY <1>5 DEF Paced
  <1>7. r.pc # "idle" /\ r.pc \notin Busy /\ n.pc \notin Busy
    BY <1>2, <1>5 DEF Busy
  <1> QED BY <1>1, <1>2, <1>3, <1>4, <1>5, <1>6, <1>7, ChangeMoves

LEMMA ChangeScanLine ==
  ASSUME TypeInv, ChangeInv, NEW c \in Clients, ScanLine(c)
  PROVE  ChangeInv'
  <1>1. PICK r, T, file :
            /\ r = run[c] /\ T = touched[c] /\ file = line
            /\ r \in Threads /\ Poised(c, r) /\ Faithful(r, T, file)
    BY BeforeStep
  <1>2. r.pc = "scan" /\ UNCHANGED <<line, touched>>
    BY <1>1 DEF ScanLine, At
  <1>3. Scanning(c, r) /\ AllSettled(r, T, file)
    BY <1>1, <1>2, Resting DEF Poised, Busy
  <1>4. Become(c, IF ~Active(line, r.i) THEN Finished(r)
                  ELSE IF r.conds = <<>> THEN Selected(r)
                  ELSE [r EXCEPT !.pc = "test", !.k = 1, !.ok = FALSE])
    BY <1>1 DEF ScanLine
  <1>5. CASE Become(c, Finished(r))
    BY <1>1, <1>2, <1>3, <1>5, FinishedFaithful, ChangeKept
  <1>6. CASE Become(c, Selected(r))
    BY <1>1, <1>2, <1>3, <1>6, SelectedFaithful, ChangeKept
  <1>7. CASE Become(c, [r EXCEPT !.pc = "test", !.k = 1, !.ok = FALSE])
    <2>1. PICK n : n = [r EXCEPT !.pc = "test", !.k = 1, !.ok = FALSE]
      OBVIOUS
    <2>2. n.pc = "test" /\ n.st = r.st /\ n.snap = r.snap /\ n.body = r.body
      BY <1>1, <2>1 DEF Threads
    <2>3. Paced(n)
      BY <2>2 DEF Paced
    <2>4. r.pc # "idle" /\ r.pc \notin Busy /\ n.pc \notin Busy
      BY <1>2, <2>2 DEF Busy
    <2> QED BY <1>1, <1>2, <1>7, <2>1, <2>2, <2>3, <2>4, ChangeMoves
  <1> QED BY <1>4, <1>5, <1>6, <1>7

LEMMA ChangeProbeLine ==
  ASSUME TypeInv, ChangeInv, NEW c \in Clients, ProbeLine(c)
  PROVE  ChangeInv'
  <1>1. PICK r, T, file :
            /\ r = run[c] /\ T = touched[c] /\ file = line
            /\ r \in Threads /\ Poised(c, r) /\ Faithful(r, T, file)
            /\ file \in Files /\ \A l \in Lines : Neat(file[l])
    BY BeforeStep
  <1>2. r.pc = "probe" /\ r.i \in Lines /\ UNCHANGED <<line, touched>>
    BY <1>1 DEF ProbeLine, At
  <1>3. Scanning(c, r) /\ AllSettled(r, T, file) /\ IsDirect(r.st)
    BY <1>1, <1>2, Resting DEF Poised, Busy
  <1>4. Become(c, IF Active(line, r.i) THEN Selected(r)
                  ELSE [r EXCEPT !.pc = "answer",
                                 !.body = IF r.st.verb = "DELETE" THEN <<<<<<r.i>>>>>>
                                          ELSE <<>>])
    BY <1>1 DEF ProbeLine
  <1>5. CASE Active(line, r.i)
    <2>1. Become(c, Selected(r))
      BY <1>4, <1>5
    <2> QED BY <1>1, <1>2, <1>3, <2>1, SelectedFaithful, ChangeKept
  <1>6. CASE ~Active(line, r.i)
    <2>1. PICK i \in Lines : i = r.i
      BY <1>2
    <2>2. file[i][0] = 0
      BY <1>1, <1>6, <2>1 DEF Active, Neat
    <2>3. PICK z : z = IF r.st.verb = "DELETE" THEN <<<<<<i>>>>>> ELSE <<>>
      OBVIOUS
    <2>4. PICK n : n = [r EXCEPT !.pc = "answer", !.body = z]
      OBVIOUS
    <2>5. Become(c, n)
      BY <1>4, <1>6, <2>1, <2>3, <2>4
    <2>6. n.pc = "answer" /\ n.st = r.st /\ n.snap = r.snap /\ n.body = z
      BY <1>1, <2>4 DEF Threads
    <2>7. r.body = <<>>
      BY <1>3 DEF Scanning
    <2>8. ASSUME NEW l \in Lines \ T PROVE Settled(r.st, z, r.snap[l], l, file[l])
      <3>1. Settled(r.st, <<>>, r.snap[l], l, file[l])
        BY <1>3, <2>7 DEF AllSettled
      <3>2. CASE r.st.verb # "DELETE"
        BY <2>3, <3>1, <3>2
      <3>3. CASE r.st.verb = "DELETE"
        <4>1. Len(z) = 1 /\ z[1][1][1] = i
          BY <2>3, <3>3
        <4>2. IdsIn(z) = {i}
          BY <4>1 DEF IdsIn
        <4>3. IdsIn(<<>>) = {}
          BY DEF IdsIn
        <4>4. file[l] = r.snap[l]
          BY <3>1, <4>3, SettledUnseen
        <4>5. ASSUME l = i PROVE file[l] = [r.snap[l] EXCEPT ![0] = 0]
          <5>1. PICK f \in ByteLines : f = file[l] /\ f[0] = 0
            BY <1>1, <2>2, <4>5 DEF Files
          <5>2. f = [f EXCEPT ![0] = 0]
            BY <5>1 DEF ByteLines
          <5> QED BY <4>4, <5>1, <5>2
        <4> QED BY <3>3, <4>2, <4>4, <4>5 DEF Settled
      <3> QED BY <3>2, <3>3
    <2>9. AllSettled(n, T, file)
      BY <2>6, <2>8 DEF AllSettled
    <2>10. Faithful(n, T, file) /\ Paced(n)
      BY <2>6, <2>9, Resting DEF Busy, Paced
    <2> QED BY <1>1, <1>2, <2>5, <2>10, ChangeKept
  <1> QED BY <1>5, <1>6

LEMMA ChangeTest ==
  ASSUME TypeInv, ChangeInv, NEW c \in Clients, Test(c)
  PROVE  ChangeInv'
  <1>1. PICK r, T, file :
            /\ r = run[c] /\ T = touched[c] /\ file = line
            /\ r \in Threads /\ Poised(c, r) /\ Faithful(r, T, file)
    BY BeforeStep
  <1>2. r.pc = "test" /\ UNCHANGED <<line, touched>>
    BY <1>1 DEF Test, At
  <1>3. Scanning(c, r) /\ AllSettled(r, T, file)
    BY <1>1, <1>2, Resting DEF Poised, Busy
  <1>4. \/ \E now : Become(c, [r EXCEPT !.k = @ + 1, !.ok = now])
        \/ Become(c, Selected(r))
        \/ Become(c, Finished(r))
    BY <1>1 DEF Test
  <1>5. CASE Become(c, Finished(r))
    BY <1>1, <1>2, <1>3, <1>5, FinishedFaithful, ChangeKept
  <1>6. CASE Become(c, Selected(r))
    BY <1>1, <1>2, <1>3, <1>6, SelectedFaithful, ChangeKept
  <1>7. CASE \E now : Become(c, [r EXCEPT !.k = @ + 1, !.ok = now])
    <2>1. PICK now, n : n = [r EXCEPT !.k = @ + 1, !.ok = now] /\ Become(c, n)
      BY <1>7
    <2>2. n.pc = "test" /\ n.st = r.st /\ n.snap = r.snap /\ n.body = r.body
      BY <1>1, <1>2, <2>1 DEF Threads
    <2>3. Paced(n)
      BY <2>2 DEF Paced
    <2>4. r.pc # "idle" /\ r.pc \notin Busy /\ n.pc \notin Busy
      BY <1>2, <2>2 DEF Busy
    <2> QED BY <1>1, <1>2, <2>1, <2>2, <2>3, <2>4, ChangeMoves
  <1> QED BY <1>4, <1>5, <1>6, <1>7

\* The record of the line a thread is at is added.
LEMMA Reported ==
  ASSUME NEW x \in Threads, NEW b \in Record, NEW y, y = [x EXCEPT !.body = Append(@, b)],
         NEW T, NEW file,
         \A l \in Lines \ T : l # b[1][1] => Settled(x.st, x.body, x.snap[l], l, file[l]),
         \A l \in Lines \ T : l = b[1][1] =>
             Settled(x.st, Append(x.body, b), x.snap[l], l, file[l])
  PROVE  y \in Threads /\ AllSettled(y, T, file)
  <1>1. PICK body \in Bodies : body = x.body
    BY DEF Threads
  <1>2. PICK z \in Bodies : z = Append(body, b)
    BY AppendBody
  <1>3. y = [x EXCEPT !.body = z]
    BY <1>1, <1>2
  <1>4. y \in Threads /\ y.st = x.st /\ y.snap = x.snap /\ y.body = z
    BY <1>3 DEF Threads
  <1>5. ASSUME NEW l \in Lines \ T PROVE Settled(x.st, z, x.snap[l], l, file[l])
    <2>1. CASE l = b[1][1]
      BY <1>1, <1>2, <2>1
    <2>2. CASE l # b[1][1]
      BY <1>1, <1>2, <2>2, SettledAppend
    <2> QED BY <2>1, <2>2
  <1> QED BY <1>4, <1>5 DEF AllSettled

LEMMA ChangeReadColumn ==
  ASSUME TypeInv, ChangeInv, NEW c \in Clients, ReadColumn(c)
  PROVE  ChangeInv'
  <1>1. PICK r, T, file :
            /\ r = run[c] /\ T = touched[c] /\ file = line
            /\ r \in Threads /\ Poised(c, r) /\ Faithful(r, T, file)
    BY BeforeStep
  <1>2. r.pc = "read" /\ UNCHANGED <<line, touched>>
    BY <1>1 DEF ReadColumn, At
  <1>3. r.st.verb = "SELECT" /\ AllSettled(r, T, file)
    BY <1>1, <1>2, Resting DEF Poised, Busy
  <1>4. PICK x : /\ x = [r EXCEPT !.k = @ + 1,
                                  !.rec = Append(@, Cell(line[r.i], ColumnsOf(r.st)[r.k]))]
                 /\ Become(c, x) \/ Become(c, Finished([x EXCEPT !.body = Append(@, x.rec)]))
    BY <1>1, Zenon DEF ReadColumn
  <1>5. PICK k, rec : x = [r EXCEPT !.k = k, !.rec = rec]
    BY <1>4
  <1>6. x.pc = "read" /\ x.st = r.st /\ x.snap = r.snap /\ x.body = r.body
    BY <1>1, <1>2, <1>5 DEF Threads
  <1>7. \A l \in Lines \ T : file[l] = r.snap[l]
    BY <1>3 DEF AllSettled, Settled
  <1>8. CASE Become(c, x)
    <2>1. Paced(x)
      BY <1>6 DEF Paced
    <2>2. r.pc # "idle" /\ r.pc \notin Busy /\ x.pc \notin Busy
      BY <1>2, <1>6 DEF Busy
    <2> QED BY <1>1, <1>2, <1>6, <1>8, <2>1, <2>2, ChangeMoves
  <1>9. CASE Become(c, Finished([x EXCEPT !.body = Append(@, x.rec)]))
    <2>1. PICK y : y = [x EXCEPT !.body = Append(@, x.rec)]
      OBVIOUS
    <2>2. y.st = r.st /\ y.snap = r.snap
      BY <1>6, <2>1
    <2>3. PICK n : /\ n = Finished(y)
                   /\ n.st = r.st /\ n.snap = r.snap /\ n.pc \in {"answer", "scan"}
      <3>1. "pc" \in DOMAIN y /\ "st" \in DOMAIN y /\ "snap" \in DOMAIN y
        BY <1>1, <1>5, <2>1 DEF Threads
      <3>2. CASE IsDirect(y.st)
        <4>1. Finished(y) = [y EXCEPT !.pc = "answer"]
          BY <3>2 DEF Finished
        <4> QED BY <2>2, <3>1, <4>1
      <3>3. CASE ~IsDirect(y.st)
        <4>1. Finished(y) = [y EXCEPT !.pc = "scan", !.i = @ + 1]
          BY <3>3 DEF Finished
        <4> QED BY <2>2, <3>1, <4>1
      <3> QED BY <3>2, <3>3
    <2>4. AllSettled(n, T, file)
      BY <1>3, <1>7, <2>3 DEF AllSettled, Settled
    <2>5. Faithful(n, T, file) /\ Paced(n)
      BY <2>3, <2>4, Resting DEF Busy, Paced
    <2> QED BY <1>1, <1>2, <1>9, <2>1, <2>3, <2>5, ChangeKept
  <1> QED BY <1>4, <1>8, <1>9

LEMMA ChangeEndScan ==
  ASSUME TypeInv, ChangeInv, NEW c \in Clients, EndScan(c)
  PROVE  ChangeInv'
  <1>1. PICK r, T, file :
            /\ r = run[c] /\ T = touched[c] /\ file = line
            /\ r \in Threads /\ Poised(c, r) /\ Faithful(r, T, file)
    BY BeforeStep
  <1>2. r.pc = "scan" /\ UNCHANGED <<line, touched>>
    BY <1>1 DEF EndScan, At
  <1>3. Scanning(c, r) /\ AllSettled(r, T, file)
    BY <1>1, <1>2, Resting DEF Poised, Busy
  <1>4. PICK s, body : s = r.st /\ body = r.body /\ Records(s, body)
    BY <1>3 DEF Scanning
  <1>5. IsStatement(s) /\ ~Refused(s) /\ body \in Seq(Record) /\ s.verb # "INSERT"
    BY <1>3, <1>4, InStmts DEF Scanning, Records, Bodies
  <1>6. PICK z : z = Sorted(s, body) /\ IdsIn(z) = IdsIn(body)
    <2>1. PICK L \in Nat : L = Len(body) /\ DOMAIN body = 1 .. L
      BY <1>5
    <2>2. InTotalOrder(s, body)
      BY <1>4, <1>5, <2>1, BeforeIsOrder DEF Records
    <2>3. PICK p, z : z = Sorted(s, body) /\ Permutes(p, L, body, z)
      BY <1>5, <2>1, <2>2, SortedIs
    <2>4. /\ p \in [1 .. L -> 1 .. L] /\ \A j \in 1 .. L : \E m \in 1 .. L : p[m] = j
          /\ z = [m \in 1 .. L |-> body[p[m]]]
      BY <2>3 DEF Permutes
    <2>5. z \in Seq(Record) /\ Len(z) = L
      BY <1>5, <2>1, <2>4
    <2>6. IdsIn(z) \subseteq IdsIn(body)
      <3>1. SUFFICES ASSUME NEW m \in 1 .. L PROVE z[m][1][1] \in IdsIn(body)
        BY <2>5 DEF IdsIn
      <3>2. p[m] \in 1 .. L /\ z[m] = body[p[m]]
        BY <2>4
      <3> QED BY <2>1, <3>2 DEF IdsIn
    <2>7. IdsIn(body) \subseteq IdsIn(z)
      <3>1. SUFFICES ASSUME NEW j \in 1 .. L PROVE body[j][1][1] \in IdsIn(z)
        BY <2>1 DEF IdsIn
      <3>2. PICK m \in 1 .. L : p[m] = j
        BY <2>4
      <3>3. z[m] = body[j]
        BY <2>4, <3>2
      <3> QED BY <2>5, <3>3 DEF IdsIn
    <2> QED BY <2>3, <2>6, <2>7
  <1>7. PICK n : n = [r EXCEPT !.pc = "answer", !.body = z]
    OBVIOUS
  <1>8. Become(c, n)
    BY <1>1, <1>4, <1>6, <1>7 DEF EndScan
  <1>9. n.pc = "answer" /\ n.st = s /\ n.snap = r.snap /\ n.body = z
    BY <1>1, <1>4, <1>7 DEF Threads
  <1>10. AllSettled(n, T, file)
    BY <1>3, <1>4, <1>5, <1>6, <1>9 DEF AllSettled, Settled
  <1>11. Faithful(n, T, file) /\ Paced(n)
    BY <1>9, <1>10, Resting DEF Busy, Paced
  <1> QED BY <1>1, <1>2, <1>8, <1>11, ChangeKept

-----------------------------------------------------------------------------
(***************************************************************************)
(* The actions that change lines.                                          *)
(***************************************************************************)
\* The value h of a row is number q + h, and goes to column h.
LEMMA RowValues ==
  ASSUME NEW m \in Nat, NEW q, q = m * N, NEW h \in 1 .. N
  PROVE  /\ q \in Nat
         /\ (q + h - 1) % N = h - 1
         /\ (q + h) % N = 0 <=> h = N
  <1>1. PICK M \in Nat \ {0} : M = N
    BY ColumnsType
  <1>2. q = m * M /\ h \in 1 .. M
    BY <1>1
  <1> HIDE DEF N
  <1>3. q \in Nat
    BY <1>2
  <1>4. \A x \in 0 .. M - 1 : (m * M + x) % M = x
    OBVIOUS
  <1>5. (q + h - 1) % M = h - 1
    <2>1. h - 1 \in 0 .. M - 1 /\ q + h - 1 = q + (h - 1)
      BY <1>2, <1>3
    <2> QED BY <1>2, <1>4, <2>1
  <1>6. CASE h = M
    <2>1. q + h = (m + 1) * M
      BY <1>2, <1>6
    <2>2. ((m + 1) * M + 0) % M = 0
      OBVIOUS
    <2> QED BY <1>1, <1>3, <1>5, <1>6, <2>1, <2>2
  <1>7. CASE h # M
    <2>1. h \in 0 .. M - 1 /\ h # 0
      BY <1>2, <1>7
    <2>2. (q + h) % M = h
      BY <1>2, <1>4, <2>1
    <2> QED BY <1>1, <1>3, <1>5, <1>7, <2>1, <2>2
  <1> QED BY <1>6, <1>7

\* One more value of an UPDATE.
LEMMA PartNext ==
  ASSUME NEW s, Accepted(s), s.verb = "UPDATE", NEW k \in Assigned(s), NEW old,
         NEW f \in ByteLines, Clean(f), PartUpdated(s, k - 1, old, f)
  PROVE  PartUpdated(s, k, old, Store(f, Offset[Target(s, k)], Bytes(s, k)))
  <1> SUFFICES ASSUME Tidy(s)
               PROVE  PartUpdated(s, k, old, Store(f, Offset[Target(s, k)], Bytes(s, k)))
    BY DEF PartUpdated
  <1>1. PICK i \in 1 .. N : i = Target(s, k) /\ k \in Nat \ {0}
    BY TargetType
  <1>2. PICK g : g = Store(f, Offset[Target(s, k)], Bytes(s, k))
    OBVIOUS
  <1>3. Len(s.vals[k]) <= Columns[Target(s, k)].size
    BY DEF Tidy
  <1>4. /\ Cell(g, i) = Shown(s, k, Cell(f, i)) /\ g[0] = f[0]
        /\ \A h \in 1 .. N : h # i => Cell(g, h) = Cell(f, h)
    BY <1>1, <1>2, <1>3, ColumnWritten
  <1>5. /\ f[0] = old[0]
        /\ \A j \in 1 .. k - 1 : Cell(f, Target(s, j)) = Shown(s, j, Cell(old, Target(s, j)))
        /\ \A h \in 1 .. N : (\A j \in 1 .. k - 1 : Target(s, j) # h) => Cell(f, h) = Cell(old, h)
    BY DEF PartUpdated
  <1>6. ASSUME NEW j \in 1 .. k - 1 PROVE Target(s, j) # i /\ Target(s, j) \in 1 .. N
    <2>1. j \in Assigned(s)
      <3>1. PICK L \in Nat : Assigned(s) = 1 .. L
        <4>1. ColumnsOf(s) \in Seq(1 .. N)
          BY SentType, ColumnsOfType DEF Accepted
        <4>2. PICK L \in Nat : DOMAIN ColumnsOf(s) = 1 .. L
          BY <4>1
        <4> QED BY <4>2 DEF Assigned
      <3> QED BY <1>1, <3>1
    <2>2. j # k
      BY <1>1
    <2> QED BY <1>1, <2>1, <2>2, TargetType DEF Tidy
  <1>7. Cell(f, i) = Cell(old, i)
    BY <1>5, <1>6
  <1>8. \A j \in 1 .. k : j = k \/ j \in 1 .. k - 1
    BY <1>1
  <1>9. \A j \in 1 .. k : Cell(g, Target(s, j)) = Shown(s, j, Cell(old, Target(s, j)))
    <2> TAKE j \in 1 .. k
    <2>1. CASE j = k
      BY <1>1, <1>4, <1>7, <2>1
    <2>2. CASE j \in 1 .. k - 1
      BY <1>4, <1>5, <1>6, <2>2
    <2> QED BY <1>8, <2>1, <2>2
  <1>10. ASSUME NEW h \in 1 .. N, \A j \in 1 .. k : Target(s, j) # h PROVE Cell(g, h) = Cell(old, h)
    <2>1. h # i /\ \A j \in 1 .. k - 1 : Target(s, j) # h
      BY <1>1, <1>10
    <2> QED BY <1>4, <1>5, <2>1
  <1> QED BY <1>2, <1>4, <1>5, <1>9, <1>10 DEF PartUpdated

\* All values of an UPDATE.
LEMMA PartAll ==
  ASSUME NEW s, Accepted(s), s.verb = "UPDATE", NEW old \in ByteLines, NEW f,
         PartUpdated(s, Len(ColumnsOf(s)), old, f)
  PROVE  UpdatedRow(s, old, f)
  <1>1. ColumnsOf(s) \in Seq(1 .. N)
    BY SentType, ColumnsOfType DEF Accepted
  <1>2. Assigned(s) = 1 .. Len(ColumnsOf(s))
    BY <1>1 DEF Assigned
  <1> SUFFICES ASSUME Tidy(s) PROVE UpdatedRow(s, old, f)
    BY DEF UpdatedRow
  <1>3. /\ f[0] = old[0]
        /\ \A j \in Assigned(s) : Cell(f, Target(s, j)) = Shown(s, j, Cell(old, Target(s, j)))
        /\ \A i \in 1 .. N : (\A j \in Assigned(s) : Target(s, j) # i) => Cell(f, i) = Cell(old, i)
    BY <1>2 DEF PartUpdated
  <1>6. s.verb = "UPDATE"
    OBVIOUS
  <1>4. ASSUME NEW j \in Assigned(s), ~Shorter(s, j, old)
        PROVE  Cell(f, Target(s, j)) = s.vals[j]
    <2>1. PICK i \in 1 .. N, v \in Value : i = Target(s, j) /\ v = s.vals[j]
      BY TargetType
    <2>4. PICK w : w = Cell(old, i)
      OBVIOUS
    <2>2. CASE ~Columns[i].text
      BY <1>3, <2>1, <2>2 DEF Shown
    <2>3. CASE Columns[i].text
      <3>1. Cell(f, i) = Overlay(v, w)
        BY <1>3, <1>6, <2>1, <2>3, <2>4 DEF Shown
      <3>2. w \in Seq(Nat)
        BY <2>1, <2>4, CellType DEF Value
      <3>3. ~(Len(v) < Len(w)) /\ Len(v) \in Nat /\ Len(w) \in Nat
        BY <1>4, <2>1, <2>3, <2>4, <3>2 DEF Shorter, Value
      <3>4. SubSeq(w, Len(v) + 1, Len(w)) = <<>>
        BY <3>2, <3>3
      <3>5. v \o <<>> = v
        BY DEF Value
      <3> QED BY <2>1, <3>1, <3>4, <3>5 DEF Overlay
    <2> QED BY <2>1, <2>2, <2>3
  <1>5. DOMAIN Columns = 1 .. N
    BY ColumnsType
  <1> QED BY <1>3, <1>4, <1>5 DEF UpdatedRow

LEMMA ChangeWriteUpdate ==
  ASSUME TypeInv, ChangeInv, NEW c \in Clients, WriteColumn(c), run[c].st.verb # "INSERT"
  PROVE  ChangeInv'
  <1>1. PICK r, T, file :
            /\ r = run[c] /\ T = touched[c] /\ file = line
            /\ r \in Threads /\ Poised(c, r) /\ Faithful(r, T, file)
            /\ file \in Files /\ \A l \in Lines : Neat(file[l])
    BY BeforeStep
  <1>2. r.pc = "write"
    BY <1>1 DEF WriteColumn, At
  <1>3. /\ r.i \in Lines /\ r.k \in Assigned(r.st)
        /\ Scanning(c, r) /\ r.st.verb = "UPDATE" /\ r.rec = <<<<r.i>>>>
    BY <1>1, <1>2 DEF Poised, Inserting
  <1>21. PICK i \in Lines : i = r.i
    BY <1>3
  <1>4. PICK s, k : s = r.st /\ i = r.i /\ k = r.k /\ k \in Assigned(s)
    BY <1>3, <1>21
  <1>5. Accepted(s) /\ s.verb = "UPDATE" /\ IsStatement(s)
    BY <1>3, <1>4, InStmts DEF Scanning, Accepted
  <1>6. k \in Nat \ {0} /\ k + 1 \in Positive /\ (k + 1) - 1 = k
    <2>1. k \in Nat \ {0}
      BY <1>4, <1>5, TargetType
    <2> QED BY <2>1 DEF Positive
  <1>23. file \in [Lines -> ByteLines] /\ Neat(file[i])
    BY <1>1 DEF Files
  <1>22. PICK g \in ByteLines : g = file[i] /\ Neat(g)
    BY <1>23
  <1>7. PICK f : /\ g = file[i] /\ Neat(g)
                 /\ f = Store(g, Offset[Target(s, k)], Bytes(s, k))
    BY <1>22
  <1>8. line' = [line EXCEPT ![i] = f] /\ Touch(c, i)
    BY <1>1, <1>4, <1>7 DEF WriteColumn
  <1>9. Neat(f)
    <2>5. PICK t \in 1 .. N : t = Target(s, k)
      BY <1>4, <1>5, TargetType
    <2>1. PICK v : t = Target(s, k) /\ v = Bytes(s, k) /\ Writes(t, v)
      BY <1>4, <1>5, <2>5, BytesWrite
    <2>2. f = Store(g, Offset[t], v) /\ Clean(g) /\ g[0] \in {0, 1}
      BY <1>7, <2>1 DEF Neat
    <2>3. Clean(f)
      BY <2>1, <2>2, CleanStore
    <2>4. f[0] = g[0]
      BY <2>1, <2>2, WritesType, FlagStore
    <2> QED BY <2>2, <2>3, <2>4 DEF Neat
  <1>10. PICK new : /\ new = [file EXCEPT ![i] = f]
                    /\ \A l \in Lines : new[l] = IF l = i THEN f ELSE file[l]
    <2>1. file \in [Lines -> ByteLines] /\ i \in Lines
      BY <1>1, <1>21 DEF Files
    <2>2. PICK x : x = [file EXCEPT ![i] = f]
      OBVIOUS
    <2>3. \A l \in Lines : x[l] = IF l = i THEN f ELSE file[l]
      BY <2>1, <2>2
    <2> QED BY <2>2, <2>3
  <1>11. ASSUME NEW l \in Lines \ T PROVE Changed(r, l, file[l])
    BY <1>1, <1>2 DEF Faithful
  <1>12. ASSUME NEW l \in Lines \ T, l # i PROVE Settled(s, r.body, r.snap[l], l, new[l])
    BY <1>4, <1>10, <1>11, <1>12 DEF Changed, InWork
  <1>13. ASSUME i \notin T PROVE PartUpdated(s, k, r.snap[i], f)
    <2>1. InWork(r, i)
      BY <1>2, <1>4 DEF InWork
    <2>2. PartUpdated(s, k - 1, r.snap[i], g)
      BY <1>2, <1>4, <1>5, <1>7, <1>11, <1>13, <2>1 DEF Changed
    <2> QED BY <1>4, <1>5, <1>7, <2>2, PartNext DEF Neat
  <1>14. PICK kk \in Positive : kk = k + 1
    BY <1>6
  <1>15. PICK x : x = [r EXCEPT !.k = kk]
    OBVIOUS
  <1>16. /\ x \in Threads /\ x.st = s /\ x.snap = r.snap /\ x.body = r.body
         /\ x.pc = "write" /\ x.i = i /\ x.k = kk
    BY <1>1, <1>2, <1>4, <1>15 DEF Threads
  <1>17. PICK b \in Record : b = r.rec /\ b[1][1] = i
    <2>1. i \in Nat /\ <<<<i>>>>[1][1] = i
      BY LinesAre
    <2>2. PICK b \in Record : b = <<<<i>>>>
      BY <2>1, IdType
    <2> QED BY <1>3, <1>4, <2>1, <2>2
  <1>18. Become(c, IF k < Len(ColumnsOf(s)) THEN x
                   ELSE Finished([x EXCEPT !.body = Append(@, b)]))
    <2>1. x = [r EXCEPT !.k = @ + 1]
      BY <1>4, <1>14, <1>15
    <2> QED BY <1>1, <1>4, <1>5, <1>17, <2>1 DEF WriteColumn
  <1>19. CASE k < Len(ColumnsOf(s))
    <2>1. Become(c, x)
      BY <1>18, <1>19
    <2>2. Paced(x)
      BY <1>5, <1>16 DEF Paced
    <2>3. ASSUME NEW l \in Lines \ T PROVE Changed(x, l, new[l])
      <3>1. CASE l = i
        <4>1. PartUpdated(x.st, x.k - 1, x.snap[l], new[l])
          BY <1>6, <1>10, <1>13, <1>14, <1>16, <3>1
        <4> QED BY <1>5, <1>16, <4>1, <3>1 DEF Changed, InWork
      <3>2. CASE l # i
        BY <1>12, <1>16, <3>2 DEF Changed, InWork
      <3> QED BY <3>1, <3>2
    <2>4. Faithful(x, T, new)
      BY <2>3 DEF Faithful
    <2> QED BY <1>1, <1>8, <1>9, <1>10, <2>1, <2>2, <2>4, ChangeLine
  <1>20. CASE ~(k < Len(ColumnsOf(s)))
    <2>1. PICK y : y = [x EXCEPT !.body = Append(@, b)]
      OBVIOUS
    <2>2. Become(c, Finished(y))
      BY <1>18, <1>20, <2>1
    <2>3. k = Len(ColumnsOf(s))
      <3>1. PICK L \in Nat : L = Len(ColumnsOf(s)) /\ DOMAIN ColumnsOf(s) = 1 .. L
        BY <1>5, ColumnsOfType DEF Accepted
      <3>2. k \in 1 .. L
        BY <1>4, <1>5, <3>1 DEF Assigned
      <3> QED BY <1>20, <3>1, <3>2
    <2>4. ASSUME NEW l \in Lines \ T, l = i
          PROVE  Settled(x.st, Append(x.body, b), x.snap[l], l, new[l])
      <3>4. r.snap \in [Lines -> ByteLines]
        BY <1>3 DEF Scanning, Files
      <3>5. PICK old \in ByteLines : old = r.snap[i]
        BY <3>4
      <3>1. UpdatedRow(s, r.snap[l], new[l])
        BY <1>5, <1>10, <1>13, <2>3, <2>4, <3>5, PartAll
      <3>2. x.body \in Bodies
        BY <1>16 DEF Threads
      <3>3. l \in IdsIn(Append(x.body, b))
        BY <1>17, <2>4, <3>2, IdsAppend
      <3> QED BY <1>5, <1>16, <3>1, <3>3, SettledNow
    <2>5. \A l \in Lines \ T : l # b[1][1] => Settled(x.st, x.body, x.snap[l], l, new[l])
      BY <1>12, <1>16, <1>17
    <2>6. \A l \in Lines \ T : l = b[1][1] =>
             Settled(x.st, Append(x.body, b), x.snap[l], l, new[l])
      BY <1>17, <2>4
    <2>7. y \in Threads /\ AllSettled(y, T, new)
      BY <1>16, <2>1, <2>5, <2>6, Reported
    <2>8. Faithful(Finished(y), T, new) /\ Paced(Finished(y))
      BY <2>7, FinishedFaithful
    <2> QED BY <1>1, <1>8, <1>9, <1>10, <2>2, <2>8, ChangeLine
  <1> QED BY <1>19, <1>20

LEMMA ChangeWriteInsert ==
  ASSUME TypeInv, ChangeInv, NEW c \in Clients, WriteColumn(c), run[c].st.verb = "INSERT"
  PROVE  ChangeInv'
  <1>1. PICK r, T, file :
            /\ r = run[c] /\ T = touched[c] /\ file = line
            /\ r \in Threads /\ Poised(c, r) /\ Paced(r) /\ Faithful(r, T, file)
            /\ file \in Files /\ \A l \in Lines : Neat(file[l])
    BY BeforeStep
  <1>2. r.pc = "write"
    BY <1>1 DEF WriteColumn, At
  <1>3. r.i \in Lines /\ r.k \in Assigned(r.st) /\ Inserting(c, r) /\ r.st.verb = "INSERT"
    BY <1>1, <1>2 DEF Poised, Scanning
  <1>4. PICK i \in Lines : i = r.i
    BY <1>3
  <1>5. PICK s, k : s = r.st /\ k = r.k /\ k \in Assigned(s)
    BY <1>3
  <1>6. Accepted(s) /\ s.verb = "INSERT" /\ IsStatement(s)
    BY <1>3, <1>5, InStmts DEF Inserting, Accepted
  <1>7. PICK m \in Nat : m = Len(r.body)
    BY <1>1 DEF Threads, Bodies
  <1>8. PICK q : q = m * N /\ q = Base(r)
    BY <1>7 DEF Base
  <1>9. q \in Nat /\ k \in q + 1 .. q + N
    <2>1. q \in Nat
      BY <1>8, ColumnsType
    <2> QED BY <1>1, <1>2, <1>3, <1>5, <1>8, <2>1 DEF Paced
  <1>10. PICK h \in 1 .. N : k = q + h
    <2>1. PICK M \in Nat : M = N
      BY ColumnsType
    <2>2. k \in q + 1 .. q + M
      BY <1>9, <2>1
    <2>3. k - q \in 1 .. M /\ k = q + (k - q)
      BY <1>9, <2>2
    <2> QED BY <2>1, <2>3
  <1>11. /\ (k - 1) % N = h - 1 /\ (k % N = 0 <=> h = N)
    <2>1. (q + h - 1) % N = h - 1 /\ ((q + h) % N = 0 <=> h = N)
      BY <1>8, RowValues
    <2>2. h \in Nat
      BY ColumnsType
    <2>3. k - 1 = q + h - 1
      BY <1>9, <1>10, <2>2
    <2> QED BY <1>10, <2>1, <2>3, Zenon
  <1>12. Target(s, k) = h
    <2>1. (h - 1) + 1 = h
      BY ColumnsType
    <2> QED BY <1>6, <1>11, <2>1 DEF Target, N
  <1>13. file \in [Lines -> ByteLines] /\ Neat(file[i])
    BY <1>1 DEF Files
  <1>14. PICK g \in ByteLines : g = file[i] /\ Neat(g)
    BY <1>13
  <1>15. PICK f : f = Store(g, Offset[h], Bytes(s, k))
    OBVIOUS
  <1>16. line' = [line EXCEPT ![i] = f] /\ Touch(c, i)
    BY <1>1, <1>4, <1>5, <1>12, <1>14, <1>15 DEF WriteColumn
  <1>17. Neat(f)
    <2>1. PICK v : v = Bytes(s, k) /\ Writes(h, v)
      BY <1>5, <1>6, <1>12, BytesWrite
    <2>2. f = Store(g, Offset[h], v) /\ Clean(g) /\ g[0] \in {0, 1}
      BY <1>14, <1>15, <2>1 DEF Neat
    <2>3. Clean(f)
      BY <2>1, <2>2, CleanStore
    <2>4. f[0] = g[0]
      BY <2>1, <2>2, WritesType, FlagStore
    <2> QED BY <2>2, <2>3, <2>4 DEF Neat
  <1>18. PICK new : /\ new = [file EXCEPT ![i] = f]
                    /\ \A l \in Lines : new[l] = IF l = i THEN f ELSE file[l]
    <2>1. file \in [Lines -> ByteLines] /\ i \in Lines
      BY <1>1, <1>4 DEF Files
    <2>2. PICK x : x = [file EXCEPT ![i] = f]
      OBVIOUS
    <2>3. \A l \in Lines : x[l] = IF l = i THEN f ELSE file[l]
      BY <2>1, <2>2
    <2> QED BY <2>2, <2>3
  <1>19. ASSUME NEW l \in Lines \ T PROVE Changed(r, l, file[l])
    BY <1>1, <1>2 DEF Faithful
  <1>20. ASSUME NEW l \in Lines \ T, l # i PROVE Settled(s, r.body, r.snap[l], l, new[l])
    BY <1>4, <1>5, <1>18, <1>19, <1>20 DEF Changed, InWork
  <1>21. /\ Cell(f, h) = Shown(s, k, Cell(g, h)) /\ f[0] = g[0]
         /\ \A j \in 1 .. N : j # h => Cell(f, j) = Cell(g, j)
    BY <1>5, <1>6, <1>12, <1>14, <1>15, ColumnWritten DEF Neat
  <1>22. InsertedColumn(s, q, h, f)
    BY <1>6, <1>10, <1>12, <1>21 DEF Shown, InsertedColumn
  <1>23. ASSUME i \notin T
         PROVE  f[0] = 1 /\ \A j \in 1 .. N : q + j < k + 1 => InsertedColumn(s, q, j, f)
    <2>1. InWork(r, i)
      BY <1>2, <1>4 DEF InWork
    <2>2. g[0] = 1 /\ \A j \in 1 .. N : q + j < k => InsertedColumn(s, q, j, g)
      BY <1>2, <1>3, <1>5, <1>8, <1>14, <1>19, <1>23, <2>1 DEF Changed
    <2>3. ASSUME NEW j \in 1 .. N, q + j < k + 1 PROVE InsertedColumn(s, q, j, f)
      <3>1. j \in Nat /\ h \in Nat
        BY ColumnsType
      <3>2. j = h \/ (j # h /\ q + j < k)
        BY <1>9, <1>10, <2>3, <3>1
      <3>3. CASE j = h
        BY <1>22, <3>3
      <3>4. CASE j # h /\ q + j < k
        <4>1. Cell(f, j) = Cell(g, j)
          BY <1>21, <3>4
        <4>2. InsertedColumn(s, q, j, g)
          BY <2>2, <3>4
        <4> QED BY <4>1, <4>2 DEF InsertedColumn
      <3> QED BY <3>2, <3>3, <3>4
    <2> QED BY <1>21, <2>2, <2>3
  <1>24. PICK kk \in Positive : kk = k + 1
    BY <1>9 DEF Positive
  <1>25. PICK p \in {"write", "counted"} : p = IF h = N THEN "counted" ELSE "write"
    OBVIOUS
  <1>26. PICK n : n = [r EXCEPT !.k = kk, !.pc = p]
    OBVIOUS
  <1>27. /\ n.st = s /\ n.snap = r.snap /\ n.body = r.body
         /\ n.pc = p /\ n.i = i /\ n.k = kk
    BY <1>1, <1>4, <1>5, <1>26 DEF Threads
  <1>28. Become(c, n)
    <2>1. PICK x : x = [r EXCEPT !.k = kk]
      OBVIOUS
    <2>2. x = [r EXCEPT !.k = @ + 1] /\ x.pc = "write"
      BY <1>1, <1>2, <1>5, <1>24, <2>1 DEF Threads
    <2>3. Become(c, [x EXCEPT !.pc = IF k % N = 0 THEN "counted" ELSE @])
      BY <1>1, <1>5, <1>6, <2>2 DEF WriteColumn, N
    <2>4. n = [x EXCEPT !.pc = IF k % N = 0 THEN "counted" ELSE @]
      BY <1>11, <1>25, <1>26, <2>1, <2>2
    <2> QED BY <2>3, <2>4
  <1>29. Base(n) = q
    BY <1>8, <1>27 DEF Base
  <1>30. Paced(n)
    <2>1. PICK M \in Nat : M = N
      BY ColumnsType
    <2>2. h \in 1 .. M /\ kk = q + h + 1
      BY <1>10, <1>24, <2>1
    <2>3. h = M => kk = q + M + 1
      BY <1>9, <2>2
    <2>4. h # M => kk \in q + 1 .. q + M
      BY <1>9, <2>2
    <2> QED BY <1>25, <1>27, <1>29, <2>1, <2>3, <2>4 DEF Paced
  <1>31. ASSUME NEW l \in Lines \ T PROVE Changed(n, l, new[l])
    <2>1. CASE l = i
      <3>1. InWork(n, l) /\ new[l] = f /\ i \notin T
        BY <1>18, <1>27, <2>1 DEF InWork
      <3>2. f[0] = 1 /\ \A j \in 1 .. N : Base(n) + j < n.k => InsertedColumn(n.st, Base(n), j, f)
        BY <1>23, <1>24, <1>27, <1>29, <3>1
      <3> QED BY <1>6, <1>25, <1>27, <3>1, <3>2 DEF Changed
    <2>2. CASE l # i
      BY <1>20, <1>27, <2>2 DEF Changed, InWork
    <2> QED BY <2>1, <2>2
  <1>32. Faithful(n, T, new)
    BY <1>31 DEF Faithful
  <1> QED BY <1>1, <1>16, <1>17, <1>18, <1>28, <1>30, <1>32, ChangeLine

LEMMA ChangeDeactivate ==
  ASSUME TypeInv, ChangeInv, NEW c \in Clients, Deactivate(c)
  PROVE  ChangeInv'
  <1>1. PICK r, T, file :
            /\ r = run[c] /\ T = touched[c] /\ file = line
            /\ r \in Threads /\ Poised(c, r) /\ Faithful(r, T, file)
            /\ file \in Files /\ \A l \in Lines : Neat(file[l])
    BY BeforeStep
  <1>2. r.pc = "deactivate"
    BY <1>1 DEF Deactivate, At
  <1>3. Scanning(c, r) /\ AllSettled(r, T, file) /\ r.st.verb = "DELETE" /\ r.i \in Lines
    BY <1>1, <1>2, Resting DEF Poised, Busy
  <1>4. PICK i \in Lines : i = r.i
    BY <1>3
  <1>5. file \in [Lines -> ByteLines] /\ Neat(file[i])
    BY <1>1 DEF Files
  <1>6. PICK g \in ByteLines : g = file[i] /\ Neat(g)
    BY <1>5
  <1>7. PICK f : f = [g EXCEPT ![0] = 0]
    OBVIOUS
  <1>8. line' = [line EXCEPT ![i] = f] /\ Touch(c, i)
    BY <1>1, <1>4, <1>6, <1>7 DEF Deactivate
  <1>9. Neat(f)
    <2>1. 0 \in Byte
      BY DEF Byte
    <2>2. Clean(g)
      BY <1>6 DEF Neat
    <2>3. g \in ByteLines /\ f = [g EXCEPT ![0] = 0]
      BY <1>6, <1>7
    <2>4. f[0] = 0
      BY <2>1, <2>3, FlagKeeps, ZenonT(30)
    <2>5. Clean(f)
      BY <2>1, <2>2, <2>3, FlagKeeps, ZenonT(30)
    <2> QED BY <2>4, <2>5 DEF Neat
  <1>10. PICK new : /\ new = [file EXCEPT ![i] = f]
                    /\ \A l \in Lines : new[l] = IF l = i THEN f ELSE file[l]
    <2>1. file \in [Lines -> ByteLines] /\ i \in Lines
      BY <1>1, <1>4 DEF Files
    <2>2. PICK x : x = [file EXCEPT ![i] = f]
      OBVIOUS
    <2>3. \A l \in Lines : x[l] = IF l = i THEN f ELSE file[l]
      BY <2>1, <2>2
    <2> QED BY <2>2, <2>3
  <1>11. i \notin IdsIn(r.body)
    <2>1. PICK body \in Bodies : body = r.body
      BY <1>1 DEF Threads
    <2>2. BodyBelow(body, i)
      <3>1. CASE IsDirect(r.st)
        BY <1>3, <2>1, <3>1 DEF Scanning, BodyBelow
      <3> QED BY <1>3, <1>4, <2>1, <3>1 DEF Scanning
    <2> QED BY <2>1, <2>2, Unseen, LinesAre
  <1>12. PICK n : n = [r EXCEPT !.pc = "push"]
    OBVIOUS
  <1>13. /\ n.st = r.st /\ n.snap = r.snap /\ n.body = r.body /\ n.pc = "push" /\ n.i = i
    BY <1>1, <1>4, <1>12 DEF Threads
  <1>14. Become(c, n) /\ Paced(n)
    BY <1>1, <1>12, <1>13 DEF Deactivate, Paced
  <1>15. ASSUME NEW l \in Lines \ T PROVE Changed(n, l, new[l])
    <2>1. Settled(r.st, r.body, r.snap[l], l, file[l])
      BY <1>3 DEF AllSettled
    <2>2. CASE l = i
      <3>1. file[l] = r.snap[l]
        BY <1>11, <2>1, <2>2, SettledUnseen
      <3>2. new[l] = [r.snap[l] EXCEPT ![0] = 0]
        BY <1>6, <1>7, <1>10, <2>2, <3>1
      <3> QED BY <1>13, <2>2, <3>2 DEF Changed, InWork
    <2>3. CASE l # i
      BY <1>10, <1>13, <2>1, <2>3 DEF Changed, InWork
    <2> QED BY <2>2, <2>3
  <1>16. Faithful(n, T, new)
    BY <1>15 DEF Faithful
  <1> QED BY <1>1, <1>8, <1>9, <1>10, <1>14, <1>16, ChangeLine

LEMMA ChangeActivate ==
  ASSUME TypeInv, ChangeInv, NEW c \in Clients, Activate(c)
  PROVE  ChangeInv'
  <1>1. PICK r, T, file :
            /\ r = run[c] /\ T = touched[c] /\ file = line
            /\ r \in Threads /\ Poised(c, r) /\ Paced(r) /\ Faithful(r, T, file)
            /\ file \in Files /\ \A l \in Lines : Neat(file[l])
    BY BeforeStep
  <1>2. r.pc = "activate"
    BY <1>1 DEF Activate, At
  <1>3. AllSettled(r, T, file) /\ r.st.verb = "INSERT" /\ r.i \in Lines
    BY <1>1, <1>2, Resting DEF Poised, Inserting, Busy
  <1>4. PICK i \in Lines : i = r.i
    BY <1>3
  <1>5. file \in [Lines -> ByteLines] /\ Neat(file[i])
    BY <1>1 DEF Files
  <1>6. PICK g \in ByteLines : g = file[i] /\ Neat(g)
    BY <1>5
  <1>7. PICK f : f = [g EXCEPT ![0] = 1]
    OBVIOUS
  <1>8. line' = [line EXCEPT ![i] = f] /\ Touch(c, i)
    BY <1>1, <1>4, <1>6, <1>7 DEF Activate
  <1>9. Neat(f) /\ f[0] = 1
    <2>1. 1 \in Byte
      BY DEF Byte
    <2>2. Clean(g)
      BY <1>6 DEF Neat
    <2>3. g \in ByteLines /\ f = [g EXCEPT ![0] = 1]
      BY <1>6, <1>7
    <2>4. f[0] = 1
      BY <2>1, <2>3, FlagKeeps, ZenonT(30)
    <2>5. Clean(f)
      BY <2>1, <2>2, <2>3, FlagKeeps, ZenonT(30)
    <2> QED BY <2>4, <2>5 DEF Neat
  <1>10. PICK new : /\ new = [file EXCEPT ![i] = f]
                    /\ \A l \in Lines : new[l] = IF l = i THEN f ELSE file[l]
    <2>1. file \in [Lines -> ByteLines] /\ i \in Lines
      BY <1>1, <1>4 DEF Files
    <2>2. PICK x : x = [file EXCEPT ![i] = f]
      OBVIOUS
    <2>3. \A l \in Lines : x[l] = IF l = i THEN f ELSE file[l]
      BY <2>1, <2>2
    <2> QED BY <2>2, <2>3
  <1>11. PICK n : n = [r EXCEPT !.pc = "write"]
    OBVIOUS
  <1>12. /\ n.st = r.st /\ n.snap = r.snap /\ n.body = r.body /\ n.pc = "write" /\ n.i = i
         /\ n.k = r.k
    BY <1>1, <1>4, <1>11 DEF Threads
  <1>13. PICK q \in Nat : q = Base(n) /\ n.k = q + 1
    <2>1. PICK m \in Nat, M \in Nat : m = Len(r.body) /\ M = N
      BY <1>1, ColumnsType DEF Threads, Bodies
    <2>2. m * M \in Nat
      OBVIOUS
    <2> QED BY <1>1, <1>2, <1>12, <2>1, <2>2 DEF Paced, Base
  <1>14. Become(c, n)
    BY <1>1, <1>11 DEF Activate
  <1>15. Paced(n)
    <2>1. PICK M \in Nat \ {0} : M = N
      BY ColumnsType
    <2>2. n.k \in q + 1 .. q + M
      BY <1>13, <2>1
    <2> QED BY <1>12, <1>13, <2>1, <2>2 DEF Paced
  <1>16. ASSUME NEW l \in Lines \ T PROVE Changed(n, l, new[l])
    <2>1. Settled(r.st, r.body, r.snap[l], l, file[l])
      BY <1>3 DEF AllSettled
    <2>2. CASE l = i
      <3>1. ASSUME NEW j \in 1 .. N, Base(n) + j < n.k PROVE FALSE
        <4>1. PICK M \in Nat \ {0} : M = N
          BY ColumnsType
        <4>2. j \in 1 .. M
          BY <4>1
        <4> QED BY <1>13, <3>1, <4>2
      <3>2. new[l][0] = 1
        BY <1>9, <1>10, <2>2
      <3> QED BY <1>3, <1>12, <2>2, <3>1, <3>2 DEF Changed, InWork
    <2>3. CASE l # i
      BY <1>10, <1>12, <2>1, <2>3 DEF Changed, InWork
    <2> QED BY <2>2, <2>3
  <1>17. Faithful(n, T, new)
    BY <1>16 DEF Faithful
  <1> QED BY <1>1, <1>8, <1>9, <1>10, <1>14, <1>15, <1>17, ChangeLine

-----------------------------------------------------------------------------
(***************************************************************************)
(* The actions that change the counters and the stack of Tabble.           *)
(***************************************************************************)
LEMMA ChangePushInStack ==
  ASSUME TypeInv, ChangeInv, NEW c \in Clients, PushInStack(c)
  PROVE  ChangeInv'
  <1>1. PICK r, T, file :
            /\ r = run[c] /\ T = touched[c] /\ file = line
            /\ r \in Threads /\ Faithful(r, T, file)
    BY BeforeStep
  <1>2. r.pc = "push" /\ UNCHANGED <<line, touched>>
    BY <1>1 DEF PushInStack, At
  <1>3. PICK n : n = [r EXCEPT !.pc = "uncount"] /\ Become(c, n)
    BY <1>1 DEF PushInStack
  <1>4. /\ n.st = r.st /\ n.snap = r.snap /\ n.body = r.body /\ n.i = r.i /\ n.pc = "uncount"
    BY <1>1, <1>3 DEF Threads
  <1>5. Paced(n)
    BY <1>4 DEF Paced
  <1>6. ASSUME NEW l \in Lines \ T PROVE Changed(n, l, file[l])
    <2>1. Changed(r, l, file[l])
      BY <1>1, <1>2 DEF Faithful
    <2>2. InWork(n, l) <=> InWork(r, l)
      BY <1>2, <1>4 DEF InWork
    <2>3. CASE InWork(r, l)
      BY <1>2, <1>4, <2>1, <2>2, <2>3 DEF Changed
    <2>4. CASE ~InWork(r, l)
      BY <1>4, <2>1, <2>2, <2>4 DEF Changed
    <2> QED BY <2>3, <2>4
  <1>7. Faithful(n, T, file)
    BY <1>6 DEF Faithful
  <1> QED BY <1>1, <1>2, <1>3, <1>5, <1>7, ChangeKept

LEMMA ChangeUncount ==
  ASSUME TypeInv, ChangeInv, NEW c \in Clients, Uncount(c)
  PROVE  ChangeInv'
  <1>1. PICK r, T, file :
            /\ r = run[c] /\ T = touched[c] /\ file = line
            /\ r \in Threads /\ Poised(c, r) /\ Faithful(r, T, file)
    BY BeforeStep
  <1>2. r.pc = "uncount" /\ UNCHANGED <<line, touched>>
    BY <1>1 DEF Uncount, At
  <1>3. r.st.verb = "DELETE" /\ r.i \in Lines /\ r.rec = <<<<r.i>>>>
    BY <1>1, <1>2 DEF Poised
  <1>4. PICK i \in Lines : i = r.i
    BY <1>3
  <1>5. PICK b \in Record : b = r.rec /\ b[1][1] = i
    <2>1. i \in Nat /\ <<<<i>>>>[1][1] = i
      BY LinesAre
    <2>2. PICK b \in Record : b = <<<<i>>>>
      BY <2>1, IdType
    <2> QED BY <1>3, <1>4, <2>1, <2>2
  <1>6. PICK y : y = [r EXCEPT !.body = Append(@, b)]
    OBVIOUS
  <1>7. Become(c, Finished(y))
    BY <1>1, <1>5, <1>6 DEF Uncount
  <1>8. ASSUME NEW l \in Lines \ T PROVE Changed(r, l, file[l])
    BY <1>1, <1>2 DEF Faithful
  <1>9. \A l \in Lines \ T : l # b[1][1] => Settled(r.st, r.body, r.snap[l], l, file[l])
    BY <1>4, <1>5, <1>8 DEF Changed, InWork
  <1>10. ASSUME NEW l \in Lines \ T, l = b[1][1]
         PROVE  Settled(r.st, Append(r.body, b), r.snap[l], l, file[l])
    <2>1. InWork(r, l)
      BY <1>2, <1>4, <1>5, <1>10 DEF InWork
    <2>2. file[l] = [r.snap[l] EXCEPT ![0] = 0]
      BY <1>2, <1>8, <2>1 DEF Changed
    <2>3. r.body \in Bodies
      BY <1>1 DEF Threads
    <2>4. l \in IdsIn(Append(r.body, b))
      BY <1>5, <1>10, <2>3, IdsAppend
    <2> QED BY <1>3, <2>2, <2>4, SettledNow
  <1>11. y \in Threads /\ AllSettled(y, T, file)
    <2>1. \A l \in Lines \ T : l = b[1][1] =>
             Settled(r.st, Append(r.body, b), r.snap[l], l, file[l])
      BY <1>10
    <2> QED BY <1>1, <1>5, <1>6, <1>9, <2>1, Reported
  <1>12. Faithful(Finished(y), T, file) /\ Paced(Finished(y))
    BY <1>11, FinishedFaithful
  <1> QED BY <1>1, <1>2, <1>7, <1>12, ChangeKept

\* An INSERT looks for its line.
LEMMA ChangeTakes ==
  ASSUME TypeInv, ChangeInv, NEW c \in Clients, UNCHANGED <<line, touched>>,
         NEW r, r = run[c], NEW n, NEW i, Become(c, n),
         r.pc \in {"take", "new", "claim"},
         NEW p \in {"new", "claim", "activate"}, n = [r EXCEPT !.pc = p, !.i = i]
  PROVE  ChangeInv'
  <1>1. r \in Threads /\ Paced(r)
    BY DEF TypeInv, ChangeInv
  <1>2. n.st = r.st /\ n.snap = r.snap /\ n.body = r.body /\ n.pc = p /\ n.k = r.k
    BY <1>1 DEF Threads
  <1>3. Paced(n)
    BY <1>1, <1>2 DEF Paced, Base
  <1>4. r.pc # "idle" /\ r.pc \notin Busy /\ n.pc \notin Busy
    BY <1>2 DEF Busy
  <1> QED BY <1>2, <1>3, <1>4, ChangeMoves

LEMMA ChangeTaking ==
  ASSUME TypeInv, ChangeInv, NEW c \in Clients,
         PopFreeId(c) \/ LoadFreeId(c) \/ CountNewLine(c) \/ ClaimLine(c)
  PROVE  ChangeInv'
  <1>1. PICK r : r = run[c] /\ r \in Threads
    BY ThreadIs
  <1>2. r.pc \in {"take", "new", "claim"} /\ UNCHANGED <<line, touched>>
    BY <1>1 DEF PopFreeId, LoadFreeId, CountNewLine, ClaimLine, At
  <1>3. PICK n, i, p : /\ Become(c, n) /\ p \in {"new", "claim", "activate"}
                       /\ n = [r EXCEPT !.pc = p, !.i = i]
    <2>1. CASE PopFreeId(c)
      BY <1>1, <2>1, ZenonT(30) DEF PopFreeId
    <2>2. CASE LoadFreeId(c)
      BY <1>1, <2>2, ZenonT(30) DEF LoadFreeId
    <2>3. CASE CountNewLine(c)
      <3>1. [r EXCEPT !.pc = "claim"] = [r EXCEPT !.pc = "claim", !.i = r.i]
        BY <1>1 DEF Threads
      <3>2. Become(c, [r EXCEPT !.pc = "claim"])
        BY <1>1, <2>3, ZenonT(30) DEF CountNewLine
      <3> QED BY <3>1, <3>2
    <2>4. CASE ClaimLine(c)
      <3>1. [r EXCEPT !.pc = "activate"] = [r EXCEPT !.pc = "activate", !.i = r.i]
        BY <1>1 DEF Threads
      <3>2. Become(c, [r EXCEPT !.pc = "activate"])
        BY <1>1, <2>4, ZenonT(30) DEF ClaimLine
      <3> QED BY <3>1, <3>2
    <2> QED BY <2>1, <2>2, <2>3, <2>4
  <1>4. r.pc \in {"take", "new", "claim"} /\ p \in {"new", "claim", "activate"}
    BY <1>2, <1>3
  <1> QED BY <1>1, <1>2, <1>3, <1>4, ChangeTakes, ZenonT(30)

LEMMA ChangeCountInserted ==
  ASSUME TypeInv, ChangeInv, NEW c \in Clients, CountInserted(c)
  PROVE  ChangeInv'
  <1>1. PICK r, T, file :
            /\ r = run[c] /\ T = touched[c] /\ file = line
            /\ r \in Threads /\ Poised(c, r) /\ Paced(r) /\ Faithful(r, T, file)
    BY BeforeStep
  <1>2. r.pc = "counted" /\ UNCHANGED <<line, touched>>
    BY <1>1 DEF CountInserted, At
  <1>3. r.st.verb = "INSERT"
    BY <1>1, <1>2 DEF Poised, Inserting
  <1>4. PICK i \in Nat : i = r.i
    BY <1>1 DEF Threads
  <1>5. PICK b \in Record : b = <<<<i>>>> /\ b[1][1] = i
    <2>1. <<<<i>>>>[1][1] = i
      OBVIOUS
    <2> QED BY <2>1, IdType
  <1>6. PICK body \in Bodies, m \in Nat : body = r.body /\ m = Len(body)
    BY <1>1 DEF Threads, Bodies
  <1>7. PICK z \in Bodies : /\ z = Append(body, b) /\ Len(z) = m + 1 /\ z[m + 1] = b
    <2>1. /\ Len(Append(body, b)) = m + 1 /\ Append(body, b)[m + 1] = b
      BY <1>6 DEF Bodies
    <2> QED BY <2>1, AppendBody
  <1>8. PICK p \in {"take", "answer"} : p = IF r.k <= Len(r.st.vals) THEN "take" ELSE "answer"
    OBVIOUS
  <1>9. PICK n : n = [r EXCEPT !.pc = p, !.body = z]
    OBVIOUS
  <1>10. Become(c, n)
    BY <1>1, <1>4, <1>5, <1>6, <1>7, <1>8, <1>9 DEF CountInserted
  <1>11. n.st = r.st /\ n.snap = r.snap /\ n.body = z /\ n.pc = p /\ n.k = r.k
    BY <1>1, <1>9 DEF Threads
  <1>12. PICK q \in Nat, M \in Nat \ {0} : q = m * M /\ M = N /\ r.k = q + M + 1
    <2>1. PICK M \in Nat \ {0} : M = N
      BY ColumnsType
    <2>2. m * M \in Nat /\ r.k = m * M + M + 1
      BY <1>1, <1>2, <1>6, <2>1 DEF Paced, Base
    <2> QED BY <2>1, <2>2
  <1>13. Base(n) = q + M
    <2>1. (m + 1) * M = q + M
      BY <1>12
    <2> QED BY <1>7, <1>11, <1>12, <2>1 DEF Base
  <1>14. Paced(n)
    BY <1>11, <1>12, <1>13 DEF Paced
  <1>15. ASSUME NEW l \in Lines \ T PROVE Settled(r.st, z, r.snap[l], l, file[l])
    <2>1. Changed(r, l, file[l])
      BY <1>1, <1>2 DEF Faithful
    <2>2. CASE l # i
      <3>1. Settled(r.st, body, r.snap[l], l, file[l])
        BY <1>4, <1>6, <2>1, <2>2 DEF Changed, InWork
      <3> QED BY <1>5, <1>7, <2>2, <3>1, SettledAppend
    <2>3. CASE l = i
      <3>1. InWork(r, l)
        BY <1>2, <1>4, <2>3 DEF InWork
      <3>2. /\ file[l][0] = 1
            /\ \A j \in 1 .. N : Base(r) + j < r.k => InsertedColumn(r.st, Base(r), j, file[l])
        BY <1>2, <1>3, <2>1, <3>1 DEF Changed
      <3>3. Base(r) = q
        BY <1>6, <1>12 DEF Base
      <3>4. \A j \in 1 .. M : q + j < q + M + 1
        BY <1>12
      <3>5. \A j \in 1 .. N : InsertedColumn(r.st, q, j, file[l])
        BY <1>12, <3>2, <3>3, <3>4
      <3>6. ((m + 1) - 1) * N = q
        BY <1>12
      <3>7. InsertedRow(r.st, m + 1, file[l])
        BY <3>2, <3>5, <3>6, ColumnsType DEF InsertedRow, InsertedColumn, N
      <3>8. m + 1 \in 1 .. Len(z) /\ z[m + 1][1][1] = l
        BY <1>5, <1>7, <2>3
      <3> QED BY <1>3, <3>7, <3>8 DEF Settled, IdsIn
    <2> QED BY <2>2, <2>3
  <1>16. AllSettled(n, T, file)
    BY <1>11, <1>15 DEF AllSettled
  <1>17. Faithful(n, T, file)
    BY <1>11, <1>16, Resting DEF Busy
  <1> QED BY <1>1, <1>2, <1>10, <1>14, <1>17, ChangeKept

LEMMA ChangeInit == Init => ChangeInv
  <1> SUFFICES ASSUME Init PROVE ChangeInv
    OBVIOUS
  <1>1. ASSUME NEW l \in Lines PROVE Neat(line[l])
    <2>1. PICK S : S = {Blank} \cup {RowLine(v) : v \in Contents}
                           \cup {Store(RowLine(v), 0, <<0>>) : v \in Erased}
      OBVIOUS
    <2>2. line \in [Lines -> S]
      BY <2>1 DEF Init
    <2>3. PICK f \in S : f = line[l]
      BY <2>2
    <2>4. f[0] \in {0, 1} /\ Clean(f)
      BY <2>1, <2>3, OpenedLine, OpenedClean
    <2> QED BY <2>3, <2>4 DEF Neat
  <1>2. \A T, file : Paced(Idle) /\ Faithful(Idle, T, file)
    BY IdleType DEF Paced, Faithful
  <1>3. \A c \in Clients : run[c] = Idle
    BY DEF Init
  <1> QED BY <1>1, <1>2, <1>3 DEF ChangeInv

LEMMA ChangeStep == TypeInv /\ ChangeInv /\ [Next]_vars => ChangeInv'
  <1> SUFFICES ASSUME TypeInv, ChangeInv, [Next]_vars PROVE ChangeInv'
    OBVIOUS
  <1>1. ASSUME line' = line, run' = run, touched' = touched PROVE ChangeInv'
    BY <1>1 DEF ChangeInv
  <1>2. ASSUME NEW c \in Clients, Crash(c) PROVE ChangeInv'
    BY <1>1, <1>2 DEF Crash
  <1>3. CASE UNCHANGED vars
    BY <1>1, <1>3 DEF vars
  <1>4. ASSUME NEW c \in Clients, WriteColumn(c) PROVE ChangeInv'
    BY <1>4, ChangeWriteUpdate, ChangeWriteInsert
  <1>5. ASSUME NEW c \in Clients, Submit(c) \/ Step(c) PROVE ChangeInv'
    BY <1>2, <1>4, <1>5, ChangeSubmit, ChangeAnswer, ChangeBound, ChangeCount,
       ChangeScanLine, ChangeProbeLine, ChangeTest, ChangeReadColumn, ChangeEndScan,
       ChangeDeactivate, ChangePushInStack, ChangeUncount, ChangeTaking, ChangeActivate,
       ChangeCountInserted, ZenonT(60) DEF Step
  <1> QED BY <1>3, <1>5 DEF Next

LEMMA ChangeAlways == Spec => [](TypeInv /\ ChangeInv)
  BY TypeInit, TypeStep, ChangeInit, ChangeStep, PTL DEF Spec

\* The answer of a statement: all lines are settled.
LEMMA AnswerSettled ==
  ASSUME TypeInv, ChangeInv, NEW c \in Clients, run[c].pc = "answer"
  PROVE  /\ AllSettled(run[c], touched[c], line)
         /\ Ids(run[c]) = IdsIn(run[c].body) /\ run[c].body \in Bodies
  <1>1. PICK r, T, file :
            /\ r = run[c] /\ T = touched[c] /\ file = line
            /\ r \in Threads /\ Faithful(r, T, file)
    BY BeforeStep
  <1>2. AllSettled(r, T, file)
    BY <1>1, Resting DEF Busy
  <1>3. r.body \in Seq(Record)
    BY <1>1 DEF Threads, Bodies
  <1>4. Ids(r) = IdsIn(r.body)
    BY <1>3, IdsAre
  <1> QED BY <1>1, <1>2, <1>3, <1>4 DEF Bodies

(***************************************************************************)
(* Whatever the clients do at once and whatever the columns and statements *)
(* are, a statement changes what it says and nothing else: a DELETE clears *)
(* the flags of the rows it reports, an UPDATE gives the columns it names  *)
(* their values, but for texts shorter than the old ones, and an INSERT    *)
(* stores its values, cut to their columns; all other bytes that nobody    *)
(* else writes stay (Tabble.h 128-163, MemoryMapLinux.h 104-150,           *)
(* InfoLoader.h 62-82, Optimizer.h 158-207).                               *)
(***************************************************************************)
THEOREM StatementsChangeAsTold == Spec => []ChangesAsTold
  <1>1. TypeInv /\ ChangeInv => ChangesAsTold
    <2> SUFFICES ASSUME TypeInv, ChangeInv PROVE ChangesAsTold
      OBVIOUS
    <2>1. ASSUME NEW c \in Clients, Answering(c), NEW l \in Lines \ touched[c]
          PROVE  LET r == run[c]
                     old == r.snap[l]
                     new == line[l]
                 IN CASE r.st.verb = "INSERT" /\ l \in Ids(r) ->
                             \E n \in DOMAIN r.body : /\ r.body[n][1][1] = l
                                                      /\ InsertedRow(r.st, n, new)
                      [] r.st.verb = "UPDATE" /\ l \in Ids(r) -> UpdatedRow(r.st, old, new)
                      [] r.st.verb = "DELETE" /\ l \in Ids(r) -> new = [old EXCEPT ![0] = 0]
                      [] OTHER -> new = old
      <3>1. PICK r : r = run[c]
        OBVIOUS
      <3>2. /\ AllSettled(run[c], touched[c], line)
            /\ Ids(run[c]) = IdsIn(run[c].body) /\ run[c].body \in Bodies
        BY <2>1, AnswerSettled DEF Answering
      <3>3. Settled(r.st, r.body, r.snap[l], l, line[l])
        BY <3>1, <3>2 DEF AllSettled
      <3>4. Ids(r) = IdsIn(r.body)
        BY <3>1, <3>2
      <3>5. DOMAIN r.body = 1 .. Len(r.body)
        BY <3>1, <3>2 DEF Bodies
      <3>6. PICK v, old, new, ids :
               v = r.st.verb /\ old = r.snap[l] /\ new = line[l] /\ ids = Ids(r)
        OBVIOUS
      <3>7. /\ v = "INSERT" /\ l \in ids => \E n \in DOMAIN r.body :
                  r.body[n][1][1] = l /\ InsertedRow(r.st, n, new)
            /\ v = "UPDATE" /\ l \in ids => UpdatedRow(r.st, old, new)
            /\ v = "DELETE" /\ l \in ids => new = [old EXCEPT ![0] = 0]
            /\ v \notin {"INSERT", "UPDATE", "DELETE"} \/ l \notin ids => new = old
        BY <3>3, <3>4, <3>5, <3>6 DEF Settled
      <3> QED BY <3>1, <3>6, <3>7
    <2> QED BY <2>1 DEF ChangesAsTold
  <1> QED BY <1>1, ChangeAlways, PTL

-----------------------------------------------------------------------------
(***************************************************************************)
(* The records of a SELECT.                                                *)
(***************************************************************************)
\* The first m columns of record b are those of the row at the beginning.
Shows(s, snap, T, b, m) ==
    b[1][1] \notin T =>
        \A j \in 1 .. m : b[j + 1] = Cell(snap[b[1][1]], ColumnsOf(s)[j])

BodyShown(r, T) ==
    \A n \in 1 .. Len(r.body) : Shows(r.st, r.snap, T, r.body[n], Len(ColumnsOf(r.st)))

BodySorted(r) ==
    \A m, n \in 1 .. Len(r.body) : m < n => Before(r.st, r.body[m], r.body[n])

RowsShown(r, T) ==
    r.st.verb = "SELECT" =>
        /\ BodyShown(r, T)
        /\ r.pc = "read" => Shows(r.st, r.snap, T, r.rec, r.k - 1)
        /\ r.pc = "answer" => BodySorted(r)

ShowInv == \A c \in Clients : RowsShown(run[c], touched[c])

LEMMA ShownLess ==
  ASSUME NEW r, NEW T, NEW U, T \subseteq U, RowsShown(r, T)
  PROVE  RowsShown(r, U)
  <1>1. \A s, snap, b, m : Shows(s, snap, T, b, m) => Shows(s, snap, U, b, m)
    BY DEF Shows
  <1> QED BY <1>1 DEF RowsShown, BodyShown

LEMMA ShowKept ==
  ASSUME TypeInv, ShowInv, NEW c \in Clients, NEW n, Become(c, n), RowsShown(n, touched'[c]),
         \A d \in Clients : d # c => touched[d] \subseteq touched'[d]
  PROVE  ShowInv'
  <1>1. \A d \in Clients : run'[d] = IF d = c THEN n ELSE run[d]
    BY DEF Become, TypeInv
  <1>2. ASSUME NEW d \in Clients PROVE RowsShown(run'[d], touched'[d])
    <2>1. CASE d = c
      BY <1>1, <2>1
    <2>2. CASE d # c
      <3>1. PICK r, T, U : /\ r = run[d] /\ T = touched[d] /\ U = touched'[d]
                           /\ RowsShown(r, T) /\ T \subseteq U
        BY <2>2 DEF ShowInv
      <3> QED BY <1>1, <2>2, <3>1, ShownLess
    <2> QED BY <2>1, <2>2
  <1> QED BY <1>2 DEF ShowInv

\* The same while nothing is written.
LEMMA ShowMoves ==
  ASSUME TypeInv, ShowInv, NEW c \in Clients, NEW n, Become(c, n), NEW T, T = touched[c],
         touched' = touched, RowsShown(n, T)
  PROVE  ShowInv'
  <1>1. RowsShown(n, touched'[c]) /\ \A d \in Clients : d # c => touched[d] \subseteq touched'[d]
    OBVIOUS
  <1> QED BY <1>1, ShowKept

LEMMA ShowFinished ==
  ASSUME NEW r \in Threads, NEW T, r.st.verb = "SELECT" => BodyShown(r, T),
         IsDirect(r.st) => Len(r.body) <= 1
  PROVE  RowsShown(Finished(r), T)
  <1>1. PICK n : n = Finished(r) /\ FinishedTo(r, n)
    BY FinishedIs
  <1>2. n.st = r.st /\ n.body = r.body /\ n.snap = r.snap /\ n.pc \in {"answer", "scan"}
    BY <1>1 DEF FinishedTo
  <1>3. r.st.verb = "SELECT" => BodyShown(n, T)
    BY <1>2 DEF BodyShown
  <1>4. ASSUME n.pc = "answer" PROVE BodySorted(n)
    <2>1. PICK L \in Nat : L = Len(r.body)
      BY DEF Threads, Bodies
    <2>2. L <= 1
      BY <1>1, <1>4, <2>1 DEF FinishedTo
    <2>3. \A m, h \in 1 .. L : ~(m < h)
      BY <2>2
    <2> QED BY <1>2, <2>1, <2>3 DEF BodySorted
  <1> QED BY <1>1, <1>2, <1>3, <1>4 DEF RowsShown

\* A record more.
LEMMA ShowAppend ==
  ASSUME NEW r \in Threads, NEW T, BodyShown(r, T), NEW b \in Record,
         Shows(r.st, r.snap, T, b, Len(ColumnsOf(r.st))), NEW n, n.st = r.st,
         n.snap = r.snap, n.body = Append(r.body, b)
  PROVE  BodyShown(n, T)
  <1>1. PICK body \in Bodies, L \in Nat : body = r.body /\ L = Len(body)
    BY DEF Threads, Bodies
  <1>2. /\ Len(Append(body, b)) = L + 1 /\ Append(body, b)[L + 1] = b
        /\ \A m \in 1 .. L : Append(body, b)[m] = body[m]
    BY <1>1 DEF Bodies
  <1>3. \A m \in 1 .. L + 1 : m = L + 1 \/ m \in 1 .. L
    OBVIOUS
  <1> QED BY <1>1, <1>2, <1>3 DEF BodyShown

LEMMA ShowSelected ==
  ASSUME NEW r \in Threads, IsDirect(r.st) => r.body = <<>>, NEW T,
         r.st.verb = "SELECT" => BodyShown(r, T)
  PROVE  RowsShown(Selected(r), T)
  <1>1. PICK n : n = Selected(r) /\ SelectedTo(r, n)
    BY SelectedIs
  <1>2. n.st = r.st /\ n.snap = r.snap /\ n.k = 1
    BY <1>1 DEF SelectedTo
  <1>3. CASE r.st.verb # "SELECT"
    BY <1>1, <1>2, <1>3 DEF RowsShown
  <1>4. CASE r.st.verb = "SELECT" /\ ColumnsOf(r.st) = <<>>
    <2>1. PICK b \in Record : b = <<<<r.i>>>>
      BY IdType DEF Threads
    <2>2. n.body = Append(r.body, b) /\ n.pc \in {"answer", "scan"}
          /\ (n.pc = "answer" => IsDirect(r.st))
      BY <1>1, <1>4, <2>1 DEF SelectedTo
    <2>3. Shows(r.st, r.snap, T, b, Len(ColumnsOf(r.st)))
      <3>1. \A j \in 1 .. Len(ColumnsOf(r.st)) : FALSE
        BY <1>4
      <3> QED BY <3>1 DEF Shows
    <2>4. BodyShown(n, T)
      BY <1>2, <1>4, <2>1, <2>2, <2>3, ShowAppend
    <2>5. ASSUME n.pc = "answer" PROVE BodySorted(n)
      <3>1. r.body = <<>>
        BY <2>2, <2>5
      <3>2. Len(n.body) = 1
        BY <2>2, <3>1
      <3> QED BY <3>2 DEF BodySorted
    <2> QED BY <1>1, <2>2, <2>4, <2>5 DEF RowsShown
  <1>5. CASE r.st.verb = "SELECT" /\ ColumnsOf(r.st) # <<>>
    <2>1. n.body = r.body /\ n.pc = "read"
      BY <1>1, <1>5 DEF SelectedTo
    <2>2. BodyShown(n, T)
      BY <1>2, <1>5, <2>1 DEF BodyShown
    <2>3. Shows(n.st, n.snap, T, n.rec, n.k - 1)
      BY <1>2 DEF Shows
    <2> QED BY <1>1, <2>1, <2>2, <2>3 DEF RowsShown
  <1> QED BY <1>3, <1>4, <1>5

\* Where a thread stands before its step.
LEMMA BeforeShow ==
  ASSUME TypeInv, ChangeInv, ShowInv, NEW c \in Clients
  PROVE  \E r, T, file :
            /\ r = run[c] /\ T = touched[c] /\ file = line
            /\ r \in Threads /\ Poised(c, r) /\ Faithful(r, T, file) /\ RowsShown(r, T)
  BY BeforeStep DEF ShowInv

\* A thread that moves on with its records.
LEMMA ShowOn ==
  ASSUME NEW r, NEW T, RowsShown(r, T), NEW n, n.st = r.st, n.snap = r.snap,
         n.body = r.body, n.pc \notin {"read", "answer"}
  PROVE  RowsShown(n, T)
  BY DEF RowsShown, BodyShown

\* The steps of a scan that end in Finished, Selected or go on with the line.
LEMMA ShowScan ==
  ASSUME TypeInv, ChangeInv, ShowInv, NEW c \in Clients,
         Bound(c) \/ Count(c) \/ ScanLine(c) \/ ProbeLine(c) \/ Test(c)
  PROVE  ShowInv'
  <1>1. PICK r, T, file :
            /\ r = run[c] /\ T = touched[c] /\ file = line
            /\ r \in Threads /\ Poised(c, r) /\ Faithful(r, T, file) /\ RowsShown(r, T)
    BY BeforeShow
  <1>2. r.pc \in {"bound", "count", "scan", "probe", "test"} /\ touched' = touched
    BY <1>1 DEF Bound, Count, ScanLine, ProbeLine, Test, At
  <1>3. Scanning(c, r)
    BY <1>1, <1>2 DEF Poised
  <1>4. r.st.verb = "SELECT" => BodyShown(r, T)
    BY <1>1 DEF RowsShown
  <1>5. IsDirect(r.st) => Len(r.body) <= 1
    BY <1>3 DEF Scanning
  <1>6. CASE Become(c, Finished(r))
    BY <1>1, <1>2, <1>4, <1>5, <1>6, ShowFinished, ShowMoves
  <1>7. CASE Become(c, Selected(r))
    <2>1. IsDirect(r.st) => r.body = <<>>
      BY <1>3 DEF Scanning
    <2> QED BY <1>1, <1>2, <1>4, <1>7, <2>1, ShowSelected, ShowMoves
  <1>8. ASSUME NEW n, Become(c, n), n.st = r.st, n.snap = r.snap, n.body = r.body,
               n.pc \in {"count", "scan", "test"}
        PROVE  ShowInv'
    BY <1>1, <1>2, <1>8, ShowOn, ShowMoves
  <1>9. CASE Bound(c)
    <2>1. PICK a, b, d : Become(c, [r EXCEPT !.pc = "count", !.last = a, !.i = b, !.conds = d])
      BY <1>1, <1>9 DEF Bound
    <2>2. PICK n : n = [r EXCEPT !.pc = "count", !.last = a, !.i = b, !.conds = d]
      OBVIOUS
    <2>3. n.pc = "count" /\ n.st = r.st /\ n.snap = r.snap /\ n.body = r.body
      BY <1>1, <2>2 DEF Threads
    <2> QED BY <1>8, <2>1, <2>2, <2>3
  <1>10. CASE Count(c)
    <2>1. PICK a : Become(c, [r EXCEPT !.pc = "scan", !.cnt = a])
      BY <1>1, <1>10 DEF Count
    <2>2. PICK n : n = [r EXCEPT !.pc = "scan", !.cnt = a]
      OBVIOUS
    <2>3. n.pc = "scan" /\ n.st = r.st /\ n.snap = r.snap /\ n.body = r.body
      BY <1>1, <2>2 DEF Threads
    <2> QED BY <1>8, <2>1, <2>2, <2>3
  <1>11. CASE ScanLine(c)
    <2>1. Become(c, IF ~Active(line, r.i) THEN Finished(r)
                    ELSE IF r.conds = <<>> THEN Selected(r)
                    ELSE [r EXCEPT !.pc = "test", !.k = 1, !.ok = FALSE])
      BY <1>1, <1>11 DEF ScanLine
    <2>2. CASE Become(c, [r EXCEPT !.pc = "test", !.k = 1, !.ok = FALSE])
      <3>1. PICK n : n = [r EXCEPT !.pc = "test", !.k = 1, !.ok = FALSE]
        OBVIOUS
      <3>2. n.pc = "test" /\ n.st = r.st /\ n.snap = r.snap /\ n.body = r.body
        BY <1>1, <3>1 DEF Threads
      <3> QED BY <1>8, <2>2, <3>1, <3>2
    <2> QED BY <1>6, <1>7, <2>1, <2>2
  <1>12. CASE ProbeLine(c)
    <2>1. Become(c, IF Active(line, r.i) THEN Selected(r)
                    ELSE [r EXCEPT !.pc = "answer",
                                   !.body = IF r.st.verb = "DELETE" THEN <<<<<<r.i>>>>>>
                                            ELSE <<>>])
      BY <1>1, <1>12 DEF ProbeLine
    <2>2. CASE ~Active(line, r.i)
      <3>1. PICK z : z = IF r.st.verb = "DELETE" THEN <<<<<<r.i>>>>>> ELSE <<>>
        OBVIOUS
      <3>2. PICK n : n = [r EXCEPT !.pc = "answer", !.body = z]
        OBVIOUS
      <3>3. n.st = r.st /\ n.body = z /\ n.pc = "answer"
        BY <1>1, <3>2 DEF Threads
      <3>4. Become(c, n)
        BY <2>1, <2>2, <3>1, <3>2
      <3>5. ASSUME r.st.verb = "SELECT" PROVE BodyShown(n, T) /\ BodySorted(n)
        <4>1. Len(n.body) = 0
          BY <3>1, <3>3, <3>5
        <4> QED BY <4>1 DEF BodyShown, BodySorted
      <3>6. RowsShown(n, T)
        BY <3>3, <3>5 DEF RowsShown
      <3> QED BY <1>1, <1>2, <3>4, <3>6, ShowMoves
    <2> QED BY <1>7, <2>1, <2>2
  <1>13. CASE Test(c)
    <2>1. \/ \E now : Become(c, [r EXCEPT !.k = @ + 1, !.ok = now])
          \/ Become(c, Selected(r))
          \/ Become(c, Finished(r))
      BY <1>1, <1>13 DEF Test
    <2>2. CASE \E now : Become(c, [r EXCEPT !.k = @ + 1, !.ok = now])
      <3>1. PICK now, n : n = [r EXCEPT !.k = @ + 1, !.ok = now] /\ Become(c, n)
        BY <2>2
      <3>2. r.pc = "test"
        BY <1>1, <1>13 DEF Test, At
      <3>3. n.pc = "test" /\ n.st = r.st /\ n.snap = r.snap /\ n.body = r.body
        BY <1>1, <3>1, <3>2 DEF Threads
      <3> QED BY <1>8, <3>1, <3>3
    <2> QED BY <1>6, <1>7, <2>1, <2>2
  <1> QED BY <1>9, <1>10, <1>11, <1>12, <1>13

LEMMA ShowReadColumn ==
  ASSUME TypeInv, ChangeInv, ShowInv, NEW c \in Clients, ReadColumn(c)
  PROVE  ShowInv'
  <1>1. PICK r, T, file :
            /\ r = run[c] /\ T = touched[c] /\ file = line
            /\ r \in Threads /\ Poised(c, r) /\ Faithful(r, T, file) /\ RowsShown(r, T)
    BY BeforeShow
  <1>2. r.pc = "read" /\ touched' = touched /\ r.i \in Lines
    BY <1>1 DEF ReadColumn, At
  <1>3. PICK s, i, k : s = r.st /\ i = r.i /\ k = r.k
    OBVIOUS
  <1>4. /\ s.verb = "SELECT" /\ Scanning(c, r) /\ k <= Len(ColumnsOf(s))
        /\ Len(r.rec) = k /\ r.rec[1] = <<i>> /\ AllSettled(r, T, file)
    BY <1>1, <1>2, <1>3, Resting DEF Poised, Busy
  <1>5. k \in Nat \ {0} /\ i \in Lines
    BY <1>1, <1>2, <1>3 DEF Threads, Positive
  <1>6. PICK v : v = Cell(file[i], ColumnsOf(s)[k])
    OBVIOUS
  <1>7. v \in Value
    <2>1. ColumnsOf(s) \in Seq(1 .. N)
      BY <1>3, <1>4, InStmts, ColumnsOfType DEF Scanning
    <2>2. PICK h \in 1 .. N : h = ColumnsOf(s)[k]
      <3>1. PICK D : D = 1 .. N
        OBVIOUS
      <3>2. PICK cols \in Seq(D) : cols = ColumnsOf(s)
        BY <2>1, <3>1
      <3>3. \A j \in 1 .. Len(cols) : cols[j] \in D
        BY <3>2
      <3>4. k \in 1 .. Len(cols)
        BY <1>4, <1>5, <3>2
      <3> QED BY <3>1, <3>2, <3>3, <3>4
    <2>3. PICK f \in ByteLines : f = file[i]
      BY <1>1, <1>5 DEF TypeInv, Files
    <2> QED BY <1>6, <2>2, <2>3, CellType DEF Value
  <1>8. PICK old \in Record : old = r.rec /\ Len(old) = k /\ old[1] = <<i>>
    BY <1>1, <1>4 DEF Threads
  <1>9. PICK rec \in Record : rec = Append(old, v)
    <2>1. Append(old, v) \in Seq(Value)
      BY <1>7, <1>8 DEF Record
    <2> QED BY <2>1 DEF Record
  <1>10. Len(rec) = k + 1 /\ rec[k + 1] = v /\ \A j \in 1 .. k : rec[j] = old[j]
    BY <1>7, <1>8, <1>9 DEF Record
  <1>11. rec[1][1] = i /\ old[1][1] = i
    <2>1. rec[1] = old[1]
      BY <1>5, <1>10
    <2>2. old[1][1] = i
      BY <1>8
    <2> QED BY <2>1, <2>2
  <1>12. Shows(s, r.snap, T, rec, k)
    <2>1. SUFFICES ASSUME i \notin T, NEW j \in 1 .. k
                   PROVE  rec[j + 1] = Cell(r.snap[i], ColumnsOf(s)[j])
      BY <1>11 DEF Shows
    <2>2. file[i] = r.snap[i]
      BY <1>3, <1>4, <1>5, <2>1 DEF AllSettled, Settled
    <2>3. CASE j = k
      BY <1>6, <1>10, <2>2, <2>3
    <2>4. CASE j # k
      <3>1. j \in 1 .. k - 1 /\ j + 1 \in 1 .. k
        BY <1>5, <2>4
      <3>2. Shows(s, r.snap, T, old, k - 1)
        BY <1>1, <1>2, <1>3, <1>4, <1>8 DEF RowsShown
      <3>3. old[j + 1] = Cell(r.snap[i], ColumnsOf(s)[j])
        BY <1>11, <2>1, <3>1, <3>2 DEF Shows
      <3> QED BY <1>10, <3>1, <3>3
    <2> QED BY <2>3, <2>4
  <1>13. PICK kk \in Positive : kk = k + 1 /\ kk - 1 = k
    <2>1. k + 1 \in Positive /\ (k + 1) - 1 = k
      BY <1>5 DEF Positive
    <2> QED BY <2>1
  <1>14. PICK x : x = [r EXCEPT !.k = kk, !.rec = rec]
    OBVIOUS
  <1>15. /\ x \in Threads /\ x.pc = "read" /\ x.st = s /\ x.snap = r.snap /\ x.body = r.body
         /\ x.rec = rec /\ x.k = kk
    <2>1. x \in Threads
      BY <1>1, <1>14 DEF Threads
    <2> QED BY <1>1, <1>2, <1>3, <1>14, <2>1 DEF Threads
  <1>16. Become(c, IF k < Len(ColumnsOf(s)) THEN x
                   ELSE Finished([x EXCEPT !.body = Append(@, x.rec)]))
    <2>1. x = [r EXCEPT !.k = @ + 1, !.rec = Append(@, Cell(line[r.i], ColumnsOf(r.st)[r.k]))]
      BY <1>1, <1>3, <1>6, <1>8, <1>9, <1>13, <1>14
    <2> QED BY <1>1, <1>3, <2>1 DEF ReadColumn
  <1>17. BodyShown(x, T)
    BY <1>1, <1>3, <1>4, <1>15 DEF RowsShown, BodyShown
  <1>18. CASE k < Len(ColumnsOf(s))
    <2>1. RowsShown(x, T)
      BY <1>12, <1>13, <1>15, <1>17 DEF RowsShown
    <2> QED BY <1>1, <1>2, <1>16, <1>18, <2>1, ShowMoves
  <1>19. CASE ~(k < Len(ColumnsOf(s)))
    <2>1. k = Len(ColumnsOf(s))
      <3>1. ColumnsOf(s) \in Seq(1 .. N)
        BY <1>3, <1>4, InStmts, ColumnsOfType DEF Scanning
      <3>2. PICK L \in Nat : L = Len(ColumnsOf(s))
        BY <3>1
      <3> QED BY <1>4, <1>5, <1>19, <3>2
    <2>2. PICK z \in Bodies : z = Append(x.body, rec)
      BY <1>15, AppendBody DEF Threads
    <2>3. PICK y : y = [x EXCEPT !.body = z]
      OBVIOUS
    <2>4. y \in Threads /\ y.st = s /\ y.snap = r.snap /\ y.body = Append(x.body, rec)
      BY <1>15, <2>2, <2>3 DEF Threads
    <2>5. y = [x EXCEPT !.body = Append(@, x.rec)]
      BY <1>15, <2>2, <2>3
    <2>6. BodyShown(y, T)
      BY <1>9, <1>12, <1>15, <1>17, <2>1, <2>4, ShowAppend
    <2>7. ASSUME IsDirect(y.st) PROVE Len(y.body) <= 1
      <3>1. x.body = <<>>
        BY <1>3, <1>4, <1>15, <2>4, <2>7 DEF Scanning
      <3>2. Len(Append(<<>>, rec)) = 1
        OBVIOUS
      <3> QED BY <2>4, <3>1, <3>2
    <2>8. RowsShown(Finished(y), T)
      BY <2>4, <2>6, <2>7, ShowFinished
    <2> QED BY <1>1, <1>2, <1>16, <1>19, <2>5, <2>8, ShowMoves
  <1> QED BY <1>18, <1>19

LEMMA ShowEndScan ==
  ASSUME TypeInv, ChangeInv, ShowInv, NEW c \in Clients, EndScan(c)
  PROVE  ShowInv'
  <1>1. PICK r, T, file :
            /\ r = run[c] /\ T = touched[c] /\ file = line
            /\ r \in Threads /\ Poised(c, r) /\ Faithful(r, T, file) /\ RowsShown(r, T)
    BY BeforeShow
  <1>2. r.pc = "scan" /\ touched' = touched
    BY <1>1 DEF EndScan, At
  <1>3. Scanning(c, r)
    BY <1>1, <1>2 DEF Poised
  <1>4. PICK s, body : s = r.st /\ body = r.body /\ Records(s, body)
    BY <1>3 DEF Scanning
  <1>5. IsStatement(s) /\ ~Refused(s) /\ body \in Seq(Record)
    BY <1>3, <1>4, InStmts DEF Scanning, Records, Bodies
  <1>6. PICK L \in Nat : L = Len(body) /\ DOMAIN body = 1 .. L
    BY <1>5
  <1>7. InTotalOrder(s, body)
    BY <1>4, <1>5, <1>6, BeforeIsOrder DEF Records
  <1>8. PICK p, z : /\ z = Sorted(s, body) /\ Permutes(p, L, body, z)
                    /\ \A m, h \in 1 .. L : m < h => Before(s, body[p[m]], body[p[h]])
    BY <1>5, <1>6, <1>7, SortedIs
  <1>9. p \in [1 .. L -> 1 .. L] /\ z = [m \in 1 .. L |-> body[p[m]]]
    BY <1>8 DEF Permutes
  <1>10. Len(z) = L /\ \A m \in 1 .. L : p[m] \in 1 .. L /\ z[m] = body[p[m]]
    BY <1>6, <1>9
  <1>11. PICK n : n = [r EXCEPT !.pc = "answer", !.body = z]
    OBVIOUS
  <1>12. Become(c, n)
    BY <1>1, <1>4, <1>8, <1>11 DEF EndScan
  <1>13. n.pc = "answer" /\ n.st = s /\ n.snap = r.snap /\ n.body = z
    BY <1>1, <1>4, <1>11 DEF Threads
  <1>14. ASSUME s.verb = "SELECT" PROVE BodyShown(n, T) /\ BodySorted(n)
    <2>1. \A m \in 1 .. L : Shows(s, r.snap, T, body[m], Len(ColumnsOf(s)))
      BY <1>1, <1>4, <1>6, <1>14 DEF RowsShown, BodyShown
    <2>2. BodyShown(n, T)
      BY <1>10, <1>13, <2>1 DEF BodyShown
    <2>3. BodySorted(n)
      BY <1>8, <1>10, <1>13 DEF BodySorted
    <2> QED BY <2>2, <2>3
  <1>15. RowsShown(n, T)
    BY <1>13, <1>14 DEF RowsShown
  <1> QED BY <1>1, <1>2, <1>12, <1>15, ShowMoves

\* INSERT, DELETE and UPDATE go on with their statement.
LEMMA WritingOn ==
  ASSUME TypeInv, NEW c \in Clients,
         \/ WriteColumn(c) \/ Deactivate(c) \/ PushInStack(c) \/ Uncount(c) \/ PopFreeId(c)
         \/ LoadFreeId(c) \/ CountNewLine(c) \/ ClaimLine(c) \/ Activate(c) \/ CountInserted(c)
  PROVE  \E n : /\ Become(c, n) /\ n.st = run[c].st /\ n.st.verb # "SELECT"
                /\ n.snap = run[c].snap /\ n.pc \notin {"probe", "read"}
                /\ \A d \in Clients : touched[d] \subseteq touched'[d]
  <1>1. PICK r : r = run[c] /\ r \in Threads /\ Poised(c, r)
    BY ThreadIs
  <1>2. r.pc \in {"write", "deactivate", "push", "uncount", "take", "new", "claim", "activate",
                  "counted"}
    BY <1>1 DEF WriteColumn, Deactivate, PushInStack, Uncount, PopFreeId, LoadFreeId,
                CountNewLine, ClaimLine, Activate, CountInserted, At
  <1>3. r.st.verb # "SELECT"
    BY <1>1, <1>2 DEF Poised, Inserting
  <1>4. \A d \in Clients : touched[d] \subseteq touched'[d]
    <2>1. touched' = touched \/ \E l : Touch(c, l)
      BY DEF WriteColumn, Deactivate, PushInStack, Uncount, PopFreeId, LoadFreeId,
             CountNewLine, ClaimLine, Activate, CountInserted
    <2>2. CASE touched' = touched
      BY <2>2
    <2>3. CASE \E l : Touch(c, l)
      BY <2>3 DEF Touch
    <2> QED BY <2>1, <2>2, <2>3
  <1>5. ASSUME NEW y, y.st = r.st, y.snap = r.snap, {"pc", "i", "st", "snap"} \subseteq DOMAIN y
        PROVE  /\ Finished(y).st = r.st /\ Finished(y).snap = r.snap
               /\ Finished(y).pc \notin {"probe", "read"}
    <2>1. CASE IsDirect(y.st)
      <3>1. Finished(y) = [y EXCEPT !.pc = "answer"]
        BY <2>1 DEF Finished
      <3> QED BY <1>5, <3>1
    <2>2. CASE ~IsDirect(y.st)
      <3>1. Finished(y) = [y EXCEPT !.pc = "scan", !.i = @ + 1]
        BY <2>2 DEF Finished
      <3> QED BY <1>5, <3>1
    <2> QED BY <2>1, <2>2
  <1>6. {"pc", "i", "st", "snap", "k", "body"} \subseteq DOMAIN r
    BY <1>1 DEF Threads
  <1>7. PICK n : /\ Become(c, n) /\ n.st = r.st /\ n.snap = r.snap
                 /\ n.pc \notin {"probe", "read"}
    <2>1. CASE WriteColumn(c)
      <3>1. PICK x : x = [r EXCEPT !.k = @ + 1]
        OBVIOUS
      <3>2. x.st = r.st /\ x.snap = r.snap /\ x.pc = "write" /\ DOMAIN x = DOMAIN r
        BY <1>1, <1>6, <2>1, <3>1 DEF WriteColumn, At
      <3>3. PICK p : /\ p \in {"counted", x.pc}
                     /\ \/ Become(c, [x EXCEPT !.pc = p]) \/ Become(c, x)
                        \/ Become(c, Finished([x EXCEPT !.body = Append(@, r.rec)]))
        BY <1>1, <2>1, <3>1, Zenon DEF WriteColumn
      <3>4. CASE Become(c, Finished([x EXCEPT !.body = Append(@, r.rec)]))
        <4>1. PICK y : y = [x EXCEPT !.body = Append(@, r.rec)]
          OBVIOUS
        <4>2. y.st = r.st /\ y.snap = r.snap /\ {"pc", "i", "st", "snap"} \subseteq DOMAIN y
          BY <1>6, <3>2, <4>1
        <4> QED BY <1>5, <3>4, <4>1, <4>2
      <3>5. CASE Become(c, [x EXCEPT !.pc = p])
        <4>1. PICK y : y = [x EXCEPT !.pc = p]
          OBVIOUS
        <4>2. y.st = r.st /\ y.snap = r.snap /\ y.pc \in {"counted", "write"}
          BY <1>6, <3>2, <3>3, <4>1
        <4> QED BY <3>5, <4>1, <4>2
      <3> QED BY <3>2, <3>3, <3>4, <3>5
    <2>2. CASE Uncount(c)
      <3>1. PICK y : y = [r EXCEPT !.body = Append(@, r.rec)]
        OBVIOUS
      <3>2. y.st = r.st /\ y.snap = r.snap /\ {"pc", "i", "st", "snap"} \subseteq DOMAIN y
        BY <1>6, <3>1
      <3> QED BY <1>1, <1>5, <2>2, <3>1, <3>2 DEF Uncount
    <2>3. CASE CountInserted(c)
      <3>1. PICK p, y : /\ y = [r EXCEPT !.pc = p, !.body = Append(@, <<<<r.i>>>>)]
                        /\ p \in {"take", "answer"} /\ Become(c, y)
        BY <1>1, <2>3 DEF CountInserted
      <3>2. y.st = r.st /\ y.snap = r.snap /\ y.pc = p
        BY <1>6, <3>1
      <3> QED BY <3>1, <3>2
    <2>4. CASE PopFreeId(c) \/ LoadFreeId(c)
      <3>1. PICK p, i, y : /\ y = [r EXCEPT !.pc = p, !.i = i]
                           /\ p \in {"activate", "new"} /\ Become(c, y)
        BY <1>1, <2>4 DEF PopFreeId, LoadFreeId
      <3>2. y.st = r.st /\ y.snap = r.snap /\ y.pc = p
        BY <1>6, <3>1
      <3> QED BY <3>1, <3>2
    <2>5. CASE \/ Deactivate(c) \/ PushInStack(c) \/ CountNewLine(c) \/ ClaimLine(c)
               \/ Activate(c)
      <3>1. PICK p, y : /\ y = [r EXCEPT !.pc = p]
                        /\ p \in {"push", "uncount", "claim", "activate", "write"}
                        /\ Become(c, y)
        BY <1>1, <2>5 DEF Deactivate, PushInStack, CountNewLine, ClaimLine, Activate
      <3>2. y.st = r.st /\ y.snap = r.snap /\ y.pc = p
        BY <1>6, <3>1
      <3> QED BY <3>1, <3>2
    <2> QED BY <2>1, <2>2, <2>3, <2>4, <2>5
  <1> QED BY <1>1, <1>3, <1>4, <1>7

LEMMA ShowWriting ==
  ASSUME TypeInv, ShowInv, NEW c \in Clients,
         \/ WriteColumn(c) \/ Deactivate(c) \/ PushInStack(c) \/ Uncount(c) \/ PopFreeId(c)
         \/ LoadFreeId(c) \/ CountNewLine(c) \/ ClaimLine(c) \/ Activate(c) \/ CountInserted(c)
  PROVE  ShowInv'
  <1>1. PICK n : /\ Become(c, n) /\ n.st.verb # "SELECT"
                 /\ \A d \in Clients : touched[d] \subseteq touched'[d]
    BY WritingOn
  <1>2. RowsShown(n, touched'[c])
    BY <1>1 DEF RowsShown
  <1> QED BY <1>1, <1>2, ShowKept

LEMMA ShowAnswer ==
  ASSUME TypeInv, ShowInv, NEW c \in Clients, Answer(c)
  PROVE  ShowInv'
  <1>1. Become(c, Idle) /\ \A d \in Clients : d # c => touched'[d] = touched[d]
    BY DEF Answer, TypeInv
  <1>2. Idle.st.verb # "SELECT"
    BY DEF Idle
  <1>3. RowsShown(Idle, touched'[c])
    BY <1>2 DEF RowsShown
  <1> QED BY <1>1, <1>3, ShowKept

\* What Submit does.
Fresh(n, s, file) ==
    /\ n \in Threads /\ n.st = s /\ n.snap = file /\ n.body = <<>> /\ n.conds = Conditions(s)

SubmitTo(n, s, file) ==
    \/ /\ Fresh(n, s, file)
       /\ \/ n.pc = "answer" /\ (Refused(s) \/ s.verb = "INSERT")
          \/ n.pc = "uncaught" /\ Refused(s)
          \/ n.pc = "take" /\ ~Refused(s) /\ s.verb = "INSERT"
          \/ n.pc = "bound" /\ ~Refused(s) /\ s.verb # "INSERT" /\ ~IsDirect(s)
          \/ /\ n.pc = "probe" /\ ~Refused(s) /\ s.verb # "INSERT" /\ IsDirect(s)
             /\ n.i = Conditions(s)[1].val[1]
    \/ /\ ~Refused(s) /\ s.verb = "SELECT" /\ IsDirect(s)
       /\ \E d : Fresh(d, s, file) /\ d.i = Conditions(s)[1].val[1] /\ n = Selected(d)

LEMMA SubmitIs ==
  ASSUME TypeInv, NEW c \in Clients, Submit(c)
  PROVE  \E s, n, file : /\ s \in Statements[c] /\ file = line /\ file \in Files
                         /\ Become(c, n) /\ SubmitTo(n, s, file)
  <1>1. PICK s \in Statements[c] :
          LET r == [Idle EXCEPT !.st = s, !.snap = line, !.conds = Conditions(s)]
              d == [r EXCEPT !.i = Conditions(s)[1].val[1]]
          IN Become(c, IF Refused(s)
                       THEN [r EXCEPT !.pc = IF Uncaught(s) THEN "uncaught" ELSE "answer"]
                       ELSE IF s.verb = "INSERT"
                       THEN [r EXCEPT !.pc = IF s.vals = <<>> THEN "answer" ELSE "take"]
                       ELSE IF ~IsDirect(s) THEN [r EXCEPT !.pc = "bound"]
                       ELSE IF s.verb = "SELECT" THEN Selected(d)
                       ELSE [d EXCEPT !.pc = "probe"])
    BY DEF Submit
  <1>2. PICK file : file = line /\ file \in Files
    BY DEF TypeInv
  <1>3. PICK r : r = [Idle EXCEPT !.st = s, !.snap = file, !.conds = Conditions(s)]
    OBVIOUS
  <1>4. PICK d : d = [r EXCEPT !.i = Conditions(s)[1].val[1]]
    OBVIOUS
  <1>5. Become(c, IF Refused(s)
                  THEN [r EXCEPT !.pc = IF Uncaught(s) THEN "uncaught" ELSE "answer"]
                  ELSE IF s.verb = "INSERT"
                  THEN [r EXCEPT !.pc = IF s.vals = <<>> THEN "answer" ELSE "take"]
                  ELSE IF ~IsDirect(s) THEN [r EXCEPT !.pc = "bound"]
                  ELSE IF s.verb = "SELECT" THEN Selected(d)
                  ELSE [d EXCEPT !.pc = "probe"])
    BY <1>1, <1>2, <1>3, <1>4, Zenon
  <1>6. PICK cs : cs = Conditions(s) /\ cs \in Seq(WhereItem) /\ CondsOK(cs) /\ cs \in CondSeqs
    BY InStmts, ConditionsOK DEF CondSeqs
  <1>7. Fresh(r, s, file)
    <2>1. r = [Idle EXCEPT !.st = s, !.snap = file, !.conds = cs]
      BY <1>3, <1>6
    <2>2. s \in Stmts /\ file \in Snaps
      BY <1>2, InStmts DEF Snaps
    <2>3. r \in Threads
      BY <1>6, <2>1, <2>2, IdleType DEF Threads
    <2>4. Idle \in Threads /\ Idle.body = <<>>
      BY IdleType
    <2>5. r.st = s /\ r.snap = file /\ r.body = <<>> /\ r.conds = cs
      BY <2>1, <2>4 DEF Threads
    <2> QED BY <1>6, <2>3, <2>5 DEF Fresh
  <1>8. ASSUME IsDirect(s) PROVE Fresh(d, s, file) /\ d.i = Conditions(s)[1].val[1]
    <2>1. PICK x \in Nat : x = cs[1].val[1]
      <3>1. cs # <<>> /\ Kind(cs[1]) = "DIRECT"
        BY <1>6, <1>8 DEF IsDirect
      <3>2. 1 \in 1 .. Len(cs)
        BY <1>6, <3>1
      <3>3. PICK e \in WhereItem : e = cs[1]
        BY <1>6, <3>2
      <3>4. e.word = "cond" => e.val # <<>>
        BY <1>6, <3>2, <3>3 DEF CondsOK
      <3>5. Kind(e) \in Bounds
        BY <3>1, <3>3 DEF Bounds
      <3>6. e.val[1] \in Nat
        BY <3>4, <3>5, BoundValue
      <3> QED BY <3>3, <3>6
    <2>2. d = [r EXCEPT !.i = x]
      BY <1>4, <1>6, <2>1
    <2>3. d \in Threads
      BY <1>7, <2>1, <2>2 DEF Threads, Fresh
    <2>4. d.st = r.st /\ d.snap = r.snap /\ d.body = r.body /\ d.conds = r.conds /\ d.i = x
      BY <1>7, <2>2 DEF Threads, Fresh
    <2> QED BY <1>6, <1>7, <2>1, <2>3, <2>4 DEF Fresh
  <1>9. ASSUME NEW x, Fresh(x, s, file), NEW n,
               NEW p \in {"answer", "uncaught", "take", "bound", "probe"},
               n = [x EXCEPT !.pc = p]
        PROVE  Fresh(n, s, file) /\ n.pc = p /\ n.i = x.i
    <2>1. x \in Threads /\ p \in Locations
      BY <1>9 DEF Fresh, Locations
    <2>2. n \in Threads /\ n.pc = p
      BY <1>9, <2>1 DEF Threads
    <2>3. n.st = x.st /\ n.snap = x.snap /\ n.body = x.body /\ n.conds = x.conds /\ n.i = x.i
      BY <1>9, <2>1 DEF Threads
    <2> QED BY <1>9, <2>2, <2>3 DEF Fresh
  <1>10. \E n : Become(c, n) /\ SubmitTo(n, s, file)
    <2>1. CASE Refused(s)
      <3>1. PICK p \in {"answer", "uncaught"} : Become(c, [r EXCEPT !.pc = p])
        BY <1>5, <2>1
      <3>2. PICK n : n = [r EXCEPT !.pc = p] /\ Become(c, n)
        BY <3>1
      <3> QED BY <1>7, <1>9, <2>1, <3>1, <3>2 DEF SubmitTo
    <2>2. CASE ~Refused(s) /\ s.verb = "INSERT"
      <3>1. PICK p \in {"answer", "take"} : Become(c, [r EXCEPT !.pc = p])
        BY <1>5, <2>2
      <3>2. PICK n : n = [r EXCEPT !.pc = p] /\ Become(c, n)
        BY <3>1
      <3> QED BY <1>7, <1>9, <2>2, <3>1, <3>2 DEF SubmitTo
    <2>3. CASE ~Refused(s) /\ s.verb # "INSERT" /\ ~IsDirect(s)
      <3>1. PICK n : n = [r EXCEPT !.pc = "bound"] /\ Become(c, n)
        BY <1>5, <2>3
      <3> QED BY <1>7, <1>9, <2>3, <3>1 DEF SubmitTo
    <2>4. CASE ~Refused(s) /\ s.verb # "INSERT" /\ IsDirect(s) /\ s.verb # "SELECT"
      <3>1. PICK n : n = [d EXCEPT !.pc = "probe"] /\ Become(c, n)
        BY <1>5, <2>4
      <3> QED BY <1>8, <1>9, <2>4, <3>1 DEF SubmitTo
    <2>5. CASE ~Refused(s) /\ IsDirect(s) /\ s.verb = "SELECT"
      <3>1. PICK n : n = Selected(d) /\ Become(c, n)
        BY <1>5, <2>5
      <3> QED BY <1>8, <2>5, <3>1 DEF SubmitTo
    <2> QED BY <2>1, <2>2, <2>3, <2>4, <2>5
  <1> QED BY <1>2, <1>10

LEMMA ShowSubmit ==
  ASSUME TypeInv, ShowInv, NEW c \in Clients, Submit(c)
  PROVE  ShowInv'
  <1>1. PICK s, n, file : Become(c, n) /\ SubmitTo(n, s, file)
    BY SubmitIs
  <1>2. \A d \in Clients : d # c => touched'[d] = touched[d]
    BY DEF Submit, TypeInv
  <1>3. ASSUME NEW x, NEW T, x.body = <<>> PROVE BodyShown(x, T) /\ BodySorted(x)
    <2>1. \A m \in 1 .. Len(x.body) : FALSE
      BY <1>3
    <2> QED BY <2>1 DEF BodyShown, BodySorted
  <1>4. PICK T : T = touched'[c]
    OBVIOUS
  <1>5. RowsShown(n, T)
    <2>1. CASE Fresh(n, s, file) /\ n.pc # "read"
      BY <1>3, <2>1 DEF Fresh, RowsShown
    <2>2. CASE \E d : Fresh(d, s, file) /\ n = Selected(d)
      <3>1. PICK d \in Threads : d.body = <<>> /\ n = Selected(d)
        BY <2>2 DEF Fresh
      <3> QED BY <1>3, <3>1, ShowSelected
    <2> QED BY <1>1, <2>1, <2>2 DEF SubmitTo
  <1> QED BY <1>1, <1>2, <1>4, <1>5, ShowKept

LEMMA ShowInit == Init => ShowInv
  <1> SUFFICES ASSUME Init, NEW c \in Clients PROVE RowsShown(run[c], touched[c])
    BY DEF ShowInv
  <1>1. run[c] = Idle
    BY DEF Init
  <1>2. Idle.st.verb # "SELECT"
    BY DEF Idle
  <1> QED BY <1>1, <1>2 DEF RowsShown

LEMMA ShowStep == TypeInv /\ ChangeInv /\ ShowInv /\ [Next]_vars => ShowInv'
  <1> SUFFICES ASSUME TypeInv, ChangeInv, ShowInv, [Next]_vars PROVE ShowInv'
    OBVIOUS
  <1>1. ASSUME run' = run, touched' = touched PROVE ShowInv'
    BY <1>1 DEF ShowInv
  <1>2. ASSUME NEW c \in Clients, Crash(c) PROVE ShowInv'
    BY <1>1, <1>2 DEF Crash
  <1>3. CASE UNCHANGED vars
    BY <1>1, <1>3 DEF vars
  <1>4. ASSUME NEW c \in Clients, Submit(c) \/ Step(c) PROVE ShowInv'
    BY <1>2, <1>4, ShowSubmit, ShowAnswer, ShowScan, ShowReadColumn, ShowEndScan,
       ShowWriting, ZenonT(60) DEF Step
  <1> QED BY <1>3, <1>4 DEF Next

LEMMA ShowAlways == Spec => [](TypeInv /\ ChangeInv /\ ShowInv)
  BY ShowInit, ShowStep, ChangeAlways, PTL DEF Spec

-----------------------------------------------------------------------------
(***************************************************************************)
(* What RequestParser makes of clauses in the order of the documentation.  *)
(***************************************************************************)
OnlyAt(cls, L, word, p) ==
    /\ p \in 1 .. L /\ cls[p].word = word
    /\ \A j \in 1 .. L : cls[j].word = word => j = p

Absent(cls, L, word) == \A j \in 1 .. L : cls[j].word # word

Numbered(cls, L) == L \in Nat /\ DOMAIN cls = 1 .. L

LEMMA WrittenAt ==
  ASSUME NEW s, NEW L, Numbered(s.clauses, L), NEW word, NEW default
  PROVE  /\ Absent(s.clauses, L, word) => Written(s, word, default) = default
         /\ \A p : OnlyAt(s.clauses, L, word, p) =>
                     Written(s, word, default) = s.clauses[p].arg
  <1>1. PICK cls, at : cls = s.clauses /\ at = {j \in 1 .. L : cls[j].word = word}
    OBVIOUS
  <1>2. DOMAIN cls = 1 .. L /\ L \in Nat
    BY <1>1 DEF Numbered
  <1>3. Written(s, word, default) = IF at = {} THEN default ELSE cls[Min(at)].arg
    BY <1>1, <1>2 DEF Written
  <1>4. ASSUME NEW p, OnlyAt(cls, L, word, p) PROVE Written(s, word, default) = cls[p].arg
    <2>1. at # {} /\ at \subseteq Nat /\ \A x \in at : x = p
      BY <1>1, <1>2, <1>4 DEF OnlyAt
    <2>2. Min(at) = p
      BY <2>1, MinIs
    <2> QED BY <1>3, <2>1, <2>2
  <1>5. ASSUME Absent(cls, L, word) PROVE Written(s, word, default) = default
    <2>1. at = {}
      BY <1>1, <1>5 DEF Absent
    <2> QED BY <1>3, <2>1
  <1> QED BY <1>1, <1>4, <1>5

LEMMA TailIs ==
  ASSUME NEW E, NEW cls \in Seq(E), Len(cls) > 0
  PROVE  /\ Tail(cls) \in Seq(E) /\ Len(Tail(cls)) = Len(cls) - 1
         /\ \A j \in 1 .. Len(cls) - 1 : Tail(cls)[j] = cls[j + 1]
  <1>1. PICK L \in Nat \ {0} : L = Len(cls)
    OBVIOUS
  <1>2. PICK t : t = Tail(cls)
    OBVIOUS
  <1>3. t \in Seq(E)
    BY <1>1, <1>2
  <1>4. Len(t) = L - 1
    BY <1>1, <1>2
  <1>5. \A j \in 1 .. L - 1 : t[j] = cls[j + 1]
    BY <1>1, <1>2
  <1> QED BY <1>1, <1>2, <1>3, <1>4, <1>5

LEMMA NoItems ==
  ASSUME NEW E, NEW t \in Seq(E)
  PROVE  t = <<>> <=> Len(t) = 0
  OBVIOUS

\* The parser sees what the client wrote.
LEMMA WrittenIs ==
  ASSUME NEW s, IsStatement(s), InOrder(s)
  PROVE  /\ WrittenWhere(s) = WhereOf(s)
         /\ Written(s, "LIMIT", SizeMax) = LimitOf(s)
         /\ s.verb = "SELECT" => WrittenOrder(s) = OrderOf(s)
  <1>1. PICK E : s.clauses \in Seq(E)
    BY DEF IsStatement
  <1>2. PICK cls \in Seq(E), L \in Nat : cls = s.clauses /\ L = Len(cls) /\ DOMAIN cls = 1 .. L
    BY <1>1
  <1>3. \A word, default :
           /\ Absent(cls, L, word) => Written(s, word, default) = default
           /\ \A p : OnlyAt(cls, L, word, p) => Written(s, word, default) = cls[p].arg
    <2> TAKE word, default
    <2>1. Numbered(s.clauses, L)
      BY <1>2 DEF Numbered
    <2>2. /\ Absent(s.clauses, L, word) => Written(s, word, default) = default
          /\ \A p : OnlyAt(s.clauses, L, word, p) =>
                      Written(s, word, default) = s.clauses[p].arg
      BY <2>1, WrittenAt
    <2> QED BY <1>2, <2>2
  <1>4. cls = <<>> <=> L = 0
    BY <1>2
  <1>5. ASSUME L > 0
        PROVE  /\ Tail(cls) \in Seq(E) /\ Len(Tail(cls)) = L - 1
               /\ \A j \in 1 .. L - 1 : Tail(cls)[j] = cls[j + 1]
               /\ Tail(cls) = <<>> <=> L - 1 = 0
    <2>1. Len(cls) > 0 /\ cls \in Seq(E)
      BY <1>2, <1>5
    <2>2. /\ Tail(cls) \in Seq(E) /\ Len(Tail(cls)) = L - 1
          /\ \A j \in 1 .. L - 1 : Tail(cls)[j] = cls[j + 1]
      BY <1>2, <2>1, TailIs
    <2>3. PICK t \in Seq(E) : t = Tail(cls) /\ Len(t) = L - 1
      BY <2>2
    <2>4. t = <<>> <=> L - 1 = 0
      BY <2>3, NoItems
    <2> QED BY <2>2, <2>3, <2>4
  <1>6. ASSUME L > 1
        PROVE  /\ Tail(Tail(cls)) = <<>> <=> L = 2
               /\ L > 2 => Tail(Tail(cls))[1] = cls[3]
    <2>1. L > 0
      BY <1>2, <1>6
    <2>2. PICK t \in Seq(E) : /\ t = Tail(cls) /\ Len(t) = L - 1
                              /\ \A j \in 1 .. L - 1 : t[j] = cls[j + 1]
      BY <1>5, <2>1
    <2>3. Len(t) > 0
      BY <1>2, <1>6, <2>2
    <2>4. PICK u \in Seq(E) : /\ u = Tail(t) /\ Len(u) = (L - 1) - 1
                              /\ \A j \in 1 .. (L - 1) - 1 : u[j] = t[j + 1]
      <3>1. /\ Tail(t) \in Seq(E) /\ Len(Tail(t)) = Len(t) - 1
            /\ \A j \in 1 .. Len(t) - 1 : Tail(t)[j] = t[j + 1]
        BY <2>2, <2>3, TailIs, Zenon
      <3> QED BY <2>2, <3>1, Zenon
    <2>5. u = <<>> <=> L = 2
      <3>1. (L - 1) - 1 = 0 <=> L = 2
        BY <1>2
      <3> QED BY <2>4, <3>1, NoItems
    <2>6. L > 2 => u[1] = cls[3]
      <3>1. L > 2 => 1 \in 1 .. (L - 1) - 1 /\ 1 + 1 = 2 /\ 2 \in 1 .. L - 1 /\ 2 + 1 = 3
        BY <1>2
      <3> QED BY <2>2, <2>4, <3>1
    <2> QED BY <2>2, <2>4, <2>5, <2>6
  <1>7. \A j, h \in 1 .. L : j < h =>
           \/ cls[j].word = "WHERE" /\ cls[h].word = "LIMIT"
           \/ cls[j].word = "WHERE" /\ cls[h].word = "ORDER"
           \/ cls[j].word = "LIMIT" /\ cls[h].word = "ORDER"
    BY <1>2 DEF InOrder
  <1>9. CASE L = 0
    <2>1. \A j \in 1 .. L : FALSE
      BY <1>9
    <2>2. \A word, default : Written(s, word, default) = default
      BY <1>3, <2>1 DEF Absent
    <2> QED BY <1>2, <1>4, <1>9, <2>2
            DEF WrittenWhere, WrittenOrder, WhereOf, LimitOf, OrderOf, After, Begins
  <1>10. CASE L = 1
    <2>1. \A j \in 1 .. L : j = 1
      BY <1>10
    <2>2. 1 \in 1 .. L /\ Tail(cls) = <<>> /\ cls # <<>>
      BY <1>4, <1>5, <1>10
    <2>3. \A word, default : Written(s, word, default) =
                                IF cls[1].word = word THEN cls[1].arg ELSE default
      <3> TAKE word, default
      <3>1. CASE cls[1].word = word
        <4>1. OnlyAt(cls, L, word, 1)
          BY <2>1, <2>2, <3>1 DEF OnlyAt
        <4> QED BY <1>3, <3>1, <4>1
      <3>2. CASE cls[1].word # word
        <4>1. Absent(cls, L, word)
          BY <2>1, <3>2 DEF Absent
        <4> QED BY <1>3, <3>2, <4>1
      <3> QED BY <3>1, <3>2
    <2>4. cls[1].word \in {"WHERE", "LIMIT", "ORDER"}
      BY <1>2, <2>2 DEF IsStatement, Range
    <2> QED BY <1>2, <2>2, <2>3, <2>4
            DEF WrittenWhere, WrittenOrder, WhereOf, LimitOf, OrderOf, After, Begins
  <1>11. CASE L = 2
    <2>1. \A j \in 1 .. L : j = 1 \/ j = 2
      BY <1>11
    <2>2. /\ 1 \in 1 .. L /\ 2 \in 1 .. L /\ cls # <<>>
          /\ Tail(cls) # <<>> /\ Tail(cls)[1] = cls[2] /\ Tail(Tail(cls)) = <<>>
      BY <1>4, <1>5, <1>6, <1>11
    <2>3. \/ cls[1].word = "WHERE" /\ cls[2].word = "LIMIT"
          \/ cls[1].word = "WHERE" /\ cls[2].word = "ORDER"
          \/ cls[1].word = "LIMIT" /\ cls[2].word = "ORDER"
      BY <1>7, <2>2
    <2>4. \A word, default : Written(s, word, default) =
             IF cls[1].word = word THEN cls[1].arg
             ELSE IF cls[2].word = word THEN cls[2].arg ELSE default
      <3> TAKE word, default
      <3>1. CASE cls[1].word = word
        <4>1. OnlyAt(cls, L, word, 1)
          BY <2>1, <2>2, <2>3, <3>1 DEF OnlyAt
        <4> QED BY <1>3, <3>1, <4>1
      <3>2. CASE cls[1].word # word /\ cls[2].word = word
        <4>1. OnlyAt(cls, L, word, 2)
          BY <2>1, <2>2, <3>2 DEF OnlyAt
        <4> QED BY <1>3, <3>2, <4>1
      <3>3. CASE cls[1].word # word /\ cls[2].word # word
        <4>1. Absent(cls, L, word)
          BY <2>1, <3>3 DEF Absent
        <4> QED BY <1>3, <3>3, <4>1
      <3> QED BY <3>1, <3>2, <3>3
    <2> QED BY <1>2, <2>2, <2>3, <2>4
            DEF WrittenWhere, WrittenOrder, WhereOf, LimitOf, OrderOf, After, Begins
  <1>12. CASE L = 3
    <2>1. \A j \in 1 .. L : j = 1 \/ j = 2 \/ j = 3
      BY <1>12
    <2>2. /\ 1 \in 1 .. L /\ 2 \in 1 .. L /\ 3 \in 1 .. L /\ cls # <<>>
          /\ Tail(cls) # <<>> /\ Tail(cls)[1] = cls[2] /\ Tail(Tail(cls)) # <<>>
          /\ Tail(Tail(cls))[1] = cls[3]
      BY <1>4, <1>5, <1>6, <1>12
    <2>3. cls[1].word = "WHERE" /\ cls[2].word = "LIMIT" /\ cls[3].word = "ORDER"
      BY <1>7, <2>2
    <2>4. /\ \A default : Written(s, "WHERE", default) = cls[1].arg
          /\ \A default : Written(s, "LIMIT", default) = cls[2].arg
          /\ \A default : Written(s, "ORDER", default) = cls[3].arg
      <3>1. OnlyAt(cls, L, "WHERE", 1) /\ OnlyAt(cls, L, "LIMIT", 2) /\ OnlyAt(cls, L, "ORDER", 3)
        BY <2>1, <2>2, <2>3 DEF OnlyAt
      <3> QED BY <1>3, <3>1
    <2> QED BY <1>2, <2>2, <2>3, <2>4
            DEF WrittenWhere, WrittenOrder, WhereOf, LimitOf, OrderOf, After, Begins
  <1>13. L <= 3
    <2>2. SUFFICES ASSUME 1 \in 1 .. L, 2 \in 1 .. L, 3 \in 1 .. L, 4 \in 1 .. L PROVE FALSE
      BY <1>2
    <2>3. cls[2].word = "LIMIT" /\ cls[3].word # "LIMIT"
      BY <1>7, <2>2
    <2> QED BY <1>7, <2>2, <2>3
  <1>14. L = 0 \/ L = 1 \/ L = 2 \/ L = 3
    <2>1. L \in Nat
      BY <1>2
    <2> QED BY <1>13, <2>1
  <1> QED BY <1>14, <1>9, <1>10, <1>11, <1>12, <1>13

-----------------------------------------------------------------------------
(***************************************************************************)
(* What optimizeOrdering sorts by.                                         *)
(***************************************************************************)
\* Where column name is shown.
ShownAt(s, name) == {h \in DOMAIN ColumnsOf(s) : ColumnsOf(s)[h] = ColumnId(name)}

LEMMA KeyIs ==
  ASSUME NEW s, IsStatement(s), ~Refused(s), StarFirst(s), NEW name, ~IsId(name), Known(name),
         Places(s, name) # {}
  PROVE  KeyAt(s, name) = 1 + Min(ShownAt(s, name))
  <1>1. PICK m \in 0 .. Len(s.cols) :
           /\ \A j \in 1 .. m : s.cols[j] # "*" /\ Known(s.cols[j])
           /\ \/ /\ m = Len(s.cols)
                 /\ ColumnsOf(s) = [j \in 1 .. m |-> ColumnId(s.cols[j])]
              \/ /\ m < Len(s.cols) /\ s.cols[m + 1] = "*"
                 /\ ColumnsOf(s) = [j \in 1 .. m |-> ColumnId(s.cols[j])] \o [j \in 1 .. N |-> j]
    BY ColumnsOfType
  <1>2. PICK L \in Nat : L = Len(s.cols) /\ DOMAIN s.cols = 1 .. L
    BY DEF IsStatement
  <1>3. PICK P : P = Places(s, name) /\ P \subseteq Nat /\ P # {}
    <2>1. \A j \in DOMAIN s.cols : j \in Nat
      BY <1>2
    <2>2. Places(s, name) \subseteq Nat
      BY <2>1 DEF Places
    <2> QED BY <2>2
  <1>4. PICK h : h = Min(P) /\ h \in P /\ \A y \in P : h <= y
    BY <1>3, MinIs
  <1>5. KeyAt(s, name) = IF s.cols[h] = "*" THEN ColumnId(name) + 1 ELSE h + 1
    BY <1>3, <1>4 DEF KeyAt
  <1>6. CASE m = L
    <2>1. ColumnsOf(s) = [j \in 1 .. L |-> ColumnId(s.cols[j])]
      <3>1. ~(m < Len(s.cols))
        BY <1>2, <1>6
      <3> QED BY <1>1, <1>6, <3>1
    <2>2. ASSUME NEW j \in 1 .. L
          PROVE  ColumnsOf(s)[j] = ColumnId(name) <=> s.cols[j] \in {"*", name}
      <3>1. s.cols[j] # "*" /\ Known(s.cols[j])
        BY <1>1, <1>6
      <3>2. ColumnsOf(s)[j] = ColumnId(s.cols[j])
        BY <2>1
      <3>3. Columns[ColumnId(s.cols[j])].name = s.cols[j] /\ Columns[ColumnId(name)].name = name
        BY <3>1, ColumnIdType
      <3> QED BY <3>1, <3>2, <3>3
    <2>3. DOMAIN ColumnsOf(s) = 1 .. L
      BY <2>1
    <2>4. ShownAt(s, name) = P
      BY <1>2, <1>3, <2>2, <2>3 DEF ShownAt, Places
    <2>5. s.cols[h] # "*" /\ h \in Nat
      BY <1>1, <1>2, <1>3, <1>4, <1>6 DEF Places
    <2>6. h + 1 = 1 + h
      BY <2>5
    <2> QED BY <1>4, <1>5, <2>4, <2>5, <2>6
  <1>7. CASE m # L
    <2>1. /\ m < L /\ s.cols[m + 1] = "*" /\ m \in Nat
          /\ ColumnsOf(s) = [j \in 1 .. m |-> ColumnId(s.cols[j])] \o [j \in 1 .. N |-> j]
      <3>1. m # Len(s.cols) /\ m \in Nat
        BY <1>1, <1>2, <1>7
      <3>2. /\ m < Len(s.cols) /\ s.cols[m + 1] = "*"
            /\ ColumnsOf(s) = [j \in 1 .. m |-> ColumnId(s.cols[j])] \o [j \in 1 .. N |-> j]
        BY <1>1, <3>1
      <3> QED BY <1>2, <3>1, <3>2
    <2>2. s.cols[1] = "*"
      <3>1. m + 1 \in DOMAIN s.cols
        BY <1>2, <2>1
      <3>2. "*" \in Range(s.cols)
        BY <2>1, <3>1 DEF Range
      <3> QED BY <3>2 DEF StarFirst
    <2>3. m = 0
      BY <1>1, <2>1, <2>2
    <2>4. PICK n \in Nat : n = N
      BY ColumnsType
    <2>5. PICK a, b : /\ a = [j \in 1 .. m |-> ColumnId(s.cols[j])] /\ b = [j \in 1 .. N |-> j]
                      /\ ColumnsOf(s) = a \o b
      BY <2>1
    <2>6. a \in Seq(Nat) /\ Len(a) = 0
      BY <2>3, <2>5
    <2>7. b \in Seq(Nat) /\ Len(b) = n /\ \A j \in 1 .. n : b[j] = j
      BY <2>4, <2>5
    <2>8. ColumnsOf(s) = b
      <3>1. a = <<>>
        BY <2>6
      <3>2. <<>> \o b = b
        BY <2>7
      <3> QED BY <2>5, <3>1, <3>2
    <2>9. ColumnId(name) \in 1 .. n
      BY <2>4, ColumnIdType
    <2>10. PICK x \in 1 .. n : x = ColumnId(name)
      BY <2>9
    <2>11. ShownAt(s, name) # {} /\ ShownAt(s, name) \subseteq Nat /\ \A y \in ShownAt(s, name) : y = x
      BY <2>7, <2>8, <2>10 DEF ShownAt
    <2>12. PICK S : S = ShownAt(s, name) /\ S # {} /\ S \subseteq Nat /\ \A y \in S : y = x
      BY <2>11
    <2>13. Min(S) = x
      BY <2>12, MinIs
    <2>14. h = 1
      <3>1. 1 \in P
        BY <1>2, <1>3, <2>1, <2>2 DEF Places
      <3>2. h \in Nat /\ h <= 1 /\ h # 0
        BY <1>2, <1>3, <1>4, <3>1 DEF Places
      <3> QED BY <3>2
    <2>15. KeyAt(s, name) = x + 1
      BY <1>5, <2>2, <2>10, <2>14
    <2>16. x + 1 = 1 + x
      OBVIOUS
    <2> QED BY <2>12, <2>13, <2>15, <2>16
  <1> QED BY <1>6, <1>7

(***************************************************************************)
(* Whatever the clients do at once, the records of a SELECT are sorted by  *)
(* the columns its ORDER BY names, ASC one way and DESC the other, and a   *)
(* record of a row nobody changed shows the values of that row, column by  *)
(* column (Executor.h 48-65, 130-143; Optimizer.h 103-155; RequestParser.h *)
(* 51-66).                                                                 *)
(***************************************************************************)
THEOREM SelectShowsRows == Spec => []RecordsShowRows
  <1>1. TypeInv /\ ShowInv => RecordsShowRows
    <2> SUFFICES ASSUME TypeInv, ShowInv, NEW c \in Clients,
                        Selecting(c), NEW shown, shown = ColumnsOf(run[c].st)
                 PROVE  /\ \E falling \in {"ASC", "DESC"} :
                              Ordered(run[c].st, run[c].body, falling)
                        /\ \A b \in Range(run[c].body) : b[1][1] \notin touched[c] =>
                              \A j \in DOMAIN shown :
                                 b[j + 1] = Cell(run[c].snap[b[1][1]], shown[j])
      BY Zenon DEF RecordsShowRows
    <2>1. PICK r, T : r = run[c] /\ T = touched[c]
      OBVIOUS
    <2> DEFINE s == r.st
               ord == WrittenOrder(r.st)
    <2>2. /\ r.pc = "answer" /\ WellPosed(s) /\ s.verb = "SELECT" /\ StarFirst(s)
          /\ RowsShown(r, T) /\ Answered(c, r) /\ r \in Threads
      BY <2>1 DEF Selecting, Answering, ShowInv, TypeInv, Poised
    <2>3. /\ IsStatement(s) /\ ~Refused(s) /\ InOrder(s) /\ r.body \in Bodies
          /\ \A n \in 1 .. Len(r.body) : IsRecord(s, r.body[n])
      BY <2>1, <2>2, InStmts DEF Answered, WellPosed, Threads
    <2>4. BodyShown(r, T) /\ BodySorted(r)
      BY <2>1, <2>2 DEF RowsShown
    <2>5. PICK L \in Nat : L = Len(r.body) /\ DOMAIN r.body = 1 .. L
      BY <2>3 DEF Bodies
    <2>6. PICK M \in Nat : /\ ord = OrderOf(s) /\ M = Len(ord) /\ DOMAIN ord = 1 .. M
      <3>1. PICK x, y : x = OrderOf(s) /\ x = y /\ y = ord
        BY <2>2, <2>3, WrittenIs
      <3>2. x \in Seq(OrderItem)
        BY <2>3, <3>1, Clauses
      <3>3. PICK M \in Nat : M = Len(x) /\ DOMAIN x = 1 .. M
        BY <3>2
      <3> QED BY <3>1, <3>3
    <2>7. ASSUME NEW b, NEW j \in 1 .. M PROVE Key(s, b, ord[j].col) = SortKey(s, b, j)
      <3>1. PICK name : name = ord[j].col
        OBVIOUS
      <3>2. CASE IsId(name)
        BY <2>6, <3>1, <3>2 DEF SortKey, KeyAt, Key
      <3>3. CASE ~IsId(name)
        <4>1. Known(name) /\ Places(s, name) # {}
          <5>1. ord[j] \in Range(OrderOf(s))
            BY <2>6 DEF Range
          <5> QED BY <2>3, <3>1, <3>3, <5>1 DEF Refused
        <4>2. KeyAt(s, name) = 1 + Min(ShownAt(s, name))
          BY <2>2, <2>3, <3>3, <4>1, KeyIs
        <4> QED BY <2>6, <3>1, <3>3, <4>2 DEF SortKey, ShownAt, Key
      <3> QED BY <3>2, <3>3
    <2>8. ASSUME NEW m \in 1 .. L, NEW n \in 1 .. L, m < n
          PROVE  InFront(s, r.body[m], r.body[n], "ASC")
      <3>1. PICK a, b : a = r.body[m] /\ b = r.body[n]
        OBVIOUS
      <3>2. Before(s, a, b) /\ IsRecord(s, a) /\ IsRecord(s, b)
        BY <2>1, <2>3, <2>4, <2>5, <2>8, <3>1 DEF BodySorted
      <3>3. \/ \E j : DecidedAt(s, a, b, j)
            \/ SameUpTo(s, a, b, Len(OrderOf(s))) /\ a[1][1] < b[1][1]
        BY <2>3, <3>2, BeforeIs
      <3>4. CASE \E j : DecidedAt(s, a, b, j)
        <4>1. PICK j : DecidedAt(s, a, b, j)
          BY <3>4
        <4>2. /\ j \in 1 .. M /\ SameUpTo(s, a, b, j - 1)
              /\ Precedes(s, j, SortKey(s, a, j), SortKey(s, b, j))
          BY <2>6, <4>1 DEF DecidedAt
        <4>3. \A h \in 1 .. j - 1 : h \in 1 .. M
          BY <4>2
        <4>4. \A h \in 1 .. j - 1 : Key(s, a, ord[h].col) = Key(s, b, ord[h].col)
          BY <2>7, <4>2, <4>3 DEF SameUpTo
        <4>5. IF ord[j].dir = "ASC" THEN Less(Key(s, b, ord[j].col), Key(s, a, ord[j].col))
              ELSE Less(Key(s, a, ord[j].col), Key(s, b, ord[j].col))
          BY <2>6, <2>7, <4>2 DEF Precedes
        <4> QED BY <2>6, <3>1, <4>2, <4>4, <4>5 DEF InFront
      <3>5. CASE SameUpTo(s, a, b, Len(OrderOf(s))) /\ a[1][1] < b[1][1]
        <4>1. \A j \in 1 .. M : Key(s, a, ord[j].col) = Key(s, b, ord[j].col)
          BY <2>6, <2>7, <3>5 DEF SameUpTo
        <4>2. \A by \in Range(ord) : Key(s, a, by.col) = Key(s, b, by.col)
          BY <2>6, <4>1 DEF Range
        <4> QED BY <3>1, <3>5, <4>2 DEF InFront
      <3> QED BY <3>3, <3>4, <3>5
    <2>9. ASSUME NEW b \in Range(r.body), b[1][1] \notin T, NEW j \in DOMAIN ColumnsOf(s)
          PROVE  b[j + 1] = Cell(r.snap[b[1][1]], ColumnsOf(s)[j])
      <3>1. PICK n \in 1 .. L : b = r.body[n]
        BY <2>5 DEF Range
      <3>2. DOMAIN ColumnsOf(s) = 1 .. Len(ColumnsOf(s))
        BY <2>3, ColumnsOfType
      <3>3. Shows(s, r.snap, T, b, Len(ColumnsOf(s)))
        BY <2>1, <2>4, <2>5, <3>1 DEF BodyShown
      <3> QED BY <2>9, <3>2, <3>3 DEF Shows
    <2>10. Ordered(s, r.body, "ASC")
      BY <2>5, <2>8 DEF Ordered
    <2> QED BY <2>1, <2>9, <2>10
  <1> QED BY <1>1, ShowAlways, PTL
=============================================================================
