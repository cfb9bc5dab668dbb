----------------------------- MODULE RowFormat -----------------------------
(***************************************************************************)
(* The line of a row as bytes: the layout that createTable gives the line, *)
(* the offsets that InfoLoader computes again when the table is opened,    *)
(* and the reads and writes of one column.                                 *)
(*                                                                         *)
(* A value is a sequence in every column: the characters of a text, or a   *)
(* single number.  Numbers are natural and small; a line is a function     *)
(* from its byte positions, byte 0 being the flag of the row.              *)
(***************************************************************************)
EXTENDS Integers, Sequences, FiniteSetsExt

CONSTANTS Columns   \* the columns of the table: name, text (or number), size

ASSUME ColumnsAssumption ==
    /\ Columns \in Seq([name : STRING, text : BOOLEAN, size : Nat])
    /\ Columns # <<>>

\* createTable: the flag and the columns.  (Its factor 3/2 is 1.)
LineLength == 1 + MapThenSumSet(LAMBDA i : Columns[i].size, DOMAIN Columns)

\* loadFile: each column begins where the one before it ends.
Offset[i \in DOMAIN Columns] ==
    IF i = 1 THEN 1 ELSE Offset[i - 1] + Columns[i - 1].size

\* columns_map, which keeps the first column of a name.
Known(name) == \E i \in DOMAIN Columns : Columns[i].name = name
ColumnId(name) == Min({i \in DOMAIN Columns : Columns[i].name = name})

\* A line of a new file.
Blank == [b \in 0 .. LineLength - 1 |-> 0]

-----------------------------------------------------------------------------
\* The memcpy of writeText and writeNumber, and the check before it.
Fits(o, s) == Len(s) <= LineLength - o

Store(line, o, s) ==
    [b \in DOMAIN line |-> IF b \in o .. o + Len(s) - 1 THEN s[b - o + 1] ELSE line[b]]

\* A text ends at its first null character or with its column.
ReadText(line, o, size) ==
    LET n == CHOOSE n \in 0 .. size :
                 /\ n = size \/ line[o + n] = 0
                 /\ \A j \in 0 .. n - 1 : line[o + j] # 0
    IN [j \in 1 .. n |-> line[o + j - 1]]

\* What a byte counts in a number, the lowest first.
Weight[j \in Nat] == IF j = 0 THEN 1 ELSE 256 * Weight[j - 1]

ReadNumber(line, o, size) ==
    <<MapThenSumSet(LAMBDA j : line[o + j] * Weight[j], 0 .. size - 1)>>

Cell(line, i) ==
    IF Columns[i].text THEN ReadText(line, Offset[i], Columns[i].size)
    ELSE ReadNumber(line, Offset[i], Columns[i].size)

\* What parse_value accepts for column i: a text without a null character, or
\* a number that its type can hold.
IsValue(i, v) ==
    IF Columns[i].text THEN v \in Seq(1 .. 255)
    ELSE Len(v) = 1 /\ v[1] < Weight[Columns[i].size]

\* parse_value: the bytes a value of column i is written as.
Encode(i, v) ==
    IF Columns[i].text THEN v
    ELSE [j \in 1 .. Columns[i].size |-> (v[1] \div Weight[j - 1]) % 256]

\* std::string::resize, which optimizeInsertValues applies to texts.
Resize(v, n) == [j \in 1 .. n |-> IF j <= Len(v) THEN v[j] ELSE 0]

\* The order of variant_types: of numbers, and of texts character by character.
Less(v, w) ==
    \E n \in 0 .. Len(v) :
        /\ n < Len(w)
        /\ \A j \in 1 .. n : v[j] = w[j]
        /\ n = Len(v) \/ v[n + 1] < w[n + 1]
=============================================================================
