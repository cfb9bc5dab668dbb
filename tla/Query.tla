------------------------------- MODULE Query -------------------------------
(***************************************************************************)
(* The life of a statement on one table: RequestParser finds its clauses,  *)
(* Optimizer turns them into conditions, columns and values, and Executor  *)
(* scans, reads and changes the lines of the table, one locked access      *)
(* after the other, while the statements of other clients run.             *)
(*                                                                         *)
(* A statement is what the client wrote, clause by clause and condition by *)
(* condition; its words are not spelt out.  The file is open and does not  *)
(* grow (modules MemoryMap and Tabble have its growth).                    *)
(***************************************************************************)
EXTENDS RowFormat, SequencesExt

CONSTANTS Clients,
          Statements,  \* what each client may send
          Contents,    \* the rows a table may hold when it is opened
          Erased,      \* the rows that were erased before
          FileLines,   \* bound: the lines of the file
          SizeMax,     \* SIZE_MAX
          MaxOps       \* bound: the statements of one client

Lines == 0 .. FileLines - 1

\* A value and a condition as the client writes them.
Value == Seq(Nat)
WhereItem == [word : {"cond", "AND", "OR"}, col : STRING, op : STRING, val : Value]

\* A statement: the columns and values it names and its clauses.
IsStatement(s) ==
    /\ s.verb \in {"SELECT", "INSERT", "DELETE", "UPDATE"}
    /\ s.cols \in Seq(STRING) /\ s.vals \in Seq(Value)
    /\ s.verb = "UPDATE" => Len(s.vals) = Len(s.cols)
    /\ s.clauses \in Seq(Range(s.clauses))
    /\ \A e \in Range(s.clauses) :
          \/ /\ e.word = "WHERE" /\ e.arg \in Seq(WhereItem)
             /\ \A w \in Range(e.arg) : w.word = "cond" => w.val # <<>>
          \/ e.word = "LIMIT" /\ e.arg \in Nat
          \/ e.word = "ORDER" /\ e.arg \in Seq([col : STRING, dir : {"ASC", "DESC"}])

-----------------------------------------------------------------------------
(***************************************************************************)
(* RequestParser: WHERE, LIMIT and ORDER BY, each in its place.  What      *)
(* stands elsewhere is not seen, is taken for a condition, or is refused.  *)
(***************************************************************************)
Begins(cls, word) == cls # <<>> /\ cls[1].word = word
After(cls, word) == IF Begins(cls, word) THEN Tail(cls) ELSE cls

WhereOf(s) == IF Begins(s.clauses, "WHERE") THEN s.clauses[1].arg ELSE <<>>

LimitOf(s) ==
    LET r == After(s.clauses, "WHERE")
    IN IF Begins(r, "LIMIT") THEN r[1].arg ELSE SizeMax

OrderOf(s) ==
    LET r == After(After(s.clauses, "WHERE"), "LIMIT")
    IN IF s.verb = "SELECT" /\ Begins(r, "ORDER") THEN r[1].arg ELSE <<>>

\* The parser throws, or words that are no condition reach the optimizer.
Misplaced(s) ==
    LET r == After(s.clauses, "WHERE")
        o == After(r, "LIMIT")
    IN \/ /\ Begins(s.clauses, "WHERE") /\ r # <<>>
          /\ r[1].word \notin {"LIMIT"} \cup (IF s.verb = "SELECT" THEN {"ORDER"} ELSE {})
       \/ s.verb = "SELECT" /\ Begins(o, "ORDER") /\ Len(o) > 1
       \/ /\ s.verb = "UPDATE" /\ s.clauses # <<>>
          /\ s.clauses[1].word \notin {"WHERE", "LIMIT"}

-----------------------------------------------------------------------------
(***************************************************************************)
(* Optimizer.  Conditions on the id become bounds at the front of the      *)
(* conditions, the last one first; other comparisons of the id are lost.   *)
(***************************************************************************)
IsId(name) == name \in {"id", "ID"}

Kind(e) ==
    IF e.word # "cond" THEN e.word
    ELSE IF ~IsId(e.col) THEN "COLUMN"
    ELSE CASE e.op = "==" -> "DIRECT"
           [] e.op = ">=" -> "FROM"
           [] e.op = "<=" -> "TO"
           [] OTHER -> "LOST"

\* The items of the given kinds, in their order.
OfKinds(w, kinds) ==
    LET pick[n \in 0 .. Len(w)] ==
            IF n = 0 THEN <<>>
            ELSE IF Kind(w[n]) \in kinds THEN Append(pick[n - 1], w[n]) ELSE pick[n - 1]
    IN pick[Len(w)]

Conditions(s) ==
    Reverse(OfKinds(WhereOf(s), {"DIRECT", "FROM", "TO"}))
        \o OfKinds(WhereOf(s), {"COLUMN", "AND", "OR"})

\* optimizeColumns: the names up to the first "*", which stands for all columns.
ColumnsOf(s) ==
    LET stars == {j \in DOMAIN s.cols : s.cols[j] = "*"}
        named == IF stars = {} THEN Len(s.cols) ELSE Min(stars) - 1
    IN [j \in 1 .. named |-> ColumnId(s.cols[j])]
           \o (IF stars = {} THEN <<>> ELSE [j \in DOMAIN Columns |-> j])

\* optimizeOrdering: where in the record the value to sort by stands.
Places(s, name) == {j \in DOMAIN s.cols : s.cols[j] \in {"*", name}}

\* Faulty variant of KeyAt: the record is taken to begin with the columns.
KeyAt_NoId(s, name) ==
    IF IsId(name) THEN 1
    ELSE LET j == Min(Places(s, name))
         IN IF s.cols[j] = "*" THEN ColumnId(name) ELSE j

KeyAt(s, name) ==
    IF IsId(name) THEN 1
    ELSE LET j == Min(Places(s, name))
         IN IF s.cols[j] = "*" THEN ColumnId(name) + 1 ELSE j + 1

\* optimizeInsertValues and optimizeUpdateValues: where value j goes, and as
\* which bytes.
Assigned(s) ==
    CASE s.verb = "INSERT" -> DOMAIN s.vals
      [] s.verb = "UPDATE" -> DOMAIN ColumnsOf(s)
      [] OTHER -> {}

Target(s, j) ==
    IF s.verb = "INSERT" THEN ((j - 1) % Len(Columns)) + 1 ELSE ColumnsOf(s)[j]

\* Faulty variant of Bytes: the texts of an INSERT are not resized.
Bytes_NotResized(s, j) == Encode(Target(s, j), s.vals[j])

Bytes(s, j) ==
    IF s.verb = "INSERT" /\ Columns[Target(s, j)].text
    THEN Resize(s.vals[j], Columns[Target(s, j)].size)
    ELSE Encode(Target(s, j), s.vals[j])

\* The word compared with an id, or with a column of numbers, is no number.
NoNumber(e) ==
    \/ Kind(e) \in {"DIRECT", "FROM", "TO"} /\ Len(e.val) # 1
    \/ /\ Kind(e) = "COLUMN" /\ Known(e.col)
       /\ ~Columns[ColumnId(e.col)].text /\ ~IsValue(ColumnId(e.col), e.val)

Faulty(e) ==
    \/ NoNumber(e)
    \/ Kind(e) = "COLUMN" /\ (~Known(e.col) \/ e.op \notin {"==", "!=", ">", "<"})

UnknownColumn(s) ==
    \E j \in DOMAIN s.cols : ~Known(s.cols[j]) /\ \A h \in 1 .. j : s.cols[h] # "*"

\* Every exception on the way to the executor.
Refused(s) ==
    \/ Misplaced(s)
    \/ \E e \in Range(WhereOf(s)) : Faulty(e)
    \/ UnknownColumn(s)
    \/ \E b \in Range(OrderOf(s)) :
          ~IsId(b.col) /\ (Places(s, b.col) = {} \/ ~Known(b.col))
    \/ s.verb = "INSERT" /\ Len(s.vals) % Len(Columns) # 0
    \/ s.verb = "UPDATE" /\ Len(s.vals) < Len(ColumnsOf(s))
    \/ \E j \in Assigned(s) : ~Columns[Target(s, j)].text /\ ~IsValue(Target(s, j), s.vals[j])

\* Words behind ORDER BY, which make the parser throw.
BehindOrder(s) ==
    LET at == {j \in DOMAIN s.clauses : s.clauses[j].word # "WHERE"}
        r == IF at = {} THEN <<>> ELSE SubSeq(s.clauses, Min(at), Len(s.clauses))
        o == After(r, "LIMIT")
    IN s.verb = "SELECT" /\ Begins(o, "ORDER") /\ Len(o) > 1

\* The first exception is one of std::stoul or std::stoi, which nobody
\* catches.  A BOOL, the number of one byte, has an IncorrectInputException.
Uncaught(s) ==
    LET w == WhereOf(s)
        faulty == {j \in DOMAIN w : Faulty(w[j])}
    IN /\ ~BehindOrder(s) /\ ~(s.verb = "UPDATE" /\ UnknownColumn(s))
       /\ faulty # {}
       /\ LET e == w[Min(faulty)]
          IN NoNumber(e) /\ (Kind(e) = "COLUMN" => Columns[ColumnId(e.col)].size # 1)

\* The texts a statement writes have no null character.
ASSUME QueryAssumption ==
    /\ FileLines \in Nat \ {0}
    /\ SizeMax \in Nat /\ SizeMax > 4 * FileLines
    /\ MaxOps \in Nat
    /\ \A c \in Clients : \A s \in Statements[c] :
          /\ IsStatement(s)
          /\ Refused(s) \/ \A j \in Assigned(s) : IsValue(Target(s, j), s.vals[j])
    /\ \A v \in Contents \cup Erased :
          /\ v \in Seq(Value) /\ Len(v) = Len(Columns)
          /\ \A i \in DOMAIN Columns : IsValue(i, v[i])

-----------------------------------------------------------------------------
VARIABLES line,     \* the file
          freeId,   \* Tabble::freeId
          places,   \* Tabble::activePlaces
          stack,    \* Tabble::stack_freeId, its top last
          run,      \* what each client's thread is doing
          left,     \* the statements a client may still send
          crashed,  \* the process ended
          touched   \* history: the lines others changed during a statement

tableVars == <<freeId, places, stack>>
vars == <<line, tableVars, run, left, crashed, touched>>

(***************************************************************************)
(* The thread of a client: its location, the statement it executes, the    *)
(* conditions left, the line it is at, max_line, active_count, the next    *)
(* condition, column or value, current_result, the record it reads and     *)
(* result.body.  The file at the beginning of the statement is history.    *)
(***************************************************************************)
Idle ==
    [pc |-> "idle",
     st |-> [verb |-> "NONE", cols |-> <<>>, vals |-> <<>>, clauses |-> <<>>],
     conds |-> <<>>, i |-> 0, last |-> 0, cnt |-> 0, k |-> 1, ok |-> FALSE,
     rec |-> <<>>, body |-> <<>>, snap |-> <<>>]

At(c, p) == run[c].pc = p /\ ~crashed
Become(c, r) == run' = [run EXCEPT ![c] = r]
Active(file, l) == file[l][0] = 1

\* The line of a row that was inserted with the values v.
RowLine(v) ==
    LET Byte(b, j) == Resize(Encode(j, v[j]), Columns[j].size)[b - Offset[j] + 1]
    IN [b \in 0 .. LineLength - 1 |->
           IF b = 0 THEN 1
           ELSE Byte(b, Max({j \in DOMAIN Columns : Offset[j] <= b}))]

(***************************************************************************)
(* The table has just been opened: analyzeHoles has found its rows among   *)
(* the lines that were never used and those of erased rows.                *)
(***************************************************************************)
Init ==
    /\ line \in [Lines -> {Blank} \cup {RowLine(v) : v \in Contents}
                              \cup {Store(RowLine(v), 0, <<0>>) : v \in Erased}]
    /\ LET rows == {l \in Lines : Active(line, l)}
       IN /\ freeId = IF rows = {} THEN 0 ELSE Max(rows) + 1
          /\ places = Cardinality(rows)
          /\ \E s \in [1 .. freeId - places -> (0 .. freeId - 1) \ rows] :
                /\ \A i, j \in DOMAIN s : i < j => s[i] < s[j]
                /\ stack = s
    /\ run = [c \in Clients |-> Idle]
    /\ left = [c \in Clients |-> MaxOps]
    /\ crashed = FALSE
    /\ touched = [c \in Clients |-> {}]

\* History: c changes the file at line l.
Touch(c, l) ==
    touched' = [d \in Clients |->
        IF d # c /\ run[d].pc # "idle" THEN touched[d] \cup {l} ELSE touched[d]]

\* The lines a thread is in the middle of changing.
InHand(r) ==
    IF r.pc \in {"activate", "write", "counted", "deactivate", "push", "uncount"}
    THEN {r.i} ELSE {}

-----------------------------------------------------------------------------
(***************************************************************************)
(* Operator::execute: the statement is parsed and optimized, then it goes  *)
(* to its executor, straight to the line if it begins with an id.          *)
(***************************************************************************)
IsDirect(s) == Conditions(s) # <<>> /\ Kind(Conditions(s)[1]) = "DIRECT"

\* The work on a line is over.
Finished(r) ==
    IF IsDirect(r.st) THEN [r EXCEPT !.pc = "answer"]
    ELSE [r EXCEPT !.pc = "scan", !.i = @ + 1]

\* A line passed the conditions.  Without columns there is nothing to do to it.
Selected(r) ==
    LET x == [r EXCEPT !.k = 1, !.rec = <<<<r.i>>>>]
    IN IF r.st.verb # "DELETE" /\ ColumnsOf(r.st) = <<>>
       THEN Finished([x EXCEPT !.body = Append(@, x.rec)])
       ELSE [x EXCEPT !.pc = CASE r.st.verb = "DELETE" -> "deactivate"
                               [] r.st.verb = "SELECT" -> "read"
                               [] OTHER -> "write"]

Submit(c) ==
    /\ At(c, "idle") /\ left[c] > 0
    /\ \E s \in Statements[c] :
          LET r == [Idle EXCEPT !.st = s, !.snap = line, !.conds = Conditions(s)]
              d == [r EXCEPT !.i = Conditions(s)[1].val[1]]
          IN Become(c, IF Refused(s)
                       THEN [r EXCEPT !.pc = IF Uncaught(s) THEN "uncaught" ELSE "answer"]
                       ELSE IF s.verb = "INSERT"
                       THEN [r EXCEPT !.pc = IF s.vals = <<>> THEN "answer" ELSE "take"]
                       ELSE IF ~IsDirect(s) THEN [r EXCEPT !.pc = "bound"]
                       ELSE IF s.verb = "SELECT" THEN Selected(d)
                       ELSE [d EXCEPT !.pc = "probe"])
    /\ left' = [left EXCEPT ![c] = @ - 1]
    /\ touched' = [touched EXCEPT ![c] = UNION {InHand(run[d]) : d \in Clients \ {c}}]
    /\ UNCHANGED <<line, tableVars, crashed>>

\* The answer is sent.
Answer(c) ==
    /\ At(c, "answer")
    /\ Become(c, Idle)
    /\ touched' = [touched EXCEPT ![c] = {}]
    /\ UNCHANGED <<line, tableVars, left, crashed>>

-----------------------------------------------------------------------------
(***************************************************************************)
(* The bounds of a scan.  A SELECT skips the leading bounds, ANDs and ORs; *)
(* DELETE and UPDATE keep their conditions and always begin at line 0.     *)
(***************************************************************************)
\* Faulty variant of Leading: the ANDs between the bounds stay.
Leading_BoundsOnly(cs, kinds) ==
    Max({n \in 0 .. Len(cs) : \A j \in 1 .. n : Kind(cs[j]) \in kinds \ {"AND", "OR"}})

Leading(cs, kinds) ==
    Max({n \in 0 .. Len(cs) : \A j \in 1 .. n : Kind(cs[j]) \in kinds})

\* Faulty variant of BoundIn: the bound that the optimizer put in front.
BoundIn_FrontMost(cs, kind, default) ==
    LET at == {j \in DOMAIN cs : Kind(cs[j]) = kind}
    IN IF at = {} THEN default ELSE cs[Min(at)].val[1]

BoundIn(cs, kind, default) ==
    LET at == {j \in DOMAIN cs : Kind(cs[j]) = kind}
    IN IF at = {} THEN default ELSE cs[Max(at)].val[1]

Bound(c) ==
    LET r == run[c]
        select == r.st.verb = "SELECT"
        n == Leading(r.conds, {"TO", "FROM"} \cup (IF select THEN {"AND", "OR"} ELSE {}))
        lead == SubSeq(r.conds, 1, n)
    IN /\ At(c, "bound")
       /\ Become(c, [r EXCEPT !.pc = "count",
                              !.last = BoundIn(lead, "TO", freeId),
                              !.i = IF select THEN BoundIn(lead, "FROM", 0) ELSE 0,
                              !.conds = IF select THEN SubSeq(@, n + 1, Len(@)) ELSE @])
       /\ UNCHANGED <<line, tableVars, left, crashed, touched>>

ActiveCount(r) == Min({places, LimitOf(r.st)})

\* std::vector::reserve takes less than half of what a size_t counts.
Reservable(n) == n <= SizeMax \div 2

Count(c) ==
    /\ At(c, "count") /\ Reservable(ActiveCount(run[c]))
    /\ Become(c, [run[c] EXCEPT !.pc = "scan", !.cnt = ActiveCount(run[c])])
    /\ UNCHANGED <<line, tableVars, left, crashed, touched>>

-----------------------------------------------------------------------------
(***************************************************************************)
(* The scan: isActive of the next line, the conditions one column after    *)
(* the other, and what the statement does to the line.                     *)
(***************************************************************************)
\* Faulty variant of Looping: <= instead of <.
Looping_Inclusive(r) == r.i <= r.last /\ Len(r.body) < r.cnt

Looping(r) == r.i < r.last /\ Len(r.body) < r.cnt

ScanLine(c) ==
    LET r == run[c] IN
    /\ At(c, "scan") /\ Looping(r) /\ r.i \in Lines
    /\ Become(c, IF ~Active(line, r.i) THEN Finished(r)
                 ELSE IF r.conds = <<>> THEN Selected(r)
                 ELSE [r EXCEPT !.pc = "test", !.k = 1, !.ok = FALSE])
    /\ UNCHANGED <<line, tableVars, left, crashed, touched>>

\* DELETE and UPDATE by id look at the flag; a DELETE names the id anyway.
ProbeLine(c) ==
    LET r == run[c] IN
    /\ At(c, "probe") /\ r.i \in Lines
    /\ Become(c, IF Active(line, r.i) THEN Selected(r)
                 ELSE [r EXCEPT !.pc = "answer",
                                !.body = IF r.st.verb = "DELETE" THEN <<<<<<r.i>>>>>>
                                         ELSE <<>>])
    /\ UNCHANGED <<line, tableVars, left, crashed, touched>>

\* logic_op when condition n is reached.
LogicOp(cs, n) ==
    LET at == {j \in 1 .. n - 1 : Kind(cs[j]) \in {"AND", "OR"}}
    IN IF at = {} THEN "OR" ELSE Kind(cs[Max(at)])

\* functions[].  (Its undocumented AND and OR of two BOOLs are left out.)
Holds(op, v, w) ==
    CASE op = "==" -> v = w
      [] op = "!=" -> v # w
      [] op = ">" -> Less(w, v)
      [] op = "<" -> Less(v, w)

\* A bound among the conditions indexes functions[] beyond its end: undefined.
Met(r) ==
    LET e == r.conds[r.k] IN
    IF Kind(e) = "COLUMN"
    THEN {Holds(e.op, Cell(line[r.i], ColumnId(e.col)), e.val)} ELSE BOOLEAN

Test(c) ==
    LET r == run[c] IN
    /\ At(c, "test")
    /\ \E met \in Met(r) :
          LET now == IF Kind(r.conds[r.k]) \in {"AND", "OR"} THEN r.ok
                     ELSE IF LogicOp(r.conds, r.k) = "OR" THEN r.ok \/ met
                     ELSE r.ok /\ met
          IN Become(c, IF r.k < Len(r.conds) THEN [r EXCEPT !.k = @ + 1, !.ok = now]
                       ELSE IF now THEN Selected(r) ELSE Finished(r))
    /\ UNCHANGED <<line, tableVars, left, crashed, touched>>

\* readRecord
ReadColumn(c) ==
    LET r == run[c]
        cols == ColumnsOf(r.st)
        x == [r EXCEPT !.k = @ + 1, !.rec = Append(@, Cell(line[r.i], cols[r.k]))]
    IN /\ At(c, "read") /\ r.i \in Lines
       /\ Become(c, IF r.k < Len(cols) THEN x
                    ELSE Finished([x EXCEPT !.body = Append(@, x.rec)]))
       /\ UNCHANGED <<line, tableVars, left, crashed, touched>>

\* The order of stable_sort: the records come in the order of their ids.
Before(s, a, b) ==
    LET by == OrderOf(s)
        differ == {j \in DOMAIN by : a[KeyAt(s, by[j].col)] # b[KeyAt(s, by[j].col)]}
    IN IF differ = {} THEN a[1][1] < b[1][1]
       ELSE LET first == by[Min(differ)]
                at == KeyAt(s, first.col)
            IN IF first.dir = "ASC" THEN Less(b[at], a[at]) ELSE Less(a[at], b[at])

\* std::stable_sort: each record stands behind those before it.
Rank(s, body, j) == Cardinality({h \in DOMAIN body : Before(s, body[h], body[j])})
Sorted(s, body) ==
    [n \in DOMAIN body |-> body[CHOOSE j \in DOMAIN body : Rank(s, body, j) = n - 1]]

EndScan(c) ==
    LET r == run[c] IN
    /\ At(c, "scan") /\ ~Looping(r)
    /\ Become(c, [r EXCEPT !.pc = "answer", !.body = Sorted(r.st, @)])
    /\ UNCHANGED <<line, tableVars, left, crashed, touched>>

-----------------------------------------------------------------------------
(***************************************************************************)
(* Tabble::update, one column after the other, for UPDATE and INSERT.      *)
(***************************************************************************)
Writable(r) == Fits(Offset[Target(r.st, r.k)], Bytes(r.st, r.k))

WriteColumn(c) ==
    LET r == run[c]
        x == [r EXCEPT !.k = @ + 1]
    IN /\ At(c, "write") /\ Writable(r)
       /\ line' = [line EXCEPT ![r.i] =
                      Store(@, Offset[Target(r.st, r.k)], Bytes(r.st, r.k))]
       /\ Become(c, IF r.st.verb = "INSERT"
                    THEN [x EXCEPT !.pc = IF r.k % Len(Columns) = 0 THEN "counted" ELSE @]
                    ELSE IF r.k < Len(ColumnsOf(r.st)) THEN x
                    ELSE Finished([x EXCEPT !.body = Append(@, r.rec)]))
       /\ Touch(c, r.i)
       /\ UNCHANGED <<tableVars, left, crashed>>

(***************************************************************************)
(* Tabble::erase.                                                          *)
(***************************************************************************)
Deactivate(c) ==
    LET r == run[c] IN
    /\ At(c, "deactivate")
    /\ line' = [line EXCEPT ![r.i][0] = 0]
    /\ Become(c, [r EXCEPT !.pc = "push"])
    /\ Touch(c, r.i)
    /\ UNCHANGED <<tableVars, left, crashed>>

\* Faulty variant of PushInStack: the line after the erased one.
PushInStack_NextLine(c) ==
    /\ At(c, "push")
    /\ stack' = Append(stack, run[c].i + 1)
    /\ Become(c, [run[c] EXCEPT !.pc = "uncount"])
    /\ UNCHANGED <<line, freeId, places, left, crashed, touched>>

PushInStack(c) ==
    /\ At(c, "push")
    /\ stack' = Append(stack, run[c].i)
    /\ Become(c, [run[c] EXCEPT !.pc = "uncount"])
    /\ UNCHANGED <<line, freeId, places, left, crashed, touched>>

Uncount(c) ==
    LET r == run[c] IN
    /\ At(c, "uncount")
    /\ places' = (places + SizeMax) % (SizeMax + 1)
    /\ Become(c, Finished([r EXCEPT !.body = Append(@, r.rec)]))
    /\ UNCHANGED <<line, freeId, stack, left, crashed, touched>>

(***************************************************************************)
(* executeInsert: Tabble::insert for each row of the values.               *)
(***************************************************************************)
PopFreeId(c) ==
    /\ At(c, "take") /\ stack # <<>>
    /\ stack' = Front(stack)
    /\ Become(c, [run[c] EXCEPT !.pc = "activate", !.i = Last(stack)])
    /\ UNCHANGED <<line, freeId, places, left, crashed, touched>>

LoadFreeId(c) ==
    /\ At(c, "take") /\ stack = <<>> /\ freeId < FileLines
    /\ Become(c, [run[c] EXCEPT !.pc = "new", !.i = freeId])
    /\ UNCHANGED <<line, tableVars, left, crashed, touched>>

CountNewLine(c) ==
    /\ At(c, "new")
    /\ places' = (places + 1) % (SizeMax + 1)
    /\ Become(c, [run[c] EXCEPT !.pc = "claim"])
    /\ UNCHANGED <<line, freeId, stack, left, crashed, touched>>

ClaimLine(c) ==
    /\ At(c, "claim")
    /\ freeId' = freeId + 1
    /\ Become(c, [run[c] EXCEPT !.pc = "activate"])
    /\ UNCHANGED <<line, places, stack, left, crashed, touched>>

Activate(c) ==
    LET r == run[c] IN
    /\ At(c, "activate")
    /\ line' = [line EXCEPT ![r.i][0] = 1]
    /\ Become(c, [r EXCEPT !.pc = "write"])
    /\ Touch(c, r.i)
    /\ UNCHANGED <<tableVars, left, crashed>>

CountInserted(c) ==
    LET r == run[c] IN
    /\ At(c, "counted")
    /\ places' = (places + 1) % (SizeMax + 1)
    /\ Become(c, [r EXCEPT !.pc = IF r.k <= Len(r.st.vals) THEN "take" ELSE "answer",
                           !.body = Append(@, <<<<r.i>>>>)])
    /\ UNCHANGED <<line, freeId, stack, left, crashed, touched>>

-----------------------------------------------------------------------------
(***************************************************************************)
(* What ends the process: findLine of a line beyond the file is null, the  *)
(* exceptions of std::stoul, parse_value, reserve and writeText are caught *)
(* by nobody, and a call through an element beyond functions[] may do      *)
(* anything.                                                               *)
(***************************************************************************)
Fatal(r) ==
    \/ r.pc = "uncaught"
    \/ r.pc = "scan" /\ Looping(r) /\ r.i \notin Lines
    \/ r.pc \in {"probe", "read"} /\ r.i \notin Lines
    \/ r.pc = "count" /\ ~Reservable(ActiveCount(r))
    \/ r.pc = "test" /\ Kind(r.conds[r.k]) \in {"DIRECT", "FROM", "TO"}
    \/ r.pc = "write" /\ ~Writable(r)

Crash(c) ==
    /\ ~crashed /\ Fatal(run[c])
    /\ crashed' = TRUE
    /\ UNCHANGED <<line, tableVars, run, left, touched>>

Step(c) ==
    \/ Answer(c) \/ Bound(c) \/ Count(c) \/ ScanLine(c) \/ ProbeLine(c)
    \/ Test(c) \/ ReadColumn(c) \/ EndScan(c) \/ WriteColumn(c)
    \/ Deactivate(c) \/ PushInStack(c) \/ Uncount(c)
    \/ PopFreeId(c) \/ LoadFreeId(c) \/ CountNewLine(c) \/ ClaimLine(c)
    \/ Activate(c) \/ CountInserted(c) \/ Crash(c)

Next == \E c \in Clients : Submit(c) \/ Step(c)

Spec == Init /\ [][Next]_vars

-----------------------------------------------------------------------------
(***************************************************************************)
(* What the statements mean, said of the words the client wrote.           *)
(***************************************************************************)
Written(s, word, default) ==
    LET at == {j \in DOMAIN s.clauses : s.clauses[j].word = word}
    IN IF at = {} THEN default ELSE s.clauses[Min(at)].arg

WrittenWhere(s) == Written(s, "WHERE", <<>>)
WrittenOrder(s) == Written(s, "ORDER", <<>>)

\* The clauses in the order of the documentation.
InOrder(s) ==
    \A j, h \in DOMAIN s.clauses : j < h =>
        <<s.clauses[j].word, s.clauses[h].word>>
            \in {<<"WHERE", "LIMIT">>, <<"WHERE", "ORDER">>, <<"LIMIT", "ORDER">>}

\* Conditions with an AND or OR between each two of them.
Alternating(w) ==
    /\ \A j \in DOMAIN w : w[j].word = "cond" <=> j % 2 = 1
    /\ w = <<>> \/ w[Len(w)].word = "cond"

\* The statements the executor has a defined behaviour for: lines of the
\* file, texts that fit into the line, comparisons of the id that the
\* optimizer knows, bounds in SELECT only and not beside an id.
WellPosed(s) ==
    LET w == Range(WrittenWhere(s))
        kinds == {Kind(e) : e \in w}
    IN /\ InOrder(s) /\ ~Refused(s) /\ "LOST" \notin kinds
       /\ Alternating(WrittenWhere(s))
       /\ s.verb # "SELECT" \/ "DIRECT" \in kinds => kinds \cap {"FROM", "TO"} = {}
       /\ \A e \in w : /\ Kind(e) = "DIRECT" => e.val[1] \in Lines
                       /\ Kind(e) = "TO" => e.val[1] <= FileLines
       /\ \A j \in Assigned(s) : Fits(Offset[Target(s, j)], Bytes(s, j))

\* A bound restricts the rows whatever connects it to the other conditions.
\* Of two bounds of a kind the first one written counts.
First(w, kind) == {j \in DOMAIN w : /\ Kind(w[j]) = kind
                                    /\ \A h \in 1 .. j - 1 : Kind(w[h]) # kind}

InBounds(w, l) ==
    /\ \A j \in First(w, "FROM") : l >= w[j].val[1]
    /\ \A j \in First(w, "TO") : l <= w[j].val[1]

\* AND and OR from left to right: some condition begins the last stretch of
\* ANDs that keeps the result true.
Satisfied(w, f) ==
    LET cols == {j \in DOMAIN w : Kind(w[j]) = "COLUMN"}
        true == {j \in cols : Holds(w[j].op, Cell(f, ColumnId(w[j].col)), w[j].val)}
        ands == {j \in cols : j # Min(cols) /\ w[j - 1].word = "AND"}
    IN cols = {} \/ \E j \in true \ ands : \A h \in ands : h > j => h \in true

Wanted(s, file, l) ==
    /\ Active(file, l)
    /\ InBounds(WrittenWhere(s), l)
    /\ Satisfied(WrittenWhere(s), file[l])

Ids(r) == {b[1][1] : b \in Range(r.body)}
Answering(c) == run[c].pc = "answer" /\ WellPosed(run[c].st)

(***************************************************************************)
(* The rows a scan selects, deletes or updates satisfy the WHERE, unless   *)
(* somebody else changed them meanwhile (Executor.h 98-127, 195-217,       *)
(* 255-277; Optimizer.h 13-100).                                           *)
(***************************************************************************)
Scanned(c) == Answering(c) /\ run[c].st.verb # "INSERT" /\ ~IsDirect(run[c].st)

OnlyWantedRows ==
    \A c \in Clients : Scanned(c) =>
        \A l \in Ids(run[c]) \ touched[c] : Wanted(run[c].st, run[c].snap, l)

\* The rows an answer lacks: they satisfy the WHERE, nobody changes them
\* meanwhile, they do not stand behind the LIMIT, and no row that came during
\* the scan took their place in active_count.
Lacking(c) ==
    LET r == run[c] IN
    {l \in Lines \ (touched[c] \cup Ids(r)) :
        /\ Wanted(r.st, r.snap, l)
        /\ Ids(r) \cap touched[c] = {}
        /\ Len(r.body) = Written(r.st, "LIMIT", SizeMax) => \E m \in Ids(r) : m > l}

\* The row that "id <= y" names.
AtBound(w, l) == \E j \in First(w, "TO") : w[j].val[1] = l

(***************************************************************************)
(* No answer lacks a row, but for the row y of "id <= y".  It belongs to  *)
(* the documented range (documentary.md 31), but a scan stops before it,   *)
(* so it is excepted (Executor.h 98-127, 195-217, 255-277; Tabble.h 66-90, *)
(* 146-163).                                                               *)
(***************************************************************************)
EveryWantedRow ==
    \A c \in Clients : Scanned(c) =>
        \A l \in Lacking(c) : AtBound(WrittenWhere(run[c].st), l)

(***************************************************************************)
(* A statement changes what it says and nothing else: of the lines nobody  *)
(* else touched, a DELETE clears the flags of those it reports, an UPDATE  *)
(* gives the columns it names their values, an INSERT stores its values,   *)
(* cut to their columns, and all other bytes stay.  Excepted is an UPDATE  *)
(* with a text shorter than the old one: the code keeps the end of the     *)
(* old text, against documentary.md 49 (Tabble.h 128-163, MemoryMapLinux.h *)
(* 104-150, InfoLoader.h 62-82, Optimizer.h 158-207).                      *)
(***************************************************************************)
InsertedRow(s, n, f) ==
    /\ f[0] = 1
    /\ \A j \in DOMAIN Columns :
          LET v == s.vals[(n - 1) * Len(Columns) + j]
          IN Cell(f, j) = IF Columns[j].text
                          THEN SubSeq(v, 1, Min({Len(v), Columns[j].size})) ELSE v

\* Each column at most once, and no value longer than its column.
Tidy(s) ==
    /\ \A j \in Assigned(s) : Len(s.vals[j]) <= Columns[Target(s, j)].size
    /\ \A j, h \in Assigned(s) : Target(s, j) = Target(s, h) => j = h

\* Value j is a text shorter than the one it replaces.
Shorter(s, j, old) ==
    Columns[Target(s, j)].text /\ Len(s.vals[j]) < Len(Cell(old, Target(s, j)))

UpdatedRow(s, old, new) ==
    Tidy(s) =>
        /\ new[0] = old[0]
        /\ \A j \in Assigned(s) : ~Shorter(s, j, old) => Cell(new, Target(s, j)) = s.vals[j]
        /\ \A i \in DOMAIN Columns :
              (\A j \in Assigned(s) : Target(s, j) # i) => Cell(new, i) = Cell(old, i)

ChangesAsTold ==
    \A c \in Clients : Answering(c) =>
        \A l \in Lines \ touched[c] :
            LET r == run[c]
                old == r.snap[l]
                new == line[l]
            IN CASE r.st.verb = "INSERT" /\ l \in Ids(r) ->
                        \E n \in DOMAIN r.body : /\ r.body[n][1][1] = l
                                                 /\ InsertedRow(r.st, n, new)
                 [] r.st.verb = "UPDATE" /\ l \in Ids(r) -> UpdatedRow(r.st, old, new)
                 [] r.st.verb = "DELETE" /\ l \in Ids(r) -> new = [old EXCEPT ![0] = 0]
                 [] OTHER -> new = old

-----------------------------------------------------------------------------
\* "*" after another column shifts the columns optimizeOrdering finds.
StarFirst(s) == "*" \in Range(s.cols) => s.cols[1] = "*"

\* The column of a record, by its name.
Key(s, b, name) ==
    LET shown == ColumnsOf(s)
    IN IF IsId(name) THEN b[1]
       ELSE b[1 + Min({j \in DOMAIN shown : shown[j] = ColumnId(name)})]

\* The order asked for by the named columns, the first that differs deciding:
\* those marked falling have the greater value first, the others the smaller
\* one, and equal rows stand by id.
InFront(s, a, b, falling) ==
    LET order == WrittenOrder(s)
        Equal(n) == Key(s, a, n) = Key(s, b, n)
    IN \/ \E j \in DOMAIN order :
             /\ \A h \in 1 .. j - 1 : Equal(order[h].col)
             /\ LET n == order[j].col
                IN IF order[j].dir = falling THEN Less(Key(s, b, n), Key(s, a, n))
                   ELSE Less(Key(s, a, n), Key(s, b, n))
       \/ (\A by \in Range(order) : Equal(by.col)) /\ a[1][1] < b[1][1]

Ordered(s, body, falling) ==
    \A m, n \in DOMAIN body : m < n => InFront(s, body[m], body[n], falling)

Selecting(c) == Answering(c) /\ run[c].st.verb = "SELECT" /\ StarFirst(run[c].st)

(***************************************************************************)
(* The records of a SELECT show the rows they name, column by column, and  *)
(* are sorted by the named columns, ASC one way and DESC the other.  Which *)
(* way is which is left open: the code has the greater value first for     *)
(* ASC, which is not "as usual" (documentary.md 62; Executor.h 48-65,      *)
(* 130-143; Optimizer.h 103-155; RequestParser.h 51-66).                   *)
(***************************************************************************)
RecordsShowRows ==
    \A c \in Clients : Selecting(c) =>
        LET r == run[c]
            shown == ColumnsOf(r.st)
        IN /\ \E falling \in {"ASC", "DESC"} : Ordered(r.st, r.body, falling)
           /\ \A b \in Range(r.body) : b[1][1] \notin touched[c] =>
                 \A j \in DOMAIN shown : b[j + 1] = Cell(r.snap[b[1][1]], shown[j])

(***************************************************************************)
(* "Concurrent access with stripe-based locking" (README 47): whatever the *)
(* clients do at once, a statement with a defined behaviour ends with an   *)
(* answer and not with the process (Executor.h 117-123, 208-214;           *)
(* MemoryMapLinux.h 96-150).                                               *)
(***************************************************************************)
WellPosedSurvive ==
    crashed => \E c \in Clients : Fatal(run[c]) /\ ~WellPosed(run[c].st)

TypeOK ==
    /\ line \in [Lines -> [0 .. LineLength - 1 -> 0 .. 255]]
    /\ freeId \in Nat /\ places \in 0 .. SizeMax
    /\ stack \in Seq(Lines)
    /\ \A c \in Clients : run[c].i \in Nat /\ touched[c] \subseteq Lines
    /\ crashed \in BOOLEAN
=============================================================================
