------------------------------ MODULE MCQuery ------------------------------
(***************************************************************************)
(* Instances of Query for TLC: a table with the columns name STRING[2] and *)
(* age BOOL, and the statements of two clients.  The characters of a name  *)
(* are the bytes 1 and 2.                                                  *)
(***************************************************************************)
EXTENDS Query

NameAndAge == <<[name |-> "name", text |-> TRUE, size |-> 2],
                [name |-> "age", text |-> FALSE, size |-> 1]>>

LongName == {<<<<1, 2>>, <<0>>>>}
TwoRows == LongName \cup {<<<<1>>, <<1>>>>}

Statement(verb, cols, vals, clauses) ==
    [verb |-> verb, cols |-> cols, vals |-> vals, clauses |-> clauses]
Cond(col, op, val) == [word |-> "cond", col |-> col, op |-> op, val |-> val]
Con(word) == [word |-> word, col |-> "", op |-> "", val |-> <<>>]
Where(cs) == [word |-> "WHERE", arg |-> cs]
Limit(n) == [word |-> "LIMIT", arg |-> n]
OrderBy(by) == [word |-> "ORDER", arg |-> by]
By(col, dir) == [col |-> col, dir |-> dir]

Star == <<"*">>
AgeIs(n) == Cond("age", "==", <<n>>)
And == Con("AND")
Or == Con("OR")

Reads ==
  { Statement("SELECT", <<>>, <<>>,
        <<Where(<<Cond("id", ">=", <<0>>), And, Cond("id", "<=", <<1>>)>>)>>),
    Statement("SELECT", <<"age", "name">>, <<>>,
        <<Where(<<Cond("name", "==", <<1>>), Or, AgeIs(0), And, Cond("name", "!=", <<1, 2>>)>>),
          Limit(2), OrderBy(<<By("age", "ASC"), By("name", "DESC")>>)>>),
    Statement("SELECT", Star, <<>>,
        <<Where(<<Cond("id", ">=", <<1>>), And, Cond("id", "<=", <<3>>), And,
                  Cond("id", ">=", <<0>>), And,
                  Cond("name", ">", <<1>>), And, AgeIs(1), Or, Cond("name", "==", <<1, 2>>)>>)>>),
    Statement("SELECT", Star, <<>>, <<Limit(2), OrderBy(<<By("name", "ASC"), By("id", "DESC")>>)>>),
    Statement("SELECT", Star, <<>>, <<Where(<<Cond("id", "==", <<1>>)>>)>>),
    Statement("SELECT", Star, <<>>, <<Where(<<Cond("id", "==", <<3>>)>>)>>),
    Statement("SELECT", Star, <<>>,
        <<Where(<<Cond("id", ">=", <<2>>), And, Cond("id", "<=", <<4>>)>>)>>),
    Statement("SELECT", Star, <<>>, <<Where(<<AgeIs(1), Or, Cond("id", "<=", <<1, 2>>)>>)>>),
    Statement("SELECT", <<"name">>, <<>>, <<OrderBy(<<By("age", "ASC")>>)>>) }

Changes ==
  { Statement("INSERT", <<>>, <<>>, <<>>),
    Statement("INSERT", <<>>, <<<<2, 2, 2>>, <<0>>, <<1>>, <<1>>>>, <<>>),
    Statement("DELETE", <<>>, <<>>, <<Where(<<AgeIs(1)>>)>>),
    Statement("DELETE", <<>>, <<>>, <<Where(<<Cond("id", "==", <<1>>)>>)>>),
    Statement("DELETE", <<>>, <<>>, <<Limit(1), Where(<<AgeIs(1)>>)>>),
    Statement("DELETE", <<>>, <<>>, <<Where(<<Cond("id", ">=", <<1>>)>>), Limit(1)>>),
    Statement("UPDATE", <<"name">>, <<<<2>>>>,
        <<Where(<<AgeIs(1), Or, Cond("name", "<", <<2>>)>>)>>),
    Statement("UPDATE", <<"age", "name">>, <<<<1>>, <<2, 1>>>>, <<Limit(2)>>),
    Statement("UPDATE", <<"name">>, <<<<1>>>>, <<Where(<<Cond("id", "==", <<0>>)>>)>>),
    Statement("UPDATE", <<"name">>, <<<<1, 1, 1, 1>>>>, <<>>) }

CONSTANTS Reader, Writer

ReaderAndWriter == (Reader :> Reads) @@ (Writer :> Changes)

\* One client inserts while the other deletes rows by their ids and looks again.
InsertAndDelete ==
    (Writer :> {Statement("INSERT", <<>>, <<<<2>>, <<1>>>>, <<>>)})
        @@ (Reader :> {Statement("DELETE", <<>>, <<>>, <<Where(<<Cond("id", "==", <<n>>)>>)>>) :
                          n \in {0, 1}} \cup
                      {Statement("SELECT", Star, <<>>, <<>>)})
=============================================================================
