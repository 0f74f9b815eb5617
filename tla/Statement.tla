----------------------------- MODULE Statement -----------------------------
(***************************************************************************)
(* SQL as a sequence of tokens. What no property tells apart is "text"; a  *)
(* column is named; a "?" carries the value it was written for, so that a  *)
(* statement is right when its arguments are the values of its question    *)
(* marks, in their order.                                                  *)
(***************************************************************************)
EXTENDS Integers, SequencesExt

CONSTANT Value  \* what names, rows and arguments are

Token(key) == [key |-> key, prefix |-> "", of |-> <<>>]
Text == Token("text")
Mark(value) == [Token("?") EXCEPT !.of = <<value>>]
ColumnToken(name) == [Token("column") EXCEPT !.of = <<name>>]
Keyword(prefix, key) == [Token(key) EXCEPT !.prefix = prefix]

\* keywords.ReservedKeywords and their prefixes, and what else the model tells apart.
Words == {"text", "where", "after", ";", "param", "set", "each", "parents", "view",
          "CRITERIA", "COLUMN_IN", "SELECTOR_CRITERIA", "PAGINATION"}
KeyPrefixes == {"", "WHERE_", "AND_", "OR_", "Unsafe"}

Marks(values) == [i \in DOMAIN values |-> Mark(values[i])]

\* What the question marks of some SQL stand for.
Marked(sql) ==
  FoldLeft(LAMBDA marks, token : IF token.key = "?" THEN Append(marks, token.of[1]) ELSE marks, <<>>, sql)

\* The columns some SQL names.
ColumnsOf(sql) == {sql[i].of[1] : i \in {j \in DOMAIN sql : sql[j].key = "column"}}

\* Values with one more: Accessor.SetValue and SetPresence, and an assignment in a template.
With(vals, name, value) == [n \in DOMAIN vals \cup {name} |-> IF n = name THEN value ELSE vals[n]]

\* A piece of a statement and the arguments it brings.
Then(a, b) == [sql |-> a.sql \o b.sql, args |-> a.args \o b.args]
Nothing == [sql |-> <<>>, args |-> <<>>]
Raw == [sql |-> <<Text>>, args |-> <<>>]

\* SQLCriteria.Add: a question mark for each element; nil and an empty slice leave none.
AsBinding(values) == [sql |-> Marks(values), args |-> values]
=============================================================================
