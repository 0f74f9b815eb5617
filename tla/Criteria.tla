------------------------------ MODULE Criteria ------------------------------
(***************************************************************************)
(* criteria.Parse: what a caller gives as criteria of a view becomes SQL   *)
(* with the columns of the view and question marks, or is refused. The     *)
(* criteria are lexemes: "(", ")", ",", "operator" (and, or), "compare"    *)
(* (with the comparison), "literal" (with the type it is read as and       *)
(* whether it converts to the type of the column), "name" (of a column)    *)
(* and "method" (with its arguments, literals or names).                   *)
(*                                                                         *)
(* A column is [type, filterable]; columns and methods are functions from  *)
(* their names, a method being the types of its arguments.                 *)
(***************************************************************************)
EXTENDS Statement

\* What the lexer makes: names, and what literals convert to, are values.
Operand(lexeme) ==
  /\ lexeme.key = "name" => lexeme.name \in Value
  /\ lexeme.key = "literal" => lexeme.value \in Value

Lexed(criteria) ==
  /\ criteria \in Seq(ToSet(criteria))
  /\ \A lexeme \in ToSet(criteria) :
       /\ Operand(lexeme)
       /\ lexeme.key = "method" =>
            lexeme.args \in Seq(ToSet(lexeme.args)) /\ \A arg \in ToSet(lexeme.args) : Operand(arg)

Ordered == {"<>", "=", ">=", ">", "<=", "<", "in"}

\* expressionTokenCandidates: how columns of a type can be compared; others cannot.
Comparisons(type) ==
  CASE type \in {"int", "float", "time"} -> Ordered
    [] type = "bool" -> {"<>", "=", "in"}
    [] type = "string" -> {"<>", "=", "like", "in"}
    [] OTHER -> {}

\* expressionValueCandidates: the literals read where a value of a type is wanted.
Accepts(type, literal) ==
  /\ Comparisons(type) # {}
  /\ literal.type = type \/ (type = "float" /\ literal.type = "int")

\* findColumn
Usable(columns, name) == name \in DOMAIN columns /\ columns[name].filterable

\* appendField: the other side of a comparison has to be of the type of the column.
FieldFits(columns, name, type) == Usable(columns, name) /\ columns[name].type = type

\* matchFieldValue for what is no method: does it fit, and what it writes.
ValueFits(columns, type, lexeme) ==
  CASE lexeme.key = "name" -> FieldFits(columns, lexeme.name, type)
    [] lexeme.key = "literal" -> Accepts(type, lexeme) /\ lexeme.converts
    [] OTHER -> FALSE

Written(lexeme) ==
  IF lexeme.key = "name" THEN [sql |-> <<ColumnToken(lexeme.name)>>, args |-> <<>>]
  ELSE AsBinding(<<lexeme.value>>)

\* appendMethod, matchMethod: a known method with as many arguments as it has, each of its
\* type. A name that is a column is a column.
MethodFits(columns, methods, lexeme) ==
  /\ lexeme.key = "method" /\ lexeme.name \notin DOMAIN columns
  /\ lexeme.name \in DOMAIN methods /\ Len(lexeme.args) = Len(methods[lexeme.name])
  /\ \A i \in DOMAIN lexeme.args : ValueFits(columns, methods[lexeme.name][i], lexeme.args[i])

MethodWritten(lexeme) == FoldLeft(LAMBDA out, arg : Then(out, Written(arg)), Raw, lexeme.args)

Bad(state) == [state EXCEPT !.wants = "nothing"]
Put(state, wants, piece) == [state EXCEPT !.wants = wants, !.out = Then(@, piece)]

\* A value, after which wants is what can come.
MatchValue(columns, methods, state, lexeme, wants) ==
  IF ValueFits(columns, state.type, lexeme) THEN Put(state, wants, Written(lexeme))
  ELSE IF MethodFits(columns, methods, lexeme) THEN Put(state, wants, MethodWritten(lexeme))
  ELSE Bad(state)

Close(state) == IF state.depth = 0 THEN Bad(state)
                ELSE [Put(state, "operator", Raw) EXCEPT !.depth = @ - 1]

\* matchExpression: the column, then how it is compared.
MatchColumn(columns, state, lexeme) ==
  IF lexeme.key = "name" /\ Usable(columns, lexeme.name)
  THEN [Put(state, "compare", [sql |-> <<ColumnToken(lexeme.name)>>, args |-> <<>>])
          EXCEPT !.type = columns[lexeme.name].type]
  ELSE Bad(state)

MatchComparison(state, lexeme) ==
  IF lexeme.key = "compare" /\ lexeme.op \in Comparisons(state.type)
  THEN Put(state, IF lexeme.op = "in" THEN "set" ELSE "value", Raw) ELSE Bad(state)

\* matchDataSet: values separated by commas; what follows a value up to the comma is not
\* looked at.
MatchDataSet(columns, methods, state, lexeme) ==
  IF lexeme.key = ")" THEN Put(state, "operator", Raw)
  ELSE IF state.wants = "item" THEN MatchValue(columns, methods, state, lexeme, "comma")
  ELSE IF lexeme.key = "," THEN Put(state, "item", Raw) ELSE state

\* parse: one lexeme further. An empty block is accepted.
ParseNext(columns, methods, state, lexeme) ==
  CASE state.wants = "operand" /\ lexeme.key = "(" ->
         [Put(state, "block", Raw) EXCEPT !.depth = @ + 1]
    [] state.wants = "block" /\ lexeme.key = "(" -> [Put(state, "block", Raw) EXCEPT !.depth = @ + 1]
    [] state.wants = "block" /\ lexeme.key = ")" -> Close(state)
    [] \/ state.wants = "operand" /\ lexeme.key # "("
       \/ state.wants = "block" /\ lexeme.key \notin {"(", ")"} -> MatchColumn(columns, state, lexeme)
    [] state.wants = "compare" -> MatchComparison(state, lexeme)
    [] state.wants = "value" -> MatchValue(columns, methods, state, lexeme, "operator")
    [] state.wants = "set" -> IF lexeme.key = "(" THEN Put(state, "item", Raw) ELSE Bad(state)
    [] state.wants \in {"item", "comma"} -> MatchDataSet(columns, methods, state, lexeme)
    [] state.wants = "operator" /\ lexeme.key = "operator" -> Put(state, "operand", Raw)
    [] state.wants = "operator" /\ lexeme.key = ")" -> Close(state)
    [] OTHER -> Bad(state)

Unread == [wants |-> "operand", depth |-> 0, type |-> "", out |-> Nothing]

ParseAll(criteria, columns, methods) ==
  FoldLeft(LAMBDA state, lexeme : ParseNext(columns, methods, state, lexeme), Unread, criteria)

\* Parse: accepted when it ends where an operator could follow, every block closed.
Parse(criteria, columns, methods) ==
  LET end == ParseAll(criteria, columns, methods)
  IN IF criteria = <<>> THEN [ok |-> TRUE, out |-> Nothing]
     ELSE [ok |-> end.wants = "operator" /\ end.depth = 0, out |-> end.out]
=============================================================================
