-------------------------------- MODULE Query --------------------------------
(***************************************************************************)
(* How a query is made: the template of a view is evaluated by velty       *)
(* (expand.Evaluator), the builder (reader.Builder) puts the columns, the  *)
(* criteria of parents and selector and the pagination around it, and      *)
(* Template.Expand replaces the keywords and collects the arguments.       *)
(*                                                                         *)
(* A view has a template, a sequence of items: "text"; "where", "after"    *)
(* and ";", the words outside parentheses that criteria are placed by;     *)
(* "param", an occurrence of a parameter or variable, with its name and    *)
(* prefix; "set", a variable and what it is set from; "each", a loop over  *)
(* from with its body; "parents", a call of $View.ParentJoinOn; "view", a  *)
(* call of $View.Expand; or a keyword with its prefix.                     *)
(***************************************************************************)
EXTENDS Statement

Item(key) == [key |-> key, prefix |-> "", name |-> "", from |-> "", body |-> <<>>]

\* A template is written with the parameters of its view, and with variables only after it set
\* them, or in the loops they are for. A loop has no other in it, a bound of the model.
Uses(item) ==
  CASE item.key = "param" -> {item.name} [] item.key \in {"set", "each"} -> {item.from} [] OTHER -> {}

Plainly(item) == item.key \in Words /\ item.prefix \in KeyPrefixes /\ item.name \in Value

WrittenWith(template, names) ==
  /\ template \in Seq(ToSet(template))
  /\ \A i \in DOMAIN template :
       LET item == template[i]
           known == names \cup {template[j].name : j \in {k \in 1..(i - 1) : template[k].key = "set"}}
       IN /\ Plainly(item) /\ Uses(item) \subseteq known
          /\ item.key = "each" =>
               /\ item.body \in Seq(ToSet(item.body))
               /\ \A j \in DOMAIN item.body :
                    /\ Plainly(item.body[j]) /\ item.body[j].key \notin {"set", "each"}
                    /\ Uses(item.body[j]) \subseteq known \cup {item.name}

-----------------------------------------------------------------------------
(* sanitize.Sanitize: what becomes of an occurrence of a parameter.         *)

\* sanitizeParameter in the text of the statement: a constant stays in the text, and so does
\* what is marked Unsafe; parameters and variables are bound.
Bound(item, consts) == item.name \notin consts /\ item.prefix # "Unsafe"

-----------------------------------------------------------------------------
(* Evaluator.Evaluate: text with question marks, and their arguments.       *)

\* A faulty variant: what a cache is looked up by has the keys of the parents as well.
ParentJoinOnAlways(parents, mock) ==
  IF parents = <<>> THEN Raw ELSE Then(Raw, AsBinding(parents))

\* MetaParam.ColIn: the keys of the parents, all of them; without any " 1 = 0".
\* MockExpander.ColIn leaves nothing.
ParentJoinOn(parents, mock) ==
  IF mock THEN Nothing ELSE IF parents = <<>> THEN Raw ELSE Then(Raw, AsBinding(parents))

\* What an evaluation sees: the values of the parameters (a sequence for each), the keys of
\* all parents, whether it is mocked, the constants, and what $View.Expand stands for.
EvaluateItem(item, values, env) ==
  CASE item.key = "parents" -> ParentJoinOn(env.parents, env.mock)
    [] item.key = "view" -> env.view
    [] item.key = "param" ->
         IF Bound(item, env.consts) THEN AsBinding(values[item.name]) ELSE Raw
    [] OTHER -> [sql |-> <<Keyword(item.prefix, item.key)>>, args |-> <<>>]

\* A loop evaluates its body for each element, with a variable for it.
EvaluateItems(items, with, env, out) ==
  FoldLeft(LAMBDA piece, item : Then(piece, EvaluateItem(item, with, env)), out, items)

EvaluateEach(item, with, env, out) ==
  FoldLeft(LAMBDA piece, value : EvaluateItems(item.body, With(with, item.name, <<value>>), env, piece),
           out, with[item.from])

\* An assignment changes what follows.
EvaluateNext(state, item, env) ==
  CASE item.key = "set" -> [state EXCEPT !.with = With(@, item.name, @[item.from])]
    [] item.key = "each" -> [state EXCEPT !.out = EvaluateEach(item, state.with, env, @)]
    [] OTHER -> [state EXCEPT !.out = Then(@, EvaluateItem(item, state.with, env))]

Unevaluated(values) == [with |-> values, out |-> Nothing]

EvaluateAll(template, values, env) ==
  FoldLeft(LAMBDA state, item : EvaluateNext(state, item, env), Unevaluated(values), template)

Evaluate(template, values, env) == EvaluateAll(template, values, env).out

\* EvaluateSource: the table or the query of a view without a template is not evaluated, the
\* parameters in it are for Expand.
EvaluateSource(view, values, env) ==
  IF view.evaluated THEN Evaluate(view.template, values, env)
  ELSE [sql |-> [i \in DOMAIN view.template |->
                   [Keyword(view.template[i].prefix, view.template[i].key)
                      EXCEPT !.of = <<view.template[i].name>>]],
        args |-> <<>>]

-----------------------------------------------------------------------------
(* metadata.EnrichWithDiscover                                              *)

\* hasKeyword
Has(sql, key) == \E i \in DOMAIN sql : sql[i].key = key

\* The first place of one of some words, or the end.
FirstOf(sql, words) ==
  LET at == {i \in DOMAIN sql : sql[i].key \in words} IN IF at = {} THEN Len(sql) + 1 ELSE Min(at)

\* Criteria go before what cannot follow them, after AND if there is a condition already;
\* a template that says where some go stays as it is. The pagination goes to the end unless
\* it was seen before that place.
Discovered(sql) ==
  LET at == FirstOf(sql, {"after", ";"})
      before == SubSeq(sql, 1, at - 1)
  IN IF \E i \in DOMAIN sql : sql[i].key = "CRITERIA" /\ sql[i].prefix # "" THEN sql
     ELSE before \o <<Keyword(IF Has(before, "where") THEN "AND_" ELSE "WHERE_", "CRITERIA")>>
                 \o SubSeq(sql, at, Len(sql))
                 \o IF Has(before, "PAGINATION") THEN <<>> ELSE <<Keyword("", "PAGINATION")>>

-----------------------------------------------------------------------------
(* Template.Expand. state: the SQL so far, the arguments so far, how many   *)
(* of the arguments of the template were used, whether one was missing.     *)

\* SQLCriteria.Next
NextBinding(state, token, group) ==
  IF state.used = Len(group) THEN [state EXCEPT !.failed = TRUE]
  ELSE [state EXCEPT !.sql = Append(@, token), !.used = @ + 1,
                     !.args = Append(@, group[state.used + 1])]

\* replacementEntry, valueWithPrefix: the arguments are appended, and unless the text is
\* empty it is written after the WHERE, AND or OR that the prefix asks for.
Replace(state, token, text, args) ==
  [state EXCEPT !.args = @ \o args,
                !.sql = @ \o IF token.prefix # "" /\ text # <<>> THEN <<Text>> \o text ELSE text]

\* A parameter in a source that was not evaluated; a slice without elements leaves it there.
ReplaceParam(state, token, values) ==
  LET bound == values[token.of[1]]
  IN IF bound = <<>> THEN [state EXCEPT !.sql = Append(@, token)]
     ELSE Replace(state, token, Marks(bound), bound)

\* with: the texts of the criteria of the parents (and whether CRITERIA has to have it) and
\* of the pagination, the keys of the batch, the criteria of the selector and the parameters.
ExpandToken(state, token, with) ==
  CASE token.key = "CRITERIA" ->
         IF with.where THEN Replace(state, token, with.in, with.batch) ELSE Replace(state, token, <<>>, <<>>)
    [] token.key = "COLUMN_IN" -> Replace(state, token, with.in, with.batch)
    [] token.key = "SELECTOR_CRITERIA" -> Replace(state, token, with.criteria.sql, with.criteria.args)
    [] token.key = "PAGINATION" -> Replace(state, token, with.pagination, <<>>)
    [] token.key = "param" -> ReplaceParam(state, token, with.values)
    [] OTHER -> [state EXCEPT !.sql = Append(@, token)]

ExpandNext(state, token, group, with) ==
  IF state.failed THEN state
  ELSE IF token.key = "?" THEN NextBinding(state, token, group)
  ELSE ExpandToken(state, token, with)

Unexpanded(used) == [sql |-> <<>>, args |-> <<>>, used |-> used, failed |-> FALSE]

Expand(sql, group, used, with) ==
  FoldLeft(LAMBDA state, token : ExpandNext(state, token, group, with), Unexpanded(used), sql)

-----------------------------------------------------------------------------
(* Builder.Build                                                            *)

\* actualLimit
LimitOf(view, selector) == IF selector.limit # 0 THEN selector.limit ELSE view.limit

\* A faulty variant: only what was asked for.
SelectListBare(view, selector) ==
  IF selector.columns = <<>> THEN DOMAIN view.columns ELSE ToSet(selector.columns)

\* appendColumns, appendRelationColumn: those asked for or all, and the one that relates the
\* rows to their parents unless the view has a template of its own.
SelectList(view, selector) ==
  LET own == IF selector.columns = <<>> THEN DOMAIN view.columns ELSE ToSet(selector.columns)
  IN own \cup IF view.actual THEN {} ELSE ToSet(view.relation)

\* updateColumnsIn: a question mark for each key of the batch, if the view is read for some.
ColumnsIn(batch, exclude) ==
  IF "columnsIn" \in exclude \/ batch = <<>> THEN <<>> ELSE <<Text>> \o Marks(batch)

\* updatePagination: the order, the limit and the offset, as far as there are any.
PaginationOf(view, selector, exclude) ==
  IF \/ "pagination" \in exclude
     \/ /\ LimitOf(view, selector) = 0 /\ selector.offset = 0
        /\ selector.orderBy = "" /\ ~view.ordered
  THEN <<>> ELSE <<Token("limit")>>

\* What follows the template: the criteria and the pagination it has no place for. where:
\* whether there are criteria of parents that are not in the template.
Tail_(template, where, pagination) ==
  (IF ~Has(template, "CRITERIA") /\ where
     THEN <<Keyword("WHERE_", "CRITERIA"), Keyword("AND_", "SELECTOR_CRITERIA")>>
     ELSE <<Keyword("WHERE_", "SELECTOR_CRITERIA")>>)
  \o IF ~Has(template, "PAGINATION") /\ pagination # <<>> THEN <<Keyword("", "PAGINATION")>> ELSE <<>>

\* What is left out of which query, when the view is read for a batch of parents. Several
\* parents share a query, whose rows are limited when they are read.
ExcludeOf(kind, batch) ==
  CASE kind = "full" -> IF Len(batch) > 1 THEN {"pagination"} ELSE {}
    [] kind = "cache" -> {"pagination", "columnsIn"}
    [] kind = "meta" -> {"pagination"}

\* The query of a view: "full" is the one that is run, "cache" the one rows are cached under,
\* "meta" the one its meta is about. for: the keys of all parents, and those of the batch.
BuildQuery(view, selector, values, for, kind) ==
  LET env == [parents |-> for.parents, mock |-> kind = "cache", consts |-> view.consts, view |-> Nothing]
      source == EvaluateSource(view, values, env)
      template == IF view.actual /\ view.discover THEN Discovered(source.sql) ELSE source.sql
      exclude == ExcludeOf(kind, for.batch)
      in == ColumnsIn(for.batch, exclude)
      where == ~Has(template, "COLUMN_IN") /\ in # <<>>
      pagination == PaginationOf(view, selector, exclude)
      expanded == Expand(<<Text>> \o template \o Tail_(template, where, pagination), source.args, 0,
                         [where |-> where, in |-> in, batch |-> for.batch, pagination |-> pagination,
                          criteria |-> selector.criteria, values |-> values])
  IN [sql |-> expanded.sql, args |-> expanded.args, failed |-> expanded.failed,
      columns |-> SelectList(view, IF kind = "meta" THEN [selector EXCEPT !.columns = <<>>] ELSE selector)]

\* metaSQL: the template of the meta around the query, whose arguments are the ones unless the
\* template had some.
MetaOf(view, values, for, inner) ==
  LET outer == Evaluate(view.meta, values,
                        [parents |-> for.parents, mock |-> FALSE, consts |-> view.consts,
                         view |-> [sql |-> inner.sql, args |-> inner.args]])
  IN [inner EXCEPT !.sql = outer.sql, !.args = IF outer.args = <<>> THEN inner.args ELSE outer.args]

\* getMatchers, queryMeta
QueriesFor(view, selector, values, for) ==
  LET Built(kind) == BuildQuery(view, selector, values, for, kind)
  IN [full |-> Built("full"), cache |-> Built("cache"), for |-> for,
      meta |-> IF view.meta = <<>> THEN Built("meta") ELSE MetaOf(view, values, for, Built("meta"))]
=============================================================================
