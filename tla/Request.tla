------------------------------- MODULE Request -------------------------------
(***************************************************************************)
(* A request from the gateway to its answer: the route is found (Routing), *)
(* the selectors of its views are built (Selectors), then its views are    *)
(* read with queries made from them (Query), or its statements executed    *)
(* (Executor), and what there is to answer is written. How the reader      *)
(* fills the rows and how a response is cached is in Reader and            *)
(* ResponseCache; here a view is read by one step that picks the parents   *)
(* it is read for.                                                         *)
(***************************************************************************)
EXTENDS Routing, Selectors, Executor

CONSTANTS
  Requests,   \* what can be asked: [path, method, keys, inside, body, csv, values, hasBody]
  ParentKeys  \* sequences of keys of parents that a related view is read for

\* A route further has: views, the views its selectors are for; root, the one that is read
\* or executed; hasBodyType; hasCSV; returns, whether an executed route answers with a body.

ASSUME RequestAssumption == \A r \in Requests : r.path \in Seq(Segment) /\ r.method # AnyMethod

ASSUME RequestConverted == \A r \in Requests : \A v \in View : Converted(Conf[v], r)

ASSUME ValuesAssumption == "zero" \in Value /\ ParentKeys \subseteq Seq(Value)

\* Templates use what there is, and that of a meta the query that it is about; criteria are not
\* placed in loops; a source that is not evaluated has neither variables nor loops.
ASSUME TemplatesWritten ==
  \A v \in View :
    LET names == {p.name : p \in ToSet(Conf[v].parameters)}
        template == Conf[v].template
    IN /\ WrittenWith(template, names) /\ WrittenWith(Conf[v].meta, names)
       /\ Conf[v].meta # <<>> => Has(Conf[v].meta, "view")
       /\ ~Conf[v].evaluated => \A i \in DOMAIN template : template[i].key \notin {"set", "each"}
       /\ \A i \in DOMAIN template : template[i].key = "each" => ~Has(template[i].body, "COLUMN_IN")

ASSUME RouteViews == \A r \in Route : RouteConf[r].views \subseteq View /\ RouteConf[r].root \in View

VARIABLES
  phase,    \* "received", "session", "selecting", "reading", "executing" or "answered"
  target,   \* what the gateway found
  queries,  \* view -> <<>> or <<the queries made for it>>
  unread,   \* views still to be read
  answers   \* the statuses written

vars == <<phase, target, queries, unread, answers, selectorVars, executorVars>>

Init ==
  /\ request \in Requests /\ SelectorsInit /\ ExecutorInit
  /\ phase = "received" /\ target = Answer("none")
  /\ queries = [v \in View |-> <<>>] /\ unread = {} /\ answers = <<>>

TheRoute == RouteConf[CHOOSE r \in target.routes : TRUE]

\* A faulty variant: the handler goes on after it has written an error.
WriteAndGoOn(code) == phase' = phase /\ answers' = Append(answers, code)

Write(code) == phase' = "answered" /\ answers' = Append(answers, code)

\* gateway.Router.Handle: what no route serves is answered at once.
HandleRequest ==
  /\ phase = "received"
  /\ target' = Handle(request.path, request.method, request.keys, request.inside)
  /\ CASE target'.kind = "forbidden" -> Write(403)
       [] target'.kind \in {"notfound", "unserved"} -> Write(404)
       [] target'.kind \in {"read", "exec"} -> phase' = "session" /\ UNCHANGED answers
       [] OTHER -> Write(200)
  /\ UNCHANGED <<queries, unread, selectorVars, executorVars>>

\* NewRequestParameters; a reader also refuses to write what it has no format for.
SessionFails ==
  /\ phase = "session"
  /\ \/ TheRoute.hasBodyType /\ request.body = "broken"
     \/ target.kind = "read" /\ request.csv /\ ~TheRoute.hasCSV
  /\ Write(400)
  /\ UNCHANGED <<target, queries, unread, selectorVars, executorVars>>

CreateSelectors ==
  /\ phase = "session"
  /\ ~(TheRoute.hasBodyType /\ request.body = "broken")
  /\ target.kind = "read" => ~request.csv \/ TheRoute.hasCSV
  /\ phase' = "selecting" /\ Build(TheRoute.views)
  /\ UNCHANGED <<target, queries, unread, answers, executorVars>>

Select ==
  /\ phase = "selecting" /\ SelectorsNext
  /\ UNCHANGED <<phase, target, queries, unread, answers, executorVars>>

\* writeErr with the status of Errors.
SelectorsFail ==
  /\ phase = "selecting" /\ build = "failed"
  /\ Write(status)
  /\ UNCHANGED <<target, queries, unread, selectorVars, executorVars>>

-----------------------------------------------------------------------------
(* viewHandler                                                              *)

StartRead ==
  /\ phase = "selecting" /\ build = "built" /\ target.kind = "read"
  /\ phase' = "reading" /\ unread' = TheRoute.views
  /\ UNCHANGED <<target, queries, answers, selectorVars, executorVars>>

\* What a template sees of a parameter: its value, as a sequence, or that of its type.
SeenOf(parameters, vals) ==
  LET Of(name) == SelectSeq(parameters, LAMBDA p : p.name = name)[1]
      Zero(p) == IF p.multi THEN <<>> ELSE <<"zero">>
  IN [name \in {parameters[i].name : i \in DOMAIN parameters} |->
        IF name \in DOMAIN vals THEN vals[name] ELSE Zero(Of(name))]

Seen(v) == SeenOf(Conf[v].parameters, values[v])

\* The root is read for nobody, a relation for keys of its parents, some of them at a time.
For(v) ==
  IF Conf[v].relation = <<>> THEN {[parents |-> <<>>, batch |-> <<>>]}
  ELSE UNION {{[parents |-> p, batch |-> SubSeq(p, i, j)] : i \in DOMAIN p, j \in DOMAIN p} : p \in ParentKeys}

QueriesOf(v, for) == QueriesFor(Conf[v], selector[v], Seen(v), for)

ReadView(v) ==
  /\ phase = "reading" /\ v \in unread
  /\ \E for \in For(v) :
       /\ Conf[v].relation # <<>> => for.batch # <<>>
       /\ queries' = [queries EXCEPT ![v] = <<QueriesOf(v, for)>>]
  /\ unread' = unread \ {v}
  /\ UNCHANGED <<phase, target, answers, selectorVars, executorVars>>

\* There are no parents to read it for.
NoParents(v) ==
  /\ phase = "reading" /\ v \in unread /\ Conf[v].relation # <<>>
  /\ unread' = unread \ {v}
  /\ UNCHANGED <<phase, target, queries, answers, selectorVars, executorVars>>

\* readAndWriteResponse: the read failed, there is more than the one row that was expected,
\* or what was read cannot be marshalled.
ReadFailed ==
  /\ phase = "reading" /\ Write(500)
  /\ UNCHANGED <<target, queries, unread, selectorVars, executorVars>>

\* No row where one was expected is no error, and the status for it is dropped.
WriteResponse ==
  /\ phase = "reading" /\ unread = {} /\ Write(200)
  /\ \A v \in View : queries[v] # <<>> => ~queries[v][1].full.failed
  /\ UNCHANGED <<target, queries, unread, selectorVars, executorVars>>

-----------------------------------------------------------------------------
(* executorHandler                                                          *)

StartExec ==
  /\ phase = "selecting" /\ build = "built" /\ target.kind = "exec"
  /\ phase' = "executing" /\ Prepare(Conf[TheRoute.root], Seen(TheRoute.root))
  /\ UNCHANGED <<target, queries, unread, answers, selectorVars>>

Execute ==
  /\ phase = "executing" /\ ExecutorNext
  /\ UNCHANGED <<phase, target, queries, unread, answers, selectorVars>>

ExecFailed ==
  /\ phase = "executing" /\ exec = "failed" /\ Write(400)
  /\ UNCHANGED <<target, queries, unread, selectorVars, executorVars>>

\* The body of the answer is made after the commit.
BodyFails ==
  /\ phase = "executing" /\ exec = "done" /\ TheRoute.returns /\ Write(400)
  /\ UNCHANGED <<target, queries, unread, selectorVars, executorVars>>

ExecDone ==
  /\ phase = "executing" /\ exec = "done" /\ Write(200)
  /\ UNCHANGED <<target, queries, unread, selectorVars, executorVars>>

Finished == phase = "answered" /\ UNCHANGED vars

Serve ==
  \/ HandleRequest \/ SessionFails \/ CreateSelectors \/ Select \/ SelectorsFail
  \/ StartRead \/ (\E v \in View : ReadView(v) \/ NoParents(v)) \/ ReadFailed \/ WriteResponse
  \/ StartExec \/ Execute \/ ExecFailed \/ BodyFails \/ ExecDone

Next == Serve \/ Finished

\* A handler runs until it has answered. This is WF_vars(Serve) with "not answered" for ENABLED
\* Serve, which TLC takes too long to evaluate; that they agree is the absence of deadlock.
Fairness == []<>(phase = "answered") \/ []<><<TRUE>>_vars

Spec == Init /\ [][Next]_vars /\ Fairness

-----------------------------------------------------------------------------
\* The states the variables of a request are in; it is answered once, as it ends.
TypeOK ==
  /\ phase \in {"received", "session", "selecting", "reading", "executing", "answered"}
  /\ build \in {"idle", "running", "built", "normalizing", "failed"}
  /\ pc \in [View -> {"idle", "populate", "params", "validate", "status", "error", "done"}]
  /\ \A v \in View : at[v] \in 0..(Len(Conf[v].parameters) + 1) /\ Len(failure[v]) <= 1
  /\ status \in Nat /\ Len(errors) <= Cardinality(View)
  /\ exec \in {"idle", "begin", "running", "done", "failed"}
  /\ executed \in 0..Len(statements) /\ sqlErrors <= executed
  /\ unread \subseteq View /\ \A v \in View : Len(queries[v]) <= 1
  /\ Len(answers) = IF phase = "answered" THEN 1 ELSE 0

\* The route that is served is the one whose template stands for the path best, and a path
\* that a template stands for is found unless a preferred one leads elsewhere: matching a
\* segment at a time, without going back, finds what the templates mean.
RoutedRight ==
  LET at_ == AsAPIPrefix(request.path)
  IN build = "idle" =>
       /\ target.kind \in {"read", "exec", "cors"} => target.routes = Preferred(at_.path, request.method)
       /\ target.kind = "notfound" => Cardinality(Reachable(at_.path, request.method)) # 1

\* The status of the answer is the most important one that a failing parameter has, or 400,
\* in whatever order the goroutines add their errors.
StatusIsHighest ==
  build = "failed" =>
    LET codes == UNION {{f.code, IF f.nested THEN Or400(f.status) ELSE 0} \ {0} :
                        f \in UNION {ToSet(failure[v]) : v \in View}}
    IN IF codes = {} THEN status = 400
       ELSE status \in codes /\ \A c \in codes : Priority(c) <= Priority(status)

\* Each view that fails has its error in the answer, once; the request goes on only if none did.
ErrorsComplete ==
  build \in {"built", "failed"} =>
    /\ ToSet(errors) = UNION {ToSet(failure[v]) : v \in View}
    /\ \A i, j \in DOMAIN errors : errors[i].view = errors[j].view => i = j
    /\ (build = "built") = (\A v \in View : failure[v] = <<>>)

\* What is read or executed has every parameter it requires, parts of a body excepted.
RequiredPresent ==
  build = "built" =>
    \A v \in TheRoute.views : \A i \in DOMAIN Conf[v].parameters :
      LET p == Conf[v].parameters[i]
      IN p.required /\ p.kind # "body" => p.name \in DOMAIN values[v]

\* A caller narrows what a view allows and never widens it.
Narrowed ==
  build = "built" =>
    \A v \in TheRoute.views :
      LET c == Conf[v]
          s == selector[v]
          filterable == {name \in DOMAIN c.columns : c.columns[name].filterable}
      IN /\ c.limit # 0 => s.limit <= c.limit
         /\ ToSet(s.columns) \subseteq DOMAIN c.columns /\ IsInjective(s.columns)
         /\ ColumnsOf(s.criteria.sql) \subseteq filterable
         /\ s.offset # 0 => s.limit # 0

\* A page that is asked for has precedence over an offset.
PageWins ==
  \A v \in View : selector[v].page # 0 => selector[v].offset = selector[v].limit * (selector[v].page - 1)

Made(v) == {queries[v][i] : i \in DOMAIN queries[v]}

\* The arguments of each statement are the values its question marks were written for, in
\* their order. Not of the query a cache is looked up by when the template has the keys of the
\* parents in it: they are arguments then, without question marks.
Aligned ==
  /\ \A v \in View : \A q \in Made(v) :
       \A made \in {q.full, q.meta} \cup IF Has(Conf[v].template, "COLUMN_IN") THEN {} ELSE {q.cache} :
         ~made.failed /\ made.args = Marked(made.sql)
  /\ exec # "failed" => \A i \in DOMAIN statements : statements[i].args = Marked(statements[i].sql)

\* A query for some parents is for their keys and has the criteria of the caller; the column
\* that relates its rows is selected unless the template is one of its own.
Related ==
  \A v \in View : \A q \in Made(v) :
    /\ \E i \in 1..(Len(q.full.args) + 1) :
         SubSeq(q.full.args, i, i + Len(q.for.batch) - 1) = q.for.batch
    /\ ToSet(selector[v].criteria.args) \subseteq ToSet(q.full.args)
    /\ ~Conf[v].actual => ToSet(Conf[v].relation) \subseteq q.full.columns

\* A cache is looked up by the same query for whatever parents rows are wanted, so that what
\* was cached for some is found for others.
CacheShared ==
  \A v \in View : \A q \in Made(v) :
    ~Has(Conf[v].template, "COLUMN_IN")
      => q.cache = BuildQuery(Conf[v], selector[v], Seen(v), [parents |-> <<>>, batch |-> <<>>], "cache")

\* What a request can ask for: less than a view allows, in rows, columns and criteria.
SelectorsSound == TypeOK /\ Narrowed /\ PageWins

\* What is asked of a database: each value at its question mark, the rows of these parents, and
\* of a cache the same for all parents.
QueriesSound == Aligned /\ Related /\ CacheShared

\* All statements of a request are committed or none is, and it succeeds only if they are.
AllOrNothing ==
  /\ db # <<>> => db = [i \in 1..Len(statements) |-> i]
  /\ phase = "answered" /\ target.kind = "exec" /\ 200 \in ToSet(answers)
       => Len(db) = Len(statements)

\* Every request is answered.
Answered == <>(phase = "answered")
=============================================================================
