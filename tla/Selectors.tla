----------------------------- MODULE Selectors -----------------------------
(***************************************************************************)
(* selectorsBuilder: how a request becomes the selectors of the views of a *)
(* route. A goroutine for each view reads what the caller asks of that     *)
(* view (fields, limit, offset, order, criteria, page), then the           *)
(* parameters of its template, one after another; a parameter may be the   *)
(* rows of another view, which has a selector of its own and is read on    *)
(* the way. What fails is added to Errors, shared by the goroutines, whose *)
(* status is the one of the highest priority that was set.                 *)
(*                                                                         *)
(* Where a value comes from is a location <<kind, namespace, name>>; the   *)
(* request maps the locations it has something at to what is there, [ok,   *)
(* value]: ok when it converts to what is wanted there.                    *)
(***************************************************************************)
EXTENDS Criteria

CONSTANTS
  View,        \* the views of the route
  ParamView,   \* the views that parameters are read from
  Conf,        \* view -> its configuration
  MaxRows      \* bound on the rows a parameter's view has

\* A bound of the model: the views of parameters are one deep (the source nests them freely).
ASSUME ParamViewsPlain ==
  \A w \in ParamView : \A i \in DOMAIN Conf[w].parameters : Conf[w].parameters[i].kind # "view"

\* A limit is none or a bound; what fails has no status or one; columns and parameters have names.
ASSUME ConfTyped ==
  /\ IsFiniteSet(View) /\ MaxRows \in Nat /\ "row" \in Value
  /\ \A v \in View \cup ParamView :
       /\ Conf[v].limit \in Nat /\ DOMAIN Conf[v].columns \subseteq Value
       /\ Conf[v].parameters \in Seq(ToSet(Conf[v].parameters))
       /\ \A p \in ToSet(Conf[v].parameters) :
            /\ p.name \in Value /\ p.code \in Nat
            /\ p.kind = "view" => p.view \in ParamView

\* A faulty variant: the page comes before the offset.
AskedPageFirst == <<"fields", "limit", "page", "offset", "orderby", "criteria">>

\* The order populateSelector takes them in.
Asked == <<"fields", "limit", "offset", "orderby", "criteria", "page">>

-----------------------------------------------------------------------------
(* Config.Init: from where each is read, and whether it is read at all.     *)

\* IsPageEnabled
PageEnabled(c) == c.allowed \cap {"limit", "offset"} # {} \/ c.page = "no"

Configured(c, k) ==
  \/ k \in DOMAIN c.named
  \/ IF k = "page" THEN PageEnabled(c) ELSE k \in c.allowed

\* newSelectorParam: the name that was configured, or the namespace of the view and the
\* usual name.
Location(c, k) ==
  IF k \in DOMAIN c.named THEN <<"query", "", c.named[k]>> ELSE <<"query", c.namespace, k>>

\* isParamPresent: something under the prefix of a view, which cannot be given.
Stray(c, k, request) ==
  c.prefixes # <<>> /\ <<"query", c.prefixes[1], k>> \in DOMAIN request.values

\* What there is to be read converts to what is asked for.
IsFor(k, value) ==
  CASE k \in {"limit", "offset", "page"} -> value \in Int
    [] k = "fields" -> value \in Seq(ToSet(value))
    [] k = "orderby" -> TRUE
    [] k = "criteria" -> Lexed(value)

Converted(c, r) ==
  /\ \A k \in ToSet(Asked) :
       LET at == Location(c, k)
       IN Configured(c, k) /\ at \in DOMAIN r.values /\ r.values[at].ok => IsFor(k, r.values[at].value)
  /\ \A p \in ToSet(c.parameters) :
       p.at \in DOMAIN r.values /\ r.values[p.at].ok => r.values[p.at].value \in Seq(Value)

-----------------------------------------------------------------------------
(* populateSelector and its parts.                                          *)

NoSelector == [columns |-> <<>>, limit |-> 0, offset |-> 0, orderBy |-> "",
               criteria |-> Nothing, page |-> 0]

Done(selector) == [ok |-> TRUE, param |-> "", selector |-> selector]
Error(param) == [ok |-> FALSE, param |-> param, selector |-> NoSelector]
If(condition, param, selector) == IF condition THEN Done(selector) ELSE Error(param)

\* Selector.Add: a column once.
AddColumn(columns, name) == IF Contains(columns, name) THEN columns ELSE Append(columns, name)

AddColumns(columns, names) == FoldLeft(AddColumn, columns, names)

PopulateFields(c, selector, names) ==
  If("fields" \in c.allowed /\ ToSet(names) \subseteq DOMAIN c.columns, "fields",
     [selector EXCEPT !.columns = AddColumns(@, names)])

\* A faulty variant: the limit asked for is taken whatever the limit of the view.
PopulateLimitUnchecked(c, selector, limit) ==
  If("limit" \in c.allowed, "limit", [selector EXCEPT !.limit = limit])

\* More than the view allows is ignored, and is no error.
PopulateLimit(c, selector, limit) ==
  If("limit" \in c.allowed, "limit",
     IF limit <= c.limit \/ c.limit = 0 THEN [selector EXCEPT !.limit = limit] ELSE selector)

PopulateOffset(c, selector, offset) ==
  If("offset" \in c.allowed, "offset", [selector EXCEPT !.offset = offset])

PopulateOrderBy(c, selector, name) ==
  If("orderby" \in c.allowed /\ name \in DOMAIN c.columns, "orderby", [selector EXCEPT !.orderBy = name])

PopulateCriteria(c, selector, criteria) ==
  LET parsed == Parse(criteria, c.columns, c.methods)
  IN If("criteria" \in c.allowed /\ parsed.ok, "criteria", [selector EXCEPT !.criteria = parsed.out])

\* The limit asked for or else that of the view.
ActualLimit(c, selector) == IF selector.limit # 0 THEN selector.limit ELSE c.limit

\* The page replaces the offset; whether it is allowed is not asked again.
PopulatePage(c, selector, page) ==
  LET limit == ActualLimit(c, selector)
  IN Done([selector EXCEPT !.offset = limit * (page - 1), !.limit = limit, !.page = page])

\* What was converted; zero asks for nothing.
PopulateNumber(c, k, selector, value) ==
  CASE value = 0 -> Done(selector)
    [] value # 0 /\ k = "limit" -> PopulateLimit(c, selector, value)
    [] value # 0 /\ k = "offset" -> PopulateOffset(c, selector, value)
    [] value # 0 /\ k = "page" -> PopulatePage(c, selector, value)

PopulateValue(c, k, selector, value) ==
  CASE k = "fields" -> PopulateFields(c, selector, value)
    [] k = "orderby" -> PopulateOrderBy(c, selector, value)
    [] k = "criteria" -> PopulateCriteria(c, selector, value)
    [] OTHER -> PopulateNumber(c, k, selector, value)

PopulateKind(c, k, selector, request) ==
  LET at == Location(c, k)
  IN IF ~Configured(c, k) THEN If(~Stray(c, k, request), k, selector)
     ELSE IF at \notin DOMAIN request.values THEN Done(selector)
     ELSE IF ~request.values[at].ok THEN Error(k)
     ELSE PopulateValue(c, k, selector, request.values[at].value)

\* In their order until one fails; then an offset needs a limit.
PopulateAll(c, request) ==
  FoldLeft(LAMBDA result, k : IF result.ok THEN PopulateKind(c, k, result.selector, request) ELSE result,
           Done(NoSelector), Asked)

PopulateSelector(c, request) ==
  LET end == PopulateAll(c, request)
  IN IF end.ok THEN If(end.selector.limit # 0 \/ end.selector.offset = 0, "", end.selector) ELSE end

-----------------------------------------------------------------------------
(* handleParam: a parameter of a template is [name, kind, at, type,         *)
(* required, code, multi, most, view], kind being "value" for what comes as *)
(* text, "body" or "view".                                                  *)

\* Accessor.setValue takes text for these types only; for another it is quoted before it
\* is converted, which fails.
Plain == {"string", "int", "bool", "float"}

\* convertAndSet, addRequestBodyParam: nothing to set, and is that an error; then whether
\* what there is can be set. A part a body does not have is never missed.
Absent(p, request) == p.at \notin DOMAIN request.values

\* A faulty variant: a parameter that is not there is not missed.
MissedNever(p, request) == FALSE

Missed(p, request) == p.required /\ IF p.kind = "body" THEN ~request.hasBody ELSE Absent(p, request)

ParamFails(p, request) ==
  \/ Missed(p, request)
  \/ /\ ~Absent(p, request)
     /\ ~request.values[p.at].ok \/ (p.kind = "value" /\ p.type \notin Plain)

\* The status to set, if any, and whether what failed is an Errors with a status.
Failure(view, p, code, nested, status) ==
  [view |-> view, param |-> p, code |-> code, nested |-> nested, status |-> status]

\* CreateSelectors for the view of a parameter, which has no prefix.
NestedSelector(w, request) == PopulateSelector([Conf[w] EXCEPT !.prefixes = <<>>], request)

\* The parameter that fails first is the one whose status counts.
NestedFailure(w, result, request) ==
  LET bad == {i \in DOMAIN Conf[w].parameters : ParamFails(Conf[w].parameters[i], request)}
  IN IF ~result.ok THEN {0} ELSE IF bad = {} THEN {} ELSE {Conf[w].parameters[Min(bad)].code}

\* The status of the parameter, or else the one of what failed there, unless it is 400.
CodeFor(code, nested) == IF code # 0 THEN code ELSE IF nested = 400 THEN 0 ELSE nested

\* How many rows the view of a parameter can have.
RowsOf(w, result) ==
  LET limit == ActualLimit(Conf[w], result.selector) IN {n \in 0..MaxRows : limit = 0 \/ n <= limit}

\* viewParamValue, paramViewValue: what rows cannot be used for a parameter.
RowsFail(p, n) ==
  \/ p.most # <<>> /\ p.most[1] < n
  \/ n = 0 /\ p.required
  \/ ~p.multi /\ n # 1

-----------------------------------------------------------------------------
(* Errors                                                                   *)

\* statusCodePriority
Priority(status) ==
  CASE status = 401 -> 4 [] status = 403 -> 3 [] status = 404 -> 2 [] status = 400 -> 1
    [] status = 0 -> -1 [] OTHER -> 0

\* A faulty variant: the last status that was set is kept.
HigherLast(status, code) == IF code = 0 THEN status ELSE code

\* setStatus
Higher(status, code) == IF code # 0 /\ Priority(code) > Priority(status) THEN code ELSE status

Or400(status) == IF status = 0 THEN 400 ELSE status

\* normalizeErr of one error: an Errors adds its status, 400 if it has none.
Normalized(status, f) == IF f.nested THEN Higher(status, Or400(f.status)) ELSE status

-----------------------------------------------------------------------------
VARIABLES
  request,    \* what was asked: [values, hasBody]
  build,      \* "idle", "running", "built", "normalizing" or "failed"
  pc,         \* view -> where its goroutine is
  at,         \* view -> the parameter it is at
  selector,   \* view -> its selector
  values,     \* view -> the values of the parameters of its template that are set
  failure,    \* view -> <<>> or <<what failed>>
  status,     \* Errors.status
  errors,     \* Errors.Errors
  normalized  \* how many of them normalizeErr is done with

selectorVars == <<request, build, pc, at, selector, values, failure, status, errors, normalized>>

SelectorsInit ==
  /\ build = "idle" /\ pc = [v \in View |-> "idle"] /\ at = [v \in View |-> 0]
  /\ selector = [v \in View |-> NoSelector] /\ values = [v \in View |-> <<>>]
  /\ failure = [v \in View |-> <<>>] /\ status = 0 /\ errors = <<>> /\ normalized = 0

\* build: a goroutine for each view of a route.
Build(views) ==
  /\ build = "idle" /\ build' = "running"
  /\ pc' = [v \in View |-> IF v \in views THEN "populate" ELSE "done"]
  /\ UNCHANGED <<request, at, selector, values, failure, status, errors, normalized>>

Goto(v, label) == pc' = [pc EXCEPT ![v] = label]

\* An error without a status of its own is added at once.
Fail(v, f) ==
  /\ failure' = [failure EXCEPT ![v] = <<f>>]
  /\ Goto(v, IF f.code = 0 THEN "error" ELSE "status")
  /\ UNCHANGED <<request, build, at, selector, values, status, errors, normalized>>

Populate(v) ==
  LET result == PopulateSelector(Conf[v], request)
  IN /\ pc[v] = "populate"
     /\ \/ ~result.ok /\ Fail(v, Failure(v, result.param, 0, FALSE, 0))
        \/ /\ result.ok
           /\ selector' = [selector EXCEPT ![v] = result.selector]
           /\ at' = [at EXCEPT ![v] = 1]
           /\ Goto(v, IF Conf[v].parameters = <<>> THEN "done" ELSE "params")
           /\ UNCHANGED <<request, build, values, failure, status, errors, normalized>>

Current(v) == Conf[v].parameters[at[v]]

\* A faulty variant: after a parameter without a value the first one is taken again.
StepStartsOver(v, value) ==
  /\ values' = [values EXCEPT ![v] = IF value = <<>> THEN @ ELSE With(@, Current(v).name, value[1])]
  /\ at' = [at EXCEPT ![v] = IF value = <<>> THEN 1 ELSE @ + 1]
  /\ Goto(v, IF value # <<>> /\ at[v] = Len(Conf[v].parameters) THEN "validate" ELSE "params")
  /\ UNCHANGED <<request, build, selector, failure, status, errors, normalized>>

\* The parameter is done; value is what is set, if anything.
Step(v, value) ==
  /\ values' = [values EXCEPT ![v] = IF value = <<>> THEN @ ELSE With(@, Current(v).name, value[1])]
  /\ at' = [at EXCEPT ![v] = @ + 1]
  /\ Goto(v, IF at[v] = Len(Conf[v].parameters) THEN "validate" ELSE "params")
  /\ UNCHANGED <<request, build, selector, failure, status, errors, normalized>>

\* addQueryParam and the like, addRequestBodyParam
AddParam(v) ==
  /\ pc[v] = "params" /\ Current(v).kind # "view"
  /\ IF ParamFails(Current(v), request)
     THEN Fail(v, Failure(v, Current(v).name, Current(v).code, FALSE, 0))
     ELSE Step(v, IF Absent(Current(v), request) THEN <<>> ELSE <<request.values[Current(v).at].value>>)

\* addViewParam: the selector of the other view cannot be made, or the read fails, or its
\* rows are the value, or cannot be.
AddViewParam(v) ==
  LET w == Current(v).view
      code == Current(v).code
      result == NestedSelector(w, request)
      nested == NestedFailure(w, result, request)
      Plainly == Fail(v, Failure(v, Current(v).name, code, FALSE, 0))
  IN /\ pc[v] = "params" /\ Current(v).kind = "view"
     /\ \/ \E s \in nested : Fail(v, Failure(v, Current(v).name, CodeFor(code, s), TRUE, s))
        \/ nested = {} /\ Plainly
        \/ /\ nested = {}
           /\ \E n \in RowsOf(w, result) :
                IF RowsFail(Current(v), n) THEN Plainly ELSE Step(v, <<[i \in 1..n |-> "row"]>>)

\* validateSelector
Validate(v) ==
  LET s == selector[v]
  IN /\ pc[v] = "validate"
     /\ IF s.offset # 0 /\ s.limit = 0 /\ Conf[v].limit = 0
        THEN Fail(v, Failure(v, "", 0, FALSE, 0))
        ELSE /\ Goto(v, "done")
             /\ UNCHANGED <<request, build, at, selector, values, failure, status, errors, normalized>>

SetStatus(v) ==
  /\ pc[v] = "status" /\ status' = Higher(status, failure[v][1].code)
  /\ Goto(v, "error")
  /\ UNCHANGED <<request, build, at, selector, values, failure, errors, normalized>>

\* A faulty variant: of two errors one is lost.
AddErrorOver(v) ==
  /\ pc[v] = "error" /\ errors' = <<failure[v][1]>>
  /\ Goto(v, "done")
  /\ UNCHANGED <<request, build, at, selector, values, failure, status, normalized>>

AddError(v) ==
  /\ pc[v] = "error" /\ errors' = Append(errors, failure[v][1])
  /\ Goto(v, "done")
  /\ UNCHANGED <<request, build, at, selector, values, failure, status, normalized>>

\* Selectors are returned when there are no errors; else those are normalised.
Wait ==
  /\ build = "running" /\ \A v \in View : pc[v] = "done"
  /\ build' = IF errors = <<>> THEN "built" ELSE "normalizing"
  /\ UNCHANGED <<request, pc, at, selector, values, failure, status, errors, normalized>>

\* normalizeErr: one error after another; then the status is that of Errors, or 400.
Normalize ==
  /\ build = "normalizing"
  /\ IF normalized < Len(errors)
     THEN /\ status' = Normalized(status, errors[normalized + 1])
          /\ normalized' = normalized + 1 /\ UNCHANGED build
     ELSE build' = "failed" /\ status' = Or400(status) /\ UNCHANGED normalized
  /\ UNCHANGED <<request, pc, at, selector, values, failure, errors>>

SelectorOf(v) ==
  \/ Populate(v) \/ AddParam(v) \/ AddViewParam(v) \/ Validate(v) \/ SetStatus(v) \/ AddError(v)

SelectorsNext == Wait \/ Normalize \/ \E v \in View : SelectorOf(v)
=============================================================================
