------------------------------- MODULE Startup -------------------------------
(***************************************************************************)
(* How a router resource becomes ready to serve: the resources it is with  *)
(* are merged into it, its types, connectors and views are initialized in  *)
(* the order they are declared in, then its routes. The first error ends   *)
(* it; nobody else sees the resource before it is ready.                   *)
(***************************************************************************)
EXTENDS ViewInit

CONSTANT Configs    \* what is declared: the heap, the resources to merge, the routes

VARIABLES
  config,    \* what was declared
  heap,      \* what became of it
  phase,     \* "merge", "index", "views", "routes", "loggers", "ready", "failed" or "stuck"
  at         \* how much of the phase is done

vars == <<config, heap, phase, at>>

Init ==
  /\ config \in Configs
  /\ heap = config.heap
  /\ phase = "merge"
  /\ at = 0

\* Mutant: an error does not end it.
GotoOn(h, next, count) ==
  /\ heap' = h
  /\ UNCHANGED config
  /\ IF count = 0 THEN phase' = next /\ at' = 0 ELSE phase' = phase /\ at' = count

\* the next step of a phase, or the next phase
Goto(h, next, count) ==
  /\ heap' = h
  /\ UNCHANGED config
  /\ CASE h.stuck      -> phase' = "stuck" /\ UNCHANGED at
       [] h.error # "" -> phase' = "failed" /\ UNCHANGED at
       [] count = 0    -> phase' = next /\ at' = 0
       [] OTHER        -> phase' = phase /\ at' = count

-----------------------------------------------------------------------------
(* Resource.MergeFrom: what the resource has itself is kept. Only merged   *)
(* cache providers are in the index mergeProviders looks at.               *)

NameIn(things) == [x \in DOMAIN things |-> things[x].name]
MissingIn(own, others, name) == SelectSeq(others, LAMBDA x : \A y \in ToSet(own) : name[y] # name[x])

\* Mutant: what a resource has already is merged again.
MergeFromEach(h, with) == [h EXCEPT !.order = @ \o with.views, !.connOrder = @ \o with.conns]

MergeFrom(h, with) ==
  LET params  == h.paramOrder \o MissingIn(h.paramOrder, with.params, NameIn(h.params))
      known   == IF params = <<>> THEN <<>> ELSE h.typeOrder
      fresh   == SelectSeq(with.types, LAMBDA t : t \notin DOMAIN h.types)
  IN [h EXCEPT !.order = @ \o MissingIn(@, with.views, NameIn(h.views)),
               !.paramOrder = params,
               !.typeOrder = @ \o SelectSeq(fresh, LAMBDA t : t \notin ToSet(known)),
               !.connOrder = @ \o MissingIn(@, with.conns, NameIn(h.conns)),
               !.cacheOrder = @ \o MissingIn(h.cacheIndex, with.caches, NameIn(h.caches)),
               !.cacheIndex = @ \o with.caches]

Merge ==
  /\ phase = "merge" /\ at < Len(config.with)
  /\ Goto(MergeFrom(heap, config.with[at + 1]), "merge", at + 1)

-----------------------------------------------------------------------------
(* Resource.Init of the router, and of the view resource it holds          *)

\* Route.normalizePaths
Camel(path) == [path EXCEPT !.camel = TRUE]
NormalizePaths(route) ==
  IF route.normalize = FALSE THEN route
  ELSE [route EXCEPT !.normalize = FALSE,
                     !.exclude = [i \in DOMAIN @ |-> Camel(@[i])],
                     !.transforms = [i \in DOMAIN @ |-> Camel(@[i])]]

\* Field.Init and buildTypeFromFields
DefinitionInit(h, t) ==
  LET fields == h.typeDecls[t]
  IN IF \E f \in ToSet(fields) : f.by = "Name" \/ f.of \notin Primitives \cup DOMAIN h.types THEN Fail(h, "no type")
     ELSE IF t \in DOMAIN h.types THEN Fail(h, "type twice")
     ELSE [h EXCEPT !.types = (t :> {[name |-> f.name, of |-> IF f.of \in Primitives THEN {} ELSE h.types[f.of]] : f \in ToSet(fields)}) @@ @]

\* Connectors.Index, Views.Index and ParametersSlice.Index: the last of a name stays
ByName(ids, name) == [n \in {name[ids[i]] : i \in DOMAIN ids} |-> ids[Max({i \in DOMAIN ids : name[ids[i]] = n})]]

ConnectorsInit(h) ==
  Each(h, h.connOrder, LAMBDA g, c :
    IF KnownRef(g, g.conns[c]) THEN [g EXCEPT !.conns[c] = ConnectorInit(g, @)] ELSE Fail(g, "no connector"))

\* The transforms of a view are those of the last route that refers to it.
TransformsOf(routes) ==
  LET refs == {i \in DOMAIN routes : routes[i].ref # ""}
  IN [v \in {routes[i].ref : i \in refs} |-> routes[Max({i \in refs : routes[i].ref = v})].transforms]

ResourceInit ==
  LET routes  == [i \in DOMAIN heap.routes |->
                    [NormalizePaths(heap.routes[i]) EXCEPT !.reveal = Or(@, config.reveal), !.debugs = TRUE]]
      refs    == [i \in DOMAIN routes |-> [ref |-> heap.views[routes[i].view].ref, transforms |-> routes[i].transforms]]
      typed   == Each([heap EXCEPT !.routes = routes, !.transforms = TransformsOf(refs)], heap.typeOrder, DefinitionInit)
      indexed == [typed EXCEPT !.byName = ByName(typed.order, NameIn(typed.views)),
                               !.connOf = ByName(typed.connOrder, NameIn(typed.conns)),
                               !.cacheOf = ByName(typed.cacheOrder, NameIn(typed.caches)),
                               !.paramOf = ByName(typed.paramOrder, NameIn(typed.params))]
  IN /\ phase = "merge" /\ at = Len(config.with)
     /\ Goto(Then(indexed, ConnectorsInit), "views", 0)

\* ViewSlice.Init, one view
InitNextView ==
  LET v == heap.order[at + 1]
      name == heap.views[v].name
      transforms == IF name \in DOMAIN heap.transforms THEN heap.transforms[name] ELSE <<>>
      h == ViewInit(heap, v, transforms)
  IN /\ phase = "views" /\ at < Len(heap.order)
     /\ Goto(h, "routes", IF at + 1 = Len(heap.order) THEN 0 ELSE at + 1)

-----------------------------------------------------------------------------
(* Route.Init                                                              *)

\* Mutant: only the view of the route gets its prefix.
UpdateViewConfigTop(h, v, namespaces) ==
  LET prefixes == {ns \in DOMAIN namespaces : namespaces[ns] = h.views[v].name}
  IN IF prefixes = {} THEN h
     ELSE Put(h, v, "selector", SelectorInit([Get(h, v, "selector") EXCEPT !.ns = CHOOSE ns \in prefixes : TRUE]))

\* updateViewConfig: related views are shared by the routes of a view
RECURSIVE UpdateViewConfig(_, _, _)
UpdateViewConfig(h, v, namespaces) ==
  LET prefixes == {ns \in DOMAIN namespaces : namespaces[ns] = h.views[v].name}
      g == IF prefixes = {} THEN h
           ELSE Put(h, v, "selector", SelectorInit([Get(h, v, "selector") EXCEPT !.ns = CHOOSE ns \in prefixes : TRUE]))
  IN Each(g, h.views[v].with, LAMBDA k, r : UpdateViewConfig(k, k.rels[r].of, namespaces))

\* the views of a route with their paths, as Index.indexViews lists them
RECURSIVE ViewsOf(_, _, _)
ViewsOf(h, v, path) ==
  <<[view |-> v, path |-> path, main |-> path = <<>>]>>
    \o FlattenSeq([i \in DOMAIN h.views[v].with |->
         LET rel == h.rels[h.views[v].with[i]] IN ViewsOf(h, rel.of, Append(path, rel.holder))])

\* Index.Init: the prefix of a view is the one of the route, or its own
IndexInit(h, route) ==
  LET views == ViewsOf(h, route.view, <<>>)
      NameOf(i) == h.views[views[i].view].name
      prefix(i) == LET ns == {p \in DOMAIN route.ns : route.ns[p] = NameOf(i)}
                       own == Get(h, views[i].view, "selector").ns
                   IN IF ns # {} /\ i = Max({j \in DOMAIN views : NameOf(j) = NameOf(i)}) THEN ns
                      ELSE IF own # "" THEN {own} ELSE IF i = 1 THEN {""} ELSE {}
  IN [details |-> [i \in DOMAIN views |-> views[i] @@ [prefixes |-> prefix(i)]],
      found |-> \A p \in DOMAIN route.ns : \E i \in DOMAIN views : NameOf(i) = route.ns[p]]

\* Route.findRequestBodyParams
RECURSIVE BodyParams(_, _)
BodyParams(h, v) ==
  LET params == Get(h, v, "template").params
      of(p)  == LET set == h.params[p].set
                IN (IF set["in"].kind = "body" THEN {p} ELSE {}) \cup (IF set["view"] = Unset THEN {} ELSE BodyParams(h, set["view"]))
  IN UNION {of(p) : p \in ToSet(params)} \cup UNION {BodyParams(h, h.rels[r].of) : r \in ToSet(h.views[v].with)}

\* Route.initRequestBodyFromParams: the body is one parameter, or has a field for each
RequestBody(h, route) ==
  LET params == IF route.method = "GET" THEN {} ELSE BodyParams(h, route.view)
      whole  == {p \in params : h.params[p].set["in"].name = ""}
      names  == {h.params[p].set["in"].name : p \in params \ whole}
      type   == h.params[CHOOSE p \in whole : TRUE].set["schema"]
      fields == IF type \in Primitives THEN {} ELSE IF type \in DOMAIN h.types THEN Names(h.types[type]) ELSE Names(h.schemas[type].type)
  IN [fields |-> IF whole = {} THEN names ELSE fields,
      required |-> \E p \in params : h.params[p].set["required"] = TRUE,
      valid |-> IF whole = {} THEN Cardinality(names) = Cardinality(params) ELSE names \subseteq fields]

\* Route.initStyle: the fields around the response
InitStyle(h, route) ==
  LET field == IF route.style = "Basic" THEN "" ELSE route.field
  IN IF route.style \in {"", "Basic"} /\ field = "" THEN [route EXCEPT !.style = "Basic", !.field = "", !.response = {}]
     ELSE [route EXCEPT !.field = IF field = "" THEN "ResponseBody" ELSE field,
                        !.response = {"ResponseStatus", IF field = "" THEN "ResponseBody" ELSE field}
                                     \cup (IF route.reveal = TRUE /\ route.debug = "record" THEN {"DatlyDebug"} ELSE {})]

\* Mutant: paths stay relative to the rows.
AddPrefixFieldNever(route) == route

\* Route.addPrefixFieldIfNeeded
AddPrefixField(route) ==
  IF route.field = "" THEN route
  ELSE [route EXCEPT !.exclude = [i \in DOMAIN @ |-> [@[i] EXCEPT !.path = <<route.field>> \o @]]]

\* what else Route.Init makes of a route once its views are ready
Finish(h, route) ==
  LET body   == RequestBody(h, route)
      styled == AddPrefixField(NormalizePaths(InitStyle(h, route)))
      index  == IndexInit(h, route)
  IN [styled EXCEPT !.details = index.details, !.bodyFields = body.fields, !.bodyRequired = body.required,
                    !.cardinality = IF @ = "" THEN "Many" ELSE @,
                    !.service = IF @ = "Executor" THEN @ ELSE "Reader",
                    !.excluded = ToSet(styled.exclude),
                    !.debug = IF route.reveal = TRUE /\ @ # "record" THEN "header" ELSE @]

\* Route.initServiceType
ServiceValid(route) == route.service \in {"", "Reader", "Executor"} \/ route.method = "GET"
\* Route.initVisitor
VisitorValid(h, route) == route.visitor \in h.codecs \cup {""}
\* BodySelector.Init
BodySelected(h, route) ==
  route.body # Unset => \E p \in ToSet(Get(h, route.view, "template").params) : h.params[p].name = route.body
\* Route.initCSVIfNeeded
CsvValid(route) == route.csv \in {Unset, 1}

\* what makes Route.Init end with an error
RouteValid(h, route) ==
  /\ route.cardinality \in {"", "One", "Many"}
  /\ VisitorValid(h, route)
  /\ RequestBody(h, route).valid
  /\ BodySelected(h, route)
  /\ IndexInit(h, route).found
  /\ ServiceValid(route)
  /\ CsvValid(route)

InitNextRoute ==
  LET route == heap.routes[at + 1]
      v     == route.view
      named == [heap EXCEPT !.views[v].standalone = TRUE, !.views[v].name = IF @ = "" THEN heap.views[v].ref ELSE @]
      viewed == Then(ViewInit(named, v, <<>>), LAMBDA h : UpdateViewConfig(h, v, route.ns))
      h      == Then(Then(viewed, LAMBDA g : Check(g, RouteValid(g, route), "invalid route")),
                     LAMBDA g : [g EXCEPT !.routes[at + 1] = Finish(g, route)])
  IN /\ phase = "routes" /\ at < Len(heap.routes)
     /\ Goto(h, "loggers", IF at + 1 = Len(heap.routes) THEN 0 ELSE at + 1)

\* Resource.addLoggersIfNeeded
AddLoggers ==
  LET logged == UNION {{d.view : d \in ToSet(ViewsOf(heap, heap.routes[i].view, <<>>))} : i \in DOMAIN heap.routes}
  IN /\ phase = "loggers"
     /\ Goto(IF config.logger THEN [heap EXCEPT !.views = [v \in DOMAIN @ |->
                IF v \in logged THEN [@[v] EXCEPT !.set["logger"] = "TimeLogger"] ELSE @[v]]] ELSE heap, "ready", 0)

Done == phase \in {"ready", "failed", "stuck"} /\ UNCHANGED vars

Next == Merge \/ ResourceInit \/ InitNextView \/ InitNextRoute \/ AddLoggers \/ Done

Working == {"merge", "views", "routes", "loggers"}

\* What a step does to phase and at. A resource is initialized by one goroutine that nothing waits for,
\* so a step that can be taken is taken: its steps are those that move phase and at.
Moves == phase \in Working /\ phase' \in Working \cup {"ready", "failed", "stuck"} /\ at' \in {0, at, at + 1}

Spec == Init /\ [][Next]_vars /\ WF_<<phase, at>>(Moves)

-----------------------------------------------------------------------------
(* Properties                                                              *)

Top == ToSet(heap.order) \cup {heap.routes[i].view : i \in DOMAIN heap.routes}
Tree(v) == {d.view : d \in ToSet(ViewsOf(heap, v, <<>>))}
Served == UNION {Tree(v) : v \in Top}
Ready == phase = "ready"
RelsOf(v) == {heap.rels[r] : r \in ToSet(heap.views[v].with)}

\* The shape of the state.
TypeOK ==
  /\ phase \in Working \cup {"ready", "failed", "stuck"} /\ at \in Nat
  /\ (phase = "failed") = (heap.error # "") /\ (phase = "stuck") = heap.stuck
  /\ DOMAIN heap.views = DOMAIN config.heap.views /\ DOMAIN heap.rels = DOMAIN config.heap.rels
  /\ \A v \in DOMAIN heap.views : /\ ToSet(heap.views[v].columns) \cup Range(heap.views[v].index) \subseteq DOMAIN heap.cols
                                   /\ ToSet(heap.views[v].with) \subseteq DOMAIN heap.rels
                                   /\ heap.views[v].schema \in {Unset} \cup DOMAIN heap.schemas

\* A view has what it does not set from the view it refers to, as that is in the end, whichever
\* of them is declared first (View.inheritFromViewIfNeeded).
Inherited ==
  Ready => \A v \in {x \in Served : heap.views[x].ref # ""} :
    LET other == heap.byName[heap.views[v].ref]
        declared == config.heap.views[v].set
    IN /\ \A s \in Settings \ {"logger", "connector", "selector", "template", "cache"} :
            Get(heap, v, s) = IF declared[s] = Unset THEN Get(heap, other, s) ELSE declared[s]
       /\ declared["selector"] = Unset => Get(heap, v, "selector").allows = Get(heap, other, "selector").allows
       /\ declared["template"] = Unset => Get(heap, v, "template").params = Get(heap, other, "template").params
       /\ config.heap.views[v].with = <<>> => heap.views[v].with = heap.views[other].with

\* Every view that is served has a connector a database can be opened with (View.ensureConnector).
Connected ==
  Ready => \A v \in Served : LET c == Get(heap, v, "connector") IN c # Unset /\ c.initialized /\ c.driver # "" /\ c.dsn # ""

\* When everything is initialized, the struct of a view still has a field for each of its columns and
\* for each related view, of the type that view has by then (Schema.Init, Relation.inheritType).
TypeFits ==
  Ready => \A v \in Served : heap.schemas[heap.views[v].schema].name = "" => TypeOf(heap, v) = FieldsOf(heap, v)

\* The holder of a relation is a field of the struct of every view that has the relation (Relation.initHolder).
Linked == Ready => \A v \in Served : \A r \in RelsOf(v) : r.holderField = TypeOf(heap, v)

\* No two views of a tree have the same name: selectors, caches and columns go by it (View.initViews).
NamesUnique == Ready => \A v \in Top : \A a, b \in Tree(v) : heap.views[a].name = heap.views[b].name => a = b

\* A selector finds each column of a view, and under the holder of a relation its column (View.registerHolders).
Indexed ==
  Ready => /\ \A v \in Served : \A c \in ToSet(heap.views[v].columns) : heap.cols[c].name \in DOMAIN heap.views[v].index
           /\ \A v \in Top : \A r \in RelsOf(v) : heap.cols[heap.views[v].index[r.holder]].name = r.column

\* Parameters that narrow a view have the prefix its route gives the view, unless they are named (updateViewConfig).
Prefixed ==
  Ready => \A i \in DOMAIN heap.routes : \A d \in ToSet(heap.routes[i].details) : \A k \in Kinds :
    LET selector == Get(heap, d.view, "selector")
    IN selector.param[k] # Unset /\ selector.own[k] = Unset /\ d.prefixes # {} => selector.param[k].in \in d.prefixes \X {k}

\* What a route excludes is looked for where the response has it (Route.addPrefixFieldIfNeeded).
ExcludeApplies ==
  Ready => \A i \in DOMAIN heap.routes :
    LET route == heap.routes[i]
        field == IF route.response = {} THEN <<>> ELSE <<route.field>>
    IN {p.path : p \in route.excluded} = {field \o config.heap.routes[i].exclude[j].path : j \in DOMAIN route.exclude}

\* What a resource has itself is not replaced by one it is merged with, and comes first (Resource.MergeFrom).
MergeKeepsOwn ==
  LET Kept(own, all, Name(_)) == IsPrefix(own, all) /\ IsInjective([i \in DOMAIN all |-> Name(all[i])])
  IN /\ Kept(config.heap.order, heap.order, LAMBDA v : config.heap.views[v].name)
     /\ Kept(config.heap.connOrder, heap.connOrder, LAMBDA c : config.heap.conns[c].name)
     /\ Kept(config.heap.paramOrder, heap.paramOrder, LAMBDA p : config.heap.params[p].name)

\* A column is decoded only when a route or the configuration of a view asks for it (View.indexTransforms).
CodecsAsked ==
  Ready => \A v \in Served : \A c \in ToSet(heap.views[v].columns) : heap.cols[c].codec # "" =>
    \E i \in DOMAIN heap.routes : \E t \in ToSet(heap.routes[i].transforms) :
      /\ t.codec = heap.cols[c].codec
      /\ \E d \in ToSet(heap.routes[i].details) : t.path = Append(d.path, heap.cols[c].name)
                                                  /\ c \in ToSet(heap.views[d.view].columns)

\* A view is complete when it is served: what it inherits, where it is read and how it is called.
ViewsComplete == TypeOK /\ Inherited /\ Connected /\ NamesUnique

\* The columns of a view, its struct and the holders of its relations agree, in whatever order
\* views were initialized.
StructsFit == TypeFits /\ Linked /\ Indexed

\* What a route and a resource say of their views applies to them and to no other.
RoutesApply == Prefixed /\ ExcludeApplies /\ CodecsAsked /\ MergeKeepsOwn

Core(h, v) == <<h.views[v].name, Source(h, v), h.views[v].columns, Get(h, v, "connector"), Get(h, v, "match"), TypeOf(h, v)>>

\* A view that is ready is not changed by those that are initialized later (View.Init).
Settled == [][\A v \in ToSet(heap.order) : Goes(heap) /\ heap.views[v].initialized => Core(heap', v) = Core(heap, v)]_vars

\* The connections it takes to detect the columns of the views of a pool, once for each name.
Detections(c) ==
  LET readers == {v \in DOMAIN heap.views : Get(heap, v, "connector") # Unset /\ Pool(Get(heap, v, "connector")) = Pool(c)}
      double  == {v \in readers : Get(heap, v, "from") # Unset /\ Get(heap, v, "table") # Unset}
      NamesOf(views) == {heap.views[v].name : v \in views}
  IN Cardinality(NamesOf(readers)) + Cardinality(NamesOf(double))

\* The pool is too small for what detects columns: no connection is left over.
Exhausted ==
  \E v \in DOMAIN heap.views :
    LET c == Get(heap, v, "connector") IN c # Unset /\ c.max # Unset /\ c.max <= Detections(c)

\* Every resource becomes ready or is refused, and waits for ever only when MaxOpenConns of a connector
\* leaves no connection over for the views that read from it: the rows of a detection are never closed,
\* but the columns of a name are detected once (detectColumns, View.ensureColumns).
Started == <>(phase \in {"ready", "failed"} \/ (phase = "stuck" /\ Exhausted))
=============================================================================
