------------------------------ MODULE ViewInit ------------------------------
(***************************************************************************)
(* How a view becomes ready: View.Init with everything it calls. Views,    *)
(* relations, columns, schemas, columns configs and parameters are pointed *)
(* to from several places in the program, so they are kept in a heap, and  *)
(* each operator takes the heap and returns what becomes of it. Names are  *)
(* in one case: a column and its field have the same name.                 *)
(***************************************************************************)
EXTENDS Integers, Sequences, FiniteSets, SequencesExt, TLC

CONSTANT Unset    \* nil, or an empty setting

Settings == {"connector", "alias", "table", "from", "mode", "cases", "match", "logger", "batch", "nulls",
             "cache", "config", "selfRef", "selector", "template"}
ParamSettings == {"description", "style", "presence", "const", "in", "required", "schema", "output", "view", "status"}
Kinds == {"Limit", "Offset", "Page", "Fields", "Criteria", "OrderBy"}
Primitives == {"int", "string", "bool"}
Queries == [k \in Kinds |-> IF k \in {"Limit", "Offset", "Page"} THEN "int" ELSE "string"]

\* An error of a step is returned by every caller: nothing is done after it.
Fail(h, what) == [h EXCEPT !.error = what]
Goes(h) == h.error = "" /\ ~h.stuck
Then(h, F(_)) == IF Goes(h) THEN F(h) ELSE h
Each(h, s, F(_, _)) == FoldLeft(LAMBDA g, x : IF Goes(g) THEN F(g, x) ELSE g, h, s)
Check(h, holds, what) == IF holds \/ ~Goes(h) THEN h ELSE Fail(h, what)

Or(value, other) == IF value = Unset THEN other ELSE value
Get(h, v, s) == h.views[v].set[s]
Put(h, v, s, value) == [h EXCEPT !.views[v].set[s] = value]
TypeOf(h, v) == h.schemas[h.views[v].schema].type
Names(type) == {f.name : f \in type}
FieldOf(type, name) == CHOOSE f \in type : f.name = name

\* Mutant: the type is taken though other columns are excluded.
InheritSchema(h, v, other) ==
  LET a == h.views[v]
      b == h.views[other]
  IN [h EXCEPT !.views[v] = [a EXCEPT !.set = [s \in Settings |-> Or(@[s], b.set[s])],
                                      !.columns = IF a.exclude = b.exclude /\ @ = <<>> THEN b.columns ELSE @,
                                      !.schema = Or(@, b.schema), !.with = IF @ = <<>> THEN b.with ELSE @]]

\* View.inherit
Inherit(h, v, other) ==
  LET a    == h.views[v]
      b    == h.views[other]
      same == a.exclude = b.exclude
      with == IF a.with = <<>> THEN b.with ELSE a.with
  IN [h EXCEPT !.views[v] =
        [a EXCEPT !.set = [s \in Settings |->
                             IF s = "template" /\ a.set[s] = Unset /\ b.set[s] # Unset THEN [b.set[s] EXCEPT !.view = v]
                             ELSE Or(a.set[s], b.set[s])],
                  !.columns = IF same /\ a.columns = <<>> THEN b.columns ELSE @,
                  !.schema = IF same /\ a.schema = Unset /\ a.with = <<>> THEN b.schema ELSE @,
                  !.with = with,
                  !.exclude = IF @ = {} THEN b.exclude ELSE @,
                  !.collector = IF @ = Unset /\ with = <<>> THEN b.collector ELSE @]]

-----------------------------------------------------------------------------
(* Connectors                                                              *)

ValidConnector(c) == c.initialized \/ (c.name # "" /\ c.driver # "" /\ c.dsn # "")

\* Connector.inherit
ConnectorInherit(c, ref) ==
  [c EXCEPT !.dsn = IF @ = "" THEN ref.dsn ELSE @,
            !.driver = IF @ = "" THEN ref.driver ELSE @,
            !.name = IF @ = "" THEN ref.name ELSE @,
            !.max = IF @ = Unset THEN ref.max ELSE @]

\* Connector.Init: what a connector refers to may not be initialized yet
ConnectorInit(h, c) ==
  CASE c.initialized -> c
    [] c.ref = ""    -> [c EXCEPT !.initialized = TRUE]
    [] OTHER         -> ConnectorInherit([c EXCEPT !.initialized = TRUE], h.conns[h.connOf[c.ref]])
KnownRef(h, c) == c.initialized \/ c.ref = "" \/ c.ref \in DOMAIN h.connOf

\* isChildOfAny
RECURSIVE IsChildOfAny(_, _, _)
IsChildOfAny(h, name, with) ==
  \E i \in DOMAIN with :
    LET of == h.views[h.rels[with[i]].of]
    IN of.ref = name \/ IsChildOfAny(h, name, of.with)

\* Resource.FindConnector: Unset when there is none
FindConnector(h, v) ==
  LET a       == h.views[v]
      parents == SelectSeq(h.order, LAMBDA p : /\ h.views[p].name # a.name
                                               /\ IsChildOfAny(h, a.name, h.views[p].with))
      above   == IF a.set["connector"] = Unset /\ parents # <<>> THEN Get(h, parents[1], "connector") ELSE Unset
      own     == IF a.set["connector"] = Unset /\ a.ref \in DOMAIN h.byName
                 THEN Get(h, h.byName[a.ref], "connector") ELSE a.set["connector"]
  IN CASE above # Unset                      -> above
       [] own = Unset                        -> Unset
       [] own.ref # ""                       -> IF own.ref \in DOMAIN h.connOf THEN h.conns[h.connOf[own.ref]] ELSE Unset
       [] OTHER                              -> IF ValidConnector(own) THEN own ELSE Unset

\* Mutant: the connector that is found is not initialized.
EnsureConnectorFound(h, v) ==
  IF FindConnector(h, v) = Unset THEN Fail(h, "no connector") ELSE Put(h, v, "connector", FindConnector(h, v))

\* View.ensureConnector
EnsureConnector(h, v) ==
  LET own   == Get(h, v, "connector")
      found == FindConnector(h, v)
  IN CASE own # Unset /\ own.initialized -> h
       [] found = Unset        -> Fail(h, "no connector")
       [] ~KnownRef(h, found)  -> Fail(h, "no connector")
       [] OTHER                -> Put(h, v, "connector", ConnectorInit(h, found))

-----------------------------------------------------------------------------
(* Columns                                                                 *)

Source(h, v) ==
  CASE Get(h, v, "from") # Unset  -> Get(h, v, "from")
    [] Get(h, v, "table") # Unset -> Get(h, v, "table")
    [] OTHER                      -> h.views[v].name

\* dbRegistry.DB: connectors of one driver, DSN and configuration share a pool of connections
Pool(c) == <<c.driver, c.dsn, c.max>>
Taken(h, c) == IF Pool(c) \in DOMAIN h.open THEN h.open[Pool(c)] ELSE 0

\* columnsMetadata: asked for on another connection, unless the driver tells what is nullable
AsksMetadata(h, v) ==
  /\ Get(h, v, "connector").driver \notin h.telling
  /\ Get(h, v, "table") \in {Unset, Source(h, v)}

\* detectColumns: its rows are never closed, so the connection stays taken, and the metadata
\* needs one more for a while. What asks for a connection when all are taken waits for ever.
Query(h, v, source) ==
  LET c       == Get(h, v, "connector")
      inUse   == Taken(h, c) + 1
      peak    == IF AsksMetadata(h, v) THEN inUse + 1 ELSE inUse
      Lacks(n) == c.max # Unset /\ n > c.max
      asked   == [h EXCEPT !.open = (Pool(c) :> inUse) @@ @]
  IN CASE c.driver = ""                -> Fail(h, "no driver")
       [] Lacks(inUse)                 -> [h EXCEPT !.stuck = TRUE]
       [] source \notin DOMAIN h.tables -> Fail(h, "no table")
       [] Lacks(peak)                  -> [asked EXCEPT !.stuck = TRUE]
       [] OTHER                        -> asked

\* DetectColumns, and View.exclude
DetectColumns(h, v) ==
  LET a       == h.views[v]
      found   == SelectSeq(h.tables[Source(h, v)], LAMBDA c : c.name \notin a.exclude)
      ids     == [i \in DOMAIN found |-> <<v, found[i].name>>]
      tables  == IF a.set["from"] # Unset /\ a.set["table"] # Unset THEN <<a.set["table"]>> ELSE <<>>
  IN Then(Each(h, <<Source(h, v)>> \o tables, LAMBDA g, source : Query(g, v, source)), LAMBDA g :
       [g EXCEPT !.cols = [i \in ToSet(ids) |-> [name |-> i[2], nullable |-> \E c \in ToSet(found) : c.name = i[2] /\ c.nullable,
                                                 filterable |-> FALSE, codec |-> "", coalesced |-> FALSE, initialized |-> FALSE]] @@ @,
                 !.views[v].columns = ids,
                 !.cached = (a.name :> ids) @@ @])

\* Columns.Index and ColumnIndex.Lookup
Index(h, columns) == [n \in {h.cols[columns[i]].name : i \in DOMAIN columns} |->
                        columns[Max({i \in DOMAIN columns : h.cols[columns[i]].name = n})]]
IndexColumns(h, v) == [h EXCEPT !.views[v].index = Index(h, h.views[v].columns)]

\* Column.Init: only the first view that has the column initializes it
ColumnInit(h, v, c) ==
  LET config == h.configs[Get(h, v, "config")]
      col    == h.cols[c]
      codec  == IF col.name \in DOMAIN config THEN config[col.name] ELSE col.codec
      nulls  == Get(h, v, "nulls")
  IN CASE col.initialized -> h
       [] codec \notin h.codecs \cup {""} -> Fail(h, "no codec")
       [] OTHER -> [h EXCEPT !.cols[c] = [@ EXCEPT !.initialized = TRUE, !.codec = codec,
                                                   !.coalesced = @ \/ (col.nullable /\ (nulls = Unset \/ nulls = TRUE))]]
ColumnsInit(h, v) == Each(h, h.views[v].columns, LAMBDA g, c : ColumnInit(g, v, c))

\* Mutant: a transform of a related view is taken for one of the view.
IndexTransformsDeep(h, v, transforms) ==
  Each(h, transforms, LAMBDA g, t :
    IF t.codec \notin g.codecs THEN Fail(g, "no codec") ELSE [g EXCEPT !.configs[Get(g, v, "config")] = (Last(t.path) :> t.codec) @@ @])

\* View.indexTransforms: a config the view shares with others is changed for all of them
IndexTransforms(h, v, transforms) ==
  Each(h, transforms, LAMBDA g, t :
    IF Len(t.path) > 1 THEN g
    ELSE IF t.codec \notin g.codecs THEN Fail(g, "no codec")
    ELSE [g EXCEPT !.configs[Get(g, v, "config")] = (t.path[1] :> t.codec) @@ @])

\* View.markColumnsAsFilterable
MarkFilterable(h, v) ==
  LET wanted == Get(h, v, "selector").filterable
      index  == h.views[v].index
      marked == IF "*" \in wanted THEN ToSet(h.views[v].columns) ELSE {index[n] : n \in wanted}
  IN IF wanted \subseteq DOMAIN index \cup {"*"}
     THEN [h EXCEPT !.cols = [c \in DOMAIN @ |-> IF c \in marked THEN [@[c] EXCEPT !.filterable = TRUE] ELSE @[c]]]
     ELSE Fail(h, "no column")

\* View.deriveColumnsFromSchema: the columns of the fields, and those relations need
DeriveColumns(h, v, of) ==
  LET a       == h.views[v]
      fields  == SelectSeq(a.columns, LAMBDA c : /\ c = a.index[h.cols[c].name]
                                                 /\ h.cols[c].name \in Names(TypeOf(h, v)))
      known   == {h.cols[c].name : c \in ToSet(fields)}
      lacking == SelectSeq(a.with, LAMBDA r : h.rels[r].ofColumn \notin known)
      missing == [i \in DOMAIN lacking |-> h.rels[lacking[i]].column]
                 \o (IF of = Unset \/ of \in known THEN <<>> ELSE <<of>>)
  IN CASE ~a.derive                              -> h
       [] ~(ToSet(missing) \subseteq DOMAIN a.index) -> Fail(h, "no column")
       [] OTHER -> IndexColumns([h EXCEPT !.views[v].columns = fields \o [i \in DOMAIN missing |-> a.index[missing[i]]]], v)

-----------------------------------------------------------------------------
(* Schemas and selectors                                                   *)

\* Schema.initByColumns
FieldsOf(h, v) ==
  LET a        == h.views[v]
      rels     == {h.rels[r] : r \in ToSet(a.with)}
      replaced == {r.column : r \in {x \in rels : ~x.include /\ x.cardinality = "One"}}
      columns  == {h.cols[c] : c \in ToSet(a.columns)}
      self     == a.set["selfRef"]
  IN {[name |-> c.name, of |-> {}] : c \in {x \in columns : x.name \notin replaced}}
     \cup {[name |-> r.holder, of |-> TypeOf(h, r.of)] : r \in rels}
     \cup (IF self = Unset THEN {} ELSE {[name |-> self.holder, of |-> {}]})

\* View.ensureSchema and Schema.Init
EnsureSchema(h, v) ==
  LET id     == Or(h.views[v].schema, v)
      schema == IF h.views[v].schema = Unset THEN [name |-> "", type |-> Unset, initialized |-> FALSE] ELSE h.schemas[id]
      fields == FieldsOf(h, v)
      With(type) == [h EXCEPT !.schemas = (id :> [schema EXCEPT !.type = type, !.initialized = TRUE]) @@ @,
                              !.views[v].schema = id]
  IN CASE schema.name # "" /\ schema.name \notin DOMAIN h.types -> Fail(h, "no type")
       [] schema.name # ""         -> With(h.types[schema.name])
       [] schema.initialized \/ schema.type # Unset -> With(schema.type)
       [] \E f, g \in fields : f # g /\ f.name = g.name -> Fail(h, "panic")
       [] OTHER                    -> With(fields)

\* Config.Init: a parameter is made anew as long as its name is not given
SelectorInit(selector) ==
  LET allowed(k) == \/ selector.own[k] # Unset
                    \/ IF k = "Page" THEN selector.allows \cap {"Limit", "Offset", "Page"} # {} ELSE k \in selector.allows
      made(k)    == allowed(k) /\ (IF selector.byDefault[k] = Unset THEN selector.param[k] = Unset ELSE selector.byDefault[k])
  IN [selector EXCEPT
        !.byDefault = [k \in Kinds |-> IF made(k) THEN selector.own[k] = Unset ELSE @[k]],
        !.param = [k \in Kinds |-> IF ~made(k) THEN @[k]
                                   ELSE [in |-> Or(selector.own[k], <<selector.ns, k>>), type |-> Queries[k]]]]

\* Config.initParamIfNeeded
SelectorFits(selector) == \A k \in Kinds : selector.param[k] # Unset => selector.param[k].type = Queries[k]
NoSelector == [ns |-> "", allows |-> {}, filterable |-> {}, own |-> [k \in Kinds |-> Unset],
               param |-> [k \in Kinds |-> Unset], byDefault |-> [k \in Kinds |-> Unset]]

-----------------------------------------------------------------------------
(* Views, their relations and the parameters of their templates            *)

RECURSIVE ViewInit(_, _, _), InitViews(_, _, _), InitView(_, _, _), InheritFromView(_, _, _),
          ParamInit(_, _, _), TemplateInit(_, _), UpdateRelations(_, _, _)

\* Mutant: what is referred to is taken as it is.
InheritFromViewNow(h, v, transforms) ==
  IF h.views[v].ref \in DOMAIN h.byName THEN Inherit(h, v, h.byName[h.views[v].ref]) ELSE h

\* View.inheritFromViewIfNeeded
InheritFromView(h, v, transforms) ==
  LET ref == h.views[v].ref
  IN CASE ref = ""                  -> h
       [] ref \notin DOMAIN h.byName -> Fail(h, "no view")
       [] OTHER -> Then(ViewInit(h, h.byName[ref], transforms), LAMBDA g : Inherit(g, v, g.byName[ref]))

\* Parameter.inherit
ParamInherit(h, p, other) ==
  [h EXCEPT !.params[p].set = [s \in ParamSettings |-> Or(@[s], h.params[other].set[s])],
            !.params[p].name = IF @ = "" THEN h.params[other].name ELSE @]

\* Parameter.initSchema
ParamTyped(h, p) ==
  LET schema  == h.params[p].set["schema"]
      literal == h.params[p].set["in"].kind = "literal"
  IN CASE schema = Unset /\ literal -> [h EXCEPT !.params[p].set["schema"] = "string"]
       [] schema = Unset            -> Fail(h, "no schema")
       [] schema \notin Primitives \cup DOMAIN h.types \cup DOMAIN h.schemas -> Fail(h, "no type")
       [] OTHER                     -> h

\* Codec.Init
CodecInit(h, p) == Check(h, h.params[p].set["output"] \in h.codecs \cup {Unset}, "no codec")

\* Parameter.Validate
ParamValid(h, p) ==
  LET in == h.params[p].set["in"] IN h.params[p].name # "" /\ (in.name # "" \/ in.kind = "body")

\* Parameter.Init: a parameter read from a view has the type of its rows
ParamInit(h, p, v) ==
  LET ref   == h.params[p].ref
      known == [h EXCEPT !.params[p].initialized = TRUE, !.params[p].owner = v]
      derived == CASE ref = ""                 -> known
                   [] ref \notin DOMAIN h.paramOf -> Fail(known, "no parameter")
                   [] OTHER -> Then(ParamInit(known, h.paramOf[ref], v), LAMBDA g : ParamInherit(g, p, g.paramOf[ref]))
      present == Then(derived, LAMBDA g : [g EXCEPT !.params[p].set["presence"] = Or(@, g.params[p].name)])
      Located(g) ==
        LET in == g.params[p].set["in"]
        IN CASE in = Unset                                      -> Fail(g, "no location")
             [] in.kind = "literal" /\ g.params[p].set["const"] = Unset -> Fail(g, "no value")
             [] in.kind = "data_view" /\ in.name \notin DOMAIN g.byName -> Fail(g, "no view")
             [] in.kind = "data_view" ->
                  Then(ViewInit(g, g.byName[in.name], <<>>), LAMBDA k :
                    [k EXCEPT !.params[p].set = [@ EXCEPT !["view"] = k.byName[in.name],
                                                          !["schema"] = Or(@, k.views[k.byName[in.name]].schema)]])
             [] OTHER -> g
      typed == Then(Then(present, Located), LAMBDA g : ParamTyped(g, p))
  IN IF h.params[p].initialized THEN h
     ELSE Then(Then(typed, LAMBDA g : CodecInit(g, p)), LAMBDA g : Check(g, ParamValid(g, p), "no name"))

\* Template.Init. Parameters are initialized before the schema of a template is looked at:
\* each needs a type of its own.
TemplateInit(h, v) ==
  LET t == Get(h, v, "template")
      started == Check(Put(h, v, "template", [t EXCEPT !.initialized = TRUE, !.view = v]), t.schema \in DOMAIN h.types \cup {Unset}, "no type")
      ready   == Each(started, t.params, LAMBDA g, p : ParamInit(g, p, v))
      names   == [i \in DOMAIN t.params |-> ready.params[t.params[i]].name]
  IN IF t.initialized THEN h ELSE Check(ready, IsInjective(names), "panic")

\* Cache.inheritIfNeeded: the warm-up of a provider can not be copied to a cache that has none
CacheInherit(h, c) ==
  LET p == h.caches[h.cacheOf[c.ref]] IN [c EXCEPT !.location = Or(@, p.location), !.ttl = Or(@, p.ttl)]
CacheInherits(h, c) == c.ref \in DOMAIN h.cacheOf /\ (h.caches[h.cacheOf[c.ref]].warmup => c.warmup)

\* Cache.init
CacheInit(h, v) ==
  LET c == Get(h, v, "cache")
      full == IF c.ref = "" THEN c ELSE CacheInherit(h, c)
  IN CASE c = Unset                                 -> h
       [] c.initialized                             -> h
       [] c.ref # "" /\ ~CacheInherits(h, c)        -> Fail(h, "no cache")
       [] full.location = Unset \/ full.ttl = Unset -> Fail(h, "no location")
       [] OTHER -> Put(h, v, "cache", [full EXCEPT !.initialized = TRUE, !.owner = v])

\* Mutant: columns are not remembered.
EnsureColumnsAnew(h, v) ==
  LET template == Get(h, v, "template")
      prepared == IF template = Unset \/ Get(h, v, "mode") = "exec" THEN h ELSE TemplateInit(h, v)
  IN IF h.views[v].columns # <<>> THEN h ELSE Then(prepared, LAMBDA k : DetectColumns(k, v))

\* View.ensureColumns: columns are remembered by the name of the view
EnsureColumns(h, v) ==
  LET a == h.views[v]
      g == IF a.name \in DOMAIN h.cached THEN [h EXCEPT !.views[v].columns = h.cached[a.name]] ELSE h
      prepared == IF a.set["template"] = Unset \/ a.set["mode"] = "exec" THEN g ELSE TemplateInit(g, v)
  IN IF g.views[v].columns # <<>> THEN g ELSE Then(prepared, LAMBDA k : DetectColumns(k, v))

\* What initView gives a view that has none
Defaults(h, v) ==
  LET a == h.views[v].set
      name == h.views[v].name
  IN [h EXCEPT !.views[v].set =
        [a EXCEPT !["config"] = Or(@, v), !["batch"] = Or(@, 10000), !["logger"] = Or(@, "default"), !["alias"] = Or(@, "t"),
                  !["table"] = IF a["from"] = Unset THEN Or(@, name) ELSE @,
                  !["match"] = Or(@, "read_matched"), !["selector"] = Or(@, NoSelector)],
            !.configs = IF a["config"] = Unset THEN (v :> <<>>) @@ @ ELSE @]

\* View.validateSelfRef
SelfRefValid(h, v) ==
  LET self == Get(h, v, "selfRef")
  IN self = Unset \/ (self.holder # "" /\ {self.child, self.parent} \subseteq DOMAIN h.views[v].index)

\* View.initView
InitView(h, v, transforms) ==
  LET Valid(g) == Check(Defaults(g, v), /\ Get(Defaults(g, v), v, "match") \in {"read_all", "read_matched", "read_derived"}
                                        /\ g.views[v].name # ""
                                        /\ g.views[v].name = g.views[v].ref => g.views[v].standalone, "invalid view")
      Cased(g) == Put(g, v, "cases", Or(Get(g, v, "cases"), "detected"))
      Selected(g) == Put(g, v, "selector", SelectorInit(Get(g, v, "selector")))
      Templated(g) == Put(g, v, "template", Or(Get(g, v, "template"), [params |-> <<>>, schema |-> Unset, initialized |-> FALSE, view |-> v]))
      h1 == Then(InheritFromView(h, v, transforms), Valid)
      h2 == Then(h1, LAMBDA g : EnsureConnector(g, v))
      h3 == Then(Then(h2, LAMBDA g : EnsureColumns(g, v)), Cased)
      h4 == Then(Then(h3, LAMBDA g : IndexTransforms(g, v, transforms)), LAMBDA g : ColumnsInit(g, v))
      h5 == Then(Then(h4, LAMBDA g : IndexColumns(g, v)), LAMBDA g : Check(g, SelfRefValid(g, v), "self reference"))
      h6 == Then(Then(h5, LAMBDA g : EnsureSchema(g, v)), Selected)
      h7 == Then(h6, LAMBDA g : Check(g, SelectorFits(Get(g, v, "selector")), "selector"))
      h8 == Then(Then(h7, LAMBDA g : MarkFilterable(g, v)), Templated)
  IN Then(Then(h8, LAMBDA g : TemplateInit(g, v)), LAMBDA g : CacheInit(g, v))

\* View.initViews: h.taken has the names of the tree of views
InitViews(h, v, transforms) ==
  Each(h, h.views[v].with, LAMBDA g, r :
    LET of    == g.rels[r].of
        named == [g EXCEPT !.views[of].name = IF @ = "" THEN g.views[v].name \o "#rel:" \o g.rels[r].name ELSE @]
        name  == named.views[of].name
        below == SelectSeq(transforms, LAMBDA t : t.camel /\ Len(t.path) > 1 /\ t.path[1] = g.rels[r].holder)
        relTransforms == [i \in DOMAIN below |-> [below[i] EXCEPT !.path = Tail(@)]]
        h1    == InheritFromView([named EXCEPT !.taken = @ \cup {name}], of, relTransforms)
    IN IF name \in g.taken THEN Fail(g, "not unique view name")
       ELSE Then(Then(h1, LAMBDA k : InitViews(k, of, relTransforms)), LAMBDA k : InitView(k, of, relTransforms)))

\* Mutant: the related view gets the type of its owner.
RelationInitOwner(h, r, v) == [h EXCEPT !.schemas[h.views[h.rels[r].of].schema].type = TypeOf(h, v), !.rels[r].holderField = TypeOf(h, v)]

\* Relation.Init: the related view gets the type of the field that holds it
RelationInit(h, r, v) ==
  LET rel   == h.rels[r]
      type  == TypeOf(h, v)
      typed == [h EXCEPT !.schemas[h.views[rel.of].schema].type = FieldOf(type, rel.holder).of,
                         !.rels[r].holderField = type,
                         !.rels[r].hasColumnField = rel.column \in Names(type)]
  IN CASE rel.holder \notin Names(type) -> Fail(h, "panic")
       [] rel.cardinality = "Many" /\ rel.column \notin Names(type) -> Fail(h, "no column")
       [] OTHER -> Then(DeriveColumns(typed, rel.of, rel.ofColumn), LAMBDA g :
                     Check(IndexColumns(g, rel.of), rel.cardinality \in {"Many", "One"} /\ rel.column # "" /\ rel.holder # "", "relation"))

\* Mutant: the column of the other side is registered.
RegisterHoldersOf(h, v) ==
  [h EXCEPT !.views[v].index = [n \in {h.rels[r].holder : r \in ToSet(h.views[v].with)} |->
     @[h.rels[CHOOSE r \in ToSet(h.views[v].with) : h.rels[r].holder = n].ofColumn]] @@ @]

\* View.registerHolders
RegisterHolders(h, v) ==
  LET held(r) == h.rels[r].column \in DOMAIN h.views[v].index
      holders == {r \in ToSet(h.views[v].with) : held(r)}
      index   == h.views[v].index
  IN [h EXCEPT !.views[v].index =
        [n \in {h.rels[r].holder : r \in holders} |->
           index[h.rels[CHOOSE r \in holders : h.rels[r].holder = n].column]] @@ @]

\* Mutant: the related views of related views are left out.
UpdateRelationsOnce(h, v, kept) ==
  Then(Each(IndexColumns(h, v), h.views[v].with, LAMBDA g, r : RelationInit(g, r, v)), LAMBDA g : RegisterHolders(g, v))

\* View.updateRelations. Related views are copied first (refView := rel.Of.View):
\* what is set in the copy itself is lost, and only views that are kept change.
UpdateRelations(h, v, kept) ==
  LET indexed == IF kept THEN DeriveColumns([IndexColumns(h, v) EXCEPT !.views[v].collector = v], v, Unset) ELSE h
      related == Each(indexed, h.views[v].with, LAMBDA g, r :
                   Then(RelationInit(g, r, v), LAMBDA k : UpdateRelations(k, k.rels[r].of, FALSE)))
  IN IF kept THEN Then(related, LAMBDA g : RegisterHolders(g, v)) ELSE related

\* Mutant: the view itself is not among the names of its tree.
ViewInitOpen(h, v, transforms) ==
  LET h1 == InitViews([h EXCEPT !.views[v].initialized = TRUE, !.taken = {}], v, transforms)
      h2 == Then(h1, LAMBDA g : InitView(g, v, transforms))
      h3 == Then(h2, LAMBDA g : UpdateRelations(g, v, TRUE))
  IN IF h.views[v].initialized THEN h ELSE [h3 EXCEPT !.taken = h.taken]

\* View.Init
ViewInit(h, v, transforms) ==
  LET started == [h EXCEPT !.views[v].initialized = TRUE, !.taken = {h.views[v].name}]
      h1 == InitViews(started, v, transforms)
      h2 == Then(h1, LAMBDA g : InitView(g, v, transforms))
      h3 == Then(h2, LAMBDA g : UpdateRelations(g, v, TRUE))
  IN IF h.views[v].initialized THEN h ELSE [h3 EXCEPT !.taken = h.taken]
=============================================================================
