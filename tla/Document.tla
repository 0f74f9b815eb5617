------------------------------ MODULE Document ------------------------------
(***************************************************************************)
(* How the OpenAPI document of routes is put together (router/openapi3.go).*)
(* A schema or a parameter that is described under a name is described     *)
(* where it is met first; when it is met again it moves to the components, *)
(* and both places refer to it. So what is described is in a place of a    *)
(* heap, where it can become a reference, and operations hold places. A    *)
(* reference is a section of the components, as it is written, and a name. *)
(*                                                                         *)
(* What walks over types and views is given: which parameters routes have  *)
(* and what schemas types have.                                            *)
(***************************************************************************)
EXTENDS Integers, SequencesExt

CONSTANTS
  Setups,           \* sequences of routes
  Described(_),     \* what is described of a route: its method, URI, view and types
  ParamsOf(_),      \* the parameters of such a route, those of related views included
  SchemaOf(_, _, _) \* generateSchema: of such a route, for a type, as it is written or taken

VARIABLES
  routes,   \* the routes, as they were declared
  doc       \* their document, as it was generated last

None == 0
Empty == [heap |-> <<>>, index |-> <<>>, common |-> <<>>]
NoDocument == [schemas |-> Empty, params |-> Empty, paths |-> <<>>]

\* #/components/schema/<name>, #/components/parameters/<name>
Ref(section, name) == [section |-> section, ref |-> name]
Inline(schema) == [schema |-> schema]
IsRef(content) == "ref" \in DOMAIN content
With(f, name, value) == [n \in DOMAIN f \cup {name} |-> IF n = name THEN value ELSE f[n]]

Place(part, content) == [heap |-> Append(part.heap, content), index |-> part.index, common |-> part.common]
Add(part, name, content) ==
  [heap |-> Append(part.heap, content), index |-> With(part.index, name, Len(part.heap) + 1), common |-> part.common]

\* what is found under a name moves to the components
Move(part, section, found, name) ==
  LET first == part.index[found]
  IN IF first = None THEN part
     ELSE [heap   |-> [part.heap EXCEPT ![first] = Ref(section, name)],
           index  |-> With(part.index, name, None),
           common |-> With(part.common, name, part.heap[first])]

\* Mutant: what is met again is described where it was met first only.
AgainUnmoved(part, section, found, name) == Place(part, Ref(section, name))

Again(part, section, found, name) == Place(Move(part, section, found, name), Ref(section, name))

\* getOrGenerateSchema: the schema is in the last place
GetOrGenerate(schemas, route, type, isOutput, name) ==
  LET made == Inline(SchemaOf(route, type, isOutput))
  IN CASE name = ""                                  -> Place(schemas, made)
       [] name # "" /\ name \notin DOMAIN schemas.index -> Add(schemas, name, made)
       [] OTHER                                      -> Again(schemas, "schema", name, name)

\* Resource.TypeName
TypeName(type, default) == IF type.kind = "struct" /\ type.registered THEN type.name ELSE default

-----------------------------------------------------------------------------
(* Parameters.                                                             *)

Undescribed == {"data_view", "body", "env", "literal"}
Lookup(p) == IF p.inName = "" THEN p.name ELSE p.inName

\* convertParam: a parameter is looked for by its name in the request, and kept by its own;
\* an operation has no place for one that is not described
ConvertParam(acc, route, p) ==
  LET made == GetOrGenerate(acc.schemas, route, p.type, FALSE, TypeName(p.type, p.name))
      At(schemas, params, place) == [schemas |-> schemas, params |-> params, places |-> Append(acc.places, place)]
      AtEnd(schemas, params) == At(schemas, params, Len(params.heap))
  IN CASE p.kind \in Undescribed -> At(acc.schemas, acc.params, None)
       [] p.kind \notin Undescribed /\ Lookup(p) \in DOMAIN acc.params.index ->
            AtEnd(acc.schemas, Again(acc.params, "parameters", Lookup(p), p.name))
       [] OTHER ->
            AtEnd(made, Add(acc.params, p.name, [name |-> Lookup(p), in |-> p.kind, schema |-> Len(made.heap)]))

\* getAllViewsParameters
ConvertAll(acc, route) == FoldLeft(LAMBDA a, p : ConvertParam(a, route, p), acc, ParamsOf(route))

-----------------------------------------------------------------------------
(* Operations.                                                             *)

HasBody(route) == route.method = "POST" /\ route.bodyType.kind # "none"
BodyName == "Request body schema"

\* requestBody: the name all bodies are described under is the text meant to describe them
RequestBody(schemas, route) ==
  IF HasBody(route) THEN GetOrGenerate(schemas, route, route.bodyType, FALSE, BodyName) ELSE schemas

\* responses: the schema of errors, one of its own each time, is left out
Responses(schemas, route) ==
  IF route.method = "OPTIONS" THEN schemas
  ELSE GetOrGenerate(schemas, route, route.response, TRUE, TypeName(route.response, route.view.name))

\* generateOperation, generatePaths: the item of a URI has the operation of the last route
\* of it, and that of no method but GET and POST
GenerateOperation(g, route) ==
  LET body  == RequestBody(g.schemas, route)
      taken == ConvertAll([schemas |-> body, params |-> g.params, places |-> <<>>], route)
      made  == Responses(taken.schemas, route)
      op    == [body |-> IF HasBody(route) THEN Len(body.heap) ELSE None, params |-> taken.places,
                success |-> Len(made.heap)]
  IN [schemas |-> made, params |-> taken.params,
      paths |-> With(g.paths, route.uri, [m \in {route.method} \cap {"GET", "POST"} |-> op])]

GeneratePaths(described) == FoldLeft(GenerateOperation, NoDocument, described)

Routes == DOMAIN routes

GenerateSpec ==
  /\ doc' = GeneratePaths([i \in Routes |-> Described(routes[i])])
  /\ UNCHANGED routes

DocInit == routes \in Setups /\ doc = NoDocument

DocSpec == DocInit /\ [][GenerateSpec]_<<routes, doc>>

-----------------------------------------------------------------------------
(* What may be described under a name. Nothing in the code makes sure that *)
(* names tell apart what they are used for.                                *)

ParamsTaken(route) == {p \in {ParamsOf(route)[k] : k \in DOMAIN ParamsOf(route)} : p.kind \notin Undescribed}

\* the schemas of a route, with the names they are described under
SchemasNamed(route) ==
  {<<TypeName(p.type, p.name), SchemaOf(route, p.type, FALSE)>> : p \in ParamsTaken(route)}
    \cup (IF HasBody(route) THEN {<<BodyName, SchemaOf(route, route.bodyType, FALSE)>>} ELSE {})
    \cup {<<TypeName(route.response, route.view.name), SchemaOf(route, route.response, TRUE)>>}

AllOf(rs) == {Described(rs[i]) : i \in DOMAIN rs}

ASSUME SetupsAssumption ==
  \A rs \in Setups : /\ Len(rs) \in Nat /\ DOMAIN rs = 1 .. Len(rs)
                     /\ \A d \in AllOf(rs) : LET ps == ParamsOf(d) IN Len(ps) \in Nat /\ DOMAIN ps = 1 .. Len(ps)

\* what names may mean in the document of some routes
SchemaMeans(rs) == {<<u[1], Inline(u[2])>> : u \in UNION {SchemasNamed(d) : d \in AllOf(rs)}}

\* A schema is described: as it is, or as another one of its name.
DescribedAs(means, name, schema, c) == c = Inline(schema) \/ (name # "" /\ <<name, c>> \in means)

\* the parameters of all routes, with their routes
ParamsAmong(rs) == {x \in AllOf(rs) \X UNION {ParamsTaken(d) : d \in AllOf(rs)} : x[2] \in ParamsTaken(x[1])}

\* parameters that are kept and looked for under the same names
Alike(p, q) == p.name = q.name /\ Lookup(p) = Lookup(q)

\* No other parameter is looked for by the name that this one is kept under, or kept under
\* the name that this one is looked for by.
OnItsOwn(rs, p) ==
  \A x \in ParamsAmong(rs) : Lookup(x[2]) = p.name \/ x[2].name = Lookup(p) => Alike(x[2], p)

\* a name that parameters are both kept under and looked for by, or neither
Clear(rs, n) == \A x \in ParamsAmong(rs) : Lookup(x[2]) = n <=> x[2].name = n

-----------------------------------------------------------------------------
(* Properties.                                                             *)

\* What a place has, or has the name of, is in the part, and is no reference.
Resolves(part, place) ==
  /\ place \in DOMAIN part.heap
  /\ IsRef(part.heap[place]) => LET name == part.heap[place].ref
                                IN name \in DOMAIN part.common /\ ~IsRef(part.common[name])
Content(part, place) ==
  IF IsRef(part.heap[place]) THEN part.common[part.heap[place].ref] ELSE part.heap[place]

\* the components of the document by the names of their sections, and whether a reference is
\* to something in them as it is written
Components == [schemas |-> doc.schemas.common, parameters |-> doc.params.common]
Found(reference) == reference.section \in DOMAIN Components /\ reference.ref \in DOMAIN Components[reference.section]

\* A reference to a schema has the name of one in the components that is no reference itself,
\* but its path is that of no section ("schema", where the section is "schemas"), so that it is
\* found by none that follows it. One to a parameter is found there, and is no reference, when
\* parameters are looked for by that name that are kept under it, and only those. A parameter that
\* is described in its place has a schema (openapi3.go getOrGenerateSchema, convertParam).
NothingDangles ==
  /\ \A k \in DOMAIN doc.schemas.heap :
       Resolves(doc.schemas, k) /\ (IsRef(doc.schemas.heap[k]) => ~Found(doc.schemas.heap[k]))
  /\ \A k \in DOMAIN doc.params.heap :
       LET c == doc.params.heap[k]
       IN IF IsRef(c) THEN Clear(routes, c.ref) => Resolves(doc.params, k) /\ Found(c) ELSE c.schema \in DOMAIN doc.schemas.heap

\* the routes with an operation in the document: those that are the last of their URI
Documented(i) ==
  /\ doc # NoDocument /\ Described(routes[i]).method \in {"GET", "POST"}
  /\ \A k \in Routes : k > i => Described(routes[k]).uri # Described(routes[i]).uri
Operation(i) == doc.paths[Described(routes[i]).uri][Described(routes[i]).method]

\* a place of a schema has the one of a type, or another one of its name
Says(place, name, schema) ==
  Resolves(doc.schemas, place) /\ DescribedAs(SchemaMeans(routes), name, schema, Content(doc.schemas, place))

\* a place of a parameter has it, or one that is kept and looked for under the same names
ParamSays(place, p) ==
  /\ Resolves(doc.params, place)
  /\ LET param == Content(doc.params, place)
     IN \E x \in ParamsAmong(routes) :
          /\ Alike(x[2], p) /\ param.name = Lookup(p) /\ param.in = x[2].kind
          /\ Says(param.schema, TypeName(x[2].type, x[2].name), SchemaOf(x[1], x[2].type, FALSE))

\* Wherever a schema or a parameter is described, once or again, what it refers to by name
\* describes it, or another one that is described under the same name: no schema is taken for
\* one of another name, and no parameter for another, as long as none is looked for by the name
\* another is kept under (openapi3.go getOrGenerateSchema, convertParam, requestBody).
ReferencesResolve ==
  \A i \in Routes : Documented(i) =>
    LET op == Operation(i)
        d  == Described(routes[i])
        ps == ParamsOf(d)
    IN /\ d.uri \in DOMAIN doc.paths /\ DOMAIN doc.paths[d.uri] = {d.method}
       /\ Says(op.success, TypeName(d.response, d.view.name), SchemaOf(d, d.response, TRUE))
       /\ IF HasBody(d) THEN Says(op.body, BodyName, SchemaOf(d, d.bodyType, FALSE)) ELSE op.body = None
       /\ DOMAIN op.params = DOMAIN ps
       /\ \A k \in DOMAIN ps :
            IF ps[k].kind \in Undescribed THEN op.params[k] = None
            ELSE op.params[k] \in DOMAIN doc.params.heap /\ (OnItsOwn(routes, ps[k]) => ParamSays(op.params[k], ps[k]))

\* The document of routes has what it refers to, and describes them.
DocumentTrue == NothingDangles /\ ReferencesResolve
=============================================================================
