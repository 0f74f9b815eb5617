------------------------------ MODULE Exchange ------------------------------
(***************************************************************************)
(* What routes answer and take, one request after another: rows that were  *)
(* read become a body, a body that was sent becomes the state of an        *)
(* executor and is written back, parameters are converted, and the         *)
(* document of the routes is generated. The marshallers of a route stay:   *)
(* those met in values of interfaces are in "known". Requests do not wait  *)
(* for each other, but meet in the marshallers only, where what one adds   *)
(* at once is there for all.                                               *)
(***************************************************************************)
EXTENDS OpenApi

CONSTANT
  Texts     \* what a client sends for a parameter

VARIABLES
  known,    \* by route: the paths of the marshallers made for values of interfaces
  last      \* the last exchange
vars == <<routes, known, last, doc>>

NoExchange == [op |-> "none", route |-> 0, in |-> <<>>, out |-> Null, status |-> 0]
NoBody == [json |-> "none"]

-----------------------------------------------------------------------------
(* Declarations of routes.                                                 *)

\* ResponseStatus
StatusType ==
  LET Field(name, type) == [name |-> name, type |-> type, tag |-> "", omit |-> TRUE, default |-> "", embedded |-> FALSE, hidden |-> FALSE]
  IN [kind |-> "struct", name |-> "ResponseStatus", registered |-> FALSE,
      fields |-> <<Field("Status", [kind |-> "text"]), Field("Message", [kind |-> "iface"])>>]
ErrorType ==
  [kind |-> "struct", name |-> "Error", registered |-> FALSE,
   fields |-> <<[name |-> "Message", type |-> [kind |-> "text"], tag |-> "", omit |-> FALSE, default |-> "", embedded |-> FALSE, hidden |-> FALSE]>>]

\* addPrefixFieldIfNeeded, jsonConfig
JsonConfig(r) ==
  [case |-> r.case, omit |-> r.omit, exclude |-> IF r.field = "" THEN r.exclude ELSE {<<r.field>> \o p : p \in r.exclude}]
\* responseFieldType
ResponseFieldType(r) == IF r.cardinality = "Many" THEN [kind |-> "slice", elem |-> r.view.type] ELSE Deref(r.view.type)

RECURSIVE TypeAt(_, _)
TypeAt(type, path) == IF path = <<>> THEN type ELSE TypeAt(TypeOf(type, Head(path)), Tail(path))

\* initStyle, responseType
ResponseType(r) ==
  CASE r.field # "" ->
         LET Field(name, type, embedded) == [name |-> name, type |-> type, tag |-> "", omit |-> FALSE, default |-> "", embedded |-> embedded, hidden |-> FALSE]
         IN [kind |-> "struct", name |-> "Response", registered |-> FALSE,
             fields |-> <<Field("ResponseStatus", StatusType, TRUE), Field(r.field, ResponseFieldType(r), FALSE)>>]
    [] r.field = "" /\ r.bodyType.kind # "none" -> TypeAt(r.bodyType, r.responds)
    [] OTHER -> r.view.type

\* what is described of a route
RouteDescribed(r) == [method |-> r.method, uri |-> r.uri, view |-> r.view, bodyType |-> r.bodyType,
                      response |-> ResponseType(r), config |-> JsonConfig(r)]

\* wrapWithResponseIfNeeded, setResponseStatus
Wrapped(r, status, message, body) ==
  IF r.field = "" THEN body
  ELSE [go |-> "struct",
        fields |-> ("ResponseStatus" :> [go |-> "struct", fields |-> ("Status" :> [go |-> "text", val |-> status]) @@ ("Message" :> message)])
                   @@ (r.field :> body)]

-----------------------------------------------------------------------------
(* Exchanges.                                                              *)

\* Mutant: a view is told by its path without the envelope.
BuildJsonFiltersBare(r, asked) == asked

\* buildJsonFilters: the fields that were asked for, by the path of their view
BuildJsonFilters(r, asked) ==
  LET PathOf(p) == IF r.field = "" THEN p ELSE <<r.field>> \o p
  IN [path \in {PathOf(p) : p \in DOMAIN asked} |-> asked[CHOOSE p \in DOMAIN asked : PathOf(p) = path]]
ErrorFilters == <<>> :> {"Status", "Message"}

\* the rows of a view as the items of its slice; those of a tree are its roots
ItemsOf(r, rows) ==
  LET kept == IF r.self THEN BuildTree(rows, Deref(r.view.type)) ELSE rows
  IN [i \in DOMAIN kept |-> IF r.view.type.kind = "ptr" THEN [go |-> "ptr", to |-> kept[i]] ELSE kept[i]]

\* what is written: its status, and a value or none
Body(status, value, filters) == [status |-> status, value |-> <<value>>, filters |-> filters]
Bare(status) == [status |-> status, value |-> <<>>, filters |-> <<>>]

\* Mutant: the status of an error is not written.
WriteErrOnly(r, status) == Bare(0)

\* writeErr: without an envelope another encoder writes the error
WriteErr(r, status) ==
  IF r.field = "" THEN Bare(status)
  ELSE LET message == [go |-> "iface", type |-> ErrorType, val |-> [go |-> "struct", fields |-> ("Message" :> [go |-> "text", val |-> "failed"])]]
       IN Body(status, Wrapped(r, "error", message, Zero(ResponseFieldType(r))), ErrorFilters)

\* result: Many rows, or one row, or none and not found
Result(r, rows, filters) ==
  LET items == ItemsOf(r, rows)
      Of(value) == Body(200, Wrapped(r, "ok", Nil, value), filters)
      One(item) == IF r.field # "" /\ item.go = "ptr" THEN item.to ELSE item
  IN CASE r.cardinality = "Many"                     -> Of([go |-> "slice", items |-> items])
       [] r.cardinality = "One" /\ Len(items) = 0    -> Bare(404)
       [] r.cardinality = "One" /\ Len(items) = 1    -> Of(One(items[1]))
       [] OTHER                                      -> WriteErr(r, 500)

\* what a route writes for it, when the marshallers k are kept
Write(r, body, k) ==
  IF body.value = <<>> THEN [json |-> NoBody, known |-> k]
  ELSE MarshalRoot(ResponseType(r), body.value[1], [config |-> JsonConfig(r), filters |-> body.filters], k)

Reply(i, op, in, body) ==
  LET w == Write(routes[i], body, known[i])
  IN /\ last = NoExchange
     /\ known' = [known EXCEPT ![i] = w.known]
     /\ last' = [op |-> op, route |-> i, in |-> in, out |-> w.json, status |-> body.status]
     /\ UNCHANGED <<routes, doc>>

\* A route that reads: readAndWriteResponse, marshalResult.
Answer ==
  \E i \in Routes : \E rows \in routes[i].tables, asked \in routes[i].asks :
    Reply(i, "answer", [rows |-> rows, asked |-> asked], Result(routes[i], rows, BuildJsonFilters(routes[i], asked)))

\* A request that is refused before its view is read.
Refuse == \E i \in Routes : Reply(i, "refuse", <<>>, WriteErr(routes[i], 400))

ParseRequestBody(r, raw) == Convert(raw, r.bodyType, JsonConfig(r))

\* A route that executes: the parts of its body its parameters take, Exec,
\* and what its ResponseBody selects of the state. A part that was not sent is zero there.
Receive ==
  \E i \in Routes : \E raw \in routes[i].bodies :
    LET r == routes[i]
        read == ParseRequestBody(r, raw)
        Taken(p) == ExtractBody(read.val, raw.json, p)
        part == Taken(r.responds)
        state == IF part = <<>> THEN Zero(ResponseType(r)) ELSE part[1]
        answer == IF read.ok THEN Body(200, state, <<>>) ELSE WriteErr(r, 400)
    IN Reply(i, "receive", [raw |-> raw, val |-> read.val, taken |-> IF read.ok THEN {p \in r.parts : Taken(p) # <<>>} ELSE {}], answer)

\* A parameter of a query: convertAndSet. What is empty is not set.
TakeParam ==
  \E i \in Routes : \E n \in DOMAIN routes[i].view.params : \E raw \in Texts :
    LET type == routes[i].view.params[n].type
        value == Convert(raw, type, JsonConfig(routes[i]))
    IN /\ raw.is # "empty" /\ last = NoExchange
       /\ last' = [op |-> "param", route |-> i, in |-> [raw |-> raw, type |-> type], out |-> value.val, status |-> IF value.ok THEN 200 ELSE 400]
       /\ UNCHANGED <<routes, known, doc>>

Describe ==
  /\ last = NoExchange
  /\ GenerateSpec
  /\ UNCHANGED <<known, last>>

Init ==
  /\ DocInit
  /\ known = [i \in DOMAIN routes |-> <<>>]
  /\ last = NoExchange

\* A client has its answer: the next exchange can begin, with what this one left.
Deliver == last # NoExchange /\ last' = NoExchange /\ UNCHANGED <<routes, known, doc>>

Next == Answer \/ Refuse \/ Receive \/ TakeParam \/ Describe \/ Deliver
Spec == Init /\ [][Next]_vars

-----------------------------------------------------------------------------
(* What answers have to be. Rows and bodies are told by the words of their *)
(* keys; how a key is written is in its style.                             *)

RECURSIVE Met(_, _, _), ObjectsAt(_, _), Nodes(_), Placed(_, _), Ends(_, _, _), ViewsOf(_, _), Agrees(_, _), Flagged(_, _, _, _), Conforms(_, _)

\* the objects that are reached over the keys of a path, through arrays
ObjectsAt(json, path) ==
  CASE json.json = "array"  -> UNION {ObjectsAt(json.items[i], path) : i \in DOMAIN json.items}
    [] json.json = "object" /\ path = <<>> -> {json}
    [] json.json = "object" /\ path # <<>> ->
         UNION {ObjectsAt(json.pairs[i].val, Tail(path)) : i \in {k \in DOMAIN json.pairs : json.pairs[k].key.word = Head(path)}}
    [] OTHER -> {}
WordsOf(object) == {object.pairs[i].key.word : i \in DOMAIN object.pairs}
ValueOf(object, word) == (CHOOSE p \in {object.pairs[i] : i \in DOMAIN object.pairs} : p.key.word = word).val

\* an object of a tree and those below it
Nodes(object) == {object} \cup UNION {Nodes(o) : o \in ObjectsAt(object, <<"Children">>)}

\* the objects of a view, of a tree its roots
RowsAt(r, path) == ObjectsAt(last.out, IF r.field = "" THEN path ELSE <<r.field>> \o path)
\* the objects below the roots of a tree: items that are no structs have no path, so that
\* they are written as if they were the answer itself, whatever envelope they are in
LowerRows(r) == IF r.self THEN UNION {Nodes(o) \ {o} : o \in RowsAt(r, <<>>)} ELSE {}

Answered == last.op = "answer" /\ last.status = 200
Answering == routes[last.route]

\* Types of what was exchanged: a reply has a status, and an operation of the document is
\* where its schemas are.
TypeOK ==
  /\ last.op \in {"none", "answer", "refuse", "receive", "param"}
  /\ last.op # "none" => last.route \in Routes /\ last.status \in {200, 400, 404, 500}
  /\ DOMAIN known = Routes
  /\ \A uri \in DOMAIN doc.paths : \A m \in DOMAIN doc.paths[uri] :
       LET op == doc.paths[uri][m]
       IN /\ op.success \in DOMAIN doc.schemas.heap /\ op.body \in {None} \cup DOMAIN doc.schemas.heap
          /\ \A i \in DOMAIN op.params : op.params[i] \in {None} \cup DOMAIN doc.params.heap

\* the fields of a struct, with those it embeds, and the word a field is written with
FieldsOf(type) == UNION {LET f == type.fields[i] IN IF f.embedded THEN {f.type.fields[k] : k \in DOMAIN f.type.fields} ELSE {f} : i \in DOMAIN type.fields}
Word(f) == IF f.tag = "" THEN f.name ELSE f.tag

\* The values of interfaces that are structs, in a value of a type: each with the marshaller
\* it is written by and the path it is met at. A place is a path with the marshallers of the
\* struct that is there and of what is in its field.
Met(at, type, value) ==
  CASE value = Nil -> {}
    [] value.go = "slice" ->
         LET elem  == IF type.kind = "slice" THEN type.elem ELSE type
             place == [in |-> at.id, id |-> at.id, path |-> IF Deref(elem).kind = "struct" THEN at.path ELSE <<>>]
         IN UNION {Met(place, elem, value.items[i]) : i \in DOMAIN value.items}
    [] value.go \in {"ptr", "struct"} /\ type.kind = "ptr" -> Met(at, type.elem, Pointed(value))
    [] value.go = "struct" /\ type.kind = "struct" ->
         LET fields == StructMarshallers(type, JsonConfig(Answering), at.path)
         IN UNION {Met([in |-> at.id, id |-> Append(at.id, fields[i].name), path |-> fields[i].path], fields[i].type, Get(value, fields[i].access)) :
                     i \in DOMAIN fields}
    [] value.go = "iface" /\ value.type.kind = "struct" ->
         LET id == at.in \o <<"interface", value.type.name>>
         IN {[id |-> id, path |-> at.path]} \cup Met([in |-> id, id |-> id, path |-> at.path], value.type, value.val)
    [] OTHER -> {}

\* all of them in the rows that a route reads
MetBy(r) ==
  UNION {Met([in |-> <<>>, id |-> <<>>, path |-> <<>>], ResponseType(r), value) :
           value \in UNION {ToSet(Result(r, rows, <<>>).value) : rows \in r.tables}}
\* those of a marshaller that is met at several paths
WithOthers(met) == {m \in met : \E n \in met : n.id = m.id /\ n.path # m.path}
MetTwice(r) == WithOthers(MetBy(r))
\* one path for each marshaller of them
OnePathEach(met) ==
  {k \in [{m.id : m \in met} -> {m.path : m \in met}] : \A id \in DOMAIN k : [id |-> id, path |-> k[id]] \in met}

\* What a route excludes is in no row of its answers, at the depth its path says and nowhere
\* else but there, whatever was asked for; in the lower rows of a tree what would be excluded
\* at the root is not there either. Values of one type in several fields of a struct share
\* the path of one of them: what is excluded in them is in AnswersRepeat (route.go Exclude,
\* marshal.go isExcluded).
ExcludedAbsent ==
  Answered =>
    LET excluded == JsonConfig(Answering).exclude
        twice    == {m.path : m \in MetTwice(Answering)}
        words    == [f \in FieldsOf(Deref(Answering.view.type)) |-> Word(f)]
        Words(p) == IF Len(p) > 1 THEN {Last(p)} ELSE {words[f] : f \in {g \in DOMAIN words : <<g.name>> = p}}
    IN /\ \A p \in Answering.exclude : ~(\E q \in twice : IsPrefix(q, IF Answering.field = "" THEN p ELSE <<Answering.field>> \o p)) =>
            \A o \in RowsAt(Answering, Front(p)) : Words(p) \cap WordsOf(o) = {}
       /\ \A o \in LowerRows(Answering) : \A p \in excluded : Len(p) = 1 => Words(p) \cap WordsOf(o) = {}

\* the views of a route with the paths of their rows
ViewsOf(view, path) ==
  {[path |-> path, type |-> Deref(view.type)]} \cup UNION {ViewsOf(view.with[i], Append(path, view.with[i].holder)) : i \in DOMAIN view.with}

\* An object has the fields that are not left out and were asked for, if any was: all of
\* those but for zeros that are omitted, and no other.
HasJust(o, type, Out(_), asked) ==
  LET wanted == {f \in FieldsOf(type) : ~f.hidden /\ ~Out(f) /\ (asked # {} => f.name \in asked)}
  IN /\ WordsOf(o) \subseteq {Word(f) : f \in wanted}
     /\ {Word(f) : f \in {g \in wanted : ~g.omit /\ ~Answering.omit}} \subseteq WordsOf(o)

\* A row has just the fields that were asked of its view, all of them when none was, but for
\* what is excluded there and zeros that are omitted. The lower rows of a tree have what the
\* answer itself would have: in an envelope everything, whatever was excluded or asked for
\* (buildJsonFilters, filterByPath, asSlice).
Projected ==
  Answered =>
    LET AskedOf(path) == IF path \in DOMAIN last.in.asked THEN last.in.asked[path] ELSE {}
    IN /\ \A v \in ViewsOf(Answering.view, <<>>) :
            LET Out(f) == Append(v.path, f.name) \in Answering.exclude
            IN \A o \in RowsAt(Answering, v.path) : HasJust(o, v.type, Out, AskedOf(v.path))
       /\ LET Out(f) == Answering.field = "" /\ <<f.name>> \in Answering.exclude
          IN \A o \in LowerRows(Answering) : HasJust(o, Deref(Answering.view.type), Out, IF Answering.field = "" THEN AskedOf(<<>>) ELSE {})

\* what the rows are written as by marshallers whose paths are k
Rewritten(k) == Write(Answering, Result(Answering, last.in.rows, BuildJsonFilters(Answering, last.in.asked)), k).json

\* What was answered before changes no answer: marshallers that are kept write what new ones
\* would. But where values of one type are met in several fields of a struct, they have the
\* path of one of them, all through the answer (marshal.go interfaceMarshaller, the cache of
\* types).
AnswersRepeat ==
  last.op = "answer" =>
    \E k \in {<<>>} \cup OnePathEach(MetTwice(Answering)) : last.out = Rewritten(k)

\* where the rows of a tree are: each with the one it is under
Placed(items, parent) ==
  LET Id(o) == ValueOf(o, "Id")
      Under(o) == Placed(ValueOf(o, "Children").items, Id(o))
  IN FlattenSeq([i \in DOMAIN items |-> <<[row |-> Id(items[i]), under |-> parent]>> \o Under(items[i])])

\* a row whose parents come to an end
Ends(rows, i, n) == ParentAt(rows, i) = 0 \/ (n > 0 /\ Ends(rows, ParentAt(rows, i), n - 1))

\* A row of a view that refers to itself is answered once, under its parent if that was read,
\* in whatever order rows were read; those in a circle are not (collector.go BuildTree).
TreeWhole ==
  Answered /\ Answering.self /\ DOMAIN last.in.asked = {} /\ Answering.exclude = {} /\ ~Answering.omit =>
    LET rows  == last.in.rows
        top   == IF Answering.field = "" THEN last.out ELSE ValueOf(last.out, Answering.field)
        tree  == Placed(top.items, Null)
        Of(i) == SelectSeq([k \in DOMAIN tree |-> tree[k]], LAMBDA t : t.row.val = rows[i].fields["Id"].val)
    IN \A i \in DOMAIN rows : Ends(rows, i, Len(rows)) =>
         /\ Len(Of(i)) = 1
         /\ LET under == Of(i)[1].under
            IN IF ParentAt(rows, i) = 0 THEN under = Null ELSE under # Null /\ under.val = rows[ParentAt(rows, i)].fields["Id"].val

\* the fields of embedded structs, each with its struct
Embedded(type) == UNION {LET f == type.fields[i] IN IF f.embedded THEN {<<f.name, f.type.fields[k].name>> : k \in DOMAIN f.type.fields} ELSE {} : i \in DOMAIN type.fields}

\* the words that are left out when they are zero, or because a field of an embedded struct
\* is excluded by its path in answers, which the document does not know
Optional ==
  LET type == Deref(Answering.view.type)
  IN {"Status", "Message"} \cup {f.name : f \in {g \in FieldsOf(type) : g.omit}} \cup {p[2] : p \in {q \in Embedded(type) : <<q[2]>> \in Answering.exclude}}

\* the words of fields of embedded structs that only the document leaves out: their paths
\* have the name of the struct there
Undocumented == {p[2] : p \in {q \in Embedded(Deref(Answering.view.type)) : q \in Answering.exclude}}

\* the key the document has for one of an answer: it does not know tags, so that a field
\* with one has the name it has in Go
Said(key) ==
  IF key.style # "Tag" THEN key
  ELSE [word |-> (CHOOSE f \in FieldsOf(Deref(Answering.view.type)) : f.tag = key.word).name, style |-> Answering.case]

\* an answer is of the form of a schema; rows of a route without an envelope are described
\* by the schema of one
Conforms(schema, json) ==
  CASE json.json = "null"   -> TRUE
    [] json.json = "array"  -> \A i \in DOMAIN json.items : Conforms(IF schema.type = "array" THEN schema.items ELSE schema, json.items[i])
    [] json.json = "object" /\ schema.type = "object" ->
         /\ \A p \in schema.props : p[1] \in {Said(json.pairs[i].key) : i \in DOMAIN json.pairs} \/ p[1].word \in Optional
         /\ \A i \in DOMAIN json.pairs :
              LET key == Said(json.pairs[i].key)
              IN (\E p \in schema.props : p[1] = key /\ Conforms(p[2], json.pairs[i].val)) \/ key.word \in Undocumented
    [] OTHER -> schema.type \in {json.json, "any"}

\* What a route answers is what its document says, field by field and no more: two walks over
\* the types, of the marshaller and of the generator, leave out and name the same. They do not
\* in two cases, which are answered as Said and Undocumented tell: the generator has no names
\* of tags, and excludes fields of embedded structs by other paths. A route whose answers are
\* described under the name of others' has the schema of one of them (ReferencesResolve).
DescribedAsAnswered ==
  Answered /\ DOMAIN last.in.asked = {} /\ Documented(last.route) /\ ~Answering.omit =>
    LET place  == Operation(last.route).success
        d      == Described(Answering)
        shared == \E u \in SchemaMeans(routes) : u[1] = TypeName(d.response, d.view.name) /\ u[2] # Inline(SchemaOf(d, d.response, TRUE))
    IN Resolves(doc.schemas, place) /\ ~shared => Conforms(Content(doc.schemas, place).schema, last.out)

\* An answer has the rows that were read, where they belong, with the fields that were asked for
\* and none that is excluded, and is what the document says.
RowsAnswered == TypeOK /\ ExcludedAbsent /\ Projected /\ TreeWhole /\ DescribedAsAnswered

Received == last.op = "receive" /\ last.status = 200
ShownOf(type) == {f \in FieldsOf(type) : ~f.hidden /\ f.type.kind # "index"}
KeyOf(f) == Name(JsonConfig(Answering), f)
KeysFor(json, f) == {i \in DOMAIN json.pairs : Folded(json.pairs[i].key) = Folded(KeyOf(f))}

\* a value that is written says what was sent: nulls aside
Agrees(sent, json) ==
  CASE sent.json = "null"   -> TRUE
    [] sent.json = "array"  -> json.json = "array" /\ Len(json.items) = Len(sent.items) /\ \A i \in DOMAIN sent.items : Agrees(sent.items[i], json.items[i])
    [] sent.json = "object" -> /\ json.json = "object"
                               /\ \A i \in DOMAIN json.pairs, k \in DOMAIN sent.pairs :
                                    Folded(json.pairs[i].key) = Folded(sent.pairs[k].key) => Agrees(sent.pairs[k].val, json.pairs[i].val)
    [] OTHER -> json = sent

\* A body that was read and is written back has each value under the key it was sent with, to
\* every depth, and no key is lost that the route would write (unmarshal.go, marshal.go).
Echoed ==
  Received /\ Answering.responds = <<>> /\ last.in.raw.is = "json" =>
    /\ Agrees(last.in.raw.json, last.out)
    /\ last.in.raw.json.json = "object" =>
         \A f \in ShownOf(Answering.bodyType) : KeysFor(last.in.raw.json, f) # {} => KeysFor(last.out, f) # {}

\* a name of a field of Go is a key at the root of a body
KeysOfField(json, f, top) ==
  KeysFor(json, f) \cup {i \in DOMAIN json.pairs : top /\ json.pairs[i].key = [word |-> f.name, style |-> "UpperCamel"]}

\* the flags of a struct are those of the keys that were sent for it, and so for the
\* structs in it
Flagged(type, value, json, top) ==
  json.json = "object" =>
    /\ \A index \in {f \in {type.fields[i] : i \in DOMAIN type.fields} : f.type.kind = "index"} :
         LET flags == value.fields[index.name]
         IN (IF flags = Nil THEN {} ELSE flags.set) = {f.name : f \in {g \in ShownOf(type) : g.name \in index.type.flags /\ KeysOfField(json, g, top) # {}}}
    /\ \A f \in ShownOf(type) : f.type.kind = "struct" =>
         \A i \in KeysOfField(json, f, top) : Flagged(f.type, value.fields[f.name], json.pairs[i].val, FALSE)

\* A field is flagged as sent when its key was, whatever its value, null too, and only then:
\* what tells a PATCH which columns to write (unmarshal.go updatePresenceIfNeeded).
PresentAsSent ==
  Received /\ last.in.raw.is = "json" => Flagged(Answering.bodyType, last.in.val, last.in.raw.json, TRUE)

\* The two readings of a body agree on what was sent: a parameter takes a part of it when the
\* decoder flagged that part, in whatever case its key was (selectors.go hasBodyPart against
\* unmarshal.go). Not so under an underscore case: see the README.
PartsAgree ==
  Received /\ last.in.raw.is = "json" /\ last.in.raw.json.json = "object" /\ Answering.case # "Underscore" =>
    \A index \in {f \in {Answering.bodyType.fields[i] : i \in DOMAIN Answering.bodyType.fields} : f.type.kind = "index"} :
      LET flags == last.in.val.fields[index.name]
      IN \A p \in Answering.parts : Len(p) = 1 /\ p[1] \in index.type.flags =>
           (p \in last.in.taken) = (p[1] \in IF flags = Nil THEN {} ELSE flags.set)

\* A number that fits the type of its parameter is what the parameter is; what is no number is
\* refused (converter.go Convert).
ParamsKept ==
  last.op = "param" /\ last.in.type.kind = "int" =>
    LET raw   == last.in.raw
        limit == 2 ^ (IF last.in.type.signed THEN last.in.type.bits - 1 ELSE last.in.type.bits)
    IN IF raw.is # "number" THEN last.status = 400
       ELSE raw.n < limit /\ raw.n >= (IF last.in.type.signed THEN -limit ELSE 0) /\ IsWord(raw.n) => last.status = 200 /\ last.out = raw.n

\* What was sent is what was read: values, the flags that say what was sent, the parts that
\* parameters take, and numbers of any width.
BodiesRead == Echoed /\ PresentAsSent /\ PartsAgree /\ ParamsKept
=============================================================================
