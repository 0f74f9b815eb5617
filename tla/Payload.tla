------------------------------- MODULE Payload -------------------------------
(***************************************************************************)
(* The JSON a route writes and reads (router/marshal/json), and the tree   *)
(* of a view that refers to itself. A value of Go is a record whose field  *)
(* "go" tells what it is, JSON one whose field "json" does; a scalar is a  *)
(* string. A path is a sequence of names of fields. A key is a word and    *)
(* the way it is written.                                                  *)
(***************************************************************************)
EXTENDS Integers, Sequences, FiniteSets, SequencesExt, TLC

CONSTANTS
  Compound,    \* the words of several parts: with underscores they are other text
  WordBits     \* the width of int

Nil == [go |-> "nil"]
Null == [json |-> "null"]
Object(pairs) == [json |-> "object", pairs |-> pairs]
Array(items) == [json |-> "array", items |-> items]
NoIndex == [holder |-> "", flags |-> {}]
Scalars == {"number", "text"}

RECURSIVE Deref(_)
Deref(type) == IF type.kind = "ptr" THEN Deref(type.elem) ELSE type

NamesOf(type) == {type.fields[i].name : i \in DOMAIN type.fields}
TypeOf(type, name) == type.fields[CHOOSE i \in DOMAIN type.fields : type.fields[i].name = name].type

\* what a pointer points to: keys are told by it too (normalizeKey)
Pointed(value) == IF value.go = "ptr" THEN value.to ELSE value

\* a field of a value, by the structs it is embedded in
RECURSIVE Get(_, _), Put(_, _, _)
Get(value, access) == IF access = <<>> THEN value ELSE Get(value.fields[Head(access)], Tail(access))
Put(value, access, with) ==
  IF access = <<>> THEN with
  ELSE [value EXCEPT !.fields[Head(access)] = Put(@, Tail(access), with)]

-----------------------------------------------------------------------------
(* Marshallers of the fields of a struct.                                  *)

\* formatName, or the name of the tag
Name(config, field) ==
  IF field.tag # "" THEN [word |-> field.tag, style |-> "Tag"] ELSE [word |-> field.name, style |-> config.case]

Exact(key) == <<key.word, IF key.style = "Tag" THEN "UpperCamel" ELSE key.style>>
Folded(key) == <<key.word, key.style = "Underscore" /\ key.word \in Compound>>

Marshaller(config, path, f) ==
  [name |-> f.name, json |-> Name(config, f), path |-> Append(path, f.name), access |-> <<f.name>>,
   type |-> f.type, omit |-> f.omit \/ config.omit, default |-> f.default, index |-> NoIndex]

\* Mutant: fields are known by their names alone.
MarshallerUnnested(config, path, f) == [Marshaller(config, path, f) EXCEPT !.path = <<f.name>>]

\* newFieldMarshaller
NewFieldMarshaller(config, path, f) == Marshaller(config, path, f)

\* structMarshallers: one for each field that is shown, those of embedded structs
\* among them; a field with the tag presenceIndex belongs to all of them.
RECURSIVE StructMarshallers(_, _, _)
StructMarshallers(struct, config, path) ==
  LET Embedded(f) == LET inner == StructMarshallers(f.type, config, path)
                     IN [k \in DOMAIN inner |-> [inner[k] EXCEPT !.access = <<f.name>> \o @]]
      Of(f) == CASE f.embedded                        -> Embedded(f)
                 [] f.hidden \/ f.type.kind = "index" -> <<>>
                 [] OTHER                             -> <<NewFieldMarshaller(config, path, f)>>
      shown == FlattenSeq([i \in DOMAIN struct.fields |-> Of(struct.fields[i])])
      index == SelectSeq(struct.fields, LAMBDA f : f.type.kind = "index")
  IN IF index = <<>> THEN shown
     ELSE [k \in DOMAIN shown |-> [shown[k] EXCEPT !.index = [holder |-> Last(index).name, flags |-> Last(index).type.flags]]]

-----------------------------------------------------------------------------
(* Zero values. A pointer to what cannot be compared is never zero.        *)

RECURSIVE Comparable(_), Zero(_)
Comparable(type) ==
  CASE type.kind = "slice"  -> FALSE
    [] type.kind = "struct" -> \A n \in NamesOf(type) : Comparable(TypeOf(type, n))
    [] OTHER                -> TRUE

Zero(type) ==
  CASE type.kind = "number" -> [go |-> "number", val |-> "0"]
    [] type.kind = "text"   -> [go |-> "text", val |-> ""]
    [] type.kind = "slice"  -> [go |-> "slice", items |-> <<>>]
    [] type.kind = "struct" -> [go |-> "struct", fields |-> [n \in NamesOf(type) |-> Zero(TypeOf(type, n))]]
    [] OTHER                -> Nil

\* isZeroValue
IsZero(type, value) ==
  IF type.kind = "ptr" THEN Comparable(type.elem) /\ value = Nil
  ELSE (Comparable(type) \/ type.kind = "slice") /\ value = Zero(type)

-----------------------------------------------------------------------------
(* Writing. A marshaller has an id (the fields and types on the way to     *)
(* it), the path and the type of its values. Those of the values of        *)
(* interfaces are made when the first one of a type is met and are kept:   *)
(* "known" has their paths. A nil in a field of an interface is not        *)
(* written: it would stop the request.                                     *)

\* isExcluded
IsExcluded(env, filter, f) ==
  \/ f.path \in env.config.exclude
  \/ filter \in DOMAIN env.filters /\ f.name \notin env.filters[filter]

\* appendInt, appendFloat, stringMarshaller: a zero is written as its default
Scalar(type, default, value) ==
  [json |-> type.kind, val |-> IF value = Zero(type) /\ default # "" THEN default ELSE value.val]

\* a pointer that is nil
NoValue(type, default) == IF default = "" THEN Null ELSE [json |-> Deref(type).kind, val |-> default]

\* Mutant: the marshallers of all types are kept in one place.
CachedOnce(known, m, path, type) ==
  LET id == m.id \o <<"interface">>
  IN [id |-> id, known |-> IF id \in DOMAIN known THEN known ELSE known @@ (id :> path)]

\* interfaceMarshaller: the marshaller of a type, made with the path it is met at
Cached(known, m, path, type) ==
  LET id == m.id \o <<"interface", type.name>>
  IN [id |-> id, known |-> IF id \in DOMAIN known THEN known ELSE known @@ (id :> path)]

RECURSIVE MarshalObject(_, _, _, _, _), MarshalSlice(_, _, _, _, _), Marshal(_, _, _, _, _)

\* a field or item w that was written, after others
AppendField(acc, f, w) == [pairs |-> Append(acc.pairs, [key |-> f.json, val |-> w.json]), known |-> w.known]
AppendItem(acc, w) == [items |-> Append(acc.items, w.json), known |-> w.known]
ObjectOf(all) == [json |-> Object(all.pairs), known |-> all.known]
ArrayOf(all) == [json |-> Array(all.items), known |-> all.known]

\* marshalObject: the fields of marshaller m, with the filter of a path
MarshalObject(m, filter, value, env, known) ==
  LET fields == StructMarshallers(m.type, env.config, m.path)
      shown  == SelectSeq(fields, LAMBDA f : /\ ~IsExcluded(env, filter, f)
                                             /\ ~(f.omit /\ IsZero(f.type, Get(value, f.access))))
      Step(acc, f) == AppendField(acc, f, Marshal([m EXCEPT !.path = f.path], f, Get(value, f.access), env, acc.known))
  IN ObjectOf(FoldLeft(Step, [pairs |-> <<>>, known |-> known], shown))

\* asSlice: structs are written by the marshaller of their type; everything else by
\* that of a field without a path.
MarshalSlice(m, filter, value, env, known) ==
  LET elem == Deref(m.type)
      temp == [name |-> "TEMP", type |-> m.type, default |-> ""]
      Item(item, k) ==
        IF elem.kind # "struct" THEN Marshal([m EXCEPT !.path = <<>>], temp, item, env, k)
        ELSE IF item = Nil THEN [json |-> Null, known |-> k]
        ELSE MarshalObject([m EXCEPT !.type = elem], filter, Pointed(item), env, k)
      Step(acc, item) == AppendItem(acc, Item(item, acc.known))
  IN ArrayOf(FoldLeft(Step, [items |-> <<>>, known |-> known], value.items))

\* getMarshalFunctions: what field f of the marshaller m is written as
Marshal(m, f, value, env, known) ==
  CASE f.type.kind \in Scalars -> [json |-> Scalar(f.type, f.default, value), known |-> known]
    [] f.type.kind = "ptr" -> IF value = Nil THEN [json |-> NoValue(f.type, f.default), known |-> known]
                              ELSE Marshal(m, [f EXCEPT !.type = @.elem], value.to, env, known)
    [] f.type.kind = "slice" -> MarshalSlice([id |-> Append(m.id, f.name), path |-> m.path, type |-> f.type.elem], m.path, value, env, known)
    [] f.type.kind = "iface" /\ value.type.kind \in Scalars -> [json |-> [json |-> value.type.kind, val |-> value.val.val], known |-> known]
    [] f.type.kind = "struct" \/ (f.type.kind = "iface" /\ value.type.kind = "struct") ->
         LET static == f.type.kind = "struct"
             type   == IF static THEN f.type ELSE value.type
             c      == IF static THEN [id |-> Append(m.id, f.name), known |-> known] ELSE Cached(known, m, m.path, type)
             path   == IF static THEN m.path ELSE c.known[c.id]
         IN MarshalObject([id |-> c.id, path |-> path, type |-> type], m.path, IF static THEN value ELSE value.val, env, c.known)

\* Marshaller.Marshal: a struct of the type of the marshaller, or a slice of them
MarshalRoot(type, value, env, known) ==
  LET root == [id |-> <<>>, path |-> <<>>, type |-> type]
  IN CASE value = Nil        -> [json |-> Null, known |-> known]
       [] value.go = "slice" -> MarshalSlice(root, <<>>, value, env, known)
       [] OTHER              -> MarshalObject([root EXCEPT !.type = Deref(type)], <<>>, Pointed(value), env, known)

-----------------------------------------------------------------------------
(* Reading (the decoder of gojay asks for a field by each key).            *)

\* Mutant: a key is the name of a field only.
ByPath(fields, key) ==
  LET byPath == {i \in DOMAIN fields : fields[i].path = <<key.word>> /\ Exact(key)[2] = "UpperCamel"}
  IN IF byPath = {} THEN <<>> ELSE <<fields[CHOOSE i \in byPath : \A k \in byPath : k <= i]>>

\* marshalerByName: by the path of the field as it is, else by the name it is written
\* with, in any case; below the root only the latter, as paths are longer there.
ByName(fields, key) ==
  LET byPath == {i \in DOMAIN fields : fields[i].path = <<key.word>> /\ Exact(key)[2] = "UpperCamel"}
      byJson == {i \in DOMAIN fields : Folded(fields[i].json) = Folded(key)}
  IN CASE byPath # {} -> <<fields[CHOOSE i \in byPath : \A k \in byPath : k <= i]>>
       [] byPath = {} /\ byJson # {} -> <<fields[CHOOSE i \in byJson : \A k \in byJson : i <= k]>>
       [] OTHER -> <<>>

\* Mutant: a field that is null is no field that was sent.
UpdatePresenceUnlessNull(f, value, json) ==
  IF f.index = NoIndex \/ f.name \notin f.index.flags \/ json = Null THEN value
  ELSE [value EXCEPT !.fields[f.index.holder] = [go |-> "index", set |-> {f.name} \cup (IF @ = Nil THEN {} ELSE @.set)]]

\* updatePresenceIfNeeded
UpdatePresence(f, value, json) ==
  IF f.index = NoIndex \/ f.name \notin f.index.flags THEN value
  ELSE [value EXCEPT !.fields[f.index.holder] = [go |-> "index", set |-> {f.name} \cup (IF @ = Nil THEN {} ELSE @.set)]]

RECURSIVE UnmarshalObject(_, _, _, _, _), Unmarshal(_, _, _, _, _)

\* UnmarshalJSONObject for each key, until as many were known as there are fields
UnmarshalObject(type, config, path, into, pairs) ==
  LET fields == StructMarshallers(type, config, path)
      Field(acc, pair, f) ==
        LET read == Unmarshal(f.type, config, f.path, Get(acc.value, f.access), pair.val)
        IN [value |-> UpdatePresence(f, Put(acc.value, f.access, read), pair.val), done |-> acc.done + 1]
      Step(acc, pair) ==
        LET found == ByName(fields, pair.key)
        IN IF acc.done = Len(fields) \/ found = <<>> THEN acc ELSE Field(acc, pair, found[1])
  IN FoldLeft(Step, [value |-> into, done |-> 0], pairs).value

\* the unmarshallers of getMarshalFunctions; what is read into an interface goes to
\* a variable of its own
Unmarshal(type, config, path, into, json) ==
  CASE json # Null /\ type.kind \in Scalars -> [go |-> type.kind, val |-> json.val]
    [] json # Null /\ type.kind = "ptr" ->
         [go |-> "ptr", to |-> Unmarshal(type.elem, config, path, IF into = Nil THEN Zero(type.elem) ELSE into.to, json)]
    [] json # Null /\ type.kind = "struct" -> UnmarshalObject(type, config, path, into, json.pairs)
    [] json # Null /\ type.kind = "slice" ->
         LET Item(item) == IF type.elem.kind = "ptr" THEN [go |-> "ptr", to |-> Unmarshal(type.elem.elem, config, path, Zero(type.elem.elem), item)]
                           ELSE Unmarshal(type.elem, config, path, Zero(type.elem), item)
         IN [into EXCEPT !.items = @ \o [i \in DOMAIN json.items |-> Item(json.items[i])]]
    [] OTHER -> into

\* Mutant: a key is looked for as it is written.
KeysOfExact(json, word) ==
  {i \in DOMAIN json.pairs : Exact(json.pairs[i].key) = Exact([word |-> word, style |-> "UpperCamel"])}

\* checkCaseInsensitive
KeysOf(json, word) ==
  {i \in DOMAIN json.pairs : Folded(json.pairs[i].key) = Folded([word |-> word, style |-> "UpperCamel"])}

\* hasBodyPart: every segment of the path is a key of the object before it
RECURSIVE HasBodyPart(_, _)
HasBodyPart(json, path) ==
  \/ path = <<>>
  \/ /\ json.json = "object"
     /\ \E i \in KeysOf(json, Head(path)) : HasBodyPart(json.pairs[i].val, Tail(path))

\* extractBody: the part of what was read, if its keys were sent
ExtractBody(value, json, path) == IF HasBodyPart(json, path) THEN <<Get(value, path)>> ELSE <<>>

-----------------------------------------------------------------------------
(* BuildTree, on the positions of rows: each row is put under its parent,  *)
(* and the parent under its own, until a row was there already.            *)

\* the position of the last row with a key, or 0
At(rows, key) ==
  LET same == {i \in DOMAIN rows : Pointed(rows[i].fields["Id"]) = key}
  IN IF same = {} THEN 0 ELSE CHOOSE i \in same : \A k \in same : k <= i
ParentAt(rows, i) == At(rows, Pointed(rows[i].fields["Parent"]))

\* Mutant: a parent gets one child.
RECURSIVE ClimbOnce(_, _, _)
ClimbOnce(rows, node, tree) ==
  LET parent == ParentAt(rows, node)
  IN IF parent = 0 \/ parent \in tree.added THEN tree
     ELSE ClimbOnce(rows, parent, [kids |-> [tree.kids EXCEPT ![parent] = Append(@, node)], added |-> tree.added \cup {parent}])

\* A child that was added is told by its key and that of its grandparent, or of the
\* first row when there is none.
RECURSIVE Climb(_, _, _)
Climb(rows, node, tree) ==
  LET parent == ParentAt(rows, node)
      grand  == IF parent = 0 \/ ParentAt(rows, parent) = 0 THEN 1 ELSE ParentAt(rows, parent)
      mark   == <<Pointed(rows[grand].fields["Id"]), Pointed(rows[node].fields["Id"])>>
  IN IF parent = 0 \/ mark \in tree.added THEN tree
     ELSE Climb(rows, parent, [kids |-> [tree.kids EXCEPT ![parent] = Append(@, At(rows, mark[2]))],
                               added |-> tree.added \cup {mark}])

RECURSIVE NodeAt(_, _, _, _)
NodeAt(rows, kids, type, i) ==
  [rows[i] EXCEPT !.fields["Children"] = [go |-> "slice", items |->
     [k \in DOMAIN kids[i] |-> [go |-> "iface", type |-> type, val |-> NodeAt(rows, kids, type, kids[i][k])]]]]

\* the rows without a parent, each with its tree
BuildTree(rows, type) ==
  LET tree  == FoldLeft(LAMBDA t, i : Climb(rows, i, t), [kids |-> [i \in DOMAIN rows |-> <<>>], added |-> {}], [i \in DOMAIN rows |-> i])
      roots == SelectSeq([i \in DOMAIN rows |-> i], LAMBDA i : ParentAt(rows, i) = 0)
  IN [k \in DOMAIN roots |-> NodeAt(rows, tree.kids, type, roots[k])]

-----------------------------------------------------------------------------
(* converter.Convert: what the text of a parameter, or a body, becomes.    *)

Converted(value) == [ok |-> TRUE, val |-> value]
NotConverted == [ok |-> FALSE, val |-> Nil]

\* Mutant: what does not fit is cut off whatever the sign.
Unsigned(n, type) == n % 2 ^ type.bits

\* a number in the width of a type
Wrap(n, type) ==
  LET low == n % 2 ^ type.bits
  IN IF type.signed /\ low >= 2 ^ (type.bits - 1) THEN low - 2 ^ type.bits ELSE low

IsWord(n) == n >= -(2 ^ (WordBits - 1)) /\ n < 2 ^ (WordBits - 1)

Convert(raw, type, config) ==
  CASE type.kind = "int" /\ raw.is = "empty"                       -> Converted(0)
    [] type.kind = "int" /\ raw.is = "number" /\ IsWord(raw.n)      -> Converted(Wrap(raw.n, type))
    [] type.kind = "string"                                        -> Converted(raw)
    [] type.kind = "bool" /\ raw.is = "word" /\ raw.n \in {0, 1}    -> Converted(raw.n = 1)
    [] type.kind \in {"struct", "ptr", "slice"} /\ raw.is = "empty" -> Converted(Zero(type))
    [] type.kind \in {"struct", "ptr", "slice"} /\ raw.is = "json"  -> Converted(Unmarshal(type, config, <<>>, Zero(type), raw.json))
    [] OTHER                                                       -> NotConverted
=============================================================================
