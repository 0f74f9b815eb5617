----------------------------- MODULE MCExchange -----------------------------
EXTENDS Exchange

Number == [kind |-> "number"]
Text == [kind |-> "text"]
AnyType == [kind |-> "iface"]
Ptr(type) == [kind |-> "ptr", elem |-> type]
Slice(type) == [kind |-> "slice", elem |-> type]
Field(name, type) == [name |-> name, type |-> type, tag |-> "", omit |-> FALSE, default |-> "", embedded |-> FALSE, hidden |-> FALSE]
Struct(name, registered, fields) == [kind |-> "struct", name |-> name, registered |-> registered, fields |-> fields]
Presence(flags) == [kind |-> "index", flags |-> flags]
IntType(bits, signed) == [kind |-> "int", bits |-> bits, signed |-> signed]
NoType == [kind |-> "none"]

N(n) == [go |-> "number", val |-> n]
S(s) == [go |-> "text", val |-> s]
P(value) == [go |-> "ptr", to |-> value]
L(items) == [go |-> "slice", items |-> items]
R(fields) == [go |-> "struct", fields |-> fields]
I(type, value) == [go |-> "iface", type |-> type, val |-> value]

View(name, type, params, with) == [name |-> name, type |-> type, params |-> params, builtIn |-> <<>>, with |-> with, holder |-> ""]
Param(name, inName, kind, type) == [name |-> name, inName |-> inName, kind |-> kind, type |-> type]
NothingAsked == {<<>>}
Reader(uri, view) ==
  [uri |-> uri, method |-> "GET", view |-> view, self |-> FALSE, cardinality |-> "Many", field |-> "", case |-> "LowerCamel", omit |-> FALSE,
   exclude |-> {}, bodyType |-> NoType, parts |-> {}, responds |-> <<>>, tables |-> {}, asks |-> NothingAsked, bodies |-> {}]

\* Rows with a struct, rows of a relation, an embedded struct, tags and defaults. What is
\* embedded is excluded by the path answers know it by, or by the one the document does.
Item == Struct("Item", FALSE, <<Field("Id", Number), Field("Note", Text)>>)
Vendor == Struct("Vendor", FALSE, <<Field("Id", Number), [Field("Note", Text) EXCEPT !.hidden = TRUE], Field("ZipCode", Text)>>)
Base == Struct("Base", FALSE, <<Field("Id", Number)>>)
Product ==
  Struct("Product", TRUE, <<[Field("Base", Base) EXCEPT !.embedded = TRUE], [Field("VendorId", Number) EXCEPT !.tag = "vendor_ref"], [Field("Note", Text) EXCEPT !.omit = TRUE],
                            [Field("Count", Ptr(Number)) EXCEPT !.default = "5"], Field("Vendor", Ptr(Vendor)), Field("Items", Slice(Ptr(Item)))>>)
Made(id, note, vendor, items) ==
  R(("Base" :> R("Id" :> N(id))) @@ ("VendorId" :> N("7")) @@ ("Note" :> S(note)) @@ ("Count" :> Nil) @@ ("Vendor" :> vendor) @@ ("Items" :> L(items)))
ItemOf(id) == P(R(("Id" :> N(id)) @@ ("Note" :> S("n"))))
VendorOf(id) == P(R(("Id" :> N(id)) @@ ("Note" :> S("")) @@ ("ZipCode" :> S("z"))))
Made1 == Made("1", "a", VendorOf("7"), <<ItemOf("4"), ItemOf("5")>>)
Made2 == Made("2", "", Nil, <<>>)
ItemsView == [View("items", Ptr(Item), <<Param("ItemSize", "size", "query", IntType(4, TRUE))>>, <<>>) EXCEPT !.holder = "Items"]
Products(params) == View("products", Ptr(Product), params, <<ItemsView>>)
Asked == {<<>>, <<>> :> {"Id", "Items"}, <<"Items">> :> {"Note"}, (<<>> :> {"Vendor", "Items", "Note"}) @@ (<<"Items">> :> {"Id"})}
Excludes == {{}, {<<"Note">>}, {<<"Items", "Note">>}, {<<"Vendor", "Id">>, <<"Count">>}, {<<"Id">>, <<"VendorId">>}, {<<"Base", "Id">>}}
ProductRoutes ==
  {<<[Reader("/products", Products(<<>>)) EXCEPT !.case = case, !.field = field, !.cardinality = cardinality, !.exclude = exclude,
                                                 !.omit = omit, !.asks = Asked, !.tables = {<<>>, <<Made1>>, <<Made2, Made1>>}]>> :
     case \in {"UpperCamel", "LowerCamel", "Underscore"}, field \in {"", "Data"}, cardinality \in {"One", "Many"}, exclude \in Excludes, omit \in BOOLEAN}

\* Values of interfaces.
Left == Struct("Left", FALSE, <<Field("Id", Number), Field("Note", Text)>>)
Right == Struct("Right", FALSE, <<Field("Id", Number), Field("Note", Text), Field("Deep", AnyType)>>)
Event == Struct("Event", TRUE, <<Field("Id", Number), Field("First", AnyType), Field("Second", AnyType), Field("List", Slice(AnyType))>>)
LeftOf(id) == R(("Id" :> N(id)) @@ ("Note" :> S("n")))
RightOf(id, deep) == R(("Id" :> N(id)) @@ ("Note" :> S("n")) @@ ("Deep" :> deep))
EventOf(first, second, list) == R(("Id" :> N("1")) @@ ("First" :> first) @@ ("Second" :> second) @@ ("List" :> L(list)))
Events ==
  {EventOf(I(Left, LeftOf("2")), I(Right, RightOf("3", I(Left, LeftOf("4")))), <<>>),
   EventOf(I(Text, S("x")), I(Right, RightOf("3", I(Number, N("0")))), <<I(Left, LeftOf("5"))>>),
   EventOf(I(Left, LeftOf("2")), I(Number, N("6")), <<I(Text, S("y")), I(Number, N("1"))>>)}
\* values of one type in two fields, which share the path of the one that was met first
TwoLeft == {EventOf(I(Left, LeftOf("2")), I(Left, LeftOf("3")), <<>>), EventOf(I(Number, N("6")), I(Left, LeftOf("4")), <<>>)}
EventRoutes ==
  {<<[Reader("/events", View("events", Ptr(Event), <<>>, <<>>)) EXCEPT !.exclude = exclude, !.field = field, !.tables = {<<e>> : e \in Events} \cup {<<e, d>> : e, d \in Events}]>> :
     exclude \in {{<<"First", "Note">>}, {<<"Second", "Note">>, <<"Second", "Deep", "Id">>}}, field \in {"", "Data"}}
  \cup {<<[Reader("/events", View("events", Ptr(Event), <<>>, <<>>)) EXCEPT !.exclude = exclude, !.field = field, !.tables = {<<e>> : e \in TwoLeft} \cup {<<e, d>> : e, d \in TwoLeft}]>> :
          exclude \in {{<<"First", "Note">>, <<"Id">>}, {<<"Second", "Note">>}}, field \in {"", "Data"}}

\* Rows of a view that refers to itself, in every order: a chain with two children at its
\* end, one whose parent was not read, two that are each other's parents.
Category == Struct("Category", TRUE, <<Field("Id", Number), Field("Parent", Ptr(Number)), Field("Note", Text), Field("Children", Slice(AnyType))>>)
Under(id, parent) == R(("Id" :> N(id)) @@ ("Parent" :> parent) @@ ("Note" :> S("n")) @@ ("Children" :> L(<<>>)))
Orders(rows) == LET n == Cardinality(rows) IN {f \in [1 .. n -> rows] : \A i, k \in 1 .. n : f[i] = f[k] => i = k}
Chain == {Under("1", Nil), Under("2", P(N("1"))), Under("3", P(N("2"))), Under("4", P(N("2")))}
Astray == {Under("1", P(N("9"))), Under("2", P(N("1"))), Under("3", P(N("4"))), Under("4", P(N("3")))}
TreeRoutes ==
  {<<[Reader("/categories", View("categories", type, <<>>, <<>>)) EXCEPT !.self = TRUE, !.field = field, !.case = "Underscore", !.tables = Orders(Chain) \cup Orders(Astray)]>> :
     type \in {Category, Ptr(Category)}, field \in {"", "Data"}}
  \cup {<<[Reader("/categories", View("categories", Ptr(Category), <<>>, <<>>)) EXCEPT !.self = TRUE, !.field = field, !.exclude = {<<"Note">>}, !.tables = Orders(Astray), !.asks = {<<>>, <<>> :> {"Id", "Note", "Children"}}]>> : field \in {"", "Data"}}

\* Bodies of executors, with keys in the ways clients write them.
Part == Struct("Part", FALSE, <<Field("Id", Number), Field("Note", Ptr(Text)), Field("Has", Presence({"Id", "Note"}))>>)
Order ==
  Struct("Order", TRUE, <<Field("Id", Number), Field("VendorId", Ptr(Number)), Field("Part", Part), Field("Items", Slice(Ptr(Item))),
                          Field("Has", Presence({"Id", "VendorId", "Part"}))>>)
Pair(word, style, val) == [key |-> [word |-> word, style |-> style], val |-> val]
Num(n) == [json |-> "number", val |-> n]
Txt(s) == [json |-> "text", val |-> s]
Bodies(style) ==
  LET Id(v) == Pair("Id", style, v)
      VendorId(v) == Pair("VendorId", style, v)
      Inner == Object(<<Id(Num("3")), Pair("Note", style, Null)>>)
      Lines == Array(<<Object(<<Id(Num("4")), Pair("Note", style, Txt("n"))>>), Object(<<Pair("Note", style, Txt("m"))>>)>>)
  IN {Object(pairs) : pairs \in {<<>>, <<Id(Num("1"))>>, <<VendorId(Null), Id(Num("0"))>>, <<VendorId(Num("2")), Pair("Other", style, Num("8"))>>,
                                 <<Pair("Part", style, Inner), VendorId(Num("2"))>>, <<Pair("Items", style, Lines), Pair("Part", style, Object(<<>>)), Id(Num("1"))>>,
                                 <<Pair("Part", style, Null), Id(Null)>>}}
Raw(json) == [is |-> "json", json |-> json]
NotJson == [is |-> "word", n |-> 7, json |-> NoBody]
Executor(uri, view, case, responds) ==
  [Reader(uri, view) EXCEPT !.method = "POST", !.case = case, !.bodyType = Order, !.parts = {<<>>, <<"Id">>, <<"VendorId">>, <<"Part">>, <<"Part", "Note">>},
                            !.responds = responds, !.bodies = {Raw(b) : b \in Bodies(case) \cup Bodies("UpperCamel")} \cup {NotJson}]
Orderly == View("orders", Ptr(Order), <<>>, <<>>)
ExecutorRoutes ==
  {<<Executor("/orders", Orderly, case, responds)>> : case \in {"UpperCamel", "LowerCamel", "Underscore"}, responds \in {<<>>, <<"Part">>}}

\* Routes that share views, types and parameters, in one document.
Kept == <<Param("Ids", "Ids", "query", Text), Param("Auth", "", "header", Text), Param("Rows", "", "data_view", Text), Param("Tiny", "", "query", IntType(4, TRUE)),
          Param("Size", "", "path", IntType(4, FALSE)), Param("Flag", "", "query", [kind |-> "bool"])>>
Listed(uri) == [Reader(uri, Products(Kept)) EXCEPT !.tables = {<<Made1>>}]
Shared ==
  {<<Listed("/a"), [Listed("/b") EXCEPT !.cardinality = "One", !.method = method], Listed("/c"), Executor("/orders", Orderly, "LowerCamel", <<>>), Executor("/more", Orderly, "LowerCamel", <<"Part">>)>> :
     method \in {"GET", "PUT"}}
  \cup {<<[Listed("/a") EXCEPT !.field = "Data"], [Listed("/b") EXCEPT !.field = "Data"]>>}

\* Routes that describe different things under one name: bodies of several types, one view that
\* routes exclude different fields of, parameters that are looked for by the names of others.
PartExecutor(uri) ==
  [Executor(uri, View("parts", Ptr(Part), <<>>, <<>>), "LowerCamel", <<>>) EXCEPT
     !.bodyType = Part, !.parts = {<<>>, <<"Id">>}, !.bodies = {Raw(Object(<<Pair("Id", "LowerCamel", Num("3"))>>))}]
Crossed == {Param("Zip", "Code", "query", Text), Param("Code", "", "header", Number), Param("Code", "Zip", "query", Text), Param("Vid", "VendorId", "query", Number)}
Crossing(uri, params) == [Reader(uri, View("items", Ptr(Item), params, <<>>)) EXCEPT !.tables = {<<ItemOf("4").to>>}]
Confused ==
  {<<Executor("/orders", Orderly, "LowerCamel", <<>>), PartExecutor("/parts"), Executor("/more", Orderly, "LowerCamel", <<>>)>>,
   <<Listed("/a"), [Listed("/b") EXCEPT !.exclude = {<<"Vendor", "ZipCode">>}], [Listed("/c") EXCEPT !.exclude = {<<"Id">>}]>>}
  \cup {<<Crossing("/a", <<p, q>>), Crossing("/b", <<r, p>>)>> : p, q, r \in Crossed}

MCSetups == ProductRoutes \cup EventRoutes \cup TreeRoutes \cup ExecutorRoutes \cup Shared \cup Confused
MCTexts ==
  {[is |-> "number", n |-> n, json |-> NoBody] : n \in {-40, -9, -8, -1, 0, 1, 7, 8, 15, 16, 31, 32}}
  \cup {[is |-> "word", n |-> n, json |-> NoBody] : n \in {0, 1, 7}} \cup {[is |-> "empty", n |-> 0, json |-> NoBody]}
=============================================================================
