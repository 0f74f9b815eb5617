------------------------------ MODULE MCStartup ------------------------------
EXTENDS Startup

NoSet == [s \in Settings |-> Unset]
View(name, ref) ==
  [name |-> name, ref |-> ref, standalone |-> FALSE, set |-> NoSet, exclude |-> {}, derive |-> FALSE, columns |-> <<>>,
   with |-> <<>>, schema |-> Unset, index |-> <<>>, collector |-> Unset, initialized |-> FALSE]
Set(view, s, value) == [view EXCEPT !.set[s] = value]
Rel(name, of, holder, cardinality) ==
  [name |-> name, of |-> of, holder |-> holder, column |-> "id", ofColumn |-> "parent", cardinality |-> cardinality,
   include |-> FALSE, holderField |-> Unset, hasColumnField |-> FALSE]
Connector(name, ref, driver, dsn) ==
  [name |-> name, ref |-> ref, driver |-> driver, dsn |-> dsn, max |-> Unset, initialized |-> FALSE]
Param(name, ref, in, schema) ==
  [name |-> name, ref |-> ref, initialized |-> FALSE, owner |-> Unset,
   set |-> [s \in ParamSettings |-> CASE s = "in" -> in [] s = "schema" -> schema [] OTHER -> Unset]]
In(kind, name) == [kind |-> kind, name |-> name]
Template(params) == [params |-> params, schema |-> Unset, initialized |-> FALSE, view |-> Unset]
Route(view, method) ==
  [view |-> view, method |-> method, service |-> "", style |-> "", field |-> "", cardinality |-> "", ns |-> <<>>,
   exclude |-> <<>>, normalize |-> Unset, transforms |-> <<>>, visitor |-> "", body |-> Unset, csv |-> Unset,
   reveal |-> Unset, debug |-> "", debugs |-> FALSE, details |-> <<>>, response |-> {}, excluded |-> {},
   bodyFields |-> {}, bodyRequired |-> FALSE]
Columns(names) == [i \in DOMAIN names |-> [name |-> names[i], nullable |-> names[i] = "note"]]

Params ==
  ("ids" :> Param("Ids", "", In("query", "ids"), "int")) @@ ("same" :> Param("", "Ids", Unset, Unset))
  @@ ("rows" :> Param("Rows", "", In("data_view", "base"), Unset)) @@ ("body" :> Param("Body", "", In("body", ""), "Item"))
  @@ ("id" :> Param("Id", "", In("body", "id"), "int")) @@ ("tag" :> Param("Tag", "", In("body", "tag"), "string"))
  @@ ("other" :> Param("Ids", "", In("query", "other"), "string"))
Connectors ==
  ("db" :> Connector("db", "", "sqlite", "file")) @@ ("chain" :> Connector("chain", "db", "", ""))
  @@ ("other" :> [Connector("db", "", "mysql", "other") EXCEPT !.max = 1]) @@ ("extra" :> Connector("extra", "", "mysql", "other"))
Cache(name, ttl, warmup) == [name |-> name, location |-> "mem", ttl |-> ttl, warmup |-> warmup]

Heap(views, rels, order, routes) ==
  [views |-> views, rels |-> rels, cols |-> <<>>, schemas |-> <<>>, configs |-> <<>>, params |-> Params, conns |-> Connectors,
   caches |-> ("mem" :> Cache("mem", 10, FALSE)) @@ ("warm" :> Cache("warm", 10, TRUE)) @@ ("again" :> Cache("mem", 20, FALSE)),
   typeDecls |-> ("Item" :> <<[name |-> "id", by |-> "DataType", of |-> "int"], [name |-> "tag", by |-> "DataType", of |-> "string"]>>)
                 @@ ("Bad" :> <<[name |-> "x", by |-> "Name", of |-> "int"]>>),
   types |-> <<>>, codecs |-> {"upper", "lower"}, tables |-> [t \in {"T", "parent", "L"} |-> Columns(<<"id", "parent", "note">>)],
   order |-> order, paramOrder |-> <<>>, connOrder |-> <<"db", "chain">>, typeOrder |-> <<>>, cacheOrder |-> <<>>, cacheIndex |-> <<>>,
   byName |-> <<>>, connOf |-> <<>>, cacheOf |-> <<>>, paramOf |-> <<>>, transforms |-> <<>>, cached |-> <<>>,
   open |-> <<>>, telling |-> {"sqlite", "mysql"}, routes |-> routes, taken |-> {}, stuck |-> FALSE, error |-> ""]
Config(declared, with) == [heap |-> declared, with |-> with, reveal |-> Unset, logger |-> FALSE]

ByRef(name) == [ref |-> name, name |-> "", driver |-> "", dsn |-> "", max |-> Unset, initialized |-> FALSE]
Of(name, table, connector) == Set(Set(View(name, ""), "table", table), "connector", connector)
Allows(view, kinds) == Set(view, "selector", [NoSelector EXCEPT !.allows = kinds])

\* Views that take what they lack from others, in three orders, with a view that has relations.
Base    == Allows(Of("base", "T", ByRef("chain")), {"Limit"})
Parent  == [Set(View("parent", ""), "connector", ByRef("db")) EXCEPT !.with = <<"items">>]
Leaf    == Of("leaf", "L", ByRef("db"))
Orders  == {<<"base", "derived", "parent">>, <<"parent", "derived", "base">>, <<"derived", "parent", "base">>}
Relations == ("items" :> Rel("items", "items", "Items", "Many")) @@ ("leaves" :> Rel("leaves", "leaf", "Leaves", "One"))
Ask(route, name) == [route EXCEPT !.exclude = <<[path |-> <<"note">>, camel |-> FALSE]>>, !.ns = ("p" :> "parent") @@ ("i" :> name)]
Family ==
  {Config(Heap(("base" :> Base) @@ ("derived" :> [View("derived", "base") EXCEPT !.exclude = exclude]) @@ ("parent" :> Allows(Parent, {"Page"}))
               @@ ("items" :> [Set(View(name, ref), "table", IF ref = "" THEN "T" ELSE Unset) EXCEPT !.with = IF nested THEN <<"leaves">> ELSE <<>>,
                                !.set["connector"] = IF ref = "" THEN ByRef("db") ELSE Unset])
               @@ ("leaf" :> Leaf) @@ ("route1" :> View("", "parent")) @@ ("route2" :> View("", "base")),
               Relations, order, <<[Ask(Route("route1", "GET"), name) EXCEPT !.style = style], Route("route2", "GET")>>), <<>>) :
     exclude \in {{}, {"note"}}, name \in {"items", "parent"}, ref \in {"", "base", "derived", "parent"}, nested \in BOOLEAN, order \in Orders,
     style \in {"", "Comprehensive"}}

\* A resource and what it is with: the same names for other views, connectors, parameters and caches.
With(views, params, conns, caches, types) == [views |-> views, params |-> params, conns |-> conns, caches |-> caches, types |-> types]
Cached(ref) == [name |-> "", ref |-> ref, location |-> Unset, ttl |-> Unset, warmup |-> FALSE, initialized |-> FALSE, owner |-> Unset]
Merged ==
  {Config([Heap(("base" :> own) @@ ("mine" :> Of("base", "L", ByRef("db"))) @@ ("late" :> Set(View("late", "base"), "cache", Cached(cache)))
                @@ ("route" :> View("", "late")), <<>>, <<"base">>, <<Route("route", "GET")>>)
           EXCEPT !.paramOrder = params, !.connOrder = conns, !.typeOrder = types, !.cacheOrder = <<"mem">>],
          <<With(<<"mine", "late">>, <<"other">>, <<"other">>, <<"warm">>, <<"Item">>), With(<<"mine">>, <<"id">>, <<"extra">>, <<"again">>, <<>>)>>) :
     own \in {Of("base", "T", ByRef("chain")), Of("base", "T", Connector("db", "", "sqlite", "file")), Of("base", "T", Unset)},
     conns \in {<<"db", "chain">>, <<"chain", "db">>, <<"chain">>}, params \in {<<>>, <<"ids">>}, types \in {<<>>, <<"Bad">>}, cache \in {"mem", "warm", "none"}}

\* What requests send, to views and to templates, by routes of several styles.
Asked ==
  {[Config([Heap(("base" :> Of("base", "T", ByRef("db")))
                 @@ ("route" :> Set([Of("main", "L", ByRef("chain")) EXCEPT !.with = <<"items">>], "template", Template(params)))
                 @@ ("items" :> Of("items", "T", ByRef("db"))), Relations, <<"base">>,
                 <<[Route("route", method) EXCEPT !.service = IF method = "GET" THEN "Reader" ELSE "Executor", !.style = style, !.field = field,
                                                  !.debug = "record", !.csv = csv,
                                                  !.exclude = <<[path |-> <<"Items", "note">>, camel |-> FALSE]>>,
                                                  !.body = IF field = "" THEN Unset ELSE "Body"]>>)
            EXCEPT !.paramOrder = <<"ids">>, !.typeOrder = <<"Item">>], <<>>) EXCEPT !.reveal = reveal, !.logger = TRUE] :
     params \in {<<>>, <<"same", "rows">>, <<"body">>, <<"id", "tag">>, <<"body", "id">>, <<"ids", "other">>, <<"same", "body", "rows">>},
     method \in {"GET", "POST"}, style \in {"", "Comprehensive"}, field \in {"", "Data"}, reveal \in {Unset, TRUE}, csv \in {Unset, 1}}

\* Columns: codecs by routes and by views, the ones requests may ask for, self references and columns taken from a type.
Codec(path, codec, camel) == [path |-> path, codec |-> codec, camel |-> camel]
Self(child) == [holder |-> "Children", child |-> child, parent |-> "parent"]
Shaped ==
  {Config([Heap(("main" :> [Set(Set(Of("main", "T", ByRef("db")), "selfRef", self), "selector", [NoSelector EXCEPT !.filterable = filterable])
                             EXCEPT !.with = <<"items">>])
                @@ ("items" :> [Of("items", "L", ByRef("db")) EXCEPT !.derive = typed, !.schema = IF typed THEN "Item" ELSE Unset])
                @@ ("twin" :> View("twin", "main")) @@ ("route" :> View("", "main")),
                ("items" :> [Rel("items", "items", "Items", cardinality) EXCEPT !.include = include]), <<"main", "twin">>,
                <<[Route("route", "GET") EXCEPT !.transforms = transforms, !.normalize = TRUE]>>)
           EXCEPT !.typeOrder = <<"Item">>, !.schemas = "Item" :> [name |-> "Item", type |-> Unset, initialized |-> FALSE]], <<>>) :
     self \in {Unset, Self("id"), Self("none")}, filterable \in {{}, {"*"}, {"note"}, {"none"}}, typed \in BOOLEAN,
     cardinality \in {"One", "Many"}, include \in BOOLEAN,
     transforms \in {<<>>, <<Codec(<<"Items", "note">>, "upper", FALSE)>>, <<Codec(<<"Items", "note">>, "upper", FALSE), Codec(<<"note">>, "lower", FALSE)>>,
                     <<Codec(<<"note">>, "none", FALSE)>>}}

\* Pools of some connections, of a driver that tells what is nullable and of one that does not.
Pooled ==
  {Config([Heap(("base" :> Set(Of("base", "T", ByRef("db")), "from", from)) @@ ("derived" :> [View("derived", "base") EXCEPT !.exclude = {"note"}])
                @@ ("main" :> [Of("main", "L", ByRef("chain")) EXCEPT !.with = <<"leaves">>]) @@ ("leaf" :> Leaf)
                @@ ("route1" :> [View("", "base") EXCEPT !.exclude = exclude]) @@ ("route2" :> View("", "main")),
                Relations, order, <<Route("route1", "GET"), Route("route2", "GET")>>)
           EXCEPT !.conns["db"] = [@ EXCEPT !.driver = driver, !.max = max]], <<>>) :
     from \in {Unset, "parent"}, exclude \in {{}, {"note"}}, driver \in {"sqlite", "bigquery"}, max \in {Unset} \cup 1..6,
     order \in {<<"base", "main">>, <<"derived", "main">>, <<"main", "derived", "base">>}}

MCConfigs == Family \cup Merged \cup Asked \cup Shaped \cup Pooled
=============================================================================
