------------------------------ MODULE MCRequest ------------------------------
(***************************************************************************)
(* A small API: products with their prices and offers, read by three       *)
(* routes, and saved by one. Requests are two that are right and whatever  *)
(* differs from one of them in one or two respects.                        *)
(***************************************************************************)
EXTENDS Request

Api == <<"v1", "api">>
Products == Api \o <<"products">>

MCPrefixUri ==
  [p \in {"api", "view", "warmup", "metric", "config", "status", "openapi"} |->
     IF p = "api" THEN Api ELSE Api \o <<"meta", p>>]

Read(uri, views, csv) ==
  [uri |-> uri, method |-> "GET", cors |-> TRUE, service |-> "read", views |-> views, root |-> "product",
   hasBodyType |-> FALSE, hasCSV |-> csv, returns |-> FALSE]

MCRouteConf ==
  [list |-> Read(Products, {"product", "price", "offer"}, FALSE),
   item |-> Read(Append(Products, Wild), {"product"}, TRUE),
   top |-> Read(Append(Products, "top"), {"product"}, TRUE),
   bare |-> [Read(<<"v1", "top">>, {"product"}, TRUE) EXCEPT !.cors = FALSE],
   save |-> [uri |-> Products, method |-> "POST", cors |-> FALSE, service |-> "exec", views |-> {"saved"},
             root |-> "saved", hasBodyType |-> TRUE, hasCSV |-> FALSE, returns |-> TRUE]]

MCApiKeys == <<[uri |-> Append(Products, "top"), header |-> "key", value |-> "right"]>>

MCSegment == {"v1", "api", "meta", "products", "top", "5", Wild, ""} \cup Prefix

Column(type, filterable) == [type |-> type, filterable |-> filterable]
Word(key) == Item(key)
Key(prefix, key) == [Item(key) EXCEPT !.prefix = prefix]
Use(name) == [Item("param") EXCEPT !.name = name]

Param(name, kind, type, required, code) ==
  [name |-> name, kind |-> kind, at |-> <<kind, "", name>>, type |-> type, required |-> required,
   code |-> code, multi |-> FALSE, most |-> <<>>, view |-> ""]

\* A view that lets a caller ask for nothing.
PlainView ==
  [prefixes |-> <<>>, namespace |-> "", named |-> <<>>, allowed |-> {}, page |-> "unset", limit |-> 0,
   columns |-> <<>>, methods |-> <<>>, parameters |-> <<>>, template |-> <<Word("text")>>,
   evaluated |-> TRUE, actual |-> TRUE, discover |-> TRUE, ordered |-> FALSE, consts |-> {},
   relation |-> <<>>, meta |-> <<>>]

\* Products have a template; price is a table, offer a template with places for criteria.
MCConf ==
  [product |->
     [PlainView EXCEPT !.prefixes = <<"p">>, !.named = [offset |-> "skip"], !.limit = 2,
        !.allowed = {"fields", "limit", "offset", "orderby", "criteria"},
        !.columns = [id |-> Column("int", TRUE), name |-> Column("string", TRUE), cost |-> Column("float", FALSE)],
        !.methods = [near |-> <<"int">>],
        !.parameters = <<[Param("ids", "view", "int", TRUE, 404) EXCEPT !.multi = TRUE, !.most = <<1>>, !.view = "allowed"],
                         Param("pid", "value", "int", FALSE, 0)>>,
        !.template = <<Word("text"), Word("where"), Use("pid"), Use("ids"), Word("after"), Word("text")>>,
        !.meta = <<Word("view"), Use("pid")>>],
   price |->
     [PlainView EXCEPT !.namespace = "pr", !.allowed = {"fields"}, !.limit = 1, !.relation = <<"parent">>,
        !.columns = [amount |-> Column("int", TRUE)], !.evaluated = FALSE, !.actual = FALSE,
        !.parameters = <<Param("token", "value", "string", TRUE, 403)>>,
        !.template = <<Word("text"), Use("token")>>],
   offer |->
     [PlainView EXCEPT !.namespace = "of", !.allowed = {"criteria"}, !.relation = <<"parent">>,
        !.columns = [parent |-> Column("int", TRUE)], !.discover = FALSE,
        !.parameters = <<Param("since", "value", "time", FALSE, 401)>>,
        !.template = <<Word("text"), Word("parents"), Use("since"), Key("WHERE_", "CRITERIA"), Word("after")>>],
   allowed |->
     [PlainView EXCEPT !.namespace = "al", !.allowed = {"limit"},
        !.parameters = <<Param("token", "value", "string", TRUE, 403)>>],
   saved |->
     [PlainView EXCEPT
        !.parameters = <<[Param("items", "body", "rows", TRUE, 422) EXCEPT !.multi = TRUE],
                         Param("token", "value", "string", TRUE, 401)>>,
        !.template = <<Word("text"), Use("token"), Word(";"),
                       [Item("each") EXCEPT !.name = "item", !.from = "items",
                                            !.body = <<Word("text"), Use("item"), Use("token"), Word(";")>>]>>]]

Good(value) == [ok |-> TRUE, value |-> value]
Broken(value) == [ok |-> FALSE, value |-> value]
At(kind, namespace, name, value) == <<kind, namespace, name>> :> value
Asks(namespace, k, value) == [values |-> At("query", namespace, k, value)]

Get == [path |-> Products, method |-> "GET", keys |-> <<>>, inside |-> FALSE, body |-> "none", csv |-> FALSE,
        hasBody |-> FALSE, values |-> At("value", "", "token", Good(<<"t">>))]
Post == [Get EXCEPT !.method = "POST", !.body = "good", !.hasBody = TRUE,
                    !.values = @ @@ At("body", "", "items", Good(<<"i", "j">>))]

Name(name) == [key |-> "name", name |-> name]
Compare(op) == [key |-> "compare", op |-> op]
Literal(type, value) == [key |-> "literal", type |-> type, converts |-> TRUE, value |-> value]
Lex(key) == [key |-> key]

\* What can differ.
Differences ==
  {Asks("", "fields", Good(<<"id", "id">>)), Asks("", "fields", Good(<<"none">>)),
   Asks("", "limit", Good(1)), Asks("", "limit", Good(3)), Asks("", "limit", Broken(0)),
   Asks("", "skip", Good(1)), Asks("", "page", Good(3)), Asks("", "orderby", Good("name")),
   Asks("", "criteria", Good(<<Lex("("), Name("id"), Compare("in"), Lex("("), Literal("int", "1"), Lex(","),
                               Literal("int", "2"), Lex(")"), Lex(")")>>)),
   Asks("", "criteria", Good(<<Name("cost"), Compare(">"), Literal("float", "1")>>)),
   Asks("", "criteria", Good(<<Name("id"), Compare("="), [key |-> "method", name |-> "near", args |-> <<Literal("int", "1")>>],
                               Lex("operator"), Name("name"), Compare("like"), Literal("string", "s")>>)),
   Asks("p", "limit", Good(1)), Asks("pr", "fields", Good(<<"amount">>)), Asks("al", "limit", Good(1)),
   Asks("of", "criteria", Good(<<Name("parent"), Compare("<>"), Literal("int", "3")>>)),
   [values |-> At("value", "", "token", Broken(<<"t">>))],
   [values |-> At("value", "", "pid", Good(<<"5">>))], [values |-> At("value", "", "pid", Broken(<<"5">>))],
   [values |-> At("value", "", "since", Good(<<"now">>))],
   [without |-> <<"value", "", "token">>], [without |-> <<"body", "", "items">>],
   [csv |-> TRUE], [body |-> "broken"], [body |-> "none", hasBody |-> FALSE],
   [path |-> Append(Products, "top")], [path |-> Append(Products, "5")], [path |-> Api],
   [path |-> Append(Products, "top"), keys |-> [key |-> "right"]], [path |-> <<"v1", "top">>],
   [path |-> Api \o <<"meta", "view", "products">>, inside |-> TRUE],
   [path |-> Api \o <<"meta", "openapi", "products">>, inside |-> TRUE],
   [path |-> Api \o <<"meta", "status">>, inside |-> TRUE],
   [path |-> Api \o <<"meta", "status">>], [method |-> "OPTIONS"]}

Differs(base, d) ==
  IF "values" \in DOMAIN d THEN [base EXCEPT !.values = d.values @@ @]
  ELSE IF "without" \in DOMAIN d THEN [base EXCEPT !.values = [l \in DOMAIN @ \ {d.without} |-> @[l]]]
  ELSE d @@ base

MCRequests ==
  {Get, Post} \cup {Differs(Differs(base, d), e) : base \in {Get, Post}, d \in Differences, e \in Differences}

\* A limit that is less than one.
MCNegativeLimit == {Differs(Get, Asks("", "limit", Good(-1)))}

MCValue == {"", "id", "name", "cost", "amount", "parent", "ids", "pid", "token", "since", "items", "item",
            "1", "2", "3", "5", "s", "t", "i", "j", "now", "k", "l", "row", "zero"}

MCParentKeys == {<<"k">>, <<"k", "l">>}
=============================================================================
