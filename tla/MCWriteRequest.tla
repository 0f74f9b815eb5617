--------------------------- MODULE MCWriteRequest ---------------------------
EXTENDS WriteRequest

\* The tables of e2e/local/datastore/mysql/schema.ddl: FOOS and FOOS_PERFORMANCE.
MCColumns ==
  [FOOS |-> <<[name |-> "Id", nullable |-> FALSE, auto |-> TRUE], [name |-> "Name", nullable |-> TRUE, auto |-> FALSE],
              [name |-> "Quantity", nullable |-> TRUE, auto |-> FALSE]>>,
   PERF |-> <<[name |-> "Id", nullable |-> FALSE, auto |-> TRUE], [name |-> "Value", nullable |-> TRUE, auto |-> FALSE],
              [name |-> "FooId", nullable |-> TRUE, auto |-> FALSE]>>]
MCPrimary == [FOOS |-> {"Id"}, PERF |-> {"Id"}]
MCForeign == [FOOS |-> <<>>, PERF |-> [FooId |-> [table |-> "FOOS", column |-> "Id"]]]

View(path, table, holder, many) ==
  [path |-> path, table |-> table, holder |-> holder, many |-> many, except |-> {}, include |-> {}]
Narrow(view) == [view EXCEPT !.include = {"Id", "Name"}]

\* One view and those next to it, many or one of each; and one that is two steps away.
ManyMany == InputType(<<View(<<>>, "FOOS", "Foos", TRUE), View(<<"Perf">>, "PERF", "Perf", TRUE)>>)
OneMany  == InputType(<<Narrow(View(<<>>, "FOOS", "Foos", FALSE)), View(<<"Perf">>, "PERF", "Perf", TRUE)>>)
OneOne   == InputType(<<View(<<>>, "FOOS", "Foos", FALSE), View(<<"Perf">>, "PERF", "Perf", FALSE)>>)

\* UnmarshalJSONObject: a field the body leaves out is nil, or zero when it can not be.
Foo(given)      == [view |-> 1, in |-> 0, given |-> given]
Perf(in, given) == [view |-> 2, in |-> in, given |-> given]
Read(rule, body) ==
  [i \in DOMAIN body |->
    LET given == body[i].given
        metas == ToSet(rule[body[i].view].metas)
        Zero(name) == IF \E meta \in metas : meta.name = name /\ meta.required THEN 0 ELSE Null
        names == {meta.name : meta \in metas}
    IN [view |-> body[i].view, in |-> body[i].in, has |-> DOMAIN given \cap names,
        row |-> [name \in names |-> IF name \in DOMAIN given THEN given[name] ELSE Zero(name)]]]

Ask(methods, rule, bodies) == [method : methods, def : {rule}, body : {Read(rule, body) : body \in bodies}]
MCRequests ==
  Ask({"POST", "PUT", "PATCH"}, ManyMany,
      {<< Foo([Id |-> 1]), Perf(1, [Id |-> 1, Value |-> 7, FooId |-> 2]), Perf(1, [Value |-> 6]), Foo([Name |-> 8]) >>,
       << Foo([Name |-> 5]), Foo([Id |-> 1]), Perf(2, [Value |-> 5]) >>,
       << Foo([Id |-> 9, Quantity |-> 6]) >>,
       << Foo([Id |-> 1, Quantity |-> 9]), Foo([Id |-> 2, Name |-> 7]), Perf(2, [Id |-> 1, Value |-> 6, FooId |-> 2]) >>})
  \cup Ask({"POST", "PUT"}, OneMany, {<< Foo([Name |-> 6]), Perf(1, [Value |-> 5]), Perf(1, [FooId |-> 1]) >>})
  \cup Ask({"POST"}, OneOne, {<< Foo([Id |-> 5]), Perf(1, [Value |-> 8]) >>, << Foo([Name |-> 5]) >>})

MCStored ==
  [FOOS |-> {[Id |-> 1, Name |-> 3, Quantity |-> 3], [Id |-> 2, Name |-> 3, Quantity |-> Null]},
   PERF |-> {[Id |-> 1, Value |-> 4, FooId |-> 1]}]
=============================================================================
