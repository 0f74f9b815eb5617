------------------------------- MODULE OpenApi -------------------------------
(***************************************************************************)
(* What the OpenAPI document of routes says (router/openapi3.go): the      *)
(* schemas of types, and which parameters belong to a route. How they are  *)
(* put together and shared is in Document.                                 *)
(***************************************************************************)
EXTENDS Payload, Document

\* toOpenApiType
Simple(type) == [type |-> type.kind]

\* Mutant: the paths of nested structs start anew.
RECURSIVE GenerateSchemaUnnested(_, _, _, _)
GenerateSchemaUnnested(route, type, isOutput, path) ==
  LET t == Deref(type)
      shown == SelectSeq(t.fields, LAMBDA f : ~f.hidden /\ <<f.name>> \notin route.config.exclude)
  IN CASE t.kind = "slice"  -> [type |-> "array", items |-> GenerateSchemaUnnested(route, t.elem, isOutput, path)]
       [] t.kind = "struct" -> [type |-> "object", props |-> {<<[word |-> shown[i].name, style |-> route.config.case],
                                                              GenerateSchemaUnnested(route, shown[i].type, isOutput, path)>> : i \in DOMAIN shown}]
       [] OTHER             -> Simple(t)

\* addToSchema: a struct has the fields that are not excluded, those of embedded
\* structs among them, whose paths have the name of the struct here.
RECURSIVE GenerateSchema(_, _, _, _)
GenerateSchema(route, type, isOutput, path) ==
  LET t == Deref(type)
      PathOf(f) == Append(path, f.name)
      shown == SelectSeq(t.fields, LAMBDA f : ~f.hidden /\ PathOf(f) \notin route.config.exclude)
      Props(f) == IF f.embedded THEN GenerateSchema(route, f.type, isOutput, PathOf(f)).props
                  ELSE {<<[word |-> f.name, style |-> IF isOutput THEN route.config.case ELSE "UpperCamel"],
                          GenerateSchema(route, f.type, isOutput, PathOf(f))>>}
  IN CASE t.kind = "slice"  -> [type |-> "array", items |-> GenerateSchema(route, t.elem, isOutput, path)]
       [] t.kind = "struct" -> [type |-> "object", props |-> UNION {Props(shown[i]) : i \in DOMAIN shown}]
       [] t.kind = "index"  -> [type |-> "object", props |-> {<<[word |-> n, style |-> "UpperCamel"], [type |-> "boolean"]>> : n \in t.flags}]
       [] t.kind = "iface"  -> [type |-> "any"]
       [] OTHER             -> Simple(t)

\* the schema of a type, fields and all
RootSchema(route, type, isOutput) == GenerateSchema(route, type, isOutput, <<>>)

\* viewParameters, getAllViewsParameters: those of the template, then those of the
\* selector, then those of related views
RECURSIVE ViewsParameters(_)
ViewsParameters(view) ==
  view.params \o view.builtIn \o FlattenSeq([i \in DOMAIN view.with |-> ViewsParameters(view.with[i])])
AllViewsParameters(route) == ViewsParameters(route.view)
=============================================================================
