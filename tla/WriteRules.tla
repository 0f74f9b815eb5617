----------------------------- MODULE WriteRules -----------------------------
(***************************************************************************)
(* The rules the command line generates for POST, PUT and PATCH. A rule is *)
(* a template over a payload whose type follows the tables: ids are        *)
(* allocated first, then each record is inserted or updated, its foreign   *)
(* key set from the record it belongs to, and after it the records that    *)
(* belong to it. The text of the template is left out: what is modelled is *)
(* the statements it makes of a payload.                                   *)
(*                                                                         *)
(* A rule is the sequence of its views, as buildInsertRelations comes to   *)
(* them: each before those it holds. A record of a payload has, besides    *)
(* what Sequencer says of it, the fields the body had for it.              *)
(***************************************************************************)
EXTENDS Sequencer

CONSTANTS
  Columns,   \* [table -> sequence of [name, nullable, auto]], what the database says of them
  Primary,   \* [table -> set of names], the primary keys
  Foreign    \* [table -> [name -> [table, column]]], the foreign keys

NoKey == [table |-> ""]

\* buildExceptIndex, buildIncludeIndex, shouldSkipColumn: exceptions come before a list.
Skips(config, name) ==
  IF config.except # {} THEN name \in config.except
  ELSE config.include # {} /\ name \notin config.include

\* buildFieldMeta
FieldMeta(table, column) ==
  [name |-> column.name, required |-> ~column.nullable, auto |-> column.auto,
   primary |-> column.name \in Primary[table],
   fk |-> IF column.name \in DOMAIN Foreign[table] THEN Foreign[table][column.name] ELSE NoKey]

\* viewFields: the sort (of up to 12 fields) moves each required one to the front.
Sorted(metas) ==
  FoldLeft(LAMBDA fields, meta : IF meta.required THEN <<meta>> \o fields ELSE Append(fields, meta),
           <<>>, metas)

\* buildPostInputParameterType: what the records of a view are like.
ViewType(config) ==
  LET kept  == SelectSeq(Columns[config.table], LAMBDA column : ~Skips(config, column.name))
      metas == [i \in DOMAIN kept |-> FieldMeta(config.table, kept[i])]
  IN [param |-> config.holder, path |-> config.path, table |-> config.table, many |-> config.many,
      metas |-> metas, fields |-> Sorted(metas)]

\* buildInsertRelations, and view.Definition.Init: the type the body is read into.
InputType(configs) == [v \in DOMAIN configs |-> ViewType(configs[v])]

PrimaryOf(view) == {view.metas[i].name : i \in {i \in DOMAIN view.metas : view.metas[i].primary}}

\* appendAllocation: the calls of $sequencer.Allocate, a table and a path each.
AllocationsOf(view) ==
  FlattenSeq([i \in DOMAIN view.metas |->
    IF view.metas[i].auto THEN <<[table |-> view.table, path |-> Append(view.path, view.metas[i].name)]>>
    ELSE <<>>])
Allocations(rule) == FlattenSeq([v \in DOMAIN rule |-> AllocationsOf(rule[v])])

\* iterateOverHints: the view at the top and those it holds, none further away.
Hinted(rule) ==
  FlattenSeq([v \in DOMAIN rule |-> IF Len(rule[v].path) <= 1 THEN <<v>> ELSE <<>>])

\* A faulty variant: the rows of the first record alone are asked for.
RecordedFirst(payload, v) ==
  {i \in DOMAIN payload : payload[i].view = v /\ Cardinality({k \in 1..i : payload[k].in = 0}) = 1}

\* The records of a view the current rows of which are asked for.
Recorded(payload, v) == {i \in DOMAIN payload : payload[i].view = v}

\* buildInputMetadataSQL: the rows whose keys are among those of the payload, none when it has none.
CurrentRows(view, payload, records, rows) ==
  {row \in rows : \A name \in PrimaryOf(view) : \E i \in records : payload[i].row[name] = row[name]}

\* generateIndexes: one index for a view, made anew for each column of its key.
IndexBy(view, rows) ==
  LET keys == {i \in DOMAIN view.fields : view.fields[i].primary}
  IN IF keys = {} THEN {} ELSE {row[view.fields[Max(keys)].name] : row \in rows}

\* A faulty variant: a record that has its key is there.
HasKeyGiven(index, view, record) == PrimaryOf(view) \subseteq record.has

\* appendPatchContent: $index.HasKey($record.key) for every column of the key.
HasKey(index, view, record) == \A name \in PrimaryOf(view) : record.row[name] \in index[view.param]

\* The fields that refer to the table of the view above, which has the column.
Links(view, above) ==
  {meta \in ToSet(view.metas) : /\ meta.fk # NoKey /\ meta.fk.table = above.table
                                /\ meta.fk.column \in NamesOf(above)}

\* A faulty variant: a foreign key the body had is kept.
SetFkMissing(view, record, above, owner) ==
  [name \in DOMAIN record.row |->
     IF IsEmpty(record.row[name]) /\ \E meta \in Links(view, above) : meta.name = name
     THEN owner.row[(CHOOSE meta \in Links(view, above) : meta.name = name).fk.column]
     ELSE record.row[name]]

\* appendSetFk: the foreign keys that refer to the table of the owner take its value.
SetFk(view, record, above, owner) ==
  [name \in DOMAIN record.row |->
     IF \E meta \in Links(view, above) : meta.name = name
     THEN owner.row[(CHOOSE meta \in Links(view, above) : meta.name = name).fk.column]
     ELSE record.row[name]]

\* A faulty variant: what the body did not have is left out.
InsertPresent(view, record) ==
  [op |-> "insert", table |-> view.table,
   row |-> [name \in DOMAIN record.row |->
              IF name \in record.has \cup PrimaryOf(view) THEN record.row[name] ELSE Null]]

\* appendInsert
Insert(view, record) == [op |-> "insert", table |-> view.table, row |-> record.row]

\* The tables of the view above, none at the top.
Above(rule, v) ==
  IF rule[v].path = <<>> THEN {}
  ELSE {rule[u].table : u \in {u \in DOMAIN rule : rule[u].path = Front(rule[v].path)}}

\* A faulty variant: a record is found by its key alone.
QualifiedByKey(rule, v) == PrimaryOf(rule[v])

\* qualifiedFields, isParentFk: a record is found by its key and its parent.
Qualified(rule, v) ==
  {meta.name : meta \in {m \in ToSet(rule[v].metas) : m.primary \/ (m.fk # NoKey /\ m.fk.table \in Above(rule, v))}}

\* A faulty variant: fields are set whether the body had them or not.
IsSetAlways(meta, record) == TRUE

\* appendColumns with $Has: a field that may be null is set only when the body had it.
IsSet(meta, record) == meta.required \/ meta.name \in record.has

\* appendUpdate; every field but the first brings its comma along.
Update(rule, record) ==
  [op |-> "update", table |-> rule[record.view].table, row |-> record.row,
   where |-> Qualified(rule, record.view),
   set |-> {meta.name : meta \in {m \in ToSet(rule[record.view].fields) : IsSet(m, record)}},
   wellFormed |-> IsSet(Head(rule[record.view].fields), record)]

\* The rule can be made: an update must know what to find a record by, a patch what was there.
Generates(method, rule) ==
  /\ method # "POST" => \A v \in DOMAIN rule : Qualified(rule, v) # {}
  /\ method = "PATCH" => DOMAIN rule \subseteq ToSet(Hinted(rule))

\* insertStmtBuilder.build, updateStmtBuilder.build, patchStmtBuilder.build, for one record: what
\* it is with its foreign keys set, unless a patch inserts it, and the statement made of it.
Known(method, index, rule, record) == method = "PATCH" /\ HasKey(index, rule[record.view], record)

LinkedTo(done, record, method, index, rule) ==
  LET owner == done[record.in]
  IN IF record.in = 0 \/ (method = "PATCH" /\ ~Known(method, index, rule, record)) THEN record
     ELSE [record EXCEPT !.row = SetFk(rule[record.view], record, rule[owner.view], owner)]

MadeOf(record, linked, method, index, rule) ==
  IF method = "POST" \/ (method = "PATCH" /\ ~Known(method, index, rule, record))
  THEN Insert(rule[record.view], linked) ELSE Update(rule, linked)

StatementsNext(done, record, method, index, rule) ==
  LET linked == LinkedTo(done.payload, record, method, index, rule)
  IN [payload |-> Append(done.payload, linked),
      made |-> Append(done.made, MadeOf(record, linked, method, index, rule))]

\* A payload with its foreign keys set, and the statements made of it.
Statements(method, index, rule, payload) ==
  FoldLeft(LAMBDA done, record : StatementsNext(done, record, method, index, rule),
           [payload |-> <<>>, made |-> <<>>], payload)
=============================================================================
