---------------------------- MODULE WriteRequest ----------------------------
(***************************************************************************)
(* Requests to rules made by the command line, all at once. A request      *)
(* reads the rows its payload may change (PATCH only, before anything      *)
(* else and outside of any transaction), evaluates the template, which     *)
(* reserves ids while it is evaluated, and executes the statements it made *)
(* in one transaction.                                                     *)
(***************************************************************************)
EXTENDS WriteRules

CONSTANTS
  Sessions,   \* the requests being served
  Requests,   \* [method, def, body]: what they may ask for, def a rule
  Stored,     \* [table -> set of rows], what the database starts with
  FirstId     \* the next id of a table then

ColumnsOf(table) == {column.name : column \in ToSet(Columns[table])}

\* The columns of a table that are given ids, and those that may be null.
AutoOf(table) == {column.name : column \in {c \in ToSet(Columns[table]) : c.auto}}
Nullable(table) == {column.name : column \in {c \in ToSet(Columns[table]) : c.nullable}}

SameKey(table, row, other) == \A name \in Primary[table] : row[name] = other[name]

\* The tables: ids the database gives come after those that are there, and are no foreign keys;
\* a foreign key refers to a key, and no two rows have the same.
SchemaAssumption ==
  /\ FirstId \in Nat \ {0}
  /\ \A table \in DOMAIN Stored :
       /\ Primary[table] # {} /\ Primary[table] \subseteq ColumnsOf(table)
       /\ \A column \in ToSet(Columns[table]), other \in ToSet(Columns[table]) : column.name = other.name => column = other
       /\ \A name \in Primary[table] : name \notin Nullable(table)
       /\ \A name \in DOMAIN Foreign[table] :
            /\ name \in ColumnsOf(table) \ AutoOf(table)
            /\ Foreign[table][name].table \in DOMAIN Stored \ {""}
            /\ Foreign[table][name].column \in Primary[Foreign[table][name].table]
       /\ \A row \in Stored[table] :
            /\ row = [name \in ColumnsOf(table) |-> row[name]]
            /\ \A name \in AutoOf(table) : row[name] \in 0 .. FirstId - 1
            /\ \A other \in Stored[table] : SameKey(table, row, other) => row = other
ASSUME SchemaAssumption

IsSequence(s) == s \in Seq(ToSet(s))

\* A rule the command line makes: its views have the keys of their tables, each is at a path of
\* its own, and the one at the top and those next to it have names of their own.
RuleTyped(rule) ==
  /\ IsSequence(rule) /\ rule # <<>>
  /\ \A v \in DOMAIN rule :
       LET view == rule[v]
       IN /\ view.table \in DOMAIN Stored
          /\ IsSequence(view.metas) /\ IsSequence(view.path)
          /\ IsSequence(view.fields) /\ view.fields # <<>> /\ ToSet(view.fields) = ToSet(view.metas)
          /\ \A meta \in ToSet(view.metas) :
               \E column \in ToSet(Columns[view.table]) : meta = FieldMeta(view.table, column)
          /\ Primary[view.table] \subseteq NamesOf(view)
          /\ \A u \in DOMAIN rule : rule[u].path = view.path => u = v
          /\ \A u \in DOMAIN rule : /\ Len(rule[u].path) <= 1 /\ Len(view.path) <= 1
                                     /\ rule[u].param = view.param => u = v

\* A body that was read: each record is after the one it is in, and has the fields of its view.
BodyTyped(rule, body) ==
  /\ IsSequence(body)
  /\ \A i \in DOMAIN body :
       LET record == body[i]
       IN /\ record = [view |-> record.view, in |-> record.in, row |-> record.row, has |-> record.has]
          /\ record.view \in DOMAIN rule /\ record.in \in 0 .. i - 1
          /\ record.row = [name \in NamesOf(rule[record.view]) |-> record.row[name]]
          /\ record.has \subseteq NamesOf(rule[record.view])
          /\ IF record.in = 0 THEN rule[record.view].path = <<>>
             ELSE /\ rule[record.view].path # <<>>
                  /\ rule[body[record.in].view].path = Front(rule[record.view].path)

ASSUME RequestsAssumption == \A r \in Requests : RuleTyped(r.def) /\ BodyTyped(r.def, r.body)

VARIABLES
  stage,      \* [Sessions -> "read", "allocate", "looping", "execute" or "answered"]
  request,    \* [Sessions -> Requests]
  payload,    \* [Sessions -> the body, with what became of its ids and keys]
  step,       \* [Sessions -> how many reads, or calls of Allocate, are done]
  index,      \* [Sessions -> [param of a view -> the keys of its current rows]]
  made,       \* [Sessions -> the statements the template made]
  answer,     \* [Sessions -> "", "ok", "failed" or "dropped"]
  blocks,     \* [Sessions -> what Allocate reserved and gave], kept for the properties
  tables,     \* [table -> its rows]
  sequences   \* [table -> its next id]

vars == <<stage, request, payload, step, index, made, answer, blocks, tables, sequences>>

ParamsOf(rule) == {rule[v].param : v \in DOMAIN rule}

Init ==
  /\ request \in [Sessions -> {r \in Requests : Generates(r.method, r.def)}]
  /\ payload = [s \in Sessions |-> request[s].body]
  /\ stage = [s \in Sessions |-> IF request[s].method = "PATCH" THEN "read" ELSE "allocate"]
  /\ step = [s \in Sessions |-> 0]
  /\ index = [s \in Sessions |-> [param \in ParamsOf(request[s].def) |-> {}]]
  /\ made = [s \in Sessions |-> <<>>]
  /\ answer = [s \in Sessions |-> ""]
  /\ blocks = [s \in Sessions |-> <<>>]
  /\ tables = Stored
  /\ sequences = [table \in DOMAIN Stored |-> FirstId]

Calls(s) == IF request[s].method = "PUT" THEN <<>> ELSE Allocations(request[s].def)

\* The current rows of one view, read as the view of a parameter.
ReadCurrent(s) ==
  LET hinted == Hinted(request[s].def)
      v      == hinted[step[s] + 1]
      view   == request[s].def[v]
      found  == CurrentRows(view, payload[s], Recorded(payload[s], v), tables[view.table])
  IN /\ stage[s] = "read"
     /\ index' = [index EXCEPT ![s][view.param] = IndexBy(view, found)]
     /\ IF step[s] + 1 < Len(hinted)
        THEN step' = [step EXCEPT ![s] = @ + 1] /\ UNCHANGED stage
        ELSE step' = [step EXCEPT ![s] = 0] /\ stage' = [stage EXCEPT ![s] = "allocate"]
     /\ UNCHANGED <<request, payload, made, answer, blocks, tables, sequences>>

\* SQLCriteria.Allocate, one call of the template
AllocateIds(s) ==
  LET call    == Calls(s)[step[s] + 1]
      outcome == NextIds(request[s].def, payload[s], call.path, sequences[call.table])
  IN /\ stage[s] = "allocate" /\ step[s] < Len(Calls(s))
     /\ step' = [step EXCEPT ![s] = @ + 1]
     /\ payload' = [payload EXCEPT ![s] = outcome.payload]
     /\ sequences' = [sequences EXCEPT ![call.table] = outcome.reserved]
     /\ blocks' = [blocks EXCEPT ![s] = Append(@, [table |-> call.table, from |-> sequences[call.table],
                                                   reserved |-> outcome.reserved, given |-> outcome.given])]
     /\ stage' = [stage EXCEPT ![s] = CASE outcome.as = "done" -> @ [] outcome.as = "loops" -> "looping"
                                        [] OTHER -> "answered"]
     /\ answer' = [answer EXCEPT ![s] = CASE outcome.as = "panic" -> "dropped"
                                          [] outcome.as = "error" -> "failed" [] OTHER -> @]
     /\ UNCHANGED <<request, index, made, tables>>

\* The rest of the template: no other request can tell when it is evaluated.
Render(s) ==
  LET r == Statements(request[s].method, index[s], request[s].def, payload[s])
  IN /\ stage[s] = "allocate" /\ step[s] = Len(Calls(s))
     /\ payload' = [payload EXCEPT ![s] = r.payload]
     /\ made' = [made EXCEPT ![s] = r.made]
     /\ stage' = [stage EXCEPT ![s] = "execute"]
     /\ UNCHANGED <<request, step, index, answer, blocks, tables, sequences>>

\* What the database does with the foreign keys of a row.
Refers(all, table, row) ==
  \A name \in DOMAIN Foreign[table] \cap DOMAIN row :
    \/ row[name] = Null
    \/ \E owner \in all[Foreign[table][name].table] : owner[Foreign[table][name].column] = row[name]

\* What the database does with a statement: the row that is inserted, those that are updated,
\* and what becomes of them.
Complete(s) == [name \in ColumnsOf(s.table) |-> IF name \in DOMAIN s.row THEN s.row[name] ELSE Null]
Changed(all, s) == {row \in all[s.table] : \A name \in s.where : row[name] = s.row[name]}
Updated(row, s) == [name \in DOMAIN row |-> IF name \in s.set THEN s.row[name] ELSE row[name]]

Applied(all, s) ==
  LET changed == Changed(all, s)
      after   == {Updated(row, s) : row \in changed}
  IN IF s.op = "insert"
     THEN [ok |-> Refers(all, s.table, s.row) /\ ~\E row \in all[s.table] : SameKey(s.table, row, s.row),
           tables |-> [all EXCEPT ![s.table] = @ \cup {Complete(s)}]]
     ELSE [ok |-> s.wellFormed /\ \A row \in after : Refers(all, s.table, row),
           tables |-> [all EXCEPT ![s.table] = (@ \ changed) \cup after]]

RunNext(done, statement) ==
  LET one == Applied(done.tables, statement)
  IN [ok |-> done.ok /\ one.ok, tables |-> IF one.ok THEN one.tables ELSE done.tables]

Run(all, statements) == FoldLeft(RunNext, [ok |-> TRUE, tables |-> all], statements)

Executed(s, done) ==
  /\ stage[s] = "execute"
  /\ tables' = IF done.ok THEN done.tables ELSE tables
  /\ UNCHANGED <<request, payload, step, index, made, blocks, sequences>>

\* A faulty variant: the error of a transaction is lost.
ExecuteQuietly(s) ==
  LET done == Run(tables, made[s])
  IN /\ Executed(s, done)
     /\ answer' = [answer EXCEPT ![s] = IF done.ok THEN "ok" ELSE ""]
     /\ stage' = [stage EXCEPT ![s] = "answered"]

\* Executor.Exec: one transaction. No statement reads, so it does not matter for what others see
\* where between its begin and its commit a statement is executed.
Execute(s) ==
  LET done == Run(tables, made[s])
  IN /\ Executed(s, done)
     /\ answer' = [answer EXCEPT ![s] = IF done.ok THEN "ok" ELSE "failed"]
     /\ stage' = [stage EXCEPT ![s] = "answered"]

Serve(s) == ReadCurrent(s) \/ AllocateIds(s) \/ Render(s) \/ Execute(s)

\* Every request was answered or is in a loop that no state is changed by.
Finished == (\A s \in Sessions : stage[s] \in {"answered", "looping"}) /\ UNCHANGED vars

Next == (\E s \in Sessions : Serve(s)) \/ Finished

Spec == Init /\ [][Next]_vars

Stages == {"read", "allocate", "looping", "execute", "answered"}

\* What a step of Serve(s) does to stage and step; it is enabled when Serve(s) is.
Moves(s) ==
  /\ stage[s] \notin {"looping", "answered"}
  /\ stage' \in {[stage EXCEPT ![s] = new] : new \in Stages}
  /\ step' \in {[step EXCEPT ![s] = new] : new \in {0, step[s], step[s] + 1}}

\* Goroutines that can go on are scheduled, and a database answers: weak fairness of Serve(s), the
\* steps of which are those that move s.
FairSpec == Spec /\ \A s \in Sessions : WF_<<stage, step>>(Moves(s))

-----------------------------------------------------------------------------
\* A record of the body of a session, what it is now, and its view.
Asked(s, i) == request[s].body[i].row
Now(s, i)   == payload[s][i].row
ViewOf(s, i) == request[s].def[payload[s][i].view]

\* The fields of a record that are given an id.
AutoAt(s, i) == AutoOf(ViewOf(s, i).table) \cap NamesOf(ViewOf(s, i))

TypeOK ==
  /\ stage \in [Sessions -> Stages]
  /\ answer \in [Sessions -> {"", "ok", "failed", "dropped"}]
  /\ \A s \in Sessions :
       /\ (answer[s] = "") = (stage[s] # "answered")
       /\ DOMAIN payload[s] = DOMAIN request[s].body
       /\ \A i \in DOMAIN payload[s] : payload[s][i] = [request[s].body[i] EXCEPT !.row = Now(s, i)]
  /\ \A table \in DOMAIN tables : \A row \in tables[table], other \in tables[table] :
       SameKey(table, row, other) => row = other

\* A field of a record was given an id.
IsGiven(s, i, name) == name \in AutoAt(s, i) /\ IsEmpty(Asked(s, i)[name]) /\ ~IsEmpty(Now(s, i)[name])

\* No id that $sequencer.Allocate gives is given again, to another record, by another request or
\* over another path, and none is that of a row that was there (NextSequence, allocate).
GivenOnce ==
  \A s \in Sessions : \A i \in DOMAIN payload[s] : \A name \in AutoAt(s, i) : IsGiven(s, i, name) =>
    /\ \A row \in Stored[ViewOf(s, i).table] : row[name] # Now(s, i)[name]
    /\ \A t \in Sessions : \A k \in DOMAIN payload[t] : \A other \in AutoAt(t, k) :
         /\ IsGiven(t, k, other) /\ <<s, i, name>> # <<t, k, other>>
         /\ ViewOf(s, i).table = ViewOf(t, k).table
         => Now(s, i)[name] # Now(t, k)[other]

\* What is reserved is what is given: countEmpty and allocate walk the same records.
BlocksUsed ==
  \A s \in Sessions : \A i \in DOMAIN blocks[s] : blocks[s][i].given = blocks[s][i].reserved

\* An id the body had is kept (allocate), through allocation and rendering.
IdsKept ==
  \A s \in Sessions : \A i \in DOMAIN payload[s] : \A name \in AutoAt(s, i) :
    IsEmpty(Asked(s, i)[name]) \/ Now(s, i)[name] = Asked(s, i)[name]

\* Ids are given where there was none, all that were reserved, and to one record each.
IdsSound == TypeOK /\ GivenOnce /\ BlocksUsed /\ IdsKept

\* A record of a finished POST or PUT, and an updated one of a PATCH, belongs to the record it is
\* in, whatever the body says of its key (appendSetFk before the statement).
ChildrenLinked ==
  \A s \in Sessions : \A i \in DOMAIN payload[s] :
    LET view  == ViewOf(s, i)
        above == payload[s][i].in
    IN (/\ answer[s] = "ok" /\ above # 0
        /\ request[s].method = "PATCH" => HasKey(index[s], view, payload[s][i]))
       => \A name \in DOMAIN Foreign[view.table] \cap NamesOf(view) :
            Foreign[view.table][name].table = ViewOf(s, above).table
            => Now(s, i)[name] = Now(s, above)[Foreign[view.table][name].column]

\* A patch inserts nothing the key of which was in the table before it was asked for: rows are
\* never deleted, and every view is looked up (appendSQLWithRelations).
KnownUpdated ==
  \A s \in Sessions : request[s].method = "PATCH" =>
    \A i \in DOMAIN made[s] : made[s][i].op = "insert" =>
      ~\E row \in Stored[made[s][i].table] : SameKey(made[s][i].table, row, made[s][i].row)

Commits(s) == stage[s] = "execute" /\ answer'[s] = "ok"

\* What a POST answers is what the tables hold once it is committed: ids and foreign keys of the
\* payload are those that were inserted (build: keys are set before the statement is made).
AnswerStored ==
  [][\A s \in Sessions : Commits(s) /\ request[s].method = "POST" =>
       \A i \in DOMAIN payload[s] : \E row \in tables'[ViewOf(s, i).table] :
         \A name \in DOMAIN Now(s, i) : row[name] = Now(s, i)[name]]_vars

\* A foreign key by which records are always in the one they belong to: whatever asks for the
\* table of it is, in each rule, next to a view of the table it refers to.
Owned(table, name) ==
  \A r \in Requests : \A v \in DOMAIN r.def :
    r.def[v].table = table => Foreign[table][name].table \in Above(r.def, v)

\* A row that belongs to another is never moved to a third one: an update finds it by its key and
\* the parent it has in the body (qualifiedFields, isParentFk).
NeverMoved ==
  [][\A table \in DOMAIN tables : \A row \in tables[table], new \in tables'[table] :
       SameKey(table, row, new) =>
         \A name \in DOMAIN Foreign[table] : Owned(table, name) => row[name] = new[name]]_vars

\* A column that may be null keeps its value unless a record of that key had it in the body
\* (appendColumns with Has): what a PATCH or PUT leaves out is not overwritten.
AbsentKept ==
  [][\A s \in Sessions : Commits(s) =>
       \A table \in DOMAIN tables : \A row \in tables[table], new \in tables'[table] :
         SameKey(table, row, new) => \A name \in Nullable(table) :
           \/ row[name] = new[name]
           \/ \E i \in DOMAIN payload[s] : /\ ViewOf(s, i).table = table /\ SameKey(table, Now(s, i), row)
                                           /\ name \in payload[s][i].has]_vars

\* A row keeps what no body had for it: the one it belongs to, and the columns that were left out.
RowsKept == NeverMoved /\ AbsentKept

\* A PATCH that is answered ok did what it was asked for: each record at its top has a row with
\* the columns of the body, whether it was there when the current rows were read or not. What is
\* asked for one row twice is there once, as one of the records has it.
PatchDone ==
  [][\A s \in Sessions : Commits(s) /\ request[s].method = "PATCH" =>
       \A i \in DOMAIN payload[s] : payload[s][i].in = 0 =>
         LET table == ViewOf(s, i).table
         IN \E row \in tables'[table] :
              /\ SameKey(table, row, Now(s, i))
              /\ \A name \in payload[s][i].has : \E k \in DOMAIN payload[s] :
                   /\ ViewOf(s, k).table = table /\ SameKey(table, row, Now(s, k))
                   /\ name \in DOMAIN Now(s, k) /\ row[name] = Now(s, k)[name]]_vars

\* A record of the view is there at the end of the path that has the first item of each array.
FirstShows(rule, body, path) ==
  \E way \in SUBSET DOMAIN body :
    /\ \A i \in way : /\ body[i].in \in way \cup {0}
                      /\ \A k \in 1 .. i - 1 : body[k].in = body[i].in => body[k].view # body[i].view
    /\ \E i \in way : rule[body[i].view].path = Front(path)

\* The requests whose first record shows, on the path of each allocation, what a record is like.
Walkable ==
  {r \in Requests : r.method = "PUT" \/ \A call \in ToSet(Allocations(r.def)) :
     LET empty == {i \in DOMAIN r.body : /\ r.def[r.body[i].view].path = Front(call.path)
                                         /\ IsEmpty(r.body[i].row[Last(call.path)])}
     IN Faults(r.def, r.body, call.path) \/ empty = {} \/ FirstShows(r.def, r.body, call.path)}

\* Each of those is answered: no other request can keep it from its reads, ids and transaction.
Answered == \A s \in Sessions : request[s] \in Walkable ~> stage[s] = "answered"

\* "Leaf returns a leaf value" (walker.go): so that every request is answered.
AlwaysAnswered == \A s \in Sessions : <>(stage[s] = "answered")
=============================================================================
