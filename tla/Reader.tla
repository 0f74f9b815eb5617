------------------------------- MODULE Reader -------------------------------
(***************************************************************************)
(* One reader.Service.Read: a tree of views is read from the database.     *)
(* readAll runs once per view, each call but the root's in a goroutine of  *)
(* its own; collectors are joined by wait groups, and rows of a relation   *)
(* are put into the holder field of the parent's rows either while they    *)
(* are fetched (the parent's match strategy is read_matched) or by         *)
(* MergeData at the end (the parent's is read_all).                        *)
(***************************************************************************)
EXTENDS Integers, Sequences, FiniteSets

CONSTANTS
  View,        \* the views of the request, the root and every (nested) relation
  Root,        \* session.View
  NoView,      \* the parent of the root
  Parent,      \* view -> the view whose With holds its relation
  Parallel,    \* views whose MatchStrategy is read_all
  Selected,    \* views the selector of their parent keeps (Selector.Has)
  Many,        \* views whose relation has cardinality Many, the rest have One
  Unmapped,    \* views whose relation has no column field in the parent's struct
  MayFail,     \* views at which building the relations or a query may fail
  BatchParent, \* view -> Batch.Parent
  Row, Key,    \* database rows and the values of the columns relations match on
  Table,       \* view -> the set of its rows in the database
  ParentKey,   \* view -> row of its parent -> value of Relation.Column
  ChildKey,    \* row -> value of Relation.Of.Column
  ZeroKey      \* what the column of a row not scanned yet reads as

ASSUME ViewAssumption ==
  /\ IsFiniteSet(View) /\ Root \in View /\ NoView \notin View
  /\ Parent \in [View -> View \cup {NoView}]
  /\ \A v \in View : Parent[v] = NoView <=> v = Root
  /\ Parallel \subseteq View /\ Selected \subseteq View /\ MayFail \subseteq View
  /\ Many \subseteq View /\ Unmapped \subseteq View \ (Many \cup {Root})

ASSUME DataAssumption ==
  /\ BatchParent \in [View -> Nat \ {0}]
  /\ Table \in [View -> SUBSET Row]
  /\ ParentKey \in [View -> [Row -> Key]]
  /\ ChildKey \in [Row -> Key]
  /\ ZeroKey \in Key

VARIABLES
  pc,       \* view -> where its readAll is
  wg,       \* view -> counter of collector.wg
  wgDelta,  \* view -> collector.wgDelta
  group,    \* view -> counter of readAll's relationGroup
  pending,  \* counter of the wait group of Read
  errors,   \* the views that appended to shared.Errors
  values,   \* view -> BatchData.Values
  from,     \* view -> BatchData.Parent
  left,     \* view -> the rows the running query has yet to deliver
  dest,     \* view -> collector.dest
  held,     \* view -> position in the parent's dest -> row -> times it is held
  related,  \* the views whose rows got OnRelation
  outcome   \* what Read returned

vars == <<pc, wg, wgDelta, group, pending, errors, values, from, left, dest,
          held, related, outcome>>

Labels == {"idle", "enter", "gather", "index", "query", "rows", "exhausted",
           "group", "return", "leave", "leaveGroup", "done"}

Children(v) == {c \in Selected \ {Root} : Parent[c] = v}

\* The collector reads only the rows its parent's rows refer to.
Narrowed(v) == v # Root /\ Parent[v] \notin Parallel

NoRows == [r \in Row |-> 0]

\* The holder field of the i-th row of the parent of c.
Holder(c, i) == IF i \in DOMAIN held[c] THEN held[c][i] ELSE NoRows

KeyAt(c, i) == ParentKey[c][dest[Parent[c]][i]]

TypeOK ==
  /\ pc \in [View -> Labels]
  /\ wg \in [View -> Int] /\ wgDelta \in [View -> 0..1]
  /\ group \in [View -> Int] /\ pending \in Int
  /\ errors \subseteq View /\ related \subseteq View
  /\ values \in [View -> Seq(Key)] /\ from \in [View -> Nat]
  /\ left \in [View -> SUBSET Row]
  /\ dest \in [View -> Seq(Row)]
  /\ held \in [View -> Seq([Row -> Nat])]
  /\ outcome \in {"running", "error", "ok"}

Init ==
  /\ pc = [v \in View |-> IF v = Root THEN "enter" ELSE "idle"]
  /\ wgDelta = [v \in View |-> IF v = Root /\ Root \notin Parallel THEN 1 ELSE 0]
  /\ wg = wgDelta
  /\ group = [v \in View |-> 0] /\ pending = 0
  /\ errors = {} /\ related = {}
  /\ values = [v \in View |-> <<>>] /\ from = [v \in View |-> 0]
  /\ left = [v \in View |-> {}]
  /\ dest = [v \in View |-> <<>>] /\ held = [v \in View |-> <<>>]
  /\ outcome = "running"

Goto(v, label) == pc' = [pc EXCEPT ![v] = label]

Fail(v) == errors' = errors \cup {v}

data == <<values, from, left, dest, held>>
groups == <<wg, wgDelta, group, pending>>

-----------------------------------------------------------------------------
(* readAll up to the query *)

\* An error elsewhere ends the call before its deferred Fetched is registered.
EnterFailed(v) ==
  /\ pc[v] = "enter" /\ errors # {}
  /\ Goto(v, "leave")
  /\ UNCHANGED <<groups, errors, data, related, outcome>>

\* Relations creates a collector per kept relation; each gets a goroutine.
\* A child's wgDelta is 1 iff the strategy of its PARENT does not allow
\* parallel reads.
Enter(v) ==
  LET cs == Children(v)
      delta == IF v \in Parallel THEN 0 ELSE 1
  IN /\ pc[v] = "enter" /\ errors = {}
     /\ pc' = [w \in View |-> IF w = v THEN "gather"
                              ELSE IF w \in cs THEN "enter" ELSE pc[w]]
     /\ wg' = [w \in View |-> IF w \in cs THEN delta ELSE wg[w]]
     /\ wgDelta' = [w \in View |-> IF w \in cs THEN delta ELSE wgDelta[w]]
     /\ pending' = pending + Cardinality(cs)
     /\ group' = IF v \in Parallel THEN group
                 ELSE [group EXCEPT ![v] = @ + Cardinality(cs)]
     /\ UNCHANGED <<errors, data, related, outcome>>

\* Relations failed on the meta field of a child: nothing is spawned.
RelationsFail(v) ==
  /\ pc[v] = "enter" /\ errors = {}
  /\ v \in MayFail /\ Children(v) # {}
  /\ Fail(v)
  /\ Goto(v, "return")
  /\ UNCHANGED <<groups, data, related, outcome>>

\* A faulty variant: nobody waits for the parent.
NeverWaits(v) == v \in View

\* WaitIfNeeded: a child waits for the wait group of its parent.
Released(v) == v # Root => wg[Parent[v]] = 0

GatherFailed(v) ==
  /\ pc[v] = "gather" /\ Released(v) /\ errors # {}
  /\ Goto(v, "return")
  /\ UNCHANGED <<groups, errors, data, related, outcome>>

\* Neither the root nor a child of a read_all view has placeholders.
GatherAll(v) ==
  /\ pc[v] = "gather" /\ Released(v) /\ errors = {} /\ ~Narrowed(v)
  /\ Goto(v, "query")
  /\ UNCHANGED <<groups, errors, data, related, outcome>>

\* No placeholder means no query, otherwise every one of them is to be read.
ReadPlaceholders(v, ks) ==
  /\ Goto(v, IF ks = <<>> THEN "return" ELSE "query")
  /\ values' = [values EXCEPT ![v] = ks]
  /\ UNCHANGED <<groups, errors, from, left, dest, held, related, outcome>>

PlaceholdersOf(v) == [i \in 1..Len(dest[Parent[v]]) |-> KeyAt(v, i)]

\* ParentPlaceholders over the parent's rows. A parent that is still scanning
\* (nothing waited for it) may also show the row NewItem has just appended.
Gather(v) ==
  /\ pc[v] = "gather" /\ Released(v) /\ errors = {}
  /\ Narrowed(v) /\ v \notin Unmapped
  /\ \/ ReadPlaceholders(v, PlaceholdersOf(v))
     \/ /\ pc[Parent[v]] = "rows" /\ left[Parent[v]] # {}
        /\ ReadPlaceholders(v, Append(PlaceholdersOf(v), ZeroKey))

\* Without a column field the placeholders are the keys of the parent's
\* valuePosition, into which indexPositions first writes the column.
GatherUnmapped(v) ==
  /\ pc[v] = "gather" /\ Released(v) /\ errors = {}
  /\ Narrowed(v) /\ v \in Unmapped
  /\ Goto(v, "index")
  /\ UNCHANGED <<groups, errors, data, related, outcome>>

\* A Go map has no order: any enumeration of the distinct keys. The positions are written in
\* one step: that is what happens when the relation has no sibling. The code has no lock for a
\* sibling that reads the map at the same time.
IndexParent(v) ==
  LET ks == {KeyAt(v, i) : i \in 1..Len(dest[Parent[v]])}
  IN /\ pc[v] = "index"
     /\ \E s \in [1..Cardinality(ks) -> ks] :
          /\ \A k \in ks : \E i \in DOMAIN s : s[i] = k
          /\ ReadPlaceholders(v, s)

-----------------------------------------------------------------------------
(* The query: exhaustRead, batch by batch, and the visitor of a row *)

Smaller(m, n) == IF m < n THEN m ELSE n

\* sliceWithLimit: the values from[v] (exclusive) to BatchEnd(v) (inclusive).
BatchEnd(v) == Smaller(from[v] + BatchParent[v], Len(values[v]))

\* A faulty variant: a batch starts one value late.
InLateBatch(v) == {values[v][i] : i \in (from[v] + 2)..BatchEnd(v)}

InBatch(v) == {values[v][i] : i \in (from[v] + 1)..BatchEnd(v)}

OpenBatch(v) ==
  /\ pc[v] = "query"
  /\ left' = [left EXCEPT ![v] = IF Narrowed(v)
                                 THEN {r \in Table[v] : ChildKey[r] \in InBatch(v)}
                                 ELSE Table[v]]
  /\ from' = [from EXCEPT ![v] = BatchEnd(v)]
  /\ Goto(v, "rows")
  /\ UNCHANGED <<groups, errors, values, dest, held, related, outcome>>

\* What a holder has after r is put into it: appended or set.
Held(c, rows, r) == IF c \in Many THEN [rows EXCEPT ![r] = @ + 1]
                                  ELSE [NoRows EXCEPT ![r] = 1]

\* visitorMany and visitorOne: put r into every parent row it belongs to.
Visited(c, r) ==
  [i \in DOMAIN dest[Parent[c]] |->
     IF KeyAt(c, i) = ChildKey[r] THEN Held(c, Holder(c, i), r) ELSE Holder(c, i)]

\* The driver delivers the rows of a query in any order.
FetchRow(v) ==
  /\ pc[v] = "rows"
  /\ \E r \in left[v] :
       /\ left' = [left EXCEPT ![v] = @ \ {r}]
       /\ dest' = [dest EXCEPT ![v] = Append(@, r)]
       /\ held' = IF Narrowed(v) THEN [held EXCEPT ![v] = Visited(v, r)] ELSE held
  /\ UNCHANGED <<pc, groups, errors, values, from, related, outcome>>

\* The batch is read: the next one, unless the last placeholder was in it.
CloseBatch(v) ==
  /\ pc[v] = "rows" /\ left[v] = {}
  /\ Goto(v, IF from[v] = Len(values[v]) THEN "exhausted" ELSE "query")
  /\ UNCHANGED <<groups, errors, data, related, outcome>>

\* The SQL cannot be built or run, or a row cannot be scanned: the error is
\* kept and readAll goes on.
QueryFails(v) ==
  /\ pc[v] \in {"query", "rows"} /\ v \in MayFail
  /\ Fail(v)
  /\ Goto(v, "exhausted")
  /\ UNCHANGED <<groups, data, related, outcome>>

-----------------------------------------------------------------------------
(* readAll after the query *)

\* A faulty variant: Done without regard to wgDelta.
FetchedAlways(v) ==
  /\ wg' = [wg EXCEPT ![v] = @ - 1]
  /\ wgDelta' = [wgDelta EXCEPT ![v] = @ - 1]

\* Collector.Fetched, which is called twice on the way of a read_matched view.
Fetched(v) ==
  IF wgDelta[v] > 0
  THEN /\ wg' = [wg EXCEPT ![v] = @ - 1]
       /\ wgDelta' = [wgDelta EXCEPT ![v] = @ - 1]
  ELSE UNCHANGED <<wg, wgDelta>>

SkipGroup(v) ==
  /\ pc[v] = "exhausted" /\ v \in Parallel
  /\ Goto(v, "return")
  /\ UNCHANGED <<groups, errors, data, related, outcome>>

EmitFetched(v) ==
  /\ pc[v] = "exhausted" /\ v \notin Parallel
  /\ Fetched(v)
  /\ Goto(v, "group")
  /\ UNCHANGED <<group, pending, errors, data, related, outcome>>

\* A faulty variant: OnRelation without relationGroup.Wait.
RelatesAtOnce(v) ==
  /\ pc[v] = "group"
  /\ related' = related \cup {v}
  /\ Goto(v, "return")
  /\ UNCHANGED <<groups, errors, data, outcome>>

\* relationGroup.Wait, then OnRelation of every row.
JoinRelations(v) ==
  /\ pc[v] = "group" /\ group[v] = 0
  /\ related' = related \cup {v}
  /\ Goto(v, "return")
  /\ UNCHANGED <<groups, errors, data, outcome>>

\* The deferred afterReadAll: its argument was evaluated when it was deferred,
\* so it always calls Fetched.
Return(v) ==
  /\ pc[v] = "return"
  /\ Fetched(v)
  /\ Goto(v, IF v = Root THEN "done" ELSE "leave")
  /\ UNCHANGED <<group, pending, errors, data, related, outcome>>

\* afterRelationCompleted, first the wait group of Read ...
Leave(v) ==
  /\ pc[v] = "leave"
  /\ pending' = pending - 1
  /\ Goto(v, IF Parent[v] \in Parallel THEN "done" ELSE "leaveGroup")
  /\ UNCHANGED <<wg, wgDelta, group, errors, data, related, outcome>>

\* ... then the relation group of the parent's readAll.
LeaveGroup(v) ==
  /\ pc[v] = "leaveGroup"
  /\ group' = [group EXCEPT ![Parent[v]] = @ - 1]
  /\ Goto(v, "done")
  /\ UNCHANGED <<wg, wgDelta, pending, errors, data, related, outcome>>

-----------------------------------------------------------------------------
(* Read *)

\* The rows of c that match the i-th row of its parent, as positions of dest.
Matching(c, i) == {j \in DOMAIN dest[c] : ChildKey[dest[c][j]] = KeyAt(c, i)}

\* A faulty variant: the last matching row is set under a Many relation too.
MergedLast(c) ==
  [i \in DOMAIN dest[Parent[c]] |->
     LET kept == {j \in Matching(c, i) : \A k \in Matching(c, i) : k <= j}
     IN [r \in Row |-> Cardinality({j \in kept : dest[c][j] = r})]]

\* mergeToParent of a Many relation appends each, of a One the last one stays.
Merged(c) ==
  [i \in DOMAIN dest[Parent[c]] |->
     LET kept == IF c \in Many THEN Matching(c, i)
                 ELSE {j \in Matching(c, i) : \A k \in Matching(c, i) : k <= j}
     IN [r \in Row |-> Cardinality({j \in kept : dest[c][j] = r})]]

\* A faulty variant: Read does not wait for the goroutines.
ReadDoneEarly == pc[Root] = "done" /\ outcome = "running"

ReadDone == pc[Root] = "done" /\ pending = 0 /\ outcome = "running"

\* An error anywhere: Read returns it and merges nothing.
ReadFails ==
  /\ ReadDone /\ errors # {}
  /\ outcome' = "error"
  /\ UNCHANGED <<pc, groups, errors, data, related>>

\* MergeData over the collectors that were created.
ReadMerges ==
  /\ ReadDone /\ errors = {}
  /\ outcome' = "ok"
  /\ held' = [c \in View |->
               IF c # Root /\ pc[c] # "idle" /\ Parent[c] \in Parallel
               THEN Merged(c) ELSE held[c]]
  /\ UNCHANGED <<pc, groups, errors, values, from, left, dest, related>>

Step(v) ==
  \/ EnterFailed(v) \/ Enter(v) \/ RelationsFail(v)
  \/ GatherFailed(v) \/ GatherAll(v) \/ Gather(v) \/ GatherUnmapped(v)
  \/ IndexParent(v)
  \/ OpenBatch(v) \/ FetchRow(v) \/ CloseBatch(v) \/ QueryFails(v)
  \/ SkipGroup(v) \/ EmitFetched(v) \/ JoinRelations(v)
  \/ Return(v) \/ Leave(v) \/ LeaveGroup(v)

Terminated == outcome # "running" /\ UNCHANGED vars

Next == (\E v \in View : Step(v)) \/ ReadFails \/ ReadMerges \/ Terminated

\* Every goroutine that can run is run, and every query ends.
Fairness == /\ \A v \in View : WF_vars(Step(v))
            /\ WF_vars(ReadFails \/ ReadMerges)

Spec == Init /\ [][Next]_vars /\ Fairness

-----------------------------------------------------------------------------
(* Properties *)

\* Nobody uses a result that is still being fetched: once a collector gave its
\* children leave to run (its counter is 0 while they wait on it), a narrowed
\* child never gathers from a parent that may still append rows.
ReadsFetchedParent ==
  \A v \in View \ {Root} :
    (Narrowed(v) /\ pc[v] \in {"index", "query", "rows", "exhausted", "group"})
      => pc[Parent[v]] \notin {"gather", "index", "query", "rows", "exhausted"}

\* sync.WaitGroup panics when a counter drops below zero: Fetched may run twice
\* and no counter does.
CountersNeverNegative ==
  pending >= 0 /\ \A v \in View : wg[v] >= 0 /\ group[v] >= 0

\* No goroutine is left behind by a Read that returned, except one that has only
\* the Done of a group nobody waits for ahead of it: its parent failed or had no
\* placeholder, and so returned before its relations did. Without an error no
\* wait group is left that could block a collector.
NothingLeftBehind ==
  outcome # "running" =>
    \A v \in View :
      /\ pc[v] \in {"idle", "done", "leaveGroup"}
      /\ errors = {} => wg[v] = 0

\* Each row of the parent of c holds what the database has for it: all matching
\* rows, once, under a Many relation, one of them under a One relation.
Joined(c) ==
  \A i \in DOMAIN dest[Parent[c]] :
    LET match == {r \in Table[c] : ChildKey[r] = KeyAt(c, i)}
        holds == {r \in Row : Holder(c, i)[r] > 0}
    IN /\ \A r \in Row : Holder(c, i)[r] <= 1
       /\ holds \subseteq match
       /\ IF c \in Many THEN holds = match
          ELSE Cardinality(holds) = (IF match = {} THEN 0 ELSE 1)

\* OnRelation is called on complete rows: unless something failed, the relations
\* of a read_matched view are joined by then.
RelationedRowsComplete ==
  \A c \in Selected \ {Root} :
    (Parent[c] \in related /\ errors = {}) => Joined(c)

\* What Read returns without an error is the join of the views, whatever the
\* match strategies, the batches and the order in which goroutines run.
ResultIsJoin ==
  outcome = "ok" =>
    /\ errors = {}
    /\ \A r \in Table[Root] :
         Cardinality({i \in DOMAIN dest[Root] : dest[Root][i] = r}) = 1
    /\ \A c \in View \ {Root} : pc[c] # "idle" => Joined(c)

\* Goroutines and who waits for them: no wait group is released once too often, and when Read
\* has returned nothing waits and nothing runs.
WaitGroups == CountersNeverNegative /\ NothingLeftBehind

\* What is read is related: a relation that waited has all rows of its parents, and the result
\* is the join, in whatever order goroutines and batches came.
RowsJoined == RelationedRowsComplete /\ ResultIsJoin

-----------------------------------------------------------------------------
(* The read as its caller sees it *)

Promise == INSTANCE ReadOnce WITH
  NoResult <- {},
  result <- IF outcome = "ok" THEN [rows |-> dest, held |-> held] ELSE {}

\* The collectors, wait groups and goroutines implement one atomic read: see
\* Service.Read.
ImplementsReadOnce == Promise!Spec
=============================================================================
