----------------------------- MODULE Sequencer -----------------------------
(***************************************************************************)
(* sequencer.Service: the ids a template asks for with                     *)
(* $sequencer.Allocate(table, payload, path). A walker follows the path    *)
(* through slices and structs three times: to count the empty ids, to find *)
(* one record that tells the database what they belong to, and to give     *)
(* them the ids of the block that was reserved.                            *)
(*                                                                         *)
(* A type is the sequence of its views, the one at the top and those it    *)
(* holds in fields: view v is reached over the fields type[v].path. A      *)
(* payload is the sequence of its records, each before those it holds, as  *)
(* a walker comes to them: the view a record is of, the record it is in (0 *)
(* at the top), and its row, a function of its fields. An id is a number.  *)
(***************************************************************************)
EXTENDS Integers, Sequences, FiniteSets, SequencesExt

CONSTANTS
  Null,       \* a pointer that is nil
  Increment   \* Sequence.IncrementBy, what the database adds for each id

ASSUME IncrementAssumption == Increment \in Nat \ {0}
ASSUME NullAssumption == Null \notin Nat

NamesOf(view) == {view.metas[i].name : i \in DOMAIN view.metas}

\* newNode: the view a path leads to, none when it names no field of it.
NewNode(type, path) ==
  {v \in DOMAIN type : type[v].path = Front(path) /\ Last(path) \in NamesOf(type[v])}

\* int64Ptr reads an id through its pointer; a nil one becomes a pointer to 0.
IsEmpty(id) == id \in {0, Null}

\* What has a field for a view: the payload itself (0), or records of the view before it.
Holders(type, payload, v) ==
  IF type[v].path = <<>> THEN {0}
  ELSE {i \in DOMAIN payload : type[payload[i].view].path = Front(type[v].path)}

Held(payload, i, v) == {k \in DOMAIN payload : payload[k].in = i /\ payload[k].view = v}

\* A struct on the path is reached through a nil pointer.
Faults(type, payload, path) ==
  \E v \in DOMAIN type : /\ ~type[v].many /\ IsPrefix(type[v].path, Front(path))
                         /\ \E i \in Holders(type, payload, v) : Held(payload, i, v) = {}

\* countEmpty
CountEmpty(payload, v, field) ==
  Cardinality({i \in DOMAIN payload : payload[i].view = v /\ IsEmpty(payload[i].row[field])})

Nowhere == -1
ItemsAt(type, payload, i, path) ==
  {k \in DOMAIN payload : payload[k].in = i /\ type[payload[k].view].path = path}

\* A faulty variant: the last item of an array is looked at.
LeafOfLast(type, payload, path) ==
  LET Down(i, depth) == LET items == ItemsAt(type, payload, i, SubSeq(path, 1, depth))
                        IN IF items = {} THEN Nowhere ELSE Max(items)
  IN FoldLeft(Down, 0, [n \in DOMAIN path |-> n - 1])

\* leaf: the record that is found. Over an array it looks at the first item again and again, so
\* Nowhere means that it does not end: that there is a record was known when it began.
Leaf(type, payload, path) ==
  LET Down(i, depth) == LET items == ItemsAt(type, payload, i, SubSeq(path, 1, depth))
                        IN IF items = {} THEN Nowhere ELSE Min(items)
  IN FoldLeft(Down, 0, [n \in DOMAIN path |-> n - 1])

\* A faulty variant: the sequence is not moved on.
GiveIdTwice(row, field, next) ==
  IF IsEmpty(row[field]) THEN [row |-> [row EXCEPT ![field] = next], next |-> next]
  ELSE [row |-> row, next |-> next]

\* A faulty variant: ids that were given are replaced.
GiveIdAnyway(row, field, next) ==
  [row |-> [row EXCEPT ![field] = next], next |-> next + Increment]

\* allocate, at a leaf
GiveId(row, field, next) ==
  IF IsEmpty(row[field]) THEN [row |-> [row EXCEPT ![field] = next], next |-> next + Increment]
  ELSE [row |-> row, next |-> next]

\* allocate: the payload with its empty ids given, and where the sequence is then.
AllocateNext(done, record, v, field) ==
  LET given == GiveId(record.row, field, done.next)
  IN IF record.view # v THEN [payload |-> Append(done.payload, record), next |-> done.next]
     ELSE [payload |-> Append(done.payload, [record EXCEPT !.row = given.row]), next |-> given.next]

Allocate(payload, v, field, next) ==
  FoldLeft(LAMBDA done, record : AllocateNext(done, record, v, field),
           [payload |-> <<>>, next |-> next], payload)

\* A faulty variant: a block is as long as its ids are many.
NextSequenceShort(next, count) == next + count

\* insert.Service.NextSequence, Sequence.MinValue: a block of ids, the first one returned.
NextSequence(next, count) == next + count * Increment

\* Service.Next on a payload, the sequence of its table standing at next: what becomes of the
\* call, the payload, the block that was reserved and the end of the ids that were given.
NextIds(type, payload, path, next) ==
  LET v     == CHOOSE v \in NewNode(type, path) : TRUE
      count == CountEmpty(payload, v, Last(path))
      given == Allocate(payload, v, Last(path), next)
      Ends(as) == [as |-> as, payload |-> payload, reserved |-> next, given |-> next]
  IN IF NewNode(type, path) = {} THEN Ends("error")
     ELSE IF Faults(type, payload, path) THEN Ends("panic")
     ELSE IF count = 0 THEN Ends("done")
     ELSE IF Leaf(type, payload, path) = Nowhere THEN Ends("loops")
     ELSE [as |-> "done", payload |-> given.payload,
           reserved |-> NextSequence(next, count), given |-> given.next]
============================================================================
