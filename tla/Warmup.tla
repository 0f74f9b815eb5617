------------------------------- MODULE Warmup -------------------------------
(***************************************************************************)
(* warmup.PopulateCache: for every view with a warm-up the combinations of *)
(* parameter values are enumerated (Cache.GenerateCacheInput), the query   *)
(* of each is built and sent to a channel, and each is run on the database *)
(* of its view. Channels are unbuffered but that of the cases of a view,   *)
(* which has room for all.                                                 *)
(***************************************************************************)
EXTENDS DbPool, Sequences, FiniteSetsExt

CONSTANTS
  View,           \* views with a cache and a warm-up
  Case,           \* the cases of all views
  CasesOf,        \* view -> its cases
  Sizes,          \* case -> for each parameter the number of its values, nil included
  BadCase,        \* cases with a value that cannot be converted
  Meta,           \* views whose meta query is indexed too
  MayFailSQL,     \* views whose queries may not build
  MayFailIndex,   \* views whose queries may not run
  NoCase          \* the case of a view without cases

\* The combinations of a case, each parameter a position in its values.
Combinations(k) ==
  LET Positions == UNION {1..Sizes[k][i] : i \in DOMAIN Sizes[k]}
  IN IF Sizes[k] = <<>> THEN {}
     ELSE {at \in [DOMAIN Sizes[k] -> Positions] : \A i \in DOMAIN at : at[i] <= Sizes[k][i]}

Inputs(v) ==
  IF CasesOf[v] = {} THEN {[view |-> v, case |-> NoCase, at |-> <<>>]}
  ELSE UNION {{[view |-> v, case |-> k, at |-> at] : at \in Combinations(k)} : k \in CasesOf[v]}

Entry(input, kind) == [input |-> input, kind |-> kind]

\* What warming up a view means: every combination of every case, once.
Entries(v) ==
  {Entry(input, kind) : input \in Inputs(v), kind \in {"index"} \cup IF v \in Meta THEN {"meta"} ELSE {}}

AllEntries == UNION {Entries(v) : v \in View}

ASSUME WarmupAssumption ==
  /\ CasesOf \in [View -> SUBSET Case] /\ Sizes \in [Case -> Seq(Nat)]
  /\ \A v, w \in View : v # w => CasesOf[v] \cap CasesOf[w] = {}
  /\ BadCase \subseteq Case /\ Meta \subseteq View
  /\ MayFailSQL \subseteq View /\ MayFailIndex \subseteq View
  /\ NoCase \notin Case /\ Caller = AllEntries

VARIABLES
  cursor,     \* case -> the combination its goroutine is at
  case,       \* case -> "run", "sent" or "failed"
  inputs,     \* case -> the combinations it produced, in order
  gen,        \* view -> "run", "ok" or "failed": its GenerateCacheInput
  notified,   \* views whose number of entries was received
  main,       \* where PopulateCache is
  size,       \* collectorSize
  received,   \* collectorsCounter
  sending,    \* entries their goroutines are sending
  entries,    \* warmupEntries
  errors,     \* whether there was an error
  reading,    \* entries being indexed
  indexed     \* entries indexed

warmupVars == <<cursor, case, inputs, gen, notified, main, size, received, sending, entries,
                errors, reading, indexed>>
vars == <<poolVars, warmupVars>>

First(k) == [i \in DOMAIN Sizes[k] |-> 1]

TypeOK ==
  /\ PoolTypeOK
  /\ case \in [Case -> {"run", "sent", "failed"}]
  /\ \A k \in Case : cursor[k] \in Combinations(k) \cup {First(k)} /\ inputs[k] \in Seq(Combinations(k))
  /\ gen \in [View -> {"run", "ok", "failed"}] /\ notified \subseteq View
  /\ main \in {"notify", "collect", "index", "done"}
  /\ size \in 0..Cardinality(AllEntries) /\ received \in 0..size
  /\ sending \subseteq AllEntries /\ entries \subseteq AllEntries
  /\ reading \subseteq entries /\ indexed \subseteq entries
  /\ errors \in BOOLEAN

Init ==
  /\ PoolInit
  /\ cursor = [k \in Case |-> First(k)] /\ case = [k \in Case |-> "run"]
  /\ inputs = [k \in Case |-> <<>>]
  /\ gen = [v \in View |-> "run"] /\ notified = {}
  /\ main = "notify" /\ size = 0 /\ received = 0
  /\ sending = {} /\ entries = {} /\ errors = FALSE
  /\ reading = {} /\ indexed = {}

-----------------------------------------------------------------------------
(* Cache.GenerateCacheInput: a goroutine per case.                         *)

\* A value does not convert, or a required parameter has none.
CaseFails(k) ==
  /\ case[k] = "run"
  /\ k \in BadCase \/ \E i \in DOMAIN Sizes[k] : Sizes[k][i] = 0
  /\ case' = [case EXCEPT ![k] = "failed"]
  /\ UNCHANGED <<poolVars, cursor, inputs, gen, notified, main, size, received, sending,
                 entries, errors, reading, indexed>>

\* A faulty variant: those after it stay.
FollowingStays(k, i) == [cursor[k] EXCEPT ![i] = @ + 1]

\* A faulty variant: those after it start before their first value.
FollowingZero(k, i) ==
  [j \in DOMAIN cursor[k] |->
    IF j < i THEN cursor[k][j] ELSE IF j = i THEN cursor[k][j] + 1 ELSE 0]

\* The last parameter with a value left is moved on, those after it start again.
Following(k, i) ==
  [j \in DOMAIN cursor[k] |->
    IF j < i THEN cursor[k][j] ELSE IF j = i THEN cursor[k][j] + 1 ELSE 1]

\* An iteration of appendSelectors. A case without parameters has no combination.
AppendSelector(k) ==
  LET left == {i \in DOMAIN Sizes[k] : cursor[k][i] < Sizes[k][i]} IN
  /\ case[k] = "run" /\ k \notin BadCase
  /\ \A i \in DOMAIN Sizes[k] : Sizes[k][i] # 0
  /\ inputs' = [inputs EXCEPT ![k] = IF Sizes[k] = <<>> THEN @ ELSE Append(@, cursor[k])]
  /\ \/ left = {} /\ case' = [case EXCEPT ![k] = "sent"] /\ UNCHANGED cursor
     \/ left # {} /\ cursor' = [cursor EXCEPT ![k] = Following(k, Max(left))] /\ UNCHANGED case
  /\ UNCHANGED <<poolVars, gen, notified, main, size, received, sending, entries, errors,
                 reading, indexed>>

Produced(v) ==
  IF CasesOf[v] = {} THEN Inputs(v)
  ELSE UNION {{[view |-> v, case |-> k, at |-> inputs[k][n]] : n \in DOMAIN inputs[k]} : k \in CasesOf[v]}

\* populateCacheCases: with all cases received, a goroutine for each combination.
Generated(v) ==
  /\ gen[v] = "run" /\ \A k \in CasesOf[v] : case[k] = "sent"
  /\ gen' = [gen EXCEPT ![v] = "ok"]
  /\ sending' = sending \cup {Entry(input, "index") : input \in Produced(v)}
  /\ UNCHANGED <<poolVars, cursor, case, inputs, notified, main, size, received, entries,
                 errors, reading, indexed>>

GenerateFails(v) ==
  /\ gen[v] = "run" /\ \E k \in CasesOf[v] : case[k] = "failed"
  /\ gen' = [gen EXCEPT ![v] = "failed"]
  /\ UNCHANGED <<poolVars, cursor, case, inputs, notified, main, size, received, sending,
                 entries, errors, reading, indexed>>

-----------------------------------------------------------------------------
(* PopulateCache.                                                          *)

\* A faulty variant: the meta queries are not counted.
CountIndex(v) == Cardinality(Produced(v))

\* populateCacheCases: combinations are counted again for their meta query.
Count(v) == Cardinality(Produced(v)) * (IF v \in Meta THEN 2 ELSE 1)

\* The error of a view is printed. Without entries there is nothing to do.
Notify(v) ==
  /\ main = "notify" /\ gen[v] # "run" /\ v \notin notified
  /\ notified' = notified \cup {v}
  /\ size' = size + (IF gen[v] = "ok" THEN Count(v) ELSE 0)
  /\ main' = IF notified' # View THEN "notify" ELSE IF size' = 0 THEN "done" ELSE "collect"
  /\ UNCHANGED <<poolVars, cursor, case, inputs, gen, received, sending, entries, errors,
                 reading, indexed>>

\* The goroutine goes on with the meta query, whether or not the query could be built.
Sent(entry) ==
  (sending \ {entry}) \cup
    IF entry.kind = "index" /\ entry.input.view \in Meta THEN {Entry(entry.input, "meta")} ELSE {}

\* A faulty variant: an entry that could not be built is not counted.
CollectBuilt(entry) ==
  /\ main = "collect" /\ entry \in sending
  /\ \/ entries' = entries \cup {entry} /\ received' = received + 1 /\ UNCHANGED errors
     \/ entry.input.view \in MayFailSQL /\ errors' = TRUE /\ UNCHANGED <<entries, received>>
  /\ sending' = Sent(entry)
  /\ main' = IF received' < size THEN "collect" ELSE IF errors' THEN "done" ELSE "index"
  /\ reading' = IF main' = "index" THEN entries' ELSE {}
  /\ UNCHANGED <<poolVars, cursor, case, inputs, gen, notified, size, indexed>>

\* The last entry closes the collector; then errors end the warm-up, or every entry is
\* read by a goroutine.
Collect(entry) ==
  /\ main = "collect" /\ entry \in sending
  /\ \/ entries' = entries \cup {entry} /\ UNCHANGED errors
     \/ entry.input.view \in MayFailSQL /\ errors' = TRUE /\ UNCHANGED entries
  /\ sending' = Sent(entry) /\ received' = received + 1
  /\ main' = IF received' < size THEN "collect" ELSE IF errors' THEN "done" ELSE "index"
  /\ reading' = IF main' = "index" THEN entries' ELSE {}
  /\ UNCHANGED <<poolVars, cursor, case, inputs, gen, notified, size, indexed>>

\* readWithErr asks for the database.
ReadDB(entry) == entry \in reading /\ CallDB(entry) /\ UNCHANGED warmupVars

\* A faulty variant: the errors of the index are dropped.
IndexForgives(entry) ==
  /\ entry \in reading /\ step[entry] = "done"
  /\ indexed' = IF got[entry] # 0 THEN indexed \cup {entry} ELSE indexed
  /\ UNCHANGED errors
  /\ reading' = reading \ {entry}
  /\ main' = IF reading' = {} THEN "done" ELSE "index"
  /\ UNCHANGED <<poolVars, cursor, case, inputs, gen, notified, size, received, sending,
                 entries>>

\* IndexBy, received by PopulateCache, which returns after the last one.
Index(entry) ==
  /\ entry \in reading /\ step[entry] = "done"
  /\ \/ got[entry] # 0 /\ indexed' = indexed \cup {entry} /\ UNCHANGED errors
     \/ got[entry] = 0 /\ errors' = TRUE /\ UNCHANGED indexed
     \/ entry.input.view \in MayFailIndex /\ errors' = TRUE /\ UNCHANGED indexed
  /\ reading' = reading \ {entry}
  /\ main' = IF reading' = {} THEN "done" ELSE "index"
  /\ UNCHANGED <<poolVars, cursor, case, inputs, gen, notified, size, received, sending,
                 entries>>

Generate ==
  \/ \E k \in Case : CaseFails(k) \/ AppendSelector(k)
  \/ \E v \in View : Generated(v) \/ GenerateFails(v)

Populate ==
  \/ \E v \in View : Notify(v)
  \/ \E entry \in sending : Collect(entry)
  \/ \E entry \in reading : ReadDB(entry) \/ Index(entry)

Pinging == \E k \in Key : KeepAlive(k) /\ UNCHANGED warmupVars

Next == ~crashed /\ (Generate \/ Populate \/ Pinging)

\* Goroutines that can run do; pings need not be answered.
Spec == Init /\ [][Next]_vars /\ WF_vars(~crashed /\ Generate) /\ WF_vars(~crashed /\ Populate)

-----------------------------------------------------------------------------
(* Properties.                                                             *)

\* A warm-up that reports no error has indexed every combination of every case of the
\* views whose input could be generated, each with its meta query.
WarmupComplete ==
  main = "done" /\ ~errors =>
    indexed = UNION {Entries(v) : v \in {w \in View : gen[w] = "ok"}}

\* appendSelectors produces every combination of the values of a case, and none twice.
CombinationsOnce ==
  \A k \in Case :
    /\ \A m, n \in DOMAIN inputs[k] : inputs[k][m] = inputs[k][n] => m = n
    /\ case[k] = "sent" => {inputs[k][n] : n \in DOMAIN inputs[k]} = Combinations(k)

\* What is counted is what is sent: when the collector is closed no goroutine has an
\* entry to send, which would panic, and none is left waiting.
CountExact == main \in {"index", "done"} => sending = {}

\* An error of a query or of its database is reported.
ErrorsReported == main = "done" /\ indexed # entries => errors

\* A warm-up that reports no error has indexed what its cases say: every combination, once.
WarmupSound == TypeOK /\ WarmupComplete /\ CombinationsOnce /\ ErrorsReported

\* The warm-up ends, unless a connection that cannot be opened ended the process.
Ends == <>(main = "done" \/ crashed)
=============================================================================
