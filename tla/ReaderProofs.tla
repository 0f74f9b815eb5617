---------------------------- MODULE ReaderProofs ----------------------------
(***************************************************************************)
(* Theorems about Reader, for any tree of views, any data and any batches. *)
(***************************************************************************)
EXTENDS Reader, FiniteSetTheorems, TLAPS

\* The root is the first to run and is never spawned: it has no goroutine to
\* leave, and nothing happens before it creates its collectors.
RootOK ==
  /\ pc[Root] \notin {"idle", "index", "leave", "leaveGroup"}
  /\ pc[Root] = "enter" => (errors = {} /\ \A v \in View \ {Root} : pc[v] = "idle")

\* A function on 1..n is a sequence.
LEMMA FunctionIsSeq ==
  ASSUME NEW S, NEW n \in Nat, NEW s \in [1..n -> S] PROVE s \in Seq(S)
OBVIOUS

\* A view other than the root is below a view.
LEMMA ParentIsView ==
  ASSUME NEW v \in View, v # Root PROVE Parent[v] \in View
BY ViewAssumption

\* The relations of a view are finitely many, and the root is none.
LEMMA ChildrenFinite ==
  ASSUME NEW v \in View
  PROVE  /\ Children(v) \subseteq View \ {Root}
         /\ IsFiniteSet(Children(v)) /\ Cardinality(Children(v)) \in Nat
<1>1. Children(v) \subseteq View \ {Root}
  BY ViewAssumption DEF Children
<1>2. IsFiniteSet(Children(v))
  BY <1>1, ViewAssumption, FS_Subset
<1> QED BY <1>1, <1>2, FS_CardinalityType

\* Putting placeholders aside keeps the types: ParentPlaceholders.
LEMMA ReadPlaceholdersType ==
  ASSUME TypeOK, NEW v \in View, NEW ks \in Seq(Key), ReadPlaceholders(v, ks)
  PROVE  TypeOK'
BY DEF TypeOK, ReadPlaceholders, Goto, groups, Labels

\* Placeholders are keys.
LEMMA PlaceholdersType ==
  ASSUME TypeOK, NEW v \in View, v # Root
  PROVE  /\ PlaceholdersOf(v) \in Seq(Key)
         /\ \A i \in 1..Len(dest[Parent[v]]) : KeyAt(v, i) \in Key
<1> DEFINE d == dest[Parent[v]]
<1>1. d \in Seq(Row)
  BY ParentIsView DEF TypeOK
<1>2. \A i \in 1..Len(d) : d[i] \in Row
  BY <1>1
<1>3. \A i \in 1..Len(d) : KeyAt(v, i) \in Key
  BY <1>2, DataAssumption DEF KeyAt
<1> QED BY <1>1, <1>3 DEF PlaceholdersOf

\* Indexing the rows of the parent keeps the types.
LEMMA IndexParentType ==
  ASSUME TypeOK, NEW v \in View, IndexParent(v), v # Root PROVE TypeOK'
<1> DEFINE n  == Len(dest[Parent[v]])
           ks == {KeyAt(v, i) : i \in 1..n}
<1>1. n \in Nat
  BY ParentIsView DEF TypeOK
<1>2. IsFiniteSet(1..n)
  BY <1>1, FS_Interval
<1>3. IsFiniteSet(ks)
  <2> DEFINE f == [i \in 1..n |-> KeyAt(v, i)]
  <2>1. f \in Surjection(1..n, ks)
    BY DEF Surjection
  <2> QED BY <1>2, <2>1, FS_Surjection
<1>4. Cardinality(ks) \in Nat
  BY <1>3, FS_CardinalityType
<1>5. PICK s \in [1..Cardinality(ks) -> ks] : ReadPlaceholders(v, s)
  BY DEF IndexParent
<1>6. ks \subseteq Key
  BY PlaceholdersType
<1>7. s \in Seq(Key)
  <2>1. s \in [1..Cardinality(ks) -> Key]
    BY <1>5, <1>6
  <2> QED BY <1>4, <2>1, FunctionIsSeq
<1> QED BY <1>5, <1>7, ReadPlaceholdersType

\* Releasing the wait group of a view keeps the types.
LEMMA FetchedType ==
  ASSUME TypeOK, NEW v \in View, Fetched(v)
  PROVE  wg' \in [View -> Int] /\ wgDelta' \in [View -> 0..1]
<1>1. wg[v] \in Int /\ wgDelta[v] \in 0..1
  BY DEF TypeOK
<1>2. CASE wgDelta[v] > 0
  <2>1. wgDelta[v] - 1 \in 0..1
    BY <1>1, <1>2
  <2>2. wg' = [wg EXCEPT ![v] = @ - 1] /\ wgDelta' = [wgDelta EXCEPT ![v] = @ - 1]
    BY <1>2 DEF Fetched
  <2>3. wg' \in [View -> Int]
    BY <1>1, <2>2 DEF TypeOK
  <2>4. wgDelta' \in [View -> 0..1]
    BY <2>1, <2>2 DEF TypeOK
  <2> QED BY <2>3, <2>4
<1>3. CASE ~(wgDelta[v] > 0)
  BY <1>3 DEF TypeOK, Fetched
<1> QED BY <1>2, <1>3

\* What a row holds is a bag of rows, empty at first.
LEMMA HolderType ==
  ASSUME TypeOK, NEW c \in View, NEW i PROVE Holder(c, i) \in [Row -> Nat]
<1>1. held[c] \in Seq([Row -> Nat])
  BY DEF TypeOK
<1> QED BY <1>1 DEF Holder, NoRows

\* Adding a fetched row to its holder keeps the types.
LEMMA VisitedType ==
  ASSUME TypeOK, NEW c \in View, c # Root, NEW r \in Row
  PROVE  Visited(c, r) \in Seq([Row -> Nat])
<1>1. dest[Parent[c]] \in Seq(Row)
  BY ParentIsView DEF TypeOK
<1>2. \A i \in DOMAIN dest[Parent[c]] :
        Held(c, Holder(c, i), r) \in [Row -> Nat] /\ Holder(c, i) \in [Row -> Nat]
  BY HolderType DEF Held, NoRows
<1> QED BY <1>1, <1>2 DEF Visited

\* So does merging the rows of a relation at once.
LEMMA MergedType ==
  ASSUME TypeOK, NEW c \in View, c # Root
  PROVE  Merged(c) \in Seq([Row -> Nat])
<1>1. dest[Parent[c]] \in Seq(Row) /\ dest[c] \in Seq(Row)
  BY ParentIsView DEF TypeOK
<1>2. DOMAIN dest[c] = 1..Len(dest[c]) /\ Len(dest[c]) \in Nat
  BY <1>1
<1>3. IsFiniteSet(DOMAIN dest[c])
  BY <1>2, FS_Interval
<1>4. ASSUME NEW kept, kept \subseteq DOMAIN dest[c]
      PROVE  [r \in Row |-> Cardinality({j \in kept : dest[c][j] = r})] \in [Row -> Nat]
  <2>1. \A r \in Row : IsFiniteSet({j \in kept : dest[c][j] = r})
    <3> SUFFICES ASSUME NEW r \in Row PROVE IsFiniteSet({j \in kept : dest[c][j] = r})
      OBVIOUS
    <3>1. {j \in kept : dest[c][j] = r} \subseteq DOMAIN dest[c]
      BY <1>4
    <3> QED BY <1>3, <3>1, FS_Subset
  <2>2. \A r \in Row : Cardinality({j \in kept : dest[c][j] = r}) \in Nat
    BY <2>1, FS_CardinalityType
  <2> QED BY <2>2
<1> DEFINE kept(i) == IF c \in Many THEN Matching(c, i)
                      ELSE {j \in Matching(c, i) : \A k \in Matching(c, i) : k <= j}
<1>5. \A i : kept(i) \subseteq DOMAIN dest[c]
  BY DEF Matching
<1>6. \A i \in DOMAIN dest[Parent[c]] :
        [r \in Row |-> Cardinality({j \in kept(i) : dest[c][j] = r})] \in [Row -> Nat]
  BY <1>4, <1>5
<1>7. Merged(c) = [i \in DOMAIN dest[Parent[c]] |->
                    [r \in Row |-> Cardinality({j \in kept(i) : dest[c][j] = r})]]
  BY DEF Merged
<1>8. DOMAIN dest[Parent[c]] = 1..Len(dest[Parent[c]]) /\ Len(dest[Parent[c]]) \in Nat
  BY <1>1
<1> DEFINE m(i) == [r \in Row |-> Cardinality({j \in kept(i) : dest[c][j] = r})]
<1> HIDE DEF m
<1>9. [i \in 1..Len(dest[Parent[c]]) |-> m(i)] \in Seq([Row -> Nat])
  BY <1>6, <1>8 DEF m
<1> QED BY <1>7, <1>8, <1>9 DEF m

\* Every step of readAll keeps the types.
LEMMA TypeStep == ASSUME TypeOK, RootOK, NEW v \in View, Step(v) PROVE TypeOK'
<1> USE DEF Labels
<1>1. CASE EnterFailed(v)
  BY <1>1 DEF TypeOK, EnterFailed, Goto, groups, data
<1>2. CASE Enter(v)
  <2> DEFINE cs == Children(v)
             delta == IF v \in Parallel THEN 0 ELSE 1
  <2>1. Cardinality(cs) \in Nat
    BY ChildrenFinite
  <2>2. /\ pc' = [w \in View |-> IF w = v THEN "gather"
                                 ELSE IF w \in cs THEN "enter" ELSE pc[w]]
        /\ wg' = [w \in View |-> IF w \in cs THEN delta ELSE wg[w]]
        /\ wgDelta' = [w \in View |-> IF w \in cs THEN delta ELSE wgDelta[w]]
        /\ pending' = pending + Cardinality(cs)
        /\ group' = IF v \in Parallel THEN group
                    ELSE [group EXCEPT ![v] = @ + Cardinality(cs)]
    BY <1>2 DEF Enter
  <2> HIDE DEF cs
  <2>3. pc' \in [View -> Labels] /\ wg' \in [View -> Int] /\ wgDelta' \in [View -> 0..1]
    BY <2>2 DEF TypeOK
  <2>4. group' \in [View -> Int] /\ pending' \in Int
    BY <2>1, <2>2 DEF TypeOK, cs
  <2> QED BY <1>2, <2>3, <2>4 DEF TypeOK, Enter, data
<1>3. CASE RelationsFail(v)
  BY <1>3 DEF TypeOK, RelationsFail, Fail, Goto, groups, data
<1>4. CASE GatherFailed(v)
  BY <1>4 DEF TypeOK, GatherFailed, Goto, groups, data
<1>5. CASE GatherAll(v)
  BY <1>5 DEF TypeOK, GatherAll, Goto, groups, data
<1>6. CASE Gather(v)
  <2>1. v # Root
    BY <1>6 DEF Gather, Narrowed
  <2>2. PlaceholdersOf(v) \in Seq(Key) /\ Append(PlaceholdersOf(v), ZeroKey) \in Seq(Key)
    BY <2>1, PlaceholdersType, DataAssumption
  <2> QED BY <1>6, <2>2, ReadPlaceholdersType DEF Gather
<1>7. CASE GatherUnmapped(v)
  BY <1>7 DEF TypeOK, GatherUnmapped, Goto, groups, data
<1>8. CASE IndexParent(v)
  BY <1>8, IndexParentType DEF IndexParent, RootOK
<1>9. CASE OpenBatch(v)
  <2>1. BatchEnd(v) \in Nat
    <3>1. Len(values[v]) \in Nat /\ from[v] \in Nat /\ BatchParent[v] \in Nat
      BY DataAssumption DEF TypeOK
    <3> QED BY <3>1 DEF BatchEnd, Smaller
  <2>2. Table[v] \subseteq Row
    BY DataAssumption
  <2>3. from' \in [View -> Nat] /\ left' \in [View -> SUBSET Row]
    BY <1>9, <2>1, <2>2 DEF TypeOK, OpenBatch
  <2> QED BY <1>9, <2>3 DEF TypeOK, OpenBatch, Goto, groups
<1>10. CASE FetchRow(v)
  <2>1. PICK r \in left[v] :
          /\ left' = [left EXCEPT ![v] = @ \ {r}]
          /\ dest' = [dest EXCEPT ![v] = Append(@, r)]
          /\ held' = IF Narrowed(v) THEN [held EXCEPT ![v] = Visited(v, r)] ELSE held
    BY <1>10 DEF FetchRow
  <2>2. r \in Row
    BY DEF TypeOK
  <2>3. left' \in [View -> SUBSET Row]
    BY <2>1 DEF TypeOK
  <2>4. dest' \in [View -> Seq(Row)]
    <3>1. Append(dest[v], r) \in Seq(Row)
      BY <2>2 DEF TypeOK
    <3> QED BY <2>1, <3>1 DEF TypeOK
  <2>5. held' \in [View -> Seq([Row -> Nat])]
    <3>1. CASE Narrowed(v)
      <4>1. Visited(v, r) \in Seq([Row -> Nat])
        BY <2>2, <3>1, VisitedType DEF Narrowed
      <4> QED BY <2>1, <3>1, <4>1 DEF TypeOK
    <3>2. CASE ~Narrowed(v)
      BY <2>1, <3>2 DEF TypeOK
    <3> QED BY <3>1, <3>2
  <2> QED BY <1>10, <2>3, <2>4, <2>5 DEF TypeOK, FetchRow, groups
<1>11. CASE CloseBatch(v)
  BY <1>11 DEF TypeOK, CloseBatch, Goto, groups, data
<1>12. CASE QueryFails(v)
  BY <1>12 DEF TypeOK, QueryFails, Fail, Goto, groups, data
<1>13. CASE SkipGroup(v)
  BY <1>13 DEF TypeOK, SkipGroup, Goto, groups, data
<1>14. CASE EmitFetched(v)
  BY <1>14, FetchedType DEF TypeOK, EmitFetched, Goto, data
<1>15. CASE JoinRelations(v)
  BY <1>15 DEF TypeOK, JoinRelations, Goto, groups, data
<1>16. CASE Return(v)
  BY <1>16, FetchedType DEF TypeOK, Return, Goto, data
<1>17. CASE Leave(v)
  BY <1>17 DEF TypeOK, Leave, Goto, data
<1>18. CASE LeaveGroup(v)
  <2>1. group' \in [View -> Int]
    <3>1. Parent[v] \in View
      BY <1>18, ParentIsView DEF LeaveGroup, RootOK
    <3>2. group[Parent[v]] - 1 \in Int
      BY <3>1 DEF TypeOK
    <3>3. group' = [group EXCEPT ![Parent[v]] = @ - 1]
      BY <1>18 DEF LeaveGroup
    <3> QED BY <3>2, <3>3 DEF TypeOK
  <2> QED BY <1>18, <2>1 DEF TypeOK, LeaveGroup, Goto, data
<1> QED
  BY <1>1, <1>2, <1>3, <1>4, <1>5, <1>6, <1>7, <1>8, <1>9, <1>10, <1>11, <1>12, <1>13,
     <1>14, <1>15, <1>16, <1>17, <1>18 DEF Step

\* The root is entered once, and before all others.
LEMMA RootStep == ASSUME TypeOK, RootOK, NEW v \in View, Step(v) PROVE RootOK'
<1> USE DEF TypeOK, RootOK
<1>0. Root \in View
  BY ViewAssumption
<1>1. CASE EnterFailed(v)
  BY <1>0, <1>1 DEF EnterFailed, Goto
<1>2. CASE Enter(v)
  <2>1. Root \notin Children(v)
    BY ChildrenFinite
  <2>2. pc'[Root] = IF Root = v THEN "gather" ELSE pc[Root]
    BY <1>0, <1>2, <2>1 DEF Enter
  <2>3. v # Root => pc[Root] # "enter"
    BY <1>2 DEF Enter
  <2> QED BY <2>2, <2>3
<1>3. CASE RelationsFail(v)
  BY <1>0, <1>3 DEF RelationsFail, Goto
<1>4. CASE GatherFailed(v)
  BY <1>0, <1>4 DEF GatherFailed, Goto
<1>5. CASE GatherAll(v)
  BY <1>0, <1>5 DEF GatherAll, Goto
<1>6. CASE Gather(v)
  BY <1>0, <1>6 DEF Gather, ReadPlaceholders, Goto
<1>7. CASE GatherUnmapped(v)
  BY <1>0, <1>7 DEF GatherUnmapped, Narrowed, Goto
<1>8. CASE IndexParent(v)
  BY <1>0, <1>8 DEF IndexParent, ReadPlaceholders, Goto
<1>9. CASE OpenBatch(v)
  BY <1>0, <1>9 DEF OpenBatch, Goto
<1>10. CASE FetchRow(v)
  BY <1>0, <1>10 DEF FetchRow
<1>11. CASE CloseBatch(v)
  BY <1>0, <1>11 DEF CloseBatch, Goto
<1>12. CASE QueryFails(v)
  BY <1>0, <1>12 DEF QueryFails, Goto
<1>13. CASE SkipGroup(v)
  BY <1>0, <1>13 DEF SkipGroup, Goto
<1>14. CASE EmitFetched(v)
  BY <1>0, <1>14 DEF EmitFetched, Goto
<1>15. CASE JoinRelations(v)
  BY <1>0, <1>15 DEF JoinRelations, Goto
<1>16. CASE Return(v)
  BY <1>0, <1>16 DEF Return, Goto
<1>17. CASE Leave(v)
  BY <1>0, <1>17 DEF Leave, Goto
<1>18. CASE LeaveGroup(v)
  BY <1>0, <1>18 DEF LeaveGroup, Goto
<1> QED
  BY <1>1, <1>2, <1>3, <1>4, <1>5, <1>6, <1>7, <1>8, <1>9, <1>10, <1>11, <1>12,
     <1>13, <1>14, <1>15, <1>16, <1>17, <1>18 DEF Step

\* The types hold initially.
LEMMA TypeInit == ASSUME Init PROVE TypeOK /\ RootOK
<1>1. NoRows \in [Row -> Nat]
  BY DEF NoRows
<1> QED BY <1>1, ViewAssumption DEF Init, TypeOK, RootOK, Labels

\* Read itself changes the outcome and, when it merges, the holders.
LEMMA TypeRead ==
  ASSUME TypeOK, RootOK, ReadFails \/ ReadMerges PROVE TypeOK' /\ RootOK'
<1>1. CASE ReadFails
  BY <1>1 DEF TypeOK, RootOK, ReadFails, groups, data
<1>2. CASE ReadMerges
  <2> DEFINE merged(c) == c # Root /\ pc[c] # "idle" /\ Parent[c] \in Parallel
  <2>1. \A c \in View : merged(c) => Merged(c) \in Seq([Row -> Nat])
    BY MergedType
  <2>2. held' = [c \in View |-> IF merged(c) THEN Merged(c) ELSE held[c]]
    BY <1>2 DEF ReadMerges
  <2> HIDE DEF merged
  <2>3. held' \in [View -> Seq([Row -> Nat])]
    BY <2>1, <2>2 DEF TypeOK
  <2> QED BY <1>2, <2>3 DEF TypeOK, RootOK, ReadMerges, groups
<1> QED BY <1>1, <1>2

\* A step that changes nothing keeps them.
LEMMA TypeStutter == ASSUME TypeOK, RootOK, UNCHANGED vars PROVE TypeOK' /\ RootOK'
BY DEF TypeOK, RootOK, vars

\* The counters, collectors and holders keep their types in every read.
THEOREM TypeCorrect == Spec => []TypeOK
<1>1. TypeOK /\ RootOK /\ [Next]_vars => TypeOK' /\ RootOK'
  BY TypeStep, RootStep, TypeRead, TypeStutter DEF Next, Terminated
<1> QED BY <1>1, TypeInit, PTL DEF Spec

-----------------------------------------------------------------------------
(* What the counters count *)

\* The places of a readAll that has been spawned and has not left.
Live == Labels \ {"idle", "leaveGroup", "done"}

\* The goroutines Read waits for, and those the relation group of v waits for.
Running == {v \in View \ {Root} : pc[v] \in Live}
Related(v) == {c \in Children(v) : pc[c] \notin {"idle", "done"}}

\* Only collectors of kept relations are spawned, after their parent entered.
SpawnedByParent ==
  \A v \in View \ {Root} :
    /\ pc[v] # "idle" => v \in Selected /\ pc[Parent[v]] \notin {"idle", "enter"}
    /\ pc[v] = "leaveGroup" => Parent[v] \notin Parallel

CountersCount ==
  /\ pending = Cardinality(Running)
  /\ \A v \in View : group[v] = IF v \in Parallel THEN 0 ELSE Cardinality(Related(v))
  /\ wg = wgDelta

\* What the counters count is finite.
LEMMA CountedSetsFinite ==
  ASSUME NEW v \in View
  PROVE  /\ IsFiniteSet(Running) /\ Cardinality(Running) \in Nat
         /\ IsFiniteSet(Related(v)) /\ Cardinality(Related(v)) \in Nat
<1>1. Running \subseteq View /\ Related(v) \subseteq Children(v)
  BY DEF Running, Related
<1>2. IsFiniteSet(Running) /\ IsFiniteSet(Related(v))
  BY <1>1, ChildrenFinite, ViewAssumption, FS_Subset
<1> QED BY <1>2, FS_CardinalityType

\* All steps but three only move a running readAll on.
LEMMA OnlyMoves ==
  ASSUME TypeOK, RootOK, NEW v \in View, Step(v),
         ~Enter(v), ~Leave(v), ~LeaveGroup(v)
  PROVE  /\ \E l \in Live \cup {"done"} :
              /\ pc' = [pc EXCEPT ![v] = l]
              /\ l = "done" => v = Root
              /\ l # "enter"
         /\ pc[v] \in Live
         /\ UNCHANGED <<group, pending>>
         /\ UNCHANGED <<wg, wgDelta>> \/ Fetched(v)
<1> USE DEF Live, Labels, Goto
<1>0. pc \in [View -> Labels]
  BY DEF TypeOK
<1>1. CASE EnterFailed(v)
  BY <1>0, <1>1 DEF EnterFailed, groups
<1>3. CASE RelationsFail(v)
  BY <1>0, <1>3 DEF RelationsFail, groups
<1>4. CASE GatherFailed(v)
  BY <1>0, <1>4 DEF GatherFailed, groups
<1>5. CASE GatherAll(v)
  BY <1>0, <1>5 DEF GatherAll, groups
<1>6. CASE Gather(v)
  BY <1>0, <1>6 DEF Gather, ReadPlaceholders, groups
<1>7. CASE GatherUnmapped(v)
  BY <1>0, <1>7 DEF GatherUnmapped, groups
<1>8. CASE IndexParent(v)
  BY <1>0, <1>8 DEF IndexParent, ReadPlaceholders, groups
<1>9. CASE OpenBatch(v)
  BY <1>0, <1>9 DEF OpenBatch, groups
<1>10. CASE FetchRow(v)
  BY <1>0, <1>10 DEF FetchRow, groups
<1>11. CASE CloseBatch(v)
  BY <1>0, <1>11 DEF CloseBatch, groups
<1>12. CASE QueryFails(v)
  BY <1>0, <1>12 DEF QueryFails, groups
<1>13. CASE SkipGroup(v)
  BY <1>0, <1>13 DEF SkipGroup, groups
<1>14. CASE EmitFetched(v)
  BY <1>0, <1>14 DEF EmitFetched
<1>15. CASE JoinRelations(v)
  BY <1>0, <1>15 DEF JoinRelations, groups
<1>16. CASE Return(v)
  BY <1>0, <1>16 DEF Return
<1> QED
  BY <1>1, <1>3, <1>4, <1>5, <1>6, <1>7, <1>8, <1>9, <1>10, <1>11, <1>12,
     <1>13, <1>14, <1>15, <1>16 DEF Step

\* A view starts only with the one above it.
LEMMA SpawnedStep ==
  ASSUME TypeOK, RootOK, SpawnedByParent, NEW v \in View, Step(v)
  PROVE  SpawnedByParent'
<1> USE DEF SpawnedByParent
<1>0. pc \in [View -> Labels] /\ \A w \in View \ {Root} : Parent[w] \in View
  BY ParentIsView DEF TypeOK
<1>1. CASE Enter(v)
  <2>1. pc' = [w \in View |-> IF w = v THEN "gather"
                             ELSE IF w \in Children(v) THEN "enter" ELSE pc[w]]
    BY <1>1 DEF Enter
  <2>2. pc[v] = "enter"
    BY <1>1 DEF Enter
  <2>3. SUFFICES ASSUME NEW w \in View \ {Root}, pc'[w] # "idle"
        PROVE  /\ w \in Selected /\ pc'[Parent[w]] \notin {"idle", "enter"}
               /\ pc'[w] = "leaveGroup" => Parent[w] \notin Parallel
    OBVIOUS
  <2>4. CASE w \in Children(v)
    BY <1>0, <2>1, <2>2, <2>4 DEF Children
  <2>5. CASE w \notin Children(v)
    <3>1. pc[w] # "idle" /\ w \in Selected /\ pc[Parent[w]] \notin {"idle", "enter"}
      BY <2>1, <2>2, <2>3, <2>5
    <3>2. Parent[w] = v => pc'[Parent[w]] = "gather"
      BY <2>1
    <3>3. Parent[w] \notin Children(v)
      <4> SUFFICES ASSUME Parent[w] \in Children(v) PROVE FALSE
        OBVIOUS
      <4>1. Parent[w] \in View \ {Root} /\ Parent[Parent[w]] = v
        BY <1>0 , ChildrenFinite DEF Children
      <4> QED BY <2>2, <3>1, <4>1
    <3> QED BY <1>0, <2>1, <2>2, <2>3, <3>1, <3>2, <3>3
  <2> QED BY <2>4, <2>5
<1>2. CASE Leave(v)
  BY <1>0, <1>2 DEF Leave, Goto
<1>3. CASE LeaveGroup(v)
  BY <1>0, <1>3 DEF LeaveGroup, Goto
<1>4. CASE ~Enter(v) /\ ~Leave(v) /\ ~LeaveGroup(v)
  <2>1. PICK l \in Live \cup {"done"} :
          pc' = [pc EXCEPT ![v] = l] /\ (l = "done" => v = Root) /\ l # "enter"
    BY <1>4, OnlyMoves
  <2>2. pc[v] \in Live
    BY <1>4, OnlyMoves
  <2> QED BY <1>0, <2>1, <2>2 DEF Live
<1> QED BY <1>1, <1>2, <1>3, <1>4

\* The counters of a readAll that creates its collectors go up by their number.
LEMMA CountersEnter ==
  ASSUME TypeOK, RootOK, SpawnedByParent, CountersCount, NEW v \in View, Enter(v)
  PROVE  CountersCount'
<1> DEFINE cs == Children(v)
<1>0. pc \in [View -> Labels] /\ group \in [View -> Int]
  BY DEF TypeOK
<1>1. /\ pc[v] = "enter"
      /\ pc' = [w \in View |-> IF w = v THEN "gather"
                               ELSE IF w \in cs THEN "enter" ELSE pc[w]]
      /\ pending' = pending + Cardinality(cs)
      /\ group' = IF v \in Parallel THEN group
                  ELSE [group EXCEPT ![v] = @ + Cardinality(cs)]
  BY DEF Enter
<1>2. \A c \in cs : c \in View \ {Root} /\ pc[c] = "idle" /\ c # v
  BY <1>1, ChildrenFinite DEF SpawnedByParent, Children
<1>3. pending' = Cardinality(Running')
  <2>1. Running' = Running \cup cs
    BY <1>0, <1>1, <1>2 DEF Running, Live, Labels
  <2>2. Running \cap cs = {}
    BY <1>2 DEF Running, Live
  <2>3. Cardinality(Running \cup cs) = Cardinality(Running) + Cardinality(cs)
    <3>1. Cardinality(Running \cup cs)
            = Cardinality(Running) + Cardinality(cs) - Cardinality(Running \cap cs)
      BY CountedSetsFinite, ChildrenFinite, FS_Union
    <3>2. Cardinality(Running \cap cs) = 0
      BY <2>2, FS_EmptySet
    <3> QED BY <3>1, <3>2, CountedSetsFinite, ChildrenFinite
  <2> QED BY <1>1, <2>1, <2>3 DEF CountersCount
<1>4. ASSUME NEW w \in View
      PROVE  group'[w] = IF w \in Parallel THEN 0 ELSE Cardinality(Related(w)')
  <2>1. CASE w = v
    <3>1. Related(v) = {} /\ Related(v)' = cs
      BY <1>1, <1>2 DEF Related, Children
    <3>2. v \notin Parallel => group[v] = 0
      BY <3>1, FS_EmptySet DEF CountersCount
    <3>3. Cardinality(cs) \in Nat
      BY ChildrenFinite
    <3> HIDE DEF cs
    <3> QED BY <1>0, <1>1, <2>1, <3>1, <3>2, <3>3 DEF CountersCount
  <2>2. CASE w # v
    <3>1. \A c \in Children(w) : c \in View /\ c \notin cs
      BY <2>2, ChildrenFinite DEF Children
    <3>2. Related(w)' = Related(w)
      BY <1>1, <3>1 DEF Related, Children
    <3>3. group'[w] = group[w]
      BY <1>0, <1>1, <2>2
    <3> QED BY <3>2, <3>3 DEF CountersCount
  <2> QED BY <2>1, <2>2
<1>5. wg' = wgDelta'
  BY DEF Enter, CountersCount
<1> QED BY <1>3, <1>4, <1>5 DEF CountersCount

\* wg.Done of Read's wait group.
LEMMA CountersLeave ==
  ASSUME TypeOK, RootOK, SpawnedByParent, CountersCount, NEW v \in View, Leave(v)
  PROVE  CountersCount'
<1>0. pc \in [View -> Labels]
  BY DEF TypeOK
<1>1. /\ pc[v] = "leave" /\ v # Root /\ pending' = pending - 1
      /\ pc' = [pc EXCEPT ![v] = IF Parent[v] \in Parallel THEN "done" ELSE "leaveGroup"]
      /\ UNCHANGED <<wg, wgDelta, group>>
  BY DEF Leave, Goto, RootOK
<1>2. Running' = Running \ {v} /\ v \in Running
  BY <1>0, <1>1 DEF Running, Live, Labels
<1>3. pending' = Cardinality(Running')
  <2>1. Cardinality(Running \ {v}) = Cardinality(Running) - 1
    BY <1>2, CountedSetsFinite, FS_RemoveElement
  <2> QED BY <1>1, <1>2, <2>1 DEF CountersCount
<1>4. ASSUME NEW w \in View, w \notin Parallel PROVE Related(w)' = Related(w)
  <2>1. \A c \in Children(w) : c \in View /\ Parent[c] = w
    BY ChildrenFinite DEF Children
  <2>2. \A c \in Children(w) : pc'[c] \in {"idle", "done"} <=> pc[c] \in {"idle", "done"}
    BY <1>0, <1>1, <1>4, <2>1
  <2> QED BY <2>2 DEF Related, Children
<1> QED BY <1>1, <1>3, <1>4 DEF CountersCount

\* relationGroup.Done of the parent.
LEMMA CountersLeaveGroup ==
  ASSUME TypeOK, RootOK, SpawnedByParent, CountersCount, NEW v \in View, LeaveGroup(v)
  PROVE  CountersCount'
<1> DEFINE p == Parent[v]
<1>0. pc \in [View -> Labels] /\ group \in [View -> Int]
  BY DEF TypeOK
<1>1. /\ pc[v] = "leaveGroup" /\ v # Root
      /\ pc' = [pc EXCEPT ![v] = "done"]
      /\ group' = [group EXCEPT ![p] = @ - 1]
      /\ UNCHANGED <<wg, wgDelta, pending>>
  BY DEF LeaveGroup, Goto, RootOK
<1>2. p \in View /\ p \notin Parallel /\ v \in Children(p)
  BY <1>1, ParentIsView DEF SpawnedByParent, Children
<1>3. Running' = Running
  BY <1>0, <1>1 DEF Running, Live
<1>4. ASSUME NEW w \in View
      PROVE  group'[w] = IF w \in Parallel THEN 0 ELSE Cardinality(Related(w)')
  <2>1. CASE w = p
    <3>1. Related(p)' = Related(p) \ {v} /\ v \in Related(p)
      <4>1. \A c \in Children(p) : c \in View
        BY <1>2, ChildrenFinite
      <4> QED BY <1>0, <1>1, <1>2, <4>1 DEF Related, Children
    <3>2. Cardinality(Related(p) \ {v}) = Cardinality(Related(p)) - 1
      BY <1>2, <3>1, CountedSetsFinite, FS_RemoveElement
    <3>3. group'[p] = group[p] - 1
      BY <1>0, <1>1, <1>2
    <3> QED BY <1>2, <2>1, <3>1, <3>2, <3>3 DEF CountersCount
  <2>2. CASE w # p
    <3>1. \A c \in Children(w) : c \in View /\ c # v
      BY <2>2, ChildrenFinite DEF Children
    <3>2. Related(w)' = Related(w)
      BY <1>0, <1>1, <3>1 DEF Related, Children
    <3>3. group'[w] = group[w]
      BY <1>0, <1>1, <2>2
    <3> QED BY <3>2, <3>3 DEF CountersCount
  <2> QED BY <2>1, <2>2
<1> QED BY <1>1, <1>3, <1>4 DEF CountersCount

\* The counters stay the number of what they count.
LEMMA CountersStep ==
  ASSUME TypeOK, RootOK, SpawnedByParent, CountersCount, NEW v \in View, Step(v)
  PROVE  CountersCount'
<1>1. CASE ~Enter(v) /\ ~Leave(v) /\ ~LeaveGroup(v)
  <2>0. pc \in [View -> Labels]
    BY DEF TypeOK
  <2>1. PICK l \in Live \cup {"done"} :
          pc' = [pc EXCEPT ![v] = l] /\ (l = "done" => v = Root)
    BY <1>1, OnlyMoves
  <2>2. pc[v] \in Live /\ UNCHANGED <<group, pending>>
    BY <1>1, OnlyMoves
  <2>3. Running' = Running
    BY <2>0, <2>1, <2>2 DEF Running, Live
  <2>4. \A w \in View : Related(w)' = Related(w)
    <3>1. \A w \in View : \A c \in Children(w) : c \in View \ {Root}
      BY ChildrenFinite
    <3> QED BY <2>0, <2>1, <2>2, <3>1 DEF Related, Live, Children
  <2>5. wg' = wgDelta'
    BY <1>1, OnlyMoves DEF Fetched, CountersCount
  <2> QED BY <2>2, <2>3, <2>4, <2>5 DEF CountersCount
<1> QED BY <1>1, CountersEnter, CountersLeave, CountersLeaveGroup

\* What every reachable state of a read satisfies.
ReaderInv == TypeOK /\ RootOK /\ SpawnedByParent /\ CountersCount

\* The invariant of the counters holds initially.
LEMMA ReaderInvInit == ASSUME Init PROVE ReaderInv
<1>0. Root \in View
  BY ViewAssumption
<1>1. Running = {} /\ \A v \in View : Related(v) = {}
  <2>1. \A v \in View : Children(v) \subseteq View \ {Root}
    BY ChildrenFinite
  <2> QED BY <2>1 DEF Init, Running, Related, Live
<1>2. CountersCount
  BY <1>1, FS_EmptySet DEF Init, CountersCount
<1>3. SpawnedByParent
  BY DEF Init, SpawnedByParent
<1> QED BY <1>2, <1>3, TypeInit DEF ReaderInv

\* Every step keeps it.
LEMMA ReaderInvNext == ASSUME ReaderInv, [Next]_vars PROVE ReaderInv'
<1> USE DEF ReaderInv
<1>1. ASSUME NEW v \in View, Step(v) PROVE ReaderInv'
  BY <1>1, TypeStep, RootStep, SpawnedStep, CountersStep
<1>2. CASE ReadFails \/ ReadMerges
  <2>1. UNCHANGED <<pc, groups>>
    BY <1>2 DEF ReadFails, ReadMerges
  <2>2. SpawnedByParent' /\ CountersCount'
    BY <2>1 DEF SpawnedByParent, CountersCount, groups, Running, Related
  <2> QED BY <1>2, <2>2, TypeRead
<1>3. CASE UNCHANGED vars
  BY <1>3, TypeStutter DEF vars, SpawnedByParent, CountersCount, Running, Related
<1> QED BY <1>1, <1>2, <1>3 DEF Next, Terminated

\* No call of Fetched, however often it runs, and no Done of a goroutine takes
\* a wait group below zero: Go would panic.
THEOREM CountersSafe == Spec => []CountersNeverNegative
<1>1. ReaderInv => CountersNeverNegative
  <2> SUFFICES ASSUME ReaderInv PROVE CountersNeverNegative
    OBVIOUS
  <2>1. pending \in Nat
    BY CountedSetsFinite, ViewAssumption DEF ReaderInv, CountersCount
  <2>2. \A v \in View : group[v] \in Nat
    BY CountedSetsFinite DEF ReaderInv, CountersCount
  <2>3. \A v \in View : wg[v] \in Nat
    <3>1. wgDelta \in [View -> 0..1] /\ wg = wgDelta
      BY DEF ReaderInv, CountersCount, TypeOK
    <3>2. \A v \in View : wgDelta[v] \in 0..1
      BY <3>1
    <3> QED BY <3>1, <3>2
  <2> QED BY <2>1, <2>2, <2>3 DEF CountersNeverNegative
<1> QED BY <1>1, ReaderInvInit, ReaderInvNext, PTL DEF Spec

-----------------------------------------------------------------------------
(* What is left when Read returns *)

ReleasedAfterwards ==
  \A v \in View : (pc[v] \in {"idle", "leave", "leaveGroup", "done"} /\ errors = {})
                    => wg[v] = 0

ReturnedLast == outcome # "running" => (pending = 0 /\ pc[Root] = "done")

\* A view that does not run, or is done without an error, holds no wait group.
LEMMA ReleasedStep ==
  ASSUME ReaderInv, ReleasedAfterwards, NEW v \in View, Step(v)
  PROVE  ReleasedAfterwards'
<1> USE DEF ReleasedAfterwards
<1>0. pc \in [View -> Labels] /\ wg \in [View -> Int] /\ wg = wgDelta
  BY DEF ReaderInv, TypeOK, CountersCount
<1>1. errors' = {} => errors = {}
  BY DEF Step, EnterFailed, Enter, RelationsFail, GatherFailed, GatherAll, Gather,
         GatherUnmapped, IndexParent, ReadPlaceholders, OpenBatch, FetchRow,
         CloseBatch, QueryFails, Fail, SkipGroup, EmitFetched, JoinRelations,
         Return, Leave, LeaveGroup
<1>2. \A w \in View : wg[w] \in 0..1
  BY <1>0 DEF ReaderInv, TypeOK
<1>3. CASE Enter(v)
  BY <1>0, <1>3 DEF Enter
<1>4. CASE Leave(v)
  BY <1>0, <1>1, <1>4 DEF Leave, Goto
<1>5. CASE LeaveGroup(v)
  BY <1>0, <1>1, <1>5 DEF LeaveGroup, Goto
<1>6. CASE Return(v)
  <2>1. Fetched(v) /\ errors' = errors /\ \E l : pc' = [pc EXCEPT ![v] = l]
    BY <1>6 DEF Return, Goto
  <2>2. wg'[v] = 0 /\ \A w \in View \ {v} : wg'[w] = wg[w]
    <3>1. wg[v] = 0 \/ wg[v] = 1
      BY <1>2
    <3> QED BY <1>0, <2>1, <3>1 DEF Fetched
  <2> QED BY <1>0, <2>1, <2>2
<1>7. CASE EnterFailed(v)
  BY <1>0, <1>7 DEF EnterFailed
<1>8. CASE ~Enter(v) /\ ~Leave(v) /\ ~LeaveGroup(v) /\ ~Return(v) /\ ~EnterFailed(v)
  <2>1. \E l \in Live \ {"leave"} : pc' = [pc EXCEPT ![v] = l]
    <3> DEFINE to(l) == pc' = [pc EXCEPT ![v] = l]
    <3>1. CASE FetchRow(v)
      BY <1>0, <3>1 DEF FetchRow, Live, Labels
    <3>2. CASE RelationsFail(v) \/ GatherFailed(v)
      BY <3>2 DEF RelationsFail, GatherFailed, Goto, Live, Labels
    <3>3. CASE GatherAll(v) \/ GatherUnmapped(v)
      BY <3>3 DEF GatherAll, GatherUnmapped, Goto, Live, Labels
    <3>4. CASE Gather(v) \/ IndexParent(v)
      <4>1. to("return") \/ to("query")
        BY <3>4 DEF Gather, IndexParent, ReadPlaceholders, Goto
      <4> QED BY <4>1 DEF Live, Labels
    <3>5. CASE OpenBatch(v) \/ CloseBatch(v)
      <4>1. to("rows") \/ to("exhausted") \/ to("query")
        BY <3>5 DEF OpenBatch, CloseBatch, Goto
      <4> QED BY <4>1 DEF Live, Labels
    <3>6. CASE QueryFails(v) \/ SkipGroup(v)
      BY <3>6 DEF QueryFails, SkipGroup, Goto, Live, Labels
    <3>7. CASE EmitFetched(v) \/ JoinRelations(v)
      BY <3>7 DEF EmitFetched, JoinRelations, Goto, Live, Labels
    <3> QED BY <1>8, <3>1, <3>2, <3>3, <3>4, <3>5, <3>6, <3>7 DEF Step
  <2>2. UNCHANGED <<wg, wgDelta>> \/ Fetched(v)
    BY <1>8, OnlyMoves DEF ReaderInv
  <2>3. \A w \in View \ {v} : wg'[w] = wg[w]
    BY <1>0, <2>2 DEF Fetched
  <2> QED BY <1>0, <1>1, <2>1, <2>3 DEF Live
<1> QED BY <1>3, <1>4, <1>5, <1>6, <1>7, <1>8

\* The read returns after all its goroutines have.
LEMMA ReturnedStep ==
  ASSUME ReaderInv, ReturnedLast, NEW v \in View, Step(v) PROVE ReturnedLast'
<1> USE DEF ReturnedLast
<1>0. pc \in [View -> Labels] /\ Root \in View
  BY ViewAssumption DEF ReaderInv, TypeOK
<1>1. outcome' = outcome
  BY DEF Step, EnterFailed, Enter, RelationsFail, GatherFailed, GatherAll, Gather,
         GatherUnmapped, IndexParent, ReadPlaceholders, OpenBatch, FetchRow,
         CloseBatch, QueryFails, SkipGroup, EmitFetched, JoinRelations, Return,
         Leave, LeaveGroup
<1>2. SUFFICES ASSUME outcome # "running" PROVE pending' = 0 /\ pc'[Root] = "done"
  BY <1>1
<1>3. Running = {} /\ pc[Root] = "done" /\ pending = 0
  BY <1>2, CountedSetsFinite, FS_EmptySet, ViewAssumption DEF ReaderInv, CountersCount
<1>4. pc[v] \notin Live
  BY <1>3 DEF Running, Live
<1>5. LeaveGroup(v)
  BY <1>4, OnlyMoves DEF ReaderInv, Enter, Leave, Live, Labels
<1>6. v # Root
  BY <1>3, <1>5 DEF LeaveGroup
<1> QED BY <1>0, <1>3, <1>5, <1>6 DEF LeaveGroup, Goto

\* When Read returns, no goroutine is left that could touch a collector or the
\* caller's rows: Service.Read after wg.Wait.
THEOREM ReadLeavesNothing == Spec => []NothingLeftBehind
<1> DEFINE Inv == ReaderInv /\ ReleasedAfterwards /\ ReturnedLast
<1>1. Init => Inv
  <2> SUFFICES ASSUME Init PROVE Inv
    OBVIOUS
  <2>1. ReleasedAfterwards
    BY DEF Init, ReleasedAfterwards
  <2>2. ReturnedLast
    BY DEF Init, ReturnedLast
  <2> QED BY <2>1, <2>2, ReaderInvInit
<1>2. Inv /\ [Next]_vars => Inv'
  <2> SUFFICES ASSUME Inv, [Next]_vars PROVE Inv'
    OBVIOUS
  <2>1. ReaderInv'
    BY ReaderInvNext
  <2>2. ASSUME NEW v \in View, Step(v) PROVE ReleasedAfterwards' /\ ReturnedLast'
    BY <2>2, ReleasedStep, ReturnedStep
  <2>3. CASE ReadFails \/ ReadMerges
    BY <2>1, <2>3 DEF ReadFails, ReadMerges, ReadDone, ReleasedAfterwards, ReturnedLast, groups
  <2>4. CASE UNCHANGED vars
    BY <2>1, <2>4 DEF vars, ReleasedAfterwards, ReturnedLast
  <2> QED BY <2>1, <2>2, <2>3, <2>4 DEF Next, Terminated
<1>3. Inv => NothingLeftBehind
  <2> SUFFICES ASSUME Inv, outcome # "running", NEW v \in View
      PROVE  /\ pc[v] \in {"idle", "done", "leaveGroup"}
             /\ errors = {} => wg[v] = 0
    BY DEF NothingLeftBehind
  <2>1. Running = {} /\ pc[Root] = "done"
    BY CountedSetsFinite, FS_EmptySet, ViewAssumption
       DEF ReaderInv, CountersCount, ReturnedLast
  <2>2. pc[v] \in {"idle", "done", "leaveGroup"}
    BY <2>1 DEF Running, Live, Labels, ReaderInv, TypeOK
  <2> QED BY <2>2 DEF ReleasedAfterwards
<1> QED BY <1>1, <1>2, <1>3, PTL DEF Spec

-----------------------------------------------------------------------------
(* Whom a collector waits for *)

\* Strategies are not mixed the harmful way: a read_matched relation that has
\* relations of its own hangs below a read_matched view.
MatchedBelowMatched ==
  \A v \in View \ {Root} : (v \notin Parallel /\ Children(v) # {}) => Parent[v] \notin Parallel

Fetching == {"enter", "gather", "index", "query", "rows", "exhausted"}
Reading == {"index", "query", "rows", "exhausted", "group"}

\* A read_matched view with relations holds its wait group until it has fetched.
HoldsUntilFetched ==
  \A v \in View : (v \notin Parallel /\ Children(v) # {} /\ pc[v] \in Fetching) => wg[v] = 1
\* A narrowed collector past its wait has a parent past its fetch.
PastFetch ==
  \A v \in View \ {Root} :
    (Narrowed(v) /\ pc[v] \in Reading)
      => pc[Parent[v]] \notin Fetching

\* All steps but Enter: where they lead, and whose counter they touch.
LEMMA FetchingMoves ==
  ASSUME ReaderInv, NEW v \in View, Step(v), ~Enter(v)
  PROVE  /\ \E l \in Labels \ {"idle", "enter", "gather"} : pc' = [pc EXCEPT ![v] = l]
         /\ \A w \in View \ {v} : wg'[w] = wg[w]
         /\ wg'[v] # wg[v] => pc'[v] \notin Fetching
         /\ pc'[v] \in Fetching => pc[v] \in Fetching
         /\ (pc'[v] \in Fetching \cup {"group"} /\ Narrowed(v))
              => (pc[v] # "gather" \/ wg[Parent[v]] = 0)
<1> USE DEF Labels, Fetching
<1>0. pc \in [View -> Labels] /\ wg \in [View -> Int]
  BY DEF ReaderInv, TypeOK
<1>1. CASE EnterFailed(v) \/ RelationsFail(v)
  BY <1>0, <1>1 DEF EnterFailed, RelationsFail, Goto, groups
<1>2. CASE GatherFailed(v) \/ GatherAll(v)
  BY <1>0, <1>2 DEF GatherFailed, GatherAll, Goto, groups
<1>3. CASE Gather(v)
  BY <1>0, <1>3 DEF Gather, ReadPlaceholders, Released, Narrowed, Goto, groups
<1>4. CASE GatherUnmapped(v)
  BY <1>0, <1>4 DEF GatherUnmapped, Released, Narrowed, Goto, groups
<1>5. CASE IndexParent(v)
  BY <1>0, <1>5 DEF IndexParent, ReadPlaceholders, Goto, groups
<1>6. CASE OpenBatch(v) \/ CloseBatch(v)
  BY <1>0, <1>6 DEF OpenBatch, CloseBatch, Goto, groups
<1>7. CASE FetchRow(v)
  BY <1>0, <1>7 DEF FetchRow, groups
<1>8. CASE QueryFails(v) \/ SkipGroup(v)
  BY <1>0, <1>8 DEF QueryFails, SkipGroup, Goto, groups
<1>9. CASE EmitFetched(v)
  BY <1>0, <1>9 DEF EmitFetched, Fetched, Goto
<1>10. CASE JoinRelations(v)
  BY <1>0, <1>10 DEF JoinRelations, Goto, groups
<1>11. CASE Return(v)
  BY <1>0, <1>11 DEF Return, Fetched, Goto
<1>12. CASE Leave(v) \/ LeaveGroup(v)
  BY <1>0, <1>12 DEF Leave, LeaveGroup, Goto
<1> QED
  BY <1>1, <1>2, <1>3, <1>4, <1>5, <1>6, <1>7, <1>8, <1>9, <1>10, <1>11, <1>12 DEF Step

\* A view with relations holds their wait group until it has fetched.
LEMMA HoldsStep ==
  ASSUME MatchedBelowMatched, ReaderInv, HoldsUntilFetched, NEW v \in View, Step(v)
  PROVE  HoldsUntilFetched'
<1> SUFFICES ASSUME NEW w \in View, w \notin Parallel, Children(w) # {}, pc'[w] \in Fetching
    PROVE  wg'[w] = 1
  BY DEF HoldsUntilFetched, Children
<1>0. pc \in [View -> Labels] /\ wg \in [View -> Int]
  BY DEF ReaderInv, TypeOK
<1>1. CASE Enter(v)
  <2>1. /\ pc[v] = "enter"
        /\ pc' = [x \in View |-> IF x = v THEN "gather"
                                 ELSE IF x \in Children(v) THEN "enter" ELSE pc[x]]
        /\ wg' = [x \in View |-> IF x \in Children(v)
                                 THEN IF v \in Parallel THEN 0 ELSE 1 ELSE wg[x]]
    BY <1>1 DEF Enter
  <2>2. CASE w \in Children(v)
    <3>1. v \notin Parallel
      BY <2>2, ChildrenFinite DEF MatchedBelowMatched, Children
    <3> QED BY <2>1, <2>2, <3>1
  <2>3. CASE w \notin Children(v)
    BY <2>1, <2>3 DEF HoldsUntilFetched, Fetching
  <2> QED BY <2>2, <2>3
<1>2. CASE ~Enter(v)
  <2>1. PICK l : pc' = [pc EXCEPT ![v] = l]
    BY <1>2, FetchingMoves
  <2>2. CASE w = v
    BY <1>2, <2>2, FetchingMoves DEF HoldsUntilFetched
  <2>3. CASE w # v
    BY <1>0, <1>2, <2>1, <2>3, FetchingMoves DEF HoldsUntilFetched
  <2> QED BY <2>2, <2>3
<1> QED BY <1>1, <1>2

\* Who gathers from a parent does so after the parent has fetched.
LEMMA PastFetchStep ==
  ASSUME ReaderInv, HoldsUntilFetched, PastFetch, NEW v \in View, Step(v)
  PROVE  PastFetch'
<1> USE DEF Reading
<1> SUFFICES ASSUME NEW w \in View \ {Root}, Narrowed(w),
                    pc'[w] \in Reading
    PROVE  pc'[Parent[w]] \notin Fetching
  BY DEF PastFetch, Narrowed
<1> DEFINE p == Parent[w]
<1>0. /\ pc \in [View -> Labels] /\ wg \in [View -> Int]
      /\ p \in View /\ SpawnedByParent
  BY ParentIsView DEF ReaderInv, TypeOK
<1>1. CASE Enter(v)
  <2>1. /\ pc[v] = "enter"
        /\ pc' = [x \in View |-> IF x = v THEN "gather"
                                 ELSE IF x \in Children(v) THEN "enter" ELSE pc[x]]
    BY <1>1 DEF Enter
  <2>2. w # v /\ w \notin Children(v) /\ pc[w] = pc'[w]
    BY <2>1
  <2>3. pc[p] \notin Fetching
    BY <2>2 DEF PastFetch
  <2>4. p # v
    BY <2>1, <2>3 DEF Fetching
  <2>5. p \notin Children(v)
    <3>1. p \in Children(v) => (p \in View \ {Root} /\ Parent[p] = v)
      BY ChildrenFinite DEF Children
    <3>2. pc[w] # "idle"
      BY <2>2 DEF Fetching
    <3>3. pc[p] # "idle"
      BY <1>0, <3>2 DEF SpawnedByParent
    <3> QED BY <1>0, <2>1, <3>1, <3>3 DEF SpawnedByParent
  <2> QED BY <1>0, <2>1, <2>3, <2>4, <2>5
<1>2. CASE ~Enter(v)
  <2>1. PICK l \in Labels \ {"idle", "enter", "gather"} : pc' = [pc EXCEPT ![v] = l]
    BY <1>2, FetchingMoves
  <2>2. pc'[p] \in Fetching => pc[p] \in Fetching
    BY <1>0, <1>2, <2>1, FetchingMoves
  <2>3. pc[p] \notin Fetching
    <3>1. CASE pc[w] \in Reading
      BY <3>1 DEF PastFetch
    <3>2. CASE pc[w] \notin Reading
      <4>1. w = v /\ pc[w] \in {"enter", "gather"}
        <5>1. w = v
          BY <1>0, <2>1, <3>2
        <5>2. pc'[v] \in Fetching => pc[v] \in Fetching
          BY <1>2, FetchingMoves
        <5>3. CASE pc'[v] = "group"
          <6>1. EmitFetched(v)
            BY <1>2, <5>3, <1>0, <3>2, <5>1 DEF Step, EnterFailed, RelationsFail,
               GatherFailed, GatherAll, Gather, GatherUnmapped, IndexParent,
               ReadPlaceholders, OpenBatch, CloseBatch, QueryFails, SkipGroup,
               JoinRelations, FetchRow, Return, Leave, LeaveGroup, Goto
          <6> QED BY <3>2, <5>1, <6>1 DEF EmitFetched, Fetching
        <5> QED BY <3>2, <5>1, <5>2, <5>3 DEF Fetching
      <4>2. pc[w] = "gather"
        <5>1. CASE pc[w] = "enter"
          BY <1>0, <1>2, <4>1, <5>1 DEF Step, EnterFailed, RelationsFail, GatherFailed,
             GatherAll, Gather, GatherUnmapped, IndexParent, OpenBatch, CloseBatch,
             QueryFails, SkipGroup, EmitFetched, JoinRelations, FetchRow, Return,
             Leave, LeaveGroup, Goto, Fetching
        <5> QED BY <4>1, <5>1
      <4>3. wg[p] = 0
        <5>1. pc'[v] \in Fetching \cup {"group"} /\ Narrowed(v)
          BY <4>1 DEF Fetching
        <5> QED BY <1>2, <4>1, <4>2, <5>1, FetchingMoves
      <4>4. p \notin Parallel /\ w \in Children(p)
        BY <1>0, <4>2 DEF Narrowed, SpawnedByParent, Children
      <4> QED BY <1>0, <4>3, <4>4 DEF HoldsUntilFetched
    <3> QED BY <3>1, <3>2
  <2> QED BY <2>2, <2>3
<1> QED BY <1>1, <1>2

\* With strategies mixed in no harmful way, a relation that is narrowed to its
\* parent's rows is read only after all of them: Collector.WaitIfNeeded and
\* Fetched.
THEOREM NarrowedReadsFetched ==
  ASSUME MatchedBelowMatched PROVE Spec => []ReadsFetchedParent
<1> DEFINE Inv == ReaderInv /\ HoldsUntilFetched /\ PastFetch
<1>1. Init => Inv
  <2> SUFFICES ASSUME Init PROVE Inv
    OBVIOUS
  <2>1. HoldsUntilFetched
    BY DEF Init, HoldsUntilFetched, Fetching
  <2>2. PastFetch
    BY DEF Init, PastFetch, Reading
  <2> QED BY <2>1, <2>2, ReaderInvInit
<1>2. Inv /\ [Next]_vars => Inv'
  <2> SUFFICES ASSUME Inv, [Next]_vars PROVE Inv'
    OBVIOUS
  <2>1. ReaderInv'
    BY ReaderInvNext
  <2>2. ASSUME NEW v \in View, Step(v) PROVE HoldsUntilFetched' /\ PastFetch'
    BY <2>2, HoldsStep, PastFetchStep
  <2>3. CASE ReadFails \/ ReadMerges \/ UNCHANGED vars
    <3>1. UNCHANGED <<pc, wg>>
      BY <2>3 DEF ReadFails, ReadMerges, vars, groups
    <3> QED BY <2>1, <3>1 DEF HoldsUntilFetched, PastFetch, Narrowed, Children
  <2> QED BY <2>1, <2>2, <2>3 DEF Next, Terminated
<1>3. Inv => ReadsFetchedParent
  BY DEF PastFetch, ReadsFetchedParent, Reading, Fetching
<1> QED BY <1>1, <1>2, <1>3, PTL DEF Spec

\* Both at once: the wait groups of Read and of its collectors are used as they may be
\* (sync.WaitGroup panics below zero), and leave nothing behind.
THEOREM WaitGroupsSafe == Spec => []WaitGroups
<1>1. CountersNeverNegative /\ NothingLeftBehind => WaitGroups
  BY DEF WaitGroups
<1> QED BY <1>1, CountersSafe, ReadLeavesNothing, PTL

-----------------------------------------------------------------------------
(* Who writes the positions of a collector.                                *)

\* Only a relation on a column without a field in the parent writes positions of its parent,
\* and it is narrowed to its rows.
WritesUnmapped == \A c \in View : pc[c] = "index" => c \in Unmapped /\ Narrowed(c)

\* A relation gets to the positions from where it gathers placeholders.
LEMMA WritesUnmappedStep ==
  ASSUME ReaderInv, WritesUnmapped, NEW v \in View, Step(v)
  PROVE  WritesUnmapped'
<1>1. pc \in [View -> Labels]
  BY DEF ReaderInv, TypeOK
<1>2. CASE Enter(v)
  BY <1>2 DEF Enter, WritesUnmapped, Narrowed
<1>3. CASE GatherUnmapped(v)
  BY <1>1, <1>3 DEF GatherUnmapped, Goto, WritesUnmapped, Narrowed
<1>4. CASE FetchRow(v)
  BY <1>4 DEF FetchRow, WritesUnmapped, Narrowed
<1>5. CASE ~(Enter(v) \/ GatherUnmapped(v) \/ FetchRow(v))
  <2>1. \E l : l # "index" /\ pc' = [pc EXCEPT ![v] = l]
    BY <1>5 DEF Step, EnterFailed, RelationsFail, GatherFailed, GatherAll, Gather, IndexParent,
       ReadPlaceholders, OpenBatch, CloseBatch, QueryFails, SkipGroup, EmitFetched, JoinRelations,
       Return, Leave, LeaveGroup, Goto
  <2> QED BY <1>1, <2>1 DEF WritesUnmapped, Narrowed
<1> QED BY <1>2, <1>3, <1>4, <1>5

-----------------------------------------------------------------------------
(* Which data a read may be asked to join.                                 *)

\* The rows of the parent differ in the column the relation is on ...
KeysDiffer(v) ==
  \A r, s \in Table[Parent[v]] : ParentKey[v][r] = ParentKey[v][s] => r = s

\* ... or are so few that all placeholders are in one query.
OneBatch(v) ==
  IsFiniteSet(Table[Parent[v]]) /\ Cardinality(Table[Parent[v]]) <= BatchParent[v]

\* No row of the view is read twice: two batches with the same placeholder
\* would deliver its rows twice.
ReadOnceEach(v) == (Narrowed(v) /\ v \notin Unmapped) => (KeysDiffer(v) \/ OneBatch(v))

\* Only a relation of cardinality One without relations of its own may be.
KeysFit == \A v \in View : ReadOnceEach(v) \/ (v \notin Many /\ Children(v) = {})

-----------------------------------------------------------------------------
(* The invariant. All of it is about a read in which nothing failed yet.   *)

Before == {"idle", "enter", "gather", "index"}
Finished == {"exhausted", "group", "return", "leave", "leaveGroup", "done"}

Distinct(s) == \A i, j \in DOMAIN s : s[i] = s[j] => i = j

\* A narrowed collector past its wait has a parent past its fetch.
PastWait ==
  \A v \in View :
    (Narrowed(v) /\ pc[v] \notin {"idle", "enter", "gather"}) => pc[Parent[v]] \notin Fetching

\* Whoever entered has spawned all of its relations.
AllSpawned ==
  \A v \in View : pc[v] \notin {"idle", "enter"} => \A c \in Children(v) : pc[c] # "idle"

\* OnRelation ran after the last relation was done, in views that wait for a group.
RelatedLast ==
  /\ \A v \in View : pc[v] = "group" => v \notin Parallel
  /\ \A v \in related : v \notin Parallel /\ \A c \in Children(v) : pc[c] = "done"

\* The rows of the queries that have been run.
Opened(v) ==
  IF Narrowed(v)
  THEN {r \in Table[v] : \E i \in 1..from[v] : values[v][i] = ChildKey[r]}
  ELSE IF pc[v] \in Before \cup {"query"} THEN {} ELSE Table[v]

\* Where the batches of a view are.
BatchesOK(v) ==
  /\ from[v] <= Len(values[v])
  /\ pc[v] \in Before => values[v] = <<>> /\ dest[v] = <<>> /\ held[v] = <<>>
  /\ pc[v] # "rows" => left[v] = {}
  /\ pc[v] \in Finished => from[v] = Len(values[v])
  /\ ~Narrowed(v) => values[v] = <<>>
  /\ (Narrowed(v) /\ pc[v] = "query") => from[v] < Len(values[v])
  /\ (Narrowed(v) /\ ReadOnceEach(v)) =>
       \/ Distinct(values[v])
       \/ Len(values[v]) <= BatchParent[v] /\ from[v] \in {0, Len(values[v])}

\* The collector has the rows delivered so far.
RowsOK(v) ==
  /\ left[v] \subseteq Opened(v)
  /\ \A j \in DOMAIN dest[v] : dest[v][j] \in Opened(v)
  /\ \A r \in Opened(v) \ left[v] : \E j \in DOMAIN dest[v] : dest[v][j] = r
  /\ ReadOnceEach(v) => Distinct(dest[v]) /\ \A j \in DOMAIN dest[v] : dest[v][j] \notin left[v]

\* The i-th row of the parent holds those of them that belong to it.
HolderOK(c, i) ==
  IF c \in Many
  THEN \A r \in Row : Holder(c, i)[r] = IF r \in Opened(c) \ left[c] /\ ChildKey[r] = KeyAt(c, i)
                                        THEN 1 ELSE 0
  ELSE /\ \/ Holder(c, i) = NoRows
          \/ \E m \in Opened(c) : /\ ChildKey[m] = KeyAt(c, i)
                                  /\ Holder(c, i) = [NoRows EXCEPT ![m] = 1]
       /\ \A r \in Opened(c) \ left[c] : ChildKey[r] = KeyAt(c, i) => Holder(c, i) # NoRows

\* Every row of the parent has a placeholder and holds what it should.
HeldOK(c) ==
  \A i \in DOMAIN dest[Parent[c]] :
    /\ pc[c] \notin Before => \E j \in DOMAIN values[c] : values[c][j] = KeyAt(c, i)
    /\ HolderOK(c, i)

ViewOK(v) == BatchesOK(v) /\ RowsOK(v) /\ (Narrowed(v) => HeldOK(v))

JoinInv ==
  /\ errors \subseteq MayFail
  /\ errors = {} =>
       /\ PastWait /\ AllSpawned /\ RelatedLast
       /\ \A v \in View : ViewOK(v)

-----------------------------------------------------------------------------
(* The steps of a read without an error.                                   *)

\* Errors are kept, and only where something may fail.
LEMMA ErrorsStep ==
  ASSUME NEW v \in View, Step(v)
  PROVE  errors \subseteq errors' /\ errors' \subseteq errors \cup MayFail
BY DEF Step, EnterFailed, Enter, RelationsFail, GatherFailed, GatherAll, Gather,
       GatherUnmapped, IndexParent, ReadPlaceholders, OpenBatch, FetchRow,
       CloseBatch, QueryFails, Fail, SkipGroup, EmitFetched, JoinRelations,
       Return, Leave, LeaveGroup

\* What a view does when nothing has failed.
Succeeds(v) ==
  \/ Enter(v) \/ GatherAll(v) \/ Gather(v) \/ GatherUnmapped(v) \/ IndexParent(v)
  \/ OpenBatch(v) \/ FetchRow(v) \/ CloseBatch(v)
  \/ SkipGroup(v) \/ EmitFetched(v) \/ JoinRelations(v)
  \/ Return(v) \/ Leave(v) \/ LeaveGroup(v)

\* A step after which there is no error took none of the branches that fail.
LEMMA SuccessfulStep ==
  ASSUME NEW v \in View, Step(v), errors' = {} PROVE errors = {} /\ Succeeds(v)
<1>1. errors = {}
  BY ErrorsStep
<1>2. ~EnterFailed(v) /\ ~RelationsFail(v) /\ ~GatherFailed(v) /\ ~QueryFails(v)
  BY <1>1 DEF EnterFailed, RelationsFail, GatherFailed, QueryFails, Fail
<1> QED BY <1>1, <1>2 DEF Step, Succeeds

\* Where a view goes, once it entered.
LEMMA SuccessfulMoves ==
  ASSUME TypeOK, NEW v \in View, Succeeds(v), ~Enter(v)
  PROVE  /\ \E l \in Labels \ {"idle", "enter", "gather"} : pc' = [pc EXCEPT ![v] = l]
         /\ pc[v] \notin {"idle", "enter", "done"}
         /\ pc[v] = "gather" => Released(v)
         /\ pc'[v] \in Fetching => pc[v] \in Fetching
         /\ pc'[v] = "group" => (v \notin Parallel \/ pc[v] = "group")
         /\ related' = related \/ JoinRelations(v)
<1> USE DEF Labels, Fetching, Goto
<1>0. pc \in [View -> Labels]
  BY DEF TypeOK
<1>1. CASE GatherAll(v) \/ GatherUnmapped(v)
  BY <1>0, <1>1 DEF GatherAll, GatherUnmapped
<1>2. CASE Gather(v) \/ IndexParent(v)
  BY <1>0, <1>2 DEF Gather, IndexParent, ReadPlaceholders
<1>3. CASE OpenBatch(v) \/ FetchRow(v) \/ CloseBatch(v)
  BY <1>0, <1>3 DEF OpenBatch, FetchRow, CloseBatch
<1>4. CASE SkipGroup(v) \/ EmitFetched(v) \/ JoinRelations(v)
  BY <1>0, <1>4 DEF SkipGroup, EmitFetched, JoinRelations
<1>5. CASE Return(v) \/ Leave(v) \/ LeaveGroup(v)
  BY <1>0, <1>5 DEF Return, Leave, LeaveGroup
<1> QED BY <1>1, <1>2, <1>3, <1>4, <1>5 DEF Succeeds

\* A view that is entered starts its relations, which were idle.
LEMMA SuccessfulEnter ==
  ASSUME ReaderInv, NEW v \in View, Enter(v)
  PROVE  /\ pc[v] = "enter" /\ pc'[v] = "gather" /\ v \notin Children(v)
         /\ \A w \in View \ {v} : w \notin Children(v) => pc'[w] = pc[w]
         /\ \A c \in Children(v) : c \in View \ {Root} /\ pc[c] = "idle" /\ pc'[c] = "enter"
         /\ UNCHANGED <<data, related>>
<1>1. /\ pc[v] = "enter"
      /\ pc' = [x \in View |-> IF x = v THEN "gather"
                               ELSE IF x \in Children(v) THEN "enter" ELSE pc[x]]
      /\ UNCHANGED <<data, related>>
  BY DEF Enter
<1>2. \A c \in Children(v) : c \in View \ {Root} /\ Parent[c] = v
  BY ChildrenFinite DEF Children
<1>3. \A c \in Children(v) : pc[c] = "idle"
  BY <1>1, <1>2 DEF ReaderInv, SpawnedByParent
<1>4. v \notin Children(v)
  BY <1>1, <1>3
<1> QED BY <1>1, <1>2, <1>3, <1>4

\* A relation leaves its wait only when its parent has fetched, and nobody starts
\* fetching again.
LEMMA PastWaitStep ==
  ASSUME ReaderInv, HoldsUntilFetched, PastWait, NEW v \in View, Succeeds(v)
  PROVE  PastWait'
<1> SUFFICES ASSUME NEW w \in View, Narrowed(w), pc'[w] \notin {"idle", "enter", "gather"}
    PROVE  pc'[Parent[w]] \notin Fetching
  BY DEF PastWait, Narrowed
<1> DEFINE p == Parent[w]
<1>0. w # Root /\ p \in View /\ p \notin Parallel /\ pc \in [View -> Labels] /\ SpawnedByParent
  BY ParentIsView DEF ReaderInv, TypeOK, Narrowed
<1>1. CASE Enter(v)
  <2>1. w # v /\ w \notin Children(v) /\ pc[w] = pc'[w]
    BY <1>1, SuccessfulEnter
  <2>2. pc[p] \notin Fetching
    BY <2>1 DEF PastWait
  <2>3. p # v /\ p \notin Children(v)
    <3>1. pc[p] # "idle"
      BY <1>0, <2>1 DEF SpawnedByParent
    <3> QED BY <1>1, <2>2, <3>1, SuccessfulEnter DEF Fetching
  <2> QED BY <1>0, <1>1, <2>2, <2>3, SuccessfulEnter
<1>2. CASE ~Enter(v)
  <2>1. PICK l \in Labels \ {"idle", "enter", "gather"} : pc' = [pc EXCEPT ![v] = l]
    BY <1>2, SuccessfulMoves DEF ReaderInv
  <2>2. pc'[p] \in Fetching => pc[p] \in Fetching
    <3>1. CASE p = v
      BY <1>2, <3>1, SuccessfulMoves DEF ReaderInv
    <3> QED BY <1>0, <2>1, <3>1
  <2>3. pc[p] \notin Fetching
    <3>1. CASE pc[w] \notin {"idle", "enter", "gather"}
      BY <3>1 DEF PastWait
    <3>2. CASE pc[w] \in {"idle", "enter", "gather"}
      <4>1. w = v
        BY <1>0, <2>1, <3>2
      <4>2. pc[w] = "gather" /\ Released(w)
        BY <1>2, <3>2, <4>1, SuccessfulMoves DEF ReaderInv
      <4>3. wg[p] = 0 /\ w \in Children(p)
        BY <1>0, <4>2 DEF Released, SpawnedByParent, Children
      <4> QED BY <1>0, <4>3 DEF HoldsUntilFetched
    <3> QED BY <3>1, <3>2
  <2> QED BY <2>2, <2>3
<1> QED BY <1>1, <1>2

\* Relations spawns every collector it keeps.
LEMMA AllSpawnedStep ==
  ASSUME ReaderInv, AllSpawned, NEW v \in View, Succeeds(v)
  PROVE  AllSpawned'
<1> SUFFICES ASSUME NEW w \in View, pc'[w] \notin {"idle", "enter"},
                    NEW c \in Children(w)
    PROVE  pc'[c] # "idle"
  BY DEF AllSpawned, Children
<1>0. c \in View /\ pc \in [View -> Labels]
  BY ChildrenFinite DEF ReaderInv, TypeOK
<1>1. CASE Enter(v)
  BY <1>0, <1>1, SuccessfulEnter DEF AllSpawned
<1>2. CASE ~Enter(v)
  <2>1. PICK l \in Labels \ {"idle", "enter", "gather"} : pc' = [pc EXCEPT ![v] = l]
    BY <1>2, SuccessfulMoves DEF ReaderInv
  <2>2. pc[w] \notin {"idle", "enter"}
    <3>1. CASE w = v
      BY <1>2, <3>1, SuccessfulMoves DEF ReaderInv
    <3> QED BY <1>0, <2>1, <3>1
  <2> QED BY <1>0, <2>1, <2>2 DEF AllSpawned
<1> QED BY <1>1, <1>2

\* relationGroup.Wait returns when every relation is done, because the group
\* counts the ones that are not.
LEMMA RelatedLastStep ==
  ASSUME ReaderInv, AllSpawned, RelatedLast, NEW v \in View, Succeeds(v)
  PROVE  RelatedLast'
<1>0. pc \in [View -> Labels] /\ related \subseteq View
  BY DEF ReaderInv, TypeOK
<1>1. CASE Enter(v)
  <2>1. ASSUME NEW w \in View, pc'[w] = "group" PROVE w \notin Parallel
    BY <1>1, <2>1, SuccessfulEnter DEF RelatedLast
  <2>2. ASSUME NEW w \in related, NEW c \in Children(w) PROVE pc'[c] = "done"
    <3>1. pc[c] = "done" /\ c \in View
      BY <1>0, ChildrenFinite DEF RelatedLast
    <3> QED BY <1>1, <3>1, SuccessfulEnter
  <2> QED BY <1>1, <2>1, <2>2, SuccessfulEnter DEF RelatedLast, Children
<1>2. CASE ~Enter(v)
  <2>1. PICK l \in Labels \ {"idle", "enter", "gather"} : pc' = [pc EXCEPT ![v] = l]
    BY <1>2, SuccessfulMoves DEF ReaderInv
  <2>2. ASSUME NEW w \in View, pc'[w] = "group" PROVE w \notin Parallel
    <3>1. CASE w = v
      BY <1>2, <2>2, <3>1, SuccessfulMoves DEF ReaderInv, RelatedLast
    <3> QED BY <1>0, <2>1, <2>2, <3>1 DEF RelatedLast
  <2>3. ASSUME NEW w \in related', NEW c \in Children(w)
        PROVE  w \notin Parallel /\ pc'[c] = "done"
    <3>1. c \in View
      BY <1>0, <1>2, <2>3, ChildrenFinite, SuccessfulMoves DEF ReaderInv, JoinRelations
    <3>2. w \notin Parallel /\ pc[c] = "done"
      <4>1. CASE w \in related
        BY <4>1 DEF RelatedLast
      <4>2. CASE w \notin related
        <5>1. w = v /\ JoinRelations(v)
          BY <1>2, <2>3, <4>2, SuccessfulMoves DEF ReaderInv, JoinRelations
        <5>2. v \notin Parallel /\ group[v] = 0 /\ pc[v] = "group"
          BY <5>1 DEF JoinRelations, RelatedLast
        <5>3. Related(v) = {}
          BY <5>2, CountedSetsFinite, FS_EmptySet DEF ReaderInv, CountersCount
        <5>4. pc[c] # "idle"
          BY <5>1, <5>2 DEF AllSpawned
        <5> QED BY <5>1, <5>2, <5>3, <5>4 DEF Related
      <4> QED BY <4>1, <4>2
    <3> QED BY <1>0, <1>2, <2>1, <3>1, <3>2, SuccessfulMoves DEF ReaderInv
  <2>4. ASSUME NEW w \in related' PROVE w \notin Parallel
    BY <1>2, <2>4, SuccessfulMoves DEF ReaderInv, JoinRelations, RelatedLast
  <2> QED BY <2>2, <2>3, <2>4 DEF RelatedLast, Children
<1> QED BY <1>1, <1>2

-----------------------------------------------------------------------------
(* The rows a view has, step by step.                                      *)

\* What is set aside for one view is set before its own query only.
LEMMA DataType ==
  ASSUME TypeOK, NEW v \in View
  PROVE  /\ values[v] \in Seq(Key) /\ from[v] \in Nat /\ left[v] \subseteq Row
         /\ dest[v] \in Seq(Row) /\ held[v] \in Seq([Row -> Nat])
         /\ Len(values[v]) \in Nat /\ DOMAIN values[v] = 1..Len(values[v])
         /\ Len(dest[v]) \in Nat /\ DOMAIN dest[v] = 1..Len(dest[v])
<1>1. values[v] \in Seq(Key) /\ from[v] \in Nat /\ left[v] \subseteq Row
  BY DEF TypeOK
<1>2. dest[v] \in Seq(Row) /\ held[v] \in Seq([Row -> Nat])
  BY DEF TypeOK
<1> QED BY <1>1, <1>2

\* No view has opened a query before it gathered its placeholders.
LEMMA NothingBefore ==
  ASSUME TypeOK, NEW v \in View, BatchesOK(v), pc[v] \in Before
  PROVE  /\ from[v] = 0 /\ Opened(v) = {}
         /\ \A i : Holder(v, i) = NoRows
<1>1. values[v] = <<>> /\ held[v] = <<>> /\ from[v] \in Nat /\ from[v] <= Len(values[v])
  BY DataType DEF BatchesOK
<1>2. from[v] = 0
  BY <1>1
<1>3. Opened(v) = {}
  BY <1>2 DEF Opened
<1> QED BY <1>1, <1>2, <1>3 DEF Holder

\* Other goroutines and the steps outside of the query leave a view's rows alone.
LEMMA ViewFrame ==
  ASSUME TypeOK, NEW v \in View, ViewOK(v),
         values'[v] = values[v], from'[v] = from[v], left'[v] = left[v],
         dest'[v] = dest[v], held'[v] = held[v],
         \/ pc'[v] = pc[v]
         \/ pc[v] \in Before /\ pc'[v] \in Before
         \/ pc[v] \in Finished /\ pc'[v] \in Finished,
         Narrowed(v) => (pc[v] \in Before \/ dest'[Parent[v]] = dest[Parent[v]])
  PROVE  ViewOK(v)'
<1>0. /\ pc[v] \in Before <=> pc'[v] \in Before
      /\ pc[v] \in Finished <=> pc'[v] \in Finished
      /\ pc[v] = "query" <=> pc'[v] = "query"
      /\ pc[v] = "rows" <=> pc'[v] = "rows"
  BY DEF Before, Finished
<1>1. BatchesOK(v)'
  BY <1>0 DEF ViewOK, BatchesOK, Narrowed, ReadOnceEach, KeysDiffer, OneBatch, Distinct
<1>2. Opened(v)' = Opened(v)
  BY <1>0 DEF Opened, Narrowed
<1>3. RowsOK(v)'
  BY <1>2 DEF ViewOK, RowsOK, Narrowed, ReadOnceEach, KeysDiffer, OneBatch, Distinct
<1>4. ASSUME Narrowed(v) PROVE HeldOK(v)'
  <2>1. CASE pc[v] \in Before
    <3>1. Opened(v) = {} /\ held[v] = <<>>
      BY <2>1, NothingBefore DEF ViewOK, BatchesOK
    <3>2. ASSUME NEW i PROVE HolderOK(v, i)'
      <4>1. Holder(v, i)' = NoRows
        BY <3>1 DEF Holder, NoRows
      <4>2. Opened(v)' = {}
        BY <1>2, <3>1
      <4> QED BY <4>1, <4>2 DEF HolderOK, NoRows
    <3> QED BY <1>0, <2>1, <3>2 DEF HeldOK
  <2>2. CASE dest'[Parent[v]] = dest[Parent[v]]
    <3>1. HeldOK(v)
      BY <1>4 DEF ViewOK
    <3>2. \A i : Holder(v, i)' = Holder(v, i) /\ KeyAt(v, i)' = KeyAt(v, i)
      BY <2>2 DEF Holder, KeyAt, NoRows
    <3>3. \A i : HolderOK(v, i)' <=> HolderOK(v, i)
      BY <1>2, <3>2 DEF HolderOK, NoRows
    <3> QED BY <1>0, <2>2, <3>1, <3>2, <3>3 DEF HeldOK
  <2> QED BY <1>4, <2>1, <2>2
<1> QED BY <1>1, <1>3, <1>4 DEF ViewOK, Narrowed

\* A view whose parent gives no placeholders has no rows before its one query.
LEMMA GatherAllView ==
  ASSUME TypeOK, NEW v \in View, ViewOK(v), GatherAll(v) PROVE ViewOK(v)'
<1>0. /\ ~Narrowed(v) /\ pc[v] = "gather" /\ pc'[v] = "query"
      /\ values'[v] = values[v] /\ from'[v] = from[v] /\ left'[v] = left[v]
      /\ dest'[v] = dest[v] /\ held'[v] = held[v]
  BY DEF GatherAll, Goto, TypeOK, data
<1>1. values[v] = <<>> /\ dest[v] = <<>> /\ left[v] = {}
  BY <1>0 DEF ViewOK, BatchesOK, Before
<1>2. BatchesOK(v)'
  BY <1>0, <1>1 DEF ViewOK, BatchesOK, Before, Finished, Narrowed
<1>3. RowsOK(v)'
  BY <1>0, <1>1 DEF RowsOK, Distinct, Opened, Narrowed
<1> QED BY <1>0, <1>2, <1>3 DEF ViewOK, Narrowed

\* Placeholders for every row of the parent, none twice unless one query takes all.
LEMMA ReadPlaceholdersView ==
  ASSUME TypeOK, NEW v \in View, ViewOK(v), Narrowed(v), pc[v] \in Before,
         NEW ks \in Seq(Key), ReadPlaceholders(v, ks),
         \A i \in DOMAIN dest[Parent[v]] : \E j \in DOMAIN ks : ks[j] = KeyAt(v, i),
         ReadOnceEach(v) => (Distinct(ks) \/ Len(ks) <= BatchParent[v])
  PROVE  ViewOK(v)'
<1>0. /\ pc'[v] = IF ks = <<>> THEN "return" ELSE "query"
      /\ values'[v] = ks /\ from'[v] = from[v] /\ left'[v] = left[v]
      /\ dest' = dest /\ held'[v] = held[v]
  BY DEF ReadPlaceholders, Goto, TypeOK
<1>1. /\ dest[v] = <<>> /\ left[v] = {} /\ held[v] = <<>>
      /\ from[v] = 0
  BY NothingBefore DEF ViewOK, BatchesOK, Before
<1>2. Opened(v)' = {}
  BY <1>0, <1>1 DEF Opened, Narrowed
<1>3. BatchesOK(v)'
  <2>1. Len(ks) \in Nat /\ (ks = <<>> => Len(ks) = 0) /\ (ks # <<>> => Len(ks) > 0)
    OBVIOUS
  <2>2. from'[v] = 0 /\ left'[v] = {} /\ pc'[v] \in {"return", "query"}
    BY <1>0, <1>1
  <2>3. pc'[v] \in Finished => from'[v] = Len(values'[v])
    BY <1>0, <1>1, <2>1 DEF Finished
  <2>4. pc'[v] = "query" => from'[v] < Len(values'[v])
    BY <1>0, <1>1, <2>1
  <2>5. ReadOnceEach(v) => (Distinct(values'[v])
                              \/ (Len(values'[v]) <= BatchParent[v] /\ from'[v] = 0))
    BY <1>0, <1>1
  <2>6. ReadOnceEach(v)' <=> ReadOnceEach(v)
    BY DEF ReadOnceEach, KeysDiffer, OneBatch, Narrowed
  <2> QED BY <1>0, <2>1, <2>2, <2>3, <2>4, <2>5, <2>6 DEF BatchesOK, Before, Narrowed, Distinct
<1>4. RowsOK(v)'
  BY <1>0, <1>1, <1>2 DEF RowsOK, Distinct
<1>5. ASSUME NEW i PROVE HolderOK(v, i)'
  <2>1. Holder(v, i)' = NoRows
    BY <1>0, <1>1 DEF Holder, NoRows
  <2> QED BY <1>2, <2>1 DEF HolderOK, NoRows
<1>6. HeldOK(v)'
  BY <1>0, <1>5 DEF HeldOK, KeyAt
<1> QED BY <1>3, <1>4, <1>6 DEF ViewOK

\* After a batch the next one starts, or, after the last, all placeholders are read.
LEMMA CloseBatchView ==
  ASSUME TypeOK, NEW v \in View, ViewOK(v), CloseBatch(v) PROVE ViewOK(v)'
<1>0. /\ pc[v] = "rows" /\ left[v] = {}
      /\ pc'[v] = IF from[v] = Len(values[v]) THEN "exhausted" ELSE "query"
      /\ values' = values /\ from' = from /\ left' = left /\ dest' = dest /\ held' = held
  BY DEF CloseBatch, Goto, TypeOK, data
<1>1. from[v] \in Nat /\ Len(values[v]) \in Nat
  BY DataType
<1>2. ~Narrowed(v) => pc'[v] = "exhausted"
  <2> SUFFICES ASSUME ~Narrowed(v) PROVE from[v] = Len(values[v])
    BY <1>0
  <2>1. Len(values[v]) = 0 /\ from[v] <= Len(values[v])
    BY DEF ViewOK, BatchesOK
  <2> QED BY <1>1, <2>1
<1>3. Opened(v)' = Opened(v)
  BY <1>0, <1>2 DEF Opened, Narrowed, Before
<1>4. BatchesOK(v)'
  BY <1>0, <1>1, <1>2
     DEF ViewOK, BatchesOK, Before, Finished, Narrowed, ReadOnceEach, KeysDiffer, OneBatch, Distinct
<1>5. RowsOK(v)'
  BY <1>0, <1>3 DEF ViewOK, RowsOK, Narrowed, ReadOnceEach, KeysDiffer, OneBatch, Distinct
<1>6. Narrowed(v) => HeldOK(v)'
  <2>1. \A i : HolderOK(v, i)' <=> HolderOK(v, i)
    BY <1>0, <1>3 DEF HolderOK, Holder, KeyAt, NoRows
  <2> QED BY <1>0, <2>1 DEF ViewOK, HeldOK, Before, KeyAt
<1> QED BY <1>4, <1>5, <1>6 DEF ViewOK, Narrowed

\* Where a batch ends: sliceWithLimit.
LEMMA BatchEndIs ==
  ASSUME TypeOK, NEW v \in View, from[v] <= Len(values[v])
  PROVE  /\ BatchEnd(v) \in Nat /\ from[v] <= BatchEnd(v) /\ BatchEnd(v) <= Len(values[v])
         /\ Len(values[v]) <= BatchParent[v] => BatchEnd(v) = Len(values[v])
BY DataType, DataAssumption DEF BatchEnd, Smaller

\* The rows of the next batch are new ones, if no row is to be read twice.
LEMMA NextBatch ==
  ASSUME TypeOK, NEW v \in View, ViewOK(v), OpenBatch(v), Narrowed(v)
  PROVE  /\ Opened(v)' = Opened(v) \cup left'[v]
         /\ ReadOnceEach(v) => Opened(v) \cap left'[v] = {}
<1>0. /\ pc[v] = "query"
      /\ values' = values /\ from'[v] = BatchEnd(v)
      /\ left'[v] = {r \in Table[v] : ChildKey[r] \in InBatch(v)}
  BY DEF OpenBatch, Goto, TypeOK
<1>1. from[v] < Len(values[v]) /\ from[v] \in Nat /\ Len(values[v]) \in Nat
  BY <1>0, DataType DEF ViewOK, BatchesOK
<1>2. from[v] <= BatchEnd(v) /\ BatchEnd(v) \in Nat /\ BatchEnd(v) <= Len(values[v])
  BY <1>1, BatchEndIs
<1>3. \A r : r \in Opened(v)' <=> r \in Opened(v) \/ r \in left'[v]
  <2>1. \A i : i \in 1..BatchEnd(v) <=> i \in 1..from[v] \/ i \in (from[v] + 1)..BatchEnd(v)
    BY <1>1, <1>2
  <2>2. \A r : r \in Opened(v)' <=>
              r \in Table[v] /\ \E i \in 1..BatchEnd(v) : values[v][i] = ChildKey[r]
    BY <1>0 DEF Opened, Narrowed
  <2>3. \A r : r \in left'[v] <=>
              r \in Table[v] /\ \E i \in (from[v] + 1)..BatchEnd(v) : values[v][i] = ChildKey[r]
    BY <1>0 DEF InBatch
  <2>4. \A r : r \in Opened(v) <=>
              r \in Table[v] /\ \E i \in 1..from[v] : values[v][i] = ChildKey[r]
    BY DEF Opened
  <2> QED BY <2>1, <2>2, <2>3, <2>4
<1>4. ASSUME ReadOnceEach(v), NEW r \in Opened(v), r \in left'[v] PROVE FALSE
  <2>1. PICK i \in 1..from[v] : values[v][i] = ChildKey[r]
    BY <1>4 DEF Opened
  <2>2. PICK k \in (from[v] + 1)..BatchEnd(v) : values[v][k] = ChildKey[r]
    BY <1>0, <1>4 DEF InBatch
  <2>3. i \in 1..Len(values[v]) /\ k \in 1..Len(values[v]) /\ i # k
    BY <1>1, <1>2, <2>1, <2>2
  <2>4. ~Distinct(values[v])
    BY <2>1, <2>2, <2>3, DataType DEF Distinct
  <2>5. from[v] \in {0, Len(values[v])}
    BY <1>4, <2>4 DEF ViewOK, BatchesOK
  <2> QED BY <1>1, <2>1, <2>5
<1>5. Opened(v)' = Opened(v) \cup left'[v]
  BY <1>3
<1> QED BY <1>4, <1>5

\* The rows of a batch are those with its placeholders, none of which was fetched before.
LEMMA OpenBatchView ==
  ASSUME KeysFit, TypeOK, NEW v \in View, ViewOK(v), OpenBatch(v) PROVE ViewOK(v)'
<1>0. /\ pc[v] = "query" /\ pc'[v] = "rows"
      /\ values' = values /\ from'[v] = BatchEnd(v) /\ dest' = dest /\ held' = held
      /\ ~Narrowed(v) => left'[v] = Table[v]
  BY DEF OpenBatch, Goto, TypeOK
<1>1. /\ left[v] = {} /\ from[v] \in Nat /\ from[v] <= Len(values[v]) /\ Len(values[v]) \in Nat
      /\ BatchesOK(v) /\ RowsOK(v)
  BY <1>0, DataType DEF ViewOK, BatchesOK
<1>2. BatchesOK(v)'
  <2>1. from'[v] <= Len(values[v]) /\ (Len(values[v]) <= BatchParent[v] => from'[v] = Len(values[v]))
    BY <1>0, <1>1, BatchEndIs
  <2> QED BY <1>0, <1>1, <2>1
          DEF BatchesOK, Before, Finished, Narrowed, ReadOnceEach, KeysDiffer, OneBatch, Distinct
<1>3. /\ Opened(v)' = Opened(v) \cup left'[v]
      /\ ReadOnceEach(v) => Opened(v) \cap left'[v] = {}
  <2>1. CASE Narrowed(v)
    BY <2>1, NextBatch
  <2>2. CASE ~Narrowed(v)
    BY <1>0, <2>2 DEF Opened, Before, Narrowed
  <2> QED BY <2>1, <2>2
<1>4. RowsOK(v)'
  <2>1. left'[v] \subseteq Opened(v)'
    BY <1>3
  <2>2. \A j \in DOMAIN dest[v] : dest[v][j] \in Opened(v)'
    BY <1>1, <1>3 DEF RowsOK
  <2>3. \A r \in Opened(v)' \ left'[v] : \E j \in DOMAIN dest[v] : dest[v][j] = r
    BY <1>1, <1>3 DEF RowsOK
  <2>4. ReadOnceEach(v) => (Distinct(dest[v]) /\ \A j \in DOMAIN dest[v] : dest[v][j] \notin left'[v])
    BY <1>1, <1>3 DEF RowsOK
  <2>5. ReadOnceEach(v)' <=> ReadOnceEach(v)
    BY DEF ReadOnceEach, KeysDiffer, OneBatch, Narrowed
  <2> QED BY <1>0, <2>1, <2>2, <2>3, <2>4, <2>5 DEF RowsOK, Distinct
<1>5. ASSUME Narrowed(v), ReadOnceEach(v) \/ v \notin Many PROVE HeldOK(v)'
  <2>1. \A i : Holder(v, i)' = Holder(v, i) /\ KeyAt(v, i)' = KeyAt(v, i)
    BY <1>0 DEF Holder, KeyAt, NoRows
  <2>2. ASSUME NEW i, HolderOK(v, i) PROVE HolderOK(v, i)'
    <3>1. CASE v \in Many
      <4>1. \A r : r \in Opened(v)' \ left'[v] <=> r \in Opened(v) \ left[v]
        BY <1>1, <1>3, <1>5, <3>1
      <4> QED BY <2>1, <2>2, <3>1, <4>1 DEF HolderOK
    <3>2. CASE v \notin Many
      <4>1. \A r : r \in Opened(v)' \ left'[v] => r \in Opened(v) \ left[v]
        BY <1>1, <1>3
      <4>2. \A r : r \in Opened(v) => r \in Opened(v)'
        BY <1>3
      <4>3. NoRows' = NoRows
        BY DEF NoRows
      <4> QED BY <2>1, <2>2, <3>2, <4>1, <4>2, <4>3 DEF HolderOK
    <3> QED BY <3>1, <3>2
  <2> QED BY <1>0, <1>5, <2>1, <2>2 DEF ViewOK, HeldOK, Before
<1> QED BY <1>2, <1>4, <1>5 DEF ViewOK, Narrowed, KeysFit

\* visitorMany and visitorOne keep each holder what it should be.
LEMMA VisitedOK ==
  ASSUME TypeOK, NEW c \in View, Narrowed(c), c \in Many => ReadOnceEach(c), HeldOK(c),
         left[c] \subseteq Opened(c), Opened(c)' = Opened(c),
         NEW r \in left[c], left'[c] = left[c] \ {r},
         held'[c] = Visited(c, r), dest'[Parent[c]] = dest[Parent[c]],
         NEW i \in DOMAIN dest[Parent[c]]
  PROVE  HolderOK(c, i)'
<1>0. /\ Holder(c, i)' = Visited(c, r)[i] /\ KeyAt(c, i)' = KeyAt(c, i)
      /\ NoRows' = NoRows /\ r \in Row
  BY DataType DEF Holder, Visited, KeyAt, NoRows
<1>1. HolderOK(c, i) /\ Holder(c, i) \in [Row -> Nat]
  BY HolderType DEF HeldOK
<1>2. CASE KeyAt(c, i) # ChildKey[r]
  <2>1. Holder(c, i)' = Holder(c, i)
    BY <1>0, <1>2 DEF Visited
  <2>2. \A x : ChildKey[x] = KeyAt(c, i) =>
               (x \in Opened(c)' \ left'[c] <=> x \in Opened(c) \ left[c])
    BY <1>2
  <2> QED BY <1>0, <1>1, <2>1, <2>2 DEF HolderOK
<1>3. CASE KeyAt(c, i) = ChildKey[r]
  <2>1. Holder(c, i)' = Held(c, Holder(c, i), r)
    BY <1>0, <1>3 DEF Visited
  <2>2. CASE c \in Many
    <3>1. \A x \in Row : Holder(c, i)'[x] = IF x = r THEN Holder(c, i)[r] + 1 ELSE Holder(c, i)[x]
      BY <1>0, <1>1, <2>1, <2>2 DEF Held
    <3>2. Holder(c, i)[r] = 0
      BY <1>0, <1>1, <2>2 DEF HolderOK
    <3>3. \A x : x \in Opened(c)' \ left'[c] <=> x = r \/ x \in Opened(c) \ left[c]
      OBVIOUS
    <3> QED BY <1>0, <1>1, <1>3, <2>2, <3>1, <3>2, <3>3 DEF HolderOK
  <2>3. CASE c \notin Many
    <3>1. Holder(c, i)' = [NoRows EXCEPT ![r] = 1] /\ r \in Opened(c)'
      BY <2>1, <2>3 DEF Held
    <3>2. [NoRows EXCEPT ![r] = 1] # NoRows
      BY <1>0 DEF NoRows
    <3> QED BY <1>0, <1>3, <2>3, <3>1, <3>2 DEF HolderOK
  <2> QED BY <2>2, <2>3
<1> QED BY <1>2, <1>3

\* A row moves from those of the batch to the fetched ones, and to its holder.
LEMMA FetchRowView ==
  ASSUME KeysFit, TypeOK, NEW v \in View, ViewOK(v), FetchRow(v),
         Narrowed(v) => Parent[v] # v
  PROVE  ViewOK(v)'
<1>1. PICK r \in left[v] :
        /\ left' = [left EXCEPT ![v] = @ \ {r}]
        /\ dest' = [dest EXCEPT ![v] = Append(@, r)]
        /\ held' = IF Narrowed(v) THEN [held EXCEPT ![v] = Visited(v, r)] ELSE held
  BY DEF FetchRow
<1>2. /\ pc[v] = "rows" /\ pc' = pc /\ values' = values /\ from' = from
      /\ left'[v] = left[v] \ {r} /\ dest'[v] = Append(dest[v], r) /\ r \in Row
      /\ Narrowed(v) => held'[v] = Visited(v, r) /\ dest'[Parent[v]] = dest[Parent[v]]
  BY <1>1, DataType, ParentIsView DEF FetchRow, TypeOK, Narrowed
<1>3. Opened(v)' = Opened(v)
  BY <1>2 DEF Opened, Narrowed
<1>4. BatchesOK(v)'
  BY <1>2 DEF ViewOK, BatchesOK, Before, Finished, Narrowed, ReadOnceEach, KeysDiffer,
     OneBatch, Distinct
<1>5. RowsOK(v)'
  <2> DEFINE d == dest[v]
             n == Len(dest[v])
             e == Append(dest[v], r)
  <2>1. /\ n \in Nat /\ DOMAIN d = 1..n /\ DOMAIN e = 1..(n + 1) /\ e[n + 1] = r
        /\ \A j \in 1..n : e[j] = d[j] /\ j \in 1..(n + 1)
    BY <1>2, DataType
  <2>2. RowsOK(v)
    BY DEF ViewOK
  <2>3. \A j \in DOMAIN e : j = n + 1 \/ (j \in DOMAIN d /\ e[j] = d[j])
    BY <2>1
  <2>4. left'[v] \subseteq Opened(v)' /\ r \in Opened(v)'
    BY <1>2, <1>3, <2>2 DEF RowsOK
  <2>5. \A j \in DOMAIN e : e[j] \in Opened(v)'
    BY <1>3, <2>1, <2>2, <2>3, <2>4 DEF RowsOK
  <2>6. ASSUME NEW x \in Opened(v)' \ left'[v] PROVE \E j \in DOMAIN e : e[j] = x
    <3>1. CASE x = r
      <4>1. n + 1 \in DOMAIN e /\ e[n + 1] = x
        BY <2>1, <3>1
      <4> QED BY <4>1
    <3>2. CASE x # r
      <4>1. PICK j \in DOMAIN d : d[j] = x
        BY <1>2, <1>3, <2>2, <2>6, <3>2 DEF RowsOK
      <4>2. j \in DOMAIN e /\ e[j] = x
        BY <2>1, <4>1
      <4> QED BY <4>2
    <3> QED BY <3>1, <3>2
  <2>7. ASSUME ReadOnceEach(v)
        PROVE  Distinct(e) /\ \A j \in DOMAIN e : e[j] \notin left'[v]
    <3>1. Distinct(d) /\ \A j \in DOMAIN d : d[j] \notin left[v]
      BY <2>2, <2>7 DEF RowsOK
    <3>2. \A j \in DOMAIN d : d[j] # r
      BY <3>1
    <3>3. ASSUME NEW j \in DOMAIN e, NEW k \in DOMAIN e, e[j] = e[k] PROVE j = k
      <4>1. CASE j = n + 1
        BY <2>1, <2>3, <3>2, <3>3, <4>1
      <4>2. CASE k = n + 1
        BY <2>1, <2>3, <3>2, <3>3, <4>2
      <4>3. CASE j # n + 1 /\ k # n + 1
        BY <2>3, <3>1, <3>3, <4>3 DEF Distinct
      <4> QED BY <4>1, <4>2, <4>3
    <3>4. \A j \in DOMAIN e : e[j] \notin left'[v]
      BY <1>2, <2>1, <2>3, <3>1
    <3> QED BY <3>3, <3>4 DEF Distinct
  <2>8. ReadOnceEach(v)' <=> ReadOnceEach(v)
    BY DEF ReadOnceEach, KeysDiffer, OneBatch, Narrowed
  <2> QED BY <1>2, <2>4, <2>5, <2>6, <2>7, <2>8 DEF RowsOK, Distinct
<1>6. ASSUME Narrowed(v) PROVE HeldOK(v)'
  <2>1. HeldOK(v) /\ left[v] \subseteq Opened(v)
    BY <1>6 DEF ViewOK, RowsOK
  <2>2. v \in Many => ReadOnceEach(v)
    BY DEF KeysFit
  <2>3. \A i \in DOMAIN dest[Parent[v]] : HolderOK(v, i)'
    BY <1>2, <1>3, <1>6, <2>1, <2>2, VisitedOK
  <2> QED BY <1>2, <1>6, <2>1, <2>3 DEF HeldOK, KeyAt
<1> QED BY <1>4, <1>5, <1>6 DEF ViewOK, Narrowed

\* A sequence of n rows has n positions.
LEMMA PositionsOf ==
  ASSUME NEW n \in Nat PROVE IsFiniteSet(1..n) /\ Cardinality(1..n) = n
<1>1. IsFiniteSet(1..n) /\ Cardinality(1..n) = IF 1 > n THEN 0 ELSE n - 1 + 1
  BY FS_Interval
<1> QED BY <1>1

\* A collector with relations has each of its rows once.
LEMMA ParentRows ==
  ASSUME KeysFit, TypeOK, NEW v \in View, v # Root, v \in Selected, RowsOK(Parent[v])
  PROVE  /\ Distinct(dest[Parent[v]])
         /\ \A i \in DOMAIN dest[Parent[v]] : dest[Parent[v]][i] \in Table[Parent[v]]
<1> DEFINE p == Parent[v]
<1>1. p \in View /\ v \in Children(p)
  BY ParentIsView DEF Children
<1>2. ReadOnceEach(p)
  BY <1>1 DEF KeysFit
<1>3. Opened(p) \subseteq Table[p]
  BY DEF Opened
<1> QED BY <1>1, <1>2, <1>3 DEF RowsOK

\* The placeholders gathered from the rows of the parent are its keys, each once.
LEMMA GatherView ==
  ASSUME KeysFit, TypeOK, NEW v \in View, v \in Selected, ViewOK(v), RowsOK(Parent[v]),
         pc[Parent[v]] \notin Fetching, Gather(v)
  PROVE  ViewOK(v)'
<1> DEFINE p  == Parent[v]
           d  == dest[Parent[v]]
           ks == PlaceholdersOf(v)
<1>1. /\ Narrowed(v) /\ v # Root /\ v \notin Unmapped /\ pc[v] \in Before
      /\ ReadPlaceholders(v, ks)
  BY DEF Gather, Fetching, Narrowed, Before
<1>2. ks \in Seq(Key) /\ p \in View
  BY <1>1, PlaceholdersType, ParentIsView
<1>3. /\ DOMAIN ks = DOMAIN d /\ Len(ks) = Len(d) /\ Len(d) \in Nat /\ DOMAIN d = 1..Len(d)
      /\ \A i \in DOMAIN d : ks[i] = KeyAt(v, i)
  <2>1. Len(d) \in Nat /\ DOMAIN d = 1..Len(d)
    BY <1>2, DataType
  <2>2. ks = [i \in 1..Len(d) |-> KeyAt(v, i)]
    BY DEF PlaceholdersOf
  <2>3. DOMAIN ks = 1..Len(d) /\ Len(ks) = Len(d)
    BY <1>2, <2>1, <2>2
  <2> QED BY <2>1, <2>2, <2>3
<1>4. Distinct(d) /\ \A i \in DOMAIN d : d[i] \in Table[p]
  BY <1>1, ParentRows
<1>5. CASE KeysDiffer(v)
  <2>1. Distinct(ks)
    BY <1>3, <1>4, <1>5 DEF KeysDiffer, Distinct, KeyAt
  <2> QED BY <1>1, <1>2, <1>3, <2>1, ReadPlaceholdersView
<1>6. CASE OneBatch(v)
  <2>1. d \in Injection(1..Len(d), Table[p])
    <3>1. d \in [1..Len(d) -> Row]
      BY <1>2, DataType
    <3>2. d \in [1..Len(d) -> Table[p]]
      BY <1>3, <1>4, <3>1
    <3> QED BY <1>3, <1>4, <3>2 DEF Injection, IsInjective, Distinct
  <2>2. Cardinality(1..Len(d)) = Len(d)
    BY <1>3, PositionsOf
  <2>3. Cardinality(1..Len(d)) <= Cardinality(Table[p])
    BY <1>6, <2>1, FS_Injection DEF OneBatch
  <2>4. Cardinality(Table[p]) \in Nat /\ Cardinality(Table[p]) <= BatchParent[v]
    BY <1>6, FS_CardinalityType DEF OneBatch
  <2>5. Len(ks) <= BatchParent[v]
    BY <1>3, <2>2, <2>3, <2>4, DataAssumption
  <2> QED BY <1>1, <1>2, <1>3, <2>5, ReadPlaceholdersView
<1>7. CASE ~ReadOnceEach(v)
  BY <1>1, <1>2, <1>3, <1>7, ReadPlaceholdersView
<1> QED BY <1>1, <1>5, <1>6, <1>7 DEF ReadOnceEach

\* So are those of a relation without a column field: an enumeration of the indexed keys.
LEMMA IndexParentView ==
  ASSUME TypeOK, NEW v \in View, ViewOK(v), Narrowed(v), IndexParent(v)
  PROVE  ViewOK(v)'
<1> DEFINE d  == dest[Parent[v]]
           ks == {KeyAt(v, i) : i \in 1..Len(d)}
<1>0. v # Root /\ pc[v] \in Before /\ Len(d) \in Nat /\ DOMAIN d = 1..Len(d)
  BY ParentIsView, DataType DEF Narrowed, IndexParent, Before
<1>1. IsFiniteSet(ks) /\ Cardinality(ks) \in Nat
  <2>1. IsFiniteSet(1..Len(d))
    BY <1>0, PositionsOf
  <2>2. [i \in 1..Len(d) |-> KeyAt(v, i)] \in Surjection(1..Len(d), ks)
    BY DEF Surjection
  <2>3. IsFiniteSet(ks)
    BY <2>1, <2>2, FS_Surjection
  <2> QED BY <2>3, FS_CardinalityType
<1>2. PICK s \in [1..Cardinality(ks) -> ks] :
        /\ \A k \in ks : \E i \in DOMAIN s : s[i] = k
        /\ ReadPlaceholders(v, s)
  BY DEF IndexParent
<1>3. s \in Seq(Key)
  <2>1. s \in [1..Cardinality(ks) -> Key]
    BY <1>0, <1>2, PlaceholdersType
  <2> QED BY <1>1, <2>1, FunctionIsSeq
<1>4. Distinct(s)
  <2>1. s \in Surjection(1..Cardinality(ks), ks)
    BY <1>2 DEF Surjection
  <2>2. IsFiniteSet(1..Cardinality(ks)) /\ Cardinality(1..Cardinality(ks)) = Cardinality(ks)
    <3> HIDE DEF ks
    <3> QED BY <1>1, PositionsOf
  <2> HIDE DEF ks
  <2>3. s \in Injection(1..Cardinality(ks), ks)
    BY <1>1, <2>1, <2>2, FS_SurjSameCardinalityImpliesInj
  <2> QED BY <1>2, <2>3 DEF Injection, IsInjective, Distinct
<1>5. \A i \in DOMAIN d : \E j \in DOMAIN s : s[j] = KeyAt(v, i)
  BY <1>0, <1>2
<1> QED BY <1>0, <1>2, <1>3, <1>4, <1>5, ReadPlaceholdersView

-----------------------------------------------------------------------------
(* The invariant                                                           *)

\* The join, with what the goroutines and the wait groups are known to do.
ReadInv ==
  ReaderInv /\ HoldsUntilFetched /\ WritesUnmapped /\ ReturnedLast /\ JoinInv

\* What a step of a view does to the data of the others.
LEMMA OthersData ==
  ASSUME TypeOK, NEW v \in View, Succeeds(v)
  PROVE  /\ \A w \in View \ {v} :
              /\ values'[w] = values[w] /\ from'[w] = from[w] /\ left'[w] = left[w]
              /\ dest'[w] = dest[w] /\ held'[w] = held[w]
         /\ ~FetchRow(v) => dest' = dest
<1> USE DEF TypeOK, data
<1>1. CASE Enter(v) \/ GatherAll(v) \/ GatherUnmapped(v)
  BY <1>1 DEF Enter, GatherAll, GatherUnmapped
<1>2. CASE Gather(v) \/ IndexParent(v)
  BY <1>2 DEF Gather, IndexParent, ReadPlaceholders
<1>3. CASE OpenBatch(v) \/ FetchRow(v) \/ CloseBatch(v)
  BY <1>3 DEF OpenBatch, FetchRow, CloseBatch
<1>4. CASE SkipGroup(v) \/ EmitFetched(v) \/ JoinRelations(v)
  BY <1>4 DEF SkipGroup, EmitFetched, JoinRelations
<1>5. CASE Return(v) \/ Leave(v) \/ LeaveGroup(v)
  BY <1>5 DEF Return, Leave, LeaveGroup
<1> QED BY <1>1, <1>2, <1>3, <1>4, <1>5 DEF Succeeds

\* The steps of a view before and after its query leave its rows alone.
LEMMA QuietStep ==
  ASSUME TypeOK, NEW v \in View,
         \/ Enter(v) \/ GatherUnmapped(v) \/ SkipGroup(v) \/ EmitFetched(v)
         \/ JoinRelations(v) \/ Return(v) \/ Leave(v) \/ LeaveGroup(v)
  PROVE  /\ UNCHANGED data
         /\ \/ pc[v] \in Before /\ pc'[v] \in Before
            \/ pc[v] \in Finished /\ pc'[v] \in Finished
<1>0. pc \in [View -> Labels]
  BY DEF TypeOK
<1>1. CASE Enter(v) \/ GatherUnmapped(v)
  BY <1>0, <1>1 DEF Enter, GatherUnmapped, Goto, Before
<1>2. CASE SkipGroup(v) \/ EmitFetched(v) \/ JoinRelations(v)
  BY <1>0, <1>2 DEF SkipGroup, EmitFetched, JoinRelations, Goto, Finished
<1>3. CASE Return(v) \/ Leave(v) \/ LeaveGroup(v)
  BY <1>0, <1>3 DEF Return, Leave, LeaveGroup, Goto, Finished
<1> QED BY <1>1, <1>2, <1>3

\* The view that steps.
LEMMA OwnView ==
  ASSUME KeysFit, ReaderInv, HoldsUntilFetched, WritesUnmapped, PastWait, \A w \in View : ViewOK(w),
         NEW v \in View, Succeeds(v)
  PROVE  ViewOK(v)'
<1>0. TypeOK /\ ViewOK(v)
  BY DEF ReaderInv
<1>1. CASE GatherAll(v)
  BY <1>0, <1>1, GatherAllView
<1>2. CASE OpenBatch(v)
  BY <1>0, <1>2, OpenBatchView
<1>3. CASE CloseBatch(v)
  BY <1>0, <1>3, CloseBatchView
<1>4. CASE FetchRow(v)
  <2>1. pc[v] = "rows"
    BY <1>4 DEF FetchRow
  <2>2. Narrowed(v) => Parent[v] # v
    BY <2>1 DEF PastWait, Fetching
  <2> QED BY <1>0, <1>4, <2>2, FetchRowView
<1>5. CASE Gather(v)
  <2>1. Narrowed(v) /\ v # Root /\ pc[v] = "gather" /\ Released(v)
    BY <1>5 DEF Gather, Narrowed
  <2>2. Parent[v] \in View /\ v \in Selected
    BY <2>1, ParentIsView DEF ReaderInv, SpawnedByParent
  <2>3. wg[Parent[v]] = 0 /\ v \in Children(Parent[v]) /\ Parent[v] \notin Parallel
    BY <2>1, <2>2 DEF Released, Children, Narrowed
  <2>4. pc[Parent[v]] \notin Fetching
    BY <2>2, <2>3 DEF HoldsUntilFetched
  <2> QED BY <1>0, <1>5, <2>2, <2>4, GatherView DEF ViewOK
<1>6. CASE IndexParent(v)
  <2>1. Narrowed(v)
    BY <1>6 DEF IndexParent, WritesUnmapped
  <2> QED BY <1>0, <1>6, <2>1, IndexParentView
<1>7. CASE Enter(v) \/ GatherUnmapped(v) \/ SkipGroup(v) \/ EmitFetched(v)
           \/ JoinRelations(v) \/ Return(v) \/ Leave(v) \/ LeaveGroup(v)
  <2>1. /\ UNCHANGED data
        /\ \/ pc[v] \in Before /\ pc'[v] \in Before
           \/ pc[v] \in Finished /\ pc'[v] \in Finished
    BY <1>0, <1>7, QuietStep
  <2> QED BY <1>0, <2>1, ViewFrame DEF data
<1> QED BY <1>1, <1>2, <1>3, <1>4, <1>5, <1>6, <1>7 DEF Succeeds

\* The views that do not step: a relation that has gathered is not gathering from v.
LEMMA OtherView ==
  ASSUME ReaderInv, PastWait, NEW v \in View, Succeeds(v), NEW w \in View, w # v, ViewOK(w)
  PROVE  ViewOK(w)'
<1>0. TypeOK /\ pc \in [View -> Labels]
  BY DEF ReaderInv, TypeOK
<1>1. pc'[w] = pc[w] \/ (pc[w] \in Before /\ pc'[w] \in Before)
  <2>1. CASE Enter(v)
    BY <2>1, SuccessfulEnter DEF Before
  <2>2. CASE ~Enter(v)
    BY <1>0, <2>2, SuccessfulMoves
  <2> QED BY <2>1, <2>2
<1>2. Narrowed(w) => (pc[w] \in Before \/ dest'[Parent[w]] = dest[Parent[w]])
  <2> SUFFICES ASSUME Narrowed(w), pc[w] \notin Before
      PROVE  dest'[Parent[w]] = dest[Parent[w]]
    OBVIOUS
  <2>1. Parent[w] \in View /\ pc[Parent[w]] \notin Fetching
    BY ParentIsView DEF Narrowed, PastWait, Before
  <2>2. CASE FetchRow(v)
    <3>1. Parent[w] # v
      BY <2>1, <2>2 DEF FetchRow, Fetching
    <3> QED BY <1>0, <2>1, <3>1, OthersData
  <2>3. CASE ~FetchRow(v)
    BY <1>0, <2>3, OthersData
  <2> QED BY <2>2, <2>3
<1>3. /\ values'[w] = values[w] /\ from'[w] = from[w] /\ left'[w] = left[w]
      /\ dest'[w] = dest[w] /\ held'[w] = held[w]
  BY <1>0, OthersData
<1> QED BY <1>0, <1>1, <1>2, <1>3, ViewFrame

\* Every step of a view keeps what is said of a read without errors.
LEMMA JoinStep ==
  ASSUME KeysFit, ReaderInv, HoldsUntilFetched, WritesUnmapped, JoinInv, NEW v \in View, Step(v)
  PROVE  JoinInv'
<1>1. (errors \subseteq MayFail)'
  BY ErrorsStep DEF JoinInv
<1>2. ASSUME errors' = {}
      PROVE  PastWait' /\ AllSpawned' /\ RelatedLast' /\ \A w \in View : ViewOK(w)'
  <2>1. errors = {} /\ Succeeds(v)
    BY <1>2, SuccessfulStep
  <2>2. PastWait /\ AllSpawned /\ RelatedLast /\ \A w \in View : ViewOK(w)
    BY <2>1 DEF JoinInv
  <2>3. PastWait' /\ AllSpawned' /\ RelatedLast'
    BY <2>1, <2>2, PastWaitStep, AllSpawnedStep, RelatedLastStep
  <2>4. \A w \in View : ViewOK(w)'
    BY <2>1, <2>2, OwnView, OtherView
  <2> QED BY <2>3, <2>4
<1> QED BY <1>1, <1>2 DEF JoinInv

\* It holds before the root is entered.
LEMMA JoinInit == ASSUME Init PROVE JoinInv
<1>1. \A v \in View : pc[v] \in Before /\ from[v] = 0 /\ values[v] = <<>> /\ dest[v] = <<>>
                      /\ held[v] = <<>> /\ left[v] = {}
  BY DEF Init, Before
<1>2. ASSUME NEW v \in View PROVE ViewOK(v)
  <2>1. BatchesOK(v)
    BY <1>1 DEF BatchesOK, Before, Finished, Distinct
  <2>2. RowsOK(v)
    BY <1>1 DEF RowsOK, Opened, Distinct
  <2>3. ASSUME Narrowed(v) PROVE DOMAIN dest[Parent[v]] = {}
    BY <1>1, <2>3, ParentIsView DEF Narrowed
  <2> QED BY <2>1, <2>2, <2>3 DEF ViewOK, HeldOK
<1>3. PastWait /\ RelatedLast
  BY DEF Init, PastWait, RelatedLast
<1>4. AllSpawned
  BY DEF Init, AllSpawned
<1> QED BY <1>2, <1>3, <1>4 DEF Init, JoinInv

\* Read answers when every goroutine has signed off.
LEMMA AllReturned ==
  ASSUME ReaderInv, pending = 0, pc[Root] = "done"
  PROVE  \A v \in View : pc[v] \in {"idle", "done", "leaveGroup"}
<1>1. Running = {}
  BY CountedSetsFinite, FS_EmptySet, ViewAssumption DEF ReaderInv, CountersCount
<1> QED BY <1>1 DEF Running, Live, Labels, ReaderInv, TypeOK

\* MergeData leaves the relations alone that were joined while they were read.
LEMMA JoinRead ==
  ASSUME ReaderInv, JoinInv, ReadFails \/ ReadMerges PROVE JoinInv'
<1>0. TypeOK /\ UNCHANGED <<pc, errors, values, from, left, dest, related>>
  BY DEF ReaderInv, ReadFails, ReadMerges, data
<1>1. \A v \in View : Narrowed(v) => held'[v] = held[v]
  BY DEF ReadFails, ReadMerges, Narrowed, data
<1>2. ASSUME NEW v \in View, ViewOK(v), ReadFails \/ errors = {} PROVE ViewOK(v)'
  <2>1. CASE held'[v] = held[v]
    BY <1>0, <1>2, <2>1, ViewFrame
  <2>2. CASE ~Narrowed(v) /\ pc[v] \notin Before
    <3>1. BatchesOK(v)' /\ RowsOK(v)'
      BY <1>0, <1>2, <2>2 DEF ViewOK, BatchesOK, RowsOK, Opened, Narrowed, Distinct,
         ReadOnceEach, KeysDiffer, OneBatch
    <3> QED BY <2>2, <3>1 DEF ViewOK, Narrowed
  <2>3. held'[v] # held[v] => pc[v] \notin Before
    <3>1. \A w \in View : pc[w] \in {"idle", "done", "leaveGroup"}
      BY AllReturned DEF ReadFails, ReadMerges, ReadDone
    <3>2. pc[v] = "idle" => held'[v] = held[v]
      BY DEF ReadFails, ReadMerges, data
    <3> QED BY <3>1, <3>2 DEF Before
  <2> QED BY <1>1, <2>1, <2>2, <2>3
<1> QED BY <1>0, <1>2 DEF JoinInv, PastWait, AllSpawned, RelatedLast, Children, Narrowed

-----------------------------------------------------------------------------
(* Complete rows                                                           *)

\* A relation that was joined while it was read has all of its rows in their places.
LEMMA NarrowedJoined ==
  ASSUME TypeOK, NEW c \in View, Narrowed(c), ViewOK(c), pc[c] \in Finished
  PROVE  Joined(c)
<1> SUFFICES ASSUME NEW i \in DOMAIN dest[Parent[c]]
    PROVE LET match == {r \in Table[c] : ChildKey[r] = KeyAt(c, i)}
              holds == {r \in Row : Holder(c, i)[r] > 0}
          IN /\ \A r \in Row : Holder(c, i)[r] <= 1
             /\ holds \subseteq match
             /\ IF c \in Many THEN holds = match
                ELSE Cardinality(holds) = (IF match = {} THEN 0 ELSE 1)
  BY DEF Joined
<1> DEFINE match == {r \in Table[c] : ChildKey[r] = KeyAt(c, i)}
           holds == {r \in Row : Holder(c, i)[r] > 0}
<1>1. /\ from[c] = Len(values[c]) /\ left[c] = {} /\ HolderOK(c, i)
      /\ \E j \in DOMAIN values[c] : values[c][j] = KeyAt(c, i)
  BY DEF ViewOK, BatchesOK, HeldOK, Finished, Before
<1>2. \A r : r \in match <=> r \in Opened(c) /\ ChildKey[r] = KeyAt(c, i)
  <2>1. PICK j \in DOMAIN values[c] : values[c][j] = KeyAt(c, i)
    BY <1>1
  <2>2. j \in 1..from[c]
    BY <1>1, <2>1, DataType
  <2> QED BY <2>1, <2>2 DEF Opened
<1>3. Table[c] \subseteq Row
  BY DataAssumption
<1>4. CASE c \in Many
  <2>1. \A r \in Row : Holder(c, i)[r] = IF r \in match THEN 1 ELSE 0
    BY <1>1, <1>2, <1>4 DEF HolderOK
  <2>2. \A r \in Row : Holder(c, i)[r] <= 1
    BY <2>1
  <2>3. holds = match
    BY <1>3, <2>1
  <2> HIDE DEF holds, match
  <2> QED BY <1>4, <2>2, <2>3 DEF holds, match
<1>5. CASE c \notin Many /\ Holder(c, i) = NoRows
  <2>1. match = {}
    BY <1>1, <1>2, <1>5 DEF HolderOK
  <2>2. \A r \in Row : Holder(c, i)[r] = 0
    BY <1>5 DEF NoRows
  <2>3. holds = {}
    BY <2>2
  <2> QED BY <1>5, <2>1, <2>2, <2>3, FS_EmptySet
<1>6. CASE c \notin Many /\ Holder(c, i) # NoRows
  <2>1. PICK m \in match : Holder(c, i) = [NoRows EXCEPT ![m] = 1]
    BY <1>1, <1>2, <1>6 DEF HolderOK
  <2>2. m \in Row /\ \A r \in Row : Holder(c, i)[r] = IF r = m THEN 1 ELSE 0
    BY <1>3, <2>1 DEF NoRows
  <2>3. holds = {m}
    BY <2>2
  <2>4. Cardinality(holds) = 1
    BY <2>3, FS_Singleton
  <2>5. match # {} /\ holds \subseteq match /\ \A r \in Row : Holder(c, i)[r] <= 1
    BY <2>1, <2>2, <2>3
  <2> HIDE DEF holds, match
  <2> QED BY <1>6, <2>4, <2>5 DEF holds, match
<1> QED BY <1>4, <1>5, <1>6

\* A set of positions has a last one.
LEMMA LastPosition ==
  ASSUME NEW n \in Nat, NEW S \in SUBSET (1..n), S # {}
  PROVE  \E x \in S : \A y \in S : y <= x
<1>1. PICK less : less = {ss \in Nat \X Nat : ss[1] < ss[2]}
  OBVIOUS
<1>2. IsWellFoundedOn(less, Nat)
  BY <1>1, NatLessThanWellFounded, Zenon DEF OpToRel
<1> DEFINE T == {m \in Nat : n - m \in S}
<1>3. T \in SUBSET Nat /\ T # {}
  <2>1. PICK y \in S : TRUE
    OBVIOUS
  <2>2. n - y \in T
    BY <2>1
  <2> QED BY <2>2
<1>4. PICK x \in T : \A y \in T : ~(<<y, x>> \in less)
  <2> HIDE DEF T
  <2> QED BY <1>2, <1>3, WFMin, Zenon
<1>5. \A y \in S : n - y \in T /\ ~(n - y < x)
  <2>1. \A y \in T : ~(y < x)
    BY <1>1, <1>4
  <2> QED BY <2>1
<1>6. n - x \in S /\ \A y \in S : y <= n - x
  BY <1>4, <1>5
<1> QED BY <1>6

\* MergeData puts each row of a relation that was read whole where it belongs:
\* every matching row of a Many, the last one that was read of a One.
LEMMA MergedJoined ==
  ASSUME TypeOK, NEW c \in View, c # Root, ~Narrowed(c), ViewOK(c), pc[c] \in Finished,
         held'[c] = Merged(c), dest' = dest
  PROVE  Joined(c)'
<1> SUFFICES ASSUME NEW i \in DOMAIN dest[Parent[c]]
    PROVE LET match == {r \in Table[c] : ChildKey[r] = KeyAt(c, i)}
              holds == {r \in Row : (Holder(c, i)')[r] > 0}
          IN /\ \A r \in Row : (Holder(c, i)')[r] <= 1
             /\ holds \subseteq match
             /\ IF c \in Many THEN holds = match
                ELSE Cardinality(holds) = (IF match = {} THEN 0 ELSE 1)
  BY DEF Joined, KeyAt
<1> DEFINE match == {r \in Table[c] : ChildKey[r] = KeyAt(c, i)}
           holds == {r \in Row : (Holder(c, i)')[r] > 0}
           d     == dest[c]
           M     == Matching(c, i)
           kept  == IF c \in Many THEN M ELSE {j \in M : \A k \in M : k <= j}
           rowOf(r) == {j \in kept : d[j] = r}
<1>1. Holder(c, i)' = [r \in Row |-> Cardinality(rowOf(r))]
  <2>1. Holder(c, i)' = Merged(c)[i]
    BY DEF Holder, Merged
  <2> QED BY <2>1 DEF Merged
<1>2. /\ Distinct(d) /\ Len(d) \in Nat /\ DOMAIN d = 1..Len(d) /\ Table[c] \subseteq Row
      /\ \A j \in DOMAIN d : d[j] \in Table[c]
      /\ \A r \in Table[c] : \E j \in DOMAIN d : d[j] = r
  <2>1. Opened(c) = Table[c] /\ left[c] = {} /\ RowsOK(c) /\ ReadOnceEach(c)
    BY DEF ViewOK, BatchesOK, Opened, Finished, Before, ReadOnceEach
  <2> QED BY <2>1, DataType, DataAssumption DEF RowsOK
<1>3. /\ M \subseteq DOMAIN d /\ kept \subseteq M
      /\ \A j \in DOMAIN d : j \in M <=> d[j] \in match
  BY <1>2 DEF Matching
<1>4. ASSUME NEW r, NEW j \in kept, d[j] = r PROVE Cardinality(rowOf(r)) = 1 /\ r \in match
  <2>1. \A k \in kept : d[k] = r => k = j
    BY <1>2, <1>3, <1>4 DEF Distinct
  <2>2. rowOf(r) = {j}
    BY <1>4, <2>1
  <2> QED BY <1>3, <1>4, <2>2, FS_Singleton
<1>5. ASSUME NEW r, \A j \in kept : d[j] # r PROVE Cardinality(rowOf(r)) = 0
  <2>1. rowOf(r) = {}
    BY <1>5
  <2> QED BY <2>1, FS_EmptySet
<1>6. \A r \in Row : (Holder(c, i)')[r] = IF \E j \in kept : d[j] = r THEN 1 ELSE 0
  <2> SUFFICES ASSUME NEW r \in Row
      PROVE  (Holder(c, i)')[r] = IF \E j \in kept : d[j] = r THEN 1 ELSE 0
    OBVIOUS
  <2>1. (Holder(c, i)')[r] = Cardinality(rowOf(r))
    BY <1>1
  <2>2. (\E j \in kept : d[j] = r) => Cardinality(rowOf(r)) = 1
    BY <1>4
  <2>3. ~(\E j \in kept : d[j] = r) => Cardinality(rowOf(r)) = 0
    BY <1>5
  <2> HIDE DEF rowOf, kept, d
  <2> QED BY <2>1, <2>2, <2>3
<1>7. (\A r \in Row : (Holder(c, i)')[r] <= 1) /\ holds \subseteq match
  <2>1. \A r \in Row : (Holder(c, i)')[r] = 0 \/ (Holder(c, i)')[r] = 1
    <3> HIDE DEF kept, d
    <3> QED BY <1>6
  <2>2. ASSUME NEW r \in holds PROVE r \in match
    <3>1. r \in Row /\ (Holder(c, i)')[r] # 0
      BY <2>1
    <3>2. PICK j \in kept : d[j] = r
      BY <1>6, <3>1
    <3> QED BY <1>4, <3>2
  <2> QED BY <2>1, <2>2
<1>8. CASE c \in Many
  <2>1. \A r \in match : \E j \in kept : d[j] = r
    BY <1>2, <1>3, <1>8
  <2>2. match \subseteq holds
    BY <1>2, <1>6, <2>1
  <2> HIDE DEF holds, match
  <2> QED BY <1>7, <1>8, <2>2 DEF holds, match
<1>9. CASE c \notin Many /\ match = {}
  <2>1. holds = {}
    BY <1>7, <1>9
  <2> HIDE DEF holds, match
  <2> QED BY <1>7, <1>9, <2>1, FS_EmptySet DEF holds, match
<1>10. CASE c \notin Many /\ match # {}
  <2>1. M # {} /\ M \in SUBSET (1..Len(d))
    BY <1>2, <1>3, <1>10
  <2>2. PICK x \in M : \A y \in M : y <= x
    <3> HIDE DEF M, d
    <3> QED BY <1>2, <2>1, LastPosition
  <2>3. \A y \in kept : y = x
    BY <1>2, <1>3, <1>10, <2>2
  <2>4. x \in kept /\ d[x] \in Row
    BY <1>2, <1>3, <1>10, <2>2
  <2>5. \A r \in Row : r \in holds <=> r = d[x]
    <3> HIDE DEF kept, d
    <3> QED BY <1>6, <2>3, <2>4
  <2>6. holds = {d[x]}
    BY <2>4, <2>5
  <2>7. Cardinality(holds) = 1
    BY <2>6, FS_Singleton
  <2> HIDE DEF holds, match
  <2> QED BY <1>7, <1>10, <2>7 DEF holds, match
<1> QED BY <1>8, <1>9, <1>10

\* What is in the rows changes with the collectors and holders only.
LEMMA JoinedFrame ==
  ASSUME NEW c \in View, dest' = dest, held'[c] = held[c], Joined(c) PROVE Joined(c)'
<1>1. \A i : Holder(c, i)' = Holder(c, i) /\ KeyAt(c, i)' = KeyAt(c, i)
  BY DEF Holder, KeyAt, NoRows
<1> QED BY <1>1 DEF Joined

\* The rows of every relation are in their places once Read has its answer.
Answer ==
  outcome = "ok" =>
    errors = {} /\ \A c \in View \ {Root} : pc[c] # "idle" => Joined(c)

\* Only a Done that nobody waits for can come after the answer.
LEMMA AfterAnswer ==
  ASSUME ReaderInv, ReturnedLast, outcome # "running", NEW v \in View, Step(v)
  PROVE  LeaveGroup(v)
<1>1. pc[v] \in {"idle", "done", "leaveGroup"}
  BY AllReturned DEF ReturnedLast
<1>2. pc[v] \notin Live
  BY <1>1 DEF Live, Labels
<1> QED BY <1>1, <1>2, OnlyMoves DEF ReaderInv, Enter, Leave

\* What was answered stays what the views hold: no view steps after the read returned.
LEMMA AnswerStep ==
  ASSUME ReadInv, Answer, NEW v \in View, Step(v) PROVE Answer'
<1>0. outcome' = outcome
  BY DEF Step, EnterFailed, Enter, RelationsFail, GatherFailed, GatherAll, Gather,
         GatherUnmapped, IndexParent, ReadPlaceholders, OpenBatch, FetchRow,
         CloseBatch, QueryFails, SkipGroup, EmitFetched, JoinRelations, Return,
         Leave, LeaveGroup
<1> SUFFICES ASSUME outcome = "ok"
    PROVE  errors' = {} /\ \A c \in View \ {Root} : pc'[c] # "idle" => Joined(c)'
  BY <1>0 DEF Answer
<1>1. LeaveGroup(v)
  BY AfterAnswer DEF ReadInv
<1>2. /\ UNCHANGED <<errors, dest, held>>
      /\ \A c \in View : pc'[c] # "idle" => pc[c] # "idle"
  BY <1>1 DEF LeaveGroup, Goto, data, ReadInv, ReaderInv, TypeOK
<1> QED BY <1>2, JoinedFrame DEF Answer

\* A read that succeeds has merged every relation into the rows above it.
LEMMA AnswerRead ==
  ASSUME ReadInv, Answer, ReadFails \/ ReadMerges PROVE Answer'
<1> SUFFICES ASSUME ReadMerges,  NEW c \in View \ {Root}, pc[c] # "idle"
    PROVE  errors' = {} /\ Joined(c)'
  BY DEF Answer, ReadFails, ReadMerges
<1>1. /\ errors = {} /\ errors' = {} /\ dest' = dest /\ pending = 0 /\ pc[Root] = "done"
      /\ held' = [w \in View |-> IF w # Root /\ pc[w] # "idle" /\ Parent[w] \in Parallel
                                 THEN Merged(w) ELSE held[w]]
  BY DEF ReadMerges, ReadDone
<1>2. pc[c] \in Finished /\ ViewOK(c) /\ TypeOK
  BY <1>1, AllReturned DEF ReadInv, ReaderInv, JoinInv, Finished
<1>3. CASE Narrowed(c)
  BY <1>1, <1>2, <1>3, NarrowedJoined, JoinedFrame DEF Narrowed
<1>4. CASE ~Narrowed(c)
  BY <1>1, <1>2, <1>4, MergedJoined DEF Narrowed
<1> QED BY <1>1, <1>3, <1>4

\* The inductive invariant of the join.
LEMMA ReadInvNext ==
  ASSUME MatchedBelowMatched, KeysFit, ReadInv, Answer, [Next]_vars
  PROVE  ReadInv' /\ Answer'
<1> USE DEF ReadInv
<1>1. ReaderInv'
  BY ReaderInvNext
<1>2. ASSUME NEW v \in View, Step(v) PROVE ReadInv' /\ Answer'
  <2>1. HoldsUntilFetched'
    BY <1>2, HoldsStep
  <2>2. WritesUnmapped' /\ ReturnedLast'
    BY <1>2, WritesUnmappedStep, ReturnedStep
  <2>3. JoinInv'
    BY <1>2, JoinStep
  <2>4. Answer'
    BY <1>2, AnswerStep
  <2> QED BY <1>1, <2>1, <2>2, <2>3, <2>4
<1>3. CASE ReadFails \/ ReadMerges
  <2>1. UNCHANGED <<pc, wg, pending>> /\ pending = 0 /\ pc[Root] = "done"
    BY <1>3 DEF ReadFails, ReadMerges, ReadDone, groups
  <2>2. HoldsUntilFetched' /\ WritesUnmapped' /\ ReturnedLast'
    BY <2>1 DEF HoldsUntilFetched, WritesUnmapped, ReturnedLast, Narrowed, Children
  <2> QED BY <1>1, <1>3, <2>2, JoinRead, AnswerRead
<1>4. CASE UNCHANGED vars
  <2>1. HoldsUntilFetched' /\ WritesUnmapped' /\ ReturnedLast'
    BY <1>4 DEF vars, HoldsUntilFetched, WritesUnmapped, ReturnedLast, Narrowed, Children
  <2>2. \A v \in View : ViewOK(v) => ViewOK(v)'
    BY <1>4, ViewFrame DEF vars, ReaderInv
  <2>3. JoinInv'
    BY <1>4, <2>2 DEF vars, JoinInv, PastWait, AllSpawned, RelatedLast, Children, Narrowed
  <2>4. Answer'
    BY <1>4, JoinedFrame DEF vars, Answer
  <2> QED BY <1>1, <2>1, <2>3, <2>4
<1> QED BY <1>2, <1>3, <1>4 DEF Next, Terminated

\* All of it holds initially.
LEMMA ReadInvInit == ASSUME Init PROVE ReadInv /\ Answer
<1>1. HoldsUntilFetched
  BY DEF Init, HoldsUntilFetched, Fetching
<1>2. WritesUnmapped /\ ReturnedLast /\ Answer
  BY DEF Init, WritesUnmapped, ReturnedLast, Answer
<1> QED BY <1>1, <1>2, ReaderInvInit, JoinInit DEF ReadInv

\* The rows of the root are in the answer, each once.
LEMMA RootRows ==
  ASSUME ReadInv, outcome = "ok", errors = {}
  PROVE  /\ Distinct(dest[Root]) /\ \A i \in DOMAIN dest[Root] : dest[Root][i] \in Table[Root]
         /\ \A r \in Table[Root] : \E i \in DOMAIN dest[Root] : dest[Root][i] = r
<1>1. pc[Root] = "done" /\ ViewOK(Root) /\ ~Narrowed(Root)
  BY ViewAssumption DEF ReadInv, ReturnedLast, JoinInv, Narrowed
<1>2. Opened(Root) = Table[Root] /\ left[Root] = {} /\ ReadOnceEach(Root)
  BY <1>1 DEF ViewOK, BatchesOK, Opened, Before, ReadOnceEach
<1> QED BY <1>1, <1>2 DEF ViewOK, RowsOK

\* Whatever the match strategies (not mixed the harmful way), the batches and the
\* order in which goroutines run and rows arrive, OnRelation sees complete rows and
\* Read returns the join of its views: Service.Read, if no batch repeats a placeholder.
THEOREM ReadJoinsRows ==
  ASSUME MatchedBelowMatched, KeysFit PROVE Spec => []RowsJoined
<1>1. ReadInv /\ Answer => RelationedRowsComplete
  <2> SUFFICES ASSUME ReadInv, NEW c \in Selected \ {Root}, Parent[c] \in related, errors = {}
      PROVE  Joined(c)
    BY DEF RelationedRowsComplete
  <2>1. c \in View /\ Parent[c] \in View /\ c \in Children(Parent[c])
    BY ViewAssumption, ParentIsView DEF Children
  <2>2. pc[c] = "done" /\ Narrowed(c) /\ ViewOK(c) /\ TypeOK
    BY <2>1 DEF ReadInv, ReaderInv, JoinInv, RelatedLast, Narrowed
  <2> QED BY <2>1, <2>2, NarrowedJoined DEF Finished
<1>2. ReadInv /\ Answer => ResultIsJoin
  <2> SUFFICES ASSUME ReadInv, Answer, outcome = "ok", NEW r \in Table[Root]
      PROVE  Cardinality({i \in DOMAIN dest[Root] : dest[Root][i] = r}) = 1
    BY DEF ResultIsJoin, Answer
  <2>1. Distinct(dest[Root]) /\ \E i \in DOMAIN dest[Root] : dest[Root][i] = r
    BY RootRows DEF Answer
  <2>2. PICK i \in DOMAIN dest[Root] : dest[Root][i] = r
    BY <2>1
  <2>3. {j \in DOMAIN dest[Root] : dest[Root][j] = r} = {i}
    BY <2>1, <2>2 DEF Distinct
  <2> QED BY <2>3, FS_Singleton
<1>3. ReadInv /\ Answer => RowsJoined
  BY <1>1, <1>2 DEF RowsJoined
<1>4. (ReadInv /\ Answer) /\ [Next]_vars => (ReadInv /\ Answer)'
  BY ReadInvNext
<1> QED BY <1>3, <1>4, ReadInvInit, PTL DEF Spec

-----------------------------------------------------------------------------
(* One atomic read                                                         *)

\* The rows that match a parent's row have all been read, so they are finitely many.
LEMMA MatchFinite ==
  ASSUME TypeOK, NEW c \in View, ViewOK(c), pc[c] \in Finished,
         NEW i \in DOMAIN dest[Parent[c]]
  PROVE  IsFiniteSet({r \in Table[c] : ChildKey[r] = KeyAt(c, i)})
<1> DEFINE match == {r \in Table[c] : ChildKey[r] = KeyAt(c, i)}
           rows  == {dest[c][j] : j \in 1..Len(dest[c])}
<1>1. match \subseteq Opened(c)
  <2>1. CASE Narrowed(c)
    <3>1. PICK j \in DOMAIN values[c] : values[c][j] = KeyAt(c, i)
      BY <2>1 DEF ViewOK, HeldOK, Finished, Before
    <3>2. j \in 1..from[c]
      BY <3>1, DataType DEF ViewOK, BatchesOK
    <3> QED BY <2>1, <3>1, <3>2 DEF Opened
  <2>2. CASE ~Narrowed(c)
    BY <2>2 DEF Opened, Finished, Before
  <2> QED BY <2>1, <2>2
<1>2. Opened(c) \subseteq rows
  BY DataType DEF ViewOK, BatchesOK, RowsOK, Finished
<1>3. IsFiniteSet(rows)
  <2>1. Len(dest[c]) \in Nat
    BY DataType
  <2>2. IsFiniteSet(1..Len(dest[c]))
    BY <2>1, PositionsOf
  <2>3. [j \in 1..Len(dest[c]) |-> dest[c][j]] \in Surjection(1..Len(dest[c]), rows)
    BY DEF Surjection
  <2> QED BY <2>2, <2>3, FS_Surjection
<1>4. match \subseteq rows
  BY <1>1, <1>2
<1> HIDE DEF rows, match
<1>5. IsFiniteSet(match)
  BY <1>3, <1>4, FS_Subset
<1> QED BY <1>5 DEF match

\* A holder with its rows is what ReadOnce promises of it.
LEMMA JoinedKept ==
  ASSUME TypeOK, NEW c \in View, Joined(c), NEW i \in DOMAIN dest[Parent[c]],
         IsFiniteSet({r \in Table[c] : ChildKey[r] = KeyAt(c, i)})
  PROVE  LET match == Promise!Matches(c, KeyAt(c, i))
         IN IF match = {}
            THEN i \in DOMAIN held[c] => \A r \in Row : held[c][i][r] = 0
            ELSE /\ i \in DOMAIN held[c]
                 /\ IF c \in Many
                    THEN held[c][i] = [r \in Row |-> IF r \in match THEN 1 ELSE 0]
                    ELSE \E m \in match :
                           held[c][i] = [r \in Row |-> IF r = m THEN 1 ELSE 0]
<1> DEFINE match == {r \in Table[c] : ChildKey[r] = KeyAt(c, i)}
           holds == {r \in Row : Holder(c, i)[r] > 0}
<1>0. Promise!Matches(c, KeyAt(c, i)) = match
  BY DEF Promise!Matches
<1>1. /\ \A r \in Row : Holder(c, i)[r] <= 1
      /\ holds \subseteq match
      /\ IF c \in Many THEN holds = match
         ELSE Cardinality(holds) = (IF match = {} THEN 0 ELSE 1)
  BY DEF Joined
<1>2. Holder(c, i) \in [Row -> Nat] /\ match \subseteq Row
  BY HolderType, DataAssumption
<1>3. \A r \in Row : Holder(c, i)[r] = IF r \in holds THEN 1 ELSE 0
  <2>1. \A r \in Row : Holder(c, i)[r] = 0 \/ Holder(c, i)[r] = 1
    BY <1>1, <1>2
  <2> QED BY <2>1
<1>4. Holder(c, i) = [r \in Row |-> IF r \in holds THEN 1 ELSE 0]
  <2> HIDE DEF holds
  <2> QED BY <1>2, <1>3
<1>5. i \in DOMAIN held[c] => Holder(c, i) = held[c][i]
  BY DEF Holder
<1>6. i \notin DOMAIN held[c] => holds = {}
  BY DEF Holder, NoRows
<1>7. CASE match = {}
  BY <1>0, <1>1, <1>3, <1>5, <1>7
<1>8. CASE match # {} /\ c \in Many
  <2>1. holds = match
    BY <1>1, <1>8
  <2> HIDE DEF holds, match
  <2> QED BY <1>0, <1>4, <1>5, <1>6, <1>8, <2>1
<1>9. CASE match # {} /\ c \notin Many
  <2>1. Cardinality(holds) = 1 /\ holds \subseteq match
    BY <1>1, <1>9
  <2>2. IsFiniteSet(holds)
    <3> HIDE DEF holds
    <3> QED BY <2>1, FS_Subset
  <2>3. PICK m : holds = {m}
    <3> HIDE DEF holds
    <3> QED BY <2>1, <2>2, FS_Singleton
  <2>4. m \in match /\ Holder(c, i) = [r \in Row |-> IF r = m THEN 1 ELSE 0]
    <3>1. \A r \in Row : r \in holds <=> r = m
      BY <2>3
    <3> HIDE DEF holds, match
    <3> QED BY <1>4, <2>1, <2>3, <3>1
  <2>5. i \in DOMAIN held[c]
    BY <1>6, <2>3
  <2> HIDE DEF holds, match
  <2> QED BY <1>0, <1>5, <1>9, <2>4, <2>5
<1> QED BY <1>7, <1>8, <1>9

\* The rows and holders Read returns with are the promised join.
LEMMA AnswerIsJoin ==
  ASSUME ReadInv, Answer, outcome = "ok" PROVE Promise!IsJoin(dest, held)
<1>0. errors = {} /\ pending = 0 /\ pc[Root] = "done" /\ Root \in View /\ TypeOK
  BY ViewAssumption DEF Answer, ReadInv, ReturnedLast, ReaderInv
<1>1. \A w \in View : pc[w] = "idle" \/ (pc[w] \in Finished /\ pc[w] \notin {"idle", "enter"})
  BY <1>0, AllReturned DEF ReadInv, Finished
<1>2. Promise!Lists(dest[Root], Table[Root])
  BY <1>0, RootRows DEF Promise!Lists, Distinct
<1>3. \A c \in Promise!Asked : c \in View /\ pc[c] # "idle"
  <2> DEFINE S == {w \in View : pc[w] # "idle"}
  <2>1. Root \in S
    BY <1>0
  <2>2. ASSUME NEW w \in Selected \ {Root}, Parent[w] \in S PROVE w \in S
    <3>1. w \in View /\ Parent[w] \in View /\ w \in Children(Parent[w])
      BY <2>2, ViewAssumption DEF Children
    <3>2. AllSpawned
      BY <1>0 DEF ReadInv, JoinInv
    <3> QED BY <1>1, <2>2, <3>1, <3>2 DEF AllSpawned
  <2>3. S \in SUBSET View
    OBVIOUS
  <2>4. \A c \in Promise!Asked : c \in View /\ c \in S
    <3> HIDE DEF S
    <3> QED BY <2>1, <2>2, <2>3 DEF Promise!Asked
  <2> QED BY <2>4
<1>4. ASSUME NEW c \in Promise!Asked \ {Root}, NEW i \in DOMAIN dest[Parent[c]]
      PROVE  LET match == Promise!Matches(c, ParentKey[c][dest[Parent[c]][i]])
             IN IF match = {}
                THEN i \in DOMAIN held[c] => \A r \in Row : held[c][i][r] = 0
                ELSE /\ i \in DOMAIN held[c]
                     /\ IF c \in Many
                        THEN held[c][i] = [r \in Row |-> IF r \in match THEN 1 ELSE 0]
                        ELSE \E m \in match :
                               held[c][i] = [r \in Row |-> IF r = m THEN 1 ELSE 0]
  <2>1. c \in View /\ pc[c] \in Finished /\ Joined(c) /\ ViewOK(c)
    BY <1>0, <1>1, <1>3 DEF Answer, ReadInv, JoinInv
  <2>2. IsFiniteSet({r \in Table[c] : ChildKey[r] = KeyAt(c, i)})
    BY <1>0, <2>1, MatchFinite
  <2> QED BY <1>0, <2>1, <2>2, JoinedKept DEF KeyAt
<1> QED BY <1>2, <1>4 DEF Promise!IsJoin

\* Whatever runs and in whatever order, Read is one step to its caller: it answers
\* once, with an error only where one may occur and else with the join of the views
\* that were asked for. That it answers at all is left to the model checker.
THEOREM ReadIsAtomic ==
  ASSUME MatchedBelowMatched, KeysFit PROVE Spec => Promise!OneAnswer
<1> DEFINE Inv == ReadInv /\ Answer
           Res == IF outcome = "ok" THEN [rows |-> dest, held |-> held] ELSE {}
<1>1. Init => Promise!Init
  BY DEF Init, Promise!Init
<1>2. Inv => (outcome = "ok" => Promise!IsJoin(dest, held))
  BY AnswerIsJoin
<1>3. (outcome = "ok" => Promise!IsJoin(dest, held))' /\ Inv /\ [Next]_vars
        => [Promise!Next]_<<outcome, Res>>
  <2> SUFFICES ASSUME (outcome = "ok" => Promise!IsJoin(dest, held))', Inv, [Next]_vars
      PROVE  Promise!Next \/ UNCHANGED <<outcome, Res>>
    BY DEF Inv
  <2>1. ASSUME NEW v \in View, Step(v) PROVE UNCHANGED <<outcome, Res>>
    <3>1. outcome' = outcome
      BY <2>1 DEF Step, EnterFailed, Enter, RelationsFail, GatherFailed, GatherAll, Gather,
         GatherUnmapped, IndexParent, ReadPlaceholders, OpenBatch, FetchRow,
         CloseBatch, QueryFails, SkipGroup, EmitFetched, JoinRelations, Return,
         Leave, LeaveGroup
    <3>2. outcome = "ok" => UNCHANGED <<dest, held>>
      BY <2>1, AfterAnswer DEF ReadInv, LeaveGroup, data
    <3> QED BY <3>1, <3>2
  <2>2. CASE ReadFails
    <3>1. outcome = "running" /\ outcome' = "error" /\ MayFail # {}
      BY <2>2 DEF ReadFails, ReadDone, ReadInv, JoinInv
    <3> QED BY <3>1 DEF Promise!Next, Promise!Fail
  <2>3. CASE ReadMerges
    <3>1. outcome = "running" /\ outcome' = "ok"
      BY <2>3 DEF ReadMerges, ReadDone
    <3>2. Promise!IsJoin(Res'.rows, Res'.held)
      BY <3>1
    <3> QED BY <3>1, <3>2 DEF Promise!Next, Promise!Succeed
  <2>4. CASE UNCHANGED vars
    BY <2>4 DEF vars
  <2> QED BY <2>1, <2>2, <2>3, <2>4 DEF Next, Terminated
<1>4. Inv /\ [Next]_vars => Inv'
  BY ReadInvNext
<1>5. Init => Inv
  BY ReadInvInit
<1> QED BY <1>1, <1>2, <1>3, <1>4, <1>5, PTL DEF Spec, Promise!OneAnswer
=============================================================================
