---------------------------- MODULE WriteProofs ----------------------------
(***************************************************************************)
(* Requests to generated rules, for any tables, rules, bodies and number   *)
(* of requests at once: ids are given once, records belong to those they   *)
(* are in, and rows are what was asked for, and keep what was not.         *)
(*                                                                         *)
(* Ids are given, statements are made and executed record by record, each  *)
(* by a fold. A fold is first shown to be a run through states.            *)
(***************************************************************************)
EXTENDS WriteRequest, FiniteSetTheorems, SequenceTheorems, WellFoundedInduction, TLAPS

-----------------------------------------------------------------------------
(* Folds.                                                                   *)

\* What starts at zero and goes on gets to the end.
LEMMA Inductive ==
  ASSUME NEW n \in Nat, NEW S, 0 \in S, \A i \in 1..n : i - 1 \in S => i \in S
  PROVE  \A i \in 0..n : i \in S
<1> SUFFICES ASSUME NEW k \in 0..n, k \notin S PROVE FALSE
  OBVIOUS
<1> DEFINE T == {i \in Nat : i \notin S}
<1>1. PICK less : less = {ss \in Nat \X Nat : ss[1] < ss[2]}
  OBVIOUS
<1>2. IsWellFoundedOn(less, Nat)
  BY <1>1, NatLessThanWellFounded, Zenon DEF OpToRel
<1>3. T \subseteq Nat /\ k \in T
  OBVIOUS
<1> HIDE DEF T
<1>4. PICK x \in T : \A y \in T : ~(<<y, x>> \in less)
  BY <1>2, <1>3, WFMin, Zenon
<1>5. \A y \in Nat : y < x => y \notin T
  BY <1>1, <1>3, <1>4
<1>6. x \in Nat /\ x \notin S /\ x <= k
  BY <1>3, <1>5 DEF T
<1>7. x # 0 /\ x - 1 \in Nat /\ x - 1 < x
  BY <1>6
<1>8. x - 1 \in S
  BY <1>5, <1>7 DEF T
<1> QED BY <1>6, <1>7, <1>8

\* The greatest of some positions is one of them.
LEMMA GreatestIs ==
  ASSUME NEW n \in Nat
  PROVE  \A S \in SUBSET (1..n) : S # {} => Max(S) \in S /\ \A y \in S : Max(S) >= y
<1> DEFINE Bounded(k) == \A S \in SUBSET (1..k) : S # {} => \E x \in S : \A y \in S : x >= y
           good == {k \in 0..n : Bounded(k)}
<1>1. 0 \in good
  <2>1. SUBSET (1..0) = {{}}
    OBVIOUS
  <2>2. Bounded(0)
    BY <2>1
  <2> HIDE DEF Bounded
  <2> QED BY <2>2
<1>2. ASSUME NEW k \in 1..n, k - 1 \in good PROVE k \in good
  <2> SUFFICES ASSUME NEW S \in SUBSET (1..k), S # {} PROVE \E x \in S : \A y \in S : x >= y
    OBVIOUS
  <2>1. CASE k \in S
    BY <2>1
  <2>2. CASE k \notin S
    <3>1. S \in SUBSET (1..(k - 1))
      BY <2>2
    <3> QED BY <1>2, <3>1
  <2> QED BY <2>1, <2>2
<1>3. n \in good
  <2> HIDE DEF good
  <2> QED BY <1>1, <1>2, Inductive
<1>4. Bounded(n)
  BY <1>3
<1> QED BY <1>4, Zenon DEF Max

\* What Allocate, Statements and Run do with one of their items.
Further(of, done, item) ==
  CASE of.kind = "ids" -> AllocateNext(done, item, of.v, of.field)
    [] of.kind = "statements" -> StatementsNext(done, item, of.method, of.index, of.rule)
    [] of.kind = "rows" -> RunNext(done, item)

\* The function a fold of items is made with, by what it is for the sets of the first ones.
IsFold(fold, of, base, items) ==
  fold = [S \in SUBSET DOMAIN items |->
            IF S = {} THEN base ELSE Further(of, fold[S \ {Max(S)}], items[Max(S)])]

\* There is such a function, whatever is folded.
LEMMA FoldExists ==
  ASSUME NEW of, NEW base, NEW n \in Nat, NEW items, DOMAIN items = 1..n
  PROVE  \E fold : IsFold(fold, of, base, items)
<1> DEFINE Is(it, k) == \A S \in SUBSET (1..k) :
             it[S] = IF S = {} THEN base ELSE Further(of, it[S \ {Max(S)}], items[Max(S)])
           good == {k \in 0..n : \E it : Is(it, k)}
<1>1. 0 \in good
  <2> DEFINE it == [S \in SUBSET (1..0) |-> base]
  <2>1. SUBSET (1..0) = {{}}
    OBVIOUS
  <2>2. \A S \in SUBSET (1..0) : S = {} /\ it[S] = base
    BY <2>1
  <2> HIDE DEF it
  <2>3. Is(it, 0)
    BY <2>2
  <2> HIDE DEF Is
  <2> QED BY <2>3
<1>2. ASSUME NEW k \in 1..n, k - 1 \in good PROVE k \in good
  <2>1. PICK f : Is(f, k - 1)
    BY <1>2
  <2> DEFINE it == [S \in SUBSET (1..k) |->
                      IF k \in S THEN Further(of, f[S \ {k}], items[k]) ELSE f[S]]
  <2>2. \A S \in SUBSET (1..k) : /\ k \in S => S \ {k} \in SUBSET (1..(k - 1))
                                 /\ k \notin S => S \in SUBSET (1..(k - 1))
    OBVIOUS
  <2>3. \A S \in SUBSET (1..(k - 1)) : S \in SUBSET (1..k) /\ k \notin S
    OBVIOUS
  <2>4. \A S \in SUBSET (1..k) :
          it[S] = IF k \in S THEN Further(of, f[S \ {k}], items[k]) ELSE f[S]
    OBVIOUS
  <2> HIDE DEF it
  <2>5. ASSUME NEW S \in SUBSET (1..k)
        PROVE  it[S] = IF S = {} THEN base ELSE Further(of, it[S \ {Max(S)}], items[Max(S)])
    <3>1. CASE k \in S
      <4>1. Max(S) = k
        <5>0. k \in Nat /\ S # {}
          BY <3>1
        <5>1. Max(S) \in S /\ \A y \in S : Max(S) >= y
          BY <5>0, GreatestIs
        <5>2. Max(S) \in 1..k /\ Max(S) >= k
          BY <3>1, <5>1
        <5> QED BY <5>1, <5>2
      <4>2. S \ {k} \in SUBSET (1..k) /\ k \notin S \ {k} /\ S # {}
        BY <3>1
      <4>3. it[S] = Further(of, f[S \ {k}], items[k]) /\ it[S \ {k}] = f[S \ {k}]
        BY <2>4, <3>1, <4>2
      <4> QED BY <4>1, <4>2, <4>3
    <3>2. CASE k \notin S
      <4>1. S \in SUBSET (1..(k - 1)) /\ it[S] = f[S]
        BY <2>2, <2>4, <3>2
      <4>2. S \ {Max(S)} \in SUBSET (1..(k - 1)) /\ it[S \ {Max(S)}] = f[S \ {Max(S)}]
        <5>1. S \ {Max(S)} \in SUBSET (1..(k - 1))
          BY <4>1
        <5> QED BY <2>3, <2>4, <5>1
      <4> QED BY <2>1, <4>1, <4>2
    <3> QED BY <3>1, <3>2
  <2>6. Is(it, k)
    BY <2>5
  <2> HIDE DEF Is
  <2> QED BY <2>6
<1>3. PICK it : Is(it, n)
  <2>1. \A i \in 0..n : i \in good
    <3> HIDE DEF good
    <3> QED BY <1>1, <1>2, Inductive
  <2> HIDE DEF Is
  <2> QED BY <2>1
<1> DEFINE fold == [S \in SUBSET (1..n) |-> it[S]]
<1>4. \A S \in SUBSET (1..n) : S # {} => S \ {Max(S)} \in SUBSET (1..n)
  OBVIOUS
<1>5. IsFold(fold, of, base, items)
  BY <1>3, <1>4 DEF IsFold
<1> HIDE DEF fold
<1> QED BY <1>5

\* A run from what a fold starts with, item by item.
Runs(run, of, base, items) ==
  /\ run[0] = base
  /\ \A i \in DOMAIN items : run[i] = Further(of, run[i - 1], items[i])

\* A fold goes through its items in their order.
LEMMA FoldRuns ==
  ASSUME NEW of, NEW base, NEW n \in Nat, NEW items, DOMAIN items = 1..n,
         NEW fold, IsFold(fold, of, base, items)
  PROVE  \E run : Runs(run, of, base, items) /\ run[n] = fold[1..n]
<1>1. \A S \in SUBSET (1..n) :
        fold[S] = IF S = {} THEN base ELSE Further(of, fold[S \ {Max(S)}], items[Max(S)])
  BY DEF IsFold
<1> DEFINE run == [i \in 0..n |-> fold[1..i]]
<1>2. run[0] = base
  <2>1. 1..0 = {}
    OBVIOUS
  <2>2. fold[{}] = base
    <3>1. {} \in SUBSET (1..n)
      OBVIOUS
    <3> QED BY <1>1, <3>1, Zenon
  <2> QED BY <2>1, <2>2
<1>3. ASSUME NEW i \in 1..n PROVE run[i] = Further(of, run[i - 1], items[i])
  <2>1. 1..i \in SUBSET (1..n) /\ i \in 1..i /\ (1..i) \ {i} = 1..(i - 1)
    OBVIOUS
  <2>2. 1..i # {}
    BY <2>1
  <2>3. Max(1..i) = i
    <3>1. Max(1..i) \in 1..i /\ Max(1..i) >= i
      BY <2>1, <2>2, GreatestIs
    <3> QED BY <3>1
  <2>4. fold[1..i] = Further(of, fold[(1..i) \ {Max(1..i)}], items[Max(1..i)])
    BY <1>1, <2>1, <2>2, Zenon
  <2>5. run[i] = fold[1..i] /\ run[i - 1] = fold[1..(i - 1)]
    OBVIOUS
  <2> HIDE DEF run
  <2> QED BY <2>1, <2>3, <2>4, <2>5
<1>4. run[n] = fold[1..n]
  OBVIOUS
<1> HIDE DEF run
<1>5. Runs(run, of, base, items)
  BY <1>2, <1>3 DEF Runs
<1> QED BY <1>4, <1>5

\* $sequencer.Allocate gives ids to one record after another.
Allocates(run, n, p, v, field, next) ==
  /\ run[0] = [payload |-> <<>>, next |-> next]
  /\ run[n] = Allocate(p, v, field, next)
  /\ \A i \in 1..n : run[i] = AllocateNext(run[i - 1], p[i], v, field)

\* There are such states, for any payload.
LEMMA AllocateRuns ==
  ASSUME NEW n \in Nat, NEW p, DOMAIN p = 1..n, NEW v, NEW field, NEW next
  PROVE  \E run : Allocates(run, n, p, v, field, next)
<1> DEFINE base == [payload |-> <<>>, next |-> next]
           of   == [kind |-> "ids", v |-> v, field |-> field]
           F(g) == [S \in SUBSET DOMAIN p |->
                      IF S = {} THEN base ELSE AllocateNext(g[S \ {Max(S)}], p[Max(S)], v, field)]
<1>1. \A x, t : Further(of, x, t) = AllocateNext(x, t, v, field)
  BY DEF Further
<1>2. Allocate(p, v, field, next) = (CHOOSE g : g = F(g))[DOMAIN p]
  BY Zenon DEF Allocate, FoldLeft, MapThenFoldSet
<1> HIDE DEF of, base
<1>3. PICK fold : IsFold(fold, of, base, p)
  BY FoldExists
<1>4. \A g : IsFold(g, of, base, p) <=> g = F(g)
  BY <1>1 DEF IsFold
<1>5. PICK h : h = F(h) /\ Allocate(p, v, field, next) = h[1..n]
  <2> HIDE DEF F
  <2> QED BY <1>2, <1>3, <1>4, Zenon
<1>6. PICK run : Runs(run, of, base, p) /\ run[n] = h[1..n]
  <2>1. IsFold(h, of, base, p)
    BY <1>4, <1>5
  <2> QED BY <2>1, FoldRuns
<1> QED BY <1>1, <1>5, <1>6 DEF Runs, base, Allocates

\* Statements are made of one record after another.
Makes(run, n, p, method, ix, rule) ==
  /\ run[0] = [payload |-> <<>>, made |-> <<>>]
  /\ run[n] = Statements(method, ix, rule, p)
  /\ \A i \in 1..n : run[i] = StatementsNext(run[i - 1], p[i], method, ix, rule)

\* There are such states, for any payload.
LEMMA StatementsRuns ==
  ASSUME NEW n \in Nat, NEW p, DOMAIN p = 1..n, NEW method, NEW ix, NEW rule
  PROVE  \E run : Makes(run, n, p, method, ix, rule)
<1> DEFINE base == [payload |-> <<>>, made |-> <<>>]
           of   == [kind |-> "statements", method |-> method, index |-> ix, rule |-> rule]
           F(g) == [S \in SUBSET DOMAIN p |->
                      IF S = {} THEN base
                      ELSE StatementsNext(g[S \ {Max(S)}], p[Max(S)], method, ix, rule)]
<1>1. \A x, t : Further(of, x, t) = StatementsNext(x, t, method, ix, rule)
  BY DEF Further
<1>2. Statements(method, ix, rule, p) = (CHOOSE g : g = F(g))[DOMAIN p]
  BY Zenon DEF Statements, FoldLeft, MapThenFoldSet
<1> HIDE DEF of, base
<1>3. PICK fold : IsFold(fold, of, base, p)
  BY FoldExists
<1>4. \A g : IsFold(g, of, base, p) <=> g = F(g)
  BY <1>1 DEF IsFold
<1>5. PICK h : h = F(h) /\ Statements(method, ix, rule, p) = h[1..n]
  <2> HIDE DEF F
  <2> QED BY <1>2, <1>3, <1>4, Zenon
<1>6. PICK run : Runs(run, of, base, p) /\ run[n] = h[1..n]
  <2>1. IsFold(h, of, base, p)
    BY <1>4, <1>5
  <2> QED BY <2>1, FoldRuns
<1> QED BY <1>1, <1>5, <1>6 DEF Runs, base, Makes

\* A transaction goes from one statement to the next.
Executes(run, n, statements, all) ==
  /\ run[0] = [ok |-> TRUE, tables |-> all]
  /\ run[n] = Run(all, statements)
  /\ \A i \in 1..n : run[i] = RunNext(run[i - 1], statements[i])

\* There are such states, for any statements.
LEMMA TransactionRuns ==
  ASSUME NEW n \in Nat, NEW statements, DOMAIN statements = 1..n, NEW all
  PROVE  \E run : Executes(run, n, statements, all)
<1> DEFINE base == [ok |-> TRUE, tables |-> all]
           of   == [kind |-> "rows"]
           F(g) == [S \in SUBSET DOMAIN statements |->
                      IF S = {} THEN base ELSE RunNext(g[S \ {Max(S)}], statements[Max(S)])]
<1>1. \A x, t : Further(of, x, t) = RunNext(x, t)
  BY DEF Further
<1>2. Run(all, statements) = (CHOOSE g : g = F(g))[DOMAIN statements]
  BY Zenon DEF Run, FoldLeft, MapThenFoldSet
<1> HIDE DEF of, base
<1>3. PICK fold : IsFold(fold, of, base, statements)
  BY FoldExists
<1>4. \A g : IsFold(g, of, base, statements) <=> g = F(g)
  BY <1>1 DEF IsFold
<1>5. PICK h : h = F(h) /\ Run(all, statements) = h[1..n]
  <2> HIDE DEF F
  <2> QED BY <1>2, <1>3, <1>4, Zenon
<1>6. PICK run : Runs(run, of, base, statements) /\ run[n] = h[1..n]
  <2>1. IsFold(h, of, base, statements)
    BY <1>4, <1>5
  <2> QED BY <2>1, FoldRuns
<1> QED BY <1>1, <1>5, <1>6 DEF Runs, base, Executes

\* The first of some items.
FirstOf(items, i) == [k \in 1..i |-> items[k]]

\* What is appended item by item is the items.
LEMMA Appended ==
  ASSUME NEW n \in Nat, NEW items, NEW run, run[0] = <<>>,
         \A i \in 1..n : run[i] = Append(run[i - 1], items[i])
  PROVE  \A i \in 0..n : run[i] = FirstOf(items, i)
<1> DEFINE T == {items[k] : k \in 1..n}
           Is(i) == run[i] = [k \in 1..i |-> items[k]]
           good == {i \in 0..n : Is(i)}
<1>1. 0 \in good
  <2>1. <<>> = [k \in 1..0 |-> items[k]]
    OBVIOUS
  <2> QED BY <2>1
<1>2. ASSUME NEW i \in 1..n, i - 1 \in good PROVE i \in good
  <2> DEFINE s == [k \in 1..(i - 1) |-> items[k]]
  <2>1. s \in Seq(T) /\ Len(s) = i - 1 /\ items[i] \in T
    <3>1. items[i] \in T /\ \A k \in 1..(i - 1) : items[k] \in T
      OBVIOUS
    <3> HIDE DEF T
    <3>2. i - 1 \in Nat /\ s \in [1..(i - 1) -> T]
      BY <3>1
    <3> QED BY <3>1, <3>2
  <2>2. run[i] = Append(s, items[i])
    BY <1>2
  <2>3. \A k \in 1..(i - 1) : s[k] = items[k]
    OBVIOUS
  <2> HIDE DEF s, T
  <2>4. /\ Append(s, items[i]) \in Seq(T) /\ Len(Append(s, items[i])) = i
        /\ \A k \in 1..(i - 1) : Append(s, items[i])[k] = items[k]
        /\ Append(s, items[i])[i] = items[i]
    BY <2>1, <2>3, AppendProperties
  <2>5. Append(s, items[i]) = [k \in 1..i |-> items[k]]
    BY <2>4
  <2> QED BY <2>2, <2>5
<1>3. \A i \in 0..n : i \in good
  <2> HIDE DEF good
  <2> QED BY <1>1, <1>2, Inductive
<1> QED BY <1>3 DEF FirstOf

\* What FlattenSeq makes of sequences is one of their elements.
LEMMA Flattened ==
  ASSUME NEW S, NEW seqs \in Seq(Seq(S))
  PROVE  FlattenSeq(seqs) \in Seq(S)
<1> DEFINE n == Len(seqs)
           G(f) == [i \in 1..n |-> IF i = 1 THEN seqs[i] ELSE f[i - 1] \o seqs[i]]
           Is(f, k) == f \in [1..k -> Seq(S)] /\ \A i \in 1..k :
                         f[i] = IF i = 1 THEN seqs[i] ELSE f[i - 1] \o seqs[i]
           good == {k \in 0..n : \E f : Is(f, k)}
<1>1. n \in Nat /\ DOMAIN seqs = 1..n /\ \A i \in 1..n : seqs[i] \in Seq(S)
  OBVIOUS
<1>2. 0 \in good
  <2>1. Is([i \in 1..0 |-> <<>>], 0)
    OBVIOUS
  <2> HIDE DEF Is
  <2> QED BY <1>1, <2>1
<1>3. ASSUME NEW k \in 1..n, k - 1 \in good PROVE k \in good
  <2>1. PICK f : Is(f, k - 1)
    BY <1>3
  <2> DEFINE last == IF k = 1 THEN seqs[k] ELSE f[k - 1] \o seqs[k]
             more == [i \in 1..k |-> IF i = k THEN last ELSE f[i]]
  <2>2. last \in Seq(S)
    <3>1. k # 1 => f[k - 1] \in Seq(S)
      BY <2>1
    <3>2. seqs[k] \in Seq(S)
      BY <1>1
    <3> QED BY <3>1, <3>2
  <2>3. more \in [1..k -> Seq(S)]
    BY <2>1, <2>2
  <2>4. \A i \in 1..k : more[i] = IF i = 1 THEN seqs[i] ELSE more[i - 1] \o seqs[i]
    <3> SUFFICES ASSUME NEW i \in 1..k
                 PROVE  more[i] = IF i = 1 THEN seqs[i] ELSE more[i - 1] \o seqs[i]
      OBVIOUS
    <3>1. k - 1 \in 0..n /\ i # 1 => i - 1 \in 1..(k - 1) /\ i - 1 \in 1..k /\ i - 1 # k
      OBVIOUS
    <3>2. i # 1 => more[i - 1] = f[i - 1]
      BY <3>1
    <3>3. CASE i = k
      BY <3>2, <3>3
    <3>4. CASE i # k
      <4>1. i \in 1..(k - 1) /\ more[i] = f[i]
        BY <3>4
      <4> HIDE DEF more
      <4> QED BY <2>1, <3>2, <4>1
    <3> QED BY <3>3, <3>4
  <2>5. Is(more, k)
    BY <2>3, <2>4
  <2> HIDE DEF Is, more
  <2> QED BY <2>5
<1>4. CASE n = 0
  <2>1. FlattenSeq(seqs) = seqs /\ seqs = <<>>
    BY <1>4 DEF FlattenSeq
  <2> QED BY <2>1
<1>5. CASE n # 0
  <2>1. PICK f : Is(f, n)
    <3>1. \A i \in 0..n : i \in good
      <4> HIDE DEF good, n
      <4> QED BY <1>1, <1>2, <1>3, Inductive
    <3> HIDE DEF Is, n
    <3> QED BY <1>1, <3>1
  <2>2. f = G(f)
    BY <2>1
  <2>3. FlattenSeq(seqs) = (CHOOSE g : g = G(g))[n]
    <3>1. Len(seqs) # 0
      BY <1>5
    <3> QED BY <3>1, Zenon DEF FlattenSeq
  <2>4. PICK g : g = G(g) /\ FlattenSeq(seqs) = g[n]
    <3> HIDE DEF G
    <3> QED BY <2>2, <2>3, Zenon
  <2> DEFINE typed == {k \in 0..n : k = 0 \/ g[k] \in Seq(S)}
  <2>5. \A i \in 1..n : g[i] = IF i = 1 THEN seqs[i] ELSE g[i - 1] \o seqs[i]
    BY <2>4
  <2>6. ASSUME NEW k \in 1..n, k - 1 \in typed PROVE k \in typed
    <3>1. k # 1 => g[k - 1] \in Seq(S)
      BY <2>6
    <3>2. seqs[k] \in Seq(S)
      BY <1>1
    <3>3. g[k] = IF k = 1 THEN seqs[k] ELSE g[k - 1] \o seqs[k]
      BY <2>5, Zenon
    <3>4. g[k] \in Seq(S)
      <4>1. CASE k = 1
        BY <3>2, <3>3, <4>1
      <4>2. CASE k # 1
        <5>1. g[k - 1] \o seqs[k] \in Seq(S)
          BY <3>1, <3>2, <4>2
        <5> QED BY <3>3, <4>2, <5>1
      <4> QED BY <4>1, <4>2
    <3> QED BY <3>4
  <2>7. \A i \in 0..n : i \in typed
    <3>1. 0 \in typed
      BY <1>1
    <3> HIDE DEF typed, n
    <3> QED BY <1>1, <2>6, <3>1, Inductive
  <2>8. n \in typed
    <3> HIDE DEF typed
    <3> QED BY <1>1, <2>7
  <2> QED BY <1>5, <2>4, <2>8
<1> QED BY <1>4, <1>5

\* What does not get less from one step to the next does not get less.
LEMMA Ascends ==
  ASSUME NEW n \in Nat, NEW f, \A i \in 0..n : f[i] \in Nat, \A i \in 1..n : f[i - 1] <= f[i]
  PROVE  \A i \in 0..n : \A k \in 0..n : i <= k => f[i] <= f[k]
<1> SUFFICES ASSUME NEW i \in 0..n PROVE \A k \in 0..n : i <= k => f[i] <= f[k]
  OBVIOUS
<1> DEFINE good == {k \in 0..n : i <= k => f[i] <= f[k]}
<1>1. 0 \in good
  OBVIOUS
<1>2. ASSUME NEW k \in 1..n, k - 1 \in good PROVE k \in good
  <2>1. CASE i = k
    BY <2>1
  <2>2. CASE i # k
    <3>1. i <= k => i <= k - 1
      BY <2>2
    <3>2. k - 1 \in 0..n /\ k \in 0..n /\ f[k - 1] <= f[k]
      OBVIOUS
    <3>3. f[i] \in Nat /\ f[k - 1] \in Nat /\ f[k] \in Nat
      BY <3>2
    <3>4. i <= k => f[i] <= f[k - 1]
      BY <1>2, <3>1
    <3> QED BY <3>2, <3>3, <3>4
  <2> QED BY <2>1, <2>2
<1>3. \A k \in 0..n : k \in good
  <2> HIDE DEF good
  <2> QED BY <1>1, <1>2, Inductive
<1> QED BY <1>3

-----------------------------------------------------------------------------
(* Ids.                                                                     *)

\* A record of a payload.
Record(rule, r) ==
  /\ r = [view |-> r.view, in |-> r.in, row |-> r.row, has |-> r.has]
  /\ r.view \in DOMAIN rule
  /\ r.row = [name \in NamesOf(rule[r.view]) |-> r.row[name]]

\* What a body has become: its records with other values in their rows.
Alike(rule, body, p) ==
  /\ DOMAIN p = DOMAIN body
  /\ \A i \in DOMAIN body : /\ Record(rule, p[i]) /\ p[i].view = body[i].view
                            /\ p[i].in = body[i].in /\ p[i].has = body[i].has

\* Records of a view are given ids from a block, in one of their fields: to each that had none
\* another one, and nothing else becomes of them.
Gives(old, new, v, field, from, to) ==
  /\ \A i \in DOMAIN old : \A name \in DOMAIN old[i].row :
       \/ new[i].row[name] = old[i].row[name]
       \/ /\ old[i].view = v /\ name = field
          /\ IsEmpty(old[i].row[field]) /\ new[i].row[field] \in from .. to - 1
  /\ \A i \in DOMAIN old : \A k \in DOMAIN old :
       /\ i # k /\ old[i].view = v /\ old[k].view = v
       /\ IsEmpty(old[i].row[field]) /\ ~IsEmpty(new[i].row[field])
       /\ IsEmpty(old[k].row[field]) /\ ~IsEmpty(new[k].row[field])
       => new[i].row[field] # new[k].row[field]

\* A record gets the next id when it has none, which moves the sequence on.
Lacks(r, v, field) == r.view = v /\ IsEmpty(r.row[field])
RowGiven(r, v, field, next) == IF Lacks(r, v, field) THEN [r.row EXCEPT ![field] = next] ELSE r.row
WithRow(r, row) == [r EXCEPT !.row = row]

\* The states of Allocate, field by field.
LEMMA NextGiven ==
  ASSUME NEW rule, NEW r, Record(rule, r), NEW v, NEW field, NEW done
  PROVE  /\ AllocateNext(done, r, v, field).payload
              = Append(done.payload, WithRow(r, RowGiven(r, v, field, done.next)))
         /\ AllocateNext(done, r, v, field).next
              = IF Lacks(r, v, field) THEN done.next + Increment ELSE done.next
<1>1. r = [view |-> r.view, in |-> r.in, row |-> r.row, has |-> r.has]
  BY DEF Record
<1>2. r = [r EXCEPT !.row = r.row]
  BY <1>1
<1> QED BY <1>2 DEF AllocateNext, GiveId, Lacks, RowGiven, WithRow

\* The empty ids of the first records.
LackingTo(k, p, v, field) == {i \in 1..k : Lacks(p[i], v, field)}

\* They are one more, or none.
LEMMA EmptyCounted ==
  ASSUME NEW p, NEW v, NEW field, NEW k \in Nat
  PROVE  /\ Cardinality(LackingTo(k, p, v, field)) \in Nat
         /\ k # 0 => Cardinality(LackingTo(k, p, v, field))
                       = IF Lacks(p[k], v, field) THEN Cardinality(LackingTo(k - 1, p, v, field)) + 1
                         ELSE Cardinality(LackingTo(k - 1, p, v, field))
         /\ k = 0 => Cardinality(LackingTo(k, p, v, field)) = 0
<1> DEFINE E(i) == LackingTo(i, p, v, field)
<1>1. \A i \in Nat : IsFiniteSet(E(i)) /\ Cardinality(E(i)) \in Nat
  <2> SUFFICES ASSUME NEW i \in Nat PROVE IsFiniteSet(E(i)) /\ Cardinality(E(i)) \in Nat
    OBVIOUS
  <2>1. IsFiniteSet(1..i)
    BY FS_Interval
  <2>2. E(i) \subseteq 1..i
    BY DEF LackingTo
  <2> HIDE DEF E
  <2> QED BY <2>1, <2>2, FS_Subset, FS_CardinalityType
<1>2. CASE k # 0 /\ Lacks(p[k], v, field)
  <2>1. E(k) = E(k - 1) \cup {k} /\ k \notin E(k - 1)
    BY <1>2 DEF LackingTo
  <2>2. k - 1 \in Nat /\ k \in Nat
    BY <1>2
  <2> HIDE DEF E
  <2>3. Cardinality(E(k)) = Cardinality(E(k - 1)) + 1
    BY <1>1, <2>1, <2>2, FS_AddElement
  <2> QED BY <1>1, <1>2, <2>2, <2>3 DEF E
<1>3. CASE k # 0 /\ ~Lacks(p[k], v, field)
  <2>1. E(k) = E(k - 1)
    BY <1>3 DEF LackingTo
  <2> QED BY <1>1, <1>3, <2>1
<1>4. CASE k = 0
  <2>1. E(0) = {}
    BY DEF LackingTo
  <2>2. Cardinality(E(0)) = 0
    BY <2>1, FS_EmptySet
  <2> QED BY <1>4, <2>2
<1> QED BY <1>2, <1>3, <1>4

\* Allocate gives as many ids as countEmpty finds empty, and each once.
LEMMA AllocateIs ==
  ASSUME NEW rule, NEW n \in Nat, NEW p, DOMAIN p = 1..n, \A i \in 1..n : Record(rule, p[i]),
         NEW v \in DOMAIN rule, NEW field \in NamesOf(rule[v]), NEW next \in Nat,
         NEW done, done = Allocate(p, v, field, next)
  PROVE  /\ done.next = next + CountEmpty(p, v, field) * Increment
         /\ done.next \in Nat /\ done.next >= next
         /\ Alike(rule, p, done.payload)
         /\ Gives(p, done.payload, v, field, next, done.next)
<1>1. PICK run : Allocates(run, n, p, v, field, next)
  BY AllocateRuns
<1>0. /\ run[0] = [payload |-> <<>>, next |-> next] /\ run[n] = done
      /\ \A i \in 1..n : run[i] = AllocateNext(run[i - 1], p[i], v, field)
  BY <1>1 DEF Allocates
<1> DEFINE row(i) == RowGiven(p[i], v, field, run[i - 1].next)
           new == [i \in 1..n |-> WithRow(p[i], row(i))]
           at == [i \in 0..n |-> run[i].next]
           ps == [i \in 0..n |-> run[i].payload]
           E(k) == LackingTo(k, p, v, field)
           empty(i) == Lacks(p[i], v, field)
<1>2. ASSUME NEW i \in 1..n
      PROVE /\ run[i].payload = Append(run[i - 1].payload, WithRow(p[i], row(i)))
            /\ run[i].next = IF empty(i) THEN run[i - 1].next + Increment ELSE run[i - 1].next
  <2>1. run[i] = AllocateNext(run[i - 1], p[i], v, field) /\ Record(rule, p[i])
    BY <1>0
  <2>2. PICK before : before = run[i - 1]
    OBVIOUS
  <2>3. /\ AllocateNext(before, p[i], v, field).payload
             = Append(before.payload, WithRow(p[i], RowGiven(p[i], v, field, before.next)))
        /\ AllocateNext(before, p[i], v, field).next
             = IF Lacks(p[i], v, field) THEN before.next + Increment ELSE before.next
    BY <2>1, NextGiven
  <2> QED BY <2>1, <2>2, <2>3
<1>3. done.payload = [k \in 1..n |-> new[k]]
  <2>1. ps[0] = <<>> /\ ps[n] = done.payload
    BY <1>0
  <2>2. \A i \in 1..n : ps[i] = Append(ps[i - 1], new[i])
    <3> SUFFICES ASSUME NEW i \in 1..n PROVE ps[i] = Append(ps[i - 1], new[i])
      OBVIOUS
    <3>1. i - 1 \in 0..n /\ i \in 0..n
      OBVIOUS
    <3>2. /\ ps[i] = run[i].payload /\ ps[i - 1] = run[i - 1].payload
          /\ new[i] = WithRow(p[i], row(i))
      BY <3>1
    <3> HIDE DEF ps, new, row
    <3> QED BY <1>2, <3>2
  <2>3. n \in 0..n
    OBVIOUS
  <2> HIDE DEF ps, new
  <2>4. ps[n] = FirstOf(new, n)
    BY <2>1, <2>2, <2>3, Appended
  <2> QED BY <2>1, <2>4 DEF FirstOf
<1>4. at[0] = next /\ at[n] = done.next
  BY <1>0
<1>5. \A i \in 1..n : at[i] = IF empty(i) THEN at[i - 1] + Increment ELSE at[i - 1]
  <2> SUFFICES ASSUME NEW i \in 1..n
               PROVE  at[i] = IF empty(i) THEN at[i - 1] + Increment ELSE at[i - 1]
    OBVIOUS
  <2>1. i - 1 \in 0..n /\ i \in 0..n
    OBVIOUS
  <2>2. at[i] = run[i].next /\ at[i - 1] = run[i - 1].next
    BY <2>1
  <2> HIDE DEF at, empty
  <2> QED BY <1>2, <2>2
<1>6. \A i \in 0..n : at[i] \in Nat /\ at[i] = next + Cardinality(E(i)) * Increment
  <2> DEFINE good == {i \in 0..n : at[i] \in Nat /\ at[i] = next + Cardinality(E(i)) * Increment}
  <2>1. 0 \in good
    <3>1. Cardinality(E(0)) = 0
      BY EmptyCounted
    <3>2. 0 * Increment = 0
      BY IncrementAssumption
    <3> HIDE DEF at, E
    <3> QED BY <1>4, <3>1, <3>2
  <2>2. ASSUME NEW k \in 1..n, k - 1 \in good PROVE k \in good
    <3> DEFINE c == Cardinality(E(k - 1))
    <3>1. Cardinality(E(k)) = IF empty(k) THEN c + 1 ELSE c
      <4>1. k \in Nat /\ k # 0
        OBVIOUS
      <4> QED BY <4>1, EmptyCounted
    <3>2. c \in Nat
      BY EmptyCounted
    <3>3. at[k - 1] \in Nat /\ at[k - 1] = next + c * Increment
      BY <2>2
    <3>4. at[k] = IF empty(k) THEN at[k - 1] + Increment ELSE at[k - 1]
      BY <1>5
    <3> HIDE DEF at, E, empty, c
    <3>5. Increment \in Nat /\ (c + 1) * Increment = c * Increment + Increment
      BY <3>2, IncrementAssumption
    <3>6. c * Increment \in Nat
      BY <3>2, <3>5
    <3>7. at[k] \in Nat /\ at[k] = next + Cardinality(E(k)) * Increment
      <4>1. CASE empty(k)
        <5>1. at[k] = at[k - 1] + Increment /\ Cardinality(E(k)) = c + 1
          BY <3>1, <3>4, <4>1
        <5>2. Cardinality(E(k)) * Increment = c * Increment + Increment
          BY <3>5, <5>1
        <5> QED BY <3>3, <3>5, <3>6, <5>1, <5>2
      <4>2. CASE ~empty(k)
        BY <3>1, <3>3, <3>4, <4>2
      <4> QED BY <4>1, <4>2
    <3> QED BY <3>7
  <2>3. \A i \in 0..n : i \in good
    <3> HIDE DEF good
    <3> QED BY <2>1, <2>2, Inductive
  <2> QED BY <2>3
<1>7. \A i \in 0..n : \A k \in 0..n : i <= k => at[i] <= at[k]
  <2>1. \A i \in 1..n : at[i - 1] <= at[i]
    <3> SUFFICES ASSUME NEW i \in 1..n PROVE at[i - 1] <= at[i]
      OBVIOUS
    <3>1. i - 1 \in 0..n
      OBVIOUS
    <3>2. at[i - 1] \in Nat
      BY <1>6, <3>1
    <3> HIDE DEF at, empty
    <3> QED BY <1>5, <3>2, IncrementAssumption
  <2>2. \A i \in 0..n : at[i] \in Nat
    BY <1>6
  <2> HIDE DEF at
  <2> QED BY <2>1, <2>2, Ascends
<1>8. done.next = next + CountEmpty(p, v, field) * Increment
  <2>1. CountEmpty(p, v, field) = Cardinality(E(n))
    BY DEF CountEmpty, LackingTo, Lacks
  <2>2. n \in 0..n
    OBVIOUS
  <2> HIDE DEF at, E
  <2> QED BY <1>4, <1>6, <2>1, <2>2
<1>9. done.next \in Nat /\ done.next >= next
  <2>1. 0 \in 0..n /\ n \in 0..n /\ 0 <= n
    OBVIOUS
  <2> HIDE DEF at, E
  <2> QED BY <1>4, <1>6, <1>7, <2>1
<1>10. ASSUME NEW i \in 1..n, empty(i)
       PROVE new[i].row[field] = at[i - 1] /\ at[i - 1] \in next .. done.next - 1
  <2>1. field \in DOMAIN p[i].row
    <3>1. p[i].view = v /\ Record(rule, p[i])
      BY <1>10 DEF Lacks
    <3> QED BY <3>1 DEF Record
  <2>2. new[i].row = [p[i].row EXCEPT ![field] = run[i - 1].next]
    <3>1. p[i] = [view |-> p[i].view, in |-> p[i].in, row |-> p[i].row, has |-> p[i].has]
      BY DEF Record
    <3> QED BY <1>10, <3>1 DEF WithRow, RowGiven
  <2>3. i - 1 \in 0..n /\ i \in 0..n /\ 0 \in 0..n /\ n \in 0..n /\ 0 <= i - 1 /\ i <= n
    OBVIOUS
  <2>4. at[i - 1] = run[i - 1].next
    BY <2>3
  <2>5. at[i] = at[i - 1] + Increment
    BY <1>5, <1>10
  <2>6. new[i].row[field] = at[i - 1]
    BY <2>1, <2>2, <2>4
  <2> HIDE DEF at, new, empty
  <2>7. at[i - 1] \in Nat /\ at[0] <= at[i - 1] /\ at[i] <= at[n]
    BY <1>6, <1>7, <2>3
  <2> QED BY <1>4, <1>9, <2>5, <2>6, <2>7, IncrementAssumption
<1>11. ASSUME NEW i \in 1..n
       PROVE /\ new[i] = WithRow(p[i], row(i)) /\ new[i].row = row(i)
             /\ row(i) = [name \in NamesOf(rule[p[i].view]) |-> row(i)[name]]
             /\ \A name \in DOMAIN p[i].row : name # field \/ ~empty(i) => row(i)[name] = p[i].row[name]
  <2>1. /\ p[i] = [view |-> p[i].view, in |-> p[i].in, row |-> p[i].row, has |-> p[i].has]
        /\ p[i].row = [name \in NamesOf(rule[p[i].view]) |-> p[i].row[name]]
    BY DEF Record
  <2>2. new[i] = WithRow(p[i], row(i))
    OBVIOUS
  <2>3. new[i].row = row(i)
    BY <2>1, <2>2 DEF WithRow
  <2> HIDE DEF new
  <2> QED BY <2>1, <2>2, <2>3 DEF RowGiven
<1>12. Alike(rule, p, done.payload)
  <2> SUFFICES ASSUME NEW i \in 1..n
               PROVE /\ Record(rule, new[i]) /\ new[i].view = p[i].view
                     /\ new[i].in = p[i].in /\ new[i].has = p[i].has
    BY <1>3 DEF Alike
  <2>1. /\ new[i] = WithRow(p[i], row(i))
        /\ row(i) = [name \in NamesOf(rule[p[i].view]) |-> row(i)[name]]
    BY <1>11
  <2>2. Record(rule, p[i])
    OBVIOUS
  <2> HIDE DEF new, row
  <2> QED BY <2>1, <2>2 DEF Record, WithRow
<1>13. Gives(p, done.payload, v, field, next, done.next)
  <2>1. ASSUME NEW i \in 1..n, NEW name \in DOMAIN p[i].row
        PROVE \/ new[i].row[name] = p[i].row[name]
              \/ /\ p[i].view = v /\ name = field
                 /\ IsEmpty(p[i].row[field]) /\ new[i].row[field] \in next .. done.next - 1
    <3>1. CASE name # field \/ ~empty(i)
      <4> HIDE DEF empty, new, row
      <4> QED BY <1>11, <3>1
    <3>2. CASE name = field /\ empty(i)
      <4> HIDE DEF new, row
      <4> QED BY <1>10, <3>2 DEF Lacks
    <3> QED BY <3>1, <3>2
  <2>2. ASSUME NEW i \in 1..n, NEW k \in 1..n, i < k, empty(i), empty(k)
        PROVE new[i].row[field] # new[k].row[field]
    <3>1. i - 1 \in 0..n /\ i \in 0..n /\ k - 1 \in 0..n /\ i <= k - 1
      BY <2>2
    <3>2. at[i] = at[i - 1] + Increment
      BY <1>5, <2>2
    <3>3. new[i].row[field] = at[i - 1] /\ new[k].row[field] = at[k - 1]
      BY <1>10, <2>2
    <3> HIDE DEF at, new, empty
    <3>4. at[i - 1] \in Nat /\ at[i] <= at[k - 1] /\ at[k - 1] \in Nat
      BY <1>6, <1>7, <3>1
    <3> QED BY <3>2, <3>3, <3>4, IncrementAssumption
  <2>3. ASSUME NEW i \in 1..n, NEW k \in 1..n, i # k, empty(i), empty(k)
        PROVE new[i].row[field] # new[k].row[field]
    <3>1. i < k \/ k < i
      BY <2>3
    <3> HIDE DEF new, empty
    <3> QED BY <2>2, <2>3, <3>1
  <2>4. \A i \in 1..n : done.payload[i] = new[i]
    BY <1>3
  <2> HIDE DEF new
  <2> QED BY <2>1, <2>3, <2>4 DEF Gives, Lacks
<1> HIDE DEF new
<1> QED BY <1>8, <1>9, <1>12, <1>13

\* The path of an allocation is that of its view, and its field.
LEMMA PathOf ==
  ASSUME NEW path, IsSequence(path), NEW field
  PROVE  Front(Append(path, field)) = path /\ Last(Append(path, field)) = field
<1> DEFINE T == ToSet(path) \cup {field}
           s == Append(path, field)
<1>1. path \in Seq(T) /\ field \in T
  <2>1. ToSet(path) \subseteq T /\ path \in Seq(ToSet(path))
    BY DEF IsSequence
  <2> HIDE DEF T
  <2>2. Len(path) \in Nat /\ path \in [1..Len(path) -> ToSet(path)]
    BY <2>1
  <2>3. path \in [1..Len(path) -> T]
    BY <2>1, <2>2
  <2> QED BY <2>2, <2>3 DEF T
<1> HIDE DEF T
<1>2. /\ s \in Seq(T) /\ Len(s) = Len(path) + 1 /\ s[Len(path) + 1] = field
      /\ \A i \in 1..Len(path) : s[i] = path[i]
  BY <1>1, AppendProperties
<1> HIDE DEF s
<1>3. Len(path) \in Nat /\ 1 <= Len(path) + 1
  BY <1>1
<1>4. SubSeq(s, 1, Len(path)) = path
  <2>1. \A i \in 1..Len(path) : s[i] \in T
    BY <1>1, <1>2
  <2>2. /\ SubSeq(s, 1, Len(path)) \in Seq(T) /\ Len(SubSeq(s, 1, Len(path))) = Len(path)
        /\ \A i \in 1..Len(path) : SubSeq(s, 1, Len(path))[i] = s[i]
    BY <1>3, <2>1, SubSeqProperties, Z3
  <2> QED BY <1>1, <1>2, <2>2, SeqEqual
<1>5. Len(s) - 1 = Len(path)
  BY <1>2, <1>3
<1> QED BY <1>2, <1>4, <1>5 DEF Front, Last, s

\* Nothing becomes of a payload no ids are given to.
LEMMA NothingGiven ==
  ASSUME NEW rule, NEW p, \A i \in DOMAIN p : Record(rule, p[i]), NEW v, NEW field, NEW next
  PROVE  Alike(rule, p, p) /\ Gives(p, p, v, field, next, next)
BY DEF Alike, Gives

\* What becomes of a call of $sequencer.Allocate that a rule makes: the block it reserves is
\* what it gives.
LEMMA NextIdsIs ==
  ASSUME NEW rule, RuleTyped(rule),
         NEW n \in Nat, NEW p, DOMAIN p = 1..n, \A i \in 1..n : Record(rule, p[i]),
         NEW v \in DOMAIN rule, NEW field \in NamesOf(rule[v]), NEW next \in Nat,
         NEW o, o = NextIds(rule, p, Append(rule[v].path, field), next)
  PROVE  /\ o.as \in {"done", "panic", "loops"}
         /\ o.reserved = o.given /\ o.reserved \in Nat /\ o.reserved >= next
         /\ Alike(rule, p, o.payload)
         /\ Gives(p, o.payload, v, field, next, o.reserved)
<1> DEFINE path == Append(rule[v].path, field)
           same(as) == [as |-> as, payload |-> p, reserved |-> next, given |-> next]
           count == CountEmpty(p, v, field)
           given == Allocate(p, v, field, next)
<1>1. Front(path) = rule[v].path /\ Last(path) = field
  BY PathOf DEF RuleTyped
<1>2. NewNode(rule, path) = {v}
  BY <1>1 DEF NewNode, RuleTyped
<1>3. (CHOOSE u \in NewNode(rule, path) : TRUE) = v
  BY <1>2
<1>4. o = IF Faults(rule, p, path) THEN same("panic")
          ELSE IF count = 0 THEN same("done")
          ELSE IF Leaf(rule, p, path) = Nowhere THEN same("loops")
          ELSE [as |-> "done", payload |-> given.payload,
                reserved |-> NextSequence(next, count), given |-> given.next]
  BY <1>1, <1>2, <1>3 DEF NextIds
<1> HIDE DEF path, count, given
<1>5. Alike(rule, p, p) /\ Gives(p, p, v, field, next, next)
  BY NothingGiven
<1>6. /\ given.next = NextSequence(next, count) /\ given.next \in Nat /\ given.next >= next
      /\ Alike(rule, p, given.payload) /\ Gives(p, given.payload, v, field, next, given.next)
  BY AllocateIs DEF given, count, NextSequence
<1>7. CASE o \in {same("panic"), same("done"), same("loops")}
  <2>1. o.payload = p /\ o.reserved = next /\ o.given = next /\ o.as \in {"done", "panic", "loops"}
    BY <1>7
  <2> QED BY <1>5, <2>1
<1>8. CASE o = [as |-> "done", payload |-> given.payload,
                reserved |-> NextSequence(next, count), given |-> given.next]
  <2>1. o.payload = given.payload /\ o.reserved = given.next /\ o.given = given.next /\ o.as = "done"
    BY <1>6, <1>8
  <2> QED BY <1>6, <2>1
<1> QED BY <1>4, <1>7, <1>8

\* What is known of an allocation that was made is known of the body.
LEMMA AlikeAgain ==
  ASSUME NEW rule, NEW body, NEW p, NEW q, Alike(rule, body, p), Alike(rule, p, q)
  PROVE  Alike(rule, body, q)
BY DEF Alike

-----------------------------------------------------------------------------
(* Rules.                                                                   *)

\* What the database says of a column.
OfColumn(table, meta) ==
  /\ meta.name \in ColumnsOf(table)
  /\ meta.primary <=> meta.name \in Primary[table]
  /\ meta.auto <=> meta.name \in AutoOf(table)
  /\ meta.required <=> meta.name \notin Nullable(table)
  /\ meta.name \in DOMAIN Foreign[table] => meta.fk = Foreign[table][meta.name] /\ meta.fk # NoKey
  /\ meta.name \notin DOMAIN Foreign[table] => meta.fk = NoKey

\* Each field of a view is that of a column of its table.
LEMMA MetaIs ==
  ASSUME NEW rule, RuleTyped(rule), NEW v \in DOMAIN rule
  PROVE  /\ rule[v].table \in DOMAIN Stored
         /\ \A meta \in ToSet(rule[v].metas) :
              meta.name \in NamesOf(rule[v]) /\ OfColumn(rule[v].table, meta)
         /\ \A name \in NamesOf(rule[v]) : \E meta \in ToSet(rule[v].metas) : meta.name = name
         /\ \A meta \in ToSet(rule[v].metas), other \in ToSet(rule[v].metas) :
              meta.name = other.name => meta = other
<1> DEFINE table == rule[v].table
           metas == ToSet(rule[v].metas)
<1>1. /\ table \in DOMAIN Stored
      /\ \A meta \in metas : \E column \in ToSet(Columns[table]) : meta = FieldMeta(table, column)
  BY DEF RuleTyped
<1>2. \A column \in ToSet(Columns[table]), other \in ToSet(Columns[table]) :
        column.name = other.name => column = other
  BY <1>1, SchemaAssumption DEF SchemaAssumption
<1>3. ASSUME NEW meta \in metas, NEW column \in ToSet(Columns[table]), meta = FieldMeta(table, column)
      PROVE /\ meta.name = column.name /\ OfColumn(table, meta)
            /\ meta.name \in NamesOf(rule[v])
  <2>1. /\ meta.name = column.name /\ meta.auto = column.auto
        /\ meta.required = ~column.nullable
        /\ meta.primary = (column.name \in Primary[table])
        /\ meta.fk = IF column.name \in DOMAIN Foreign[table] THEN Foreign[table][column.name] ELSE NoKey
    BY <1>3 DEF FieldMeta
  <2>2. meta.auto <=> meta.name \in AutoOf(table)
    BY <1>2, <2>1 DEF AutoOf
  <2>3. meta.required <=> meta.name \notin Nullable(table)
    BY <1>2, <2>1 DEF Nullable
  <2>4. meta.name \in DOMAIN Foreign[table] => meta.fk # NoKey
    <3>1. meta.name \in DOMAIN Foreign[table] => Foreign[table][meta.name].table # ""
      BY <1>1, SchemaAssumption DEF SchemaAssumption
    <3>2. NoKey.table = ""
      BY DEF NoKey
    <3>3. meta.name \in DOMAIN Foreign[table] => meta.fk.table # NoKey.table
      <4> SUFFICES ASSUME meta.name \in DOMAIN Foreign[table] PROVE meta.fk.table # NoKey.table
        OBVIOUS
      <4>1. meta.fk = Foreign[table][meta.name]
        BY <2>1
      <4> QED BY <3>1, <3>2, <4>1
    <3> QED BY <3>3
  <2>5. meta.name \in ColumnsOf(table)
    BY <2>1 DEF ColumnsOf
  <2>6. meta.name \in NamesOf(rule[v])
    BY DEF NamesOf, ToSet
  <2> QED BY <2>1, <2>2, <2>3, <2>4, <2>5, <2>6 DEF OfColumn
<1>4. \A name \in NamesOf(rule[v]) : \E meta \in metas : meta.name = name
  BY DEF NamesOf, ToSet
<1>5. ASSUME NEW meta \in metas, NEW other \in metas, meta.name = other.name PROVE meta = other
  BY <1>1, <1>2, <1>3, <1>5
<1>6. \A meta \in metas : meta.name \in NamesOf(rule[v]) /\ OfColumn(table, meta)
  BY <1>1, <1>3
<1> HIDE DEF metas
<1> QED BY <1>1, <1>4, <1>5, <1>6 DEF metas

\* The keys of a view are those of its table, and its fields are columns of it.
LEMMA KeysOfView ==
  ASSUME NEW rule, RuleTyped(rule), NEW v \in DOMAIN rule
  PROVE  /\ PrimaryOf(rule[v]) = Primary[rule[v].table] /\ Primary[rule[v].table] # {}
         /\ Primary[rule[v].table] \subseteq NamesOf(rule[v])
         /\ NamesOf(rule[v]) \subseteq ColumnsOf(rule[v].table)
<1> DEFINE table == rule[v].table
<1>1. /\ table \in DOMAIN Stored
      /\ \A meta \in ToSet(rule[v].metas) : meta.name \in NamesOf(rule[v]) /\ OfColumn(table, meta)
      /\ \A name \in NamesOf(rule[v]) : \E meta \in ToSet(rule[v].metas) : meta.name = name
  BY MetaIs
<1>2. Primary[table] \subseteq NamesOf(rule[v])
  BY DEF RuleTyped
<1>3. Primary[table] # {}
  BY <1>1, SchemaAssumption DEF SchemaAssumption
<1>4. \A name : name \in PrimaryOf(rule[v]) <=> \E meta \in ToSet(rule[v].metas) : meta.primary /\ meta.name = name
  BY DEF PrimaryOf, ToSet
<1>5. PrimaryOf(rule[v]) = Primary[table]
  <2>1. \A meta \in ToSet(rule[v].metas) : meta.primary <=> meta.name \in Primary[table]
    BY <1>1 DEF OfColumn
  <2>2. ASSUME NEW name \in Primary[table] PROVE name \in PrimaryOf(rule[v])
    <3>1. PICK meta \in ToSet(rule[v].metas) : meta.name = name
      BY <1>1, <1>2
    <3> QED BY <1>4, <2>1, <3>1
  <2>3. ASSUME NEW name \in PrimaryOf(rule[v]) PROVE name \in Primary[table]
    BY <1>4, <2>1
  <2> QED BY <2>2, <2>3
<1>6. NamesOf(rule[v]) \subseteq ColumnsOf(table)
  BY <1>1 DEF OfColumn
<1> QED BY <1>2, <1>3, <1>5, <1>6

\* The row of a record that belongs to another: its foreign keys to the table of that one are
\* what they refer to there.
RowLinked(rule, v, u, row, owner, linked) ==
  /\ linked = [name \in NamesOf(rule[v]) |-> linked[name]]
  /\ \A name \in NamesOf(rule[v]) :
       LET key == Foreign[rule[v].table][name]
       IN IF name \in DOMAIN Foreign[rule[v].table] /\ key.table = rule[u].table
          THEN linked[name] = owner[key.column] ELSE linked[name] = row[name]

\* appendSetFk sets the foreign keys that refer to the table of the owner, and no others.
LEMMA SetFkIs ==
  ASSUME NEW rule, RuleTyped(rule), NEW v \in DOMAIN rule, NEW u \in DOMAIN rule,
         NEW r, DOMAIN r.row = NamesOf(rule[v]), NEW owner
  PROVE  RowLinked(rule, v, u, r.row, owner.row, SetFk(rule[v], r, rule[u], owner))
<1> DEFINE links == Links(rule[v], rule[u])
           table == rule[v].table
           linked == SetFk(rule[v], r, rule[u], owner)
<1>1. /\ rule[v].table \in DOMAIN Stored /\ rule[u].table \in DOMAIN Stored
      /\ \A meta \in ToSet(rule[v].metas) : meta.name \in NamesOf(rule[v]) /\ OfColumn(table, meta)
      /\ \A name \in NamesOf(rule[v]) : \E meta \in ToSet(rule[v].metas) : meta.name = name
      /\ \A meta \in ToSet(rule[v].metas), other \in ToSet(rule[v].metas) :
           meta.name = other.name => meta = other
  BY MetaIs
<1>2. linked = [name \in NamesOf(rule[v]) |->
                  IF \E meta \in links : meta.name = name
                  THEN owner.row[(CHOOSE meta \in links : meta.name = name).fk.column] ELSE r.row[name]]
  BY DEF SetFk
<1>3. links = {meta \in ToSet(rule[v].metas) :
                 meta.fk # NoKey /\ meta.fk.table = rule[u].table /\ meta.fk.column \in NamesOf(rule[u])}
  BY DEF Links
<1> HIDE DEF links, linked
<1>4. ASSUME NEW name \in NamesOf(rule[v]),
             name \in DOMAIN Foreign[table], Foreign[table][name].table = rule[u].table
      PROVE linked[name] = owner.row[Foreign[table][name].column]
  <2>1. PICK meta \in ToSet(rule[v].metas) : meta.name = name
    BY <1>1
  <2>2. meta.fk = Foreign[table][name] /\ meta.fk # NoKey
    BY <1>1, <1>4, <2>1 DEF OfColumn
  <2>3. Foreign[table][name].column \in Primary[rule[u].table]
    BY <1>1, <1>4, SchemaAssumption DEF SchemaAssumption
  <2>4. Foreign[table][name].column \in NamesOf(rule[u])
    BY <2>3, KeysOfView
  <2>5. meta \in links
    BY <1>3, <1>4, <2>2, <2>4
  <2>6. (CHOOSE m \in links : m.name = name) = meta
    <3>1. \A m \in links : m.name = name => m = meta
      BY <1>1, <1>3, <2>1
    <3> QED BY <2>1, <2>5, <3>1
  <2> QED BY <1>2, <2>1, <2>2, <2>5, <2>6
<1>5. ASSUME NEW name \in NamesOf(rule[v]),
             ~(name \in DOMAIN Foreign[table] /\ Foreign[table][name].table = rule[u].table)
      PROVE linked[name] = r.row[name]
  <2>1. ~\E meta \in links : meta.name = name
    <3> SUFFICES ASSUME NEW meta \in links, meta.name = name PROVE FALSE
      OBVIOUS
    <3>1. meta \in ToSet(rule[v].metas) /\ meta.fk # NoKey /\ meta.fk.table = rule[u].table
      BY <1>3
    <3>2. OfColumn(table, meta)
      BY <1>1, <3>1
    <3> QED BY <1>5, <3>1, <3>2 DEF OfColumn
  <2> QED BY <1>2, <2>1
<1>6. linked = [name \in NamesOf(rule[v]) |-> linked[name]]
  BY <1>2
<1> QED BY <1>4, <1>5, <1>6 DEF RowLinked, linked

\* A record that no foreign key is set of: one at the top, and one that a patch inserts.
Unlinked(method, ix, rule, r) == r.in = 0 \/ (method = "PATCH" /\ ~HasKey(ix, rule[r.view], r))
Inserted(method, ix, rule, r) == method = "POST" \/ (method = "PATCH" /\ ~HasKey(ix, rule[r.view], r))

\* What a template makes of a payload p: another one, q, and the statements.
Rendering(method, ix, rule, p, q, statements) ==
  /\ DOMAIN statements = DOMAIN p
  /\ \A i \in DOMAIN p :
       /\ IF Unlinked(method, ix, rule, p[i]) THEN q[i] = p[i]
          ELSE RowLinked(rule, p[i].view, p[p[i].in].view, p[i].row, q[p[i].in].row, q[i].row)
       /\ statements[i] = IF Inserted(method, ix, rule, p[i])
                          THEN Insert(rule[p[i].view], q[i]) ELSE Update(rule, q[i])

\* The positions of a body.
LEMMA BodyLength ==
  ASSUME NEW rule, NEW body, BodyTyped(rule, body)
  PROVE  \E n \in Nat : DOMAIN body = 1..n
<1>1. body \in Seq(ToSet(body))
  BY DEF BodyTyped, IsSequence
<1>2. Len(body) \in Nat /\ DOMAIN body = 1..Len(body)
  BY <1>1
<1> QED BY <1>2

\* One record: only its row changes, by what the record it is in has become.
LEMMA LinkedIs ==
  ASSUME NEW rule, RuleTyped(rule), NEW p, NEW q, NEW i, Record(rule, p[i]),
         NEW method, NEW ix, q[i] = LinkedTo(q, p[i], method, ix, rule),
         p[i].in # 0 => q[p[i].in].view \in DOMAIN rule
  PROVE  /\ Record(rule, q[i]) /\ q[i].view = p[i].view /\ q[i].in = p[i].in /\ q[i].has = p[i].has
         /\ IF Unlinked(method, ix, rule, p[i]) THEN q[i] = p[i]
            ELSE RowLinked(rule, p[i].view, q[p[i].in].view, p[i].row, q[p[i].in].row, q[i].row)
<1>1. CASE Unlinked(method, ix, rule, p[i])
  <2>1. q[i] = p[i]
    BY <1>1 DEF LinkedTo, Unlinked, Known
  <2> QED BY <1>1, <2>1
<1>2. CASE ~Unlinked(method, ix, rule, p[i])
  <2> DEFINE r == p[i]
             owner == q[r.in]
             row == SetFk(rule[r.view], r, rule[owner.view], owner)
  <2>1. q[i] = [r EXCEPT !.row = row]
    BY <1>2 DEF LinkedTo, Unlinked, Known
  <2>2. /\ r = [view |-> r.view, in |-> r.in, row |-> r.row, has |-> r.has]
        /\ r.view \in DOMAIN rule /\ DOMAIN r.row = NamesOf(rule[r.view])
    BY DEF Record
  <2>3. owner.view \in DOMAIN rule
    BY <1>2 DEF Unlinked
  <2> HIDE DEF r, owner
  <2>4. RowLinked(rule, r.view, owner.view, r.row, owner.row, row)
    BY <2>2, <2>3, SetFkIs
  <2> HIDE DEF row
  <2>5. q[i].row = row /\ q[i].view = r.view /\ q[i].in = r.in /\ q[i].has = r.has
    BY <2>1, <2>2
  <2>6. row = [name \in NamesOf(rule[r.view]) |-> row[name]]
    BY <2>4 DEF RowLinked
  <2>7. Record(rule, q[i])
    BY <2>1, <2>2, <2>5, <2>6 DEF Record
  <2> QED BY <1>2, <2>4, <2>5, <2>7 DEF r, owner
<1> QED BY <1>1, <1>2

\* What the fold over a payload comes to.
LEMMA StatementsAre ==
  ASSUME NEW rule, RuleTyped(rule), NEW body, BodyTyped(rule, body), NEW p, Alike(rule, body, p),
         NEW method, NEW ix, NEW st, st = Statements(method, ix, rule, p)
  PROVE  Alike(rule, body, st.payload) /\ Rendering(method, ix, rule, p, st.payload, st.made)
<1>1. PICK n \in Nat : DOMAIN body = 1..n
  BY BodyLength
<1>2. DOMAIN p = 1..n /\ \A i \in 1..n : Record(rule, p[i])
  BY <1>1 DEF Alike
<1>3. PICK run : Makes(run, n, p, method, ix, rule)
  BY <1>2, StatementsRuns
<1>4. /\ run[0] = [payload |-> <<>>, made |-> <<>>] /\ run[n] = st
      /\ \A i \in 1..n : run[i] = StatementsNext(run[i - 1], p[i], method, ix, rule)
  BY <1>3 DEF Makes
<1> DEFINE q == [i \in 1..n |-> LinkedTo(run[i - 1].payload, p[i], method, ix, rule)]
           statements == [i \in 1..n |-> MadeOf(p[i], q[i], method, ix, rule)]
           ps == [i \in 0..n |-> run[i].payload]
           ms == [i \in 0..n |-> run[i].made]
<1>5. ASSUME NEW i \in 1..n
      PROVE ps[i] = Append(ps[i - 1], q[i]) /\ ms[i] = Append(ms[i - 1], statements[i])
  <2>1. i \in 0..n /\ i - 1 \in 0..n
    OBVIOUS
  <2>2. /\ ps[i] = run[i].payload /\ ps[i - 1] = run[i - 1].payload
        /\ ms[i] = run[i].made /\ ms[i - 1] = run[i - 1].made
    BY <2>1
  <2>3. /\ q[i] = LinkedTo(run[i - 1].payload, p[i], method, ix, rule)
        /\ statements[i] = MadeOf(p[i], q[i], method, ix, rule)
    OBVIOUS
  <2> HIDE DEF ps, ms, q, statements
  <2>4. run[i] = [payload |-> Append(run[i - 1].payload, q[i]),
                  made |-> Append(run[i - 1].made, statements[i])]
    BY <1>4, <2>3 DEF StatementsNext
  <2> QED BY <2>2, <2>4
<1>6. \A i \in 0..n : ps[i] = FirstOf(q, i) /\ ms[i] = FirstOf(statements, i)
  <2>1. ps[0] = <<>> /\ ms[0] = <<>>
    BY <1>4
  <2> HIDE DEF ps, ms, q, statements
  <2>2. \A i \in 0..n : ps[i] = FirstOf(q, i)
    BY <1>5, <2>1, Appended
  <2>3. \A i \in 0..n : ms[i] = FirstOf(statements, i)
    BY <1>5, <2>1, Appended
  <2> QED BY <2>2, <2>3
<1>7. st.payload = q /\ st.made = statements
  <2>1. n \in 0..n /\ q = [k \in 1..n |-> q[k]] /\ statements = [k \in 1..n |-> statements[k]]
    OBVIOUS
  <2>2. ps[n] = st.payload /\ ms[n] = st.made
    BY <1>4
  <2> HIDE DEF ps, ms, q, statements
  <2> QED BY <1>6, <2>1, <2>2 DEF FirstOf
<1>8. ASSUME NEW i \in 1..n PROVE q[i] = LinkedTo(q, p[i], method, ix, rule)
  <2>1. q[i] = LinkedTo(run[i - 1].payload, p[i], method, ix, rule)
    OBVIOUS
  <2>2. i - 1 \in 0..n /\ ps[i - 1] = run[i - 1].payload
    OBVIOUS
  <2> HIDE DEF ps, q
  <2>3. run[i - 1].payload = FirstOf(q, i - 1)
    BY <1>6, <2>2
  <2>4. p[i].in # 0 => p[i].in \in 1..(i - 1)
    <3>1. p[i].in = body[i].in /\ body[i].in \in 0..(i - 1)
      BY <1>1 DEF Alike, BodyTyped
    <3> QED BY <3>1
  <2>5. p[i].in # 0 => run[i - 1].payload[p[i].in] = q[p[i].in]
    BY <2>3, <2>4 DEF FirstOf
  <2>6. CASE p[i].in = 0
    BY <2>1, <2>6 DEF LinkedTo
  <2>7. CASE p[i].in # 0
    BY <2>1, <2>5, <2>7 DEF LinkedTo
  <2> QED BY <2>6, <2>7
<1>9. ASSUME NEW i \in 1..n PROVE q[i].view = p[i].view
  <2>1. p[i] = [view |-> p[i].view, in |-> p[i].in, row |-> p[i].row, has |-> p[i].has]
    BY <1>2 DEF Record
  <2> HIDE DEF q
  <2> QED BY <1>8, <2>1 DEF LinkedTo
<1>10. ASSUME NEW i \in 1..n, p[i].in # 0
       PROVE p[i].in \in 1..n /\ q[p[i].in].view = p[p[i].in].view /\ p[p[i].in].view \in DOMAIN rule
  <2>1. p[i].in = body[i].in /\ body[i].in \in 0..(i - 1)
    BY <1>1 DEF Alike, BodyTyped
  <2>2. p[i].in \in 1..n
    BY <1>10, <2>1
  <2> HIDE DEF q
  <2> QED BY <1>2, <1>9, <2>2 DEF Record
<1>11. ASSUME NEW i \in 1..n
       PROVE /\ Record(rule, q[i]) /\ q[i].view = p[i].view /\ q[i].in = p[i].in /\ q[i].has = p[i].has
             /\ IF Unlinked(method, ix, rule, p[i]) THEN q[i] = p[i]
                ELSE RowLinked(rule, p[i].view, p[p[i].in].view, p[i].row, q[p[i].in].row, q[i].row)
  <2> HIDE DEF q
  <2>1. q[i] = LinkedTo(q, p[i], method, ix, rule) /\ Record(rule, p[i])
    BY <1>2, <1>8
  <2>2. p[i].in # 0 => q[p[i].in].view \in DOMAIN rule
    BY <1>10
  <2>3. /\ Record(rule, q[i]) /\ q[i].view = p[i].view /\ q[i].in = p[i].in /\ q[i].has = p[i].has
        /\ IF Unlinked(method, ix, rule, p[i]) THEN q[i] = p[i]
           ELSE RowLinked(rule, p[i].view, q[p[i].in].view, p[i].row, q[p[i].in].row, q[i].row)
    BY <2>1, <2>2, LinkedIs
  <2>4. ~Unlinked(method, ix, rule, p[i]) => q[p[i].in].view = p[p[i].in].view
    BY <1>10 DEF Unlinked
  <2> QED BY <2>3, <2>4
<1>12. ASSUME NEW i \in 1..n
       PROVE statements[i] = IF Inserted(method, ix, rule, p[i])
                             THEN Insert(rule[p[i].view], q[i]) ELSE Update(rule, q[i])
  BY DEF MadeOf, Known, Inserted
<1> HIDE DEF q, statements
<1>13. Alike(rule, body, q)
  <2>1. DOMAIN q = 1..n
    BY DEF q
  <2> QED BY <1>1, <1>11, <2>1 DEF Alike
<1>14. Rendering(method, ix, rule, p, q, statements)
  <2>1. DOMAIN statements = DOMAIN p
    BY <1>2 DEF statements
  <2> QED BY <1>2, <1>11, <1>12, <2>1 DEF Rendering
<1> QED BY <1>7, <1>13, <1>14

-----------------------------------------------------------------------------
(* Rows.                                                                    *)

\* Rows are functions of the columns of their table, and no two have the same key.
RowsOf(table, rows) ==
  \A row \in rows : /\ row = [name \in ColumnsOf(table) |-> row[name]]
                    /\ \A other \in rows : SameKey(table, row, other) => row = other
Rows(all) == DOMAIN all = DOMAIN Stored /\ \A table \in DOMAIN Stored : RowsOf(table, all[table])

\* A statement has the key of its row, and an update finds rows by at least that.
Stated(st) ==
  /\ st.table \in DOMAIN Stored /\ st.op \in {"insert", "update"}
  /\ Primary[st.table] \subseteq DOMAIN st.row /\ DOMAIN st.row \subseteq ColumnsOf(st.table)
  /\ st.op = "update" => Primary[st.table] \subseteq st.where

\* A row that an update finds.
Found(row, st) == \A name \in st.where : row[name] = st.row[name]

\* What a statement that succeeds does with rows: where each comes from, and what each becomes.
Stepped(old, new, st) ==
  /\ \A table \in DOMAIN Stored : \A row \in new[table] :
       \/ row \in old[table]
       \/ /\ st.op = "insert" /\ table = st.table /\ row = Complete(st)
          /\ \A other \in old[table] : ~SameKey(table, other, row)
       \/ /\ st.op = "update" /\ table = st.table
          /\ \E other \in old[table] : Found(other, st) /\ row = Updated(other, st)
  /\ \A table \in DOMAIN Stored : \A row \in old[table] :
       IF st.op = "update" /\ table = st.table /\ Found(row, st)
       THEN Updated(row, st) \in new[table] ELSE row \in new[table]
  /\ st.op = "insert" => Complete(st) \in new[st.table]

\* An update keeps the key of a row.
LEMMA UpdatedKey ==
  ASSUME NEW st, Stated(st), st.op = "update", NEW row, Found(row, st),
         row = [name \in ColumnsOf(st.table) |-> row[name]]
  PROVE  /\ SameKey(st.table, row, Updated(row, st))
         /\ Updated(row, st) = [name \in ColumnsOf(st.table) |-> Updated(row, st)[name]]
         /\ \A name \in ColumnsOf(st.table) :
              Updated(row, st)[name] = IF name \in st.set THEN st.row[name] ELSE row[name]
<1> DEFINE new == Updated(row, st)
<1>1. DOMAIN row = ColumnsOf(st.table)
  OBVIOUS
<1>2. new = [name \in ColumnsOf(st.table) |-> IF name \in st.set THEN st.row[name] ELSE row[name]]
  BY <1>1 DEF Updated
<1> HIDE DEF new
<1>3. new = [name \in ColumnsOf(st.table) |-> new[name]]
  BY <1>2
<1>4. \A name \in ColumnsOf(st.table) : new[name] = IF name \in st.set THEN st.row[name] ELSE row[name]
  BY <1>2
<1>5. Primary[st.table] \subseteq ColumnsOf(st.table) /\ Primary[st.table] \subseteq st.where
  BY DEF Stated
<1>6. SameKey(st.table, row, new)
  BY <1>4, <1>5 DEF SameKey, Found
<1> QED BY <1>3, <1>4, <1>6 DEF new

\* A row that is inserted has the key and the values of its statement.
LEMMA CompleteIs ==
  ASSUME NEW st, Stated(st)
  PROVE  /\ Complete(st) = [name \in ColumnsOf(st.table) |-> Complete(st)[name]]
         /\ \A name \in DOMAIN st.row : Complete(st)[name] = st.row[name]
         /\ \A row : SameKey(st.table, row, st.row) <=> SameKey(st.table, row, Complete(st))
<1> DEFINE new == Complete(st)
<1>1. new = [name \in ColumnsOf(st.table) |-> IF name \in DOMAIN st.row THEN st.row[name] ELSE Null]
  BY DEF Complete
<1> HIDE DEF new
<1>2. \A name \in DOMAIN st.row : new[name] = st.row[name]
  BY <1>1 DEF Stated
<1>3. \A row : SameKey(st.table, row, st.row) <=> SameKey(st.table, row, new)
  BY <1>2 DEF SameKey, Stated
<1>4. new = [name \in ColumnsOf(st.table) |-> new[name]]
  BY <1>1
<1> QED BY <1>2, <1>3, <1>4 DEF new

\* A statement that succeeds leaves rows of the columns of their tables, with a key each.
LEMMA AppliedIs ==
  ASSUME NEW all, Rows(all), NEW st, Stated(st), Applied(all, st).ok
  PROVE  Rows(Applied(all, st).tables) /\ Stepped(all, Applied(all, st).tables, st)
<1> DEFINE table == st.table
           new == Applied(all, st).tables
<1>1. table \in DOMAIN Stored /\ RowsOf(table, all[table]) /\ DOMAIN all = DOMAIN Stored
  BY DEF Stated, Rows
<1>2. CASE st.op = "insert"
  <2>1. /\ ~\E row \in all[table] : SameKey(table, row, st.row)
        /\ new = [all EXCEPT ![table] = @ \cup {Complete(st)}]
    BY <1>2 DEF Applied
  <2>2. /\ new[table] = all[table] \cup {Complete(st)} /\ DOMAIN new = DOMAIN Stored
        /\ \A t \in DOMAIN Stored : t # table => new[t] = all[t]
    BY <1>1, <2>1
  <2> HIDE DEF new
  <2>3. \A row \in all[table] : ~SameKey(table, row, Complete(st))
    BY <2>1, CompleteIs
  <2>4. \A row \in all[table] : ~SameKey(table, Complete(st), row)
    BY <2>3 DEF SameKey
  <2>5. RowsOf(table, new[table])
    <3>1. Complete(st) = [name \in ColumnsOf(table) |-> Complete(st)[name]]
      BY CompleteIs
    <3> QED BY <1>1, <2>2, <2>3, <2>4, <3>1 DEF RowsOf
  <2>6. Rows(new)
    BY <2>2, <2>5 DEF Rows
  <2>7. Stepped(all, new, st)
    BY <1>2, <2>2, <2>3 DEF Stepped
  <2> QED BY <2>6, <2>7 DEF new
<1>3. CASE st.op = "update"
  <2> DEFINE changed == {row \in all[table] : Found(row, st)}
             after == {Updated(row, st) : row \in changed}
  <2>1. new = [all EXCEPT ![table] = (@ \ changed) \cup after]
    BY <1>3 DEF Applied, Changed, Found
  <2>2. /\ new[table] = (all[table] \ changed) \cup after /\ DOMAIN new = DOMAIN Stored
        /\ \A t \in DOMAIN Stored : t # table => new[t] = all[t]
    BY <1>1, <2>1
  <2> HIDE DEF new
  <2>3. \A row \in changed : /\ row \in all[table] /\ SameKey(table, row, Updated(row, st))
                             /\ Updated(row, st) = [name \in ColumnsOf(table) |-> Updated(row, st)[name]]
    BY <1>1, <1>3, UpdatedKey DEF RowsOf
  <2>4. \A row \in new[table] :
          \/ row \in all[table] /\ row \notin changed
          \/ \E old \in changed : row = Updated(old, st) /\ SameKey(table, old, row)
    BY <2>2, <2>3
  <2>5. ASSUME NEW row \in new[table] PROVE row = [name \in ColumnsOf(table) |-> row[name]]
    <3>1. CASE row \in all[table]
      BY <1>1, <3>1 DEF RowsOf
    <3>2. CASE row \in after
      BY <2>3, <3>2
    <3> QED BY <2>2, <3>1, <3>2
  <2>6. ASSUME NEW row \in new[table], NEW other \in new[table], SameKey(table, row, other)
        PROVE row = other
    <3>1. \A a \in all[table], b \in all[table] : SameKey(table, a, b) => a = b
      BY <1>1 DEF RowsOf
    <3>2. CASE row \in all[table] /\ row \notin changed
      <4>1. CASE other \in all[table] /\ other \notin changed
        BY <2>6, <3>1, <3>2, <4>1
      <4>2. CASE \E old \in changed : other = Updated(old, st) /\ SameKey(table, old, other)
        <5>1. PICK old \in changed : other = Updated(old, st) /\ SameKey(table, old, other)
          BY <4>2
        <5>2. SameKey(table, row, old) /\ old \in all[table]
          BY <2>6, <5>1 DEF SameKey
        <5>3. row = old
          BY <3>1, <3>2, <5>2
        <5> HIDE DEF changed
        <5> QED BY <3>2, <5>1, <5>3
      <4> QED BY <2>4, <4>1, <4>2
    <3>3. CASE \E old \in changed : row = Updated(old, st) /\ SameKey(table, old, row)
      <4>0. PICK old \in changed : row = Updated(old, st) /\ SameKey(table, old, row)
        BY <3>3
      <4>1. CASE other \in all[table] /\ other \notin changed
        <5>1. SameKey(table, old, other) /\ old \in all[table]
          BY <2>6, <4>0 DEF SameKey
        <5>2. old = other
          BY <3>1, <4>1, <5>1
        <5> HIDE DEF changed
        <5> QED BY <4>0, <4>1, <5>2
      <4>2. CASE \E o \in changed : other = Updated(o, st) /\ SameKey(table, o, other)
        <5>1. PICK o \in changed : other = Updated(o, st) /\ SameKey(table, o, other)
          BY <4>2
        <5>2. SameKey(table, old, o) /\ old \in all[table] /\ o \in all[table]
          BY <2>6, <4>0, <5>1 DEF SameKey
        <5>3. old = o
          BY <3>1, <5>2
        <5> QED BY <4>0, <5>1, <5>3
      <4> QED BY <2>4, <4>1, <4>2
    <3> QED BY <2>4, <3>2, <3>3
  <2>7. Rows(new)
    <3>1. RowsOf(table, new[table])
      BY <2>5, <2>6 DEF RowsOf
    <3> QED BY <2>2, <3>1 DEF Rows
  <2>8. Stepped(all, new, st)
    <3>1. ASSUME NEW t \in DOMAIN Stored, NEW row \in new[t]
          PROVE \/ row \in all[t]
                \/ /\ t = table /\ \E other \in all[t] : Found(other, st) /\ row = Updated(other, st)
      BY <2>2, <2>4
    <3>2. ASSUME NEW t \in DOMAIN Stored, NEW row \in all[t]
          PROVE IF t = table /\ Found(row, st) THEN Updated(row, st) \in new[t] ELSE row \in new[t]
      BY <2>2
    <3> QED BY <1>3, <3>1, <3>2 DEF Stepped
  <2> QED BY <2>7, <2>8 DEF new
<1> QED BY <1>2, <1>3 DEF Stated

\* The tables after each of some statements, all of which succeed.
Went(t, n, all, statements, after) ==
  /\ t[0] = all /\ t[n] = after
  /\ \A i \in 0..n : Rows(t[i])
  /\ \A i \in 1..n : Stepped(t[i - 1], t[i], statements[i])

\* A transaction that succeeds went through all its statements.
LEMMA TransactionIs ==
  ASSUME NEW n \in Nat, NEW statements, DOMAIN statements = 1..n, \A i \in 1..n : Stated(statements[i]),
         NEW all, Rows(all), NEW done, done = Run(all, statements), done.ok
  PROVE  \E t : Went(t, n, all, statements, done.tables)
<1>1. PICK run : Executes(run, n, statements, all)
  BY TransactionRuns
<1>2. /\ run[0] = [ok |-> TRUE, tables |-> all] /\ run[n] = done
      /\ \A i \in 1..n : run[i] = RunNext(run[i - 1], statements[i])
  BY <1>1 DEF Executes
<1>3. ASSUME NEW i \in 1..n
      PROVE LET one == Applied(run[i - 1].tables, statements[i])
            IN run[i].ok => run[i - 1].ok /\ one.ok /\ run[i].tables = one.tables
  <2> DEFINE one == Applied(run[i - 1].tables, statements[i])
  <2>1. run[i] = [ok |-> run[i - 1].ok /\ one.ok, tables |-> IF one.ok THEN one.tables ELSE run[i - 1].tables]
    BY <1>2, Zenon DEF RunNext
  <2> HIDE DEF one
  <2>2. run[i].ok => run[i - 1].ok /\ one.ok
    <3> DEFINE both == run[i - 1].ok /\ one.ok
    <3>1. run[i].ok = both
      <4> HIDE DEF both
      <4>1. run[i] = [ok |-> both, tables |-> IF one.ok THEN one.tables ELSE run[i - 1].tables]
        BY <2>1, Zenon DEF both
      <4> QED BY <4>1
    <3> QED BY <3>1, Zenon
  <2>3. run[i].tables = IF one.ok THEN one.tables ELSE run[i - 1].tables
    BY <2>1
  <2> QED BY <2>2, <2>3, Zenon DEF one
<1>4. \A i \in 0..n : run[i].ok
  <2> DEFINE good == {i \in 0..n : run[n - i].ok}
  <2>1. 0 \in good
    <3>1. n - 0 = n
      OBVIOUS
    <3> QED BY <1>2, <3>1
  <2>2. ASSUME NEW k \in 1..n, k - 1 \in good PROVE k \in good
    <3>1. n - (k - 1) \in 1..n /\ (n - (k - 1)) - 1 = n - k
      OBVIOUS
    <3>2. run[n - (k - 1)].ok
      BY <2>2
    <3> QED BY <1>3, <3>1, <3>2
  <2>3. \A i \in 0..n : i \in good
    <3> HIDE DEF good
    <3> QED BY <2>1, <2>2, Inductive
  <2> SUFFICES ASSUME NEW i \in 0..n PROVE run[i].ok
    OBVIOUS
  <2>4. n - i \in 0..n /\ n - (n - i) = i
    OBVIOUS
  <2> QED BY <2>3, <2>4
<1> DEFINE t == [i \in 0..n |-> run[i].tables]
<1>5. ASSUME NEW i \in 1..n
      PROVE LET one == Applied(t[i - 1], statements[i]) IN one.ok /\ t[i] = one.tables
  <2>1. i \in 0..n /\ i - 1 \in 0..n
    OBVIOUS
  <2>2. t[i] = run[i].tables /\ t[i - 1] = run[i - 1].tables
    BY <2>1
  <2> HIDE DEF t
  <2> QED BY <1>3, <1>4, <2>1, <2>2
<1>6. t[0] = all /\ t[n] = done.tables
  BY <1>2
<1> HIDE DEF t
<1>7. \A i \in 0..n : Rows(t[i])
  <2> DEFINE good == {i \in 0..n : Rows(t[i])}
  <2>1. 0 \in good
    BY <1>6
  <2>2. ASSUME NEW k \in 1..n, k - 1 \in good PROVE k \in good
    <3>1. Rows(t[k - 1]) /\ Stated(statements[k])
      BY <2>2
    <3>2. Rows(Applied(t[k - 1], statements[k]).tables)
      BY <1>5, <3>1, AppliedIs
    <3> QED BY <1>5, <3>2
  <2>3. \A i \in 0..n : i \in good
    <3> HIDE DEF good
    <3> QED BY <2>1, <2>2, Inductive
  <2> QED BY <2>3
<1>8. ASSUME NEW i \in 1..n PROVE Stepped(t[i - 1], t[i], statements[i])
  <2>1. i - 1 \in 0..n
    OBVIOUS
  <2>2. Rows(t[i - 1]) /\ Stated(statements[i])
    BY <1>7, <2>1
  <2> QED BY <1>5, <2>2, AppliedIs
<1>9. Went(t, n, all, statements, done.tables)
  BY <1>6, <1>7, <1>8 DEF Went
<1> QED BY <1>9

\* A row of a key that was there is there after a statement.
LEMMA KeyStays ==
  ASSUME NEW old, Rows(old), NEW st, Stated(st), NEW new, Stepped(old, new, st),
         NEW table \in DOMAIN Stored, NEW row \in old[table]
  PROVE  \E other \in new[table] : SameKey(table, row, other)
<1>1. row = [name \in ColumnsOf(table) |-> row[name]]
  BY DEF Rows, RowsOf
<1>2. CASE st.op = "update" /\ table = st.table /\ Found(row, st)
  <2>1. SameKey(table, row, Updated(row, st))
    BY <1>1, <1>2, UpdatedKey
  <2>2. Updated(row, st) \in new[table]
    BY <1>2 DEF Stepped
  <2> QED BY <2>1, <2>2
<1>3. CASE ~(st.op = "update" /\ table = st.table /\ Found(row, st))
  <2>1. row \in new[table]
    BY <1>3 DEF Stepped
  <2> QED BY <2>1 DEF SameKey
<1> QED BY <1>2, <1>3

\* Keys stay, from any of the statements on.
LEMMA KeysStayed ==
  ASSUME NEW n \in Nat, NEW statements, \A i \in 1..n : Stated(statements[i]),
         NEW t, NEW all, NEW after, Went(t, n, all, statements, after),
         NEW table \in DOMAIN Stored, NEW row, \E other \in all[table] : SameKey(table, row, other)
  PROVE  \A i \in 0..n : \E other \in t[i][table] : SameKey(table, row, other)
<1> DEFINE good == {i \in 0..n : \E other \in t[i][table] : SameKey(table, row, other)}
<1>1. 0 \in good
  BY DEF Went
<1>2. ASSUME NEW k \in 1..n, k - 1 \in good PROVE k \in good
  <2>1. PICK other \in t[k - 1][table] : SameKey(table, row, other)
    BY <1>2
  <2>2. Rows(t[k - 1]) /\ Stepped(t[k - 1], t[k], statements[k]) /\ Stated(statements[k])
    <3>1. k - 1 \in 0..n
      OBVIOUS
    <3> QED BY <3>1 DEF Went
  <2>3. PICK third \in t[k][table] : SameKey(table, other, third)
    BY <2>2, KeyStays
  <2>4. SameKey(table, row, third)
    BY <2>1, <2>3 DEF SameKey
  <2> QED BY <2>4
<1>3. \A i \in 0..n : i \in good
  <2> HIDE DEF good
  <2> QED BY <1>1, <1>2, Inductive
<1> QED BY <1>3

\* An update of a row, or of one that has its key, leaves a column as it was.
Leaves(st, table, row, name) ==
  st.op = "update" /\ st.table = table /\ name \in st.set =>
    \A old : SameKey(table, row, old) /\ Found(old, st) => old[name] = st.row[name]

\* All of some statements do.
WentLeaving(t, n, all, statements, after, table, row, name) ==
  /\ n \in Nat /\ Went(t, n, all, statements, after)
  /\ table \in DOMAIN Stored /\ row \in all[table] /\ name \in ColumnsOf(table)
  /\ \A i \in 1..n : Stated(statements[i]) /\ Leaves(statements[i], table, row, name)

\* What no statement changes is what it was.
LEMMA ValueStays ==
  ASSUME NEW t, NEW n, NEW all, NEW statements, NEW after, NEW table, NEW row, NEW name,
         WentLeaving(t, n, all, statements, after, table, row, name)
  PROVE  \A new \in after[table] : SameKey(table, row, new) => row[name] = new[name]
<1>0. /\ n \in Nat /\ Went(t, n, all, statements, after)
      /\ table \in DOMAIN Stored /\ row \in all[table] /\ name \in ColumnsOf(table)
      /\ \A i \in 1..n : Stated(statements[i]) /\ Leaves(statements[i], table, row, name)
  BY DEF WentLeaving
<1> DEFINE good == {i \in 0..n : \A new \in t[i][table] : SameKey(table, row, new) => row[name] = new[name]}
<1>1. 0 \in good
  <2>1. t[0] = all /\ Rows(all)
    BY <1>0 DEF Went
  <2>2. \A new \in all[table] : SameKey(table, row, new) => row = new
    BY <1>0, <2>1 DEF Rows, RowsOf
  <2> QED BY <1>0, <2>1, <2>2
<1>2. ASSUME NEW k \in 1..n, k - 1 \in good PROVE k \in good
  <2> DEFINE st == statements[k]
  <2>1. k - 1 \in 0..n
    BY <1>0
  <2>2. Rows(t[k - 1]) /\ Stepped(t[k - 1], t[k], st) /\ Stated(st) /\ Leaves(st, table, row, name)
    BY <1>0, <2>1 DEF Went
  <2>3. PICK kept \in t[k - 1][table] : SameKey(table, row, kept)
    <3>1. row \in all[table] /\ SameKey(table, row, row)
      BY <1>0 DEF SameKey
    <3> QED BY <1>0, <2>1, <3>1, KeysStayed
  <2> HIDE DEF st
  <2> SUFFICES ASSUME NEW new \in t[k][table], SameKey(table, row, new) PROVE row[name] = new[name]
    OBVIOUS
  <2>4. CASE new \in t[k - 1][table]
    BY <1>2, <2>4
  <2>5. CASE \A other \in t[k - 1][table] : ~SameKey(table, other, new)
    <3>1. SameKey(table, kept, new)
      BY <2>3 DEF SameKey
    <3> QED BY <2>3, <2>5, <3>1
  <2>6. CASE st.op = "update" /\ table = st.table
             /\ \E other \in t[k - 1][table] : Found(other, st) /\ new = Updated(other, st)
    <3>1. PICK other \in t[k - 1][table] : Found(other, st) /\ new = Updated(other, st)
      BY <2>6
    <3>2. other = [c \in ColumnsOf(table) |-> other[c]]
      BY <1>0, <2>2 DEF Rows, RowsOf
    <3>3. /\ SameKey(table, other, new)
          /\ new[name] = IF name \in st.set THEN st.row[name] ELSE other[name]
      BY <1>0, <2>2, <2>6, <3>1, <3>2, UpdatedKey
    <3>4. SameKey(table, row, other)
      BY <3>3 DEF SameKey
    <3>5. row[name] = other[name]
      BY <1>2, <3>4
    <3>6. name \in st.set => other[name] = st.row[name]
      BY <2>2, <2>6, <3>1, <3>4 DEF Leaves
    <3> QED BY <3>3, <3>5, <3>6
  <2>7. \/ new \in t[k - 1][table]
        \/ \A other \in t[k - 1][table] : ~SameKey(table, other, new)
        \/ /\ st.op = "update" /\ table = st.table
           /\ \E other \in t[k - 1][table] : Found(other, st) /\ new = Updated(other, st)
    <3>1. PICK old, now : old = t[k - 1] /\ now = t[k]
      OBVIOUS
    <3>2. Stepped(old, now, st) /\ new \in now[table] /\ table \in DOMAIN Stored
      BY <1>0, <2>2, <3>1
    <3>3. \/ new \in old[table]
          \/ \A other \in old[table] : ~SameKey(table, other, new)
          \/ /\ st.op = "update" /\ table = st.table
             /\ \E other \in old[table] : Found(other, st) /\ new = Updated(other, st)
      BY <3>2, Zenon DEF Stepped
    <3> QED BY <3>1, <3>3, Zenon
  <2> QED BY <2>4, <2>5, <2>6, <2>7, Zenon
<1>3. \A i \in 0..n : i \in good
  <2> HIDE DEF good
  <2> QED BY <1>0, <1>1, <1>2, Inductive
<1>4. n \in 0..n /\ t[n] = after
  BY <1>0 DEF Went
<1> QED BY <1>3, <1>4

-----------------------------------------------------------------------------
(* Statements.                                                              *)

\* What an insert has.
LEMMA InsertIs ==
  ASSUME NEW rule, RuleTyped(rule), NEW r, Record(rule, r),
         NEW st, st = Insert(rule[r.view], r)
  PROVE  /\ Stated(st) /\ st.op = "insert" /\ st.table = rule[r.view].table /\ st.row = r.row
         /\ DOMAIN r.row = NamesOf(rule[r.view])
<1>1. st.op = "insert" /\ st.table = rule[r.view].table /\ st.row = r.row
  BY DEF Insert
<1>2. r.view \in DOMAIN rule /\ DOMAIN r.row = NamesOf(rule[r.view])
  BY DEF Record
<1>3. rule[r.view].table \in DOMAIN Stored
  BY <1>2, MetaIs
<1> QED BY <1>1, <1>2, <1>3, KeysOfView DEF Stated

\* The table a record is in, by its foreign keys: an update that finds rows by them too.
UpdateOf(rule, r, st) ==
  LET table == rule[r.view].table
  IN /\ st.op = "update" /\ st.table = table /\ st.row = r.row
     /\ \A name \in st.set : name \in NamesOf(rule[r.view])
     /\ \A name \in st.set : name \in Nullable(table) => name \in r.has
     /\ \A name \in r.has : name \in NamesOf(rule[r.view]) => name \in st.set
     /\ \A name \in NamesOf(rule[r.view]) \cap DOMAIN Foreign[table] :
          Foreign[table][name].table \in Above(rule, r.view) => name \in st.where
     /\ rule[r.view].path = <<>> => st.where = Primary[table]

\* What an update has.
LEMMA UpdateIs ==
  ASSUME NEW rule, RuleTyped(rule), NEW r, Record(rule, r), NEW st, st = Update(rule, r)
  PROVE  Stated(st) /\ UpdateOf(rule, r, st) /\ DOMAIN r.row = NamesOf(rule[r.view])
<1> DEFINE v == r.view
           table == rule[v].table
           metas == ToSet(rule[v].metas)
<1>1. /\ st.op = "update" /\ st.table = table /\ st.row = r.row /\ st.where = Qualified(rule, v)
      /\ st.set = {meta.name : meta \in {m \in ToSet(rule[v].fields) : IsSet(m, r)}}
  BY DEF Update
<1>2. v \in DOMAIN rule /\ DOMAIN r.row = NamesOf(rule[v]) /\ ToSet(rule[v].fields) = metas
  BY DEF Record, RuleTyped
<1> HIDE DEF v
<1>3. /\ table \in DOMAIN Stored
      /\ \A meta \in metas : meta.name \in NamesOf(rule[v]) /\ OfColumn(table, meta)
      /\ \A name \in NamesOf(rule[v]) : \E meta \in metas : meta.name = name
      /\ \A meta \in metas, other \in metas : meta.name = other.name => meta = other
  BY <1>2, MetaIs
<1>4. \A name : name \in Qualified(rule, v) <=>
        \E m \in metas : m.name = name /\ (m.primary \/ (m.fk # NoKey /\ m.fk.table \in Above(rule, v)))
  BY DEF Qualified
<1>5. /\ Primary[table] \subseteq NamesOf(rule[v]) /\ NamesOf(rule[v]) \subseteq ColumnsOf(table)
      /\ PrimaryOf(rule[v]) = Primary[table]
  BY <1>2, KeysOfView
<1> HIDE DEF metas
<1>6. ASSUME NEW name \in Primary[table] PROVE name \in st.where
  <2>1. PICK m \in metas : m.name = name
    BY <1>3, <1>5
  <2>2. m.primary
    BY <1>3, <2>1 DEF OfColumn
  <2> QED BY <1>1, <1>4, <2>1, <2>2
<1>7. Stated(st)
  BY <1>1, <1>2, <1>3, <1>5, <1>6 DEF Stated
<1>8. \A name : name \in st.set <=> \E m \in metas : m.name = name /\ IsSet(m, r)
  BY <1>1, <1>2
<1>9. ASSUME NEW name \in st.set
      PROVE name \in NamesOf(rule[v]) /\ (name \in Nullable(table) => name \in r.has)
  <2>1. PICK m \in metas : m.name = name /\ IsSet(m, r)
    BY <1>8
  <2>2. OfColumn(table, m) /\ m.name \in NamesOf(rule[v])
    BY <1>3
  <2> QED BY <2>1, <2>2 DEF IsSet, OfColumn
<1>10. ASSUME NEW name \in r.has, name \in NamesOf(rule[v]) PROVE name \in st.set
  <2>1. PICK m \in metas : m.name = name
    BY <1>3, <1>10
  <2> QED BY <1>8, <2>1 DEF IsSet
<1>11. ASSUME NEW name \in NamesOf(rule[v]) \cap DOMAIN Foreign[table],
              Foreign[table][name].table \in Above(rule, v)
       PROVE name \in st.where
  <2>1. PICK m \in metas : m.name = name
    BY <1>3
  <2>2. m.fk # NoKey /\ m.fk.table \in Above(rule, v)
    BY <1>3, <1>11, <2>1 DEF OfColumn
  <2> QED BY <1>1, <1>4, <2>1, <2>2
<1>12. ASSUME rule[v].path = <<>> PROVE st.where = Primary[table]
  <2>1. Above(rule, v) = {}
    BY <1>12 DEF Above
  <2>2. \A name \in st.where : name \in Primary[table]
    <3> SUFFICES ASSUME NEW name \in st.where PROVE name \in Primary[table]
      OBVIOUS
    <3>1. PICK m \in metas : m.name = name /\ m.primary
      BY <1>1, <1>4, <2>1
    <3>2. OfColumn(table, m)
      BY <1>3
    <3> QED BY <3>1, <3>2 DEF OfColumn
  <2> QED BY <1>6, <2>2
<1>13. UpdateOf(rule, r, st)
  BY <1>1, <1>9, <1>10, <1>11, <1>12 DEF UpdateOf, v
<1> QED BY <1>2, <1>7, <1>13 DEF v

-----------------------------------------------------------------------------
(* Where requests are.                                                      *)

\* Each variable has what is kept of each session, or of each table.
Domains ==
  /\ stage \in [Sessions -> Stages] /\ answer \in [Sessions -> {"", "ok", "failed", "dropped"}]
  /\ DOMAIN request = Sessions /\ DOMAIN payload = Sessions /\ DOMAIN step = Sessions
  /\ DOMAIN index = Sessions /\ DOMAIN made = Sessions /\ DOMAIN blocks = Sessions
  /\ DOMAIN sequences = DOMAIN Stored
  /\ \A table \in DOMAIN Stored : sequences[table] \in Nat /\ sequences[table] >= FirstId

\* What a session asked for, and how far it is.
Placed(s) ==
  /\ request[s] \in Requests /\ Generates(request[s].method, request[s].def)
  /\ Alike(request[s].def, request[s].body, payload[s])
  /\ DOMAIN index[s] = ParamsOf(request[s].def)
  /\ step[s] \in Nat
  /\ (answer[s] = "") = (stage[s] # "answered")
  /\ stage[s] = "read" => request[s].method = "PATCH" /\ step[s] < Len(Hinted(request[s].def))
  /\ IsSequence(blocks[s])

\* The fields of a record that are not given ids are those of the body.
AsAsked(s, i) ==
  \A name \in NamesOf(ViewOf(s, i)) \ AutoOf(ViewOf(s, i).table) : Now(s, i)[name] = Asked(s, i)[name]

\* A record belongs to the one it is in, unless a patch inserts it.
LinkedAt(s, i) ==
  LET view == ViewOf(s, i)
      above == payload[s][i].in
  IN (/\ above # 0
      /\ request[s].method = "PATCH" => HasKey(index[s], view, payload[s][i]))
     => \A name \in DOMAIN Foreign[view.table] \cap NamesOf(view) :
          Foreign[view.table][name].table = ViewOf(s, above).table
          => Now(s, i)[name] = Now(s, above)[Foreign[view.table][name].column]

\* The statement that was made of a record: a patch inserts it when the index does not have its
\* key, and then it is as the body had it, but for its ids.
MadeAt(s, i) ==
  LET view   == ViewOf(s, i)
      record == payload[s][i]
      known  == HasKey(index[s], view, record)
  IN /\ \/ made[s][i] = Insert(view, record)
        \/ made[s][i] = Update(request[s].def, record) /\ request[s].method # "POST"
     /\ request[s].method = "PATCH" /\ made[s][i].op = "insert" => ~known /\ AsAsked(s, i)
     /\ request[s].method = "PATCH" /\ made[s][i].op = "update" /\ record.in = 0 => known

\* What a template has made.
Rendered(s) ==
  /\ stage[s] \in {"read", "allocate", "looping"} =>
       made[s] = <<>> /\ \A i \in DOMAIN payload[s] : AsAsked(s, i)
  /\ stage[s] = "read" => payload[s] = request[s].body
  /\ DOMAIN made[s] \in {{}, DOMAIN payload[s]}
  /\ stage[s] = "execute" \/ answer[s] = "ok" =>
       DOMAIN made[s] = DOMAIN payload[s] /\ \A i \in DOMAIN payload[s] : LinkedAt(s, i)
  /\ \A i \in DOMAIN made[s] : MadeAt(s, i)

\* Where each request is, and what became of what it asked for.
Served == Domains /\ Rows(tables) /\ \A s \in Sessions : Placed(s) /\ Rendered(s)

-----------------------------------------------------------------------------
(* What a rule asks for.                                                    *)

\* Any rule: its views are numbered.
LEMMA RuleLength ==
  ASSUME NEW rule, RuleTyped(rule)
  PROVE  Len(rule) \in Nat \ {0} /\ DOMAIN rule = 1..Len(rule)
<1>1. rule \in Seq(ToSet(rule)) /\ rule # <<>>
  BY DEF RuleTyped, IsSequence
<1> QED BY <1>1

\* What is hinted are views at the top of the rule or next to it, and a patch has at least one.
LEMMA HintedIs ==
  ASSUME NEW rule, RuleTyped(rule)
  PROVE  /\ Hinted(rule) \in Seq(DOMAIN rule)
         /\ \A j \in DOMAIN Hinted(rule) : Len(rule[Hinted(rule)[j]].path) <= 1
         /\ Generates("PATCH", rule) => Len(Hinted(rule)) > 0
<1> DEFINE near == {v \in DOMAIN rule : Len(rule[v].path) <= 1}
           one(v) == IF Len(rule[v].path) <= 1 THEN <<v>> ELSE <<>>
           seqs == [v \in DOMAIN rule |-> one(v)]
<1>1. Len(rule) \in Nat \ {0} /\ DOMAIN rule = 1..Len(rule)
  BY RuleLength
<1>2. seqs \in Seq(Seq(near))
  <2>1. ASSUME NEW v \in DOMAIN rule PROVE one(v) \in Seq(near)
    <3>1. PICK V : V = near
      OBVIOUS
    <3>2. Len(rule[v].path) <= 1 => v \in V
      BY <3>1
    <3>3. <<>> \in Seq(V) /\ (v \in V => <<v>> \in Seq(V))
      OBVIOUS
    <3> HIDE DEF near
    <3> QED BY <3>1, <3>2, <3>3
  <2> HIDE DEF one, near
  <2>2. seqs \in [1..Len(rule) -> Seq(near)]
    BY <1>1, <2>1
  <2> QED BY <1>1, <2>2
<1>3. Hinted(rule) \in Seq(near)
  <2>1. Hinted(rule) = FlattenSeq(seqs)
    BY DEF Hinted
  <2> HIDE DEF seqs, near
  <2> QED BY <1>2, <2>1, Flattened
<1>4. Hinted(rule) \in Seq(DOMAIN rule) /\ \A j \in DOMAIN Hinted(rule) : Hinted(rule)[j] \in near
  <2>1. near \subseteq DOMAIN rule
    OBVIOUS
  <2> HIDE DEF near
  <2>2. Len(Hinted(rule)) \in Nat /\ Hinted(rule) \in [1..Len(Hinted(rule)) -> near]
    BY <1>3
  <2>3. Hinted(rule) \in [1..Len(Hinted(rule)) -> DOMAIN rule]
    BY <2>1, <2>2
  <2> QED BY <2>2, <2>3
<1>5. ASSUME Generates("PATCH", rule) PROVE Len(Hinted(rule)) > 0
  <2>1. 1 \in ToSet(Hinted(rule))
    BY <1>1, <1>5 DEF Generates
  <2>2. \E j \in DOMAIN Hinted(rule) : Hinted(rule)[j] = 1
    BY <2>1 DEF ToSet
  <2> QED BY <1>4, <2>2
<1> QED BY <1>4, <1>5

\* A call of $sequencer.Allocate: of a view, for one of its fields that are given ids.
CallOf(rule, v, field) == [table |-> rule[v].table, path |-> Append(rule[v].path, field)]
CallsOf(rule) ==
  UNION {{CallOf(rule, v, field) : field \in NamesOf(rule[v]) \cap AutoOf(rule[v].table)} : v \in DOMAIN rule}

\* The calls of a rule are of that form.
LEMMA AllocationsAre ==
  ASSUME NEW rule, RuleTyped(rule)
  PROVE  Allocations(rule) \in Seq(CallsOf(rule))
<1> DEFINE S == CallsOf(rule)
           seqs == [v \in DOMAIN rule |-> AllocationsOf(rule[v])]
<1>1. Len(rule) \in Nat \ {0} /\ DOMAIN rule = 1..Len(rule)
  BY RuleLength
<1>2. ASSUME NEW v \in DOMAIN rule PROVE AllocationsOf(rule[v]) \in Seq(S)
  <2> DEFINE metas == rule[v].metas
             one(i) == IF metas[i].auto THEN <<CallOf(rule, v, metas[i].name)>> ELSE <<>>
             calls == [i \in DOMAIN metas |-> one(i)]
  <2>1. metas \in Seq(ToSet(metas))
    BY DEF RuleTyped, IsSequence
  <2>2. Len(metas) \in Nat /\ DOMAIN metas = 1..Len(metas)
    BY <2>1
  <2>3. ASSUME NEW i \in DOMAIN metas PROVE one(i) \in Seq(S)
    <3>1. metas[i] \in ToSet(metas)
      BY DEF ToSet
    <3>2. metas[i].name \in NamesOf(rule[v]) /\ OfColumn(rule[v].table, metas[i])
      BY <3>1, MetaIs
    <3>3. metas[i].auto => CallOf(rule, v, metas[i].name) \in S
      BY <3>2 DEF CallsOf, OfColumn
    <3> HIDE DEF S
    <3> QED BY <3>3
  <2>4. calls \in Seq(Seq(S))
    <3> HIDE DEF S, one
    <3>1. calls \in [1..Len(metas) -> Seq(S)]
      BY <2>2, <2>3
    <3> QED BY <2>2, <3>1
  <2>5. AllocationsOf(rule[v]) = FlattenSeq(calls)
    BY DEF AllocationsOf, CallOf
  <2> HIDE DEF calls, S
  <2> QED BY <2>4, <2>5, Flattened
<1>3. seqs \in Seq(Seq(S))
  <2> HIDE DEF S
  <2>1. seqs \in [1..Len(rule) -> Seq(S)]
    BY <1>1, <1>2
  <2> QED BY <1>1, <2>1
<1>4. Allocations(rule) = FlattenSeq(seqs)
  BY DEF Allocations
<1> HIDE DEF seqs, S
<1>5. FlattenSeq(seqs) \in Seq(S)
  BY <1>3, Flattened
<1> QED BY <1>4, <1>5 DEF S

\* What is asked for is typed.
LEMMA RequestIs ==
  ASSUME NEW s \in Sessions, Placed(s)
  PROVE  /\ RuleTyped(request[s].def) /\ BodyTyped(request[s].def, request[s].body)
         /\ DOMAIN payload[s] = DOMAIN request[s].body
         /\ \A i \in DOMAIN payload[s] :
              /\ Record(request[s].def, payload[s][i])
              /\ payload[s][i].view \in DOMAIN request[s].def
              /\ DOMAIN payload[s][i].row = NamesOf(ViewOf(s, i))
              /\ ViewOf(s, i) = request[s].def[request[s].body[i].view]
              /\ ViewOf(s, i).table \in DOMAIN Stored
<1>1. RuleTyped(request[s].def) /\ BodyTyped(request[s].def, request[s].body)
  BY RequestsAssumption DEF Placed
<1>2. Alike(request[s].def, request[s].body, payload[s])
  BY DEF Placed
<1>3. ASSUME NEW i \in DOMAIN payload[s]
      PROVE /\ Record(request[s].def, payload[s][i])
            /\ payload[s][i].view \in DOMAIN request[s].def
            /\ DOMAIN payload[s][i].row = NamesOf(ViewOf(s, i))
            /\ ViewOf(s, i) = request[s].def[request[s].body[i].view]
  BY <1>2 DEF Alike, Record, ViewOf
<1>4. ASSUME NEW i \in DOMAIN payload[s] PROVE ViewOf(s, i).table \in DOMAIN Stored
  <2>1. payload[s][i].view \in DOMAIN request[s].def
    BY <1>3
  <2> QED BY <1>1, <2>1, MetaIs DEF ViewOf
<1> QED BY <1>1, <1>2, <1>3, <1>4 DEF Alike

-----------------------------------------------------------------------------
(* Steps.                                                                   *)

\* A step of another session.
Stays(s) ==
  /\ stage'[s] = stage[s] /\ request'[s] = request[s] /\ payload'[s] = payload[s]
  /\ step'[s] = step[s] /\ index'[s] = index[s] /\ made'[s] = made[s]
  /\ answer'[s] = answer[s] /\ blocks'[s] = blocks[s]

\* It leaves a session where it is.
LEMMA StaysPlaced ==
  ASSUME NEW s \in Sessions, Placed(s), Rendered(s), Stays(s)
  PROVE  Placed(s)' /\ Rendered(s)'
<1>1. Placed(s)'
  BY DEF Placed, Stays
<1>2. DOMAIN payload'[s] = DOMAIN payload[s] /\ DOMAIN made'[s] = DOMAIN made[s]
  BY DEF Stays
<1>3. ASSUME NEW i
      PROVE /\ (AsAsked(s, i))' <=> AsAsked(s, i)
            /\ (LinkedAt(s, i))' <=> LinkedAt(s, i)
  BY DEF Stays, AsAsked, LinkedAt, ViewOf, Now, Asked
<1>4. ASSUME NEW i PROVE (MadeAt(s, i))' <=> MadeAt(s, i)
  <2>1. (ViewOf(s, i))' = ViewOf(s, i)
    BY DEF Stays, ViewOf
  <2> QED BY <1>3, <2>1 DEF Stays, MadeAt
<1>5. Rendered(s)'
  BY <1>2, <1>3, <1>4 DEF Rendered, Stays
<1> QED BY <1>1, <1>5

\* A step is of one session.
LEMMA OthersStay ==
  ASSUME Domains, NEW s \in Sessions, Serve(s)
  PROVE  request' = request /\ \A t \in Sessions : t # s => Stays(t)
<1>1. CASE ReadCurrent(s)
  <2>1. /\ request' = request /\ UNCHANGED <<payload, made, answer, blocks>>
        /\ \A t \in Sessions : t # s => /\ index'[t] = index[t] /\ step'[t] = step[t]
                                        /\ stage'[t] = stage[t]
    BY <1>1 DEF ReadCurrent, Domains
  <2> QED BY <2>1 DEF Stays
<1>2. CASE AllocateIds(s)
  <2>1. /\ request' = request /\ UNCHANGED <<index, made>>
        /\ \A t \in Sessions : t # s => /\ payload'[t] = payload[t] /\ step'[t] = step[t]
                                        /\ stage'[t] = stage[t] /\ blocks'[t] = blocks[t]
                                        /\ answer'[t] = answer[t]
    BY <1>2 DEF AllocateIds, Domains
  <2> QED BY <2>1 DEF Stays
<1>3. CASE Render(s)
  <2>1. /\ request' = request /\ UNCHANGED <<index, step, answer, blocks>>
        /\ \A t \in Sessions : t # s => /\ payload'[t] = payload[t] /\ made'[t] = made[t]
                                        /\ stage'[t] = stage[t]
    BY <1>3 DEF Render, Domains
  <2> QED BY <2>1 DEF Stays
<1>4. CASE Execute(s)
  <2>1. /\ request' = request /\ UNCHANGED <<index, step, payload, made, blocks>>
        /\ \A t \in Sessions : t # s => answer'[t] = answer[t] /\ stage'[t] = stage[t]
    BY <1>4 DEF Execute, Executed, Domains
  <2> QED BY <2>1 DEF Stays
<1> QED BY <1>1, <1>2, <1>3, <1>4 DEF Serve

\* What Allocate does to a session: ids of one sequence for one field of one view.
Allocated(s, v, field) ==
  LET table == request[s].def[v].table
  IN /\ Alike(request[s].def, payload[s], payload'[s])
     /\ Gives(payload[s], payload'[s], v, field, sequences[table], sequences'[table])
     /\ sequences'[table] \in Nat /\ sequences'[table] >= sequences[table]
     /\ DOMAIN sequences' = DOMAIN Stored
     /\ \A other \in DOMAIN Stored : other # table => sequences'[other] = sequences[other]
     /\ \E block : block.given = block.reserved /\ blocks'[s] = Append(blocks[s], block)

\* A call of $sequencer.Allocate does that, and no such call fails with an error.
LEMMA AllocationStep ==
  ASSUME Served, NEW s \in Sessions, AllocateIds(s)
  PROVE  /\ \E v \in DOMAIN request[s].def :
              \E field \in NamesOf(request[s].def[v]) \cap AutoOf(request[s].def[v].table) :
                Allocated(s, v, field)
         /\ stage'[s] \in {"allocate", "looping", "answered"}
         /\ answer'[s] = IF stage'[s] = "answered" THEN "dropped" ELSE ""
         /\ step'[s] \in Nat
<1> DEFINE rule == request[s].def
           call == Calls(s)[step[s] + 1]
           o == NextIds(rule, payload[s], call.path, sequences[call.table])
<1>1. /\ Domains /\ Placed(s) /\ Rendered(s)
  BY DEF Served
<1>2. RuleTyped(rule) /\ BodyTyped(rule, request[s].body)
  BY <1>1, RequestIs
<1>3. /\ stage[s] = "allocate" /\ step[s] < Len(Calls(s)) /\ step[s] \in Nat /\ answer[s] = ""
  BY <1>1 DEF AllocateIds, Placed
<1>4. call \in CallsOf(rule)
  <2>1. Calls(s) \in Seq(CallsOf(rule))
    <3>1. <<>> \in Seq(CallsOf(rule))
      OBVIOUS
    <3> QED BY <1>2, <3>1, AllocationsAre DEF Calls
  <2>3. Len(Calls(s)) \in Nat
    BY <2>1
  <2>4. step[s] < Len(Calls(s)) /\ step[s] \in Nat
    BY <1>3
  <2>2. step[s] + 1 \in 1..Len(Calls(s))
    BY <2>3, <2>4
  <2> QED BY <2>1, <2>2
<1>5. PICK v \in DOMAIN rule : \E field \in NamesOf(rule[v]) \cap AutoOf(rule[v].table) :
             call = CallOf(rule, v, field)
  BY <1>4 DEF CallsOf
<1>6. PICK field \in NamesOf(rule[v]) \cap AutoOf(rule[v].table) : call = CallOf(rule, v, field)
  BY <1>5
<1>7. call.table = rule[v].table /\ call.path = Append(rule[v].path, field)
  BY <1>6 DEF CallOf
<1> HIDE DEF call
<1>8. PICK n \in Nat : DOMAIN request[s].body = 1..n
  BY <1>2, BodyLength
<1>9. DOMAIN payload[s] = 1..n /\ \A i \in 1..n : Record(rule, payload[s][i])
  BY <1>1, <1>8, RequestIs
<1> DEFINE table == rule[v].table
<1>10. table \in DOMAIN Stored /\ sequences[table] \in Nat /\ DOMAIN sequences = DOMAIN Stored
  BY <1>1, <1>2, MetaIs DEF Domains
<1>11. /\ o.as \in {"done", "panic", "loops"}
       /\ o.reserved = o.given /\ o.reserved \in Nat /\ o.reserved >= sequences[table]
       /\ Alike(rule, payload[s], o.payload)
       /\ Gives(payload[s], o.payload, v, field, sequences[table], o.reserved)
  <2>1. PICK next \in Nat : next = sequences[table]
    BY <1>10
  <2>2. PICK p : p = payload[s]
    OBVIOUS
  <2>3. PICK out : out = NextIds(rule, p, Append(rule[v].path, field), next)
    OBVIOUS
  <2>4. /\ out.as \in {"done", "panic", "loops"}
        /\ out.reserved = out.given /\ out.reserved \in Nat /\ out.reserved >= next
        /\ Alike(rule, p, out.payload)
        /\ Gives(p, out.payload, v, field, next, out.reserved)
    BY <1>2, <1>9, <2>2, <2>3, NextIdsIs
  <2>5. out = o
    BY <1>7, <2>1, <2>2, <2>3
  <2> QED BY <2>1, <2>2, <2>4, <2>5
<1>12. /\ step' = [step EXCEPT ![s] = @ + 1]
       /\ payload' = [payload EXCEPT ![s] = o.payload]
       /\ sequences' = [sequences EXCEPT ![table] = o.reserved]
       /\ blocks' = [blocks EXCEPT ![s] = Append(@, [table |-> table, from |-> sequences[table],
                                                     reserved |-> o.reserved, given |-> o.given])]
       /\ stage' = [stage EXCEPT ![s] = CASE o.as = "done" -> @ [] o.as = "loops" -> "looping"
                                          [] OTHER -> "answered"]
       /\ answer' = [answer EXCEPT ![s] = CASE o.as = "panic" -> "dropped"
                                            [] o.as = "error" -> "failed" [] OTHER -> @]
  BY <1>7 DEF AllocateIds, call
<1> HIDE DEF o
<1>13. Allocated(s, v, field)
  <2>1. payload'[s] = o.payload /\ sequences'[table] = o.reserved /\ DOMAIN sequences' = DOMAIN Stored
        /\ \A other \in DOMAIN Stored : other # table => sequences'[other] = sequences[other]
    BY <1>1, <1>10, <1>12 DEF Domains
  <2>2. \E block : block.given = block.reserved /\ blocks'[s] = Append(blocks[s], block)
    <3> DEFINE block == [table |-> table, from |-> sequences[table],
                         reserved |-> o.reserved, given |-> o.given]
    <3>1. blocks'[s] = Append(blocks[s], block)
      BY <1>1, <1>12 DEF Domains
    <3>2. block.given = block.reserved
      BY <1>11
    <3> HIDE DEF block
    <3> QED BY <3>1, <3>2
  <2> QED BY <1>11, <2>1, <2>2 DEF Allocated
<1>14. stage'[s] = CASE o.as = "done" -> "allocate" [] o.as = "loops" -> "looping" [] OTHER -> "answered"
  BY <1>1, <1>3, <1>12 DEF Domains
<1>15. answer'[s] = CASE o.as = "panic" -> "dropped" [] o.as = "error" -> "failed" [] OTHER -> ""
  BY <1>1, <1>3, <1>12 DEF Domains
<1>16. step'[s] \in Nat
  <2>1. step'[s] = step[s] + 1
    BY <1>1, <1>12 DEF Domains
  <2>2. step[s] \in Nat
    BY <1>3
  <2> QED BY <2>1, <2>2
<1> QED BY <1>6, <1>11, <1>13, <1>14, <1>15, <1>16

\* What is left for a step of a session: the variables, the rows, and the session itself.
LEMMA ServedBy ==
  ASSUME Served, NEW s \in Sessions, Serve(s), Domains', Rows(tables)', Placed(s)', Rendered(s)'
  PROVE  Served'
<1>1. Domains /\ \A t \in Sessions : Placed(t) /\ Rendered(t)
  BY DEF Served
<1>2. \A t \in Sessions : t # s => Stays(t)
  BY <1>1, OthersStay
<1>3. ASSUME NEW t \in Sessions PROVE Placed(t)' /\ Rendered(t)'
  BY <1>1, <1>2, StaysPlaced
<1> QED BY <1>3 DEF Served

\* A session that has made nothing yet.
NothingYet(s) ==
  /\ made[s] = <<>> /\ stage[s] # "execute" /\ answer[s] # "ok"
  /\ stage[s] = "read" => payload[s] = request[s].body
  /\ \A i \in DOMAIN payload[s] : AsAsked(s, i)

\* It is where the template starts from.
LEMMA NothingMade ==
  ASSUME NEW s \in Sessions
  PROVE  NothingYet(s) => Rendered(s)
<1> SUFFICES ASSUME NothingYet(s) PROVE Rendered(s)
  OBVIOUS
<1>1. made[s] = <<>>
  BY DEF NothingYet
<1>2. DOMAIN made[s] = {}
  BY <1>1
<1> HIDE DEF MadeAt
<1>3. \A i \in DOMAIN made[s] : MadeAt(s, i)
  BY <1>2
<1> QED BY <1>1, <1>2, <1>3 DEF NothingYet, Rendered

\* Requests are served from the start.
LEMMA ServedInit == Init => Served
<1> SUFFICES ASSUME Init PROVE Served
  OBVIOUS
<1>1. /\ request \in [Sessions -> {r \in Requests : Generates(r.method, r.def)}]
      /\ payload = [s \in Sessions |-> request[s].body]
      /\ stage = [s \in Sessions |-> IF request[s].method = "PATCH" THEN "read" ELSE "allocate"]
      /\ step = [s \in Sessions |-> 0]
      /\ index = [s \in Sessions |-> [param \in ParamsOf(request[s].def) |-> {}]]
      /\ made = [s \in Sessions |-> <<>>]
      /\ answer = [s \in Sessions |-> ""]
      /\ blocks = [s \in Sessions |-> <<>>]
      /\ tables = Stored
      /\ sequences = [table \in DOMAIN Stored |-> FirstId]
  BY DEF Init
<1>2. Domains
  <2>1. stage \in [Sessions -> Stages]
    BY <1>1 DEF Stages
  <2>2. answer \in [Sessions -> {"", "ok", "failed", "dropped"}]
    BY <1>1
  <2>3. \A table \in DOMAIN Stored : sequences[table] \in Nat /\ sequences[table] >= FirstId
    <3>1. FirstId \in Nat
      BY SchemaAssumption DEF SchemaAssumption
    <3>2. \A table \in DOMAIN Stored : sequences[table] = FirstId
      BY <1>1
    <3> QED BY <3>1, <3>2
  <2> QED BY <1>1, <2>1, <2>2, <2>3 DEF Domains
<1>3. Rows(tables)
  <2>1. \A table \in DOMAIN Stored : RowsOf(table, Stored[table])
    <3>1. \A table \in DOMAIN Stored : \A row \in Stored[table] :
            /\ row = [name \in ColumnsOf(table) |-> row[name]]
            /\ \A name \in AutoOf(table) : row[name] \in 0 .. FirstId - 1
            /\ \A other \in Stored[table] : SameKey(table, row, other) => row = other
      BY SchemaAssumption, Zenon DEF SchemaAssumption
    <3> QED BY <3>1, Zenon DEF RowsOf
  <2>2. Rows(Stored)
    BY <2>1 DEF Rows
  <2> QED BY <1>1, <2>2
<1>4. ASSUME NEW s \in Sessions PROVE Placed(s) /\ Rendered(s)
  <2> DEFINE rule == request[s].def
             body == request[s].body
  <2>1. request[s] \in Requests /\ Generates(request[s].method, rule) /\ payload[s] = body
    BY <1>1
  <2>2. RuleTyped(rule) /\ BodyTyped(rule, body)
    BY <2>1, RequestsAssumption
  <2> HIDE DEF rule, body
  <2>3. Alike(rule, body, body)
    BY <2>2 DEF BodyTyped, Alike, Record
  <2>4. /\ stage[s] = IF request[s].method = "PATCH" THEN "read" ELSE "allocate"
        /\ step[s] = 0 /\ answer[s] = "" /\ made[s] = <<>> /\ blocks[s] = <<>>
        /\ DOMAIN index[s] = ParamsOf(rule)
    BY <1>1 DEF rule
  <2>5. stage[s] = "read" => request[s].method = "PATCH" /\ step[s] < Len(Hinted(rule))
    <3> SUFFICES ASSUME stage[s] = "read" PROVE request[s].method = "PATCH" /\ 0 < Len(Hinted(rule))
      BY <2>4
    <3>1. request[s].method = "PATCH"
      BY <2>4
    <3>2. Hinted(rule) \in Seq(DOMAIN rule) /\ Len(Hinted(rule)) > 0
      BY <2>1, <2>2, <3>1, HintedIs
    <3>3. Len(Hinted(rule)) \in Nat
      BY <3>2
    <3> QED BY <3>1, <3>2, <3>3
  <2>6. IsSequence(blocks[s])
    <3>1. blocks[s] = <<>>
      BY <2>4
    <3>2. <<>> \in Seq(ToSet(<<>>))
      OBVIOUS
    <3> QED BY <3>1, <3>2 DEF IsSequence
  <2>7. Placed(s)
    <3>1. (answer[s] = "") = (stage[s] # "answered")
      BY <2>4
    <3>2. step[s] \in Nat
      <4>1. step[s] = 0
        BY <2>4
      <4> QED BY <4>1
    <3>3. DOMAIN index[s] = ParamsOf(rule)
      BY <2>4
    <3> QED BY <2>1, <2>3, <2>5, <2>6, <3>1, <3>2, <3>3 DEF Placed, rule, body
  <2>8. \A i \in DOMAIN payload[s] : AsAsked(s, i)
    BY <2>1 DEF AsAsked, Now, Asked, body
  <2>9. Rendered(s)
    <3>1. /\ made[s] = <<>> /\ stage[s] \notin {"execute"} /\ answer[s] # "ok"
          /\ payload[s] = request[s].body
      BY <2>1, <2>4 DEF body
    <3> QED BY <2>8, <3>1, NothingMade DEF NothingYet
  <2> QED BY <2>7, <2>9
<1> QED BY <1>2, <1>3, <1>4 DEF Served

\* Reading current rows.
LEMMA ServedRead ==
  ASSUME Served, NEW s \in Sessions, ReadCurrent(s)
  PROVE  Served'
<1>1. Domains /\ Placed(s) /\ Rendered(s) /\ Rows(tables)
  BY DEF Served
<1> DEFINE hinted == Hinted(request[s].def)
<1>2. /\ stage[s] = "read" /\ UNCHANGED <<request, payload, made, answer, blocks, tables, sequences>>
      /\ DOMAIN index' = Sessions /\ DOMAIN index'[s] = DOMAIN index[s]
      /\ IF step[s] + 1 < Len(hinted)
         THEN step' = [step EXCEPT ![s] = @ + 1] /\ UNCHANGED stage
         ELSE step' = [step EXCEPT ![s] = 0] /\ stage' = [stage EXCEPT ![s] = "allocate"]
  BY <1>1 DEF ReadCurrent, Domains
<1> HIDE DEF hinted
<1>3. Domains'
  <2>1. stage' \in [Sessions -> Stages] /\ DOMAIN step' = Sessions
    BY <1>1, <1>2 DEF Domains, Stages
  <2> QED BY <1>1, <1>2, <2>1 DEF Domains
<1>4. /\ step'[s] \in Nat /\ stage'[s] \in {"read", "allocate"}
      /\ stage'[s] = "read" => step'[s] < Len(hinted)
  <2>1. step[s] \in Nat
    BY <1>1 DEF Placed
  <2>2. CASE step[s] + 1 < Len(hinted)
    <3>1. step'[s] = step[s] + 1 /\ stage'[s] = "read"
      BY <1>1, <1>2, <2>2 DEF Domains
    <3> QED BY <2>1, <2>2, <3>1
  <2>3. CASE ~(step[s] + 1 < Len(hinted))
    <3>1. step'[s] = 0 /\ stage'[s] = "allocate"
      BY <1>1, <1>2, <2>3 DEF Domains
    <3> QED BY <3>1
  <2> QED BY <2>2, <2>3
<1>5. Placed(s)'
  <2>1. answer'[s] = "" /\ request[s].method = "PATCH" /\ stage'[s] # "answered"
    BY <1>1, <1>2, <1>4 DEF Placed
  <2>2. /\ request'[s] = request[s] /\ payload'[s] = payload[s] /\ blocks'[s] = blocks[s]
        /\ DOMAIN index'[s] = DOMAIN index[s]
    BY <1>2
  <2> QED BY <1>1, <1>4, <2>1, <2>2 DEF Placed, hinted
<1>6. Rendered(s)'
  <2>1. /\ made[s] = <<>> /\ payload[s] = request[s].body /\ answer[s] = ""
        /\ \A i \in DOMAIN payload[s] : AsAsked(s, i)
    BY <1>1, <1>2 DEF Rendered, Placed
  <2>2. /\ request'[s] = request[s] /\ payload'[s] = payload[s] /\ made'[s] = <<>> /\ answer'[s] = ""
        /\ stage'[s] \in {"read", "allocate"}
    BY <1>2, <1>4, <2>1
  <2>3. \A i : (AsAsked(s, i))' <=> AsAsked(s, i)
    BY <1>2 DEF AsAsked, ViewOf, Now, Asked
  <2>4. /\ made'[s] = <<>> /\ stage'[s] # "execute" /\ answer'[s] # "ok"
        /\ payload'[s] = request'[s].body
        /\ (\A i \in DOMAIN payload[s] : AsAsked(s, i))'
    BY <2>1, <2>2, <2>3
  <2>5. (NothingYet(s))'
    BY <2>4 DEF NothingYet
  <2> QED BY <2>5, NothingMade, PTL
<1>7. Rows(tables)'
  BY <1>1, <1>2
<1> QED BY <1>3, <1>5, <1>6, <1>7, ServedBy DEF Serve

\* Allocating ids.
LEMMA ServedAllocate ==
  ASSUME Served, NEW s \in Sessions, AllocateIds(s)
  PROVE  Served'
<1>1. Domains /\ Placed(s) /\ Rendered(s) /\ Rows(tables)
  BY DEF Served
<1>2. PICK v \in DOMAIN request[s].def :
        \E field \in NamesOf(request[s].def[v]) \cap AutoOf(request[s].def[v].table) : Allocated(s, v, field)
  BY AllocationStep
<1>3. PICK field \in NamesOf(request[s].def[v]) \cap AutoOf(request[s].def[v].table) : Allocated(s, v, field)
  BY <1>2
<1>4. /\ stage'[s] \in {"allocate", "looping", "answered"}
      /\ answer'[s] = IF stage'[s] = "answered" THEN "dropped" ELSE ""
      /\ step'[s] \in Nat
  BY AllocationStep
<1>5. /\ stage[s] = "allocate" /\ UNCHANGED <<request, index, made, tables>>
      /\ DOMAIN step' = Sessions /\ DOMAIN payload' = Sessions /\ DOMAIN blocks' = Sessions
      /\ DOMAIN stage' = Sessions /\ DOMAIN answer' = Sessions
      /\ stage' = [t \in Sessions |-> stage'[t]] /\ answer' = [t \in Sessions |-> answer'[t]]
  BY <1>1 DEF AllocateIds, Domains
<1>6. request' = request /\ \A t \in Sessions : t # s => Stays(t)
  BY <1>1, OthersStay DEF Serve
<1>7. Domains'
  <2>1. stage' \in [Sessions -> Stages]
    <3>1. ASSUME NEW t \in Sessions PROVE stage'[t] \in Stages
      <4>1. CASE t = s
        BY <1>4, <4>1 DEF Stages
      <4>2. CASE t # s
        <5>1. stage[t] \in Stages
          BY <1>1 DEF Domains
        <5> QED BY <1>6, <4>2, <5>1 DEF Stays
      <4> QED BY <4>1, <4>2
    <3> QED BY <1>5, <3>1
  <2>2. answer' \in [Sessions -> {"", "ok", "failed", "dropped"}]
    <3>1. ASSUME NEW t \in Sessions PROVE answer'[t] \in {"", "ok", "failed", "dropped"}
      <4>1. CASE t = s
        BY <1>4, <4>1
      <4>2. CASE t # s
        <5>1. answer[t] \in {"", "ok", "failed", "dropped"}
          BY <1>1 DEF Domains
        <5> QED BY <1>6, <4>2, <5>1 DEF Stays
      <4> QED BY <4>1, <4>2
    <3> QED BY <1>5, <3>1
  <2>3. DOMAIN sequences' = DOMAIN Stored /\ \A t \in DOMAIN Stored : sequences'[t] \in Nat /\ sequences'[t] >= FirstId
    <3> DEFINE table == request[s].def[v].table
    <3>1. /\ DOMAIN sequences' = DOMAIN Stored
          /\ sequences'[table] \in Nat /\ sequences'[table] >= sequences[table]
          /\ \A other \in DOMAIN Stored : other # table => sequences'[other] = sequences[other]
      BY <1>3 DEF Allocated
    <3>2. table \in DOMAIN Stored
      BY <1>1, RequestIs, MetaIs
    <3>3. \A t \in DOMAIN Stored : sequences[t] \in Nat /\ sequences[t] >= FirstId
      BY <1>1 DEF Domains
    <3>4. FirstId \in Nat
      BY SchemaAssumption DEF SchemaAssumption
    <3> HIDE DEF table
    <3> SUFFICES ASSUME NEW t \in DOMAIN Stored PROVE sequences'[t] \in Nat /\ sequences'[t] >= FirstId
      BY <3>1
    <3>5. CASE t = table
      BY <3>1, <3>2, <3>3, <3>4, <3>5
    <3>6. CASE t # table
      BY <3>1, <3>3, <3>6
    <3> QED BY <3>5, <3>6
  <2> QED BY <1>1, <1>5, <2>1, <2>2, <2>3 DEF Domains
<1>8. Placed(s)'
  <2>1. Alike(request[s].def, request[s].body, payload'[s])
    BY <1>1, <1>3, AlikeAgain DEF Placed, Allocated
  <2>2. IsSequence(blocks'[s])
    <3>1. PICK block : blocks'[s] = Append(blocks[s], block)
      BY <1>3 DEF Allocated
    <3> DEFINE T == ToSet(blocks[s]) \cup {block}
    <3>2. blocks[s] \in Seq(ToSet(blocks[s]))
      BY <1>1 DEF Placed, IsSequence
    <3>3. ToSet(blocks[s]) \subseteq T /\ block \in T
      OBVIOUS
    <3> HIDE DEF T
    <3>4. Len(blocks[s]) \in Nat /\ blocks[s] \in [1..Len(blocks[s]) -> ToSet(blocks[s])]
      BY <3>2
    <3>5. blocks[s] \in Seq(T)
      <4>1. blocks[s] \in [1..Len(blocks[s]) -> T]
        BY <3>3, <3>4
      <4> QED BY <3>4, <4>1
    <3>6. blocks'[s] \in Seq(T)
      BY <3>1, <3>3, <3>5, AppendProperties
    <3>7. Len(blocks'[s]) \in Nat /\ blocks'[s] \in [1..Len(blocks'[s]) -> T]
      BY <3>6
    <3>8. blocks'[s] \in [1..Len(blocks'[s]) -> ToSet(blocks'[s])]
      BY <3>7 DEF ToSet
    <3> QED BY <3>7, <3>8 DEF IsSequence
  <2>3. /\ request'[s] = request[s] /\ index'[s] = index[s]
        /\ (answer'[s] = "") = (stage'[s] # "answered") /\ stage'[s] # "read"
    BY <1>4, <1>5
  <2> QED BY <1>1, <1>4, <2>1, <2>2, <2>3 DEF Placed
<1>9. Rendered(s)'
  <2>1. made[s] = <<>> /\ \A i \in DOMAIN payload[s] : AsAsked(s, i)
    BY <1>1, <1>5 DEF Rendered
  <2>2. /\ request'[s] = request[s] /\ made'[s] = <<>>
        /\ stage'[s] \notin {"read", "execute"} /\ answer'[s] # "ok"
    BY <1>4, <1>5, <2>1
  <2>3. ASSUME NEW i \in DOMAIN payload'[s] PROVE (AsAsked(s, i))'
    <3> DEFINE rule == request[s].def
    <3>1. /\ DOMAIN payload'[s] = DOMAIN payload[s]
          /\ Record(rule, payload'[s][i]) /\ payload'[s][i].view = payload[s][i].view
      BY <1>3 DEF Allocated, Alike
    <3>2. /\ i \in DOMAIN payload[s] /\ DOMAIN payload[s][i].row = NamesOf(ViewOf(s, i))
          /\ (ViewOf(s, i))' = ViewOf(s, i)
      BY <1>1, <1>5, <3>1, RequestIs DEF ViewOf
    <3> SUFFICES ASSUME NEW name \in NamesOf(ViewOf(s, i)) \ AutoOf(ViewOf(s, i).table)
                 PROVE  payload'[s][i].row[name] = Asked(s, i)[name]
      BY <1>5, <3>2 DEF AsAsked, Now, Asked
    <3>3. payload[s][i].row[name] = Asked(s, i)[name]
      BY <2>1, <3>2 DEF AsAsked, Now
    <3>4. \/ payload'[s][i].row[name] = payload[s][i].row[name]
          \/ payload[s][i].view = v /\ name = field
      <4>1. Gives(payload[s], payload'[s], v, field, sequences[request[s].def[v].table],
                  sequences'[request[s].def[v].table])
        BY <1>3, Zenon DEF Allocated
      <4>2. name \in DOMAIN payload[s][i].row
        BY <3>2, Zenon
      <4> QED BY <3>2, <4>1, <4>2, Zenon DEF Gives
    <3>5. ~(payload[s][i].view = v /\ name = field)
      BY DEF ViewOf
    <3> QED BY <3>3, <3>4, <3>5
  <2> QED BY <2>2, <2>3 DEF Rendered
<1>10. Rows(tables)'
  BY <1>1, <1>5
<1> QED BY <1>7, <1>8, <1>9, <1>10, ServedBy DEF Serve

\* What the template makes of one payload.
LEMMA RenderStep ==
  ASSUME Served, NEW s \in Sessions, Render(s)
  PROVE  /\ Alike(request[s].def, request[s].body, payload'[s])
         /\ Rendering(request[s].method, index[s], request[s].def, payload[s], payload'[s], made'[s])
         /\ stage[s] = "allocate" /\ stage'[s] = "execute" /\ answer'[s] = ""
         /\ UNCHANGED <<request, step, index, answer, blocks, tables, sequences>>
<1>1. Domains /\ Placed(s)
  BY DEF Served
<1>2. RuleTyped(request[s].def) /\ BodyTyped(request[s].def, request[s].body)
  BY <1>1, RequestIs
<1>3. PICK st : st = Statements(request[s].method, index[s], request[s].def, payload[s])
  OBVIOUS
<1>4. /\ payload'[s] = st.payload /\ made'[s] = st.made
      /\ stage[s] = "allocate" /\ stage'[s] = "execute"
      /\ UNCHANGED <<request, step, index, answer, blocks, tables, sequences>>
  BY <1>1, <1>3 DEF Render, Domains
<1>5. PICK rule, body, p, method, ix : /\ rule = request[s].def /\ body = request[s].body
                                       /\ p = payload[s] /\ method = request[s].method /\ ix = index[s]
  OBVIOUS
<1>6. Alike(rule, body, st.payload) /\ Rendering(method, ix, rule, p, st.payload, st.made)
  BY <1>1, <1>2, <1>3, <1>5, StatementsAre DEF Placed
<1>7. answer'[s] = ""
  BY <1>1, <1>4 DEF Placed
<1> QED BY <1>4, <1>5, <1>6, <1>7

\* Evaluating the template.
LEMMA ServedRender ==
  ASSUME Served, NEW s \in Sessions, Render(s)
  PROVE  Served'
<1> DEFINE rule == request[s].def
           method == request[s].method
           p == payload[s]
           q == payload'[s]
<1>1. Domains /\ Placed(s) /\ Rendered(s) /\ Rows(tables)
  BY DEF Served
<1>2. /\ Alike(rule, request[s].body, q)
      /\ Rendering(method, index[s], rule, p, q, made'[s])
      /\ stage[s] = "allocate" /\ stage'[s] = "execute" /\ answer'[s] = ""
      /\ UNCHANGED <<request, step, index, answer, blocks, tables, sequences>>
  BY RenderStep
<1>3. Domains'
  BY <1>1, <1>2 DEF Render, Domains, Stages
<1>4. Placed(s)'
  BY <1>1, <1>2 DEF Placed
<1>5. /\ DOMAIN q = DOMAIN p /\ Alike(rule, request[s].body, p)
      /\ \A i \in DOMAIN p : q[i].view = p[i].view /\ q[i].in = p[i].in
  <2>1. Alike(rule, request[s].body, p)
    BY <1>1, Zenon DEF Placed
  <2>2. DOMAIN p = DOMAIN request[s].body /\ DOMAIN q = DOMAIN request[s].body
    BY <1>2, <2>1, Zenon DEF Alike
  <2>3. ASSUME NEW i \in DOMAIN request[s].body
        PROVE  /\ q[i].view = request[s].body[i].view /\ q[i].in = request[s].body[i].in
               /\ p[i].view = request[s].body[i].view /\ p[i].in = request[s].body[i].in
    BY <1>2, <2>1, <2>3, Zenon DEF Alike
  <2> QED BY <2>1, <2>2, <2>3, Zenon
<1>6. \A i \in DOMAIN p : (ViewOf(s, i))' = rule[p[i].view] /\ ViewOf(s, i) = rule[p[i].view]
  BY <1>2, <1>5 DEF ViewOf
<1>7. ASSUME NEW i \in DOMAIN p
      PROVE /\ Record(rule, p[i])
            /\ p[i].in # 0 => p[i].in \in DOMAIN p
            /\ IF Unlinked(method, index[s], rule, p[i]) THEN q[i] = p[i]
               ELSE RowLinked(rule, p[i].view, p[p[i].in].view, p[i].row, q[p[i].in].row, q[i].row)
            /\ made'[s][i] = IF Inserted(method, index[s], rule, p[i])
                             THEN Insert(rule[p[i].view], q[i]) ELSE Update(rule, q[i])
  <2>1. PICK n \in Nat : DOMAIN request[s].body = 1..n
    BY <1>1, RequestIs, BodyLength
  <2>2. p[i].in = request[s].body[i].in /\ request[s].body[i].in \in 0..(i - 1) /\ i \in 1..n
    BY <1>1, <1>5, <2>1, RequestIs DEF Alike, BodyTyped
  <2>3. p[i].in # 0 => p[i].in \in DOMAIN p
    BY <1>5, <2>1, <2>2 DEF Alike
  <2>4. Record(rule, p[i])
    BY <1>1, RequestIs
  <2> QED BY <1>2, <2>3, <2>4 DEF Rendering
<1>8. ASSUME NEW i \in DOMAIN p PROVE (LinkedAt(s, i))'
  <2> DEFINE view == rule[p[i].view]
  <2>0. PICK above : above = p[i].in
    OBVIOUS
  <2> SUFFICES ASSUME above # 0, method = "PATCH" => HasKey(index[s], view, q[i]),
                      NEW name \in DOMAIN Foreign[view.table] \cap NamesOf(view),
                      Foreign[view.table][name].table = rule[p[above].view].table
               PROVE  q[i].row[name] = q[above].row[Foreign[view.table][name].column]
    <3>1. above # 0 => (ViewOf(s, above))' = rule[p[above].view]
      <4>1. above # 0 => above \in DOMAIN p
        BY <1>7, <2>0
      <4> QED BY <1>6, <4>1
    <3>2. (ViewOf(s, i))' = view /\ q[i].in = above
      BY <1>5, <1>6, <2>0
    <3> HIDE DEF view, rule, p
    <3> QED BY <1>2, <3>1, <3>2 DEF LinkedAt, Now, q, method
  <2>1. ~Unlinked(method, index[s], rule, p[i])
    BY <1>7, <2>0 DEF Unlinked
  <2>2. RowLinked(rule, p[i].view, p[above].view, p[i].row, q[above].row, q[i].row)
    BY <1>7, <2>0, <2>1
  <2> QED BY <2>2 DEF RowLinked
<1>9. ASSUME NEW i \in DOMAIN p PROVE (MadeAt(s, i))'
  <2> DEFINE view == rule[p[i].view]
             st == made'[s][i]
             known == HasKey(index[s], view, q[i])
  <2>1. CASE Inserted(method, index[s], rule, p[i])
    <3>1. st = Insert(view, q[i]) /\ st.op = "insert"
      <4>1. st = Insert(view, q[i])
        BY <1>7, <2>1, Zenon
      <4> HIDE DEF st, view, q
      <4> QED BY <4>1 DEF Insert
    <3>2. method = "PATCH" => q[i] = p[i] /\ ~known
      BY <1>7, <2>1 DEF Inserted, Unlinked
    <3>3. method = "PATCH" => (AsAsked(s, i))'
      <4>1. AsAsked(s, i)
        BY <1>1, <1>2 DEF Rendered
      <4> QED BY <1>2, <1>6, <3>2, <4>1 DEF AsAsked, Now, Asked
    <3>4. st = Insert((ViewOf(s, i))', q[i])
      BY <1>6, <3>1
    <3> HIDE DEF st
    <3> QED BY <1>2, <1>6, <3>1, <3>2, <3>3, <3>4 DEF MadeAt, st
  <2>2. CASE ~Inserted(method, index[s], rule, p[i])
    <3>1. st = Update(rule, q[i]) /\ st.op = "update" /\ method # "POST"
      <4>1. st = Update(rule, q[i]) /\ method # "POST"
        BY <1>7, <2>2 DEF Inserted
      <4>2. Update(rule, q[i]).op = "update"
        BY DEF Update
      <4> HIDE DEF st
      <4> QED BY <4>1, <4>2
    <3>2. method = "PATCH" /\ q[i].in = 0 => known
      <4> SUFFICES ASSUME method = "PATCH", p[i].in = 0 PROVE known
        BY <1>5
      <4>1. q[i] = p[i]
        BY <1>7 DEF Unlinked
      <4> QED BY <2>2, <4>1 DEF Inserted
    <3> HIDE DEF st
    <3> QED BY <1>2, <1>6, <3>1, <3>2 DEF MadeAt, st
  <2> QED BY <2>1, <2>2
<1>10. Rendered(s)'
  <2>1. DOMAIN made'[s] = DOMAIN q
    BY <1>2, <1>5 DEF Rendering
  <2>2. (\A i \in DOMAIN made[s] : MadeAt(s, i))'
    BY <1>5, <1>9, <2>1
  <2>3. (\A i \in DOMAIN payload[s] : LinkedAt(s, i))'
    BY <1>5, <1>8
  <2> QED BY <1>2, <2>1, <2>2, <2>3 DEF Rendered
<1>11. Rows(tables)'
  BY <1>1, <1>2
<1> QED BY <1>3, <1>4, <1>10, <1>11, ServedBy DEF Serve

\* What was made of a record of a payload: an insert, or an update of what is there.
LEMMA MadeStated ==
  ASSUME NEW s \in Sessions, Placed(s), Rendered(s), NEW i \in DOMAIN made[s]
  PROVE  /\ i \in DOMAIN payload[s] /\ Stated(made[s][i])
         /\ made[s][i].table = ViewOf(s, i).table /\ made[s][i].row = Now(s, i)
         /\ made[s][i].op = "insert" \/ UpdateOf(request[s].def, payload[s][i], made[s][i])
         /\ request[s].method = "POST" => made[s][i].op = "insert"
<1>1. i \in DOMAIN payload[s] /\ MadeAt(s, i)
  BY DEF Rendered
<1>2. RuleTyped(request[s].def) /\ Record(request[s].def, payload[s][i])
  BY <1>1, RequestIs
<1>3. PICK rule, r, st : rule = request[s].def /\ r = payload[s][i] /\ st = made[s][i]
  OBVIOUS
<1>4. ViewOf(s, i) = rule[r.view] /\ Now(s, i) = r.row
  BY <1>3 DEF ViewOf, Now
<1>a. RuleTyped(rule) /\ Record(rule, r)
  BY <1>2, <1>3
<1>5. CASE st = Insert(rule[r.view], r)
  <2>1. Stated(st) /\ st.op = "insert" /\ st.table = rule[r.view].table /\ st.row = r.row
    BY <1>a, <1>5, InsertIs
  <2> QED BY <1>1, <1>3, <1>4, <2>1
<1>6. CASE st = Update(rule, r) /\ request[s].method # "POST"
  <2>1. Stated(st) /\ UpdateOf(rule, r, st)
    BY <1>a, <1>6, UpdateIs
  <2> QED BY <1>1, <1>3, <1>4, <1>6, <2>1 DEF UpdateOf
<1> QED BY <1>1, <1>3, <1>4, <1>5, <1>6 DEF MadeAt

\* What the statements of a session do to the tables when it is answered ok.
LEMMA ExecuteStep ==
  ASSUME Served, NEW s \in Sessions, Execute(s)
  PROVE  /\ stage[s] = "execute" /\ stage'[s] = "answered"
         /\ UNCHANGED <<request, payload, step, index, made, blocks, sequences>>
         /\ answer'[s] \in {"ok", "failed"}
         /\ answer'[s] # "ok" => tables' = tables
         /\ \E n \in Nat :
              /\ DOMAIN made[s] = 1..n /\ DOMAIN payload[s] = 1..n
              /\ \A i \in 1..n : Stated(made[s][i])
              /\ answer'[s] = "ok" => \E t : Went(t, n, tables, made[s], tables')
<1>1. Domains /\ Placed(s) /\ Rendered(s) /\ Rows(tables)
  BY DEF Served
<1>2. PICK done : done = Run(tables, made[s])
  OBVIOUS
<1>3. /\ stage[s] = "execute" /\ stage'[s] = "answered"
      /\ UNCHANGED <<request, payload, step, index, made, blocks, sequences>>
      /\ tables' = IF done.ok THEN done.tables ELSE tables
      /\ answer'[s] = IF done.ok THEN "ok" ELSE "failed"
  BY <1>1, <1>2 DEF Execute, Executed, Domains
<1>4. PICK n \in Nat : DOMAIN request[s].body = 1..n
  BY <1>1, RequestIs, BodyLength
<1>5. DOMAIN payload[s] = 1..n /\ DOMAIN made[s] = 1..n
  BY <1>1, <1>3, <1>4, RequestIs DEF Rendered
<1>6. \A i \in 1..n : Stated(made[s][i])
  BY <1>1, <1>5, MadeStated
<1>7. ASSUME done.ok PROVE \E t : Went(t, n, tables, made[s], tables')
  <2>1. PICK all, statements : all = tables /\ statements = made[s]
    OBVIOUS
  <2>2. \E t : Went(t, n, all, statements, done.tables)
    BY <1>1, <1>2, <1>5, <1>6, <1>7, <2>1, TransactionIs
  <2>3. tables' = done.tables
    BY <1>3, <1>7
  <2> QED BY <2>1, <2>2, <2>3
<1> QED BY <1>3, <1>5, <1>6, <1>7

\* Executing the statements.
LEMMA ServedExecute ==
  ASSUME Served, NEW s \in Sessions, Execute(s)
  PROVE  Served'
<1>1. Domains /\ Placed(s) /\ Rendered(s) /\ Rows(tables)
  BY DEF Served
<1>2. /\ stage[s] = "execute" /\ stage'[s] = "answered"
      /\ UNCHANGED <<request, payload, step, index, made, blocks, sequences>>
      /\ answer'[s] \in {"ok", "failed"}
      /\ answer'[s] # "ok" => tables' = tables
  BY ExecuteStep
<1>3. Domains'
  <2>1. stage' \in [Sessions -> Stages] /\ answer' \in [Sessions -> {"", "ok", "failed", "dropped"}]
    BY <1>1 DEF Execute, Executed, Domains, Stages
  <2> QED BY <1>1, <1>2, <2>1 DEF Domains
<1>4. Placed(s)'
  BY <1>1, <1>2 DEF Placed
<1>5. Rendered(s)'
  <2>1. /\ \A i : (AsAsked(s, i))' <=> AsAsked(s, i)
        /\ \A i : (LinkedAt(s, i))' <=> LinkedAt(s, i)
    BY <1>2 DEF AsAsked, LinkedAt, ViewOf, Now, Asked
  <2>2. \A i : (MadeAt(s, i))' <=> MadeAt(s, i)
    <3>1. \A i : (ViewOf(s, i))' = ViewOf(s, i)
      BY <1>2 DEF ViewOf
    <3> QED BY <1>2, <2>1, <3>1 DEF MadeAt
  <2> QED BY <1>1, <1>2, <2>1, <2>2 DEF Rendered
<1>6. Rows(tables)'
  <2>1. CASE answer'[s] = "ok"
    <3>1. PICK n \in Nat : answer'[s] = "ok" => \E t : Went(t, n, tables, made[s], tables')
      BY ExecuteStep
    <3>2. PICK t : Went(t, n, tables, made[s], tables')
      BY <2>1, <3>1
    <3>3. n \in 0..n
      OBVIOUS
    <3> QED BY <3>2, <3>3 DEF Went
  <2>2. CASE answer'[s] # "ok"
    BY <1>1, <1>2, <2>2
  <2> QED BY <2>1, <2>2
<1> QED BY <1>3, <1>4, <1>5, <1>6, ServedBy DEF Serve

\* Requests are served, step by step.
LEMMA ServedNext == Served /\ [Next]_vars => Served'
<1> SUFFICES ASSUME Served, [Next]_vars PROVE Served'
  OBVIOUS
<1>1. CASE \E s \in Sessions : Serve(s)
  BY <1>1, ServedRead, ServedAllocate, ServedRender, ServedExecute DEF Serve
<1>2. CASE UNCHANGED vars
  <2>1. Domains' /\ Rows(tables)'
    BY <1>2 DEF Served, Domains, vars
  <2>2. ASSUME NEW s \in Sessions PROVE Placed(s)' /\ Rendered(s)'
    BY <1>2, StaysPlaced DEF Served, Stays, vars
  <2> QED BY <2>1, <2>2 DEF Served
<1> QED BY <1>1, <1>2 DEF Next, Finished

\* Requests are where they should be, always.
THEOREM RequestsServed == Spec => []Served
BY ServedInit, ServedNext, PTL DEF Spec

-----------------------------------------------------------------------------
(* What a request makes sure of.                                            *)

\* Records of what is executed belong to those they are in, as their foreign keys say.
LEMMA ServedLinks == Served => ChildrenLinked
<1> SUFFICES ASSUME Served, NEW s \in Sessions, NEW i \in DOMAIN payload[s], answer[s] = "ok"
             PROVE  LinkedAt(s, i)
  BY DEF ChildrenLinked, LinkedAt
<1> QED BY DEF Served, Rendered

\* appendSetFk: a child is written with the key of its parent.
THEOREM ChildrenAreLinked == Spec => []ChildrenLinked
BY RequestsServed, ServedLinks, PTL

\* A body keeps its records, and the tables one row for each key.
LEMMA ServedTypes == Served => TypeOK
<1> SUFFICES ASSUME Served PROVE TypeOK
  OBVIOUS
<1>1. ASSUME NEW s \in Sessions
      PROVE /\ (answer[s] = "") = (stage[s] # "answered")
            /\ DOMAIN payload[s] = DOMAIN request[s].body
            /\ \A i \in DOMAIN payload[s] : payload[s][i] = [request[s].body[i] EXCEPT !.row = Now(s, i)]
  <2>1. Placed(s)
    BY DEF Served
  <2>2. /\ BodyTyped(request[s].def, request[s].body)
        /\ Alike(request[s].def, request[s].body, payload[s])
    BY <2>1, RequestIs DEF Placed
  <2>3. ASSUME NEW i \in DOMAIN payload[s]
        PROVE payload[s][i] = [request[s].body[i] EXCEPT !.row = Now(s, i)]
    <3>1. /\ i \in DOMAIN request[s].body /\ Record(request[s].def, payload[s][i])
          /\ payload[s][i].view = request[s].body[i].view /\ payload[s][i].in = request[s].body[i].in
          /\ payload[s][i].has = request[s].body[i].has
      BY <2>2 DEF Alike
    <3>2. PICK r, b : r = payload[s][i] /\ b = request[s].body[i]
      OBVIOUS
    <3>3. /\ b = [view |-> b.view, in |-> b.in, row |-> b.row, has |-> b.has]
          /\ r = [view |-> r.view, in |-> r.in, row |-> r.row, has |-> r.has]
      BY <2>2, <3>1, <3>2 DEF BodyTyped, Record
    <3>4. r.view = b.view /\ r.in = b.in /\ r.has = b.has /\ Now(s, i) = r.row
      BY <3>1, <3>2 DEF Now
    <3>5. [b EXCEPT !.row = r.row] = [view |-> b.view, in |-> b.in, row |-> r.row, has |-> b.has]
      BY <3>3
    <3>6. r = [b EXCEPT !.row = r.row]
      BY <3>3, <3>4, <3>5
    <3> QED BY <3>2, <3>4, <3>6
  <2> QED BY <2>1, <2>2, <2>3 DEF Placed, Alike
<1>2. \A table \in DOMAIN tables : \A row \in tables[table], other \in tables[table] :
        SameKey(table, row, other) => row = other
  BY DEF Served, Rows, RowsOf
<1> QED BY <1>1, <1>2 DEF Served, Domains, TypeOK

\* What a request is answered ok with was executed.
LEMMA CommitIs ==
  ASSUME Served, [Next]_vars, NEW s \in Sessions, Commits(s)
  PROVE  Execute(s) /\ answer'[s] = "ok"
<1>1. stage[s] = "execute" /\ answer'[s] = "ok" /\ answer[s] = ""
  BY DEF Commits, Served, Placed
<1>2. PICK u \in Sessions : Serve(u)
  BY <1>1 DEF Next, Finished, vars
<1>3. u = s
  BY <1>1, <1>2, OthersStay DEF Served, Stays
<1> QED BY <1>1, <1>2, <1>3 DEF Serve, ReadCurrent, AllocateIds, Render

\* Nothing else changes the tables.
LEMMA TablesStay ==
  ASSUME Served, [Next]_vars, tables' # tables
  PROVE  \E s \in Sessions : Commits(s)
<1>1. ASSUME NEW s \in Sessions, Serve(s) PROVE Commits(s)
  <2>1. Execute(s)
    BY <1>1 DEF Serve, ReadCurrent, AllocateIds, Render
  <2> QED BY <2>1, ExecuteStep DEF Commits
<1> QED BY <1>1 DEF Next, Finished, vars

\* A request that is answered ok went through its statements.
LEMMA CommitWent ==
  ASSUME Served, [Next]_vars, NEW s \in Sessions, Commits(s)
  PROVE  \E n \in Nat :
           /\ DOMAIN made[s] = 1..n /\ DOMAIN payload[s] = 1..n
           /\ \A i \in 1..n : Stated(made[s][i])
           /\ \E t : Went(t, n, tables, made[s], tables')
BY CommitIs, ExecuteStep

\* The keys of rows stay: they are never deleted.
LEMMA KeysGoOn ==
  ASSUME Served, [Next]_vars, NEW table \in DOMAIN Stored, NEW row \in tables[table]
  PROVE  \E new \in tables'[table] : SameKey(table, row, new)
<1>1. SameKey(table, row, row)
  BY DEF SameKey
<1>2. CASE tables' = tables
  BY <1>1, <1>2
<1>3. CASE tables' # tables
  <2>1. PICK s \in Sessions : Commits(s)
    BY <1>3, TablesStay
  <2>2. PICK n \in Nat : /\ \A i \in 1..n : Stated(made[s][i])
                         /\ \E t : Went(t, n, tables, made[s], tables')
    BY <2>1, CommitWent
  <2>3. PICK t : Went(t, n, tables, made[s], tables')
    BY <2>2
  <2>4. n \in 0..n /\ t[n] = tables'
    BY <2>3 DEF Went
  <2>5. PICK all, after, statements : all = tables /\ after = tables' /\ statements = made[s]
    OBVIOUS
  <2>6. \A i \in 0..n : \E new \in t[i][table] : SameKey(table, row, new)
    BY <1>1, <2>2, <2>3, <2>5, KeysStayed
  <2> QED BY <2>4, <2>6
<1> QED BY <1>2, <1>3

\* The keys of the rows that were there when requests came are there.
KeysStay ==
  \A table \in DOMAIN Stored : \A row \in Stored[table] : \E new \in tables[table] : SameKey(table, row, new)

\* They stay, step by step.
LEMMA KeysStayNext == Served /\ KeysStay /\ [Next]_vars => KeysStay'
<1> SUFFICES ASSUME Served, KeysStay, [Next]_vars, NEW table \in DOMAIN Stored, NEW row \in Stored[table]
             PROVE  \E new \in tables'[table] : SameKey(table, row, new)
  BY DEF KeysStay, SameKey
<1>1. PICK one \in tables[table] : SameKey(table, row, one)
  BY DEF KeysStay
<1>2. PICK new \in tables'[table] : SameKey(table, one, new)
  BY KeysGoOn
<1> QED BY <1>1, <1>2 DEF SameKey

\* A field that is given ids has what the body had, or an id that the sequence has left behind.
Numbered(s) ==
  \A i \in DOMAIN payload[s] : \A name \in AutoAt(s, i) :
    \/ Now(s, i)[name] = Asked(s, i)[name]
    \/ /\ IsEmpty(Asked(s, i)[name])
       /\ Now(s, i)[name] \in FirstId .. sequences[ViewOf(s, i).table] - 1

\* What is known of ids.
Ids == (\A s \in Sessions : Numbered(s)) /\ GivenOnce /\ BlocksUsed

\* What they start from: no id was given.
LEMMA IdsInit == Init => Ids
<1> SUFFICES ASSUME Init PROVE Ids
  OBVIOUS
<1>1. \A s \in Sessions : payload[s] = request[s].body /\ blocks[s] = <<>>
  BY DEF Init
<1>2. \A s \in Sessions : \A i : Now(s, i) = Asked(s, i)
  BY <1>1 DEF Now, Asked
<1>3. \A s \in Sessions : Numbered(s)
  BY <1>2 DEF Numbered
<1>4. \A s \in Sessions : \A i : \A name : ~IsGiven(s, i, name)
  BY <1>2 DEF IsGiven
<1>5. GivenOnce
  BY <1>4 DEF GivenOnce
<1>6. BlocksUsed
  <2>1. \A s \in Sessions : DOMAIN blocks[s] = {}
    BY <1>1
  <2> QED BY <2>1 DEF BlocksUsed
<1> QED BY <1>3, <1>5, <1>6 DEF Ids

\* A step that gives no id leaves all of them as they were.
NoneGiven ==
  /\ request' = request /\ blocks' = blocks /\ sequences' = sequences
  /\ \A t \in Sessions :
       /\ DOMAIN payload'[t] = DOMAIN payload[t]
       /\ \A i \in DOMAIN payload[t] :
            /\ payload'[t][i].view = payload[t][i].view
            /\ \A name \in AutoAt(t, i) : payload'[t][i].row[name] = payload[t][i].row[name]

\* What is known of them stays known.
LEMMA NoneGivenKeeps == Ids /\ NoneGiven => Ids'
<1> SUFFICES ASSUME Ids, NoneGiven PROVE Ids'
  OBVIOUS
<1>1. ASSUME NEW t \in Sessions, NEW i \in DOMAIN payload[t]
      PROVE /\ (ViewOf(t, i))' = ViewOf(t, i) /\ (AutoAt(t, i))' = AutoAt(t, i)
            /\ (Asked(t, i))' = Asked(t, i)
            /\ \A name \in AutoAt(t, i) : (Now(t, i))'[name] = Now(t, i)[name]
  <2>1. (ViewOf(t, i))' = ViewOf(t, i)
    BY DEF NoneGiven, ViewOf
  <2> QED BY <2>1 DEF NoneGiven, AutoAt, Asked, Now
<1>2. ASSUME NEW t \in Sessions, NEW i \in DOMAIN payload[t], NEW name
      PROVE (IsGiven(t, i, name))' <=> IsGiven(t, i, name)
  BY <1>1 DEF IsGiven
<1>3. \A t \in Sessions : DOMAIN payload'[t] = DOMAIN payload[t]
  BY DEF NoneGiven
<1>4. (\A s \in Sessions : Numbered(s))'
  BY <1>1, <1>3 DEF Ids, Numbered, NoneGiven
<1>5. GivenOnce'
  <2>1. SUFFICES ASSUME NEW s \in Sessions, NEW i \in DOMAIN payload[s],
                        NEW name \in AutoAt(s, i), IsGiven(s, i, name)
                 PROVE /\ \A row \in Stored[ViewOf(s, i).table] : row[name] # Now(s, i)[name]
                       /\ \A t \in Sessions : \A k \in DOMAIN payload[t] : \A other \in AutoAt(t, k) :
                            /\ IsGiven(t, k, other) /\ <<s, i, name>> # <<t, k, other>>
                            /\ ViewOf(s, i).table = ViewOf(t, k).table
                            => Now(s, i)[name] # Now(t, k)[other]
    BY <1>1, <1>2, <1>3 DEF GivenOnce
  <2> QED BY <2>1 DEF Ids, GivenOnce
<1>6. BlocksUsed'
  BY DEF Ids, NoneGiven, BlocksUsed
<1> QED BY <1>4, <1>5, <1>6 DEF Ids

\* Evaluating the template sets foreign keys, which are given no ids.
LEMMA RenderGivesNone ==
  ASSUME Served, NEW s \in Sessions, Render(s)
  PROVE  NoneGiven
<1> DEFINE rule == request[s].def
           method == request[s].method
           p == payload[s]
           q == payload'[s]
<1>1. Domains /\ Placed(s)
  BY DEF Served
<1>2. /\ Alike(rule, request[s].body, q) /\ Alike(rule, request[s].body, p)
      /\ Rendering(method, index[s], rule, p, q, made'[s])
      /\ UNCHANGED <<request, blocks, sequences>>
  BY <1>1, RenderStep DEF Placed
<1>3. DOMAIN q = DOMAIN p /\ \A i \in DOMAIN p : q[i].view = p[i].view
  BY <1>2 DEF Alike
<1>4. ASSUME NEW i \in DOMAIN p, NEW name \in AutoAt(s, i) PROVE q[i].row[name] = p[i].row[name]
  <2>1. /\ RuleTyped(rule) /\ p[i].view \in DOMAIN rule /\ ViewOf(s, i) = rule[p[i].view]
        /\ ViewOf(s, i).table \in DOMAIN Stored
    BY <1>1, RequestIs DEF ViewOf
  <2>2. name \in NamesOf(rule[p[i].view]) /\ name \in AutoOf(rule[p[i].view].table)
    BY <2>1 DEF AutoAt
  <2>3. name \notin DOMAIN Foreign[rule[p[i].view].table]
    BY <2>1, <2>2, SchemaAssumption DEF SchemaAssumption
  <2>4. CASE Unlinked(method, index[s], rule, p[i])
    BY <1>2, <2>4 DEF Rendering
  <2>5. CASE ~Unlinked(method, index[s], rule, p[i])
    <3>1. RowLinked(rule, p[i].view, p[p[i].in].view, p[i].row, q[p[i].in].row, q[i].row)
      BY <1>2, <2>5 DEF Rendering
    <3> QED BY <2>2, <2>3, <3>1 DEF RowLinked
  <2> QED BY <2>4, <2>5
<1>5. \A t \in Sessions : t # s => payload'[t] = payload[t]
  BY <1>1, OthersStay DEF Serve, Stays
<1> QED BY <1>2, <1>3, <1>4, <1>5 DEF NoneGiven

\* An id is what it was, or one of the block that is allocated, in a record that had none.
LEMMA GivenBy ==
  ASSUME Served, NEW s \in Sessions, AllocateIds(s),
         NEW v \in DOMAIN request[s].def, NEW field, Allocated(s, v, field),
         NEW t \in Sessions, NEW i \in DOMAIN payload[t], NEW name \in AutoAt(t, i)
  PROVE  \/ payload'[t][i].row[name] = payload[t][i].row[name]
         \/ LET table == request[s].def[v].table
            IN /\ t = s /\ payload[s][i].view = v /\ name = field /\ IsEmpty(payload[s][i].row[field])
               /\ payload'[s][i].row[field] \in sequences[table] .. sequences'[table] - 1
<1>1. CASE t # s
  BY <1>1, OthersStay DEF Served, Serve, Stays
<1>2. CASE t = s
  <2>1. DOMAIN payload[s][i].row = NamesOf(ViewOf(s, i))
    BY <1>2, RequestIs DEF Served
  <2>2. name \in DOMAIN payload[s][i].row
    BY <1>2, <2>1 DEF AutoAt
  <2> QED BY <1>2, <2>2 DEF Allocated, Gives
<1> QED BY <1>1, <1>2

\* Allocating ids.
LEMMA AllocateGives ==
  ASSUME Served, Ids, NEW s \in Sessions, AllocateIds(s)
  PROVE  Ids'
<1>1. PICK v \in DOMAIN request[s].def :
        \E field \in NamesOf(request[s].def[v]) \cap AutoOf(request[s].def[v].table) : Allocated(s, v, field)
  BY AllocationStep
<1>2. PICK field \in NamesOf(request[s].def[v]) \cap AutoOf(request[s].def[v].table) : Allocated(s, v, field)
  BY <1>1
<1> DEFINE table == request[s].def[v].table
           from == sequences[table]
           to == sequences'[table]
<1>3. /\ Alike(request[s].def, payload[s], payload'[s]) /\ Gives(payload[s], payload'[s], v, field, from, to)
      /\ to \in Nat /\ to >= from
      /\ \A other \in DOMAIN Stored : other # table => sequences'[other] = sequences[other]
      /\ \E block : block.given = block.reserved /\ blocks'[s] = Append(blocks[s], block)
  BY <1>2 DEF Allocated
<1>4. table \in DOMAIN Stored /\ from \in Nat /\ from >= FirstId /\ FirstId \in Nat \ {0}
  <2>1. RuleTyped(request[s].def)
    BY RequestIs DEF Served
  <2>2. table \in DOMAIN Stored
    BY <2>1, MetaIs
  <2> QED BY <2>2, SchemaAssumption DEF SchemaAssumption, Served, Domains
<1>5. request' = request /\ \A t \in Sessions : t # s => Stays(t)
  BY OthersStay DEF Served, Serve
<1> HIDE DEF table
<1>6. ASSUME NEW t \in Sessions
      PROVE /\ DOMAIN payload'[t] = DOMAIN payload[t]
            /\ \A i \in DOMAIN payload[t] :
                 /\ (ViewOf(t, i))' = ViewOf(t, i) /\ (AutoAt(t, i))' = AutoAt(t, i)
                 /\ (Asked(t, i))' = Asked(t, i) /\ ViewOf(t, i).table \in DOMAIN Stored
  <2>1. /\ DOMAIN payload'[t] = DOMAIN payload[t]
        /\ \A i \in DOMAIN payload[t] : payload'[t][i].view = payload[t][i].view
    <3>1. CASE t = s
      BY <1>3, <3>1 DEF Alike
    <3>2. CASE t # s
      BY <1>5, <3>2 DEF Stays
    <3> QED BY <3>1, <3>2
  <2>2. \A i \in DOMAIN payload[t] : (ViewOf(t, i))' = ViewOf(t, i)
    BY <1>5, <2>1 DEF ViewOf
  <2>3. \A i \in DOMAIN payload[t] : ViewOf(t, i).table \in DOMAIN Stored
    BY RequestIs DEF Served
  <2> QED BY <1>5, <2>1, <2>2, <2>3 DEF AutoAt, Asked
<1>7. ASSUME NEW t \in Sessions, NEW i \in DOMAIN payload[t], NEW name \in AutoAt(t, i)
      PROVE \/ payload'[t][i].row[name] = payload[t][i].row[name]
            \/ /\ t = s /\ payload[s][i].view = v /\ name = field /\ ViewOf(t, i).table = table
               /\ IsEmpty(payload[s][i].row[field]) /\ payload'[s][i].row[field] \in from .. to - 1
  <2>1. payload[s][i].view = v /\ t = s => ViewOf(t, i).table = table
    BY DEF ViewOf, table
  <2> QED BY <1>2, <2>1, GivenBy DEF table
<1>8. \A other \in DOMAIN Stored :
        /\ sequences[other] \in Nat /\ sequences'[other] \in Nat
        /\ sequences'[other] >= sequences[other]
  <2>1. \A other \in DOMAIN Stored : sequences[other] \in Nat
    BY DEF Served, Domains
  <2> SUFFICES ASSUME NEW other \in DOMAIN Stored
               PROVE /\ sequences[other] \in Nat /\ sequences'[other] \in Nat
                     /\ sequences'[other] >= sequences[other]
    OBVIOUS
  <2>2. CASE other = table
    BY <1>3, <2>1, <2>2
  <2>3. CASE other # table
    <3>1. sequences'[other] = sequences[other] /\ sequences[other] \in Nat
      BY <1>3, <2>1, <2>3
    <3> QED BY <3>1
  <2> QED BY <2>2, <2>3
<1>9. ASSUME NEW t \in Sessions PROVE Numbered(t)'
  <2> SUFFICES ASSUME NEW i \in DOMAIN payload[t], NEW name \in AutoAt(t, i)
               PROVE \/ payload'[t][i].row[name] = Asked(t, i)[name]
                     \/ /\ IsEmpty(Asked(t, i)[name])
                        /\ payload'[t][i].row[name] \in FirstId .. sequences'[ViewOf(t, i).table] - 1
    BY <1>6 DEF Numbered, Now
  <2>1. \/ payload[t][i].row[name] = Asked(t, i)[name]
        \/ /\ IsEmpty(Asked(t, i)[name])
           /\ payload[t][i].row[name] \in FirstId .. sequences[ViewOf(t, i).table] - 1
    BY DEF Ids, Numbered, Now
  <2>2. ViewOf(t, i).table \in DOMAIN Stored
    BY <1>6
  <2>3. CASE payload'[t][i].row[name] = payload[t][i].row[name]
    <3>1. /\ sequences[ViewOf(t, i).table] \in Nat /\ sequences'[ViewOf(t, i).table] \in Nat
          /\ sequences'[ViewOf(t, i).table] >= sequences[ViewOf(t, i).table]
      BY <1>8, <2>2
    <3>2. payload[t][i].row[name] \in FirstId .. sequences[ViewOf(t, i).table] - 1
          => payload[t][i].row[name] \in FirstId .. sequences'[ViewOf(t, i).table] - 1
      BY <1>4, <3>1
    <3> QED BY <2>1, <2>3, <3>2
  <2>4. CASE /\ t = s /\ payload[s][i].view = v /\ name = field /\ ViewOf(t, i).table = table
             /\ IsEmpty(payload[s][i].row[field]) /\ payload'[s][i].row[field] \in from .. to - 1
    <3>1. IsEmpty(Asked(t, i)[name])
      BY <2>1, <2>4
    <3>2. payload'[t][i].row[name] \in FirstId .. to - 1
      BY <1>3, <1>4, <2>4
    <3> QED BY <2>4, <3>1, <3>2
  <2> QED BY <1>7, <2>3, <2>4
<1>10. ASSUME NEW t \in Sessions, NEW i \in DOMAIN payload[t], NEW name \in AutoAt(t, i),
              (IsGiven(t, i, name))'
       PROVE \/ /\ IsGiven(t, i, name) /\ payload'[t][i].row[name] = Now(t, i)[name]
                /\ Now(t, i)[name] \in FirstId .. sequences[ViewOf(t, i).table] - 1
             \/ /\ t = s /\ payload[s][i].view = v /\ name = field /\ ViewOf(t, i).table = table
                /\ IsEmpty(payload[s][i].row[field]) /\ payload'[s][i].row[field] \in from .. to - 1
                /\ ~IsEmpty(payload'[s][i].row[field])
  <2>1. IsEmpty(Asked(t, i)[name]) /\ ~IsEmpty(payload'[t][i].row[name])
    BY <1>6, <1>10 DEF IsGiven, Now
  <2>2. CASE payload'[t][i].row[name] = payload[t][i].row[name]
    <3>1. IsGiven(t, i, name)
      BY <2>1, <2>2 DEF IsGiven, Now
    <3>2. Now(t, i)[name] # Asked(t, i)[name]
      BY <2>1, <2>2 DEF Now
    <3> QED BY <2>2, <3>1, <3>2 DEF Ids, Numbered, Now
  <2>3. CASE payload'[t][i].row[name] # payload[t][i].row[name]
    BY <1>7, <2>1, <2>3
  <2> QED BY <2>2, <2>3
<1>11. GivenOnce'
  <2>1. ASSUME NEW t \in Sessions, NEW i \in DOMAIN payload[t], NEW name \in AutoAt(t, i),
               (IsGiven(t, i, name))', NEW row \in Stored[ViewOf(t, i).table]
        PROVE  row[name] # payload'[t][i].row[name]
    <3>1. name \in AutoOf(ViewOf(t, i).table) /\ ViewOf(t, i).table \in DOMAIN Stored
      BY <1>6 DEF AutoAt
    <3>2. row[name] \in 0 .. FirstId - 1
      BY <3>1, SchemaAssumption DEF SchemaAssumption
    <3>3. \E last : payload'[t][i].row[name] \in FirstId .. last
      <4>1. CASE payload'[t][i].row[name] \in FirstId .. sequences[ViewOf(t, i).table] - 1
        BY <4>1
      <4>2. CASE payload'[t][i].row[name] \in from .. to - 1
        <5>1. payload'[t][i].row[name] \in FirstId .. to - 1
          BY <1>3, <1>4, <4>2
        <5> QED BY <5>1
      <4> QED BY <1>10, <2>1, <4>1, <4>2
    <3> QED BY <1>4, <3>2, <3>3
  <2>2. ASSUME NEW t \in Sessions, NEW i \in DOMAIN payload[t], NEW name \in AutoAt(t, i),
               (IsGiven(t, i, name))', NEW u \in Sessions, NEW k \in DOMAIN payload[u], NEW other \in AutoAt(u, k),
               (IsGiven(u, k, other))', <<t, i, name>> # <<u, k, other>>, ViewOf(t, i).table = ViewOf(u, k).table
        PROVE  payload'[t][i].row[name] # payload'[u][k].row[other]
    <3> DEFINE Was(x, j, n) == /\ IsGiven(x, j, n) /\ payload'[x][j].row[n] = Now(x, j)[n]
                               /\ Now(x, j)[n] \in FirstId .. sequences[ViewOf(x, j).table] - 1
               Is(x, j, n) == /\ x = s /\ payload[s][j].view = v /\ n = field /\ ViewOf(x, j).table = table
                              /\ IsEmpty(payload[s][j].row[field]) /\ payload'[s][j].row[field] \in from .. to - 1
                              /\ ~IsEmpty(payload'[s][j].row[field])
    <3>1. Was(t, i, name) \/ Is(t, i, name)
      BY <1>10, <2>2
    <3>2. Was(u, k, other) \/ Is(u, k, other)
      BY <1>10, <2>2
    <3>3. CASE Was(t, i, name) /\ Was(u, k, other)
      BY <2>2, <3>3 DEF Ids, GivenOnce
    <3>4. CASE Was(t, i, name) /\ Is(u, k, other)
      <4>1. payload'[t][i].row[name] \in FirstId .. from - 1 /\ payload'[u][k].row[other] \in from .. to - 1
        BY <2>2, <3>4
      <4> QED BY <1>3, <1>4, <4>1
    <3>5. CASE Is(t, i, name) /\ Was(u, k, other)
      <4>1. payload'[u][k].row[other] \in FirstId .. from - 1 /\ payload'[t][i].row[name] \in from .. to - 1
        BY <2>2, <3>5
      <4> QED BY <1>3, <1>4, <4>1
    <3>6. CASE Is(t, i, name) /\ Is(u, k, other)
      <4>1. i # k
        BY <2>2, <3>6
      <4> QED BY <1>3, <3>6, <4>1 DEF Gives
    <3> QED BY <3>1, <3>2, <3>3, <3>4, <3>5, <3>6
  <2> QED BY <1>6, <2>1, <2>2 DEF GivenOnce, Now
<1>12. BlocksUsed'
  <2>1. PICK block : block.given = block.reserved /\ blocks'[s] = Append(blocks[s], block)
    BY <1>3
  <2> SUFFICES ASSUME NEW t \in Sessions, NEW i \in DOMAIN blocks'[t]
               PROVE  blocks'[t][i].given = blocks'[t][i].reserved
    BY DEF BlocksUsed
  <2>2. CASE t # s
    BY <1>5, <2>2 DEF Ids, BlocksUsed, Stays
  <2>3. CASE t = s
    <3>1. blocks[s] \in Seq(ToSet(blocks[s]))
      BY DEF Served, Placed, IsSequence
    <3>2. /\ DOMAIN blocks'[s] = 1..(Len(blocks[s]) + 1) /\ DOMAIN blocks[s] = 1..Len(blocks[s])
          /\ blocks'[s][Len(blocks[s]) + 1] = block
          /\ \A j \in 1..Len(blocks[s]) : blocks'[s][j] = blocks[s][j]
      BY <2>1, <3>1
    <3>3. Len(blocks[s]) \in Nat
      BY <3>1
    <3>4. CASE i = Len(blocks[s]) + 1
      BY <2>1, <2>3, <3>2, <3>4
    <3>5. CASE i # Len(blocks[s]) + 1
      <4>1. i \in DOMAIN blocks[s]
        BY <2>3, <3>2, <3>3, <3>5
      <4> QED BY <2>3, <3>2, <4>1 DEF Ids, BlocksUsed
    <3> QED BY <3>4, <3>5
  <2> QED BY <2>2, <2>3
<1> QED BY <1>9, <1>11, <1>12 DEF Ids

\* Ids, step by step.
LEMMA IdsNext == Served /\ Ids /\ [Next]_vars => Ids'
<1> SUFFICES ASSUME Served, Ids, [Next]_vars PROVE Ids'
  OBVIOUS
<1>1. CASE UNCHANGED <<request, payload, blocks, sequences>>
  BY <1>1, NoneGivenKeeps DEF NoneGiven
<1>2. CASE \E s \in Sessions : AllocateIds(s)
  BY <1>2, AllocateGives
<1>3. CASE \E s \in Sessions : Render(s)
  BY <1>3, RenderGivesNone, NoneGivenKeeps
<1>4. \A s \in Sessions : ReadCurrent(s) \/ Execute(s) => UNCHANGED <<request, payload, blocks, sequences>>
  BY DEF ReadCurrent, Execute, Executed
<1> QED BY <1>1, <1>2, <1>3, <1>4 DEF Next, Serve, Finished, vars

\* $sequencer.Allocate: ids are given where there was none, each to one record of one request and
\* to no row that was there, and all that were reserved.
THEOREM IdsAreSound == Spec => []IdsSound
<1>1. Init => Served /\ Ids
  BY ServedInit, IdsInit
<1>2. (Served /\ Ids) /\ [Next]_vars => (Served /\ Ids)'
  BY ServedNext, IdsNext
<1>3. Served /\ Ids => IdsSound
  <2>1. Ids => IdsKept
    BY DEF Ids, Numbered, IdsKept
  <2> QED BY <2>1, ServedTypes DEF Ids, IdsSound
<1> QED BY <1>1, <1>2, <1>3, PTL DEF Spec

-----------------------------------------------------------------------------
(* What becomes of the tables.                                              *)

\* A row stays as it is while rows are inserted.
LEMMA RowStays ==
  ASSUME NEW n \in Nat, NEW statements, \A i \in 1..n : statements[i].op = "insert",
         NEW t, NEW all, NEW after, Went(t, n, all, statements, after),
         NEW table \in DOMAIN Stored, NEW i \in 0..n, NEW row \in t[i][table]
  PROVE  row \in after[table]
<1> DEFINE good == {k \in 0..n : k >= i => row \in t[k][table]}
<1>1. 0 \in good
  <2>1. 0 >= i => i = 0
    OBVIOUS
  <2> QED BY <2>1
<1>2. ASSUME NEW k \in 1..n, k - 1 \in good PROVE k \in good
  <2>1. Stepped(t[k - 1], t[k], statements[k]) /\ statements[k].op = "insert"
    BY DEF Went
  <2>2. CASE k = i
    BY <2>2
  <2>3. CASE k > i
    <3>1. row \in t[k - 1][table]
      BY <1>2, <2>3
    <3>2. row \in t[k][table]
      BY <2>1, <3>1 DEF Stepped
    <3> QED BY <3>2
  <2>4. CASE k < i
    BY <2>4
  <2> QED BY <2>2, <2>3, <2>4
<1>3. n \in good
  <2> HIDE DEF good
  <2> QED BY <1>1, <1>2, Inductive
<1>4. t[n] = after
  BY DEF Went
<1> QED BY <1>3, <1>4

\* What a POST answers is what was inserted.
LEMMA StepStoresAnswer ==
  ASSUME Served, [Next]_vars, NEW s \in Sessions, Commits(s), request[s].method = "POST",
         NEW i \in DOMAIN payload[s]
  PROVE  \E row \in tables'[ViewOf(s, i).table] : \A name \in DOMAIN Now(s, i) : row[name] = Now(s, i)[name]
<1>1. Placed(s) /\ Rendered(s)
  BY DEF Served
<1>2. PICK n \in Nat : /\ DOMAIN made[s] = 1..n /\ DOMAIN payload[s] = 1..n
                       /\ \A k \in 1..n : Stated(made[s][k])
                       /\ \E t : Went(t, n, tables, made[s], tables')
  BY CommitWent
<1>3. PICK t : Went(t, n, tables, made[s], tables')
  BY <1>2
<1>4. PICK all, after, statements : all = tables /\ after = tables' /\ statements = made[s]
  OBVIOUS
<1>5. \A k \in 1..n : statements[k].op = "insert"
  BY <1>1, <1>2, <1>4, MadeStated
<1>6. statements[i].table = ViewOf(s, i).table /\ statements[i].row = Now(s, i) /\ Stated(statements[i])
  BY <1>1, <1>2, <1>4, MadeStated
<1> DEFINE table == statements[i].table
           row == Complete(statements[i])
<1>7. row \in t[i][table]
  <2>1. Stepped(t[i - 1], t[i], statements[i]) /\ statements[i].op = "insert"
    BY <1>2, <1>3, <1>4, <1>5 DEF Went
  <2> QED BY <2>1 DEF Stepped
<1>8. table \in DOMAIN Stored /\ i \in 0..n
  BY <1>2, <1>6 DEF Stated
<1>9. \A name \in DOMAIN Now(s, i) : row[name] = Now(s, i)[name]
  BY <1>6, CompleteIs
<1> HIDE DEF row, table
<1>10. row \in tables'[table]
  BY <1>3, <1>4, <1>5, <1>7, <1>8, RowStays
<1>11. table = ViewOf(s, i).table
  BY <1>6 DEF table
<1> QED BY <1>9, <1>10, <1>11

\* build (insert): ids and keys are set before the statement is made, so the answer is what is
\* stored.
THEOREM AnswersAreStored == Spec => AnswerStored
<1>1. Served /\ [Next]_vars =>
        [\A s \in Sessions : Commits(s) /\ request[s].method = "POST" =>
           \A i \in DOMAIN payload[s] : \E row \in tables'[ViewOf(s, i).table] :
             \A name \in DOMAIN Now(s, i) : row[name] = Now(s, i)[name]]_vars
  BY StepStoresAnswer
<1> QED BY <1>1, RequestsServed, PTL DEF Spec, AnswerStored

\* A column keeps its value when all that is done leaves it.
LEMMA CommitKeeps ==
  ASSUME Served, [Next]_vars, NEW s \in Sessions, Commits(s),
         NEW table \in DOMAIN Stored, NEW row \in tables[table], NEW name \in ColumnsOf(table),
         \A i \in DOMAIN made[s] : Leaves(made[s][i], table, row, name)
  PROVE  \A new \in tables'[table] : SameKey(table, row, new) => row[name] = new[name]
<1>1. PICK n \in Nat : /\ DOMAIN made[s] = 1..n /\ \A k \in 1..n : Stated(made[s][k])
                       /\ \E t : Went(t, n, tables, made[s], tables')
  BY CommitWent
<1>2. PICK t : Went(t, n, tables, made[s], tables')
  BY <1>1
<1>3. PICK all, after, statements : all = tables /\ after = tables' /\ statements = made[s]
  OBVIOUS
<1>4. WentLeaving(t, n, all, statements, after, table, row, name)
  BY <1>1, <1>2, <1>3 DEF WentLeaving
<1>5. \A new \in after[table] : SameKey(table, row, new) => row[name] = new[name]
  BY <1>4, ValueStays
<1> QED BY <1>3, <1>5

\* A row that belongs to another is found by that too.
LEMMA StepMovesNone ==
  ASSUME Served, [Next]_vars, NEW table \in DOMAIN tables,
         NEW row \in tables[table], NEW new \in tables'[table], SameKey(table, row, new),
         NEW name \in DOMAIN Foreign[table], Owned(table, name)
  PROVE  row[name] = new[name]
<1>1. table \in DOMAIN Stored
  BY DEF Served, Rows
<1>2. CASE tables' = tables
  <2>1. row = new
    BY <1>1, <1>2 DEF Served, Rows, RowsOf
  <2> QED BY <2>1
<1>3. CASE tables' # tables
  <2>1. PICK s \in Sessions : Commits(s)
    BY <1>3, TablesStay
  <2>2. Placed(s) /\ Rendered(s)
    BY DEF Served
  <2>3. name \in ColumnsOf(table)
    BY <1>1, SchemaAssumption DEF SchemaAssumption
  <2>4. ASSUME NEW i \in DOMAIN made[s] PROVE Leaves(made[s][i], table, row, name)
    <3>1. PICK rule, r, st : rule = request[s].def /\ r = payload[s][i] /\ st = made[s][i]
      OBVIOUS
    <3>2. /\ st.op = "insert" \/ UpdateOf(rule, r, st)
          /\ i \in DOMAIN payload[s] /\ st.table = rule[r.view].table
      BY <2>2, <3>1, MadeStated DEF ViewOf
    <3>3. r.view \in DOMAIN rule /\ request[s] \in Requests
      BY <2>2, <3>1, <3>2, RequestIs DEF Placed
    <3>4. st.table = table => Foreign[table][name].table \in Above(rule, r.view)
      BY <3>1, <3>2, <3>3 DEF Owned
    <3>5. st.op = "update" /\ st.table = table /\ name \in st.set => name \in st.where
      BY <3>2, <3>4 DEF UpdateOf
    <3>6. Leaves(st, table, row, name)
      BY <3>5 DEF Leaves, Found
    <3> QED BY <3>1, <3>6
  <2> QED BY <1>1, <2>1, <2>3, <2>4, CommitKeeps
<1> QED BY <1>2, <1>3

\* A column that may be null is set when the body has it.
LEMMA StepKeepsAbsent ==
  ASSUME Served, [Next]_vars, NEW s \in Sessions, Commits(s), NEW table \in DOMAIN tables,
         NEW row \in tables[table], NEW new \in tables'[table], SameKey(table, row, new),
         NEW name \in Nullable(table)
  PROVE  \/ row[name] = new[name]
         \/ \E i \in DOMAIN payload[s] : /\ ViewOf(s, i).table = table /\ SameKey(table, Now(s, i), row)
                                         /\ name \in payload[s][i].has
<1> SUFFICES ASSUME ~\E i \in DOMAIN payload[s] :
                       /\ ViewOf(s, i).table = table /\ SameKey(table, Now(s, i), row)
                       /\ name \in payload[s][i].has
             PROVE  row[name] = new[name]
  OBVIOUS
<1>1. table \in DOMAIN Stored /\ Placed(s) /\ Rendered(s)
  BY DEF Served, Rows
<1>2. name \in ColumnsOf(table)
  BY DEF Nullable, ColumnsOf
<1>3. ASSUME NEW i \in DOMAIN made[s] PROVE Leaves(made[s][i], table, row, name)
  <2>1. PICK rule, r, st : rule = request[s].def /\ r = payload[s][i] /\ st = made[s][i]
    OBVIOUS
  <2>2. /\ st.op = "insert" \/ UpdateOf(rule, r, st)
        /\ i \in DOMAIN payload[s] /\ st.table = ViewOf(s, i).table /\ st.row = Now(s, i) /\ Stated(st)
    BY <1>1, <2>1, MadeStated
  <2>3. ASSUME st.op = "update", st.table = table, name \in st.set,
               NEW old, SameKey(table, row, old), Found(old, st)
        PROVE  FALSE
    <3>1. SameKey(table, Now(s, i), row)
      BY <2>2, <2>3 DEF Stated, Found, SameKey
    <3>2. UpdateOf(rule, r, st)
      BY <2>2, <2>3
    <3>3. name \in r.has
      BY <2>3, <3>2 DEF UpdateOf
    <3> QED BY <2>1, <2>2, <2>3, <3>1, <3>3
  <2>4. Leaves(st, table, row, name)
    BY <2>3 DEF Leaves
  <2> QED BY <2>1, <2>4
<1> QED BY <1>1, <1>2, <1>3, CommitKeeps

\* qualifiedFields, isParentFk and appendColumns with Has: no row is moved to another owner, and
\* what a body leaves out is not overwritten.
THEOREM RowsAreKept == Spec => RowsKept
<1>1. Served /\ [Next]_vars =>
        [\A table \in DOMAIN tables : \A row \in tables[table], new \in tables'[table] :
           SameKey(table, row, new) =>
             \A name \in DOMAIN Foreign[table] : Owned(table, name) => row[name] = new[name]]_vars
  BY StepMovesNone
<1>2. Served /\ [Next]_vars =>
        [\A s \in Sessions : Commits(s) =>
           \A table \in DOMAIN tables : \A row \in tables[table], new \in tables'[table] :
             SameKey(table, row, new) => \A name \in Nullable(table) :
               \/ row[name] = new[name]
               \/ \E i \in DOMAIN payload[s] : /\ ViewOf(s, i).table = table /\ SameKey(table, Now(s, i), row)
                                               /\ name \in payload[s][i].has]_vars
  BY StepKeepsAbsent
<1> QED BY <1>1, <1>2, RequestsServed, PTL DEF Spec, RowsKept, NeverMoved, AbsentKept

-----------------------------------------------------------------------------
(* What a patch finds.                                                      *)

\* The keys that were looked up are one column each: the index of a view is of the last column of
\* its key (generateIndexes), which is not enough to find a row by when it has more.
OneColumnKeys == \A table \in DOMAIN Stored : \E name : Primary[table] = {name}

\* What an index has of some rows.
KeysAre(keys, rows, name) == keys = {row[name] : row \in rows}

\* generateIndexes: that of a view has the keys of its rows.
LEMMA IndexIs ==
  ASSUME NEW rule, RuleTyped(rule), NEW v \in DOMAIN rule,
         NEW name, Primary[rule[v].table] = {name}, NEW rows
  PROVE  KeysAre(IndexBy(rule[v], rows), rows, name)
<1> DEFINE fields == rule[v].fields
           keys == {i \in DOMAIN fields : fields[i].primary}
           table == rule[v].table
<1>1. /\ \A meta \in ToSet(rule[v].metas) : OfColumn(table, meta)
      /\ \A n \in NamesOf(rule[v]) : \E meta \in ToSet(rule[v].metas) : meta.name = n
  BY MetaIs
<1>2. name \in NamesOf(rule[v])
  BY KeysOfView
<1>3. fields \in Seq(ToSet(fields)) /\ ToSet(fields) = ToSet(rule[v].metas)
  BY DEF RuleTyped, IsSequence
<1>4. Len(fields) \in Nat /\ DOMAIN fields = 1..Len(fields)
  BY <1>3
<1>5. \A i \in DOMAIN fields : fields[i] \in ToSet(rule[v].metas)
  BY <1>3 DEF ToSet
<1>6. \A i \in keys : fields[i].name = name
  BY <1>1, <1>5 DEF OfColumn
<1>7. keys # {}
  <2>1. PICK meta \in ToSet(rule[v].metas) : meta.name = name
    BY <1>1, <1>2
  <2>2. PICK i \in DOMAIN fields : fields[i] = meta
    BY <1>3, <2>1 DEF ToSet
  <2>3. fields[i].primary
    BY <1>1, <2>1, <2>2 DEF OfColumn
  <2> QED BY <2>3
<1>8. keys \in SUBSET (1..Len(fields))
  BY <1>4
<1>9. IndexBy(rule[v], rows) = IF keys = {} THEN {} ELSE {row[fields[Max(keys)].name] : row \in rows}
  BY DEF IndexBy
<1> HIDE DEF keys
<1>10. Max(keys) \in keys
  BY <1>4, <1>7, <1>8, GreatestIs
<1>11. fields[Max(keys)].name = name
  BY <1>6, <1>10
<1> QED BY <1>7, <1>9, <1>11 DEF KeysAre

\* The keys of a view that were looked up: those of the rows that were there, and are those of
\* the body, are among them, and each is that of a row.
Looks(table, v, body, keys, all) ==
  \A name \in Primary[table] :
    /\ \A i \in DOMAIN body : body[i].view = v =>
         \A row \in Stored[table] : row[name] = body[i].row[name] => row[name] \in keys
    /\ \A key \in keys : \E row \in all[table] : row[name] = key

LookedUp(s, v) ==
  Looks(request[s].def[v].table, v, request[s].body, index[s][request[s].def[v].param], tables)

\* A patch has looked up each view it has come to.
Indexed(s) ==
  request[s].method = "PATCH" =>
    \A j \in DOMAIN Hinted(request[s].def) :
      (stage[s] = "read" => j <= step[s]) => LookedUp(s, Hinted(request[s].def)[j])

\* What was looked up is, as rows are never deleted.
LEMMA LooksOn ==
  ASSUME Served, [Next]_vars, NEW table \in DOMAIN Stored, NEW v, NEW body, NEW keys,
         Looks(table, v, body, keys, tables)
  PROVE  Looks(table, v, body, keys, tables')
<1> SUFFICES ASSUME NEW name \in Primary[table], NEW key \in keys
             PROVE  \E row \in tables'[table] : row[name] = key
  BY DEF Looks
<1>1. PICK row \in tables[table] : row[name] = key
  BY DEF Looks
<1>2. PICK new \in tables'[table] : SameKey(table, row, new)
  BY KeysGoOn
<1> QED BY <1>1, <1>2 DEF SameKey

\* Reading the current rows of a view is looking it up.
LEMMA ReadLooks ==
  ASSUME OneColumnKeys, Served, KeysStay, NEW s \in Sessions, ReadCurrent(s), Indexed(s)
  PROVE  Indexed(s)'
<1> DEFINE rule == request[s].def
           hinted == Hinted(rule)
<1>0. PICK v : v = hinted[step[s] + 1]
  OBVIOUS
<1> DEFINE view == rule[v]
           found == CurrentRows(view, payload[s], Recorded(payload[s], v), tables[view.table])
<1>1. Domains /\ Placed(s) /\ Rendered(s)
  BY DEF Served
<1>2. RuleTyped(rule) /\ BodyTyped(rule, request[s].body)
  BY <1>1, RequestIs
<1>3. /\ stage[s] = "read" /\ step[s] \in Nat /\ step[s] < Len(hinted)
      /\ request[s].method = "PATCH" /\ payload[s] = request[s].body
  BY <1>1 DEF ReadCurrent, Placed, Rendered
<1>4. /\ hinted \in Seq(DOMAIN rule) /\ Len(hinted) \in Nat /\ DOMAIN hinted = 1..Len(hinted)
      /\ \A j \in DOMAIN hinted : hinted[j] \in DOMAIN rule /\ Len(rule[hinted[j]].path) <= 1
  BY <1>2, HintedIs
<1>5. step[s] + 1 \in DOMAIN hinted
  <2>1. step[s] \in Nat /\ step[s] < Len(hinted) /\ Len(hinted) \in Nat /\ DOMAIN hinted = 1..Len(hinted)
    BY <1>3, <1>4
  <2> HIDE DEF hinted
  <2> QED BY <2>1
<1>6. v \in DOMAIN rule /\ Len(view.path) <= 1
  BY <1>0, <1>4, <1>5
<1>7. /\ index' = [index EXCEPT ![s][view.param] = IndexBy(view, found)]
      /\ IF step[s] + 1 < Len(hinted)
         THEN step' = [step EXCEPT ![s] = @ + 1] /\ UNCHANGED stage
         ELSE step' = [step EXCEPT ![s] = 0] /\ stage' = [stage EXCEPT ![s] = "allocate"]
      /\ UNCHANGED <<request, payload, tables>>
  BY <1>0 DEF ReadCurrent
<1>8. view.table \in DOMAIN Stored /\ view.param \in DOMAIN index[s] /\ s \in DOMAIN index
  <2>1. view.table \in DOMAIN Stored
    BY <1>2, <1>6, MetaIs
  <2>2. view.param \in DOMAIN index[s]
    BY <1>1, <1>6 DEF Placed, ParamsOf
  <2> QED BY <1>1, <2>1, <2>2 DEF Domains
<1>9. PICK name : Primary[view.table] = {name}
  BY <1>8 DEF OneColumnKeys
<1>10. PrimaryOf(view) = {name}
  BY <1>2, <1>6, <1>9, KeysOfView
<1>11. PICK rows : rows = found
  OBVIOUS
<1>12. \A row : row \in rows <=> row \in tables[view.table] /\
         \E i \in DOMAIN payload[s] : payload[s][i].view = v /\ payload[s][i].row[name] = row[name]
  <2>1. \A row : row \in rows <=> row \in tables[view.table] /\
          \E i \in Recorded(payload[s], v) : payload[s][i].row[name] = row[name]
    BY <1>10, <1>11 DEF CurrentRows
  <2> QED BY <2>1 DEF Recorded
<1>13. KeysAre(IndexBy(view, rows), rows, name)
  BY <1>2, <1>6, <1>9, IndexIs
<1> HIDE DEF found
<1>14. index'[s][view.param] = {row[name] : row \in rows}
  BY <1>7, <1>8, <1>11, <1>13 DEF KeysAre
<1>15. \A param \in DOMAIN index[s] : param # view.param => index'[s][param] = index[s][param]
  BY <1>7, <1>8
<1>16. (LookedUp(s, v))'
  <2>1. ASSUME NEW i \in DOMAIN request[s].body, request[s].body[i].view = v,
               NEW row \in Stored[view.table], row[name] = request[s].body[i].row[name]
        PROVE  row[name] \in index'[s][view.param]
    <3>1. PICK new \in tables[view.table] : SameKey(view.table, row, new)
      BY <1>8 DEF KeysStay
    <3>2. new[name] = row[name]
      BY <1>9, <3>1 DEF SameKey
    <3>3. new \in rows
      BY <1>3, <1>12, <2>1, <3>2
    <3> QED BY <1>14, <3>2, <3>3
  <2>2. ASSUME NEW key \in index'[s][view.param] PROVE \E row \in tables[view.table] : row[name] = key
    BY <1>12, <1>14, <2>2
  <2>3. Looks(view.table, v, request[s].body, index'[s][view.param], tables)
    BY <1>9, <2>1, <2>2 DEF Looks
  <2> QED BY <1>7, <2>3 DEF LookedUp
<1>17. ASSUME NEW j \in DOMAIN hinted, stage'[s] = "read" => j <= step'[s]
       PROVE  j = step[s] + 1 \/ j <= step[s]
  <2>1. j \in 1..Len(hinted) /\ Len(hinted) \in Nat /\ step[s] \in Nat
    BY <1>3, <1>4
  <2>2. CASE step[s] + 1 < Len(hinted)
    <3>1. step'[s] = step[s] + 1 /\ stage'[s] = "read"
      BY <1>1, <1>3, <1>7, <2>2 DEF Domains
    <3>2. j <= step[s] + 1
      BY <1>17, <3>1
    <3> QED BY <2>1, <3>2
  <2>3. CASE ~(step[s] + 1 < Len(hinted))
    <3> HIDE DEF hinted
    <3> QED BY <2>1, <2>3
  <2> QED BY <2>2, <2>3
<1>18. ASSUME NEW j \in DOMAIN hinted, stage'[s] = "read" => j <= step'[s]
       PROVE  (LookedUp(s, hinted[j]))'
  <2>1. PICK u : u = hinted[j]
    OBVIOUS
  <2>2. CASE u = v
    BY <1>7, <1>16, <2>1, <2>2
  <2>3. CASE u # v
    <3>1. j # step[s] + 1
      BY <1>0, <2>1, <2>3
    <3>2. LookedUp(s, u)
      BY <1>3, <1>17, <1>18, <2>1, <3>1 DEF Indexed
    <3>3. u \in DOMAIN rule /\ Len(rule[u].path) <= 1
      BY <1>4, <2>1
    <3>4. rule[u].param # view.param
      BY <1>2, <1>6, <2>3, <3>3 DEF RuleTyped
    <3>5. index'[s][rule[u].param] = index[s][rule[u].param]
      BY <1>1, <1>15, <3>3, <3>4 DEF Placed, ParamsOf
    <3>6. (LookedUp(s, u))'
      BY <1>7, <3>2, <3>5 DEF LookedUp
    <3> QED BY <1>7, <2>1, <3>6
  <2> QED BY <2>2, <2>3
<1> HIDE DEF rule
<1> QED BY <1>7, <1>18 DEF Indexed, rule

\* Steps that look nothing up, of this session or another.
LEMMA IndexStays ==
  ASSUME Served, [Next]_vars, NEW s \in Sessions, Indexed(s),
         request'[s] = request[s], index'[s] = index[s],
         stage'[s] = "read" => stage[s] = "read" /\ step'[s] = step[s],
         stage[s] = "read" => stage'[s] = "read"
  PROVE  Indexed(s)'
<1> DEFINE rule == request[s].def
<1>1. RuleTyped(rule)
  BY RequestIs DEF Served
<1> SUFFICES ASSUME request[s].method = "PATCH", NEW j \in DOMAIN Hinted(rule),
                    stage[s] = "read" => j <= step[s]
             PROVE  (LookedUp(s, Hinted(rule)[j]))'
  <2> HIDE DEF rule
  <2> QED BY DEF Indexed, rule
<1>2. PICK v : v = Hinted(rule)[j]
  OBVIOUS
<1>3. v \in DOMAIN rule
  BY <1>1, <1>2, HintedIs
<1>4. rule[v].table \in DOMAIN Stored
  BY <1>1, <1>3, MetaIs
<1>5. LookedUp(s, v)
  BY <1>2 DEF Indexed
<1>6. PICK body, keys : body = request[s].body /\ keys = index[s][rule[v].param]
  OBVIOUS
<1>7. Looks(rule[v].table, v, body, keys, tables')
  <2>1. Looks(rule[v].table, v, body, keys, tables)
    BY <1>5, <1>6 DEF LookedUp
  <2> QED BY <1>4, <2>1, LooksOn
<1>8. (LookedUp(s, v))'
  BY <1>6, <1>7 DEF LookedUp
<1> QED BY <1>2, <1>8

\* What is known of lookups, step by step.
Lookups == KeysStay /\ \A s \in Sessions : Indexed(s)

\* A patch starts by reading, and nothing is looked up.
LEMMA LookupsInit == Init => Lookups
<1> SUFFICES ASSUME Init PROVE Lookups
  OBVIOUS
<1>1. KeysStay
  BY DEF Init, KeysStay, SameKey
<1>2. ASSUME NEW s \in Sessions, request[s].method = "PATCH", NEW j \in DOMAIN Hinted(request[s].def),
             stage[s] = "read" => j <= step[s]
      PROVE  FALSE
  <2>1. stage[s] = "read" /\ step[s] = 0
    BY <1>2 DEF Init
  <2>2. request[s] \in Requests
    BY DEF Init
  <2>3. Hinted(request[s].def) \in Seq(DOMAIN request[s].def)
    BY <2>2, RequestsAssumption, HintedIs
  <2>4. j >= 1
    BY <1>2, <2>3
  <2>5. j \in Nat /\ j <= 0
    BY <1>2, <2>1, <2>3
  <2> QED BY <2>4, <2>5
<1> QED BY <1>1, <1>2 DEF Lookups, Indexed

\* No step makes it less.
LEMMA LookupsNext == OneColumnKeys /\ Served /\ Lookups /\ [Next]_vars => Lookups'
<1> SUFFICES ASSUME OneColumnKeys, Served, Lookups, [Next]_vars PROVE Lookups'
  OBVIOUS
<1>1. KeysStay'
  BY KeysStayNext DEF Lookups
<1>2. ASSUME NEW t \in Sessions PROVE Indexed(t)'
  <2>1. Indexed(t) /\ KeysStay
    BY DEF Lookups
  <2>2. CASE UNCHANGED vars
    BY <2>1, <2>2, IndexStays DEF vars
  <2>3. CASE \E s \in Sessions : Serve(s) /\ s # t
    <3>1. request' = request /\ Stays(t)
      BY <2>3, OthersStay DEF Served
    <3> QED BY <2>1, <3>1, IndexStays DEF Stays
  <2>4. CASE ReadCurrent(t)
    BY <2>1, <2>4, ReadLooks
  <2>5. CASE AllocateIds(t)
    <3>1. stage[t] = "allocate" /\ stage'[t] # "read" /\ UNCHANGED <<request, index>>
      BY <2>5, AllocationStep DEF AllocateIds
    <3> QED BY <2>1, <3>1, IndexStays
  <2>6. CASE Render(t)
    <3>1. stage[t] = "allocate" /\ stage'[t] = "execute" /\ UNCHANGED <<request, index>>
      BY <2>6, RenderStep
    <3> QED BY <2>1, <3>1, IndexStays
  <2>7. CASE Execute(t)
    <3>1. stage[t] = "execute" /\ stage'[t] = "answered" /\ UNCHANGED <<request, index>>
      BY <2>7, ExecuteStep
    <3> QED BY <2>1, <3>1, IndexStays
  <2> QED BY <2>2, <2>3, <2>4, <2>5, <2>6, <2>7 DEF Next, Serve, Finished
<1> QED BY <1>1, <1>2 DEF Lookups

\* What was made by a patch was made when its views had been looked up.
LEMMA MadeAfterLooking ==
  ASSUME Served, Lookups, NEW s \in Sessions, request[s].method = "PATCH", NEW i \in DOMAIN made[s]
  PROVE  Looks(ViewOf(s, i).table, payload[s][i].view, request[s].body, index[s][ViewOf(s, i).param], tables)
<1>1. Placed(s) /\ Rendered(s)
  BY DEF Served
<1>2. i \in DOMAIN payload[s] /\ payload[s][i].view \in DOMAIN request[s].def
  BY <1>1, MadeStated, RequestIs
<1>3. stage[s] # "read"
  <2>1. stage[s] = "read" => DOMAIN made[s] = {}
    BY <1>1 DEF Rendered
  <2> QED BY <2>1
<1>4. PICK j \in DOMAIN Hinted(request[s].def) : Hinted(request[s].def)[j] = payload[s][i].view
  <2>1. payload[s][i].view \in ToSet(Hinted(request[s].def))
    BY <1>1, <1>2 DEF Placed, Generates
  <2> QED BY <2>1 DEF ToSet
<1>5. LookedUp(s, payload[s][i].view)
  BY <1>3, <1>4 DEF Lookups, Indexed
<1> QED BY <1>5 DEF LookedUp, ViewOf

\* An insert of a patch is of a key that no row had.
LEMMA InsertsUnknown ==
  ASSUME OneColumnKeys, Served, Ids, Lookups,
         NEW s \in Sessions, request[s].method = "PATCH", NEW i \in DOMAIN made[s], made[s][i].op = "insert",
         NEW row \in Stored[made[s][i].table]
  PROVE  ~SameKey(made[s][i].table, row, made[s][i].row)
<1> DEFINE view == ViewOf(s, i)
<1>1. Placed(s) /\ Rendered(s)
  BY DEF Served
<1>2. /\ i \in DOMAIN payload[s] /\ made[s][i].table = view.table /\ made[s][i].row = Now(s, i)
      /\ view.table \in DOMAIN Stored /\ payload[s][i].view \in DOMAIN request[s].def
      /\ RuleTyped(request[s].def)
      /\ Alike(request[s].def, request[s].body, payload[s])
  BY <1>1, MadeStated, RequestIs DEF Placed
<1>3. PICK name : Primary[view.table] = {name}
  BY <1>2 DEF OneColumnKeys
<1>4. PrimaryOf(view) = {name} /\ name \in NamesOf(view)
  BY <1>2, <1>3, KeysOfView DEF ViewOf
<1>5. ~HasKey(index[s], view, payload[s][i]) /\ AsAsked(s, i)
  BY <1>1 DEF Rendered, MadeAt
<1>6. Now(s, i)[name] \notin index[s][view.param]
  BY <1>4, <1>5 DEF HasKey, Now
<1>7. Looks(view.table, payload[s][i].view, request[s].body, index[s][view.param], tables)
  BY MadeAfterLooking
<1>8. i \in DOMAIN request[s].body /\ request[s].body[i].view = payload[s][i].view
  BY <1>2 DEF Alike
<1>9. CASE Now(s, i)[name] = Asked(s, i)[name]
  <2>1. row[name] = Asked(s, i)[name] => row[name] \in index[s][view.param]
    BY <1>2, <1>3, <1>7, <1>8 DEF Looks, Asked
  <2> QED BY <1>2, <1>3, <1>6, <1>9, <2>1 DEF SameKey
<1>10. CASE Now(s, i)[name] # Asked(s, i)[name]
  <2>1. name \in AutoAt(s, i)
    BY <1>4, <1>5, <1>10 DEF AsAsked, AutoAt
  <2>2. Now(s, i)[name] \in FirstId .. sequences[view.table] - 1
    BY <1>2, <1>10, <2>1 DEF Ids, Numbered
  <2>3. row[name] \in 0 .. FirstId - 1 /\ FirstId \in Nat
    BY <1>2, <2>1, SchemaAssumption DEF SchemaAssumption, AutoAt
  <2>4. row[name] # Now(s, i)[name]
    BY <2>2, <2>3
  <2> QED BY <1>2, <1>3, <2>4 DEF SameKey
<1> QED BY <1>9, <1>10

\* appendSQLWithRelations, HasKey: a patch updates what was there.
THEOREM KnownAreUpdated ==
  ASSUME OneColumnKeys
  PROVE  Spec => []KnownUpdated
<1>1. Init => Served /\ Ids /\ Lookups
  BY ServedInit, IdsInit, LookupsInit
<1>2. (Served /\ Ids /\ Lookups) /\ [Next]_vars => (Served /\ Ids /\ Lookups)'
  BY ServedNext, IdsNext, LookupsNext
<1>3. Served /\ Ids /\ Lookups => KnownUpdated
  BY InsertsUnknown DEF KnownUpdated
<1> QED BY <1>1, <1>2, <1>3, PTL DEF Spec

\* A row has what a record has for its table, field by field, or what another of its key has.
HasAll(s, table, i, row) ==
  /\ SameKey(table, row, Now(s, i))
  /\ \A name \in payload[s][i].has : \E k \in DOMAIN payload[s] :
       /\ ViewOf(s, k).table = table /\ SameKey(table, row, Now(s, k))
       /\ name \in DOMAIN Now(s, k) /\ row[name] = Now(s, k)[name]

\* The fields a body has are fields of its view.
LEMMA HasNames ==
  ASSUME NEW s \in Sessions, Placed(s), NEW i \in DOMAIN payload[s]
  PROVE  payload[s][i].has \subseteq NamesOf(ViewOf(s, i)) /\ DOMAIN Now(s, i) = NamesOf(ViewOf(s, i))
<1>1. BodyTyped(request[s].def, request[s].body) /\ Alike(request[s].def, request[s].body, payload[s])
  BY RequestIs DEF Placed
<1>2. i \in DOMAIN request[s].body /\ payload[s][i].has = request[s].body[i].has
      /\ payload[s][i].view = request[s].body[i].view
  BY <1>1 DEF Alike
<1>3. request[s].body[i].has \subseteq NamesOf(request[s].def[request[s].body[i].view])
  BY <1>1, <1>2 DEF BodyTyped
<1> QED BY <1>2, <1>3, RequestIs DEF ViewOf, Now

\* It is there once the statement of the record was executed.
LEMMA RowMade ==
  ASSUME Served, Lookups, OneColumnKeys, NEW s \in Sessions, request[s].method = "PATCH",
         NEW n \in Nat, DOMAIN made[s] = 1..n, NEW i \in 1..n, payload[s][i].in = 0,
         NEW t, NEW after, Went(t, n, tables, made[s], after)
  PROVE  \E row \in t[i][ViewOf(s, i).table] : HasAll(s, ViewOf(s, i).table, i, row)
<1>1. Placed(s) /\ Rendered(s)
  BY DEF Served
<1>2. PICK rule, r, st, table : /\ rule = request[s].def /\ r = payload[s][i] /\ st = made[s][i]
                                /\ table = ViewOf(s, i).table
  OBVIOUS
<1>3. /\ i \in DOMAIN payload[s] /\ Stated(st) /\ st.table = table /\ st.row = Now(s, i)
      /\ st.op = "insert" \/ UpdateOf(rule, r, st)
  BY <1>1, <1>2, MadeStated
<1>4. r.has \subseteq NamesOf(ViewOf(s, i)) /\ DOMAIN st.row = NamesOf(ViewOf(s, i))
  BY <1>1, <1>2, <1>3, HasNames
<1>5. i - 1 \in 0..n /\ i \in 0..n
  OBVIOUS
<1>6. Rows(t[i - 1]) /\ Stepped(t[i - 1], t[i], st)
  BY <1>2, <1>5 DEF Went
<1>7. ASSUME NEW row, SameKey(table, row, st.row), \A name \in r.has : row[name] = st.row[name]
      PROVE  HasAll(s, table, i, row)
  BY <1>2, <1>3, <1>4, <1>7 DEF HasAll
<1>8. CASE st.op = "insert"
  <2>1. Complete(st) \in t[i][table]
    BY <1>3, <1>6, <1>8 DEF Stepped
  <2>2. \A name \in DOMAIN st.row : Complete(st)[name] = st.row[name]
    BY <1>3, CompleteIs
  <2>3. SameKey(table, Complete(st), st.row)
    BY <1>3, <2>2 DEF SameKey, Stated
  <2>4. HasAll(s, table, i, Complete(st))
    BY <1>4, <1>7, <2>2, <2>3
  <2> QED BY <1>2, <2>1, <2>4
<1>9. CASE st.op = "update" /\ UpdateOf(rule, r, st)
  <2>1. PICK name : Primary[table] = {name}
    BY <1>3 DEF OneColumnKeys, Stated
  <2>2. /\ RuleTyped(rule) /\ r.view \in DOMAIN rule /\ ViewOf(s, i) = rule[r.view]
        /\ BodyTyped(rule, request[s].body) /\ Alike(rule, request[s].body, payload[s])
    BY <1>1, <1>2, <1>3, RequestIs DEF ViewOf, Placed
  <2>3. HasKey(index[s], ViewOf(s, i), r)
    BY <1>1, <1>2, <1>9 DEF Rendered, MadeAt
  <2>4. PrimaryOf(ViewOf(s, i)) = {name}
    <3>1. PrimaryOf(rule[r.view]) = Primary[rule[r.view].table]
      BY <2>2, KeysOfView
    <3> QED BY <1>2, <2>1, <2>2, <3>1, Zenon
  <2>5. st.row[name] \in index[s][ViewOf(s, i).param]
    BY <1>2, <1>3, <2>3, <2>4 DEF HasKey, Now
  <2>6. Looks(table, r.view, request[s].body, index[s][ViewOf(s, i).param], tables)
    BY <1>2, MadeAfterLooking
  <2>7. PICK one \in tables[table] : one[name] = st.row[name]
    BY <2>1, <2>5, <2>6 DEF Looks
  <2>8. SameKey(table, st.row, one)
    BY <2>1, <2>7 DEF SameKey
  <2>9. \E other \in t[i - 1][table] : SameKey(table, st.row, other)
    <3>1. PICK all, statements, key : all = tables /\ statements = made[s] /\ key = st.row
      OBVIOUS
    <3>2. \A k \in 1..n : Stated(statements[k])
      BY <1>1, <3>1, MadeStated
    <3>3. table \in DOMAIN Stored
      BY <1>3 DEF Stated
    <3>4. \E other \in all[table] : SameKey(table, key, other)
      BY <2>8, <3>1
    <3>5. \A k \in 0..n : \E other \in t[k][table] : SameKey(table, key, other)
      BY <3>1, <3>2, <3>3, <3>4, KeysStayed
    <3> QED BY <1>5, <3>1, <3>5
  <2>10. PICK old \in t[i - 1][table] : SameKey(table, st.row, old)
    BY <2>9
  <2>11. rule[r.view].path = <<>>
    <3>1. i \in DOMAIN request[s].body /\ request[s].body[i].in = 0 /\ request[s].body[i].view = r.view
      BY <1>2, <1>3, <2>2 DEF Alike
    <3> QED BY <2>2, <3>1 DEF BodyTyped
  <2>12. Found(old, st)
    BY <1>2, <1>9, <2>2, <2>10, <2>11 DEF UpdateOf, Found, SameKey
  <2>13. table \in DOMAIN Stored /\ old = [c \in ColumnsOf(table) |-> old[c]]
    BY <1>3, <1>6, <2>10 DEF Rows, RowsOf, Stated
  <2> DEFINE new == Updated(old, st)
  <2>14. new \in t[i][table]
    BY <1>3, <1>6, <1>9, <2>10, <2>12, <2>13 DEF Stepped
  <2>15. /\ SameKey(table, old, new)
         /\ \A c \in ColumnsOf(table) : new[c] = IF c \in st.set THEN st.row[c] ELSE old[c]
    BY <1>3, <1>9, <2>12, <2>13, UpdatedKey
  <2> HIDE DEF new
  <2>16. \A c \in r.has : new[c] = st.row[c]
    <3>1. \A c \in r.has : c \in ColumnsOf(table) /\ c \in st.set
      BY <1>2, <1>3, <1>4, <1>9, <2>2 DEF UpdateOf, Stated
    <3> QED BY <2>15, <3>1
  <2>17. SameKey(table, new, st.row)
    BY <2>10, <2>15 DEF SameKey
  <2> QED BY <1>2, <1>7, <2>14, <2>16, <2>17
<1> QED BY <1>3, <1>8, <1>9 DEF Stated

\* Statements after it leave the row, or set its fields to what another record of its key has.
LEMMA RowGoesOn ==
  ASSUME Served, NEW s \in Sessions, NEW n \in Nat, DOMAIN made[s] = 1..n, NEW i \in 1..n,
         NEW t, NEW after, Went(t, n, tables, made[s], after),
         NEW table \in DOMAIN Stored, \E row \in t[i][table] : HasAll(s, table, i, row)
  PROVE  \E row \in after[table] : HasAll(s, table, i, row)
<1> DEFINE good == {k \in 0..n : k >= i => \E row \in t[k][table] : HasAll(s, table, i, row)}
<1>1. Placed(s) /\ Rendered(s)
  BY DEF Served
<1>2. 0 \in good
  OBVIOUS
<1>3. ASSUME NEW k \in 1..n, k - 1 \in good PROVE k \in good
  <2>1. CASE k = i
    BY <2>1
  <2>2. CASE k < i
    BY <2>2
  <2>3. CASE k > i
    <3>1. PICK row \in t[k - 1][table] : HasAll(s, table, i, row)
      BY <1>3, <2>3
    <3>2. k - 1 \in 0..n
      OBVIOUS
    <3>3. PICK rule, r, st : rule = request[s].def /\ r = payload[s][k] /\ st = made[s][k]
      OBVIOUS
    <3>4. Rows(t[k - 1]) /\ Stepped(t[k - 1], t[k], st)
      BY <3>2, <3>3 DEF Went
    <3>5. /\ k \in DOMAIN payload[s] /\ Stated(st) /\ st.table = ViewOf(s, k).table /\ st.row = Now(s, k)
          /\ st.op = "insert" \/ UpdateOf(rule, r, st)
          /\ DOMAIN st.row = NamesOf(rule[r.view])
      BY <1>1, <3>3, MadeStated, HasNames DEF ViewOf
    <3>6. row = [c \in ColumnsOf(table) |-> row[c]]
      BY <3>1, <3>4 DEF Rows, RowsOf
    <3>7. CASE st.op = "update" /\ table = st.table /\ Found(row, st)
      <4> DEFINE new == Updated(row, st)
      <4>1. new \in t[k][table]
        BY <3>1, <3>4, <3>7 DEF Stepped
      <4>2. /\ SameKey(table, row, new)
            /\ \A c \in ColumnsOf(table) : new[c] = IF c \in st.set THEN st.row[c] ELSE row[c]
        BY <3>5, <3>6, <3>7, UpdatedKey
      <4> HIDE DEF new
      <4>3. SameKey(table, new, Now(s, k))
        <5>1. SameKey(table, row, st.row)
          BY <3>5, <3>7 DEF Found, Stated, SameKey
        <5> QED BY <3>5, <4>2, <5>1 DEF SameKey
      <4>4. SameKey(table, new, Now(s, i))
        BY <3>1, <4>2 DEF SameKey, HasAll
      <4>5. ASSUME NEW name \in payload[s][i].has
            PROVE \E j \in DOMAIN payload[s] :
                    /\ ViewOf(s, j).table = table /\ SameKey(table, new, Now(s, j))
                    /\ name \in DOMAIN Now(s, j) /\ new[name] = Now(s, j)[name]
        <5>1. PICK j \in DOMAIN payload[s] :
                /\ ViewOf(s, j).table = table /\ SameKey(table, row, Now(s, j))
                /\ name \in DOMAIN Now(s, j) /\ row[name] = Now(s, j)[name]
          BY <3>1 DEF HasAll
        <5>2. name \in ColumnsOf(table)
          <6>1. RuleTyped(request[s].def) /\ payload[s][j].view \in DOMAIN request[s].def
            BY <1>1, <5>1, RequestIs
          <6>2. DOMAIN Now(s, j) = NamesOf(ViewOf(s, j))
            BY <1>1, <5>1, HasNames
          <6> QED BY <5>1, <6>1, <6>2, KeysOfView DEF ViewOf
        <5>3. CASE name \in st.set
          <6>1. new[name] = Now(s, k)[name]
            BY <3>5, <4>2, <5>2, <5>3
          <6>2. name \in DOMAIN Now(s, k)
            BY <3>5, <3>7, <5>3 DEF UpdateOf
          <6> QED BY <3>5, <3>7, <4>3, <6>1, <6>2
        <5>4. CASE name \notin st.set
          <6>1. new[name] = row[name]
            BY <4>2, <5>2, <5>4
          <6>2. SameKey(table, new, Now(s, j))
            BY <4>2, <5>1 DEF SameKey
          <6> QED BY <5>1, <6>1, <6>2
        <5> QED BY <5>3, <5>4
      <4>6. HasAll(s, table, i, new)
        BY <4>4, <4>5 DEF HasAll
      <4> QED BY <4>1, <4>6
    <3>8. CASE ~(st.op = "update" /\ table = st.table /\ Found(row, st))
      <4>1. row \in t[k][table]
        BY <3>1, <3>4, <3>8 DEF Stepped
      <4> QED BY <3>1, <4>1
    <3> QED BY <3>7, <3>8
  <2> QED BY <2>1, <2>2, <2>3
<1>4. n \in good
  <2> HIDE DEF good
  <2> QED BY <1>2, <1>3, Inductive
<1>5. t[n] = after
  BY DEF Went
<1> QED BY <1>4, <1>5

\* What a patch asked for at its top is done.
LEMMA StepPatches ==
  ASSUME OneColumnKeys, Served, Lookups, [Next]_vars,
         NEW s \in Sessions, Commits(s), request[s].method = "PATCH",
         NEW i \in DOMAIN payload[s], payload[s][i].in = 0
  PROVE  \E row \in tables'[ViewOf(s, i).table] : HasAll(s, ViewOf(s, i).table, i, row)
<1>1. Placed(s)
  BY DEF Served
<1>2. PICK n \in Nat : /\ DOMAIN made[s] = 1..n /\ DOMAIN payload[s] = 1..n
                       /\ \E t : Went(t, n, tables, made[s], tables')
  BY CommitWent
<1>3. PICK after : after = tables'
  OBVIOUS
<1>4. PICK t : Went(t, n, tables, made[s], after)
  BY <1>2, <1>3
<1>5. PICK table : table = ViewOf(s, i).table
  OBVIOUS
<1>6. table \in DOMAIN Stored
  BY <1>1, <1>5, RequestIs
<1>7. \E row \in t[i][table] : HasAll(s, table, i, row)
  BY <1>2, <1>4, <1>5, RowMade
<1>8. \E row \in after[table] : HasAll(s, table, i, row)
  BY <1>2, <1>4, <1>6, <1>7, RowGoesOn
<1> QED BY <1>3, <1>5, <1>8

\* patchStmtBuilder.build: a patch that is answered ok did what it was asked for.
THEOREM PatchesAreDone ==
  ASSUME OneColumnKeys
  PROVE  Spec => PatchDone
<1>1. Init => Served /\ Lookups
  BY ServedInit, LookupsInit
<1>2. (Served /\ Lookups) /\ [Next]_vars => (Served /\ Lookups)'
  BY ServedNext, LookupsNext
<1>3. Served /\ Lookups /\ [Next]_vars =>
        [\A s \in Sessions : Commits(s) /\ request[s].method = "PATCH" =>
           \A i \in DOMAIN payload[s] : payload[s][i].in = 0 =>
             LET table == ViewOf(s, i).table
             IN \E row \in tables'[table] :
                  /\ SameKey(table, row, Now(s, i))
                  /\ \A name \in payload[s][i].has : \E k \in DOMAIN payload[s] :
                       /\ ViewOf(s, k).table = table /\ SameKey(table, row, Now(s, k))
                       /\ name \in DOMAIN Now(s, k) /\ row[name] = Now(s, k)[name]]_vars
  BY StepPatches DEF HasAll
<1> QED BY <1>1, <1>2, <1>3, PTL DEF Spec, PatchDone
=============================================================================
