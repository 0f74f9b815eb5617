--------------------------- MODULE DocumentProofs ---------------------------
(***************************************************************************)
(* The document of any routes: whatever is met again, in whatever order,   *)
(* what a place has, or refers to by name, is what belongs there, or       *)
(* another of the same name. Nothing is assumed of names.                  *)
(*                                                                         *)
(* A name of parameters is lost, unless those that are kept under it are   *)
(* those that are looked for by it: what moves to the components under a   *)
(* lost name may be taken for another. A place that is not reached by a    *)
(* lost name keeps what it has, whatever is placed later (Held, Grows),    *)
(* though that may move to the components. So it is enough to know of each *)
(* place what it had when it was made. Parameters and routes are gone      *)
(* through by folds, which are first shown to be runs through states.      *)
(***************************************************************************)
EXTENDS Document, FiniteSetTheorems, SequenceTheorems, WellFoundedInduction, TLAPS

-----------------------------------------------------------------------------
(* Folds.                                                                   *)

\* What starts at zero and goes on gets to the end.
LEMMA Inductive ==
  ASSUME NEW n \in Nat, NEW S, 0 \in S, \A i \in 1..n : i - 1 \in S => i \in S
  PROVE  \A i \in 0..n : i \in S
<1> SUFFICES ASSUME NEW k \in 0..n, k \notin S PROVE FALSE
  OBVIOUS
<1> DEFINE T == {i \in Nat : i \notin S}
<1>1. PICK less : less = {ss \in Nat \X Nat : ss[1] < ss[2]}
  OBVIOUS
<1>2. IsWellFoundedOn(less, Nat)
  BY <1>1, NatLessThanWellFounded, Zenon DEF OpToRel
<1>3. T \subseteq Nat /\ k \in T
  OBVIOUS
<1> HIDE DEF T
<1>4. PICK x \in T : \A y \in T : ~(<<y, x>> \in less)
  BY <1>2, <1>3, WFMin, Zenon
<1>5. \A y \in Nat : y < x => y \notin T
  BY <1>1, <1>3, <1>4
<1>6. x \in Nat /\ x \notin S /\ x <= k
  BY <1>3, <1>5 DEF T
<1>7. x # 0 /\ x - 1 \in Nat /\ x - 1 < x
  BY <1>6
<1>8. x - 1 \in S
  BY <1>5, <1>7 DEF T
<1> QED BY <1>6, <1>7, <1>8

\* The greatest of some positions is one of them.
LEMMA GreatestIs ==
  ASSUME NEW n \in Nat
  PROVE  \A S \in SUBSET (1..n) : S # {} => Max(S) \in S /\ \A y \in S : Max(S) >= y
<1> DEFINE Bounded(k) == \A S \in SUBSET (1..k) : S # {} => \E x \in S : \A y \in S : x >= y
           good == {k \in 0..n : Bounded(k)}
<1>1. 0 \in good
  <2>1. SUBSET (1..0) = {{}}
    OBVIOUS
  <2>2. Bounded(0)
    BY <2>1
  <2> HIDE DEF Bounded
  <2> QED BY <2>2
<1>2. ASSUME NEW k \in 1..n, k - 1 \in good PROVE k \in good
  <2> SUFFICES ASSUME NEW S \in SUBSET (1..k), S # {} PROVE \E x \in S : \A y \in S : x >= y
    OBVIOUS
  <2>1. CASE k \in S
    BY <2>1
  <2>2. CASE k \notin S
    <3>1. S \in SUBSET (1..(k - 1))
      BY <2>2
    <3> QED BY <1>2, <3>1
  <2> QED BY <2>1, <2>2
<1>3. n \in good
  <2> HIDE DEF good
  <2> QED BY <1>1, <1>2, Inductive
<1>4. Bounded(n)
  BY <1>3
<1> QED BY <1>4, Zenon DEF Max

\* What ConvertAll and GeneratePaths do with one of their items.
Further(of, done, item) ==
  CASE of.kind = "params" -> ConvertParam(done, of.route, item)
    [] of.kind = "routes" -> GenerateOperation(done, item)

\* The function a fold of items is made with, by what it is for the sets of the first ones.
IsFold(fold, of, base, items) ==
  fold = [S \in SUBSET DOMAIN items |->
            IF S = {} THEN base ELSE Further(of, fold[S \ {Max(S)}], items[Max(S)])]

\* There is such a function, whatever is folded.
LEMMA FoldExists ==
  ASSUME NEW of, NEW base, NEW n \in Nat, NEW items, DOMAIN items = 1..n
  PROVE  \E fold : IsFold(fold, of, base, items)
<1> DEFINE Is(it, k) == \A S \in SUBSET (1..k) :
             it[S] = IF S = {} THEN base ELSE Further(of, it[S \ {Max(S)}], items[Max(S)])
           good == {k \in 0..n : \E it : Is(it, k)}
<1>1. 0 \in good
  <2> DEFINE it == [S \in SUBSET (1..0) |-> base]
  <2>1. SUBSET (1..0) = {{}}
    OBVIOUS
  <2>2. \A S \in SUBSET (1..0) : S = {} /\ it[S] = base
    BY <2>1
  <2> HIDE DEF it
  <2>3. Is(it, 0)
    BY <2>2
  <2> HIDE DEF Is
  <2> QED BY <2>3
<1>2. ASSUME NEW k \in 1..n, k - 1 \in good PROVE k \in good
  <2>1. PICK f : Is(f, k - 1)
    BY <1>2
  <2> DEFINE it == [S \in SUBSET (1..k) |->
                      IF k \in S THEN Further(of, f[S \ {k}], items[k]) ELSE f[S]]
  <2>2. \A S \in SUBSET (1..k) : /\ k \in S => S \ {k} \in SUBSET (1..(k - 1))
                                 /\ k \notin S => S \in SUBSET (1..(k - 1))
    OBVIOUS
  <2>3. \A S \in SUBSET (1..(k - 1)) : S \in SUBSET (1..k) /\ k \notin S
    OBVIOUS
  <2>4. \A S \in SUBSET (1..k) :
          it[S] = IF k \in S THEN Further(of, f[S \ {k}], items[k]) ELSE f[S]
    OBVIOUS
  <2> HIDE DEF it
  <2>5. ASSUME NEW S \in SUBSET (1..k)
        PROVE  it[S] = IF S = {} THEN base ELSE Further(of, it[S \ {Max(S)}], items[Max(S)])
    <3>1. CASE k \in S
      <4>1. Max(S) = k
        <5>0. k \in Nat /\ S # {}
          BY <3>1
        <5>1. Max(S) \in S /\ \A y \in S : Max(S) >= y
          BY <5>0, GreatestIs
        <5>2. Max(S) \in 1..k /\ Max(S) >= k
          BY <3>1, <5>1
        <5> QED BY <5>1, <5>2
      <4>2. S \ {k} \in SUBSET (1..k) /\ k \notin S \ {k} /\ S # {}
        BY <3>1
      <4>3. it[S] = Further(of, f[S \ {k}], items[k]) /\ it[S \ {k}] = f[S \ {k}]
        BY <2>4, <3>1, <4>2
      <4> QED BY <4>1, <4>2, <4>3
    <3>2. CASE k \notin S
      <4>1. S \in SUBSET (1..(k - 1)) /\ it[S] = f[S]
        BY <2>2, <2>4, <3>2
      <4>2. S \ {Max(S)} \in SUBSET (1..(k - 1)) /\ it[S \ {Max(S)}] = f[S \ {Max(S)}]
        <5>1. S \ {Max(S)} \in SUBSET (1..(k - 1))
          BY <4>1
        <5> QED BY <2>3, <2>4, <5>1
      <4> QED BY <2>1, <4>1, <4>2
    <3> QED BY <3>1, <3>2
  <2>6. Is(it, k)
    BY <2>5
  <2> HIDE DEF Is
  <2> QED BY <2>6
<1>3. PICK it : Is(it, n)
  <2>1. \A i \in 0..n : i \in good
    <3> HIDE DEF good
    <3> QED BY <1>1, <1>2, Inductive
  <2> HIDE DEF Is
  <2> QED BY <2>1
<1> DEFINE fold == [S \in SUBSET (1..n) |-> it[S]]
<1>4. \A S \in SUBSET (1..n) : S # {} => S \ {Max(S)} \in SUBSET (1..n)
  OBVIOUS
<1>5. IsFold(fold, of, base, items)
  BY <1>3, <1>4 DEF IsFold
<1> HIDE DEF fold
<1> QED BY <1>5

\* A run from what a fold starts with, item by item.
Runs(run, of, base, items) ==
  /\ run[0] = base
  /\ \A i \in DOMAIN items : run[i] = Further(of, run[i - 1], items[i])

\* A fold goes through its items in their order.
LEMMA FoldRuns ==
  ASSUME NEW of, NEW base, NEW n \in Nat, NEW items, DOMAIN items = 1..n,
         NEW fold, IsFold(fold, of, base, items)
  PROVE  \E run : Runs(run, of, base, items) /\ run[n] = fold[1..n]
<1>1. \A S \in SUBSET (1..n) :
        fold[S] = IF S = {} THEN base ELSE Further(of, fold[S \ {Max(S)}], items[Max(S)])
  BY DEF IsFold
<1> DEFINE run == [i \in 0..n |-> fold[1..i]]
<1>2. run[0] = base
  <2>1. 1..0 = {}
    OBVIOUS
  <2>2. fold[{}] = base
    <3>1. {} \in SUBSET (1..n)
      OBVIOUS
    <3> QED BY <1>1, <3>1, Zenon
  <2> QED BY <2>1, <2>2
<1>3. ASSUME NEW i \in 1..n PROVE run[i] = Further(of, run[i - 1], items[i])
  <2>1. 1..i \in SUBSET (1..n) /\ i \in 1..i /\ (1..i) \ {i} = 1..(i - 1)
    OBVIOUS
  <2>2. 1..i # {}
    BY <2>1
  <2>3. Max(1..i) = i
    <3>1. Max(1..i) \in 1..i /\ Max(1..i) >= i
      BY <2>1, <2>2, GreatestIs
    <3> QED BY <3>1
  <2>4. fold[1..i] = Further(of, fold[(1..i) \ {Max(1..i)}], items[Max(1..i)])
    BY <1>1, <2>1, <2>2, Zenon
  <2>5. run[i] = fold[1..i] /\ run[i - 1] = fold[1..(i - 1)]
    OBVIOUS
  <2> HIDE DEF run
  <2> QED BY <2>1, <2>3, <2>4, <2>5
<1>4. run[n] = fold[1..n]
  OBVIOUS
<1> HIDE DEF run
<1>5. Runs(run, of, base, items)
  BY <1>2, <1>3 DEF Runs
<1> QED BY <1>4, <1>5

\* The parameters of a route are converted one after another.
Converts(run, n, acc, route) ==
  /\ run[0] = acc
  /\ run[n] = ConvertAll(acc, route)
  /\ \A i \in 1..n : run[i] = ConvertParam(run[i - 1], route, ParamsOf(route)[i])

\* There are such states, for any parameters.
LEMMA ConvertRuns ==
  ASSUME NEW n \in Nat, NEW acc, NEW route, DOMAIN ParamsOf(route) = 1..n
  PROVE  \E run : Converts(run, n, acc, route)
<1> DEFINE of == [kind |-> "params", route |-> route]
           ps == ParamsOf(route)
           F(g) == [S \in SUBSET DOMAIN ps |->
                      IF S = {} THEN acc ELSE ConvertParam(g[S \ {Max(S)}], route, ps[Max(S)])]
<1>1. \A x, t : Further(of, x, t) = ConvertParam(x, route, t)
  BY DEF Further
<1>2. ConvertAll(acc, route) = (CHOOSE g : g = F(g))[DOMAIN ps]
  BY Zenon DEF ConvertAll, FoldLeft, MapThenFoldSet
<1>0. DOMAIN ps = 1..n
  OBVIOUS
<1> HIDE DEF of, ps
<1>3. PICK fold : IsFold(fold, of, acc, ps)
  BY <1>0, FoldExists
<1>4. \A g : IsFold(g, of, acc, ps) <=> g = F(g)
  BY <1>1 DEF IsFold
<1>5. PICK h : h = F(h) /\ ConvertAll(acc, route) = h[1..n]
  <2> HIDE DEF F
  <2> QED BY <1>0, <1>2, <1>3, <1>4, Zenon
<1>6. PICK run : Runs(run, of, acc, ps) /\ run[n] = h[1..n]
  <2>1. IsFold(h, of, acc, ps)
    BY <1>4, <1>5
  <2> QED BY <1>0, <2>1, FoldRuns
<1>7. \A i \in 1..n : run[i] = ConvertParam(run[i - 1], route, ps[i])
  <2>1. \A i \in 1..n : run[i] = Further(of, run[i - 1], ps[i])
    BY <1>0, <1>6 DEF Runs
  <2> QED BY <1>1, <2>1
<1>8. run[0] = acc /\ run[n] = ConvertAll(acc, route)
  BY <1>5, <1>6 DEF Runs
<1>9. Converts(run, n, acc, route)
  BY <1>7, <1>8 DEF ps, Converts
<1> QED BY <1>9

\* Routes are described one after another.
Generates(run, n, described) ==
  /\ run[0] = NoDocument
  /\ run[n] = GeneratePaths(described)
  /\ \A i \in 1..n : run[i] = GenerateOperation(run[i - 1], described[i])

\* There are such states, for any routes.
LEMMA GenerateRuns ==
  ASSUME NEW n \in Nat, NEW described, DOMAIN described = 1..n
  PROVE  \E run : Generates(run, n, described)
<1> DEFINE of == [kind |-> "routes"]
           F(g) == [S \in SUBSET DOMAIN described |->
                      IF S = {} THEN NoDocument ELSE GenerateOperation(g[S \ {Max(S)}], described[Max(S)])]
<1>1. \A x, t : Further(of, x, t) = GenerateOperation(x, t)
  BY DEF Further
<1>2. GeneratePaths(described) = (CHOOSE g : g = F(g))[DOMAIN described]
  BY Zenon DEF GeneratePaths, FoldLeft, MapThenFoldSet
<1> HIDE DEF of
<1>3. PICK fold : IsFold(fold, of, NoDocument, described)
  BY FoldExists
<1>4. \A g : IsFold(g, of, NoDocument, described) <=> g = F(g)
  BY <1>1 DEF IsFold
<1>5. PICK h : h = F(h) /\ GeneratePaths(described) = h[1..n]
  <2> HIDE DEF F
  <2> QED BY <1>2, <1>3, <1>4, Zenon
<1>6. PICK run : Runs(run, of, NoDocument, described) /\ run[n] = h[1..n]
  <2>1. IsFold(h, of, NoDocument, described)
    BY <1>4, <1>5
  <2> QED BY <2>1, FoldRuns
<1>7. \A i \in 1..n : run[i] = GenerateOperation(run[i - 1], described[i])
  <2>1. \A i \in 1..n : run[i] = Further(of, run[i - 1], described[i])
    BY <1>6 DEF Runs
  <2> QED BY <1>1, <2>1
<1>8. run[0] = NoDocument /\ run[n] = GeneratePaths(described)
  BY <1>5, <1>6 DEF Runs
<1>9. Generates(run, n, described)
  BY <1>7, <1>8 DEF Generates
<1> QED BY <1>9

-----------------------------------------------------------------------------
(* Heaps.                                                                   *)

\* The places of a heap are numbered from one.
IsHeap(h) == \E n \in Nat : DOMAIN h = 1..n /\ h = [k \in 1..n |-> h[k]]

\* A heap gets a place at its end.
LEMMA HeapAppend ==
  ASSUME NEW h, IsHeap(h), NEW c
  PROVE  /\ IsHeap(Append(h, c)) /\ Len(h) \in Nat /\ DOMAIN h = 1..Len(h)
         /\ Len(Append(h, c)) = Len(h) + 1 /\ DOMAIN Append(h, c) = 1..(Len(h) + 1)
         /\ Append(h, c)[Len(h) + 1] = c
         /\ \A k \in DOMAIN h : Append(h, c)[k] = h[k]
<1>1. PICK n \in Nat : DOMAIN h = 1..n /\ h = [k \in 1..n |-> h[k]]
  BY DEF IsHeap
<1> DEFINE T == {h[k] : k \in 1..n} \cup {c}
<1>2. h \in [1..n -> T] /\ c \in T
  BY <1>1
<1> HIDE DEF T
<1>3. h \in Seq(T) /\ Len(h) = n
  BY <1>2
<1>4. /\ Append(h, c) \in Seq(T) /\ Len(Append(h, c)) = n + 1 /\ DOMAIN Append(h, c) = 1..(n + 1)
      /\ Append(h, c)[n + 1] = c /\ \A k \in 1..n : Append(h, c)[k] = h[k]
  BY <1>2, <1>3
<1>5. PICK g : g = Append(h, c)
  OBVIOUS
<1>6. IsHeap(g)
  <2>1. g \in Seq(T) /\ Len(g) = n + 1 /\ DOMAIN g = 1..(n + 1)
    BY <1>4, <1>5
  <2>2. g \in [1..(n + 1) -> T]
    BY <2>1
  <2>3. n + 1 \in Nat /\ g = [k \in 1..(n + 1) |-> g[k]]
    BY <2>2
  <2> QED BY <2>1, <2>3 DEF IsHeap
<1> QED BY <1>1, <1>3, <1>4, <1>5, <1>6

-----------------------------------------------------------------------------
(* A part of a document: what is described under names, and moves. A name  *)
(* is lost when it is used for what is kept under another one, too.        *)

\* What is described is no reference.
NoRefs(means) == \A u \in means : ~IsRef(u[2])

\* Something is what a name may mean.
Meant(means, c) == \E n : <<n, c>> \in means

\* A name is for one place at most. One that is not lost is for a place, or in the components, and means
\* there what it may mean; references have the section of the part.
PartSound(part, section, means, lost) ==
  /\ IsHeap(part.heap)
  /\ \A n \in DOMAIN part.index : part.index[n] = None \/ part.index[n] \in DOMAIN part.heap
  /\ \A m, n \in DOMAIN part.index : m # n => part.index[m] # part.index[n] \/ part.index[m] = None
  /\ \A n \in DOMAIN part.index : n \notin lost =>
       \/ part.index[n] = None /\ n \in DOMAIN part.common
       \/ /\ part.index[n] \in DOMAIN part.heap /\ <<n, part.heap[part.index[n]]>> \in means
          /\ n \notin DOMAIN part.common
  /\ \A n \in DOMAIN part.common : n \notin lost => n \in DOMAIN part.index /\ <<n, part.common[n]>> \in means
  /\ \A k \in DOMAIN part.heap :
       IF IsRef(part.heap[k])
       THEN part.heap[k].section = section /\ (part.heap[k].ref \notin lost => part.heap[k].ref \in DOMAIN part.common)
       ELSE Meant(means, part.heap[k])

\* A place keeps what it has: no lost name is in it, nor leads to it when it is looked for.
Held(part, lost, sought, k) ==
  /\ k \in DOMAIN part.heap
  /\ IsRef(part.heap[k]) => part.heap[k].ref \notin lost
  /\ \A n \in DOMAIN part.index : n \in lost /\ n \in sought => part.index[n] # k

\* Places stay, and those that keep what they have still have it.
Grows(a, b, lost, sought) ==
  /\ DOMAIN a.heap \subseteq DOMAIN b.heap
  /\ \A k \in DOMAIN a.heap : Held(a, lost, sought, k) => Held(b, lost, sought, k) /\ Content(b, k) = Content(a, k)

\* What was in a place is still there.
LEMMA GrowsOn ==
  ASSUME NEW a, NEW b, NEW c, NEW lost, NEW sought, Grows(a, b, lost, sought), Grows(b, c, lost, sought)
  PROVE  Grows(a, c, lost, sought)
BY DEF Grows

\* A name that may mean more.
LEMMA MeansMore ==
  ASSUME NEW part, NEW section, NEW means, NEW more, NEW lost, PartSound(part, section, means, lost),
         means \subseteq more
  PROVE  PartSound(part, section, more, lost)
<1>1. \A c : Meant(means, c) => Meant(more, c)
  BY Zenon DEF Meant
<1> QED BY <1>1, Zenon DEF PartSound

\* A place without a lost name has something that is no reference.
LEMMA AllResolve ==
  ASSUME NEW part, NEW section, NEW means, NEW lost, PartSound(part, section, means, lost), NoRefs(means),
         NEW k \in DOMAIN part.heap, IsRef(part.heap[k]) => part.heap[k].ref \notin lost
  PROVE  Resolves(part, k) /\ Meant(means, Content(part, k))
<1>1. CASE ~IsRef(part.heap[k])
  <2>1. Content(part, k) = part.heap[k]
    BY <1>1 DEF Content
  <2>2. Meant(means, part.heap[k])
    BY <1>1, Zenon DEF PartSound
  <2> QED BY <1>1, <2>1, <2>2 DEF Resolves
<1>2. CASE IsRef(part.heap[k])
  <2>1. PICK n : n = part.heap[k].ref
    OBVIOUS
  <2>2. n \in DOMAIN part.common /\ <<n, part.common[n]>> \in means
    BY <1>2, <2>1, Zenon DEF PartSound
  <2>3. ~IsRef(part.common[n])
    <3>1. <<n, part.common[n]>>[2] = part.common[n]
      OBVIOUS
    <3> QED BY <2>2, <3>1 DEF NoRefs
  <2>4. Content(part, k) = part.common[n]
    BY <1>2, <2>1 DEF Content
  <2>5. Meant(means, Content(part, k))
    BY <2>2, <2>4 DEF Meant
  <2> QED BY <1>2, <2>1, <2>2, <2>3, <2>5 DEF Resolves
<1> QED BY <1>1, <1>2

\* What a part can have in a place.
Fits(part, section, means, lost, c) ==
  IF IsRef(c) THEN c.section = section /\ (c.ref \notin lost => c.ref \in DOMAIN part.common) ELSE Meant(means, c)

\* A place at the end of the others.
Placed(part, b, lost, sought, c) ==
  /\ Grows(part, b, lost, sought)
  /\ DOMAIN b.heap = DOMAIN part.heap \cup {Len(b.heap)} /\ b.heap[Len(b.heap)] = c

\* A place of its own.
LEMMA PlaceSound ==
  ASSUME NEW part, NEW section, NEW means, NEW lost, PartSound(part, section, means, lost), NEW sought,
         NEW c, Fits(part, section, means, lost, c), NEW b, b = Place(part, c)
  PROVE  /\ PartSound(b, section, means, lost) /\ Placed(part, b, lost, sought, c)
         /\ b.index = part.index /\ b.common = part.common
         /\ (IsRef(c) => c.ref \notin lost) => Held(b, lost, sought, Len(b.heap))
<1>1. b.heap = Append(part.heap, c) /\ b.index = part.index /\ b.common = part.common
  BY DEF Place
<1>2. IsHeap(part.heap)
  BY DEF PartSound
<1>3. /\ IsHeap(b.heap) /\ Len(b.heap) \in DOMAIN b.heap /\ b.heap[Len(b.heap)] = c
      /\ DOMAIN b.heap = DOMAIN part.heap \cup {Len(b.heap)}
      /\ Len(b.heap) \notin DOMAIN part.heap /\ Len(b.heap) # None
      /\ \A k \in DOMAIN part.heap : k \in DOMAIN b.heap /\ b.heap[k] = part.heap[k]
  BY <1>1, <1>2, HeapAppend DEF None
<1>4. PartSound(b, section, means, lost)
  <2>1. /\ \A n \in DOMAIN b.index : b.index[n] = None \/ b.index[n] \in DOMAIN b.heap
        /\ \A m, n \in DOMAIN b.index : m # n => b.index[m] # b.index[n] \/ b.index[m] = None
        /\ \A n \in DOMAIN b.common : n \notin lost => n \in DOMAIN b.index /\ <<n, b.common[n]>> \in means
    BY <1>1, <1>3 DEF PartSound
  <2>2. ASSUME NEW n \in DOMAIN b.index, n \notin lost
        PROVE  \/ b.index[n] = None /\ n \in DOMAIN b.common
               \/ /\ b.index[n] \in DOMAIN b.heap /\ <<n, b.heap[b.index[n]]>> \in means
                  /\ n \notin DOMAIN b.common
    <3>1. \/ part.index[n] = None /\ n \in DOMAIN part.common
          \/ /\ part.index[n] \in DOMAIN part.heap /\ <<n, part.heap[part.index[n]]>> \in means
             /\ n \notin DOMAIN part.common
      BY <1>1, <2>2 DEF PartSound
    <3> QED BY <1>1, <1>3, <3>1
  <2>3. \A k \in DOMAIN b.heap : Fits(b, section, means, lost, b.heap[k])
    <3>1. \A k \in DOMAIN part.heap : Fits(part, section, means, lost, part.heap[k])
      BY Zenon DEF PartSound, Fits
    <3>2. \A x : Fits(part, section, means, lost, x) => Fits(b, section, means, lost, x)
      BY <1>1 DEF Fits
    <3> QED BY <1>3, <3>1, <3>2
  <2> QED BY <1>3, <2>1, <2>2, <2>3 DEF PartSound, Fits
<1>5. Grows(part, b, lost, sought)
  <2>1. \A k \in DOMAIN part.heap : Content(b, k) = Content(part, k)
    BY <1>1, <1>3, Zenon DEF Content
  <2>2. \A k \in DOMAIN part.heap : Held(part, lost, sought, k) => Held(b, lost, sought, k)
    BY <1>1, <1>3 DEF Held
  <2> QED BY <1>3, <2>1, <2>2 DEF Grows
<1>6. \A n \in DOMAIN b.index : b.index[n] # Len(b.heap)
  BY <1>1, <1>3 DEF PartSound
<1> QED BY <1>1, <1>3, <1>4, <1>5, <1>6 DEF Placed, Held

\* A place of something that is described under a name.
Added(part, b, section, means, lost, sought, name, c) ==
  /\ PartSound(b, section, means, lost) /\ Placed(part, b, lost, sought, c)
  /\ DOMAIN b.index = DOMAIN part.index \cup {name}
  /\ name \notin lost \/ name \notin sought => Held(b, lost, sought, Len(b.heap))

\* Something that is described for the first time.
LEMMA AddSound ==
  ASSUME NEW part, NEW section, NEW means, NEW lost, PartSound(part, section, means, lost), NEW sought,
         NEW name, NEW c, ~IsRef(c), <<name, c>> \in means, name \notin lost => name \notin DOMAIN part.index,
         NEW b, b = Add(part, name, c)
  PROVE  Added(part, b, section, means, lost, sought, name, c)
<1> DEFINE at == Len(part.heap) + 1
<1>1. /\ b.heap = Append(part.heap, c) /\ b.common = part.common
      /\ DOMAIN b.index = DOMAIN part.index \cup {name}
      /\ b.index[name] = at /\ \A n \in DOMAIN part.index : n # name => b.index[n] = part.index[n]
  BY DEF Add, With
<1>2. IsHeap(part.heap)
  BY DEF PartSound
<1>3. /\ IsHeap(b.heap) /\ Len(b.heap) = at /\ at \in DOMAIN b.heap /\ b.heap[at] = c
      /\ DOMAIN b.heap = DOMAIN part.heap \cup {at} /\ at \notin DOMAIN part.heap /\ at # None
      /\ \A k \in DOMAIN part.heap : k \in DOMAIN b.heap /\ b.heap[k] = part.heap[k]
  BY <1>1, <1>2, HeapAppend DEF None
<1> HIDE DEF at
<1>4. \A n \in DOMAIN b.index : n # name => /\ n \in DOMAIN part.index /\ b.index[n] = part.index[n]
                                            /\ b.index[n] = None \/ b.index[n] \in DOMAIN part.heap
  BY <1>1 DEF PartSound
<1>5. PartSound(b, section, means, lost)
  <2>1. ASSUME NEW n \in DOMAIN b.index, n \notin lost
        PROVE  \/ b.index[n] = None /\ n \in DOMAIN b.common
               \/ /\ b.index[n] \in DOMAIN b.heap /\ <<n, b.heap[b.index[n]]>> \in means
                  /\ n \notin DOMAIN b.common
    <3>1. CASE n = name
      <4>1. name \notin DOMAIN part.common
        BY <2>1, <3>1, Zenon DEF PartSound
      <4> QED BY <1>1, <1>3, <3>1, <4>1
    <3>2. CASE n # name
      <4>1. n \in DOMAIN part.index /\ b.index[n] = part.index[n]
        BY <1>4, <2>1, <3>2
      <4>2. \/ part.index[n] = None /\ n \in DOMAIN part.common
            \/ /\ part.index[n] \in DOMAIN part.heap /\ <<n, part.heap[part.index[n]]>> \in means
               /\ n \notin DOMAIN part.common
        BY <2>1, <4>1 DEF PartSound
      <4> QED BY <1>1, <1>3, <4>1, <4>2
    <3> QED BY <3>1, <3>2
  <2>2. ASSUME NEW m \in DOMAIN b.index, NEW n \in DOMAIN b.index, m # n
        PROVE  b.index[m] # b.index[n] \/ b.index[m] = None
    <3>1. ASSUME NEW x \in DOMAIN b.index, x # name PROVE b.index[x] # at
      BY <1>3, <1>4, <3>1
    <3>2. CASE m = name
      BY <1>1, <2>2, <3>1, <3>2
    <3>3. CASE n = name
      BY <1>1, <2>2, <3>1, <3>3
    <3>4. CASE m # name /\ n # name
      BY <1>4, <2>2, <3>4, Zenon DEF PartSound
    <3> QED BY <3>2, <3>3, <3>4
  <2>3. \A n \in DOMAIN b.common : n \notin lost => n \in DOMAIN b.index /\ <<n, b.common[n]>> \in means
    BY <1>1, Zenon DEF PartSound
  <2>4. \A k \in DOMAIN b.heap : Fits(b, section, means, lost, b.heap[k])
    <3>1. \A k \in DOMAIN part.heap : Fits(part, section, means, lost, part.heap[k])
      BY Zenon DEF PartSound, Fits
    <3>2. \A x : Fits(part, section, means, lost, x) => Fits(b, section, means, lost, x)
      BY <1>1 DEF Fits
    <3>3. Fits(b, section, means, lost, c)
      BY Zenon DEF Fits, Meant
    <3> QED BY <1>3, <3>1, <3>2, <3>3
  <2>5. \A n \in DOMAIN b.index : b.index[n] = None \/ b.index[n] \in DOMAIN b.heap
    BY <1>1, <1>3, <1>4
  <2> QED BY <1>3, <2>1, <2>2, <2>3, <2>4, <2>5 DEF PartSound, Fits
<1>6. Grows(part, b, lost, sought)
  <2>1. \A k \in DOMAIN part.heap : Content(b, k) = Content(part, k)
    BY <1>1, <1>3, Zenon DEF Content
  <2>2. \A k \in DOMAIN part.heap : Held(part, lost, sought, k) => Held(b, lost, sought, k)
    BY <1>1, <1>3, <1>4 DEF Held
  <2> QED BY <1>3, <2>1, <2>2 DEF Grows
<1>7. name \notin lost \/ name \notin sought => Held(b, lost, sought, at)
  <2>1. \A n \in DOMAIN b.index : n # name => b.index[n] # at
    BY <1>3, <1>4
  <2> QED BY <1>3, <2>1 DEF Held
<1> QED BY <1>1, <1>3, <1>5, <1>6, <1>7 DEF Placed, Added

\* A name that is not lost is looked for and kept, or both names are lost.
Paired(found, name, lost, sought) ==
  found \in sought /\ ((found = name /\ name \notin lost) \/ (found \in lost /\ name \in lost))

\* What is looked for is in the components, under its name.
Moved(part, b, section, means, lost, sought, name) ==
  /\ PartSound(b, section, means, lost) /\ Grows(part, b, lost, sought) /\ DOMAIN b.heap = DOMAIN part.heap
  /\ name \notin lost => name \in DOMAIN b.common
  /\ DOMAIN b.index \subseteq DOMAIN part.index \cup {name}

\* What is met again moves to the components, and its place refers to it.
LEMMA MoveSound ==
  ASSUME NEW part, NEW section, NEW means, NEW lost, PartSound(part, section, means, lost), NoRefs(means), NEW sought,
         NEW found \in DOMAIN part.index, NEW name, Paired(found, name, lost, sought),
         NEW b, b = Move(part, section, found, name)
  PROVE  Moved(part, b, section, means, lost, sought, name)
<1> DEFINE first == part.index[found]
           c == part.heap[first]
<1>1. CASE first = None
  <2>1. b = part
    BY <1>1 DEF Move
  <2>2. name \notin lost => name \in DOMAIN part.common
    <3>1. name \notin lost /\ name \notin DOMAIN part.common => part.index[found] \in DOMAIN part.heap
      BY Zenon DEF PartSound, Paired
    <3>2. DOMAIN part.heap \subseteq Nat \ {None}
      BY DEF PartSound, IsHeap, None
    <3> QED BY <1>1, <3>1, <3>2
  <2> QED BY <2>1, <2>2 DEF Grows, Moved
<1>2. CASE first # None
  <2>1. /\ first \in DOMAIN part.heap
        /\ name \notin lost => /\ found = name /\ <<name, c>> \in means /\ name \notin DOMAIN part.common /\ ~IsRef(c)
    <3>1. first \in DOMAIN part.heap
      BY <1>2, Zenon DEF PartSound
    <3>2. ASSUME name \notin lost
          PROVE  found = name /\ <<name, c>> \in means /\ name \notin DOMAIN part.common /\ ~IsRef(c)
      <4>1. found = name /\ <<name, c>> \in means /\ name \notin DOMAIN part.common
        BY <1>2, <3>2, Zenon DEF PartSound, Paired
      <4>2. <<name, c>>[2] = c
        OBVIOUS
      <4> QED BY <4>1, <4>2 DEF NoRefs
    <3> QED BY <3>1, <3>2
  <2>2. name \in lost => found \in lost /\ found \in sought
    BY DEF Paired
  <2>3. /\ b.heap = [part.heap EXCEPT ![first] = Ref(section, name)]
        /\ b.index = With(part.index, name, None) /\ b.common = With(part.common, name, c)
    BY <1>2 DEF Move
  <2> HIDE DEF c
  <2>4. /\ DOMAIN b.heap = DOMAIN part.heap /\ b.heap[first] = Ref(section, name)
        /\ \A k \in DOMAIN part.heap : k # first => b.heap[k] = part.heap[k]
    BY <2>1, <2>3
  <2>5. IsHeap(b.heap)
    <3>1. PICK n \in Nat : DOMAIN part.heap = 1..n
      BY DEF PartSound, IsHeap
    <3>2. b.heap = [k \in 1..n |-> b.heap[k]]
      BY <2>3, <3>1
    <3> QED BY <2>4, <3>1, <3>2 DEF IsHeap
  <2>6. /\ DOMAIN b.index = DOMAIN part.index \cup {name} /\ b.index[name] = None
        /\ \A n \in DOMAIN part.index : n # name => b.index[n] = part.index[n]
    BY <2>3 DEF With
  <2>7. /\ DOMAIN b.common = DOMAIN part.common \cup {name} /\ b.common[name] = c
        /\ \A n \in DOMAIN part.common : n # name => b.common[n] = part.common[n]
    BY <2>1, <2>3 DEF With
  <2>8. IsRef(Ref(section, name)) /\ Ref(section, name).ref = name /\ Ref(section, name).section = section
    BY DEF IsRef, Ref
  <2>9. \A n \in DOMAIN b.index : n \notin lost /\ n # name =>
          n \in DOMAIN part.index /\ b.index[n] = part.index[n] /\ (part.index[n] # first \/ part.index[n] = None)
    <3>1. ASSUME NEW n \in DOMAIN b.index, n \notin lost, n # name
          PROVE  /\ n \in DOMAIN part.index /\ b.index[n] = part.index[n]
                 /\ part.index[n] # first \/ part.index[n] = None
      <4>1. n \in DOMAIN part.index /\ b.index[n] = part.index[n]
        BY <2>6, <3>1
      <4>2. n # found
        BY <3>1 DEF Paired
      <4> QED BY <4>1, <4>2, Zenon DEF PartSound
    <3> QED BY <3>1
  <2>10. PartSound(b, section, means, lost)
    <3>1. ASSUME NEW n \in DOMAIN b.index, n \notin lost
          PROVE  \/ b.index[n] = None /\ n \in DOMAIN b.common
                 \/ /\ b.index[n] \in DOMAIN b.heap /\ <<n, b.heap[b.index[n]]>> \in means
                    /\ n \notin DOMAIN b.common
      <4>1. CASE n = name
        BY <2>6, <2>7, <4>1
      <4>2. CASE n # name
        <5>1. n \in DOMAIN part.index /\ b.index[n] = part.index[n] /\ (part.index[n] # first \/ part.index[n] = None)
          BY <2>9, <3>1, <4>2
        <5>2. \/ part.index[n] = None /\ n \in DOMAIN part.common
              \/ /\ part.index[n] \in DOMAIN part.heap /\ <<n, part.heap[part.index[n]]>> \in means
                 /\ n \notin DOMAIN part.common
          BY <3>1, <5>1, Zenon DEF PartSound
        <5>3. CASE part.index[n] = None /\ n \in DOMAIN part.common
          BY <2>7, <5>1, <5>3
        <5>4. CASE /\ part.index[n] \in DOMAIN part.heap /\ <<n, part.heap[part.index[n]]>> \in means
                   /\ n \notin DOMAIN part.common
          <6>1. CASE part.index[n] = None
            <7>1. None \notin DOMAIN part.heap
              BY DEF PartSound, IsHeap, None
            <7> QED BY <5>4, <6>1, <7>1
          <6>2. CASE part.index[n] # None
            <7>1. b.heap[part.index[n]] = part.heap[part.index[n]]
              BY <2>4, <5>1, <5>4, <6>2
            <7> QED BY <2>4, <2>7, <4>2, <5>1, <5>4, <7>1
          <6> QED BY <6>1, <6>2
        <5> QED BY <5>2, <5>3, <5>4
      <4> QED BY <4>1, <4>2
    <3>2. ASSUME NEW m \in DOMAIN b.index, NEW n \in DOMAIN b.index, m # n
          PROVE  b.index[m] # b.index[n] \/ b.index[m] = None
      <4>1. CASE m = name
        BY <2>6, <4>1
      <4>2. CASE m # name /\ n = name
        BY <2>6, <3>2, <4>2
      <4>3. CASE m # name /\ n # name
        BY <2>6, <3>2, <4>3, Zenon DEF PartSound
      <4> QED BY <4>1, <4>2, <4>3
    <3>3. ASSUME NEW n \in DOMAIN b.common, n \notin lost
          PROVE  n \in DOMAIN b.index /\ <<n, b.common[n]>> \in means
      <4>1. CASE n = name
        BY <2>1, <2>6, <2>7, <3>3, <4>1
      <4>2. CASE n # name
        <5>1. n \in DOMAIN part.common /\ b.common[n] = part.common[n]
          BY <2>7, <4>2
        <5> QED BY <2>6, <3>3, <5>1, Zenon DEF PartSound
      <4> QED BY <4>1, <4>2
    <3>4. ASSUME NEW k \in DOMAIN b.heap PROVE Fits(b, section, means, lost, b.heap[k])
      <4>1. CASE k = first
        BY <2>4, <2>7, <2>8, <4>1 DEF Fits
      <4>2. CASE k # first
        <5>1. k \in DOMAIN part.heap /\ b.heap[k] = part.heap[k]
          BY <2>4, <4>2
        <5>2. Fits(part, section, means, lost, part.heap[k])
          BY <5>1, Zenon DEF PartSound, Fits
        <5> QED BY <2>7, <5>1, <5>2 DEF Fits
      <4> QED BY <4>1, <4>2
    <3>5. ASSUME NEW n \in DOMAIN b.index PROVE b.index[n] = None \/ b.index[n] \in DOMAIN b.heap
      <4>1. n # name => n \in DOMAIN part.index /\ b.index[n] = part.index[n]
        BY <2>6
      <4> QED BY <2>4, <2>6, <4>1, Zenon DEF PartSound
    <3> QED BY <2>5, <3>1, <3>2, <3>3, <3>4, <3>5 DEF PartSound, Fits
  <2>11. Grows(part, b, lost, sought)
    <3> SUFFICES ASSUME NEW k \in DOMAIN part.heap, Held(part, lost, sought, k)
                 PROVE  Held(b, lost, sought, k) /\ Content(b, k) = Content(part, k)
      BY <2>4 DEF Grows
    <3>1. \A n \in DOMAIN b.index : n \in lost /\ n \in sought => b.index[n] # k
      <4>1. \A n \in DOMAIN part.index : n \in lost /\ n \in sought => part.index[n] # k
        BY DEF Held
      <4>2. k # None
        BY DEF PartSound, IsHeap, None
      <4> QED BY <2>6, <4>1, <4>2
    <3>2. CASE k = first
      <4>1. name \notin lost
        BY <2>2, <3>2 DEF Held
      <4>2. Content(part, k) = c
        BY <2>1, <3>2, <4>1 DEF Content, c
      <4>3. Content(b, k) = b.common[name]
        BY <2>4, <2>8, <3>2 DEF Content
      <4>4. Held(b, lost, sought, k)
        BY <2>4, <2>8, <3>1, <3>2, <4>1 DEF Held
      <4> QED BY <2>7, <4>2, <4>3, <4>4
    <3>3. CASE k # first
      <4>1. b.heap[k] = part.heap[k]
        BY <2>4, <3>3
      <4>2. Held(b, lost, sought, k)
        BY <2>4, <3>1, <4>1 DEF Held
      <4>3. IsRef(part.heap[k]) => b.common[part.heap[k].ref] = part.common[part.heap[k].ref]
        <5>1. ASSUME IsRef(part.heap[k]) PROVE b.common[part.heap[k].ref] = part.common[part.heap[k].ref]
          <6>1. PICK n : n = part.heap[k].ref
            OBVIOUS
          <6>2. n \notin lost
            BY <5>1, <6>1 DEF Held
          <6>3. n \in DOMAIN part.common
            BY <5>1, <6>1, <6>2, Zenon DEF PartSound
          <6>4. n # name
            BY <2>1, <6>2, <6>3
          <6> QED BY <2>7, <6>1, <6>3, <6>4
        <5> QED BY <5>1
      <4> QED BY <4>1, <4>2, <4>3 DEF Content
    <3> QED BY <3>2, <3>3
  <2> QED BY <2>4, <2>6, <2>7, <2>10, <2>11 DEF Moved
<1> QED BY <1>1, <1>2

\* A place of what is met again.
Referred(part, b, section, means, lost, sought, name) ==
  /\ PartSound(b, section, means, lost) /\ Placed(part, b, lost, sought, Ref(section, name))
  /\ DOMAIN b.index \subseteq DOMAIN part.index \cup {name}
  /\ name \notin lost => Held(b, lost, sought, Len(b.heap)) /\ <<name, Content(b, Len(b.heap))>> \in means

\* What is met again refers to what its name means.
LEMMA AgainSound ==
  ASSUME NEW part, NEW section, NEW means, NEW lost, PartSound(part, section, means, lost), NoRefs(means), NEW sought,
         NEW found \in DOMAIN part.index, NEW name, Paired(found, name, lost, sought),
         NEW b, b = Again(part, section, found, name)
  PROVE  Referred(part, b, section, means, lost, sought, name)
<1>1. PICK moved : moved = Move(part, section, found, name)
  OBVIOUS
<1>2. /\ PartSound(moved, section, means, lost) /\ Grows(part, moved, lost, sought)
      /\ DOMAIN moved.heap = DOMAIN part.heap
      /\ name \notin lost => name \in DOMAIN moved.common
      /\ DOMAIN moved.index \subseteq DOMAIN part.index \cup {name}
  <2>1. Moved(part, moved, section, means, lost, sought, name)
    BY <1>1, MoveSound
  <2> QED BY <2>1 DEF Moved
<1>3. PICK c : c = Ref(section, name) /\ IsRef(c) /\ c.ref = name /\ c.section = section
  <2>1. IsRef(Ref(section, name)) /\ Ref(section, name).ref = name /\ Ref(section, name).section = section
    BY DEF IsRef, Ref
  <2> QED BY <2>1
<1>4. b = Place(moved, c)
  BY <1>1, <1>3 DEF Again
<1>5. /\ PartSound(b, section, means, lost) /\ Placed(moved, b, lost, sought, c)
      /\ b.index = moved.index /\ b.common = moved.common
      /\ name \notin lost => Held(b, lost, sought, Len(b.heap))
  <2>1. Fits(moved, section, means, lost, c)
    BY <1>2, <1>3 DEF Fits
  <2> QED BY <1>2, <1>3, <1>4, <2>1, PlaceSound
<1>6. name \notin lost => <<name, Content(b, Len(b.heap))>> \in means
  <2>1. Content(b, Len(b.heap)) = b.common[name]
    BY <1>3, <1>5 DEF Content, Placed
  <2>2. name \notin lost => <<name, b.common[name]>> \in means
    BY <1>2, <1>5 DEF PartSound
  <2> QED BY <2>1, <2>2
<1>7. Placed(part, b, lost, sought, c)
  BY <1>2, <1>5, GrowsOn DEF Placed
<1> QED BY <1>2, <1>3, <1>5, <1>6, <1>7 DEF Referred

-----------------------------------------------------------------------------
(* The schemas of routes. No name of them is lost: one is looked for by    *)
(* the name it is kept under.                                              *)

\* The schemas of a document: all places are told by names, and say what those may mean.
SchemasSound(schemas, means) ==
  /\ PartSound(schemas, "schema", means, {})
  /\ \A k \in DOMAIN schemas.heap : Held(schemas, {}, {}, k)

\* All places stay, with what they have.
Stays(a, b) == \A k \in DOMAIN a.heap : k \in DOMAIN b.heap /\ Content(b, k) = Content(a, k)

\* What was in a place is still there.
LEMMA StaysOn ==
  ASSUME NEW a, NEW b, NEW c, Stays(a, b), Stays(b, c)
  PROVE  Stays(a, c)
BY DEF Stays

\* A schema that is described is no reference.
LEMMA InlineIs ==
  ASSUME NEW schema
  PROVE  ~IsRef(Inline(schema)) /\ Inline(schema).schema = schema
BY DEF IsRef, Inline

\* No schema that is described is a reference.
LEMMA SchemasNoRefs ==
  ASSUME NEW rs
  PROVE  NoRefs(SchemaMeans(rs))
<1> SUFFICES ASSUME NEW u \in SchemaMeans(rs) PROVE ~IsRef(u[2])
  BY DEF NoRefs
<1>1. PICK v : u = <<v[1], Inline(v[2])>>
  BY DEF SchemaMeans
<1>2. u[2] = Inline(v[2])
  BY <1>1
<1> QED BY <1>2, InlineIs

\* A place more, of which all that is needed is known.
LEMMA SchemasGrow ==
  ASSUME NEW schemas, NEW means, SchemasSound(schemas, means), NEW b, NEW c, PartSound(b, "schema", means, {}),
         Placed(schemas, b, {}, {}, c)
  PROVE  SchemasSound(b, means) /\ Stays(schemas, b) /\ Len(b.heap) \in DOMAIN b.heap
<1>1. \A k \in DOMAIN b.heap : Held(b, {}, {}, k)
  BY DEF Held
<1>2. Stays(schemas, b)
  BY DEF Stays, SchemasSound, Placed, Grows
<1> QED BY <1>1, <1>2 DEF SchemasSound, Placed

\* Describing a schema, for the first time or again.
LEMMA GetOrGenerateSound ==
  ASSUME NEW schemas, NEW means, SchemasSound(schemas, means), NoRefs(means),
         NEW route, NEW type, NEW isOutput, NEW name,
         <<name, Inline(SchemaOf(route, type, isOutput))>> \in means,
         NEW b, b = GetOrGenerate(schemas, route, type, isOutput, name)
  PROVE  /\ SchemasSound(b, means) /\ Stays(schemas, b)
         /\ Len(b.heap) \in DOMAIN b.heap
         /\ DescribedAs(means, name, SchemaOf(route, type, isOutput), Content(b, Len(b.heap)))
<1>1. PICK made : made = Inline(SchemaOf(route, type, isOutput)) /\ ~IsRef(made)
  BY InlineIs
<1>2. PartSound(schemas, "schema", means, {})
  BY DEF SchemasSound
<1>3. CASE name = ""
  <2>1. b = Place(schemas, made)
    BY <1>1, <1>3 DEF GetOrGenerate
  <2>2. PartSound(b, "schema", means, {}) /\ Placed(schemas, b, {}, {}, made)
    <3>1. Fits(schemas, "schema", means, {}, made)
      BY <1>1 DEF Meant, Fits
    <3> QED BY <1>2, <2>1, <3>1, PlaceSound
  <2>3. Content(b, Len(b.heap)) = made
    BY <1>1, <2>2 DEF Content, Placed
  <2> QED BY <1>1, <2>2, <2>3, SchemasGrow DEF DescribedAs
<1>4. CASE name # "" /\ name \notin DOMAIN schemas.index
  <2>1. b = Add(schemas, name, made)
    BY <1>1, <1>4 DEF GetOrGenerate
  <2>2. PartSound(b, "schema", means, {}) /\ Placed(schemas, b, {}, {}, made)
    <3>1. <<name, made>> \in means
      BY <1>1
    <3>2. PICK none : none = {}
      OBVIOUS
    <3>3. PartSound(schemas, "schema", means, none)
      BY <1>2, <3>2
    <3>4. Added(schemas, b, "schema", means, none, none, name, made)
      BY <1>1, <1>4, <2>1, <3>1, <3>3, AddSound
    <3> QED BY <3>2, <3>4 DEF Added
  <2>3. Content(b, Len(b.heap)) = made
    BY <1>1, <2>2 DEF Content, Placed
  <2> QED BY <1>1, <2>2, <2>3, SchemasGrow DEF DescribedAs
<1>5. CASE name # "" /\ name \in DOMAIN schemas.index
  <2>1. b = Again(schemas, "schema", name, name)
    BY <1>5 DEF GetOrGenerate
  <2>2. /\ PartSound(b, "schema", means, {}) /\ Placed(schemas, b, {}, {name}, Ref("schema", name))
        /\ <<name, Content(b, Len(b.heap))>> \in means
    <3>1. PICK none, it : none = {} /\ it = {name}
      OBVIOUS
    <3>2. Paired(name, name, none, it)
      <4>1. name \in it /\ name \notin none
        BY <3>1
      <4> QED BY <4>1, Zenon DEF Paired
    <3>3. PartSound(schemas, "schema", means, none)
      BY <1>2, <3>1
    <3>4. Referred(schemas, b, "schema", means, none, it, name)
      BY <1>5, <2>1, <3>2, <3>3, AgainSound
    <3> QED BY <3>1, <3>4 DEF Referred
  <2>3. Placed(schemas, b, {}, {}, Ref("schema", name))
    <3>1. \A part, k : Held(part, {}, {name}, k) <=> Held(part, {}, {}, k)
      BY DEF Held
    <3> QED BY <2>2, <3>1 DEF Placed, Grows
  <2>4. SchemasSound(b, means) /\ Stays(schemas, b) /\ Len(b.heap) \in DOMAIN b.heap
    BY <2>2, <2>3, SchemasGrow
  <2> QED BY <1>5, <2>2, <2>4 DEF DescribedAs
<1> QED BY <1>3, <1>4, <1>5

-----------------------------------------------------------------------------
(* Their parameters.                                                        *)

\* A place has the schema of a parameter.
SchemaFor(rs, schemas, x, k) ==
  /\ k \in DOMAIN schemas.heap
  /\ DescribedAs(SchemaMeans(rs), TypeName(x[2].type, x[2].name), SchemaOf(x[1], x[2].type, FALSE), Content(schemas, k))

\* How a parameter is described, and what names of parameters may mean.
ParamIn(p, k) == [name |-> Lookup(p), in |-> p.kind, schema |-> k]
ParamMeans(rs, schemas) ==
  {<<y[1][2].name, ParamIn(y[1][2], y[2])>> :
     y \in {z \in ParamsAmong(rs) \X DOMAIN schemas.heap : SchemaFor(rs, schemas, z[1], z[2])}}

\* The names that parameters are looked for by, and those of them and of the kept ones that are lost.
Sought(rs) == {Lookup(x[2]) : x \in ParamsAmong(rs)}
Lost(rs) == {n \in Sought(rs) \cup {x[2].name : x \in ParamsAmong(rs)} : ~Clear(rs, n)}

\* The schemas and the parameters of a document that is being made.
Sound(rs, schemas, params) ==
  /\ SchemasSound(schemas, SchemaMeans(rs))
  /\ PartSound(params, "parameters", ParamMeans(rs, schemas), Lost(rs))
  /\ DOMAIN params.index \subseteq {x[2].name : x \in ParamsAmong(rs)}

\* What a name of a parameter means is one of its parameters, with a schema of it.
LEMMA ParamMeansIs ==
  ASSUME NEW rs, NEW schemas, NEW n, NEW c
  PROVE  <<n, c>> \in ParamMeans(rs, schemas) <=>
           \E x \in ParamsAmong(rs), k \in DOMAIN schemas.heap :
             SchemaFor(rs, schemas, x, k) /\ n = x[2].name /\ c = ParamIn(x[2], k)
<1>1. ASSUME <<n, c>> \in ParamMeans(rs, schemas)
      PROVE  \E x \in ParamsAmong(rs), k \in DOMAIN schemas.heap :
               SchemaFor(rs, schemas, x, k) /\ n = x[2].name /\ c = ParamIn(x[2], k)
  <2>1. PICK y \in ParamsAmong(rs) \X DOMAIN schemas.heap :
          SchemaFor(rs, schemas, y[1], y[2]) /\ <<n, c>> = <<y[1][2].name, ParamIn(y[1][2], y[2])>>
    BY <1>1, Zenon DEF ParamMeans
  <2>2. y[1] \in ParamsAmong(rs) /\ y[2] \in DOMAIN schemas.heap
    BY <2>1
  <2>3. n = y[1][2].name /\ c = ParamIn(y[1][2], y[2])
    BY <2>1, Zenon
  <2> QED BY <2>1, <2>2, <2>3, Zenon
<1>2. ASSUME NEW x \in ParamsAmong(rs), NEW k \in DOMAIN schemas.heap,
             SchemaFor(rs, schemas, x, k), n = x[2].name, c = ParamIn(x[2], k)
      PROVE  <<n, c>> \in ParamMeans(rs, schemas)
  <2>1. PICK y : y = <<x, k>>
    OBVIOUS
  <2>2. y \in ParamsAmong(rs) \X DOMAIN schemas.heap /\ y[1] = x /\ y[2] = k
    BY <2>1
  <2>3. y \in {z \in ParamsAmong(rs) \X DOMAIN schemas.heap : SchemaFor(rs, schemas, z[1], z[2])}
    BY <1>2, <2>2, Zenon
  <2>4. <<n, c>> = <<y[1][2].name, ParamIn(y[1][2], y[2])>>
    BY <1>2, <2>2
  <2> QED BY <2>3, <2>4, Zenon DEF ParamMeans
<1> QED BY <1>1, <1>2, Zenon

\* No parameter that is described is a reference.
LEMMA ParamsNoRefs ==
  ASSUME NEW rs, NEW schemas
  PROVE  NoRefs(ParamMeans(rs, schemas))
<1> SUFFICES ASSUME NEW u \in ParamMeans(rs, schemas) PROVE ~IsRef(u[2])
  BY DEF NoRefs
<1>1. PICK p, k, n : u = <<n, ParamIn(p, k)>>
  BY DEF ParamMeans
<1>2. u[2] = ParamIn(p, k)
  BY <1>1
<1> QED BY <1>2 DEF IsRef, ParamIn

\* A place of a schema keeps it, for a parameter too.
LEMMA SchemaForStays ==
  ASSUME NEW rs, NEW a, NEW b, Stays(a, b), NEW x, NEW k, SchemaFor(rs, a, x, k)
  PROVE  SchemaFor(rs, b, x, k)
BY DEF SchemaFor, Stays

\* So names of parameters keep their meanings.
LEMMA ParamMeansGrow ==
  ASSUME NEW rs, NEW a, NEW b, Stays(a, b)
  PROVE  ParamMeans(rs, a) \subseteq ParamMeans(rs, b)
<1> SUFFICES ASSUME NEW u \in ParamMeans(rs, a) PROVE u \in ParamMeans(rs, b)
  OBVIOUS
<1>1. PICK n, c : u = <<n, c>>
  BY DEF ParamMeans
<1>2. PICK x \in ParamsAmong(rs), k \in DOMAIN a.heap :
        SchemaFor(rs, a, x, k) /\ n = x[2].name /\ c = ParamIn(x[2], k)
  BY <1>1, ParamMeansIs
<1>3. k \in DOMAIN b.heap /\ SchemaFor(rs, b, x, k)
  <2>1. SchemaFor(rs, b, x, k)
    BY <1>2, SchemaForStays
  <2> QED BY <2>1 DEF SchemaFor
<1> QED BY <1>1, <1>2, <1>3, ParamMeansIs

\* What is in a place describes a parameter that is kept and looked for under the same names.
ParamFor(rs, schemas, p, c) ==
  \E x \in ParamsAmong(rs), j \in DOMAIN schemas.heap :
    SchemaFor(rs, schemas, x, j) /\ Alike(x[2], p) /\ c = ParamIn(x[2], j)

\* A parameter is in its place: none when it is not described.
ParamPlaced(rs, schemas, params, p, k) ==
  IF p.kind \in Undescribed THEN k = None
  ELSE /\ k \in DOMAIN params.heap
       /\ OnItsOwn(rs, p) => Held(params, Lost(rs), Sought(rs), k) /\ ParamFor(rs, schemas, p, Content(params, k))

\* It stays there.
LEMMA ParamStays ==
  ASSUME NEW rs, NEW schemas, NEW params, NEW more, NEW others, Stays(schemas, more),
         Grows(params, others, Lost(rs), Sought(rs)), NEW p, NEW k, ParamPlaced(rs, schemas, params, p, k)
  PROVE  ParamPlaced(rs, more, others, p, k)
<1>1. \A c : ParamFor(rs, schemas, p, c) => ParamFor(rs, more, p, c)
  <2> SUFFICES ASSUME NEW c, ParamFor(rs, schemas, p, c) PROVE ParamFor(rs, more, p, c)
    OBVIOUS
  <2>1. PICK x \in ParamsAmong(rs), j \in DOMAIN schemas.heap :
          SchemaFor(rs, schemas, x, j) /\ Alike(x[2], p) /\ c = ParamIn(x[2], j)
    BY DEF ParamFor
  <2>2. SchemaFor(rs, more, x, j)
    BY <2>1, SchemaForStays
  <2>3. j \in DOMAIN more.heap
    BY <2>2 DEF SchemaFor
  <2> QED BY <2>1, <2>2, <2>3 DEF ParamFor
<1> QED BY <1>1, Zenon DEF ParamPlaced, Grows

\* A parameter that is described has a schema with a name.
LEMMA TakenNamed ==
  ASSUME NEW rs, NEW x \in ParamsAmong(rs)
  PROVE  <<TypeName(x[2].type, x[2].name), Inline(SchemaOf(x[1], x[2].type, FALSE))>> \in SchemaMeans(rs)
<1>1. x[1] \in AllOf(rs) /\ x[2] \in ParamsTaken(x[1])
  BY DEF ParamsAmong
<1>2. PICK u : u = <<TypeName(x[2].type, x[2].name), SchemaOf(x[1], x[2].type, FALSE)>>
  OBVIOUS
<1>3. u \in SchemasNamed(x[1])
  BY <1>1, <1>2, Zenon DEF SchemasNamed
<1>4. u \in UNION {SchemasNamed(d) : d \in AllOf(rs)}
  BY <1>1, <1>3, Zenon
<1>5. u[1] = TypeName(x[2].type, x[2].name) /\ u[2] = SchemaOf(x[1], x[2].type, FALSE)
  BY <1>2
<1>6. <<u[1], Inline(u[2])>> \in SchemaMeans(rs)
  BY <1>4, Zenon DEF SchemaMeans
<1> QED BY <1>5, <1>6

\* A name of a parameter is lost with the one it is looked for by, or neither is, and then they are one.
LEMMA NamesPaired ==
  ASSUME NEW rs, NEW x \in ParamsAmong(rs)
  PROVE  Paired(Lookup(x[2]), x[2].name, Lost(rs), Sought(rs))
<1>1. PICK found, name : found = Lookup(x[2]) /\ name = x[2].name
  OBVIOUS
<1>2. found \in Sought(rs)
  BY <1>1 DEF Sought
<1>3. \A n : Clear(rs, n) => (found = n <=> name = n)
  BY <1>1 DEF Clear
<1>4. found # name => ~Clear(rs, found) /\ ~Clear(rs, name)
  BY <1>3, Zenon
<1>5. name \in {y[2].name : y \in ParamsAmong(rs)}
  BY <1>1
<1>6. /\ Clear(rs, name) => name \notin Lost(rs)
      /\ ~Clear(rs, name) => name \in Lost(rs)
      /\ ~Clear(rs, found) => found \in Lost(rs)
  BY <1>2, <1>5, SMT DEF Lost
<1> QED BY <1>1, <1>2, <1>4, <1>6, Zenon DEF Paired

\* A parameter that is on its own is looked for by the name it is kept under, which is not lost, or by
\* none that one is kept under; and then its name is one that none is looked for by.
LEMMA OwnNamed ==
  ASSUME NEW rs, NEW x \in ParamsAmong(rs), OnItsOwn(rs, x[2])
  PROVE  /\ x[2].name \notin Lost(rs) \/ x[2].name \notin Sought(rs)
         /\ Lookup(x[2]) \in {y[2].name : y \in ParamsAmong(rs)} =>
              Lookup(x[2]) = x[2].name /\ x[2].name \notin Lost(rs)
<1>1. PICK p : p = x[2]
  OBVIOUS
<1>2. \A y \in ParamsAmong(rs) :
        Lookup(y[2]) = p.name \/ y[2].name = Lookup(p) => y[2].name = p.name /\ Lookup(y[2]) = Lookup(p)
  BY <1>1 DEF OnItsOwn, Alike
<1>3. CASE Lookup(p) = p.name
  <2>1. Clear(rs, p.name)
    BY <1>2, <1>3 DEF Clear
  <2>2. p.name \notin Lost(rs)
    BY <2>1 DEF Lost
  <2> QED BY <1>1, <1>3, <2>2
<1>4. CASE Lookup(p) # p.name
  <2>1. p.name \notin Sought(rs)
    BY <1>2, <1>4 DEF Sought
  <2>2. Lookup(p) \notin {y[2].name : y \in ParamsAmong(rs)}
    BY <1>2, <1>4
  <2> QED BY <1>1, <2>1, <2>2
<1> QED BY <1>3, <1>4

\* Parameters where a document has them, after one more.
Taken(rs, acc, b, p) ==
  /\ Sound(rs, b.schemas, b.params) /\ Stays(acc.schemas, b.schemas)
  /\ Grows(acc.params, b.params, Lost(rs), Sought(rs))
  /\ \E k : b.places = Append(acc.places, k) /\ ParamPlaced(rs, b.schemas, b.params, p, k)

\* Converting a parameter that is described.
LEMMA TakenConverted ==
  ASSUME NEW rs \in Setups, NEW acc, Sound(rs, acc.schemas, acc.params), NEW x \in ParamsAmong(rs),
         NEW b, b = ConvertParam(acc, x[1], x[2])
  PROVE  Taken(rs, acc, b, x[2])
<1>1. PICK p, lost, sought, means : p = x[2] /\ lost = Lost(rs) /\ sought = Sought(rs) /\ means = SchemaMeans(rs)
  OBVIOUS
<1>2. p.kind \notin Undescribed
  BY <1>1 DEF ParamsAmong, ParamsTaken
<1>3. Paired(Lookup(p), p.name, lost, sought)
  BY <1>1, NamesPaired
<1>4. PICK may : may = ParamMeans(rs, acc.schemas) /\ NoRefs(may) /\ PartSound(acc.params, "parameters", may, lost)
  BY <1>1, ParamsNoRefs DEF Sound
<1>5. p.name \in {y[2].name : y \in ParamsAmong(rs)}
  BY <1>1
<1>6. CASE Lookup(p) \in DOMAIN acc.params.index
  <2>1. b.schemas = acc.schemas /\ b.params = Again(acc.params, "parameters", Lookup(p), p.name)
        /\ b.places = Append(acc.places, Len(b.params.heap))
    BY <1>1, <1>2, <1>6 DEF ConvertParam
  <2>2. PICK q, found, name : q = b.params /\ found = Lookup(p) /\ name = p.name
    OBVIOUS
  <2>3. /\ PartSound(q, "parameters", may, lost) /\ Placed(acc.params, q, lost, sought, Ref("parameters", name))
        /\ DOMAIN q.index \subseteq DOMAIN acc.params.index \cup {name}
        /\ name \notin lost => Held(q, lost, sought, Len(q.heap)) /\ <<name, Content(q, Len(q.heap))>> \in may
    <3>1. q = Again(acc.params, "parameters", found, name) /\ found \in DOMAIN acc.params.index
      BY <1>6, <2>1, <2>2
    <3>2. Paired(found, name, lost, sought)
      BY <1>3, <2>2
    <3>3. Referred(acc.params, q, "parameters", may, lost, sought, name)
      BY <1>4, <3>1, <3>2, AgainSound
    <3> QED BY <3>3 DEF Referred
  <2>4. Sound(rs, b.schemas, b.params)
    BY <1>1, <1>4, <1>5, <2>1, <2>2, <2>3 DEF Sound
  <2>5. Stays(acc.schemas, b.schemas)
    BY <2>1 DEF Stays
  <2>6. ASSUME OnItsOwn(rs, p)
        PROVE  Held(q, lost, sought, Len(q.heap)) /\ ParamFor(rs, b.schemas, p, Content(q, Len(q.heap)))
    <3>1. Lookup(p) \in {y[2].name : y \in ParamsAmong(rs)}
      BY <1>6 DEF Sound
    <3>2. Lookup(p) = name /\ name \notin lost
      BY <1>1, <2>2, <2>6, <3>1, OwnNamed
    <3>3. PICK y \in ParamsAmong(rs), j \in DOMAIN acc.schemas.heap :
            SchemaFor(rs, acc.schemas, y, j) /\ name = y[2].name /\ Content(q, Len(q.heap)) = ParamIn(y[2], j)
      BY <1>4, <2>3, <3>2, ParamMeansIs
    <3>4. Alike(y[2], p)
      BY <2>6, <3>2, <3>3 DEF OnItsOwn
    <3> QED BY <2>1, <2>3, <3>2, <3>3, <3>4 DEF ParamFor
  <2>7. ParamPlaced(rs, b.schemas, b.params, p, Len(b.params.heap))
    BY <1>1, <1>2, <2>2, <2>3, <2>6 DEF ParamPlaced, Placed
  <2>8. Grows(acc.params, b.params, lost, sought)
    BY <2>2, <2>3 DEF Placed
  <2> QED BY <1>1, <2>1, <2>4, <2>5, <2>7, <2>8 DEF Taken
<1>7. CASE Lookup(p) \notin DOMAIN acc.params.index
  <2>1. PICK made : made = GetOrGenerate(acc.schemas, x[1], p.type, FALSE, TypeName(p.type, p.name))
    OBVIOUS
  <2>2. PICK c : c = ParamIn(p, Len(made.heap))
    OBVIOUS
  <2>3. /\ b.schemas = made /\ b.params = Add(acc.params, p.name, c)
        /\ b.places = Append(acc.places, Len(b.params.heap))
    BY <1>1, <1>2, <1>7, <2>1, <2>2 DEF ConvertParam, ParamIn
  <2>4. SchemasSound(made, means) /\ Stays(acc.schemas, made) /\ SchemaFor(rs, made, x, Len(made.heap))
    <3>1. PICK name, route, type : name = TypeName(p.type, p.name) /\ route = x[1] /\ type = p.type
      OBVIOUS
    <3>2. <<name, Inline(SchemaOf(route, type, FALSE))>> \in means
      BY <1>1, <3>1, TakenNamed
    <3>3. SchemasSound(acc.schemas, means) /\ NoRefs(means)
      BY <1>1, SchemasNoRefs DEF Sound
    <3>4. made = GetOrGenerate(acc.schemas, route, type, FALSE, name)
      BY <2>1, <3>1
    <3>5. /\ SchemasSound(made, means) /\ Stays(acc.schemas, made)
          /\ Len(made.heap) \in DOMAIN made.heap
          /\ DescribedAs(means, name, SchemaOf(route, type, FALSE), Content(made, Len(made.heap)))
      BY <3>2, <3>3, <3>4, GetOrGenerateSound
    <3> QED BY <1>1, <3>1, <3>5 DEF SchemaFor
  <2>5. ~IsRef(c) /\ <<p.name, c>> \in ParamMeans(rs, made)
    <3>1. ~IsRef(c)
      BY <2>2 DEF ParamIn, IsRef
    <3>2. Len(made.heap) \in DOMAIN made.heap
      BY <2>4 DEF SchemaFor
    <3> QED BY <1>1, <2>2, <2>4, <3>1, <3>2, ParamMeansIs
  <2>6. p.name \notin lost => p.name \notin DOMAIN acc.params.index
    BY <1>3, <1>7 DEF Paired
  <2>7. PICK q, name, more : q = b.params /\ name = p.name /\ more = ParamMeans(rs, made)
    OBVIOUS
  <2>8. /\ PartSound(q, "parameters", more, lost) /\ Placed(acc.params, q, lost, sought, c)
        /\ DOMAIN q.index = DOMAIN acc.params.index \cup {name}
        /\ name \notin lost \/ name \notin sought => Held(q, lost, sought, Len(q.heap))
    <3>1. PartSound(acc.params, "parameters", more, lost)
      BY <1>4, <2>4, <2>7, ParamMeansGrow, MeansMore
    <3>2. /\ q = Add(acc.params, name, c) /\ <<name, c>> \in more /\ ~IsRef(c)
          /\ name \notin lost => name \notin DOMAIN acc.params.index
      BY <2>3, <2>5, <2>6, <2>7
    <3>3. Added(acc.params, q, "parameters", more, lost, sought, name, c)
      BY <3>1, <3>2, AddSound
    <3> QED BY <3>3 DEF Added
  <2>9. Sound(rs, b.schemas, b.params)
    BY <1>1, <1>5, <2>3, <2>4, <2>7, <2>8 DEF Sound
  <2>10. ASSUME OnItsOwn(rs, p)
         PROVE  Held(q, lost, sought, Len(q.heap)) /\ ParamFor(rs, made, p, Content(q, Len(q.heap)))
    <3>1. Held(q, lost, sought, Len(q.heap))
      BY <1>1, <2>7, <2>8, <2>10, OwnNamed
    <3>2. Content(q, Len(q.heap)) = c
      BY <2>5, <2>8 DEF Content, Placed
    <3>3. Len(made.heap) \in DOMAIN made.heap
      BY <2>4 DEF SchemaFor
    <3>4. Alike(x[2], p)
      BY <1>1 DEF Alike
    <3> QED BY <1>1, <2>2, <2>4, <3>1, <3>2, <3>3, <3>4 DEF ParamFor
  <2>11. ParamPlaced(rs, b.schemas, b.params, p, Len(b.params.heap))
    BY <1>1, <1>2, <2>3, <2>7, <2>8, <2>10 DEF ParamPlaced, Placed
  <2>12. Grows(acc.params, b.params, lost, sought)
    BY <2>7, <2>8 DEF Placed
  <2> QED BY <1>1, <2>3, <2>4, <2>9, <2>11, <2>12 DEF Taken
<1> QED BY <1>6, <1>7

\* Converting a parameter of a route, whether it is described or not.
LEMMA ParamConverted ==
  ASSUME NEW rs \in Setups, NEW acc, Sound(rs, acc.schemas, acc.params), NEW d \in AllOf(rs),
         NEW i \in DOMAIN ParamsOf(d), NEW b, b = ConvertParam(acc, d, ParamsOf(d)[i])
  PROVE  Taken(rs, acc, b, ParamsOf(d)[i])
<1>1. PICK p : p = ParamsOf(d)[i]
  OBVIOUS
<1>2. CASE p.kind \in Undescribed
  <2>1. b.schemas = acc.schemas /\ b.params = acc.params /\ b.places = Append(acc.places, None)
    BY <1>1, <1>2 DEF ConvertParam
  <2>2. ParamPlaced(rs, b.schemas, b.params, p, None)
    BY <1>2 DEF ParamPlaced
  <2> QED BY <1>1, <2>1, <2>2 DEF Stays, Grows, Taken
<1>3. CASE p.kind \notin Undescribed
  <2>1. p \in ParamsTaken(d)
    BY <1>1, <1>3 DEF ParamsTaken
  <2>2. PICK x : x = <<d, p>>
    OBVIOUS
  <2>3. x \in ParamsAmong(rs) /\ x[1] = d /\ x[2] = p
    BY <2>1, <2>2 DEF ParamsAmong
  <2>4. b = ConvertParam(acc, x[1], x[2])
    BY <1>1, <2>3
  <2>5. Taken(rs, acc, b, x[2])
    BY <2>3, <2>4, TakenConverted
  <2> QED BY <1>1, <2>3, <2>5
<1> QED BY <1>2, <1>3

\* The first parameters of a route are in their places.
ParamsPlaced(rs, schemas, params, d, places, n) ==
  /\ IsHeap(places) /\ DOMAIN places = 1..n
  /\ \A i \in 1..n : ParamPlaced(rs, schemas, params, ParamsOf(d)[i], places[i])

\* They stay there.
LEMMA ParamsStay ==
  ASSUME NEW rs, NEW schemas, NEW params, NEW more, NEW others, Stays(schemas, more),
         Grows(params, others, Lost(rs), Sought(rs)),
         NEW d, NEW places, NEW n, ParamsPlaced(rs, schemas, params, d, places, n)
  PROVE  ParamsPlaced(rs, more, others, d, places, n)
<1>1. ASSUME NEW i \in 1..n PROVE ParamPlaced(rs, more, others, ParamsOf(d)[i], places[i])
  <2>1. PICK p, k : p = ParamsOf(d)[i] /\ k = places[i]
    OBVIOUS
  <2>2. ParamPlaced(rs, schemas, params, p, k)
    BY <2>1 DEF ParamsPlaced
  <2>3. ParamPlaced(rs, more, others, p, k)
    BY <2>2, ParamStays
  <2> QED BY <2>1, <2>3
<1> QED BY <1>1 DEF ParamsPlaced

\* Converting the parameters of a route.
LEMMA AllConverted ==
  ASSUME NEW rs \in Setups, NEW acc, Sound(rs, acc.schemas, acc.params), acc.places = <<>>,
         NEW d \in AllOf(rs), NEW b, b = ConvertAll(acc, d)
  PROVE  /\ Sound(rs, b.schemas, b.params) /\ Stays(acc.schemas, b.schemas)
         /\ Grows(acc.params, b.params, Lost(rs), Sought(rs))
         /\ ParamsPlaced(rs, b.schemas, b.params, d, b.places, Len(ParamsOf(d)))
<1>1. PICK n \in Nat : n = Len(ParamsOf(d)) /\ DOMAIN ParamsOf(d) = 1..n
  BY SetupsAssumption
<1>2. PICK run : Converts(run, n, acc, d)
  BY <1>1, ConvertRuns
<1> DEFINE Good(g, i) ==
             /\ Sound(rs, g.schemas, g.params) /\ Stays(acc.schemas, g.schemas)
             /\ Grows(acc.params, g.params, Lost(rs), Sought(rs))
             /\ ParamsPlaced(rs, g.schemas, g.params, d, g.places, i)
           good == {i \in 0..n : Good(run[i], i)}
<1>3. 0 \in good
  <2>1. run[0] = acc
    BY <1>2 DEF Converts
  <2>2. IsHeap(<<>>) /\ DOMAIN <<>> = 1..0
    <3>1. <<>> = [k \in 1..0 |-> <<>>[k]]
      OBVIOUS
    <3> QED BY <3>1 DEF IsHeap
  <2>3. Good(acc, 0)
    BY <2>2 DEF Stays, Grows, ParamsPlaced
  <2> QED BY <2>1, <2>3
<1>4. ASSUME NEW i \in 1..n, i - 1 \in good PROVE i \in good
  <2>1. PICK g, h : g = run[i - 1] /\ h = run[i]
    OBVIOUS
  <2>2. Good(g, i - 1)
    BY <1>4, <2>1
  <2>3. h = ConvertParam(g, d, ParamsOf(d)[i])
    BY <1>2, <2>1 DEF Converts
  <2>4. /\ Sound(rs, h.schemas, h.params) /\ Stays(g.schemas, h.schemas)
        /\ Grows(g.params, h.params, Lost(rs), Sought(rs))
        /\ \E k : h.places = Append(g.places, k) /\ ParamPlaced(rs, h.schemas, h.params, ParamsOf(d)[i], k)
    <3>1. Taken(rs, g, h, ParamsOf(d)[i])
      BY <1>1, <2>2, <2>3, ParamConverted
    <3> QED BY <3>1 DEF Taken
  <2>5. Stays(acc.schemas, h.schemas) /\ Grows(acc.params, h.params, Lost(rs), Sought(rs))
    BY <2>2, <2>4, StaysOn, GrowsOn
  <2>6. ParamsPlaced(rs, h.schemas, h.params, d, g.places, i - 1)
    BY <2>2, <2>4, ParamsStay
  <2>7. PICK k : h.places = Append(g.places, k) /\ ParamPlaced(rs, h.schemas, h.params, ParamsOf(d)[i], k)
    BY <2>4
  <2>8. /\ IsHeap(h.places) /\ DOMAIN h.places = 1..i /\ h.places[i] = k
        /\ \A j \in 1..(i - 1) : h.places[j] = g.places[j]
    <3>1. IsHeap(g.places) /\ DOMAIN g.places = 1..(i - 1)
      BY <2>6 DEF ParamsPlaced
    <3>2. /\ IsHeap(h.places) /\ Len(g.places) \in Nat /\ DOMAIN g.places = 1..Len(g.places)
          /\ DOMAIN h.places = 1..(Len(g.places) + 1) /\ h.places[Len(g.places) + 1] = k
          /\ \A j \in DOMAIN g.places : h.places[j] = g.places[j]
      BY <2>7, <3>1, HeapAppend
    <3>3. Len(g.places) = i - 1
      BY <3>1, <3>2
    <3> QED BY <3>1, <3>2, <3>3
  <2>9. ParamsPlaced(rs, h.schemas, h.params, d, h.places, i)
    <3>1. ASSUME NEW j \in 1..i PROVE ParamPlaced(rs, h.schemas, h.params, ParamsOf(d)[j], h.places[j])
      <4>1. CASE j = i
        BY <2>7, <2>8, <4>1
      <4>2. CASE j # i
        <5>1. j \in 1..(i - 1)
          BY <4>2
        <5> QED BY <2>6, <2>8, <5>1 DEF ParamsPlaced
      <4> QED BY <4>1, <4>2
    <3> QED BY <2>8, <3>1 DEF ParamsPlaced
  <2>10. Good(h, i)
    BY <2>4, <2>5, <2>9
  <2> QED BY <2>1, <2>10
<1>5. n \in good
  <2> HIDE DEF good
  <2>1. \A i \in 1..n : i - 1 \in good => i \in good
    BY <1>4
  <2>2. \A i \in 0..n : i \in good
    BY <1>3, <2>1, Inductive
  <2> QED BY <2>2
<1> QED BY <1>1, <1>2, <1>5 DEF Converts

-----------------------------------------------------------------------------
(* Their operations.                                                        *)

\* A place has a schema of a type, under a name.
SchemaPlaced(rs, schemas, name, schema, k) ==
  k \in DOMAIN schemas.heap /\ DescribedAs(SchemaMeans(rs), name, schema, Content(schemas, k))

\* An operation says of a route what it takes and what it answers.
OperationRight(rs, schemas, params, d, op) ==
  /\ IF HasBody(d) THEN SchemaPlaced(rs, schemas, BodyName, SchemaOf(d, d.bodyType, FALSE), op.body)
     ELSE op.body = None
  /\ ParamsPlaced(rs, schemas, params, d, op.params, Len(ParamsOf(d)))
  /\ d.method # "OPTIONS" =>
       SchemaPlaced(rs, schemas, TypeName(d.response, d.view.name), SchemaOf(d, d.response, TRUE), op.success)

\* What an operation says stays.
LEMMA OperationStays ==
  ASSUME NEW rs, NEW schemas, NEW params, NEW more, NEW others, Stays(schemas, more),
         Grows(params, others, Lost(rs), Sought(rs)),
         NEW d, NEW op, OperationRight(rs, schemas, params, d, op)
  PROVE  OperationRight(rs, more, others, d, op)
<1>1. \A name, schema, k : SchemaPlaced(rs, schemas, name, schema, k) => SchemaPlaced(rs, more, name, schema, k)
  BY DEF SchemaPlaced, Stays
<1>2. ParamsPlaced(rs, more, others, d, op.params, Len(ParamsOf(d)))
  BY ParamsStay DEF OperationRight
<1> QED BY <1>1, <1>2 DEF OperationRight

\* Describing the body, the parameters and the answer of a route.
LEMMA OperationGenerated ==
  ASSUME NEW rs \in Setups, NEW g, Sound(rs, g.schemas, g.params), NEW d \in AllOf(rs),
         NEW b, b = GenerateOperation(g, d)
  PROVE  /\ Sound(rs, b.schemas, b.params) /\ Stays(g.schemas, b.schemas)
         /\ Grows(g.params, b.params, Lost(rs), Sought(rs))
         /\ \E op : /\ b.paths = With(g.paths, d.uri, [m \in {d.method} \cap {"GET", "POST"} |-> op])
                    /\ OperationRight(rs, b.schemas, b.params, d, op)
<1>1. PICK body : body = RequestBody(g.schemas, d)
  OBVIOUS
<1>2. PICK start : start = [schemas |-> body, params |-> g.params, places |-> <<>>]
  OBVIOUS
<1>3. PICK taken : taken = ConvertAll(start, d)
  OBVIOUS
<1>4. PICK made : made = Responses(taken.schemas, d)
  OBVIOUS
<1>5. PICK op : op = [body |-> IF HasBody(d) THEN Len(body.heap) ELSE None, params |-> taken.places,
                      success |-> Len(made.heap)]
  OBVIOUS
<1>6. /\ b.schemas = made /\ b.params = taken.params
      /\ b.paths = With(g.paths, d.uri, [m \in {d.method} \cap {"GET", "POST"} |-> op])
  BY <1>1, <1>2, <1>3, <1>4, <1>5 DEF GenerateOperation
<1>7. PICK means : means = SchemaMeans(rs) /\ NoRefs(means)
  BY SchemasNoRefs
<1>8. ASSUME NEW u \in SchemasNamed(d) PROVE <<u[1], Inline(u[2])>> \in means
  BY <1>7, <1>8, Zenon DEF SchemaMeans
<1>9. /\ SchemasSound(body, means) /\ Stays(g.schemas, body)
      /\ HasBody(d) => SchemaPlaced(rs, body, BodyName, SchemaOf(d, d.bodyType, FALSE), Len(body.heap))
  <2>1. SchemasSound(g.schemas, means)
    BY <1>7 DEF Sound
  <2>2. CASE ~HasBody(d)
    BY <1>1, <2>1, <2>2 DEF RequestBody, Stays
  <2>3. CASE HasBody(d)
    <3>1. body = GetOrGenerate(g.schemas, d, d.bodyType, FALSE, BodyName)
      BY <1>1, <2>3 DEF RequestBody
    <3>2. PICK u : u = <<BodyName, SchemaOf(d, d.bodyType, FALSE)>>
      OBVIOUS
    <3>3. u \in SchemasNamed(d)
      BY <2>3, <3>2 DEF SchemasNamed
    <3>4. <<BodyName, Inline(SchemaOf(d, d.bodyType, FALSE))>> \in means
      BY <1>8, <3>2, <3>3
    <3>5. PICK name, type : name = BodyName /\ type = d.bodyType
      OBVIOUS
    <3>6. /\ SchemasSound(body, means) /\ Stays(g.schemas, body)
          /\ Len(body.heap) \in DOMAIN body.heap
          /\ DescribedAs(means, name, SchemaOf(d, type, FALSE), Content(body, Len(body.heap)))
      <4>1. <<name, Inline(SchemaOf(d, type, FALSE))>> \in means
        BY <3>4, <3>5
      <4>2. body = GetOrGenerate(g.schemas, d, type, FALSE, name)
        BY <3>1, <3>5
      <4> QED BY <1>7, <2>1, <4>1, <4>2, GetOrGenerateSound
    <3> QED BY <1>7, <3>5, <3>6 DEF SchemaPlaced
  <2> QED BY <2>2, <2>3
<1>10. Sound(rs, start.schemas, start.params) /\ start.places = <<>>
  <2>1. PartSound(g.params, "parameters", ParamMeans(rs, body), Lost(rs))
    BY <1>9, ParamMeansGrow, MeansMore DEF Sound
  <2> QED BY <1>2, <1>7, <1>9, <2>1 DEF Sound
<1>11. /\ Sound(rs, taken.schemas, taken.params)
       /\ Stays(body, taken.schemas) /\ Grows(g.params, taken.params, Lost(rs), Sought(rs))
       /\ ParamsPlaced(rs, taken.schemas, taken.params, d, taken.places, Len(ParamsOf(d)))
  <2>1. /\ Sound(rs, taken.schemas, taken.params)
        /\ Stays(start.schemas, taken.schemas) /\ Grows(start.params, taken.params, Lost(rs), Sought(rs))
        /\ ParamsPlaced(rs, taken.schemas, taken.params, d, taken.places, Len(ParamsOf(d)))
    BY <1>3, <1>10, AllConverted
  <2> QED BY <1>2, <2>1
<1>12. /\ SchemasSound(made, means) /\ Stays(taken.schemas, made)
       /\ d.method # "OPTIONS" =>
            SchemaPlaced(rs, made, TypeName(d.response, d.view.name), SchemaOf(d, d.response, TRUE), Len(made.heap))
  <2>1. SchemasSound(taken.schemas, means)
    BY <1>7, <1>11 DEF Sound
  <2>2. CASE d.method = "OPTIONS"
    BY <1>4, <2>1, <2>2 DEF Responses, Stays
  <2>3. CASE d.method # "OPTIONS"
    <3>1. PICK name, type : name = TypeName(d.response, d.view.name) /\ type = d.response
      OBVIOUS
    <3>2. made = GetOrGenerate(taken.schemas, d, type, TRUE, name)
      BY <1>4, <2>3, <3>1 DEF Responses
    <3>3. PICK u : u = <<name, SchemaOf(d, type, TRUE)>>
      OBVIOUS
    <3>4. u \in SchemasNamed(d)
      BY <3>1, <3>3 DEF SchemasNamed
    <3>5. <<name, Inline(SchemaOf(d, type, TRUE))>> \in means
      BY <1>8, <3>3, <3>4
    <3>6. /\ SchemasSound(made, means) /\ Stays(taken.schemas, made)
          /\ Len(made.heap) \in DOMAIN made.heap
          /\ DescribedAs(means, name, SchemaOf(d, type, TRUE), Content(made, Len(made.heap)))
      BY <1>7, <2>1, <3>2, <3>5, GetOrGenerateSound
    <3> QED BY <1>7, <3>1, <3>6 DEF SchemaPlaced
  <2> QED BY <2>2, <2>3
<1>13. Sound(rs, made, taken.params)
  <2>1. PartSound(taken.params, "parameters", ParamMeans(rs, made), Lost(rs))
    BY <1>11, <1>12, ParamMeansGrow, MeansMore DEF Sound
  <2> QED BY <1>7, <1>11, <1>12, <2>1 DEF Sound
<1>14. Stays(g.schemas, made) /\ Stays(body, made)
  BY <1>9, <1>11, <1>12, StaysOn
<1>15. OperationRight(rs, made, taken.params, d, op)
  <2>1. ParamsPlaced(rs, made, taken.params, d, taken.places, Len(ParamsOf(d)))
    <3>1. Grows(taken.params, taken.params, Lost(rs), Sought(rs))
      BY DEF Grows
    <3> QED BY <1>11, <1>12, <3>1, ParamsStay
  <2>2. HasBody(d) => SchemaPlaced(rs, made, BodyName, SchemaOf(d, d.bodyType, FALSE), Len(body.heap))
    BY <1>9, <1>14 DEF SchemaPlaced, Stays
  <2> QED BY <1>5, <1>12, <2>1, <2>2 DEF OperationRight
<1> QED BY <1>6, <1>11, <1>13, <1>14, <1>15

\* The routes up to one, each with its operation unless a later one has its URI.
RoutesRight(rs, g, n) ==
  \A i \in 1..n : (\A k \in (i + 1)..n : Described(rs[k]).uri # Described(rs[i]).uri) =>
    LET d == Described(rs[i])
    IN /\ d.uri \in DOMAIN g.paths
       /\ \E op : /\ g.paths[d.uri] = [m \in {d.method} \cap {"GET", "POST"} |-> op]
                  /\ OperationRight(rs, g.schemas, g.params, d, op)

\* The document of routes has what their operations need, and their operations.
LEMMA PathsGenerated ==
  ASSUME NEW rs \in Setups, NEW g, g = GeneratePaths([i \in DOMAIN rs |-> Described(rs[i])])
  PROVE  Sound(rs, g.schemas, g.params) /\ RoutesRight(rs, g, Len(rs))
<1>1. PICK n \in Nat : n = Len(rs) /\ DOMAIN rs = 1..n
  BY SetupsAssumption
<1>2. PICK ds : ds = [i \in DOMAIN rs |-> Described(rs[i])]
  OBVIOUS
<1>3. DOMAIN ds = 1..n /\ \A i \in 1..n : ds[i] = Described(rs[i]) /\ ds[i] \in AllOf(rs)
  BY <1>1, <1>2 DEF AllOf
<1>4. PICK run : Generates(run, n, ds)
  BY <1>3, GenerateRuns
<1> DEFINE Good(h, i) == Sound(rs, h.schemas, h.params) /\ RoutesRight(rs, h, i)
           good == {i \in 0..n : Good(run[i], i)}
<1>5. 0 \in good
  <2>1. run[0] = NoDocument
    BY <1>4 DEF Generates
  <2>2. PICK e : e = Empty
    OBVIOUS
  <2>3. DOMAIN e.heap = {} /\ DOMAIN e.index = {} /\ DOMAIN e.common = {} /\ IsHeap(e.heap)
    <3>1. e.heap = [k \in 1..0 |-> e.heap[k]] /\ DOMAIN e.heap = 1..0
      BY <2>2 DEF Empty
    <3>2. IsHeap(e.heap)
      BY <3>1 DEF IsHeap
    <3> QED BY <2>2, <3>2 DEF Empty
  <2>4. \A section, means, lost : PartSound(e, section, means, lost)
    BY <2>3 DEF PartSound
  <2>5. Sound(rs, e, e)
    BY <2>3, <2>4 DEF Sound, SchemasSound
  <2>6. NoDocument.schemas = e /\ NoDocument.params = e
    BY <2>2 DEF NoDocument
  <2>7. RoutesRight(rs, NoDocument, 0)
    BY DEF RoutesRight
  <2> QED BY <2>1, <2>5, <2>6, <2>7
<1>6. ASSUME NEW i \in 1..n, i - 1 \in good PROVE i \in good
  <2>1. PICK f, h : f = run[i - 1] /\ h = run[i]
    OBVIOUS
  <2>2. Sound(rs, f.schemas, f.params) /\ RoutesRight(rs, f, i - 1)
    BY <1>6, <2>1
  <2>3. PICK d : d = Described(rs[i]) /\ d \in AllOf(rs)
    BY <1>3
  <2>4. h = GenerateOperation(f, d)
    BY <1>3, <1>4, <2>1, <2>3 DEF Generates
  <2>5. /\ Sound(rs, h.schemas, h.params) /\ Stays(f.schemas, h.schemas)
        /\ Grows(f.params, h.params, Lost(rs), Sought(rs))
        /\ \E op : /\ h.paths = With(f.paths, d.uri, [m \in {d.method} \cap {"GET", "POST"} |-> op])
                   /\ OperationRight(rs, h.schemas, h.params, d, op)
    BY <2>2, <2>3, <2>4, OperationGenerated
  <2>6. PICK op : /\ h.paths = With(f.paths, d.uri, [m \in {d.method} \cap {"GET", "POST"} |-> op])
                  /\ OperationRight(rs, h.schemas, h.params, d, op)
    BY <2>5
  <2>7. PICK item : item = [m \in {d.method} \cap {"GET", "POST"} |-> op]
    OBVIOUS
  <2>8. /\ DOMAIN h.paths = DOMAIN f.paths \cup {d.uri} /\ h.paths[d.uri] = item
        /\ \A uri \in DOMAIN f.paths : uri # d.uri => h.paths[uri] = f.paths[uri]
    BY <2>6, <2>7 DEF With
  <2>9. RoutesRight(rs, h, i)
    <3> SUFFICES ASSUME NEW j \in 1..i, \A k \in (j + 1)..i : Described(rs[k]).uri # Described(rs[j]).uri
                 PROVE  /\ Described(rs[j]).uri \in DOMAIN h.paths
                        /\ \E o : /\ h.paths[Described(rs[j]).uri]
                                       = [m \in {Described(rs[j]).method} \cap {"GET", "POST"} |-> o]
                                  /\ OperationRight(rs, h.schemas, h.params, Described(rs[j]), o)
      BY DEF RoutesRight
    <3>1. CASE j = i
      BY <2>3, <2>6, <2>7, <2>8, <3>1
    <3>2. CASE j # i
      <4>1. PICK e : e = Described(rs[j])
        OBVIOUS
      <4>2. j \in 1..(i - 1) /\ (\A k \in (j + 1)..(i - 1) : Described(rs[k]).uri # Described(rs[j]).uri)
        BY <3>2
      <4>3. e.uri # d.uri
        BY <2>3, <3>2, <4>1
      <4>4. /\ e.uri \in DOMAIN f.paths
            /\ \E o : /\ f.paths[e.uri] = [m \in {e.method} \cap {"GET", "POST"} |-> o]
                      /\ OperationRight(rs, f.schemas, f.params, e, o)
        BY <2>2, <4>1, <4>2 DEF RoutesRight
      <4>5. PICK o : /\ f.paths[e.uri] = [m \in {e.method} \cap {"GET", "POST"} |-> o]
                     /\ OperationRight(rs, f.schemas, f.params, e, o)
        BY <4>4
      <4>6. OperationRight(rs, h.schemas, h.params, e, o)
        BY <2>5, <4>5, OperationStays
      <4> QED BY <2>8, <4>1, <4>3, <4>4, <4>5, <4>6
    <3> QED BY <3>1, <3>2
  <2> QED BY <2>1, <2>5, <2>9
<1>7. n \in good
  <2> HIDE DEF good
  <2>1. \A i \in 1..n : i - 1 \in good => i \in good
    BY <1>6
  <2>2. \A i \in 0..n : i \in good
    BY <1>5, <2>1, Inductive
  <2> QED BY <2>2
<1>8. run[n] = g
  BY <1>2, <1>4 DEF Generates
<1> QED BY <1>1, <1>7, <1>8

-----------------------------------------------------------------------------
(* The document.                                                           *)

\* There is no document, or the one of the routes.
DocInv ==
  /\ routes \in Setups
  /\ doc = NoDocument \/ doc = GeneratePaths([i \in Routes |-> Described(routes[i])])

\* DocInv is inductive.
LEMMA DocInvHolds == DocSpec => []DocInv
<1>1. DocInit => DocInv
  BY DEF DocInit, DocInv
<1>2. DocInv /\ [GenerateSpec]_<<routes, doc>> => DocInv'
  <2> SUFFICES ASSUME DocInv, [GenerateSpec]_<<routes, doc>> PROVE DocInv'
    OBVIOUS
  <2>1. CASE GenerateSpec
    BY <2>1 DEF DocInv, GenerateSpec, Routes
  <2>2. CASE UNCHANGED <<routes, doc>>
    BY <2>2 DEF DocInv, Routes
  <2> QED BY <2>1, <2>2
<1> QED BY <1>1, <1>2, PTL DEF DocSpec

\* Whatever is met in whatever order (NothingDangles): references to schemas have names of components
\* that are no references, but a path that is not the one of their section, so that none is found by
\* it. References to parameters are found, and lead to no reference, when they have a name that is
\* looked for by the parameters that are kept under it, and only those. Every parameter has a schema.
THEOREM NothingIsDangling == DocSpec => []NothingDangles
<1>1. DocInv => NothingDangles
  <2> SUFFICES ASSUME DocInv PROVE NothingDangles
    OBVIOUS
  <2>1. CASE doc = NoDocument
    <3>1. DOMAIN doc.schemas.heap = {} /\ DOMAIN doc.params.heap = {}
      BY <2>1 DEF NoDocument, Empty
    <3> QED BY <3>1 DEF NothingDangles
  <2>2. CASE doc = GeneratePaths([i \in Routes |-> Described(routes[i])])
    <3>1. PICK schemas, params : schemas = doc.schemas /\ params = doc.params
      OBVIOUS
    <3>2. PICK rs, lost : rs = routes /\ lost = Lost(rs)
      OBVIOUS
    <3>3. Sound(rs, schemas, params)
      <4>1. PICK g : g = doc
        OBVIOUS
      <4>2. Sound(routes, g.schemas, g.params)
        BY <2>2, <4>1, PathsGenerated DEF DocInv, Routes
      <4> QED BY <3>1, <3>2, <4>1, <4>2
    <3>4. DOMAIN Components = {"schemas", "parameters"} /\ Components["parameters"] = params.common
      BY <3>1 DEF Components
    <3>5. ASSUME NEW k \in DOMAIN schemas.heap
          PROVE  Resolves(schemas, k) /\ (IsRef(schemas.heap[k]) => ~Found(schemas.heap[k]))
      <4>1. PartSound(schemas, "schema", SchemaMeans(rs), {})
        BY <3>3 DEF Sound, SchemasSound
      <4>2. Resolves(schemas, k)
        BY <4>1, SchemasNoRefs, AllResolve
      <4>3. IsRef(schemas.heap[k]) => schemas.heap[k].section = "schema"
        BY <4>1, Zenon DEF PartSound
      <4> QED BY <3>4, <4>2, <4>3 DEF Found
    <3>6. PartSound(params, "parameters", ParamMeans(rs, schemas), lost) /\ NoRefs(ParamMeans(rs, schemas))
      BY <3>2, <3>3, ParamsNoRefs DEF Sound
    <3>7. ASSUME NEW k \in DOMAIN params.heap, NEW c, c = params.heap[k], IsRef(c), Clear(rs, c.ref)
          PROVE  Resolves(params, k) /\ Found(c)
      <4>1. c.ref \notin lost
        BY <3>2, <3>7 DEF Lost
      <4>2. Resolves(params, k)
        BY <3>6, <3>7, <4>1, AllResolve
      <4>3. c.section = "parameters" /\ c.ref \in DOMAIN params.common
        BY <3>6, <3>7, <4>1, Zenon DEF PartSound
      <4> QED BY <3>4, <4>2, <4>3 DEF Found
    <3>8. ASSUME NEW k \in DOMAIN params.heap, NEW c, c = params.heap[k], ~IsRef(c)
          PROVE  c.schema \in DOMAIN schemas.heap
      <4>1. Meant(ParamMeans(rs, schemas), c)
        BY <3>6, <3>8, Zenon DEF PartSound
      <4>2. PICK n : <<n, c>> \in ParamMeans(rs, schemas)
        BY <4>1 DEF Meant
      <4>3. PICK p, j : j \in DOMAIN schemas.heap /\ c = ParamIn(p, j)
        BY <4>2, ParamMeansIs
      <4> QED BY <4>3 DEF ParamIn
    <3> QED BY <3>1, <3>2, <3>5, <3>7, <3>8 DEF NothingDangles
  <2> QED BY <2>1, <2>2 DEF DocInv
<1> QED BY <1>1, DocInvHolds, PTL

\* What is said of a schema in a place of it.
LEMMA PlacedSays ==
  ASSUME NEW schemas, schemas = doc.schemas, NEW rs, rs = routes, SchemasSound(schemas, SchemaMeans(rs)),
         NEW name, NEW schema, NEW k, SchemaPlaced(rs, schemas, name, schema, k)
  PROVE  Says(k, name, schema)
<1>1. k \in DOMAIN schemas.heap /\ DescribedAs(SchemaMeans(rs), name, schema, Content(schemas, k))
  BY DEF SchemaPlaced
<1>2. Resolves(schemas, k)
  BY <1>1, SchemasNoRefs, AllResolve DEF SchemasSound
<1> QED BY <1>1, <1>2 DEF Says

\* What is said of a parameter in its place.
LEMMA ParamPlacedSays ==
  ASSUME NEW schemas, schemas = doc.schemas, NEW params, params = doc.params, NEW rs, rs = routes,
         Sound(rs, schemas, params), NEW p, p.kind \notin Undescribed, OnItsOwn(rs, p),
         NEW k, ParamPlaced(rs, schemas, params, p, k)
  PROVE  ParamSays(k, p)
<1>1. k \in DOMAIN params.heap /\ Held(params, Lost(rs), Sought(rs), k)
  BY DEF ParamPlaced
<1>2. PICK c : c = Content(params, k)
  OBVIOUS
<1>3. PICK x \in ParamsAmong(rs), j \in DOMAIN schemas.heap :
        SchemaFor(rs, schemas, x, j) /\ Alike(x[2], p) /\ c = ParamIn(x[2], j)
  BY <1>2 DEF ParamPlaced, ParamFor
<1>4. Resolves(params, k)
  <2>1. PartSound(params, "parameters", ParamMeans(rs, schemas), Lost(rs)) /\ NoRefs(ParamMeans(rs, schemas))
    BY ParamsNoRefs DEF Sound
  <2> QED BY <1>1, <2>1, AllResolve DEF Held
<1>5. c.name = Lookup(p) /\ c.in = x[2].kind /\ c.schema = j
  BY <1>3 DEF ParamIn, Alike
<1>6. Says(j, TypeName(x[2].type, x[2].name), SchemaOf(x[1], x[2].type, FALSE))
  <2>1. PICK name, schema : name = TypeName(x[2].type, x[2].name) /\ schema = SchemaOf(x[1], x[2].type, FALSE)
    OBVIOUS
  <2>2. SchemaPlaced(rs, schemas, name, schema, j) /\ SchemasSound(schemas, SchemaMeans(rs))
    BY <1>3, <2>1 DEF SchemaFor, SchemaPlaced, Sound
  <2> QED BY <2>1, <2>2, PlacedSays
<1> QED BY <1>2, <1>3, <1>4, <1>5, <1>6 DEF ParamSays

\* The document is whole, and wherever a schema or a parameter of a route is described, once or again,
\* what is there is what the route has, or another of the same name (DocumentTrue).
THEOREM DocumentDescribes == DocSpec => []DocumentTrue
<1>1. DocInv => ReferencesResolve
  <2> SUFFICES ASSUME DocInv, NEW i \in Routes, Documented(i)
               PROVE  LET op == Operation(i)
                          d  == Described(routes[i])
                          ps == ParamsOf(d)
                      IN /\ d.uri \in DOMAIN doc.paths /\ DOMAIN doc.paths[d.uri] = {d.method}
                         /\ Says(op.success, TypeName(d.response, d.view.name), SchemaOf(d, d.response, TRUE))
                         /\ IF HasBody(d) THEN Says(op.body, BodyName, SchemaOf(d, d.bodyType, FALSE))
                            ELSE op.body = None
                         /\ DOMAIN op.params = DOMAIN ps
                         /\ \A k \in DOMAIN ps :
                              IF ps[k].kind \in Undescribed THEN op.params[k] = None
                              ELSE /\ op.params[k] \in DOMAIN doc.params.heap
                                   /\ OnItsOwn(routes, ps[k]) => ParamSays(op.params[k], ps[k])
    BY DEF ReferencesResolve
  <2>1. PICK d : d = Described(routes[i]) /\ d \in AllOf(routes)
    BY DEF AllOf, Routes
  <2>2. d.method \in {"GET", "POST"} /\ d.method # "OPTIONS"
    BY <2>1 DEF Documented
  <2>3. PICK schemas, params, paths, rs :
          schemas = doc.schemas /\ params = doc.params /\ paths = doc.paths /\ rs = routes
    OBVIOUS
  <2>4. rs \in Setups /\ Sound(rs, schemas, params) /\ RoutesRight(rs, doc, Len(rs))
    <3>1. PICK g : g = doc
      OBVIOUS
    <3>2. routes \in Setups /\ g = GeneratePaths([j \in DOMAIN routes |-> Described(routes[j])])
      BY <3>1 DEF DocInv, Documented, Routes
    <3>3. Sound(routes, g.schemas, g.params) /\ RoutesRight(routes, g, Len(routes))
      BY <3>2, PathsGenerated DEF DocInv
    <3> QED BY <2>3, <3>1, <3>2, <3>3
  <2>5. PICK n \in Nat : n = Len(rs) /\ DOMAIN rs = 1..n
    BY <2>4, SetupsAssumption
  <2>6. PICK m \in Nat : m = Len(ParamsOf(d)) /\ DOMAIN ParamsOf(d) = 1..m
    BY <2>1, <2>3, <2>4, SetupsAssumption
  <2>7. d.uri \in DOMAIN paths /\ \E o : /\ paths[d.uri] = [x \in {d.method} \cap {"GET", "POST"} |-> o]
                                         /\ OperationRight(rs, schemas, params, d, o)
    <3>1. i \in 1..n /\ \A k \in (i + 1)..n : Described(rs[k]).uri # Described(rs[i]).uri
      BY <2>3, <2>5 DEF Documented, Routes
    <3> QED BY <2>1, <2>3, <2>4, <2>5, <3>1 DEF RoutesRight
  <2>8. PICK o : /\ paths[d.uri] = [x \in {d.method} \cap {"GET", "POST"} |-> o]
                 /\ OperationRight(rs, schemas, params, d, o)
    BY <2>7
  <2>9. Operation(i) = o /\ DOMAIN paths[d.uri] = {d.method}
    <3>1. {d.method} \cap {"GET", "POST"} = {d.method}
      BY <2>2
    <3>2. paths[d.uri] = [x \in {d.method} |-> o]
      BY <2>8, <3>1
    <3>3. paths[d.uri][d.method] = o /\ DOMAIN paths[d.uri] = {d.method}
      BY <3>2
    <3> QED BY <2>1, <2>3, <3>3 DEF Operation
  <2>10. SchemasSound(schemas, SchemaMeans(rs))
    BY <2>4 DEF Sound
  <2>11. Says(o.success, TypeName(d.response, d.view.name), SchemaOf(d, d.response, TRUE))
    <3>1. PICK name, schema : name = TypeName(d.response, d.view.name) /\ schema = SchemaOf(d, d.response, TRUE)
      OBVIOUS
    <3>2. SchemaPlaced(rs, schemas, name, schema, o.success)
      BY <2>2, <2>8, <3>1 DEF OperationRight
    <3> QED BY <2>3, <2>10, <3>1, <3>2, PlacedSays
  <2>12. IF HasBody(d) THEN Says(o.body, BodyName, SchemaOf(d, d.bodyType, FALSE)) ELSE o.body = None
    <3>1. ASSUME HasBody(d) PROVE Says(o.body, BodyName, SchemaOf(d, d.bodyType, FALSE))
      <4>1. PICK name, schema : name = BodyName /\ schema = SchemaOf(d, d.bodyType, FALSE)
        OBVIOUS
      <4>2. SchemaPlaced(rs, schemas, name, schema, o.body)
        BY <2>8, <3>1, <4>1 DEF OperationRight
      <4> QED BY <2>3, <2>10, <4>1, <4>2, PlacedSays
    <3> QED BY <2>8, <3>1 DEF OperationRight
  <2>13. ParamsPlaced(rs, schemas, params, d, o.params, m)
    BY <2>6, <2>8 DEF OperationRight
  <2>14. DOMAIN o.params = DOMAIN ParamsOf(d)
    BY <2>6, <2>13 DEF ParamsPlaced
  <2>15. ASSUME NEW k \in DOMAIN ParamsOf(d), NEW p, p = ParamsOf(d)[k]
         PROVE  IF p.kind \in Undescribed THEN o.params[k] = None
                ELSE /\ o.params[k] \in DOMAIN params.heap
                     /\ OnItsOwn(rs, p) => ParamSays(o.params[k], p)
    <3>1. PICK at : at = o.params[k]
      OBVIOUS
    <3>2. ParamPlaced(rs, schemas, params, p, at)
      BY <2>6, <2>13, <2>15, <3>1 DEF ParamsPlaced
    <3>3. CASE p.kind \in Undescribed
      BY <3>1, <3>2, <3>3 DEF ParamPlaced
    <3>4. CASE p.kind \notin Undescribed
      <4>1. at \in DOMAIN params.heap
        BY <3>2, <3>4 DEF ParamPlaced
      <4>2. OnItsOwn(rs, p) => ParamSays(at, p)
        BY <2>3, <2>4, <3>2, <3>4, ParamPlacedSays
      <4> QED BY <3>1, <3>4, <4>1, <4>2
    <3> QED BY <3>3, <3>4
  <2> QED BY <2>1, <2>3, <2>7, <2>9, <2>11, <2>12, <2>14, <2>15
<1> QED BY <1>1, DocInvHolds, NothingIsDangling, PTL DEF DocumentTrue
=============================================================================
