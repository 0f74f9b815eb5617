---------------------------- MODULE RequestProofs ----------------------------
(***************************************************************************)
(* A request, for any routes, views, templates and requests: it is served  *)
(* by the right route, its statements are committed all or not at all, and *)
(* of what fails nothing is lost.                                          *)
(***************************************************************************)
EXTENDS Request, QueryProofs

-----------------------------------------------------------------------------
(* What a path matches: a segment at a time is what the templates mean.    *)

\* The first segments of a URI.
LEMMA Initial ==
  ASSUME NEW s \in Seq(Segment), NEW n \in 0..Len(s)
  PROVE  /\ SubSeq(s, 1, n) \in Seq(Segment)
         /\ Len(SubSeq(s, 1, n)) = n
         /\ \A i \in 1..n : SubSeq(s, 1, n)[i] = s[i]
<1>1. \A i \in 1..n : s[i] \in Segment
  OBVIOUS
<1> QED
  BY <1>1, SubSeqProperties, Z3

\* The templates of routes are those that Node.Add takes.
LEMMA RouteUri ==
  ASSUME NEW r \in Route
  PROVE  /\ Uri(r) \in Seq(Segment) /\ Len(Uri(r)) \in Nat /\ Len(Uri(r)) >= 1
         /\ DOMAIN Uri(r) = 1..Len(Uri(r)) /\ Uri(r)[Len(Uri(r))] \notin OneChar
         /\ \A i \in DOMAIN Uri(r) : Uri(r)[i] # Cut
<1>1. PICK t : t = Uri(r)
  OBVIOUS
<1>2. t \in Seq(Segment) /\ t # <<>> /\ Last(t) \notin OneChar /\ \A i \in DOMAIN t : t[i] # Cut
  BY <1>1, TemplatesAdded DEF Uri, Added
<1>3. Len(t) \in Nat /\ Len(t) >= 1 /\ DOMAIN t = 1..Len(t)
  BY <1>2
<1> QED BY <1>1, <1>2, <1>3 DEF Last

-----------------------------------------------------------------------------
(* The trie.                                                                *)

\* A child of a node is the next segment of a template that begins with the node.
LEMMA ChildOf ==
  ASSUME NEW T \in SUBSET Seq(Segment), NEW node \in Seq(Segment), NEW x
  PROVE  x \in Children(T, node) <=>
           \E t \in T : /\ Len(node) < Len(t) /\ t[Len(node) + 1] = x
                        /\ \A i \in 1..Len(node) : t[i] = node[i]
<1>1. ASSUME NEW t \in T
      PROVE (IsPrefix(node, t) /\ t # node) <=>
              (Len(node) < Len(t) /\ \A i \in 1..Len(node) : t[i] = node[i])
  <2> DEFINE n == Len(node)
  <2>1. t \in Seq(Segment) /\ n \in Nat /\ Len(t) \in Nat
    OBVIOUS
  <2>2. SubSeq(node, 1, n) = node
    BY SubSeqFull
  <2>3. CASE n > Len(t)
    BY <2>1, <2>3 DEF IsPrefix
  <2>4. CASE n <= Len(t)
    <3>1. n \in 0..Len(t)
      BY <2>1, <2>4
    <3>2. /\ SubSeq(t, 1, n) \in Seq(Segment) /\ Len(SubSeq(t, 1, n)) = n
          /\ \A i \in 1..n : SubSeq(t, 1, n)[i] = t[i]
      BY <2>1, <3>1, Initial
    <3>3. (node = SubSeq(t, 1, n)) <=> \A i \in 1..n : t[i] = node[i]
      <4>1. ASSUME \A i \in 1..n : t[i] = node[i] PROVE node = SubSeq(t, 1, n)
        BY <4>1, <3>2, SeqEqual
      <4> QED BY <4>1, <3>2
    <3>4. Len(t) = n /\ (\A i \in 1..n : t[i] = node[i]) => t = node
      BY <2>1, SeqEqual
    <3> QED BY <2>1, <2>2, <2>4, <3>3, <3>4 DEF IsPrefix
  <2> QED BY <2>1, <2>3, <2>4
<1> QED BY <1>1 DEF Children

\* Whether a template is reached: it stands for the path and none is preferred to it.
LEMMA ReachedIffPreferred ==
  ASSUME NEW T \in SUBSET Seq(Segment), NEW path \in Seq(Segment), NEW t \in T
  PROVE  (t \in Through(T, path) /\ Len(t) = Len(path)) <=>
           (Fits(t, path) /\ \A u \in T : ~Hides(u, t, path))
<1> DEFINE Before(i) == SubSeq(t, 1, i - 1)
<1>1. /\ t \in Seq(Segment) /\ Len(t) \in Nat /\ Len(path) \in Nat
      /\ DOMAIN t = 1..Len(t) /\ DOMAIN path = 1..Len(path)
  OBVIOUS
<1>2. t \in UNION {{SubSeq(s, 1, n) : n \in 0..Len(s)} : s \in T}
  <2>1. t = SubSeq(t, 1, Len(t)) /\ Len(t) \in 0..Len(t)
    BY <1>1, SubSeqFull
  <2>2. t \in {SubSeq(t, 1, n) : n \in 0..Len(t)}
    BY <2>1, Zenon
  <2> QED BY <2>2, Zenon
<1>3. ASSUME NEW i \in 1..Len(t), NEW x
      PROVE x \in Children(T, Before(i)) <=>
              \E u \in T : i \in DOMAIN u /\ u[i] = x /\ \A j \in 1..(i - 1) : u[j] = t[j]
  <2>1. PICK b : b = Before(i)
    OBVIOUS
  <2>2. b \in Seq(Segment) /\ Len(b) = i - 1 /\ \A j \in 1..(i - 1) : b[j] = t[j]
    BY <1>1, <2>1, Initial
  <2>3. \A u \in T : Len(u) \in Nat /\ DOMAIN u = 1..Len(u)
    OBVIOUS
  <2>4. x \in Children(T, b) <=>
          \E u \in T : /\ Len(b) < Len(u) /\ u[Len(b) + 1] = x
                       /\ \A j \in 1..Len(b) : u[j] = b[j]
    <3>1. b \in Seq(Segment)
      BY <2>2
    <3> HIDE DEF Before
    <3> QED BY <3>1, ChildOf
  <2>5. x \in Children(T, b) <=>
          \E u \in T : i \in DOMAIN u /\ u[i] = x /\ \A j \in 1..(i - 1) : u[j] = t[j]
    <3>1. /\ i \in Nat /\ i >= 1 /\ i - 1 + 1 = i
          /\ \A u \in T : i - 1 < Len(u) <=> i \in DOMAIN u
      BY <2>3
    <3>2. x \in Children(T, b) <=>
            \E u \in T : /\ i - 1 < Len(u) /\ u[i] = x
                         /\ \A j \in 1..(i - 1) : u[j] = b[j]
      BY <2>2, <2>4, <3>1
    <3> QED BY <2>2, <3>1, <3>2, Zenon
  <2> QED BY <2>1, <2>5
<1> HIDE DEF Before
<1>4. ASSUME t \in Through(T, path), Len(t) = Len(path)
      PROVE Fits(t, path) /\ \A u \in T : ~Hides(u, t, path)
  <2>1. \A i \in 1..Len(t) : t[i] = NextSegment(T, Before(i), path[i])
    BY <1>1, <1>4 DEF Through, Before
  <2>2. Fits(t, path)
    BY <1>1, <1>4, <2>1 DEF Fits, NextSegment
  <2>3. ASSUME NEW u \in T, Hides(u, t, path) PROVE FALSE
    <3>1. PICK i \in DOMAIN u \cap DOMAIN t \cap DOMAIN path :
            /\ \A j \in 1..(i - 1) : u[j] = t[j]
            /\ u[i] = path[i] /\ t[i] = Wild /\ path[i] # Wild
      BY <2>3 DEF Hides
    <3>2. path[i] \in Children(T, Before(i))
      BY <1>1, <1>3, <3>1
    <3> QED BY <1>1, <2>1, <3>1, <3>2 DEF NextSegment
  <2> QED BY <2>2, <2>3
<1>5. ASSUME Fits(t, path), \A u \in T : ~Hides(u, t, path)
      PROVE t \in Through(T, path) /\ Len(t) = Len(path)
  <2>1. Len(t) = Len(path)
    BY <1>5 DEF Fits
  <2>2. ASSUME NEW i \in 1..Len(t) PROVE t[i] = NextSegment(T, Before(i), path[i])
    <3>1. t[i] \in {path[i], Wild}
      BY <1>1, <1>5 DEF Fits
    <3>2. t[i] \in Children(T, Before(i))
      BY <1>1, <1>3
    <3>3. ASSUME path[i] \in Children(T, Before(i)), t[i] # path[i] PROVE FALSE
      <4>1. PICK u \in T : i \in DOMAIN u /\ u[i] = path[i] /\ \A j \in 1..(i - 1) : u[j] = t[j]
        BY <1>3, <3>3
      <4>2. Hides(u, t, path)
        BY <1>1, <2>1, <3>1, <3>3, <4>1 DEF Hides
      <4> QED BY <1>5, <4>2
    <3> QED BY <3>1, <3>2, <3>3 DEF NextSegment
  <2>3. \A i \in DOMAIN t : t[i] = NextSegment(T, SubSeq(t, 1, i - 1), path[i])
    BY <1>1, <2>2 DEF Before
  <2>4. Len(t) <= Len(path)
    BY <1>1, <2>1
  <2> QED BY <1>2, <2>1, <2>3, <2>4, Zenon DEF Through
<1> QED BY <1>4, <1>5

\* MatchAllRoutes, of a method: the routes that are reached by what remains of the path.
LEMMA MatchedAreReached ==
  ASSUME NEW method, method # AnyMethod, NEW path, Relative(path) \in Seq(Segment)
  PROVE  MatchAll(method, path) = Reachable(Relative(path), method)
<1> DEFINE T == Templates(method)
           rel == Relative(path)
<1>1. \A r \in Route : Serves(r, method) <=> (\/ method \in {AnyMethod, RouteConf[r].method}
                                              \/ method = "OPTIONS" /\ RouteConf[r].cors)
  BY DEF Serves
<1>2. T = {Uri(r) : r \in {q \in Route : Serves(q, method)}}
  BY <1>1 DEF Templates
<1>3. T \in SUBSET Seq(Segment)
  BY <1>2, RouteUri
<1>4. ASSUME NEW r \in Route
      PROVE r \in MatchAll(method, path) <=>
              Serves(r, method) /\ Uri(r) \in Through(T, rel) /\ Len(Uri(r)) = Len(rel)
  <2>1. \A n : r \in Matched(method, n) <=> Uri(r) = n /\ Serves(r, method)
    BY <1>1 DEF Matched
  <2>2. \A n : n \in Match(T, path, TRUE) <=> n \in Through(T, rel) /\ Len(n) = Len(rel)
    BY DEF Match
  <2>3. r \in MatchAll(method, path) <=> \E n \in Match(T, path, TRUE) : r \in Matched(method, n)
    <3>1. r \in UNION {Matched(method, n) : n \in Match(T, path, TRUE)} <=>
             \E n \in Match(T, path, TRUE) : r \in Matched(method, n)
      BY Zenon
    <3> QED BY <3>1, Zenon DEF MatchAll
  <2>4. ASSUME r \in MatchAll(method, path)
        PROVE Serves(r, method) /\ Uri(r) \in Through(T, rel) /\ Len(Uri(r)) = Len(rel)
    <3>1. PICK n \in Match(T, path, TRUE) : r \in Matched(method, n)
      BY <2>3, <2>4, Zenon
    <3>2. Uri(r) = n /\ Serves(r, method)
      BY <2>1, <3>1
    <3>3. n \in Through(T, rel) /\ Len(n) = Len(rel)
      BY <2>2, <3>1
    <3> QED BY <3>2, <3>3
  <2>5. ASSUME Serves(r, method), Uri(r) \in Through(T, rel), Len(Uri(r)) = Len(rel)
        PROVE r \in MatchAll(method, path)
    <3>1. Uri(r) \in Match(T, path, TRUE)
      BY <2>2, <2>5
    <3>2. r \in Matched(method, Uri(r))
      BY <2>1, <2>5
    <3> QED BY <2>3, <3>1, <3>2, Zenon
  <2> QED BY <2>4, <2>5
<1>5. ASSUME NEW r \in Route, Serves(r, method)
      PROVE (Uri(r) \in Through(T, rel) /\ Len(Uri(r)) = Len(rel)) <=>
              (Fits(Uri(r), rel) /\ \A q \in Route : Serves(q, method) => ~Hides(Uri(q), Uri(r), rel))
  <2>1. Uri(r) \in T
    BY <1>2, <1>5
  <2>2. PICK t : t = Uri(r)
    OBVIOUS
  <2>3. (t \in Through(T, rel) /\ Len(t) = Len(rel)) <=>
           (Fits(t, rel) /\ \A u \in T : ~Hides(u, t, rel))
    <3> HIDE DEF T
    <3> QED BY <1>3, <2>1, <2>2, ReachedIffPreferred
  <2>4. (\A u \in T : ~Hides(u, t, rel)) <=>
           \A q \in Route : Serves(q, method) => ~Hides(Uri(q), t, rel)
    BY <1>2, Zenon
  <2> QED BY <2>2, <2>3, <2>4
<1>6. \A r \in MatchAll(method, path) : r \in Route
  BY DEF MatchAll, Matched
<1> QED BY <1>4, <1>5, <1>6 DEF Reachable, Fitting

-----------------------------------------------------------------------------
(* What AsRelative takes off a path.                                        *)

\* What AsRelative leaves of a path: all of it but a last segment of one character.
LEMMA RelativeIs ==
  ASSUME NEW path \in Seq(Segment)
  PROVE  /\ Relative(path) \in Seq(Segment)
         /\ \/ Relative(path) = path
            \/ Len(path) = 1 /\ path[1] \in OneChar /\ Relative(path) = <<>>
            \/ /\ Len(path) > 1 /\ path[Len(path)] \in OneChar
               /\ Len(Relative(path)) = Len(path)
               /\ \A i \in 1..(Len(path) - 1) : Relative(path)[i] = path[i]
               /\ Relative(path)[Len(path)] = Cut
<1> DEFINE n == Len(path)
<1>1. n \in Nat
  OBVIOUS
<1>2. CASE path = <<>> \/ Last(path) \notin OneChar
  BY <1>2 DEF Relative
<1>3. CASE path # <<>> /\ Last(path) \in OneChar /\ n = 1
  <2>1. Relative(path) = <<>> /\ path[1] \in OneChar
    BY <1>3 DEF Relative, Last
  <2> QED BY <1>3, <2>1
<1>4. CASE path # <<>> /\ Last(path) \in OneChar /\ n > 1
  <2>1. Relative(path) = Append(Front(path), Cut) /\ path[n] \in OneChar
    <3>1. path[n] = Last(path) /\ Len(path) # 1
      BY <1>4 DEF Last
    <3> QED BY <1>4, <3>1 DEF Relative
  <2>2. Front(path) \in Seq(Segment) /\ Len(Front(path)) = n - 1
        /\ \A i \in 1..(n - 1) : Front(path)[i] = path[i]
    <3>1. n - 1 \in 0..n /\ Front(path) = SubSeq(path, 1, n - 1)
      BY <1>1, <1>4 DEF Front
    <3> QED BY <3>1, Initial
  <2>3. PICK f : f = Front(path)
    OBVIOUS
  <2>4. Cut \in Segment
    BY Segments
  <2>5. /\ Append(f, Cut) \in Seq(Segment) /\ Len(Append(f, Cut)) = n
        /\ \A i \in 1..(n - 1) : Append(f, Cut)[i] = path[i]
        /\ Append(f, Cut)[n] = Cut
    BY <1>1, <1>4, <2>2, <2>3, <2>4
  <2> QED BY <1>4, <2>1, <2>3, <2>5
<1>5. CASE path # <<>> /\ Last(path) \in OneChar /\ n = 0
  BY <1>5
<1>6. n = 0 \/ n = 1 \/ n > 1
  <2>1. \A k \in Nat : k = 0 \/ k = 1 \/ k > 1
    OBVIOUS
  <2> QED BY <1>1, <2>1, Zenon
<1> QED BY <1>2, <1>3, <1>4, <1>5, <1>6, Zenon

\* A template that stands for a path stands for what remains of it, and the other way around.
LEMMA FitsRelative ==
  ASSUME NEW r \in Route, Uri(r) # <<Wild>>, NEW path \in Seq(Segment)
  PROVE  Fits(Uri(r), path) <=> Fits(Uri(r), Relative(path))
<1>1. PICK t : t = Uri(r)
  OBVIOUS
<1>2. /\ t \in Seq(Segment) /\ Len(t) \in Nat /\ Len(t) >= 1 /\ DOMAIN t = 1..Len(t)
      /\ t[Len(t)] \notin OneChar /\ \A i \in DOMAIN t : t[i] # Cut
  BY <1>1, RouteUri
<1>3. ~(Len(t) = 1 /\ t[1] = Wild)
  <2>1. ASSUME Len(t) = 1, t[1] = Wild PROVE t = <<Wild>>
    BY <1>2, <2>1
  <2> QED BY <1>1, <2>1
<1>4. PICK rel : rel = Relative(path)
  OBVIOUS
<1>5. CASE rel = path
  BY <1>1, <1>4, <1>5
<1>6. CASE Len(path) = 1 /\ path[1] \in OneChar /\ rel = <<>>
  <2>1. ~Fits(t, path)
    BY <1>2, <1>3, <1>6 DEF Fits
  <2>2. ~Fits(t, rel)
    BY <1>2, <1>6 DEF Fits
  <2> QED BY <1>1, <1>4, <2>1, <2>2
<1>7. CASE /\ Len(path) > 1 /\ path[Len(path)] \in OneChar
           /\ Len(rel) = Len(path)
           /\ \A i \in 1..(Len(path) - 1) : rel[i] = path[i]
           /\ rel[Len(path)] = Cut
  <2>1. \A i \in DOMAIN t : Len(t) = Len(path) /\ i # Len(t) => rel[i] = path[i]
    BY <1>2, <1>7
  <2>2. Len(t) = Len(path) =>
          (t[Len(t)] \in {path[Len(t)], Wild} <=> t[Len(t)] \in {rel[Len(t)], Wild})
    BY <1>2, <1>7
  <2>3. Fits(t, path) <=> Fits(t, rel)
    BY <1>2, <1>7, <2>1, <2>2 DEF Fits
  <2> QED BY <1>1, <1>4, <2>3
<1> QED BY <1>4, <1>5, <1>6, <1>7, RelativeIs

\* A template is preferred for what remains of a path only if it is for the path, and, when it
\* stands for the path, whenever it is.
LEMMA HidesRelative ==
  ASSUME NEW q \in Route, NEW u, NEW path \in Seq(Segment)
  PROVE  /\ Hides(Uri(q), u, Relative(path)) => Hides(Uri(q), u, path)
         /\ Fits(Uri(q), path) /\ Hides(Uri(q), u, path) => Hides(Uri(q), u, Relative(path))
<1>1. PICK t : t = Uri(q)
  OBVIOUS
<1>2. /\ t \in Seq(Segment) /\ Len(t) \in Nat /\ Len(t) >= 1 /\ DOMAIN t = 1..Len(t)
      /\ t[Len(t)] \notin OneChar /\ \A i \in DOMAIN t : t[i] # Cut
  BY <1>1, RouteUri
<1>3. PICK rel : rel = Relative(path)
  OBVIOUS
<1>4. /\ rel \in Seq(Segment) /\ DOMAIN rel = 1..Len(rel) /\ Len(rel) \in Nat
      /\ DOMAIN path = 1..Len(path) /\ Len(path) \in Nat
  BY <1>3, RelativeIs
<1>5. CASE rel = path
  BY <1>1, <1>3, <1>5
<1>6. CASE Len(path) = 1 /\ path[1] \in OneChar /\ rel = <<>>
  <2>1. ~Hides(t, u, rel)
    BY <1>4, <1>6 DEF Hides
  <2>2. ~(Fits(t, path) /\ Hides(t, u, path))
    BY <1>2, <1>4, <1>6 DEF Hides, Fits
  <2> QED BY <1>1, <1>3, <2>1, <2>2
<1>7. CASE /\ Len(path) > 1 /\ path[Len(path)] \in OneChar
           /\ Len(rel) = Len(path)
           /\ \A i \in 1..(Len(path) - 1) : rel[i] = path[i]
           /\ rel[Len(path)] = Cut
  <2>1. ASSUME Hides(t, u, rel) PROVE Hides(t, u, path)
    <3>1. PICK i \in DOMAIN t \cap DOMAIN u \cap DOMAIN rel :
            /\ \A j \in 1..(i - 1) : t[j] = u[j]
            /\ t[i] = rel[i] /\ u[i] = Wild /\ rel[i] # Wild
      BY <2>1 DEF Hides
    <3>2. i # Len(path)
      BY <1>2, <1>7, <3>1
    <3>3. i \in DOMAIN path /\ rel[i] = path[i]
      BY <1>4, <1>7, <3>1, <3>2
    <3> QED BY <3>1, <3>3 DEF Hides
  <2>2. ASSUME Fits(t, path), Hides(t, u, path) PROVE Hides(t, u, rel)
    <3>1. PICK i \in DOMAIN t \cap DOMAIN u \cap DOMAIN path :
            /\ \A j \in 1..(i - 1) : t[j] = u[j]
            /\ t[i] = path[i] /\ u[i] = Wild /\ path[i] # Wild
      BY <2>2 DEF Hides
    <3>2. i # Len(path)
      BY <1>2, <1>7, <2>2, <3>1 DEF Fits
    <3>3. i \in DOMAIN rel /\ rel[i] = path[i]
      BY <1>4, <1>7, <3>1, <3>2
    <3> QED BY <3>1, <3>3 DEF Hides
  <2> QED BY <1>1, <1>3, <2>1, <2>2
<1> QED BY <1>3, <1>5, <1>6, <1>7, RelativeIs

-----------------------------------------------------------------------------
(* Preferred templates.                                                     *)

\* Of two templates that stand for a path and differ, one is preferred.
LEMMA OneIsPreferred ==
  ASSUME NEW t \in Seq(Segment), NEW u \in Seq(Segment), NEW path \in Seq(Segment),
         Fits(t, path), Fits(u, path), ~Hides(t, u, path), ~Hides(u, t, path)
  PROVE  t = u
<1> DEFINE differ == {i \in 1..Len(path) : t[i] # u[i]}
<1>1. /\ Len(path) \in Nat /\ Len(t) = Len(path) /\ Len(u) = Len(path)
      /\ DOMAIN t = 1..Len(path) /\ DOMAIN u = 1..Len(path) /\ DOMAIN path = 1..Len(path)
  BY DEF Fits
<1>2. CASE differ = {}
  BY <1>1, <1>2, SeqEqual
<1>3. CASE differ # {}
  <2>1. differ \subseteq Nat
    OBVIOUS
  <2>2. PICK less : less = {ss \in Nat \X Nat : ss[1] < ss[2]}
    OBVIOUS
  <2>3. PICK i \in differ : \A j \in differ : ~(<<j, i>> \in less)
    <3>1. IsWellFoundedOn(less, Nat)
      BY <2>2, NatLessThanWellFounded, Zenon DEF OpToRel
    <3> QED BY <1>3, <2>1, <3>1, WFMin, Zenon
  <2>4. \A j \in Nat : j < i => <<j, i>> \in less
    BY <2>1, <2>2
  <2>5. i \in 1..Len(path) /\ t[i] # u[i] /\ \A j \in 1..(i - 1) : t[j] = u[j]
    <3>1. i \in 1..Len(path) /\ t[i] # u[i]
      BY <2>3
    <3>2. ASSUME NEW j \in 1..(i - 1), t[j] # u[j] PROVE FALSE
      <4>1. j \in Nat /\ j < i /\ j \in 1..Len(path)
        BY <1>1, <3>1, <3>2
      <4>2. j \in differ
        BY <3>2, <4>1
      <4>3. <<j, i>> \in less
        BY <2>4, <4>1
      <4> QED BY <2>3, <4>2, <4>3
    <3> QED BY <3>1, <3>2
  <2>6. t[i] \in {path[i], Wild} /\ u[i] \in {path[i], Wild}
    BY <1>1, <2>5 DEF Fits
  <2> QED BY <1>1, <2>5, <2>6 DEF Hides
<1> QED BY <1>2, <1>3

-----------------------------------------------------------------------------
\* What Matcher.MatchOneRoute finds is what the templates mean: the one route whose template
\* stands for the path best, and it does find a route that no other keeps the walk from. A
\* template that is but one parameter is left out: of the path "/5", of one character, it
\* would be found for nothing remains.
THEOREM MatchingIsRight ==
  ASSUME \A r \in Route : Uri(r) # <<Wild>>,
         NEW method, method # AnyMethod, NEW path \in Seq(Segment)
  PROVE  /\ MatchOne(method, path) # {} => MatchOne(method, path) = Preferred(path, method)
         /\ Cardinality(Reachable(path, method)) = 1 => MatchOne(method, path) # {}
<1> DEFINE rel == Relative(path)
           found == Reachable(rel, method)
<1>1. rel \in Seq(Segment)
  BY RelativeIs
<1>2. MatchAll(method, path) = found
  BY <1>1, MatchedAreReached
<1> HIDE DEF rel
<1>3. \A r \in Route : /\ Fits(Uri(r), path) <=> Fits(Uri(r), rel)
                       /\ \A u : /\ Hides(Uri(r), u, rel) => Hides(Uri(r), u, path)
                                 /\ Fits(Uri(r), path) /\ Hides(Uri(r), u, path)
                                      => Hides(Uri(r), u, rel)
  BY FitsRelative, HidesRelative DEF rel
<1>4. found \subseteq Preferred(path, method)
  BY <1>3 DEF Reachable, Preferred, Fitting
<1>5. ASSUME NEW r \in Preferred(path, method), NEW q \in Preferred(path, method)
      PROVE Uri(r) = Uri(q)
  <2>1. /\ r \in Route /\ q \in Route /\ Fits(Uri(r), path) /\ Fits(Uri(q), path)
        /\ ~Hides(Uri(r), Uri(q), path) /\ ~Hides(Uri(q), Uri(r), path)
    BY DEF Preferred, Fitting
  <2>2. Uri(r) \in Seq(Segment) /\ Uri(q) \in Seq(Segment)
    BY <2>1, RouteUri
  <2> QED BY <2>1, <2>2, OneIsPreferred
<1>6. ASSUME NEW r \in found PROVE found = Preferred(path, method)
  <2>1. ASSUME NEW q \in Preferred(path, method) PROVE q \in found
    <3>1. Uri(q) = Uri(r) /\ q \in Route /\ Serves(q, method)
      BY <1>4, <1>5 DEF Preferred, Fitting
    <3> QED BY <3>1 DEF Reachable, Fitting
  <2> QED BY <1>4, <2>1
<1>7. Reachable(path, method) \subseteq found
  BY <1>3 DEF Reachable, Fitting
<1>8. ASSUME NEW r \in Reachable(path, method) PROVE found \subseteq Reachable(path, method)
  <2>1. ASSUME NEW q \in found PROVE q \in Reachable(path, method)
    <3>1. r \in found
      BY <1>7
    <3>2. Uri(q) = Uri(r) /\ q \in Route /\ Serves(q, method)
      BY <1>4, <1>5, <3>1 DEF Preferred, Fitting
    <3> QED BY <3>2 DEF Reachable, Fitting
  <2> QED BY <2>1
<1>9. MatchOne(method, path) # {} => MatchOne(method, path) = Preferred(path, method)
  BY <1>2, <1>6 DEF MatchOne
<1>10. ASSUME Cardinality(Reachable(path, method)) = 1 PROVE MatchOne(method, path) # {}
  <2>1. Reachable(path, method) # {}
    <3>1. Reachable(path, method) = {} => Cardinality(Reachable(path, method)) = 0
      BY FS_EmptySet, Zenon
    <3> QED BY <1>10, <3>1
  <2>2. found = Reachable(path, method)
    BY <1>7, <1>8, <2>1
  <2> QED BY <1>2, <1>10, <2>1, <2>2 DEF MatchOne
<1> QED BY <1>9, <1>10

-----------------------------------------------------------------------------
(* The route of a request.                                                  *)

\* The gateway is asked once, and what was asked stays.
TargetHandled ==
  /\ request \in Requests
  /\ \/ target = Answer("none")
     \/ target = Handle(request.path, request.method, request.keys, request.inside)

\* Only gateway.Router.Handle sets what serves a request, and nothing changes the request.
LEMMA TargetHandledInductive ==
  /\ Init => TargetHandled
  /\ TargetHandled /\ [Next]_vars => TargetHandled'
<1>1. Init => TargetHandled
  BY DEF Init, TargetHandled
<1>2. ASSUME TargetHandled, [Next]_vars PROVE TargetHandled'
  <2>1. CASE HandleRequest
    BY <1>2, <2>1 DEF HandleRequest, selectorVars, TargetHandled
  <2>2. CASE UNCHANGED <<request, target>>
    BY <1>2, <2>2 DEF TargetHandled
  <2>3. CASE CreateSelectors
    BY <2>2, <2>3 DEF CreateSelectors, Build
  <2>4. CASE Select
    BY <2>2, <2>4 DEF Select, SelectorsNext, Wait, Normalize, SelectorOf, Populate, AddParam,
                      AddViewParam, Validate, SetStatus, AddError, Fail, Step
  <2>5. CASE SessionFails \/ SelectorsFail \/ StartRead \/ ReadFailed \/ WriteResponse
    BY <2>2, <2>5 DEF SessionFails, SelectorsFail, StartRead, ReadFailed, WriteResponse, selectorVars
  <2>6. CASE \E v \in View : ReadView(v) \/ NoParents(v)
    BY <2>2, <2>6 DEF ReadView, NoParents, selectorVars
  <2>7. CASE StartExec \/ Execute \/ ExecFailed \/ BodyFails \/ ExecDone
    BY <2>2, <2>7 DEF StartExec, Execute, ExecFailed, BodyFails, ExecDone, selectorVars
  <2>8. CASE UNCHANGED vars
    BY <2>2, <2>8 DEF vars, selectorVars
  <2> QED BY <1>2, <2>1, <2>3, <2>4, <2>5, <2>6, <2>7, <2>8 DEF Next, Serve, Finished
<1> QED BY <1>1, <1>2

\* What is left of a path after its prefix, with that of the API before it.
LEMMA ApiPath ==
  ASSUME NEW path \in Seq(Segment)
  PROVE  AsAPIPrefix(path).path \in Seq(Segment)
<1>1. CASE PrefixOf(path) = {}
  BY <1>1 DEF AsAPIPrefix
<1>2. CASE PrefixOf(path) # {}
  <2> DEFINE p == CHOOSE q \in PrefixOf(path) : TRUE
  <2>1. p \in Prefix
    BY <1>2 DEF PrefixOf
  <2>2. PrefixUri["api"] \in Seq(Segment) /\ PrefixUri[p] \in Seq(Segment)
    BY <2>1, ApiPrefix, TemplatesAdded DEF Added
  <2> HIDE DEF p
  <2>3. PICK n \in Nat : n = Len(PrefixUri[p])
    BY <2>2
  <2>4. SubSeq(path, n + 1, Len(path)) \in Seq(Segment)
    OBVIOUS
  <2>5. PrefixUri["api"] \o SubSeq(path, n + 1, Len(path)) \in Seq(Segment)
    BY <2>2, <2>4
  <2> QED BY <1>2, <2>3, <2>5 DEF AsAPIPrefix, p
<1> QED BY <1>1, <1>2

\* What the gateway finds: routes only where one was matched, and none only where none was.
LEMMA HandleFinds ==
  ASSUME NEW path, NEW method, NEW keys, NEW inside
  PROVE  LET at_ == AsAPIPrefix(path)
             found == MatchOne(method, at_.path)
             kind == Handle(path, method, keys, inside).kind
         IN /\ kind \in {"read", "exec", "cors"} =>
                 found # {} /\ Handle(path, method, keys, inside).routes = found
            /\ kind = "notfound" => found = {}
<1> DEFINE at_ == AsAPIPrefix(path)
           found == MatchOne(method, at_.path)
           h == Handle(path, method, keys, inside)
<1>1. \/ h = Answer("forbidden")
      \/ at_.prefix \in {"metric", "config", "status"} /\ h = Answer(at_.prefix)
      \/ h = MatchByMultiRoutes(at_.path, keys)
      \/ h = MatchByRoute(method, at_, keys)
  BY DEF Handle
<1>2. MatchByMultiRoutes(at_.path, keys).kind \in {"forbidden", "openapi"}
  BY DEF MatchByMultiRoutes, Answer, Found
<1>3. LET m == MatchByRoute(method, at_, keys)
      IN /\ m.kind \in {"read", "exec", "cors"} => found # {} /\ m.routes = found
         /\ m.kind = "notfound" => found = {}
  <2> DEFINE route == CHOOSE r \in found : TRUE
             m == MatchByRoute(method, at_, keys)
  <2>1. CASE found = {}
    BY <2>1 DEF MatchByRoute, Answer
  <2>2. CASE found # {}
    <3>1. \/ m = Answer("forbidden")
          \/ at_.prefix \in {"view", "warmup"} /\ m = Found(at_.prefix, found)
          \/ m = Found(Handled(method, route), found)
      BY <2>2 DEF MatchByRoute
    <3>2. Handled(method, route) # "notfound"
      BY DEF Handled
    <3> HIDE DEF m, route
    <3>3. m.kind # "notfound" /\ (m.kind \in {"read", "exec", "cors"} => m.routes = found)
      BY <3>1, <3>2 DEF Answer, Found
    <3> QED BY <2>2, <3>3 DEF m
  <2> QED BY <2>1, <2>2
<1> HIDE DEF h
<1>4. /\ h.kind \in {"read", "exec", "cors"} => found # {} /\ h.routes = found
      /\ h.kind = "notfound" => found = {}
  BY <1>1, <1>2, <1>3 DEF Answer
<1> QED BY <1>4 DEF h

\* A request is served by the route whose template stands for its path best, and is answered
\* that there is none only if none can be reached. No template may be one parameter alone.
THEOREM ServedByTheRightRoute ==
  ASSUME \A r \in Route : Uri(r) # <<Wild>>
  PROVE  Spec => []RoutedRight
<1>1. ASSUME TargetHandled PROVE RoutedRight
  <2> DEFINE path == AsAPIPrefix(request.path).path
             method == request.method
  <2>1. path \in Seq(Segment) /\ method # AnyMethod
    BY <1>1, ApiPath, RequestAssumption DEF TargetHandled
  <2>2. /\ MatchOne(method, path) # {} => MatchOne(method, path) = Preferred(path, method)
        /\ Cardinality(Reachable(path, method)) = 1 => MatchOne(method, path) # {}
    BY <2>1, MatchingIsRight
  <2>3. CASE target = Answer("none")
    BY <2>3 DEF Answer, RoutedRight
  <2>4. CASE target = Handle(request.path, request.method, request.keys, request.inside)
    BY <2>2, <2>4, HandleFinds DEF RoutedRight
  <2> QED BY <1>1, <2>3, <2>4 DEF TargetHandled
<1> QED BY <1>1, TargetHandledInductive, PTL DEF Spec

-----------------------------------------------------------------------------
(* The transaction.                                                         *)

\* The first n statements, in their order.
First(n) == [i \in 1..n |-> i]

\* Where the executor is, what it has written, and what is committed.
TransactionInv ==
  /\ executed \in Nat /\ sqlErrors \in Nat
  /\ exec \in {"idle", "begin", "running", "done", "failed"}
  /\ exec = "idle" => statements = <<>>
  /\ exec \in {"idle", "begin"} => executed = 0 /\ written = <<>> /\ sqlErrors = 0
  /\ exec = "running" /\ sqlErrors = 0 => written = First(executed)
  /\ exec # "done" => db = <<>>
  /\ exec = "done" => db = First(executed) /\ Len(statements) = executed

\* It runs for a request that executes; success is answered to one only when it is done.
AnswerInv ==
  /\ phase # "answered" => answers = <<>>
  /\ phase \in {"received", "session", "selecting"} => exec = "idle"
  /\ phase = "reading" => target.kind = "read"
  /\ phase = "answered" /\ target.kind = "exec" /\ 200 \in ToSet(answers) => Len(db) = Len(statements)

ExecInv == TransactionInv /\ AnswerInv

\* The first statements are a sequence, and one more of them is appended to it.
LEMMA FirstIs ==
  ASSUME NEW n \in Nat
  PROVE  /\ First(n) \in Seq(Nat) /\ Len(First(n)) = n
         /\ Append(First(n), n + 1) = First(n + 1)
         /\ <<>> \o First(n) = First(n)
<1>1. First(n) \in Seq(Nat) /\ Len(First(n)) = n
  BY DEF First
<1>2. First(n + 1) \in Seq(Nat) /\ Len(First(n + 1)) = n + 1
  BY DEF First
<1>3. Append(First(n), n + 1) \in Seq(Nat) /\ Len(Append(First(n), n + 1)) = n + 1
  BY <1>1
<1>4. \A i \in 1..(n + 1) : Append(First(n), n + 1)[i] = First(n + 1)[i]
  BY <1>1 DEF First
<1>5. Append(First(n), n + 1) = First(n + 1)
  BY <1>2, <1>3, <1>4, SeqEqual
<1>6. <<>> \o First(n) = First(n)
  BY <1>1, ConcatEmptySeq
<1> QED BY <1>1, <1>5, <1>6

\* No statements.
LEMMA FirstNone == First(0) = <<>> /\ <<>> \in Seq(Nat) /\ Len(<<>>) = 0
<1>1. First(0) \in Seq(Nat) /\ Len(First(0)) = 0
  BY FirstIs
<1> QED BY <1>1, EmptySeq

\* The steps of the executor.
LEMMA TransactionStep ==
  ASSUME TransactionInv, ExecutorNext
  PROVE  TransactionInv'
<1>1. CASE Begin
  BY <1>1, FirstNone DEF Begin, TransactionInv
<1>2. CASE ExecuteStatement
  <2>1. written = First(executed) => Append(written, executed + 1) = First(executed + 1)
    BY FirstIs DEF TransactionInv
  <2> QED BY <1>2, <2>1 DEF ExecuteStatement, TransactionInv
<1>3. CASE Rollback
  BY <1>3 DEF Rollback, TransactionInv
<1>4. CASE Commit
  BY <1>4, FirstIs DEF Commit, TransactionInv
<1> QED BY <1>1, <1>2, <1>3, <1>4 DEF ExecutorNext

\* The statements are made: there may be none.
LEMMA TransactionStart ==
  ASSUME TransactionInv, NEW view, NEW vals, Prepare(view, vals)
  PROVE  TransactionInv'
<1>1. PICK built : /\ exec = "idle"
                   /\ exec' = IF built.failed THEN "failed" ELSE IF built.made = <<>> THEN "done" ELSE "begin"
                   /\ statements' = built.made
                   /\ UNCHANGED <<executed, written, sqlErrors, db>>
  BY DEF Prepare
<1> QED BY <1>1, FirstNone DEF TransactionInv

\* The only status of an answer, written by writeErr or by the handlers.
LEMMA ToSetOne == ASSUME NEW c PROVE ToSet(Append(<<>>, c)) = {c}
BY DEF ToSet

\* The transaction and the answer agree in every step of a request: exec, executorHandler.
LEMMA ExecInvInductive ==
  /\ Init => ExecInv
  /\ ExecInv /\ [Next]_vars => ExecInv'
<1>1. Init => ExecInv
  BY DEF Init, ExecutorInit, ExecInv, TransactionInv, AnswerInv
<1>2. ASSUME ExecInv, [Next]_vars PROVE ExecInv'
  <2> USE <1>2 DEF ExecInv
  <2>1. ASSUME UNCHANGED executorVars PROVE TransactionInv'
    BY <2>1 DEF executorVars, TransactionInv
  <2>2. CASE HandleRequest
    <3>1. AnswerInv'
      BY <2>2, ToSetOne DEF HandleRequest, Write, executorVars, AnswerInv, TransactionInv
    <3> QED BY <2>1, <2>2, <3>1 DEF HandleRequest
  <2>3. CASE SessionFails
    BY <2>1, <2>3, ToSetOne DEF SessionFails, Write, executorVars, AnswerInv
  <2>4. CASE CreateSelectors
    BY <2>1, <2>4 DEF CreateSelectors, executorVars, AnswerInv
  <2>5. CASE Select
    BY <2>1, <2>5 DEF Select, executorVars, AnswerInv
  <2>6. CASE SelectorsFail
    BY <2>1, <2>6 DEF SelectorsFail, Write, executorVars, AnswerInv, TransactionInv
  <2>7. CASE StartRead
    BY <2>1, <2>7 DEF StartRead, executorVars, AnswerInv
  <2>8. CASE \E v \in View : ReadView(v) \/ NoParents(v)
    BY <2>1, <2>8 DEF ReadView, NoParents, executorVars, AnswerInv
  <2>9. CASE ReadFailed \/ WriteResponse
    BY <2>1, <2>9 DEF ReadFailed, WriteResponse, Write, executorVars, AnswerInv
  <2>10. CASE StartExec
    BY <2>10, TransactionStart DEF StartExec, AnswerInv
  <2>11. CASE Execute
    BY <2>11, TransactionStep DEF Execute, AnswerInv
  <2>12. CASE ExecFailed \/ BodyFails
    <3>1. phase' = "answered" /\ answers' = Append(<<>>, 400) /\ UNCHANGED <<target, executorVars>>
      BY <2>12 DEF ExecFailed, BodyFails, Write, AnswerInv
    <3>2. 200 \notin ToSet(answers')
      BY <3>1, ToSetOne
    <3> QED BY <2>1, <3>1, <3>2 DEF AnswerInv
  <2>13. CASE ExecDone
    <3>1. Len(db) = Len(statements)
      BY <2>13, FirstIs DEF ExecDone, TransactionInv
    <3> QED BY <2>1, <2>13, <3>1 DEF ExecDone, Write, executorVars, AnswerInv
  <2>14. CASE UNCHANGED vars
    BY <2>1, <2>14 DEF vars, executorVars, AnswerInv
  <2> QED
    BY <1>2, <2>2, <2>3, <2>4, <2>5, <2>6, <2>7, <2>8, <2>9, <2>10, <2>11, <2>12, <2>13, <2>14
       DEF Next, Serve, Finished
<1> QED BY <1>1, <1>2

\* All statements of a request are committed, in their order, or none is, and it is answered
\* with success only if they are.
THEOREM CommittedAllOrNothing == Spec => []AllOrNothing
<1>1. ASSUME ExecInv PROVE AllOrNothing
  BY <1>1, FirstIs DEF ExecInv, TransactionInv, AnswerInv, AllOrNothing, First
<1> QED BY <1>1, ExecInvInductive, PTL DEF Spec

-----------------------------------------------------------------------------
(* The selectors.                                                           *)

\* They are built once the route is known.
SelectorsInv ==
  /\ ErrorsInv /\ StatusInv /\ RequiredInv(TheRoute.views)
  /\ phase \in {"received", "session"} => build = "idle"
  /\ phase = "session" => target.kind \in {"read", "exec"}
  /\ build # "idle" => TheRoute.views \subseteq View

\* The goroutines start with nothing that failed: selectorsBuilder.build.
LEMMA BuildStarts ==
  ASSUME SelectorsInv, NEW views, Build(views)
  PROVE  ErrorsInv' /\ StatusInv' /\ RequiredInv(views)'
<1>1. \A v \in View : pc[v] = "idle" /\ failure[v] = <<>>
  BY DEF SelectorsInv, ErrorsInv, Build
<1>2. \A v \in View : pc'[v] \in {"populate", "done"} /\ (v \in views => pc'[v] = "populate")
  BY DEF Build
<1>3. ErrorsInv'
  <2>1. errors = <<>>
    <3>1. ToSet(errors) = {}
      BY <1>1 DEF SelectorsInv, ErrorsInv
    <3> QED BY <3>1 DEF SelectorsInv, ErrorsInv, ToSet
  <2> QED BY <1>1, <2>1 DEF SelectorsInv, ErrorsInv, Build, Working
<1>4. StatusInv'
  <2>1. Codes' = Codes
    BY <1>1 DEF Codes, Build
  <2> QED BY <2>1 DEF SelectorsInv, StatusInv, Build
<1>5. RequiredInv(views)'
  BY <1>2 DEF SelectorsInv, RequiredInv, Build
<1> QED BY <1>3, <1>4, <1>5

\* The route that was found is one, with views.
LEMMA RouteIsFound ==
  ASSUME TargetHandled, target.kind \in {"read", "exec"}
  PROVE  TheRoute.views \subseteq View
<1> DEFINE found == MatchOne(request.method, AsAPIPrefix(request.path).path)
<1>1. target.routes = found /\ found # {}
  BY HandleFinds DEF TargetHandled, Answer
<1>2. found \subseteq Route
  BY DEF MatchOne, MatchAll, Matched
<1> QED BY <1>1, <1>2, RouteViews DEF TheRoute

\* Of a request, only the goroutines of its selectors change what they share.
LEMMA SelectorsInvInductive ==
  /\ Init => SelectorsInv
  /\ TargetHandled /\ SelectorsInv /\ [Next]_vars => SelectorsInv'
<1>1. Init => SelectorsInv
  <2> SUFFICES ASSUME Init PROVE SelectorsInv
    OBVIOUS
  <2>1. errors = <<>> /\ ToSet(errors) = {} /\ errors \in Seq(ToSet(errors))
    BY DEF Init, SelectorsInit, ToSet
  <2>2. ErrorsInv
    BY <2>1 DEF Init, SelectorsInit, ErrorsInv, Working
  <2>3. Codes = {} /\ normalized = 0 /\ Len(errors) = 0
    BY <2>1 DEF Init, SelectorsInit, Codes
  <2>4. StatusInv
    BY <2>3 DEF Init, SelectorsInit, StatusInv, MostImportant
  <2>5. RequiredInv(TheRoute.views)
    BY DEF Init, SelectorsInit, RequiredInv
  <2> QED BY <2>2, <2>4, <2>5 DEF Init, SelectorsInit, SelectorsInv
<1>2. ASSUME TargetHandled, SelectorsInv, [Next]_vars PROVE SelectorsInv'
  <2> USE <1>2
  <2>1. ASSUME UNCHANGED selectorVars PROVE ErrorsInv' /\ StatusInv'
    BY <2>1 DEF SelectorsInv, selectorVars, ErrorsInv, StatusInv, Codes
  <2>2. ASSUME UNCHANGED <<target, selectorVars>>,
               phase' \in {"received", "session"} => phase' = phase
        PROVE SelectorsInv'
    BY <2>1, <2>2 DEF SelectorsInv, selectorVars, RequiredInv, Given, TheRoute
  <2>3. CASE HandleRequest
    <3>1. build = "idle" /\ UNCHANGED selectorVars
      BY <2>3 DEF HandleRequest, SelectorsInv
    <3>2. \A v \in View : pc'[v] = "idle"
      BY <3>1 DEF SelectorsInv, ErrorsInv, selectorVars
    <3>3. \A views : RequiredInv(views)'
      BY <3>1, <3>2 DEF SelectorsInv, selectorVars, RequiredInv
    <3>4. phase' = "session" => target'.kind \in {"read", "exec"}
      BY <2>3 DEF HandleRequest, Write
    <3> QED BY <2>1, <3>1, <3>3, <3>4 DEF SelectorsInv, selectorVars
  <2>4. CASE CreateSelectors
    <3>1. TheRoute.views \subseteq View
      BY <2>4, RouteIsFound DEF CreateSelectors, SelectorsInv
    <3> QED BY <2>4, <3>1, BuildStarts DEF CreateSelectors, SelectorsInv, TheRoute
  <2>5. CASE Select
    <3>1. phase = "selecting" /\ SelectorsNext /\ UNCHANGED <<phase, target>>
      BY <2>5 DEF Select
    <3>2. ErrorsInv' /\ StatusInv' /\ \A views : RequiredInv(views) => RequiredInv(views)'
      BY <3>1, ErrorsStep, StatusStep, RequiredStep DEF SelectorsInv
    <3>3. build # "idle"
      BY <3>1 DEF SelectorsInv, ErrorsInv, SelectorsNext, Wait, Normalize, SelectorOf, Populate,
                  AddParam, AddViewParam, Validate, SetStatus, AddError
    <3> QED BY <3>1, <3>2, <3>3 DEF SelectorsInv, TheRoute
  <2>6. CASE SessionFails \/ SelectorsFail \/ StartRead \/ ReadFailed \/ WriteResponse
    BY <2>2, <2>6 DEF SessionFails, SelectorsFail, StartRead, ReadFailed, WriteResponse, Write
  <2>7. CASE \E v \in View : ReadView(v) \/ NoParents(v)
    BY <2>2, <2>7 DEF ReadView, NoParents
  <2>8. CASE StartExec \/ Execute \/ ExecFailed \/ BodyFails \/ ExecDone
    BY <2>2, <2>8 DEF StartExec, Execute, ExecFailed, BodyFails, ExecDone, Write
  <2>9. CASE UNCHANGED vars
    BY <2>2, <2>9 DEF vars
  <2> QED
    BY <1>2, <2>3, <2>4, <2>5, <2>6, <2>7, <2>8, <2>9 DEF Next, Serve, Finished
<1> QED BY <1>1, <1>2

\* However goroutines interleave, each view that fails has its error in the answer, once, and
\* selectors are built only if none failed.
THEOREM NoErrorIsLost == Spec => []ErrorsComplete
<1>1. ASSUME SelectorsInv PROVE ErrorsComplete
  <2> SUFFICES ASSUME build \in {"built", "failed"} PROVE ErrorsComplete
    BY DEF ErrorsComplete
  <2> USE <1>1 DEF SelectorsInv, ErrorsInv
  <2>1. \A v \in View : \A f : f \in ToSet(failure[v]) <=> failure[v] = <<f>>
    BY DEF ToSet
  <2>2. ASSUME NEW e
        PROVE e \in ToSet(errors) <=> \E v \in View : failure[v] = <<e>>
    OBVIOUS
  <2>3. ToSet(errors) = UNION {ToSet(failure[v]) : v \in View}
    BY <2>1, <2>2
  <2>4. errors = <<>> <=> \A v \in View : failure[v] = <<>>
    <3>1. errors = <<>> <=> ToSet(errors) = {}
      BY DEF ToSet
    <3> QED BY <2>2, <3>1
  <2>5. (build = "built") <=> (\A v \in View : failure[v] = <<>>)
    BY <2>4
  <2> QED BY <2>3, <2>5 DEF ErrorsComplete
<1> QED BY <1>1, TargetHandledInductive, SelectorsInvInductive, PTL DEF Spec

\* In whatever order the goroutines fail, the answer has the most important of their codes.
THEOREM MostImportantStatus == Spec => []StatusIsHighest
<1>1. ASSUME SelectorsInv PROVE StatusIsHighest
  <2> SUFFICES ASSUME build = "failed" PROVE StatusIsHighest
    BY DEF StatusIsHighest
  <2> USE <1>1
  <2> DEFINE failures == UNION {ToSet(failure[v]) : v \in View}
             codes == UNION {{f.code, IF f.nested THEN Or400(f.status) ELSE 0} \ {0} : f \in failures}
  <2>1. \A f : f \in failures <=> \E v \in View : failure[v] # <<>> /\ failure[v][1] = f
    BY DEF SelectorsInv, ErrorsInv, ToSet
  <2>2. \A f : f \in failures <=> \E i \in 1..normalized : errors[i] = f
    <3>1. \A f : f \in ToSet(errors) <=> \E i \in 1..normalized : errors[i] = f
      BY DEF SelectorsInv, ErrorsInv, StatusInv, ToSet
    <3>2. \A v \in View : failure[v] # <<>> => failure[v][1] \in ToSet(errors)
      BY DEF SelectorsInv, ErrorsInv
    <3>3. \A f \in ToSet(errors) : \E v \in View : failure[v] # <<>> /\ failure[v][1] = f
      BY DEF SelectorsInv, ErrorsInv
    <3> HIDE DEF failures
    <3> QED BY <2>1, <3>1, <3>2, <3>3
  <2>3. codes = Codes
    <3>1. \A c : c \in codes <=> c # 0 /\ \E f \in failures : c = f.code \/ (f.nested /\ c = Or400(f.status))
      OBVIOUS
    <3>2. \A c : c \in Codes <=>
             c # 0 /\ (\/ \E v \in View : failure[v] # <<>> /\ c = failure[v][1].code
                       \/ \E i \in 1..normalized : errors[i].nested /\ c = Or400(errors[i].status))
      BY DEF Codes, SelectorsInv, ErrorsInv
    <3>3. ASSUME NEW c PROVE c \in codes <=> c \in Codes
      <4> HIDE DEF codes, failures
      <4>1. (\E f \in failures : c = f.code) <=> \E v \in View : failure[v] # <<>> /\ c = failure[v][1].code
        BY <2>1
      <4>2. (\E f \in failures : f.nested /\ c = Or400(f.status)) <=>
               \E i \in 1..normalized : errors[i].nested /\ c = Or400(errors[i].status)
        BY <2>2
      <4> QED BY <3>1, <3>2, <4>1, <4>2
    <3> QED BY <3>3
  <2>4. MostImportant(status, Codes, 400)
    BY DEF SelectorsInv, StatusInv
  <2> QED BY <2>3, <2>4 DEF MostImportant, StatusIsHighest
<1> QED BY <1>1, TargetHandledInductive, SelectorsInvInductive, PTL DEF Spec

\* What is read or executed has every parameter it requires, parts of a body excepted.
THEOREM RequiredIsThere == Spec => []RequiredPresent
<1>1. ASSUME SelectorsInv PROVE RequiredPresent
  <2> SUFFICES ASSUME build = "built" PROVE RequiredPresent
    BY DEF RequiredPresent
  <2>1. ASSUME NEW v \in View PROVE pc[v] = "done" /\ failure[v] = <<>>
    BY <1>1 DEF SelectorsInv, ErrorsInv, ToSet
  <2>2. ASSUME NEW v \in TheRoute.views, NEW i \in DOMAIN Conf[v].parameters PROVE Given(v, i)
    BY <1>1, <2>1, <2>2 DEF SelectorsInv, RequiredInv
  <2> QED BY <2>2 DEF Given, RequiredPresent
<1> QED BY <1>1, TargetHandledInductive, SelectorsInvInductive, PTL DEF Spec

-----------------------------------------------------------------------------
(* What a request selects, asks and executes.                               *)

\* What a template of a view can name.
NamesOf(v) == {p.name : p \in ToSet(Conf[v].parameters)}

\* What templates see of parameters are values: View.Expand, CreateSelectorParams.
LEMMA SeenIs ==
  ASSUME SelectedInv, NEW v \in View
  PROVE  Seen(v) \in [NamesOf(v) -> Seq(Value)] /\ WrittenView(Conf[v], NamesOf(v))
<1>1. WrittenView(Conf[v], NamesOf(v))
  BY TemplatesWritten DEF WrittenView, NamesOf
<1> DEFINE Of(name) == SelectSeq(Conf[v].parameters, LAMBDA p : p.name = name)[1]
           Zero(p) == IF p.multi THEN <<>> ELSE <<"zero">>
           names == {Conf[v].parameters[i].name : i \in DOMAIN Conf[v].parameters}
<1>2. names = NamesOf(v)
  BY DEF NamesOf, ToSet
<1>3. \A p : Zero(p) \in Seq(Value)
  BY ValuesAssumption
<1>4. \A name \in DOMAIN values[v] : values[v][name] \in Seq(Value)
  BY DEF SelectedInv
<1>5. Seen(v) = [name \in names |-> IF name \in DOMAIN values[v] THEN values[v][name] ELSE Zero(Of(name))]
  BY DEF Seen, SeenOf
<1> HIDE DEF Zero, Of, names
<1>6. \A name : (IF name \in DOMAIN values[v] THEN values[v][name] ELSE Zero(Of(name))) \in Seq(Value)
  BY <1>3, <1>4
<1> QED BY <1>1, <1>2, <1>5, <1>6

\* At first nothing is selected, and only goroutines select: selectorsBuilder.build.
LEMMA SelectedInvInductive ==
  /\ Init => SelectedInv
  /\ TargetHandled /\ SelectorsInv /\ SelectedInv /\ [Next]_vars => SelectedInv'
<1>1. Init => SelectedInv
  <2> SUFFICES ASSUME Init PROVE SelectedInv
    OBVIOUS
  <2>1. ASSUME NEW v \in View PROVE Sound(Conf[v], selector[v])
    <3>1. ViewConf(Conf[v]) /\ selector[v] = NoSelector
      BY ConfTyped DEF ViewConf, Init, SelectorsInit
    <3>2. NoSelector.offset = 0 /\ NoSelector.page = 0
      BY DEF NoSelector
    <3> QED BY <3>1, <3>2, NoSelectorIs DEF Sound
  <2>2. ASSUME NEW v \in View PROVE at[v] \in 0..(Len(Conf[v].parameters) + 1)
    <3>1. Conf[v].parameters \in Seq(ToSet(Conf[v].parameters))
      BY ConfTyped
    <3> QED BY <3>1 DEF Init, SelectorsInit
  <2> QED BY <2>1, <2>2 DEF Init, SelectorsInit, SelectedInv
<1>2. ASSUME TargetHandled, SelectorsInv, SelectedInv, [Next]_vars PROVE SelectedInv'
  <2> USE <1>2
  <2>1. CASE Select
    <3>1. \A v \in View : Converted(Conf[v], request)
      BY RequestConverted DEF TargetHandled
    <3> QED BY <2>1, <3>1, SelectedStep DEF Select, SelectorsInv
  <2>2. ASSUME UNCHANGED <<at, selector, values, failure, status>> PROVE SelectedInv'
    BY <2>2 DEF SelectedInv
  <2>3. CASE CreateSelectors
    BY <2>2, <2>3 DEF CreateSelectors, Build
  <2>4. CASE HandleRequest \/ SessionFails \/ SelectorsFail \/ StartRead \/ ReadFailed \/ WriteResponse
    BY <2>2, <2>4 DEF HandleRequest, SessionFails, SelectorsFail, StartRead, ReadFailed, WriteResponse, selectorVars
  <2>5. CASE \E v \in View : ReadView(v) \/ NoParents(v)
    BY <2>2, <2>5 DEF ReadView, NoParents, selectorVars
  <2>6. CASE StartExec \/ Execute \/ ExecFailed \/ BodyFails \/ ExecDone
    BY <2>2, <2>6 DEF StartExec, Execute, ExecFailed, BodyFails, ExecDone, selectorVars
  <2>7. CASE UNCHANGED vars
    BY <2>2, <2>7 DEF vars, selectorVars
  <2> QED BY <1>2, <2>1, <2>3, <2>4, <2>5, <2>6, <2>7 DEF Next, Serve, Finished
<1> QED BY <1>1, <1>2

\* Statements have their arguments, and are executed one after another.
StatementsInv ==
  /\ statements \in Seq(Piece)
  /\ executed \in 0..Len(statements) /\ sqlErrors \in 0..executed

\* The root of a route is a view.
LEMMA RootIsFound ==
  ASSUME TargetHandled, target.kind \in {"read", "exec"}
  PROVE  TheRoute.root \in View
<1> DEFINE found == MatchOne(request.method, AsAPIPrefix(request.path).path)
<1>1. target.routes = found /\ found # {}
  BY HandleFinds DEF TargetHandled, Answer
<1>2. found \subseteq Route
  BY DEF MatchOne, MatchAll, Matched
<1> QED BY <1>1, <1>2, RouteViews DEF TheRoute

\* No more statements are executed than there are, and no more fail than are executed.
LEMMA StatementsInvInductive ==
  /\ Init => StatementsInv
  /\ TargetHandled /\ ExecInv /\ SelectedInv /\ StatementsInv /\ [Next]_vars => StatementsInv'
<1>1. Init => StatementsInv
  <2>1. <<>> \in Seq(Piece) /\ Len(<<>>) = 0
    OBVIOUS
  <2> QED BY <2>1 DEF Init, ExecutorInit, StatementsInv
<1>2. ASSUME TargetHandled, ExecInv, SelectedInv, StatementsInv, [Next]_vars PROVE StatementsInv'
  <2> USE <1>2
  <2>1. ASSUME UNCHANGED <<statements, executed, sqlErrors>> PROVE StatementsInv'
    BY <2>1 DEF StatementsInv
  <2>2. CASE StartExec
    <3>1. PICK v \in View : v = TheRoute.root /\ Prepare(Conf[v], Seen(v))
      BY <2>2, RootIsFound DEF StartExec
    <3>2. PICK built : built = BuildStatements(Conf[v], Seen(v)) /\ built.made \in Seq(Piece)
      BY SeenIs, StatementsRight
    <3>3. exec = "idle" /\ statements' = built.made /\ UNCHANGED <<executed, sqlErrors>>
      BY <3>1, <3>2 DEF Prepare
    <3>4. executed = 0 /\ sqlErrors = 0
      BY <3>3 DEF ExecInv, TransactionInv
    <3> QED BY <3>2, <3>3, <3>4 DEF StatementsInv
  <2>3. CASE Execute
    <3>1. CASE ExecuteStatement
      <4>1. PICK n, e, s : n = Len(statements) /\ e = executed /\ s = sqlErrors
        OBVIOUS
      <4>2. n \in Nat /\ e \in 0..n /\ s \in 0..e /\ e < n
        BY <3>1, <4>1 DEF StatementsInv, ExecuteStatement
      <4>3. e + 1 \in 0..n /\ s \in 0..(e + 1) /\ s + 1 \in 0..(e + 1)
        BY <4>2
      <4>4. executed' = e + 1 /\ sqlErrors' \in {s, s + 1} /\ UNCHANGED statements
        BY <3>1, <4>1 DEF ExecuteStatement
      <4> QED BY <4>1, <4>3, <4>4 DEF StatementsInv
    <3>2. CASE Begin \/ Rollback \/ Commit
      BY <2>1, <3>2 DEF Begin, Rollback, Commit
    <3> QED BY <2>3, <3>1, <3>2 DEF Execute, ExecutorNext
  <2>4. CASE UNCHANGED executorVars
    BY <2>1, <2>4 DEF executorVars
  <2>5. CASE HandleRequest \/ SessionFails \/ CreateSelectors \/ Select \/ SelectorsFail
    BY <2>4, <2>5 DEF HandleRequest, SessionFails, CreateSelectors, Select, SelectorsFail
  <2>6. CASE StartRead \/ ReadFailed \/ WriteResponse \/ ExecFailed \/ BodyFails \/ ExecDone
    BY <2>4, <2>6 DEF StartRead, ReadFailed, WriteResponse, ExecFailed, BodyFails, ExecDone
  <2>7. CASE \E v \in View : ReadView(v) \/ NoParents(v)
    BY <2>4, <2>7 DEF ReadView, NoParents
  <2>8. CASE UNCHANGED vars
    BY <2>4, <2>8 DEF vars
  <2> QED BY <1>2, <2>2, <2>3, <2>5, <2>6, <2>7, <2>8 DEF Next, Serve, Finished
<1> QED BY <1>1, <1>2

\* The queries of a view are made from its selector for some parents.
AskedFor(v, made) == \E for : Parents(for) /\ made = <<QueriesOf(v, for)>>

\* Nothing is asked before the selectors are built; then views of the route are, each once.
AskingInv ==
  /\ phase \in {"received", "session", "selecting", "reading", "executing", "answered"}
  /\ unread \subseteq View /\ DOMAIN queries = View
  /\ Len(answers) = IF phase = "answered" THEN 1 ELSE 0
  /\ \A v \in View :
       queries[v] # <<>> => phase \notin {"received", "session", "selecting"} /\ AskedFor(v, queries[v])

\* What a request asks of a database: viewHandler.
LEMMA AskingInvInductive ==
  /\ Init => AskingInv
  /\ ExecInv /\ SelectorsInv /\ AskingInv /\ [Next]_vars => AskingInv'
<1>1. Init => AskingInv
  BY DEF Init, AskingInv
<1>2. ASSUME ExecInv, SelectorsInv, AskingInv, [Next]_vars PROVE AskingInv'
  <2> USE <1>2
  <2>1. ASSUME NEW code, Write(code), phase # "answered" PROVE phase' = "answered" /\ Len(answers') = 1
    <3>1. answers = <<>>
      BY <2>1 DEF ExecInv, AnswerInv
    <3> QED BY <2>1, <3>1 DEF Write
  <2>2. ASSUME UNCHANGED selectorVars, NEW v, NEW made, AskedFor(v, made) PROVE AskedFor(v, made)'
    <3>1. PICK for : Parents(for) /\ made = <<QueriesOf(v, for)>>
      BY <2>2 DEF AskedFor
    <3>2. UNCHANGED <<selector, values>>
      BY <2>2 DEF selectorVars
    <3>3. Seen(v)' = Seen(v)
      BY <3>2 DEF Seen
    <3>4. QueriesOf(v, for)' = QueriesOf(v, for)
      BY <3>2, <3>3 DEF QueriesOf
    <3> QED BY <3>1, <3>4 DEF AskedFor
  <2>3. ASSUME UNCHANGED <<unread, queries, selectorVars>>, phase # "answered", NEW code, Write(code)
        PROVE AskingInv'
    BY <2>1, <2>2, <2>3 DEF AskingInv
  <2>4. CASE HandleRequest
    <3>1. UNCHANGED <<unread, queries, selectorVars>> /\ phase = "received"
      BY <2>4 DEF HandleRequest
    <3>2. CASE \E code \in {200, 403, 404} : Write(code)
      BY <2>3, <3>1, <3>2
    <3>3. CASE phase' = "session" /\ UNCHANGED answers
      BY <3>1, <3>3 DEF AskingInv
    <3> QED BY <2>4, <3>2, <3>3 DEF HandleRequest
  <2>5. CASE SessionFails \/ SelectorsFail \/ ReadFailed \/ WriteResponse \/ ExecFailed \/ BodyFails \/ ExecDone
    BY <2>3, <2>5 DEF SessionFails, SelectorsFail, ReadFailed, WriteResponse, ExecFailed, BodyFails, ExecDone
  <2>6. CASE CreateSelectors \/ Select
    BY <2>6 DEF CreateSelectors, Select, AskingInv
  <2>7. CASE StartRead
    <3>1. TheRoute.views \subseteq View
      BY <2>7 DEF StartRead, SelectorsInv
    <3> QED BY <2>7, <3>1 DEF StartRead, AskingInv
  <2>8. CASE \E v \in View : ReadView(v)
    <3>1. PICK v \in View : ReadView(v)
      BY <2>8
    <3>2. PICK for \in For(v) : queries' = [queries EXCEPT ![v] = <<QueriesOf(v, for)>>]
      BY <3>1 DEF ReadView
    <3>3. Parents(for)
      <4>1. CASE Conf[v].relation = <<>>
        <5>1. for = [parents |-> <<>>, batch |-> <<>>]
          BY <3>2, <4>1 DEF For
        <5> QED BY <5>1 DEF Parents
      <4>2. CASE Conf[v].relation # <<>>
        <5>1. PICK p \in ParentKeys :
                for \in {[parents |-> p, batch |-> SubSeq(p, i, j)] : i \in DOMAIN p, j \in DOMAIN p}
          BY <3>2, <4>2 DEF For
        <5>2. PICK i \in DOMAIN p, j \in DOMAIN p : for = [parents |-> p, batch |-> SubSeq(p, i, j)]
          BY <5>1
        <5>3. p \in Seq(Value) /\ SubSeq(p, i, j) \in Seq(Value)
          <6>1. p \in Seq(Value)
            BY ValuesAssumption
          <6> QED BY <6>1
        <5> QED BY <5>2, <5>3 DEF Parents
      <4> QED BY <4>1, <4>2
    <3>4. UNCHANGED <<phase, answers, selectorVars>> /\ phase = "reading" /\ unread' \subseteq View
      BY <3>1 DEF ReadView, AskingInv
    <3>5. queries'[v] = <<QueriesOf(v, for)>> /\ \A w \in View \ {v} : queries'[w] = queries[w]
      BY <3>2 DEF AskingInv
    <3>6. AskedFor(v, queries'[v])
      BY <3>3, <3>5 DEF AskedFor
    <3>7. ASSUME NEW w \in View, queries'[w] # <<>> PROVE AskedFor(w, queries[w])'
      <4>1. PICK made : made = queries'[w]
        OBVIOUS
      <4>2. AskedFor(w, made)
        BY <3>5, <3>6, <3>7, <4>1 DEF AskingInv
      <4>3. AskedFor(w, made)'
        BY <2>2, <3>4, <4>2
      <4> QED BY <4>1, <4>3
    <3>8. DOMAIN queries' = View
      BY <3>2 DEF AskingInv
    <3> QED BY <3>4, <3>7, <3>8 DEF AskingInv
  <2>9. CASE \E v \in View : NoParents(v)
    BY <2>2, <2>9 DEF NoParents, AskingInv
  <2>10. CASE StartExec \/ Execute
    BY <2>2, <2>10 DEF StartExec, Execute, AskingInv
  <2>11. CASE UNCHANGED vars
    BY <2>2, <2>11 DEF vars, AskingInv
  <2> QED BY <1>2, <2>4, <2>5, <2>6, <2>7, <2>8, <2>9, <2>10, <2>11 DEF Next, Serve, Finished
<1> QED BY <1>1, <1>2

\* The errors are no more than the views, each of which has one.
LEMMA ErrorsAreFew ==
  ASSUME ErrorsInv
  PROVE  Len(errors) <= Cardinality(View)
<1>1. IsFiniteSet(View)
  BY ConfTyped
<1>2. PICK n \in Nat : n = Len(errors) /\ DOMAIN errors = 1..n
  BY Appended DEF ErrorsInv
<1> DEFINE f == [i \in 1..n |-> errors[i].view]
<1>3. f \in Injection(1..n, View)
  <2>1. \A i \in 1..n : errors[i].view \in View
    BY <1>2 DEF ErrorsInv, ToSet
  <2>2. \A i, j \in 1..n : errors[i].view = errors[j].view => i = j
    BY <1>2 DEF ErrorsInv
  <2> QED BY <2>1, <2>2 DEF Injection, IsInjective
<1>4. Cardinality(1..n) <= Cardinality(View)
  BY <1>1, <1>3, FS_Injection
<1>5. Cardinality(1..n) = n
  <2>1. Cardinality(1..n) = IF 1 > n THEN 0 ELSE n - 1 + 1
    BY FS_Interval
  <2>2. n = 0 \/ n >= 1
    OBVIOUS
  <2> QED BY <2>1, <2>2
<1> QED BY <1>2, <1>4, <1>5

\* Whatever is asked for, a view is read within its limit and by its own columns, filtered by
\* those that can be, and a page has precedence over an offset: selectorsBuilder.build.
THEOREM SelectedWithinLimits == Spec => []SelectorsSound
<1>1. ASSUME SelectorsInv, SelectedInv, ExecInv, StatementsInv, AskingInv PROVE SelectorsSound
  <2> USE <1>1
  <2>1. TypeOK
    <3>1. /\ build \in {"idle", "running", "built", "normalizing", "failed"}
          /\ pc \in [View -> {"idle", "populate", "params", "validate", "status", "error", "done"}]
      <4>1. Working \cup {"idle", "status", "error", "done"}
              = {"idle", "populate", "params", "validate", "status", "error", "done"}
        BY DEF Working
      <4> QED BY <4>1 DEF SelectorsInv, ErrorsInv
    <3>2. \A v \in View : Len(failure[v]) <= 1
      <4> SUFFICES ASSUME NEW v \in View PROVE Len(failure[v]) <= 1
        OBVIOUS
      <4>1. failure[v] = <<>> \/ failure[v] = <<failure[v][1]>>
        BY DEF SelectorsInv, ErrorsInv
      <4>2. CASE failure[v] = <<>>
        BY <4>2, EmptySeq
      <4>3. CASE failure[v] = <<failure[v][1]>>
        <5>1. PICK e : failure[v] = <<e>>
          BY <4>3
        <5> QED BY <5>1
      <4> QED BY <4>1, <4>2, <4>3
    <3>3. status \in Nat /\ Len(errors) <= Cardinality(View)
      BY ErrorsAreFew DEF SelectorsInv, SelectedInv
    <3>4. /\ exec \in {"idle", "begin", "running", "done", "failed"}
          /\ executed \in 0..Len(statements) /\ sqlErrors <= executed
      BY DEF ExecInv, TransactionInv, StatementsInv
    <3>5. \A v \in View : Len(queries[v]) <= 1
      <4> SUFFICES ASSUME NEW v \in View, queries[v] # <<>> PROVE Len(queries[v]) <= 1
        BY EmptySeq
      <4>1. PICK q : queries[v] = <<q>>
        BY DEF AskingInv, AskedFor
      <4> QED BY <4>1
    <3> QED BY <3>1, <3>2, <3>3, <3>4, <3>5 DEF TypeOK, SelectedInv, AskingInv
  <2>2. Narrowed
    <3> SUFFICES ASSUME build = "built", NEW v \in TheRoute.views
                 PROVE  /\ Conf[v].limit # 0 => selector[v].limit <= Conf[v].limit
                        /\ ToSet(selector[v].columns) \subseteq DOMAIN Conf[v].columns
                        /\ IsInjective(selector[v].columns)
                        /\ ColumnsOf(selector[v].criteria.sql) \subseteq Filterable(Conf[v].columns)
                        /\ selector[v].offset # 0 => selector[v].limit # 0
      BY DEF Narrowed, Filterable
    <3>1. PICK s : s = selector[v] /\ Sound(Conf[v], s)
      BY DEF SelectorsInv, SelectedInv
    <3>2. /\ s.columns \in Seq(DOMAIN Conf[v].columns) /\ IsInjective(s.columns)
          /\ (Conf[v].limit # 0 => s.limit <= Conf[v].limit)
          /\ s.criteria \in PieceOf(Filterable(Conf[v].columns))
          /\ (s.offset # 0 => s.limit # 0)
      BY <3>1 DEF Sound, SelectorsFor
    <3>3. ToSet(s.columns) \subseteq DOMAIN Conf[v].columns
      BY <3>2 DEF ToSet
    <3> QED BY <3>1, <3>2, <3>3 DEF PieceOf
  <2>3. PageWins
    BY DEF SelectedInv, Sound, PageWins
  <2> QED BY <2>1, <2>2, <2>3 DEF SelectorsSound
<1> QED
  BY <1>1, TargetHandledInductive, SelectorsInvInductive, SelectedInvInductive, ExecInvInductive,
     StatementsInvInductive, AskingInvInductive, PTL DEF Spec

\* Every value that a database is asked with is at the question mark written for it, rows are
\* asked for these parents, and of a cache the same for all: Builder.Build, SqlBuilder.Build.
THEOREM QueriesAreRight == Spec => []QueriesSound
<1>1. ASSUME SelectedInv, StatementsInv, AskingInv PROVE QueriesSound
  <2> USE <1>1
  <2>1. ASSUME NEW v \in View, NEW q \in Made(v)
        PROVE  Right(Conf[v], selector[v], Seen(v), q)
    <3>1. queries[v] # <<>>
      BY DEF Made
    <3>2. PICK for : Parents(for) /\ queries[v] = <<QueriesOf(v, for)>>
      BY <3>1 DEF AskingInv, AskedFor
    <3>3. q = QueriesFor(Conf[v], selector[v], Seen(v), for)
      BY <3>2 DEF Made, QueriesOf
    <3>4. selector[v].criteria \in Piece
      BY DEF SelectedInv, Sound, SelectorsFor, PieceOf
    <3>5. Seen(v) \in [NamesOf(v) -> Seq(Value)] /\ WrittenView(Conf[v], NamesOf(v))
      BY SeenIs
    <3> QED BY <3>2, <3>3, <3>4, <3>5, QueriesAre
  <2>2. \A i \in DOMAIN statements : statements[i].args = Marked(statements[i].sql)
    <3>1. \A i \in DOMAIN statements : statements[i] \in Piece
      BY DEF StatementsInv
    <3> QED BY <3>1 DEF Piece
  <2>3. Aligned
    BY <2>1, <2>2 DEF Right, Aligned
  <2>4. Related
    BY <2>1 DEF Right, Related
  <2>5. CacheShared
    BY <2>1 DEF Right, CacheShared
  <2> QED BY <2>3, <2>4, <2>5 DEF QueriesSound
<1> QED
  BY <1>1, TargetHandledInductive, SelectorsInvInductive, SelectedInvInductive, ExecInvInductive,
     StatementsInvInductive, AskingInvInductive, PTL DEF Spec
=============================================================================
