----------------------------- MODULE QueryProofs -----------------------------
(***************************************************************************)
(* What selectors are, whatever is asked for: within what their view       *)
(* allows, their criteria with an argument for each question mark. And     *)
(* goroutines that build those of any number of views: no error of theirs  *)
(* is lost, the status that is answered is the most important one, and     *)
(* what is required is there.                                              *)
(*                                                                         *)
(* And what is sent to a database, for any template, any criteria and any  *)
(* values: a query, a statement and the key of a cache have an argument    *)
(* for each of their question marks, in their order, and those of a query  *)
(* for parents hold their keys, one after another. A source is followed    *)
(* from its template (Query.Evaluate), through the replacement of keywords *)
(* (Query.Expand), to the statements it is cut into (Executor.Commands,    *)
(* Make).                                                                  *)
(*                                                                         *)
(* Criteria, lists of columns, selectors and sources are made by folds, so *)
(* a fold is first shown to be a run through states, about which one can   *)
(* reason step by step.                                                    *)
(***************************************************************************)
EXTENDS Selectors, Executor, FiniteSetTheorems, SequenceTheorems, WellFoundedInduction, TLAPS

-----------------------------------------------------------------------------
(* Folds.                                                                   *)

\* What starts at zero and goes on gets to the end.
LEMMA Inductive ==
  ASSUME NEW n \in Nat, NEW S, 0 \in S, \A i \in 1..n : i - 1 \in S => i \in S
  PROVE  \A i \in 0..n : i \in S
<1> SUFFICES ASSUME NEW k \in 0..n, k \notin S PROVE FALSE
  OBVIOUS
<1> DEFINE T == {i \in Nat : i \notin S}
<1>1. PICK less : less = {ss \in Nat \X Nat : ss[1] < ss[2]}
  OBVIOUS
<1>2. IsWellFoundedOn(less, Nat)
  BY <1>1, NatLessThanWellFounded, Zenon DEF OpToRel
<1>3. T \subseteq Nat /\ k \in T
  OBVIOUS
<1> HIDE DEF T
<1>4. PICK x \in T : \A y \in T : ~(<<y, x>> \in less)
  BY <1>2, <1>3, WFMin, Zenon
<1>5. \A y \in Nat : y < x => y \notin T
  BY <1>1, <1>3, <1>4
<1>6. x \in Nat /\ x \notin S /\ x <= k
  BY <1>3, <1>5 DEF T
<1>7. x # 0 /\ x - 1 \in Nat /\ x - 1 < x
  BY <1>6
<1>8. x - 1 \in S
  BY <1>5, <1>7 DEF T
<1> QED BY <1>6, <1>7, <1>8

\* The greatest of some positions is one of them.
LEMMA GreatestIs ==
  ASSUME NEW n \in Nat
  PROVE  \A S \in SUBSET (1..n) : S # {} => Max(S) \in S /\ \A y \in S : Max(S) >= y
<1> DEFINE Bounded(k) == \A S \in SUBSET (1..k) : S # {} => \E x \in S : \A y \in S : x >= y
           good == {k \in 0..n : Bounded(k)}
<1>1. 0 \in good
  <2>1. SUBSET (1..0) = {{}}
    OBVIOUS
  <2>2. Bounded(0)
    BY <2>1
  <2> HIDE DEF Bounded
  <2> QED BY <2>2
<1>2. ASSUME NEW k \in 1..n, k - 1 \in good PROVE k \in good
  <2> SUFFICES ASSUME NEW S \in SUBSET (1..k), S # {} PROVE \E x \in S : \A y \in S : x >= y
    OBVIOUS
  <2>1. CASE k \in S
    BY <2>1
  <2>2. CASE k \notin S
    <3>1. S \in SUBSET (1..(k - 1))
      BY <2>2
    <3> QED BY <1>2, <3>1
  <2> QED BY <2>1, <2>2
<1>3. n \in good
  <2> HIDE DEF good
  <2> QED BY <1>1, <1>2, Inductive
<1>4. Bounded(n)
  BY <1>3
<1> QED BY <1>4, Zenon DEF Max

\* A fold takes the elements at some positions from the last one back; a run goes forward.
IsFold(it, n, base, step) ==
  \A S \in SUBSET (1..n) : it[S] = IF S = {} THEN base ELSE step[Max(S)][it[S \ {Max(S)}]]

GoesBack(f, n, U, base, step) ==
  /\ f[{}] = base
  /\ \A S \in SUBSET (1..n) :
       S # {} /\ f[S \ {Max(S)}] \in U => f[S] = step[Max(S)][f[S \ {Max(S)}]]

IsRun(run, n, base, step) ==
  run[0] = base /\ \A i \in 1..n : run[i] = step[i][run[i - 1]]

\* A fold has values all along: a function on sets of positions that goes back to the greatest.
LEMMA FoldDefined ==
  ASSUME NEW n \in Nat, NEW U, NEW base \in U, NEW step \in [1..n -> [U -> U]]
  PROVE  \E it \in [SUBSET (1..n) -> U] : IsFold(it, n, base, step)
<1> USE DEF IsFold
<1> DEFINE Is(it, k) ==
             /\ it \in [SUBSET (1..k) -> U]
             /\ \A S \in SUBSET (1..k) :
                  it[S] = IF S = {} THEN base ELSE step[Max(S)][it[S \ {Max(S)}]]
           good == {k \in 0..n : \E it : Is(it, k)}
<1>1. 0 \in good
  <2> DEFINE it == [S \in SUBSET (1..0) |-> base]
  <2>1. SUBSET (1..0) = {{}}
    OBVIOUS
  <2>2. it \in [SUBSET (1..0) -> U] /\ \A S \in SUBSET (1..0) : S = {} /\ it[S] = base
    BY <2>1
  <2> HIDE DEF it
  <2>3. Is(it, 0)
    BY <2>2
  <2> HIDE DEF Is
  <2> QED BY <2>3
<1>2. ASSUME NEW k \in 1..n, k - 1 \in good PROVE k \in good
  <2>1. PICK f : Is(f, k - 1)
    BY <1>2
  <2> DEFINE it == [S \in SUBSET (1..k) |-> IF k \in S THEN step[k][f[S \ {k}]] ELSE f[S]]
  <2>2. \A S \in SUBSET (1..k) : /\ k \in S => S \ {k} \in SUBSET (1..(k - 1))
                                 /\ k \notin S => S \in SUBSET (1..(k - 1))
    OBVIOUS
  <2>3. \A S \in SUBSET (1..(k - 1)) : S \in SUBSET (1..k) /\ k \notin S /\ f[S] \in U
    BY <2>1
  <2>4. it \in [SUBSET (1..k) -> U]
    BY <2>2, <2>3
  <2>5. ASSUME NEW S \in SUBSET (1..k)
        PROVE  it[S] = IF S = {} THEN base ELSE step[Max(S)][it[S \ {Max(S)}]]
    <3>1. CASE k \in S
      <4>1. Max(S) = k
        <5>0. k \in Nat /\ S # {}
          BY <3>1
        <5>1. Max(S) \in S /\ \A y \in S : Max(S) >= y
          BY <5>0, GreatestIs
        <5>2. Max(S) \in 1..k /\ Max(S) >= k
          BY <3>1, <5>1
        <5> QED BY <5>1, <5>2
      <4>2. it[S] = step[k][f[S \ {k}]] /\ it[S \ {k}] = f[S \ {k}] /\ S # {}
        BY <2>2, <2>3, <3>1
      <4> QED BY <4>1, <4>2
    <3>2. CASE k \notin S
      <4>1. S \in SUBSET (1..(k - 1)) /\ it[S] = f[S] /\ k - 1 \in Nat
        BY <2>2, <3>2
      <4>2. S # {} => S \ {Max(S)} \in SUBSET (1..(k - 1)) /\ it[S \ {Max(S)}] = f[S \ {Max(S)}]
        BY <2>3, <4>1
      <4> QED BY <2>1, <4>1, <4>2
    <3> QED BY <3>1, <3>2
  <2> HIDE DEF it
  <2>6. Is(it, k)
    BY <2>4, <2>5
  <2> HIDE DEF Is
  <2> QED BY <2>6
<1>3. \A i \in 0..n : i \in good
  <2> HIDE DEF good
  <2> QED BY <1>1, <1>2, Inductive
<1>4. n \in good
  <2> HIDE DEF good
  <2> QED BY <1>3
<1> QED BY <1>4


\* So it is a run: what it is after each position comes from what it was before.
LEMMA FoldRuns ==
  ASSUME NEW n \in Nat, NEW U, NEW base \in U, NEW step \in [1..n -> [U -> U]],
         NEW f, GoesBack(f, n, U, base, step)
  PROVE  \E run \in [0..n -> U] : IsRun(run, n, base, step) /\ run[n] = f[1..n]
<1> USE DEF IsRun, GoesBack
<1> DEFINE run == [i \in 0..n |-> f[1..i]]
           good == {i \in 0..n : run[i] \in U}
<1>1. run[0] = base
  <2>1. 1..0 = {}
    OBVIOUS
  <2> QED BY <2>1
<1>2. ASSUME NEW i \in 1..n, run[i - 1] \in U PROVE run[i] = step[i][run[i - 1]]
  <2>1. 1..i \in SUBSET (1..n) /\ i \in 1..i /\ (1..i) \ {i} = 1..(i - 1)
    OBVIOUS
  <2>2. Max(1..i) = i
    <3>1. Max(1..i) \in 1..i /\ Max(1..i) >= i
      BY <2>1, GreatestIs
    <3> QED BY <3>1
  <2>3. run[i] = f[1..i] /\ run[i - 1] = f[1..(i - 1)]
    OBVIOUS
  <2> HIDE DEF run
  <2>4. (1..i) \ {Max(1..i)} = 1..(i - 1) /\ 1..i # {}
    BY <2>1, <2>2
  <2>5. f[1..(i - 1)] \in U
    BY <1>2, <2>3
  <2>6. f[1..i] = step[Max(1..i)][f[(1..i) \ {Max(1..i)}]]
    BY <2>1, <2>4, <2>5
  <2> QED BY <2>2, <2>3, <2>4, <2>6
<1> HIDE DEF run
<1>3. \A i \in 0..n : i \in good
  <2>1. 0 \in good
    BY <1>1
  <2>2. ASSUME NEW i \in 1..n, i - 1 \in good PROVE i \in good
    BY <1>2, <2>2
  <2> HIDE DEF good
  <2> QED BY <2>1, <2>2, Inductive
<1>4. run \in [0..n -> U]
  BY <1>3 DEF run
<1>5. run[n] = f[1..n]
  BY DEF run
<1> QED BY <1>1, <1>2, <1>4, <1>5

-----------------------------------------------------------------------------
(* Statements.                                                              *)

\* The tokens; a question mark stands for something.
Tokens == {t \in [key : Words \cup {"?", "column", "limit"}, prefix : KeyPrefixes, of : Seq(Value)] :
             t.key = "?" => t.of # <<>>}
Sql == Seq(Tokens)

\* Marked goes from token to token.
LEMMA MarkedRun ==
  ASSUME NEW n \in Nat, NEW sql, DOMAIN sql = 1..n, NEW U, <<>> \in U,
         \A i \in 1..n : \A x \in U : (IF sql[i].key = "?" THEN Append(x, sql[i].of[1]) ELSE x) \in U
  PROVE  \E run \in [0..n -> U] :
           /\ run[0] = <<>> /\ run[n] = Marked(sql)
           /\ \A i \in 1..n : run[i] = (IF sql[i].key = "?" THEN Append(run[i - 1], sql[i].of[1]) ELSE run[i - 1])
<1> DEFINE Next(x, t) == (IF t.key = "?" THEN Append(x, t.of[1]) ELSE x)
           F(g) == [S \in SUBSET DOMAIN sql |->
                      IF S = {} THEN <<>> ELSE Next(g[S \ {Max(S)}], sql[Max(S)])]
           step == [i \in 1..n |-> [x \in U |-> Next(x, sql[i])]]
<1>1. Marked(sql) = (CHOOSE g : g = F(g))[DOMAIN sql]
  BY Zenon DEF Marked, FoldLeft, MapThenFoldSet
<1> HIDE DEF Next
<1>2. step \in [1..n -> [U -> U]]
  BY DEF Next
<1>3. \A S \in SUBSET (1..n) : S # {} => \A x \in U : step[Max(S)][x] = Next(x, sql[Max(S)])
  BY GreatestIs
<1> HIDE DEF step
<1>4. PICK it \in [SUBSET (1..n) -> U] : IsFold(it, n, <<>>, step)
  BY <1>2, FoldDefined
<1>5. it = F(it)
  BY <1>3, <1>4 DEF IsFold
<1>6. PICK f : f = F(f) /\ Marked(sql) = f[1..n]
  <2> HIDE DEF F
  <2> QED BY <1>1, <1>5, Zenon
<1>7. GoesBack(f, n, U, <<>>, step)
  <2>1. f[{}] = <<>>
    BY <1>6
  <2>2. ASSUME NEW S \in SUBSET (1..n), S # {}, f[S \ {Max(S)}] \in U
        PROVE  f[S] = step[Max(S)][f[S \ {Max(S)}]]
    <3>1. f[S] = Next(f[S \ {Max(S)}], sql[Max(S)])
      BY <1>6, <2>2
    <3> HIDE DEF F
    <3> QED BY <1>3, <2>2, <3>1
  <2> HIDE DEF F
  <2> QED BY <2>1, <2>2 DEF GoesBack
<1>8. PICK run \in [0..n -> U] : IsRun(run, n, <<>>, step) /\ run[n] = f[1..n]
  BY <1>2, <1>7, FoldRuns
<1>9. ASSUME NEW i \in 1..n PROVE run[i - 1] \in U /\ step[i][run[i - 1]] = Next(run[i - 1], sql[i])
  BY DEF step
<1>10. ASSUME NEW i \in 1..n PROVE run[i] = Next(run[i - 1], sql[i])
  BY <1>8, <1>9 DEF IsRun
<1>11. run[0] = <<>> /\ run[n] = Marked(sql)
  BY <1>6, <1>8 DEF IsRun
<1> HIDE DEF F
<1> QED BY <1>10, <1>11 DEF Next

\* Tokens are tokens.
LEMMA TokenTypes ==
  /\ Text \in Tokens /\ Text.key = "text" /\ Text.of = <<>>
  /\ \A v \in Value : Mark(v) \in Tokens /\ Mark(v).key = "?" /\ Mark(v).of[1] = v
  /\ \A name \in Value : /\ ColumnToken(name) \in Tokens /\ ColumnToken(name).key = "column"
                         /\ ColumnToken(name).of[1] = name
  /\ Token("limit") \in Tokens /\ Token("limit").key = "limit"
  /\ \A prefix \in KeyPrefixes, key \in Words :
       /\ Keyword(prefix, key) \in Tokens /\ Keyword(prefix, key).key = key
       /\ Keyword(prefix, key).prefix = prefix /\ key # "?" /\ key # "column"
<1>1. "" \in KeyPrefixes /\ "text" \in Words /\ \A key \in Words : key # "?" /\ key # "column"
  BY DEF KeyPrefixes, Words
<1>2. <<>> \in Seq(Value) /\ \A v \in Value : <<v>> \in Seq(Value) /\ <<v>> # <<>> /\ <<v>>[1] = v
  OBVIOUS
<1> QED BY <1>1, <1>2 DEF Tokens, Text, Token, Mark, ColumnToken, Keyword

\* What question marks stand for, one token after another.
Marking(run, sql) ==
  /\ run \in [0..Len(sql) -> Seq(Value)] /\ run[0] = <<>> /\ run[Len(sql)] = Marked(sql)
  /\ \A i \in 1..Len(sql) : /\ sql[i].key = "?" => run[i] = Append(run[i - 1], sql[i].of[1])
                            /\ sql[i].key # "?" => run[i] = run[i - 1]

\* Marked is there for all statements.
LEMMA MarkedType ==
  ASSUME NEW sql \in Sql
  PROVE  (\E run : Marking(run, sql)) /\ Marked(sql) \in Seq(Value)
<1>1. PICK n \in Nat : n = Len(sql) /\ DOMAIN sql = 1..n /\ \A i \in 1..n : sql[i] \in Tokens
  BY DEF Sql
<1>2. PICK U : U = Seq(Value)
  OBVIOUS
<1>3. ASSUME NEW i \in 1..n, NEW x \in U
      PROVE  (IF sql[i].key = "?" THEN Append(x, sql[i].of[1]) ELSE x) \in U
  <2>1. sql[i].key = "?" => sql[i].of[1] \in Value
    BY <1>1 DEF Tokens
  <2> QED BY <1>2, <2>1
<1>4. <<>> \in U
  BY <1>2
<1>5. PICK run \in [0..n -> U] :
        /\ run[0] = <<>> /\ run[n] = Marked(sql)
        /\ \A i \in 1..n : run[i] = (IF sql[i].key = "?" THEN Append(run[i - 1], sql[i].of[1]) ELSE run[i - 1])
  BY <1>1, <1>3, <1>4, MarkedRun
<1>6. Marking(run, sql)
  BY <1>1, <1>2, <1>5 DEF Marking
<1>7. Marked(sql) \in Seq(Value)
  BY <1>1, <1>2, <1>5
<1> QED BY <1>6, <1>7

\* They are those of its parts, one after another.
LEMMA MarkedConcat ==
  ASSUME NEW a \in Sql, NEW b \in Sql
  PROVE  a \o b \in Sql /\ Marked(a \o b) = Marked(a) \o Marked(b)
<1>1. PICK m \in Nat, n \in Nat : m = Len(a) /\ n = Len(b)
  BY DEF Sql
<1>2. PICK c \in Sql : c = a \o b
  <2>1. a \o b \in Sql
    BY DEF Sql
  <2> QED BY <2>1
<1>3. /\ Len(c) = m + n
      /\ \A i \in 1..m : c[i] = a[i]
      /\ \A i \in 1..n : c[m + i] = b[i] /\ b[i] \in Tokens
  BY <1>1, <1>2 DEF Sql
<1>4. PICK ra : Marking(ra, a)
  BY MarkedType
<1>5. PICK rb : Marking(rb, b)
  BY MarkedType
<1>6. PICK r : Marking(r, c)
  BY MarkedType
<1>7. r[m] = ra[m]
  <2> DEFINE good == {i \in 0..m : r[i] = ra[i]}
  <2>1. 0 \in good
    BY <1>4, <1>6 DEF Marking
  <2>2. ASSUME NEW i \in 1..m, i - 1 \in good PROVE i \in good
    <3>1. i \in 1..(m + n) /\ i \in 0..m /\ c[i] = a[i]
      BY <1>3
    <3>2. c[i].key = "?" => r[i] = Append(r[i - 1], a[i].of[1]) /\ ra[i] = Append(ra[i - 1], a[i].of[1])
      BY <1>1, <1>3, <1>4, <1>6, <3>1 DEF Marking
    <3>3. c[i].key # "?" => r[i] = r[i - 1] /\ ra[i] = ra[i - 1]
      BY <1>1, <1>3, <1>4, <1>6, <3>1 DEF Marking
    <3> QED BY <2>2, <3>1, <3>2, <3>3
  <2>3. \A i \in 0..m : i \in good
    <3> HIDE DEF good
    <3> QED BY <2>1, <2>2, Inductive
  <2> QED BY <2>3
<1>8. r[m + n] = Marked(a) \o rb[n]
  <2> DEFINE good == {i \in 0..n : r[m + i] = Marked(a) \o rb[i]}
  <2>0. Marked(a) \in Seq(Value) /\ \A i \in 0..n : rb[i] \in Seq(Value)
    BY <1>1, <1>5, MarkedType DEF Marking
  <2>1. 0 \in good
    <3>1. r[m + 0] = Marked(a) /\ rb[0] = <<>>
      BY <1>1, <1>4, <1>5, <1>7 DEF Marking
    <3>2. Marked(a) \o <<>> = Marked(a)
      BY <2>0
    <3>3. r[m + 0] = Marked(a) \o rb[0] /\ 0 \in 0..n
      BY <3>1, <3>2
    <3> QED BY <3>3
  <2>2. ASSUME NEW i \in 1..n, i - 1 \in good PROVE i \in good
    <3>1. m + i \in 1..(m + n) /\ i \in 0..n /\ (m + i) - 1 = m + (i - 1) /\ i - 1 \in 0..n
      OBVIOUS
    <3>2. r[m + (i - 1)] = Marked(a) \o rb[i - 1] /\ c[m + i] = b[i]
      BY <1>3, <2>2
    <3>0. /\ b[i].key = "?" => rb[i] = Append(rb[i - 1], b[i].of[1])
          /\ b[i].key # "?" => rb[i] = rb[i - 1]
      BY <1>1, <1>5 DEF Marking
    <3>6. /\ c[m + i].key = "?" => r[m + i] = Append(r[(m + i) - 1], c[m + i].of[1])
          /\ c[m + i].key # "?" => r[m + i] = r[(m + i) - 1]
      BY <1>3, <1>6, <3>1 DEF Marking
    <3>3. /\ b[i].key = "?" => r[m + i] = Append(Marked(a) \o rb[i - 1], b[i].of[1])
          /\ b[i].key # "?" => r[m + i] = Marked(a) \o rb[i - 1]
      BY <3>1, <3>2, <3>6
    <3>4. b[i].key = "?" => b[i].of[1] \in Value
      BY <1>3 DEF Tokens
    <3>5. \A e \in Value : Append(Marked(a) \o rb[i - 1], e) = Marked(a) \o Append(rb[i - 1], e)
      <4>1. PICK x \in Seq(Value), y \in Seq(Value) : x = Marked(a) /\ y = rb[i - 1]
        BY <2>0, <3>1
      <4>2. ASSUME NEW e \in Value PROVE Append(x \o y, e) = x \o Append(y, e)
        <5>1. Append(x \o y, e) \in Seq(Value) /\ x \o Append(y, e) \in Seq(Value)
          OBVIOUS
        <5>2. /\ Len(Append(x \o y, e)) = Len(x) + Len(y) + 1
              /\ Len(x \o Append(y, e)) = Len(x) + Len(y) + 1
          OBVIOUS
        <5>3. \A k \in 1..(Len(x) + Len(y) + 1) : Append(x \o y, e)[k] = (x \o Append(y, e))[k]
          OBVIOUS
        <5> QED BY <5>1, <5>2, <5>3, SeqEqual
      <4> QED BY <4>1, <4>2, Zenon
    <3> QED BY <3>0, <3>1, <3>3, <3>4, <3>5
  <2>3. \A i \in 0..n : i \in good
    <3> HIDE DEF good
    <3> QED BY <2>1, <2>2, Inductive
  <2> QED BY <2>3
<1> QED BY <1>1, <1>2, <1>3, <1>5, <1>6, <1>8 DEF Marking

\* Of one token, and of none.
LEMMA MarkedFew ==
  /\ <<>> \in Sql /\ Marked(<<>>) = <<>>
  /\ \A t \in Tokens : /\ <<t>> \in Sql
                       /\ t.key = "?" => Marked(<<t>>) = <<t.of[1]>> /\ t.of[1] \in Value
                       /\ t.key # "?" => Marked(<<t>>) = <<>>
<1>1. <<>> \in Sql /\ Marked(<<>>) = <<>>
  <2>1. <<>> \in Sql /\ Len(<<>>) = 0
    BY DEF Sql
  <2>2. PICK run : Marking(run, <<>>)
    BY <2>1, MarkedType
  <2> QED BY <2>1, <2>2 DEF Marking
<1>2. ASSUME NEW t \in Tokens
      PROVE  /\ <<t>> \in Sql
             /\ t.key = "?" => Marked(<<t>>) = <<t.of[1]>> /\ t.of[1] \in Value
             /\ t.key # "?" => Marked(<<t>>) = <<>>
  <2>1. PICK s \in Sql : s = <<t>>
    <3>1. <<t>> \in Sql
      BY DEF Sql
    <3> QED BY <3>1
  <2>2. Len(s) = 1 /\ s[1] = t
    BY <2>1
  <2>3. PICK run : Marking(run, s)
    BY MarkedType
  <2>4. run[0] = <<>> /\ run[1] = Marked(s)
    BY <2>2, <2>3 DEF Marking
  <2>5. /\ t.key = "?" => run[1] = Append(<<>>, t.of[1])
        /\ t.key # "?" => run[1] = <<>>
    <3>1. /\ s[1].key = "?" => run[1] = Append(run[1 - 1], s[1].of[1])
          /\ s[1].key # "?" => run[1] = run[1 - 1]
      BY <2>2, <2>3 DEF Marking
    <3>2. 1 - 1 = 0
      OBVIOUS
    <3> QED BY <2>2, <2>4, <3>1, <3>2
  <2>6. t.key = "?" => t.of[1] \in Value
    BY DEF Tokens
  <2>7. ASSUME NEW e PROVE Append(<<>>, e) = <<e>>
    OBVIOUS
  <2> QED BY <2>1, <2>4, <2>5, <2>6, <2>7
<1> QED BY <1>1, <1>2

\* Of one token more.
LEMMA MarkedAppend ==
  ASSUME NEW sql \in Sql, NEW t \in Tokens
  PROVE  /\ Append(sql, t) \in Sql
         /\ t.key = "?" => Marked(Append(sql, t)) = Append(Marked(sql), t.of[1]) /\ t.of[1] \in Value
         /\ t.key # "?" => Marked(Append(sql, t)) = Marked(sql)
<1>1. Append(sql, t) = sql \o <<t>>
  BY AppendIsConcat DEF Sql
<1>2. sql \o <<t>> \in Sql /\ Marked(sql \o <<t>>) = Marked(sql) \o Marked(<<t>>)
  BY MarkedFew, MarkedConcat
<1>3. Marked(sql) \in Seq(Value)
  BY MarkedType
<1>4. CASE t.key = "?"
  <2>1. Append(Marked(sql), t.of[1]) = Marked(sql) \o <<t.of[1]>>
    BY <1>3, <1>4, MarkedFew, AppendIsConcat
  <2> QED BY <1>1, <1>2, <1>4, <2>1, MarkedFew
<1>5. CASE t.key # "?"
  <2>1. Marked(sql) \o <<>> = Marked(sql)
    BY <1>3
  <2> QED BY <1>1, <1>2, <1>5, <2>1, MarkedFew
<1> QED BY <1>4, <1>5

\* What is there after a token stays.
LEMMA MarkedPrefix ==
  ASSUME NEW sql \in Sql, NEW run, Marking(run, sql), NEW i \in 0..Len(sql)
  PROVE  /\ Len(run[i]) <= Len(Marked(sql))
         /\ \A j \in 1..Len(run[i]) : Marked(sql)[j] = run[i][j]
<1>1. PICK n \in Nat : n = Len(sql)
  BY DEF Sql
<1> DEFINE Goes(k) == \A l \in 0..k : /\ Len(run[l]) <= Len(run[k])
                                      /\ \A j \in 1..Len(run[l]) : run[k][j] = run[l][j]
           good == {k \in 0..n : Goes(k)}
<1>2. \A k \in 0..n : run[k] \in Seq(Value) /\ Len(run[k]) \in Nat
  BY <1>1 DEF Marking
<1>3. 0 \in good
  BY <1>2
<1>4. ASSUME NEW k \in 1..n, k - 1 \in good PROVE k \in good
  <2>1. k - 1 \in 0..n /\ k \in 0..n /\ Goes(k - 1)
    BY <1>4
  <2> HIDE DEF good
  <2>2. CASE sql[k].key = "?"
    <3>1. run[k] = Append(run[k - 1], sql[k].of[1])
      BY <1>1, <2>2 DEF Marking
    <3>2. Len(run[k]) = Len(run[k - 1]) + 1 /\ \A j \in 1..Len(run[k - 1]) : run[k][j] = run[k - 1][j]
      BY <1>2, <2>1, <3>1
    <3>3. ASSUME NEW l \in 0..k
          PROVE  Len(run[l]) <= Len(run[k]) /\ \A j \in 1..Len(run[l]) : run[k][j] = run[l][j]
      <4>1. CASE l = k
        BY <1>2, <4>1
      <4>2. CASE l \in 0..(k - 1)
        <5>1. Len(run[l]) <= Len(run[k - 1]) /\ \A j \in 1..Len(run[l]) : run[k - 1][j] = run[l][j]
          BY <2>1, <4>2
        <5>2. Len(run[l]) \in Nat /\ Len(run[k - 1]) \in Nat
          BY <1>2, <2>1
        <5> QED BY <3>2, <5>1, <5>2
      <4> QED BY <4>1, <4>2
    <3> QED BY <2>1, <3>3 DEF good
  <2>3. CASE sql[k].key # "?"
    <3>1. run[k] = run[k - 1]
      BY <1>1, <2>3 DEF Marking
    <3>2. ASSUME NEW l \in 0..k
          PROVE  Len(run[l]) <= Len(run[k]) /\ \A j \in 1..Len(run[l]) : run[k][j] = run[l][j]
      <4>1. CASE l = k
        BY <1>2, <4>1
      <4>2. CASE l \in 0..(k - 1)
        BY <2>1, <3>1, <4>2
      <4> QED BY <4>1, <4>2
    <3> QED BY <2>1, <3>2 DEF good
  <2> QED BY <2>2, <2>3
<1>5. \A k \in 0..n : k \in good
  <2> HIDE DEF good
  <2> QED BY <1>3, <1>4, Inductive
<1>6. n \in good /\ run[n] = Marked(sql) /\ n \in 0..n
  BY <1>1, <1>5 DEF Marking
<1>7. Goes(n)
  BY <1>6
<1> HIDE DEF good
<1> QED BY <1>1, <1>6, <1>7

\* Without a question mark there is nothing.
LEMMA MarkedNot ==
  ASSUME NEW sql \in Sql, \A i \in DOMAIN sql : sql[i].key # "?"
  PROVE  Marked(sql) = <<>>
<1>1. PICK n \in Nat : n = Len(sql) /\ DOMAIN sql = 1..n
  BY DEF Sql
<1>2. PICK run : Marking(run, sql)
  BY MarkedType
<1> DEFINE good == {i \in 0..n : run[i] = <<>>}
<1>3. 0 \in good
  BY <1>2 DEF Marking
<1>4. ASSUME NEW i \in 1..n, i - 1 \in good PROVE i \in good
  <2>1. sql[i].key # "?"
    BY <1>1
  <2>2. run[i] = run[i - 1]
    BY <1>1, <1>2, <2>1 DEF Marking
  <2> QED BY <1>4, <2>2
<1>5. \A i \in 0..n : i \in good
  <2> HIDE DEF good
  <2> QED BY <1>3, <1>4, Inductive
<1> QED BY <1>1, <1>2, <1>5 DEF Marking

\* Question marks for values stand for the values.
LEMMA MarkedMarks ==
  ASSUME NEW vals \in Seq(Value)
  PROVE  /\ Marks(vals) \in Sql /\ Marked(Marks(vals)) = vals
         /\ Len(Marks(vals)) = Len(vals) /\ \A i \in DOMAIN Marks(vals) : Marks(vals)[i].key = "?"
<1>1. PICK n \in Nat : n = Len(vals) /\ DOMAIN vals = 1..n /\ \A i \in 1..n : vals[i] \in Value
  OBVIOUS
<1>2. PICK s : s = Marks(vals)
  OBVIOUS
<1>3. DOMAIN s = 1..n /\ \A i \in 1..n : s[i] = Mark(vals[i])
  BY <1>1, <1>2 DEF Marks
<1>4. \A i \in 1..n : s[i] \in Tokens /\ s[i].key = "?" /\ s[i].of[1] = vals[i]
  BY <1>1, <1>3, TokenTypes
<1>5. s \in Sql /\ Len(s) = n
  <2>1. s \in [1..n -> Tokens]
    BY <1>1, <1>2, <1>3, <1>4 DEF Marks
  <2> QED BY <2>1 DEF Sql
<1>6. PICK run : Marking(run, s)
  BY <1>5, MarkedType
<1> DEFINE good == {i \in 0..n : Len(run[i]) = i /\ \A j \in 1..i : run[i][j] = vals[j]}
<1>7. 0 \in good
  BY <1>6 DEF Marking
<1>8. ASSUME NEW i \in 1..n, i - 1 \in good PROVE i \in good
  <2>0. run \in [0..n -> Seq(Value)] /\ i - 1 \in 0..n
    BY <1>5, <1>6 DEF Marking
  <2>1. run[i] = Append(run[i - 1], vals[i]) /\ run[i - 1] \in Seq(Value)
    <3>1. s[i].key = "?" => run[i] = Append(run[i - 1], s[i].of[1])
      BY <1>5, <1>6 DEF Marking
    <3> QED BY <1>4, <2>0, <3>1
  <2>2. Len(run[i - 1]) = i - 1 /\ \A j \in 1..(i - 1) : run[i - 1][j] = vals[j]
    BY <1>8
  <2>3. Len(run[i]) = i /\ \A j \in 1..i : run[i][j] = vals[j]
    BY <1>1, <2>1, <2>2
  <2> QED BY <2>3
<1>9. \A i \in 0..n : i \in good
  <2> HIDE DEF good
  <2> QED BY <1>7, <1>8, Inductive
<1>10. run[n] = vals
  <2>1. run[n] \in Seq(Value) /\ Len(run[n]) = n /\ \A j \in 1..n : run[n][j] = vals[j]
    BY <1>5, <1>6, <1>9 DEF Marking
  <2> QED BY <1>1, <2>1, SeqEqual
<1> QED BY <1>1, <1>2, <1>3, <1>4, <1>5, <1>6, <1>10 DEF Marking

-----------------------------------------------------------------------------
(* Pieces, and criteria made of them.                                       *)

\* What brings the arguments for its question marks, and names columns of some only.
Piece == {p \in [sql : Sql, args : Seq(Value)] : p.args = Marked(p.sql)}
PieceOf(C) == {p \in Piece : ColumnsOf(p.sql) \subseteq C}

\* Pieces make pieces: SQLCriteria.Add.
LEMMA PiecesJoin ==
  ASSUME NEW C, NEW a \in PieceOf(C), NEW b \in PieceOf(C)
  PROVE  Then(a, b) \in PieceOf(C)
<1>1. /\ a.sql \in Sql /\ b.sql \in Sql /\ a.args \in Seq(Value) /\ b.args \in Seq(Value)
      /\ a.args = Marked(a.sql) /\ b.args = Marked(b.sql)
      /\ ColumnsOf(a.sql) \subseteq C /\ ColumnsOf(b.sql) \subseteq C
  BY DEF PieceOf, Piece
<1>2. PICK c \in Sql : c = a.sql \o b.sql /\ Marked(c) = a.args \o b.args
  <2>1. a.sql \o b.sql \in Sql /\ Marked(a.sql \o b.sql) = Marked(a.sql) \o Marked(b.sql)
    BY <1>1, MarkedConcat
  <2> QED BY <1>1, <2>1
<1>3. ASSUME NEW i \in DOMAIN c, c[i].key = "column" PROVE c[i].of[1] \in C
  <2>1. PICK m \in Nat, n \in Nat : m = Len(a.sql) /\ n = Len(b.sql)
    BY <1>1 DEF Sql
  <2>2. DOMAIN c = 1..(m + n) /\ DOMAIN a.sql = 1..m /\ DOMAIN b.sql = 1..n
    BY <1>1, <1>2, <2>1 DEF Sql
  <2>3. CASE i \in 1..m
    <3>1. c[i] = a.sql[i]
      BY <1>1, <1>2, <2>1, <2>3 DEF Sql
    <3> QED BY <1>1, <1>3, <2>2, <2>3, <3>1 DEF ColumnsOf
  <2>4. CASE i \in (m + 1)..(m + n)
    <3>0. PICK x \in Seq(Tokens), y \in Seq(Tokens) : x = a.sql /\ y = b.sql
      BY <1>1 DEF Sql
    <3>1. c[i] = b.sql[i - m] /\ i - m \in 1..n
      <4>1. i - m \in 1..n /\ i = Len(x) + (i - m) /\ Len(y) = n
        <5>1. Len(x) = m /\ Len(y) = n
          BY <2>1, <3>0
        <5>2. i \in Int /\ i >= m + 1 /\ i <= m + n
          BY <2>4
        <5> QED BY <5>1, <5>2
      <4>2. (x \o y)[i] = y[i - m]
        BY <3>0, <2>1, <2>4, <4>1
      <4> QED BY <1>2, <3>0, <4>1, <4>2
    <3> QED BY <1>1, <1>3, <2>2, <3>1 DEF ColumnsOf
  <2> QED BY <2>2, <2>3, <2>4
<1>4. ColumnsOf(c) \subseteq C
  BY <1>3 DEF ColumnsOf
<1>5. a.args \o b.args \in Seq(Value)
  BY <1>1
<1> QED BY <1>2, <1>4, <1>5 DEF Then, PieceOf, Piece

\* The pieces that others are made of.
LEMMA PiecesAre ==
  ASSUME NEW C
  PROVE  /\ Nothing \in PieceOf(C) /\ Raw \in PieceOf(C)
         /\ \A t \in Tokens : t.key \notin {"?", "column"} => [sql |-> <<t>>, args |-> <<>>] \in PieceOf(C)
         /\ \A vals \in Seq(Value) : AsBinding(vals) \in PieceOf(C)
         /\ \A name \in C \cap Value : [sql |-> <<ColumnToken(name)>>, args |-> <<>>] \in PieceOf(C)
<1>0. <<>> \in Seq(Value)
  OBVIOUS
<1>1. Nothing \in PieceOf(C)
  <2>1. <<>> \in Sql /\ Marked(<<>>) = <<>> /\ ColumnsOf(<<>>) = {}
    BY MarkedFew DEF ColumnsOf
  <2> QED BY <1>0, <2>1 DEF Nothing, PieceOf, Piece
<1>2. ASSUME NEW t \in Tokens, t.key # "?", t.key = "column" => t.of[1] \in C
      PROVE  [sql |-> <<t>>, args |-> <<>>] \in PieceOf(C)
  <2>1. <<t>> \in Sql /\ Marked(<<t>>) = <<>>
    BY <1>2, MarkedFew
  <2>2. ColumnsOf(<<t>>) \subseteq C
    BY <1>2 DEF ColumnsOf
  <2> QED BY <1>0, <2>1, <2>2 DEF PieceOf, Piece
<1>3. Raw \in PieceOf(C)
  <2>1. Text \in Tokens /\ Text.key # "?" /\ Text.key # "column"
    BY TokenTypes
  <2> QED BY <1>2, <2>1 DEF Raw
<1>4. ASSUME NEW vals \in Seq(Value) PROVE AsBinding(vals) \in PieceOf(C)
  <2>1. Marks(vals) \in Sql /\ Marked(Marks(vals)) = vals /\ ColumnsOf(Marks(vals)) = {}
    <3>1. \A i \in DOMAIN Marks(vals) : Marks(vals)[i].key # "column"
      BY MarkedMarks
    <3> QED BY <3>1, MarkedMarks DEF ColumnsOf
  <2> QED BY <2>1 DEF AsBinding, PieceOf, Piece
<1>5. ASSUME NEW name \in C \cap Value PROVE [sql |-> <<ColumnToken(name)>>, args |-> <<>>] \in PieceOf(C)
  BY <1>2, TokenTypes
<1> QED BY <1>1, <1>2, <1>3, <1>4, <1>5

\* The arguments of a method are written one after another.
LEMMA MethodRun ==
  ASSUME NEW lexeme,
         NEW n \in Nat, DOMAIN lexeme.args = 1..n, NEW U, Raw \in U,
         \A i \in 1..n : \A x \in U : Then(x, Written(lexeme.args[i])) \in U
  PROVE  \E run \in [0..n -> U] :
           /\ run[0] = Raw /\ run[n] = MethodWritten(lexeme)
           /\ \A i \in 1..n : run[i] = Then(run[i - 1], Written(lexeme.args[i]))
<1> DEFINE Next(x, t) == Then(x, Written(t))
           F(g) == [S \in SUBSET DOMAIN lexeme.args |->
                      IF S = {} THEN Raw ELSE Next(g[S \ {Max(S)}], lexeme.args[Max(S)])]
           step == [i \in 1..n |-> [x \in U |-> Next(x, lexeme.args[i])]]
<1>1. MethodWritten(lexeme) = (CHOOSE g : g = F(g))[DOMAIN lexeme.args]
  BY Zenon DEF MethodWritten, FoldLeft, MapThenFoldSet
<1> HIDE DEF Next
<1>2. step \in [1..n -> [U -> U]]
  BY DEF Next
<1>3. \A S \in SUBSET (1..n) : S # {} => \A x \in U : step[Max(S)][x] = Next(x, lexeme.args[Max(S)])
  BY GreatestIs
<1> HIDE DEF step
<1>4. PICK it \in [SUBSET (1..n) -> U] : IsFold(it, n, Raw, step)
  BY <1>2, FoldDefined
<1>5. it = F(it)
  BY <1>3, <1>4 DEF IsFold
<1>6. PICK f : f = F(f) /\ MethodWritten(lexeme) = f[1..n]
  <2> HIDE DEF F
  <2> QED BY <1>1, <1>5, Zenon
<1>7. GoesBack(f, n, U, Raw, step)
  <2>1. f[{}] = Raw
    BY <1>6
  <2>2. ASSUME NEW S \in SUBSET (1..n), S # {}, f[S \ {Max(S)}] \in U
        PROVE  f[S] = step[Max(S)][f[S \ {Max(S)}]]
    <3>1. f[S] = Next(f[S \ {Max(S)}], lexeme.args[Max(S)])
      BY <1>6, <2>2
    <3> HIDE DEF F
    <3> QED BY <1>3, <2>2, <3>1
  <2> HIDE DEF F
  <2> QED BY <2>1, <2>2 DEF GoesBack
<1>8. PICK run \in [0..n -> U] : IsRun(run, n, Raw, step) /\ run[n] = f[1..n]
  BY <1>2, <1>7, FoldRuns
<1>9. ASSUME NEW i \in 1..n PROVE run[i - 1] \in U /\ step[i][run[i - 1]] = Next(run[i - 1], lexeme.args[i])
  BY DEF step
<1>10. ASSUME NEW i \in 1..n PROVE run[i] = Next(run[i - 1], lexeme.args[i])
  BY <1>8, <1>9 DEF IsRun
<1>11. run[0] = Raw /\ run[n] = MethodWritten(lexeme)
  BY <1>6, <1>8 DEF IsRun
<1> HIDE DEF F
<1> QED BY <1>10, <1>11 DEF Next

\* Criteria are read lexeme by lexeme.
LEMMA ParseRun ==
  ASSUME NEW columns, NEW methods,
         NEW n \in Nat, NEW criteria, DOMAIN criteria = 1..n, NEW U, Unread \in U,
         \A i \in 1..n : \A x \in U : ParseNext(columns, methods, x, criteria[i]) \in U
  PROVE  \E run \in [0..n -> U] :
           /\ run[0] = Unread /\ run[n] = ParseAll(criteria, columns, methods)
           /\ \A i \in 1..n : run[i] = ParseNext(columns, methods, run[i - 1], criteria[i])
<1> DEFINE Next(x, t) == ParseNext(columns, methods, x, t)
           F(g) == [S \in SUBSET DOMAIN criteria |->
                      IF S = {} THEN Unread ELSE Next(g[S \ {Max(S)}], criteria[Max(S)])]
           step == [i \in 1..n |-> [x \in U |-> Next(x, criteria[i])]]
<1>1. ParseAll(criteria, columns, methods) = (CHOOSE g : g = F(g))[DOMAIN criteria]
  BY Zenon DEF ParseAll, FoldLeft, MapThenFoldSet
<1> HIDE DEF Next
<1>2. step \in [1..n -> [U -> U]]
  BY DEF Next
<1>3. \A S \in SUBSET (1..n) : S # {} => \A x \in U : step[Max(S)][x] = Next(x, criteria[Max(S)])
  BY GreatestIs
<1> HIDE DEF step
<1>4. PICK it \in [SUBSET (1..n) -> U] : IsFold(it, n, Unread, step)
  BY <1>2, FoldDefined
<1>5. it = F(it)
  BY <1>3, <1>4 DEF IsFold
<1>6. PICK f : f = F(f) /\ ParseAll(criteria, columns, methods) = f[1..n]
  <2> HIDE DEF F
  <2> QED BY <1>1, <1>5, Zenon
<1>7. GoesBack(f, n, U, Unread, step)
  <2>1. f[{}] = Unread
    BY <1>6
  <2>2. ASSUME NEW S \in SUBSET (1..n), S # {}, f[S \ {Max(S)}] \in U
        PROVE  f[S] = step[Max(S)][f[S \ {Max(S)}]]
    <3>1. f[S] = Next(f[S \ {Max(S)}], criteria[Max(S)])
      BY <1>6, <2>2
    <3> HIDE DEF F
    <3> QED BY <1>3, <2>2, <3>1
  <2> HIDE DEF F
  <2> QED BY <2>1, <2>2 DEF GoesBack
<1>8. PICK run \in [0..n -> U] : IsRun(run, n, Unread, step) /\ run[n] = f[1..n]
  BY <1>2, <1>7, FoldRuns
<1>9. ASSUME NEW i \in 1..n PROVE run[i - 1] \in U /\ step[i][run[i - 1]] = Next(run[i - 1], criteria[i])
  BY DEF step
<1>10. ASSUME NEW i \in 1..n PROVE run[i] = Next(run[i - 1], criteria[i])
  BY <1>8, <1>9 DEF IsRun
<1>11. run[0] = Unread /\ run[n] = ParseAll(criteria, columns, methods)
  BY <1>6, <1>8 DEF IsRun
<1> HIDE DEF F
<1> QED BY <1>10, <1>11 DEF Next

\* The columns criteria can be about.
Filterable(columns) == {name \in DOMAIN columns : columns[name].filterable}

\* A value that fits is a filterable column or what a literal converts to.
LEMMA OperandWritten ==
  ASSUME NEW columns, DOMAIN columns \subseteq Value, NEW type, NEW lexeme, Operand(lexeme),
         ValueFits(columns, type, lexeme)
  PROVE  Written(lexeme) \in PieceOf(Filterable(columns))
<1>1. CASE lexeme.key = "name"
  <2>1. Usable(columns, lexeme.name)
    BY <1>1 DEF ValueFits, FieldFits
  <2>2. lexeme.name \in Filterable(columns) \cap Value
    BY <2>1 DEF Usable, Filterable
  <2> QED BY <1>1, <2>2, PiecesAre DEF Written
<1>2. CASE lexeme.key = "literal"
  <2>1. <<lexeme.value>> \in Seq(Value)
    BY <1>2 DEF Operand
  <2> QED BY <1>2, <2>1, PiecesAre DEF Written
<1>3. CASE lexeme.key # "name" /\ lexeme.key # "literal"
  BY <1>3 DEF ValueFits
<1> QED BY <1>1, <1>2, <1>3

\* So is a method with arguments that fit.
LEMMA MethodIsWritten ==
  ASSUME NEW columns, DOMAIN columns \subseteq Value, NEW methods, NEW lexeme,
         lexeme.args \in Seq(ToSet(lexeme.args)), \A arg \in ToSet(lexeme.args) : Operand(arg),
         MethodFits(columns, methods, lexeme)
  PROVE  MethodWritten(lexeme) \in PieceOf(Filterable(columns))
<1>1. PICK n \in Nat : n = Len(lexeme.args) /\ DOMAIN lexeme.args = 1..n
  OBVIOUS
<1>2. PICK U : U = PieceOf(Filterable(columns))
  OBVIOUS
<1>3. Raw \in U
  BY <1>2, PiecesAre
<1>4. ASSUME NEW i \in 1..n, NEW x \in U PROVE Then(x, Written(lexeme.args[i])) \in U
  <2>1. Operand(lexeme.args[i]) /\ ValueFits(columns, methods[lexeme.name][i], lexeme.args[i])
    BY <1>1 DEF ToSet, MethodFits
  <2>2. Written(lexeme.args[i]) \in U
    BY <1>2, <2>1, OperandWritten
  <2> QED BY <1>2, <2>2, PiecesJoin
<1>5. PICK run \in [0..n -> U] : run[n] = MethodWritten(lexeme)
  BY <1>1, <1>3, <1>4, MethodRun
<1> QED BY <1>2, <1>5

\* What parse knows between two lexemes.
Parsing(columns) ==
  [wants : {"operand", "block", "compare", "value", "set", "item", "comma", "operator", "nothing"},
   depth : Int, type : {columns[name].type : name \in DOMAIN columns} \cup {""},
   out : PieceOf(Filterable(columns))]

\* What is written is a piece all along: parse goes on with a piece more.
LEMMA ParseKeeps ==
  ASSUME NEW columns, DOMAIN columns \subseteq Value, NEW methods, NEW state \in Parsing(columns),
         NEW lexeme, Operand(lexeme),
         lexeme.key = "method" =>
           lexeme.args \in Seq(ToSet(lexeme.args)) /\ \A arg \in ToSet(lexeme.args) : Operand(arg)
  PROVE  ParseNext(columns, methods, state, lexeme) \in Parsing(columns)
<1> DEFINE C == Filterable(columns)
           Wants == {"operand", "block", "compare", "value", "set", "item", "comma", "operator", "nothing"}
<1>1. Bad(state) \in Parsing(columns)
  BY DEF Bad, Parsing
<1>2. ASSUME NEW wants \in Wants, NEW piece \in PieceOf(C)
      PROVE  Put(state, wants, piece) \in Parsing(columns)
  <2>1. Then(state.out, piece) \in PieceOf(C)
    BY PiecesJoin DEF Parsing
  <2> QED BY <2>1 DEF Put, Parsing
<1>3. Raw \in PieceOf(C)
  BY PiecesAre
<1>4. \A wants \in Wants : Put(state, wants, Raw) \in Parsing(columns)
  BY <1>2, <1>3
<1>5. ASSUME NEW wants \in Wants
      PROVE  MatchValue(columns, methods, state, lexeme, wants) \in Parsing(columns)
  <2>1. ValueFits(columns, state.type, lexeme) => Written(lexeme) \in PieceOf(C)
    BY OperandWritten
  <2>2. MethodFits(columns, methods, lexeme) => MethodWritten(lexeme) \in PieceOf(C)
    <3>1. MethodFits(columns, methods, lexeme) => lexeme.key = "method"
      BY DEF MethodFits
    <3> QED BY <3>1, MethodIsWritten
  <2> QED BY <1>1, <1>2, <2>1, <2>2 DEF MatchValue
<1>13. ASSUME NEW put \in Parsing(columns)
       PROVE  /\ [put EXCEPT !.depth = @ + 1] \in Parsing(columns)
              /\ [put EXCEPT !.depth = @ - 1] \in Parsing(columns)
              /\ \A name \in DOMAIN columns : [put EXCEPT !.type = columns[name].type] \in Parsing(columns)
  <2>1. PICK T : T = {columns[name].type : name \in DOMAIN columns} \cup {""}
    OBVIOUS
  <2>2. PICK W, P : Parsing(columns) = [wants : W, depth : Int, type : T, out : P]
    BY <2>1 DEF Parsing
  <2>3. /\ [put EXCEPT !.depth = @ + 1] \in Parsing(columns)
        /\ [put EXCEPT !.depth = @ - 1] \in Parsing(columns)
    BY <2>2
  <2>4. \A t \in T : [put EXCEPT !.type = t] \in Parsing(columns)
    BY <2>2
  <2> QED BY <2>1, <2>3, <2>4
<1>6. [Put(state, "block", Raw) EXCEPT !.depth = @ + 1] \in Parsing(columns)
  BY <1>4, <1>13
<1>7. Close(state) \in Parsing(columns)
  <2>1. [Put(state, "operator", Raw) EXCEPT !.depth = @ - 1] \in Parsing(columns)
    BY <1>4, <1>13
  <2> QED BY <1>1, <2>1 DEF Close
<1>8. MatchColumn(columns, state, lexeme) \in Parsing(columns)
  <2>1. CASE lexeme.key = "name" /\ Usable(columns, lexeme.name)
    <3>1. lexeme.name \in C \cap Value /\ lexeme.name \in DOMAIN columns
      BY <2>1 DEF Usable, Filterable
    <3>2. PICK piece \in PieceOf(C) : piece = [sql |-> <<ColumnToken(lexeme.name)>>, args |-> <<>>]
      BY <3>1, PiecesAre
    <3>3. Put(state, "compare", piece) \in Parsing(columns)
      BY <1>2
    <3>4. [Put(state, "compare", piece) EXCEPT !.type = columns[lexeme.name].type] \in Parsing(columns)
      BY <1>13, <3>1, <3>3
    <3> QED BY <2>1, <3>2, <3>4 DEF MatchColumn
  <2>2. CASE ~(lexeme.key = "name" /\ Usable(columns, lexeme.name))
    BY <1>1, <2>2 DEF MatchColumn
  <2> QED BY <2>1, <2>2
<1>9. MatchComparison(state, lexeme) \in Parsing(columns)
  BY <1>1, <1>4 DEF MatchComparison
<1>10. MatchDataSet(columns, methods, state, lexeme) \in Parsing(columns)
  BY <1>4, <1>5 DEF MatchDataSet
<1>11. \A wants \in Wants : Put(state, wants, Raw) \in Parsing(columns)
  BY <1>4
<1> HIDE DEF Wants
<1>12. {"operand", "item", "operator", "comma"} \subseteq Wants
  BY DEF Wants
<1> QED BY <1>1, <1>4, <1>5, <1>6, <1>7, <1>8, <1>9, <1>10, <1>12 DEF ParseNext

\* Criteria are pieces with filterable columns: criteria.Parse.
LEMMA CriteriaParsed ==
  ASSUME NEW columns, DOMAIN columns \subseteq Value, NEW methods, NEW criteria, Lexed(criteria)
  PROVE  Parse(criteria, columns, methods).out \in PieceOf(Filterable(columns))
<1>1. PICK n \in Nat : n = Len(criteria) /\ DOMAIN criteria = 1..n
  BY DEF Lexed
<1>2. PICK U : U = Parsing(columns)
  OBVIOUS
<1>3. Nothing \in PieceOf(Filterable(columns))
  BY PiecesAre
<1>4. Unread \in U
  <2>1. 0 \in Int /\ "" \in {columns[name].type : name \in DOMAIN columns} \cup {""}
    OBVIOUS
  <2> QED BY <1>2, <1>3, <2>1 DEF Unread, Parsing
<1>5. ASSUME NEW i \in 1..n, NEW x \in U PROVE ParseNext(columns, methods, x, criteria[i]) \in U
  <2>1. criteria[i] \in ToSet(criteria)
    BY <1>1 DEF ToSet
  <2> QED BY <1>2, <2>1, ParseKeeps DEF Lexed
<1>6. PICK run \in [0..n -> U] : run[n] = ParseAll(criteria, columns, methods)
  <2>1. \E run \in [0..n -> U] :
          /\ run[0] = Unread /\ run[n] = ParseAll(criteria, columns, methods)
          /\ \A i \in 1..n : run[i] = ParseNext(columns, methods, run[i - 1], criteria[i])
    BY <1>1, <1>4, <1>5, ParseRun
  <2> QED BY <2>1
<1>7. ParseAll(criteria, columns, methods).out \in PieceOf(Filterable(columns))
  <2>1. ParseAll(criteria, columns, methods) \in Parsing(columns)
    BY <1>2, <1>6
  <2> QED BY <2>1 DEF Parsing
<1> QED BY <1>3, <1>7 DEF Parse

-----------------------------------------------------------------------------
(* Selectors.                                                               *)

\* Columns are added one after another.
LEMMA ColumnsKeep ==
  ASSUME NEW columns,
         NEW n \in Nat, NEW names, DOMAIN names = 1..n, NEW U, columns \in U,
         \A i \in 1..n : \A x \in U : AddColumn(x, names[i]) \in U
  PROVE  AddColumns(columns, names) \in U
<1> DEFINE Next(x, t) == AddColumn(x, t)
           F(g) == [S \in SUBSET DOMAIN names |->
                      IF S = {} THEN columns ELSE Next(g[S \ {Max(S)}], names[Max(S)])]
           step == [i \in 1..n |-> [x \in U |-> Next(x, names[i])]]
<1>1. AddColumns(columns, names) = (CHOOSE g : g = F(g))[DOMAIN names]
  BY Zenon DEF AddColumns, FoldLeft, MapThenFoldSet
<1> HIDE DEF Next
<1>2. step \in [1..n -> [U -> U]]
  BY DEF Next
<1>3. \A S \in SUBSET (1..n) : S # {} => \A x \in U : step[Max(S)][x] = Next(x, names[Max(S)])
  BY GreatestIs
<1> HIDE DEF step
<1>4. PICK it \in [SUBSET (1..n) -> U] : IsFold(it, n, columns, step)
  BY <1>2, FoldDefined
<1>5. it = F(it)
  BY <1>3, <1>4 DEF IsFold
<1>6. PICK f : f = F(f) /\ AddColumns(columns, names) = f[1..n]
  <2> HIDE DEF F
  <2> QED BY <1>1, <1>5, Zenon
<1>7. GoesBack(f, n, U, columns, step)
  <2>1. f[{}] = columns
    BY <1>6
  <2>2. ASSUME NEW S \in SUBSET (1..n), S # {}, f[S \ {Max(S)}] \in U
        PROVE  f[S] = step[Max(S)][f[S \ {Max(S)}]]
    <3>1. f[S] = Next(f[S \ {Max(S)}], names[Max(S)])
      BY <1>6, <2>2
    <3> HIDE DEF F
    <3> QED BY <1>3, <2>2, <3>1
  <2> HIDE DEF F
  <2> QED BY <2>1, <2>2 DEF GoesBack
<1>8. PICK run \in [0..n -> U] : IsRun(run, n, columns, step) /\ run[n] = f[1..n]
  BY <1>2, <1>7, FoldRuns
<1> QED BY <1>6, <1>8

\* What is asked for is taken in its order, until something fails.
PopulateNext(c, k, x, r) == IF x.ok THEN PopulateKind(c, k, x.selector, r) ELSE x

Populates(run, c, r, U) ==
  /\ run \in [0..6 -> U] /\ run[0] = Done(NoSelector) /\ run[6] = PopulateAll(c, r)
  /\ \A i \in 1..6 : run[i] = PopulateNext(c, Asked[i], run[i - 1], r)

\* PopulateAll goes from one to the next.
LEMMA PopulateRun ==
  ASSUME NEW c, NEW r, NEW U, Done(NoSelector) \in U,
         \A i \in 1..6 : \A x \in U : PopulateNext(c, Asked[i], x, r) \in U
  PROVE  \E run : Populates(run, c, r, U)
<1>0. PICK n \in Nat : n = 6 /\ DOMAIN Asked = 1..n
  BY DEF Asked
<1> DEFINE Next(x, t) == PopulateNext(c, t, x, r)
           F(g) == [S \in SUBSET DOMAIN Asked |->
                      IF S = {} THEN Done(NoSelector) ELSE Next(g[S \ {Max(S)}], Asked[Max(S)])]
           step == [i \in 1..n |-> [x \in U |-> Next(x, Asked[i])]]
<1>1. PopulateAll(c, r) = (CHOOSE g : g = F(g))[DOMAIN Asked]
  BY Zenon DEF PopulateAll, PopulateNext, FoldLeft, MapThenFoldSet
<1> HIDE DEF Next
<1>2. step \in [1..n -> [U -> U]]
  BY <1>0 DEF Next
<1>3. \A S \in SUBSET (1..n) : S # {} => \A x \in U : step[Max(S)][x] = Next(x, Asked[Max(S)])
  BY GreatestIs
<1> HIDE DEF step
<1>4. PICK it \in [SUBSET (1..n) -> U] : IsFold(it, n, Done(NoSelector), step)
  BY <1>2, FoldDefined
<1>5. it = F(it)
  BY <1>0, <1>3, <1>4 DEF IsFold
<1>6. PICK f : f = F(f) /\ PopulateAll(c, r) = f[1..n]
  <2> HIDE DEF F
  <2> QED BY <1>0, <1>1, <1>5, Zenon
<1>7. GoesBack(f, n, U, Done(NoSelector), step)
  <2>1. f[{}] = Done(NoSelector)
    BY <1>6
  <2>2. ASSUME NEW S \in SUBSET (1..n), S # {}, f[S \ {Max(S)}] \in U
        PROVE  f[S] = step[Max(S)][f[S \ {Max(S)}]]
    <3>1. f[S] = Next(f[S \ {Max(S)}], Asked[Max(S)])
      BY <1>0, <1>6, <2>2
    <3> HIDE DEF F
    <3> QED BY <1>3, <2>2, <3>1
  <2> HIDE DEF F
  <2> QED BY <2>1, <2>2 DEF GoesBack
<1>8. PICK run \in [0..n -> U] : IsRun(run, n, Done(NoSelector), step) /\ run[n] = f[1..n]
  BY <1>2, <1>7, FoldRuns
<1>9. ASSUME NEW i \in 1..n PROVE run[i - 1] \in U /\ step[i][run[i - 1]] = Next(run[i - 1], Asked[i])
  BY DEF step
<1>10. ASSUME NEW i \in 1..n PROVE run[i] = Next(run[i - 1], Asked[i])
  BY <1>8, <1>9 DEF IsRun
<1>11. run[0] = Done(NoSelector) /\ run[n] = PopulateAll(c, r)
  BY <1>6, <1>8 DEF IsRun
<1> HIDE DEF F
<1> QED BY <1>0, <1>10, <1>11 DEF Next, Populates

\* What selectors of a view can be, whatever is asked for: no more rows than it allows, columns
\* it has, each once, and criteria about those that can be filtered by.
SelectorsFor(c) ==
  {s \in [columns : Seq(DOMAIN c.columns), limit : Int, offset : Int, orderBy : DOMAIN c.columns \cup {""},
          criteria : PieceOf(Filterable(c.columns)), page : Int] :
     IsInjective(s.columns) /\ (c.limit # 0 => s.limit <= c.limit)}

Results(c) ==
  {result \in [ok : BOOLEAN, param : ToSet(Asked) \cup {""}, selector : SelectorsFor(c)] :
     ~result.ok => result.selector.page = 0}

ViewConf(c) == c.limit \in Nat /\ DOMAIN c.columns \subseteq Value

\* At first nothing is asked for.
LEMMA NoSelectorIs ==
  ASSUME NEW c, ViewConf(c)
  PROVE  NoSelector \in SelectorsFor(c) /\ NoSelector.page = 0
<1>1. Nothing \in PieceOf(Filterable(c.columns))
  BY PiecesAre
<1>2. <<>> \in Seq(DOMAIN c.columns) /\ IsInjective(<<>>)
  BY DEF IsInjective
<1>3. c.limit # 0 => 0 <= c.limit
  BY DEF ViewConf
<1>4. 0 \in Int /\ "" \in DOMAIN c.columns \cup {""}
  OBVIOUS
<1> QED BY <1>1, <1>2, <1>3, <1>4 DEF NoSelector, SelectorsFor

\* Selector.Add: a column once.
LEMMA ColumnsAdded ==
  ASSUME NEW D, NEW columns \in Seq(D), IsInjective(columns),
         NEW names, names \in Seq(ToSet(names)), ToSet(names) \subseteq D
  PROVE  AddColumns(columns, names) \in Seq(D) /\ IsInjective(AddColumns(columns, names))
<1>1. PICK n \in Nat : n = Len(names) /\ DOMAIN names = 1..n
  OBVIOUS
<1>2. PICK U : U = {s \in Seq(D) : IsInjective(s)}
  OBVIOUS
<1>3. columns \in U
  BY <1>2
<1>4. ASSUME NEW i \in 1..n, NEW x \in U PROVE AddColumn(x, names[i]) \in U
  <2>1. names[i] \in D
    BY <1>1 DEF ToSet
  <2>2. x \in Seq(D) /\ IsInjective(x) /\ DOMAIN x = 1..Len(x) /\ Len(x) \in Nat
    BY <1>2
  <2>3. CASE Contains(x, names[i])
    BY <1>2, <2>3 DEF AddColumn
  <2>4. CASE ~Contains(x, names[i])
    <3>1. PICK y \in Seq(D) : y = Append(x, names[i])
      <4>1. Append(x, names[i]) \in Seq(D)
        BY <2>1, <2>2
      <4> QED BY <4>1
    <3>2. /\ DOMAIN y = 1..(Len(x) + 1) /\ y[Len(x) + 1] = names[i]
          /\ \A j \in 1..Len(x) : y[j] = x[j] /\ x[j] # names[i]
      BY <2>1, <2>2, <2>4, <3>1 DEF Contains
    <3>3. IsInjective(y)
      <4> SUFFICES ASSUME NEW j \in 1..(Len(x) + 1), NEW k \in 1..(Len(x) + 1), y[j] = y[k] PROVE j = k
        BY <3>2 DEF IsInjective
      <4>1. CASE j \in 1..Len(x) /\ k \in 1..Len(x)
        BY <2>2, <3>2, <4>1 DEF IsInjective
      <4>2. CASE j = Len(x) + 1 \/ k = Len(x) + 1
        <5>1. j \in 1..Len(x) \/ j = Len(x) + 1
          BY <2>2
        <5>2. k \in 1..Len(x) \/ k = Len(x) + 1
          BY <2>2
        <5> QED BY <3>2, <4>2, <5>1, <5>2
      <4>3. (j \in 1..Len(x) \/ j = Len(x) + 1) /\ (k \in 1..Len(x) \/ k = Len(x) + 1)
        BY <2>2
      <4> QED BY <4>1, <4>2, <4>3
    <3> QED BY <1>2, <2>4, <3>1, <3>3 DEF AddColumn
  <2> QED BY <2>3, <2>4
<1>5. AddColumns(columns, names) \in U
  BY <1>1, <1>3, <1>4, ColumnsKeep
<1> QED BY <1>2, <1>5

\* selectorsBuilder.populateSelector, one thing that is asked for: within what the view allows;
\* a page replaces the offset.
LEMMA PopulateKeeps ==
  ASSUME NEW c, ViewConf(c), NEW r, Converted(c, r), NEW s \in SelectorsFor(c), NEW k \in ToSet(Asked)
  PROVE  /\ PopulateKind(c, k, s, r) \in Results(c)
         /\ LET result == PopulateKind(c, k, s, r).selector
            IN s.page = 0 /\ result.page # 0 => k = "page" /\ result.offset = result.limit * (result.page - 1)
<1> DEFINE Fits(result) ==
             /\ result \in Results(c)
             /\ s.page = 0 /\ result.selector.page # 0 =>
                  k = "page" /\ result.selector.offset = result.selector.limit * (result.selector.page - 1)
<1>0. ToSet(Asked) = {"fields", "limit", "offset", "orderby", "criteria", "page"}
  <2>1. DOMAIN Asked = 1..6
    BY DEF Asked
  <2> QED BY <2>1 DEF Asked, ToSet
<1>1. ASSUME NEW param \in ToSet(Asked) PROVE Fits(Error(param))
  BY NoSelectorIs DEF Error, Results
<1>2. ASSUME NEW t \in SelectorsFor(c), t.page = s.page PROVE Fits(Done(t))
  BY <1>2 DEF Done, Results
<1>4. /\ s.columns \in Seq(DOMAIN c.columns) /\ IsInjective(s.columns) /\ s.limit \in Int /\ s.offset \in Int
      /\ c.limit # 0 => s.limit <= c.limit
  BY DEF SelectorsFor
<1> HIDE DEF Fits
<1>5. ASSUME NEW names, names \in Seq(ToSet(names)), k = "fields" PROVE Fits(PopulateFields(c, s, names))
  <2>1. CASE "fields" \in c.allowed /\ ToSet(names) \subseteq DOMAIN c.columns
    <3>1. AddColumns(s.columns, names) \in Seq(DOMAIN c.columns) /\ IsInjective(AddColumns(s.columns, names))
      BY <1>4, <1>5, <2>1, ColumnsAdded
    <3>2. [s EXCEPT !.columns = AddColumns(@, names)] \in SelectorsFor(c)
      BY <3>1 DEF SelectorsFor
    <3>3. [s EXCEPT !.columns = AddColumns(@, names)].page = s.page
      BY DEF SelectorsFor
    <3>4. Fits(Done([s EXCEPT !.columns = AddColumns(@, names)]))
      BY <1>2, <3>2, <3>3
    <3> QED BY <2>1, <3>4 DEF PopulateFields, If
  <2>2. CASE ~("fields" \in c.allowed /\ ToSet(names) \subseteq DOMAIN c.columns)
    BY <1>1, <1>5, <2>2 DEF PopulateFields, If
  <2> QED BY <2>1, <2>2
<1>6. ASSUME NEW limit \in Int, k = "limit" PROVE Fits(PopulateLimit(c, s, limit))
  <2>1. ASSUME limit <= c.limit \/ c.limit = 0
        PROVE  [s EXCEPT !.limit = limit] \in SelectorsFor(c) /\ [s EXCEPT !.limit = limit].page = s.page
    BY <2>1 DEF SelectorsFor
  <2>2. PICK t \in SelectorsFor(c) :
          /\ t.page = s.page
          /\ t = IF limit <= c.limit \/ c.limit = 0 THEN [s EXCEPT !.limit = limit] ELSE s
    BY <2>1
  <2>3. Fits(Done(t)) /\ Fits(Error("limit"))
    BY <1>1, <1>2, <1>6, <2>2
  <2> QED BY <2>2, <2>3 DEF PopulateLimit, If
<1>7. ASSUME NEW offset \in Int, k = "offset" PROVE Fits(PopulateOffset(c, s, offset))
  <2>1. [s EXCEPT !.offset = offset] \in SelectorsFor(c) /\ [s EXCEPT !.offset = offset].page = s.page
    BY DEF SelectorsFor
  <2>2. Fits(Done([s EXCEPT !.offset = offset])) /\ Fits(Error("offset"))
    BY <1>1, <1>2, <1>7, <2>1
  <2> QED BY <2>2 DEF PopulateOffset, If
<1>8. ASSUME NEW name, k = "orderby" PROVE Fits(PopulateOrderBy(c, s, name))
  <2>1. CASE "orderby" \in c.allowed /\ name \in DOMAIN c.columns
    <3>1. [s EXCEPT !.orderBy = name] \in SelectorsFor(c) /\ [s EXCEPT !.orderBy = name].page = s.page
      BY <2>1 DEF SelectorsFor
    <3>2. Fits(Done([s EXCEPT !.orderBy = name]))
      BY <1>2, <3>1
    <3> QED BY <2>1, <3>2 DEF PopulateOrderBy, If
  <2>2. CASE ~("orderby" \in c.allowed /\ name \in DOMAIN c.columns)
    BY <1>1, <1>8, <2>2 DEF PopulateOrderBy, If
  <2> QED BY <2>1, <2>2
<1>9. ASSUME NEW criteria, Lexed(criteria), k = "criteria" PROVE Fits(PopulateCriteria(c, s, criteria))
  <2> DEFINE out == Parse(criteria, c.columns, c.methods).out
  <2>1. out \in PieceOf(Filterable(c.columns))
    BY <1>9, CriteriaParsed DEF ViewConf
  <2> HIDE DEF out
  <2>2. [s EXCEPT !.criteria = out] \in SelectorsFor(c) /\ [s EXCEPT !.criteria = out].page = s.page
    BY <2>1 DEF SelectorsFor
  <2>3. Fits(If("criteria" \in c.allowed /\ Parse(criteria, c.columns, c.methods).ok, "criteria",
                [s EXCEPT !.criteria = out]))
    <3>1. Fits(Done([s EXCEPT !.criteria = out])) /\ Fits(Error("criteria"))
      BY <1>1, <1>2, <1>9, <2>2
    <3> QED BY <3>1 DEF If
  <2> QED BY <2>3 DEF PopulateCriteria, out
<1>10. ASSUME NEW page \in Int, k = "page" PROVE Fits(PopulatePage(c, s, page))
  <2>1. PICK limit \in Int : limit = ActualLimit(c, s) /\ (c.limit # 0 => limit <= c.limit)
    <3>1. ActualLimit(c, s) \in Int /\ (c.limit # 0 => ActualLimit(c, s) <= c.limit)
      BY <1>4 DEF ActualLimit, ViewConf
    <3> QED BY <3>1
  <2>2. PICK offset \in Int : offset = limit * (page - 1)
    OBVIOUS
  <2>3. PICK t : t = [s EXCEPT !.offset = offset, !.limit = limit, !.page = page]
    OBVIOUS
  <2>4. t \in SelectorsFor(c) /\ t.page = page /\ t.offset = offset /\ t.limit = limit
    BY <2>1, <2>3 DEF SelectorsFor
  <2>5. PopulatePage(c, s, page) = Done(t)
    BY <2>1, <2>2, <2>3 DEF PopulatePage
  <2>6. Done(t) \in Results(c) /\ Done(t).selector = t
    BY <2>4 DEF Done, Results
  <2> QED BY <1>10, <2>2, <2>4, <2>5, <2>6 DEF Fits
<1>11. ASSUME NEW value \in Int, k \in {"limit", "offset", "page"} PROVE Fits(PopulateNumber(c, k, s, value))
  <2>1. CASE value = 0
    BY <1>2, <2>1 DEF PopulateNumber
  <2>2. CASE value # 0 /\ k = "limit"
    BY <1>6, <2>2 DEF PopulateNumber
  <2>3. CASE value # 0 /\ k = "offset"
    BY <1>7, <2>3 DEF PopulateNumber
  <2>4. CASE value # 0 /\ k = "page"
    BY <1>10, <2>4 DEF PopulateNumber
  <2> QED BY <1>11, <2>1, <2>2, <2>3, <2>4
<1>12. ASSUME NEW value, IsFor(k, value) PROVE Fits(PopulateValue(c, k, s, value))
  <2>1. CASE k = "fields"
    BY <1>5, <1>12, <2>1 DEF IsFor, PopulateValue
  <2>2. CASE k = "orderby"
    BY <1>8, <2>2 DEF PopulateValue
  <2>3. CASE k = "criteria"
    BY <1>9, <1>12, <2>3 DEF IsFor, PopulateValue
  <2>4. CASE k \in {"limit", "offset", "page"}
    BY <1>11, <1>12, <2>4 DEF IsFor, PopulateValue
  <2> QED BY <1>0, <2>1, <2>2, <2>3, <2>4
<1>13. Fits(PopulateKind(c, k, s, r))
  <2>1. CASE ~Configured(c, k)
    BY <1>1, <1>2, <2>1 DEF PopulateKind, If
  <2>2. CASE Configured(c, k) /\ Location(c, k) \notin DOMAIN r.values
    BY <1>2, <2>2 DEF PopulateKind
  <2>3. CASE Configured(c, k) /\ Location(c, k) \in DOMAIN r.values /\ ~r.values[Location(c, k)].ok
    BY <1>1, <2>3 DEF PopulateKind
  <2>4. CASE Configured(c, k) /\ Location(c, k) \in DOMAIN r.values /\ r.values[Location(c, k)].ok
    <3>1. IsFor(k, r.values[Location(c, k)].value)
      BY <2>4 DEF Converted
    <3> QED BY <1>12, <2>4, <3>1 DEF PopulateKind
  <2> QED BY <2>1, <2>2, <2>3, <2>4
<1> QED BY <1>13 DEF Fits

\* selectorsBuilder.populateSelector: what comes out is within what the view allows, with a
\* limit if there is an offset, and with the offset of the page that was asked for.
LEMMA SelectorIsSound ==
  ASSUME NEW c, ViewConf(c), NEW r, Converted(c, r)
  PROVE  LET result == PopulateSelector(c, r)
         IN /\ result.selector \in SelectorsFor(c)
            /\ result.ok /\ result.selector.offset # 0 => result.selector.limit # 0
            /\ result.selector.page # 0 =>
                 result.selector.offset = result.selector.limit * (result.selector.page - 1)
<1>1. DOMAIN Asked = 1..6 /\ \A i \in 1..6 : Asked[i] \in ToSet(Asked)
  <2>1. DOMAIN Asked = 1..6
    BY DEF Asked
  <2> QED BY <2>1 DEF ToSet
<1>2. \A i \in 1..5 : Asked[i] # "page"
  BY DEF Asked
<1> DEFINE Next(x, k) == PopulateNext(c, k, x, r)
<1>3. PICK U : U = Results(c)
  OBVIOUS
<1>4. Done(NoSelector) \in U
  BY <1>3, NoSelectorIs DEF Done, Results
<1>5. ASSUME NEW i \in 1..6, NEW x \in U
      PROVE  /\ Next(x, Asked[i]) \in U
             /\ x.selector.page = 0 =>
                  LET s == Next(x, Asked[i]).selector
                  IN s.page # 0 => Asked[i] = "page" /\ s.offset = s.limit * (s.page - 1)
  <2>1. x.selector \in SelectorsFor(c)
    BY <1>3 DEF Results
  <2> QED BY <1>1, <1>3, <2>1, PopulateKeeps DEF PopulateNext
<1>6. PICK run : Populates(run, c, r, U)
  BY <1>4, <1>5, PopulateRun
<1>10. /\ run \in [0..6 -> U] /\ run[0] = Done(NoSelector) /\ run[6] = PopulateAll(c, r)
       /\ \A i \in 1..6 : run[i] = Next(run[i - 1], Asked[i])
  BY <1>6 DEF Populates
<1> HIDE DEF Next
<1> DEFINE good == {i \in 0..5 : run[i].selector.page = 0}
<1>7. \A i \in 0..5 : i \in good
  <2>1. 0 \in good
    <3>1. NoSelector.page = 0 /\ run[0].selector = NoSelector
      <4>1. NoSelector.page = 0
        BY DEF NoSelector
      <4>2. Done(NoSelector).selector = NoSelector
        BY DEF Done
      <4>3. run[0] = Done(NoSelector)
        BY <1>10
      <4> QED BY <4>1, <4>2, <4>3
    <3> QED BY <3>1
  <2>2. ASSUME NEW i \in 1..5, i - 1 \in good PROVE i \in good
    <3>1. i \in 1..6 /\ i - 1 \in 0..6 /\ i \in 0..5 /\ Asked[i] # "page"
      BY <1>2
    <3>2. run[i - 1] \in U /\ run[i - 1].selector.page = 0 /\ run[i] = Next(run[i - 1], Asked[i])
      BY <1>10, <2>2, <3>1
    <3>3. run[i].selector.page = 0
      BY <1>5, <3>1, <3>2
    <3> QED BY <3>1, <3>3
  <2> HIDE DEF good
  <2> QED BY <2>1, <2>2, Inductive
<1> DEFINE end == PopulateAll(c, r)
<1>8. /\ end \in Results(c)
      /\ end.selector.page # 0 => end.selector.offset = end.selector.limit * (end.selector.page - 1)
  <2>1. run[5] \in U /\ run[5].selector.page = 0 /\ run[6] = Next(run[5], Asked[6])
    BY <1>7, <1>10
  <2> QED BY <1>3, <1>5, <1>10, <2>1
<1> HIDE DEF end
<1>9. end.selector \in SelectorsFor(c)
  BY <1>8 DEF Results
<1> QED BY <1>8, <1>9, NoSelectorIs DEF PopulateSelector, end, If, Done, Error, Results

-----------------------------------------------------------------------------
(* Goroutines.                                                              *)

\* A goroutine at work, which has not failed.
Working == {"populate", "params", "validate"}

-----------------------------------------------------------------------------
(* Errors.                                                                  *)

\* A goroutine has failed once it is at "status" or "error", and the errors are those of the
\* goroutines that are done, one of each.
ErrorsInv ==
  /\ build \in {"idle", "running", "built", "normalizing", "failed"}
  /\ pc \in [View -> Working \cup {"idle", "status", "error", "done"}]
  /\ DOMAIN failure = View
  /\ \A v \in View : /\ failure[v] # <<>> => failure[v] = <<failure[v][1]>> /\ failure[v][1].view = v
                     /\ pc[v] \in Working \cup {"idle"} => failure[v] = <<>>
                     /\ pc[v] \in {"status", "error"} => failure[v] # <<>>
                     /\ pc[v] = "done" /\ failure[v] # <<>> => failure[v][1] \in ToSet(errors)
  /\ errors \in Seq(ToSet(errors))
  /\ \A e \in ToSet(errors) : e.view \in View /\ pc[e.view] = "done" /\ failure[e.view] = <<e>>
  /\ \A i, j \in DOMAIN errors : errors[i].view = errors[j].view => i = j
  /\ build = "idle" => \A v \in View : pc[v] = "idle"
  /\ build \in {"built", "normalizing", "failed"} => \A v \in View : pc[v] = "done"
  /\ build = "built" => errors = <<>>
  /\ build \in {"normalizing", "failed"} => errors # <<>>

\* An error is appended to the others: Errors.AddError.
LEMMA Appended ==
  ASSUME NEW s, s \in Seq(ToSet(s)), NEW e
  PROVE  /\ Append(s, e) \in Seq(ToSet(Append(s, e)))
         /\ ToSet(Append(s, e)) = ToSet(s) \cup {e}
         /\ DOMAIN s = 1..Len(s) /\ Len(s) \in Nat
         /\ DOMAIN Append(s, e) = 1..(Len(s) + 1) /\ Len(Append(s, e)) = Len(s) + 1
         /\ \A i \in DOMAIN s : Append(s, e)[i] = s[i]
         /\ Append(s, e)[Len(s) + 1] = e
<1> DEFINE S == ToSet(s) \cup {e}
           a == Append(s, e)
<1>1. s \in Seq(S) /\ e \in S
  <2>1. ToSet(s) \in SUBSET S
    OBVIOUS
  <2> QED BY <2>1
<1>2. /\ DOMAIN s = 1..Len(s) /\ Len(s) \in Nat
      /\ a \in Seq(S) /\ DOMAIN a = 1..(Len(s) + 1) /\ Len(a) = Len(s) + 1
      /\ \A i \in DOMAIN s : a[i] = s[i]
      /\ a[Len(s) + 1] = e
  BY <1>1
<1>3. ToSet(a) = S
  BY <1>2 DEF ToSet
<1> QED BY <1>2, <1>3

\* What a goroutine does: it fails, goes on, or reports what failed.
Fails(v) ==
  /\ pc[v] \in Working
  /\ \E f : /\ f.view = v /\ failure' = [failure EXCEPT ![v] = <<f>>]
            /\ pc' = [pc EXCEPT ![v] = IF f.code = 0 THEN "error" ELSE "status"]
  /\ UNCHANGED <<build, status, errors, normalized>>

GoesOn(v) ==
  /\ pc[v] \in Working
  /\ \E next \in Working \cup {"done"} : pc' = [pc EXCEPT ![v] = next]
  /\ UNCHANGED <<build, failure, status, errors, normalized>>

\* A goroutine that fails keeps its error until it is reported.
LEMMA FailIs ==
  ASSUME NEW v, pc[v] \in Working, NEW f, f.view = v, Fail(v, f)
  PROVE  Fails(v)
BY DEF Fail, Goto, Fails

\* A goroutine that is done with a parameter goes on: buildSelectorParameters.
LEMMA StepIs ==
  ASSUME NEW v, pc[v] \in Working, NEW value, Step(v, value)
  PROVE  GoesOn(v)
BY DEF Step, Goto, GoesOn, Working

\* A goroutine of selectorsBuilder.build does one of these at a time.
LEMMA SelectorIs ==
  ASSUME NEW v \in View, SelectorOf(v)
  PROVE  Fails(v) \/ GoesOn(v) \/ SetStatus(v) \/ AddError(v)
<1>1. CASE Populate(v)
  <2>1. pc[v] \in Working
    BY <1>1 DEF Populate, Working
  <2>2. ASSUME NEW f, f.view = v, Fail(v, f) PROVE Fails(v)
    BY <2>1, <2>2, FailIs
  <2>3. PICK result : \/ Fail(v, Failure(v, result.param, 0, FALSE, 0))
                      \/ /\ Goto(v, IF Conf[v].parameters = <<>> THEN "done" ELSE "params")
                         /\ UNCHANGED <<build, failure, status, errors, normalized>>
    BY <1>1 DEF Populate
  <2>4. CASE Fail(v, Failure(v, result.param, 0, FALSE, 0))
    BY <2>2, <2>4 DEF Failure
  <2>5. CASE /\ Goto(v, IF Conf[v].parameters = <<>> THEN "done" ELSE "params")
             /\ UNCHANGED <<build, failure, status, errors, normalized>>
    BY <2>1, <2>5 DEF Goto, GoesOn, Working
  <2> QED BY <2>3, <2>4, <2>5
<1>2. CASE AddParam(v)
  <2>1. pc[v] \in Working
    BY <1>2 DEF AddParam, Working
  <2>2. CASE Fail(v, Failure(v, Current(v).name, Current(v).code, FALSE, 0))
    BY <2>1, <2>2, FailIs DEF Failure
  <2>3. CASE Step(v, IF Absent(Current(v), request) THEN <<>> ELSE <<request.values[Current(v).at].value>>)
    BY <2>1, <2>3, StepIs
  <2> QED BY <1>2, <2>2, <2>3 DEF AddParam
<1>3. CASE AddViewParam(v)
  <2>1. pc[v] \in Working
    BY <1>3 DEF AddViewParam, Working
  <2>2. ASSUME NEW f, f.view = v, Fail(v, f) PROVE Fails(v)
    BY <2>1, <2>2, FailIs
  <2>3. \/ \E s : Fail(v, Failure(v, Current(v).name, CodeFor(Current(v).code, s), TRUE, s))
        \/ Fail(v, Failure(v, Current(v).name, Current(v).code, FALSE, 0))
        \/ \E n : Step(v, <<[i \in 1..n |-> "row"]>>)
    BY <1>3 DEF AddViewParam
  <2>4. CASE \E s : Fail(v, Failure(v, Current(v).name, CodeFor(Current(v).code, s), TRUE, s))
    BY <2>2, <2>4 DEF Failure
  <2>5. CASE Fail(v, Failure(v, Current(v).name, Current(v).code, FALSE, 0))
    BY <2>2, <2>5 DEF Failure
  <2>6. CASE \E n : Step(v, <<[i \in 1..n |-> "row"]>>)
    BY <2>1, <2>6, StepIs
  <2> QED BY <2>3, <2>4, <2>5, <2>6
<1>4. CASE Validate(v)
  <2>1. pc[v] \in Working
    BY <1>4 DEF Validate, Working
  <2>2. CASE Fail(v, Failure(v, "", 0, FALSE, 0))
    BY <2>1, <2>2, FailIs DEF Failure
  <2>3. CASE Goto(v, "done") /\ UNCHANGED <<build, failure, status, errors, normalized>>
    BY <2>1, <2>3 DEF Goto, GoesOn
  <2> QED BY <1>4, <2>2, <2>3 DEF Validate
<1> QED BY <1>1, <1>2, <1>3, <1>4 DEF SelectorOf

\* No step of any goroutine loses an error or reports one twice.
LEMMA ErrorsStep ==
  ASSUME ErrorsInv, SelectorsNext
  PROVE  ErrorsInv'
<1> USE DEF ErrorsInv
<1>1. CASE Wait
  BY <1>1 DEF Wait
<1>2. CASE Normalize
  BY <1>2 DEF Normalize
<1>3. ASSUME NEW v \in View, Fails(v) PROVE ErrorsInv'
  BY <1>3 DEF Fails, Working
<1>4. ASSUME NEW v \in View, GoesOn(v) PROVE ErrorsInv'
  BY <1>4 DEF GoesOn, Working
<1>5. ASSUME NEW v \in View, SetStatus(v) PROVE ErrorsInv'
  BY <1>5 DEF SetStatus, Goto, Working
<1>6. ASSUME NEW v \in View, AddError(v) PROVE ErrorsInv'
  BY <1>6, Appended DEF AddError, Goto, Working
<1> QED BY <1>1, <1>2, <1>3, <1>4, <1>5, <1>6, SelectorIs DEF SelectorsNext

-----------------------------------------------------------------------------
(* The status.                                                              *)

\* The codes that were set so far: those of goroutines past "status", and those of the errors
\* that are normalised.
Codes ==
  ({failure[v][1].code : v \in {w \in View : pc[w] \in {"error", "done"} /\ failure[w] # <<>>}}
    \cup {Or400(errors[i].status) : i \in {j \in 1..normalized : errors[j].nested}}) \ {0}

\* A status is the most important of some codes, or what it is without any.
MostImportant(st, codes, none) ==
  /\ codes = {} => st = none
  /\ codes # {} => st \in codes /\ \A c \in codes : Priority(c) <= Priority(st)

StatusInv ==
  /\ normalized \in 0..Len(errors)
  /\ build \in {"idle", "running"} => normalized = 0
  /\ build = "failed" => normalized = Len(errors)
  /\ MostImportant(status, Codes, IF build = "failed" THEN 400 ELSE 0)

\* Errors.setStatus keeps the most important of the codes set so far.
LEMMA HigherIs ==
  ASSUME NEW codes, 0 \notin codes, NEW st, MostImportant(st, codes, 0), NEW code
  PROVE  MostImportant(Higher(st, code), (codes \cup {code}) \ {0}, 0)
<1>1. \A c : Priority(c) \in -1..4 /\ (c # 0 => Priority(c) > Priority(0))
  BY DEF Priority
<1>2. \A c \in codes : c # 0
  OBVIOUS
<1> QED BY <1>1, <1>2 DEF MostImportant, Higher

\* After any step the status is the most important of the codes set by then.
LEMMA StatusStep ==
  ASSUME ErrorsInv, StatusInv, SelectorsNext
  PROVE  StatusInv'
<1>1. 0 \notin Codes
  BY DEF Codes
<1>2. CASE Wait
  <2>1. Codes' = Codes
    BY <1>2 DEF Wait, Codes
  <2> QED BY <1>2, <2>1 DEF Wait, StatusInv
<1>3. CASE Normalize
  <2> DEFINE f == errors[normalized + 1]
             past == {w \in View : pc[w] \in {"error", "done"} /\ failure[w] # <<>>}
             marked == {failure[v][1].code : v \in past}
  <2>1. marked' = marked
    BY <1>3 DEF Normalize
  <2>2. Len(errors) \in Nat /\ normalized \in Nat
    BY Appended DEF ErrorsInv, StatusInv
  <2>3. CASE normalized < Len(errors) /\ f.nested
    <3>1. Codes' = (Codes \cup {Or400(f.status)}) \ {0}
      <4>1. {j \in 1..normalized' : errors'[j].nested}
              = {j \in 1..normalized : errors[j].nested} \cup {normalized + 1}
        BY <1>3, <2>2, <2>3 DEF Normalize
      <4>2. errors' = errors
        BY <1>3 DEF Normalize
      <4> QED BY <2>1, <4>1, <4>2 DEF Codes
    <3>2. status' = Higher(status, Or400(f.status))
      BY <1>3, <2>3 DEF Normalize, Normalized
    <3> QED BY <1>1, <1>3, <2>2, <2>3, <3>1, <3>2, HigherIs DEF Normalize, StatusInv
  <2>4. CASE normalized < Len(errors) /\ ~f.nested
    <3>1. Codes' = Codes
      <4>1. {j \in 1..normalized' : errors'[j].nested} = {j \in 1..normalized : errors[j].nested}
        BY <1>3, <2>2, <2>4 DEF Normalize
      <4>2. errors' = errors
        BY <1>3 DEF Normalize
      <4> QED BY <2>1, <4>1, <4>2 DEF Codes
    <3>2. status' = status
      BY <1>3, <2>4 DEF Normalize, Normalized
    <3> QED BY <1>3, <2>2, <2>4, <3>1, <3>2 DEF Normalize, StatusInv
  <2>5. CASE ~(normalized < Len(errors))
    <3>1. Codes' = Codes /\ normalized = Len(errors)
      BY <1>3, <2>2, <2>5 DEF Normalize, Codes, StatusInv
    <3>2. MostImportant(Or400(status), Codes, 400)
      BY <1>1, <1>3 DEF Normalize, StatusInv, MostImportant, Or400
    <3> QED BY <1>3, <2>2, <2>5, <3>1, <3>2 DEF Normalize, StatusInv
  <2> QED BY <2>3, <2>4, <2>5
<1>4. ASSUME NEW v \in View, Fails(v) PROVE StatusInv'
  <2>1. Codes' = Codes
    BY <1>4 DEF Fails, Codes, ErrorsInv, Working
  <2> QED BY <1>4, <2>1 DEF Fails, StatusInv
<1>5. ASSUME NEW v \in View, GoesOn(v) PROVE StatusInv'
  <2>1. Codes' = Codes
    BY <1>5 DEF GoesOn, Codes, ErrorsInv, Working
  <2> QED BY <1>5, <2>1 DEF GoesOn, StatusInv
<1>6. ASSUME NEW v \in View, SetStatus(v) PROVE StatusInv'
  <2>1. build = "running"
    BY <1>6 DEF SetStatus, ErrorsInv
  <2>2. Codes' = (Codes \cup {failure[v][1].code}) \ {0}
    BY <1>6 DEF SetStatus, Goto, Codes, ErrorsInv
  <2> QED BY <1>1, <1>6, <2>1, <2>2, HigherIs DEF SetStatus, StatusInv
<1>7. ASSUME NEW v \in View, AddError(v) PROVE StatusInv'
  <2>1. build = "running" /\ normalized = 0
    BY <1>7 DEF AddError, ErrorsInv, StatusInv
  <2>2. Codes' = Codes
    BY <1>7, <2>1 DEF AddError, Goto, Codes, ErrorsInv
  <2>3. 0 \in 0..Len(errors')
    BY <1>7, Appended DEF AddError, ErrorsInv
  <2> QED BY <1>7, <2>1, <2>2, <2>3 DEF AddError, StatusInv
<1> QED BY <1>2, <1>3, <1>4, <1>5, <1>6, <1>7, SelectorIs DEF SelectorsNext

-----------------------------------------------------------------------------
(* What is required.                                                        *)

\* A parameter that is required has a value.
Given(v, i) ==
  Conf[v].parameters[i].required /\ Conf[v].parameters[i].kind # "body"
    => Conf[v].parameters[i].name \in DOMAIN values[v]

\* A goroutine has the values of the parameters before the one it is at; those of the views
\* whose selectors are built have them all unless something failed.
RequiredInv(views) ==
  /\ DOMAIN at = View /\ DOMAIN values = View
  /\ \A v \in View :
       /\ pc[v] = "params" => /\ at[v] \in DOMAIN Conf[v].parameters
                              /\ \A i \in 1..(at[v] - 1) : Given(v, i)
       /\ pc[v] = "validate" \/ (v \in views /\ pc[v] = "done" /\ failure[v] = <<>>)
            => \A i \in DOMAIN Conf[v].parameters : Given(v, i)

\* A parameter is done.
LEMMA StepGives ==
  ASSUME ErrorsInv, NEW views, RequiredInv(views), NEW v \in View, pc[v] = "params",
         NEW value, Step(v, value),
         Current(v).required /\ Current(v).kind # "body" => value # <<>>
  PROVE  RequiredInv(views)'
<1> DEFINE p == Conf[v].parameters
           k == at[v]
<1>1. /\ p \in Seq(ToSet(p)) /\ Len(p) \in Nat /\ DOMAIN p = 1..Len(p)
      /\ k \in 1..Len(p) /\ \A i \in 1..(k - 1) : Given(v, i)
  BY ConfTyped DEF RequiredInv
<1>2. /\ at' = [at EXCEPT ![v] = k + 1] /\ UNCHANGED failure
      /\ pc' = [pc EXCEPT ![v] = IF k = Len(p) THEN "validate" ELSE "params"]
  BY DEF Step, Goto
<1>3. \A w \in View \ {v} : values'[w] = values[w]
  BY DEF Step, RequiredInv
<1>4. DOMAIN values' = View /\ DOMAIN values[v] \subseteq DOMAIN values'[v]
      /\ (value # <<>> => p[k].name \in DOMAIN values'[v])
  <2>1. PICK given : /\ given = With(values[v], p[k].name, value[1])
                     /\ values' = [values EXCEPT ![v] = IF value = <<>> THEN @ ELSE given]
    BY DEF Step, Current
  <2>2. DOMAIN given = {p[k].name} \cup DOMAIN values[v]
    BY <2>1 DEF With
  <2>3. DOMAIN values' = View /\ values'[v] = IF value = <<>> THEN values[v] ELSE given
    BY <2>1 DEF RequiredInv
  <2> QED BY <2>2, <2>3
<1> HIDE DEF p, k
<1>5. \A i \in 1..k : Given(v, i)'
  BY <1>1, <1>4 DEF Given, Current, p, k
<1>6. ASSUME NEW w \in View \ {v} PROVE \A i : Given(w, i)' <=> Given(w, i)
  BY <1>3, <1>6 DEF Given
<1>7. DOMAIN at' = View /\ at'[v] = k + 1 /\ \A w \in View \ {v} : at'[w] = at[w]
  BY <1>2 DEF RequiredInv
<1>8. pc'[v] = (IF k = Len(p) THEN "validate" ELSE "params") /\ \A w \in View \ {v} : pc'[w] = pc[w]
  BY <1>2 DEF ErrorsInv
<1>9. /\ pc'[v] = "params" => at'[v] \in DOMAIN p /\ \A i \in 1..(at'[v] - 1) : Given(v, i)'
      /\ pc'[v] # "done" /\ (pc'[v] = "validate" => \A i \in DOMAIN p : Given(v, i)')
  <2>1. CASE k = Len(p)
    BY <1>1, <1>5, <1>8, <2>1
  <2>2. CASE k # Len(p)
    <3>1. k + 1 \in 1..Len(p) /\ (k + 1) - 1 = k
      <4>1. k \in 1..Len(p) /\ Len(p) \in Nat
        BY <1>1
      <4> QED BY <2>2, <4>1
    <3>2. pc'[v] = "params" /\ at'[v] = k + 1
      BY <1>7, <1>8, <2>2
    <3> QED BY <1>1, <1>5, <3>1, <3>2
  <2> QED BY <2>1, <2>2
<1> QED BY <1>2, <1>4, <1>6, <1>7, <1>8, <1>9 DEF RequiredInv, p

\* What leaves the values alone and takes a view somewhere else.
LEMMA OthersKeep ==
  ASSUME ErrorsInv, NEW views, RequiredInv(views), NEW v \in View,
         UNCHANGED <<at, values>>, NEW next, pc' = [pc EXCEPT ![v] = next],
         \A w \in View \ {v} : failure'[w] = failure[w],
         \/ next \in {"status", "error"}
         \/ next = "done" /\ failure'[v] # <<>>
         \/ next = "done" /\ pc[v] = "validate"
  PROVE  RequiredInv(views)'
<1>1. \A w \in View \ {v} : pc'[w] = pc[w]
  BY DEF ErrorsInv
<1>2. pc'[v] = next
  BY DEF ErrorsInv
<1>3. \A w, i : Given(w, i)' <=> Given(w, i)
  BY DEF Given
<1> QED BY <1>1, <1>2, <1>3 DEF RequiredInv

\* After any step each goroutine has the values its parameters required so far.
LEMMA RequiredStep ==
  ASSUME ErrorsInv, NEW views, RequiredInv(views), SelectorsNext
  PROVE  RequiredInv(views)'
<1>1. CASE Wait \/ Normalize
  BY <1>1 DEF Wait, Normalize, RequiredInv, Given
<1>2. ASSUME NEW v \in View, NEW f, Fail(v, f), pc[v] \in Working PROVE RequiredInv(views)'
  BY <1>2, OthersKeep DEF Fail, Goto, ErrorsInv
<1>3. ASSUME NEW v \in View, Populate(v) PROVE RequiredInv(views)'
  <2>1. pc[v] = "populate" /\ pc[v] \in Working
    BY <1>3 DEF Populate, Working
  <2>2. CASE \E f : Fail(v, f)
    BY <1>2, <2>1, <2>2
  <2>3. CASE /\ at' = [at EXCEPT ![v] = 1]
             /\ Goto(v, IF Conf[v].parameters = <<>> THEN "done" ELSE "params")
             /\ UNCHANGED <<values, failure>>
    <3>1. \A w \in View \ {v} : pc'[w] = pc[w] /\ at'[w] = at[w]
      BY <2>3 DEF Goto, ErrorsInv, RequiredInv
    <3>2. pc'[v] = (IF Conf[v].parameters = <<>> THEN "done" ELSE "params") /\ at'[v] = 1 /\ DOMAIN at' = View
      BY <2>3 DEF Goto, ErrorsInv, RequiredInv
    <3>3. \A w, i : Given(w, i)' <=> Given(w, i)
      BY <2>3 DEF Given
    <3>4. Conf[v].parameters # <<>> => 1 \in DOMAIN Conf[v].parameters
      BY ConfTyped
    <3>5. Conf[v].parameters = <<>> => DOMAIN Conf[v].parameters = {}
      OBVIOUS
    <3> QED BY <2>3, <3>1, <3>2, <3>3, <3>4, <3>5 DEF RequiredInv
  <2> QED BY <1>3, <2>2, <2>3 DEF Populate
<1>4. ASSUME NEW v \in View, AddParam(v) PROVE RequiredInv(views)'
  <2>1. pc[v] = "params" /\ pc[v] \in Working
    BY <1>4 DEF AddParam, Working
  <2>2. CASE ParamFails(Current(v), request)
    BY <1>2, <1>4, <2>1, <2>2 DEF AddParam
  <2>3. CASE ~ParamFails(Current(v), request)
    <3>1. PICK value : /\ Step(v, value)
                       /\ value = IF Absent(Current(v), request) THEN <<>>
                                  ELSE <<request.values[Current(v).at].value>>
      BY <1>4, <2>3 DEF AddParam
    <3>2. Current(v).required /\ Current(v).kind # "body" => ~Absent(Current(v), request)
      BY <2>3 DEF ParamFails, Missed
    <3> QED BY <2>1, <3>1, <3>2, StepGives
  <2> QED BY <2>2, <2>3
<1>5. ASSUME NEW v \in View, AddViewParam(v) PROVE RequiredInv(views)'
  <2>1. pc[v] = "params" /\ pc[v] \in Working
    BY <1>5 DEF AddViewParam, Working
  <2>2. (\E f : Fail(v, f)) \/ \E n : Step(v, <<[i \in 1..n |-> "row"]>>)
    BY <1>5 DEF AddViewParam
  <2>3. ASSUME NEW n, Step(v, <<[i \in 1..n |-> "row"]>>) PROVE RequiredInv(views)'
    BY <2>1, <2>3, StepGives
  <2> QED BY <1>2, <2>1, <2>2, <2>3
<1>6. ASSUME NEW v \in View, Validate(v) PROVE RequiredInv(views)'
  <2>1. pc[v] = "validate" /\ pc[v] \in Working
    BY <1>6 DEF Validate, Working
  <2>2. (\E f : Fail(v, f)) \/ (Goto(v, "done") /\ UNCHANGED <<at, values, failure>>)
    BY <1>6 DEF Validate
  <2>3. CASE Goto(v, "done") /\ UNCHANGED <<at, values, failure>>
    BY <2>1, <2>3, OthersKeep DEF Goto
  <2> QED BY <1>2, <2>1, <2>2, <2>3
<1>7. ASSUME NEW v \in View, SetStatus(v) PROVE RequiredInv(views)'
  BY <1>7, OthersKeep DEF SetStatus, Goto
<1>8. ASSUME NEW v \in View, AddError(v) PROVE RequiredInv(views)'
  BY <1>8, OthersKeep DEF AddError, Goto, ErrorsInv
<1> QED BY <1>1, <1>3, <1>4, <1>5, <1>6, <1>7, <1>8 DEF SelectorsNext, SelectorOf

-----------------------------------------------------------------------------
(* What is selected.                                                        *)

\* What selectorsBuilder.populateSelector makes of a request: a limit if there is an offset, and
\* the offset of the page that was asked for.
Sound(c, s) ==
  /\ s \in SelectorsFor(c)
  /\ s.offset # 0 => s.limit # 0
  /\ s.page # 0 => s.offset = s.limit * (s.page - 1)

\* Selectors are sound and values values; what fails has a status or none.
SelectedInv ==
  /\ DOMAIN selector = View /\ DOMAIN values = View /\ DOMAIN at = View /\ DOMAIN failure = View
  /\ \A v \in View :
       /\ Sound(Conf[v], selector[v]) /\ at[v] \in 0..(Len(Conf[v].parameters) + 1)
       /\ \A name \in DOMAIN values[v] : values[v][name] \in Seq(Value)
       /\ failure[v] # <<>> => failure[v][1].code \in Nat /\ failure[v][1].status \in Nat
  /\ status \in Nat

\* A parameter a goroutine is at.
LEMMA CurrentIs ==
  ASSUME NEW v \in View, at[v] \in DOMAIN Conf[v].parameters
  PROVE  /\ Current(v) \in ToSet(Conf[v].parameters) /\ Current(v).code \in Nat
         /\ Current(v).kind = "view" => Current(v).view \in ParamView
         /\ at[v] \in 1..Len(Conf[v].parameters) /\ Len(Conf[v].parameters) \in Nat
<1>1. Conf[v].parameters \in Seq(ToSet(Conf[v].parameters))
  BY ConfTyped
<1>2. Current(v) \in ToSet(Conf[v].parameters)
  BY DEF Current, ToSet
<1>3. at[v] \in 1..Len(Conf[v].parameters) /\ Len(Conf[v].parameters) \in Nat
  BY <1>1
<1>4. v \in View \cup ParamView
  OBVIOUS
<1>5. PICK p : p = Current(v) /\ p \in ToSet(Conf[v].parameters)
  BY <1>2
<1>6. p.code \in Nat /\ (p.kind = "view" => p.view \in ParamView)
  BY <1>4, <1>5, ConfTyped
<1> QED BY <1>2, <1>3, <1>5, <1>6

\* The error of a goroutine is one of its kind.
LEMMA SelectedFails ==
  ASSUME SelectedInv, NEW v \in View, NEW f, f.code \in Nat, f.status \in Nat, Fail(v, f)
  PROVE  SelectedInv'
<1>1. /\ UNCHANGED <<selector, values, at, status>> /\ failure' = [failure EXCEPT ![v] = <<f>>]
  BY DEF Fail
<1>2. <<f>>[1] = f
  OBVIOUS
<1> QED BY <1>1, <1>2 DEF SelectedInv

\* A value that is set is one.
LEMMA SelectedSteps ==
  ASSUME SelectedInv, NEW v \in View, at[v] \in DOMAIN Conf[v].parameters,
         NEW value, value # <<>> => value[1] \in Seq(Value), Step(v, value)
  PROVE  SelectedInv'
<1>1. /\ UNCHANGED <<selector, failure, status>> /\ at' = [at EXCEPT ![v] = @ + 1]
      /\ values' = [values EXCEPT ![v] = IF value = <<>> THEN @ ELSE With(@, Current(v).name, value[1])]
  BY DEF Step
<1>2. /\ DOMAIN at' = View /\ at'[v] \in 0..(Len(Conf[v].parameters) + 1)
      /\ \A w \in View \ {v} : at'[w] = at[w]
  <2>1. PICK k \in Nat, n \in Nat : k = at[v] /\ n = Len(Conf[v].parameters) /\ k \in 1..n
    BY CurrentIs
  <2>2. k + 1 \in 0..(n + 1)
    BY <2>1
  <2> QED BY <1>1, <2>1, <2>2 DEF SelectedInv
<1>3. PICK vals : vals = (IF value = <<>> THEN values[v] ELSE With(values[v], Current(v).name, value[1]))
  OBVIOUS
<1>4. \A name \in DOMAIN vals : vals[name] \in Seq(Value)
  <2>1. \A name \in DOMAIN values[v] : values[v][name] \in Seq(Value)
    BY DEF SelectedInv
  <2>2. CASE value = <<>>
    BY <1>3, <2>1, <2>2
  <2>3. CASE value # <<>>
    BY <1>3, <2>1, <2>3 DEF With
  <2> QED BY <2>2, <2>3
<1>5. DOMAIN values' = View /\ values'[v] = vals /\ \A w \in View \ {v} : values'[w] = values[w]
  BY <1>1, <1>3 DEF SelectedInv
<1> QED BY <1>1, <1>2, <1>4, <1>5 DEF SelectedInv

\* The first of some positions is one of them.
LEMMA SmallestIs ==
  ASSUME NEW n \in Nat
  PROVE  \A S \in SUBSET (1..n) : S # {} => Min(S) \in S
<1> DEFINE Bounded(k) == \A S \in SUBSET (1..k) : S # {} => \E x \in S : \A y \in S : x <= y
           good == {k \in 0..n : Bounded(k)}
<1>1. 0 \in good
  <2>1. SUBSET (1..0) = {{}}
    OBVIOUS
  <2>2. Bounded(0)
    BY <2>1
  <2> HIDE DEF Bounded
  <2> QED BY <2>2
<1>2. ASSUME NEW k \in 1..n, k - 1 \in good PROVE k \in good
  <2> SUFFICES ASSUME NEW S \in SUBSET (1..k), S # {} PROVE \E x \in S : \A y \in S : x <= y
    OBVIOUS
  <2>1. CASE S \ {k} = {}
    <3>0. k \in Nat /\ k <= k
      OBVIOUS
    <3>1. \A x \in S : x = k
      BY <2>1
    <3> QED BY <3>0, <3>1
  <2>2. CASE S \ {k} # {}
    <3>1. S \ {k} \in SUBSET (1..(k - 1))
      OBVIOUS
    <3>2. PICK x \in S \ {k} : \A y \in S \ {k} : x <= y
      BY <1>2, <2>2, <3>1
    <3>3. x <= k
      BY <3>1, <3>2
    <3> QED BY <3>2, <3>3
  <2> QED BY <2>1, <2>2
<1>3. n \in good
  <2> HIDE DEF good
  <2> QED BY <1>1, <1>2, Inductive
<1>4. Bounded(n)
  BY <1>3
<1> QED BY <1>4, Zenon DEF Min

\* The status of a parameter that fails is one: a number, or none.
LEMMA NestedCodes ==
  ASSUME NEW w \in ParamView, NEW result, NEW r, NEW s \in NestedFailure(w, result, r)
  PROVE  s \in Nat
<1> DEFINE bad == {i \in DOMAIN Conf[w].parameters : ParamFails(Conf[w].parameters[i], r)}
<1>1. PICK n \in Nat : n = Len(Conf[w].parameters) /\ DOMAIN Conf[w].parameters = 1..n
                       /\ \A i \in 1..n : Conf[w].parameters[i] \in ToSet(Conf[w].parameters)
  <2>1. Conf[w].parameters \in Seq(ToSet(Conf[w].parameters))
    BY ConfTyped
  <2> QED BY <2>1
<1>2. bad \in SUBSET (1..n)
  BY <1>1
<1>3. s = 0 \/ (bad # {} /\ s = Conf[w].parameters[Min(bad)].code)
  BY DEF NestedFailure
<1> HIDE DEF bad
<1>4. bad # {} => Min(bad) \in 1..n
  BY <1>2, SmallestIs
<1>5. CASE bad # {}
  <2>1. PICK p : p = Conf[w].parameters[Min(bad)] /\ p \in ToSet(Conf[w].parameters)
    BY <1>1, <1>4, <1>5
  <2>2. w \in View \cup ParamView
    OBVIOUS
  <2>3. p.code \in Nat
    BY <2>1, <2>2, ConfTyped
  <2> QED BY <1>3, <2>1, <2>3
<1> QED BY <1>3, <1>5

\* A status stays one.
LEMMA StatusIsOne ==
  ASSUME NEW st \in Nat, NEW code \in Nat
  PROVE  Higher(st, code) \in Nat /\ Or400(st) \in Nat
BY DEF Higher, Or400

\* After any step of a goroutine what it has selected is sound.
LEMMA SelectedStep ==
  ASSUME ErrorsInv, StatusInv, NEW views, RequiredInv(views), SelectedInv, SelectorsNext,
         \A v \in View : Converted(Conf[v], request)
  PROVE  SelectedInv'
<1>1. CASE Wait
  BY <1>1 DEF Wait, SelectedInv
<1>2. CASE Normalize
  <2>1. UNCHANGED <<selector, values, at, failure>>
    BY <1>2 DEF Normalize
  <2>2. status' \in Nat
    <3>1. CASE normalized < Len(errors)
      <4>a. Len(errors) \in Nat /\ normalized \in 0..Len(errors)
        BY Appended DEF ErrorsInv, StatusInv
      <4>1. PICK k \in Nat, n \in Nat : k = normalized /\ n = Len(errors) /\ k + 1 \in 1..n
        <5>1. PICK k, n : k = normalized /\ n = Len(errors)
          OBVIOUS
        <5>2. k \in Nat /\ n \in Nat /\ k < n
          BY <3>1, <4>a, <5>1
        <5>3. k + 1 \in 1..n
          BY <5>2
        <5> QED BY <5>1, <5>2, <5>3
      <4>2. k + 1 \in DOMAIN errors
        BY <4>1, Appended DEF ErrorsInv
      <4>3. PICK e : e = errors[normalized + 1] /\ e \in ToSet(errors)
        BY <4>1, <4>2 DEF ToSet
      <4>4. e.view \in View /\ failure[e.view] = <<e>>
        BY <4>3 DEF ErrorsInv
      <4>5. failure[e.view] # <<>> /\ failure[e.view][1] = e
        BY <4>4
      <4>6. e.status \in Nat
        BY <4>4, <4>5 DEF SelectedInv
      <4>7. status' = Normalized(status, e)
        BY <1>2, <3>1, <4>3 DEF Normalize
      <4> QED BY <4>6, <4>7, StatusIsOne DEF Normalized, SelectedInv
    <3>2. CASE ~(normalized < Len(errors))
      BY <1>2, <3>2, StatusIsOne DEF Normalize, SelectedInv
    <3> QED BY <3>1, <3>2
  <2> QED BY <2>1, <2>2 DEF SelectedInv
<1>3. ASSUME NEW v \in View, Populate(v) PROVE SelectedInv'
  <2>1. PICK result : result = PopulateSelector(Conf[v], request)
    OBVIOUS
  <2>2. CASE Fail(v, Failure(v, result.param, 0, FALSE, 0))
    BY <2>2, SelectedFails DEF Failure
  <2>3. CASE /\ result.ok /\ selector' = [selector EXCEPT ![v] = result.selector]
             /\ at' = [at EXCEPT ![v] = 1] /\ UNCHANGED <<values, failure, status>>
    <3>1. ViewConf(Conf[v]) /\ Converted(Conf[v], request)
      BY ConfTyped DEF ViewConf
    <3>2. Sound(Conf[v], result.selector)
      BY <2>1, <2>3, <3>1, SelectorIsSound DEF Sound
    <3>3. 1 \in 0..(Len(Conf[v].parameters) + 1)
      <4>1. Conf[v].parameters \in Seq(ToSet(Conf[v].parameters))
        BY ConfTyped
      <4> QED BY <4>1
    <3> QED BY <2>3, <3>2, <3>3 DEF SelectedInv
  <2> QED BY <1>3, <2>1, <2>2, <2>3 DEF Populate
<1>4. ASSUME NEW v \in View, AddParam(v) PROVE SelectedInv'
  <2>1. at[v] \in DOMAIN Conf[v].parameters
    BY <1>4 DEF AddParam, RequiredInv
  <2>2. CASE ParamFails(Current(v), request)
    <3>1. PICK f : f = Failure(v, Current(v).name, Current(v).code, FALSE, 0) /\ Fail(v, f)
      BY <1>4, <2>2 DEF AddParam
    <3>2. f.code \in Nat /\ f.status \in Nat
      BY <2>1, <3>1, CurrentIs DEF Failure
    <3> QED BY <3>1, <3>2, SelectedFails
  <2>3. CASE ~ParamFails(Current(v), request)
    <3>1. PICK value : /\ Step(v, value)
                       /\ value = IF Absent(Current(v), request) THEN <<>>
                                  ELSE <<request.values[Current(v).at].value>>
      BY <1>4, <2>3 DEF AddParam
    <3>2. value # <<>> => value[1] \in Seq(Value)
      <4> SUFFICES ASSUME ~Absent(Current(v), request) PROVE request.values[Current(v).at].value \in Seq(Value)
        BY <3>1
      <4>1. Current(v) \in ToSet(Conf[v].parameters)
        BY <2>1, CurrentIs
      <4>2. Current(v).at \in DOMAIN request.values /\ request.values[Current(v).at].ok
        BY <2>3 DEF Absent, ParamFails
      <4>3. Converted(Conf[v], request)
        OBVIOUS
      <4> QED BY <4>1, <4>2, <4>3 DEF Converted
    <3> QED BY <2>1, <3>1, <3>2, SelectedSteps
  <2> QED BY <2>2, <2>3
<1>5. ASSUME NEW v \in View, AddViewParam(v) PROVE SelectedInv'
  <2>1. pc[v] = "params" /\ Current(v).kind = "view" /\ at[v] \in DOMAIN Conf[v].parameters
    BY <1>5 DEF AddViewParam, RequiredInv
  <2>2. PICK w \in ParamView, code \in Nat : w = Current(v).view /\ code = Current(v).code
    BY <2>1, CurrentIs
  <2>3. PICK result : result = NestedSelector(w, request)
    OBVIOUS
  <2>4. \/ \E s \in NestedFailure(w, result, request) :
             Fail(v, Failure(v, Current(v).name, CodeFor(code, s), TRUE, s))
        \/ Fail(v, Failure(v, Current(v).name, code, FALSE, 0))
        \/ \E n \in RowsOf(w, result) : Step(v, <<[i \in 1..n |-> "row"]>>)
    BY <1>5, <2>2, <2>3 DEF AddViewParam
  <2>5. ASSUME NEW s \in NestedFailure(w, result, request), NEW f,
               f = Failure(v, Current(v).name, CodeFor(code, s), TRUE, s), Fail(v, f)
        PROVE  SelectedInv'
    <3>1. s \in Nat
      BY NestedCodes
    <3>2. f.code \in Nat /\ f.status \in Nat
      BY <2>5, <3>1 DEF Failure, CodeFor
    <3> QED BY <2>5, <3>2, SelectedFails
  <2>6. ASSUME NEW f, f = Failure(v, Current(v).name, code, FALSE, 0), Fail(v, f) PROVE SelectedInv'
    <3>1. f.code \in Nat /\ f.status \in Nat
      BY <2>6 DEF Failure
    <3> QED BY <2>6, <3>1, SelectedFails
  <2>7. ASSUME NEW n \in RowsOf(w, result), NEW value, value = <<[i \in 1..n |-> "row"]>>, Step(v, value)
        PROVE  SelectedInv'
    <3>1. n \in Nat
      BY ConfTyped DEF RowsOf
    <3>2. [i \in 1..n |-> "row"] \in Seq(Value)
      BY <3>1, ConfTyped
    <3>3. value[1] \in Seq(Value)
      BY <2>7, <3>2
    <3> QED BY <2>1, <2>7, <3>3, SelectedSteps
  <2> QED BY <2>4, <2>5, <2>6, <2>7
<1>6. ASSUME NEW v \in View, Validate(v) PROVE SelectedInv'
  <2>1. PICK f : f = Failure(v, "", 0, FALSE, 0)
    OBVIOUS
  <2>2. CASE Fail(v, f)
    <3>1. f.code \in Nat /\ f.status \in Nat
      BY <2>1 DEF Failure
    <3> QED BY <2>2, <3>1, SelectedFails
  <2>3. CASE UNCHANGED <<selector, values, at, failure, status>>
    BY <2>3 DEF SelectedInv
  <2> QED BY <1>6, <2>1, <2>2, <2>3 DEF Validate
<1>7. ASSUME NEW v \in View, SetStatus(v) PROVE SelectedInv'
  <2>1. failure[v] # <<>>
    BY <1>7 DEF SetStatus, ErrorsInv
  <2>2. status' \in Nat
    BY <1>7, <2>1, StatusIsOne DEF SetStatus, SelectedInv
  <2> QED BY <1>7, <2>2 DEF SetStatus, SelectedInv
<1>8. ASSUME NEW v \in View, AddError(v) PROVE SelectedInv'
  BY <1>8 DEF AddError, SelectedInv
<1> QED BY <1>1, <1>2, <1>3, <1>4, <1>5, <1>6, <1>7, <1>8 DEF SelectorsNext, SelectorOf

-----------------------------------------------------------------------------
(* Templates.                                                               *)

\* A template is evaluated item by item, whatever its items are.
LEMMA EvaluateRun ==
  ASSUME NEW vals, NEW env, NEW n \in Nat, NEW template, DOMAIN template = 1..n,
         NEW all, all = EvaluateAll(template, vals, env)
  PROVE  \E run : /\ run[0] = Unevaluated(vals) /\ run[n] = all
                  /\ \A i \in 1..n : run[i] = EvaluateNext(run[i - 1], template[i], env)
<1> DEFINE Further(x, t) == EvaluateNext(x, t, env)
           base == Unevaluated(vals)
           F(g) == [S \in SUBSET DOMAIN template |->
                      IF S = {} THEN base ELSE Further(g[S \ {Max(S)}], template[Max(S)])]
           Is(it, k) == \A S \in SUBSET (1..k) :
                          it[S] = IF S = {} THEN base ELSE Further(it[S \ {Max(S)}], template[Max(S)])
           good == {k \in 0..n : \E it : Is(it, k)}
<1>1. EvaluateAll(template, vals, env) = (CHOOSE g : g = F(g))[DOMAIN template]
  BY Zenon DEF EvaluateAll, FoldLeft, MapThenFoldSet
<1> HIDE DEF Further, base
<1>2. 0 \in good
  <2> DEFINE it == [S \in SUBSET (1..0) |-> base]
  <2>1. SUBSET (1..0) = {{}}
    OBVIOUS
  <2>2. \A S \in SUBSET (1..0) : S = {} /\ it[S] = base
    BY <2>1
  <2> HIDE DEF it
  <2>3. Is(it, 0)
    BY <2>2
  <2> HIDE DEF Is
  <2> QED BY <2>3
<1>3. ASSUME NEW k \in 1..n, k - 1 \in good PROVE k \in good
  <2>1. PICK f : Is(f, k - 1)
    BY <1>3
  <2> DEFINE it == [S \in SUBSET (1..k) |-> IF k \in S THEN Further(f[S \ {k}], template[k]) ELSE f[S]]
  <2>2. \A S \in SUBSET (1..k) : /\ k \in S => S \ {k} \in SUBSET (1..(k - 1))
                                 /\ k \notin S => S \in SUBSET (1..(k - 1))
    OBVIOUS
  <2>3. \A S \in SUBSET (1..(k - 1)) : S \in SUBSET (1..k) /\ k \notin S
    OBVIOUS
  <2>4. \A S \in SUBSET (1..k) : it[S] = IF k \in S THEN Further(f[S \ {k}], template[k]) ELSE f[S]
    OBVIOUS
  <2> HIDE DEF it
  <2>5. ASSUME NEW S \in SUBSET (1..k)
        PROVE  it[S] = IF S = {} THEN base ELSE Further(it[S \ {Max(S)}], template[Max(S)])
    <3>1. CASE k \in S
      <4>1. Max(S) = k
        <5>0. k \in Nat /\ S # {}
          BY <3>1
        <5>1. Max(S) \in S /\ \A y \in S : Max(S) >= y
          BY <5>0, GreatestIs
        <5>2. Max(S) \in 1..k /\ Max(S) >= k
          BY <3>1, <5>1
        <5> QED BY <5>1, <5>2
      <4>2. S \ {k} \in SUBSET (1..k) /\ k \notin S \ {k} /\ S # {}
        BY <3>1
      <4>3. it[S] = Further(f[S \ {k}], template[k]) /\ it[S \ {k}] = f[S \ {k}]
        BY <2>4, <3>1, <4>2
      <4> QED BY <4>1, <4>2, <4>3
    <3>2. CASE k \notin S
      <4>1. S \in SUBSET (1..(k - 1)) /\ it[S] = f[S]
        BY <2>2, <2>4, <3>2
      <4>2. S \ {Max(S)} \in SUBSET (1..(k - 1)) /\ it[S \ {Max(S)}] = f[S \ {Max(S)}]
        <5>1. S \ {Max(S)} \in SUBSET (1..(k - 1))
          BY <4>1
        <5> QED BY <2>3, <2>4, <5>1
      <4> QED BY <2>1, <4>1, <4>2
    <3> QED BY <3>1, <3>2
  <2>6. Is(it, k)
    BY <2>5
  <2> HIDE DEF Is
  <2> QED BY <2>6
<1>4. PICK it : Is(it, n)
  <2>1. \A i \in 0..n : i \in good
    <3> HIDE DEF good
    <3> QED BY <1>2, <1>3, Inductive
  <2> HIDE DEF Is
  <2> QED BY <2>1
<1>5. PICK f : f = F(f)
  <2> DEFINE g == [S \in SUBSET (1..n) |-> it[S]]
  <2>1. \A S \in SUBSET (1..n) : S # {} => S \ {Max(S)} \in SUBSET (1..n)
    OBVIOUS
  <2>2. g = F(g)
    BY <1>4, <2>1
  <2> HIDE DEF g, F
  <2> QED BY <2>2
<1>6. PICK h : h = F(h) /\ EvaluateAll(template, vals, env) = h[1..n]
  <2> HIDE DEF F
  <2> QED BY <1>1, <1>5, Zenon
<1>10. \A S \in SUBSET (1..n) : S # {} => h[S] = Further(h[S \ {Max(S)}], template[Max(S)])
  BY <1>6
<1> HIDE DEF F
<1> DEFINE run == [i \in 0..n |-> h[1..i]]
<1>7. run[0] = base
  <2>1. 1..0 = {}
    OBVIOUS
  <2>2. h[{}] = base
    <3> USE DEF F
    <3>1. {} \in SUBSET DOMAIN template
      OBVIOUS
    <3> QED BY <1>6, <3>1
  <2> QED BY <2>1, <2>2
<1>8. ASSUME NEW i \in 1..n PROVE run[i] = Further(run[i - 1], template[i])
  <2>1. 1..i \in SUBSET (1..n) /\ i \in 1..i /\ (1..i) \ {i} = 1..(i - 1)
    OBVIOUS
  <2>4. 1..i # {}
    BY <2>1
  <2>2. Max(1..i) = i
    <3>1. Max(1..i) \in 1..i /\ Max(1..i) >= i
      BY <2>1, <2>4, GreatestIs
    <3> QED BY <3>1
  <2>3. h[1..i] = Further(h[(1..i) \ {Max(1..i)}], template[Max(1..i)])
    BY <1>10, <2>1, <2>4, Zenon
  <2>5. run[i] = h[1..i] /\ run[i - 1] = h[1..(i - 1)]
    OBVIOUS
  <2> HIDE DEF run
  <2> QED BY <2>1, <2>2, <2>3, <2>5
<1>9. run[n] = EvaluateAll(template, vals, env)
  BY <1>6
<1> HIDE DEF run
<1> QED BY <1>7, <1>8, <1>9 DEF base, Further

-----------------------------------------------------------------------------
(* Pieces over some tokens, with the arguments for their question marks.    *)

Over(T) == {p \in [sql : Seq(T), args : Seq(Value)] : p.args = Marked(p.sql)}

\* What text and arguments need.
Writes(T) == T \subseteq Tokens /\ Text \in T /\ \A v \in Value : Mark(v) \in T

\* Pieces make pieces, whose arguments are those of both.
LEMMA OverJoin ==
  ASSUME NEW T \in SUBSET Tokens, NEW a \in Over(T), NEW b \in Over(T)
  PROVE  Then(a, b) \in Over(T) /\ Len(Then(a, b).args) = Len(a.args) + Len(b.args)
<1>1. /\ a.sql \in Seq(T) /\ b.sql \in Seq(T) /\ a.args \in Seq(Value) /\ b.args \in Seq(Value)
      /\ a.args = Marked(a.sql) /\ b.args = Marked(b.sql)
  BY DEF Over
<1>2. a.sql \in Sql /\ b.sql \in Sql
  BY <1>1 DEF Sql
<1>3. Marked(a.sql \o b.sql) = a.args \o b.args
  BY <1>1, <1>2, MarkedConcat
<1>4. a.sql \o b.sql \in Seq(T) /\ a.args \o b.args \in Seq(Value)
      /\ Len(a.args \o b.args) = Len(a.args) + Len(b.args)
  BY <1>1
<1> QED BY <1>3, <1>4 DEF Then, Over

\* The pieces that others are made of.
LEMMA OverAre ==
  ASSUME NEW T, Writes(T)
  PROVE  /\ Nothing \in Over(T) /\ Raw \in Over(T)
         /\ \A t \in T : t.key # "?" => [sql |-> <<t>>, args |-> <<>>] \in Over(T)
         /\ \A vals \in Seq(Value) : AsBinding(vals) \in Over(T)
<1>0. <<>> \in Seq(Value) /\ <<>> \in Seq(T) /\ Marked(<<>>) = <<>>
  BY MarkedFew
<1>1. Nothing \in Over(T)
  BY <1>0 DEF Nothing, Over
<1>2. ASSUME NEW t \in T, t.key # "?" PROVE [sql |-> <<t>>, args |-> <<>>] \in Over(T)
  <2>1. t \in Tokens /\ <<t>> \in Seq(T)
    BY DEF Writes
  <2>2. Marked(<<t>>) = <<>>
    BY <1>2, <2>1, MarkedFew
  <2> QED BY <1>0, <2>1, <2>2 DEF Over
<1>3. Raw \in Over(T)
  BY <1>2, TokenTypes DEF Raw, Writes
<1>4. ASSUME NEW vals \in Seq(Value) PROVE AsBinding(vals) \in Over(T)
  <2>1. PICK n \in Nat : n = Len(vals) /\ DOMAIN vals = 1..n /\ \A i \in 1..n : vals[i] \in Value
    OBVIOUS
  <2>2. Marks(vals) \in [1..n -> T]
    BY <2>1 DEF Marks, Writes
  <2>3. Marks(vals) \in Seq(T) /\ Marked(Marks(vals)) = vals
    BY <2>2, MarkedMarks
  <2> QED BY <2>3 DEF AsBinding, Over
<1> QED BY <1>1, <1>2, <1>3, <1>4

-----------------------------------------------------------------------------
(* Templates.                                                               *)

\* The tokens have the keywords of some items.
Has_(T, items) ==
  \A i \in DOMAIN items :
    items[i].key \notin {"param", "parents", "view", "set", "each"} => Keyword(items[i].prefix, items[i].key) \in T

\* What an evaluation sees besides the parameters.
Sees(env, T) == env.parents \in Seq(Value) /\ env.view \in Over(T)

\* Nothing is evaluated differently.
Alike(env, other) == \A item, with : EvaluateItem(item, with, other) = EvaluateItem(item, with, env)

\* Mocked, an evaluation does not see the parents: MockExpander.
LEMMA MockedAlike ==
  ASSUME NEW env, NEW other, env.mock = TRUE, other.mock = TRUE,
         other.consts = env.consts, other.view = env.view
  PROVE  Alike(env, other)
<1>1. \A p, q : ParentJoinOn(p, TRUE) = ParentJoinOn(q, TRUE)
  BY DEF ParentJoinOn
<1> QED BY <1>1 DEF Alike, EvaluateItem

\* An item becomes a piece.
LEMMA ItemEvaluated ==
  ASSUME NEW T, Writes(T), NEW D, NEW with \in [D -> Seq(Value)], NEW env, Sees(env, T),
         NEW item, item.key \in Words, item.key \notin {"set", "each"}, Uses(item) \subseteq D,
         item.key \notin {"param", "parents", "view", "set", "each"} => Keyword(item.prefix, item.key) \in T,
         item.prefix \in KeyPrefixes
  PROVE  EvaluateItem(item, with, env) \in Over(T)
<1>1. CASE item.key = "parents"
  <2>1. Nothing \in Over(T) /\ Raw \in Over(T) /\ AsBinding(env.parents) \in Over(T)
    BY OverAre DEF Sees
  <2>2. Then(Raw, AsBinding(env.parents)) \in Over(T)
    BY <2>1, OverJoin DEF Writes
  <2> QED BY <1>1, <2>1, <2>2 DEF EvaluateItem, ParentJoinOn
<1>2. CASE item.key = "view"
  BY <1>2 DEF EvaluateItem, Sees
<1>3. CASE item.key = "param"
  <2>1. with[item.name] \in Seq(Value)
    BY <1>3 DEF Uses
  <2>2. AsBinding(with[item.name]) \in Over(T) /\ Raw \in Over(T)
    BY <2>1, OverAre
  <2> QED BY <1>3, <2>2 DEF EvaluateItem
<1>4. CASE item.key \notin {"parents", "view", "param"}
  <2>1. Keyword(item.prefix, item.key) \in T /\ Keyword(item.prefix, item.key).key # "?"
    BY <1>4, TokenTypes
  <2>2. [sql |-> <<Keyword(item.prefix, item.key)>>, args |-> <<>>] \in Over(T)
    BY <2>1, OverAre
  <2> QED BY <1>4, <2>2 DEF EvaluateItem
<1> QED BY <1>1, <1>2, <1>3, <1>4

\* Items are evaluated one after another.
ItemsClosed(U, n, items, with, env, out) ==
  out \in U /\ \A i \in 1..n : \A x \in U : Then(x, EvaluateItem(items[i], with, env)) \in U

ItemsRun(run, n, items, with, env, out) ==
  /\ run[0] = out /\ run[n] = EvaluateItems(items, with, env, out)
  /\ \A i \in 1..n : run[i] = Then(run[i - 1], EvaluateItem(items[i], with, env))

\* What items become is a run.
LEMMA EvaluateItemsRun ==
  ASSUME NEW n \in Nat, NEW items, NEW with, NEW env, NEW out, DOMAIN items = 1..n,
         NEW U, ItemsClosed(U, n, items, with, env, out)
  PROVE  \E run \in [0..n -> U] : ItemsRun(run, n, items, with, env, out)
<1> DEFINE Further(x, t) == Then(x, EvaluateItem(t, with, env))
           F(g) == [S \in SUBSET DOMAIN items |->
                      IF S = {} THEN out ELSE Further(g[S \ {Max(S)}], items[Max(S)])]
           step == [i \in 1..n |-> [x \in U |-> Further(x, items[i])]]
<1>0. out \in U /\ \A i \in 1..n : \A x \in U : Further(x, items[i]) \in U
  BY DEF ItemsClosed
<1>1. EvaluateItems(items, with, env, out) = (CHOOSE g : g = F(g))[DOMAIN items]
  BY Zenon DEF EvaluateItems, FoldLeft, MapThenFoldSet
<1> HIDE DEF Further
<1>2. step \in [1..n -> [U -> U]]
  BY <1>0
<1>3. \A S \in SUBSET (1..n) : S # {} => \A x \in U : step[Max(S)][x] = Further(x, items[Max(S)])
  BY GreatestIs
<1> HIDE DEF step
<1>4. PICK it \in [SUBSET (1..n) -> U] : IsFold(it, n, out, step)
  BY <1>0, <1>2, FoldDefined
<1>5. it = F(it)
  BY <1>3, <1>4 DEF IsFold
<1>6. PICK f : f = F(f) /\ EvaluateItems(items, with, env, out) = f[1..n]
  <2> HIDE DEF F
  <2> QED BY <1>1, <1>5, Zenon
<1>7. GoesBack(f, n, U, out, step)
  <2>1. f[{}] = out
    BY <1>6
  <2>2. ASSUME NEW S \in SUBSET (1..n), S # {}, f[S \ {Max(S)}] \in U
        PROVE  f[S] = step[Max(S)][f[S \ {Max(S)}]]
    <3>1. f[S] = Further(f[S \ {Max(S)}], items[Max(S)])
      BY <1>6, <2>2
    <3> HIDE DEF F
    <3> QED BY <1>3, <2>2, <3>1
  <2> HIDE DEF F
  <2> QED BY <2>1, <2>2 DEF GoesBack
<1>8. PICK run \in [0..n -> U] : IsRun(run, n, out, step) /\ run[n] = f[1..n]
  BY <1>0, <1>2, <1>7, FoldRuns
<1>9. ASSUME NEW i \in 1..n PROVE run[i - 1] \in U /\ step[i][run[i - 1]] = Further(run[i - 1], items[i])
  BY DEF step
<1>10. ASSUME NEW i \in 1..n PROVE run[i] = Further(run[i - 1], items[i])
  BY <1>8, <1>9 DEF IsRun
<1>11. run[0] = out /\ run[n] = EvaluateItems(items, with, env, out)
  BY <1>6, <1>8 DEF IsRun
<1> QED BY <1>10, <1>11 DEF Further, ItemsRun

\* A loop goes from value to value.
EachClosed(U, n, item, with, env, out) ==
  /\ out \in U
  /\ \A i \in 1..n : \A x \in U :
       EvaluateItems(item.body, With(with, item.name, <<with[item.from][i]>>), env, x) \in U

EachRun(run, n, item, with, env, out) ==
  /\ run[0] = out /\ run[n] = EvaluateEach(item, with, env, out)
  /\ \A i \in 1..n : run[i] = EvaluateItems(item.body, With(with, item.name, <<with[item.from][i]>>), env, run[i - 1])

\* What a loop becomes is a run.
LEMMA EvaluateEachRun ==
  ASSUME NEW n \in Nat, NEW item, NEW with, NEW env, NEW out, DOMAIN with[item.from] = 1..n,
         NEW U, EachClosed(U, n, item, with, env, out)
  PROVE  \E run \in [0..n -> U] : EachRun(run, n, item, with, env, out)
<1> DEFINE Further(x, t) == EvaluateItems(item.body, With(with, item.name, <<t>>), env, x)
           F(g) == [S \in SUBSET DOMAIN with[item.from] |->
                      IF S = {} THEN out ELSE Further(g[S \ {Max(S)}], with[item.from][Max(S)])]
           step == [i \in 1..n |-> [x \in U |-> Further(x, with[item.from][i])]]
<1>0. out \in U /\ \A i \in 1..n : \A x \in U : Further(x, with[item.from][i]) \in U
  BY DEF EachClosed
<1>1. EvaluateEach(item, with, env, out) = (CHOOSE g : g = F(g))[DOMAIN with[item.from]]
  BY Zenon DEF EvaluateEach, FoldLeft, MapThenFoldSet
<1> HIDE DEF Further
<1>2. step \in [1..n -> [U -> U]]
  BY <1>0
<1>3. \A S \in SUBSET (1..n) : S # {} => \A x \in U : step[Max(S)][x] = Further(x, with[item.from][Max(S)])
  BY GreatestIs
<1> HIDE DEF step
<1>4. PICK it \in [SUBSET (1..n) -> U] : IsFold(it, n, out, step)
  BY <1>0, <1>2, FoldDefined
<1>5. it = F(it)
  BY <1>3, <1>4 DEF IsFold
<1>6. PICK f : f = F(f) /\ EvaluateEach(item, with, env, out) = f[1..n]
  <2> HIDE DEF F
  <2> QED BY <1>1, <1>5, Zenon
<1>7. GoesBack(f, n, U, out, step)
  <2>1. f[{}] = out
    BY <1>6
  <2>2. ASSUME NEW S \in SUBSET (1..n), S # {}, f[S \ {Max(S)}] \in U
        PROVE  f[S] = step[Max(S)][f[S \ {Max(S)}]]
    <3>1. f[S] = Further(f[S \ {Max(S)}], with[item.from][Max(S)])
      BY <1>6, <2>2
    <3> HIDE DEF F
    <3> QED BY <1>3, <2>2, <3>1
  <2> HIDE DEF F
  <2> QED BY <2>1, <2>2 DEF GoesBack
<1>8. PICK run \in [0..n -> U] : IsRun(run, n, out, step) /\ run[n] = f[1..n]
  <2> HIDE DEF F
  <2>1. out \in U
    BY <1>0
  <2> QED BY <1>2, <1>7, <2>1, FoldRuns
<1>9. ASSUME NEW i \in 1..n PROVE run[i - 1] \in U /\ step[i][run[i - 1]] = Further(run[i - 1], with[item.from][i])
  BY DEF step
<1>10. ASSUME NEW i \in 1..n PROVE run[i] = Further(run[i - 1], with[item.from][i])
  BY <1>8, <1>9 DEF IsRun
<1>11. run[0] = out /\ run[n] = EvaluateEach(item, with, env, out)
  BY <1>6, <1>8 DEF IsRun
<1> QED BY <1>10, <1>11 DEF Further, EachRun

\* Pieces that a piece was made longer to.
Longer(T, out) == {p \in Over(T) : Len(p.args) >= Len(out.args)}

\* So they are pieces all along, and the same for whoever sees the same.
LEMMA LongerJoin ==
  ASSUME NEW T \in SUBSET Tokens, NEW out \in Over(T), NEW a \in Longer(T, out), NEW b \in Over(T)
  PROVE  Then(a, b) \in Longer(T, out)
<1>1. Then(a, b) \in Over(T) /\ Len(Then(a, b).args) = Len(a.args) + Len(b.args)
  BY OverJoin DEF Longer
<1>2. Len(a.args) \in Nat /\ Len(b.args) \in Nat /\ Len(out.args) \in Nat
  BY DEF Over, Longer
<1>3. PICK p \in Over(T) : p = Then(a, b) /\ Len(p.args) = Len(a.args) + Len(b.args)
  BY <1>1
<1>4. Len(a.args) >= Len(out.args)
  BY DEF Longer
<1>5. Len(p.args) >= Len(out.args)
  <2>1. \A x, y, z \in Nat : x >= z => x + y >= z
    OBVIOUS
  <2> QED BY <1>2, <1>3, <1>4, <2>1
<1> QED BY <1>3, <1>5 DEF Longer

\* A piece is as long as itself, and what is longer than what is longer is longer.
LEMMA LongerIs ==
  ASSUME NEW T, NEW out \in Over(T)
  PROVE  /\ out \in Longer(T, out)
         /\ \A a \in Longer(T, out) : Longer(T, a) \subseteq Longer(T, out) /\ a \in Over(T)
<1>1. Len(out.args) \in Nat
  BY DEF Over
<1>2. ASSUME NEW a \in Longer(T, out), NEW b \in Longer(T, a) PROVE b \in Longer(T, out)
  <2>1. Len(a.args) \in Nat /\ Len(b.args) \in Nat
    BY DEF Over, Longer
  <2> QED BY <1>1, <2>1 DEF Longer
<1> QED BY <1>1, <1>2 DEF Longer

\* What items without variables and loops can be written with.
Simple(T, items, D) ==
  /\ items \in Seq(ToSet(items)) /\ Has_(T, items)
  /\ \A i \in DOMAIN items : /\ items[i].key \in Words /\ items[i].prefix \in KeyPrefixes
                             /\ items[i].key \notin {"set", "each"} /\ Uses(items[i]) \subseteq D

\* Items make a piece no shorter than what there was, and the same whatever is not used.
LEMMA ItemsEvaluated ==
  ASSUME NEW T, Writes(T), NEW D, NEW with \in [D -> Seq(Value)], NEW env, Sees(env, T),
         NEW items, Simple(T, items, D), NEW out \in Over(T)
  PROVE  /\ EvaluateItems(items, with, env, out) \in Longer(T, out)
         /\ \A other : Alike(env, other) =>
              EvaluateItems(items, with, other, out) = EvaluateItems(items, with, env, out)
<1>1. PICK n \in Nat : n = Len(items) /\ DOMAIN items = 1..n
  BY DEF Simple
<1>2. PICK U : U = Longer(T, out)
  OBVIOUS
<1>3. out \in U
  BY <1>2, LongerIs
<1>4. ASSUME NEW i \in 1..n, NEW x \in U PROVE Then(x, EvaluateItem(items[i], with, env)) \in U
  <2>1. EvaluateItem(items[i], with, env) \in Over(T)
    <3>1. /\ items[i].key \in Words /\ items[i].key \notin {"set", "each"} /\ Uses(items[i]) \subseteq D
          /\ items[i].prefix \in KeyPrefixes
          /\ items[i].key \notin {"param", "parents", "view", "set", "each"}
               => Keyword(items[i].prefix, items[i].key) \in T
      BY <1>1 DEF Simple, Has_
    <3> QED BY <3>1, ItemEvaluated
  <2> QED BY <1>2, <2>1, LongerJoin DEF Writes
<1>5. PICK run \in [0..n -> U] :
        /\ run[0] = out /\ run[n] = EvaluateItems(items, with, env, out)
        /\ \A i \in 1..n : run[i] = Then(run[i - 1], EvaluateItem(items[i], with, env))
  <2>1. ItemsClosed(U, n, items, with, env, out)
    BY <1>3, <1>4 DEF ItemsClosed
  <2>2. \E run \in [0..n -> U] : ItemsRun(run, n, items, with, env, out)
    BY <1>1, <2>1, EvaluateItemsRun
  <2> QED BY <2>2 DEF ItemsRun
<1>6. ASSUME NEW other, Alike(env, other)
      PROVE  EvaluateItems(items, with, other, out) = EvaluateItems(items, with, env, out)
  <2>1. ASSUME NEW i \in 1..n PROVE EvaluateItem(items[i], with, other) = EvaluateItem(items[i], with, env)
    BY <1>6 DEF Alike
  <2>2. \A i \in 1..n : \A x \in U : Then(x, EvaluateItem(items[i], with, other)) \in U
    BY <1>4, <2>1
  <2>3. PICK r \in [0..n -> U] :
          /\ r[0] = out /\ r[n] = EvaluateItems(items, with, other, out)
          /\ \A i \in 1..n : r[i] = Then(r[i - 1], EvaluateItem(items[i], with, other))
    <3>1. ItemsClosed(U, n, items, with, other, out)
      BY <1>3, <2>2 DEF ItemsClosed
    <3>2. \E r \in [0..n -> U] : ItemsRun(r, n, items, with, other, out)
      BY <1>1, <3>1, EvaluateItemsRun
    <3> QED BY <3>2 DEF ItemsRun
  <2> DEFINE good == {i \in 0..n : r[i] = run[i]}
  <2>4. 0 \in good
    BY <1>5, <2>3
  <2>5. ASSUME NEW i \in 1..n, i - 1 \in good PROVE i \in good
    BY <1>5, <2>1, <2>3, <2>5
  <2>6. \A i \in 0..n : i \in good
    <3> HIDE DEF good
    <3> QED BY <2>4, <2>5, Inductive
  <2> QED BY <1>5, <2>3, <2>6
<1> QED BY <1>2, <1>5, <1>6

\* A variable is there after it is set.
LEMMA WithOneMore ==
  ASSUME NEW D, NEW with \in [D -> Seq(Value)], NEW name, NEW vals \in Seq(Value)
  PROVE  With(with, name, vals) \in [D \cup {name} -> Seq(Value)]
BY DEF With

\* A loop over what is known, with a variable more.
Loops(T, item, D) == item.from \in D /\ Simple(T, item.body, D \cup {item.name})

\* A loop becomes a longer piece, the same for whoever sees the same.
LEMMA EachEvaluated ==
  ASSUME NEW T, Writes(T), NEW D, NEW with \in [D -> Seq(Value)], NEW env, Sees(env, T),
         NEW item, Loops(T, item, D), NEW out \in Over(T)
  PROVE  /\ EvaluateEach(item, with, env, out) \in Longer(T, out)
         /\ \A other : Alike(env, other) => EvaluateEach(item, with, other, out) = EvaluateEach(item, with, env, out)
<1>0. item.from \in D /\ Simple(T, item.body, D \cup {item.name})
  BY DEF Loops
<1>1. PICK from \in Seq(Value) : from = with[item.from]
  BY <1>0
<1>2. PICK n \in Nat : n = Len(from) /\ DOMAIN from = 1..n
  OBVIOUS
<1>3. PICK U : U = Longer(T, out)
  OBVIOUS
<1>4. out \in U
  BY <1>3, LongerIs
<1>5. ASSUME NEW i \in 1..n
      PROVE  With(with, item.name, <<from[i]>>) \in [D \cup {item.name} -> Seq(Value)]
  <2>1. <<from[i]>> \in Seq(Value)
    BY <1>2
  <2> QED BY <2>1, WithOneMore
<1>6. ASSUME NEW i \in 1..n, NEW x \in U
      PROVE  /\ EvaluateItems(item.body, With(with, item.name, <<from[i]>>), env, x) \in U
             /\ \A other : Alike(env, other) =>
                  EvaluateItems(item.body, With(with, item.name, <<from[i]>>), other, x)
                    = EvaluateItems(item.body, With(with, item.name, <<from[i]>>), env, x)
  <2>1. x \in Over(T) /\ Longer(T, x) \subseteq U
    BY <1>3, LongerIs
  <2>2. PICK w \in [D \cup {item.name} -> Seq(Value)] : w = With(with, item.name, <<from[i]>>)
    BY <1>5
  <2>3. /\ EvaluateItems(item.body, w, env, x) \in Longer(T, x)
        /\ \A other : Alike(env, other) => EvaluateItems(item.body, w, other, x) = EvaluateItems(item.body, w, env, x)
    BY <1>0, <2>1, ItemsEvaluated
  <2> QED BY <2>1, <2>2, <2>3
<1>7. PICK run \in [0..n -> U] :
        /\ run[0] = out /\ run[n] = EvaluateEach(item, with, env, out)
        /\ \A i \in 1..n : run[i] = EvaluateItems(item.body, With(with, item.name, <<from[i]>>), env, run[i - 1])
  <2>1. EachClosed(U, n, item, with, env, out)
    BY <1>1, <1>4, <1>6 DEF EachClosed
  <2>2. \E run \in [0..n -> U] : EachRun(run, n, item, with, env, out)
    BY <1>1, <1>2, <2>1, EvaluateEachRun
  <2> QED BY <1>1, <2>2 DEF EachRun
<1>8. ASSUME NEW other, Alike(env, other)
      PROVE  EvaluateEach(item, with, other, out) = EvaluateEach(item, with, env, out)
  <2>1. \A i \in 1..n : \A x \in U :
          EvaluateItems(item.body, With(with, item.name, <<from[i]>>), other, x)
            = EvaluateItems(item.body, With(with, item.name, <<from[i]>>), env, x)
    BY <1>6, <1>8
  <2>2. \A i \in 1..n : \A x \in U :
          EvaluateItems(item.body, With(with, item.name, <<from[i]>>), other, x) \in U
    BY <1>6, <2>1
  <2>3. PICK r \in [0..n -> U] :
          /\ r[0] = out /\ r[n] = EvaluateEach(item, with, other, out)
          /\ \A i \in 1..n : r[i] = EvaluateItems(item.body, With(with, item.name, <<from[i]>>), other, r[i - 1])
    <3>1. EachClosed(U, n, item, with, other, out)
      BY <1>1, <1>4, <2>2 DEF EachClosed
    <3>2. \E r \in [0..n -> U] : EachRun(r, n, item, with, other, out)
      BY <1>1, <1>2, <3>1, EvaluateEachRun
    <3> QED BY <1>1, <3>2 DEF EachRun
  <2> DEFINE good == {i \in 0..n : r[i] = run[i]}
  <2>4. 0 \in good
    BY <1>7, <2>3
  <2>5. ASSUME NEW i \in 1..n, i - 1 \in good PROVE i \in good
    <3>1. i - 1 \in 0..n /\ run[i - 1] \in U /\ r[i - 1] = run[i - 1]
      BY <2>5
    <3>2. r[i] = EvaluateItems(item.body, With(with, item.name, <<from[i]>>), other, run[i - 1])
      BY <2>3, <3>1
    <3>3. r[i] = run[i]
      BY <1>7, <2>1, <3>1, <3>2
    <3> QED BY <3>3
  <2>6. \A i \in 0..n : i \in good
    <3> HIDE DEF good
    <3> QED BY <2>4, <2>5, Inductive
  <2> QED BY <1>7, <2>3, <2>6
<1> QED BY <1>3, <1>7, <1>8

\* An evaluation between two items: the variables it knows and what it has written.
Between(T, D) == [with : [D -> Seq(Value)], out : Over(T)]

\* What is known after an item.
After(item, D) == IF item.key = "set" THEN D \cup {item.name} ELSE D

\* An item of a template that knows some variables.
Fits_(T, item, D) ==
  /\ item.key \in Words /\ item.prefix \in KeyPrefixes /\ Uses(item) \subseteq D
  /\ item.key \notin {"param", "parents", "view", "set", "each"} => Keyword(item.prefix, item.key) \in T
  /\ item.key = "each" => Simple(T, item.body, D \cup {item.name})

\* One item more.
LEMMA NextEvaluated ==
  ASSUME NEW T, Writes(T), NEW D, NEW state \in Between(T, D), NEW env, Sees(env, T),
         NEW item, Fits_(T, item, D)
  PROVE  /\ EvaluateNext(state, item, env) \in Between(T, After(item, D))
         /\ EvaluateNext(state, item, env).out \in Longer(T, state.out)
         /\ item.key = "view" => EvaluateNext(state, item, env).out = Then(state.out, env.view)
         /\ \A other : Alike(env, other) => EvaluateNext(state, item, other) = EvaluateNext(state, item, env)
<1>1. PICK with \in [D -> Seq(Value)], out \in Over(T) : state = [with |-> with, out |-> out]
  BY DEF Between
<1>2. out \in Longer(T, out)
  BY LongerIs
<1>3. ASSUME NEW o \in Longer(T, out) PROVE o \in Over(T)
  BY DEF Longer
<1>4. CASE item.key = "set"
  <2>1. item.from \in D /\ with[item.from] \in Seq(Value)
    BY <1>4 DEF Fits_, Uses
  <2>2. With(with, item.name, with[item.from]) \in [D \cup {item.name} -> Seq(Value)]
    BY <2>1, WithOneMore
  <2>3. \A e : EvaluateNext(state, item, e) = [with |-> With(with, item.name, with[item.from]), out |-> out]
    BY <1>1, <1>4 DEF EvaluateNext
  <2> QED BY <1>1, <1>2, <1>4, <2>2, <2>3 DEF Between, After
<1>5. CASE item.key = "each"
  <2>1. Loops(T, item, D)
    BY <1>5 DEF Fits_, Uses, Loops
  <2>2. /\ EvaluateEach(item, with, env, out) \in Longer(T, out)
        /\ \A other : Alike(env, other) => EvaluateEach(item, with, other, out) = EvaluateEach(item, with, env, out)
    BY <2>1, EachEvaluated
  <2>3. \A e : EvaluateNext(state, item, e) = [with |-> with, out |-> EvaluateEach(item, with, e, out)]
    BY <1>1, <1>5 DEF EvaluateNext
  <2>4. PICK o \in Longer(T, out) : o = EvaluateEach(item, with, env, out)
    BY <2>2
  <2>5. EvaluateNext(state, item, env) = [with |-> with, out |-> o]
    BY <2>3, <2>4
  <2>6. After(item, D) = D /\ [with |-> with, out |-> o] \in Between(T, D)
    BY <1>3, <1>5 DEF Between, After
  <2>7. \A other : Alike(env, other) => EvaluateNext(state, item, other) = EvaluateNext(state, item, env)
    BY <2>2, <2>3
  <2>8. [with |-> with, out |-> o].out = o /\ state.out = out
    BY <1>1
  <2> QED BY <1>5, <2>5, <2>6, <2>7, <2>8
<1>6. CASE item.key \notin {"set", "each"}
  <2>1. EvaluateItem(item, with, env) \in Over(T)
    BY <1>6, ItemEvaluated DEF Fits_
  <2>2. Then(out, EvaluateItem(item, with, env)) \in Longer(T, out)
    BY <1>2, <2>1, LongerJoin DEF Writes
  <2>3. \A e : EvaluateNext(state, item, e) = [with |-> with, out |-> Then(out, EvaluateItem(item, with, e))]
    BY <1>1, <1>6 DEF EvaluateNext
  <2>4. item.key = "view" => EvaluateItem(item, with, env) = env.view
    BY DEF EvaluateItem
  <2>5. \A other : Alike(env, other) => EvaluateItem(item, with, other) = EvaluateItem(item, with, env)
    BY DEF Alike
  <2>6. PICK o \in Longer(T, out) : o = Then(out, EvaluateItem(item, with, env))
    BY <2>2
  <2>7. EvaluateNext(state, item, env) = [with |-> with, out |-> o]
    BY <2>3, <2>6
  <2>8. After(item, D) = D /\ [with |-> with, out |-> o] \in Between(T, D)
    BY <1>3, <1>6 DEF Between, After
  <2>9. \A other : Alike(env, other) => EvaluateNext(state, item, other) = EvaluateNext(state, item, env)
    BY <2>3, <2>5
  <2>10. [with |-> with, out |-> o].out = o /\ state.out = out
    BY <1>1
  <2> QED BY <2>4, <2>6, <2>7, <2>8, <2>9, <2>10
<1> QED BY <1>4, <1>5, <1>6

\* What is known at an item: the variables set before it.
Known(template, names, i) == names \cup {template[j].name : j \in {k \in 1..i : template[k].key = "set"}}

\* The keywords of a template are tokens, those in its loops as well.
Places(T, template) ==
  Has_(T, template) /\ \A i \in DOMAIN template : template[i].key = "each" => Has_(T, template[i].body)

\* Each item of a template fits what is known there.
LEMMA TemplateFits ==
  ASSUME NEW T, NEW names, NEW template, WrittenWith(template, names), Places(T, template)
  PROVE  \A i \in DOMAIN template :
           /\ Fits_(T, template[i], Known(template, names, i - 1))
           /\ Known(template, names, i) = After(template[i], Known(template, names, i - 1))
<1> SUFFICES ASSUME NEW i \in DOMAIN template
             PROVE  /\ Fits_(T, template[i], Known(template, names, i - 1))
                    /\ Known(template, names, i) = After(template[i], Known(template, names, i - 1))
  OBVIOUS
<1>0. i \in Nat /\ i >= 1
  BY DEF WrittenWith
<1> DEFINE item == template[i]
           known == Known(template, names, i - 1)
<1>1. Plainly(item) /\ Uses(item) \subseteq known
  BY DEF WrittenWith, Known
<1>2. item.key \notin {"param", "parents", "view", "set", "each"} => Keyword(item.prefix, item.key) \in T
  BY DEF Places, Has_
<1>3. ASSUME item.key = "each" PROVE Simple(T, item.body, known \cup {item.name})
  <2>1. /\ item.body \in Seq(ToSet(item.body))
        /\ \A j \in DOMAIN item.body :
             /\ Plainly(item.body[j]) /\ item.body[j].key \notin {"set", "each"}
             /\ Uses(item.body[j]) \subseteq known \cup {item.name}
    BY <1>3 DEF WrittenWith, Known
  <2>2. Has_(T, item.body)
    BY <1>3 DEF Places
  <2> HIDE DEF known, item
  <2> QED BY <2>1, <2>2 DEF Simple, Plainly
<1>4. Known(template, names, i) = After(item, known)
  <2>1. 1..i = (1..(i - 1)) \cup {i} /\ i \notin 1..(i - 1)
    BY <1>0
  <2>2. \A k : k \in 1..i <=> k \in 1..(i - 1) \/ k = i
    BY <2>1
  <2>3. CASE item.key = "set"
    <3>1. {k \in 1..i : template[k].key = "set"} = {k \in 1..(i - 1) : template[k].key = "set"} \cup {i}
      BY <2>2, <2>3
    <3> QED BY <2>3, <3>1 DEF Known, After
  <2>4. CASE item.key # "set"
    <3>1. {k \in 1..i : template[k].key = "set"} = {k \in 1..(i - 1) : template[k].key = "set"}
      BY <2>2, <2>4
    <3> QED BY <2>4, <3>1 DEF Known, After
  <2> QED BY <2>3, <2>4
<1> HIDE DEF item, known
<1>5. Fits_(T, item, known)
  BY <1>1, <1>2, <1>3 DEF Fits_, Plainly
<1> QED BY <1>4, <1>5 DEF item, known

\* A template is evaluated to a piece, which is at least what $View.Expand stands for, and the
\* same for whoever sees the same.
LEMMA TemplateEvaluated ==
  ASSUME NEW T, Writes(T), NEW names, NEW template, WrittenWith(template, names), Places(T, template),
         NEW vals \in [names -> Seq(Value)], NEW env, Sees(env, T)
  PROVE  /\ Evaluate(template, vals, env) \in Over(T)
         /\ Has(template, "view") => Len(Evaluate(template, vals, env).args) >= Len(env.view.args)
         /\ \A other : Alike(env, other) => Evaluate(template, vals, other) = Evaluate(template, vals, env)
<1>1. PICK n \in Nat : n = Len(template) /\ DOMAIN template = 1..n
  BY DEF WrittenWith
<1>2. PICK run : /\ run[0] = Unevaluated(vals) /\ run[n] = EvaluateAll(template, vals, env)
                 /\ \A i \in 1..n : run[i] = EvaluateNext(run[i - 1], template[i], env)
  BY <1>1, EvaluateRun
<1> DEFINE known == [i \in 0..n |-> Known(template, names, i)]
<1>3. \A i \in 1..n : Fits_(T, template[i], known[i - 1]) /\ known[i] = After(template[i], known[i - 1])
  BY <1>1, TemplateFits
<1>4. known[0] = names
  <2>1. 1..0 = {}
    OBVIOUS
  <2> QED BY <2>1 DEF Known
<1> HIDE DEF known
<1>5. \A i \in 0..n : run[i] \in Between(T, known[i])
  <2> DEFINE good == {i \in 0..n : run[i] \in Between(T, known[i])}
  <2>1. 0 \in good
    <3>1. Nothing \in Over(T)
      BY OverAre
    <3> QED BY <1>2, <1>4, <3>1 DEF Between, Unevaluated
  <2>2. ASSUME NEW i \in 1..n, i - 1 \in good PROVE i \in good
    <3>1. run[i - 1] \in Between(T, known[i - 1]) /\ Fits_(T, template[i], known[i - 1])
      BY <1>3, <2>2
    <3>2. EvaluateNext(run[i - 1], template[i], env) \in Between(T, After(template[i], known[i - 1]))
      BY <3>1, NextEvaluated
    <3> QED BY <1>2, <1>3, <3>2
  <2>3. \A i \in 0..n : i \in good
    <3> HIDE DEF good
    <3> QED BY <2>1, <2>2, Inductive
  <2> QED BY <2>3
<1>6. ASSUME NEW i \in 1..n
      PROVE  /\ run[i].out \in Longer(T, run[i - 1].out)
             /\ template[i].key = "view" => run[i].out = Then(run[i - 1].out, env.view)
             /\ \A other : Alike(env, other) =>
                  EvaluateNext(run[i - 1], template[i], other) = EvaluateNext(run[i - 1], template[i], env)
  <2>1. run[i - 1] \in Between(T, known[i - 1]) /\ Fits_(T, template[i], known[i - 1])
        /\ run[i] = EvaluateNext(run[i - 1], template[i], env)
    BY <1>2, <1>3, <1>5
  <2> QED BY <2>1, NextEvaluated
<1>7. Evaluate(template, vals, env) = run[n].out /\ run[n].out \in Over(T)
  BY <1>2, <1>5 DEF Evaluate, Between
<1>8. ASSUME Has(template, "view") PROVE Len(run[n].out.args) >= Len(env.view.args)
  <2>1. PICK k \in 1..n : template[k].key = "view"
    BY <1>1, <1>8 DEF Has
  <2>0. \A i \in 0..n : run[i].out \in Over(T) /\ Len(run[i].out.args) \in Nat
    BY <1>5 DEF Between, Over
  <2>5. Len(env.view.args) \in Nat
    BY DEF Sees, Over
  <2>6. PICK m \in Nat : m = Len(env.view.args)
    BY <2>5
  <2>7. PICK len \in [0..n -> Nat] : \A i \in 0..n : len[i] = Len(run[i].out.args)
    <3>1. [i \in 0..n |-> Len(run[i].out.args)] \in [0..n -> Nat]
      BY <2>0
    <3> QED BY <3>1
  <2>8. \A i \in 1..n : len[i] >= len[i - 1]
    <3>1. ASSUME NEW i \in 1..n PROVE len[i] >= len[i - 1]
      <4>1. i \in 0..n /\ i - 1 \in 0..n
        OBVIOUS
      <4>2. Len(run[i].out.args) >= Len(run[i - 1].out.args)
        BY <1>6 DEF Longer
      <4> QED BY <2>7, <4>1, <4>2
    <3> QED BY <3>1
  <2>9. len[k] >= m
    <3>1. run[k].out = Then(run[k - 1].out, env.view) /\ run[k - 1].out \in Over(T)
      BY <1>6, <2>0, <2>1
    <3>2. Len(run[k].out.args) = Len(run[k - 1].out.args) + Len(env.view.args)
      BY <3>1, OverJoin DEF Sees, Writes
    <3>3. len[k] = len[k - 1] + m /\ len[k - 1] \in Nat
      <4>1. k \in 0..n /\ k - 1 \in 0..n
        OBVIOUS
      <4> QED BY <2>6, <2>7, <3>2, <4>1
    <3>4. \A x \in Nat : x + m >= m
      OBVIOUS
    <3> QED BY <3>3, <3>4
  <2> DEFINE good == {i \in 0..n : i >= k => len[i] >= m}
  <2>2. 0 \in good
    OBVIOUS
  <2>3. ASSUME NEW i \in 1..n, i - 1 \in good PROVE i \in good
    <3>1. CASE i = k
      BY <2>9, <3>1
    <3>2. CASE i > k
      <4>1. len[i - 1] >= m /\ len[i] >= len[i - 1] /\ len[i] \in Nat /\ len[i - 1] \in Nat
        BY <2>3, <2>8, <3>2
      <4>2. len[i] >= m
        BY <4>1
      <4> QED BY <4>2
    <3>3. CASE i < k
      BY <3>3
    <3> QED BY <3>1, <3>2, <3>3
  <2>4. \A i \in 0..n : i \in good
    <3> HIDE DEF good
    <3> QED BY <2>2, <2>3, Inductive
  <2> QED BY <2>4, <2>6, <2>7
<1>9. ASSUME NEW other, Alike(env, other) PROVE Evaluate(template, vals, other) = Evaluate(template, vals, env)
  <2>1. PICK r : /\ r[0] = Unevaluated(vals) /\ r[n] = EvaluateAll(template, vals, other)
                 /\ \A i \in 1..n : r[i] = EvaluateNext(r[i - 1], template[i], other)
    <3>1. PICK all : all = EvaluateAll(template, vals, other)
      OBVIOUS
    <3> QED BY <1>1, <3>1, EvaluateRun
  <2> DEFINE good == {i \in 0..n : r[i] = run[i]}
  <2>2. 0 \in good
    BY <1>2, <2>1
  <2>3. ASSUME NEW i \in 1..n, i - 1 \in good PROVE i \in good
    <3>1. r[i] = EvaluateNext(run[i - 1], template[i], other)
      BY <2>1, <2>3
    <3> QED BY <1>2, <1>6, <1>9, <3>1
  <2>4. \A i \in 0..n : i \in good
    <3> HIDE DEF good
    <3> QED BY <2>2, <2>3, Inductive
  <2> QED BY <1>2, <2>1, <2>4 DEF Evaluate
<1> QED BY <1>7, <1>8, <1>9

-----------------------------------------------------------------------------
(* Sources.                                                                 *)

\* The tokens of a source: a parameter in it is one of its view, and it says where the rows of
\* the parents go, or does not.
Permitted(names, columnIn) ==
  {t \in Tokens : /\ t.key = "param" => t.of # <<>> /\ t.of[1] \in names
                  /\ t.key = "COLUMN_IN" => columnIn}

\* Those are enough for what keywords, question marks and text are written with.
LEMMA PermittedWrites ==
  ASSUME NEW names, NEW columnIn \in BOOLEAN
  PROVE  /\ Writes(Permitted(names, columnIn)) /\ Writes(Tokens)
         /\ \A prefix \in KeyPrefixes, key \in Words :
              key # "param" /\ (key = "COLUMN_IN" => columnIn) => Keyword(prefix, key) \in Permitted(names, columnIn)
         /\ Token("limit") \in Permitted(names, columnIn)
<1> QED BY TokenTypes DEF Permitted, Writes

\* The templates of a view: TemplatesWritten.
WrittenView(view, names) ==
  /\ WrittenWith(view.template, names) /\ WrittenWith(view.meta, names)
  /\ view.meta # <<>> => Has(view.meta, "view")
  /\ ~view.evaluated => \A i \in DOMAIN view.template : view.template[i].key \notin {"set", "each"}
  /\ \A i \in DOMAIN view.template : view.template[i].key = "each" => ~Has(view.template[i].body, "COLUMN_IN")

\* A source is a piece, evaluated or not.
LEMMA SourceEvaluated ==
  ASSUME NEW view, NEW names, WrittenView(view, names), NEW T, T = Permitted(names, Has(view.template, "COLUMN_IN")),
         NEW vals \in [names -> Seq(Value)], NEW env, Sees(env, T)
  PROVE  /\ EvaluateSource(view, vals, env) \in Over(T)
         /\ \A other : Alike(env, other) => EvaluateSource(view, vals, other) = EvaluateSource(view, vals, env)
<1>0. Has(view.template, "COLUMN_IN") \in BOOLEAN
  BY DEF Has
<1>1. Writes(T)
  BY <1>0, PermittedWrites
<1>2. CASE view.evaluated
  <2>1. Places(T, view.template)
    <3>1. ASSUME NEW i \in DOMAIN view.template,
                 view.template[i].key \notin {"param", "parents", "view", "set", "each"}
          PROVE  Keyword(view.template[i].prefix, view.template[i].key) \in T
      <4>1. Plainly(view.template[i])
        BY DEF WrittenView, WrittenWith
      <4>2. view.template[i].key = "COLUMN_IN" => Has(view.template, "COLUMN_IN")
        BY DEF Has
      <4> QED BY <1>0, <3>1, <4>1, <4>2, PermittedWrites DEF Plainly
    <3>2. ASSUME NEW i \in DOMAIN view.template, view.template[i].key = "each",
                 NEW j \in DOMAIN view.template[i].body,
                 view.template[i].body[j].key \notin {"param", "parents", "view", "set", "each"}
          PROVE  Keyword(view.template[i].body[j].prefix, view.template[i].body[j].key) \in T
      <4>1. Plainly(view.template[i].body[j])
        BY <3>2 DEF WrittenView, WrittenWith
      <4>2. view.template[i].body[j].key # "COLUMN_IN"
        BY <3>2 DEF WrittenView, Has
      <4> QED BY <1>0, <3>2, <4>1, <4>2, PermittedWrites DEF Plainly
    <3> QED BY <3>1, <3>2 DEF Places, Has_
  <2>2. WrittenWith(view.template, names)
    BY DEF WrittenView
  <2>3. /\ Evaluate(view.template, vals, env) \in Over(T)
        /\ \A other : Alike(env, other) => Evaluate(view.template, vals, other) = Evaluate(view.template, vals, env)
    BY <1>1, <2>1, <2>2, TemplateEvaluated
  <2>4. \A e : EvaluateSource(view, vals, e) = Evaluate(view.template, vals, e)
    BY <1>2 DEF EvaluateSource
  <2> QED BY <2>3, <2>4
<1>3. CASE ~view.evaluated
  <2>1. PICK n \in Nat : DOMAIN view.template = 1..n
    BY DEF WrittenView, WrittenWith
  <2>2. PICK s : s = [i \in DOMAIN view.template |->
                       [Keyword(view.template[i].prefix, view.template[i].key)
                          EXCEPT !.of = <<view.template[i].name>>]]
    OBVIOUS
  <2>3. ASSUME NEW i \in 1..n PROVE s[i] \in T /\ s[i].key # "?"
    <3>1. PICK item : item = view.template[i]
      OBVIOUS
    <3>2. Plainly(item) /\ item.key \notin {"set", "each"} /\ Uses(item) \subseteq names
      <4>1. Plainly(view.template[i]) /\ view.template[i].key \notin {"set", "each"}
        BY <1>3, <2>1 DEF WrittenView, WrittenWith
      <4>2. Uses(item) \subseteq names
        <5>1. \A j \in 1..(i - 1) : j \in DOMAIN view.template /\ view.template[j].key # "set"
          BY <1>3, <2>1 DEF WrittenView
        <5>2. {j \in 1..(i - 1) : view.template[j].key = "set"} = {}
          BY <5>1
        <5>3. Uses(view.template[i]) \subseteq
                names \cup {view.template[j].name : j \in {k \in 1..(i - 1) : view.template[k].key = "set"}}
          BY <2>1 DEF WrittenView, WrittenWith
        <5> QED BY <3>1, <5>2, <5>3
      <4> QED BY <3>1, <4>1, <4>2
    <3>3. s[i] = [Keyword(item.prefix, item.key) EXCEPT !.of = <<item.name>>]
      BY <2>1, <2>2, <3>1
    <3>4. <<item.name>> \in Seq(Value) /\ <<item.name>> # <<>> /\ <<item.name>>[1] = item.name
      BY <3>2 DEF Plainly
    <3>5. s[i] = [key |-> item.key, prefix |-> item.prefix, of |-> <<item.name>>]
      BY <3>3 DEF Keyword, Token
    <3>6. s[i] \in Tokens /\ s[i].key # "?"
      <4>1. item.key \in Words /\ item.prefix \in KeyPrefixes /\ item.key # "?"
        BY <3>2, TokenTypes DEF Plainly
      <4> QED BY <3>4, <3>5, <4>1 DEF Tokens
    <3>7. item.key = "param" => item.name \in names
      BY <3>2 DEF Uses
    <3>8. item.key = "COLUMN_IN" => Has(view.template, "COLUMN_IN")
      BY <2>1, <3>1 DEF Has
    <3> QED BY <3>4, <3>5, <3>6, <3>7, <3>8 DEF Permitted
  <2>4. s \in Seq(T)
    <3>1. s \in [1..n -> T]
      BY <2>1, <2>2, <2>3
    <3> QED BY <3>1
  <2>5. s \in Sql /\ Marked(s) = <<>>
    <3>1. DOMAIN s = 1..n
      BY <2>1, <2>2
    <3>2. s \in Sql
      BY <1>1, <2>4 DEF Sql, Writes
    <3> QED BY <2>3, <3>1, <3>2, MarkedNot
  <2>6. <<>> \in Seq(Value)
    OBVIOUS
  <2>7. [sql |-> s, args |-> <<>>] \in Over(T)
    BY <2>4, <2>5, <2>6 DEF Over
  <2>8. \A e : EvaluateSource(view, vals, e) = [sql |-> s, args |-> <<>>]
    BY <1>3, <2>2 DEF EvaluateSource
  <2> QED BY <2>7, <2>8
<1> QED BY <1>2, <1>3

\* A sequence is what is before a place of it and what follows.
LEMMA TwoParts ==
  ASSUME NEW S, NEW s \in Seq(S), NEW place \in 1..(Len(s) + 1)
  PROVE  /\ SubSeq(s, 1, place - 1) \in Seq(S) /\ SubSeq(s, place, Len(s)) \in Seq(S)
         /\ SubSeq(s, 1, place - 1) \o SubSeq(s, place, Len(s)) = s
<1>1. PICK n \in Nat : n = Len(s)
  OBVIOUS
<1>2. PICK a \in Seq(S) : a = SubSeq(s, 1, place - 1) /\ Len(a) = place - 1 /\ \A i \in 1..(place - 1) : a[i] = s[i]
  <2>1. 1 \in 1..(Len(s) + 1) /\ place - 1 \in (1 - 1)..Len(s)
    BY <1>1
  <2>2. /\ SubSeq(s, 1, place - 1) \in Seq(S) /\ Len(SubSeq(s, 1, place - 1)) = place - 1
        /\ \A i \in 1..(place - 1) : SubSeq(s, 1, place - 1)[i] = s[i]
    BY <1>1
  <2> QED BY <2>2
<1>3. PICK b \in Seq(S) : /\ b = SubSeq(s, place, n) /\ Len(b) = n - place + 1
                          /\ \A i \in 1..(n - place + 1) : b[i] = s[place + i - 1]
  <2>2. /\ SubSeq(s, place, n) \in Seq(S) /\ Len(SubSeq(s, place, n)) = n - place + 1
        /\ \A i \in 1..(n - place + 1) : SubSeq(s, place, n)[i] = s[place + i - 1]
    BY <1>1
  <2> QED BY <2>2
<1>4. place \in Nat /\ place >= 1 /\ place <= n + 1 /\ (place - 1) + (n - place + 1) = n
  BY <1>1
<1>5. /\ a \o b \in Seq(S) /\ Len(a \o b) = Len(a) + Len(b)
      /\ \A i \in 1..Len(a) : (a \o b)[i] = a[i]
  BY ConcatProperties
<1>6. a \o b \in Seq(S) /\ Len(a \o b) = n
  BY <1>2, <1>3, <1>4, <1>5
<1>7. ASSUME NEW i \in 1..n PROVE (a \o b)[i] = s[i]
  <2>1. CASE i \in 1..(place - 1)
    BY <1>2, <1>5, <2>1
  <2>2. CASE i \in place..n
    <3>1. i - (place - 1) \in 1..(n - place + 1)
      BY <1>1, <2>2
    <3>0. Len(a) = place - 1 /\ Len(b) = n - place + 1 /\ i = Len(a) + (i - (place - 1))
      BY <1>2, <1>3
    <3>2. (a \o b)[i] = b[i - (place - 1)]
      <4>1. \A k \in 1..Len(b) : (a \o b)[Len(a) + k] = b[k]
        BY ConcatProperties
      <4>2. i - (place - 1) \in 1..Len(b)
        BY <3>0, <3>1
      <4> QED BY <3>0, <4>1, <4>2
    <3>3. b[i - (place - 1)] = s[place + (i - (place - 1)) - 1]
      BY <1>3, <3>1
    <3>4. place + (i - (place - 1)) - 1 = i
      BY <1>1
    <3> QED BY <3>2, <3>3, <3>4
  <2>3. i \in 1..(place - 1) \/ i \in place..n
    BY <1>1
  <2> QED BY <2>1, <2>2, <2>3
<1>8. a \o b = s
  BY <1>1, <1>6, <1>7, SeqEqual
<1> QED BY <1>1, <1>2, <1>3, <1>8

\* Sequences of tokens make one.
Joined(T, a, b, c) == c = a \o b /\ c \in Seq(T) /\ Marked(c) = Marked(a) \o Marked(b)

\* Any two can be joined, and their question marks with them: SQLCriteria.Add.
LEMMA SequencesJoin ==
  ASSUME NEW T \in SUBSET Tokens, NEW a \in Seq(T), NEW b \in Seq(T)
  PROVE  /\ \E c \in Seq(T) : Joined(T, a, b, c)
         /\ Marked(a) \in Seq(Value) /\ Marked(b) \in Seq(Value)
<1>1. a \in Sql /\ b \in Sql
  BY DEF Sql
<1>2. Marked(a \o b) = Marked(a) \o Marked(b)
  BY <1>1, MarkedConcat
<1>3. PICK c \in Seq(T) : c = a \o b
  BY ConcatProperties
<1>4. Joined(T, a, b, c)
  BY <1>2, <1>3 DEF Joined
<1>5. Marked(a) \in Seq(Value) /\ Marked(b) \in Seq(Value)
  BY <1>1, MarkedType
<1> QED BY <1>4, <1>5

\* Keywords stand for nothing: where they are discovered, the question marks are the same.
LEMMA DiscoveredKeeps ==
  ASSUME NEW names, NEW columnIn \in BOOLEAN, NEW T, T = Permitted(names, columnIn), NEW sql \in Seq(T)
  PROVE  Discovered(sql) \in Seq(T) /\ Marked(Discovered(sql)) = Marked(sql)
<1>1. Writes(T) /\ T \subseteq Tokens
  BY PermittedWrites DEF Writes
<1>2. PICK place : place = FirstOf(sql, {"after", ";"})
  OBVIOUS
<1>3. place \in 1..(Len(sql) + 1)
  <2> DEFINE found == {i \in DOMAIN sql : sql[i].key \in {"after", ";"}}
  <2>1. PICK n \in Nat : n = Len(sql) /\ DOMAIN sql = 1..n
    OBVIOUS
  <2>2. place = IF found = {} THEN n + 1 ELSE Min(found)
    BY <1>2, <2>1 DEF FirstOf
  <2>3. found \in SUBSET (1..n)
    BY <2>1
  <2>4. found # {} => Min(found) \in 1..n
    <3> HIDE DEF found
    <3> QED BY <2>3, SmallestIs
  <2> HIDE DEF found
  <2> QED BY <2>1, <2>2, <2>4
<1>4. PICK a \in Seq(T), b \in Seq(T) :
        a = SubSeq(sql, 1, place - 1) /\ b = SubSeq(sql, place, Len(sql)) /\ a \o b = sql
  BY <1>3, TwoParts
<1>5. PICK c \in T : c = Keyword(IF Has(a, "where") THEN "AND_" ELSE "WHERE_", "CRITERIA") /\ c.key # "?"
  <2>1. "AND_" \in KeyPrefixes /\ "WHERE_" \in KeyPrefixes /\ "CRITERIA" \in Words
    BY DEF KeyPrefixes, Words
  <2> QED BY <2>1, PermittedWrites, TokenTypes
<1>6. PICK p \in Seq(T) : p = (IF Has(a, "PAGINATION") THEN <<>> ELSE <<Keyword("", "PAGINATION")>>) /\ Marked(p) = <<>>
  <2>1. "" \in KeyPrefixes /\ "PAGINATION" \in Words
    BY DEF KeyPrefixes, Words
  <2>5. Keyword("", "PAGINATION") \in T
    BY <2>1, PermittedWrites
  <2>6. Keyword("", "PAGINATION").key = "PAGINATION"
    BY <2>1, TokenTypes
  <2>2. PICK k \in T : k = Keyword("", "PAGINATION") /\ k.key # "?"
    BY <2>5, <2>6
  <2>3. Marked(<<>>) = <<>> /\ Marked(<<k>>) = <<>>
    BY <1>1, <2>2, MarkedFew
  <2>4. <<>> \in Seq(T) /\ <<k>> \in Seq(T)
    OBVIOUS
  <2> QED BY <2>2, <2>3, <2>4
<1>7. PICK cs \in Seq(T) : cs = <<c>> /\ Marked(cs) = <<>>
  <2>1. c \in Tokens /\ <<c>> \in Seq(T)
    BY <1>1
  <2>2. Marked(<<c>>) = <<>>
    BY <1>5, <2>1, MarkedFew
  <2> QED BY <2>1, <2>2
<1>9. PICK d \in Seq(T) : d = a \o cs /\ Marked(d) = Marked(a)
  <2>1. PICK d \in Seq(T) : Joined(T, a, cs, d) /\ Marked(a) \in Seq(Value)
    BY <1>1, SequencesJoin
  <2>2. Marked(a) \o <<>> = Marked(a)
    BY <2>1, ConcatEmptySeq
  <2> QED BY <1>7, <2>1, <2>2 DEF Joined
<1>10. PICK e \in Seq(T) : e = d \o b /\ Marked(e) = Marked(sql)
  <2>1. PICK e \in Seq(T) : Joined(T, d, b, e)
    BY <1>1, SequencesJoin
  <2>2. PICK f \in Seq(T) : Joined(T, a, b, f)
    BY <1>1, SequencesJoin
  <2> QED BY <1>4, <1>9, <2>1, <2>2 DEF Joined
<1>11. e \o p \in Seq(T) /\ Marked(e \o p) = Marked(sql)
  <2>1. PICK f \in Seq(T) : Joined(T, e, p, f) /\ Marked(e) \in Seq(Value)
    BY <1>1, SequencesJoin
  <2>2. Marked(e) \o <<>> = Marked(e)
    BY <2>1, ConcatEmptySeq
  <2> QED BY <1>6, <1>10, <2>1, <2>2 DEF Joined
<1>12. \/ Discovered(sql) = sql
       \/ Discovered(sql) = e \o p
  <2>1. Discovered(sql) = sql \/ Discovered(sql) = ((a \o <<c>>) \o b) \o p
    BY <1>2, <1>4, <1>5, <1>6, Zenon DEF Discovered
  <2> QED BY <1>7, <1>9, <1>10, <2>1
<1> QED BY <1>11, <1>12

-----------------------------------------------------------------------------
(* Keywords replaced.                                                       *)

\* Tokens are expanded one after another.
ExpandClosed(U, n, sql, group, used, with) ==
  Unexpanded(used) \in U /\ \A i \in 1..n : \A x \in U : ExpandNext(x, sql[i], group, with) \in U

ExpandRun(run, n, sql, group, used, with) ==
  /\ run[0] = Unexpanded(used) /\ run[n] = Expand(sql, group, used, with)
  /\ \A i \in 1..n : run[i] = ExpandNext(run[i - 1], sql[i], group, with)

\* What an expansion is of some states, and how it goes.
LEMMA ExpansionRuns ==
  ASSUME NEW n \in Nat, NEW sql, NEW group, NEW used, NEW with, DOMAIN sql = 1..n,
         NEW U, ExpandClosed(U, n, sql, group, used, with)
  PROVE  \E run \in [0..n -> U] : ExpandRun(run, n, sql, group, used, with)
<1> DEFINE Further(x, t) == ExpandNext(x, t, group, with)
           F(g) == [S \in SUBSET DOMAIN sql |->
                      IF S = {} THEN Unexpanded(used) ELSE Further(g[S \ {Max(S)}], sql[Max(S)])]
           step == [i \in 1..n |-> [x \in U |-> Further(x, sql[i])]]
<1>0. Unexpanded(used) \in U /\ \A i \in 1..n : \A x \in U : Further(x, sql[i]) \in U
  BY DEF ExpandClosed
<1>1. Expand(sql, group, used, with) = (CHOOSE g : g = F(g))[DOMAIN sql]
  BY Zenon DEF Expand, FoldLeft, MapThenFoldSet
<1> HIDE DEF Further
<1>2. step \in [1..n -> [U -> U]]
  BY <1>0
<1>3. \A S \in SUBSET (1..n) : S # {} => \A x \in U : step[Max(S)][x] = Further(x, sql[Max(S)])
  BY GreatestIs
<1> HIDE DEF step
<1>4. PICK it \in [SUBSET (1..n) -> U] : IsFold(it, n, Unexpanded(used), step)
  BY <1>0, <1>2, FoldDefined
<1>5. it = F(it)
  BY <1>3, <1>4 DEF IsFold
<1>6. PICK f : f = F(f) /\ Expand(sql, group, used, with) = f[1..n]
  <2> HIDE DEF F
  <2> QED BY <1>1, <1>5, Zenon
<1>7. GoesBack(f, n, U, Unexpanded(used), step)
  <2>1. f[{}] = Unexpanded(used)
    BY <1>6
  <2>2. ASSUME NEW S \in SUBSET (1..n), S # {}, f[S \ {Max(S)}] \in U
        PROVE  f[S] = step[Max(S)][f[S \ {Max(S)}]]
    <3>1. f[S] = Further(f[S \ {Max(S)}], sql[Max(S)])
      BY <1>6, <2>2
    <3> HIDE DEF F
    <3> QED BY <1>3, <2>2, <3>1
  <2> HIDE DEF F
  <2> QED BY <2>1, <2>2 DEF GoesBack
<1>8. PICK run \in [0..n -> U] : IsRun(run, n, Unexpanded(used), step) /\ run[n] = f[1..n]
  <2>1. PICK base : base = Unexpanded(used)
    OBVIOUS
  <2>2. base \in U /\ GoesBack(f, n, U, base, step)
    BY <1>0, <1>7, <2>1, Zenon
  <2>3. \E run \in [0..n -> U] : IsRun(run, n, base, step) /\ run[n] = f[1..n]
    BY <1>2, <2>2, FoldRuns
  <2> QED BY <2>1, <2>3
<1>9. ASSUME NEW i \in 1..n PROVE run[i - 1] \in U /\ step[i][run[i - 1]] = Further(run[i - 1], sql[i])
  BY DEF step
<1>10. ASSUME NEW i \in 1..n PROVE run[i] = Further(run[i - 1], sql[i])
  BY <1>8, <1>9 DEF IsRun
<1>11. run[0] = Unexpanded(used) /\ run[n] = Expand(sql, group, used, with)
  BY <1>6, <1>8 DEF IsRun
<1> QED BY <1>10, <1>11 DEF Further, ExpandRun

\* An expansion between two tokens.
Expanding(group) == [sql : Sql, args : Seq(Value), used : 0..Len(group), failed : BOOLEAN]

\* What keywords are replaced with brings its arguments; the keys of a batch do where they go.
Fill(with, names, columnIn) ==
  /\ with.in \in Sql /\ with.batch \in Seq(Value)
  /\ with.where \/ columnIn => Marked(with.in) = with.batch
  /\ with.pagination \in Sql /\ Marked(with.pagination) = <<>>
  /\ with.criteria.sql \in Sql /\ with.criteria.args \in Seq(Value)
  /\ with.criteria.args = Marked(with.criteria.sql)
  /\ with.values \in [names -> Seq(Value)]

\* What arguments a token brings that is no question mark.
Brought(token, with) ==
  CASE token.key = "CRITERIA" -> IF with.where THEN with.batch ELSE <<>>
    [] token.key = "COLUMN_IN" -> with.batch
    [] token.key = "SELECTOR_CRITERIA" -> with.criteria.args
    [] token.key = "param" -> with.values[token.of[1]]
    [] OTHER -> <<>>

\* An expansion with some arguments and their question marks more.
Gains(next, state, group, args) ==
  /\ next \in Expanding(group) /\ next.used = state.used /\ next.failed = state.failed
  /\ next.args = state.args \o args /\ Marked(next.sql) = Marked(state.sql) \o args

\* replacementEntry
LEMMA ReplaceGains ==
  ASSUME NEW group, NEW state \in Expanding(group), NEW token, NEW text \in Sql, NEW args \in Seq(Value),
         args = Marked(text)
  PROVE  Gains(Replace(state, token, text, args), state, group, args)
<1>1. PICK s \in Sql, a \in Seq(Value), u \in 0..Len(group), f \in BOOLEAN :
        state = [sql |-> s, args |-> a, used |-> u, failed |-> f]
  BY DEF Expanding
<1>2. PICK t \in Sql : t = (IF token.prefix # "" /\ text # <<>> THEN <<Text>> \o text ELSE text) /\ Marked(t) = args
  <2>1. PICK head \in Sql : head = <<Text>> /\ Marked(head) = <<>>
    BY TokenTypes, MarkedFew
  <2>2. PICK c \in Sql : c = head \o text /\ Marked(c) = <<>> \o args
    <3>1. \E c \in Seq(Tokens) : Joined(Tokens, head, text, c)
      BY SequencesJoin DEF Sql
    <3> QED BY <2>1, <3>1 DEF Joined, Sql
  <2>3. <<>> \o args = args
    BY ConcatEmptySeq
  <2> QED BY <2>1, <2>2, <2>3
<1>3. PICK c \in Sql : c = s \o t /\ Marked(c) = Marked(s) \o args
  <2>1. \E c \in Seq(Tokens) : Joined(Tokens, s, t, c)
    BY SequencesJoin DEF Sql
  <2> QED BY <1>2, <2>1 DEF Joined, Sql
<1>4. PICK b \in Seq(Value) : b = a \o args
  BY ConcatProperties
<1>5. Replace(state, token, text, args) = [sql |-> c, args |-> b, used |-> u, failed |-> f]
  <2>1. Replace(state, token, text, args) = [state EXCEPT !.args = @ \o args, !.sql = @ \o t]
    BY <1>2 DEF Replace
  <2>2. state.args \o args = b /\ state.sql \o t = c
    BY <1>1, <1>3, <1>4
  <2>3. [state EXCEPT !.args = @ \o args, !.sql = @ \o t] = [state EXCEPT !.args = b, !.sql = c]
    BY <2>2
  <2> QED BY <1>1, <2>1, <2>3
<1>6. [sql |-> c, args |-> b, used |-> u, failed |-> f] \in Expanding(group)
  BY DEF Expanding
<1>7. PICK next \in Expanding(group) : next = [sql |-> c, args |-> b, used |-> u, failed |-> f]
  BY <1>6
<1>8. /\ next.sql = c /\ next.args = b /\ next.used = u /\ next.failed = f
      /\ state.sql = s /\ state.args = a /\ state.used = u /\ state.failed = f
  BY <1>1, <1>7
<1>9. Gains(next, state, group, args)
  BY <1>3, <1>4, <1>8 DEF Gains
<1> QED BY <1>5, <1>7, <1>9

\* What is not replaced stays.
LEMMA StayGains ==
  ASSUME NEW group, NEW state \in Expanding(group), NEW token \in Tokens, token.key # "?"
  PROVE  Gains([state EXCEPT !.sql = Append(@, token)], state, group, <<>>)
<1>1. PICK s \in Sql, a \in Seq(Value), u \in 0..Len(group), f \in BOOLEAN :
        state = [sql |-> s, args |-> a, used |-> u, failed |-> f]
  BY DEF Expanding
<1>2. PICK c \in Sql : c = Append(s, token) /\ Marked(c) = Marked(s)
  BY MarkedAppend
<1>3. PICK m \in Seq(Value) : m = Marked(s)
  BY MarkedType
<1>4. m \o <<>> = m /\ a \o <<>> = a
  BY ConcatEmptySeq
<1>5. [state EXCEPT !.sql = Append(@, token)] = [sql |-> c, args |-> a, used |-> u, failed |-> f]
  <2>1. Append(state.sql, token) = c
    BY <1>1, <1>2
  <2>2. [state EXCEPT !.sql = Append(@, token)] = [state EXCEPT !.sql = c]
    BY <2>1
  <2> QED BY <1>1, <2>2
<1>6. [sql |-> c, args |-> a, used |-> u, failed |-> f] \in Expanding(group)
  BY DEF Expanding
<1> QED BY <1>1, <1>2, <1>3, <1>4, <1>5, <1>6 DEF Gains

\* Each token that is no question mark brings its arguments.
LEMMA TokenGains ==
  ASSUME NEW names, NEW columnIn \in BOOLEAN, NEW with, Fill(with, names, columnIn),
         NEW group, NEW state \in Expanding(group),
         NEW token \in Permitted(names, columnIn), token.key # "?"
  PROVE  /\ Gains(ExpandToken(state, token, with), state, group, Brought(token, with))
         /\ Brought(token, with) \in Seq(Value)
<1>0. <<>> \in Seq(Value) /\ <<>> \in Sql /\ Marked(<<>>) = <<>> /\ token \in Tokens
  BY MarkedFew DEF Permitted
<1>1. CASE token.key = "CRITERIA"
  <2>1. CASE with.where
    <3>1. with.in \in Sql /\ with.batch \in Seq(Value) /\ with.batch = Marked(with.in)
      BY <2>1 DEF Fill
    <3>2. Gains(Replace(state, token, with.in, with.batch), state, group, with.batch)
      BY <3>1, ReplaceGains
    <3> QED BY <1>1, <2>1, <3>1, <3>2 DEF ExpandToken, Brought
  <2>2. CASE ~with.where
    <3>1. Gains(Replace(state, token, <<>>, <<>>), state, group, <<>>)
      BY <1>0, ReplaceGains
    <3> QED BY <1>0, <1>1, <2>2, <3>1 DEF ExpandToken, Brought
  <2> QED BY <2>1, <2>2
<1>2. CASE token.key = "COLUMN_IN"
  <2>1. with.in \in Sql /\ with.batch \in Seq(Value) /\ with.batch = Marked(with.in)
    BY <1>2 DEF Fill, Permitted
  <2>2. Gains(Replace(state, token, with.in, with.batch), state, group, with.batch)
    BY <2>1, ReplaceGains
  <2> QED BY <1>2, <2>1, <2>2 DEF ExpandToken, Brought
<1>3. CASE token.key = "SELECTOR_CRITERIA"
  <2>1. /\ with.criteria.sql \in Sql /\ with.criteria.args \in Seq(Value)
        /\ with.criteria.args = Marked(with.criteria.sql)
    BY DEF Fill
  <2>2. Gains(Replace(state, token, with.criteria.sql, with.criteria.args), state, group, with.criteria.args)
    BY <2>1, ReplaceGains
  <2> QED BY <1>3, <2>1, <2>2 DEF ExpandToken, Brought
<1>4. CASE token.key = "PAGINATION"
  <2>1. with.pagination \in Sql /\ <<>> = Marked(with.pagination)
    BY DEF Fill
  <2>2. Gains(Replace(state, token, with.pagination, <<>>), state, group, <<>>)
    BY <1>0, <2>1, ReplaceGains
  <2> QED BY <1>0, <1>4, <2>2 DEF ExpandToken, Brought
<1>5. CASE token.key = "param"
  <2>1. PICK bound \in Seq(Value) : bound = with.values[token.of[1]]
    BY <1>5 DEF Fill, Permitted
  <2>2. CASE bound = <<>>
    <3>1. Gains([state EXCEPT !.sql = Append(@, token)], state, group, <<>>)
      BY <1>0, StayGains
    <3> QED BY <1>5, <2>1, <2>2, <3>1 DEF ExpandToken, ReplaceParam, Brought
  <2>3. CASE bound # <<>>
    <3>1. Marks(bound) \in Sql /\ bound = Marked(Marks(bound))
      BY MarkedMarks
    <3>2. Gains(Replace(state, token, Marks(bound), bound), state, group, bound)
      BY <3>1, ReplaceGains
    <3> QED BY <1>5, <2>1, <2>3, <3>2 DEF ExpandToken, ReplaceParam, Brought
  <2> QED BY <2>2, <2>3
<1>6. CASE token.key \notin {"CRITERIA", "COLUMN_IN", "SELECTOR_CRITERIA", "PAGINATION", "param"}
  <2>1. Gains([state EXCEPT !.sql = Append(@, token)], state, group, <<>>)
    BY <1>0, StayGains
  <2> QED BY <1>0, <1>6, <2>1 DEF ExpandToken, Brought
<1> QED BY <1>1, <1>2, <1>3, <1>4, <1>5, <1>6

\* Some arguments are among others.
Within(b, args) == \E x, y \in Seq(Value) : args = (x \o b) \o y

\* Three sequences of values.
Three(a, b, c) == a \in Seq(Value) /\ b \in Seq(Value) /\ c \in Seq(Value)

\* Three sequences are joined in either order.
LEMMA Regroup ==
  ASSUME NEW a, NEW b, NEW c, Three(a, b, c)
  PROVE  (a \o b) \o c = a \o (b \o c)
BY ConcatAssociative DEF Three

\* And stay there.
LEMMA WithinMore ==
  ASSUME NEW b \in Seq(Value), NEW args \in Seq(Value)
  PROVE  /\ Within(b, args \o b)
         /\ \A z \in Seq(Value) : Within(b, args) => Within(b, args \o z)
<1>1. Within(b, args \o b)
  <2>1. <<>> \in Seq(Value) /\ args \o b \in Seq(Value)
    BY ConcatProperties
  <2>2. (args \o b) \o <<>> = args \o b
    BY <2>1, ConcatEmptySeq
  <2> QED BY <2>1, <2>2 DEF Within
<1>2. ASSUME NEW z \in Seq(Value), Within(b, args) PROVE Within(b, args \o z)
  <2>1. PICK x \in Seq(Value), y \in Seq(Value) : args = (x \o b) \o y
    BY <1>2 DEF Within
  <2>2. PICK xb \in Seq(Value) : xb = x \o b
    BY ConcatProperties
  <2>3. PICK yz \in Seq(Value) : yz = y \o z
    BY ConcatProperties
  <2>4. (xb \o y) \o z = xb \o yz
    <3>1. Three(xb, y, z)
      BY DEF Three
    <3>2. (xb \o y) \o z = xb \o (y \o z)
      BY <3>1, Regroup, SMTT(60)
    <3>3. yz = y \o z
      BY <2>3
    <3> QED BY <3>2, <3>3
  <2> QED BY <2>1, <2>2, <2>4 DEF Within
<1> QED BY <1>1, <1>2

\* Within others: what is there.
LEMMA WithinIs ==
  ASSUME NEW b \in Seq(Value), NEW args \in Seq(Value), Within(b, args)
  PROVE  /\ \E i \in 1..(Len(args) + 1) : SubSeq(args, i, i + Len(b) - 1) = b
         /\ ToSet(b) \subseteq ToSet(args)
<1>1. PICK x \in Seq(Value), y \in Seq(Value) : args = (x \o b) \o y
  BY DEF Within
<1>2. PICK k \in Nat, m \in Nat, l \in Nat : k = Len(x) /\ m = Len(b) /\ l = Len(y)
  OBVIOUS
<1>3. PICK xb \in Seq(Value) : /\ xb = x \o b /\ Len(xb) = k + m
                               /\ \A j \in 1..(k + m) : xb[j] = IF j <= k THEN x[j] ELSE b[j - k]
  <2>1. /\ x \o b \in Seq(Value) /\ Len(x \o b) = Len(x) + Len(b)
        /\ \A j \in 1..(Len(x) + Len(b)) : (x \o b)[j] = IF j <= Len(x) THEN x[j] ELSE b[j - Len(x)]
    BY ConcatProperties
  <2> QED BY <1>2, <2>1
<1>4. Len(args) = k + m + l /\ \A j \in 1..(k + m + l) : args[j] = IF j <= k + m THEN xb[j] ELSE y[j - (k + m)]
  <2>1. /\ Len(xb \o y) = Len(xb) + Len(y)
        /\ \A j \in 1..(Len(xb) + Len(y)) : (xb \o y)[j] = IF j <= Len(xb) THEN xb[j] ELSE y[j - Len(xb)]
    BY ConcatProperties
  <2> QED BY <1>1, <1>2, <1>3, <2>1
<1>5. ASSUME NEW j \in 1..m PROVE k + j \in 1..(k + m + l) /\ args[k + j] = b[j]
  <2>1. k + j \in 1..(k + m + l) /\ k + j \in 1..(k + m) /\ (k + j) - k = j /\ k + j <= k + m /\ ~(k + j <= k)
    OBVIOUS
  <2>2. args[k + j] = xb[k + j] /\ xb[k + j] = b[(k + j) - k]
    BY <1>3, <1>4, <2>1
  <2> QED BY <2>1, <2>2
<1>6. SubSeq(args, k + 1, k + m) = b
  <2>0. PICK g \in Int, h \in Int : g = k + 1 /\ h = k + m
    OBVIOUS
  <2>1. \A j \in g..h : args[j] \in Value
    BY <1>4, <2>0
  <2>2. h - g + 1 = m /\ (g <= h <=> m > 0) /\ \A j \in 1..m : g + j - 1 = k + j
    BY <2>0
  <2>a. PICK c : c = SubSeq(args, g, h)
    OBVIOUS
  <2>b. /\ SubSeq(args, g, h) \in Seq(Value)
        /\ Len(SubSeq(args, g, h)) = IF g <= h THEN h - g + 1 ELSE 0
        /\ \A j \in 1..(h - g + 1) : SubSeq(args, g, h)[j] = args[g + j - 1]
    BY <2>1, SubSeqProperties
  <2>c. /\ c \in Seq(Value) /\ Len(c) = IF g <= h THEN m ELSE 0
        /\ \A j \in 1..m : c[j] = args[g + j - 1]
    BY <2>2, <2>a, <2>b
  <2>3. Len(c) = m /\ \A j \in 1..m : c[j] = args[k + j]
    BY <2>2, <2>c
  <2>4. c = b
    <3>1. \A j \in 1..m : c[j] = b[j]
      BY <1>5, <2>3
    <3> QED BY <1>2, <2>c, <2>3, <3>1, SeqEqual
  <2> QED BY <2>0, <2>a, <2>4
<1>7. k + 1 \in 1..(Len(args) + 1) /\ (k + 1) + Len(b) - 1 = k + m
  BY <1>2, <1>4
<1>8. ToSet(b) \subseteq ToSet(args)
  <2>1. DOMAIN b = 1..m /\ DOMAIN args = 1..(k + m + l)
    BY <1>2, <1>4
  <2> QED BY <1>5, <2>1 DEF ToSet
<1> QED BY <1>6, <1>7, <1>8

\* The arguments that are left begin with those some question marks stand for.
Supplies(group, used, sql) ==
  \A j \in 1..Len(Marked(sql)) : used + j <= Len(group) /\ group[used + j] = Marked(sql)[j]

\* The next argument is taken, if it is there the right one.
Takes(next, state, group, token) ==
  /\ next \in Expanding(group)
  /\ state.used + 1 <= Len(group) /\ group[state.used + 1] = token.of[1] =>
       /\ next.failed = FALSE /\ next.used = state.used + 1
       /\ next.args = Append(state.args, token.of[1])
       /\ Marked(next.sql) = Append(Marked(state.sql), token.of[1])

\* SQLCriteria.Next, as long as there is one.
LEMMA MarkTakes ==
  ASSUME NEW group \in Seq(Value), NEW state \in Expanding(group), NEW token \in Tokens, token.key = "?",
         NEW with, state.failed = FALSE
  PROVE  Takes(ExpandNext(state, token, group, with), state, group, token)
<1>1. PICK s \in Sql, a \in Seq(Value), u \in 0..Len(group) :
        state = [sql |-> s, args |-> a, used |-> u, failed |-> FALSE]
  BY DEF Expanding
<1>2. ExpandNext(state, token, group, with) = NextBinding(state, token, group)
  BY DEF ExpandNext
<1>3. CASE u = Len(group)
  <2>1. NextBinding(state, token, group) = [sql |-> s, args |-> a, used |-> u, failed |-> TRUE]
    BY <1>1, <1>3 DEF NextBinding
  <2>2. [sql |-> s, args |-> a, used |-> u, failed |-> TRUE] \in Expanding(group)
    BY DEF Expanding
  <2>3. ~(state.used + 1 <= Len(group))
    BY <1>1, <1>3
  <2>4. PICK next \in Expanding(group) : next = ExpandNext(state, token, group, with)
    BY <1>2, <2>1, <2>2
  <2> QED BY <2>3, <2>4 DEF Takes
<1>4. CASE u # Len(group)
  <2>1. u + 1 \in 1..Len(group) /\ u + 1 \in 0..Len(group) /\ group[u + 1] \in Value
    BY <1>4
  <2>2. PICK c \in Sql : c = Append(s, token) /\ Marked(c) = Append(Marked(s), token.of[1])
    BY MarkedAppend
  <2>6. PICK g \in Value : g = group[u + 1]
    BY <2>1
  <2>7. Append(a, g) \in Seq(Value)
    OBVIOUS
  <2>3. PICK b \in Seq(Value) : b = Append(a, group[u + 1])
    BY <2>6, <2>7
  <2>4. NextBinding(state, token, group) = [sql |-> c, args |-> b, used |-> u + 1, failed |-> FALSE]
    <3>1. NextBinding(state, token, group)
            = [state EXCEPT !.sql = Append(@, token), !.used = @ + 1, !.args = Append(@, group[state.used + 1])]
      BY <1>1, <1>4 DEF NextBinding
    <3>2. Append(state.sql, token) = c /\ state.used + 1 = u + 1 /\ Append(state.args, group[state.used + 1]) = b
      BY <1>1, <2>2, <2>3
    <3>3. NextBinding(state, token, group) = [state EXCEPT !.sql = c, !.used = u + 1, !.args = b]
      BY <3>1, <3>2
    <3> QED BY <1>1, <3>3
  <2>5. [sql |-> c, args |-> b, used |-> u + 1, failed |-> FALSE] \in Expanding(group)
    BY <2>1 DEF Expanding
  <2>8. PICK next \in Expanding(group) : next = [sql |-> c, args |-> b, used |-> u + 1, failed |-> FALSE]
    BY <2>5
  <2>9. /\ next.sql = c /\ next.args = b /\ next.used = u + 1 /\ next.failed = FALSE
        /\ state.sql = s /\ state.args = a /\ state.used = u
    BY <1>1, <2>8
  <2>10. Takes(next, state, group, token)
    BY <2>2, <2>3, <2>9 DEF Takes
  <2> QED BY <1>2, <2>4, <2>8, <2>10
<1> QED BY <1>3, <1>4

\* What an expansion makes of a statement whose arguments are there: a statement that has its
\* own, those its keywords bring among them.
Expansion(e, sql, group, used, with) ==
  /\ e \in Expanding(group) /\ e.failed = FALSE /\ e.used = used + Len(Marked(sql))
  /\ e.args = Marked(e.sql)
  /\ \A i \in DOMAIN sql : sql[i].key # "?" => Within(Brought(sql[i], with), e.args)

\* Nothing is replaced differently.
Replaces(with, other, T) ==
  \A t \in T : t.key # "?" => \A state : ExpandToken(state, t, other) = ExpandToken(state, t, with)

\* Template.Expand: every question mark gets its argument, and keywords theirs, in their order.
LEMMA ExpandedRight ==
  ASSUME NEW names, NEW columnIn \in BOOLEAN, NEW T, T = Permitted(names, columnIn),
         NEW with, Fill(with, names, columnIn), NEW group \in Seq(Value), NEW used \in 0..Len(group),
         NEW sql \in Seq(T), Supplies(group, used, sql)
  PROVE  /\ Expansion(Expand(sql, group, used, with), sql, group, used, with)
         /\ \A other : Replaces(with, other, T) => Expand(sql, group, used, other) = Expand(sql, group, used, with)
<1>1. PICK n \in Nat : n = Len(sql) /\ DOMAIN sql = 1..n /\ \A i \in 1..n : sql[i] \in T
  OBVIOUS
<1>2. T \subseteq Tokens /\ sql \in Sql
  BY DEF Permitted, Sql
<1>3. PICK U : U = Expanding(group)
  OBVIOUS
<1>4. Unexpanded(used) \in U
  <2>1. <<>> \in Sql /\ <<>> \in Seq(Value)
    BY MarkedFew
  <2> QED BY <1>3, <2>1 DEF Unexpanded, Expanding
<1>5. ASSUME NEW i \in 1..n, NEW x \in U PROVE ExpandNext(x, sql[i], group, with) \in U
  <2>1. CASE x.failed
    BY <2>1 DEF ExpandNext
  <2>2. CASE ~x.failed
    <3>1. x.failed = FALSE /\ sql[i] \in Tokens
      BY <1>1, <1>2, <1>3, <2>2 DEF Expanding
    <3>2. CASE sql[i].key = "?"
      BY <1>3, <3>1, <3>2, MarkTakes DEF Takes
    <3>3. CASE sql[i].key # "?"
      <4>1. ExpandToken(x, sql[i], with) \in U
        BY <1>1, <1>3, <3>3, TokenGains DEF Gains
      <4> QED BY <3>1, <3>3, <4>1 DEF ExpandNext
    <3> QED BY <3>2, <3>3
  <2> QED BY <2>1, <2>2
<1>6. PICK run \in [0..n -> U] :
        /\ run[0] = Unexpanded(used) /\ run[n] = Expand(sql, group, used, with)
        /\ \A i \in 1..n : run[i] = ExpandNext(run[i - 1], sql[i], group, with)
  <2>1. ExpandClosed(U, n, sql, group, used, with)
    BY <1>4, <1>5 DEF ExpandClosed
  <2>2. \E run \in [0..n -> U] : ExpandRun(run, n, sql, group, used, with)
    BY <1>1, <2>1, ExpansionRuns
  <2> QED BY <2>2 DEF ExpandRun
<1>7. PICK marks : Marking(marks, sql)
  BY <1>2, MarkedType
<1>8. /\ marks \in [0..n -> Seq(Value)] /\ marks[0] = <<>> /\ marks[n] = Marked(sql)
      /\ \A i \in 1..n : /\ sql[i].key = "?" => marks[i] = Append(marks[i - 1], sql[i].of[1])
                         /\ sql[i].key # "?" => marks[i] = marks[i - 1]
  BY <1>1, <1>7 DEF Marking
<1> DEFINE Right(i) == /\ run[i].failed = FALSE /\ run[i].used = used + Len(marks[i])
                       /\ run[i].args = Marked(run[i].sql)
           good == {i \in 0..n : Right(i)}
<1>9. ASSUME NEW i \in 1..n, i - 1 \in good
      PROVE  /\ i \in good
             /\ sql[i].key = "?" => run[i].args = Append(run[i - 1].args, sql[i].of[1]) /\ sql[i].of[1] \in Value
             /\ sql[i].key # "?" => /\ run[i].args = run[i - 1].args \o Brought(sql[i], with)
                                    /\ Brought(sql[i], with) \in Seq(Value)
  <2>1. Right(i - 1) /\ run[i - 1] \in Expanding(group) /\ sql[i] \in Tokens
        /\ run[i] = ExpandNext(run[i - 1], sql[i], group, with)
    BY <1>1, <1>2, <1>3, <1>6, <1>9
  <2>2. marks[i] \in Seq(Value) /\ marks[i - 1] \in Seq(Value) /\ i - 1 \in 0..n /\ i \in 0..n
    <3>1. i - 1 \in 0..n /\ i \in 0..n
      OBVIOUS
    <3> QED BY <1>8, <3>1
  <2>3. CASE sql[i].key = "?"
    <3>1. sql[i].of[1] \in Value
      BY <2>1, <2>3 DEF Tokens
    <3>2. marks[i] = Append(marks[i - 1], sql[i].of[1]) /\ Len(marks[i]) = Len(marks[i - 1]) + 1
          /\ marks[i][Len(marks[i])] = sql[i].of[1]
      <4>1. PICK m \in Seq(Value), v \in Value : m = marks[i - 1] /\ v = sql[i].of[1]
        BY <2>2, <3>1
      <4>2. marks[i] = Append(m, v)
        BY <1>8, <2>3, <4>1
      <4>3. Len(Append(m, v)) = Len(m) + 1 /\ Append(m, v)[Len(m) + 1] = v
        OBVIOUS
      <4> QED BY <4>1, <4>2, <4>3
    <3>3. Len(marks[i]) <= Len(Marked(sql)) /\ \A j \in 1..Len(marks[i]) : Marked(sql)[j] = marks[i][j]
      BY <1>1, <1>2, <1>7, <2>2, MarkedPrefix
    <3>4. PICK k \in Nat : k = Len(marks[i - 1])
      BY <2>2
    <3>5. k + 1 \in 1..Len(marks[i]) /\ k + 1 \in 1..Len(Marked(sql))
      <4>1. Len(Marked(sql)) \in Nat
        BY <1>8
      <4> QED BY <3>2, <3>3, <3>4, <4>1
    <3>6. used + (k + 1) <= Len(group) /\ group[used + (k + 1)] = sql[i].of[1]
      BY <3>2, <3>3, <3>4, <3>5 DEF Supplies
    <3>7. run[i - 1].used = used + k /\ (used + k) + 1 = used + (k + 1)
      BY <2>1, <3>4
    <3>8. /\ run[i].failed = FALSE /\ run[i].used = run[i - 1].used + 1
          /\ run[i].args = Append(run[i - 1].args, sql[i].of[1])
          /\ Marked(run[i].sql) = Append(Marked(run[i - 1].sql), sql[i].of[1])
      <4>1. Takes(run[i], run[i - 1], group, sql[i])
        BY <2>1, <2>3, MarkTakes
      <4>2. run[i - 1].used + 1 = used + (k + 1)
        BY <3>7
      <4> QED BY <3>6, <4>1, <4>2 DEF Takes
    <3>9. Right(i)
      BY <2>1, <3>2, <3>4, <3>7, <3>8
    <3> QED BY <2>2, <2>3, <3>1, <3>8, <3>9
  <2>4. CASE sql[i].key # "?"
    <3>1. run[i] = ExpandToken(run[i - 1], sql[i], with)
      BY <2>1, <2>4 DEF ExpandNext
    <3>2. Gains(run[i], run[i - 1], group, Brought(sql[i], with)) /\ Brought(sql[i], with) \in Seq(Value)
      BY <1>1, <2>1, <2>4, <3>1, TokenGains
    <3>3. marks[i] = marks[i - 1]
      BY <1>8, <2>4
    <3>4. Right(i)
      BY <2>1, <3>2, <3>3 DEF Gains
    <3>5. run[i].args = run[i - 1].args \o Brought(sql[i], with)
      BY <3>2 DEF Gains
    <3> QED BY <2>2, <2>4, <3>2, <3>4, <3>5
  <2> QED BY <2>3, <2>4
<1>10. 0 \in good
  <2>1. Right(0)
    BY <1>6, <1>8, MarkedFew DEF Unexpanded
  <2> QED BY <2>1
<1>11. \A i \in 0..n : i \in good
  <2> HIDE DEF good
  <2> QED BY <1>9, <1>10, Inductive
<1>12. ASSUME NEW i \in 1..n, sql[i].key # "?" PROVE Within(Brought(sql[i], with), run[n].args)
  <2>0. \A k \in 0..n : run[k].args \in Seq(Value)
    BY <1>3, <1>6 DEF Expanding
  <2>1. PICK b \in Seq(Value) : b = Brought(sql[i], with) /\ run[i].args = run[i - 1].args \o b
    <3>1. i - 1 \in good
      <4>1. i - 1 \in 0..n
        OBVIOUS
      <4> HIDE DEF good
      <4> QED BY <1>11, <4>1
    <3> QED BY <1>9, <1>12, <3>1
  <2> DEFINE among == {k \in 0..n : k >= i => Within(b, run[k].args)}
  <2>2. 0 \in among
    OBVIOUS
  <2>3. ASSUME NEW k \in 1..n, k - 1 \in among PROVE k \in among
    <3>1. CASE k = i
      <4>1. run[i - 1].args \in Seq(Value)
        BY <2>0
      <4>2. Within(b, run[i - 1].args \o b)
        BY <4>1, WithinMore
      <4>3. Within(b, run[k].args)
        BY <2>1, <3>1, <4>2
      <4>4. k \in 0..n
        OBVIOUS
      <4> QED BY <4>3, <4>4
    <3>2. CASE k > i
      <4>0. k - 1 \in 0..n /\ k - 1 \in good
        BY <1>11
      <4>1. PICK a \in Seq(Value) : a = run[k - 1].args /\ Within(b, a)
        BY <2>0, <2>3, <3>2
      <4>2. PICK z \in Seq(Value) : run[k].args = a \o z
        <5>1. CASE sql[k].key = "?"
          <6>1. run[k].args = Append(a, sql[k].of[1]) /\ sql[k].of[1] \in Value
            BY <1>9, <4>0, <4>1, <5>1
          <6>2. Append(a, sql[k].of[1]) = a \o <<sql[k].of[1]>> /\ <<sql[k].of[1]>> \in Seq(Value)
            BY <6>1, AppendIsConcat
          <6> QED BY <6>1, <6>2
        <5>2. CASE sql[k].key # "?"
          BY <1>9, <4>0, <4>1, <5>2
        <5> QED BY <5>1, <5>2
      <4>3. Within(b, a \o z)
        BY <4>1, WithinMore
      <4>4. Within(b, run[k].args)
        BY <4>2, <4>3
      <4>5. k \in 0..n
        OBVIOUS
      <4> QED BY <4>4, <4>5
    <3>3. CASE k < i
      BY <3>3
    <3> QED BY <3>1, <3>2, <3>3
  <2>4. \A k \in 0..n : k \in among
    <3> HIDE DEF among
    <3> QED BY <2>2, <2>3, Inductive
  <2> QED BY <2>1, <2>4
<1>13. Expansion(Expand(sql, group, used, with), sql, group, used, with)
  <2>1. Right(n) /\ run[n] \in Expanding(group)
    BY <1>3, <1>6, <1>11
  <2> QED BY <1>1, <1>6, <1>8, <1>12, <2>1 DEF Expansion
<1>14. ASSUME NEW other, Replaces(with, other, T)
       PROVE  Expand(sql, group, used, other) = Expand(sql, group, used, with)
  <2>1. ASSUME NEW i \in 1..n, NEW x
        PROVE  ExpandNext(x, sql[i], group, other) = ExpandNext(x, sql[i], group, with)
    BY <1>1, <1>14 DEF Replaces, ExpandNext
  <2>2. ExpandClosed(U, n, sql, group, used, other)
    BY <1>4, <1>5, <2>1 DEF ExpandClosed
  <2>3. \E r \in [0..n -> U] : ExpandRun(r, n, sql, group, used, other)
    BY <1>1, <2>2, ExpansionRuns
  <2>4. PICK r \in [0..n -> U] :
          /\ r[0] = Unexpanded(used) /\ r[n] = Expand(sql, group, used, other)
          /\ \A i \in 1..n : r[i] = ExpandNext(r[i - 1], sql[i], group, other)
    BY <2>3 DEF ExpandRun
  <2> DEFINE same == {i \in 0..n : r[i] = run[i]}
  <2>5. 0 \in same
    BY <1>6, <2>4
  <2>6. ASSUME NEW i \in 1..n, i - 1 \in same PROVE i \in same
    <3>1. r[i - 1] = run[i - 1]
      BY <2>6
    <3>2. r[i] = ExpandNext(run[i - 1], sql[i], group, other)
      BY <2>4, <3>1
    <3>3. r[i] = run[i]
      BY <1>6, <2>1, <3>2
    <3>4. i \in 0..n
      OBVIOUS
    <3> QED BY <3>3, <3>4
  <2>7. \A i \in 0..n : i \in same
    <3> HIDE DEF same
    <3> QED BY <2>5, <2>6, Inductive
  <2> QED BY <1>6, <2>4, <2>7
<1> QED BY <1>13, <1>14
-----------------------------------------------------------------------------
(* Statements that are executed.                                            *)

\* SQL is cut token by token.
LEMMA CutRun ==
  ASSUME NEW n \in Nat, NEW sql, DOMAIN sql = 1..n,
         NEW all, all = CutUp(sql)
  PROVE  \E run : /\ run[0] = Uncut /\ run[n] = all
                  /\ \A i \in 1..n : run[i] = CutNext(run[i - 1], sql[i])
<1> DEFINE Further(x, t) == CutNext(x, t)
           base == Uncut
           F(g) == [S \in SUBSET DOMAIN sql |->
                      IF S = {} THEN base ELSE Further(g[S \ {Max(S)}], sql[Max(S)])]
           Is(it, k) == \A S \in SUBSET (1..k) :
                          it[S] = IF S = {} THEN base ELSE Further(it[S \ {Max(S)}], sql[Max(S)])
           good == {k \in 0..n : \E it : Is(it, k)}
<1>1. CutUp(sql) = (CHOOSE g : g = F(g))[DOMAIN sql]
  BY Zenon DEF CutUp, FoldLeft, MapThenFoldSet
<1> HIDE DEF Further, base
<1>2. 0 \in good
  <2> DEFINE it == [S \in SUBSET (1..0) |-> base]
  <2>1. SUBSET (1..0) = {{}}
    OBVIOUS
  <2>2. \A S \in SUBSET (1..0) : S = {} /\ it[S] = base
    BY <2>1
  <2> HIDE DEF it
  <2>3. Is(it, 0)
    BY <2>2
  <2> HIDE DEF Is
  <2> QED BY <2>3
<1>3. ASSUME NEW k \in 1..n, k - 1 \in good PROVE k \in good
  <2>1. PICK f : Is(f, k - 1)
    BY <1>3
  <2> DEFINE it == [S \in SUBSET (1..k) |-> IF k \in S THEN Further(f[S \ {k}], sql[k]) ELSE f[S]]
  <2>2. \A S \in SUBSET (1..k) : /\ k \in S => S \ {k} \in SUBSET (1..(k - 1))
                                 /\ k \notin S => S \in SUBSET (1..(k - 1))
    OBVIOUS
  <2>3. \A S \in SUBSET (1..(k - 1)) : S \in SUBSET (1..k) /\ k \notin S
    OBVIOUS
  <2>4. \A S \in SUBSET (1..k) : it[S] = IF k \in S THEN Further(f[S \ {k}], sql[k]) ELSE f[S]
    OBVIOUS
  <2> HIDE DEF it
  <2>5. ASSUME NEW S \in SUBSET (1..k)
        PROVE  it[S] = IF S = {} THEN base ELSE Further(it[S \ {Max(S)}], sql[Max(S)])
    <3>1. CASE k \in S
      <4>1. Max(S) = k
        <5>0. k \in Nat /\ S # {}
          BY <3>1
        <5>1. Max(S) \in S /\ \A y \in S : Max(S) >= y
          BY <5>0, GreatestIs
        <5>2. Max(S) \in 1..k /\ Max(S) >= k
          BY <3>1, <5>1
        <5> QED BY <5>1, <5>2
      <4>2. S \ {k} \in SUBSET (1..k) /\ k \notin S \ {k} /\ S # {}
        BY <3>1
      <4>3. it[S] = Further(f[S \ {k}], sql[k]) /\ it[S \ {k}] = f[S \ {k}]
        BY <2>4, <3>1, <4>2
      <4> QED BY <4>1, <4>2, <4>3
    <3>2. CASE k \notin S
      <4>1. S \in SUBSET (1..(k - 1)) /\ it[S] = f[S]
        BY <2>2, <2>4, <3>2
      <4>2. S \ {Max(S)} \in SUBSET (1..(k - 1)) /\ it[S \ {Max(S)}] = f[S \ {Max(S)}]
        <5>1. S \ {Max(S)} \in SUBSET (1..(k - 1))
          BY <4>1
        <5> QED BY <2>3, <2>4, <5>1
      <4> QED BY <2>1, <4>1, <4>2
    <3> QED BY <3>1, <3>2
  <2>6. Is(it, k)
    BY <2>5
  <2> HIDE DEF Is
  <2> QED BY <2>6
<1>4. PICK it : Is(it, n)
  <2>1. \A i \in 0..n : i \in good
    <3> HIDE DEF good
    <3> QED BY <1>2, <1>3, Inductive
  <2> HIDE DEF Is
  <2> QED BY <2>1
<1>5. PICK f : f = F(f)
  <2> DEFINE g == [S \in SUBSET (1..n) |-> it[S]]
  <2>1. \A S \in SUBSET (1..n) : S # {} => S \ {Max(S)} \in SUBSET (1..n)
    OBVIOUS
  <2>2. g = F(g)
    BY <1>4, <2>1
  <2> HIDE DEF g, F
  <2> QED BY <2>2
<1>6. PICK h : h = F(h) /\ CutUp(sql) = h[1..n]
  <2> HIDE DEF F
  <2> QED BY <1>1, <1>5, Zenon
<1>10. \A S \in SUBSET (1..n) : S # {} => h[S] = Further(h[S \ {Max(S)}], sql[Max(S)])
  BY <1>6
<1> HIDE DEF F
<1> DEFINE run == [i \in 0..n |-> h[1..i]]
<1>7. run[0] = base
  <2>1. 1..0 = {}
    OBVIOUS
  <2>2. h[{}] = base
    <3> USE DEF F
    <3>1. {} \in SUBSET DOMAIN sql
      OBVIOUS
    <3> QED BY <1>6, <3>1
  <2> QED BY <2>1, <2>2
<1>8. ASSUME NEW i \in 1..n PROVE run[i] = Further(run[i - 1], sql[i])
  <2>1. 1..i \in SUBSET (1..n) /\ i \in 1..i /\ (1..i) \ {i} = 1..(i - 1)
    OBVIOUS
  <2>4. 1..i # {}
    BY <2>1
  <2>2. Max(1..i) = i
    <3>1. Max(1..i) \in 1..i /\ Max(1..i) >= i
      BY <2>1, <2>4, GreatestIs
    <3> QED BY <3>1
  <2>3. h[1..i] = Further(h[(1..i) \ {Max(1..i)}], sql[Max(1..i)])
    BY <1>10, <2>1, <2>4, Zenon
  <2>5. run[i] = h[1..i] /\ run[i - 1] = h[1..(i - 1)]
    OBVIOUS
  <2> HIDE DEF run
  <2> QED BY <2>1, <2>2, <2>3, <2>5
<1>9. run[n] = CutUp(sql)
  BY <1>6
<1> HIDE DEF run
<1> QED BY <1>7, <1>8, <1>9 DEF base, Further



\* How many arguments each statement leaves to the next.
Makes(run, n, commands, args, vals) ==
  /\ run[0] = Unmade /\ run[n] = Make(commands, args, vals)
  /\ \A i \in 1..n : run[i] = MakeNext(run[i - 1], commands[i], args, vals)

\* Statements are made one after another.
LEMMA MakeRun ==
  ASSUME NEW args, NEW vals, NEW n \in Nat, NEW commands, DOMAIN commands = 1..n
  PROVE  \E run : Makes(run, n, commands, args, vals)
<1> DEFINE Further(x, t) == MakeNext(x, t, args, vals)
           base == Unmade
           F(g) == [S \in SUBSET DOMAIN commands |->
                      IF S = {} THEN base ELSE Further(g[S \ {Max(S)}], commands[Max(S)])]
           Is(it, k) == \A S \in SUBSET (1..k) :
                          it[S] = IF S = {} THEN base ELSE Further(it[S \ {Max(S)}], commands[Max(S)])
           good == {k \in 0..n : \E it : Is(it, k)}
<1>1. Make(commands, args, vals) = (CHOOSE g : g = F(g))[DOMAIN commands]
  BY Zenon DEF Make, FoldLeft, MapThenFoldSet
<1> HIDE DEF Further, base
<1>2. 0 \in good
  <2> DEFINE it == [S \in SUBSET (1..0) |-> base]
  <2>1. SUBSET (1..0) = {{}}
    OBVIOUS
  <2>2. \A S \in SUBSET (1..0) : S = {} /\ it[S] = base
    BY <2>1
  <2> HIDE DEF it
  <2>3. Is(it, 0)
    BY <2>2
  <2> HIDE DEF Is
  <2> QED BY <2>3
<1>3. ASSUME NEW k \in 1..n, k - 1 \in good PROVE k \in good
  <2>1. PICK f : Is(f, k - 1)
    BY <1>3
  <2> DEFINE it == [S \in SUBSET (1..k) |-> IF k \in S THEN Further(f[S \ {k}], commands[k]) ELSE f[S]]
  <2>2. \A S \in SUBSET (1..k) : /\ k \in S => S \ {k} \in SUBSET (1..(k - 1))
                                 /\ k \notin S => S \in SUBSET (1..(k - 1))
    OBVIOUS
  <2>3. \A S \in SUBSET (1..(k - 1)) : S \in SUBSET (1..k) /\ k \notin S
    OBVIOUS
  <2>4. \A S \in SUBSET (1..k) : it[S] = IF k \in S THEN Further(f[S \ {k}], commands[k]) ELSE f[S]
    OBVIOUS
  <2> HIDE DEF it
  <2>5. ASSUME NEW S \in SUBSET (1..k)
        PROVE  it[S] = IF S = {} THEN base ELSE Further(it[S \ {Max(S)}], commands[Max(S)])
    <3>1. CASE k \in S
      <4>1. Max(S) = k
        <5>0. k \in Nat /\ S # {}
          BY <3>1
        <5>1. Max(S) \in S /\ \A y \in S : Max(S) >= y
          BY <5>0, GreatestIs
        <5>2. Max(S) \in 1..k /\ Max(S) >= k
          BY <3>1, <5>1
        <5> QED BY <5>1, <5>2
      <4>2. S \ {k} \in SUBSET (1..k) /\ k \notin S \ {k} /\ S # {}
        BY <3>1
      <4>3. it[S] = Further(f[S \ {k}], commands[k]) /\ it[S \ {k}] = f[S \ {k}]
        BY <2>4, <3>1, <4>2
      <4> QED BY <4>1, <4>2, <4>3
    <3>2. CASE k \notin S
      <4>1. S \in SUBSET (1..(k - 1)) /\ it[S] = f[S]
        BY <2>2, <2>4, <3>2
      <4>2. S \ {Max(S)} \in SUBSET (1..(k - 1)) /\ it[S \ {Max(S)}] = f[S \ {Max(S)}]
        <5>1. S \ {Max(S)} \in SUBSET (1..(k - 1))
          BY <4>1
        <5> QED BY <2>3, <2>4, <5>1
      <4> QED BY <2>1, <4>1, <4>2
    <3> QED BY <3>1, <3>2
  <2>6. Is(it, k)
    BY <2>5
  <2> HIDE DEF Is
  <2> QED BY <2>6
<1>4. PICK it : Is(it, n)
  <2>1. \A i \in 0..n : i \in good
    <3> HIDE DEF good
    <3> QED BY <1>2, <1>3, Inductive
  <2> HIDE DEF Is
  <2> QED BY <2>1
<1>5. PICK f : f = F(f)
  <2> DEFINE g == [S \in SUBSET (1..n) |-> it[S]]
  <2>1. \A S \in SUBSET (1..n) : S # {} => S \ {Max(S)} \in SUBSET (1..n)
    OBVIOUS
  <2>2. g = F(g)
    BY <1>4, <2>1
  <2> HIDE DEF g, F
  <2> QED BY <2>2
<1>6. PICK h : h = F(h) /\ Make(commands, args, vals) = h[1..n]
  <2> HIDE DEF F
  <2> QED BY <1>1, <1>5, Zenon
<1>10. \A S \in SUBSET (1..n) : S # {} => h[S] = Further(h[S \ {Max(S)}], commands[Max(S)])
  BY <1>6
<1> HIDE DEF F
<1> DEFINE run == [i \in 0..n |-> h[1..i]]
<1>7. run[0] = base
  <2>1. 1..0 = {}
    OBVIOUS
  <2>2. h[{}] = base
    <3> USE DEF F
    <3>1. {} \in SUBSET DOMAIN commands
      OBVIOUS
    <3> QED BY <1>6, <3>1
  <2> QED BY <2>1, <2>2
<1>8. ASSUME NEW i \in 1..n PROVE run[i] = Further(run[i - 1], commands[i])
  <2>1. 1..i \in SUBSET (1..n) /\ i \in 1..i /\ (1..i) \ {i} = 1..(i - 1)
    OBVIOUS
  <2>4. 1..i # {}
    BY <2>1
  <2>2. Max(1..i) = i
    <3>1. Max(1..i) \in 1..i /\ Max(1..i) >= i
      BY <2>1, <2>4, GreatestIs
    <3> QED BY <3>1
  <2>3. h[1..i] = Further(h[(1..i) \ {Max(1..i)}], commands[Max(1..i)])
    BY <1>10, <2>1, <2>4, Zenon
  <2>5. run[i] = h[1..i] /\ run[i - 1] = h[1..(i - 1)]
    OBVIOUS
  <2> HIDE DEF run
  <2> QED BY <2>1, <2>2, <2>3, <2>5
<1>9. run[n] = Make(commands, args, vals)
  BY <1>6
<1> HIDE DEF run
<1> QED BY <1>7, <1>8, <1>9 DEF base, Further, Makes

\* What the question marks of some commands stand for, one command after another.
Cuts(cat, commands, marks) ==
  /\ cat \in [0..Len(commands) -> Seq(Value)] /\ cat[0] = <<>> /\ cat[Len(commands)] = marks
  /\ \A k \in 1..Len(commands) : cat[k] = cat[k - 1] \o Marked(commands[k])

\* One command more.
LEMMA CutsMore ==
  ASSUME NEW commands \in Seq(Sql), NEW marks, NEW cat, Cuts(cat, commands, marks), NEW sql \in Sql
  PROVE  \E more : Cuts(more, Append(commands, sql), marks \o Marked(sql))
<1>1. PICK n \in Nat : n = Len(commands)
  OBVIOUS
<1>2. PICK longer \in Seq(Sql) : /\ longer = Append(commands, sql) /\ Len(longer) = n + 1
                                 /\ longer[n + 1] = sql /\ \A k \in 1..n : longer[k] = commands[k]
  <2>1. /\ Append(commands, sql) \in Seq(Sql) /\ Len(Append(commands, sql)) = n + 1
        /\ Append(commands, sql)[n + 1] = sql /\ \A k \in 1..n : Append(commands, sql)[k] = commands[k]
    BY <1>1
  <2> QED BY <2>1
<1>3. /\ cat \in [0..n -> Seq(Value)] /\ cat[0] = <<>> /\ cat[n] = marks
      /\ \A k \in 1..n : cat[k] = cat[k - 1] \o Marked(commands[k])
  BY <1>1 DEF Cuts
<1>4. PICK all \in Seq(Value) : all = marks \o Marked(sql)
  <2>1. Marked(sql) \in Seq(Value) /\ marks \in Seq(Value)
    BY <1>3, MarkedType
  <2> QED BY <2>1, ConcatProperties
<1> DEFINE more == [k \in 0..(n + 1) |-> IF k = n + 1 THEN all ELSE cat[k]]
<1>5. more \in [0..(n + 1) -> Seq(Value)]
  BY <1>3
<1>6. more[0] = <<>> /\ more[n + 1] = all /\ \A k \in 0..n : more[k] = cat[k]
  BY <1>3
<1> HIDE DEF more
<1>7. ASSUME NEW k \in 1..(n + 1) PROVE more[k] = more[k - 1] \o Marked(longer[k])
  <2>1. CASE k = n + 1
    <3>1. more[k - 1] = marks
      BY <1>3, <1>6, <2>1
    <3> QED BY <1>2, <1>4, <1>6, <2>1, <3>1
  <2>2. CASE k \in 1..n
    <3>1. k \in 0..n /\ k - 1 \in 0..n
      BY <2>2
    <3> QED BY <1>2, <1>3, <1>6, <2>2, <3>1
  <2>3. k = n + 1 \/ k \in 1..n
    OBVIOUS
  <2> QED BY <2>1, <2>2, <2>3
<1>8. Cuts(more, longer, all)
  BY <1>2, <1>5, <1>6, <1>7 DEF Cuts
<1> QED BY <1>2, <1>4, <1>8

\* Values and one more.
LEMMA AppendLater ==
  ASSUME NEW a \in Seq(Value), NEW b \in Seq(Value), NEW v \in Value
  PROVE  Append(a \o b, v) = a \o Append(b, v)
<1>1. Append(a \o b, v) = (a \o b) \o <<v>> /\ Append(b, v) = b \o <<v>>
  BY AppendIsConcat, ConcatProperties
<1>2. <<v>> \in Seq(Value)
  OBVIOUS
<1>3. Three(a, b, <<v>>)
  BY <1>2 DEF Three
<1>4. (a \o b) \o <<v>> = a \o (b \o <<v>>)
  BY <1>3, Regroup, SMTT(60)
<1> QED BY <1>1, <1>4, Zenon

\* SQL that is being cut: the question marks of the commands and of what comes next are those of
\* the tokens so far.
Cutting(T, cut, marks) ==
  /\ cut \in [commands : Seq(Seq(T)), pending : Seq(T)]
  /\ \E cat, part : Cuts(cat, cut.commands, part) /\ part \in Seq(Value) /\ marks = part \o Marked(cut.pending)

\* appendMatched
LEMMA MatchedCuts ==
  ASSUME NEW T \in SUBSET Tokens, NEW cut, NEW marks, Cutting(T, cut, marks)
  PROVE  AppendMatched(cut) \in Seq(Seq(T)) /\ \E cat : Cuts(cat, AppendMatched(cut), marks)
<1>1. PICK c \in Seq(Seq(T)), p \in Seq(T) : c = cut.commands /\ p = cut.pending
  BY DEF Cutting
<1>2. PICK cat, part : Cuts(cat, c, part) /\ part \in Seq(Value) /\ marks = part \o Marked(p)
  BY <1>1 DEF Cutting
<1>3. CASE p = <<>>
  <2>1. marks = part
    BY <1>2, <1>3, MarkedFew, ConcatEmptySeq
  <2> QED BY <1>1, <1>2, <1>3, <2>1 DEF AppendMatched
<1>4. CASE p # <<>>
  <2>1. c \in Seq(Sql) /\ p \in Sql
    BY DEF Sql
  <2>2. \E more : Cuts(more, Append(c, p), part \o Marked(p))
    BY <1>2, <2>1, CutsMore
  <2>3. Append(c, p) \in Seq(Seq(T))
    OBVIOUS
  <2> QED BY <1>1, <1>2, <1>4, <2>2, <2>3 DEF AppendMatched
<1> QED BY <1>3, <1>4

\* parser.Parse: the commands have the question marks of what they are cut from.
LEMMA CommandsCut ==
  ASSUME NEW T \in SUBSET Tokens, NEW sql \in Seq(T)
  PROVE  Commands(sql) \in Seq(Seq(T)) /\ \E cat : Cuts(cat, Commands(sql), Marked(sql))
<1>1. PICK n \in Nat : n = Len(sql) /\ DOMAIN sql = 1..n /\ \A i \in 1..n : sql[i] \in T
  OBVIOUS
<1>2. PICK run : /\ run[0] = Uncut /\ run[n] = CutUp(sql)
                 /\ \A i \in 1..n : run[i] = CutNext(run[i - 1], sql[i])
  BY <1>1, CutRun
<1>3. PICK marks : Marking(marks, sql)
  <2>1. sql \in Sql
    BY DEF Sql
  <2> QED BY <2>1, MarkedType
<1>4. /\ marks \in [0..n -> Seq(Value)] /\ marks[0] = <<>> /\ marks[n] = Marked(sql)
      /\ \A i \in 1..n : /\ sql[i].key = "?" => marks[i] = Append(marks[i - 1], sql[i].of[1])
                         /\ sql[i].key # "?" => marks[i] = marks[i - 1]
  BY <1>1, <1>3 DEF Marking
<1> DEFINE good == {i \in 0..n : Cutting(T, run[i], marks[i])}
<1>5. 0 \in good
  <2>1. PICK c \in Seq(Seq(T)), p \in Seq(T), e \in Seq(Value) : c = <<>> /\ p = <<>> /\ e = <<>> /\ Len(c) = 0
    <3>1. <<>> \in Seq(Seq(T)) /\ <<>> \in Seq(T) /\ <<>> \in Seq(Value) /\ Len(<<>>) = 0
      OBVIOUS
    <3> QED BY <3>1
  <2>2. Marked(p) = <<>> /\ e \o <<>> = e
    BY <2>1, MarkedFew, ConcatEmptySeq
  <2> DEFINE cat == [k \in 0..0 |-> e]
  <2>3. Cuts(cat, c, e)
    BY <2>1 DEF Cuts
  <2> HIDE DEF cat
  <2>4. PICK cut \in [commands : Seq(Seq(T)), pending : Seq(T)] : cut = [commands |-> c, pending |-> p]
    OBVIOUS
  <2>5. cut.commands = c /\ cut.pending = p
    BY <2>4
  <2>6. Cutting(T, cut, e)
    BY <2>1, <2>2, <2>3, <2>5 DEF Cutting
  <2>7. run[0] = cut /\ marks[0] = e
    BY <1>2, <1>4, <2>1, <2>4 DEF Uncut
  <2> QED BY <2>6, <2>7
<1>6. ASSUME NEW i \in 1..n, i - 1 \in good PROVE i \in good
  <2>0. run[i] = CutNext(run[i - 1], sql[i]) /\ sql[i] \in T /\ sql[i] \in Tokens /\ i \in 0..n
    BY <1>1, <1>2
  <2>1. PICK c \in Seq(Seq(T)), p \in Seq(T) : /\ c = run[i - 1].commands /\ p = run[i - 1].pending
                                               /\ run[i - 1] = [commands |-> c, pending |-> p]
    BY <1>6 DEF Cutting
  <2>2. PICK cat, part : Cuts(cat, c, part) /\ part \in Seq(Value) /\ marks[i - 1] = part \o Marked(p)
    BY <1>6, <2>1 DEF Cutting
  <2>3. CASE sql[i].key = ";"
    <3>1. PICK more, longer, e, m :
            /\ more \in Seq(Seq(T)) /\ e \in Seq(T) /\ m \in Seq(Value) /\ e = <<>>
            /\ more = AppendMatched(run[i - 1]) /\ m = marks[i - 1] /\ Cuts(longer, more, m)
      <4>1. AppendMatched(run[i - 1]) \in Seq(Seq(T)) /\ \E l : Cuts(l, AppendMatched(run[i - 1]), marks[i - 1])
        BY <1>6, MatchedCuts
      <4>2. marks[i - 1] \in Seq(Value)
        <5>1. i - 1 \in 0..n
          OBVIOUS
        <5> QED BY <1>4, <5>1
      <4>3. <<>> \in Seq(T)
        OBVIOUS
      <4> QED BY <4>1, <4>2, <4>3
    <3>2. marks[i] = m
      BY <1>4, <2>3, <3>1
    <3>3. m \o Marked(e) = m
      BY <3>1, MarkedFew, ConcatEmptySeq
    <3>4. PICK cut \in [commands : Seq(Seq(T)), pending : Seq(T)] :
            cut = [commands |-> more, pending |-> e] /\ cut.commands = more /\ cut.pending = e
      <4>1. [commands |-> more, pending |-> e] \in [commands : Seq(Seq(T)), pending : Seq(T)]
        BY <3>1
      <4> QED BY <4>1
    <3>5. run[i] = cut
      BY <2>0, <2>3, <3>1, <3>4 DEF CutNext
    <3>6. Cutting(T, cut, m)
      BY <3>1, <3>3, <3>4 DEF Cutting
    <3> QED BY <2>0, <3>2, <3>5, <3>6
  <2>4. CASE sql[i].key # ";"
    <3>1. PICK q \in Seq(T) : q = Append(p, sql[i])
      <4>1. Append(p, sql[i]) \in Seq(T)
        BY <2>0
      <4> QED BY <4>1
    <3>2. marks[i] = part \o Marked(q)
      <4>1. p \in Sql /\ Marked(p) \in Seq(Value)
        <5>1. p \in Sql
          BY DEF Sql
        <5> QED BY <5>1, MarkedType
      <4>2. CASE sql[i].key = "?"
        <5>1. Marked(q) = Append(Marked(p), sql[i].of[1]) /\ sql[i].of[1] \in Value
          BY <2>0, <3>1, <4>1, <4>2, MarkedAppend
        <5>2. Append(part \o Marked(p), sql[i].of[1]) = part \o Append(Marked(p), sql[i].of[1])
          <6>1. part \in Seq(Value)
            BY <2>2
          <6>2. PICK a \in Seq(Value), b \in Seq(Value), v \in Value :
                  a = part /\ b = Marked(p) /\ v = sql[i].of[1]
            BY <4>1, <5>1, <6>1
          <6>3. Append(a \o b, v) = a \o Append(b, v)
            BY AppendLater
          <6> QED BY <6>2, <6>3
        <5> QED BY <1>4, <2>2, <4>2, <5>1, <5>2
      <4>3. CASE sql[i].key # "?"
        BY <1>4, <2>0, <2>2, <3>1, <4>1, <4>3, MarkedAppend
      <4> QED BY <4>2, <4>3
    <3>3. PICK cut \in [commands : Seq(Seq(T)), pending : Seq(T)] :
            cut = [commands |-> c, pending |-> q] /\ cut.commands = c /\ cut.pending = q
      <4>1. [commands |-> c, pending |-> q] \in [commands : Seq(Seq(T)), pending : Seq(T)]
        OBVIOUS
      <4> QED BY <4>1
    <3>4. run[i] = cut
      <4>1. run[i] = [run[i - 1] EXCEPT !.pending = Append(@, sql[i])]
        BY <2>0, <2>4 DEF CutNext
      <4> QED BY <2>1, <3>1, <3>3, <4>1
    <3>5. Cutting(T, cut, marks[i])
      BY <2>2, <3>2, <3>3 DEF Cutting
    <3> QED BY <2>0, <3>4, <3>5
  <2> QED BY <2>3, <2>4
<1>7. n \in good
  <2> HIDE DEF good
  <2> QED BY <1>5, <1>6, Inductive
<1>8. Cutting(T, CutUp(sql), Marked(sql))
  BY <1>2, <1>4, <1>7
<1> QED BY <1>8, MatchedCuts DEF Commands

\* Arguments are served from where they are.
LEMMA SuppliesThere ==
  ASSUME NEW a \in Seq(Value), NEW m \in Seq(Value), NEW y \in Seq(Value), NEW group, group = (a \o m) \o y,
         NEW sql, Marked(sql) = m
  PROVE  /\ Supplies(group, Len(a), sql) /\ group \in Seq(Value)
         /\ Len(a) \in 0..Len(group) /\ Len(a \o m) = Len(a) + Len(m) /\ a \o m \in Seq(Value)
<1>2. PICK k \in Nat, l \in Nat, r \in Nat : k = Len(a) /\ l = Len(m) /\ r = Len(y)
  OBVIOUS
<1>3. PICK b \in Seq(Value) : /\ b = a \o m /\ Len(b) = k + l
                              /\ \A j \in 1..(k + l) : b[j] = IF j <= k THEN a[j] ELSE m[j - k]
  <2>1. /\ a \o m \in Seq(Value) /\ Len(a \o m) = Len(a) + Len(m)
        /\ \A j \in 1..(Len(a) + Len(m)) : (a \o m)[j] = IF j <= Len(a) THEN a[j] ELSE m[j - Len(a)]
    BY ConcatProperties
  <2> QED BY <1>2, <2>1
<1>4. /\ Len(group) = k + l + r /\ group \in Seq(Value)
      /\ \A j \in 1..(k + l + r) : group[j] = IF j <= k + l THEN b[j] ELSE y[j - (k + l)]
  <2>1. /\ Len(b \o y) = Len(b) + Len(y) /\ b \o y \in Seq(Value)
        /\ \A j \in 1..(Len(b) + Len(y)) : (b \o y)[j] = IF j <= Len(b) THEN b[j] ELSE y[j - Len(b)]
    BY ConcatProperties
  <2> QED BY <1>2, <1>3, <2>1
<1>5. ASSUME NEW j \in 1..l PROVE k + j <= Len(group) /\ group[k + j] = m[j]
  <2>1. k + j \in 1..(k + l + r) /\ k + j \in 1..(k + l) /\ (k + j) - k = j /\ k + j <= k + l /\ ~(k + j <= k)
        /\ k + j <= k + l + r
    OBVIOUS
  <2>2. group[k + j] = b[k + j] /\ b[k + j] = m[(k + j) - k]
    BY <1>3, <1>4, <2>1
  <2> QED BY <1>4, <2>1, <2>2
<1>6. Supplies(group, Len(a), sql)
  BY <1>2, <1>5 DEF Supplies
<1>7. k \in 0..(k + l + r)
  OBVIOUS
<1> QED BY <1>2, <1>3, <1>4, <1>6, <1>7

Begins(a, marks) == \E y \in Seq(Value) : marks = a \o y

\* What commands stand for begins with what the first of them do.
LEMMA CutsBegin ==
  ASSUME NEW commands \in Seq(Sql), NEW marks, NEW cat, Cuts(cat, commands, marks), NEW k \in 0..Len(commands)
  PROVE  Begins(cat[k], marks)
<1>1. PICK n \in Nat : n = Len(commands) /\ \A i \in 1..n : commands[i] \in Sql
  OBVIOUS
<1>2. /\ cat \in [0..n -> Seq(Value)] /\ cat[n] = marks
      /\ \A i \in 1..n : cat[i] = cat[i - 1] \o Marked(commands[i])
  BY <1>1 DEF Cuts
<1>3. PICK a \in Seq(Value) : a = cat[k]
  BY <1>1, <1>2
<1> DEFINE good == {i \in 0..n : i >= k => Begins(a, cat[i])}
<1>4. Begins(a, cat[k])
  <2>1. <<>> \in Seq(Value) /\ a \o <<>> = a
    BY ConcatEmptySeq
  <2> QED BY <1>3, <2>1 DEF Begins
<1>5. 0 \in good
  <2>1. k \in Nat /\ (0 >= k => k = 0) /\ 0 \in 0..n
    BY <1>1
  <2> QED BY <1>4, <2>1
<1>6. ASSUME NEW i \in 1..n, i - 1 \in good PROVE i \in good
  <2>0. k \in Nat /\ i \in 0..n /\ i - 1 \in 0..n
    BY <1>1
  <2>1. CASE i > k
    <3>1. i - 1 >= k
      BY <2>0, <2>1
    <3>2. PICK y \in Seq(Value) : cat[i - 1] = a \o y
      BY <1>6, <3>1 DEF Begins
    <3>3. PICK m \in Seq(Value) : m = Marked(commands[i])
      BY <1>1, MarkedType
    <3>4. cat[i] = a \o (y \o m)
      <4>1. (a \o y) \o m = a \o (y \o m)
        BY Regroup, SMTT(60)
      <4>2. cat[i] = (a \o y) \o m
        BY <1>2, <3>2, <3>3
      <4> QED BY <4>1, <4>2
    <3>5. y \o m \in Seq(Value)
      BY ConcatProperties
    <3> QED BY <2>0, <3>4, <3>5 DEF Begins
  <2>2. CASE i = k
    <3> QED BY <1>4, <2>0, <2>2
  <2>3. CASE i < k
    <3> QED BY <2>0, <2>3
  <2>4. i > k \/ i = k \/ i < k
    BY <2>0
  <2> QED BY <2>1, <2>2, <2>3, <2>4
<1>7. n \in good
  <2> HIDE DEF good
  <2>1. \A i \in 0..n : i \in good
    BY <1>5, <1>6, Inductive
  <2> QED BY <2>1
<1>8. n >= k
  BY <1>1
<1> QED BY <1>2, <1>3, <1>7, <1>8

\* View.Expand of a statement brings nothing of its own.
LEMMA StatementFills ==
  ASSUME NEW names, NEW vals \in [names -> Seq(Value)], NEW with,
         with = [where |-> FALSE, in |-> <<>>, batch |-> <<>>, pagination |-> <<>>,
                 criteria |-> Nothing, values |-> vals]
  PROVE  Fill(with, names, TRUE)
<1>1. <<>> \in Sql /\ <<>> \in Seq(Value) /\ Marked(<<>>) = <<>>
  BY MarkedFew
<1>2. /\ with.in = <<>> /\ with.batch = <<>> /\ with.pagination = <<>> /\ with.values = vals
      /\ with.criteria.sql = <<>> /\ with.criteria.args = <<>>
  BY DEF Nothing
<1> QED BY <1>1, <1>2 DEF Fill

\* SqlBuilder.Build: every statement gets the arguments for its own question marks.
LEMMA StatementsRight ==
  ASSUME NEW view, NEW names, WrittenView(view, names), NEW vals \in [names -> Seq(Value)]
  PROVE  BuildStatements(view, vals).failed = FALSE /\ BuildStatements(view, vals).made \in Seq(Piece)
<1>1. PICK T : T = Permitted(names, TRUE)
  OBVIOUS
<1>2. Writes(T) /\ T \in SUBSET Tokens
  BY <1>1, PermittedWrites DEF Writes
<1>3. Places(T, view.template)
  <2>1. ASSUME NEW item, Plainly(item), item.key \notin {"param", "parents", "view", "set", "each"}
        PROVE  Keyword(item.prefix, item.key) \in T
    BY <1>1, <2>1, PermittedWrites DEF Plainly
  <2>2. Has_(T, view.template)
    BY <2>1 DEF WrittenView, WrittenWith, Has_
  <2>3. ASSUME NEW i \in DOMAIN view.template, view.template[i].key = "each"
        PROVE  Has_(T, view.template[i].body)
    BY <2>1, <2>3 DEF WrittenView, WrittenWith, Has_
  <2> QED BY <2>2, <2>3 DEF Places
<1>4. PICK env : env = [parents |-> <<>>, mock |-> FALSE, consts |-> view.consts, view |-> Nothing]
  OBVIOUS
<1>5. Sees(env, T)
  <2>1. <<>> \in Seq(Value)
    OBVIOUS
  <2> QED BY <1>2, <1>4, <2>1, OverAre DEF Sees
<1>6. PICK source \in Over(T) : source = Evaluate(view.template, vals, env)
  <2>1. WrittenWith(view.template, names)
    BY DEF WrittenView
  <2> QED BY <1>2, <1>3, <1>5, <2>1, TemplateEvaluated
<1>7. PICK sql \in Seq(T), group \in Seq(Value) : sql = source.sql /\ group = source.args /\ group = Marked(sql)
  BY DEF Over
<1>8. PICK commands \in Seq(Seq(T)) : commands = Commands(sql) /\ \E cat : Cuts(cat, commands, group)
  BY <1>2, <1>7, CommandsCut
<1>9. PICK n \in Nat : n = Len(commands) /\ DOMAIN commands = 1..n /\ commands \in Seq(Sql)
                       /\ \A k \in 1..n : commands[k] \in Seq(T) /\ commands[k] \in Sql
  BY <1>2 DEF Sql
<1>10. PICK cat : Cuts(cat, commands, group)
  BY <1>8
<1>11. /\ cat \in [0..n -> Seq(Value)] /\ cat[0] = <<>> /\ cat[n] = group
       /\ \A k \in 1..n : cat[k] = cat[k - 1] \o Marked(commands[k])
  BY <1>9, <1>10 DEF Cuts
<1>12. PICK run : /\ run[0] = Unmade /\ run[n] = Make(commands, group, vals)
                  /\ \A k \in 1..n : run[k] = MakeNext(run[k - 1], commands[k], group, vals)
  <2>1. \E run : Makes(run, n, commands, group, vals)
    BY <1>9, MakeRun
  <2> QED BY <2>1 DEF Makes
<1>13. PICK with : with = [where |-> FALSE, in |-> <<>>, batch |-> <<>>, pagination |-> <<>>,
                           criteria |-> Nothing, values |-> vals]
  OBVIOUS
<1>14. Fill(with, names, TRUE)
  BY <1>13, StatementFills
<1>15. ASSUME NEW k \in 1..n
       PROVE  \E e : /\ e = ExpandStatement(commands[k], group, Len(cat[k - 1]), vals)
                     /\ e.used = Len(cat[k]) /\ e.failed = FALSE /\ [sql |-> e.sql, args |-> e.args] \in Piece
  <2>1. PICK c \in Seq(T) : c = commands[k] /\ c \in Sql
    BY <1>9
  <2>2. PICK a \in Seq(Value), m \in Seq(Value) : a = cat[k - 1] /\ m = Marked(c)
    <3>1. k - 1 \in 0..n
      OBVIOUS
    <3> QED BY <1>11, <2>1, <3>1, MarkedType
  <2>3. PICK y \in Seq(Value) : group = (a \o m) \o y
    <3>1. k \in 0..n
      OBVIOUS
    <3>2. cat[k] = a \o m
      BY <1>11, <2>1, <2>2
    <3>3. k \in 0..Len(commands) /\ commands \in Seq(Sql)
      BY <1>9, <3>1
    <3>4. Begins(cat[k], group)
      BY <1>10, <3>3, CutsBegin
    <3> QED BY <3>2, <3>4 DEF Begins
  <2>4. PICK used \in 0..Len(group) : used = Len(a) /\ Supplies(group, used, c) /\ Len(a \o m) = used + Len(m)
    <3>1. Supplies(group, Len(a), c) /\ Len(a) \in 0..Len(group) /\ Len(a \o m) = Len(a) + Len(m)
      BY <2>2, <2>3, SuppliesThere
    <3> QED BY <3>1
  <2>5. PICK e : e = Expand(c, group, used, with)
    OBVIOUS
  <2>6. Expansion(e, c, group, used, with)
    BY <1>1, <1>14, <2>4, <2>5, ExpandedRight
  <2>7. e = ExpandStatement(commands[k], group, Len(cat[k - 1]), vals)
    BY <1>13, <2>1, <2>2, <2>4, <2>5 DEF ExpandStatement
  <2>8. e.used = Len(cat[k])
    BY <1>11, <2>1, <2>2, <2>4, <2>6 DEF Expansion
  <2>9. e.failed = FALSE /\ [sql |-> e.sql, args |-> e.args] \in Piece
    BY <2>6 DEF Expansion, Expanding, Piece
  <2> QED BY <2>7, <2>8, <2>9
<1> DEFINE good == {k \in 0..n : run[k].used = Len(cat[k]) /\ run[k].failed = FALSE /\ run[k].made \in Seq(Piece)}
<1>16. 0 \in good
  <2>1. <<>> \in Seq(Piece) /\ Len(<<>>) = 0 /\ 0 \in 0..n
    OBVIOUS
  <2>2. Unmade.used = 0 /\ Unmade.failed = FALSE /\ Unmade.made = <<>>
    BY DEF Unmade
  <2> QED BY <1>11, <1>12, <2>1, <2>2
<1>17. ASSUME NEW k \in 1..n, k - 1 \in good PROVE k \in good
  <2>1. PICK e : /\ e = ExpandStatement(commands[k], group, Len(cat[k - 1]), vals)
                 /\ e.used = Len(cat[k]) /\ e.failed = FALSE /\ [sql |-> e.sql, args |-> e.args] \in Piece
    BY <1>15
  <2>2. PICK made \in Seq(Piece), p \in Piece : made = run[k - 1].made /\ p = [sql |-> e.sql, args |-> e.args]
    BY <1>17, <2>1
  <2>3. run[k - 1].used = Len(cat[k - 1]) /\ run[k - 1].failed = FALSE
    BY <1>17
  <2>4. run[k] = [used |-> e.used, failed |-> FALSE, made |-> Append(made, p)]
    <3>1. run[k] = [used |-> e.used, failed |-> run[k - 1].failed \/ e.failed, made |-> Append(made, p)]
      BY <1>12, <2>1, <2>2, <2>3 DEF MakeNext, StatementUses
    <3>2. (run[k - 1].failed \/ e.failed) = FALSE
      BY <2>1, <2>3
    <3> QED BY <3>1, <3>2
  <2>5. run[k].used = Len(cat[k]) /\ run[k].failed = FALSE /\ run[k].made = Append(made, p)
    <3>1. run[k].used = e.used /\ run[k].failed = FALSE /\ run[k].made = Append(made, p)
      BY <2>4
    <3> QED BY <2>1, <3>1
  <2>6. Append(made, p) \in Seq(Piece)
    OBVIOUS
  <2>7. k \in 0..n
    OBVIOUS
  <2> QED BY <2>5, <2>6, <2>7
<1>18. n \in good
  <2> HIDE DEF good
  <2>1. \A k \in 0..n : k \in good
    BY <1>16, <1>17, Inductive
  <2> QED BY <2>1
<1>19. BuildStatements(view, vals) = run[n]
  BY <1>4, <1>6, <1>7, <1>8, <1>12 DEF BuildStatements
<1> QED BY <1>18, <1>19

-----------------------------------------------------------------------------
(* Queries.                                                                 *)

\* What parts of a statement have, it has.
LEMMA PartsHave ==
  ASSUME NEW T, NEW a \in Seq(T), NEW b \in Seq(T), NEW key
  PROVE  Has(a, key) \/ Has(b, key) => Has(a \o b, key)
<1>1. PICK m \in Nat, n \in Nat : m = Len(a) /\ n = Len(b) /\ DOMAIN a = 1..m /\ DOMAIN b = 1..n
  OBVIOUS
<1>2. /\ DOMAIN (a \o b) = 1..(m + n) /\ \A i \in 1..m : (a \o b)[i] = a[i]
      /\ \A i \in 1..n : (a \o b)[m + i] = b[i]
  BY <1>1, ConcatProperties
<1>3. ASSUME NEW i \in 1..m, a[i].key = key PROVE Has(a \o b, key)
  <2>1. i \in 1..(m + n)
    OBVIOUS
  <2> QED BY <1>2, <1>3, <2>1 DEF Has
<1>4. ASSUME NEW i \in 1..n, b[i].key = key PROVE Has(a \o b, key)
  <2>1. m + i \in 1..(m + n)
    OBVIOUS
  <2> QED BY <1>2, <1>4, <2>1 DEF Has
<1> QED BY <1>1, <1>3, <1>4 DEF Has

\* Builder.Build appends keywords without question marks, that of the selector in any case.
LEMMA TailIs ==
  ASSUME NEW names, NEW columnIn \in BOOLEAN, NEW T, T = Permitted(names, columnIn),
         NEW template, NEW where \in BOOLEAN, NEW pagination
  PROVE  /\ Tail_(template, where, pagination) \in Seq(T)
         /\ Marked(Tail_(template, where, pagination)) = <<>>
         /\ Has(Tail_(template, where, pagination), "SELECTOR_CRITERIA")
         /\ where /\ ~Has(template, "CRITERIA") => Has(Tail_(template, where, pagination), "CRITERIA")
<1>1. PICK c \in T, s \in T, w \in T, p \in T :
        /\ c = Keyword("WHERE_", "CRITERIA") /\ c.key = "CRITERIA"
        /\ s = Keyword("AND_", "SELECTOR_CRITERIA") /\ s.key = "SELECTOR_CRITERIA"
        /\ w = Keyword("WHERE_", "SELECTOR_CRITERIA") /\ w.key = "SELECTOR_CRITERIA"
        /\ p = Keyword("", "PAGINATION") /\ p.key = "PAGINATION"
  <2>1. /\ "" \in KeyPrefixes /\ "WHERE_" \in KeyPrefixes /\ "AND_" \in KeyPrefixes
        /\ "CRITERIA" \in Words /\ "SELECTOR_CRITERIA" \in Words /\ "PAGINATION" \in Words
    BY DEF KeyPrefixes, Words
  <2>2. /\ Keyword("WHERE_", "CRITERIA") \in T /\ Keyword("AND_", "SELECTOR_CRITERIA") \in T
        /\ Keyword("WHERE_", "SELECTOR_CRITERIA") \in T /\ Keyword("", "PAGINATION") \in T
    BY <2>1, PermittedWrites
  <2>3. /\ Keyword("WHERE_", "CRITERIA").key = "CRITERIA"
        /\ Keyword("AND_", "SELECTOR_CRITERIA").key = "SELECTOR_CRITERIA"
        /\ Keyword("WHERE_", "SELECTOR_CRITERIA").key = "SELECTOR_CRITERIA"
        /\ Keyword("", "PAGINATION").key = "PAGINATION"
    BY DEF Keyword, Token
  <2> QED BY <2>2, <2>3
<1>2. PICK first \in Seq(T) :
        /\ first = (IF ~Has(template, "CRITERIA") /\ where THEN <<c, s>> ELSE <<w>>)
        /\ Has(first, "SELECTOR_CRITERIA")
        /\ where /\ ~Has(template, "CRITERIA") => Has(first, "CRITERIA")
        /\ \A i \in DOMAIN first : first[i].key # "?"
  <2>1. PICK two \in Seq(T) : two = <<c, s>> /\ DOMAIN two = {1, 2} /\ two[1] = c /\ two[2] = s
    <3>1. <<c, s>> \in Seq(T) /\ DOMAIN <<c, s>> = {1, 2} /\ <<c, s>>[1] = c /\ <<c, s>>[2] = s
      OBVIOUS
    <3> QED BY <3>1
  <2>2. PICK one \in Seq(T) : one = <<w>> /\ DOMAIN one = {1} /\ one[1] = w
    <3>1. <<w>> \in Seq(T) /\ DOMAIN <<w>> = {1} /\ <<w>>[1] = w
      OBVIOUS
    <3> QED BY <3>1
  <2>3. Has(two, "CRITERIA") /\ Has(two, "SELECTOR_CRITERIA") /\ \A i \in DOMAIN two : two[i].key # "?"
    BY <1>1, <2>1 DEF Has
  <2>4. Has(one, "SELECTOR_CRITERIA") /\ \A i \in DOMAIN one : one[i].key # "?"
    BY <1>1, <2>2 DEF Has
  <2> QED BY <2>1, <2>2, <2>3, <2>4
<1>3. PICK last \in Seq(T) :
        /\ last = (IF ~Has(template, "PAGINATION") /\ pagination # <<>> THEN <<p>> ELSE <<>>)
        /\ \A i \in DOMAIN last : last[i].key # "?"
  <2>1. PICK one \in Seq(T) : one = <<p>> /\ DOMAIN one = {1} /\ one[1] = p
    <3>1. <<p>> \in Seq(T) /\ DOMAIN <<p>> = {1} /\ <<p>>[1] = p
      OBVIOUS
    <3> QED BY <3>1
  <2>2. PICK none \in Seq(T) : none = <<>> /\ DOMAIN none = {}
    <3>1. <<>> \in Seq(T) /\ DOMAIN <<>> = {}
      OBVIOUS
    <3> QED BY <3>1
  <2>3. /\ \A i \in DOMAIN one : one[i].key # "?"
        /\ \A i \in DOMAIN none : none[i].key # "?"
    BY <1>1, <2>1, <2>2
  <2> QED BY <2>1, <2>2, <2>3
<1>4. Tail_(template, where, pagination) = first \o last
  BY <1>1, <1>2, <1>3 DEF Tail_
<1>5. T \in SUBSET Tokens /\ first \in Sql /\ last \in Sql
  BY DEF Permitted, Sql
<1>6. Marked(first) = <<>> /\ Marked(last) = <<>> /\ <<>> \in Seq(Value) /\ <<>> \o <<>> = <<>>
  <2>1. Marked(first) = <<>>
    BY <1>2, <1>5, MarkedNot
  <2>2. Marked(last) = <<>>
    BY <1>3, <1>5, MarkedNot
  <2> QED BY <2>1, <2>2, ConcatEmptySeq
<1>7. PICK all \in Seq(T) : Joined(T, first, last, all)
  BY <1>5, SequencesJoin
<1>8. /\ Has(first, "SELECTOR_CRITERIA") => Has(first \o last, "SELECTOR_CRITERIA")
      /\ Has(first, "CRITERIA") => Has(first \o last, "CRITERIA")
  BY PartsHave
<1>9. all = first \o last /\ Marked(all) = <<>>
  BY <1>6, <1>7 DEF Joined
<1>10. Has(all, "SELECTOR_CRITERIA") /\ (where /\ ~Has(template, "CRITERIA") => Has(all, "CRITERIA"))
  BY <1>2, <1>8, <1>9
<1> QED BY <1>4, <1>9, <1>10

\* Builder.updateColumnsIn, updatePagination: the keys of the batch, at their question marks.
LEMMA PartsMarked ==
  ASSUME NEW batch \in Seq(Value), NEW exclude, NEW view, NEW chosen
  PROVE  /\ ColumnsIn(batch, exclude) \in Sql
         /\ "columnsIn" \in exclude => ColumnsIn(batch, exclude) = <<>>
         /\ "columnsIn" \notin exclude => Marked(ColumnsIn(batch, exclude)) = batch
         /\ ColumnsIn(batch, exclude) = <<>> /\ "columnsIn" \notin exclude => batch = <<>>
         /\ PaginationOf(view, chosen, exclude) \in Sql
         /\ Marked(PaginationOf(view, chosen, exclude)) = <<>>
<1>1. <<>> \in Sql /\ Marked(<<>>) = <<>>
  BY MarkedFew
<1>2. PICK marks \in Sql, text \in Sql : /\ marks = Marks(batch) /\ text = <<Text>> /\ Len(text) = 1
                                         /\ Marked(marks) = batch /\ Marked(text) = <<>>
  <2>1. Marks(batch) \in Sql /\ Marked(Marks(batch)) = batch
    BY MarkedMarks
  <2>2. Text \in Tokens /\ Text.key # "?"
    BY TokenTypes
  <2>3. <<Text>> \in Sql /\ Marked(<<Text>>) = <<>> /\ Len(<<Text>>) = 1
    BY <2>2, MarkedFew
  <2> QED BY <2>1, <2>3
<1>3. text \o marks \in Sql /\ Marked(text \o marks) = batch /\ text \o marks # <<>>
  <2>1. text \o marks \in Sql /\ Marked(text \o marks) = <<>> \o batch
    BY <1>2, MarkedConcat
  <2>2. <<>> \o batch = batch
    BY ConcatEmptySeq
  <2>3. Len(text \o marks) = 1 + Len(marks) /\ Len(marks) \in Nat
    BY <1>2, ConcatProperties DEF Sql
  <2>4. text \o marks # <<>>
    BY <2>3
  <2> QED BY <2>1, <2>2, <2>4
<1>4. "columnsIn" \in exclude => ColumnsIn(batch, exclude) = <<>>
  BY DEF ColumnsIn
<1>5. "columnsIn" \notin exclude =>
        /\ ColumnsIn(batch, exclude) \in Sql /\ Marked(ColumnsIn(batch, exclude)) = batch
        /\ ColumnsIn(batch, exclude) = <<>> => batch = <<>>
  BY <1>1, <1>2, <1>3 DEF ColumnsIn
<1>6. PICK limit \in Sql : limit = <<Token("limit")>> /\ Marked(limit) = <<>>
  <2>1. Token("limit") \in Tokens /\ Token("limit").key # "?"
    BY TokenTypes
  <2> QED BY <2>1, MarkedFew
<1>7. PaginationOf(view, chosen, exclude) \in {limit, <<>>}
  BY <1>6 DEF PaginationOf
<1> QED BY <1>1, <1>4, <1>5, <1>6, <1>7

\* A query that asks for what the selector says and, unless it is looked up by, the rows of some
\* parents, with its arguments at its question marks.
Builds(q, criteria, batch, kind) ==
  /\ q.failed = FALSE /\ q.sql \in Sql /\ q.args \in Seq(Value) /\ q.args = Marked(q.sql)
  /\ Within(criteria.args, q.args)
  /\ kind # "cache" => Within(batch, q.args)

\* Whom a query is for.
Parents(for) == for.parents \in Seq(Value) /\ for.batch \in Seq(Value)

\* Nothing is anywhere.
LEMMA NothingWithin ==
  ASSUME NEW args \in Seq(Value)
  PROVE  Within(<<>>, args)
<1>1. PICK e \in Seq(Value) : e = <<>> /\ (e \o e) \o args = args
  <2>1. <<>> \in Seq(Value) /\ <<>> \o <<>> = <<>> /\ <<>> \o args = args
    BY ConcatEmptySeq
  <2> QED BY <2>1
<1> QED BY <1>1 DEF Within

\* Builder.Build: the query of a view, for whatever parents and selector.
LEMMA QueryBuilt ==
  ASSUME NEW view, NEW names, WrittenView(view, names), NEW chosen, chosen.criteria \in Piece,
         NEW vals \in [names -> Seq(Value)], NEW for, Parents(for), NEW kind \in {"full", "cache", "meta"},
         kind = "cache" => ~Has(view.template, "COLUMN_IN")
  PROVE  /\ Builds(BuildQuery(view, chosen, vals, for, kind), chosen.criteria, for.batch, kind)
         /\ kind = "cache" => \A other : Parents(other) =>
              BuildQuery(view, chosen, vals, for, kind) = BuildQuery(view, chosen, vals, other, kind)
<1>1. PICK columnIn, T : columnIn = Has(view.template, "COLUMN_IN") /\ T = Permitted(names, columnIn)
  OBVIOUS
<1>0. columnIn \in BOOLEAN
  BY <1>1 DEF Has
<1>2. Writes(T) /\ T \in SUBSET Tokens
  BY <1>0, <1>1, PermittedWrites DEF Writes
<1>3. PICK env : env = [parents |-> for.parents, mock |-> kind = "cache", consts |-> view.consts, view |-> Nothing]
  OBVIOUS
<1>4. Sees(env, T)
  BY <1>2, <1>3, OverAre DEF Sees, Parents
<1>5. PICK source \in Over(T) : source = EvaluateSource(view, vals, env)
  BY <1>1, <1>4, SourceEvaluated
<1>6. PICK template \in Seq(T) :
        /\ template = (IF view.actual /\ view.discover THEN Discovered(source.sql) ELSE source.sql)
        /\ Marked(template) = source.args
  <2>1. PICK sql \in Seq(T) : sql = source.sql /\ Marked(sql) = source.args
    BY DEF Over
  <2>2. Discovered(sql) \in Seq(T) /\ Marked(Discovered(sql)) = Marked(sql)
    BY <1>0, <1>1, DiscoveredKeeps
  <2> QED BY <2>1, <2>2
<1>7. PICK exclude : exclude = ExcludeOf(kind, for.batch) /\ ("columnsIn" \in exclude <=> kind = "cache")
  <2>1. CASE kind = "cache"
    BY <2>1 DEF ExcludeOf
  <2>2. CASE kind = "full"
    <3>1. ExcludeOf(kind, for.batch) \in {{"pagination"}, {}}
      BY <2>2 DEF ExcludeOf
    <3>2. "columnsIn" \notin ExcludeOf(kind, for.batch)
      BY <3>1
    <3> QED BY <2>2, <3>2
  <2>3. CASE kind = "meta"
    <3>1. ExcludeOf(kind, for.batch) = {"pagination"}
      BY <2>3 DEF ExcludeOf
    <3>2. "columnsIn" \notin ExcludeOf(kind, for.batch)
      BY <3>1
    <3> QED BY <2>3, <3>2
  <2> QED BY <2>1, <2>2, <2>3
<1>8. PICK in \in Sql : /\ in = ColumnsIn(for.batch, exclude)
                        /\ kind = "cache" => in = <<>>
                        /\ kind # "cache" => Marked(in) = for.batch
                        /\ in = <<>> /\ kind # "cache" => for.batch = <<>>
  <2>1. for.batch \in Seq(Value)
    BY DEF Parents
  <2> QED BY <1>7, <2>1, PartsMarked
<1>9. PICK where \in BOOLEAN : where = (~Has(template, "COLUMN_IN") /\ in # <<>>)
  OBVIOUS
<1>10. PICK pagination \in Sql : pagination = PaginationOf(view, chosen, exclude) /\ Marked(pagination) = <<>>
  <2>1. for.batch \in Seq(Value)
    BY DEF Parents
  <2> QED BY <2>1, PartsMarked
<1>11. PICK tail \in Seq(T) : /\ tail = Tail_(template, where, pagination) /\ Marked(tail) = <<>>
                              /\ Has(tail, "SELECTOR_CRITERIA")
                              /\ where /\ ~Has(template, "CRITERIA") => Has(tail, "CRITERIA")
  BY <1>0, <1>1, TailIs
<1>12. PICK whole \in Seq(T) : /\ whole = <<Text>> \o template \o tail /\ Marked(whole) = source.args
                               /\ \A key : Has(template, key) \/ Has(tail, key) => Has(whole, key)
  <2>1. PICK text \in Seq(T) : text = <<Text>> /\ Marked(text) = <<>>
    <3>1. Text \in T /\ Text \in Tokens /\ Text.key # "?"
      BY <1>2, TokenTypes DEF Writes
    <3>2. Marked(<<Text>>) = <<>>
      BY <3>1, MarkedFew
    <3>3. <<Text>> \in Seq(T)
      BY <3>1
    <3> QED BY <3>2, <3>3
  <2>2. PICK a \in Seq(T) : Joined(T, text, template, a) /\ Marked(template) \in Seq(Value)
    BY <1>2, SequencesJoin
  <2>3. PICK b \in Seq(T) : Joined(T, a, tail, b)
    BY <1>2, SequencesJoin
  <2>4. Marked(b) = source.args
    <3>1. <<>> \o Marked(template) = Marked(template) /\ Marked(template) \o <<>> = Marked(template)
      BY <2>2, ConcatEmptySeq
    <3> QED BY <1>6, <1>11, <2>1, <2>2, <2>3, <3>1 DEF Joined
  <2>5. ASSUME NEW key, Has(template, key) \/ Has(tail, key) PROVE Has(b, key)
    <3>1. Has(template, key) => Has(text \o template, key)
      BY PartsHave
    <3>2. Has(a, key) \/ Has(tail, key) => Has(a \o tail, key)
      BY PartsHave
    <3> QED BY <2>2, <2>3, <2>5, <3>1, <3>2 DEF Joined
  <2> QED BY <2>1, <2>2, <2>3, <2>4, <2>5 DEF Joined
<1>13. PICK with : with = [where |-> where, in |-> in, batch |-> for.batch, pagination |-> pagination,
                           criteria |-> chosen.criteria, values |-> vals]
  OBVIOUS
<1>14. /\ with.where = where /\ with.in = in /\ with.batch = for.batch /\ with.pagination = pagination
       /\ with.criteria = chosen.criteria /\ with.values = vals
  BY <1>13
<1>15. Fill(with, names, columnIn)
  <2>1. chosen.criteria.sql \in Sql /\ chosen.criteria.args \in Seq(Value)
        /\ chosen.criteria.args = Marked(chosen.criteria.sql)
    BY DEF Piece
  <2>2. where \/ columnIn => Marked(in) = for.batch
    BY <1>1, <1>8, <1>9
  <2> QED BY <1>10, <1>14, <2>1, <2>2 DEF Fill, Parents
<1>16. PICK group \in Seq(Value) : group = source.args /\ Supplies(group, 0, whole) /\ 0 \in 0..Len(group)
  <2>1. PICK g \in Seq(Value), n \in Nat : g = source.args /\ n = Len(g)
    BY DEF Over
  <2>2. \A j \in 1..n : 0 + j <= n /\ 0 + j = j
    OBVIOUS
  <2>3. 0 \in 0..n
    OBVIOUS
  <2>4. Supplies(g, 0, whole)
    BY <1>12, <2>1, <2>2 DEF Supplies
  <2> QED BY <2>1, <2>3, <2>4
<1>17. PICK e : e = Expand(whole, group, 0, with)
  OBVIOUS
<1>18. Expansion(e, whole, group, 0, with)
  BY <1>0, <1>1, <1>15, <1>16, <1>17, ExpandedRight
<1>19. PICK q : /\ q = BuildQuery(view, chosen, vals, for, kind)
                /\ q.sql = e.sql /\ q.args = e.args /\ q.failed = e.failed
  <2>0. PICK c : c = SelectList(view, IF kind = "meta" THEN [chosen EXCEPT !.columns = <<>>] ELSE chosen)
    OBVIOUS
  <2>1. BuildQuery(view, chosen, vals, for, kind)
          = [sql |-> e.sql, args |-> e.args, failed |-> e.failed, columns |-> c]
    <3>1. /\ source = EvaluateSource(view, vals, env)
          /\ template = (IF view.actual /\ view.discover THEN Discovered(source.sql) ELSE source.sql)
          /\ exclude = ExcludeOf(kind, for.batch) /\ in = ColumnsIn(for.batch, exclude)
          /\ where = (~Has(template, "COLUMN_IN") /\ in # <<>>)
          /\ pagination = PaginationOf(view, chosen, exclude)
          /\ tail = Tail_(template, where, pagination) /\ whole = <<Text>> \o template \o tail
          /\ e = Expand(whole, source.args, 0, with)
      BY <1>5, <1>6, <1>7, <1>8, <1>9, <1>10, <1>11, <1>12, <1>16, <1>17, Zenon
    <3> QED BY <1>3, <1>13, <2>0, <3>1, ZenonT(60) DEF BuildQuery
  <2>2. PICK q : q = [sql |-> e.sql, args |-> e.args, failed |-> e.failed, columns |-> c]
    OBVIOUS
  <2>3. q.sql = e.sql /\ q.args = e.args /\ q.failed = e.failed
    BY <2>2
  <2> QED BY <2>1, <2>2, <2>3
<1>20. /\ q.failed = FALSE /\ q.sql \in Sql /\ q.args \in Seq(Value) /\ q.args = Marked(q.sql)
       /\ \A i \in DOMAIN whole : whole[i].key # "?" => Within(Brought(whole[i], with), q.args)
  BY <1>18, <1>19 DEF Expansion, Expanding
<1>21. Within(chosen.criteria.args, q.args)
  <2>1. PICK i \in DOMAIN whole : whole[i].key = "SELECTOR_CRITERIA"
    BY <1>11, <1>12 DEF Has
  <2>2. Brought(whole[i], with) = chosen.criteria.args
    BY <1>14, <2>1 DEF Brought
  <2> QED BY <1>20, <2>1, <2>2
<1>22. kind # "cache" => Within(for.batch, q.args)
  <2> SUFFICES ASSUME kind # "cache" PROVE Within(for.batch, q.args)
    OBVIOUS
  <2>1. CASE in = <<>>
    BY <1>8, <1>20, <2>1, NothingWithin
  <2>2. CASE in # <<>> /\ Has(template, "COLUMN_IN")
    <3>1. PICK i \in DOMAIN whole : whole[i].key = "COLUMN_IN"
      BY <1>12, <2>2 DEF Has
    <3>2. Brought(whole[i], with) = for.batch
      BY <1>14, <3>1 DEF Brought
    <3> QED BY <1>20, <3>1, <3>2
  <2>3. CASE where
    <3>1. Has(whole, "CRITERIA")
      BY <1>11, <1>12, <2>3
    <3>2. PICK i \in DOMAIN whole : whole[i].key = "CRITERIA"
      BY <3>1 DEF Has
    <3>3. Brought(whole[i], with) = for.batch
      BY <1>14, <2>3, <3>2 DEF Brought
    <3> QED BY <1>20, <3>2, <3>3
  <2> QED BY <1>9, <2>1, <2>2, <2>3
<1>23. Builds(q, chosen.criteria, for.batch, kind)
  BY <1>20, <1>21, <1>22 DEF Builds
<1>24. ASSUME kind = "cache", NEW other, Parents(other)
       PROVE  BuildQuery(view, chosen, vals, for, kind) = BuildQuery(view, chosen, vals, other, kind)
  <2>1. PICK env2 :
          env2 = [parents |-> other.parents, mock |-> kind = "cache", consts |-> view.consts, view |-> Nothing]
    OBVIOUS
  <2>2. Alike(env, env2)
    <3>1. env.mock = TRUE /\ env2.mock = TRUE /\ env2.consts = env.consts /\ env2.view = env.view
      BY <1>3, <1>24, <2>1
    <3> QED BY <3>1, MockedAlike
  <2>3. EvaluateSource(view, vals, env2) = source
    BY <1>1, <1>4, <1>5, <2>2, SourceEvaluated
  <2>4. ExcludeOf(kind, other.batch) = exclude
    BY <1>7, <1>24 DEF ExcludeOf
  <2>5. ColumnsIn(other.batch, exclude) = in
    BY <1>7, <1>8, <1>24 DEF ColumnsIn
  <2>6. PICK with2 : with2 = [where |-> where, in |-> in, batch |-> other.batch, pagination |-> pagination,
                              criteria |-> chosen.criteria, values |-> vals]
    OBVIOUS
  <2>7. Replaces(with, with2, T)
    <3>1. /\ with2.where = where /\ with2.in = in /\ with2.pagination = pagination
          /\ with2.criteria = chosen.criteria /\ with2.values = vals
      BY <2>6
    <3>2. where = FALSE
      BY <1>8, <1>9, <1>24
    <3>3. \A t \in T : t.key # "COLUMN_IN"
      BY <1>1, <1>24 DEF Permitted
    <3> QED BY <1>14, <3>1, <3>2, <3>3 DEF Replaces, ExpandToken, ReplaceParam
  <2>8. Expand(whole, group, 0, with2) = e
    BY <1>0, <1>1, <1>15, <1>16, <1>17, <2>7, ExpandedRight
  <2>9. PICK c : c = SelectList(view, IF kind = "meta" THEN [chosen EXCEPT !.columns = <<>>] ELSE chosen)
    OBVIOUS
  <2>10. BuildQuery(view, chosen, vals, other, kind)
           = [sql |-> e.sql, args |-> e.args, failed |-> e.failed, columns |-> c]
    <3>1. /\ source = EvaluateSource(view, vals, env2)
          /\ template = (IF view.actual /\ view.discover THEN Discovered(source.sql) ELSE source.sql)
          /\ exclude = ExcludeOf(kind, other.batch) /\ in = ColumnsIn(other.batch, exclude)
          /\ where = (~Has(template, "COLUMN_IN") /\ in # <<>>)
          /\ pagination = PaginationOf(view, chosen, exclude)
          /\ tail = Tail_(template, where, pagination) /\ whole = <<Text>> \o template \o tail
          /\ e = Expand(whole, source.args, 0, with2)
      BY <1>6, <1>9, <1>10, <1>11, <1>12, <1>16, <2>3, <2>4, <2>5, <2>8, Zenon
    <3> QED BY <2>1, <2>6, <2>9, <3>1, ZenonT(60) DEF BuildQuery
  <2>11. BuildQuery(view, chosen, vals, for, kind)
           = [sql |-> e.sql, args |-> e.args, failed |-> e.failed, columns |-> c]
    <3>1. /\ source = EvaluateSource(view, vals, env)
          /\ template = (IF view.actual /\ view.discover THEN Discovered(source.sql) ELSE source.sql)
          /\ exclude = ExcludeOf(kind, for.batch) /\ in = ColumnsIn(for.batch, exclude)
          /\ where = (~Has(template, "COLUMN_IN") /\ in # <<>>)
          /\ pagination = PaginationOf(view, chosen, exclude)
          /\ tail = Tail_(template, where, pagination) /\ whole = <<Text>> \o template \o tail
          /\ e = Expand(whole, source.args, 0, with)
      BY <1>5, <1>6, <1>7, <1>8, <1>9, <1>10, <1>11, <1>12, <1>16, <1>17, Zenon
    <3> QED BY <1>3, <1>13, <2>9, <3>1, ZenonT(60) DEF BuildQuery
  <2> QED BY <2>10, <2>11
<1> QED BY <1>19, <1>23, <1>24

\* reader.metaSQL: what is asked about a query has its arguments, or those of the template
\* around it, which are never fewer.
LEMMA MetaBuilt ==
  ASSUME NEW view, NEW names, WrittenView(view, names), view.meta # <<>>,
         NEW vals \in [names -> Seq(Value)], NEW for, Parents(for),
         NEW inner, inner \in [sql : Sql, args : Seq(Value), failed : {FALSE}, columns : {inner.columns}],
         inner.args = Marked(inner.sql)
  PROVE  LET q == MetaOf(view, vals, for, inner) IN q.failed = FALSE /\ q.args = Marked(q.sql)
<1>1. Writes(Tokens)
  BY TokenTypes DEF Writes
<1>2. Places(Tokens, view.meta)
  <2>1. ASSUME NEW item, Plainly(item) PROVE Keyword(item.prefix, item.key) \in Tokens
    BY <2>1, TokenTypes DEF Plainly
  <2>2. Has_(Tokens, view.meta)
    BY <2>1 DEF WrittenView, WrittenWith, Has_
  <2>3. ASSUME NEW i \in DOMAIN view.meta, view.meta[i].key = "each" PROVE Has_(Tokens, view.meta[i].body)
    BY <2>1, <2>3 DEF WrittenView, WrittenWith, Has_
  <2> QED BY <2>2, <2>3 DEF Places
<1>3. PICK around : around = [sql |-> inner.sql, args |-> inner.args]
  OBVIOUS
<1>4. around \in Over(Tokens) /\ around.args = inner.args
  BY <1>3 DEF Over, Sql
<1>5. PICK env : env = [parents |-> for.parents, mock |-> FALSE, consts |-> view.consts, view |-> around]
  OBVIOUS
<1>6. Sees(env, Tokens) /\ env.view = around
  BY <1>4, <1>5 DEF Sees, Parents
<1>7. PICK outer \in Over(Tokens) : /\ outer = Evaluate(view.meta, vals, env)
                                   /\ Len(outer.args) >= Len(inner.args)
  <2>1. WrittenWith(view.meta, names) /\ Has(view.meta, "view")
    BY DEF WrittenView
  <2> QED BY <1>1, <1>2, <1>4, <1>6, <2>1, TemplateEvaluated
<1>8. outer.args = Marked(outer.sql) /\ outer.args \in Seq(Value)
  BY DEF Over
<1>9. outer.args = <<>> => inner.args = <<>>
  <2>1. PICK a \in Seq(Value), b \in Seq(Value) : a = outer.args /\ b = inner.args /\ Len(a) >= Len(b)
    BY <1>7, <1>8
  <2>2. a = <<>> => b = <<>>
    BY <2>1
  <2> QED BY <2>1, <2>2
<1>10. PICK args : args = (IF outer.args = <<>> THEN inner.args ELSE outer.args) /\ args = outer.args
  BY <1>9
<1>11. MetaOf(view, vals, for, inner) = [inner EXCEPT !.sql = outer.sql, !.args = args]
  BY <1>3, <1>5, <1>7, <1>10 DEF MetaOf
<1>12. PICK q : q = [inner EXCEPT !.sql = outer.sql, !.args = args]
  OBVIOUS
<1>13. q.sql = outer.sql /\ q.args = args /\ q.failed = inner.failed
  BY <1>12
<1> QED BY <1>8, <1>10, <1>11, <1>12, <1>13

\* The queries of a view have their arguments, are for their parents, and the one a cache is
\* looked up by is for none.
Right(view, chosen, vals, q) ==
  /\ \A made \in {q.full, q.meta} \cup IF Has(view.template, "COLUMN_IN") THEN {} ELSE {q.cache} :
       ~made.failed /\ made.args = Marked(made.sql)
  /\ \E i \in 1..(Len(q.full.args) + 1) : SubSeq(q.full.args, i, i + Len(q.for.batch) - 1) = q.for.batch
  /\ ToSet(chosen.criteria.args) \subseteq ToSet(q.full.args)
  /\ ~view.actual => ToSet(view.relation) \subseteq q.full.columns
  /\ ~Has(view.template, "COLUMN_IN")
       => q.cache = BuildQuery(view, chosen, vals, [parents |-> <<>>, batch |-> <<>>], "cache")

\* viewHandler: the queries of a view, each with its arguments, for these parents.
LEMMA QueriesAre ==
  ASSUME NEW view, NEW names, WrittenView(view, names), NEW chosen, chosen.criteria \in Piece,
         NEW vals \in [names -> Seq(Value)], NEW for, Parents(for)
  PROVE  Right(view, chosen, vals, QueriesFor(view, chosen, vals, for))
<1>1. PICK full, cache, meta : /\ full = BuildQuery(view, chosen, vals, for, "full")
                               /\ cache = BuildQuery(view, chosen, vals, for, "cache")
                               /\ meta = BuildQuery(view, chosen, vals, for, "meta")
  OBVIOUS
<1>2. Builds(full, chosen.criteria, for.batch, "full")
  BY <1>1, QueryBuilt
<1>3. Builds(meta, chosen.criteria, for.batch, "meta")
  BY <1>1, QueryBuilt
<1>4. PICK none : none = [parents |-> <<>>, batch |-> <<>>] /\ Parents(none)
  <2>1. PICK none : none = [parents |-> <<>>, batch |-> <<>>]
    OBVIOUS
  <2>2. none.parents = <<>> /\ none.batch = <<>> /\ <<>> \in Seq(Value)
    BY <2>1
  <2>3. Parents(none)
    BY <2>2 DEF Parents
  <2> QED BY <2>1, <2>3
<1>5. ~Has(view.template, "COLUMN_IN") =>
        /\ Builds(cache, chosen.criteria, for.batch, "cache")
        /\ cache = BuildQuery(view, chosen, vals, none, "cache")
  BY <1>1, <1>4, QueryBuilt
<1>6. PICK asked : /\ asked = (IF view.meta = <<>> THEN meta ELSE MetaOf(view, vals, for, meta))
                   /\ asked.failed = FALSE /\ asked.args = Marked(asked.sql)
  <2>1. CASE view.meta = <<>>
    BY <1>3, <2>1 DEF Builds
  <2>2. CASE view.meta # <<>>
    <3>1. meta.failed = FALSE /\ meta.sql \in Sql /\ meta.args \in Seq(Value) /\ meta.args = Marked(meta.sql)
      BY <1>3 DEF Builds
    <3>2. meta \in [sql : Sql, args : Seq(Value), failed : {FALSE}, columns : {meta.columns}]
      BY <1>1, <3>1 DEF BuildQuery
    <3> QED BY <2>2, <3>1, <3>2, MetaBuilt
  <2> QED BY <2>1, <2>2
<1>7. PICK q : /\ q = QueriesFor(view, chosen, vals, for)
               /\ q.full = full /\ q.cache = cache /\ q.for = for /\ q.meta = asked
  <2>1. QueriesFor(view, chosen, vals, for) = [full |-> full, cache |-> cache, for |-> for, meta |-> asked]
    BY <1>1, <1>6 DEF QueriesFor
  <2> QED BY <2>1
<1>8. \A made \in {full, asked} \cup IF Has(view.template, "COLUMN_IN") THEN {} ELSE {cache} :
        ~made.failed /\ made.args = Marked(made.sql)
  BY <1>2, <1>5, <1>6 DEF Builds
<1>9. /\ \E i \in 1..(Len(full.args) + 1) : SubSeq(full.args, i, i + Len(for.batch) - 1) = for.batch
      /\ ToSet(chosen.criteria.args) \subseteq ToSet(full.args)
  <2>1. PICK args \in Seq(Value), b \in Seq(Value), c \in Seq(Value) :
          /\ args = full.args /\ b = for.batch /\ c = chosen.criteria.args
          /\ Within(b, args) /\ Within(c, args)
    BY <1>2 DEF Builds, Parents, Piece
  <2>2. \E i \in 1..(Len(args) + 1) : SubSeq(args, i, i + Len(b) - 1) = b
    BY <2>1, WithinIs
  <2>3. ToSet(c) \subseteq ToSet(args)
    BY <2>1, WithinIs
  <2> QED BY <2>1, <2>2, <2>3
<1>10. ~view.actual => ToSet(view.relation) \subseteq full.columns
  <2>1. full.columns = SelectList(view, chosen)
    BY <1>1 DEF BuildQuery
  <2> QED BY <2>1 DEF SelectList
<1> QED BY <1>4, <1>5, <1>7, <1>8, <1>9, <1>10 DEF Right
=============================================================================
