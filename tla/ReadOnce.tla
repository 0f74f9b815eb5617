------------------------------ MODULE ReadOnce ------------------------------
(***************************************************************************)
(* What reader.Service.Read promises its caller, whatever the goroutines,  *)
(* batches and match strategies: it returns once, with an error only if    *)
(* something failed, and otherwise with the join of the views.             *)
(***************************************************************************)
EXTENDS Integers, Sequences

CONSTANTS View, Root, Parent, Selected, Many, MayFail, Row, Table, ParentKey,
          ChildKey, NoResult

VARIABLES outcome, result

\* The relations the caller gets: kept by the selectors, ancestors included, so
\* the least set with the root and every kept relation of its members.
Asked ==
  {v \in View : \A S \in SUBSET View :
     (Root \in S /\ \A w \in Selected \ {Root} : Parent[w] \in S => w \in S) => v \in S}

Matches(v, key) == {r \in Table[v] : ChildKey[r] = key}

\* The sequence has every member of the set, once, and nothing else.
Lists(s, S) ==
  /\ \A i \in DOMAIN s : s[i] \in S
  /\ \A x \in S : \E i \in DOMAIN s : s[i] = x
  /\ \A i, j \in DOMAIN s : s[i] = s[j] => i = j

\* rows[v] are the rows read for v, held[v][i] how often the i-th row of the
\* parent of v holds each row of v (a row nothing was put into has no entry).
IsJoin(rows, held) ==
  /\ Lists(rows[Root], Table[Root])
  /\ \A v \in Asked \ {Root} : \A i \in DOMAIN rows[Parent[v]] :
       LET match == Matches(v, ParentKey[v][rows[Parent[v]][i]])
       IN IF match = {}
          THEN i \in DOMAIN held[v] => \A r \in Row : held[v][i][r] = 0
          ELSE /\ i \in DOMAIN held[v]
               /\ IF v \in Many
                  THEN held[v][i] = [r \in Row |-> IF r \in match THEN 1 ELSE 0]
                  ELSE \E m \in match :
                         held[v][i] = [r \in Row |-> IF r = m THEN 1 ELSE 0]

Init == outcome = "running" /\ result = NoResult

Succeed == /\ outcome = "running" /\ outcome' = "ok"
           /\ IsJoin(result'.rows, result'.held)

Fail == /\ outcome = "running" /\ outcome' = "error"
        /\ MayFail # {} /\ result' = NoResult

Next == Succeed \/ Fail

\* A caller gets its answer.
Answered == <>(outcome # "running")

\* It gets one answer, and a true one.
OneAnswer == Init /\ [][Next]_<<outcome, result>>

Spec == OneAnswer /\ Answered
=============================================================================
