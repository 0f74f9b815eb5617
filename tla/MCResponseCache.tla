-------------------------- MODULE MCResponseCache --------------------------
(***************************************************************************)
(* Three requests: q1 and q2 with the same selectors, q3 with selectors    *)
(* of the same hash. The clock moves while they run.                       *)
(***************************************************************************)
EXTENDS ResponseCache

CONSTANTS q1, q2, q3, s1, s2, url

MCRequest == {q1, q2, q3}
MCSelectors == {s1, s2}
MCSelectorsOf == [q \in MCRequest |-> IF q = q3 THEN s2 ELSE s1]
MCHash == [s \in MCSelectors |-> url]
MCMayRefuse == {q3}
MCMayFail == {q2}
MCThrottled == {q1}
=============================================================================
