------------------------------ MODULE MCWarmup ------------------------------
(***************************************************************************)
(* Four views: v1 has a case of two parameters with two values each and a  *)
(* case that fails, v2 no case and a meta query, v3 a case of one value    *)
(* and an empty one, v4 a query that may not build and a connection that   *)
(* may not be opened. v2 and v3 have connectors of one configuration. What *)
(* may fail need not: warm-ups end with an error and without.              *)
(***************************************************************************)
EXTENDS Warmup

CONSTANTS v1, v2, v3, v4, k1, k2, k3, k4, c1, c2, c3, d1, d2

MCView == {v1, v2, v3, v4}
MCCase == {k1, k2, k3, k4}
MCCasesOf ==
  [v \in MCView |-> IF v = v1 THEN {k1, k2} ELSE IF v = v3 THEN {k3, k4} ELSE {}]
MCSizes ==
  [k \in MCCase |->
    IF k = k1 THEN <<2, 2>> ELSE IF k = k2 THEN <<1, 0>> ELSE IF k = k3 THEN <<1>> ELSE <<>>]
MCBadCase == {}
MCMeta == {v2}
MCMayFailSQL == {v4}
MCMayFailIndex == {v2}
MCConnector == {c1, c2, c3}
MCKey == {d1, d2}
MCKeyOf == [c \in MCConnector |-> IF c = c3 THEN d2 ELSE d1]
MCConnectorOf ==
  [e \in AllEntries |-> IF e.input.view = v3 THEN c1 ELSE IF e.input.view = v2 THEN c2 ELSE c3]
MCMayFailSecret == {c3}
MCBadDsn == {d2}
MCMayBeSilent == {d1}
=============================================================================
