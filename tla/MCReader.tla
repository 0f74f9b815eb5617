------------------------------ MODULE MCReader ------------------------------
(***************************************************************************)
(* A request for three relations: r has relations a (Many) and b (One), a  *)
(* has relation c (Many). Two rows of r share the key of b, one row of a   *)
(* matches nothing, and a batch holds one placeholder for b and c.         *)
(***************************************************************************)
EXTENDS Reader

CONSTANTS r, a, b, c, r1, r2, a1, a2, a3, b1, c1, c2, k1, k2, k3, k0

MCView == {r, a, b, c}
MCParent == [v \in MCView |-> CASE v = r -> NoView [] v = c -> a [] OTHER -> r]
MCKey == {k1, k2, k3, k0}
MCRow == {r1, r2, a1, a2, a3, b1, c1, c2}
MCTable == [v \in MCView |-> CASE v = r -> {r1, r2} [] v = a -> {a1, a2, a3}
                               [] v = b -> {b1} [] v = c -> {c1, c2}]
MCChildKey == [x \in MCRow |-> CASE x = a3 -> k3 [] x = a2 -> k2 [] OTHER -> k1]
MCParentKey ==
  [v \in MCView |-> [x \in MCRow |->
     IF x \in {r1, a1} \/ v = b THEN k1 ELSE IF x \in {r2, a2} THEN k2 ELSE k3]]
MCBatchParent == [v \in MCView |-> IF v \in {b, c} THEN 1 ELSE 2]
=============================================================================
