----------------------------- MODULE MCRegistry -----------------------------
(* Bounds for TLC: the instance of Registry its run explores. *)
EXTENDS Registry, TLC

CONSTANTS a1, a2, b, c, d1, d2

\* Two components contend for the name "a".
NameOf(x) == CASE x \in {a1, a2} -> "a" [] x = b -> "b" [] x = c -> "c"

\* The drivers are interchangeable.
Symmetry == Permutations({d1, d2})
=============================================================================
