---------------------------- MODULE MCLifecycle ----------------------------
(* Bounds for TLC: the instances of Lifecycle its runs explore. *)
EXTENDS Lifecycle

\* The first component has no Init phase: the skip is taken at every size.
AllButFirst == Item \ {1}
============================================================================
