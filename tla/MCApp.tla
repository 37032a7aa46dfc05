------------------------------- MODULE MCApp -------------------------------
(* Bounds for TLC: the instances of App its runs explore. *)
EXTENDS App

\* Only the first component has an Init phase.
OnlyFirst == {1}
============================================================================
