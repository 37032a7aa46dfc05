----------------------------- MODULE MCOtelPgx ------------------------------
(* Bounds for TLC: the instance of OtelPgx its run explores. *)
EXTENDS OtelPgx

\* Every string of up to two of the characters that mean something to a comment,
\* to a quote or to the escaping, a byte that is no ASCII, and the name of a field.
Routes ==
  BoundedSeq({195, Space, Percent, Quote, Star, Plus, Slash, Equals, RouteName}, 2)

\* None, and one that looks like a field.
Applications == {<< >>, <<RouteName, Equals, Quote>>}

\* Callers of shutdown differ in nothing.
Callers == Permutations(Caller)
=============================================================================
