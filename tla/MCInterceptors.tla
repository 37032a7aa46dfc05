--------------------------- MODULE MCInterceptors ---------------------------
(* Bounds for TLC: the instance of Interceptors its run explores. *)
EXTENDS Interceptors, TLC

\* Calls are interchangeable.
Calls == Permutations(Call)
=============================================================================
