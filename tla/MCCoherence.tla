---------------------------- MODULE MCCoherence -----------------------------
(* Bounds for TLC: the instance of Coherence its run explores. *)
EXTENDS Coherence

\* d and df are a namespace each, though the colon in f:k is where df has its end.
D == <<"d">>
DF == <<"d", "f">>

\* These are not: f with f:k, and f:f with k, make the same storage key, and f with
\* k makes what a Cache without a prefix makes of f:k.
F == <<"f">>
FF == <<"f", ":", "f">>
None == << >>

K == <<"k">>
FK == <<"f", ":", "k">>

UserPrefixes == {D, DF, F, FF, None}
UserKeys == {K, FK}

\* The second Cache has a default TTL, the others, the demo's among them, have none.
Defaults == [p \in UserPrefixes |-> IF p = DF THEN 60 ELSE 0]
=============================================================================
