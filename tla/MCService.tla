----------------------------- MODULE MCService ------------------------------
(* Bounds for TLC: the instance of Service its run explores. *)
EXTENDS Service
=============================================================================
