---------------------------- MODULE MCRedisHook -----------------------------
(* Bounds for TLC: the instance of RedisHook its run explores. *)
EXTENDS RedisHook
=============================================================================
