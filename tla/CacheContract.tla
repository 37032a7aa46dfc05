---------------------------- MODULE CacheContract ----------------------------
(***************************************************************************)
(* What components/rediscache/cache.go promises those who share a Redis    *)
(* and keep out of one another's prefix: each prefix is a map of its own,  *)
(* an entry stays until it is written, deleted or past its time, and one   *)
(* stored without expiry stays.                                            *)
(***************************************************************************)
EXTENDS Naturals

CONSTANTS Prefix, Key, Value, DefaultTTL

VARIABLES
  map,    \* the map of each prefix
  reply   \* what the last call returned, if it was one of these caches'

cvars == <<map, reply>>

Absent == [val |-> "none", expires |-> FALSE]

\* ttl 0 means the default, and a default of 0 no expiry.
Entry(p, v, ttl) == [val |-> v, expires |-> ttl # 0 \/ DefaultTTL[p] # 0]

CInit == map = [p \in Prefix |-> [k \in Key |-> Absent]] /\ reply = "none"

Held(p, k) == map[p][k] # Absent

Get(p, k) ==
  /\ reply' \in {"error", IF Held(p, k) THEN map[p][k].val ELSE "miss"}
  /\ UNCHANGED map

\* A call that fails may have done its work, and one that returned nil has.
Put(p, k, v, ttl) ==
  \/ reply' \in {"nil", "error"} /\ map' = [map EXCEPT ![p][k] = Entry(p, v, ttl)]
  \/ reply' = "error" /\ UNCHANGED map

\* With no keys there is nothing that could fail.
Remove(p, ks) ==
  /\ \/ /\ reply' \in {"nil", "error"}
        /\ map' = [map EXCEPT ![p] = [k \in Key |-> IF k \in ks THEN Absent ELSE @[k]]]
     \/ reply' = "error" /\ UNCHANGED map
  /\ ks = {} => reply' = "nil"

Lapse(p, k) ==
  /\ Held(p, k) /\ map[p][k].expires
  /\ map' = [map EXCEPT ![p][k] = Absent]
  /\ UNCHANGED reply

\* Whatever else happens on the Redis happens to none of the maps.
Elsewhere == reply' = "none" /\ UNCHANGED map

CNext ==
  \/ Elsewhere
  \/ \E p \in Prefix :
       \/ \E k \in Key : Get(p, k) \/ Lapse(p, k)
       \/ \E k \in Key, v \in Value, ttl \in {0, 60} : Put(p, k, v, ttl)
       \/ \E ks \in SUBSET Key : Remove(p, ks)

CSpec == CInit /\ [][CNext]_cvars
==============================================================================
