------------------------------- MODULE Cache --------------------------------
(***************************************************************************)
(* components/rediscache/cache.go: the calls of several Caches, each with  *)
(* a prefix or none, on one Redis.  A Cache keeps nothing itself and       *)
(* each call is one Redis command, so a call is one step; what interleaves *)
(* are the calls, of all the instances that share the Redis.               *)
(*                                                                         *)
(* Redis is external: a command is applied at once or not at all, its      *)
(* answer may be lost, and what has a TTL lapses at some time.             *)
(***************************************************************************)
EXTENDS Naturals, Sequences, SequencesExt

CONSTANTS
  Prefix,     \* the prefixes of the caches, strings as sequences of characters
  Key,        \* the keys of their callers, as well
  Value,
  DefaultTTL  \* what WithDefaultTTL was given, for each prefix

ASSUME PrefixAssumption == Prefix \subseteq Seq(STRING) /\ Key \subseteq Seq(STRING)

VARIABLES
  store,   \* what Redis holds under each storage key
  reply    \* the last call: the prefix of its Cache, and what it returned

cacheVars == <<store, reply>>

Absent == [val |-> "none", expires |-> FALSE]

\* [slip] A key with a colon of its own gets no other.
namespacedOnce(p, k) ==
  IF p = << >> THEN k ELSE IF ":" \in Range(k) THEN p \o k ELSE p \o <<":">> \o k

namespaced(p, k) == IF p = << >> THEN k ELSE p \o <<":">> \o k

\* Whatever a caller could name, with a Cache or without.
StorageKey == {namespaced(p, k) : p \in Prefix, k \in Key} \cup Key

CacheInit == store = [n \in StorageKey |-> Absent] /\ reply = [by |-> << >>, says |-> "none"]

\* [slip] A zero ttl is passed on to Redis, where it means no expiry.
effectiveTTLZero(p, ttl) == ttl

effectiveTTL(p, ttl) == IF ttl = 0 THEN DefaultTTL[p] ELSE ttl

Returns(p, answers) == \E a \in answers : reply' = [by |-> p, says |-> a]

\* A command of p's that makes s of the store: done, done and its answer lost, or
\* lost.
Command(p, s) ==
  \/ store' = s /\ Returns(p, {"nil", "error"})
  \/ UNCHANGED store /\ Returns(p, {"error"})

----------------------------------------------------------------------------
Get(p, k) ==
  LET held == store[namespaced(p, k)]
  IN /\ Returns(p, {"error", IF held = Absent THEN "miss" ELSE held.val})
     /\ UNCHANGED store

Set(p, k, v, ttl) ==
  Command(p, [store EXCEPT ![namespaced(p, k)] =
                [val |-> v, expires |-> effectiveTTL(p, ttl) # 0]])

\* [slip] The keys are deleted as the caller names them.
DeleteBare(p, ks) ==
  IF ks = {} THEN Returns(p, {"nil"}) /\ UNCHANGED store
  ELSE Command(p, [n \in StorageKey |-> IF n \in ks THEN Absent ELSE store[n]])

Delete(p, ks) ==
  LET full == {namespaced(p, k) : k \in ks}
  IN IF ks = {} THEN Returns(p, {"nil"}) /\ UNCHANGED store
     ELSE Command(p, [n \in StorageKey |-> IF n \in full THEN Absent ELSE store[n]])

Lapse(n) ==
  /\ store[n] # Absent /\ store[n].expires
  /\ store' = [store EXCEPT ![n] = Absent] /\ UNCHANGED reply

----------------------------------------------------------------------------
\* Does s go on behind the prefix q as a key of q's does?
Continues(s, q) ==
  /\ q # << >> /\ Len(q) < Len(s) /\ s[Len(q) + 1] = ":"
  /\ \A i \in 1 .. Len(q) : s[i] = q[i]

\* What a Cache's storage keys may begin with: its prefix, or what its callers say.
Begins(p) == IF p = << >> THEN Key ELSE {p}

Apart(p, q) ==
  /\ \A s \in Begins(p) : ~ Continues(s, q)
  /\ \A s \in Begins(q) : ~ Continues(s, p)

\* The prefixes that are a namespace: nobody else's keys can be theirs.
Own == {p \in Prefix : \A q \in Prefix \ {p} : Apart(p, q)}

\* A prefix that nothing else continues behind a colon is a map of its own,
\* whoever else uses the Redis: reads return what was last written under that
\* prefix and key and not deleted since, and expiry follows the ttl or its default
\* (cache.go:19-20, 25-26, 49-96).  Of other prefixes nothing is said: cache.go
\* lets "a" with "b:c" and "a:b" with "c" name the same entry.
Contract == INSTANCE CacheContract WITH
  Prefix <- Own,
  map <- [p \in Own |-> [k \in Key |-> store[namespaced(p, k)]]],
  reply <- IF reply.by \in Own THEN reply.says ELSE "none"

CachesKeepTheirContract == Contract!CSpec
=============================================================================
