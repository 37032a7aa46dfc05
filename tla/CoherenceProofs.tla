--------------------------- MODULE CoherenceProofs ---------------------------
(***************************************************************************)
(* Theorems about the caches and the invalidations of Coherence, for any   *)
(* prefixes, keys, values and messages, any number of them, any buffer,    *)
(* and any number of siblings' writes.                                     *)
(***************************************************************************)
EXTENDS Coherence, SequenceTheorems, TLAPS

----------------------------------------------------------------------------
(* The caches: storage keys tell their prefix, and each call does to the   *)
(* maps of CacheContract what it promises.                                 *)

\* A sequence over a set is one over any larger set; the colon is added to STRING
\* by hand, as the provers do not know that a literal is in it.
LEMMA Widened ==
  ASSUME NEW S, NEW c, NEW s \in Seq(S)
  PROVE  s \in Seq(S \cup {c})
BY SeqMonotonic

\* s is a, the separator m, and b.
Splits(s, a, m, b) ==
  /\ Len(s) = Len(a) + 1 + Len(b)
  /\ \A i \in 1 .. Len(a) : s[i] = a[i]
  /\ s[Len(a) + 1] = m[1]
  /\ \A i \in 1 .. Len(b) : s[Len(a) + 1 + i] = b[i]

\* Each character of a joined sequence is where one expects it.
LEMMA Joined ==
  ASSUME NEW S, NEW m \in Seq(S), NEW a \in Seq(S), NEW b \in Seq(S), Len(m) = 1
  PROVE  Splits(a \o m \o b, a, m, b)
<1> DEFINE am == a \o m
<1>0. Len(a) \in Nat /\ Len(b) \in Nat
  OBVIOUS
<1>1. /\ am \in Seq(S) /\ Len(am) = Len(a) + 1
      /\ \A i \in 1 .. Len(a) : am[i] = a[i]
      /\ am[Len(a) + 1] = m[1]
  <2>1. /\ am \in Seq(S) /\ Len(am) = Len(a) + 1
        /\ \A i \in 1 .. Len(a) + 1 : am[i] = IF i <= Len(a) THEN a[i] ELSE m[i - Len(a)]
    <3>1. /\ am \in Seq(S) /\ Len(am) = Len(a) + Len(m)
          /\ \A i \in 1 .. Len(a) + Len(m) : am[i] = IF i <= Len(a) THEN a[i] ELSE m[i - Len(a)]
      BY ConcatProperties
    <3> HIDE DEF am
    <3> QED
      BY <3>1
  <2> HIDE DEF am
  <2> QED
    BY <1>0, <2>1
<1> HIDE DEF am
<1>2. /\ am \o b \in Seq(S) /\ Len(am \o b) = Len(am) + Len(b)
      /\ \A i \in 1 .. Len(am) + Len(b) : (am \o b)[i] = IF i <= Len(am) THEN am[i] ELSE b[i - Len(am)]
  BY <1>1, ConcatProperties
<1>3. /\ \A i \in 1 .. Len(a) : (am \o b)[i] = a[i]
      /\ (am \o b)[Len(a) + 1] = m[1]
      /\ \A i \in 1 .. Len(b) : (am \o b)[Len(a) + 1 + i] = b[i]
  BY <1>1, <1>2
<1> QED
  BY <1>1, <1>2, <1>3 DEF am, Splits

\* What begins with a and the separator m.
Leads(s, a, m) ==
  /\ Len(a) < Len(s) /\ s[Len(a) + 1] = m[1]
  /\ \A i \in 1 .. Len(a) : s[i] = a[i]

\* A joined sequence does.
LEMMA JoinedLeads ==
  ASSUME NEW S, NEW m \in Seq(S), NEW a \in Seq(S), NEW b \in Seq(S), Len(m) = 1,
         NEW s, s = a \o m \o b
  PROVE  Leads(s, a, m)
<1>1. Splits(s, a, m, b)
  BY Joined
<1>2. Len(a) \in Nat /\ Len(b) \in Nat
  OBVIOUS
<1> QED
  BY <1>1, <1>2 DEF Splits, Leads

\* The separator tells where p and q end, when neither goes on as the other with it.
LEMMA ColonSeparates ==
  ASSUME NEW S, NEW m \in Seq(S), Len(m) = 1,
         NEW p \in Seq(S), NEW q \in Seq(S), NEW k \in Seq(S), NEW l \in Seq(S),
         ~ Leads(p, q, m), ~ Leads(q, p, m),
         p \o m \o k = q \o m \o l
  PROVE  p = q /\ k = l
<1> DEFINE s == p \o m \o k
<1>1. Splits(s, p, m, k)
  BY Joined
<1>2. Splits(s, q, m, l)
  BY Joined
<1> HIDE DEF s
<1>3. /\ Len(s) = Len(p) + 1 + Len(k) /\ Len(s) = Len(q) + 1 + Len(l)
      /\ s[Len(p) + 1] = m[1] /\ s[Len(q) + 1] = m[1]
      /\ \A i \in 1 .. Len(p) : s[i] = p[i]
      /\ \A i \in 1 .. Len(q) : s[i] = q[i]
      /\ \A i \in 1 .. Len(k) : s[Len(p) + 1 + i] = k[i]
      /\ \A i \in 1 .. Len(l) : s[Len(q) + 1 + i] = l[i]
  BY <1>1, <1>2 DEF Splits
<1>4. Len(p) \in Nat /\ Len(q) \in Nat /\ Len(k) \in Nat /\ Len(l) \in Nat
  OBVIOUS
<1>5. Len(p) = Len(q)
  <2>1. ASSUME Len(p) < Len(q) PROVE FALSE
    <3>1. Len(p) + 1 \in 1 .. Len(q) /\ \A i \in 1 .. Len(p) : i \in 1 .. Len(q)
      BY <1>4, <2>1
    <3>2. q[Len(p) + 1] = m[1] /\ \A i \in 1 .. Len(p) : q[i] = p[i]
      BY <1>3, <3>1
    <3> QED
      BY <2>1, <3>2 DEF Leads
  <2>2. ASSUME Len(q) < Len(p) PROVE FALSE
    <3>1. Len(q) + 1 \in 1 .. Len(p) /\ \A i \in 1 .. Len(q) : i \in 1 .. Len(p)
      BY <1>4, <2>2
    <3>2. p[Len(q) + 1] = m[1] /\ \A i \in 1 .. Len(q) : p[i] = q[i]
      BY <1>3, <3>1
    <3> QED
      BY <2>2, <3>2 DEF Leads
  <2> QED
    BY <1>4, <2>1, <2>2
<1>6. \A i \in 1 .. Len(p) : p[i] = q[i]
  BY <1>3, <1>5
<1>7. p = q
  BY <1>5, <1>6, SeqEqual
<1>8. Len(k) = Len(l)
  BY <1>3, <1>4, <1>5
<1>9. \A i \in 1 .. Len(k) : k[i] = l[i]
  BY <1>3, <1>5, <1>8
<1> QED
  BY <1>7, <1>8, <1>9, SeqEqual

\* A storage key of a prefix that is a namespace is nobody else's, and one key's.
LEMMA NamespacedIsInjective ==
  ASSUME NEW p \in Own, NEW q \in Prefix, NEW k \in Key, NEW l \in Key,
         namespaced(p, k) = namespaced(q, l)
  PROVE  p = q /\ k = l
<1> DEFINE m == <<":">>
           T == STRING \cup {":"}
<1>1. p \in Prefix /\ (p # q => Apart(p, q))
  BY DEF Own
<1>2. /\ m \in Seq(T) /\ Len(m) = 1 /\ m[1] = ":"
      /\ p \in Seq(T) /\ q \in Seq(T) /\ k \in Seq(T) /\ l \in Seq(T)
  BY <1>1, PrefixAssumption, Widened
<1>3. \A s, a : a # << >> => (Leads(s, a, m) <=> Continues(s, a))
  BY <1>2 DEF Leads, Continues
<1>4. CASE p = << >> /\ q = << >>
  BY <1>4 DEF namespaced
<1>5. CASE p = << >> /\ q # << >>
  <2>1. k = q \o m \o l
    BY <1>5 DEF namespaced
  <2> HIDE DEF m, T
  <2>2. Leads(k, q, m)
    BY <1>2, <2>1, JoinedLeads
  <2> QED
    BY <1>1, <1>3, <1>5, <2>2 DEF Apart, Begins
<1>6. CASE p # << >> /\ q = << >>
  <2>1. l = p \o m \o k
    BY <1>6 DEF namespaced
  <2> HIDE DEF m, T
  <2>2. Leads(l, p, m)
    BY <1>2, <2>1, JoinedLeads
  <2> QED
    BY <1>1, <1>3, <1>6, <2>2 DEF Apart, Begins
<1>7. CASE p # << >> /\ q # << >>
  <2>1. p \o m \o k = q \o m \o l
    BY <1>7 DEF namespaced
  <2>2. ~ Leads(p, q, m) /\ ~ Leads(q, p, m)
    <3>1. CASE p = q
      <4>1. Len(p) \in Nat
        BY <1>2
      <4> QED
        BY <3>1, <4>1 DEF Leads
    <3>2. CASE p # q
      BY <1>1, <1>3, <1>7, <3>2 DEF Apart, Begins
    <3> QED
      BY <3>1, <3>2
  <2> HIDE DEF m, T
  <2> QED
    BY <1>2, <2>1, <2>2, ColonSeparates
<1> QED
  BY <1>4, <1>5, <1>6, <1>7

----------------------------------------------------------------------------
(* The caches keep their contract. *)

StoreType == store \in [StorageKey -> [val : Value \cup {"none"}, expires : BOOLEAN]]

map == [p \in Own |-> [k \in Key |-> store[namespaced(p, k)]]]

said == IF reply.by \in Own THEN reply.says ELSE "none"

\* What the contract hears of an answer.
LEMMA Heard ==
  ASSUME NEW p, NEW A, Returns(p, A)
  PROVE  (p \in Own => said' \in A) /\ (p \notin Own => said' = "none")
BY DEF Returns, said

\* The maps after a write, under one storage key that is nobody's or p's.
LEMMA WriteShows ==
  ASSUME StoreType, NEW p \in Prefix, NEW k \in Key, NEW e,
         store' = [store EXCEPT ![namespaced(p, k)] = e]
  PROVE  /\ p \in Own => map' = [map EXCEPT ![p][k] = e]
         /\ p \notin Own => map' = map
<1>1. namespaced(p, k) \in StorageKey
  BY DEF StorageKey
<1>2. ASSUME NEW q \in Own, NEW l \in Key
      PROVE  store'[namespaced(q, l)] = IF q = p /\ l = k THEN e ELSE store[namespaced(q, l)]
  <2>1. namespaced(q, l) \in StorageKey
    BY DEF StorageKey, Own
  <2> QED
    BY <1>1, <2>1, NamespacedIsInjective DEF StoreType
<1>3. map' = [q \in Own |-> [l \in Key |-> IF q = p /\ l = k THEN e ELSE map[q][l]]]
  BY <1>2 DEF map
<1>4. CASE p \in Own
  <2>1. [map EXCEPT ![p][k] = e] =
          [q \in Own |-> [l \in Key |-> IF q = p /\ l = k THEN e ELSE map[q][l]]]
    BY DEF map
  <2> QED
    BY <1>3, <1>4, <2>1
<1>5. CASE p \notin Own
  <2>1. map = [q \in Own |-> [l \in Key |-> map[q][l]]]
    BY DEF map
  <2> QED
    BY <1>3, <1>5, <2>1
<1> QED
  BY <1>4, <1>5

\* A read returns what the map holds.
LEMMA GetRefines ==
  ASSUME NEW p \in Prefix, NEW k \in Key, Get(p, k)
  PROVE  (p \in Own => Contract!Get(p, k)) /\ (p \notin Own => Contract!Elsewhere)
<1>1. UNCHANGED map
  BY DEF Get, map
<1>2. CASE p \in Own
  <2>1. map[p][k] = store[namespaced(p, k)]
    BY <1>2 DEF map
  <2>2. said' \in {"error", IF map[p][k] = Absent THEN "miss" ELSE map[p][k].val}
    BY <1>2, <2>1, Heard DEF Get
  <2> QED
    BY <1>1, <1>2, <2>2 DEF Contract!Get, Contract!Held, Absent, Contract!Absent, map, said
<1>3. CASE p \notin Own
  <2>1. said' = "none"
    BY <1>3, Heard DEF Get
  <2> QED
    BY <1>1, <1>3, <2>1 DEF Contract!Elsewhere, map, said
<1> QED
  BY <1>2, <1>3

\* A write changes one entry of one map, though it names a storage key; one of a
\* prefix that is no namespace changes none.
LEMMA SetRefines ==
  ASSUME StoreType, NEW p \in Prefix, NEW k \in Key, NEW v \in Value, NEW ttl \in {0, 60},
         Set(p, k, v, ttl)
  PROVE  /\ StoreType'
         /\ (p \in Own => Contract!Put(p, k, v, ttl)) /\ (p \notin Own => Contract!Elsewhere)
<1> DEFINE n == namespaced(p, k)
           e == [val |-> v, expires |-> effectiveTTL(p, ttl) # 0]
<1>1. n \in StorageKey
  BY DEF StorageKey
<1>2. e = Contract!Entry(p, v, ttl) /\ e \in [val : Value \cup {"none"}, expires : BOOLEAN]
  BY DEF effectiveTTL, Contract!Entry
<1>3. CASE store' = [store EXCEPT ![n] = e] /\ Returns(p, {"nil", "error"})
  <2>1. StoreType'
    BY <1>1, <1>2, <1>3 DEF StoreType
  <2>2. store' = [store EXCEPT ![namespaced(p, k)] = e]
    BY <1>3
  <2>3. (p \in Own => said' \in {"nil", "error"}) /\ (p \notin Own => said' = "none")
    BY <1>3, Heard
  <2> HIDE DEF e
  <2>4. (p \in Own => map' = [map EXCEPT ![p][k] = e]) /\ (p \notin Own => map' = map)
    BY <2>2, WriteShows
  <2> QED
    BY <1>2, <2>1, <2>3, <2>4 DEF Contract!Put, Contract!Elsewhere, map, said
<1>4. CASE UNCHANGED store /\ Returns(p, {"error"})
  <2>1. UNCHANGED map /\ StoreType'
    BY <1>4 DEF StoreType, map
  <2>2. (p \in Own => said' = "error") /\ (p \notin Own => said' = "none")
    BY <1>4, Heard
  <2> QED
    BY <2>1, <2>2 DEF Contract!Put, Contract!Elsewhere, map, said
<1> QED
  BY <1>3, <1>4 DEF Set, Command

\* A deletion empties these keys of this map, and no others.
LEMMA DeleteRefines ==
  ASSUME StoreType, NEW p \in Prefix, NEW ks \in SUBSET Key, Delete(p, ks)
  PROVE  /\ StoreType'
         /\ (p \in Own => Contract!Remove(p, ks)) /\ (p \notin Own => Contract!Elsewhere)
<1> DEFINE full == {namespaced(p, k) : k \in ks}
           s == [n \in StorageKey |-> IF n \in full THEN Absent ELSE store[n]]
           Emptied == [map EXCEPT ![p] = [k \in Key |-> IF k \in ks THEN Contract!Absent ELSE @[k]]]
<1>1. CASE ks = {}
  <2>1. UNCHANGED store /\ Returns(p, {"nil"})
    BY <1>1 DEF Delete
  <2>2. UNCHANGED map /\ StoreType' /\ (p \in Own => map' = Emptied)
    BY <1>1, <2>1 DEF map, StoreType
  <2>3. (p \in Own => said' = "nil") /\ (p \notin Own => said' = "none")
    BY <2>1, Heard
  <2> QED
    BY <1>1, <2>2, <2>3 DEF Contract!Remove, Contract!Elsewhere, map, said
<1>2. CASE ks # {} /\ store' = s /\ Returns(p, {"nil", "error"})
  <2>1. ASSUME NEW q \in Own, NEW l \in Key
        PROVE  store'[namespaced(q, l)] =
                 IF q = p /\ l \in ks THEN Contract!Absent ELSE store[namespaced(q, l)]
    <3>1. namespaced(q, l) \in StorageKey
      BY DEF StorageKey, Own
    <3>2. namespaced(q, l) \in full <=> q = p /\ l \in ks
      BY NamespacedIsInjective
    <3> QED
      BY <1>2, <3>1, <3>2 DEF Absent, Contract!Absent
  <2>2. StoreType'
    BY <1>2 DEF StoreType, Absent
  <2>3. (p \in Own => said' \in {"nil", "error"}) /\ (p \notin Own => said' = "none")
    BY <1>2, Heard
  <2> HIDE DEF s, full
  <2>4. (p \in Own => map' = Emptied) /\ (p \notin Own => map' = map)
    BY <2>1 DEF map
  <2> QED
    BY <1>2, <2>2, <2>3, <2>4 DEF Contract!Remove, Contract!Elsewhere, map, said
<1>3. CASE ks # {} /\ UNCHANGED store /\ Returns(p, {"error"})
  <2>1. UNCHANGED map /\ StoreType'
    BY <1>3 DEF StoreType, map
  <2>2. (p \in Own => said' = "error") /\ (p \notin Own => said' = "none")
    BY <1>3, Heard
  <2> QED
    BY <1>3, <2>1, <2>2 DEF Contract!Remove, Contract!Elsewhere, map, said
<1> QED
  BY <1>1, <1>2, <1>3 DEF Delete, Command

\* A storage key that is in no map lapses unseen.
LEMMA LapseRefines ==
  ASSUME StoreType, NEW n \in StorageKey, Lapse(n)
  PROVE  /\ StoreType'
         /\ \/ \E p \in Own, k \in Key : Contract!Lapse(p, k)
            \/ UNCHANGED <<map, said>>
<1>1. StoreType' /\ UNCHANGED said
  BY DEF Lapse, StoreType, Absent, said
<1>2. \A q \in Own, l \in Key : namespaced(q, l) \in StorageKey
  BY DEF StorageKey, Own
<1>3. CASE \E p \in Own, k \in Key : n = namespaced(p, k)
  <2>1. PICK p \in Own, k \in Key : n = namespaced(p, k)
    BY <1>3
  <2>2. p \in Prefix
    BY DEF Own
  <2>3. map' = [map EXCEPT ![p][k] = Absent]
    BY <2>1, <2>2, WriteShows DEF Lapse
  <2>4. Contract!Lapse(p, k)
    BY <1>1, <2>1, <2>3 DEF Lapse, Contract!Lapse, Contract!Held, Absent, Contract!Absent, map, said
  <2> QED
    BY <1>1, <2>4
<1>4. CASE ~ \E p \in Own, k \in Key : n = namespaced(p, k)
  <2>1. \A q \in Own, l \in Key : store'[namespaced(q, l)] = store[namespaced(q, l)]
    BY <1>2, <1>4 DEF Lapse, StoreType
  <2> QED
    BY <1>1, <2>1 DEF map
<1> QED
  BY <1>3, <1>4

----------------------------------------------------------------------------
(* The steps of the system that the caches see. *)

mine == store[namespaced(MyPrefix, MyKey)]

Clean == mine = Absent \/ mine.val # MyValue

\* Once the demo has deleted its key, nobody stores its value again.
DemoInv ==
  /\ StoreType
  /\ demo \in {"subscribe", "set", "get", "delete"} => sent = 0
  /\ demo \in {"getAgain", "publish", "wait", "nil"} \/ sent # 0 => Clean

\* A step of the contract, or one that it does not see.
CacheStep == [Contract!CNext]_(Contract!cvars)

\* What leaves the caches alone is none of their contract's business.
LEMMA CacheUnchanged ==
  ASSUME UNCHANGED cacheVars PROVE CacheStep
BY DEF CacheStep, cacheVars, Contract!cvars

\* What a call does is a step of the contract, whosever it is.
LEMMA CallIsCacheStep ==
  ASSUME NEW p \in Prefix,
         \/ Contract!Elsewhere
         \/ p \in Own /\ \E k \in Key : Contract!Get(p, k)
         \/ p \in Own /\ \E k \in Key, v \in Value, ttl \in {0, 60} : Contract!Put(p, k, v, ttl)
         \/ p \in Own /\ \E ks \in SUBSET Key : Contract!Remove(p, ks)
  PROVE  CacheStep
BY DEF CacheStep, Contract!CNext

\* No sibling's write puts the demo's value under the demo's key.
LEMMA SetMine ==
  ASSUME StoreType, NEW p \in Prefix, NEW k \in Key, NEW v \in Value \ {MyValue},
         NEW ttl \in {0, 60}, Set(p, k, v, ttl), Clean
  PROVE  Clean'
<1>1. namespaced(p, k) \in StorageKey /\ namespaced(MyPrefix, MyKey) \in StorageKey
  BY DemoAssumption DEF StorageKey
<1> QED
  BY <1>1 DEF Set, Command, StoreType, Clean, mine

\* Neither does a deletion, of whatever keys, bring its value back.
LEMMA DeleteMine ==
  ASSUME StoreType, NEW p \in Prefix, NEW ks \in SUBSET Key, Delete(p, ks), Clean
  PROVE  Clean'
<1>1. namespaced(MyPrefix, MyKey) \in StorageKey
  BY DemoAssumption DEF StorageKey
<1> QED
  BY <1>1 DEF Delete, Command, Clean, mine

\* Nor does a key that lapses.
LEMMA LapseMine ==
  ASSUME StoreType, NEW n \in StorageKey, Lapse(n), Clean
  PROVE  Clean'
<1>1. namespaced(MyPrefix, MyKey) \in StorageKey
  BY DemoAssumption DEF StorageKey
<1> QED
  BY <1>1 DEF Lapse, StoreType, Clean, mine

\* What the demo finds: an empty Redis, with which the contract begins.
LEMMA DemoInit == CoherenceInit => DemoInv /\ Contract!CInit
<1> SUFFICES ASSUME CoherenceInit PROVE DemoInv /\ Contract!CInit
  OBVIOUS
<1> USE DEF CoherenceInit, CacheInit
<1>1. StoreType
  BY DEF StoreType, Absent
<1>2. Contract!CInit
  <2>1. \A p \in Own, k \in Key : store[namespaced(p, k)] = Contract!Absent
    BY DEF StorageKey, Own, Absent, Contract!Absent
  <2> QED
    BY <2>1 DEF Contract!CInit
<1> QED
  BY <1>1, <1>2 DEF DemoInv

\* Each step keeps the demo's invariant, and is a step of the contract or a
\* stutter.
LEMMA DemoStep ==
  ASSUME DemoInv, [CoherenceNext]_coherenceVars
  PROVE  DemoInv' /\ CacheStep
<1> USE DEF DemoInv
<1>1. CASE UNCHANGED <<cacheVars, demo, sent>>
  BY CacheUnchanged, <1>1 DEF cacheVars, StoreType, Clean, mine
<1>2. CASE Demo
  <2>1. CASE DemoSubscribes
    BY CacheUnchanged, <2>1 DEF DemoSubscribes, cacheVars, StoreType, Clean, mine
  <2>2. CASE DemoSets
    <3>1. /\ MyPrefix \in Own => Contract!Put(MyPrefix, MyKey, MyValue, 60)
          /\ MyPrefix \notin Own => Contract!Elsewhere
          /\ StoreType'
      BY <2>2, SetRefines, DemoAssumption DEF DemoSets
    <3>2. CacheStep
      BY <3>1, CallIsCacheStep, DemoAssumption
    <3> QED
      BY <2>2, <3>1, <3>2 DEF DemoSets, Proceed
  <2>3. CASE DemoGets
    <3>1. /\ MyPrefix \in Own => Contract!Get(MyPrefix, MyKey)
          /\ MyPrefix \notin Own => Contract!Elsewhere
          /\ UNCHANGED store
      BY <2>3, GetRefines, DemoAssumption DEF DemoGets, Get
    <3>2. CacheStep
      BY <3>1, CallIsCacheStep, DemoAssumption
    <3> QED
      BY <2>3, <3>1, <3>2 DEF DemoGets, Proceed, StoreType
  <2>4. CASE DemoDeletes
    <3>1. /\ MyPrefix \in Own => Contract!Remove(MyPrefix, {MyKey})
          /\ MyPrefix \notin Own => Contract!Elsewhere
          /\ StoreType'
      BY <2>4, DeleteRefines, DemoAssumption DEF DemoDeletes
    <3>2. CacheStep
      BY <3>1, CallIsCacheStep, DemoAssumption
    <3>3. reply'.says # "error" => mine' = Absent
      <4>1. namespaced(MyPrefix, MyKey) \in StorageKey
        BY DemoAssumption DEF StorageKey
      <4> QED
        BY <2>4, <4>1 DEF DemoDeletes, Delete, Command, Returns, mine
    <3> QED
      BY <2>4, <3>1, <3>2, <3>3 DEF DemoDeletes, Proceed, Clean
  <2>5. CASE DemoGetsAgain
    <3>1. /\ MyPrefix \in Own => Contract!Get(MyPrefix, MyKey)
          /\ MyPrefix \notin Own => Contract!Elsewhere
          /\ UNCHANGED store
      BY <2>5, GetRefines, DemoAssumption DEF DemoGetsAgain, Get
    <3>2. CacheStep
      BY <3>1, CallIsCacheStep, DemoAssumption
    <3> QED
      BY <2>5, <3>1, <3>2 DEF DemoGetsAgain, Proceed, StoreType, Clean, mine
  <2>6. CASE DemoPublishes
    BY CacheUnchanged, <2>6 DEF DemoPublishes, cacheVars, StoreType, Clean, mine
  <2>7. CASE DemoWaits
    BY CacheUnchanged, <2>7 DEF DemoWaits, cacheVars, StoreType, Clean, mine
  <2> QED
    BY <1>2, <2>1, <2>2, <2>3, <2>4, <2>5, <2>6, <2>7 DEF Demo
<1>3. CASE SiblingWrites
  <2>1. UNCHANGED <<demo, sent>>
    BY <1>3 DEF SiblingWrites, demoVars
  <2>2. PICK p \in Prefix :
          \/ \E k \in Key, v \in Value \ {MyValue}, ttl \in {0, 60} : Set(p, k, v, ttl)
          \/ \E ks \in SUBSET Key : Delete(p, ks)
    BY <1>3 DEF SiblingWrites
  <2>3. StoreType' /\ CacheStep /\ (Clean => Clean')
    <3>1. CASE \E k \in Key, v \in Value \ {MyValue}, ttl \in {0, 60} : Set(p, k, v, ttl)
      <4>1. PICK k \in Key, v \in Value \ {MyValue}, ttl \in {0, 60} : Set(p, k, v, ttl)
        BY <3>1
      <4>2. /\ StoreType' /\ (p \in Own => Contract!Put(p, k, v, ttl))
            /\ (p \notin Own => Contract!Elsewhere)
        BY <4>1, SetRefines
      <4> QED
        BY <4>1, <4>2, SetMine, CallIsCacheStep
    <3>2. CASE \E ks \in SUBSET Key : Delete(p, ks)
      <4>1. PICK ks \in SUBSET Key : Delete(p, ks)
        BY <3>2
      <4>2. /\ StoreType' /\ (p \in Own => Contract!Remove(p, ks))
            /\ (p \notin Own => Contract!Elsewhere)
        BY <4>1, DeleteRefines
      <4> QED
        BY <4>1, <4>2, DeleteMine, CallIsCacheStep
    <3> QED
      BY <2>2, <3>1, <3>2
  <2> QED
    BY <2>1, <2>3
<1>4. CASE Lapses
  <2>1. PICK n \in StorageKey : Lapse(n)
    BY <1>4 DEF Lapses
  <2>2. UNCHANGED <<demo, sent>>
    BY <1>4 DEF Lapses, Others, demoVars
  <2>3. StoreType' /\ CacheStep
    BY <2>1, LapseRefines DEF CacheStep, Contract!CNext, Contract!cvars, map, said
  <2> QED
    BY <2>1, <2>2, <2>3, LapseMine
<1>5. CASE Library \/ LoopRuns \/ GoRedis \/ SiblingPublishes \/ Cancels \/ CoherenceOver
  BY <1>1, <1>5
  DEF Library, LoopRuns, DemoHandler, GoRedis, SiblingPublishes, Cancels, CoherenceOver,
      Others, demoVars, coherenceVars
<1>6. CASE UNCHANGED coherenceVars
  BY <1>1, <1>6 DEF coherenceVars, demoVars
<1> QED
  BY <1>2, <1>3, <1>4, <1>5, <1>6 DEF CoherenceNext

----------------------------------------------------------------------------
(* The messages. *)

Pos == Nat \ {0}

Increasing(s) == \A i, j \in DOMAIN s : i < j => s[i] < s[j]

Before(s, t) == \A i \in DOMAIN s, j \in DOMAIN t : s[i] < t[j]

UpTo(s, n) == \A i \in DOMAIN s : s[i] <= n

\* From the handler back to Redis positions only grow; what the loop has in its
\* hands stands between what it has handled and what waits.
QueueInv ==
  /\ published \in Seq(Payload)
  /\ wire \in Seq(Pos) /\ ch \in Seq(Pos) /\ handled \in Seq(Pos)
  /\ Increasing(handled) /\ Increasing(ch) /\ Increasing(wire)
  /\ Before(handled, ch) /\ Before(handled, wire) /\ Before(ch, wire)
  /\ UpTo(handled, Len(published)) /\ UpTo(ch, Len(published)) /\ UpTo(wire, Len(published))
  /\ loop = "decode" =>
       /\ handling \in 1 .. Len(published)
       /\ \A i \in DOMAIN handled : handled[i] < handling
       /\ \A i \in DOMAIN ch : handling < ch[i]
       /\ \A i \in DOMAIN wire : handling < wire[i]
  /\ \A i \in DOMAIN handled : published[handled[i]] # "malformed"

\* A larger position may be added, and the first taken away.
LEMMA Appended ==
  ASSUME NEW s \in Seq(Pos), NEW x \in Pos
  PROVE  /\ Append(s, x) \in Seq(Pos)
         /\ DOMAIN Append(s, x) = 1 .. Len(s) + 1 /\ DOMAIN s = 1 .. Len(s)
         /\ \A i \in DOMAIN s : Append(s, x)[i] = s[i]
         /\ Append(s, x)[Len(s) + 1] = x
OBVIOUS

\* What is left behind the first, and the first itself.
LEMMA Shortened ==
  ASSUME NEW s \in Seq(Pos), s # << >>
  PROVE  /\ Tail(s) \in Seq(Pos) /\ 1 \in DOMAIN s /\ Head(s) = s[1] /\ Head(s) \in Pos
         /\ \A i \in DOMAIN Tail(s) : i + 1 \in DOMAIN s /\ Tail(s)[i] = s[i + 1]
OBVIOUS

\* An increasing sequence stays so under a larger position at its end ...
LEMMA IncreasingAppend ==
  ASSUME NEW s \in Seq(Pos), NEW x \in Pos, Increasing(s), \A i \in DOMAIN s : s[i] < x
  PROVE  Increasing(Append(s, x))
BY Appended DEF Increasing, Pos

\* ... and without its first, which is the least.
LEMMA IncreasingTail ==
  ASSUME NEW s \in Seq(Pos), s # << >>, Increasing(s)
  PROVE  Increasing(Tail(s)) /\ \A i \in DOMAIN Tail(s) : Head(s) < Tail(s)[i]
BY Shortened DEF Increasing

\* A new message has the largest position.
LEMMA PublishKeeps ==
  ASSUME QueueInv, NEW m \in Payload, Publish(m)
  PROVE  QueueInv'
<1> DEFINE n == Len(published)
<1>1. /\ n \in Nat /\ published' \in Seq(Payload) /\ Len(published') = n + 1
      /\ \A i \in 1 .. n : published'[i] = published[i]
  BY DEF QueueInv, Publish
<1>2. UNCHANGED <<ch, handled, handling, loop>>
  BY DEF Publish, ctrl, looping
<1>3. wire' \in {wire, Append(wire, n + 1)}
  BY DEF Publish
<1> HIDE DEF n
<1>4. /\ wire' \in Seq(Pos) /\ Increasing(wire') /\ UpTo(wire', n + 1)
      /\ Before(handled, wire') /\ Before(ch, wire')
      /\ loop = "decode" => \A i \in DOMAIN wire' : handling < wire'[i]
  <2>1. CASE wire' = wire
    BY <1>1, <2>1 DEF QueueInv, UpTo, n, Pos
  <2>2. CASE wire' = Append(wire, n + 1)
    <3>1. n + 1 \in Pos
      BY <1>1 DEF Pos
    <3>2. \A i \in DOMAIN wire : wire[i] \in Pos /\ wire[i] < n + 1
      BY <1>1 DEF QueueInv, UpTo, n, Pos
    <3>3. wire' \in Seq(Pos) /\ Increasing(wire')
      BY <2>2, <3>1, <3>2, IncreasingAppend, Appended DEF QueueInv
    <3>4. \A i \in DOMAIN wire' : (i \in DOMAIN wire /\ wire'[i] = wire[i]) \/ wire'[i] = n + 1
      BY <2>2, <3>1, Appended DEF QueueInv
    <3>5. \A i \in DOMAIN wire' : wire'[i] <= n + 1
      BY <1>1, <3>2, <3>4 DEF Pos
    <3>6. /\ \A i \in DOMAIN handled : handled[i] \in Pos /\ handled[i] < n + 1
          /\ \A i \in DOMAIN ch : ch[i] \in Pos /\ ch[i] < n + 1
      BY <1>1 DEF QueueInv, UpTo, n, Pos
    <3>7. Before(handled, wire') /\ Before(ch, wire')
      BY <3>4, <3>6 DEF QueueInv, Before
    <3>8. loop = "decode" => \A i \in DOMAIN wire' : handling < wire'[i]
      BY <1>1, <3>4 DEF QueueInv, n
    <3> QED
      BY <3>3, <3>5, <3>7, <3>8 DEF UpTo
  <2> QED
    BY <1>3, <2>1, <2>2
<1>5. UpTo(handled, n + 1) /\ UpTo(ch, n + 1)
  BY <1>1 DEF QueueInv, UpTo, n, Pos
<1>6. \A i \in DOMAIN handled : published'[handled[i]] # "malformed"
  <2>1. \A i \in DOMAIN handled : handled[i] \in 1 .. n
    BY <1>1 DEF QueueInv, UpTo, n, Pos
  <2> QED
    BY <1>1, <2>1 DEF QueueInv
<1>7. loop = "decode" => handling \in 1 .. n + 1
  BY <1>1 DEF QueueInv, n
<1> QED
  BY <1>1, <1>2, <1>4, <1>5, <1>6, <1>7 DEF QueueInv, Increasing, Before, UpTo

\* The connection is gone, with what it carried.
LEMMA WireLost ==
  ASSUME QueueInv, wire' = << >>, UNCHANGED <<published, ch, handled, handling>>,
         loop' = "decode" => loop = "decode"
  PROVE  QueueInv'
BY DEF QueueInv, Increasing, Before, UpTo, Pos

\* Steps that touch no queue.
LEMMA QuietKeeps ==
  ASSUME QueueInv, UNCHANGED <<published, wire, ch, handled, handling>>,
         loop' = "decode" => loop = "decode"
  PROVE  QueueInv'
BY DEF QueueInv, Increasing, Before, UpTo

\* go-redis takes the first of the wire, and puts it last or drops it.
LEMMA ReaderKeeps ==
  ASSUME QueueInv, Reader
  PROVE  QueueInv'
<1>1. /\ wire # << >> /\ wire' = Tail(wire) /\ ch' \in {ch, Append(ch, Head(wire))}
      /\ UNCHANGED <<published, handled, handling, loop>>
  BY DEF Reader, Read, Drop, redis, looping
<1>2. /\ wire' \in Seq(Pos) /\ Increasing(wire') /\ Head(wire) \in Pos
      /\ \A i \in DOMAIN wire' : Head(wire) < wire'[i] /\ \E j \in DOMAIN wire : wire'[i] = wire[j]
      /\ \E j \in DOMAIN wire : Head(wire) = wire[j]
  BY <1>1, Shortened, IncreasingTail DEF QueueInv
<1>3. CASE ch' = ch
  BY <1>1, <1>2, <1>3 DEF QueueInv, Before, UpTo
<1>4. CASE ch' = Append(ch, Head(wire))
  <2>1. ch' \in Seq(Pos) /\ Increasing(ch')
    BY <1>2, <1>4, Appended, IncreasingAppend DEF QueueInv, Before
  <2>2. \A i \in DOMAIN ch' : (i \in DOMAIN ch /\ ch'[i] = ch[i]) \/ ch'[i] = Head(wire)
    BY <1>2, <1>4, Appended DEF QueueInv
  <2>3. Before(handled, ch') /\ Before(handled, wire') /\ Before(ch', wire')
    BY <1>1, <1>2, <2>2 DEF QueueInv, Before
  <2>4. UpTo(ch', Len(published)) /\ UpTo(wire', Len(published))
    BY <1>2, <2>2 DEF QueueInv, UpTo
  <2>5. loop = "decode" => /\ \A i \in DOMAIN ch' : handling < ch'[i]
                           /\ \A i \in DOMAIN wire' : handling < wire'[i]
    BY <1>2, <2>2 DEF QueueInv
  <2> QED
    BY <1>1, <1>2, <2>1, <2>3, <2>4, <2>5 DEF QueueInv, Increasing, Before, UpTo
<1> QED
  BY <1>1, <1>3, <1>4

\* The loop takes the first of the channel.
LEMMA TakeKeeps ==
  ASSUME QueueInv, Take
  PROVE  QueueInv'
<1>1. /\ ch # << >> /\ ch' = Tail(ch) /\ handling' = Head(ch)
      /\ UNCHANGED <<published, wire, handled>>
  BY DEF Take, redis
<1>2. /\ ch' \in Seq(Pos) /\ Increasing(ch') /\ Head(ch) \in Pos
      /\ \A i \in DOMAIN ch' : Head(ch) < ch'[i] /\ \E j \in DOMAIN ch : ch'[i] = ch[j]
      /\ \E j \in DOMAIN ch : Head(ch) = ch[j]
  BY <1>1, Shortened, IncreasingTail DEF QueueInv
<1>3. Before(handled, ch') /\ Before(ch', wire) /\ UpTo(ch', Len(published))
  BY <1>2 DEF QueueInv, Before, UpTo
<1>4. /\ handling' \in 1 .. Len(published)
      /\ \A i \in DOMAIN handled : handled[i] < handling'
      /\ \A i \in DOMAIN ch' : handling' < ch'[i]
      /\ \A i \in DOMAIN wire : handling' < wire[i]
  <2>1. Len(published) \in Nat
    BY DEF QueueInv
  <2> QED
    BY <1>1, <1>2, <2>1 DEF QueueInv, Before, UpTo, Pos
<1> QED
  BY <1>1, <1>2, <1>3, <1>4 DEF QueueInv, Increasing, Before, UpTo

\* What the loop decodes is later than all it has handled.
LEMMA DecodeKeeps ==
  ASSUME QueueInv, Decode
  PROVE  QueueInv'
<1>1. loop = "decode" /\ UNCHANGED <<published, wire, ch, handling>>
  BY DEF Decode, redis, channel
<1>2. CASE published[handling] = "malformed"
  BY <1>1, <1>2, QuietKeeps DEF Decode
<1>3. CASE published[handling] # "malformed"
  <2>1. handled' = Append(handled, handling) /\ loop' = "handler"
    BY <1>3 DEF Decode
  <2>2. Len(published) \in Nat /\ handling \in Pos /\ handling <= Len(published)
    BY <1>1 DEF QueueInv, Pos
  <2>3. handled' \in Seq(Pos) /\ Increasing(handled')
    BY <1>1, <2>1, <2>2, Appended, IncreasingAppend DEF QueueInv
  <2>4. \A i \in DOMAIN handled' : (i \in DOMAIN handled /\ handled'[i] = handled[i]) \/ handled'[i] = handling
    BY <2>1, <2>2, Appended DEF QueueInv
  <2>5. Before(handled', ch) /\ Before(handled', wire) /\ UpTo(handled', Len(published))
    BY <1>1, <2>2, <2>4 DEF QueueInv, Before, UpTo
  <2>6. \A i \in DOMAIN handled' : published[handled'[i]] # "malformed"
    BY <1>3, <2>4 DEF QueueInv
  <2> QED
    BY <1>1, <2>1, <2>3, <2>5, <2>6 DEF QueueInv, Increasing, Before, UpTo
<1> QED
  BY <1>2, <1>3

\* No step of the whole breaks the order.
LEMMA QueueStep ==
  ASSUME QueueInv, [CoherenceNext]_coherenceVars
  PROVE  QueueInv'
<1> USE DEF ctrl, redis, channel, looping, vars, Others, demoVars, coherenceVars
<1>1. CASE Demo
  <2>1. CASE DemoPublishes
    <3>1. MyMessage \in Payload
      BY DemoAssumption DEF Payload
    <3> QED
      BY <2>1, <3>1, PublishKeeps, QuietKeeps DEF DemoPublishes
  <2>2. CASE DemoSubscribes \/ DemoSets \/ DemoGets \/ DemoDeletes \/ DemoGetsAgain \/ DemoWaits
    BY <2>2, QuietKeeps
    DEF DemoSubscribes, DemoSets, DemoGets, DemoDeletes, DemoGetsAgain, DemoWaits, Proceed
  <2> QED
    BY <1>1, <2>1, <2>2 DEF Demo
<1>2. CASE Library
  <2>1. CASE SubscribeFails
    BY <2>1, WireLost DEF SubscribeFails
  <2>2. CASE Subscribe \/ SubscribeReturns
    BY <2>2, QuietKeeps DEF Subscribe, SubscribeReturns
  <2> QED
    BY <1>2, <2>1, <2>2 DEF Library
<1>3. CASE LoopRuns
  <2>1. CASE Exit
    BY <2>1, WireLost DEF Exit
  <2>2. CASE SeeCtxDone \/ SeeClosed \/ DemoHandler
    BY <2>2, QuietKeeps DEF SeeCtxDone, SeeClosed, DemoHandler, HandlerReturns
  <2> QED
    BY <1>3, <2>1, <2>2, TakeKeeps, DecodeKeeps DEF LoopRuns
<1>4. CASE GoRedis
  <2>1. CASE Disconnect
    BY <2>1, WireLost DEF Disconnect
  <2>2. CASE Attach \/ Confirm \/ ChannelCloses
    BY <2>2, QuietKeeps DEF Attach, Confirm, ChannelCloses
  <2> QED
    BY <1>4, <2>1, <2>2, ReaderKeeps DEF GoRedis
<1>5. CASE SiblingPublishes
  BY <1>5, PublishKeeps DEF SiblingPublishes
<1>6. CASE SiblingWrites \/ Lapses \/ Cancels \/ CoherenceOver
  BY <1>6, QuietKeeps DEF SiblingWrites, Lapses, Cancels, Cancel, CoherenceOver
<1>7. CASE UNCHANGED coherenceVars
  BY <1>7, QuietKeeps
<1> QED
  BY <1>1, <1>2, <1>3, <1>4, <1>5, <1>6, <1>7 DEF CoherenceNext

----------------------------------------------------------------------------
(* Nothing is missed. *)

\* While the context lives and the client is open the subscription is there, so
\* that whatever is published goes on the wire or is lost with a connection; and
\* what the loop has let go of it has handled, or could not read.
OpenInv ==
  /\ from \in Nat
  /\ sub = "receive" => pubsubOpen
  /\ sub # "returned" => subRes = "none" /\ loop = "none"
  /\ subRes = "nil" => confirmed
  /\ loop \in {"closing", "exited"} => ctxDone \/ ~ chOpen
  /\ subRes = "nil" => pubsubOpen \/ loop = "exited"
  /\ loop # "decode" =>
       \/ handling = 0
       \/ handling \in Range(handled)
       \/ handling \in 1 .. Len(published) /\ published[handling] = "malformed"
  /\ NothingMissed

\* What a sequence holds with one more ...
LEMMA RangeAppend ==
  ASSUME NEW s \in Seq(Pos), NEW x \in Pos
  PROVE  Range(Append(s, x)) = Range(s) \cup {x}
<1>1. ASSUME NEW y \in Range(Append(s, x)) PROVE y \in Range(s) \cup {x}
  <2>1. PICK i \in DOMAIN Append(s, x) : y = Append(s, x)[i]
    BY DEF Range
  <2>2. i \in DOMAIN s \/ i = Len(s) + 1
    BY Appended
  <2> QED
    BY <2>1, <2>2, Appended DEF Range
<1>2. ASSUME NEW y \in Range(s) PROVE y \in Range(Append(s, x))
  <2>1. PICK i \in DOMAIN s : y = s[i]
    BY DEF Range
  <2>2. i \in DOMAIN Append(s, x)
    BY Appended
  <2> QED
    BY <2>1, <2>2, Appended DEF Range
<1>3. x \in Range(Append(s, x))
  <2>1. Len(s) + 1 \in DOMAIN Append(s, x)
    BY Appended
  <2> QED
    BY <2>1, Appended DEF Range
<1> QED
  BY <1>1, <1>2, <1>3

\* ... and with one less.
LEMMA RangeTail ==
  ASSUME NEW s \in Seq(Pos), s # << >>
  PROVE  Range(s) \subseteq {Head(s)} \cup Range(Tail(s))
<1>1. SUFFICES ASSUME NEW i \in DOMAIN s PROVE s[i] = Head(s) \/ s[i] \in Range(Tail(s))
  BY DEF Range
<1>2. CASE i = 1
  BY <1>2
<1>3. CASE i # 1
  <2>1. i - 1 \in DOMAIN Tail(s) /\ Tail(s)[i - 1] = s[i]
    BY <1>3
  <2> QED
    BY <2>1 DEF Range
<1> QED
  BY <1>2, <1>3

\* Where a message may be.
Covered(i) ==
  \/ i \in Range(handled) \cup Range(wire) \cup Range(ch) \cup dropped
  \/ i = handling
  \/ published[i] = "malformed"

\* The messages there are stay where they can be found.
LEMMA StillCovered ==
  ASSUME QueueInv, OpenInv, UNCHANGED <<published, from>>,
         subRes' = "nil" /\ ~ ctxDone' /\ chOpen' => subRes = "nil" /\ ~ ctxDone /\ chOpen,
         \A i \in 1 .. Len(published) : Covered(i) => Covered(i)'
  PROVE  NothingMissed'
<1>1. Len(published) \in Nat /\ from \in Nat
  BY DEF QueueInv, OpenInv
<1>2. SUFFICES ASSUME subRes' = "nil", ~ ctxDone', chOpen', NEW i \in from + 1 .. Len(published)
               PROVE  Covered(i)'
  BY DEF NothingMissed, Covered
<1>3. i \in 1 .. Len(published)
  BY <1>1
<1>4. Covered(i)
  BY <1>2 DEF OpenInv, NothingMissed, Covered
<1> QED
  BY <1>3, <1>4

\* A message published goes on the wire, or is lost with the connection.
LEMMA PublishMisses ==
  ASSUME QueueInv, OpenInv, NEW m \in Payload, Publish(m)
  PROVE  OpenInv'
<1> DEFINE n == Len(published)
<1>1. /\ n \in Nat /\ Len(published') = n + 1 /\ published' = Append(published, m)
      /\ \A i \in 1 .. n : published'[i] = published[i]
  BY DEF QueueInv, Publish
<1>2. UNCHANGED <<ctxDone, sub, subRes, from, confirmed, ch, chOpen, loop, handling, handled, pubsubOpen>>
  BY DEF Publish, ctrl, looping
<1> HIDE DEF n
<1>3. \A i \in 1 .. n : Covered(i) => Covered(i)'
  <2>1. Range(wire) \subseteq Range(wire')
    <3>1. n + 1 \in Pos /\ wire \in Seq(Pos)
      BY <1>1 DEF Pos, QueueInv
    <3>2. wire' = wire \/ wire' = Append(wire, n + 1)
      BY DEF Publish, n
    <3> QED
      BY <3>1, <3>2, RangeAppend
  <2>2. dropped \subseteq dropped'
    BY DEF Publish
  <2>3. SUFFICES ASSUME NEW i \in 1 .. n, Covered(i) PROVE Covered(i)'
    OBVIOUS
  <2>4. published'[i] = published[i]
    BY <1>1
  <2> QED
    BY <1>2, <2>1, <2>2, <2>3, <2>4 DEF Covered
<1>4. ASSUME subRes = "nil", ~ ctxDone, chOpen, NEW i, i = n + 1
      PROVE  Covered(i)'
  <2>1. confirmed /\ pubsubOpen
    BY <1>4 DEF OpenInv
  <2>2. CASE attached
    <3>1. n + 1 \in Pos /\ wire \in Seq(Pos) /\ wire' = Append(wire, n + 1)
      BY <1>1, <2>2 DEF Publish, Pos, n, QueueInv
    <3>2. i \in Range(wire')
      BY <1>4, <3>1, RangeAppend
    <3> QED
      BY <3>2 DEF Covered
  <2>3. CASE ~ attached
    BY <1>4, <2>1, <2>3 DEF Publish, Covered, n
  <2> QED
    BY <2>2, <2>3
<1>5. NothingMissed'
  <2>1. SUFFICES ASSUME subRes = "nil", ~ ctxDone, chOpen, NEW i \in from + 1 .. n + 1
                 PROVE  Covered(i)'
    BY <1>1, <1>2 DEF NothingMissed, Covered
  <2>2. CASE i = n + 1
    BY <1>4, <2>1, <2>2
  <2>3. CASE i \in from + 1 .. n
    <3>1. Covered(i) /\ i \in 1 .. n
      BY <1>1, <2>1, <2>3 DEF OpenInv, NothingMissed, Covered, n
    <3> QED
      BY <1>3, <3>1
  <2> QED
    BY <1>1, <2>2, <2>3 DEF OpenInv
<1>6. handling \in 1 .. n => handling \in 1 .. n + 1 /\ published'[handling] = published[handling]
  BY <1>1
<1> QED
  BY <1>1, <1>2, <1>5, <1>6 DEF OpenInv, n

\* go-redis moves a message on, or drops it.
LEMMA GoRedisMisses ==
  ASSUME QueueInv, OpenInv, Attach \/ Confirm \/ Disconnect \/ Reader \/ ChannelCloses
  PROVE  OpenInv'
<1> USE DEF ctrl, redis, channel, looping
<1>1. /\ UNCHANGED <<ctxDone, sub, subRes, from, published, loop, handling, handled, pubsubOpen>>
      /\ (confirmed => confirmed') /\ (chOpen' => chOpen)
  BY DEF Attach, Confirm, Disconnect, Reader, Read, Drop, ChannelCloses
<1>2. Range(wire) \cup Range(ch) \cup dropped \subseteq Range(wire') \cup Range(ch') \cup dropped'
  <2>1. CASE Attach \/ Confirm \/ ChannelCloses
    BY <2>1 DEF Attach, Confirm, ChannelCloses
  <2>2. CASE Disconnect
    BY <2>2 DEF Disconnect
  <2>3. CASE Read
    <3>1. wire # << >> /\ wire' = Tail(wire) /\ ch' = Append(ch, Head(wire)) /\ UNCHANGED dropped
      BY <2>3 DEF Read
    <3>2. Range(ch') = Range(ch) \cup {Head(wire)}
      BY <3>1, RangeAppend, Shortened DEF QueueInv
    <3> QED
      BY <3>1, <3>2, RangeTail DEF QueueInv
  <2>4. CASE Drop
    BY <2>4, RangeTail DEF Drop, QueueInv
  <2> QED
    BY <2>1, <2>2, <2>3, <2>4 DEF Reader
<1>3. NothingMissed'
  BY <1>1, <1>2, StillCovered DEF Covered
<1> QED
  BY <1>1, <1>3 DEF OpenInv

\* Subscribe returns a subscription that Redis has confirmed.
LEMMA SubscriptionMisses ==
  ASSUME QueueInv, OpenInv, Subscribe \/ SubscribeFails \/ SubscribeReturns \/ Cancel
  PROVE  OpenInv'
<1> USE DEF ctrl, redis, channel, looping
<1>1. CASE Subscribe
  <2>1. NothingMissed'
    BY <1>1 DEF Subscribe, OpenInv, NothingMissed
  <2> QED
    BY <1>1, <2>1 DEF Subscribe, OpenInv
<1>2. CASE SubscribeFails
  <2>1. NothingMissed'
    BY <1>2 DEF SubscribeFails, NothingMissed
  <2> QED
    BY <1>2, <2>1 DEF SubscribeFails, OpenInv
<1>3. CASE SubscribeReturns
  <2>1. Len(published) \in Nat /\ UNCHANGED published /\ from' = Len(published)
    BY <1>3 DEF SubscribeReturns, QueueInv
  <2>2. NothingMissed'
    BY <2>1 DEF NothingMissed
  <2> QED
    BY <1>3, <2>1, <2>2 DEF SubscribeReturns, OpenInv
<1>4. CASE Cancel
  <2>1. NothingMissed'
    BY <1>4 DEF Cancel, NothingMissed
  <2> QED
    BY <1>4, <2>1 DEF Cancel, OpenInv
<1> QED
  BY <1>1, <1>2, <1>3, <1>4

\* The loop lets go of a message only when it is handled or malformed, and of
\* the subscription only when the context or the client has ended.
LEMMA LoopMisses ==
  ASSUME QueueInv, OpenInv, Loop
  PROVE  OpenInv'
<1> USE DEF ctrl, redis, channel, looping
<1>1. CASE SeeCtxDone \/ SeeClosed \/ HandlerReturns
  <2>1. UNCHANGED <<ctrl, redis, channel, handling, handled, pubsubOpen>> /\ loop # "decode"
    BY <1>1 DEF SeeCtxDone, SeeClosed, HandlerReturns
  <2>2. NothingMissed'
    BY <2>1 DEF OpenInv, NothingMissed
  <2> QED
    BY <1>1, <2>1, <2>2 DEF OpenInv, SeeCtxDone, SeeClosed, HandlerReturns
<1>2. CASE Take
  <2>1. /\ loop = "select" /\ loop' = "decode" /\ ch # << >> /\ handling' = Head(ch) /\ ch' = Tail(ch)
        /\ UNCHANGED <<ctrl, redis, wire, chOpen, dropped, handled, pubsubOpen>>
    BY <1>2 DEF Take
  <2>2. Range(ch) \subseteq {handling'} \cup Range(ch')
    BY <2>1, RangeTail DEF QueueInv
  <2>3. ASSUME NEW i \in 1 .. Len(published), Covered(i) PROVE Covered(i)'
    BY <2>1, <2>2, <2>3 DEF Covered, OpenInv
  <2>4. NothingMissed'
    BY <2>1, <2>3, StillCovered
  <2> QED
    BY <2>1, <2>4 DEF OpenInv
<1>3. CASE Decode
  <2>1. loop = "decode" /\ UNCHANGED <<ctrl, redis, channel, handling, pubsubOpen>>
    BY <1>3 DEF Decode
  <2>2. handling \in 1 .. Len(published) /\ handling \in Pos
    BY <2>1 DEF QueueInv, Pos
  <2>3. CASE published[handling] = "malformed"
    <3>1. loop' = "select" /\ UNCHANGED handled
      BY <1>3, <2>3 DEF Decode
    <3>2. NothingMissed'
      BY <2>1, <3>1 DEF OpenInv, NothingMissed
    <3> QED
      BY <2>1, <2>2, <2>3, <3>1, <3>2 DEF OpenInv
  <2>4. CASE published[handling] # "malformed"
    <3>1. loop' = "handler" /\ handled' = Append(handled, handling)
      BY <1>3, <2>4 DEF Decode
    <3>2. Range(handled') = Range(handled) \cup {handling}
      BY <2>2, <3>1, RangeAppend DEF QueueInv
    <3>3. NothingMissed'
      BY <2>1, <3>2, StillCovered DEF Covered
    <3> QED
      BY <2>1, <3>1, <3>2, <3>3 DEF OpenInv
  <2> QED
    BY <2>3, <2>4
<1>4. CASE Exit
  <2>1. loop = "closing" /\ loop' = "exited"
        /\ UNCHANGED <<ctrl, confirmed, published, ch, chOpen, dropped, handling, handled>>
    BY <1>4 DEF Exit
  <2>2. NothingMissed'
    BY <2>1 DEF OpenInv, NothingMissed
  <2> QED
    BY <2>1, <2>2 DEF OpenInv
<1> QED
  BY <1>1, <1>2, <1>3, <1>4 DEF Loop

\* No step of the whole misses a message.
LEMMA OpenStep ==
  ASSUME QueueInv, OpenInv, [CoherenceNext]_coherenceVars
  PROVE  OpenInv'
<1>1. CASE UNCHANGED vars
  BY <1>1 DEF vars, ctrl, redis, channel, looping, OpenInv, NothingMissed
<1>2. CASE DemoPublishes
  <2>1. MyMessage \in Payload
    BY DemoAssumption DEF Payload
  <2> QED
    BY <1>1, <1>2, <2>1, PublishMisses DEF DemoPublishes
<1>3. CASE DemoSubscribes \/ DemoSets \/ DemoGets \/ DemoDeletes \/ DemoGetsAgain \/ DemoWaits
  BY <1>1, <1>3
  DEF DemoSubscribes, DemoSets, DemoGets, DemoDeletes, DemoGetsAgain, DemoWaits, Proceed
<1>4. CASE Library
  BY <1>4, SubscriptionMisses DEF Library
<1>5. CASE LoopRuns
  BY <1>5, LoopMisses DEF LoopRuns, DemoHandler, Loop
<1>6. CASE GoRedis
  BY <1>6, GoRedisMisses DEF GoRedis
<1>7. CASE SiblingPublishes
  BY <1>7, PublishMisses DEF SiblingPublishes
<1>8. CASE Cancels
  BY <1>8, SubscriptionMisses DEF Cancels
<1>9. CASE SiblingWrites \/ Lapses \/ CoherenceOver \/ UNCHANGED coherenceVars
  BY <1>1, <1>9 DEF SiblingWrites, Lapses, CoherenceOver, coherenceVars
<1> QED
  BY <1>2, <1>3, <1>4, <1>5, <1>6, <1>7, <1>8, <1>9 DEF CoherenceNext, Demo

----------------------------------------------------------------------------
(* The types. *)

\* What the types of the subscription are made of, but for the positions.
BoundInv ==
  /\ ctxDone \in BOOLEAN /\ attached \in BOOLEAN /\ confirmed \in BOOLEAN
  /\ chOpen \in BOOLEAN /\ pubsubOpen \in BOOLEAN
  /\ sub \in {"idle", "receive", "returned"} /\ subRes \in {"none", "nil", "error"}
  /\ loop \in {"none", "select", "decode", "handler", "closing", "exited"}
  /\ Len(published) <= MaxPublish /\ Len(ch) <= Buffer
  /\ from \in 0 .. MaxPublish /\ handling \in 0 .. MaxPublish
  /\ dropped \subseteq Position
  /\ subRes = "error" => ~ pubsubOpen /\ loop = "none"

\* Wherever a position is, it is that of a message.
LEMMA Positions ==
  ASSUME QueueInv, BoundInv, NEW s \in {wire, ch, handled}
  PROVE  s \in Seq(Position) /\ Range(s) \subseteq Position
<1>1. Len(published) \in Nat /\ Len(published) <= MaxPublish /\ MaxPublish \in Nat
  BY BufferAssumption DEF QueueInv, BoundInv
<1>2. s \in Seq(Pos) /\ UpTo(s, Len(published))
  BY DEF QueueInv
<1>3. \A i \in 1 .. Len(s) : s[i] \in Position
  BY <1>1, <1>2 DEF UpTo, Pos, Position
<1>4. s \in [1 .. Len(s) -> Position] /\ Len(s) \in Nat
  BY <1>2, <1>3
<1> QED
  BY <1>2, <1>3, <1>4, SeqDef DEF Range

\* A message published leaves room for the next, or the bound is reached.
LEMMA PublishBound ==
  ASSUME QueueInv, BoundInv, NEW m \in Payload, Publish(m)
  PROVE  BoundInv'
<1>1. /\ Len(published) \in Nat /\ Len(published') = Len(published) + 1
      /\ Len(published) < MaxPublish /\ MaxPublish \in Nat
  BY BufferAssumption DEF QueueInv, Publish
<1>2. Len(published) + 1 \in Position
  BY <1>1 DEF Position
<1>3. dropped' \subseteq Position
  BY <1>2 DEF Publish, BoundInv
<1> QED
  BY <1>1, <1>3 DEF Publish, BoundInv, ctrl, looping, Position

\* go-redis keeps its buffer within its size.
LEMMA GoRedisBound ==
  ASSUME QueueInv, BoundInv, GoRedis
  PROVE  BoundInv'
<1> USE DEF BoundInv, ctrl, redis, channel, looping, Position
<1>1. Range(wire) \subseteq Position /\ wire \in Seq(Pos) /\ ch \in Seq(Pos)
  BY Positions DEF QueueInv
<1>2. Buffer \in Nat
  BY BufferAssumption
<1>3. CASE Disconnect
  BY <1>1, <1>3 DEF Disconnect
<1>4. CASE Read
  <2>1. Head(wire) \in Pos
    BY <1>1, <1>4 DEF Read
  <2>2. Len(ch') <= Buffer
    BY <1>1, <1>2, <1>4, <2>1 DEF Read
  <2> QED
    BY <1>4, <2>2 DEF Read
<1>5. CASE Drop
  <2>1. Head(wire) \in Range(wire)
    BY <1>1, <1>5, Shortened DEF Drop, Range
  <2> QED
    BY <1>1, <1>5, <2>1 DEF Drop
<1>6. CASE Attach
  BY <1>6 DEF Attach
<1>7. CASE Confirm
  BY <1>7 DEF Confirm
<1>8. CASE ChannelCloses
  BY <1>8 DEF ChannelCloses
<1> QED
  BY <1>3, <1>4, <1>5, <1>6, <1>7, <1>8 DEF GoRedis, Reader

\* So does the loop, which holds one message at a time.
LEMMA LoopBound ==
  ASSUME QueueInv, BoundInv, LoopRuns
  PROVE  BoundInv'
<1> USE DEF BoundInv, ctrl, redis, channel
<1>1. CASE Take
  <2>1. ch \in Seq(Pos) /\ Range(ch) \subseteq Position /\ ch # << >>
    BY <1>1, Positions DEF Take, QueueInv
  <2>2. Head(ch) \in Position
    BY <2>1, Shortened DEF Range
  <2>3. Len(Tail(ch)) <= Buffer /\ Head(ch) \in 0 .. MaxPublish
    BY <2>1, <2>2, BufferAssumption DEF Position
  <2> QED
    BY <1>1, <2>3 DEF Take, Position
<1>2. CASE Exit
  BY <1>2 DEF Exit, Position
<1>3. CASE SeeCtxDone \/ SeeClosed \/ Decode \/ HandlerReturns
  BY <1>3 DEF SeeCtxDone, SeeClosed, Decode, HandlerReturns, Position
<1> QED
  BY <1>1, <1>2, <1>3 DEF LoopRuns, DemoHandler

\* Every step keeps the types.
LEMMA BoundStep ==
  ASSUME QueueInv, OpenInv, BoundInv, [CoherenceNext]_coherenceVars
  PROVE  BoundInv'
<1>1. CASE UNCHANGED vars
  BY <1>1 DEF BoundInv, vars, ctrl, redis, channel, looping, Position
<1>2. CASE Demo
  <2>1. CASE DemoPublishes
    BY <1>1, <2>1, PublishBound, DemoAssumption DEF DemoPublishes, Payload
  <2>2. CASE ~ DemoPublishes
    BY <1>1, <1>2, <2>2
    DEF Demo, DemoSubscribes, DemoSets, DemoGets, DemoDeletes, DemoGetsAgain, DemoWaits, Proceed
  <2> QED
    BY <2>1, <2>2
<1>3. CASE Library
  <2>1. Len(published) \in 0 .. MaxPublish
    BY BufferAssumption DEF QueueInv, BoundInv
  <2> QED
    BY <1>3, <2>1 DEF Library, Subscribe, SubscribeFails, SubscribeReturns, OpenInv, BoundInv,
       ctrl, redis, channel, looping, Position
<1>4. CASE SiblingPublishes
  BY <1>4, PublishBound DEF SiblingPublishes
<1>5. CASE Cancels
  BY <1>5 DEF Cancels, Cancel, BoundInv, redis, channel, looping, Position
<1>6. CASE SiblingWrites \/ Lapses \/ CoherenceOver \/ UNCHANGED coherenceVars
  BY <1>1, <1>6 DEF SiblingWrites, Lapses, CoherenceOver, coherenceVars
<1> QED
  BY <1>2, <1>3, <1>4, <1>5, <1>6, GoRedisBound, LoopBound DEF CoherenceNext

----------------------------------------------------------------------------
(* The theorems. *)

CoherenceInv == DemoInv /\ QueueInv /\ OpenInv /\ BoundInv

\* The invariant holds in the beginning.
LEMMA InitEstablishes == CoherenceInit => CoherenceInv
<1> SUFFICES ASSUME CoherenceInit PROVE QueueInv /\ OpenInv /\ BoundInv
  BY DemoInit DEF CoherenceInv
<1> USE DEF CoherenceInit, Init
<1>1. QueueInv
  BY DEF QueueInv, Increasing, Before, UpTo
<1>2. OpenInv
  BY DEF OpenInv, NothingMissed
<1>3. BoundInv
  <2>1. Len(published) = 0 /\ Len(ch) = 0 /\ 0 \in 0 .. MaxPublish
    BY BufferAssumption
  <2>2. Len(published) <= MaxPublish /\ Len(ch) <= Buffer
    BY ONLY <2>1, BufferAssumption
  <2>3. /\ ctxDone = FALSE /\ attached = FALSE /\ confirmed = FALSE /\ chOpen = TRUE
        /\ pubsubOpen = FALSE /\ sub = "idle" /\ subRes = "none" /\ loop = "none"
        /\ from = 0 /\ handling = 0 /\ dropped = {}
    OBVIOUS
  <2> QED
    BY ONLY <2>1, <2>2, <2>3 DEF BoundInv
<1> QED
  BY <1>1, <1>2, <1>3

\* The invariant the theorems below rest on.
THEOREM CoherenceInductive == CoherenceSpec => []CoherenceInv
<1>1. CoherenceInv /\ [CoherenceNext]_coherenceVars => CoherenceInv'
  BY DemoStep, QueueStep, OpenStep, BoundStep DEF CoherenceInv
<1> QED
  BY <1>1, InitEstablishes, PTL DEF CoherenceSpec

\* The variables of the subscription are of their types.
THEOREM SubscriptionTypeCorrect == CoherenceSpec => []TypeOK
<1>1. CoherenceInv => TypeOK
  <2> SUFFICES ASSUME QueueInv, BoundInv PROVE TypeOK
    BY DEF CoherenceInv
  <2>1. wire \in Seq(Position) /\ ch \in Seq(Position) /\ handled \in Seq(Position)
    BY Positions
  <2>2. published \in BoundedSeq(Payload, MaxPublish)
    <3>1. PICK n \in 0 .. MaxPublish : n = Len(published)
      BY BufferAssumption DEF QueueInv, BoundInv
    <3>2. published \in [1 .. n -> Payload]
      BY <3>1 DEF QueueInv
    <3> QED
      BY <3>2 DEF BoundedSeq, SeqOf
  <2> QED
    BY <2>1, <2>2 DEF BoundInv, TypeOK
<1> QED
  BY <1>1, CoherenceInductive, PTL

\* The handler is called with well-formed messages only, in the order they were
\* published and once each, whatever is dropped, lost or cancelled
\* (invalidation.go:86-100).
THEOREM HandlesInOrder == CoherenceSpec => []HandledInOrder
<1>1. CoherenceInv => HandledInOrder
  BY DEF CoherenceInv, QueueInv, Increasing, HandledInOrder
<1> QED
  BY <1>1, CoherenceInductive, PTL

\* Every message published since Subscribe returned is handled, on its way, or
\* was lost by go-redis (invalidation.go:73-103).
THEOREM MissesNothing == CoherenceSpec => []NothingMissed
<1>1. CoherenceInv => NothingMissed
  BY DEF CoherenceInv, OpenInv
<1> QED
  BY <1>1, CoherenceInductive, PTL

\* A handler of the demo's invalidation finds the demo's value gone, whoever
\* else writes to the Redis under whatever prefix (main.go:97-110).
THEOREM HandlersSeeTheDelete == CoherenceSpec => []HandlerSeesTheDelete
<1>1. CoherenceInv => HandlerSeesTheDelete
  <2> SUFFICES ASSUME CoherenceInv, sent \in Range(handled)
               PROVE  mine = Absent \/ mine.val # MyValue
    BY DEF HandlerSeesTheDelete, mine
  <2>1. sent \in Pos
    BY DEF CoherenceInv, QueueInv, Range
  <2> QED
    BY <2>1 DEF CoherenceInv, DemoInv, Clean, Pos
<1> QED
  BY <1>1, CoherenceInductive, PTL

\* Cache implements CacheContract: a prefix that nothing continues behind a colon,
\* no other prefix and no key of a Cache without one, is a map of its own, whatever
\* is called under the others on the same Redis (cache.go:19-96).
THEOREM CachesImplementTheirContract == CoherenceSpec => CachesKeepTheirContract
<1>1. CoherenceInit => Contract!CInit
  BY DemoInit
<1>2. CoherenceInv /\ [CoherenceNext]_coherenceVars => [Contract!CNext]_(Contract!cvars)
  BY DemoStep DEF CoherenceInv, CacheStep
<1> QED
  BY <1>1, <1>2, CoherenceInductive, PTL DEF CoherenceSpec, CachesKeepTheirContract, Contract!CSpec
=============================================================================
