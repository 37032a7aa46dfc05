----------------------------- MODULE Coherence ------------------------------
(***************************************************************************)
(* Caches kept in step by invalidations, as                                *)
(* examples/03-redis-cache/main.go uses them: an instance subscribes, sets *)
(* a key, reads it, deletes it, reads it again, publishes the invalidation *)
(* and waits for its own subscriber to tell of it.  Sibling instances use  *)
(* the same Redis, under this prefix and others, and the same channel,     *)
(* at the same time.                                                       *)
(*                                                                         *)
(* The demo is the fn of a RunOnce: ctx ends on a signal or after the demo *)
(* has returned.                                                           *)
(***************************************************************************)
EXTENDS Invalidation, Cache

CONSTANTS
  MyPrefix, MyKey, MyValue,         \* what the demo works on
  MyMessage,                        \* the message that names MyKey
  MaxSibling                        \* bound: what the siblings write

ASSUME DemoAssumption ==
  MyPrefix \in Prefix /\ MyKey \in Key /\ MyValue \in Value /\ MyMessage \in Keys

VARIABLES
  demo,           \* where the demo is
  sent,           \* the position of its message, or 0
  received,       \* does its channel, of capacity 1, hold something?
  siblings        \* how often the siblings have written

demoVars == <<demo, sent, received>>
coherenceVars == <<vars, cacheVars, demoVars, siblings>>

CoherenceInit ==
  /\ Init /\ CacheInit
  /\ demo = "subscribe" /\ sent = 0 /\ received = FALSE /\ siblings = 0

----------------------------------------------------------------------------
\* The demo returns an error of any call at once.
Proceed(from_, to) ==
  /\ demo = from_ /\ demo' = IF reply'.says = "error" THEN "error" ELSE to
  /\ UNCHANGED <<vars, sent, received, siblings>>

DemoSubscribes ==
  /\ demo = "subscribe" /\ sub = "returned"
  /\ demo' = IF subRes = "nil" THEN "set" ELSE "error"
  /\ UNCHANGED <<vars, cacheVars, sent, received, siblings>>

DemoSets == Set(MyPrefix, MyKey, MyValue, 60) /\ Proceed("set", "get")

DemoGets == Get(MyPrefix, MyKey) /\ Proceed("get", "delete")

DemoDeletes == Delete(MyPrefix, {MyKey}) /\ Proceed("delete", "getAgain")

DemoGetsAgain == Get(MyPrefix, MyKey) /\ Proceed("getAgain", "publish")

\* PUBLISH may fail, too, with or without effect.
DemoPublishes ==
  /\ demo = "publish"
  /\ \/ /\ Publish(MyMessage) /\ sent' = Len(published) + 1
        /\ demo' \in {"wait", "error"}
     \/ /\ demo' = "error" /\ UNCHANGED <<vars, sent>>
  /\ UNCHANGED <<cacheVars, received, siblings>>

\* [slip] Nothing but the message, or the context, ends the wait.
DemoWaitsOn ==
  /\ demo = "wait"
  /\ \/ received /\ demo' = "nil" /\ received' = FALSE
     \/ ctxDone /\ demo' = "error" /\ UNCHANGED received
  /\ UNCHANGED <<vars, cacheVars, sent, siblings>>

\* The three cases: the message, five seconds, the context.
DemoWaits ==
  /\ demo = "wait"
  /\ \/ received /\ demo' = "nil" /\ received' = FALSE
     \/ demo' = "nil" /\ UNCHANGED received
     \/ ctxDone /\ demo' = "error" /\ UNCHANGED received
  /\ UNCHANGED <<vars, cacheVars, sent, siblings>>

Demo ==
  \/ DemoSubscribes \/ DemoSets \/ DemoGets \/ DemoDeletes \/ DemoGetsAgain
  \/ DemoPublishes \/ DemoWaits

\* The demo's handler never blocks: what does not fit into received is dropped.
DemoHandler ==
  /\ HandlerReturns /\ received' = TRUE
  /\ UNCHANGED <<cacheVars, demo, sent, siblings>>

----------------------------------------------------------------------------
Others == <<demoVars, siblings>>

\* What siblings write, through Caches of their own.
SiblingWrites ==
  /\ siblings < MaxSibling /\ siblings' = siblings + 1
  /\ \E p \in Prefix :
       \/ \E k \in Key, v \in Value \ {MyValue}, ttl \in {0, 60} : Set(p, k, v, ttl)
       \/ \E k \in Key : Delete(p, {k})
       \/ Delete(p, {})
  /\ UNCHANGED <<vars, demoVars>>

\* One of the messages is left to the demo.
SiblingPublishes ==
  /\ sent = 0 => Len(published) < MaxPublish - 1
  /\ \E m \in Payload : Publish(m)
  /\ UNCHANGED <<cacheVars, Others>>

Lapses == (\E n \in StorageKey : Lapse(n)) /\ UNCHANGED <<vars, Others>>

\* A signal, or the end of the RunOnce.
Cancels == Cancel /\ UNCHANGED <<cacheVars, Others>>

RunOnceEnds == demo \in {"nil", "error"} /\ Cancels

Library ==
  /\ Subscribe \/ SubscribeFails \/ SubscribeReturns
  /\ UNCHANGED <<cacheVars, Others>>

GoRedis ==
  /\ Attach \/ Confirm \/ Disconnect \/ Reader \/ ChannelCloses
  /\ UNCHANGED <<cacheVars, Others>>

LoopRuns ==
  \/ (SeeCtxDone \/ Take \/ SeeClosed \/ Decode \/ Exit) /\ UNCHANGED <<cacheVars, Others>>
  \/ DemoHandler

CoherenceOver ==
  /\ demo \in {"nil", "error"} /\ loop \in {"none", "exited"}
  /\ UNCHANGED coherenceVars

CoherenceNext ==
  \/ Demo \/ Library \/ LoopRuns \/ GoRedis
  \/ SiblingWrites \/ SiblingPublishes \/ Lapses \/ Cancels
  \/ CoherenceOver

\* The demo's goroutine and the loop run, a command and Subscribe answer in the
\* end, if with an error, and five seconds pass; RunOnce cancels after fn.
CoherenceSpec ==
  /\ CoherenceInit /\ [][CoherenceNext]_coherenceVars
  /\ WF_coherenceVars(Demo) /\ WF_coherenceVars(Library)
  /\ WF_coherenceVars(LoopRuns) /\ WF_coherenceVars(RunOnceEnds)

----------------------------------------------------------------------------
\* When a subscriber's handler is called for an invalidation, the value it
\* invalidates is gone from the shared cache: whoever reads again does not read
\* it back (main.go:97-110, invalidation.go:27-29).
HandlerSeesTheDelete ==
  sent \in Range(handled) =>
    LET held == store[namespaced(MyPrefix, MyKey)]
    IN held = Absent \/ held.val # MyValue

\* The demo ends, though its message is dropped or lost with a connection, and
\* leaves no subscription and no goroutine (main.go:112-120,
\* invalidation.go:74-75, 84-93).
DemoEnds == <>(demo \in {"nil", "error"} /\ loop \in {"none", "exited"} /\ ~ pubsubOpen)
=============================================================================
