---------------------------- MODULE Invalidation ----------------------------
(***************************************************************************)
(* components/rediscache/invalidation.go: publishers broadcast the keys    *)
(* they changed on a Redis channel, and a subscriber hands each message to *)
(* a handler in a goroutine of its own until its context is done.          *)
(*                                                                         *)
(* Redis and go-redis are external: Redis sends a message to those who are *)
(* subscribed when it is published; go-redis reads the connection into a   *)
(* Go channel of bounded capacity and, when that stays full for too long,  *)
(* drops a message; it subscribes again after the connection broke, which  *)
(* loses what was published meanwhile, and closes the channel when the     *)
(* client is closed.                                                       *)
(***************************************************************************)
EXTENDS Naturals, Sequences, SequencesExt

CONSTANTS
  Keys,      \* what a publisher may invalidate, a set of keys being one value
  Buffer,    \* capacity of the Go channel
  MaxPublish \* bound: the messages published

ASSUME BufferAssumption == Buffer \in Nat \ {0} /\ MaxPublish \in Nat

\* Others may publish on the channel, too.
Payload == Keys \cup {"malformed"}

VARIABLES
  ctxDone,     \* is the context of Subscribe done?
  sub,         \* where Subscribe is
  subRes,      \* what it returned
  attached,    \* does Redis know of the subscription?
  confirmed,   \* has it answered so?
  published,   \* the messages of the channel, ever
  from,        \* how many of them came before Subscribe returned
  wire,        \* the positions of those that were sent and not read
  ch,          \* the positions of those in the Go channel
  chOpen,      \* is the Go channel open?
  dropped,     \* the positions go-redis dropped, or lost with a connection
  loop,        \* where the goroutine is
  handling,    \* the position of the message it received, or 0
  handled,     \* the positions of those the handler was called with
  pubsubOpen   \* is the subscription open?

ctrl    == <<ctxDone, sub, subRes, from>>
redis   == <<attached, confirmed, published>>
channel == <<wire, ch, chOpen, dropped>>
looping == <<loop, handling, handled>>
vars == <<ctrl, redis, channel, looping, pubsubOpen>>

Position == 1 .. MaxPublish

TypeOK ==
  /\ ctxDone \in BOOLEAN /\ attached \in BOOLEAN /\ confirmed \in BOOLEAN
  /\ sub \in {"idle", "receive", "returned"}
  /\ subRes \in {"none", "nil", "error"}
  /\ published \in BoundedSeq(Payload, MaxPublish) /\ from \in 0 .. MaxPublish
  /\ wire \in Seq(Position) /\ handled \in Seq(Position)
  /\ ch \in Seq(Position) /\ Len(ch) <= Buffer
  /\ dropped \subseteq Position /\ chOpen \in BOOLEAN
  /\ loop \in {"none", "select", "decode", "handler", "closing", "exited"}
  /\ handling \in 0 .. MaxPublish /\ pubsubOpen \in BOOLEAN
  /\ subRes = "error" => ~ pubsubOpen /\ loop = "none"

Init ==
  /\ ctxDone = FALSE /\ sub = "idle" /\ subRes = "none" /\ from = 0
  /\ attached = FALSE /\ confirmed = FALSE /\ published = << >>
  /\ wire = << >> /\ ch = << >> /\ chOpen = TRUE /\ dropped = {}
  /\ loop = "none" /\ handling = 0 /\ handled = << >> /\ pubsubOpen = FALSE

----------------------------------------------------------------------------
\* Redis and go-redis.

\* Publish, by a Publisher or by somebody else: fire and forget.
Publish(m) ==
  /\ Len(published) < MaxPublish
  /\ published' = Append(published, m)
  /\ wire' = IF attached THEN Append(wire, Len(published) + 1) ELSE wire
  /\ dropped' = IF confirmed /\ pubsubOpen /\ ~ attached
                THEN dropped \cup {Len(published) + 1} ELSE dropped
  /\ UNCHANGED <<ctrl, attached, confirmed, ch, chOpen, looping, pubsubOpen>>

\* The SUBSCRIBE command reaches Redis, for the first time or again, and is
\* answered.
Attach ==
  /\ pubsubOpen /\ ~ attached
  /\ attached' = TRUE
  /\ UNCHANGED <<ctrl, confirmed, published, channel, looping, pubsubOpen>>

Confirm ==
  /\ attached /\ ~ confirmed /\ confirmed' = TRUE
  /\ UNCHANGED <<ctrl, attached, published, channel, looping, pubsubOpen>>

\* The connection breaks, with what it carried.
Disconnect ==
  /\ loop # "none" /\ attached /\ attached' = FALSE
  /\ dropped' = dropped \cup Range(wire) /\ wire' = << >>
  /\ UNCHANGED <<ctrl, confirmed, published, ch, chOpen, looping, pubsubOpen>>

\* go-redis's reader, which pubsub.Channel starts.
Read ==
  /\ loop # "none" /\ pubsubOpen /\ chOpen /\ wire # << >> /\ Len(ch) < Buffer
  /\ ch' = Append(ch, Head(wire)) /\ wire' = Tail(wire)
  /\ UNCHANGED <<ctrl, redis, chOpen, dropped, looping, pubsubOpen>>

Drop ==
  /\ loop # "none" /\ pubsubOpen /\ chOpen /\ wire # << >> /\ Len(ch) = Buffer
  /\ dropped' = dropped \cup {Head(wire)} /\ wire' = Tail(wire)
  /\ UNCHANGED <<ctrl, redis, ch, chOpen, looping, pubsubOpen>>

\* The client was closed under the subscription.
ChannelCloses ==
  /\ loop # "none" /\ chOpen /\ chOpen' = FALSE
  /\ UNCHANGED <<ctrl, redis, wire, ch, dropped, looping, pubsubOpen>>

----------------------------------------------------------------------------
\* Subscribe.

Subscribe ==
  /\ sub = "idle"
  /\ sub' = "receive" /\ pubsubOpen' = TRUE
  /\ UNCHANGED <<ctxDone, subRes, from, redis, channel, looping>>

\* pubsub.Receive fails, by the context or by the connection.
SubscribeFails ==
  /\ sub = "receive"
  /\ sub' = "returned" /\ subRes' = "error"
  /\ pubsubOpen' = FALSE /\ attached' = FALSE /\ wire' = << >>
  /\ UNCHANGED <<ctxDone, from, confirmed, published, ch, chOpen, dropped, looping>>

\* [slip] The subscription was asked for, which is enough.
SubscribeReturnsUnconfirmed ==
  /\ sub = "receive"
  /\ sub' = "returned" /\ subRes' = "nil" /\ from' = Len(published)
  /\ loop' = "select"
  /\ UNCHANGED <<ctxDone, redis, channel, handling, handled, pubsubOpen>>

SubscribeReturns ==
  /\ sub = "receive" /\ confirmed
  /\ sub' = "returned" /\ subRes' = "nil" /\ from' = Len(published)
  /\ loop' = "select"
  /\ UNCHANGED <<ctxDone, redis, channel, handling, handled, pubsubOpen>>

----------------------------------------------------------------------------
\* The goroutine: select takes any case that is ready.

SeeCtxDone ==
  /\ loop = "select" /\ ctxDone
  /\ loop' = "closing"
  /\ UNCHANGED <<ctrl, redis, channel, handling, handled, pubsubOpen>>

Take ==
  /\ loop = "select" /\ ch # << >>
  /\ loop' = "decode" /\ handling' = Head(ch) /\ ch' = Tail(ch)
  /\ UNCHANGED <<ctrl, redis, wire, chOpen, dropped, handled, pubsubOpen>>

SeeClosed ==
  /\ loop = "select" /\ ~ chOpen /\ ch = << >>
  /\ loop' = "closing"
  /\ UNCHANGED <<ctrl, redis, channel, handling, handled, pubsubOpen>>

\* [slip] What cannot be decoded is the handler's to see.
DecodeAny ==
  /\ loop = "decode"
  /\ handled' = Append(handled, handling) /\ loop' = "handler"
  /\ UNCHANGED <<ctrl, redis, channel, handling, pubsubOpen>>

\* [slip] A malformed message ends the subscription.
DecodeReturns ==
  /\ loop = "decode"
  /\ IF published[handling] = "malformed"
     THEN loop' = "closing" /\ UNCHANGED handled
     ELSE loop' = "handler" /\ handled' = Append(handled, handling)
  /\ UNCHANGED <<ctrl, redis, channel, handling, pubsubOpen>>

\* decodeInvalidation, and the call of the handler.
Decode ==
  /\ loop = "decode"
  /\ IF published[handling] = "malformed"
     THEN loop' = "select" /\ UNCHANGED handled
     ELSE loop' = "handler" /\ handled' = Append(handled, handling)
  /\ UNCHANGED <<ctrl, redis, channel, handling, pubsubOpen>>

HandlerReturns ==
  /\ loop = "handler" /\ loop' = "select"
  /\ UNCHANGED <<ctrl, redis, channel, handling, handled, pubsubOpen>>

\* [slip] The subscription is left to the client.
ExitOpen ==
  /\ loop = "closing" /\ loop' = "exited"
  /\ UNCHANGED <<ctrl, redis, channel, handling, handled, pubsubOpen>>

\* The deferred Close.
Exit ==
  /\ loop = "closing" /\ loop' = "exited"
  /\ pubsubOpen' = FALSE /\ attached' = FALSE /\ wire' = << >>
  /\ UNCHANGED <<ctrl, confirmed, published, ch, chOpen, dropped, handling, handled>>

----------------------------------------------------------------------------
Cancel ==
  /\ ~ ctxDone /\ ctxDone' = TRUE
  /\ UNCHANGED <<sub, subRes, from, redis, channel, looping, pubsubOpen>>

Over ==
  /\ loop \in {"none", "exited"} /\ sub = "returned" /\ Len(published) = MaxPublish
  /\ UNCHANGED vars

Reader == Read \/ Drop

Loop == SeeCtxDone \/ Take \/ SeeClosed \/ Decode \/ HandlerReturns \/ Exit

Next ==
  \/ \E m \in Payload : Publish(m)
  \/ Attach \/ Confirm \/ Disconnect \/ Reader \/ ChannelCloses
  \/ Subscribe \/ SubscribeFails \/ SubscribeReturns
  \/ Loop \/ Cancel \/ Over

\* go-redis reads and the goroutine runs; a handler returns.
Spec == Init /\ [][Next]_vars /\ WF_vars(Read) /\ WF_vars(Loop)

----------------------------------------------------------------------------
\* The handler is called with well-formed messages only, in the order they were
\* published and once each (invalidation.go:86-100).
HandledInOrder ==
  /\ \A i \in DOMAIN handled : published[handled[i]] # "malformed"
  /\ \A i, j \in DOMAIN handled : i < j => handled[i] < handled[j]

\* Until the context is done or the client closed, every message published since
\* Subscribe returned is handled, on its way, or was dropped by go-redis: none
\* falls between the return and the subscription, the loop loses none, and a
\* malformed one costs nothing but itself (invalidation.go:73-103).
NothingMissed ==
  subRes = "nil" /\ ~ ctxDone /\ chOpen =>
    \A i \in from + 1 .. Len(published) :
      \/ i \in Range(handled) \cup Range(wire) \cup Range(ch) \cup dropped
      \/ i = handling
      \/ published[i] = "malformed"
=============================================================================
