------------------------------ MODULE Registry ------------------------------
(***************************************************************************)
(* App's registration table (core/app.go): Register called from several    *)
(* goroutines while others call Run or RunOnce.                            *)
(*                                                                         *)
(* Every method takes App.mu for its whole body, so a call is one step;    *)
(* Run and RunOnce take it twice, in markStarted and again in buildItems,  *)
(* and anything may happen in between.                                     *)
(***************************************************************************)
EXTENDS Integers, Sequences

CONSTANTS
  Component,   \* the components somebody registers, each once
  Name(_),     \* the name of each
  Driver       \* the goroutines that call Run or RunOnce

VARIABLES
  components,  \* App.components
  names,       \* App.names
  started,     \* App.started
  reply,       \* what Register answered for each component
  driver,      \* where each Run or RunOnce is
  items        \* what each got from buildItems

vars == <<components, names, started, reply, driver, items>>

Replies == {"ok", "ErrAppAlreadyStarted", "ErrDuplicateComponent"}

TypeOK ==
  /\ components \in Seq(Component)
  /\ names \subseteq {Name(c) : c \in Component}
  /\ started \in BOOLEAN
  /\ reply \in [Component -> Replies \cup {"none"}]
  /\ driver \in [Driver -> {"idle", "marked", "refused", "running"}]
  /\ items \in [Driver -> Seq(Component)]

Init ==
  /\ components = << >> /\ names = {} /\ started = FALSE
  /\ reply = [c \in Component |-> "none"]
  /\ driver = [d \in Driver |-> "idle"]
  /\ items = [d \in Driver |-> << >>]

----------------------------------------------------------------------------
Answer(c, r) == reply[c] = "none" /\ reply' = [reply EXCEPT ![c] = r]

Accept(c) ==
  /\ Answer(c, "ok")
  /\ names' = names \cup {Name(c)}
  /\ components' = Append(components, c)
  /\ UNCHANGED <<started, driver, items>>

Refuse(c) ==
  /\ \/ started /\ Answer(c, "ErrAppAlreadyStarted")
     \/ ~started /\ Name(c) \in names /\ Answer(c, "ErrDuplicateComponent")
  /\ UNCHANGED <<components, names, started, driver, items>>

\* [slip] Only the name is checked.
RegisterLate(c) ==
  \/ Name(c) \notin names /\ Accept(c)
  \/ Refuse(c)

\* [slip] The started flag is checked, the name is not.
RegisterTwice(c) ==
  \/ ~started /\ Accept(c)
  \/ Refuse(c)

Register(c) ==
  \/ ~started /\ Name(c) \notin names /\ Accept(c)
  \/ Refuse(c)

\* [slip] Two calls find the App idle and both go on.
markStartedUnchecked(d) ==
  /\ driver[d] = "idle"
  /\ started' = TRUE
  /\ driver' = [driver EXCEPT ![d] = "marked"]
  /\ UNCHANGED <<components, names, reply, items>>

markStarted(d) ==
  /\ driver[d] = "idle"
  /\ started' = TRUE
  /\ driver' = [driver EXCEPT ![d] = IF started THEN "refused" ELSE "marked"]
  /\ UNCHANGED <<components, names, reply, items>>

buildItems(d) ==
  /\ driver[d] = "marked"
  /\ driver' = [driver EXCEPT ![d] = "running"]
  /\ items' = [items EXCEPT ![d] = components]
  /\ UNCHANGED <<components, names, started, reply>>

\* Every call has been answered.
Answered ==
  /\ \A c \in Component : reply[c] # "none"
  /\ \A d \in Driver : driver[d] \in {"refused", "running"}
  /\ UNCHANGED vars

Next ==
  \/ \E c \in Component : Register(c)
  \/ \E d \in Driver : markStarted(d) \/ buildItems(d)
  \/ Answered

Spec == Init /\ [][Next]_vars

----------------------------------------------------------------------------
\* A component Register accepted is one that Run drives, and Run drives no
\* other, though registrations race with it (app.go:114-126, 246-276).
AcceptedAreDriven ==
  \A d \in Driver, c \in Component :
    driver[d] = "running" =>
      (reply[c] = "ok" <=> \E k \in 1 .. Len(items[d]) : items[d][k] = c)

\* No two components that Run drives have one name: the log tag and the error
\* message tell them apart (errors.go:23-26).
DrivenHaveOwnNames ==
  \A d \in Driver : driver[d] = "running" =>
    \A j, k \in 1 .. Len(items[d]) : Name(items[d][j]) = Name(items[d][k]) => j = k

\* An App is driven at most once (errors.go:9-12).
DrivenOnce ==
  \A d, e \in Driver :
    driver[d] \in {"marked", "running"} /\ driver[e] \in {"marked", "running"} => d = e
=============================================================================
