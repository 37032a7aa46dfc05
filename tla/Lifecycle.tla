----------------------------- MODULE Lifecycle -----------------------------
(***************************************************************************)
(* The phase driver of micra: core/internal/lifecycle/lifecycle.go, Run.   *)
(*                                                                         *)
(* Four kinds of goroutine take part: the one that called Run ("main", a   *)
(* program counter), one per component's Start, one per component's Stop,  *)
(* and the drain goroutine that reads the Start results.  A component's    *)
(* Init, Start and Stop are the callers' code: they return nil or any      *)
(* error of Errors when they please, or never.  A panic in one of them is  *)
(* an error too (safeCall).                                                *)
(*                                                                         *)
(* Time is not measured: a deadline may pass at any moment while somebody  *)
(* waits for it.                                                           *)
(***************************************************************************)
EXTENDS Integers, Sequences

CONSTANTS
  N,            \* how many components are registered
  HasInit,      \* the components that implement core.Initializer
  Errors        \* the error values a component may return

NoError     == "nil"
StopTimeout == "stop timeout"               \* core.ErrStopTimeout
CtxErrors   == {"canceled", "deadline"}     \* what ctx.Err() may be
Pending     == "pending"                    \* no outcome recorded yet

Item == 1 .. N

ASSUME NAssumption == N \in Nat
ASSUME HasInitAssumption == HasInit \subseteq Item
ASSUME ErrorsAssumption ==
  /\ Errors \subseteq STRING
  /\ Errors \cap {NoError, StopTimeout, Pending} = {}

\* [slip] A buffer one short of a slot for every Start.
CapacityShort == N - 1

\* startResults := make(chan startResult, len(items))
Capacity == N

Outcome == Errors \cup {NoError}

\* An entry of the error Run returns: the phase it comes from, the component
\* it names (0 for none) and the error it wraps.
Report == [at : {"none", "init", "ctx", "start", "stop", "drain"},
           item : 0 .. N,
           err : Errors \cup CtxErrors \cup {NoError, StopTimeout}]

NoTrigger == [at |-> "none", item |-> 0, err |-> NoError]

VARIABLES
  pc,            \* where main is
  next,          \* the loop index of main's current phase
  start,         \* where each component's Start goroutine is
  startRes,      \* what each Start returned
  startResults,  \* the result channel: the components whose result is buffered
  drain,         \* where the drain goroutine is
  held,          \* the component whose result the drain goroutine took
  trigger,       \* triggerErr
  cancelled,     \* has internalCtx's own cancel been called?
  parentErr,     \* the caller's ctx.Err()
  stop,          \* where each component's Stop goroutine is
  stopRes,       \* what each Stop returned
  stopErr,       \* what main recorded for each Stop
  initRes,       \* what each Init returned; nil for a component without one
  initErr,       \* the error that ended the Init phase
  drainExpired,  \* did the wait for the Start goroutines time out?
  shutdownDone   \* is the shutdownDone channel closed?

mainVars   == <<pc, next>>
startVars  == <<start, startRes, startResults>>
drainVars  == <<drain, held, trigger, cancelled>>
stopVars   == <<stop, stopRes, stopErr>>
finalVars  == <<initRes, initErr, drainExpired, shutdownDone>>
vars == <<mainVars, startVars, drainVars, parentErr, stopVars, finalVars>>

TypeOK ==
  /\ pc \in {"init", "start", "wait", "stop", "await", "drain", "join", "returned"}
  /\ next \in 0 .. N + 1
  /\ start \in [Item -> {"idle", "launched", "running", "sending", "exited"}]
  /\ startRes \in [Item -> Outcome]
  /\ startResults \in Seq(Item)
  /\ drain \in {"off", "select", "got", "exited"}
  /\ held \in 0 .. N
  /\ trigger \in Report
  /\ cancelled \in BOOLEAN
  /\ parentErr \in CtxErrors \cup {NoError}
  /\ stop \in [Item -> {"idle", "running", "returned"}]
  /\ stopRes \in [Item -> Outcome]
  /\ stopErr \in [Item -> Outcome \cup {StopTimeout, Pending}]
  /\ initRes \in [Item -> Outcome \cup {Pending}]
  /\ initErr \in Outcome
  /\ drainExpired \in BOOLEAN
  /\ shutdownDone \in BOOLEAN

Init ==
  /\ pc = "init" /\ next = 1
  /\ start = [i \in Item |-> "idle"]
  /\ startRes = [i \in Item |-> NoError]
  /\ startResults = << >>
  /\ drain = "off" /\ held = 0
  /\ trigger = NoTrigger
  /\ cancelled = FALSE
  /\ parentErr \in CtxErrors \cup {NoError}
  /\ stop = [i \in Item |-> "idle"]
  /\ stopRes = [i \in Item |-> NoError]
  /\ stopErr = [i \in Item |-> Pending]
  /\ initRes = [i \in Item |-> Pending]
  /\ initErr = NoError
  /\ drainExpired = FALSE /\ shutdownDone = FALSE

----------------------------------------------------------------------------
\* Phase 1, main: Init in registration order; an error ends Run at once.

\* [slip] A failed Init is skipped instead of ending Run.
InitItemNoReturn(r) ==
  /\ pc = "init" /\ next \in Item
  /\ next \notin HasInit => r = NoError
  /\ initRes' = [initRes EXCEPT ![next] = r]
  /\ next' = next + 1
  /\ UNCHANGED <<pc, startVars, drainVars, parentErr, stopVars, initErr, drainExpired, shutdownDone>>

\* item.Init is nil, or returns r.
InitItem(r) ==
  /\ pc = "init" /\ next \in Item
  /\ next \notin HasInit => r = NoError
  /\ initRes' = [initRes EXCEPT ![next] = r]
  /\ initErr' = r
  /\ IF r = NoError THEN next' = next + 1 /\ pc' = pc
                    ELSE next' = next /\ pc' = "returned"
  /\ UNCHANGED <<startVars, drainVars, parentErr, stopVars, drainExpired, shutdownDone>>

InitDone ==
  /\ pc = "init" /\ next = N + 1
  /\ pc' = "start" /\ next' = 1
  /\ UNCHANGED <<startVars, drainVars, parentErr, stopVars, finalVars>>

----------------------------------------------------------------------------
\* Phase 2, main: running[i] = true and a goroutine for each Start.

LaunchStart ==
  /\ pc = "start" /\ next \in Item
  /\ start' = [start EXCEPT ![next] = "launched"]
  /\ next' = next + 1
  /\ UNCHANGED <<pc, startRes, startResults, drainVars, parentErr, stopVars, finalVars>>

LaunchDrain ==
  /\ pc = "start" /\ next = N + 1
  /\ pc' = "wait" /\ drain' = "select"
  /\ UNCHANGED <<next, startVars, held, trigger, cancelled, parentErr, stopVars, finalVars>>

----------------------------------------------------------------------------
\* The Start goroutine of component i.

InvokeStart(i) ==
  /\ start[i] = "launched"
  /\ start' = [start EXCEPT ![i] = "running"]
  /\ UNCHANGED <<mainVars, startRes, startResults, drainVars, parentErr, stopVars, finalVars>>

\* Start (through safeCall) returns r.
StartReturns(i, r) ==
  /\ start[i] = "running"
  /\ start' = [start EXCEPT ![i] = "sending"]
  /\ startRes' = [startRes EXCEPT ![i] = r]
  /\ UNCHANGED <<mainVars, startResults, drainVars, parentErr, stopVars, finalVars>>

\* The two cases of the goroutine's select, then the deferred startWG.Done.
SendResult(i) ==
  /\ Len(startResults) < Capacity
  /\ startResults' = Append(startResults, i)

DropResult == shutdownDone /\ UNCHANGED startResults

\* [slip] An unbuffered send with no way out once the drain goroutine is gone.
PostResultRendezvous(i) ==
  /\ start[i] = "sending" /\ drain = "select"
  /\ SendResult(i)
  /\ start' = [start EXCEPT ![i] = "exited"]
  /\ UNCHANGED <<mainVars, startRes, drainVars, parentErr, stopVars, finalVars>>

PostResult(i) ==
  /\ start[i] = "sending"
  /\ SendResult(i) \/ DropResult
  /\ start' = [start EXCEPT ![i] = "exited"]
  /\ UNCHANGED <<mainVars, startRes, drainVars, parentErr, stopVars, finalVars>>

----------------------------------------------------------------------------
\* Phase 3: the first error becomes the trigger and cancels internalCtx.

internalDone == cancelled \/ parentErr # NoError

\* [slip] The last error wins.
setTriggerLast(t) == trigger' = t /\ cancelled' = TRUE

\* [slip] The error is kept but nobody is told.
setTriggerNoCancel(t) ==
  /\ trigger' = IF trigger = NoTrigger THEN t ELSE trigger
  /\ UNCHANGED cancelled

setTrigger(t) ==
  \/ /\ trigger = NoTrigger
     /\ trigger' = t /\ cancelled' = TRUE
  \/ /\ trigger # NoTrigger
     /\ UNCHANGED <<trigger, cancelled>>

\* The drain goroutine takes a result ...
Receive ==
  /\ drain = "select" /\ startResults # << >>
  /\ held' = Head(startResults)
  /\ startResults' = Tail(startResults)
  /\ drain' = "got"
  /\ UNCHANGED <<mainVars, start, startRes, trigger, cancelled, parentErr, stopVars, finalVars>>

\* [slip] A nil result counts as a failure.
RecordStartErrNil ==
  /\ drain = "got" /\ held # 0
  /\ setTrigger([at |-> "start", item |-> held, err |-> startRes[held]])
  /\ drain' = "select" /\ held' = 0
  /\ UNCHANGED <<mainVars, startVars, parentErr, stopVars, finalVars>>

\* ... and hands an error on; a nil result is ignored.
RecordStartErr ==
  /\ drain = "got" /\ held # 0
  /\ IF startRes[held] = NoError
       THEN UNCHANGED <<trigger, cancelled>>
       ELSE setTrigger([at |-> "start", item |-> held, err |-> startRes[held]])
  /\ drain' = "select" /\ held' = 0
  /\ UNCHANGED <<mainVars, startVars, parentErr, stopVars, finalVars>>

ExitDrain ==
  /\ drain = "select" /\ shutdownDone
  /\ drain' = "exited"
  /\ UNCHANGED <<mainVars, startVars, held, trigger, cancelled, parentErr, stopVars, finalVars>>

\* Main wakes on internalCtx.Done and captures the parent's error, if any.
Capture ==
  /\ pc = "wait" /\ internalDone
  /\ IF parentErr = NoError
       THEN UNCHANGED <<trigger, cancelled>>
       ELSE setTrigger([at |-> "ctx", item |-> 0, err |-> parentErr])
  /\ pc' = "stop" /\ next' = N
  /\ UNCHANGED <<startVars, drain, held, parentErr, stopVars, finalVars>>

----------------------------------------------------------------------------
\* Phase 4, main: Stop in reverse order, each bounded by its own deadline.

wasRunning(i) == start[i] # "idle"

LaunchStop ==
  /\ pc = "stop" /\ next \in Item /\ wasRunning(next)
  /\ stop' = [stop EXCEPT ![next] = "running"]
  /\ pc' = "await"
  /\ UNCHANGED <<next, startVars, drainVars, parentErr, stopRes, stopErr, finalVars>>

\* Stop (through safeCall) returns r, perhaps long after main gave up on it.
StopReturns(i, r) ==
  /\ stop[i] = "running"
  /\ stop' = [stop EXCEPT ![i] = "returned"]
  /\ stopRes' = [stopRes EXCEPT ![i] = r]
  /\ UNCHANGED <<mainVars, startVars, drainVars, parentErr, stopErr, finalVars>>

\* Main records e as the outcome and goes on to the component before.
Settle(e) ==
  /\ pc = "await" /\ next \in Item
  /\ stopErr' = [stopErr EXCEPT ![next] = e]
  /\ pc' = "stop" /\ next' = next - 1
  /\ UNCHANGED <<startVars, drainVars, parentErr, stop, stopRes, finalVars>>

\* [slip] The result is read without waiting for it.
StopFinishedNoWait == Settle(stopRes[next])

StopFinished == pc = "await" /\ stop[next] = "returned" /\ Settle(stopRes[next])

\* [slip] The deadline passes and nothing is recorded.
StopExpiredSilent == Settle(NoError)

StopExpired == Settle(StopTimeout)

\* [slip] The loop runs once more, past the first component.
StopsDoneLate ==
  /\ pc = "stop" /\ next = 0
  /\ next' = next - 1 /\ pc' = "drain"
  /\ UNCHANGED <<startVars, drainVars, parentErr, stopVars, finalVars>>

StopsDone ==
  /\ pc = "stop" /\ next = 0
  /\ pc' = "drain"
  /\ UNCHANGED <<next, startVars, drainVars, parentErr, stopVars, finalVars>>

----------------------------------------------------------------------------
\* Phase 5, main: wait for the Start goroutines, up to a deadline, then for
\* the drain goroutine.

EndDrain(expired) ==
  /\ pc = "drain" /\ pc' = "join"
  /\ shutdownDone' = TRUE /\ drainExpired' = expired
  /\ UNCHANGED <<next, startVars, drainVars, parentErr, stopVars, initRes, initErr>>

\* [slip] startWG.Add inside the goroutine: one not yet scheduled is not counted.
AllExitedLateAdd ==
  (\A i \in Item : start[i] \in {"launched", "exited"}) /\ EndDrain(FALSE)

AllExited == (\A i \in Item : start[i] = "exited") /\ EndDrain(FALSE)

\* [slip] The wait for the Start goroutines has no deadline.
DrainExpiredNever == FALSE /\ EndDrain(TRUE)

DrainExpired == EndDrain(TRUE)

\* <-drainDone, then Run returns and its deferred cancel runs.
Join ==
  /\ pc = "join" /\ drain = "exited"
  /\ pc' = "returned" /\ cancelled' = TRUE
  /\ UNCHANGED <<next, startVars, drain, held, trigger, parentErr, stopVars, finalVars>>

\* What Run returned, as the set of its joined errors; {} is nil.
RunResult ==
  IF initErr # NoError
    THEN {[at |-> "init", item |-> next, err |-> initErr]}
    ELSE {t \in {trigger} : t # NoTrigger}
         \cup {[at |-> "stop", item |-> i, err |-> stopErr[i]] :
                 i \in {j \in Item : stopErr[j] \notin {Pending, NoError}}}
         \cup {[at |-> "drain", item |-> 0, err |-> StopTimeout] : d \in {drainExpired} \cap {TRUE}}

----------------------------------------------------------------------------
\* The caller's context ends, at any moment.
CancelParent(e) ==
  /\ parentErr = NoError
  /\ parentErr' = e
  /\ UNCHANGED <<mainVars, startVars, drainVars, stopVars, finalVars>>

Main ==
  \/ InitDone \/ LaunchStart \/ LaunchDrain \/ Capture
  \/ LaunchStop \/ StopFinished \/ StopExpired \/ StopsDone
  \/ AllExited \/ DrainExpired \/ Join

Drain == Receive \/ RecordStartErr \/ ExitDrain

Plumbing(i) == InvokeStart(i) \/ PostResult(i)

\* The components' own code: it owes nobody an answer.
Component ==
  \/ \E r \in Outcome : InitItem(r)
  \/ \E i \in Item, r \in Outcome : StartReturns(i, r) \/ StopReturns(i, r)

\* Run has returned and nothing it started is left to move.
Finished ==
  /\ pc = "returned" /\ drain # "got"
  /\ \A i \in Item : start[i] \in {"idle", "exited"} /\ stop[i] # "running"
  /\ UNCHANGED vars

Next ==
  \/ Main \/ Drain \/ Component
  \/ \E i \in Item : Plumbing(i)
  \/ \E e \in CtxErrors : CancelParent(e)
  \/ Finished

\* The Go scheduler runs every goroutine that can run, and timers fire; the
\* components' functions and the caller's context are free not to.
Fairness ==
  /\ WF_vars(Main) /\ WF_vars(Drain)
  /\ \A i \in Item : WF_vars(Plumbing(i))

Spec == Init /\ [][Next]_vars /\ Fairness

----------------------------------------------------------------------------
(* Safety. *)

\* The Stop of a component is not called before the Stop of every component
\* registered after it has returned or been given up on at its deadline
\* (component.go:36-37; the reverse loop of Phase 4).
StopOrder ==
  \A i, j \in Item :
    i < j /\ stop[i] # "idle" => stop[j] = "returned" \/ stopErr[j] = StopTimeout

\* When Run returns after starting the components, each Start goroutine has
\* exited, or Run reports that one did not in time (lifecycle.go:37-38).
DrainedOrReported ==
  pc = "returned" /\ initErr = NoError =>
    \/ \A i \in Item : start[i] = "exited"
    \/ [at |-> "drain", item |-> 0, err |-> StopTimeout] \in RunResult

\* The error blamed for the shutdown really happened: it is the caller's
\* ctx.Err(), or the error the named component's Start returned, and there is
\* one by the time anything is stopped (lifecycle.go:89-141).
TriggerGenuine ==
  /\ trigger.at = "ctx" => trigger.err = parentErr /\ parentErr # NoError
  /\ trigger.at = "start" =>
       /\ start[trigger.item] \in {"sending", "exited"}
       /\ trigger.err = startRes[trigger.item] /\ trigger.err # NoError
  /\ \A i \in Item : stop[i] # "idle" => trigger # NoTrigger

\* A Start goroutine with a result never finds the channel full, however slow
\* the drain goroutine is (lifecycle.go:58, 80-85).
SendNeverBlocks ==
  \A i \in Item : start[i] = "sending" => Len(startResults) < Capacity

\* No Stop is left out and none fails unheard: after the start phase the Stop of
\* every component whose Start has not failed was called, and a Stop that has
\* not returned, or returned an error, is named in what Run returns
\* (lifecycle.go:144-168, 192-201; errors.go:14-15).
StopReported ==
  pc = "returned" /\ initErr = NoError =>
    \A i \in Item :
      /\ startRes[i] = NoError => stop[i] # "idle"
      /\ stop[i] = "running" \/ stopRes[i] # NoError =>
           \E r \in RunResult : r.at = "stop" /\ r.item = i

(* Actions. *)

\* The first error blamed stays the one blamed, whichever goroutine records a
\* second (setTrigger, lifecycle.go:98-105).
FirstTriggerWins ==
  [][trigger # NoTrigger => UNCHANGED trigger]_vars

(* Liveness. *)

failing(i) == start[i] = "sending" /\ startRes[i] # NoError

\* A Start that fails, or the end of the caller's context, brings the whole of
\* Run to an end though every Start and Stop hangs: fail-fast (component.go:14),
\* and a deadline on each wait of Phases 4 and 5 (lifecycle.go:144-189).
RunEnds == (\E i \in Item : failing(i)) \/ (pc = "wait" /\ internalDone) ~> pc = "returned"

\* A Start goroutine whose component returned always exits, even long after
\* Run did: the engine leaks none of its own (lifecycle.go:60-64, 184-188).
NoGoroutineLeak == \A i \in Item : start[i] = "sending" ~> start[i] = "exited"

(* Refinement: Run keeps the contract of core/component.go. *)

contractPhase ==
  CASE pc = "init" \/ pc = "start" -> "setup"
    [] pc = "wait" -> "up"
    [] pc \in {"stop", "await", "drain"} -> "down"
    [] pc = "join" -> "drained"
    [] pc = "returned" -> IF initErr = NoError THEN "over" ELSE "aborted"

contractState(i) ==
  CASE stopErr[i] = StopTimeout -> "abandoned"
    [] stopErr[i] \notin {Pending, StopTimeout} -> "stopped"
    [] stopErr[i] = Pending /\ stop[i] # "idle" -> "stopping"
    [] stop[i] = "idle" /\ start[i] # "idle" -> "running"
    [] start[i] = "idle" /\ initRes[i] = NoError -> "initialized"
    [] OTHER -> "registered"

Contract == INSTANCE LifecycleContract WITH
  phase  <- contractPhase,
  state  <- [i \in Item |-> contractState(i)],
  live   <- {i \in Item : start[i] \in {"launched", "running"}},
  failed <- {i \in Item : startRes[i] # NoError},
  asked  <- parentErr # NoError,
  leaked <- drainExpired

\* Every step of Run is a step the contract allows, or none of its business.
KeepsContract == Contract!CSpec

(* What the repository says and the code does not do. *)

\* Only components that entered Start are stopped (lifecycle.go:66).
OnlyEnteredStopped ==
  \A i \in Item : stop[i] # "idle" => start[i] \notin {"idle", "launched"}
============================================================================
