-------------------------------- MODULE App --------------------------------
(***************************************************************************)
(* App.Run and App.RunOnce (core/app.go) around one call of lifecycle.Run, *)
(* with the signal trap (core/internal/signals/signals.go) beside it.      *)
(*                                                                         *)
(* parentErr of Lifecycle is here runCtx.Err(): runCtx ends when the       *)
(* caller's context does, or when somebody calls its cancel - the trap on  *)
(* a signal, the trap's stop function, RunOnce once fn has returned.       *)
(* In a RunOnce the last component, N, is the synthetic "__runonce_fn__".  *)
(***************************************************************************)
EXTENDS Lifecycle

CONSTANT WrapsCanceled   \* the component errors that wrap context.Canceled

ASSUME WrapsCanceledAssumption == WrapsCanceled \subseteq Errors

VARIABLES
  once,        \* is this a RunOnce?
  appPc,       \* where Run or RunOnce is
  trap,        \* where the trap's goroutine is
  registered,  \* is the trap's channel registered with os/signal?
  pending,     \* does that channel, of capacity 1, hold a signal?
  fn,          \* where the synthetic Start is
  fnRes,       \* what fn returned
  fnErr,       \* the variable RunOnce stores it in
  result       \* the joined errors App returns; {} is nil

trapVars == <<trap, registered, pending>>
fnVars == <<once, fn, fnRes, fnErr>>
appOnly == <<appPc, trapVars, fnVars, result>>
appVars == <<vars, appOnly>>

FnReport(e) == [at |-> "fn", item |-> N, err |-> e]

AppTypeOK ==
  /\ once \in BOOLEAN
  /\ appPc \in {"lifecycle", "untrap", "waiting", "done"}
  /\ trap \in {"none", "watching", "exited"}
  /\ registered \in BOOLEAN /\ pending \in BOOLEAN
  /\ fn \in {"none", "stored", "finished"}
  /\ fnRes \in Outcome /\ fnErr \in Outcome
  /\ result \subseteq Report \cup {FnReport(e) : e \in Errors}

\* The App has been marked started; Init runs under the trap already.
AppInit ==
  /\ Init
  /\ once \in {N > 0 /\ N \notin HasInit, FALSE}
  /\ appPc = "lifecycle"
  /\ trap \in {"none", "watching"} /\ registered = (trap = "watching")
  /\ pending = FALSE
  /\ fn = "none" /\ fnRes = NoError /\ fnErr = NoError
  /\ result = {}

----------------------------------------------------------------------------
\* The cancel function of runCtx: the first end of a context is its only one.
cancel == parentErr' = IF parentErr = NoError THEN "canceled" ELSE parentErr

lifecycleOnly == <<mainVars, startVars, drainVars, stopVars, finalVars>>

\* The caller's context ends.
CallerCancels(e) == CancelParent(e) /\ UNCHANGED appOnly

\* A signal arrives: os/signal sends without blocking, a second one is lost.
Signal ==
  /\ registered /\ ~pending
  /\ pending' = TRUE
  /\ UNCHANGED <<vars, appPc, trap, registered, fnVars, result>>

\* [slip] The signal is taken and nothing is cancelled.
TrapFiresDeaf ==
  /\ trap = "watching" /\ pending
  /\ pending' = FALSE /\ trap' = "exited"
  /\ UNCHANGED <<vars, appPc, registered, fnVars, result>>

\* The goroutine of Trap: its two cases, then close(done).
TrapFires ==
  /\ trap = "watching" /\ pending
  /\ cancel
  /\ pending' = FALSE /\ trap' = "exited"
  /\ UNCHANGED <<lifecycleOnly, appPc, registered, fnVars, result>>

TrapReleased ==
  /\ trap = "watching" /\ parentErr # NoError
  /\ trap' = "exited"
  /\ UNCHANGED <<vars, appPc, registered, pending, fnVars, result>>

----------------------------------------------------------------------------
\* The synthetic component of RunOnce.

synthetic(i) == once /\ i = N

\* [slip] fn's error is left to the lifecycle, like any Start error.
FnReturnsAsStartError(r) ==
  /\ once /\ start[N] = "running" /\ fn = "none"
  /\ StartReturns(N, r)
  /\ fn' = "finished" /\ fnRes' = r
  /\ UNCHANGED <<once, appPc, trapVars, fnErr, result>>

\* fn returns r, which is stored under fnMu ...
FnReturns(r) ==
  /\ once /\ start[N] = "running" /\ fn = "none"
  /\ fn' = "stored" /\ fnRes' = r /\ fnErr' = r
  /\ UNCHANGED <<vars, once, appPc, trapVars, result>>

\* [slip] The shutdown is left to somebody else.
FnCancelsNothing ==
  /\ fn = "stored" /\ fn' = "finished"
  /\ UNCHANGED <<vars, once, appPc, trapVars, fnRes, fnErr, result>>

\* ... then runCtx is cancelled ...
FnCancels ==
  /\ fn = "stored" /\ fn' = "finished"
  /\ cancel
  /\ UNCHANGED <<lifecycleOnly, once, appPc, trapVars, fnRes, fnErr, result>>

\* ... and the synthetic Start returns nil.
FnStartReturns ==
  /\ fn = "finished" /\ StartReturns(N, NoError)
  /\ UNCHANGED appOnly

\* fn panics: safeCall makes a Start error of it, which wraps nothing.
FnPanics(r) ==
  /\ once /\ fn = "none" /\ StartReturns(N, r)
  /\ UNCHANGED appOnly

\* Its Stop is func(context.Context) error { return nil }.
FnStopReturns ==
  /\ once /\ StopReturns(N, NoError)
  /\ UNCHANGED appOnly

----------------------------------------------------------------------------
\* lifecycle.Run has returned: the error is filtered, fnErr read and joined.

isCanceled(e) == e = "canceled" \/ e \in WrapsCanceled

\* [slip] One canceled member and the whole aggregate is dropped.
withoutCanceledAny(rs) == IF \E r \in rs : isCanceled(r.err) THEN {} ELSE rs

\* [slip] Nothing is stripped.
withoutCanceledNone(rs) == rs

withoutCanceled(rs) == {r \in rs : ~ isCanceled(r.err)}

LifecycleReturned ==
  /\ appPc = "lifecycle" /\ pc = "returned"
  /\ result' = withoutCanceled(RunResult)
               \cup {FnReport(e) : e \in {fnErr} \ {NoError}}
  /\ appPc' = "untrap"
  /\ UNCHANGED <<vars, trapVars, fnVars>>

\* [slip] stop waits for the goroutine without waking it.
UntrapNoCancel ==
  /\ appPc = "untrap" /\ appPc' = "waiting"
  /\ registered' = FALSE
  /\ UNCHANGED <<vars, trap, pending, fnVars, result>>

\* The deferred calls: stop() unregisters the channel and cancels runCtx ...
Untrap ==
  /\ appPc = "untrap" /\ appPc' = "waiting"
  /\ registered' = FALSE
  /\ cancel
  /\ UNCHANGED <<lifecycleOnly, trap, pending, fnVars, result>>

\* ... and waits for the trap's goroutine, if there is one.
AppReturns ==
  /\ appPc = "waiting" /\ trap # "watching"
  /\ appPc' = "done"
  /\ UNCHANGED <<vars, trapVars, fnVars, result>>

----------------------------------------------------------------------------
AppMain == (Main /\ UNCHANGED appOnly) \/ LifecycleReturned \/ Untrap \/ AppReturns

AppDrain == Drain /\ UNCHANGED appOnly

AppPlumbing(i) == Plumbing(i) /\ UNCHANGED appOnly

AppTrap == TrapFires \/ TrapReleased

FnPlumbing == FnCancels \/ FnStartReturns \/ FnStopReturns

AppComponent ==
  /\ UNCHANGED appOnly
  /\ \/ \E r \in Outcome : InitItem(r)
     \/ \E i \in Item, r \in Outcome :
          ~ synthetic(i) /\ (StartReturns(i, r) \/ StopReturns(i, r))

Fn == \/ \E r \in Outcome : FnReturns(r)
      \/ \E r \in {e \in Errors : ~ isCanceled(e)} : FnPanics(r)

AppFinished ==
  /\ appPc = "done" /\ trap # "watching" /\ fn # "stored"
  /\ Finished /\ UNCHANGED appOnly

AppNext ==
  \/ AppMain \/ AppDrain \/ AppComponent \/ AppTrap
  \/ Fn \/ FnPlumbing \/ Signal
  \/ \E i \in Item : AppPlumbing(i)
  \/ \E e \in CtxErrors : CallerCancels(e)
  \/ AppFinished

\* As in Lifecycle; and the trap's goroutine, and the synthetic component
\* outside fn itself, run when they can.
AppFairness ==
  /\ WF_appVars(AppMain) /\ WF_appVars(AppDrain)
  /\ WF_appVars(AppTrap) /\ WF_appVars(FnPlumbing)
  /\ \A i \in Item : WF_appVars(AppPlumbing(i))

AppSpec == AppInit /\ [][AppNext]_appVars /\ AppFairness

----------------------------------------------------------------------------
(* Safety. *)

ended == appPc \in {"untrap", "waiting", "done"}

\* A shutdown somebody asked for, in which no component and no deadline
\* failed, is a nil result (app.go:131-136, 155-157): the cancellation micra
\* itself causes never shows, wherever it surfaces.
CleanShutdownIsNil ==
  /\ ended
  /\ {startRes[i] : i \in Item} \cup {stopRes[i] : i \in Item} \cup {initErr}
       \subseteq {NoError, "canceled"}
  /\ fnRes = NoError
  /\ ~ drainExpired /\ \A i \in Item : stopErr[i] # StopTimeout
  /\ parentErr # "deadline"
  => result = {}

\* What went wrong, and does not wrap context.Canceled, survives the filter: the
\* Start that brought the App down, a panic of fn among them; a Stop that failed; a
\* Stop or a Start, fn included, abandoned at its deadline (app.go:132-136, 171,
\* 208-210).
ShutdownFailuresKept ==
  ended /\ initErr = NoError =>
    /\ trigger.at = "start" /\ ~ isCanceled(trigger.err) => trigger \in result
    /\ \A i \in Item : stopErr[i] \notin {Pending, NoError} /\ ~ isCanceled(stopErr[i]) =>
         [at |-> "stop", item |-> i, err |-> stopErr[i]] \in result
    /\ (\A i \in Item : start[i] = "exited") \/ StopTimeout \in {r.err : r \in result}

\* RunOnce returns the error that fn returned, whoever else fails or cancels first,
\* unless fn outlived the wait for it (app.go:154-157, 193-195, 203-219); a panic
\* of fn's is a Start error, and no more is said of it than of another.
FnErrorReturned ==
  ended /\ fnRes # NoError /\ ~ drainExpired => FnReport(fnRes) \in result

(* Liveness. *)

asked == (pending /\ pc # "init") \/ fn = "stored" \/ pc = "returned"

\* Whoever asks for the end gets it, though every component hangs: a signal that
\* finds the trap in place, once the Inits are done (app.go:128-132,
\* signals.go:27-34); fn by returning (app.go:154-155); and lifecycle.Run, which
\* may have failed with neither: the trap is released then, too
\* (signals.go:37-44).
AskedAppEnds == asked ~> appPc = "done"

(* What the repository says and the code does not do. *)

\* Only errors that are context.Canceled and nothing else are stripped
\* (app.go:133-136).
OnlyCanceledStripped ==
  ended => \A r \in RunResult : r.err # "canceled" => r \in result
============================================================================
