------------------------------ MODULE AppProofs ------------------------------
(***************************************************************************)
(* What App.Run and App.RunOnce guarantee for any components and errors.   *)
(* A step of the App is a step of lifecycle.Run or none of its, so all of  *)
(* LifecycleProofs carries over; what is left to show is that the filter,  *)
(* the trap and the synthetic component neither lose nor invent an error.  *)
(***************************************************************************)
EXTENDS App, LifecycleProofs

\* fn runs in the Start of the last component, and its error is stored before
\* that Start returns.
FnInv ==
  /\ once => N \in Item
  /\ fn # "none" => once
  /\ fn = "none" => fnRes = NoError
  /\ fnErr = fnRes

\* The App reads the result of Run and fn's error when both are final, or when
\* it has given up on fn.
ResultInv ==
  /\ appPc # "lifecycle" => pc = "returned"
  /\ ended => /\ withoutCanceled(RunResult) \subseteq result
              /\ result \subseteq withoutCanceled(RunResult)
                                  \cup {FnReport(e) : e \in {fnRes} \ {NoError}}
              /\ fnRes # NoError /\ ~ drainExpired => FnReport(fnRes) \in result

----------------------------------------------------------------------------
(* The engine in the App. *)

\* Calling the cancel function is the end of the context, or nothing.
LEMMA CancelStep == cancel /\ UNCHANGED lifecycleOnly => [Next]_vars
BY DEF cancel, lifecycleOnly, Next, CancelParent, CtxErrors, vars, NoError

\* A step of the App is one the engine by itself may take, or none of its own.
LEMMA EngineStep ==
  ASSUME FnInv, [AppNext]_appVars
  PROVE  [Next]_vars
<1> USE DEF FnInv
<1>1. CASE AppMain
  BY <1>1, CancelStep DEF AppMain, LifecycleReturned, Untrap, AppReturns, Next
<1>2. CASE AppDrain
  BY <1>2 DEF AppDrain, Next
<1>3. CASE AppComponent
  BY <1>3 DEF AppComponent, Next, Component
<1>4. CASE AppTrap
  BY <1>4, CancelStep DEF AppTrap, TrapFires, TrapReleased
<1>5. CASE Fn
  <2>1. ASSUME NEW r \in Errors, FnPanics(r) PROVE [Next]_vars
    BY <2>1 DEF FnPanics, Next, Component, Outcome
  <2> QED
    BY <1>5, <2>1 DEF Fn, FnReturns
<1>6. CASE FnPlumbing
  <2>1. CASE FnCancels
    BY <2>1, CancelStep DEF FnCancels
  <2>2. CASE FnStartReturns \/ FnStopReturns
    BY <2>2 DEF FnStartReturns, FnStopReturns, Next, Component, Outcome
  <2> QED
    BY <1>6, <2>1, <2>2 DEF FnPlumbing
<1>7. CASE Signal
  BY <1>7 DEF Signal
<1>8. ASSUME NEW i \in Item, AppPlumbing(i) PROVE [Next]_vars
  BY <1>8 DEF AppPlumbing, Next
<1>9. ASSUME NEW e \in CtxErrors, CallerCancels(e) PROVE [Next]_vars
  BY <1>9 DEF CallerCancels, Next
<1>10. CASE AppFinished
  BY <1>10 DEF AppFinished, Next
<1>11. CASE UNCHANGED appVars
  BY <1>11 DEF appVars
<1> QED
  BY <1>1, <1>2, <1>3, <1>4, <1>5, <1>6, <1>7, <1>8, <1>9, <1>10, <1>11 DEF AppNext

\* The synthetic component's own order of events.
LEMMA FnStep ==
  ASSUME FnInv, [AppNext]_appVars
  PROVE  FnInv'
BY DEF FnInv, AppNext, AppMain, LifecycleReturned, Untrap, AppReturns, AppDrain, AppComponent,
   AppTrap, TrapFires, TrapReleased, Fn, FnReturns, FnPanics, FnPlumbing, FnCancels,
   FnStartReturns, FnStopReturns, Signal, AppPlumbing, CallerCancels, AppFinished,
   appVars, appOnly, fnVars, trapVars, Item, NoError, Outcome

\* What Run returned is what it returned.
LEMMA RunResultKept ==
  ASSUME IInv, [Next]_vars, pc = "returned"
  PROVE  RunResult' = RunResult
<1>1. UNCHANGED <<next, trigger, stopErr, initErr, drainExpired>>
  BY ResultIsFinal
<1> QED
  BY <1>1 DEF RunResult

\* fn returns after Run has only if Run gave up on it.
LEMMA LateFn ==
  ASSUME IInv, FnInv, NEW r \in Outcome, FnReturns(r), pc = "returned"
  PROVE  drainExpired
BY DEF IInv, StartedInv, DrainInv, FnInv, FnReturns

\* A step keeps the result App is about to return.
LEMMA ResultStep ==
  ASSUME IInv, FnInv, ResultInv, [AppNext]_appVars
  PROVE  ResultInv'
<1>1. [Next]_vars
  BY EngineStep
<1>2. CASE LifecycleReturned
  <2>1. pc = "returned" /\ UNCHANGED <<vars, fnVars>>
    BY <1>2 DEF LifecycleReturned
  <2>2. RunResult' = RunResult
    BY <1>1, <2>1, RunResultKept
  <2>3. result' = withoutCanceled(RunResult) \cup {FnReport(e) : e \in {fnRes} \ {NoError}}
    BY <1>2 DEF LifecycleReturned, FnInv
  <2>4. fnRes' = fnRes /\ pc' = pc
    BY <2>1 DEF vars, mainVars, fnVars
  <2> QED
    BY <2>1, <2>2, <2>3, <2>4 DEF ResultInv, withoutCanceled, FnReport
<1>3. CASE UNCHANGED <<appPc, result>> \/ Untrap \/ AppReturns
  <2>1. CASE appPc = "lifecycle"
    BY <1>3, <2>1 DEF ResultInv, ended, Untrap, AppReturns
  <2>2. CASE appPc # "lifecycle"
    <3>1. pc = "returned"
      BY <2>2 DEF ResultInv
    <3>2. /\ pc' = "returned"
          /\ drainExpired' = drainExpired
          /\ withoutCanceled(RunResult)' = withoutCanceled(RunResult)
      BY <1>1, <3>1, ResultIsFinal, RunResultKept DEF withoutCanceled
    <3>3. result' = result /\ (ended' => ended)
      BY <1>3 DEF Untrap, AppReturns, ended
    <3>4. fnRes' = fnRes \/ (fnRes = NoError /\ drainExpired)
      <4>1. ASSUME NEW r \in Outcome, FnReturns(r) PROVE fnRes = NoError /\ drainExpired
        BY <3>1, <4>1, LateFn DEF FnReturns, FnInv
      <4> QED
        BY <4>1 DEF AppNext, AppMain, LifecycleReturned, Untrap, AppReturns, AppDrain,
           AppComponent, AppTrap, TrapFires, TrapReleased, Fn, FnPanics, FnPlumbing, FnCancels,
           FnStartReturns, FnStopReturns, Signal, AppPlumbing, CallerCancels, AppFinished,
           appVars, appOnly, fnVars
    <3> QED
      BY <3>1, <3>2, <3>3, <3>4 DEF ResultInv
  <2> QED
    BY <2>1, <2>2
<1> QED
  BY <1>2, <1>3 DEF AppNext, AppMain, AppDrain, AppComponent, AppTrap, TrapFires, TrapReleased,
     Fn, FnReturns, FnPanics, FnPlumbing, FnCancels, FnStartReturns, FnStopReturns, Signal,
     AppPlumbing, CallerCancels, AppFinished, appVars, appOnly

----------------------------------------------------------------------------
(* The types. *)

\* What Run has returned is a set of entries.
LEMMA RunResultType ==
  ASSUME IInv
  PROVE  RunResult \subseteq Report
<1>1. /\ next \in 0 .. N + 1 /\ initErr \in Outcome /\ trigger \in Report
      /\ stopErr \in [Item -> Outcome \cup {StopTimeout, Pending}]
      /\ (initErr # NoError => next \in Item) /\ N \in Nat
  BY NAssumption DEF IInv, TypeOK, InitInv
<1>2. CASE initErr # NoError
  <2>1. RunResult = {[at |-> "init", item |-> next, err |-> initErr]}
    BY <1>2 DEF RunResult
  <2>2. next \in 0 .. N /\ initErr \in Errors
    BY <1>1, <1>2 DEF Item, Outcome
  <2> QED
    BY <2>1, <2>2 DEF Report
<1>3. CASE initErr = NoError
  <2> SUFFICES ASSUME NEW r \in RunResult PROVE r \in Report
    OBVIOUS
  <2>1. \/ r = trigger
        \/ \E i \in Item : stopErr[i] \notin {Pending, NoError}
                          /\ r = [at |-> "stop", item |-> i, err |-> stopErr[i]]
        \/ r = [at |-> "drain", item |-> 0, err |-> StopTimeout]
    BY <1>3 DEF RunResult
  <2>2. ASSUME NEW i \in Item, stopErr[i] \notin {Pending, NoError}
        PROVE  [at |-> "stop", item |-> i, err |-> stopErr[i]] \in Report
    <3>1. i \in 0 .. N /\ stopErr[i] \in Errors \cup {StopTimeout}
      BY <1>1, <2>2 DEF Item, Outcome
    <3> QED
      BY <3>1 DEF Report
  <2>3. [at |-> "drain", item |-> 0, err |-> StopTimeout] \in Report
    BY <1>1 DEF Report
  <2> QED
    BY <1>1, <2>1, <2>2, <2>3
<1> QED
  BY <1>2, <1>3

\* A step of the App keeps its variables in their types.
LEMMA AppTypeStep ==
  ASSUME IInv, FnInv, AppTypeOK, [AppNext]_appVars
  PROVE  AppTypeOK'
<1>1. CASE LifecycleReturned
  <2>1. withoutCanceled(RunResult) \subseteq Report
    BY RunResultType DEF withoutCanceled
  <2>2. {FnReport(e) : e \in {fnErr} \ {NoError}} \subseteq {FnReport(e) : e \in Errors}
    BY DEF AppTypeOK, Outcome
  <2>3. result' \subseteq Report \cup {FnReport(e) : e \in Errors}
    BY <1>1, <2>1, <2>2 DEF LifecycleReturned
  <2> QED
    BY <1>1, <2>3 DEF AppTypeOK, LifecycleReturned, vars, trapVars, fnVars
<1>2. CASE result' = result
  BY <1>2 DEF AppTypeOK, AppNext, AppMain, LifecycleReturned, Untrap, AppReturns, AppDrain,
     AppComponent, AppTrap, TrapFires, TrapReleased, Fn, FnReturns, FnPanics, FnPlumbing,
     FnCancels, FnStartReturns, FnStopReturns, Signal, AppPlumbing, CallerCancels, AppFinished,
     appVars, appOnly, fnVars, trapVars
<1> QED
  BY <1>1, <1>2 DEF AppNext, AppMain, Untrap, AppReturns, AppDrain, AppComponent, AppTrap,
     TrapFires, TrapReleased, Fn, FnReturns, FnPanics, FnPlumbing, FnCancels, FnStartReturns,
     FnStopReturns, Signal, AppPlumbing, CallerCancels, AppFinished, appVars, appOnly

----------------------------------------------------------------------------
(* The theorems. *)

AppInv == AppTypeOK /\ IInv /\ FnInv /\ ResultInv

\* The conjunction of the above holds in every reachable state.
THEOREM AppInductive == AppSpec => []AppInv
<1>1. AppInit => AppInv
  <2> SUFFICES ASSUME AppInit PROVE AppInv
    OBVIOUS
  <2>1. IInv
    BY InductiveInit, TypeInit DEF AppInit, IInv
  <2>2. once => N \in Item
    <3>1. once => N > 0
      BY Zenon DEF AppInit
    <3> QED
      BY <3>1, NAssumption DEF Item
  <2>3. AppTypeOK
    BY DEF AppInit, AppTypeOK, Outcome
  <2> QED
    BY <2>1, <2>2, <2>3 DEF AppInit, AppInv, FnInv, ResultInv, ended
<1>2. AppInv /\ [AppNext]_appVars => AppInv'
  BY EngineStep, InductiveStep, FnStep, ResultStep, AppTypeStep DEF AppInv
<1> QED
  BY <1>1, <1>2, PTL DEF AppSpec

\* The variables of the App are of their types.
THEOREM AppTypeCorrect == AppSpec => []AppTypeOK
<1>1. AppInv => AppTypeOK
  BY DEF AppInv
<1> QED
  BY <1>1, AppInductive, PTL

\* For any components: the App keeps the contract of core/component.go too,
\* the synthetic component included.
THEOREM AppKeepsContract == AppSpec => KeepsContract
<1>1. AppInit => Contract!CInit
  BY ContractInit DEF AppInit
<1>2. AppInv /\ [AppNext]_appVars => [Contract!CNext]_(Contract!cvars)
  BY EngineStep, ContractStep DEF AppInv
<1> QED
  BY <1>1, <1>2, AppInductive, PTL DEF AppSpec, KeepsContract, Contract!CSpec

\* For any components: the error fn returned, when it did not panic, is in what
\* RunOnce returns, unless fn outlived the wait for it (app.go:193-195, 203-219).
THEOREM FnErrorsReturned == AppSpec => []FnErrorReturned
<1>1. AppInv => FnErrorReturned
  BY DEF AppInv, ResultInv, FnErrorReturned
<1> QED
  BY <1>1, AppInductive, PTL

\* For any components: the filter drops no failure but what wraps
\* context.Canceled (app.go:222-244).
THEOREM FailuresKept == AppSpec => []ShutdownFailuresKept
<1>1. AppInv => ShutdownFailuresKept
  <2> SUFFICES ASSUME AppInv, ended, initErr = NoError
               PROVE  /\ trigger.at = "start" /\ ~ isCanceled(trigger.err) => trigger \in result
                      /\ \A i \in Item :
                           stopErr[i] \notin {Pending, NoError} /\ ~ isCanceled(stopErr[i]) =>
                             [at |-> "stop", item |-> i, err |-> stopErr[i]] \in result
                      /\ \/ \A i \in Item : start[i] = "exited"
                         \/ StopTimeout \in {r.err : r \in result}
    BY DEF ShutdownFailuresKept
  <2>1. withoutCanceled(RunResult) \subseteq result /\ pc = "returned"
    BY DEF AppInv, ResultInv, ended
  <2>2. ASSUME trigger.at = "start", ~ isCanceled(trigger.err) PROVE trigger \in result
    <3>1. trigger \in RunResult
      BY <2>2 DEF RunResult, NoTrigger
    <3> QED
      BY <2>1, <2>2, <3>1 DEF withoutCanceled
  <2>3. ASSUME NEW i \in Item, stopErr[i] \notin {Pending, NoError}, ~ isCanceled(stopErr[i])
        PROVE  [at |-> "stop", item |-> i, err |-> stopErr[i]] \in result
    <3>1. [at |-> "stop", item |-> i, err |-> stopErr[i]] \in RunResult
      BY <2>3 DEF RunResult
    <3> QED
      BY <2>1, <2>3, <3>1 DEF withoutCanceled
  <2>4. ASSUME ~ \A i \in Item : start[i] = "exited" PROVE StopTimeout \in {r.err : r \in result}
    <3>1. drainExpired = TRUE
      BY <2>1, <2>4 DEF AppInv, IInv, DrainInv, TypeOK
    <3>2. [at |-> "drain", item |-> 0, err |-> StopTimeout] \in RunResult
      BY <3>1 DEF RunResult
    <3>3. ~ isCanceled(StopTimeout)
      BY WrapsCanceledAssumption, ErrorsAssumption DEF isCanceled, StopTimeout
    <3>4. [at |-> "drain", item |-> 0, err |-> StopTimeout] \in result
      BY <2>1, <3>2, <3>3 DEF withoutCanceled
    <3> QED
      BY <3>4
  <2> QED
    BY <2>2, <2>3, <2>4
<1> QED
  BY <1>1, AppInductive, PTL

\* For any components: a shutdown in which nothing failed is a nil result.
THEOREM CleanShutdownsAreNil == AppSpec => []CleanShutdownIsNil
<1>1. AppInv => CleanShutdownIsNil
  <2> SUFFICES ASSUME AppInv, ended,
                      {startRes[i] : i \in Item} \cup {stopRes[i] : i \in Item} \cup {initErr}
                        \subseteq {NoError, "canceled"},
                      fnRes = NoError,
                      ~ drainExpired, \A i \in Item : stopErr[i] # StopTimeout,
                      parentErr # "deadline"
               PROVE  result = {}
    BY DEF CleanShutdownIsNil
  <2>1. \A i \in Item : /\ startRes[i] \in {NoError, "canceled"}
                        /\ stopRes[i] \in {NoError, "canceled"}
    OBVIOUS
  <2>2. ASSUME NEW r \in RunResult PROVE r.err = "canceled"
    <3>1. CASE initErr # NoError
      BY <3>1, <2>2 DEF RunResult
    <3>2. CASE initErr = NoError
      <4>1. CASE r = trigger /\ trigger # NoTrigger
        BY <2>1, <4>1 DEF AppInv, IInv, TypeOK, TriggerInv, BlameInv, CtxErrors
      <4>2. ASSUME NEW i \in Item, stopErr[i] \notin {Pending, NoError}, r.err = stopErr[i]
            PROVE  r.err = "canceled"
        BY <2>1, <4>2 DEF AppInv, IInv, StopInv
      <4> QED
        BY <2>2, <3>2, <4>1, <4>2 DEF RunResult, AppInv, IInv, TypeOK
    <3> QED
      BY <3>1, <3>2
  <2>3. withoutCanceled(RunResult) = {}
    BY <2>2 DEF withoutCanceled, isCanceled
  <2> QED
    BY <2>3 DEF AppInv, ResultInv
<1> QED
  BY <1>1, AppInductive, PTL
==============================================================================
