-------------------------- MODULE LifecycleProofs --------------------------
(***************************************************************************)
(* What Lifecycle guarantees for any number of components, any of them     *)
(* with an Init, and any errors: its type invariant, the order of the      *)
(* Stops, that the error blamed for a shutdown is a real one, and that the *)
(* result channel is never full when a Start goroutine needs it.           *)
(***************************************************************************)
EXTENDS Lifecycle, FiniteSetTheorems, FunctionTheorems, TLAPS

\* A failed Init ends Run before anything is started; otherwise the Starts are
\* launched one after the other, and all of them.
StartedInv ==
  /\ pc # "returned" => initErr = NoError
  /\ pc = "init" \/ initErr # NoError => \A i \in Item : start[i] = "idle"
  /\ pc = "start" => next # 0 /\ \A i \in Item : start[i] = "idle" <=> i >= next
  /\ pc \notin {"init", "start"} /\ initErr = NoError => \A i \in Item : start[i] # "idle"

\* How far main has got with the Stops: those after `next' are settled, those
\* before it untouched.
StopInv ==
  /\ \A j \in Item : stopErr[j] # Pending =>
       /\ stop[j] # "idle"
       /\ stopErr[j] = StopTimeout \/ (stop[j] = "returned" /\ stopErr[j] = stopRes[j])
  /\ pc \in {"init", "start", "wait"} => \A j \in Item : stop[j] = "idle"
  /\ pc = "stop" => \A j \in Item : IF j > next THEN stopErr[j] # Pending ELSE stop[j] = "idle"
  /\ pc = "await" => /\ next \in Item
                     /\ stop[next] # "idle" /\ stopErr[next] = Pending
                     /\ \A j \in Item : /\ j > next => stopErr[j] # Pending
                                        /\ j < next => stop[j] = "idle"
  /\ pc \in {"drain", "join"} => \A j \in Item : stopErr[j] # Pending
  /\ pc = "returned" => IF initErr = NoError THEN \A j \in Item : stopErr[j] # Pending
                                              ELSE \A j \in Item : stop[j] = "idle"

\* Where the trigger can come from.
TriggerInv ==
  /\ cancelled /\ pc # "returned" => trigger # NoTrigger
  /\ pc \in {"stop", "await", "drain", "join"} => trigger # NoTrigger
  /\ pc = "returned" /\ initErr = NoError => trigger # NoTrigger
  /\ \A k \in 1 .. Len(startResults) : start[startResults[k]] = "exited"
  /\ held # 0 => start[held] = "exited"
  /\ trigger.at = "ctx" => trigger.err = parentErr /\ parentErr # NoError
  /\ trigger.at = "start" =>
       /\ trigger.item \in Item
       /\ start[trigger.item] = "exited"
       /\ trigger.err = startRes[trigger.item] /\ trigger.err # NoError

\* Who was still there when main stopped waiting for the Starts.
DrainInv ==
  /\ pc = "join" \/ (pc = "returned" /\ initErr = NoError) =>
       drainExpired \/ \A i \in Item : start[i] = "exited"

\* A Start goroutine posts once: no component is in the channel twice.
ChanInv ==
  \A j, k \in 1 .. Len(startResults) : j # k => startResults[j] # startResults[k]

\* How far main has got with the Inits, and what ended them.
InitInv ==
  /\ pc = "init" => next # 0
  /\ pc = "init" \/ initErr # NoError => \A j \in Item :
       /\ j < next => initRes[j] = NoError
       /\ j > next => initRes[j] = Pending
       /\ j = next => initRes[j] = IF pc = "init" THEN Pending ELSE initErr
  /\ pc # "init" /\ initErr = NoError => \A j \in Item : initRes[j] = NoError
  /\ initErr # NoError => next \in Item

\* Run returns after the drain goroutine, if it made one.
EndInv ==
  /\ pc \in {"init", "start"} => drain = "off"
  /\ pc = "returned" => drain \in {"off", "exited"}

\* What there is to blame, and where main may have given up.
BlameInv ==
  /\ \A i \in Item : start[i] \in {"idle", "launched", "running"} => startRes[i] = NoError
  /\ trigger = NoTrigger \/ trigger.at \in {"ctx", "start"}
  /\ drainExpired => pc \in {"join", "returned"} /\ initErr = NoError

----------------------------------------------------------------------------
(* Type correctness. *)

\* Every variable keeps its type in every step.
LEMMA TypeStep == ASSUME TypeOK, [Next]_vars PROVE TypeOK'
<1> USE NAssumption DEF Item, Outcome, CtxErrors, NoTrigger
<1> USE DEF TypeOK, mainVars, startVars, drainVars, stopVars, finalVars
<1>1. ASSUME NEW r \in Outcome, InitItem(r) PROVE TypeOK'
  BY <1>1 DEF InitItem
<1>2. CASE InitDone
  BY <1>2 DEF InitDone
<1>3. CASE LaunchStart
  BY <1>3 DEF LaunchStart
<1>4. CASE LaunchDrain
  BY <1>4 DEF LaunchDrain
<1>5. ASSUME NEW i \in Item, InvokeStart(i) PROVE TypeOK'
  BY <1>5 DEF InvokeStart
<1>6. ASSUME NEW i \in Item, NEW r \in Outcome, StartReturns(i, r) PROVE TypeOK'
  BY <1>6 DEF StartReturns
<1>7. ASSUME NEW i \in Item, PostResult(i) PROVE TypeOK'
  <2>1. startResults' \in Seq(Item)
    <3>1. CASE SendResult(i)
      BY <3>1 DEF SendResult
    <3>2. CASE DropResult
      BY <3>2 DEF DropResult
    <3> QED
      BY <1>7, <3>1, <3>2 DEF PostResult
  <2> QED
    BY <1>7, <2>1 DEF PostResult
<1>8. CASE Receive
  <2>1. startResults' \in Seq(Item) /\ held' \in Item
    BY <1>8 DEF Receive
  <2> QED
    BY <1>8, <2>1 DEF Receive
<1>9. CASE RecordStartErr
  <2>1. held \in Item
    BY <1>9 DEF RecordStartErr
  <2>2. [at |-> "start", item |-> held, err |-> startRes[held]] \in Report
    BY <2>1 DEF Report
  <2>3. trigger' \in Report /\ cancelled' \in BOOLEAN
    BY <1>9, <2>2 DEF RecordStartErr, setTrigger
  <2> QED
    BY <1>9, <2>3 DEF RecordStartErr
<1>10. CASE ExitDrain
  BY <1>10 DEF ExitDrain
<1>11. CASE Capture
  <2>1. [at |-> "ctx", item |-> 0, err |-> parentErr] \in Report
    BY DEF Report
  <2>2. trigger' \in Report /\ cancelled' \in BOOLEAN
    BY <1>11, <2>1 DEF Capture, setTrigger
  <2> QED
    BY <1>11, <2>2 DEF Capture
<1>12. CASE LaunchStop
  BY <1>12 DEF LaunchStop
<1>13. ASSUME NEW i \in Item, NEW r \in Outcome, StopReturns(i, r) PROVE TypeOK'
  BY <1>13 DEF StopReturns
<1>14. CASE StopFinished
  BY <1>14 DEF StopFinished, Settle
<1>15. CASE StopExpired
  BY <1>15 DEF StopExpired, Settle
<1>16. CASE StopsDone
  BY <1>16 DEF StopsDone
<1>17. CASE AllExited
  BY <1>17 DEF AllExited, EndDrain
<1>18. CASE DrainExpired
  BY <1>18 DEF DrainExpired, EndDrain
<1>19. CASE Join
  BY <1>19 DEF Join
<1>20. ASSUME NEW e \in CtxErrors, CancelParent(e) PROVE TypeOK'
  BY <1>20 DEF CancelParent
<1>21. CASE UNCHANGED vars
  BY <1>21 DEF vars
<1> QED
  BY <1>1, <1>2, <1>3, <1>4, <1>5, <1>6, <1>7, <1>8, <1>9, <1>10, <1>11, <1>12,
     <1>13, <1>14, <1>15, <1>16, <1>17, <1>18, <1>19, <1>20, <1>21
     DEF Next, Main, Drain, Plumbing, Component, Finished

\* Every variable has its type at first.
LEMMA TypeInit == ASSUME Init PROVE TypeOK
<1> USE NAssumption DEF Item, Outcome, CtxErrors, NoTrigger
<1>1. NoTrigger \in Report
  BY DEF Report
<1>2. startResults \in Seq(Item)
  BY DEF Init
<1>3. next \in 0 .. N + 1 /\ held \in 0 .. N
  BY DEF Init
<1>4. /\ start \in [Item -> {"idle", "launched", "running", "sending", "exited"}]
      /\ startRes \in [Item -> Outcome]
      /\ stop \in [Item -> {"idle", "running", "returned"}]
      /\ stopRes \in [Item -> Outcome]
      /\ stopErr \in [Item -> Outcome \cup {StopTimeout, Pending}]
      /\ initRes \in [Item -> Outcome \cup {Pending}]
  BY DEF Init
<1> HIDE DEF Item, NoTrigger
<1> QED
  BY <1>1, <1>2, <1>3, <1>4 DEF Init, TypeOK

\* Every variable keeps its type, whatever the components answer.
THEOREM TypeCorrect == Spec => []TypeOK
BY TypeInit, TypeStep, PTL DEF Spec

----------------------------------------------------------------------------
(* The inductive invariant, one conjunct at a time. *)

\* What a Stop returns, or the timeout, is never mistaken for no answer yet.
LEMMA Recorded == Pending \notin Outcome \cup {StopTimeout}
BY ErrorsAssumption DEF Outcome, Pending, StopTimeout, NoError

\* The Starts are launched in order, and only after every Init.
LEMMA StartedStep ==
  ASSUME TypeOK, StartedInv, [Next]_vars
  PROVE  StartedInv'
<1> USE NAssumption DEF TypeOK, StartedInv, Item, mainVars, startVars, drainVars, stopVars, finalVars
<1>1. ASSUME NEW r \in Outcome, InitItem(r) PROVE StartedInv'
  BY <1>1 DEF InitItem
<1>2. CASE InitDone
  BY <1>2 DEF InitDone
<1>3. CASE LaunchStart
  BY <1>3 DEF LaunchStart
<1>4. CASE LaunchDrain
  BY <1>4 DEF LaunchDrain
<1>5. ASSUME NEW i \in Item, InvokeStart(i) PROVE StartedInv'
  BY <1>5 DEF InvokeStart
<1>6. ASSUME NEW i \in Item, NEW r \in Outcome, StartReturns(i, r) PROVE StartedInv'
  BY <1>6 DEF StartReturns
<1>7. ASSUME NEW i \in Item, PostResult(i) PROVE StartedInv'
  BY <1>7 DEF PostResult
<1>8. CASE Receive
  BY <1>8 DEF Receive
<1>9. CASE RecordStartErr
  BY <1>9 DEF RecordStartErr
<1>10. CASE ExitDrain
  BY <1>10 DEF ExitDrain
<1>11. CASE Capture
  BY <1>11 DEF Capture
<1>12. CASE LaunchStop
  BY <1>12 DEF LaunchStop
<1>13. ASSUME NEW i \in Item, NEW r \in Outcome, StopReturns(i, r) PROVE StartedInv'
  BY <1>13 DEF StopReturns
<1>14. CASE StopFinished
  BY <1>14 DEF StopFinished, Settle
<1>15. CASE StopExpired
  BY <1>15 DEF StopExpired, Settle
<1>16. CASE StopsDone
  BY <1>16 DEF StopsDone
<1>17. CASE AllExited
  BY <1>17 DEF AllExited, EndDrain
<1>18. CASE DrainExpired
  BY <1>18 DEF DrainExpired, EndDrain
<1>19. CASE Join
  BY <1>19 DEF Join
<1>20. ASSUME NEW e \in CtxErrors, CancelParent(e) PROVE StartedInv'
  BY <1>20 DEF CancelParent
<1>21. CASE UNCHANGED vars
  BY <1>21 DEF vars
<1> QED
  BY <1>1, <1>2, <1>3, <1>4, <1>5, <1>6, <1>7, <1>8, <1>9, <1>10, <1>11,
     <1>12, <1>13, <1>14, <1>15, <1>16, <1>17, <1>18, <1>19, <1>20, <1>21
     DEF Next, Main, Drain, Plumbing, Component, Finished

\* Every Stop main has passed has an outcome, every Stop ahead is untouched.
LEMMA StopStep ==
  ASSUME TypeOK, StartedInv, StopInv, [Next]_vars
  PROVE  StopInv'
<1> USE NAssumption DEF TypeOK, StartedInv, StopInv, Item, mainVars, startVars, drainVars, stopVars, finalVars
<1>1. ASSUME NEW r \in Outcome, InitItem(r) PROVE StopInv'
  BY <1>1 DEF InitItem
<1>2. CASE InitDone
  BY <1>2 DEF InitDone
<1>3. CASE LaunchStart
  BY <1>3 DEF LaunchStart
<1>4. CASE LaunchDrain
  BY <1>4 DEF LaunchDrain
<1>5. ASSUME NEW i \in Item, InvokeStart(i) PROVE StopInv'
  BY <1>5 DEF InvokeStart
<1>6. ASSUME NEW i \in Item, NEW r \in Outcome, StartReturns(i, r) PROVE StopInv'
  BY <1>6 DEF StartReturns
<1>7. ASSUME NEW i \in Item, PostResult(i) PROVE StopInv'
  BY <1>7 DEF PostResult
<1>8. CASE Receive
  BY <1>8 DEF Receive
<1>9. CASE RecordStartErr
  BY <1>9 DEF RecordStartErr
<1>10. CASE ExitDrain
  BY <1>10 DEF ExitDrain
<1>11. CASE Capture
  BY <1>11 DEF Capture
<1>12. CASE LaunchStop
  BY <1>12 DEF LaunchStop
<1>13. ASSUME NEW i \in Item, NEW r \in Outcome, StopReturns(i, r) PROVE StopInv'
  BY <1>13 DEF StopReturns
<1>14. CASE StopFinished
  BY <1>14, Recorded DEF StopFinished, Settle
<1>15. CASE StopExpired
  BY <1>15, Recorded DEF StopExpired, Settle
<1>16. CASE StopsDone
  BY <1>16 DEF StopsDone
<1>17. CASE AllExited
  BY <1>17 DEF AllExited, EndDrain
<1>18. CASE DrainExpired
  BY <1>18 DEF DrainExpired, EndDrain
<1>19. CASE Join
  BY <1>19 DEF Join
<1>20. ASSUME NEW e \in CtxErrors, CancelParent(e) PROVE StopInv'
  BY <1>20 DEF CancelParent
<1>21. CASE UNCHANGED vars
  BY <1>21 DEF vars
<1> QED
  BY <1>1, <1>2, <1>3, <1>4, <1>5, <1>6, <1>7, <1>8, <1>9, <1>10, <1>11,
     <1>12, <1>13, <1>14, <1>15, <1>16, <1>17, <1>18, <1>19, <1>20, <1>21
     DEF Next, Main, Drain, Plumbing, Component, Finished

\* The trigger names a Start that has exited, or the caller's error, and is
\* set before anything is stopped.
LEMMA TriggerStep ==
  ASSUME TypeOK, StartedInv, TriggerInv, [Next]_vars
  PROVE  TriggerInv'
<1> USE NAssumption DEF TypeOK, StartedInv, TriggerInv, Item, mainVars, startVars, drainVars, stopVars, finalVars
<1>1. ASSUME NEW r \in Outcome, InitItem(r) PROVE TriggerInv'
  BY <1>1 DEF InitItem
<1>2. CASE InitDone
  BY <1>2 DEF InitDone
<1>3. CASE LaunchStart
  <2>1. \A i \in Item : start[i] = "exited" => start'[i] = "exited"
    BY <1>3 DEF LaunchStart
  <2>2. \A k \in 1 .. Len(startResults) : startResults[k] \in Item
    OBVIOUS
  <2> QED
    BY <1>3, <2>1, <2>2 DEF LaunchStart
<1>4. CASE LaunchDrain
  BY <1>4 DEF LaunchDrain
<1>5. ASSUME NEW i \in Item, InvokeStart(i) PROVE TriggerInv'
  BY <1>5 DEF InvokeStart
<1>6. ASSUME NEW i \in Item, NEW r \in Outcome, StartReturns(i, r) PROVE TriggerInv'
  <2>1. start[i] # "exited"
    BY <1>6 DEF StartReturns
  <2> QED
    BY <1>6, <2>1 DEF StartReturns
<1>7. ASSUME NEW i \in Item, PostResult(i) PROVE TriggerInv'
  <2>1. CASE SendResult(i)
    BY <1>7, <2>1 DEF PostResult, SendResult
  <2>2. CASE DropResult
    BY <1>7, <2>2 DEF PostResult, DropResult
  <2> QED
    BY <1>7, <2>1, <2>2 DEF PostResult
<1>8. CASE Receive
  BY <1>8 DEF Receive
<1>9. CASE RecordStartErr
  BY <1>9 DEF RecordStartErr, setTrigger, NoTrigger
<1>10. CASE ExitDrain
  BY <1>10 DEF ExitDrain
<1>11. CASE Capture
  BY <1>11 DEF Capture, setTrigger, internalDone, NoTrigger
<1>12. CASE LaunchStop
  BY <1>12 DEF LaunchStop
<1>13. ASSUME NEW i \in Item, NEW r \in Outcome, StopReturns(i, r) PROVE TriggerInv'
  BY <1>13 DEF StopReturns
<1>14. CASE StopFinished
  BY <1>14 DEF StopFinished, Settle
<1>15. CASE StopExpired
  BY <1>15 DEF StopExpired, Settle
<1>16. CASE StopsDone
  BY <1>16 DEF StopsDone
<1>17. CASE AllExited
  BY <1>17 DEF AllExited, EndDrain
<1>18. CASE DrainExpired
  BY <1>18 DEF DrainExpired, EndDrain
<1>19. CASE Join
  BY <1>19 DEF Join
<1>20. ASSUME NEW e \in CtxErrors, CancelParent(e) PROVE TriggerInv'
  BY <1>20 DEF CancelParent
<1>21. CASE UNCHANGED vars
  BY <1>21 DEF vars
<1> QED
  BY <1>1, <1>2, <1>3, <1>4, <1>5, <1>6, <1>7, <1>8, <1>9, <1>10, <1>11,
     <1>12, <1>13, <1>14, <1>15, <1>16, <1>17, <1>18, <1>19, <1>20, <1>21
     DEF Next, Main, Drain, Plumbing, Component, Finished

\* Main leaves the wait for the Starts when all have exited, or at the deadline.
LEMMA DrainStep ==
  ASSUME TypeOK, StartedInv, DrainInv, [Next]_vars
  PROVE  DrainInv'
<1> USE NAssumption DEF TypeOK, StartedInv, DrainInv, Item, mainVars, startVars, drainVars, stopVars, finalVars
<1>1. ASSUME NEW r \in Outcome, InitItem(r) PROVE DrainInv'
  BY <1>1 DEF InitItem
<1>2. CASE InitDone
  BY <1>2 DEF InitDone
<1>3. CASE LaunchStart
  BY <1>3 DEF LaunchStart
<1>4. CASE LaunchDrain
  BY <1>4 DEF LaunchDrain
<1>5. ASSUME NEW i \in Item, InvokeStart(i) PROVE DrainInv'
  BY <1>5 DEF InvokeStart
<1>6. ASSUME NEW i \in Item, NEW r \in Outcome, StartReturns(i, r) PROVE DrainInv'
  BY <1>6 DEF StartReturns
<1>7. ASSUME NEW i \in Item, PostResult(i) PROVE DrainInv'
  BY <1>7 DEF PostResult
<1>8. CASE Receive
  BY <1>8 DEF Receive
<1>9. CASE RecordStartErr
  BY <1>9 DEF RecordStartErr
<1>10. CASE ExitDrain
  BY <1>10 DEF ExitDrain
<1>11. CASE Capture
  BY <1>11 DEF Capture
<1>12. CASE LaunchStop
  BY <1>12 DEF LaunchStop
<1>13. ASSUME NEW i \in Item, NEW r \in Outcome, StopReturns(i, r) PROVE DrainInv'
  BY <1>13 DEF StopReturns
<1>14. CASE StopFinished
  BY <1>14 DEF StopFinished, Settle
<1>15. CASE StopExpired
  BY <1>15 DEF StopExpired, Settle
<1>16. CASE StopsDone
  BY <1>16 DEF StopsDone
<1>17. CASE AllExited
  BY <1>17 DEF AllExited, EndDrain
<1>18. CASE DrainExpired
  BY <1>18 DEF DrainExpired, EndDrain
<1>19. CASE Join
  BY <1>19 DEF Join
<1>20. ASSUME NEW e \in CtxErrors, CancelParent(e) PROVE DrainInv'
  BY <1>20 DEF CancelParent
<1>21. CASE UNCHANGED vars
  BY <1>21 DEF vars
<1> QED
  BY <1>1, <1>2, <1>3, <1>4, <1>5, <1>6, <1>7, <1>8, <1>9, <1>10, <1>11,
     <1>12, <1>13, <1>14, <1>15, <1>16, <1>17, <1>18, <1>19, <1>20, <1>21
     DEF Next, Main, Drain, Plumbing, Component, Finished

\* The component that posts was not in the channel, whose entries have exited.
LEMMA ChanStep ==
  ASSUME TypeOK, TriggerInv, ChanInv, [Next]_vars
  PROVE  ChanInv'
<1> USE NAssumption DEF TypeOK, ChanInv, Item, mainVars, startVars, drainVars, stopVars, finalVars
<1>1. ASSUME NEW r \in Outcome, InitItem(r) PROVE ChanInv'
  BY <1>1 DEF InitItem
<1>2. CASE InitDone
  BY <1>2 DEF InitDone
<1>3. CASE LaunchStart
  BY <1>3 DEF LaunchStart
<1>4. CASE LaunchDrain
  BY <1>4 DEF LaunchDrain
<1>5. ASSUME NEW i \in Item, InvokeStart(i) PROVE ChanInv'
  BY <1>5 DEF InvokeStart
<1>6. ASSUME NEW i \in Item, NEW r \in Outcome, StartReturns(i, r) PROVE ChanInv'
  BY <1>6 DEF StartReturns
<1>7. ASSUME NEW i \in Item, PostResult(i) PROVE ChanInv'
  <2>1. \A k \in 1 .. Len(startResults) : startResults[k] # i
    BY <1>7 DEF PostResult, TriggerInv
  <2>2. CASE SendResult(i)
    BY <2>1, <2>2 DEF SendResult
  <2>3. CASE DropResult
    BY <2>3 DEF DropResult
  <2> QED
    BY <1>7, <2>2, <2>3 DEF PostResult
<1>8. CASE Receive
  BY <1>8 DEF Receive
<1>9. CASE RecordStartErr
  BY <1>9 DEF RecordStartErr
<1>10. CASE ExitDrain
  BY <1>10 DEF ExitDrain
<1>11. CASE Capture
  BY <1>11 DEF Capture
<1>12. CASE LaunchStop
  BY <1>12 DEF LaunchStop
<1>13. ASSUME NEW i \in Item, NEW r \in Outcome, StopReturns(i, r) PROVE ChanInv'
  BY <1>13 DEF StopReturns
<1>14. CASE StopFinished
  BY <1>14 DEF StopFinished, Settle
<1>15. CASE StopExpired
  BY <1>15 DEF StopExpired, Settle
<1>16. CASE StopsDone
  BY <1>16 DEF StopsDone
<1>17. CASE AllExited
  BY <1>17 DEF AllExited, EndDrain
<1>18. CASE DrainExpired
  BY <1>18 DEF DrainExpired, EndDrain
<1>19. CASE Join
  BY <1>19 DEF Join
<1>20. ASSUME NEW e \in CtxErrors, CancelParent(e) PROVE ChanInv'
  BY <1>20 DEF CancelParent
<1>21. CASE UNCHANGED vars
  BY <1>21 DEF vars
<1> QED
  BY <1>1, <1>2, <1>3, <1>4, <1>5, <1>6, <1>7, <1>8, <1>9, <1>10, <1>11,
     <1>12, <1>13, <1>14, <1>15, <1>16, <1>17, <1>18, <1>19, <1>20, <1>21
     DEF Next, Main, Drain, Plumbing, Component, Finished

\* The Inits succeed one after the other, or the first failure ends Run.
LEMMA InitStep ==
  ASSUME TypeOK, StartedInv, InitInv, [Next]_vars
  PROVE  InitInv'
<1> USE NAssumption DEF TypeOK, StartedInv, InitInv, Item, mainVars, startVars, drainVars, stopVars, finalVars
<1>1. ASSUME NEW r \in Outcome, InitItem(r) PROVE InitInv'
  BY <1>1 DEF InitItem, Outcome, NoError, Pending
<1>2. CASE InitDone
  BY <1>2 DEF InitDone
<1>3. CASE LaunchStart
  BY <1>3 DEF LaunchStart
<1>4. CASE LaunchDrain
  BY <1>4 DEF LaunchDrain
<1>5. ASSUME NEW i \in Item, InvokeStart(i) PROVE InitInv'
  BY <1>5 DEF InvokeStart
<1>6. ASSUME NEW i \in Item, NEW r \in Outcome, StartReturns(i, r) PROVE InitInv'
  BY <1>6 DEF StartReturns
<1>7. ASSUME NEW i \in Item, PostResult(i) PROVE InitInv'
  BY <1>7 DEF PostResult
<1>8. CASE Receive
  BY <1>8 DEF Receive
<1>9. CASE RecordStartErr
  BY <1>9 DEF RecordStartErr
<1>10. CASE ExitDrain
  BY <1>10 DEF ExitDrain
<1>11. CASE Capture
  BY <1>11 DEF Capture
<1>12. CASE LaunchStop
  BY <1>12 DEF LaunchStop
<1>13. ASSUME NEW i \in Item, NEW r \in Outcome, StopReturns(i, r) PROVE InitInv'
  BY <1>13 DEF StopReturns
<1>14. CASE StopFinished
  BY <1>14 DEF StopFinished, Settle
<1>15. CASE StopExpired
  BY <1>15 DEF StopExpired, Settle
<1>16. CASE StopsDone
  BY <1>16 DEF StopsDone
<1>17. CASE AllExited
  BY <1>17 DEF AllExited, EndDrain
<1>18. CASE DrainExpired
  BY <1>18 DEF DrainExpired, EndDrain
<1>19. CASE Join
  BY <1>19 DEF Join
<1>20. ASSUME NEW e \in CtxErrors, CancelParent(e) PROVE InitInv'
  BY <1>20 DEF CancelParent
<1>21. CASE UNCHANGED vars
  BY <1>21 DEF vars
<1> QED
  BY <1>1, <1>2, <1>3, <1>4, <1>5, <1>6, <1>7, <1>8, <1>9, <1>10, <1>11,
     <1>12, <1>13, <1>14, <1>15, <1>16, <1>17, <1>18, <1>19, <1>20, <1>21
     DEF Next, Main, Drain, Plumbing, Component, Finished

\* Only a Start that returned has a result, and only it or the caller is blamed.
LEMMA BlameStep ==
  ASSUME TypeOK, StartedInv, BlameInv, [Next]_vars
  PROVE  BlameInv'
<1> USE NAssumption DEF TypeOK, StartedInv, BlameInv, Item, mainVars, startVars, drainVars, stopVars, finalVars
<1>1. ASSUME NEW r \in Outcome, InitItem(r) PROVE BlameInv'
  BY <1>1 DEF InitItem
<1>2. CASE InitDone
  BY <1>2 DEF InitDone
<1>3. CASE LaunchStart
  BY <1>3 DEF LaunchStart
<1>4. CASE LaunchDrain
  BY <1>4 DEF LaunchDrain
<1>5. ASSUME NEW i \in Item, InvokeStart(i) PROVE BlameInv'
  BY <1>5 DEF InvokeStart
<1>6. ASSUME NEW i \in Item, NEW r \in Outcome, StartReturns(i, r) PROVE BlameInv'
  BY <1>6 DEF StartReturns
<1>7. ASSUME NEW i \in Item, PostResult(i) PROVE BlameInv'
  BY <1>7 DEF PostResult
<1>8. CASE Receive
  BY <1>8 DEF Receive
<1>9. CASE RecordStartErr
  BY <1>9 DEF RecordStartErr, setTrigger
<1>10. CASE ExitDrain
  BY <1>10 DEF ExitDrain
<1>11. CASE Capture
  BY <1>11 DEF Capture, setTrigger
<1>12. CASE LaunchStop
  BY <1>12 DEF LaunchStop
<1>13. ASSUME NEW i \in Item, NEW r \in Outcome, StopReturns(i, r) PROVE BlameInv'
  BY <1>13 DEF StopReturns
<1>14. CASE StopFinished
  BY <1>14 DEF StopFinished, Settle
<1>15. CASE StopExpired
  BY <1>15 DEF StopExpired, Settle
<1>16. CASE StopsDone
  BY <1>16 DEF StopsDone
<1>17. CASE AllExited
  BY <1>17 DEF AllExited, EndDrain
<1>18. CASE DrainExpired
  BY <1>18 DEF DrainExpired, EndDrain
<1>19. CASE Join
  BY <1>19 DEF Join
<1>20. ASSUME NEW e \in CtxErrors, CancelParent(e) PROVE BlameInv'
  BY <1>20 DEF CancelParent
<1>21. CASE UNCHANGED vars
  BY <1>21 DEF vars
<1> QED
  BY <1>1, <1>2, <1>3, <1>4, <1>5, <1>6, <1>7, <1>8, <1>9, <1>10, <1>11,
     <1>12, <1>13, <1>14, <1>15, <1>16, <1>17, <1>18, <1>19, <1>20, <1>21
     DEF Next, Main, Drain, Plumbing, Component, Finished

\* When Run returns the drain goroutine has exited, or was never made.
LEMMA EndStep ==
  ASSUME TypeOK, EndInv, [Next]_vars
  PROVE  EndInv'
<1> USE NAssumption DEF TypeOK, EndInv, Item, mainVars, startVars, drainVars, stopVars, finalVars
<1>1. ASSUME NEW r \in Outcome, InitItem(r) PROVE EndInv'
  BY <1>1 DEF InitItem
<1>2. CASE InitDone
  BY <1>2 DEF InitDone
<1>3. CASE LaunchStart
  BY <1>3 DEF LaunchStart
<1>4. CASE LaunchDrain
  BY <1>4 DEF LaunchDrain
<1>5. ASSUME NEW i \in Item, InvokeStart(i) PROVE EndInv'
  BY <1>5 DEF InvokeStart
<1>6. ASSUME NEW i \in Item, NEW r \in Outcome, StartReturns(i, r) PROVE EndInv'
  BY <1>6 DEF StartReturns
<1>7. ASSUME NEW i \in Item, PostResult(i) PROVE EndInv'
  BY <1>7 DEF PostResult
<1>8. CASE Receive
  BY <1>8 DEF Receive
<1>9. CASE RecordStartErr
  BY <1>9 DEF RecordStartErr
<1>10. CASE ExitDrain
  BY <1>10 DEF ExitDrain
<1>11. CASE Capture
  BY <1>11 DEF Capture
<1>12. CASE LaunchStop
  BY <1>12 DEF LaunchStop
<1>13. ASSUME NEW i \in Item, NEW r \in Outcome, StopReturns(i, r) PROVE EndInv'
  BY <1>13 DEF StopReturns
<1>14. CASE StopFinished
  BY <1>14 DEF StopFinished, Settle
<1>15. CASE StopExpired
  BY <1>15 DEF StopExpired, Settle
<1>16. CASE StopsDone
  BY <1>16 DEF StopsDone
<1>17. CASE AllExited
  BY <1>17 DEF AllExited, EndDrain
<1>18. CASE DrainExpired
  BY <1>18 DEF DrainExpired, EndDrain
<1>19. CASE Join
  BY <1>19 DEF Join
<1>20. ASSUME NEW e \in CtxErrors, CancelParent(e) PROVE EndInv'
  BY <1>20 DEF CancelParent
<1>21. CASE UNCHANGED vars
  BY <1>21 DEF vars
<1> QED
  BY <1>1, <1>2, <1>3, <1>4, <1>5, <1>6, <1>7, <1>8, <1>9, <1>10, <1>11,
     <1>12, <1>13, <1>14, <1>15, <1>16, <1>17, <1>18, <1>19, <1>20, <1>21
     DEF Next, Main, Drain, Plumbing, Component, Finished

----------------------------------------------------------------------------
(* The theorems. *)

IInv ==
  /\ TypeOK /\ StartedInv /\ StopInv /\ TriggerInv /\ DrainInv /\ ChanInv
  /\ InitInv /\ BlameInv /\ EndInv

\* The conjunction of the above holds at first ...
LEMMA InductiveInit ==
  Init => StartedInv /\ StopInv /\ TriggerInv /\ DrainInv /\ ChanInv /\ InitInv /\ BlameInv
          /\ EndInv
BY NAssumption DEF Init, StartedInv, StopInv, TriggerInv, DrainInv, ChanInv, InitInv, BlameInv,
   EndInv,   NoTrigger, Item

\* ... and every step keeps it.
LEMMA InductiveStep == IInv /\ [Next]_vars => IInv'
BY TypeStep, StartedStep, StopStep, TriggerStep, DrainStep, ChanStep, InitStep, BlameStep,
   EndStep DEF IInv

\* Once Run has returned nothing changes what it returned.
LEMMA ResultIsFinal ==
  ASSUME IInv, [Next]_vars, pc = "returned"
  PROVE  pc' = "returned" /\ UNCHANGED <<next, trigger, stopErr, initErr, drainExpired>>
BY DEF IInv, EndInv, Next, Main, Drain, Component, Plumbing, Finished, vars, InitItem, InitDone,
   LaunchStart, LaunchDrain, InvokeStart, StartReturns, PostResult, Receive, RecordStartErr,
   ExitDrain, Capture, LaunchStop, StopReturns, StopFinished, StopExpired, Settle, StopsDone,
   AllExited, DrainExpired, EndDrain, Join, CancelParent,
   mainVars, startVars, drainVars, stopVars, finalVars

\* The conjunction of the above holds in every reachable state.
THEOREM Inductive == Spec => []IInv
<1>1. Init /\ TypeOK => IInv
  BY InductiveInit DEF IInv
<1> QED
  BY <1>1, InductiveStep, TypeCorrect, PTL DEF Spec

\* For any components: a Stop is called only when every later component's has
\* returned or been given up on.
THEOREM StopsInReverse == Spec => []StopOrder
<1>1. IInv => StopOrder
  <2> SUFFICES ASSUME IInv, NEW i \in Item, NEW j \in Item, i < j, stop[i] # "idle"
               PROVE  stop[j] = "returned" \/ stopErr[j] = StopTimeout
    BY DEF StopOrder
  <2> USE DEF IInv, TypeOK, StopInv, Item
  <2>1. stopErr[j] # Pending
    OBVIOUS
  <2> QED
    BY <2>1
<1> QED
  BY <1>1, Inductive, PTL

\* For any components: no Stop that hangs or fails is missing from the result, and
\* every component whose Start did not fail was stopped.
THEOREM StopsReported == Spec => []StopReported
<1>1. IInv => StopReported
  <2> SUFFICES ASSUME IInv, pc = "returned", initErr = NoError, NEW i \in Item
               PROVE  /\ startRes[i] = NoError => stop[i] # "idle"
                      /\ stop[i] = "running" \/ stopRes[i] # NoError =>
                           \E r \in RunResult : r.at = "stop" /\ r.item = i
    BY DEF StopReported
  <2>1. /\ stop[i] # "idle" /\ stopErr[i] # Pending
        /\ stopErr[i] = StopTimeout \/ (stop[i] = "returned" /\ stopErr[i] = stopRes[i])
    BY DEF IInv, StopInv
  <2>2. ASSUME stop[i] = "running" \/ stopRes[i] # NoError
        PROVE  \E r \in RunResult : r.at = "stop" /\ r.item = i
    <3>1. stopErr[i] \notin {Pending, NoError}
      BY <2>1, <2>2 DEF StopTimeout, NoError
    <3>2. [at |-> "stop", item |-> i, err |-> stopErr[i]] \in RunResult
      BY <3>1 DEF RunResult, IInv
    <3> QED
      BY <3>2
  <2> QED
    BY <2>1, <2>2
<1> QED
  BY <1>1, Inductive, PTL

\* For any components: the error blamed for a shutdown is one that happened.
THEOREM TriggersAreGenuine == Spec => []TriggerGenuine
<1>1. IInv => TriggerGenuine
  <2> SUFFICES ASSUME IInv PROVE TriggerGenuine
    OBVIOUS
  <2>1. ASSUME NEW i \in Item, stop[i] # "idle" PROVE trigger # NoTrigger
    BY <2>1 DEF IInv, TypeOK, StopInv, TriggerInv
  <2> QED
    BY <2>1 DEF TriggerGenuine, IInv, TriggerInv
<1> QED
  BY <1>1, Inductive, PTL

\* For any components: when Run returns, a Start goroutine still there is
\* reported.
THEOREM StartsDrained == Spec => []DrainedOrReported
<1>1. IInv => DrainedOrReported
  <2> SUFFICES ASSUME IInv, pc = "returned", initErr = NoError, drainExpired
               PROVE  [at |-> "drain", item |-> 0, err |-> StopTimeout] \in RunResult
    BY DEF IInv, DrainInv, DrainedOrReported
  <2>1. drainExpired \in {drainExpired} \cap {TRUE}
    BY DEF IInv, TypeOK
  <2> QED
    BY <2>1 DEF RunResult
<1> QED
  BY <1>1, Inductive, PTL

\* For any components: a Start goroutine finds room in the channel, since the
\* results in it are of other components, one each.
THEOREM SendsNeverBlock == Spec => []SendNeverBlocks
<1>1. IInv => SendNeverBlocks
  <2> SUFFICES ASSUME IInv, NEW i \in Item, start[i] = "sending"
               PROVE  Len(startResults) < Capacity
    BY DEF SendNeverBlocks
  <2> DEFINE I == 1 .. Len(startResults)
             Others == Item \ {i}
  <2>1. startResults \in Seq(Item)
    BY DEF IInv, TypeOK
  <2>2. startResults \in [I -> Others]
    BY <2>1 DEF IInv, TriggerInv
  <2>3. \A j, k \in I : startResults[j] = startResults[k] => j = k
    BY DEF IInv, ChanInv
  <2>4. startResults \in Injection(I, Others)
    BY <2>2, <2>3, Fun_IsInj
  <2>5. IsFiniteSet(Others) /\ Cardinality(Others) = N - 1
    <3>1. IsFiniteSet(1 .. N) /\ Cardinality(1 .. N) = N
      <4>1. 1 \in Int /\ N \in Int /\ (1 > N => N = 0)
        BY NAssumption
      <4>2. /\ IsFiniteSet(1 .. N)
            /\ Cardinality(1 .. N) = IF 1 > N THEN 0 ELSE N - 1 + 1
        BY <4>1, FS_Interval
      <4> QED
        BY <4>1, <4>2
    <3> QED
      BY <3>1, FS_RemoveElement DEF Item
  <2>6. Cardinality(I) <= Cardinality(Others)
    BY <2>4, <2>5, FS_Injection
  <2>7. Cardinality(I) = Len(startResults)
    <3> DEFINE n == Len(startResults)
    <3>1. 1 \in Int /\ n \in Nat
      BY <2>1
    <3> HIDE DEF n
    <3>2. Cardinality(1 .. n) = IF 1 > n THEN 0 ELSE n - 1 + 1
      BY <3>1, FS_Interval
    <3>3. Cardinality(1 .. n) = n
      BY <3>1, <3>2
    <3> QED
      BY <3>3 DEF n
  <2> QED
    BY <2>5, <2>6, <2>7, NAssumption DEF Capacity
<1> QED
  BY <1>1, Inductive, PTL

\* For any components: nothing replaces the first error blamed.
THEOREM TriggerIsFinal == Spec => FirstTriggerWins
<1>1. [Next]_vars => [trigger # NoTrigger => UNCHANGED trigger]_vars
  <2> SUFFICES ASSUME [Next]_vars, trigger # NoTrigger PROVE trigger' = trigger
    OBVIOUS
  <2> USE DEF drainVars
  <2>1. CASE Main
    BY <2>1 DEF Main, InitDone, LaunchStart, LaunchDrain, Capture, setTrigger, LaunchStop,
       StopFinished, StopExpired, Settle, StopsDone, AllExited, DrainExpired, EndDrain, Join
  <2>2. CASE Drain
    BY <2>2 DEF Drain, Receive, RecordStartErr, setTrigger, ExitDrain
  <2>3. CASE Component
    BY <2>3 DEF Component, InitItem, StartReturns, StopReturns
  <2>4. ASSUME NEW i \in Item, Plumbing(i) PROVE trigger' = trigger
    BY <2>4 DEF Plumbing, InvokeStart, PostResult
  <2>5. ASSUME NEW e \in CtxErrors, CancelParent(e) PROVE trigger' = trigger
    BY <2>5 DEF CancelParent
  <2>6. CASE UNCHANGED vars
    BY <2>6 DEF vars
  <2> QED
    BY <2>1, <2>2, <2>3, <2>4, <2>5, <2>6 DEF Next, Finished
<1> QED
  BY <1>1, PTL DEF Spec, FirstTriggerWins

----------------------------------------------------------------------------
(* The refinement. *)

\* An outcome of a Stop is neither the timeout nor no answer.
LEMMA Answered == StopTimeout \notin Outcome /\ Pending \notin Outcome /\ StopTimeout # Pending
BY ErrorsAssumption DEF Outcome, Pending, StopTimeout, NoError

\* Nothing is stopped that was not started.
LEMMA StoppedWasStarted ==
  ASSUME StartedInv, StopInv, TypeOK
  PROVE  \A j \in Item : stop[j] # "idle" \/ stopErr[j] # Pending => start[j] # "idle"
BY DEF StartedInv, StopInv, TypeOK

\* What the contract makes of a component, from how far main has got with it.
LEMMA StateOf ==
  ASSUME TypeOK, StartedInv, StopInv, NEW j \in Item
  PROVE  /\ stopErr[j] # Pending =>
              contractState(j) = IF stopErr[j] = StopTimeout THEN "abandoned" ELSE "stopped"
         /\ stopErr[j] = Pending /\ stop[j] # "idle" => contractState(j) = "stopping"
         /\ stop[j] = "idle" =>
              contractState(j) = IF start[j] # "idle" THEN "running"
                                 ELSE IF initRes[j] = NoError THEN "initialized" ELSE "registered"
<1>1. ASSUME stopErr[j] # Pending
      PROVE  contractState(j) = IF stopErr[j] = StopTimeout THEN "abandoned" ELSE "stopped"
  BY <1>1, Answered, StoppedWasStarted DEF contractState, StopInv
<1>2. ASSUME stopErr[j] = Pending, stop[j] # "idle" PROVE contractState(j) = "stopping"
  BY <1>2, Answered, StoppedWasStarted DEF contractState
<1>3. ASSUME stop[j] = "idle", stopErr[j] = Pending
      PROVE  contractState(j) = IF start[j] # "idle" THEN "running"
                                ELSE IF initRes[j] = NoError THEN "initialized" ELSE "registered"
  BY <1>3, Answered DEF contractState
<1> QED
  BY <1>1, <1>2, <1>3 DEF StopInv

\* Run begins where the contract does.
LEMMA ContractInit == Init => Contract!CInit
BY DEF Init, Contract!CInit, Contract!Item, Item, contractPhase, contractState,
   NoError, Pending, StopTimeout

\* Every step of Run is a step the contract allows, or a stutter.
LEMMA ContractStep ==
  ASSUME IInv, [Next]_vars
  PROVE  [Contract!CNext]_(Contract!cvars)
<1> DEFINE Step == [Contract!CNext]_(Contract!cvars)
<1> USE NAssumption DEF IInv, TypeOK, Item, mainVars, startVars, drainVars, stopVars, finalVars,
    Contract!cvars, Contract!Item
<1>1. ASSUME NEW r \in Outcome, InitItem(r) PROVE Step
  <2>1. Item = Contract!Item /\ next \in Item
    BY <1>1 DEF InitItem
  <2>2. \A j \in Item : contractState(j) = IF j < next THEN "initialized" ELSE "registered"
    BY <1>1, StateOf DEF InitItem, InitInv, StartedInv, StopInv, NoError, Pending
  <2>3. ASSUME r = NoError PROVE Contract!Initialize(next)
    <3>1. \A j \in Item :
            contractState(j)' = IF j = next THEN "initialized" ELSE contractState(j)
      BY <1>1, <2>1, <2>3 DEF InitItem, contractState, StartedInv, StopInv,
         NoError, Pending, StopTimeout
    <3>2. contractPhase = "setup" /\ contractPhase' = "setup"
      BY <1>1, <2>3 DEF InitItem, contractPhase
    <3>3. [j \in Item |-> contractState(j)]'
            = [[j \in Item |-> contractState(j)] EXCEPT ![next] = "initialized"]
      BY <3>1
    <3> QED
      BY <1>1, <2>1, <2>2, <3>2, <3>3 DEF InitItem, Contract!Initialize
  <2>4. ASSUME r # NoError PROVE Contract!Abort
    <3>1. \A j \in Item : contractState(j)' = contractState(j)
      BY <1>1, <2>1, <2>4 DEF InitItem, contractState, InitInv, StartedInv,
         StopInv, NoError, Pending, StopTimeout
    <3>2. contractPhase = "setup" /\ contractPhase' = "aborted"
      BY <1>1, <2>4 DEF InitItem, contractPhase
    <3> QED
      BY <1>1, <2>1, <2>2, <3>1, <3>2 DEF InitItem, Contract!Abort
  <2> QED
    BY <2>1, <2>3, <2>4 DEF Contract!CNext
<1>2. CASE InitDone
  BY <1>2 DEF InitDone, contractPhase, contractState
<1>3. CASE LaunchStart
  <2>1. Item = Contract!Item /\ next \in Item
    BY <1>3 DEF LaunchStart
  <2>2. \A j \in Item : stop[j] = "idle"
    BY <1>3 DEF LaunchStart, StopInv
  <2>3. \A j \in Item : contractState(j) = IF j < next THEN "running" ELSE "initialized"
    BY <1>3, <2>2, <2>1, StateOf DEF LaunchStart, InitInv, StartedInv
  <2>4. \A j \in Item : contractState(j)' = IF j = next THEN "running" ELSE contractState(j)
    BY <1>3, <2>2, <2>1, Answered DEF LaunchStart, contractState, StopInv
  <2>5. contractPhase = "setup" /\ contractPhase' = "setup"
    BY <1>3 DEF LaunchStart, contractPhase
  <2>6. [j \in Item |-> contractState(j)]'
          = [[j \in Item |-> contractState(j)] EXCEPT ![next] = "running"]
    BY <2>4
  <2>7. {j \in Item : start[j] \in {"launched", "running"}}'
          = {j \in Item : start[j] \in {"launched", "running"}} \cup {next}
    BY <1>3 DEF LaunchStart
  <2>8. Contract!Launch(next)
    BY <1>3, <2>1, <2>3, <2>5, <2>6, <2>7 DEF LaunchStart, Contract!Launch
  <2> QED
    BY <2>1, <2>8 DEF Contract!CNext, Contract!Launch
<1>4. CASE LaunchDrain
  <2>1. Contract!Up
    BY <1>4 DEF LaunchDrain, Contract!Up, contractPhase, contractState, StartedInv, StopInv
  <2> QED
    BY <2>1 DEF Contract!CNext
<1>5. ASSUME NEW i \in Item, InvokeStart(i) PROVE Step
  BY <1>5 DEF InvokeStart, contractPhase, contractState
<1>6. ASSUME NEW i \in Item, NEW r \in Outcome, StartReturns(i, r) PROVE Step
  <2>1. Contract!StartEnds(i)
    BY <1>6 DEF StartReturns, Contract!StartEnds, contractPhase, contractState, BlameInv
  <2> QED
    BY <2>1 DEF Contract!CNext
<1>7. ASSUME NEW i \in Item, PostResult(i) PROVE Step
  BY <1>7 DEF PostResult, contractPhase, contractState
<1>8. CASE Receive
  BY <1>8 DEF Receive, contractPhase, contractState
<1>9. CASE RecordStartErr
  BY <1>9 DEF RecordStartErr, contractPhase, contractState
<1>10. CASE ExitDrain
  BY <1>10 DEF ExitDrain, contractPhase, contractState
<1>11. CASE Capture
  <2>1. parentErr # NoError \/ \E i \in Item : startRes[i] # NoError
    BY <1>11 DEF Capture, internalDone, TriggerInv, BlameInv
  <2>2. Contract!Shutdown
    BY <1>11, <2>1 DEF Capture, Contract!Shutdown, contractPhase, contractState
  <2> QED
    BY <2>2 DEF Contract!CNext
<1>12. CASE LaunchStop
  <2>1. Item = Contract!Item /\ next \in Item
    BY <1>12 DEF LaunchStop
  <2>2. /\ contractState(next) = "running"
        /\ \A j \in Item : j > next => contractState(j) \in {"stopped", "abandoned"}
    BY <1>12, StateOf DEF LaunchStop, StopInv, wasRunning
  <2>3. \A j \in Item : contractState(j)' = IF j = next THEN "stopping" ELSE contractState(j)
    BY <1>12, <2>1, Answered, StoppedWasStarted DEF LaunchStop, wasRunning, contractState, StopInv
  <2>4. contractPhase = "down" /\ contractPhase' = "down"
    BY <1>12 DEF LaunchStop, contractPhase
  <2>5. [j \in Item |-> contractState(j)]'
          = [[j \in Item |-> contractState(j)] EXCEPT ![next] = "stopping"]
    BY <2>3
  <2>6. Contract!BeginStop(next)
    BY <1>12, <2>1, <2>2, <2>4, <2>5 DEF LaunchStop, Contract!BeginStop, Contract!settled
  <2> QED
    BY <2>1, <2>6 DEF Contract!CNext
<1>13. ASSUME NEW i \in Item, NEW r \in Outcome, StopReturns(i, r) PROVE Step
  BY <1>13 DEF StopReturns, contractPhase, contractState
<1>14. CASE StopFinished
  <2>1. Item = Contract!Item /\ next \in Item
    BY <1>14 DEF StopFinished, Settle
  <2>2. contractState(next) = "stopping"
    BY <1>14, <2>1, StateOf DEF StopFinished, Settle, StopInv
  <2>3. \A j \in Item : contractState(j)' = IF j = next THEN "stopped" ELSE contractState(j)
    BY <1>14, <2>1, Answered, StoppedWasStarted DEF StopFinished, Settle, contractState
  <2>4. contractPhase' = contractPhase
    BY <1>14 DEF StopFinished, Settle, contractPhase
  <2>5. [j \in Item |-> contractState(j)]'
          = [[j \in Item |-> contractState(j)] EXCEPT ![next] = "stopped"]
    BY <2>3
  <2>6. Contract!EndStop(next)
    BY <1>14, <2>1, <2>2, <2>4, <2>5 DEF StopFinished, Settle, Contract!EndStop
  <2> QED
    BY <2>1, <2>6 DEF Contract!CNext
<1>15. CASE StopExpired
  <2>1. Item = Contract!Item /\ next \in Item
    BY <1>15 DEF StopExpired, Settle
  <2>2. contractState(next) = "stopping"
    BY <1>15, <2>1, StateOf DEF StopExpired, Settle, StopInv
  <2>3. \A j \in Item : contractState(j)' = IF j = next THEN "abandoned" ELSE contractState(j)
    BY <1>15, <2>1, Answered, StoppedWasStarted DEF StopExpired, Settle, contractState, StopInv
  <2>4. contractPhase' = contractPhase
    BY <1>15 DEF StopExpired, Settle, contractPhase
  <2>5. [j \in Item |-> contractState(j)]'
          = [[j \in Item |-> contractState(j)] EXCEPT ![next] = "abandoned"]
    BY <2>3
  <2>6. Contract!EndStop(next)
    BY <1>15, <2>1, <2>2, <2>4, <2>5 DEF StopExpired, Settle, Contract!EndStop
  <2> QED
    BY <2>1, <2>6 DEF Contract!CNext
<1>16. CASE StopsDone
  BY <1>16 DEF StopsDone, contractPhase, contractState
<1>17. CASE AllExited
  <2>1. Item = Contract!Item /\ \A j \in Item : contractState(j) \in {"stopped", "abandoned"}
    BY <1>17, StateOf DEF AllExited, EndDrain, StopInv
  <2>2. \A j \in Item : contractState(j)' = contractState(j)
    BY <1>17 DEF AllExited, EndDrain, contractState
  <2>3. contractPhase = "down" /\ contractPhase' = "drained"
    BY <1>17 DEF AllExited, EndDrain, contractPhase
  <2>4. Contract!Drained
    BY <1>17, <2>1, <2>2, <2>3 DEF AllExited, EndDrain, Contract!Drained,
       Contract!settled, BlameInv
  <2> QED
    BY <2>4 DEF Contract!CNext
<1>18. CASE DrainExpired
  <2>1. Item = Contract!Item /\ \A j \in Item : contractState(j) \in {"stopped", "abandoned"}
    BY <1>18, StateOf DEF DrainExpired, EndDrain, StopInv
  <2>2. \A j \in Item : contractState(j)' = contractState(j)
    BY <1>18 DEF DrainExpired, EndDrain, contractState
  <2>3. contractPhase = "down" /\ contractPhase' = "drained"
    BY <1>18 DEF DrainExpired, EndDrain, contractPhase
  <2>4. Contract!Drained
    BY <1>18, <2>1, <2>2, <2>3 DEF DrainExpired, EndDrain, Contract!Drained, Contract!settled
  <2> QED
    BY <2>4 DEF Contract!CNext
<1>19. CASE Join
  <2>1. Contract!Over
    BY <1>19 DEF Join, Contract!Over, contractPhase, contractState, StartedInv
  <2> QED
    BY <2>1 DEF Contract!CNext
<1>20. ASSUME NEW e \in CtxErrors, CancelParent(e) PROVE Step
  <2>1. Contract!Ask
    BY <1>20 DEF CancelParent, Contract!Ask, contractPhase, contractState, CtxErrors, NoError
  <2> QED
    BY <2>1 DEF Contract!CNext
<1>21. CASE UNCHANGED vars
  BY <1>21 DEF vars, contractPhase, contractState
<1> QED
  BY <1>1, <1>2, <1>3, <1>4, <1>5, <1>6, <1>7, <1>8, <1>9, <1>10, <1>11, <1>12,
     <1>13, <1>14, <1>15, <1>16, <1>17, <1>18, <1>19, <1>20, <1>21
     DEF Next, Main, Drain, Plumbing, Component, Finished

\* For any components: Run keeps the contract.
THEOREM ContractKept == Spec => KeepsContract
BY ContractInit, ContractStep, Inductive, PTL DEF Spec, KeepsContract, Contract!CSpec
============================================================================
