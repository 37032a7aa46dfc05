------------------------------ MODULE Service -------------------------------
(***************************************************************************)
(* A service of two components, as an application registers them: a pool   *)
(* (PoolClose) and then the HTTP server whose requests use it (HttpServer).*)
(* The lifecycle runs the Inits in that order, starts both under one       *)
(* context, and stops them one after the other, the server first, giving   *)
(* each its own deadline (core/internal/lifecycle/lifecycle.go).           *)
(*                                                                         *)
(* Handlers may leave tasks behind with core.Detach (core/detach.go), which*)
(* use the pool too.  Nobody waits for them: they have ten seconds.        *)
(***************************************************************************)
EXTENDS HttpServer

CONSTANT Task   \* the detached tasks there may be

ASSUME TaskAssumption == Task \cap Request = {}

VARIABLES
  task,                       \* where each detached task is
  kind, up, stored, opened,   \* as in PoolClose
  user,                       \* what each request does with the pool
  poolStopper, poolStopRes, closer

poolVars == <<kind, up, stored, opened, user, poolStopper, poolStopRes, closer>>
serverVars == <<starter, startRes, serveVars, httpVars, stopVars>>
serviceVars == <<vars, poolVars, task>>

Pool == INSTANCE PoolClose WITH
  User <- Request \cup Task, stopper <- poolStopper, stopRes <- poolStopRes

\* Nobody looks at the server before the pool is up, so its Init, which opens
\* the listener, may as well have been done.
ServiceInit == Init /\ Pool!Init /\ task = [t \in Task |-> "none"]

----------------------------------------------------------------------------
\* The Init of the pool.
PoolInit ==
  /\ Pool!ConnectFails \/ Pool!Connect \/ Pool!NewClient \/ Pool!PingFails \/ Pool!PingAnswered
  /\ UNCHANGED <<serverVars, task>>

\* The context of both Starts ends, at some time after the last Init.
Shutdown == Pool!Cancel /\ Cancel /\ UNCHANGED task

\* Start is not called unless every Init was nil.
ServerStarter == up = "ready" /\ Starter /\ UNCHANGED <<poolVars, task>>

ServerServe == Server /\ UNCHANGED <<poolVars, task>>

ServerBreaks == AcceptFails /\ UNCHANGED <<poolVars, task>>

\* The last registered is stopped first.
ServerStopper == Stopper /\ UNCHANGED <<poolVars, task>>

\* [slip] The Stops are not waited for one by one.
PoolStopperAtOnce == Pool!Stopper /\ UNCHANGED <<serverVars, task>>

\* The pool is stopped once the server's Stop has returned, or was given up.
PoolStopper ==
  /\ stopper = "returned"
  /\ Pool!Stopper /\ UNCHANGED <<serverVars, task>>

PoolCloses == Pool!Closed /\ UNCHANGED <<serverVars, task>>

PoolAnswers == Pool!Answer /\ UNCHANGED <<serverVars, task>>

\* A handler gives its connection back before it returns.
Handle(r) ==
  /\ \/ Accept(r) /\ UNCHANGED poolVars
     \/ r \in active /\ Pool!Acquire(r) /\ UNCHANGED serverVars
     \/ Pool!Release(r) /\ UNCHANGED serverVars
     \/ user[r] # "holding" /\ RequestEnds(r) /\ UNCHANGED poolVars
  /\ UNCHANGED task

----------------------------------------------------------------------------
\* Detached tasks.

Becomes(t, where) == task' = [task EXCEPT ![t] = where]

\* Called by a handler; the end of the request is not the end of the task.
Detach(t) ==
  /\ active # {} /\ task[t] = "none" /\ Becomes(t, "running")
  /\ UNCHANGED <<vars, poolVars>>

\* fn uses the pool, for as long as it likes while its context is alive.
TaskWorks(t) ==
  /\ \/ task[t] = "running" /\ Pool!Acquire(t)
     \/ Pool!Release(t)
  /\ UNCHANGED <<serverVars, task>>

TaskEnds(t) ==
  /\ task[t] = "running" /\ user[t] # "holding" /\ Becomes(t, "over")
  /\ UNCHANGED <<vars, poolVars>>

\* [slip] The context is made without the deadline.
TaskExpiresNever(t) == FALSE /\ Becomes(t, "expired") /\ UNCHANGED <<vars, poolVars>>

\* DetachTimeout has passed: fn's context is done.
TaskExpires(t) ==
  /\ task[t] = "running" /\ Becomes(t, "expired")
  /\ UNCHANGED <<vars, poolVars>>

\* fn sees it, and returns.
TaskGivesUp(t) ==
  /\ task[t] = "expired" /\ Becomes(t, "over")
  /\ IF user[t] = "holding" THEN Pool!Release(t) ELSE UNCHANGED <<ctxDone, poolVars>>
  /\ UNCHANGED serverVars

TaskRuns(t) == Detach(t) \/ TaskWorks(t) \/ TaskEnds(t) \/ TaskExpires(t) \/ TaskGivesUp(t)

----------------------------------------------------------------------------
ServiceOver == Pool!Over /\ UNCHANGED <<vars, task>>

ServiceNext ==
  \/ PoolInit \/ Shutdown
  \/ ServerStarter \/ ServerServe \/ ServerBreaks \/ ServerStopper
  \/ PoolStopper \/ PoolCloses \/ PoolAnswers
  \/ \E r \in Request : Handle(r)
  \/ \E t \in Task : TaskRuns(t)
  \/ ServiceOver

\* The lifecycle calls what it owes and its deadlines pass, the components'
\* goroutines run; a request may use its connection for ever, a task until its
\* context is done.
ServiceSpec ==
  /\ ServiceInit /\ [][ServiceNext]_serviceVars
  /\ WF_serviceVars(ServerStarter) /\ WF_serviceVars(ServerServe)
  /\ WF_serviceVars(ServerStopper) /\ WF_serviceVars(PoolStopper)
  /\ WF_serviceVars(PoolCloses) /\ WF_serviceVars(PoolAnswers)
  /\ \A t \in Task : WF_serviceVars(TaskExpires(t)) /\ WF_serviceVars(TaskGivesUp(t))

----------------------------------------------------------------------------
\* A nil Stop of the pool, and its failed Init, leave nothing open, with requests
\* for its users (see PoolClose; pool.go:67-70, 87-104).
PoolIsReleased == Pool!PoolIsReleased

\* No request finds its pool closed, unless the server's Stop gave up on it:
\* what stopping in reverse order is for (lifecycle.go:143-169,
\* server.go:94-104, component.go:36-39).  A detached task, which nobody waits
\* for, does so only when the server is stopped (detach.go:20-23).
RefusedOnlyPastDeadline ==
  /\ \A r \in Request : user[r] = "refused" => stopRes = "deadline"
  /\ \A t \in Task : user[t] = "refused" => stopper = "returned"

\* Once the context is done both components are stopped, no Start is left and
\* no detached task, though every request hangs with a connection and every
\* task until its deadline (lifecycle.go:152-168, server.go:84-104,
\* pool.go:87-104, detach.go:22-23).
ServiceStops ==
  ctxDone ~> /\ starter = "returned" /\ poolStopper = "returned"
             /\ \A t \in Task : task[t] \notin {"running", "expired"}
=============================================================================
