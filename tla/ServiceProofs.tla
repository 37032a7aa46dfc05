---------------------------- MODULE ServiceProofs ----------------------------
(***************************************************************************)
(* What Service guarantees for any requests and any detached tasks.  A     *)
(* step of the service is a step of the server, of the pool, of both (the  *)
(* end of the context) or of neither, so what either keeps by itself it    *)
(* keeps in the service.  That no request is refused a connection needs    *)
(* both: who is stopped first, and who holds what until when.              *)
(***************************************************************************)
EXTENDS Service, TLAPS

ServiceTypeOK ==
  /\ TypeOK
  /\ Pool!TypeOK
  /\ task \in [Task -> {"none", "running", "expired", "over"}]

\* Start follows Serve through the channel: one error, sent once, taken once.
ServeInv ==
  /\ starter = "idle" <=> serving = "none"
  /\ serveErr = "none" <=> serving \in {"none", "spawned", "accepting"}
  /\ errCh # << >> => serving = "exited" /\ errCh = <<serveErr>>
  /\ starter = "returned" =>
       /\ serving = "exited" /\ errCh = << >>
       /\ startRes = "nil" <=> serveErr = "ErrServerClosed"

\* A server that is being stopped takes no new connection, and one whose Stop
\* was nil no request.
QuietInv ==
  /\ stopper # "idle" => inShutdown /\ ~ (serving = "accepting" /\ listening)
  /\ stopper = "returned" <=> stopRes # "none"
  /\ stopRes = "nil" => active = {}

\* Connections are open from Connect to Close; a nil Stop has seen Close return.
CloseInv ==
  /\ up \in {"new", "failed"} => ~ opened
  /\ up # "ready" => ~ stored
  /\ ctxDone => up = "ready"
  /\ poolStopper # "idle" => ctxDone
  /\ closer # "none" => poolStopper # "idle"
  /\ closer \in {"answering", "exited"} =>
       ~ opened /\ \A u \in Request \cup Task : user[u] # "holding"
  /\ poolStopRes = "nil" => closer = "exited"

\* The pool closes after the server has stopped, and only a request being
\* handled holds a connection.
OrderInv ==
  /\ closer # "none" => stopper = "returned"
  /\ \A r \in Request : user[r] = "holding" => r \in active
  /\ RefusedOnlyPastDeadline

----------------------------------------------------------------------------
(* The components in the service. *)

\* A step of the service is one the server by itself may take, or none of its own.
LEMMA ServerStep == [ServiceNext]_serviceVars => [Next]_vars
BY DEF ServiceNext, serviceVars, PoolInit, Shutdown, ServerStarter, ServerServe, Server,
   ServerBreaks, ServerStopper, PoolStopper, PoolCloses, PoolAnswers, Handle, TaskRuns, Detach,
   TaskWorks, TaskEnds, TaskExpires, TaskGivesUp, ServiceOver, Next, vars, serverVars, poolVars,
   startVars, serveVars, httpVars, stopVars,
   Pool!ConnectFails, Pool!Connect, Pool!NewClient, Pool!PingFails, Pool!PingAnswered,
   Pool!Stopper, Pool!Stop, Pool!StopConn, Pool!StopAnswered, Pool!StopExpires, Pool!Closed,
   Pool!Answer, Pool!Acquire, Pool!Release, Pool!Over, Pool!vars

\* Likewise the pool.
LEMMA PoolStep == [ServiceNext]_serviceVars => [Pool!Next]_(Pool!vars)
BY DEF ServiceNext, serviceVars, PoolInit, Shutdown, ServerStarter, ServerServe, Server,
   ServerBreaks, ServerStopper, PoolStopper, PoolCloses, PoolAnswers, Handle, TaskRuns, Detach,
   TaskWorks, TaskEnds, TaskExpires, TaskGivesUp, ServiceOver, vars, serverVars, poolVars,
   startVars, serveVars, httpVars, stopVars, Starter, Start, StartSeesCtx, StartReturns,
   ServeBegins, ServeEnds, AcceptFails, SendServeErr, Stopper, Stop, StopEnds, Drained, Expired,
   Accept, RequestEnds, Pool!Next, Pool!vars

\* The server keeps its types and its order of events.
LEMMA ServerInductive ==
  ASSUME TypeOK, ServeInv, QuietInv, [Next]_vars
  PROVE  TypeOK' /\ ServeInv' /\ QuietInv'
<1> USE DEF TypeOK, ServeInv, QuietInv, startVars, serveVars, httpVars, stopVars
<1>1. CASE Start
  BY <1>1 DEF Start
<1>2. CASE StartSeesCtx
  BY <1>2 DEF StartSeesCtx
<1>3. CASE StartReturns
  BY <1>3 DEF StartReturns
<1>4. CASE ServeBegins
  BY <1>4 DEF ServeBegins, ServeEnds
<1>5. CASE AcceptFails
  BY <1>5 DEF AcceptFails, ServeEnds
<1>6. CASE SendServeErr
  BY <1>6 DEF SendServeErr
<1>7. CASE Stop
  BY <1>7 DEF Stop
<1>8. CASE Drained
  BY <1>8 DEF Drained, StopEnds
<1>9. CASE Expired
  BY <1>9 DEF Expired, StopEnds
<1>10. CASE Cancel
  BY <1>10 DEF Cancel
<1>11. ASSUME NEW r \in Request, Accept(r) PROVE TypeOK' /\ ServeInv' /\ QuietInv'
  BY <1>11 DEF Accept
<1>12. ASSUME NEW r \in Request, RequestEnds(r) PROVE TypeOK' /\ ServeInv' /\ QuietInv'
  BY <1>12 DEF RequestEnds
<1>13. CASE UNCHANGED vars
  BY <1>13 DEF vars
<1> QED
  BY <1>1, <1>2, <1>3, <1>4, <1>5, <1>6, <1>7, <1>8, <1>9, <1>10, <1>11, <1>12, <1>13
     DEF Next, Starter, Server, Stopper, Over

\* The pool keeps its types and the order of Close and Stop.
LEMMA PoolInductive ==
  ASSUME Pool!TypeOK, CloseInv, [Pool!Next]_(Pool!vars)
  PROVE  Pool!TypeOK' /\ CloseInv'
<1> DEFINE Kept == Pool!TypeOK' /\ CloseInv'
<1> USE DEF Pool!TypeOK, CloseInv, Pool!Kind
<1>1. CASE Pool!ConnectFails
  BY <1>1 DEF Pool!ConnectFails
<1>2. CASE Pool!Connect
  BY <1>2 DEF Pool!Connect
<1>3. CASE Pool!NewClient
  BY <1>3 DEF Pool!NewClient
<1>4. CASE Pool!PingFails
  BY <1>4 DEF Pool!PingFails
<1>5. CASE Pool!PingAnswered
  BY <1>5 DEF Pool!PingAnswered
<1>6. CASE Pool!Cancel
  BY <1>6 DEF Pool!Cancel
<1>7. CASE Pool!Stop
  BY <1>7 DEF Pool!Stop
<1>8. CASE Pool!StopConn
  BY <1>8 DEF Pool!StopConn, Pool!refuseUsers
<1>9. CASE Pool!StopAnswered
  BY <1>9 DEF Pool!StopAnswered
<1>10. CASE Pool!StopExpires
  BY <1>10 DEF Pool!StopExpires
<1>11. CASE Pool!Closed
  BY <1>11 DEF Pool!Closed, Pool!refuseUsers
<1>12. CASE Pool!Answer
  BY <1>12 DEF Pool!Answer
<1>13. ASSUME NEW u \in Request \cup Task, Pool!Acquire(u) PROVE Kept
  BY <1>13 DEF Pool!Acquire
<1>14. ASSUME NEW u \in Request \cup Task, Pool!Release(u) PROVE Kept
  BY <1>14 DEF Pool!Release
<1>15. CASE UNCHANGED Pool!vars
  BY <1>15 DEF Pool!vars
<1> QED
  BY <1>1, <1>2, <1>3, <1>4, <1>5, <1>6, <1>7, <1>8, <1>9, <1>10, <1>11, <1>12, <1>13,
     <1>14, <1>15 DEF Pool!Next, Pool!Stopper, Pool!Over

\* What the two owe to each other: the pool is stopped after the server, and a
\* request holds its connection only while it is handled.
LEMMA OrderStep ==
  ASSUME ServiceTypeOK, QuietInv, CloseInv, OrderInv, [ServiceNext]_serviceVars
  PROVE  OrderInv'
<1> USE TaskAssumption DEF ServiceTypeOK, TypeOK, Pool!TypeOK, QuietInv, CloseInv, OrderInv,
    RefusedOnlyPastDeadline, serverVars, poolVars, startVars, serveVars, httpVars, stopVars
<1>1. CASE PoolInit
  BY <1>1 DEF PoolInit, Pool!ConnectFails, Pool!Connect, Pool!NewClient, Pool!PingFails,
     Pool!PingAnswered
<1>2. CASE Shutdown
  BY <1>2 DEF Shutdown, Cancel, Pool!Cancel
<1>3. CASE ServerStarter
  BY <1>3 DEF ServerStarter, Starter, Start, StartSeesCtx, StartReturns
<1>4. CASE ServerServe
  BY <1>4 DEF ServerServe, Server, ServeBegins, ServeEnds, AcceptFails, SendServeErr
<1>5. CASE ServerBreaks
  BY <1>5 DEF ServerBreaks, ServeEnds, AcceptFails
<1>6. CASE ServerStopper
  BY <1>6 DEF ServerStopper, Stopper, Stop, Drained, Expired, StopEnds
<1>7. CASE PoolStopper
  <2>1. active # {} => stopRes = "deadline"
    BY <1>7 DEF PoolStopper
  <2>2. stopper' = "returned" /\ UNCHANGED <<stopRes, active>>
    BY <1>7 DEF PoolStopper
  <2>3. \A u \in Request \cup Task :
          user'[u] = user[u] \/ (user[u] = "holding" /\ user'[u] = "refused")
    BY <1>7 DEF PoolStopper, Pool!Stopper, Pool!Stop, Pool!StopConn, Pool!refuseUsers,
       Pool!StopAnswered, Pool!StopExpires
  <2> QED
    BY <2>1, <2>2, <2>3
<1>8. CASE PoolCloses
  <2>1. closer # "none" /\ stopper = "returned"
    BY <1>8 DEF PoolCloses, Pool!Closed
  <2>2. active # {} => stopRes = "deadline"
    BY <2>1
  <2>3. UNCHANGED <<stopper, stopRes, active>>
    BY <1>8 DEF PoolCloses
  <2>4. \A u \in Request \cup Task :
          user'[u] = user[u] \/ (user[u] = "holding" /\ user'[u] = "refused")
    BY <1>8 DEF PoolCloses, Pool!Closed, Pool!refuseUsers
  <2> QED
    BY <2>1, <2>2, <2>3, <2>4
<1>9. CASE PoolAnswers
  BY <1>9 DEF PoolAnswers, Pool!Answer
<1>10. ASSUME NEW r \in Request, Handle(r) PROVE OrderInv'
  <2>1. CASE Accept(r) /\ UNCHANGED poolVars
    BY <2>1 DEF Accept
  <2>2. CASE r \in active /\ Pool!Acquire(r) /\ UNCHANGED serverVars
    <3>1. closer # "none" => stopRes = "deadline"
      BY <2>2
    <3> QED
      BY <2>2, <3>1 DEF Pool!Acquire
  <2>3. CASE Pool!Release(r) /\ UNCHANGED serverVars
    BY <2>3 DEF Pool!Release
  <2>4. CASE user[r] # "holding" /\ RequestEnds(r) /\ UNCHANGED poolVars
    BY <2>4 DEF RequestEnds
  <2> QED
    BY <1>10, <2>1, <2>2, <2>3, <2>4 DEF Handle
<1>11. ASSUME NEW t \in Task, TaskRuns(t) PROVE OrderInv'
  <2>1. \A r \in Request : r # t
    OBVIOUS
  <2>2. CASE Detach(t) \/ TaskEnds(t) \/ TaskExpires(t)
    BY <2>2 DEF Detach, TaskEnds, TaskExpires, vars
  <2>3. CASE TaskWorks(t)
    BY <2>1, <2>3 DEF TaskWorks, Pool!Acquire, Pool!Release
  <2>4. CASE TaskGivesUp(t)
    BY <2>1, <2>4 DEF TaskGivesUp, Pool!Release
  <2> QED
    BY <1>11, <2>2, <2>3, <2>4 DEF TaskRuns
<1>12. CASE UNCHANGED serviceVars
  BY <1>12 DEF serviceVars, vars
<1> QED
  BY <1>1, <1>2, <1>3, <1>4, <1>5, <1>6, <1>7, <1>8, <1>9, <1>10, <1>11, <1>12
     DEF ServiceNext, ServiceOver, Pool!Over, Pool!vars, serviceVars, vars

\* A task goes from one of its places to another.
LEMMA TaskStep ==
  ASSUME task \in [Task -> {"none", "running", "expired", "over"}], [ServiceNext]_serviceVars
  PROVE  (task \in [Task -> {"none", "running", "expired", "over"}])'
<1>1. \/ UNCHANGED task
      \/ \E t \in Task, w \in {"running", "expired", "over"} : Becomes(t, w)
  BY DEF ServiceNext, PoolInit, Shutdown, ServerStarter, ServerServe, ServerBreaks, ServerStopper,
     PoolStopper, PoolCloses, PoolAnswers, Handle, TaskRuns, Detach, TaskWorks, TaskEnds,
     TaskExpires, TaskGivesUp, ServiceOver, serviceVars
<1> QED
  BY <1>1 DEF Becomes

----------------------------------------------------------------------------
(* The theorems. *)

IInv == ServiceTypeOK /\ ServeInv /\ QuietInv /\ CloseInv /\ OrderInv

\* The conjunction of the above holds in every reachable state.
THEOREM Inductive == ServiceSpec => []IInv
<1>1. ServiceInit => IInv
  BY DEF ServiceInit, Init, Pool!Init, IInv, ServiceTypeOK, TypeOK, Pool!TypeOK, Pool!Kind,
     ServeInv, QuietInv, CloseInv, OrderInv, RefusedOnlyPastDeadline
<1>2. IInv /\ [ServiceNext]_serviceVars => IInv'
  BY ServerStep, PoolStep, TaskStep, ServerInductive, PoolInductive, OrderStep
     DEF IInv, ServiceTypeOK
<1> QED
  BY <1>1, <1>2, PTL DEF ServiceSpec

\* For any requests and tasks: every variable keeps its type.
THEOREM TypeCorrect == ServiceSpec => []ServiceTypeOK
<1>1. IInv => ServiceTypeOK
  BY DEF IInv
<1> QED
  BY <1>1, Inductive, PTL

\* For any requests: Start returns after Serve, and with its verdict.
THEOREM StartsOutliveServe == ServiceSpec => []StartOutlivesServe
<1>1. IInv => StartOutlivesServe
  BY DEF IInv, ServeInv, StartOutlivesServe
<1> QED
  BY <1>1, Inductive, PTL

\* For any requests: after a nil Stop of the server, which the pool's follows, none
\* is being handled.
THEOREM NilStopsAreQuiet == ServiceSpec => []NilStopMeansQuiet
<1>1. IInv => NilStopMeansQuiet
  BY DEF IInv, QuietInv, NilStopMeansQuiet
<1> QED
  BY <1>1, Inductive, PTL

\* For any of the three clients and any users: a nil Stop, like a failed Init,
\* leaves no connection open and none in use.
THEOREM PoolsAreReleased == ServiceSpec => []PoolIsReleased
<1>1. IInv => PoolIsReleased
  BY DEF IInv, CloseInv, PoolIsReleased, Pool!PoolIsReleased
<1> QED
  BY <1>1, Inductive, PTL

\* For any requests and tasks over one server and one pool: a request is refused its connection only after
\* the server's Stop gave up, a task only after it returned.
THEOREM RefusalsAreLate == ServiceSpec => []RefusedOnlyPastDeadline
<1>1. IInv => RefusedOnlyPastDeadline
  BY DEF IInv, OrderInv
<1> QED
  BY <1>1, Inductive, PTL
==============================================================================
