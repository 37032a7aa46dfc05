-------------------------- MODULE GrpcServerProofs --------------------------
(***************************************************************************)
(* What GrpcServer keeps for any set of calls, fairness apart.             *)
(***************************************************************************)
EXTENDS GrpcServer, TLAPS

\* The channel holds what Serve returned, and Start takes it once.
ServeInv ==
  /\ starter = "idle" <=> serving = "none"
  /\ srvErr # << >> => serving = "exited" /\ srvErr = <<serveErr>>
  /\ serving \in {"returning", "sending", "exited"} => serveErr # "none"
  /\ StartOutlivesServe

\* GracefulStop returns with no call left, when no connection is open to make
\* one on, and Stop does not return before.
StopInv ==
  /\ graceful = "returned" => active = {}
  /\ stopRes # "none" => graceful = "returned"
  /\ stopper # "returned" => stopRes = "none"

\* The health service is flipped by Stop's first step.
ProbeInv ==
  /\ stopper # "idle" => health = "NOT_SERVING"
  /\ probeLate => stopper # "idle"
  /\ probe = "idle" => probeRes = "none"
  /\ LateProbeFails

IInv == TypeOK /\ ServeInv /\ StopInv /\ ProbeInv

----------------------------------------------------------------------------
LEMMA InitInv == Init => IInv
<1> SUFFICES ASSUME Init PROVE IInv
  OBVIOUS
<1>1. TypeOK
  BY DEF Init, TypeOK
<1> QED
  BY <1>1 DEF Init, IInv, ServeInv, StopInv, ProbeInv, StartOutlivesServe, LateProbeFails

\* Every action keeps the types.
LEMMA StepType == IInv /\ [Next]_vars => TypeOK'
<1> SUFFICES ASSUME IInv, [Next]_vars PROVE TypeOK'
  OBVIOUS
<1> USE DEF IInv, TypeOK, startVars, serveVars, grpcVars, stopVars, probeVars
<1>1. CASE Cancel
  BY <1>1 DEF Cancel
<1>2. CASE Starter
  BY <1>2 DEF Starter, Start, StartSeesCtx, StartReturns
<1>3. CASE ServeBegins \/ AcceptFails \/ ServeReturns
  BY <1>3 DEF ServeBegins, AcceptFails, ServeReturns
<1>4. CASE SendServeErr
  BY <1>4 DEF SendServeErr, ServeInv
<1>5. CASE GracefulBegins \/ GoAway \/ GracefulReturns \/ KillReturns
  BY <1>5 DEF GracefulBegins, GoAway, GracefulReturns, KillReturns
<1>6. CASE Stopper
  BY <1>6 DEF Stopper, StopFlips, StopSpawns, StopExpires, StopReturns
<1>7. CASE Probe
  BY <1>7 DEF Probe, ProbeDials, ProbeAnswered, ProbeFails, ProbeReturns
<1>8. ASSUME NEW r \in Rpc, CallBegins(r) \/ CallEnds(r) PROVE TypeOK'
  BY <1>8 DEF CallBegins, CallEnds
<1>9. CASE UNCHANGED vars
  BY <1>9 DEF vars
<1> QED
  BY <1>1, <1>2, <1>3, <1>4, <1>5, <1>6, <1>7, <1>8, <1>9 DEF Next, Server, Over

LEMMA StepServe == IInv /\ [Next]_vars => ServeInv'
<1> SUFFICES ASSUME IInv, [Next]_vars PROVE ServeInv'
  OBVIOUS
<1> USE DEF IInv, ServeInv, StartOutlivesServe, startVars, serveVars
<1>1. CASE Cancel
  BY <1>1 DEF Cancel
<1>2. CASE Start
  BY <1>2 DEF Start
<1>3. CASE StartSeesCtx
  BY <1>3 DEF StartSeesCtx
<1>4. CASE StartReturns
  BY <1>4 DEF StartReturns, TypeOK
<1>5. CASE ServeBegins \/ AcceptFails \/ ServeReturns
  BY <1>5 DEF ServeBegins, AcceptFails, ServeReturns
<1>6. CASE SendServeErr
  BY <1>6 DEF SendServeErr
<1>7. CASE GracefulBegins \/ GoAway \/ GracefulReturns \/ KillReturns
  BY <1>7 DEF GracefulBegins, GoAway, GracefulReturns, KillReturns
<1>8. CASE Stopper
  BY <1>8 DEF Stopper, StopFlips, StopSpawns, StopExpires, StopReturns
<1>9. CASE Probe
  BY <1>9 DEF Probe, ProbeDials, ProbeAnswered, ProbeFails, ProbeReturns
<1>10. ASSUME NEW r \in Rpc, CallBegins(r) \/ CallEnds(r) PROVE ServeInv'
  BY <1>10 DEF CallBegins, CallEnds
<1>11. CASE UNCHANGED vars
  BY <1>11 DEF vars
<1> QED
  BY <1>1, <1>2, <1>3, <1>4, <1>5, <1>6, <1>7, <1>8, <1>9, <1>10, <1>11
     DEF Next, Starter, Server, Over

LEMMA StepStop == IInv /\ [Next]_vars => StopInv'
<1> SUFFICES ASSUME IInv, [Next]_vars PROVE StopInv'
  OBVIOUS
<1> USE DEF IInv, StopInv, grpcVars, stopVars
<1>1. CASE Cancel
  BY <1>1 DEF Cancel
<1>2. CASE Starter
  BY <1>2 DEF Starter, Start, StartSeesCtx, StartReturns
<1>3. CASE ServeBegins \/ AcceptFails \/ ServeReturns \/ SendServeErr
  BY <1>3 DEF ServeBegins, AcceptFails, ServeReturns, SendServeErr
<1>4. CASE GracefulBegins \/ GoAway \/ GracefulReturns \/ KillReturns
  BY <1>4 DEF GracefulBegins, GoAway, GracefulReturns, KillReturns
<1>5. CASE StopFlips \/ StopExpires \/ StopReturns
  BY <1>5 DEF StopFlips, StopExpires, StopReturns
<1>6. CASE StopSpawns
  BY <1>6 DEF StopSpawns
<1>7. CASE Probe
  BY <1>7 DEF Probe, ProbeDials, ProbeAnswered, ProbeFails, ProbeReturns
<1>8. ASSUME NEW r \in Rpc, CallBegins(r) \/ CallEnds(r) PROVE StopInv'
  BY <1>8 DEF CallBegins, CallEnds, Connected
<1>9. CASE UNCHANGED vars
  BY <1>9 DEF vars
<1> QED
  BY <1>1, <1>2, <1>3, <1>4, <1>5, <1>6, <1>7, <1>8, <1>9 DEF Next, Stopper, Server, Over

LEMMA StepProbe == IInv /\ [Next]_vars => ProbeInv'
<1> SUFFICES ASSUME IInv, [Next]_vars PROVE ProbeInv'
  OBVIOUS
<1> USE DEF IInv, ProbeInv, LateProbeFails, probeVars, stopVars
<1>1. CASE Cancel
  BY <1>1 DEF Cancel
<1>2. CASE Starter
  BY <1>2 DEF Starter, Start, StartSeesCtx, StartReturns
<1>3. CASE ServeBegins \/ AcceptFails \/ ServeReturns \/ SendServeErr
  BY <1>3 DEF ServeBegins, AcceptFails, ServeReturns, SendServeErr
<1>4. CASE GracefulBegins \/ GoAway \/ GracefulReturns \/ KillReturns
  BY <1>4 DEF GracefulBegins, GoAway, GracefulReturns, KillReturns
<1>5. CASE Stopper
  BY <1>5 DEF Stopper, StopFlips, StopSpawns, StopExpires, StopReturns
<1>6. CASE ProbeDials
  BY <1>6 DEF ProbeDials
<1>7. CASE ProbeAnswered
  BY <1>7 DEF ProbeAnswered
<1>8. CASE ProbeFails \/ ProbeReturns
  BY <1>8 DEF ProbeFails, ProbeReturns
<1>9. ASSUME NEW r \in Rpc, CallBegins(r) \/ CallEnds(r) PROVE ProbeInv'
  BY <1>9 DEF CallBegins, CallEnds
<1>10. CASE UNCHANGED vars
  BY <1>10 DEF vars
<1> QED
  BY <1>1, <1>2, <1>3, <1>4, <1>5, <1>6, <1>7, <1>8, <1>9, <1>10 DEF Next, Probe, Server, Over

\* The strengthening is an invariant of the Server under any handlers: what it
\* says of Stop, Start and the probes needs no fairness.
THEOREM Inductive == StubbornSpec => []IInv
<1>1. IInv /\ [Next]_vars => IInv'
  BY StepType, StepServe, StepStop, StepProbe DEF IInv
<1> QED
  BY InitInv, <1>1, PTL DEF StubbornSpec

\* A Stop that has returned leaves no call behind, for any number of calls: not
\* even the one that came past the deadline (server.go:172-187).
THEOREM NoCallOutlivesStop == StubbornSpec => []StopMeansQuiet
<1>1. IInv => StopMeansQuiet
  BY DEF IInv, StopInv, StopMeansQuiet
<1> QED
  BY Inductive, <1>1, PTL

\* Start's answer is Serve's, and comes after it (server.go:140-158).
THEOREM StartTellsServe == StubbornSpec => []StartOutlivesServe
<1>1. IInv => StartOutlivesServe
  BY DEF IInv, ServeInv
<1> QED
  BY Inductive, <1>1, PTL

\* No probe begun after Stop says ready (server.go:162-171).
THEOREM ProbesFailAfterStop == StubbornSpec => []LateProbeFails
<1>1. IInv => LateProbeFails
  BY DEF IInv, ProbeInv
<1> QED
  BY Inductive, <1>1, PTL
=============================================================================
