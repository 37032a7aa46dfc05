----------------------------- MODULE GrpcServer -----------------------------
(***************************************************************************)
(* components/grpcserver/server.go under the lifecycle, with the readiness *)
(* probe of healthprobe.go as a client: Start and Stop run in goroutines   *)
(* of their own, Stop after Start's context has ended but perhaps before   *)
(* Start has run.                                                          *)
(*                                                                         *)
(* grpc is external.  GracefulStop and Stop both fire quit, close the      *)
(* listeners Serve was given and wait for its loop to be left; then        *)
(* GracefulStop sends GOAWAY and waits for every handler, while Stop       *)
(* closes the connections, which cancels the handlers' contexts, and waits *)
(* for none.  Serve, once quit has fired, waits for either of them.        *)
(***************************************************************************)
EXTENDS Integers, Sequences

CONSTANT Rpc   \* the calls clients may make

VARIABLES
  ctxDone,    \* is the context of Start done?
  starter,    \* where Start is
  startRes,   \* what it returned
  serving,    \* where the goroutine that calls Serve is
  serveErr,   \* what Serve returned
  srvErr,     \* the Server's channel, of capacity 1
  quit,       \* has grpc been told to stop?
  srvDone,    \* has GracefulStop or Stop of grpc returned?
  active,     \* the calls being handled
  seen,       \* those that ever were
  killed,     \* has grpc's Stop closed the connections?
  health,     \* what the health service answers
  stopper,    \* where Stop is
  graceful,   \* where the goroutine that calls GracefulStop is
  stopRes,    \* what Stop returned
  probe,      \* where HealthProbe is
  probeLate,  \* was it begun after Stop?
  probeRes    \* what it returned

startVars == <<ctxDone, starter, startRes>>
serveVars == <<serving, serveErr, srvErr>>
grpcVars  == <<quit, srvDone, active, seen, killed>>
stopVars  == <<stopper, graceful, stopRes>>
probeVars == <<probe, probeLate, probeRes>>
vars == <<startVars, serveVars, grpcVars, health, stopVars, probeVars>>

TypeOK ==
  /\ ctxDone \in BOOLEAN
  /\ starter \in {"idle", "select", "drain", "returned"}
  /\ startRes \in {"none", "nil", "error"}
  /\ serving \in {"none", "spawned", "accepting", "returning", "sending", "exited"}
  /\ serveErr \in {"none", "nil", "ErrServerStopped", "failed"}
  /\ srvErr \in {<< >>} \cup {<<e>> : e \in {"nil", "ErrServerStopped", "failed"}}
  /\ quit \in BOOLEAN /\ srvDone \in BOOLEAN /\ killed \in BOOLEAN
  /\ active \subseteq seen /\ seen \subseteq Rpc
  /\ health \in {"SERVING", "NOT_SERVING"}
  /\ stopper \in {"idle", "flipped", "select", "killing", "returned"}
  /\ graceful \in {"none", "spawned", "closing", "draining", "returned"}
  /\ stopRes \in {"none", "nil", "deadline"}
  /\ probe \in {"idle", "dialled", "answered", "returned"}
  /\ probeLate \in BOOLEAN /\ probeRes \in {"none", "0", "1"}

\* Init has opened the listener, built the server and set the health service
\* to SERVING.
Init ==
  /\ ctxDone = FALSE /\ starter = "idle" /\ startRes = "none"
  /\ serving = "none" /\ serveErr = "none" /\ srvErr = << >>
  /\ quit = FALSE /\ srvDone = FALSE /\ killed = FALSE
  /\ active = {} /\ seen = {} /\ health = "SERVING"
  /\ stopper = "idle" /\ graceful = "none" /\ stopRes = "none"
  /\ probe = "idle" /\ probeLate = FALSE /\ probeRes = "none"

----------------------------------------------------------------------------
\* grpc.

\* Serve refuses a server that was told to stop.
ServeBegins ==
  /\ serving = "spawned"
  /\ \/ quit /\ serving' = "sending" /\ serveErr' = "ErrServerStopped"
     \/ ~ quit /\ serving' = "accepting" /\ UNCHANGED serveErr
  /\ UNCHANGED <<startVars, srvErr, grpcVars, health, stopVars, probeVars>>

\* Accept fails: the listener was closed by grpc, or broke.
AcceptFails ==
  /\ serving = "accepting"
  /\ serveErr' = IF quit THEN "nil" ELSE "failed"
  /\ serving' = "returning"
  /\ UNCHANGED <<startVars, srvErr, grpcVars, health, stopVars, probeVars>>

ServeReturns ==
  /\ serving = "returning" /\ (quit => srvDone)
  /\ serving' = "sending"
  /\ UNCHANGED <<startVars, serveErr, srvErr, grpcVars, health, stopVars, probeVars>>

\* There are connections to make calls on.
Connected ==
  /\ serving \notin {"none", "spawned"} /\ serveErr # "ErrServerStopped"
  /\ graceful \notin {"draining", "returned"} /\ ~ killed

CallBegins(r) ==
  /\ Connected /\ r \notin seen
  /\ active' = active \cup {r} /\ seen' = seen \cup {r}
  /\ UNCHANGED <<startVars, serveVars, quit, srvDone, killed, health, stopVars, probeVars>>

CallEnds(r) ==
  /\ r \in active /\ active' = active \ {r}
  /\ UNCHANGED <<startVars, serveVars, quit, srvDone, killed, seen, health, stopVars, probeVars>>

\* GracefulStop, and the close(done) that follows it.
GracefulBegins ==
  /\ graceful = "spawned" /\ graceful' = "closing"
  /\ quit' = TRUE
  /\ UNCHANGED <<startVars, serveVars, srvDone, active, seen, killed, health,
                 stopper, stopRes, probeVars>>

GoAway ==
  /\ graceful = "closing" /\ serving # "accepting"
  /\ graceful' = "draining"
  /\ UNCHANGED <<startVars, serveVars, grpcVars, health, stopper, stopRes, probeVars>>

GracefulReturns ==
  /\ graceful = "draining" /\ active = {}
  /\ graceful' = "returned" /\ srvDone' = TRUE
  /\ UNCHANGED <<startVars, serveVars, quit, active, seen, killed, health,
                 stopper, stopRes, probeVars>>

\* grpc's Stop returns, unless it must wait for the mutex that GracefulStop
\* holds while it waits for the handlers.
KillReturns ==
  /\ killed /\ serving # "accepting" /\ ~ srvDone
  /\ srvDone' = TRUE
  /\ UNCHANGED <<startVars, serveVars, quit, active, seen, killed, health,
                 stopVars, probeVars>>

----------------------------------------------------------------------------
\* Start.

Start ==
  /\ starter = "idle"
  /\ starter' = "select" /\ serving' = "spawned"
  /\ UNCHANGED <<ctxDone, startRes, serveErr, srvErr, grpcVars, health, stopVars, probeVars>>

SendServeErr ==
  /\ serving = "sending" /\ srvErr = << >>
  /\ srvErr' = <<serveErr>> /\ serving' = "exited"
  /\ UNCHANGED <<startVars, serveErr, grpcVars, health, stopVars, probeVars>>

\* [slip] A cancelled context is reason enough to return.
StartSeesCtxReturns ==
  /\ starter = "select" /\ ctxDone
  /\ starter' = "returned" /\ startRes' = "nil"
  /\ UNCHANGED <<ctxDone, serveVars, grpcVars, health, stopVars, probeVars>>

\* ctx is done: Stop will stop grpc, Start waits for Serve.
StartSeesCtx ==
  /\ starter = "select" /\ ctxDone
  /\ starter' = "drain"
  /\ UNCHANGED <<ctxDone, startRes, serveVars, grpcVars, health, stopVars, probeVars>>

\* Either case that received from srvErr: nil and ErrServerStopped are no errors.
StartReturns ==
  /\ starter \in {"select", "drain"} /\ srvErr # << >>
  /\ starter' = "returned"
  /\ startRes' = IF Head(srvErr) \in {"nil", "ErrServerStopped"} THEN "nil" ELSE "error"
  /\ srvErr' = << >>
  /\ UNCHANGED <<ctxDone, serving, serveErr, grpcVars, health, stopVars, probeVars>>

----------------------------------------------------------------------------
\* Stop, called by the lifecycle once Start's context is done.

\* [slip] The probes are not told.
StopTellsNoProbe ==
  /\ stopper = "idle" /\ ctxDone
  /\ stopper' = "flipped"
  /\ UNCHANGED <<startVars, serveVars, grpcVars, health, graceful, stopRes, probeVars>>

\* health.Shutdown comes first.
StopFlips ==
  /\ stopper = "idle" /\ ctxDone
  /\ stopper' = "flipped" /\ health' = "NOT_SERVING"
  /\ UNCHANGED <<startVars, serveVars, grpcVars, graceful, stopRes, probeVars>>

StopSpawns ==
  /\ stopper = "flipped"
  /\ stopper' = "select" /\ graceful' = "spawned"
  /\ UNCHANGED <<startVars, serveVars, grpcVars, health, stopRes, probeVars>>

\* [slip] The deadline is waited for and nothing is done about it.
StopExpiresPatiently ==
  /\ stopper = "select" /\ stopper' = "killing"
  /\ UNCHANGED <<startVars, serveVars, grpcVars, health, graceful, stopRes, probeVars>>

\* ctx expires: grpc's Stop, which GracefulStop is not to be waited for before.
StopExpires ==
  /\ stopper = "select" /\ stopper' = "killing"
  /\ quit' = TRUE /\ killed' = TRUE
  /\ UNCHANGED <<startVars, serveVars, srvDone, active, seen, health,
                 graceful, stopRes, probeVars>>

\* [slip] The handlers were cancelled, which is enough.
StopReturnsAtOnce ==
  /\ \/ stopper = "select" /\ graceful = "returned" /\ stopRes' = "nil"
     \/ stopper = "killing" /\ srvDone /\ stopRes' = "deadline"
  /\ stopper' = "returned"
  /\ UNCHANGED <<startVars, serveVars, grpcVars, health, graceful, probeVars>>

\* done is closed; after the deadline it is waited for too, and grpc's Stop
\* must have returned.
StopReturns ==
  /\ graceful = "returned"
  /\ \/ stopper = "select" /\ stopRes' = "nil"
     \/ stopper = "killing" /\ srvDone /\ stopRes' = "deadline"
  /\ stopper' = "returned"
  /\ UNCHANGED <<startVars, serveVars, grpcVars, health, graceful, probeVars>>

----------------------------------------------------------------------------
\* HealthProbe.

ProbeDials ==
  /\ probe = "idle"
  /\ probe' = "dialled" /\ probeLate' = (stopper \notin {"idle"})
  /\ UNCHANGED <<startVars, serveVars, grpcVars, health, stopVars, probeRes>>

\* Check is answered with the status of the moment.
ProbeAnswered ==
  /\ probe = "dialled" /\ Connected
  /\ probe' = "answered" /\ probeRes' = IF health = "SERVING" THEN "0" ELSE "1"
  /\ UNCHANGED <<startVars, serveVars, grpcVars, health, stopVars, probeLate>>

\* No answer in two seconds, or no connection: the answer that was on its way
\* is lost.
ProbeFails ==
  /\ probe \in {"dialled", "answered"}
  /\ probe' = "returned" /\ probeRes' = "1"
  /\ UNCHANGED <<startVars, serveVars, grpcVars, health, stopVars, probeLate>>

ProbeReturns ==
  /\ probe = "answered" /\ probe' = "returned"
  /\ UNCHANGED <<startVars, serveVars, grpcVars, health, stopVars, probeLate, probeRes>>

----------------------------------------------------------------------------
Cancel ==
  /\ ~ ctxDone /\ ctxDone' = TRUE
  /\ UNCHANGED <<starter, startRes, serveVars, grpcVars, health, stopVars, probeVars>>

Over ==
  /\ starter = "returned" /\ stopper = "returned" /\ active = {}
  /\ UNCHANGED vars

Starter == Start \/ StartSeesCtx \/ StartReturns

Server ==
  \/ ServeBegins \/ (quit /\ AcceptFails) \/ ServeReturns \/ SendServeErr
  \/ GracefulBegins \/ GoAway \/ GracefulReturns \/ (active = {} /\ KillReturns)

Stopper == StopFlips \/ StopSpawns \/ StopExpires \/ StopReturns

Probe == ProbeDials \/ ProbeAnswered \/ ProbeFails \/ ProbeReturns

Next ==
  \/ Cancel \/ Starter \/ Server \/ Stopper \/ Probe \/ AcceptFails \/ KillReturns
  \/ Over \/ \E r \in Rpc : CallBegins(r) \/ CallEnds(r)

\* The lifecycle calls Start, and Stop once the context is done; the goroutines
\* run and the deadline passes.  Nothing is said of the handlers.
StubbornSpec ==
  /\ Init /\ [][Next]_vars
  /\ WF_vars(Starter) /\ WF_vars(Server) /\ WF_vars(Stopper)

\* A handler whose context is cancelled returns.
Spec == StubbornSpec /\ \A r \in Rpc : WF_vars(killed /\ CallEnds(r))

----------------------------------------------------------------------------
\* Start returns only when Serve has, and says nil exactly when it was Stop
\* that ended Serve, cancelled context or not (server.go:140-158): a Serve
\* that broke is never taken for a shutdown.
StartOutlivesServe ==
  starter = "returned" =>
    /\ serving = "exited"
    /\ startRes = "error" <=> serveErr = "failed"

\* When Stop returns no call is being handled and none ever will be, deadline
\* or not: what the handlers use may be stopped next (server.go:172-187).
StopMeansQuiet == stopRes # "none" => active = {}

\* A readiness probe begun once Stop has begun to stop never says the server is
\* ready, even while calls are still accepted (server.go:162-171).
LateProbeFails == probeLate => probeRes # "0"

\* Once Stop is called, it and Start return, whatever the clients do, if the
\* handlers honour their context (server.go:172-187).
StopReleasesStart ==
  stopper # "idle" ~> stopper = "returned" /\ starter = "returned"
=============================================================================
