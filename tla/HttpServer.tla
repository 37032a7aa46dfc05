----------------------------- MODULE HttpServer -----------------------------
(***************************************************************************)
(* components/httpserver/server.go under the lifecycle: Start and Stop run *)
(* in goroutines of their own, Stop after Start's context has ended but    *)
(* perhaps before Start has run.                                           *)
(*                                                                         *)
(* net/http is external: Serve accepts until the server is shut down,      *)
(* Shutdown closes the listeners Serve has been given and then polls for   *)
(* active requests to end.                                                 *)
(***************************************************************************)
EXTENDS Integers, Sequences

CONSTANT Request   \* the requests clients may send

VARIABLES
  ctxDone,     \* is the context of Start done?
  starter,     \* where Start is
  startRes,    \* what it returned
  serving,     \* where the goroutine that calls Serve is
  serveErr,    \* what Serve returned
  errCh,       \* Start's channel, of capacity 1
  listening,   \* is the listener that Init opened still open?
  inShutdown,  \* has Shutdown been called?
  active,      \* the requests being handled
  seen,        \* those that ever were
  stopper,     \* where Stop is
  stopRes      \* what it returned

startVars == <<ctxDone, starter, startRes>>
serveVars == <<serving, serveErr, errCh>>
httpVars  == <<listening, inShutdown, active, seen>>
stopVars  == <<stopper, stopRes>>
vars == <<startVars, serveVars, httpVars, stopVars>>

TypeOK ==
  /\ ctxDone \in BOOLEAN
  /\ starter \in {"idle", "select", "drain", "returned"}
  /\ startRes \in {"none", "nil", "error"}
  /\ serving \in {"none", "spawned", "accepting", "sending", "exited"}
  /\ serveErr \in {"none", "ErrServerClosed", "failed"}
  /\ errCh \in {<< >>} \cup {<<e>> : e \in {"ErrServerClosed", "failed"}}
  /\ listening \in BOOLEAN /\ inShutdown \in BOOLEAN
  /\ active \subseteq seen /\ seen \subseteq Request
  /\ stopper \in {"idle", "polling", "returned"}
  /\ stopRes \in {"none", "nil", "deadline"}

\* Init has opened the listener and built the server.
Init ==
  /\ ctxDone = FALSE /\ starter = "idle" /\ startRes = "none"
  /\ serving = "none" /\ serveErr = "none" /\ errCh = << >>
  /\ listening = TRUE /\ inShutdown = FALSE /\ active = {} /\ seen = {}
  /\ stopper = "idle" /\ stopRes = "none"

----------------------------------------------------------------------------
\* net/http.

ServeEnds(e) ==
  /\ serveErr' = e /\ serving' = "sending"
  /\ listening' = FALSE
  /\ UNCHANGED <<startVars, errCh, inShutdown, active, seen, stopVars>>

\* Serve refuses a server that is shutting down, and closes the listener.
ServeBegins ==
  /\ serving = "spawned"
  /\ \/ inShutdown /\ ServeEnds("ErrServerClosed")
     \/ /\ ~ inShutdown
        /\ serving' = "accepting"
        /\ UNCHANGED <<startVars, serveErr, errCh, httpVars, stopVars>>

\* A request comes on a new connection, or on one that was kept alive:
\* a Shutdown that returned nil has closed those.
Accept(r) ==
  /\ r \notin seen
  /\ \/ serving = "accepting" /\ listening
     \/ seen # {} /\ stopRes # "nil"
  /\ active' = active \cup {r} /\ seen' = seen \cup {r}
  /\ UNCHANGED <<startVars, serveVars, listening, inShutdown, stopVars>>

\* Accept fails: the listener was closed by Shutdown, or broke.
AcceptFails ==
  /\ serving = "accepting"
  /\ \/ inShutdown /\ ServeEnds("ErrServerClosed")
     \/ ~ inShutdown /\ ServeEnds("failed")

RequestEnds(r) ==
  /\ r \in active /\ active' = active \ {r}
  /\ UNCHANGED <<startVars, serveVars, listening, inShutdown, seen, stopVars>>

----------------------------------------------------------------------------
\* Start.

Start ==
  /\ starter = "idle"
  /\ starter' = "select" /\ serving' = "spawned"
  /\ UNCHANGED <<ctxDone, startRes, serveErr, errCh, httpVars, stopVars>>

\* errCh <- s.srv.Serve(s.lis): the buffer is its own.
SendServeErr ==
  /\ serving = "sending" /\ errCh = << >>
  /\ errCh' = <<serveErr>> /\ serving' = "exited"
  /\ UNCHANGED <<startVars, serveErr, httpVars, stopVars>>

\* [slip] A cancelled context is reason enough to return.
StartSeesCtxReturns ==
  /\ starter = "select" /\ ctxDone
  /\ starter' = "returned" /\ startRes' = "nil"
  /\ UNCHANGED <<ctxDone, serveVars, httpVars, stopVars>>

\* ctx is done: Stop will call Shutdown, Start waits for Serve.
StartSeesCtx ==
  /\ starter = "select" /\ ctxDone
  /\ starter' = "drain"
  /\ UNCHANGED <<ctxDone, startRes, serveVars, httpVars, stopVars>>

\* Either case that received from errCh; ErrServerClosed is not an error.
StartReturns ==
  /\ starter \in {"select", "drain"} /\ errCh # << >>
  /\ starter' = "returned"
  /\ startRes' = IF Head(errCh) = "ErrServerClosed" THEN "nil" ELSE "error"
  /\ errCh' = << >>
  /\ UNCHANGED <<ctxDone, serving, serveErr, httpVars, stopVars>>

----------------------------------------------------------------------------
\* Stop, called by the lifecycle once Start's context is done.

\* [slip] A server that does not serve yet has nothing to shut down.
StopUnlessServing ==
  /\ stopper = "idle" /\ ctxDone
  /\ stopper' = "polling"
  /\ inShutdown' = (serving = "accepting")
  /\ listening' = (listening /\ serving # "accepting")
  /\ UNCHANGED <<startVars, serveVars, active, seen, stopRes>>

\* Shutdown closes the listener if Serve has it already.
Stop ==
  /\ stopper = "idle" /\ ctxDone
  /\ stopper' = "polling"
  /\ inShutdown' = TRUE
  /\ listening' = (listening /\ serving # "accepting")
  /\ UNCHANGED <<startVars, serveVars, active, seen, stopRes>>

StopEnds(r) ==
  /\ stopper = "polling"
  /\ stopper' = "returned" /\ stopRes' = r
  /\ UNCHANGED <<startVars, serveVars, httpVars>>

Drained == active = {} /\ StopEnds("nil")

\* The caller's deadline or shutdownGrace, whichever is first: the requests
\* that are left go on.
Expired == StopEnds("deadline")

----------------------------------------------------------------------------
Cancel ==
  /\ ~ ctxDone /\ ctxDone' = TRUE
  /\ UNCHANGED <<starter, startRes, serveVars, httpVars, stopVars>>

Over ==
  /\ starter = "returned" /\ stopper = "returned" /\ active = {}
  /\ UNCHANGED vars

Starter == Start \/ StartSeesCtx \/ StartReturns

Server == ServeBegins \/ (inShutdown /\ AcceptFails) \/ SendServeErr

Stopper == Stop \/ Drained \/ Expired

Next ==
  \/ Cancel \/ Starter \/ Server \/ Stopper \/ AcceptFails \/ Over
  \/ \E r \in Request : Accept(r) \/ RequestEnds(r)

\* The lifecycle calls Start, and Stop once the context is done; the goroutines
\* run and the deadline passes.  Requests and Accept errors may never end or come.
Spec ==
  /\ Init /\ [][Next]_vars
  /\ WF_vars(Starter) /\ WF_vars(Server) /\ WF_vars(Stopper)

----------------------------------------------------------------------------
\* Start returns only when nobody accepts any more, and says nil exactly when
\* it was Shutdown that ended Serve, cancelled context or not
\* (server.go:78-92): a Serve that broke is never taken for a shutdown.
StartOutlivesServe ==
  starter = "returned" =>
    /\ serving = "exited"
    /\ startRes = "nil" <=> serveErr = "ErrServerClosed"

\* A nil Stop means no request is being handled, and none ever will be, even
\* if Serve had not begun (server.go:96-104).
NilStopMeansQuiet == stopRes = "nil" => active = {}
=============================================================================
