----------------------------- MODULE PoolClose ------------------------------
(***************************************************************************)
(* The life of the three clients of micra.  components/pgxpool/pool.go and *)
(* components/rediscache/client.go have the same shape: Init opens a pool  *)
(* and keeps it if a ping is answered, Stop closes it in a goroutine and   *)
(* waits for that or for its deadline.  components/grpcclient/client.go    *)
(* does neither: its Init makes no connection yet, its Stop closes at once.*)
(*                                                                         *)
(* The libraries are external, and differ in their Close: pgxpool's waits  *)
(* for every connection to be given back, go-redis's and grpc's close them *)
(* under their users, whose commands and RPCs then fail.                   *)
(***************************************************************************)
CONSTANT User   \* the goroutines of other components that use the pool

Kind == {"pgxpool", "rediscache", "grpcclient"}

VARIABLES
  kind,     \* which component it is
  up,       \* where Init is
  stored,   \* is the pool there for DB(), Redis() or Conn()?
  opened,   \* are there connections open?
  ctxDone,  \* is the context of Start done?
  user,     \* where each user is
  stopper,  \* where Stop is
  stopRes,  \* what it returned
  closer    \* where the goroutine that calls Close is

vars == <<kind, up, stored, opened, ctxDone, user, stopper, stopRes, closer>>

TypeOK ==
  /\ kind \in Kind
  /\ up \in {"new", "pinging", "ready", "failed"}
  /\ stored \in BOOLEAN /\ opened \in BOOLEAN /\ ctxDone \in BOOLEAN
  /\ up \in {"new", "failed"} => ~ stored
  /\ user \in [User -> {"idle", "holding", "served", "refused"}]
  /\ stopper \in {"idle", "select", "returned"}
  /\ stopRes \in {"none", "nil", "deadline"}
  /\ closer \in {"none", "closing", "answering", "exited"}

Init ==
  /\ kind \in Kind
  /\ up = "new" /\ stored = FALSE /\ opened = FALSE /\ ctxDone = FALSE
  /\ user = [u \in User |-> "idle"]
  /\ stopper = "idle" /\ stopRes = "none" /\ closer = "none"

----------------------------------------------------------------------------
\* Init of the component.

\* A DSN, an address or a target that will not do, or a pool that cannot be made.
ConnectFails ==
  /\ up = "new" /\ up' = "failed"
  /\ UNCHANGED <<kind, stored, opened, ctxDone, user, stopper, stopRes, closer>>

Connect ==
  /\ up = "new" /\ kind # "grpcclient"
  /\ up' = "pinging" /\ opened' = TRUE
  /\ UNCHANGED <<kind, stored, ctxDone, user, stopper, stopRes, closer>>

\* grpc connects when the first RPC wants it.
NewClient ==
  /\ up = "new" /\ kind = "grpcclient"
  /\ up' = "ready" /\ stored' = TRUE /\ opened' = TRUE
  /\ UNCHANGED <<kind, ctxDone, user, stopper, stopRes, closer>>

\* No answer in time: the pool is closed, and nobody will stop it.
PingFails ==
  /\ up = "pinging"
  /\ up' = "failed" /\ opened' = FALSE
  /\ UNCHANGED <<kind, stored, ctxDone, user, stopper, stopRes, closer>>

PingAnswered ==
  /\ up = "pinging"
  /\ up' = "ready" /\ stored' = TRUE
  /\ UNCHANGED <<kind, opened, ctxDone, user, stopper, stopRes, closer>>

----------------------------------------------------------------------------
\* The users, once the Inits are over.  A pool that is closed refuses them, from
\* some moment between the making of the goroutine and the end of Close.

Acquire(u) ==
  /\ stored /\ user[u] = "idle"
  /\ \/ closer \in {"none", "closing"} /\ user' = [user EXCEPT ![u] = "holding"]
     \/ closer # "none" /\ user' = [user EXCEPT ![u] = "refused"]
  /\ UNCHANGED <<kind, up, stored, opened, ctxDone, stopper, stopRes, closer>>

Release(u) ==
  /\ user[u] = "holding" /\ user' = [user EXCEPT ![u] = "served"]
  /\ UNCHANGED <<kind, up, stored, opened, ctxDone, stopper, stopRes, closer>>

----------------------------------------------------------------------------
\* Start does nothing but wait; the lifecycle calls Stop when the wait is over.

Cancel ==
  /\ up = "ready" /\ ~ ctxDone /\ ctxDone' = TRUE
  /\ UNCHANGED <<kind, up, stored, opened, user, stopper, stopRes, closer>>

Stop ==
  /\ ctxDone /\ stopper = "idle" /\ kind # "grpcclient"
  /\ stopper' = "select" /\ closer' = "closing"
  /\ UNCHANGED <<kind, up, stored, opened, ctxDone, user, stopRes>>

\* A Close that does not wait ends what its users are at.
refuseUsers == user' = [u \in User |-> IF user[u] = "holding" THEN "refused" ELSE user[u]]

\* [slip] The connection is closed when nobody uses it, or else left.
StopConnIfUnused ==
  /\ ctxDone /\ stopper = "idle" /\ kind = "grpcclient"
  /\ stopper' = "returned" /\ stopRes' = "nil"
  /\ IF \E u \in User : user[u] = "holding"
     THEN UNCHANGED <<closer, opened>>
     ELSE closer' = "exited" /\ opened' = FALSE
  /\ UNCHANGED <<kind, up, stored, ctxDone, user>>

\* grpcclient's Stop is grpc's Close.
StopConn ==
  /\ ctxDone /\ stopper = "idle" /\ kind = "grpcclient"
  /\ stopper' = "returned" /\ stopRes' = "nil"
  /\ closer' = "exited" /\ opened' = FALSE
  /\ refuseUsers
  /\ UNCHANGED <<kind, up, stored, ctxDone>>

Closed ==
  /\ closer = "closing"
  /\ kind = "pgxpool" => \A u \in User : user[u] # "holding"
  /\ closer' = "answering" /\ opened' = FALSE
  /\ refuseUsers
  /\ UNCHANGED <<kind, up, stored, ctxDone, stopper, stopRes>>

\* The answer never blocks: pgxpool closes done, rediscache's has a buffer.
Answer ==
  /\ closer = "answering" /\ closer' = "exited"
  /\ UNCHANGED <<kind, up, stored, opened, ctxDone, user, stopper, stopRes>>

\* done has an answer.  go-redis's own error is left out.
StopAnswered ==
  /\ stopper = "select" /\ closer = "exited"
  /\ stopper' = "returned" /\ stopRes' = "nil"
  /\ UNCHANGED <<kind, up, stored, opened, ctxDone, user, closer>>

\* [slip] The deadline is logged, and nothing else.
StopExpiresNil ==
  /\ stopper = "select" /\ stopper' = "returned" /\ stopRes' = "nil"
  /\ UNCHANGED <<kind, up, stored, opened, ctxDone, user, closer>>

\* [slip] The deadline does not end the wait.
StopExpiresWaiting == StopAnswered

StopExpires ==
  /\ stopper = "select" /\ stopper' = "returned" /\ stopRes' = "deadline"
  /\ UNCHANGED <<kind, up, stored, opened, ctxDone, user, closer>>

----------------------------------------------------------------------------
Over ==
  /\ up = "failed" \/ stopper = "returned"
  /\ UNCHANGED vars

Stopper == Stop \/ StopConn \/ StopAnswered \/ StopExpires

Next ==
  \/ ConnectFails \/ Connect \/ NewClient \/ PingFails \/ PingAnswered
  \/ Cancel \/ Stopper \/ Closed \/ Answer \/ Over
  \/ \E u \in User : Acquire(u) \/ Release(u)

\* The lifecycle calls Stop, its deadline passes, and the goroutine runs.  A user
\* may keep its connection for ever.
Spec ==
  Init /\ [][Next]_vars /\ WF_vars(Stopper) /\ WF_vars(Closed) /\ WF_vars(Answer)

----------------------------------------------------------------------------
\* A nil Stop means that nobody holds a connection, that nobody will, and that
\* none is open: what was registered before may go.  An Init that fails leaves
\* none open either, as Stop will not be called (pool.go:67-70, 87-104,
\* rediscache/client.go:81-84, 102-116; grpcclient/client.go:71-76).
PoolIsReleased ==
  /\ stopRes = "nil" => ~ opened /\ \A u \in User : user[u] # "holding"
  /\ up = "failed" => ~ opened
=============================================================================
