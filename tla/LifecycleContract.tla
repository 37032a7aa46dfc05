-------------------------- MODULE LifecycleContract --------------------------
(***************************************************************************)
(* What micra promises a component (core/component.go, Component and       *)
(* Initializer), without goroutines, channels or timers:                   *)
(*                                                                         *)
(*   registered --> initialized --> running --> stopping --> stopped       *)
(*                                                      \--> abandoned     *)
(*                                                                         *)
(* in lockstep with the phase of the whole application.  `abandoned' is a  *)
(* component whose Stop did not answer before its deadline.                *)
(***************************************************************************)
EXTENDS Integers

CONSTANT N

Item == 1 .. N

VARIABLES
  phase,     \* "setup", "up", "down", "drained", "over"; or "aborted" by an Init
  state,     \* each component's place in its life
  live,      \* the components whose Start has been launched and not returned
  failed,    \* the components whose Start returned an error
  asked,     \* has the caller asked for shutdown (its context ended)?
  leaked     \* did the wait for the Starts run out of time?

cvars == <<phase, state, live, failed, asked, leaked>>

settled(i) == state[i] \in {"stopped", "abandoned"}

CInit ==
  /\ phase = "setup"
  /\ state = [i \in Item |-> "registered"]
  /\ live = {} /\ failed = {}
  /\ asked \in BOOLEAN
  /\ leaked = FALSE

\* Init succeeds (or there is none), in registration order.
Initialize(i) ==
  /\ phase = "setup" /\ state[i] = "registered"
  /\ \A j \in Item : j < i => state[j] = "initialized"
  /\ state' = [state EXCEPT ![i] = "initialized"]
  /\ UNCHANGED <<phase, live, failed, asked, leaked>>

\* Init fails: nothing was started, nothing ever will be.
Abort ==
  /\ phase = "setup" /\ \E i \in Item : state[i] = "registered"
  /\ phase' = "aborted"
  /\ UNCHANGED <<state, live, failed, asked, leaked>>

\* "By the time Start is invoked, every earlier-registered Initializer has
\* already completed successfully": here every one, earlier or later.
Launch(i) ==
  /\ phase = "setup" /\ state[i] = "initialized"
  /\ \A j \in Item : state[j] # "registered" /\ (j < i => state[j] = "running")
  /\ state' = [state EXCEPT ![i] = "running"]
  /\ live' = live \cup {i}
  /\ UNCHANGED <<phase, failed, asked, leaked>>

Up ==
  /\ phase = "setup" /\ \A i \in Item : state[i] = "running"
  /\ phase' = "up"
  /\ UNCHANGED <<state, live, failed, asked, leaked>>

\* Start returns by itself, with an error or without one.
StartEnds(i) ==
  /\ i \in live
  /\ live' = live \ {i}
  /\ failed' \in {failed, failed \cup {i}}
  /\ UNCHANGED <<phase, state, asked, leaked>>

Ask ==
  /\ ~asked /\ asked' = TRUE
  /\ UNCHANGED <<phase, state, live, failed, leaked>>

\* Only the caller, or a component that failed, brings the application down.
Shutdown ==
  /\ phase = "up"
  /\ asked \/ failed # {}
  /\ phase' = "down"
  /\ UNCHANGED <<state, live, failed, asked, leaked>>

\* "App calls Stop sequentially in reverse-of-Register order."
BeginStop(i) ==
  /\ phase = "down" /\ state[i] = "running"
  /\ \A j \in Item : j > i => settled(j)
  /\ state' = [state EXCEPT ![i] = "stopping"]
  /\ UNCHANGED <<phase, live, failed, asked, leaked>>

EndStop(i) ==
  /\ state[i] = "stopping"
  /\ \E s \in {"stopped", "abandoned"} : state' = [state EXCEPT ![i] = s]
  /\ UNCHANGED <<phase, live, failed, asked, leaked>>

\* The wait for the Starts ends: they all have, or it is reported.
Drained ==
  /\ phase = "down" /\ \A i \in Item : settled(i)
  /\ phase' = "drained"
  /\ \/ live = {} /\ UNCHANGED leaked
     \/ leaked' = TRUE
  /\ UNCHANGED <<state, live, failed, asked>>

Over ==
  /\ phase = "drained" /\ phase' = "over"
  /\ UNCHANGED <<state, live, failed, asked, leaked>>

CNext ==
  \/ Abort \/ Up \/ Ask \/ Shutdown \/ Drained \/ Over
  \/ \E i \in Item :
       Initialize(i) \/ Launch(i) \/ StartEnds(i) \/ BeginStop(i) \/ EndStop(i)

CSpec == CInit /\ [][CNext]_cvars
==============================================================================
