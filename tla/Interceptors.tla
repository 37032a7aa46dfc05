---------------------------- MODULE Interceptors ----------------------------
(***************************************************************************)
(* The chain of interceptors a gRPC call passes on its way to the handler  *)
(* and back: components/grpcserver/server.go builds it,                    *)
(* internal/interceptors implements its layers.  Each call runs in a       *)
(* goroutine of its own.                                                   *)
(*                                                                         *)
(* grpc is external: it calls the chain, sends the client what it returns, *)
(* and lets a panic that leaves it end the process.  The user's            *)
(* interceptors are one layer, which answers or changes an answer as it    *)
(* likes, or panics; so may the handler, which may also leave a task       *)
(* behind with core.Detach (core/detach.go), one per call here: a          *)
(* goroutine of its own, which logs once, panics or ends when it pleases.  *)
(***************************************************************************)
EXTENDS Naturals, Sequences

CONSTANTS
  Call,    \* the calls; each is the id that is generated for it, too
  Header   \* the request ids clients may send

RequestId == Header \cup Call

VARIABLES
  call,      \* each call's progress, context and answer
  task,      \* each call's detached task, and the logger it was given
  lines,     \* the lines of each call that reached the App's logger
  verbose,   \* is payload logging on, and the logger enabled for debug?
  crashed    \* has a panic ended the process?

vars == <<call, task, lines, verbose, crashed>>

\* What a handler or an interceptor returns: no error, one with a status of its
\* own, the bare error of its context, or any other.
Answer == {"nil", "status", "context", "plain"}

Codes == {"OK", "NotFound", "Canceled", "Unknown", "Internal"}

\* status.Code: an error without a status is Unknown.
Code(e) ==
  CASE e = "nil" -> "OK"
    [] e = "status" -> "NotFound"
    [] e = "internal" -> "Internal"
    [] OTHER -> "Unknown"

\* What the client is answered: grpc knows the errors of a context.
Answered(e) == IF e = "context" THEN "Canceled" ELSE Code(e)

Line == [msg : {"rpc.start", "rpc.end", "panic", "task", "taskPanic"}, rid : RequestId \cup {"untagged"},
         code : Codes \cup {"none"}]

TypeOK ==
  /\ \A c \in Call :
       /\ call[c].at \in {"idle", "in", "out", "over"}
       /\ call[c].kind \in {"unary", "stream"}
       /\ call[c].layer \in 0 .. 6
       /\ call[c].header \in Header \cup {"absent", "empty"}
       /\ call[c].logger \in {"noop", "app"}
       /\ call[c].tag \in RequestId \cup {"untagged"}
       /\ call[c].outgoing \in RequestId \cup {"unset"}
       /\ call[c].answer \in Answer \cup {"none", "panic", "internal"}
  /\ task \in [Call -> [at : {"none", "running", "logged", "over", "panicked"},
                       logger : {"noop", "app"}, tag : RequestId \cup {"untagged"}]]
  /\ lines \in [Call -> Seq(Line)]
  /\ verbose \in BOOLEAN /\ crashed \in BOOLEAN

Init ==
  /\ call = [c \in Call |-> [at |-> "idle", kind |-> "unary", layer |-> 0,
                             header |-> "absent", logger |-> "noop", tag |-> "untagged",
                             outgoing |-> "unset", answer |-> "none"]]
  /\ task = [c \in Call |-> [at |-> "none", logger |-> "noop", tag |-> "untagged"]]
  /\ lines = [c \in Call |-> << >>]
  /\ verbose \in BOOLEAN /\ crashed = FALSE

\* [slip] The user's interceptors come first.
ChainUserFirst(kind) ==
  IF kind = "unary"
  THEN <<"seedLogger", "user", "RequestID", "Recovery", "RPCLog", "handler">>
  ELSE <<"seedLogger", "user", "Recovery", "handler">>

\* The order in which the server chains the layers.
Chain(kind) ==
  IF kind = "unary"
  THEN <<"seedLogger", "RequestID", "Recovery", "RPCLog", "user", "handler">>
  ELSE <<"seedLogger", "Recovery", "user", "handler">>

At(c, way, layer) ==
  /\ ~ crashed /\ call[c].at = way /\ call[c].layer > 0
  /\ Chain(call[c].kind)[call[c].layer] = layer

\* A line of call c by the logger of r, its own record or its task's: one with
\* no application behind it discards the line.
Emit(c, r, msg, code) ==
  lines' = IF r.logger = "noop" THEN lines
           ELSE [lines EXCEPT ![c] = Append(@, [msg |-> msg, rid |-> r.tag, code |-> code])]

----------------------------------------------------------------------------
\* Inwards.

\* grpc calls the chain with a context of its own.
Receive(c) ==
  /\ ~ crashed /\ call[c].at = "idle"
  /\ \E kind \in {"unary", "stream"}, h \in Header \cup {"absent", "empty"} :
       call' = [call EXCEPT ![c].at = "in", ![c].layer = 1, ![c].kind = kind, ![c].header = h]
  /\ UNCHANGED <<task, lines, verbose, crashed>>

\* seedLogger or seedStreamLogger.
SeedLogger(c) ==
  /\ At(c, "in", "seedLogger")
  /\ call' = [call EXCEPT ![c].logger = "app", ![c].layer = @ + 1]
  /\ UNCHANGED <<task, lines, verbose, crashed>>

extractOrGenerate(c) == IF call[c].header \in Header THEN call[c].header ELSE c

\* [slip] The tag goes to the App's logger itself.
RequestIDShared(c) ==
  LET rid == extractOrGenerate(c)
  IN /\ At(c, "in", "RequestID")
     /\ call' = [d \in Call |->
                   IF d = c THEN [call[c] EXCEPT !.outgoing = rid, !.tag = rid, !.layer = @ + 1]
                   ELSE [call[d] EXCEPT !.tag = rid]]
     /\ UNCHANGED <<task, lines, verbose, crashed>>

RequestID(c) ==
  LET rid == extractOrGenerate(c)
  IN /\ At(c, "in", "RequestID")
     /\ call' = [call EXCEPT ![c].outgoing = rid, ![c].tag = rid, ![c].layer = @ + 1]
     /\ UNCHANGED <<task, lines, verbose, crashed>>

\* Recovery or StreamRecovery defers its function.
RecoveryDefers(c) ==
  /\ At(c, "in", "Recovery")
  /\ call' = [call EXCEPT ![c].layer = @ + 1]
  /\ UNCHANGED <<task, lines, verbose, crashed>>

RPCLogStart(c) ==
  /\ At(c, "in", "RPCLog")
  /\ IF verbose THEN Emit(c, call[c], "rpc.start", "none") ELSE UNCHANGED lines
  /\ call' = [call EXCEPT ![c].layer = @ + 1]
  /\ UNCHANGED <<task, verbose, crashed>>

\* A user's interceptor passes the call on, or answers itself.
UserEnter(c) ==
  /\ At(c, "in", "user")
  /\ \/ call' = [call EXCEPT ![c].layer = @ + 1]
     \/ \E a \in Answer \cup {"panic"} :
          call' = [call EXCEPT ![c].answer = a, ![c].at = "out", ![c].layer = @ - 1]
  /\ UNCHANGED <<task, lines, verbose, crashed>>

Handle(c) ==
  /\ At(c, "in", "handler")
  /\ \E a \in Answer \cup {"panic"} :
       call' = [call EXCEPT ![c].answer = a, ![c].at = "out", ![c].layer = @ - 1]
  /\ UNCHANGED <<task, lines, verbose, crashed>>

----------------------------------------------------------------------------
\* core.Detach, called by a handler, and its goroutine.

\* [slip] The logger is looked up in the context the task is given, a fresh one.
DetachFresh(c) ==
  /\ At(c, "in", "handler") /\ task[c].at = "none"
  /\ task' = [task EXCEPT ![c].at = "running"]
  /\ UNCHANGED <<call, lines, verbose, crashed>>

\* The parent's logger is captured before the goroutine runs.
Detach(c) ==
  /\ At(c, "in", "handler") /\ task[c].at = "none"
  /\ task' = [task EXCEPT ![c] = [at |-> "running", logger |-> call[c].logger, tag |-> call[c].tag]]
  /\ UNCHANGED <<call, lines, verbose, crashed>>

Detached(c) == ~ crashed /\ task[c].at \in {"running", "logged"}

TaskLogs(c) ==
  /\ Detached(c) /\ task[c].at = "running"
  /\ Emit(c, task[c], "task", "none")
  /\ task' = [task EXCEPT ![c].at = "logged"]
  /\ UNCHANGED <<call, verbose, crashed>>

TaskEnds(c) ==
  /\ Detached(c)
  /\ task' = [task EXCEPT ![c].at = "over"]
  /\ UNCHANGED <<call, lines, verbose, crashed>>

\* [slip] The panic of a task is left to the layer that recovers handlers.
TaskPanicsFreely(c) ==
  /\ Detached(c)
  /\ task' = [task EXCEPT ![c].at = "panicked"]
  /\ crashed' = TRUE
  /\ UNCHANGED <<call, lines, verbose>>

\* fn panics, and the goroutine's deferred function recovers and logs.
TaskPanics(c) ==
  /\ Detached(c)
  /\ Emit(c, task[c], "taskPanic", "none")
  /\ task' = [task EXCEPT ![c].at = "panicked"]
  /\ UNCHANGED <<call, verbose, crashed>>

----------------------------------------------------------------------------
\* Outwards: the built-in layers let a panic pass but for deferred functions.

Outwards(c, answer) == call' = [call EXCEPT ![c].layer = @ - 1, ![c].answer = answer]

\* A user's interceptor may recover, too.
UserLeave(c) ==
  /\ At(c, "out", "user")
  /\ \E a \in Answer \cup {"panic"} : Outwards(c, a)
  /\ UNCHANGED <<task, lines, verbose, crashed>>

\* rpc.end, on the way out of a handler that returned.
RPCLogEnd(c) ==
  /\ At(c, "out", "RPCLog")
  /\ IF call[c].answer = "panic" THEN UNCHANGED lines ELSE Emit(c, call[c], "rpc.end", Code(call[c].answer))
  /\ Outwards(c, call[c].answer)
  /\ UNCHANGED <<task, verbose, crashed>>

\* [slip] The streams are left to the handlers.
RecoverUnary(c) ==
  /\ At(c, "out", "Recovery")
  /\ IF call[c].answer = "panic" /\ call[c].kind = "unary"
     THEN Emit(c, call[c], "panic", "none") /\ Outwards(c, "internal")
     ELSE UNCHANGED lines /\ Outwards(c, call[c].answer)
  /\ UNCHANGED <<task, verbose, crashed>>

\* [slip] The panic is turned into an error and not told.
RecoverSilent(c) ==
  /\ At(c, "out", "Recovery")
  /\ UNCHANGED lines
  /\ Outwards(c, IF call[c].answer = "panic" THEN "internal" ELSE call[c].answer)
  /\ UNCHANGED <<task, verbose, crashed>>

\* The deferred function of Recovery or StreamRecovery.
Recover(c) ==
  /\ At(c, "out", "Recovery")
  /\ IF call[c].answer = "panic"
     THEN Emit(c, call[c], "panic", "none") /\ Outwards(c, "internal")
     ELSE UNCHANGED lines /\ Outwards(c, call[c].answer)
  /\ UNCHANGED <<task, verbose, crashed>>

\* RequestID and the seeding layers have nothing to do on the way out.
PassOut(c) ==
  /\ At(c, "out", "RequestID") \/ At(c, "out", "seedLogger")
  /\ Outwards(c, call[c].answer)
  /\ UNCHANGED <<task, lines, verbose, crashed>>

Reply(c) ==
  /\ ~ crashed /\ call[c].at = "out" /\ call[c].layer = 0
  /\ call' = [call EXCEPT ![c].at = "over"]
  /\ crashed' = (call[c].answer = "panic")
  /\ UNCHANGED <<task, lines, verbose>>

----------------------------------------------------------------------------
Over ==
  /\ crashed \/ \A c \in Call : call[c].at = "over" /\ ~ Detached(c)
  /\ UNCHANGED vars

Next ==
  \/ \E c \in Call :
       \/ Receive(c) \/ SeedLogger(c) \/ RequestID(c) \/ RecoveryDefers(c)
       \/ RPCLogStart(c) \/ UserEnter(c) \/ Handle(c)
       \/ Detach(c) \/ TaskLogs(c) \/ TaskEnds(c) \/ TaskPanics(c)
       \/ UserLeave(c) \/ RPCLogEnd(c) \/ Recover(c) \/ PassOut(c) \/ Reply(c)
  \/ Over

Spec == Init /\ [][Next]_vars

----------------------------------------------------------------------------
Logged(c) == {lines[c][i] : i \in DOMAIN lines[c]}

Has(c, msg) == \E l \in Logged(c) : l.msg = msg

\* No panic, of a handler or of a user's interceptor, of a unary call or of a
\* stream, ends the process: the client is answered Internal (server.go:100-107,
\* recovery.go:22-55).  Nor does that of a task, after the layers that recover
\* have returned (detach.go:27-28).
PanicsAreContained == ~ crashed

\* Every line of a unary call, that of its panic and those its detached task
\* writes when the call is over included, carries the request id that goes
\* downstream, which is the client's when it sent one, whatever calls run at
\* the same time (requestid.go:30-63, rpclog.go:26-30, detach.go:18-25).
LinesNameTheCall ==
  \A c \in Call : call[c].kind = "unary" =>
    \A l \in Logged(c) :
      /\ l.rid = call[c].outgoing
      /\ l.rid = IF call[c].header \in Header THEN call[c].header ELSE c

\* A call that was answered Internal for its panic has told so, once, and no
\* other has (recovery.go:25-32); a task whose panic was recovered has, too
\* (detach.go:27-28).
PanicsAreTold ==
  \A c \in Call :
    /\ call[c].at = "over" => (call[c].answer = "internal" <=> Has(c, "panic"))
    /\ task[c].at = "panicked" <=> Has(c, "taskPanic")
    /\ \A i, j \in DOMAIN lines[c] :
         lines[c][i].msg = "panic" /\ lines[c][j].msg = "panic" => i = j

\* A unary call whose panic is not told has its rpc.end, just one, and what that
\* says is the code the client is answered, since no layer outside of RPCLog
\* changes the answer (server.go:90-98, rpclog.go:45-56); but it calls the bare
\* error of a context Unknown, which the client is answered as Canceled.
EndTellsTheAnswer ==
  \A c \in Call : call[c].at = "over" =>
    /\ call[c].kind = "unary" => Has(c, "rpc.end") \/ Has(c, "panic")
    /\ \A i, j \in DOMAIN lines[c] :
         lines[c][i].msg = "rpc.end" /\ lines[c][j].msg = "rpc.end" => i = j
    /\ \A l \in Logged(c) : l.msg = "rpc.end" =>
         l.code = IF call[c].answer = "context" THEN "Unknown" ELSE Answered(call[c].answer)
=============================================================================
