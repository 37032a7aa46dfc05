------------------------- MODULE InterceptorsProofs -------------------------
(***************************************************************************)
(* What Interceptors guarantees for any calls at once and any request ids. *)
(* A step of a call, or of its task, looks at and changes its own record,  *)
(* task and lines only, so the invariant is stated of one call, as a       *)
(* predicate on these three values.                                        *)
(***************************************************************************)
EXTENDS Interceptors, TLAPS

Kind == {"unary", "stream"}

CallRecord ==
  [at : {"idle", "in", "out", "over"}, kind : Kind, layer : 0 .. 6,
   header : Header \cup {"absent", "empty"}, logger : {"noop", "app"},
   tag : RequestId \cup {"untagged"}, outgoing : RequestId \cup {"unset"},
   answer : Answer \cup {"none", "panic", "internal"}]

TaskRecord ==
  [at : {"none", "running", "logged", "over", "panicked"},
   logger : {"noop", "app"}, tag : RequestId \cup {"untagged"}]

\* How many layers a chain has, and which of them recovers.
Depth(kind)    == IF kind = "unary" THEN 6 ELSE 4
Recovers(kind) == IF kind = "unary" THEN 3 ELSE 2

\* The call has come as far as layer n, on its way in.
Reached(k, n) == k.at \in {"out", "over"} \/ (k.at = "in" /\ k.layer >= n)

\* It is on its way out, and layer n behind it.
LeftLayer(k, n) == k.at \in {"out", "over"} /\ k.layer < n

\* It has passed RPCLog with an answer.
Closed(k) == k.kind = "unary" /\ LeftLayer(k, 4) /\ k.answer \notin {"panic", "internal"}

\* The layer a call is at fits its chain and its way.
PlaceInv(k) ==
  /\ k.at \in {"idle", "over"} => k.layer = 0
  /\ k.at = "in" => k.layer \in 1 .. Depth(k.kind)
  /\ k.at = "out" => k.layer \in 0 .. Depth(k.kind) - 1

\* The logger and the tag are there for the layers that log.
ContextInv(c, k) ==
  /\ Reached(k, 2) => k.logger = "app"
  /\ k.kind = "unary" /\ Reached(k, 3) =>
       LET rid == IF k.header \in Header THEN k.header ELSE c
       IN k.tag = rid /\ k.outgoing = rid

\* No panic gets past the layer that recovers, and only that one says Internal.
PanicInv(k) ==
  /\ LeftLayer(k, Recovers(k.kind)) => k.answer # "panic"
  /\ k.answer = "internal" => LeftLayer(k, Recovers(k.kind))

\* A task has the logger its call had in the handler.
TaskInv(k, t) ==
  t.at # "none" => Reached(k, Depth(k.kind)) /\ t.logger = "app" /\ t.tag = k.tag

\* What the lines tell, and from when on there are any.
LineInv(k, t, ls) ==
  /\ ls # << >> => Reached(k, 3)
  /\ \A i \in 1 .. Len(ls) : ls[i].rid = k.tag
  /\ (\E i \in 1 .. Len(ls) : ls[i].msg = "panic") <=> k.answer = "internal"
  /\ \A i, j \in 1 .. Len(ls) : ls[i].msg = "panic" /\ ls[j].msg = "panic" => i = j
  /\ (\E i \in 1 .. Len(ls) : ls[i].msg = "taskPanic") <=> t.at = "panicked"
  /\ \A i \in 1 .. Len(ls) : ls[i].msg = "rpc.end" => Closed(k) /\ ls[i].code = Code(k.answer)
  /\ \A i, j \in 1 .. Len(ls) : ls[i].msg = "rpc.end" /\ ls[j].msg = "rpc.end" => i = j
  /\ Closed(k) => \E i \in 1 .. Len(ls) : ls[i].msg = "rpc.end"

Sound(c, k, t, ls) ==
  /\ k \in CallRecord /\ t \in TaskRecord /\ ls \in Seq(Line)
  /\ PlaceInv(k) /\ ContextInv(c, k) /\ PanicInv(k) /\ TaskInv(k, t) /\ LineInv(k, t, ls)

CallsInv ==
  /\ call \in [Call -> CallRecord] /\ task \in [Call -> TaskRecord]
  /\ lines \in [Call -> Seq(Line)] /\ verbose \in BOOLEAN
  /\ \A c \in Call : Sound(c, call[c], task[c], lines[c])

IInv == CallsInv /\ crashed = FALSE

----------------------------------------------------------------------------
(* Lemmas. *)

\* Where in its chain a layer is.
LEMMA Position ==
  ASSUME NEW kind \in Kind, NEW i \in 1 .. Depth(kind)
  PROVE  /\ Chain(kind)[i] = "seedLogger" => i = 1
         /\ Chain(kind)[i] = "RequestID" => kind = "unary" /\ i = 2
         /\ Chain(kind)[i] = "Recovery" => i = Recovers(kind)
         /\ Chain(kind)[i] = "RPCLog" => kind = "unary" /\ i = 4
         /\ Chain(kind)[i] = "user" => i = Depth(kind) - 1
         /\ Chain(kind)[i] = "handler" => i = Depth(kind)
<1>1. CASE kind = "unary"
  <2>1. i \in {1, 2, 3, 4, 5, 6}
    BY <1>1 DEF Depth
  <2> QED
    BY <1>1, <2>1 DEF Chain, Depth, Recovers
<1>2. CASE kind = "stream"
  <2>1. i \in {1, 2, 3, 4}
    BY <1>2 DEF Depth
  <2> QED
    BY <1>2, <2>1 DEF Chain, Depth, Recovers
<1> QED
  BY <1>1, <1>2 DEF Kind

\* A step that leaves the other calls alone need only be sound for its own.
LEMMA OneCall ==
  ASSUME CallsInv, NEW c \in Call, NEW k, NEW t, NEW ls,
         call' = [call EXCEPT ![c] = k], task' = [task EXCEPT ![c] = t],
         lines' = [lines EXCEPT ![c] = ls], verbose' = verbose,
         Sound(c, k, t, ls)
  PROVE  CallsInv'
<1>1. k \in CallRecord /\ t \in TaskRecord /\ ls \in Seq(Line)
  BY DEF Sound
<1>2. /\ call' \in [Call -> CallRecord] /\ task' \in [Call -> TaskRecord]
      /\ lines' \in [Call -> Seq(Line)]
  BY <1>1 DEF CallsInv
<1>3. ASSUME NEW d \in Call PROVE Sound(d, call'[d], task'[d], lines'[d])
  <2>1. CASE d = c
    <3>1. call'[d] = k /\ task'[d] = t /\ lines'[d] = ls
      BY <2>1 DEF CallsInv
    <3> QED
      BY <2>1, <3>1
  <2>2. CASE d # c
    <3>1. call'[d] = call[d] /\ task'[d] = task[d] /\ lines'[d] = lines[d]
      BY <2>2 DEF CallsInv
    <3> QED
      BY <3>1 DEF CallsInv
  <2> QED
    BY <2>1, <2>2
<1> QED
  BY <1>2, <1>3 DEF CallsInv

\* What Emit does to the lines of the call, when there is a logger.
LEMMA Emitted ==
  ASSUME CallsInv, NEW c \in Call, NEW r, NEW msg, NEW code,
         r.logger = "app", Emit(c, r, msg, code)
  PROVE  lines' = [lines EXCEPT ![c] =
                     Append(lines[c], [msg |-> msg, rid |-> r.tag, code |-> code])]
BY DEF Emit, CallsInv

\* The lines of a call to which one is added.
LEMMA OneMore ==
  ASSUME NEW ls \in Seq(Line), NEW line \in Line, NEW new, new = Append(ls, line)
  PROVE  /\ new # << >>
         /\ 1 .. Len(new) = 1 .. Len(ls) \cup {Len(ls) + 1}
         /\ Len(ls) + 1 \notin 1 .. Len(ls)
         /\ new[Len(ls) + 1] = line
         /\ \A i \in 1 .. Len(ls) : new[i] = ls[i]
OBVIOUS

\* Whether a new line keeps the lines true is a matter of that line, and of what
\* the step makes of the call's answer and of its task.
LEMMA Told ==
  ASSUME NEW k, NEW t, NEW ls \in Seq(Line), LineInv(k, t, ls),
         NEW k2, NEW t2, NEW line \in Line,
         Reached(k2, 3), k2.tag = k.tag, line.rid = k.tag,
         line.msg = "panic" => k.answer # "internal",
         k2.answer = "internal" <=> k.answer = "internal" \/ line.msg = "panic",
         t2.at = "panicked" <=> t.at = "panicked" \/ line.msg = "taskPanic",
         Closed(k) => k2.answer = k.answer,
         Closed(k2) <=> Closed(k) \/ line.msg = "rpc.end",
         line.msg = "rpc.end" => ~ Closed(k) /\ line.code = Code(k2.answer)
  PROVE  LineInv(k2, t2, Append(ls, line))
<1>1. PICK new : new = Append(ls, line)
  OBVIOUS
<1>2. /\ new # << >>
      /\ 1 .. Len(new) = 1 .. Len(ls) \cup {Len(ls) + 1}
      /\ Len(ls) + 1 \notin 1 .. Len(ls)
      /\ new[Len(ls) + 1] = line
      /\ \A i \in 1 .. Len(ls) : new[i] = ls[i]
  BY ONLY <1>1, ls \in Seq(Line), line \in Line, OneMore
<1> DEFINE I == 1 .. Len(ls)
           J == 1 .. Len(new)
           last == Len(ls) + 1
<1>3. /\ new # << >> /\ J = I \cup {last} /\ last \notin I /\ new[last] = line
      /\ \A i \in I : new[i] = ls[i]
  BY <1>2
<1>4. \A i, j \in I : ls[i].msg = "panic" /\ ls[j].msg = "panic" => i = j
  BY DEF LineInv
<1>5. /\ \A i \in I : ls[i].rid = k.tag
      /\ (\E i \in I : ls[i].msg = "panic") <=> k.answer = "internal"
      /\ (\E i \in I : ls[i].msg = "taskPanic") <=> t.at = "panicked"
      /\ \A i \in I : ls[i].msg = "rpc.end" => Closed(k) /\ ls[i].code = Code(k.answer)
      /\ \A i, j \in I : ls[i].msg = "rpc.end" /\ ls[j].msg = "rpc.end" => i = j
      /\ Closed(k) => \E i \in I : ls[i].msg = "rpc.end"
  BY DEF LineInv
<1> HIDE DEF I, J, last
<1>6. \A i \in J : new[i].rid = k2.tag
  BY <1>3, <1>5
<1>7. (\E i \in J : new[i].msg = "panic") <=> k2.answer = "internal"
  BY <1>3, <1>5
<1>8. ASSUME NEW i \in J, NEW j \in J, new[i].msg = "panic", new[j].msg = "panic"
      PROVE  i = j
  <2>1. CASE line.msg = "panic"
    <3>1. \A m \in I : new[m].msg # "panic"
      BY <2>1, <1>3, <1>5
    <3>2. i = last /\ j = last
      BY <3>1, <1>3, <1>8
    <3> QED
      BY <3>2
  <2>2. CASE line.msg # "panic"
    <3>1. i \in I /\ j \in I /\ ls[i].msg = "panic" /\ ls[j].msg = "panic"
      BY <2>2, <1>3, <1>8
    <3> QED
      BY <3>1, <1>4
  <2> QED
    BY <2>1, <2>2
<1>9. (\E i \in J : new[i].msg = "taskPanic") <=> t2.at = "panicked"
  BY <1>3, <1>5
<1>10. \A i \in J : new[i].msg = "rpc.end" => Closed(k2) /\ new[i].code = Code(k2.answer)
  BY <1>3, <1>5
<1>11. ASSUME NEW i \in J, NEW j \in J, new[i].msg = "rpc.end", new[j].msg = "rpc.end"
       PROVE  i = j
  <2>1. CASE line.msg = "rpc.end"
    <3>1. \A m \in I : new[m].msg # "rpc.end"
      BY <2>1, <1>3, <1>5
    <3>2. i = last /\ j = last
      BY <3>1, <1>3, <1>11
    <3> QED
      BY <3>2
  <2>2. CASE line.msg # "rpc.end"
    <3>1. i \in I /\ j \in I /\ ls[i].msg = "rpc.end" /\ ls[j].msg = "rpc.end"
      BY <2>2, <1>3, <1>11
    <3> QED
      BY <3>1, <1>5
  <2> QED
    BY <2>1, <2>2
<1>12. Closed(k2) => \E i \in J : new[i].msg = "rpc.end"
  BY <1>3, <1>5
<1>13. LineInv(k2, t2, new)
  BY <1>3, <1>6, <1>7, <1>8, <1>9, <1>10, <1>11, <1>12 DEF LineInv, J
<1> QED
  BY <1>1, <1>13

\* A step that adds no line must only not contradict those there are.
LEMMA Untold ==
  ASSUME NEW k, NEW t, NEW ls \in Seq(Line), LineInv(k, t, ls), NEW k2, NEW t2,
         Reached(k, 3) => Reached(k2, 3) /\ k2.tag = k.tag,
         k2.answer = "internal" <=> k.answer = "internal",
         t2.at = "panicked" <=> t.at = "panicked",
         Closed(k2) <=> Closed(k), Closed(k) => k2.answer = k.answer
  PROVE  LineInv(k2, t2, ls)
<1>1. CASE ls = << >>
  BY <1>1 DEF LineInv
<1>2. CASE ls # << >>
  BY <1>2 DEF LineInv
<1> QED
  BY <1>1, <1>2

\* A call that steps: what is sound of it afterwards makes all calls sound.
LEMMA CallStep ==
  ASSUME CallsInv, NEW c \in Call, NEW k, call' = [call EXCEPT ![c] = k],
         UNCHANGED <<task, lines, verbose>>,
         Sound(c, k, task[c], lines[c])
  PROVE  CallsInv'
<1>1. task' = [task EXCEPT ![c] = task[c]] /\ lines' = [lines EXCEPT ![c] = lines[c]]
  BY DEF CallsInv
<1> QED
  BY <1>1, OneCall

\* The call goes one layer further in: what is left to show is that its record
\* and its context are right there.
LEMMA Onward ==
  ASSUME NEW c \in Call, NEW k, NEW t, NEW ls, Sound(c, k, t, ls),
         k.at = "in", k.layer < Depth(k.kind),
         NEW k2 \in CallRecord, k2.at = "in", k2.layer = k.layer + 1, k2.kind = k.kind,
         k2.answer = k.answer, ContextInv(c, k2), Reached(k, 3) => k2.tag = k.tag
  PROVE  Sound(c, k2, t, ls)
<1>1. /\ k.layer \in Nat /\ k.kind \in Kind /\ t \in TaskRecord /\ ls \in Seq(Line)
      /\ PlaceInv(k) /\ PanicInv(k) /\ TaskInv(k, t) /\ LineInv(k, t, ls)
  BY DEF Sound, CallRecord
<1>2. PlaceInv(k2) /\ PanicInv(k2) /\ TaskInv(k2, t)
  BY <1>1 DEF PlaceInv, PanicInv, TaskInv, Reached, LeftLayer, Depth
<1>3. (Reached(k, 3) => Reached(k2, 3)) /\ ~ Closed(k) /\ ~ Closed(k2)
  BY <1>1 DEF Reached, LeftLayer, Closed
<1>4. LineInv(k2, t, ls)
  BY <1>1, <1>3, Untold
<1> QED
  BY <1>1, <1>2, <1>4 DEF Sound

\* The call goes one layer further out, or turns at the last two: what is left to
\* show is what it says of the panic, and its lines.
LEMMA Outward ==
  ASSUME NEW c \in Call, NEW k, NEW t, NEW ls, Sound(c, k, t, ls),
         k.at = "out" \/ (k.at = "in" /\ k.layer >= Depth(k.kind) - 1), k.layer > 0,
         NEW k2 \in CallRecord, k2.at = "out", k2.layer = k.layer - 1, k2.kind = k.kind,
         k2.header = k.header, k2.logger = k.logger, k2.tag = k.tag,
         k2.outgoing = k.outgoing, PanicInv(k2),
         NEW ls2 \in Seq(Line), LineInv(k2, t, ls2)
  PROVE  Sound(c, k2, t, ls2)
<1>1. /\ k.layer \in Nat /\ k.kind \in Kind /\ t \in TaskRecord
      /\ PlaceInv(k) /\ ContextInv(c, k) /\ TaskInv(k, t)
  BY DEF Sound, CallRecord
<1>2. Reached(k, 2) /\ Reached(k, 3) /\ Reached(k2, 2) /\ Reached(k2, 3)
  BY <1>1 DEF Reached, Depth
<1>3. PlaceInv(k2)
  BY <1>1 DEF PlaceInv, Depth
<1>4. ContextInv(c, k2)
  BY <1>1, <1>2 DEF ContextInv
<1>5. TaskInv(k2, t)
  BY <1>1 DEF TaskInv, Reached
<1> QED
  BY <1>1, <1>3, <1>4, <1>5 DEF Sound

----------------------------------------------------------------------------
(* The records a call goes through. *)

\* What grpc's call, an answer on the way in, one on the way out, and a step of a
\* task make of the records.
AfterReceive(k, kind, h) ==
  [k EXCEPT !.at = "in", !.layer = 1, !.kind = kind, !.header = h]

AfterTurn(k, a) == [k EXCEPT !.answer = a, !.at = "out", !.layer = k.layer - 1]

AfterLeave(k, a) == [k EXCEPT !.layer = k.layer - 1, !.answer = a]

TaskAt(t, at) == [t EXCEPT !.at = at]

\* The record of a call that is received.
LEMMA Received ==
  ASSUME NEW k \in CallRecord, NEW kind \in Kind, NEW h \in Header \cup {"absent", "empty"},
         NEW new, new = AfterReceive(k, kind, h)
  PROVE  /\ new \in CallRecord /\ new.at = "in" /\ new.layer = 1 /\ new.kind = kind
         /\ new.answer = k.answer
<1>1. PICK at \in {"idle", "in", "out", "over"}, n \in 0 .. 6 : at = "in" /\ n = 1
  OBVIOUS
<1>2. [k EXCEPT !.at = at, !.layer = n, !.kind = kind, !.header = h] \in CallRecord
  BY DEF CallRecord
<1>3. new \in CallRecord
  BY <1>1, <1>2 DEF AfterReceive
<1>4. new.at = "in" /\ new.layer = 1
  BY DEF CallRecord, AfterReceive
<1>5. new.kind = kind /\ new.answer = k.answer
  BY DEF CallRecord, AfterReceive
<1> QED
  BY <1>3, <1>4, <1>5

\* That of a call which passes a layer, and of one that is told who it is there.
LEMMA Deeper ==
  ASSUME NEW k \in CallRecord, k.layer < Depth(k.kind), NEW new, NEW rid \in RequestId,
         \/ new = [k EXCEPT !.layer = k.layer + 1]
         \/ new = [k EXCEPT !.logger = "app", !.layer = k.layer + 1]
         \/ new = [k EXCEPT !.outgoing = rid, !.tag = rid, !.layer = k.layer + 1]
  PROVE  /\ new \in CallRecord /\ new.at = k.at /\ new.layer = k.layer + 1
         /\ new.kind = k.kind /\ new.header = k.header /\ new.answer = k.answer
<1>1. k.layer + 1 \in 0 .. 6
  BY DEF CallRecord, Depth, Kind
<1> QED
  BY <1>1 DEF CallRecord

\* That of a call which is given an answer and turns round.
LEMMA TurnsRound ==
  ASSUME NEW k \in CallRecord, k.layer > 0,
         NEW a \in Answer \cup {"none", "panic", "internal"},
         NEW new, new = AfterTurn(k, a)
  PROVE  /\ new \in CallRecord /\ new.at = "out" /\ new.layer = k.layer - 1
         /\ new.kind = k.kind /\ new.header = k.header /\ new.logger = k.logger
         /\ new.tag = k.tag /\ new.outgoing = k.outgoing /\ new.answer = a
<1>1. PICK n \in 0 .. 6, at \in {"idle", "in", "out", "over"} : n = k.layer - 1 /\ at = "out"
  BY DEF CallRecord
<1>2. [k EXCEPT !.answer = a, !.at = at, !.layer = n] \in CallRecord
  BY DEF CallRecord
<1>3. new \in CallRecord
  BY <1>1, <1>2 DEF AfterTurn
<1>4. new.at = "out" /\ new.layer = k.layer - 1 /\ new.answer = a
  BY DEF CallRecord, AfterTurn
<1>5. new.kind = k.kind /\ new.header = k.header /\ new.logger = k.logger
  BY DEF CallRecord, AfterTurn
<1>6. new.tag = k.tag /\ new.outgoing = k.outgoing
  BY DEF CallRecord, AfterTurn
<1> QED
  BY <1>3, <1>4, <1>5, <1>6

\* That of a call which takes an answer one layer further out.
LEMMA Further ==
  ASSUME NEW k \in CallRecord, k.layer > 0, k.at = "out",
         NEW a \in Answer \cup {"none", "panic", "internal"},
         NEW new, new = AfterLeave(k, a)
  PROVE  /\ new \in CallRecord /\ new.at = "out" /\ new.layer = k.layer - 1
         /\ new.kind = k.kind /\ new.header = k.header /\ new.logger = k.logger
         /\ new.tag = k.tag /\ new.outgoing = k.outgoing /\ new.answer = a
<1>1. new = AfterTurn(k, a)
  BY DEF CallRecord, AfterTurn, AfterLeave
<1> QED
  BY <1>1, TurnsRound

\* What is known of a call at a layer.
LEMMA AtLayer ==
  ASSUME CallsInv, NEW c \in Call, NEW way \in {"in", "out"}, NEW layer, At(c, way, layer),
         NEW k, k = call[c]
  PROVE  /\ Sound(c, k, task[c], lines[c]) /\ k \in CallRecord /\ k.at = way /\ k.layer > 0
         /\ k.kind \in Kind /\ k.layer \in 1 .. Depth(k.kind) /\ Chain(k.kind)[k.layer] = layer
         /\ way = "out" => k.layer < Depth(k.kind)
<1>1. Sound(c, k, task[c], lines[c]) /\ k \in CallRecord /\ PlaceInv(k)
  BY DEF CallsInv, Sound
<1>2. k.kind \in Kind /\ k.layer \in Nat
  BY <1>1 DEF CallRecord
<1>3. k.at = way /\ k.layer > 0 /\ Chain(k.kind)[k.layer] = layer
  BY DEF At
<1> QED
  BY <1>1, <1>2, <1>3 DEF PlaceInv, Depth

----------------------------------------------------------------------------
(* The steps. *)

\* grpc hands a call to the chain.
LEMMA ReceiveStep ==
  ASSUME CallsInv, NEW c \in Call, Receive(c)
  PROVE  CallsInv'
<1>1. PICK k, t, ls : k = call[c] /\ t = task[c] /\ ls = lines[c]
  OBVIOUS
<1>2. Sound(c, k, t, ls) /\ k \in CallRecord
  BY <1>1 DEF CallsInv
<1>3. PICK kind \in Kind, h \in Header \cup {"absent", "empty"} :
        call' = [call EXCEPT ![c].at = "in", ![c].layer = 1, ![c].kind = kind, ![c].header = h]
  BY DEF Receive, Kind
<1>4. PICK new : new = AfterReceive(k, kind, h)
  OBVIOUS
<1>5. /\ new \in CallRecord /\ new.at = "in" /\ new.layer = 1 /\ new.kind = kind
      /\ new.answer = k.answer
  BY <1>2, <1>3, <1>4, Received
<1>6. k.at = "idle"
  BY <1>1 DEF Receive
<1>7. PlaceInv(new) /\ ContextInv(c, new)
  BY <1>5 DEF PlaceInv, ContextInv, Reached, Depth, Kind
<1>8. /\ t \in TaskRecord /\ ls \in Seq(Line) /\ PanicInv(k) /\ TaskInv(k, t)
      /\ LineInv(k, t, ls)
  BY <1>2 DEF Sound
<1>9. PanicInv(new) /\ TaskInv(new, t)
  BY <1>5, <1>6, <1>8 DEF PanicInv, TaskInv, Reached, LeftLayer
<1>10. LineInv(new, t, ls)
  <2>1. ~ Reached(k, 3) /\ ~ Closed(k) /\ ~ Closed(new)
    BY <1>5, <1>6 DEF Reached, LeftLayer, Closed
  <2> QED
    BY <2>1, <1>5, <1>8, Untold
<1>11. Sound(c, new, t, ls)
  BY <1>5, <1>7, <1>8, <1>9, <1>10 DEF Sound
<1>12. call' = [call EXCEPT ![c] = new]
  BY <1>1, <1>3, <1>4 DEF CallsInv, AfterReceive
<1> QED
  BY <1>1, <1>11, <1>12, CallStep DEF Receive

\* The App's logger is put into the call's context.
LEMMA SeedLoggerStep ==
  ASSUME CallsInv, NEW c \in Call, SeedLogger(c)
  PROVE  CallsInv'
<1>1. PICK k : k = call[c]
  OBVIOUS
<1>2. /\ Sound(c, k, task[c], lines[c]) /\ k \in CallRecord /\ k.at = "in"
      /\ k.kind \in Kind /\ k.layer \in 1 .. Depth(k.kind) /\ Chain(k.kind)[k.layer] = "seedLogger"
  BY <1>1, AtLayer DEF SeedLogger
<1>3. k.layer = 1
  BY <1>2, Position DEF Depth, Recovers
<1>4. PICK new : new = [k EXCEPT !.logger = "app", !.layer = k.layer + 1]
  OBVIOUS
<1>5. PICK rid \in RequestId : rid = extractOrGenerate(c)
  BY DEF extractOrGenerate, RequestId
<1>6. k.layer < Depth(k.kind)
  BY <1>3 DEF Depth
<1>7. /\ new \in CallRecord /\ new.at = k.at /\ new.layer = k.layer + 1
      /\ new.kind = k.kind /\ new.header = k.header /\ new.answer = k.answer
  BY <1>2, <1>4, <1>5, <1>6, Deeper
<1>8. new.logger = "app"
  BY <1>2, <1>4 DEF CallRecord
<1>9. ContextInv(c, new) /\ ~ Reached(k, 3)
  BY <1>2, <1>3, <1>7, <1>8 DEF ContextInv, Reached
<1>10. Sound(c, new, task[c], lines[c])
  BY <1>2, <1>6, <1>7, <1>9, Onward
<1>11. call' = [call EXCEPT ![c] = new]
  BY <1>1, <1>4 DEF CallsInv, SeedLogger
<1> QED
  BY <1>10, <1>11, CallStep DEF SeedLogger

\* The request id becomes the call's tag, and goes downstream.
LEMMA RequestIDStep ==
  ASSUME CallsInv, NEW c \in Call, RequestID(c)
  PROVE  CallsInv'
<1>1. PICK k : k = call[c]
  OBVIOUS
<1>2. /\ Sound(c, k, task[c], lines[c]) /\ k \in CallRecord /\ k.at = "in"
      /\ k.kind \in Kind /\ k.layer \in 1 .. Depth(k.kind) /\ Chain(k.kind)[k.layer] = "RequestID"
  BY <1>1, AtLayer DEF RequestID
<1>3. k.layer = 2 /\ k.kind = "unary"
  BY <1>2, Position DEF Depth, Recovers
<1>4. PICK rid \in RequestId : rid = extractOrGenerate(c)
  BY DEF extractOrGenerate, RequestId
<1>5. PICK new : new = [k EXCEPT !.outgoing = rid, !.tag = rid, !.layer = k.layer + 1]
  OBVIOUS
<1>6. k.layer < Depth(k.kind)
  BY <1>3 DEF Depth
<1>7. /\ new \in CallRecord /\ new.at = k.at /\ new.layer = k.layer + 1
      /\ new.kind = k.kind /\ new.header = k.header /\ new.answer = k.answer
  BY <1>2, <1>4, <1>5, <1>6, Deeper
<1>8. new.logger = k.logger /\ new.tag = rid /\ new.outgoing = rid
  BY <1>2, <1>5 DEF CallRecord
<1>9. ContextInv(c, new)
  <2>1. k.logger = "app"
    BY <1>2, <1>3 DEF Sound, ContextInv, Reached
  <2>2. rid = IF new.header \in Header THEN new.header ELSE c
    BY <1>1, <1>4, <1>7 DEF extractOrGenerate
  <2> QED
    BY <1>8, <2>1, <2>2 DEF ContextInv
<1>10. ~ Reached(k, 3)
  BY <1>2, <1>3 DEF Reached
<1>11. Sound(c, new, task[c], lines[c])
  BY <1>2, <1>6, <1>7, <1>9, <1>10, Onward
<1>12. call' = [call EXCEPT ![c] = new]
  BY <1>1, <1>4, <1>5 DEF CallsInv, RequestID
<1> QED
  BY <1>11, <1>12, CallStep DEF RequestID

\* A layer that only passes the call on: the record of the call afterwards.
LEMMA PassedOn ==
  ASSUME CallsInv, NEW c \in Call, NEW layer \in {"Recovery", "RPCLog", "user"},
         At(c, "in", layer), call' = [call EXCEPT ![c].layer = @ + 1]
  PROVE  \E new \in CallRecord :
           /\ call' = [call EXCEPT ![c] = new] /\ Sound(c, new, task[c], lines[c])
           /\ new.at = "in" /\ new.layer = call[c].layer + 1 /\ new.kind = call[c].kind
           /\ new.tag = call[c].tag /\ new.answer = call[c].answer
<1> DEFINE k == call[c]
<1> HIDE DEF k
<1>1. /\ Sound(c, k, task[c], lines[c]) /\ k \in CallRecord /\ k.at = "in"
      /\ k.kind \in Kind /\ k.layer \in 1 .. Depth(k.kind) /\ Chain(k.kind)[k.layer] = layer
  BY AtLayer DEF k
<1>2. k.layer < Depth(k.kind) /\ k.layer \in Nat /\ k.layer >= 2
      /\ (k.kind = "unary" => k.layer >= 3)
  BY <1>1, Position DEF Depth, Recovers
<1>3. PICK new : new = [k EXCEPT !.layer = k.layer + 1]
  OBVIOUS
<1>4. PICK rid \in RequestId : rid = extractOrGenerate(c)
  BY DEF extractOrGenerate, RequestId
<1>5. /\ new \in CallRecord /\ new.at = k.at /\ new.layer = k.layer + 1
      /\ new.kind = k.kind /\ new.header = k.header /\ new.answer = k.answer
  BY <1>1, <1>2, <1>3, <1>4, Deeper
<1>6. new.tag = k.tag /\ new.logger = k.logger /\ new.outgoing = k.outgoing
  BY <1>1, <1>3 DEF CallRecord
<1>7. ContextInv(c, new)
  BY <1>1, <1>2, <1>5, <1>6 DEF Sound, ContextInv, Reached
<1>8. Sound(c, new, task[c], lines[c])
  BY <1>1, <1>2, <1>5, <1>6, <1>7, Onward
<1>9. call' = [call EXCEPT ![c] = new]
  BY <1>3 DEF CallsInv, k
<1> QED
  BY <1>1, <1>5, <1>6, <1>8, <1>9 DEF k

\* Recovery defers its function.
LEMMA RecoveryDefersStep ==
  ASSUME CallsInv, NEW c \in Call, RecoveryDefers(c)
  PROVE  CallsInv'
<1>1. PICK new \in CallRecord :
        call' = [call EXCEPT ![c] = new] /\ Sound(c, new, task[c], lines[c])
  BY PassedOn DEF RecoveryDefers
<1> QED
  BY <1>1, CallStep DEF RecoveryDefers

\* A line with the call's own tag, or its task's, is one the App's logger takes.
LEMMA LineOf ==
  ASSUME NEW k \in CallRecord, NEW msg \in {"rpc.start", "rpc.end", "panic", "task", "taskPanic"},
         NEW code \in Codes \cup {"none"}, NEW tag, tag = k.tag
  PROVE  [msg |-> msg, rid |-> tag, code |-> code] \in Line
BY DEF CallRecord, Line

\* rpc.start is written, or not.
LEMMA RPCLogStartStep ==
  ASSUME CallsInv, NEW c \in Call, RPCLogStart(c)
  PROVE  CallsInv'
<1>1. PICK k, t, ls : k = call[c] /\ t = task[c] /\ ls = lines[c]
  OBVIOUS
<1>2. /\ Sound(c, k, t, ls) /\ k \in CallRecord /\ k.at = "in" /\ k.layer = 4
      /\ k.kind = "unary"
  BY <1>1, AtLayer, Position DEF RPCLogStart
<1>3. PICK new \in CallRecord :
        /\ call' = [call EXCEPT ![c] = new] /\ Sound(c, new, t, ls)
        /\ new.at = "in" /\ new.layer = k.layer + 1 /\ new.kind = k.kind
        /\ new.tag = k.tag /\ new.answer = k.answer
  <2>1. At(c, "in", "RPCLog") /\ call' = [call EXCEPT ![c].layer = @ + 1]
    BY DEF RPCLogStart
  <2>2. \E new \in CallRecord :
          /\ call' = [call EXCEPT ![c] = new] /\ Sound(c, new, task[c], lines[c])
          /\ new.at = "in" /\ new.layer = call[c].layer + 1 /\ new.kind = call[c].kind
          /\ new.tag = call[c].tag /\ new.answer = call[c].answer
    BY <2>1, PassedOn
  <2> QED
    BY <1>1, <2>2
<1>4. task' = [task EXCEPT ![c] = t] /\ verbose' = verbose
  BY <1>1 DEF RPCLogStart, CallsInv
<1>5. CASE ~ verbose
  <2>1. lines' = [lines EXCEPT ![c] = ls]
    BY <1>1, <1>5 DEF RPCLogStart, CallsInv
  <2> QED
    BY <1>3, <1>4, <2>1, OneCall
<1>6. CASE verbose
  <2>1. k.logger = "app" /\ LineInv(k, t, ls) /\ ls \in Seq(Line)
    BY <1>2 DEF Sound, ContextInv, Reached
  <2>2. Emit(c, k, "rpc.start", "none")
    BY <1>1, <1>6 DEF RPCLogStart
  <2>3. PICK line \in Line : line = [msg |-> "rpc.start", rid |-> k.tag, code |-> "none"]
    BY <1>2, LineOf
  <2>4. lines' = [lines EXCEPT ![c] = Append(ls, line)]
    BY <1>1, <2>1, <2>2, <2>3, Emitted
  <2>5. line.msg = "rpc.start" /\ line.rid = k.tag
    BY <2>3
  <2>6. Reached(new, 3) /\ ~ Closed(k) /\ ~ Closed(new)
    BY <1>2, <1>3 DEF Reached, LeftLayer, Closed
  <2>7. LineInv(new, t, Append(ls, line))
    BY <1>3, <2>1, <2>3, <2>5, <2>6, Told
  <2>8. Append(ls, line) \in Seq(Line)
    BY <2>1, <2>3
  <2>9. Sound(c, new, t, Append(ls, line))
    BY <1>3, <2>7, <2>8 DEF Sound
  <2> QED
    BY <1>3, <1>4, <2>4, <2>9, OneCall
<1> QED
  BY <1>5, <1>6

\* The call turns round, at the handler or in the user's interceptor before it.
LEMMA Turned ==
  ASSUME CallsInv, NEW c \in Call, NEW layer \in {"user", "handler"}, At(c, "in", layer),
         NEW a \in Answer \cup {"panic"}, UNCHANGED <<task, lines, verbose>>,
         call' = [call EXCEPT ![c].answer = a, ![c].at = "out", ![c].layer = @ - 1]
  PROVE  CallsInv'
<1>1. PICK k, t, ls : k = call[c] /\ t = task[c] /\ ls = lines[c]
  OBVIOUS
<1>2. /\ Sound(c, k, t, ls) /\ k \in CallRecord /\ k.at = "in" /\ k.kind \in Kind
      /\ k.layer \in 1 .. Depth(k.kind) /\ k.layer > 0 /\ Chain(k.kind)[k.layer] = layer
  BY <1>1, AtLayer
<1>3. k.layer >= Depth(k.kind) - 1
  BY <1>2, Position DEF Depth
<1>4. PICK new : new = AfterTurn(k, a)
  OBVIOUS
<1>5. a \in Answer \cup {"none", "panic", "internal"} /\ a # "internal"
  BY DEF Answer
<1>6. /\ new \in CallRecord /\ new.at = "out" /\ new.layer = k.layer - 1
      /\ new.kind = k.kind /\ new.header = k.header /\ new.logger = k.logger
      /\ new.tag = k.tag /\ new.outgoing = k.outgoing /\ new.answer = a
  BY <1>2, <1>4, <1>5, TurnsRound
<1>7. PanicInv(new)
  BY <1>2, <1>3, <1>5, <1>6 DEF PanicInv, LeftLayer, Recovers, Depth, Kind
<1>8. ls \in Seq(Line) /\ LineInv(k, t, ls) /\ k.answer # "internal"
  BY <1>2 DEF Sound, PanicInv, LeftLayer
<1>9. ~ Closed(k) /\ ~ Closed(new) /\ Reached(new, 3)
  BY <1>2, <1>3, <1>6 DEF LeftLayer, Reached, Closed, Depth
<1>10. LineInv(new, t, ls)
  BY <1>5, <1>6, <1>8, <1>9, Untold
<1>11. Sound(c, new, t, ls)
  BY <1>2, <1>3, <1>6, <1>7, <1>8, <1>10, Outward
<1>12. call' = [call EXCEPT ![c] = new]
  BY <1>1, <1>4 DEF CallsInv, AfterTurn
<1> QED
  BY <1>1, <1>11, <1>12, CallStep

\* The user's interceptor passes the call on, or answers.
LEMMA UserEnterStep ==
  ASSUME CallsInv, NEW c \in Call, UserEnter(c)
  PROVE  CallsInv'
<1>1. At(c, "in", "user") /\ UNCHANGED <<task, lines, verbose>>
  BY DEF UserEnter
<1>2. CASE call' = [call EXCEPT ![c].layer = @ + 1]
  <2>1. PICK new \in CallRecord :
          call' = [call EXCEPT ![c] = new] /\ Sound(c, new, task[c], lines[c])
    BY <1>1, <1>2, PassedOn
  <2> QED
    BY <1>1, <2>1, CallStep
<1>3. CASE \E a \in Answer \cup {"panic"} :
             call' = [call EXCEPT ![c].answer = a, ![c].at = "out", ![c].layer = @ - 1]
  BY <1>1, <1>3, Turned
<1> QED
  BY <1>2, <1>3 DEF UserEnter

\* The handler answers, or panics.
LEMMA HandleStep ==
  ASSUME CallsInv, NEW c \in Call, Handle(c)
  PROVE  CallsInv'
<1>1. /\ At(c, "in", "handler") /\ UNCHANGED <<task, lines, verbose>>
      /\ \E a \in Answer \cup {"panic"} :
           call' = [call EXCEPT ![c].answer = a, ![c].at = "out", ![c].layer = @ - 1]
  BY DEF Handle
<1> QED
  BY <1>1, Turned

----------------------------------------------------------------------------
(* The steps of a detached task. *)

\* A task that steps, with the call where it is.
LEMMA TaskStep ==
  ASSUME CallsInv, NEW c \in Call, NEW t, NEW ls, UNCHANGED <<call, verbose>>,
         task' = [task EXCEPT ![c] = t], lines' = [lines EXCEPT ![c] = ls],
         t \in TaskRecord, TaskInv(call[c], t),
         ls \in Seq(Line), LineInv(call[c], t, ls)
  PROVE  CallsInv'
<1>1. call' = [call EXCEPT ![c] = call[c]] /\ verbose' = verbose
  BY DEF CallsInv
<1>2. Sound(c, call[c], t, ls)
  BY DEF CallsInv, Sound
<1> QED
  BY <1>1, <1>2, OneCall

\* The handler detaches a task, with its logger.
LEMMA DetachStep ==
  ASSUME CallsInv, NEW c \in Call, Detach(c)
  PROVE  CallsInv'
<1>1. PICK k, ls : k = call[c] /\ ls = lines[c]
  OBVIOUS
<1>2. /\ Sound(c, k, task[c], ls) /\ k \in CallRecord /\ k.at = "in" /\ k.kind \in Kind
      /\ k.layer \in 1 .. Depth(k.kind) /\ Chain(k.kind)[k.layer] = "handler"
  BY <1>1, AtLayer DEF Detach
<1>3. k.layer = Depth(k.kind)
  BY <1>2, Position
<1>4. PICK t : t = [at |-> "running", logger |-> k.logger, tag |-> k.tag]
  OBVIOUS
<1>5. t \in TaskRecord /\ t.at = "running" /\ t.logger = k.logger /\ t.tag = k.tag
  BY <1>2, <1>4 DEF CallRecord, TaskRecord
<1>6. Reached(k, 2) /\ Reached(k, Depth(k.kind))
  BY <1>2, <1>3 DEF Reached, Depth
<1>7. k.logger = "app"
  BY <1>2, <1>6 DEF Sound, ContextInv
<1>8. TaskInv(k, t)
  BY <1>5, <1>6, <1>7 DEF TaskInv
<1>9. LineInv(k, task[c], ls) /\ ls \in Seq(Line)
  BY <1>2 DEF Sound
<1>10. LineInv(k, t, ls)
  <2>1. t.at # "panicked" /\ task[c].at # "panicked"
    BY <1>5 DEF Detach
  <2> QED
    BY <1>9, <2>1 DEF LineInv
<1>11. /\ task' = [task EXCEPT ![c] = t] /\ lines' = [lines EXCEPT ![c] = ls]
       /\ UNCHANGED <<call, verbose>>
  BY <1>1, <1>4 DEF Detach, CallsInv
<1> QED
  BY <1>1, <1>5, <1>8, <1>9, <1>10, <1>11, TaskStep

\* What is known of a task that runs, and of its record as it goes on.
LEMMA OfTask ==
  ASSUME CallsInv, NEW c \in Call, Detached(c),
         NEW k, k = call[c], NEW t, t = task[c], NEW ls, ls = lines[c],
         NEW at \in {"logged", "over", "panicked"}, NEW new, new = TaskAt(t, at)
  PROVE  /\ k \in CallRecord /\ t \in TaskRecord /\ ls \in Seq(Line) /\ LineInv(k, t, ls)
         /\ Reached(k, 3) /\ t.logger = "app" /\ t.tag = k.tag /\ t.at # "panicked"
         /\ new \in TaskRecord /\ new.at = at /\ TaskInv(k, new)
<1>1. /\ k \in CallRecord /\ t \in TaskRecord /\ ls \in Seq(Line) /\ LineInv(k, t, ls)
      /\ TaskInv(k, t)
  BY DEF CallsInv, Sound
<1>2. t.at \in {"running", "logged"}
  BY DEF Detached
<1>3. Reached(k, Depth(k.kind)) /\ t.logger = "app" /\ t.tag = k.tag
  BY <1>1, <1>2 DEF TaskInv
<1>4. Reached(k, 3)
  BY <1>1, <1>3 DEF Reached, Depth, CallRecord
<1>5. new \in TaskRecord /\ new.at = at /\ new.logger = t.logger /\ new.tag = t.tag
  BY <1>1 DEF TaskRecord, TaskAt
<1>6. TaskInv(k, new)
  BY <1>3, <1>5 DEF TaskInv
<1> QED
  BY <1>1, <1>2, <1>3, <1>4, <1>5, <1>6

\* A task that writes a line.
LEMMA TaskTells ==
  ASSUME CallsInv, NEW c \in Call, Detached(c), UNCHANGED <<call, verbose>>,
         NEW at \in {"logged", "panicked"}, NEW msg \in {"task", "taskPanic"},
         \/ at = "logged" /\ msg = "task"
         \/ at = "panicked" /\ msg = "taskPanic",
         Emit(c, task[c], msg, "none"), task' = [task EXCEPT ![c] = TaskAt(task[c], at)]
  PROVE  CallsInv'
<1>1. PICK k, t, ls : k = call[c] /\ t = task[c] /\ ls = lines[c]
  OBVIOUS
<1>2. PICK new : new = TaskAt(t, at)
  OBVIOUS
<1>3. /\ k \in CallRecord /\ t \in TaskRecord /\ ls \in Seq(Line) /\ LineInv(k, t, ls)
      /\ Reached(k, 3) /\ t.logger = "app" /\ t.tag = k.tag /\ t.at # "panicked"
      /\ new \in TaskRecord /\ new.at = at /\ TaskInv(k, new)
  <2>1. at \in {"logged", "over", "panicked"}
    OBVIOUS
  <2> QED
    BY <1>1, <1>2, <2>1, OfTask
<1>4. PICK line \in Line : line = [msg |-> msg, rid |-> t.tag, code |-> "none"]
  BY <1>3, LineOf
<1>5. lines' = [lines EXCEPT ![c] = Append(ls, line)]
  <2>1. Emit(c, t, msg, "none") /\ t.logger = "app"
    BY <1>1, <1>3
  <2>2. lines' = [lines EXCEPT ![c] = Append(lines[c], [msg |-> msg, rid |-> t.tag,
                                                      code |-> "none"])]
    BY <2>1, Emitted, Zenon
  <2> QED
    BY ONLY <1>1, <1>4, <2>2
<1>6. line.msg = msg /\ line.rid = k.tag
  BY <1>3, <1>4
<1>7. LineInv(k, new, Append(ls, line))
  BY <1>3, <1>4, <1>6, Told
<1>8. Append(ls, line) \in Seq(Line)
  <2>1. ls \in Seq(Line) /\ line \in Line
    BY <1>3, <1>4
  <2> QED
    BY ONLY <2>1
<1>9. task' = [task EXCEPT ![c] = new]
  BY <1>1, <1>2 DEF CallsInv, TaskAt
<1> QED
  BY <1>1, <1>3, <1>5, <1>7, <1>8, <1>9, TaskStep

\* A task logs, panics, or ends.
LEMMA TaskSteps ==
  ASSUME CallsInv, NEW c \in Call, TaskLogs(c) \/ TaskPanics(c) \/ TaskEnds(c)
  PROVE  CallsInv'
<1>1. CASE TaskLogs(c)
  <2>1. task' = [task EXCEPT ![c] = TaskAt(task[c], "logged")]
    BY <1>1 DEF TaskLogs, TaskAt
  <2> QED
    BY <1>1, <2>1, TaskTells DEF TaskLogs
<1>2. CASE TaskPanics(c)
  <2>1. task' = [task EXCEPT ![c] = TaskAt(task[c], "panicked")]
    BY <1>2 DEF TaskPanics, TaskAt
  <2> QED
    BY <1>2, <2>1, TaskTells DEF TaskPanics
<1>3. CASE TaskEnds(c)
  <2>1. PICK k, t, ls : k = call[c] /\ t = task[c] /\ ls = lines[c]
    OBVIOUS
  <2>2. PICK new : new = TaskAt(t, "over")
    OBVIOUS
  <2>3. /\ ls \in Seq(Line) /\ LineInv(k, t, ls) /\ t.at # "panicked"
        /\ new \in TaskRecord /\ new.at = "over" /\ TaskInv(k, new)
    BY <1>3, <2>1, <2>2, OfTask DEF TaskEnds
  <2>4. LineInv(k, new, ls)
    BY <2>3 DEF LineInv
  <2>5. /\ task' = [task EXCEPT ![c] = new] /\ lines' = [lines EXCEPT ![c] = ls]
        /\ UNCHANGED <<call, verbose>>
    BY <1>3, <2>1, <2>2 DEF TaskEnds, CallsInv, TaskAt
  <2> QED
    BY <2>1, <2>3, <2>4, <2>5, TaskStep
<1> QED
  BY <1>1, <1>2, <1>3

----------------------------------------------------------------------------
(* The steps outwards. *)

\* What is known of a call at a layer on its way out.
LEMMA Leaving ==
  ASSUME CallsInv, NEW c \in Call, NEW layer, At(c, "out", layer), NEW k, k = call[c]
  PROVE  /\ Sound(c, k, task[c], lines[c]) /\ k \in CallRecord /\ k.at = "out" /\ k.layer > 0
         /\ k.kind \in Kind /\ k.layer \in 1 .. Depth(k.kind) /\ Chain(k.kind)[k.layer] = layer
         /\ lines[c] \in Seq(Line) /\ LineInv(k, task[c], lines[c]) /\ PanicInv(k)
         /\ Reached(k, 3) /\ k.logger = "app"
<1>1. /\ Sound(c, k, task[c], lines[c]) /\ k \in CallRecord /\ k.at = "out" /\ k.layer > 0
      /\ k.kind \in Kind /\ k.layer \in 1 .. Depth(k.kind) /\ Chain(k.kind)[k.layer] = layer
  BY AtLayer
<1>2. /\ lines[c] \in Seq(Line) /\ LineInv(k, task[c], lines[c]) /\ PanicInv(k)
      /\ ContextInv(c, k)
  BY <1>1 DEF Sound
<1>3. Reached(k, 3) /\ k.logger = "app"
  BY <1>1, <1>2 DEF Reached, ContextInv
<1> QED
  BY <1>1, <1>2, <1>3

\* A call that goes one layer further out, with the lines it has then.
LEMMA LeaveStep ==
  ASSUME CallsInv, NEW c \in Call, NEW layer, At(c, "out", layer),
         NEW a \in Answer \cup {"none", "panic", "internal"}, Outwards(c, a),
         UNCHANGED <<task, verbose>>, NEW new, new = AfterLeave(call[c], a),
         NEW ls \in Seq(Line), lines' = [lines EXCEPT ![c] = ls],
         PanicInv(new), LineInv(new, task[c], ls)
  PROVE  CallsInv'
<1>1. PICK k, t : k = call[c] /\ t = task[c]
  OBVIOUS
<1>2. /\ Sound(c, k, t, lines[c]) /\ k.at = "out" /\ k.layer > 0
      /\ new \in CallRecord /\ new.at = "out" /\ new.layer = k.layer - 1
      /\ new.kind = k.kind /\ new.header = k.header /\ new.logger = k.logger
      /\ new.tag = k.tag /\ new.outgoing = k.outgoing
  <2>1. Sound(c, k, t, lines[c]) /\ k \in CallRecord /\ k.at = "out" /\ k.layer > 0
    BY <1>1, Leaving
  <2> QED
    BY <1>1, <2>1, Further
<1>3. Sound(c, new, t, ls)
  BY <1>1, <1>2, Outward
<1>4. call' = [call EXCEPT ![c] = new]
  BY DEF Outwards, AfterLeave, CallsInv
<1>5. task' = [task EXCEPT ![c] = t] /\ verbose' = verbose
  BY <1>1 DEF CallsInv
<1> QED
  BY <1>3, <1>4, <1>5, OneCall

\* The user's interceptor answers as it likes.
LEMMA UserLeaveStep ==
  ASSUME CallsInv, NEW c \in Call, UserLeave(c)
  PROVE  CallsInv'
<1>1. PICK a \in Answer \cup {"panic"} : Outwards(c, a)
  BY DEF UserLeave
<1>2. PICK k, ls, new : k = call[c] /\ ls = lines[c] /\ new = AfterLeave(k, a)
  OBVIOUS
<1>3. a \in Answer \cup {"none", "panic", "internal"} /\ a # "internal"
  BY <1>1 DEF Answer
<1>4. At(c, "out", "user") /\ UNCHANGED <<task, lines, verbose>>
  BY DEF UserLeave
<1>5. /\ k.at = "out" /\ k.kind \in Kind /\ k.layer \in 1 .. Depth(k.kind)
      /\ Chain(k.kind)[k.layer] = "user" /\ PanicInv(k)
      /\ ls \in Seq(Line) /\ LineInv(k, task[c], ls) /\ Reached(new, 3)
      /\ new.at = "out" /\ new.layer = k.layer - 1 /\ new.kind = k.kind
      /\ new.tag = k.tag /\ new.answer = a
  <2>1. /\ k \in CallRecord /\ k.at = "out" /\ k.kind \in Kind
        /\ k.layer \in 1 .. Depth(k.kind) /\ k.layer > 0
        /\ Chain(k.kind)[k.layer] = "user" /\ PanicInv(k)
        /\ ls \in Seq(Line) /\ LineInv(k, task[c], ls)
    BY <1>2, <1>4, Leaving
  <2>2. /\ new.at = "out" /\ new.layer = k.layer - 1 /\ new.kind = k.kind
        /\ new.tag = k.tag /\ new.answer = a
    BY <1>2, <1>3, <2>1, Further
  <2> QED
    BY <2>1, <2>2 DEF Reached
<1>6. k.layer = Depth(k.kind) - 1
  BY <1>5, Position
<1>7. /\ ~ LeftLayer(k, Recovers(k.kind)) /\ ~ LeftLayer(new, Recovers(new.kind))
      /\ ~ Closed(k) /\ ~ Closed(new)
  BY <1>5, <1>6 DEF LeftLayer, Recovers, Depth, Kind, Closed
<1>8. PanicInv(new) /\ k.answer # "internal"
  BY <1>3, <1>5, <1>7 DEF PanicInv
<1>9. LineInv(new, task[c], ls)
  BY <1>3, <1>5, <1>7, <1>8, Untold
<1>10. lines' = [lines EXCEPT ![c] = ls]
  BY <1>2, <1>4 DEF CallsInv
<1> QED
  BY <1>1, <1>2, <1>3, <1>4, <1>5, <1>8, <1>9, <1>10, LeaveStep

\* rpc.end is written of a handler that returned.
LEMMA RPCLogEndStep ==
  ASSUME CallsInv, NEW c \in Call, RPCLogEnd(c)
  PROVE  CallsInv'
<1>1. PICK k, ls, new : k = call[c] /\ ls = lines[c] /\ new = AfterLeave(k, k.answer)
  OBVIOUS
<1>2. /\ At(c, "out", "RPCLog") /\ UNCHANGED <<task, verbose>> /\ Outwards(c, k.answer)
  BY <1>1 DEF RPCLogEnd
<1>3. k.answer \in Answer \cup {"none", "panic", "internal"}
  BY <1>1 DEF CallsInv, CallRecord
<1>4. /\ k \in CallRecord /\ k.at = "out" /\ k.kind \in Kind /\ k.layer \in 1 .. Depth(k.kind)
      /\ Chain(k.kind)[k.layer] = "RPCLog" /\ PanicInv(k) /\ k.logger = "app"
      /\ ls \in Seq(Line) /\ LineInv(k, task[c], ls) /\ Reached(new, 3)
      /\ new.at = "out" /\ new.layer = k.layer - 1 /\ new.kind = k.kind
      /\ new.tag = k.tag /\ new.answer = k.answer
  <2>1. /\ k \in CallRecord /\ k.at = "out" /\ k.kind \in Kind
        /\ k.layer \in 1 .. Depth(k.kind) /\ k.layer > 0
        /\ Chain(k.kind)[k.layer] = "RPCLog" /\ PanicInv(k) /\ k.logger = "app"
        /\ ls \in Seq(Line) /\ LineInv(k, task[c], ls)
    BY <1>1, <1>2, Leaving
  <2>2. /\ new.at = "out" /\ new.layer = k.layer - 1 /\ new.kind = k.kind
        /\ new.tag = k.tag /\ new.answer = k.answer
    BY <1>1, <1>3, <2>1, Further
  <2> QED
    BY <2>1, <2>2 DEF Reached
<1>5. k.kind = "unary" /\ k.layer = 4
  BY <1>4, Position
<1>6. /\ ~ LeftLayer(k, Recovers(k.kind)) /\ ~ LeftLayer(new, Recovers(new.kind))
      /\ ~ Closed(k) /\ LeftLayer(new, 4)
  BY <1>4, <1>5 DEF LeftLayer, Recovers, Closed
<1>7. PanicInv(new) /\ k.answer # "internal"
  BY <1>4, <1>6 DEF PanicInv
<1>8. CASE k.answer = "panic"
  <2>1. ~ Closed(new)
    BY <1>4, <1>8 DEF Closed
  <2>3. LineInv(new, task[c], ls)
    BY <1>4, <1>6, <1>7, <2>1, Untold
  <2>2. lines' = [lines EXCEPT ![c] = ls]
    BY <1>1, <1>8 DEF RPCLogEnd, CallsInv
  <2> QED
    BY <1>1, <1>2, <1>3, <1>4, <1>7, <2>3, <2>2, LeaveStep
<1>9. CASE k.answer # "panic"
  <2>1. Code(k.answer) \in Codes /\ Closed(new)
    BY <1>4, <1>5, <1>6, <1>7, <1>9 DEF Code, Codes, Closed
  <2>2. PICK line \in Line :
          line = [msg |-> "rpc.end", rid |-> k.tag, code |-> Code(k.answer)]
    BY <1>4, <2>1, LineOf
  <2>3. Emit(c, k, "rpc.end", Code(k.answer))
    BY <1>1, <1>9 DEF RPCLogEnd
  <2>4. lines' = [lines EXCEPT ![c] = Append(ls, line)]
    BY <1>1, <1>4, <2>2, <2>3, Emitted
  <2>5. line.msg = "rpc.end" /\ line.rid = k.tag /\ line.code = Code(k.answer)
    BY <2>2
  <2>6. LineInv(new, task[c], Append(ls, line))
    BY <1>4, <1>6, <1>7, <2>1, <2>2, <2>5, Told
  <2>7. Append(ls, line) \in Seq(Line)
    BY <1>4, <2>2
  <2> QED
    BY <1>1, <1>2, <1>3, <1>7, <2>4, <2>6, <2>7, LeaveStep
<1> QED
  BY <1>8, <1>9

\* The deferred function recovers, tells the panic, and answers Internal.
LEMMA RecoverStep ==
  ASSUME CallsInv, NEW c \in Call, Recover(c)
  PROVE  CallsInv'
<1>1. PICK k, ls : k = call[c] /\ ls = lines[c]
  OBVIOUS
<1>2. At(c, "out", "Recovery") /\ UNCHANGED <<task, verbose>>
  BY DEF Recover
<1>3. k.answer \in Answer \cup {"none", "panic", "internal"}
  BY <1>1 DEF CallsInv, CallRecord
<1>4. /\ k \in CallRecord /\ k.at = "out" /\ k.kind \in Kind
      /\ k.layer \in 1 .. Depth(k.kind) /\ k.layer > 0
      /\ Chain(k.kind)[k.layer] = "Recovery" /\ PanicInv(k) /\ k.logger = "app"
      /\ ls \in Seq(Line) /\ LineInv(k, task[c], ls)
  BY <1>1, <1>2, Leaving
<1>5. CASE k.answer = "panic"
  <2>1. PICK new : new = AfterLeave(k, "internal")
    OBVIOUS
  <2>2. /\ k \in CallRecord /\ k.at = "out" /\ k.kind \in Kind
        /\ k.layer \in 1 .. Depth(k.kind)
        /\ Chain(k.kind)[k.layer] = "Recovery" /\ k.logger = "app"
        /\ ls \in Seq(Line) /\ LineInv(k, task[c], ls) /\ Reached(new, 3)
        /\ new.at = "out" /\ new.layer = k.layer - 1 /\ new.kind = k.kind
        /\ new.tag = k.tag /\ new.answer = "internal"
    <3>1. /\ new.at = "out" /\ new.layer = k.layer - 1 /\ new.kind = k.kind
          /\ new.tag = k.tag /\ new.answer = "internal"
      BY <1>4, <2>1, Further
    <3> QED
      BY <1>4, <3>1 DEF Reached
  <2>3. k.layer = Recovers(k.kind)
    BY <2>2, Position
  <2>4. LeftLayer(new, Recovers(new.kind))
    BY <2>2, <2>3 DEF LeftLayer, Recovers
  <2>5. PanicInv(new) /\ ~ Closed(k) /\ ~ Closed(new)
    BY <1>5, <2>2, <2>4 DEF PanicInv, Closed
  <2>6. PICK line \in Line : line = [msg |-> "panic", rid |-> k.tag, code |-> "none"]
    BY <2>2, LineOf
  <2>7. Emit(c, k, "panic", "none") /\ Outwards(c, "internal")
    BY <1>1, <1>5 DEF Recover
  <2>8. lines' = [lines EXCEPT ![c] = Append(ls, line)]
    BY <1>1, <2>2, <2>6, <2>7, Emitted
  <2>9. line.msg = "panic" /\ line.rid = k.tag
    BY <2>6
  <2>10. LineInv(new, task[c], Append(ls, line))
    BY <1>5, <2>2, <2>5, <2>6, <2>9, Told
  <2>11. Append(ls, line) \in Seq(Line)
    BY <2>2, <2>6
  <2> QED
    BY <1>1, <1>2, <2>1, <2>5, <2>7, <2>8, <2>10, <2>11, LeaveStep
<1>6. CASE k.answer # "panic"
  <2>1. PICK new : new = AfterLeave(k, k.answer)
    OBVIOUS
  <2>2. /\ k.at = "out" /\ k.kind \in Kind /\ k.layer \in 1 .. Depth(k.kind)
        /\ Chain(k.kind)[k.layer] = "Recovery" /\ PanicInv(k)
        /\ ls \in Seq(Line) /\ LineInv(k, task[c], ls) /\ Reached(new, 3)
        /\ new.at = "out" /\ new.layer = k.layer - 1 /\ new.kind = k.kind
        /\ new.tag = k.tag /\ new.answer = k.answer
    <3>1. /\ new.at = "out" /\ new.layer = k.layer - 1 /\ new.kind = k.kind
          /\ new.tag = k.tag /\ new.answer = k.answer
      BY <1>4, <1>3, <2>1, Further
    <3> QED
      BY <1>4, <3>1 DEF Reached
  <2>3. k.layer = Recovers(k.kind)
    BY <2>2, Position
  <2>4. ~ LeftLayer(k, Recovers(k.kind)) /\ (Closed(k) <=> Closed(new))
    BY <2>2, <2>3 DEF LeftLayer, Recovers, Closed
  <2>5. PanicInv(new)
    BY <1>6, <2>2, <2>4 DEF PanicInv
  <2>6. LineInv(new, task[c], ls)
    BY <2>2, <2>4, Untold
  <2>7. lines' = [lines EXCEPT ![c] = ls] /\ Outwards(c, k.answer)
    BY <1>1, <1>6 DEF Recover, CallsInv
  <2> QED
    BY <1>1, <1>2, <1>3, <2>1, <2>2, <2>5, <2>6, <2>7, LeaveStep
<1> QED
  BY <1>5, <1>6

\* RequestID and seedLogger let the answer pass.
LEMMA PassOutStep ==
  ASSUME CallsInv, NEW c \in Call, PassOut(c)
  PROVE  CallsInv'
<1>1. PICK k, ls, new : k = call[c] /\ ls = lines[c] /\ new = AfterLeave(k, k.answer)
  OBVIOUS
<1>2. /\ \E layer \in {"RequestID", "seedLogger"} : At(c, "out", layer)
      /\ UNCHANGED <<task, lines, verbose>> /\ Outwards(c, k.answer)
  BY <1>1 DEF PassOut
<1>3. PICK layer \in {"RequestID", "seedLogger"} : At(c, "out", layer)
  BY <1>2
<1>4. k.answer \in Answer \cup {"none", "panic", "internal"}
  BY <1>1 DEF CallsInv, CallRecord
<1>5. /\ k \in CallRecord /\ k.at = "out" /\ k.kind \in Kind
      /\ k.layer \in 1 .. Depth(k.kind) /\ k.layer > 0
      /\ Chain(k.kind)[k.layer] = layer /\ PanicInv(k)
      /\ ls \in Seq(Line) /\ LineInv(k, task[c], ls)
  BY <1>1, <1>3, Leaving
<1>6. /\ new.at = "out" /\ new.layer = k.layer - 1 /\ new.kind = k.kind
      /\ new.tag = k.tag /\ new.answer = k.answer
  BY <1>1, <1>4, <1>5, Further
<1>7. k.layer = 1 \/ (k.kind = "unary" /\ k.layer = 2)
  BY <1>3, <1>5, Position
<1>8. /\ LeftLayer(k, Recovers(k.kind)) /\ LeftLayer(new, Recovers(new.kind))
      /\ (Closed(new) <=> Closed(k)) /\ Reached(new, 3)
  BY <1>5, <1>6, <1>7 DEF LeftLayer, Recovers, Reached, Closed
<1>9. PanicInv(new)
  BY <1>5, <1>6, <1>8 DEF PanicInv
<1>10. LineInv(new, task[c], ls)
  BY <1>5, <1>6, <1>8, Untold
<1>11. lines' = [lines EXCEPT ![c] = ls]
  BY <1>1, <1>2 DEF CallsInv
<1> QED
  BY <1>1, <1>2, <1>3, <1>4, <1>5, <1>9, <1>10, <1>11, LeaveStep

\* The client is answered: no panic is left by then, so the process goes on.
LEMMA ReplyStep ==
  ASSUME CallsInv, NEW c \in Call, Reply(c)
  PROVE  CallsInv' /\ crashed' = FALSE
<1>1. PICK k, t, ls : k = call[c] /\ t = task[c] /\ ls = lines[c]
  OBVIOUS
<1>2. /\ Sound(c, k, t, ls) /\ k \in CallRecord /\ t \in TaskRecord /\ ls \in Seq(Line)
      /\ ContextInv(c, k) /\ PanicInv(k) /\ TaskInv(k, t) /\ LineInv(k, t, ls)
  BY <1>1 DEF CallsInv, Sound
<1>3. k.at = "out" /\ k.layer = 0 /\ k.kind \in Kind
  BY <1>1, <1>2 DEF Reply, CallRecord
<1>4. PICK new : new = [k EXCEPT !.at = "over"]
  OBVIOUS
<1>5. new \in CallRecord /\ new.at = "over" /\ new.layer = 0 /\ new.kind = k.kind
  BY <1>2, <1>3, <1>4 DEF CallRecord
<1>6. /\ new.header = k.header /\ new.logger = k.logger /\ new.tag = k.tag
      /\ new.outgoing = k.outgoing /\ new.answer = k.answer
  BY <1>2, <1>4 DEF CallRecord
<1>7. /\ Reached(k, 2) /\ Reached(k, 3) /\ Reached(new, 2) /\ Reached(new, 3)
      /\ LeftLayer(k, Recovers(k.kind)) /\ LeftLayer(new, Recovers(k.kind))
      /\ (Closed(new) <=> Closed(k))
  BY <1>3, <1>5, <1>6 DEF Reached, LeftLayer, Recovers, Closed
<1>8. PlaceInv(new) /\ PanicInv(new)
  BY <1>2, <1>5, <1>6, <1>7 DEF PlaceInv, PanicInv
<1>9. ContextInv(c, new)
  BY <1>2, <1>5, <1>6, <1>7 DEF ContextInv
<1>10. TaskInv(new, t)
  BY <1>2, <1>3, <1>5, <1>6 DEF TaskInv, Reached
<1>11. LineInv(new, t, ls)
  BY <1>2, <1>5, <1>6, <1>7, Untold
<1>12. Sound(c, new, t, ls)
  BY <1>2, <1>5, <1>8, <1>9, <1>10, <1>11 DEF Sound
<1>13. call' = [call EXCEPT ![c] = new]
  BY <1>1, <1>4 DEF Reply, CallsInv
<1>14. CallsInv'
  BY <1>1, <1>12, <1>13, CallStep DEF Reply
<1>15. crashed' = FALSE
  <2>1. k.answer # "panic"
    BY <1>2, <1>7 DEF PanicInv
  <2> QED
    BY <1>1, <2>1 DEF Reply
<1> QED
  BY <1>14, <1>15

----------------------------------------------------------------------------
(* The invariant. *)

\* No call has begun.
LEMMA InitSound == Init => IInv
<1> SUFFICES ASSUME Init PROVE IInv
  OBVIOUS
<1>1. ASSUME NEW c \in Call PROVE Sound(c, call[c], task[c], lines[c])
  <2>1. PICK k, t, ls : k = call[c] /\ t = task[c] /\ ls = lines[c]
    OBVIOUS
  <2>2. /\ k \in CallRecord /\ k.at = "idle" /\ k.layer = 0 /\ k.answer = "none"
        /\ t \in TaskRecord /\ t.at = "none"
    BY <2>1 DEF Init, CallRecord, TaskRecord, Kind
  <2>3. ls = << >> /\ ls \in Seq(Line)
    BY <2>1 DEF Init
  <2>4. /\ PlaceInv(k) /\ ContextInv(c, k) /\ PanicInv(k) /\ TaskInv(k, t)
        /\ ~ Closed(k)
    BY <2>2 DEF PlaceInv, ContextInv, PanicInv, TaskInv, Reached, LeftLayer, Closed
  <2>5. LineInv(k, t, ls)
    BY <2>2, <2>3, <2>4 DEF LineInv
  <2> QED
    BY <2>1, <2>2, <2>3, <2>4, <2>5 DEF Sound
<1>2. \A c \in Call : /\ call[c] \in CallRecord /\ task[c] \in TaskRecord
                      /\ lines[c] \in Seq(Line)
  BY <1>1 DEF Sound
<1>3. /\ call = [c \in Call |-> call[c]] /\ task = [c \in Call |-> task[c]]
      /\ lines = [c \in Call |-> lines[c]] /\ verbose \in BOOLEAN /\ crashed = FALSE
  BY DEF Init
<1>4. /\ call \in [Call -> CallRecord] /\ task \in [Call -> TaskRecord]
      /\ lines \in [Call -> Seq(Line)]
  BY <1>2, <1>3
<1> QED
  BY <1>1, <1>3, <1>4 DEF IInv, CallsInv

\* Every step of every layer keeps the invariant.
LEMMA Inductive == IInv /\ [Next]_vars => IInv'
<1> SUFFICES ASSUME CallsInv, crashed = FALSE, [Next]_vars PROVE CallsInv' /\ crashed' = FALSE
  BY DEF IInv
<1>1. CASE UNCHANGED vars
  <2>1. UNCHANGED <<call, task, lines, verbose, crashed>>
    BY <1>1 DEF vars
  <2> QED
    BY <2>1 DEF CallsInv
<1>2. ASSUME NEW c \in Call, Receive(c) PROVE CallsInv' /\ crashed' = FALSE
  BY <1>2, ReceiveStep DEF Receive
<1>3. ASSUME NEW c \in Call, SeedLogger(c) PROVE CallsInv' /\ crashed' = FALSE
  BY <1>3, SeedLoggerStep DEF SeedLogger
<1>4. ASSUME NEW c \in Call, RequestID(c) PROVE CallsInv' /\ crashed' = FALSE
  BY <1>4, RequestIDStep DEF RequestID
<1>5. ASSUME NEW c \in Call, RecoveryDefers(c) PROVE CallsInv' /\ crashed' = FALSE
  BY <1>5, RecoveryDefersStep DEF RecoveryDefers
<1>6. ASSUME NEW c \in Call, RPCLogStart(c) PROVE CallsInv' /\ crashed' = FALSE
  BY <1>6, RPCLogStartStep DEF RPCLogStart
<1>7. ASSUME NEW c \in Call, UserEnter(c) PROVE CallsInv' /\ crashed' = FALSE
  BY <1>7, UserEnterStep DEF UserEnter
<1>8. ASSUME NEW c \in Call, Handle(c) PROVE CallsInv' /\ crashed' = FALSE
  BY <1>8, HandleStep DEF Handle
<1>9. ASSUME NEW c \in Call, Detach(c) PROVE CallsInv' /\ crashed' = FALSE
  BY <1>9, DetachStep DEF Detach
<1>10. ASSUME NEW c \in Call, TaskLogs(c) \/ TaskEnds(c) \/ TaskPanics(c)
       PROVE  CallsInv' /\ crashed' = FALSE
  BY <1>10, TaskSteps DEF TaskLogs, TaskEnds, TaskPanics
<1>11. ASSUME NEW c \in Call, UserLeave(c) PROVE CallsInv' /\ crashed' = FALSE
  BY <1>11, UserLeaveStep DEF UserLeave
<1>12. ASSUME NEW c \in Call, RPCLogEnd(c) PROVE CallsInv' /\ crashed' = FALSE
  BY <1>12, RPCLogEndStep DEF RPCLogEnd
<1>13. ASSUME NEW c \in Call, Recover(c) PROVE CallsInv' /\ crashed' = FALSE
  BY <1>13, RecoverStep DEF Recover
<1>14. ASSUME NEW c \in Call, PassOut(c) PROVE CallsInv' /\ crashed' = FALSE
  BY <1>14, PassOutStep DEF PassOut
<1>15. ASSUME NEW c \in Call, Reply(c) PROVE CallsInv' /\ crashed' = FALSE
  BY <1>15, ReplyStep
<1>16. CASE Over
  BY <1>1, <1>16 DEF Over
<1>17. CASE Next
  BY <1>2, <1>3, <1>4, <1>5, <1>6, <1>7, <1>8, <1>9, <1>10, <1>11, <1>12, <1>13, <1>14, <1>15,
     <1>16, <1>17 DEF Next
<1> QED
  BY <1>1, <1>17

\* The invariant, in every state.
LEMMA AlwaysSound == Spec => []IInv
BY InitSound, Inductive, PTL DEF Spec

\* A call and its lines have their types, whatever calls run.
THEOREM TypeCorrect == Spec => []TypeOK
<1>1. IInv => TypeOK
  <2> SUFFICES ASSUME CallsInv, crashed = FALSE PROVE TypeOK
    BY DEF IInv
  <2>1. ASSUME NEW c \in Call
        PROVE  /\ call[c].at \in {"idle", "in", "out", "over"}
               /\ call[c].kind \in {"unary", "stream"}
               /\ call[c].layer \in 0 .. 6
               /\ call[c].header \in Header \cup {"absent", "empty"}
               /\ call[c].logger \in {"noop", "app"}
               /\ call[c].tag \in RequestId \cup {"untagged"}
               /\ call[c].outgoing \in RequestId \cup {"unset"}
               /\ call[c].answer \in Answer \cup {"none", "panic", "internal"}
    <3>1. call[c] \in CallRecord
      BY DEF CallsInv
    <3> QED
      BY <3>1 DEF CallRecord, Kind
  <2>2. crashed \in BOOLEAN
    OBVIOUS
  <2>3. verbose \in BOOLEAN /\ task \in [Call -> TaskRecord] /\ lines \in [Call -> Seq(Line)]
    BY DEF CallsInv
  <2> QED
    BY <2>1, <2>2, <2>3 DEF TypeOK, TaskRecord
<1> QED
  BY <1>1, AlwaysSound, PTL

\* No panic, of a handler, of a user's interceptor or of a detached task, ends the
\* process (server.go:100-107, recovery.go:22-55, detach.go:27-28).
THEOREM NoPanicEscapes == Spec => []PanicsAreContained
<1>1. IInv => PanicsAreContained
  BY DEF IInv, PanicsAreContained
<1> QED
  BY <1>1, AlwaysSound, PTL

\* The lines of a unary call and of its task carry its request id, and no other's
\* (requestid.go:30-63, rpclog.go:26-30, detach.go:18-25).
THEOREM LinesAreTheCalls == Spec => []LinesNameTheCall
<1>1. IInv => LinesNameTheCall
  <2> SUFFICES ASSUME CallsInv, NEW c \in Call, call[c].kind = "unary", NEW l \in Logged(c)
               PROVE  /\ l.rid = call[c].outgoing
                      /\ l.rid = IF call[c].header \in Header THEN call[c].header ELSE c
    BY DEF IInv, LinesNameTheCall
  <2>1. PICK k, ls : k = call[c] /\ ls = lines[c]
    OBVIOUS
  <2>2. ls \in Seq(Line) /\ ContextInv(c, k) /\ LineInv(k, task[c], ls)
    BY <2>1 DEF CallsInv, Sound
  <2>3. PICK i \in 1 .. Len(ls) : l = ls[i]
    BY <2>1, <2>2 DEF Logged
  <2>4. ls # << >>
    BY <2>2, <2>3
  <2>5. Reached(k, 3) /\ l.rid = k.tag
    BY <2>2, <2>3, <2>4 DEF LineInv
  <2> QED
    BY <2>1, <2>2, <2>5 DEF ContextInv
<1> QED
  BY <1>1, AlwaysSound, PTL

\* A panic is told once, and the client of that call, and of no other, is answered
\* Internal; a task's is told, too (recovery.go:25-32, detach.go:27-28).
THEOREM NoPanicIsHidden == Spec => []PanicsAreTold
<1>1. IInv => PanicsAreTold
  <2> SUFFICES ASSUME CallsInv, NEW c \in Call
               PROVE  /\ call[c].at = "over" => (call[c].answer = "internal" <=> Has(c, "panic"))
                      /\ task[c].at = "panicked" <=> Has(c, "taskPanic")
                      /\ \A i, j \in DOMAIN lines[c] :
                           lines[c][i].msg = "panic" /\ lines[c][j].msg = "panic" => i = j
    BY DEF IInv, PanicsAreTold
  <2>1. lines[c] \in Seq(Line) /\ LineInv(call[c], task[c], lines[c])
    BY DEF CallsInv, Sound
  <2>2. DOMAIN lines[c] = 1 .. Len(lines[c])
    BY <2>1
  <2>3. \A msg : Has(c, msg) <=> \E i \in 1 .. Len(lines[c]) : lines[c][i].msg = msg
    BY <2>2 DEF Has, Logged
  <2> QED
    BY <2>1, <2>2, <2>3 DEF LineInv
<1> QED
  BY <1>1, AlwaysSound, PTL

\* A unary call whose panic is not told has one rpc.end, with the code its client
\* is answered, or Unknown for the bare error of a context (server.go:90-98,
\* rpclog.go:45-56).
THEOREM EndIsTheAnswer == Spec => []EndTellsTheAnswer
<1>1. IInv => EndTellsTheAnswer
  <2> SUFFICES ASSUME CallsInv, NEW c \in Call, call[c].at = "over"
               PROVE  /\ call[c].kind = "unary" => Has(c, "rpc.end") \/ Has(c, "panic")
                      /\ \A i, j \in DOMAIN lines[c] :
                           lines[c][i].msg = "rpc.end" /\ lines[c][j].msg = "rpc.end" => i = j
                      /\ \A l \in Logged(c) : l.msg = "rpc.end" =>
                           l.code = IF call[c].answer = "context" THEN "Unknown"
                                    ELSE Answered(call[c].answer)
    BY DEF IInv, EndTellsTheAnswer
  <2>1. PICK k, ls : k = call[c] /\ ls = lines[c]
    OBVIOUS
  <2>2. /\ k \in CallRecord /\ ls \in Seq(Line) /\ PlaceInv(k) /\ PanicInv(k)
        /\ LineInv(k, task[c], ls)
    BY <2>1 DEF CallsInv, Sound
  <2>3. DOMAIN ls = 1 .. Len(ls)
    BY <2>2
  <2>4. \A msg : Has(c, msg) <=> \E i \in 1 .. Len(ls) : ls[i].msg = msg
    BY <2>1, <2>3 DEF Has, Logged
  <2>5. LeftLayer(k, 4) /\ LeftLayer(k, Recovers(k.kind))
    BY <2>1, <2>2 DEF LeftLayer, PlaceInv, Recovers
  <2>6. k.kind = "unary" => Has(c, "rpc.end") \/ Has(c, "panic")
    BY <2>2, <2>4, <2>5 DEF LineInv, Closed, PanicInv
  <2>7. \A i \in 1 .. Len(ls) : ls[i].msg = "rpc.end" =>
          ls[i].code = IF k.answer = "context" THEN "Unknown" ELSE Answered(k.answer)
    BY <2>2 DEF LineInv, Answered, Code
  <2>8. \A l \in Logged(c) : \E i \in 1 .. Len(ls) : l = ls[i]
    BY <2>1, <2>3 DEF Logged
  <2> QED
    BY <2>1, <2>2, <2>3, <2>6, <2>7, <2>8 DEF LineInv
<1> QED
  BY <1>1, AlwaysSound, PTL
=============================================================================
