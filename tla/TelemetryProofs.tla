--------------------------- MODULE TelemetryProofs ---------------------------
(***************************************************************************)
(* What OtelInit, OtelPgx and RedisHook guarantee for any callers of       *)
(* shutdown, any routes and pipelines of any length: who calls shutdown    *)
(* learns how it went, the comment of a statement reads as what was        *)
(* written, and spans and metrics tell what became of statements and       *)
(* commands.                                                               *)
(***************************************************************************)
EXTENDS OtelPgx, RedisHook, SequenceTheorems, WellFoundedInduction, TLAPS

Answers == {"nil", "tracer", "meter"}

\* The types, of the providers too.
TypeInv == given \in Seq({"tracer", "meter"}) /\ OtelTypeOK

\* The loop is in the middle of the providers until it is over.
LoopInv ==
  /\ Len(answers) <= Len(given)
  /\ once = "done" => Len(answers) = Len(given)

\* The variable of the closure has the first error.
FirstInv ==
  /\ shutdownErr = "nil" => \A i \in 1 .. Len(answers) : answers[i] = "nil"
  /\ shutdownErr # "nil" =>
       \E k \in 1 .. Len(answers) :
         answers[k] = shutdownErr /\ \A j \in 1 .. k - 1 : answers[j] = "nil"

\* Who returned has it, and it is final.
AnswerInv ==
  \A c \in Caller : caller[c] = "returned" => once = "done" /\ answer[c] = shutdownErr

ShutdownInv == TypeInv /\ LoopInv /\ FirstInv /\ AnswerInv

\* The statement at hand is a record, with the tracer its pool had for it.
CallInv ==
  /\ \E a, o, f, s, t, p, e : call = [at |-> a, op |-> o, fields |-> f, sql |-> s,
                                      tracer |-> t, span |-> p, fate |-> e]
  /\ call.at \in {"idle", "sent", "returned"} /\ override \in BOOLEAN
  /\ call.at # "idle" /\ call.op # "SendBatch" =>
       /\ call.op \in Statement
       /\ call.tracer \in {"own", "global", "noop"} /\ (override => call.tracer = "own")
  /\ call.at = "sent" => call.span = IF call.op = "SendBatch" THEN "none" ELSE "open"

\* A span is lost only to a provider that is down, or was not there yet.
SpanInv ==
  call.at = "returned" =>
    IF call.op = "SendBatch" THEN call.span = "none"
    ELSE /\ call.span = "lost" =>
              call.tracer = "noop" \/ (call.tracer = "global" /\ Down("tracer"))
         /\ call.span # "lost" =>
              (call.span = "error" <=> call.fate = "failed" /\ call.op # "QueryRow")

IInv == ShutdownInv /\ CallInv /\ SpanInv

----------------------------------------------------------------------------
(* The shutdown. *)

\* Nothing is known of the providers but that there are a tracer's or a meter's.
LEMMA ShutdownInit == OtelInit => ShutdownInv
<1> SUFFICES ASSUME OtelInit PROVE ShutdownInv
  OBVIOUS
<1>1. given \in Seq({"tracer", "meter"}) /\ closable \subseteq Range(given)
  <2>1. /\ << >> \in Seq({"tracer", "meter"}) /\ <<"meter">> \in Seq({"tracer", "meter"})
        /\ <<"tracer">> \in Seq({"tracer", "meter"})
        /\ <<"tracer", "meter">> \in Seq({"tracer", "meter"})
    OBVIOUS
  <2>2. /\ given \in {<< >>, <<"meter">>, <<"tracer">>, <<"tracer", "meter">>}
        /\ closable \in SUBSET Range(given)
    BY DEF OtelInit
  <2> QED
    BY <2>1, <2>2
<1>2. /\ globals = {} /\ setup = "none"
      /\ once = "new" /\ answers = << >> /\ shutdownErr = "nil"
      /\ caller = [c \in Caller |-> "idle"] /\ answer = [c \in Caller |-> "none"]
  BY DEF OtelInit
<1>3. TypeInv
  BY <1>1, <1>2 DEF TypeInv, OtelTypeOK, Answers
<1>4. LoopInv /\ FirstInv /\ AnswerInv
  BY <1>1, <1>2 DEF LoopInv, FirstInv, AnswerInv
<1> QED
  BY <1>3, <1>4 DEF ShutdownInv

\* One turn of the loop.
LEMMA TurnStep ==
  ASSUME ShutdownInv, ProviderShutsDown
  PROVE  ShutdownInv'
<1>1. /\ once = "running" /\ Len(answers) < Len(given)
      /\ UNCHANGED <<given, closable, globals, setup, once, caller, answer>>
  BY DEF ProviderShutsDown, shutdowners
<1>2. PICK e \in Turn :
        /\ answers' = Append(answers, e)
        /\ shutdownErr' = IF e # "nil" /\ shutdownErr = "nil" THEN e ELSE shutdownErr
  BY DEF ProviderShutsDown
<1>3. TypeInv /\ LoopInv /\ FirstInv /\ AnswerInv
  BY DEF ShutdownInv
<1>4. e \in Answers
  <2>1. Len(answers) + 1 \in 1 .. Len(given) /\ given \in Seq({"tracer", "meter"})
    BY <1>1, <1>3 DEF TypeInv, OtelTypeOK
  <2>2. given[Len(answers) + 1] \in {"tracer", "meter"}
    BY <2>1
  <2> QED
    BY <1>2, <2>2 DEF Turn, shutdowners, Answers
<1>5. /\ answers \in Seq(Answers) /\ answers' \in Seq(Answers) /\ Len(answers') = Len(answers) + 1
      /\ answers'[Len(answers) + 1] = e
      /\ \A i \in 1 .. Len(answers) : answers'[i] = answers[i]
  BY <1>2, <1>3, <1>4 DEF TypeInv, OtelTypeOK, Answers
<1>6. TypeInv'
  BY <1>1, <1>2, <1>3, <1>4, <1>5 DEF TypeInv, OtelTypeOK, Answers
<1>7. LoopInv'
  BY <1>1, <1>3, <1>5 DEF LoopInv, TypeInv, OtelTypeOK
<1>8. FirstInv'
  <2>1. CASE shutdownErr # "nil"
    <3>1. PICK k \in 1 .. Len(answers) :
            answers[k] = shutdownErr /\ \A j \in 1 .. k - 1 : answers[j] = "nil"
      BY <1>3, <2>1 DEF FirstInv
    <3>2. shutdownErr' = shutdownErr /\ k \in 1 .. Len(answers') /\ answers'[k] = shutdownErr
      BY <1>2, <1>5, <2>1, <3>1
    <3>3. \A j \in 1 .. k - 1 : answers'[j] = "nil"
      BY <1>5, <3>1
    <3> QED
      BY <2>1, <3>2, <3>3 DEF FirstInv
  <2>2. CASE shutdownErr = "nil"
    <3>1. \A i \in 1 .. Len(answers) : answers'[i] = "nil"
      BY <1>3, <1>5, <2>2 DEF FirstInv
    <3>2. CASE e = "nil"
      <4>1. \A i \in 1 .. Len(answers') : answers'[i] = "nil"
        BY <1>5, <3>1, <3>2
      <4>2. shutdownErr' = "nil"
        BY <1>2, <2>2, <3>2
      <4> QED
        BY <4>1, <4>2 DEF FirstInv
    <3>3. CASE e # "nil"
      <4>1. shutdownErr' = e
        BY <1>2, <2>2, <3>3
      <4>2. PICK k \in 1 .. Len(answers') : k = Len(answers) + 1
        BY <1>5
      <4>3. answers'[k] = e /\ \A j \in 1 .. k - 1 : answers'[j] = "nil"
        BY <1>5, <3>1, <4>2
      <4> QED
        BY <3>3, <4>1, <4>3 DEF FirstInv
    <3> QED
      BY <3>2, <3>3
  <2> QED
    BY <2>1, <2>2
<1>9. AnswerInv'
  BY <1>1, <1>3 DEF AnswerInv
<1> QED
  BY <1>6, <1>7, <1>8, <1>9 DEF ShutdownInv

\* Every step of Setup and of the callers keeps the invariant.
LEMMA ShutdownStep ==
  ASSUME ShutdownInv, OtelNext \/ UNCHANGED otelVars
  PROVE  ShutdownInv'
<1> USE DEF ShutdownInv, TypeInv, OtelTypeOK, LoopInv, AnswerInv, Answers
<1>1. ASSUME UNCHANGED <<answers, shutdownErr>> PROVE FirstInv'
  BY <1>1 DEF FirstInv
<1>2. CASE UNCHANGED otelVars
  BY <1>1, <1>2 DEF otelVars
<1>3. CASE Setup
  <2>1. \A x \in Range(given) : x \in {"tracer", "meter"}
    BY DEF Range
  <2>2. globals' \subseteq {"tracer", "meter", "propagator"} /\ setup' \in {"error", "nil"}
    BY <1>3, <2>1 DEF Setup
  <2>3. FirstInv'
    BY <1>1, <1>3 DEF Setup
  <2> QED
    BY <1>3, <2>2, <2>3 DEF Setup
<1>4. CASE ProviderShutsDown
  BY <1>4, TurnStep
<1>5. CASE OnceDone
  BY <1>1, <1>5 DEF OnceDone, shutdowners
<1>6. ASSUME NEW c \in Caller, ShutdownCalled(c) PROVE ShutdownInv'
  BY <1>1, <1>6 DEF ShutdownCalled
<1>7. ASSUME NEW c \in Caller, ShutdownReturns(c) PROVE ShutdownInv'
  BY <1>1, <1>7 DEF ShutdownReturns
<1> QED
  BY <1>2, <1>3, <1>4, <1>5, <1>6, <1>7 DEF OtelNext

\* A provider that is down stays so.
LEMMA DownStays ==
  ASSUME ShutdownInv, OtelNext \/ UNCHANGED otelVars, NEW p, Down(p)
  PROVE  Down(p)'
<1>1. PICK i \in 1 .. Len(answers) : given[i] = p /\ p \in closable
  BY DEF Down, ShutdownInv, TypeInv, OtelTypeOK, shutdowners
<1>2. UNCHANGED <<given, closable>>
  BY DEF OtelNext, otelVars, Setup, ProviderShutsDown, OnceDone, ShutdownCalled, ShutdownReturns
<1>3. i \in 1 .. Len(answers')
  <2>1. CASE ProviderShutsDown
    BY <2>1, <1>1 DEF ProviderShutsDown, ShutdownInv, TypeInv, OtelTypeOK
  <2>2. CASE UNCHANGED answers
    BY <2>2, <1>1
  <2> QED
    BY <2>1, <2>2 DEF OtelNext, otelVars, Setup, OnceDone, ShutdownCalled, ShutdownReturns
<1>4. answers' \in Seq(Answers)
  BY ShutdownStep DEF ShutdownInv, TypeInv, OtelTypeOK, Answers
<1> QED
  BY <1>1, <1>2, <1>3, <1>4 DEF Down, shutdowners

----------------------------------------------------------------------------
(* The statements. *)

\* A statement is sent with the tracer there is, and an open span.
LEMMA SentStep ==
  ASSUME NEW op \in Statement, NEW route, NEW traced, before(op, route, traced)
  PROVE  \E f, s : call' = [at |-> "sent", op |-> op, fields |-> f, sql |-> s,
                            tracer |-> tracer, span |-> "open", fate |-> "none"]
BY Zenon DEF before

\* The statement at hand keeps its shape, and its span what is true of it.
LEMMA CallStep ==
  ASSUME ShutdownInv, CallInv, SpanInv, TelemetryNext \/ UNCHANGED telemetryVars
  PROVE  CallInv' /\ SpanInv'
<1>1. CASE UNCHANGED call /\ UNCHANGED override /\ (OtelNext \/ UNCHANGED otelVars)
  <2>1. CallInv'
    BY <1>1 DEF CallInv
  <2>2. Down("tracer") => Down("tracer")'
    BY <1>1, DownStays
  <2> QED
    BY <1>1, <2>1, <2>2 DEF SpanInv
<1>2. ASSUME NEW op \in Statement, NEW route, NEW traced, before(op, route, traced)
      PROVE  CallInv' /\ SpanInv'
  <2>1. PICK f, s : call' = [at |-> "sent", op |-> op, fields |-> f, sql |-> s,
                             tracer |-> tracer, span |-> "open", fate |-> "none"]
    BY <1>2, SentStep
  <2>2. override' = override /\ override \in BOOLEAN
    BY <1>2 DEF before, CallInv
  <2>3. tracer \in {"own", "global", "noop"} /\ (override => tracer = "own")
    BY DEF tracer
  <2>4. op # "SendBatch"
    BY DEF Statement
  <2>5. /\ call'.at = "sent" /\ call'.op = op /\ call'.tracer = tracer /\ call'.span = "open"
    BY <2>1
  <2>6. CallInv'
    BY <2>1, <2>2, <2>3, <2>4, <2>5 DEF CallInv
  <2> QED
    BY <2>5, <2>6 DEF SpanInv
<1>3. CASE SendBatch
  <2>1. /\ call' = [NoCall EXCEPT !.at = "sent", !.op = "SendBatch", !.sql = <<SQL>>]
        /\ override' = override
    BY <1>3 DEF SendBatch
  <2>2. call' = [at |-> "sent", op |-> "SendBatch", fields |-> << >>, sql |-> <<SQL>>,
                 tracer |-> "none", span |-> "none", fate |-> "none"]
    BY <2>1 DEF NoCall
  <2>3. call'.at = "sent" /\ call'.op = "SendBatch" /\ call'.span = "none"
    BY <2>2
  <2>4. CallInv'
    BY <2>1, <2>2, <2>3 DEF CallInv
  <2> QED
    BY <2>3, <2>4 DEF SpanInv
<1>4. CASE Return
  <2>1. PICK a, o, f, s, t, p, e : call = [at |-> a, op |-> o, fields |-> f, sql |-> s,
                                           tracer |-> t, span |-> p, fate |-> e]
    BY DEF CallInv
  <2>2. PICK was \in {"done", "failed"} :
          call' = [call EXCEPT !.at = "returned", !.fate = was, !.sql = << >>,
                     !.fields = << >>,
                     !.span = IF @ = "open" THEN end(innerError(call.op, was)) ELSE @]
    BY <1>4 DEF Return
  <2>3. PICK p2 : p2 = IF p = "open" THEN end(innerError(o, was)) ELSE p
    OBVIOUS
  <2>4. call' = [at |-> "returned", op |-> o, fields |-> << >>, sql |-> << >>,
                 tracer |-> t, span |-> p2, fate |-> was]
    BY <2>1, <2>2, <2>3
  <2>5. /\ call.at = "sent" /\ override' = override
        /\ UNCHANGED otelVars
    BY <1>4 DEF Return
  <2>6. CallInv'
    BY <2>1, <2>4, <2>5 DEF CallInv
  <2>7. p = IF o = "SendBatch" THEN "none" ELSE "open"
    BY <2>1, <2>5 DEF CallInv
  <2>8. Down("tracer")' <=> Down("tracer")
    BY <2>5 DEF Down, otelVars, shutdowners
  <2>9. SpanInv'
    <3>1. CASE o = "SendBatch"
      BY <2>3, <2>4, <2>7, <3>1 DEF SpanInv
    <3>2. CASE o # "SendBatch"
      <4>1. p2 = end(innerError(o, was))
        BY <2>3, <2>7, <3>2
      <4>2. p2 = "lost" => t = "noop" \/ (t = "global" /\ Down("tracer"))
        BY <2>1, <4>1 DEF end
      <4>3. p2 # "lost" => (p2 = "error" <=> innerError(o, was))
        BY <4>1 DEF end
      <4>4. o \in Statement
        BY <2>1, <2>5, <3>2 DEF CallInv
      <4> QED
        BY <2>4, <2>8, <3>2, <4>2, <4>3, <4>4 DEF SpanInv, innerError, Statement
    <3> QED
      BY <3>1, <3>2
  <2> QED
    BY <2>6, <2>9
<1>5. CASE Again
  <2>1. call' = NoCall /\ override' = override
    BY <1>5 DEF Again
  <2> QED
    BY <2>1 DEF NoCall, CallInv, SpanInv
<1>6. CASE BeginTx \/ EndTx
  BY <1>1, <1>6 DEF BeginTx, EndTx
<1>7. CASE OtelNext /\ UNCHANGED pgxVars
  BY <1>1, <1>7 DEF pgxVars
<1>8. CASE UNCHANGED telemetryVars
  BY <1>1, <1>8 DEF telemetryVars, pgxVars
<1> QED
  BY <1>2, <1>3, <1>4, <1>5, <1>6, <1>7, <1>8 DEF TelemetryNext, PoolCall, TxCall

----------------------------------------------------------------------------
(* The invariant. *)

\* Before Setup there is no statement.
LEMMA InitInductive == TelemetryInit => IInv
<1> SUFFICES ASSUME TelemetryInit PROVE IInv
  OBVIOUS
<1>1. ShutdownInv
  BY ShutdownInit DEF TelemetryInit
<1>2. CallInv /\ SpanInv
  BY DEF TelemetryInit, NoCall, CallInv, SpanInv
<1> QED
  BY <1>1, <1>2 DEF IInv

\* Every step of the telemetry keeps the invariant.
LEMMA Inductive == IInv /\ [TelemetryNext]_telemetryVars => IInv'
<1> SUFFICES ASSUME ShutdownInv, CallInv, SpanInv,
                    TelemetryNext \/ UNCHANGED telemetryVars
             PROVE  ShutdownInv' /\ CallInv' /\ SpanInv'
  BY DEF IInv
<1>1. OtelNext \/ UNCHANGED otelVars
  BY DEF TelemetryNext, telemetryVars, PoolCall, TxCall, before, SendBatch, BeginTx, EndTx, Return,
     Again
<1> QED
  BY <1>1, ShutdownStep, CallStep

\* The invariant, in every state.
LEMMA AlwaysInv == TelemetrySpec => []IInv
BY InitInductive, Inductive, PTL DEF TelemetrySpec

\* The variables of Setup and its shutdown are of their types.
THEOREM OtelTypeCorrect == TelemetrySpec => []OtelTypeOK
<1>1. IInv => OtelTypeOK
  BY DEF IInv, ShutdownInv, TypeInv
<1> QED
  BY <1>1, AlwaysInv, PTL

\* Every caller of shutdown returns when all providers are down, with the first of
\* their errors (setup.go:23-26, 55-66).
THEOREM ShutdownTells == TelemetrySpec => []ShutdownTellsAll
<1>1. IInv => ShutdownTellsAll
  <2> SUFFICES ASSUME ShutdownInv, NEW c \in Caller, caller[c] = "returned"
               PROVE  /\ \A p \in closable : Down(p)
                      /\ LET k == SelectInSeq(answers, LAMBDA e : e # "nil")
                         IN answer[c] = IF k = 0 THEN "nil" ELSE answers[k]
    BY DEF IInv, ShutdownTellsAll
  <2>1. TypeInv /\ Len(answers) = Len(given) /\ FirstInv /\ answer[c] = shutdownErr
    BY DEF ShutdownInv, LoopInv, AnswerInv
  <2>2. \A p \in closable : Down(p)
    BY <2>1 DEF TypeInv, OtelTypeOK, Down, shutdowners, Range
  <2>3. PICK I : I = {i \in 1 .. Len(answers) : answers[i] # "nil"}
    OBVIOUS
  <2>4. SelectInSeq(answers, LAMBDA e : e # "nil") = IF I # {} THEN Min(I) ELSE 0
    BY <2>3 DEF SelectInSeq
  <2>5. CASE shutdownErr = "nil"
    <3>1. I = {}
      BY <2>1, <2>3, <2>5 DEF FirstInv
    <3> QED
      BY <2>1, <2>2, <2>4, <2>5, <3>1
  <2>6. CASE shutdownErr # "nil"
    <3>1. PICK k \in 1 .. Len(answers) :
            answers[k] = shutdownErr /\ \A j \in 1 .. k - 1 : answers[j] = "nil"
      BY <2>1, <2>6 DEF FirstInv
    <3>2. k \in I /\ k # 0
      BY <2>3, <2>6, <3>1
    <3>3. I \subseteq Int /\ k \in Int /\ \A i \in I : k <= i
      <4>1. Len(answers) \in Nat
        BY <2>1 DEF TypeInv, OtelTypeOK
      <4>2. \A i \in I : i \in 1 .. Len(answers) /\ i \notin 1 .. k - 1
        BY <2>3, <3>1
      <4> QED
        BY <3>1, <4>1, <4>2
    <3>4. Min(I) = k
      <4>1. Min(I) \in I /\ \A y \in I : Min(I) <= y
        <5> DEFINE P(x) == x \in I /\ \A y \in I : x <= y
        <5>1. P(k)
          BY <3>2, <3>3
        <5>2. Min(I) = CHOOSE x \in I : \A y \in I : x <= y
          BY DEF Min
        <5> QED
          BY <5>1, <5>2, Zenon
      <4>2. PICK m : m = Min(I)
        OBVIOUS
      <4>3. m \in Int /\ m <= k /\ k <= m
        BY <3>2, <3>3, <4>1, <4>2
      <4> QED
        BY <3>3, <4>2, <4>3
    <3> QED
      BY <2>1, <2>2, <2>4, <3>1, <3>2, <3>4
  <2> QED
    BY <2>5, <2>6
<1> QED
  BY <1>1, AlwaysInv, PTL

\* A span is lost to a provider that is not there, and says error exactly when the
\* call returned one (pool.go:62-97, options.go:62-68, 85-103).
THEOREM SpansTell == TelemetrySpec => []SpanTellsTheStatement
<1>1. IInv => SpanTellsTheStatement
  BY DEF IInv, CallInv, SpanInv, SpanTellsTheStatement
<1> QED
  BY <1>1, AlwaysInv, PTL

----------------------------------------------------------------------------
(* Induction: the provers have none, but that a set of numbers has a least. *)

\* The least of a set of naturals is in it.
LEMMA MinIn ==
  ASSUME NEW I, I \subseteq Nat, I # {}
  PROVE  Min(I) \in I /\ \A y \in I : Min(I) <= y
<1>1. IsWellFoundedOn(OpToRel(<,Nat), Nat)
  BY NatLessThanWellFounded
<1>2. PICK m \in I : \A y \in I : ~ (<<y, m>> \in OpToRel(<,Nat))
  BY <1>1, WFMin
<1>3. \A y \in I : ~ (y < m)
  BY <1>2 DEF OpToRel
<1>4. \A y \in I : m <= y
  BY <1>3
<1> QED
  BY <1>4, Zenon DEF Min

\* A number outside a set that has 0 and all successors would have a least, which
\* is neither 0 nor a successor.
LEMMA SetInduction ==
  ASSUME NEW I, 0 \in I, \A n \in Nat : n \in I => n + 1 \in I
  PROVE  Nat \subseteq I
<1>1. PICK J : J = Nat \ I
  OBVIOUS
<1> SUFFICES ASSUME J # {} PROVE FALSE
  BY <1>1
<1>2. PICK m : m \in J /\ \A y \in J : m <= y
  BY <1>1, MinIn
<1>3. m \in Nat /\ m # 0
  BY <1>1, <1>2
<1>4. m - 1 \in Nat /\ m - 1 \notin J
  BY <1>2, <1>3
<1>5. (m - 1) + 1 \in I
  BY <1>1, <1>4
<1>6. (m - 1) + 1 = m
  BY <1>3
<1> QED
  BY <1>1, <1>2, <1>5, <1>6

----------------------------------------------------------------------------
(* FlattenSeq, which is recursive: its function exists, and is unique. *)

\* f holds the sequences of t put together, up to each of the first n.
Flattens(f, t, n) ==
  f = [i \in 1 .. n |-> IF i = 1 THEN t[i] ELSE f[i - 1] \o t[i]]

\* Such an f, at one of them.
LEMMA FlattensAt ==
  ASSUME NEW f, NEW t, NEW n, Flattens(f, t, n), NEW i \in 1 .. n
  PROVE  f[i] = IF i = 1 THEN t[i] ELSE f[i - 1] \o t[i]
<1>1. PICK g : g = [j \in 1 .. n |-> IF j = 1 THEN t[j] ELSE f[j - 1] \o t[j]]
  OBVIOUS
<1>2. f = g
  BY <1>1, Zenon DEF Flattens
<1>3. g[i] = IF i = 1 THEN t[i] ELSE f[i - 1] \o t[i]
  BY ONLY <1>1, i \in 1 .. n
<1> QED
  BY <1>2, <1>3, Zenon

\* There is such an f.
LEMMA FlattensExists ==
  ASSUME NEW S, NEW t \in Seq(Seq(S)), NEW n \in 0 .. Len(t)
  PROVE  \E f : Flattens(f, t, n) /\ \A i \in 1 .. n : f[i] \in Seq(S)
<1> DEFINE Has(m) == \E f : Flattens(f, t, m) /\ \A i \in 1 .. m : f[i] \in Seq(S)
<1>1. PICK I : I = {m \in Nat : m <= Len(t) => Has(m)}
  OBVIOUS
<1>2. 0 \in I
  <2>1. PICK f : f = [i \in 1 .. 0 |-> << >>]
    OBVIOUS
  <2>2. Flattens(f, t, 0)
    BY <2>1 DEF Flattens
  <2>3. \A i \in 1 .. 0 : f[i] \in Seq(S)
    OBVIOUS
  <2>4. Has(0)
    BY <2>2, <2>3
  <2> QED
    BY <1>1, <2>4
<1>3. ASSUME NEW m \in Nat, m \in I, m + 1 <= Len(t) PROVE Has(m + 1)
  <2>0. Len(t) \in Nat
    OBVIOUS
  <2>1. PICK f : Flattens(f, t, m) /\ \A i \in 1 .. m : f[i] \in Seq(S)
    BY <1>1, <1>3, <2>0
  <2>2. PICK x : x = IF m = 0 THEN t[1] ELSE f[m] \o t[m + 1]
    OBVIOUS
  <2>3. x \in Seq(S)
    <3>1. t[m + 1] \in Seq(S)
      BY <1>3, <2>0
    <3>2. CASE m = 0
      BY <2>2, <3>1, <3>2
    <3>3. CASE m # 0
      <4>1. f[m] \in Seq(S)
        BY <2>1, <3>3
      <4> QED
        BY <2>2, <3>1, <3>3, <4>1, ConcatProperties
    <3> QED
      BY <3>2, <3>3
  <2>4. PICK g : g = [i \in 1 .. m + 1 |-> IF i = m + 1 THEN x ELSE f[i]]
    OBVIOUS
  <2>5. \A i \in 1 .. m : g[i] = f[i]
    BY <2>4
  <2>6. g[m + 1] = x
    BY <2>4
  <2>7. ASSUME NEW i \in 1 .. m + 1
        PROVE  g[i] = IF i = 1 THEN t[i] ELSE g[i - 1] \o t[i]
    <3>1. CASE i = m + 1
      BY <2>2, <2>5, <2>6, <3>1
    <3>2. CASE i # m + 1
      <4>1. f[i] = IF i = 1 THEN t[i] ELSE f[i - 1] \o t[i]
        <5>1. i \in 1 .. m
          BY <3>2
        <5> QED
          BY <2>1, <5>1, FlattensAt
      <4> QED
        BY <2>5, <3>2, <4>1
    <3> QED
      BY <3>1, <3>2
  <2>8. Flattens(g, t, m + 1)
    <3>1. g = [i \in 1 .. m + 1 |-> g[i]]
      BY <2>4
    <3> QED
      BY <2>7, <3>1 DEF Flattens
  <2>9. \A i \in 1 .. m + 1 : g[i] \in Seq(S)
    <3> SUFFICES ASSUME NEW i \in 1 .. m + 1 PROVE g[i] \in Seq(S)
      OBVIOUS
    <3>1. CASE i = m + 1
      BY <2>3, <2>6, <3>1
    <3>2. CASE i # m + 1
      <4>1. i \in 1 .. m
        BY <3>2
      <4> QED
        BY <2>1, <2>5, <4>1
    <3> QED
      BY <3>1, <3>2
  <2> QED
    BY <2>8, <2>9
<1>4. \A m \in Nat : m \in I => m + 1 \in I
  <2> SUFFICES ASSUME NEW m \in Nat, m \in I PROVE m + 1 \in I
    OBVIOUS
  <2>1. m + 1 <= Len(t) => Has(m + 1)
    BY <1>3
  <2> QED
    BY <1>1, <2>1
<1> HIDE DEF Has
<1>5. n \in I
  <2>1. n \in Nat
    OBVIOUS
  <2>2. Nat \subseteq I
    BY <1>2, <1>4, SetInduction
  <2> QED
    BY <2>1, <2>2
<1>6. Has(n)
  BY <1>1, <1>5
<1> QED
  BY <1>6 DEF Has

Agree(s, t, n) == \A i \in 1 .. n : s[i] = t[i]

\* And two agree as far as their sequences do.
LEMMA FlattensAgree ==
  ASSUME NEW k \in Nat, NEW n \in Nat, k <= n, NEW f, NEW s, Flattens(f, s, k),
         NEW g, NEW t, Flattens(g, t, n), Agree(s, t, k)
  PROVE  Agree(f, g, k)
<1>1. PICK I : I = {j \in Nat : j \in 1 .. k => f[j] = g[j]}
  OBVIOUS
<1>2. 0 \in I
  BY <1>1
<1>3. \A j \in Nat : j \in I => j + 1 \in I
  <2> SUFFICES ASSUME NEW j \in Nat, j \in I, j + 1 \in 1 .. k PROVE f[j + 1] = g[j + 1]
    BY <1>1
  <2>0. j + 1 \in 1 .. k /\ j + 1 \in 1 .. n
    OBVIOUS
  <2>1. f[j + 1] = IF j + 1 = 1 THEN s[j + 1] ELSE f[(j + 1) - 1] \o s[j + 1]
    BY <2>0, FlattensAt
  <2>2. g[j + 1] = IF j + 1 = 1 THEN t[j + 1] ELSE g[(j + 1) - 1] \o t[j + 1]
    BY <2>0, FlattensAt
  <2>3. s[j + 1] = t[j + 1]
    BY DEF Agree
  <2>4. CASE j = 0
    BY <2>1, <2>2, <2>3, <2>4
  <2>5. CASE j # 0
    <3>1. f[j] = g[j]
      BY <1>1, <2>5
    <3>2. (j + 1) - 1 = j /\ j + 1 # 1
      BY <2>5
    <3> QED
      BY <2>1, <2>2, <2>3, <3>1, <3>2
  <2> QED
    BY <2>4, <2>5
<1>4. Nat \subseteq I
  BY <1>2, <1>3, SetInduction
<1> QED
  BY <1>1, <1>4 DEF Agree

\* FlattenSeq of nothing, and of one more sequence.
LEMMA FlattenIs ==
  ASSUME NEW S, NEW t \in Seq(Seq(S)), t # << >>, NEW f, Flattens(f, t, Len(t))
  PROVE  FlattenSeq(t) = f[Len(t)]
<1>1. Len(t) \in Nat /\ Len(t) # 0
  BY EmptySeq
<1>2. PICK g : g = CHOOSE h : h = [i \in 1 .. Len(t) |->
                                    IF i = 1 THEN t[i] ELSE h[i - 1] \o t[i]]
  OBVIOUS
<1>3. Flattens(g, t, Len(t))
  BY <1>2 DEF Flattens
<1>4. FlattenSeq(t) = g[Len(t)]
  BY <1>1, <1>2 DEF FlattenSeq
<1>5. f[Len(t)] = g[Len(t)]
  <2>1. PICK n \in Nat : n = Len(t) /\ n <= n /\ n \in 1 .. n
    BY <1>1
  <2>2. Flattens(f, t, n) /\ Flattens(g, t, n)
    BY <1>3, <2>1
  <2>3. \A i \in 1 .. n : f[i] = g[i]
    <3>1. n \in Nat /\ n <= n /\ Agree(t, t, n)
      BY <2>1 DEF Agree
    <3>2. Agree(f, g, n)
      BY <2>2, <3>1, FlattensAgree
    <3> QED
      BY <3>2 DEF Agree
  <2> QED
    BY <2>1, <2>3
<1> QED
  BY <1>4, <1>5

\* FlattenSeq of nothing is nothing.
LEMMA FlattenNone == FlattenSeq(<< >>) = << >>
BY DEF FlattenSeq

\* What is put together of sequences over S is one.
LEMMA FlattenType ==
  ASSUME NEW S, NEW t \in Seq(Seq(S)) PROVE FlattenSeq(t) \in Seq(S)
<1>0. Len(t) \in Nat
  OBVIOUS
<1>1. CASE t = << >>
  BY <1>1, FlattenNone, EmptySeq
<1>2. CASE t # << >>
  <2>1. PICK f : Flattens(f, t, Len(t)) /\ \A i \in 1 .. Len(t) : f[i] \in Seq(S)
    <3>1. Len(t) \in 0 .. Len(t)
      BY <1>0
    <3> QED
      BY <3>1, FlattensExists
  <2>2. Len(t) \in 1 .. Len(t)
    BY <1>0, <1>2, EmptySeq
  <2> QED
    BY <1>2, <2>1, <2>2, FlattenIs
<1> QED
  BY <1>1, <1>2

\* One more sequence comes behind the others.
LEMMA FlattenAppend ==
  ASSUME NEW S, NEW t \in Seq(Seq(S)), NEW x \in Seq(S)
  PROVE  FlattenSeq(Append(t, x)) = FlattenSeq(t) \o x
<1>0. Len(t) \in Nat
  OBVIOUS
<1>1. PICK u : u = Append(t, x)
  OBVIOUS
<1>2. /\ u \in Seq(Seq(S)) /\ u # << >> /\ Len(u) = Len(t) + 1
      /\ \A i \in 1 .. Len(t) : u[i] = t[i]
      /\ u[Len(t) + 1] = x
  BY <1>1, AppendProperties
<1>3. PICK g : Flattens(g, u, Len(u))
  <2>1. Len(u) \in 0 .. Len(u)
    BY <1>0, <1>2
  <2> QED
    BY <1>2, <2>1, FlattensExists
<1>4. FlattenSeq(u) = g[Len(u)]
  BY <1>2, <1>3, FlattenIs
<1>5. g[Len(u)] = IF Len(u) = 1 THEN u[Len(u)] ELSE g[Len(u) - 1] \o u[Len(u)]
  <2>1. Len(u) \in 1 .. Len(u)
    BY <1>0, <1>2
  <2>2. PICK n : n = Len(u) /\ n \in 1 .. n
    BY <2>1
  <2>3. Flattens(g, u, n)
    BY <1>3, <2>2
  <2> QED
    BY <2>2, <2>3, FlattensAt
<1>6. CASE t = << >>
  <2>1. FlattenSeq(u) = x
    BY <1>2, <1>4, <1>5, <1>6
  <2>2. << >> \o x = x
    BY ConcatEmptySeq
  <2> QED
    BY <1>1, <1>6, <2>1, <2>2, FlattenNone
<1>7. CASE t # << >>
  <2>1. Len(t) # 0
    BY <1>7, EmptySeq
  <2>2. PICK f : Flattens(f, t, Len(t))
    <3>1. Len(t) \in 0 .. Len(t)
      BY <1>0
    <3> QED
      BY <3>1, FlattensExists
  <2>3. FlattenSeq(t) = f[Len(t)]
    BY <1>7, <2>2, FlattenIs
  <2>4. f[Len(t)] = g[Len(t)]
    <3>0. PICK n \in Nat, m \in Nat : n = Len(t) /\ m = Len(u) /\ n <= m /\ n <= n
      BY <1>0, <1>2
    <3>1. \A i \in 1 .. n : f[i] = g[i]
      <4>1. Flattens(f, t, n) /\ Flattens(g, u, m) /\ Agree(t, u, n)
        BY <1>2, <1>3, <2>2, <3>0 DEF Agree
      <4>2. n \in Nat /\ m \in Nat /\ n <= m
        BY <3>0
      <4>3. Agree(f, g, n)
        BY <4>1, <4>2, FlattensAgree
      <4> QED
        BY <4>1, <4>2, <4>3 DEF Agree
    <3> QED
      BY <2>1, <3>0, <3>1
  <2>5. Len(u) - 1 = Len(t) /\ Len(u) # 1
    BY <1>0, <1>2, <2>1
  <2> QED
    BY <1>1, <1>2, <1>4, <1>5, <2>3, <2>4, <2>5
<1> QED
  BY <1>6, <1>7

----------------------------------------------------------------------------
(* Unescape, likewise. *)

Start == [out |-> << >>, code |-> << >>]

\* f holds what has been read of s, up to each of its first n characters.
Reads(f, s, n) ==
  f = [i \in 0 .. n |-> IF i = 0 THEN Start ELSE Reading(f[i - 1], s[i])]

\* What Unescape has read of s, and the code at hand.
Read(s) == (CHOOSE f : Reads(f, s, Len(s)))[Len(s)]

\* Unescape returns what has been read at the end.
LEMMA UnescapeReads == ASSUME NEW s PROVE Unescape(s) = Read(s).out
BY DEF Unescape, Read, Reads, Start

\* Such an f, after one of the characters.
LEMMA ReadsAt ==
  ASSUME NEW f, NEW s, NEW n, Reads(f, s, n), NEW i \in 0 .. n
  PROVE  f[i] = IF i = 0 THEN Start ELSE Reading(f[i - 1], s[i])
<1>1. PICK g : g = [j \in 0 .. n |-> IF j = 0 THEN Start ELSE Reading(f[j - 1], s[j])]
  OBVIOUS
<1>2. f = g
  BY <1>1, Zenon DEF Reads
<1>3. g[i] = IF i = 0 THEN Start ELSE Reading(f[i - 1], s[i])
  BY ONLY <1>1, i \in 0 .. n
<1> QED
  BY <1>2, <1>3, Zenon

\* There is such an f.
LEMMA ReadsExists == ASSUME NEW s, NEW n \in Nat PROVE \E f : Reads(f, s, n)
<1> DEFINE Has(m) == \E f : Reads(f, s, m)
<1>1. PICK I : I = {m \in Nat : Has(m)}
  OBVIOUS
<1>2. 0 \in I
  <2>1. PICK f : f = [i \in 0 .. 0 |-> Start]
    OBVIOUS
  <2>2. f = [i \in 0 .. 0 |-> IF i = 0 THEN Start ELSE Reading(f[i - 1], s[i])]
    BY <2>1
  <2>3. Has(0)
    BY <2>2 DEF Reads
  <2> QED
    BY <1>1, <2>3
<1>3. ASSUME NEW m \in Nat, m \in I PROVE Has(m + 1)
  <2>1. PICK f : Reads(f, s, m)
    BY <1>1, <1>3
  <2>2. PICK x : x = Reading(f[m], s[m + 1])
    OBVIOUS
  <2>3. PICK g : g = [i \in 0 .. m + 1 |-> IF i = m + 1 THEN x ELSE f[i]]
    OBVIOUS
  <2>4. \A i \in 0 .. m : g[i] = f[i]
    BY <2>3
  <2>5. g[m + 1] = x
    BY <2>3
  <2>6. ASSUME NEW i \in 0 .. m + 1
        PROVE  g[i] = IF i = 0 THEN Start ELSE Reading(g[i - 1], s[i])
    <3>1. CASE i = m + 1
      BY <2>2, <2>4, <2>5, <3>1
    <3>2. CASE i # m + 1
      <4>1. i \in 0 .. m
        BY <3>2
      <4>2. f[i] = IF i = 0 THEN Start ELSE Reading(f[i - 1], s[i])
        BY <2>1, <4>1, ReadsAt
      <4> QED
        BY <2>4, <4>1, <4>2
    <3> QED
      BY <3>1, <3>2
  <2>7. Reads(g, s, m + 1)
    <3>1. g = [i \in 0 .. m + 1 |-> g[i]]
      BY <2>3
    <3> QED
      BY <2>6, <3>1 DEF Reads
  <2> QED
    BY <2>7
<1>4. \A m \in Nat : m \in I => m + 1 \in I
  BY <1>1, <1>3
<1> HIDE DEF Has
<1>5. Nat \subseteq I
  BY <1>2, <1>4, SetInduction
<1>6. Has(n)
  BY <1>1, <1>5
<1> QED
  BY <1>6 DEF Has

\* And two agree as far as what they have read does.
LEMMA ReadsAgree ==
  ASSUME NEW k \in Nat, NEW n \in Nat, k <= n, NEW f, NEW s, Reads(f, s, k),
         NEW g, NEW t, Reads(g, t, n), Agree(s, t, k)
  PROVE  f[k] = g[k]
<1>1. PICK I : I = {j \in Nat : j \in 0 .. k => f[j] = g[j]}
  OBVIOUS
<1>2. 0 \in I
  <2>1. f[0] = Start
    BY ReadsAt, 0 \in 0 .. k
  <2>2. g[0] = Start
    BY ReadsAt, 0 \in 0 .. n
  <2> QED
    BY <1>1, <2>1, <2>2
<1>3. \A j \in Nat : j \in I => j + 1 \in I
  <2> SUFFICES ASSUME NEW j \in Nat, j \in I, j + 1 \in 0 .. k PROVE f[j + 1] = g[j + 1]
    BY <1>1
  <2>0. j + 1 \in 0 .. n /\ j + 1 # 0 /\ (j + 1) - 1 = j
    OBVIOUS
  <2>1. f[j + 1] = Reading(f[j], s[j + 1])
    BY <2>0, ReadsAt
  <2>2. g[j + 1] = Reading(g[j], t[j + 1])
    BY <2>0, ReadsAt
  <2>3. s[j + 1] = t[j + 1]
    BY DEF Agree
  <2>4. f[j] = g[j]
    BY <1>1, <2>0
  <2> QED
    BY <2>1, <2>2, <2>3, <2>4
<1>4. Nat \subseteq I
  BY <1>2, <1>3, SetInduction
<1> QED
  BY <1>1, <1>4

\* Reading begins with nothing, and what is read of one more character.
LEMMA ReadNone == Read(<< >>) = Start
<1>1. PICK s : s = << >> /\ Len(s) = 0
  BY EmptySeq
<1>2. PICK f : f = CHOOSE h : Reads(h, s, 0)
  OBVIOUS
<1>3. Reads(f, s, 0)
  BY <1>2, ReadsExists
<1>4. f[0] = Start
  BY <1>3, ReadsAt
<1> QED
  BY <1>1, <1>2, <1>4 DEF Read

\* One more character takes one more step of Reading.
LEMMA ReadAppend ==
  ASSUME NEW S, NEW s \in Seq(S), NEW c \in S
  PROVE  Read(Append(s, c)) = Reading(Read(s), c)
<1>1. PICK t : t = Append(s, c)
  OBVIOUS
<1>2. PICK n \in Nat : n = Len(s)
  OBVIOUS
<1>3. Len(t) = n + 1 /\ Agree(s, t, n) /\ t[n + 1] = c
  BY <1>1, <1>2, AppendProperties DEF Agree
<1>4. PICK f : f = CHOOSE h : Reads(h, s, n)
  OBVIOUS
<1>5. PICK g : g = CHOOSE h : Reads(h, t, n + 1)
  OBVIOUS
<1>6. Reads(f, s, n)
  BY <1>4, ReadsExists
<1>7. Reads(g, t, n + 1)
  <2>1. \E h : Reads(h, t, n + 1)
    BY n + 1 \in Nat, ReadsExists
  <2> QED
    BY <1>5, <2>1, Zenon
<1>8. g[n + 1] = Reading(g[n], c)
  <2>1. n + 1 \in 0 .. n + 1 /\ n + 1 # 0 /\ (n + 1) - 1 = n
    OBVIOUS
  <2> QED
    BY <1>3, <1>7, <2>1, ReadsAt
<1>9. f[n] = g[n]
  BY <1>3, <1>6, <1>7, ReadsAgree, n + 1 \in Nat, n <= n + 1
<1>10. Read(s) = f[n]
  BY <1>2, <1>4 DEF Read
<1>11. Read(t) = g[n + 1]
  BY <1>3, <1>5 DEF Read
<1> QED
  BY <1>1, <1>8, <1>9, <1>10, <1>11

----------------------------------------------------------------------------
(* The escaping. *)

\* What an escaped value is made of, and what it is on the way.
Safe == Kept \cup {Percent}
Sign == Safe \cup {Plus}

\* What QueryEscape and ReplaceAll make of one character, and both together.
Esc(c) == IF c \in Kept THEN <<c>> ELSE PercentCode(c)
Enc(c) == IF c = Space THEN <<Plus>> ELSE Esc(c)
Unplus(c) == IF c = Plus THEN PercentCode(Space) ELSE <<c>>

\* The signs of the comment, by their numbers.
LEMMA SignsAre ==
  /\ Space = 32 /\ Percent = 37 /\ Quote = 39 /\ Star = 42 /\ Plus = 43 /\ Comma = 44
  /\ Slash = 47 /\ Equals = 61 /\ SQL = 260 /\ FieldName = {256, 257, 258}
  /\ ApplicationName = 256 /\ RouteName = 257 /\ TraceparentName = 258 /\ Identity = 259
BY DEF Space, Percent, Quote, Star, Plus, Comma, Slash, Equals, SQL, FieldName,
       ApplicationName, RouteName, TraceparentName, Identity

\* A character is a byte or a word, and only bytes are escaped.
LEMMA KeptIs ==
  /\ Kept \subseteq Char /\ Char \subseteq 0 .. 259 /\ FieldName \subseteq Kept
  /\ \A c \in Char : c \notin Kept => c \in 0 .. 255
  /\ \A c \in {Space, Percent, Quote, Star, Plus, Comma, Slash, Equals, SQL} : c \notin Kept
BY SignsAre DEF Kept, Char, Byte, Word

\* A digit is kept, and has its value.
LEMMA DigitIs ==
  ASSUME NEW n \in 0 .. 15
  PROVE  Digit(n) \in Kept /\ Digit(n) # Percent /\ Digit(n) # Plus /\ HexValue(Digit(n)) = n
BY SignsAre DEF Digit, HexValue, Kept

\* The two digits of a byte.
LEMMA HalvesAre ==
  ASSUME NEW c \in 0 .. 255
  PROVE  c \div 16 \in 0 .. 15 /\ c % 16 \in 0 .. 15 /\ 16 * (c \div 16) + (c % 16) = c
OBVIOUS

\* A byte that is not kept has a code of a percent sign and two digits, of which
\* the byte is read.
LEMMA CodeIs ==
  ASSUME NEW c \in Char, c \notin Kept
  PROVE  \E x, y \in Kept \ {Percent, Plus} :
           Esc(c) = <<Percent, x, y>> /\ 16 * HexValue(x) + HexValue(y) = c
<1>1. c \in 0 .. 255
  BY KeptIs
<1>2. PICK h \in 0 .. 15, l \in 0 .. 15 : h = c \div 16 /\ l = c % 16 /\ 16 * h + l = c
  BY <1>1, HalvesAre
<1>3. PICK x, y : x = Digit(h) /\ y = Digit(l)
  OBVIOUS
<1>4. /\ x \in Kept \ {Percent, Plus} /\ y \in Kept \ {Percent, Plus}
      /\ HexValue(x) = h /\ HexValue(y) = l
  BY <1>3, DigitIs
<1>5. Esc(c) = <<Percent, x, y>>
  BY <1>2, <1>3 DEF Esc, PercentCode
<1> QED
  BY <1>2, <1>4, <1>5

\* A space has one too, which ReplaceAll writes for the plus.
LEMMA SpaceIs == Space \in Char /\ Esc(Space) = PercentCode(Space)
BY KeptIs, SignsAre DEF Esc, Char, Byte

\* What becomes of a character.
LEMMA EncIs ==
  ASSUME NEW c \in Char
  PROVE  \/ c = Space /\ Enc(c) = <<Plus>> /\ Esc(c) = PercentCode(Space)
         \/ c \notin Kept /\ \E x, y \in Kept \ {Percent, Plus} :
              /\ 16 * HexValue(x) + HexValue(y) = c
              /\ Enc(c) = <<Percent, x, y>> /\ Esc(c) = <<Percent, x, y>>
         \/ c \in Kept /\ Enc(c) = <<c>> /\ Esc(c) = <<c>>
<1>1. CASE c = Space
  BY <1>1, SpaceIs DEF Enc
<1>2. CASE c # Space /\ c \notin Kept
  <2>1. Enc(c) = Esc(c)
    BY <1>2 DEF Enc
  <2> QED
    BY <1>2, <2>1, CodeIs
<1>3. CASE c # Space /\ c \in Kept
  BY <1>3 DEF Enc, Esc
<1> QED
  BY <1>1, <1>2, <1>3

\* The two passes, over a sequence.
EncAll(v) == [i \in DOMAIN v |-> Enc(v[i])]
UnplusAll(q) == [i \in DOMAIN q |-> Unplus(q[i])]

\* ReplaceAll goes over what QueryEscape has made.
LEMMA EscapedIs ==
  ASSUME NEW v PROVE escaped(v) = FlattenSeq(UnplusAll(FlattenSeq(EncAll(v))))
BY DEF escaped, QueryEscape, EncAll, UnplusAll, Enc, Esc, Unplus

\* QueryEscape leaves neither quote nor star.
LEMMA EncType == ASSUME NEW c \in Char PROVE Enc(c) \in Seq(Sign)
<1>1. CASE Enc(c) = <<Plus>>
  BY <1>1 DEF Sign
<1>2. CASE \E x, y \in Kept \ {Percent, Plus} : Enc(c) = <<Percent, x, y>>
  <2>1. PICK x, y \in Kept \ {Percent, Plus} : Enc(c) = <<Percent, x, y>>
    BY <1>2
  <2>2. Percent \in Sign /\ x \in Sign /\ y \in Sign
    BY DEF Sign, Safe
  <2> QED
    BY <2>1, <2>2
<1>3. CASE c \in Kept /\ Enc(c) = <<c>>
  BY <1>3 DEF Sign, Safe
<1> QED
  BY <1>1, <1>2, <1>3, EncIs

\* Nor does ReplaceAll leave a plus.
LEMMA UnplusType == ASSUME NEW c \in Sign PROVE Unplus(c) \in Seq(Safe)
<1>1. CASE c = Plus
  <2>1. PICK x, y \in Kept \ {Percent, Plus} : Esc(Space) = <<Percent, x, y>>
    BY SpaceIs, CodeIs, KeptIs
  <2>2. Percent \in Safe /\ x \in Safe /\ y \in Safe
    BY DEF Safe
  <2>3. Unplus(c) = <<Percent, x, y>>
    BY <1>1, <2>1, SpaceIs DEF Unplus
  <2> QED
    BY <2>2, <2>3
<1>2. CASE c # Plus
  <2>1. c \in Safe
    BY <1>2 DEF Sign
  <2> QED
    BY <1>2, <2>1 DEF Unplus
<1> QED
  BY <1>1, <1>2

Each(F, v) == [i \in DOMAIN v |-> F[v[i]]]

Maps(F, D, R) == \A x \in D : F[x] \in R

\* What a function makes of each element of a sequence, and of one more.
LEMMA EachAppend ==
  ASSUME NEW D, NEW R, NEW F, Maps(F, D, R), NEW v \in Seq(D), NEW c \in D
  PROVE  Each(F, v) \in Seq(R) /\ Each(F, Append(v, c)) = Append(Each(F, v), F[c])
<1>1. PICK n \in Nat : n = Len(v)
  OBVIOUS
<1>2. PICK w : w = Append(v, c)
  OBVIOUS
<1>3. /\ w \in Seq(D) /\ Len(w) = n + 1 /\ w[n + 1] = c
      /\ \A i \in 1 .. n : w[i] = v[i]
  BY <1>1, <1>2, AppendProperties
<1>4. ASSUME NEW u \in Seq(D), NEW m \in Nat, m = Len(u)
      PROVE  /\ Each(F, u) \in Seq(R) /\ Len(Each(F, u)) = m
             /\ \A i \in 1 .. m : Each(F, u)[i] = F[u[i]]
  <2>1. DOMAIN u = 1 .. m /\ \A i \in 1 .. m : u[i] \in D
    BY <1>4, LenProperties
  <2>2. Each(F, u) = [i \in 1 .. m |-> F[u[i]]]
    BY <2>1 DEF Each
  <2>3. \A i \in 1 .. m : F[u[i]] \in R
    BY <2>1 DEF Maps
  <2> QED
    BY <2>2, <2>3
<1>5. PICK a, b, d : a = Each(F, v) /\ b = Each(F, w) /\ d = Append(a, F[c])
  OBVIOUS
<1>6. a \in Seq(R) /\ Len(a) = n /\ \A i \in 1 .. n : a[i] = F[v[i]]
  BY <1>1, <1>4, <1>5
<1>7. b \in Seq(R) /\ Len(b) = n + 1 /\ \A i \in 1 .. n + 1 : b[i] = F[w[i]]
  BY <1>3, <1>4, <1>5, n + 1 \in Nat
<1>8. /\ d \in Seq(R) /\ Len(d) = n + 1 /\ d[n + 1] = F[c]
      /\ \A i \in 1 .. n : d[i] = a[i]
  <2>1. F[c] \in R
    BY DEF Maps
  <2> QED
    BY <1>5, <1>6, <2>1, AppendProperties
<1>9. ASSUME NEW i \in 1 .. n + 1 PROVE b[i] = d[i]
  <2>1. CASE i = n + 1
    BY <1>3, <1>7, <1>8, <2>1
  <2>2. CASE i # n + 1
    <3>1. i \in 1 .. n
      BY <2>2
    <3>2. b[i] = F[v[i]]
      BY <1>3, <1>7, <3>1
    <3> QED
      BY <1>6, <1>8, <3>1, <3>2
  <2> QED
    BY <2>1, <2>2
<1>10. b = d
  BY <1>7, <1>8, <1>9, SeqEqual
<1> QED
  BY <1>2, <1>5, <1>6, <1>10

\* The first pass, over one more character.
LEMMA EncAllAppend ==
  ASSUME NEW v \in Seq(Char), NEW c \in Char
  PROVE  EncAll(v) \in Seq(Seq(Sign)) /\ EncAll(Append(v, c)) = Append(EncAll(v), Enc(c))
<1>1. PICK F : F = [x \in Char |-> Enc(x)]
  OBVIOUS
<1>2. Maps(F, Char, Seq(Sign)) /\ F[c] = Enc(c)
  BY <1>1, EncType DEF Maps
<1>3. ASSUME NEW u \in Seq(Char) PROVE EncAll(u) = Each(F, u)
  <2>1. \A i \in DOMAIN u : u[i] \in Char
    BY LenProperties
  <2> QED
    BY <1>1, <2>1 DEF EncAll, Each
<1>4. Append(v, c) \in Seq(Char)
  BY AppendProperties
<1>5. Each(F, v) \in Seq(Seq(Sign)) /\ Each(F, Append(v, c)) = Append(Each(F, v), F[c])
  BY <1>2, EachAppend
<1> QED
  BY <1>2, <1>3, <1>4, <1>5

\* The second pass, over one more character.
LEMMA UnplusAllAppend ==
  ASSUME NEW q \in Seq(Sign), NEW c \in Sign
  PROVE  /\ UnplusAll(q) \in Seq(Seq(Safe))
         /\ UnplusAll(Append(q, c)) = Append(UnplusAll(q), Unplus(c))
<1>1. PICK F : F = [x \in Sign |-> Unplus(x)]
  OBVIOUS
<1>2. Maps(F, Sign, Seq(Safe)) /\ F[c] = Unplus(c)
  BY <1>1, UnplusType DEF Maps
<1>3. ASSUME NEW u \in Seq(Sign) PROVE UnplusAll(u) = Each(F, u)
  <2>1. \A i \in DOMAIN u : u[i] \in Sign
    BY LenProperties
  <2> QED
    BY <1>1, <2>1 DEF UnplusAll, Each
<1>4. Append(q, c) \in Seq(Sign)
  BY AppendProperties
<1>5. Each(F, q) \in Seq(Seq(Safe)) /\ Each(F, Append(q, c)) = Append(Each(F, q), F[c])
  BY <1>2, EachAppend
<1> QED
  BY <1>2, <1>3, <1>4, <1>5

Unplused(q) == FlattenSeq(UnplusAll(q))

\* QueryEscape is the first pass.
LEMMA QueryEscapeIs == ASSUME NEW v PROVE QueryEscape(v) = FlattenSeq(EncAll(v))
BY DEF QueryEscape, EncAll, Enc, Esc

\* It takes the characters one by one.
LEMMA QueryEscapeAppend ==
  ASSUME NEW v \in Seq(Char), NEW c \in Char
  PROVE  /\ QueryEscape(v) \in Seq(Sign)
         /\ QueryEscape(Append(v, c)) = QueryEscape(v) \o Enc(c)
<1>1. EncAll(v) \in Seq(Seq(Sign)) /\ EncAll(Append(v, c)) = Append(EncAll(v), Enc(c))
  BY EncAllAppend
<1>2. Enc(c) \in Seq(Sign)
  BY EncType
<1>3. FlattenSeq(Append(EncAll(v), Enc(c))) = FlattenSeq(EncAll(v)) \o Enc(c)
  BY <1>1, <1>2, FlattenAppend
<1>4. FlattenSeq(EncAll(v)) \in Seq(Sign)
  BY <1>1, FlattenType
<1> QED
  BY <1>1, <1>3, <1>4, QueryEscapeIs

\* So does ReplaceAll.
LEMMA UnplusedAppend ==
  ASSUME NEW q \in Seq(Sign), NEW c \in Sign
  PROVE  Unplused(q) \in Seq(Safe) /\ Unplused(Append(q, c)) = Unplused(q) \o Unplus(c)
<1>1. UnplusAll(q) \in Seq(Seq(Safe)) /\ UnplusAll(Append(q, c)) = Append(UnplusAll(q), Unplus(c))
  BY UnplusAllAppend
<1>2. Unplus(c) \in Seq(Safe)
  BY UnplusType
<1>3. FlattenSeq(Append(UnplusAll(q), Unplus(c))) = FlattenSeq(UnplusAll(q)) \o Unplus(c)
  BY <1>1, <1>2, FlattenAppend
<1>4. FlattenSeq(UnplusAll(q)) \in Seq(Safe)
  BY <1>1, FlattenType
<1> QED
  BY <1>1, <1>3, <1>4 DEF Unplused

\* Three characters put behind a sequence, one by one.
LEMMA AppendThree ==
  ASSUME NEW S, NEW s \in Seq(S), NEW x \in S, NEW y \in S, NEW z \in S
  PROVE  s \o <<x, y, z>> = Append(Append(Append(s, x), y), z)
<1>1. PICK n \in Nat : n = Len(s)
  OBVIOUS
<1>2. PICK t \in Seq(S) : t = <<x, y, z>> /\ Len(t) = 3 /\ t[1] = x /\ t[2] = y /\ t[3] = z
  <2>1. <<x, y, z>> \in Seq(S)
    OBVIOUS
  <2> QED
    BY <2>1
<1>3. PICK a \in Seq(S) : /\ a = Append(s, x) /\ Len(a) = n + 1 /\ a[n + 1] = x
                          /\ \A i \in 1 .. n : a[i] = s[i]
  <2>1. /\ Append(s, x) \in Seq(S) /\ Len(Append(s, x)) = Len(s) + 1
        /\ \A i \in 1 .. Len(s) : Append(s, x)[i] = s[i]
        /\ Append(s, x)[Len(s) + 1] = x
    BY AppendProperties
  <2> QED
    BY <1>1, <2>1
<1>4. PICK b \in Seq(S) : /\ b = Append(a, y) /\ Len(b) = n + 2 /\ b[n + 2] = y
                          /\ \A i \in 1 .. n + 1 : b[i] = a[i]
  <2>1. /\ Append(a, y) \in Seq(S) /\ Len(Append(a, y)) = Len(a) + 1
        /\ \A i \in 1 .. Len(a) : Append(a, y)[i] = a[i]
        /\ Append(a, y)[Len(a) + 1] = y
    BY AppendProperties
  <2>2. (n + 1) + 1 = n + 2
    OBVIOUS
  <2> QED
    BY <1>3, <2>1, <2>2
<1>5. PICK d \in Seq(S) : /\ d = Append(b, z) /\ Len(d) = n + 3 /\ d[n + 3] = z
                          /\ \A i \in 1 .. n + 2 : d[i] = b[i]
  <2>1. /\ Append(b, z) \in Seq(S) /\ Len(Append(b, z)) = Len(b) + 1
        /\ \A i \in 1 .. Len(b) : Append(b, z)[i] = b[i]
        /\ Append(b, z)[Len(b) + 1] = z
    BY AppendProperties
  <2>2. (n + 2) + 1 = n + 3
    OBVIOUS
  <2> QED
    BY <1>4, <2>1, <2>2
<1>6. PICK e \in Seq(S) : /\ e = s \o t /\ Len(e) = n + 3
                          /\ \A i \in 1 .. n + 3 : e[i] = IF i <= n THEN s[i] ELSE t[i - n]
  <2>1. /\ s \o t \in Seq(S) /\ Len(s \o t) = Len(s) + Len(t)
        /\ \A i \in 1 .. Len(s) + Len(t) :
             (s \o t)[i] = IF i <= Len(s) THEN s[i] ELSE t[i - Len(s)]
    BY <1>2, ConcatProperties
  <2> QED
    BY <1>1, <1>2, <2>1
<1>7. \A i \in 1 .. n + 3 : e[i] = d[i]
  <2> SUFFICES ASSUME NEW i \in 1 .. n + 3 PROVE e[i] = d[i]
    OBVIOUS
  <2>1. CASE i \in 1 .. n
    BY <1>3, <1>4, <1>5, <1>6, <2>1
  <2>2. CASE i = n + 1
    <3>1. e[i] = t[1]
      BY <1>6, <2>2
    <3>2. d[i] = b[i] /\ b[i] = a[i] /\ a[i] = x
      BY <1>3, <1>4, <1>5, <2>2
    <3> QED
      BY <1>2, <3>1, <3>2
  <2>3. CASE i = n + 2
    <3>1. e[i] = t[2]
      BY <1>6, <2>3
    <3>2. d[i] = b[i] /\ b[i] = y
      BY <1>4, <1>5, <2>3
    <3> QED
      BY <1>2, <3>1, <3>2
  <2>4. CASE i = n + 3
    <3>1. e[i] = t[i - n] /\ i - n = 3
      BY <1>6, <2>4
    <3>2. d[i] = z
      BY <1>5, <2>4
    <3> QED
      BY <1>2, <3>1, <3>2
  <2> QED
    BY <2>1, <2>2, <2>3, <2>4
<1>8. e = d
  BY <1>5, <1>6, <1>7, SeqEqual
<1> QED
  BY <1>2, <1>3, <1>4, <1>5, <1>6, <1>8

\* What ReplaceAll makes of what QueryEscape made of one character.
LEMMA UnplusOf ==
  ASSUME NEW q \in Seq(Sign), NEW c \in Char
  PROVE  Unplused(q \o Enc(c)) = Unplused(q) \o Esc(c)
<1>0. Unplused(q) \in Seq(Safe)
  <2>1. Plus \in Sign
    BY DEF Sign
  <2> QED
    BY <2>1, UnplusedAppend
<1>1. CASE Enc(c) = <<Plus>> /\ Esc(c) = PercentCode(Space)
  <2>1. Plus \in Sign
    BY DEF Sign
  <2>2. q \o Enc(c) = Append(q, Plus)
    BY <1>1, <2>1, AppendIsConcat
  <2>3. Unplus(Plus) = Esc(c)
    BY <1>1 DEF Unplus
  <2> QED
    BY <2>1, <2>2, <2>3, UnplusedAppend
<1>2. CASE \E x, y \in Kept \ {Percent, Plus} :
             Enc(c) = <<Percent, x, y>> /\ Esc(c) = <<Percent, x, y>>
  <2>1. PICK x, y \in Kept \ {Percent, Plus} :
          Enc(c) = <<Percent, x, y>> /\ Esc(c) = <<Percent, x, y>>
    BY <1>2
  <2>2. /\ Percent \in Safe /\ x \in Safe /\ y \in Safe
        /\ Percent # Plus /\ x # Plus /\ y # Plus
    BY SignsAre DEF Safe
  <2>3. Percent \in Sign /\ x \in Sign /\ y \in Sign
    BY <2>2 DEF Sign
  <2>4. PICK a \in Seq(Sign) : a = Append(q, Percent)
    BY <2>3, AppendProperties
  <2>5. PICK b \in Seq(Sign) : b = Append(a, x)
    BY <2>3, AppendProperties
  <2>6. q \o Enc(c) = Append(b, y)
    BY <2>1, <2>3, <2>4, <2>5, AppendThree
  <2>7. Unplus(Percent) = <<Percent>> /\ Unplus(x) = <<x>> /\ Unplus(y) = <<y>>
    BY <2>2 DEF Unplus
  <2>8. PICK u \in Seq(Safe) : u = Unplused(q)
    BY <1>0
  <2>9. Unplused(a) = Append(u, Percent)
    <3>1. Unplused(a) = u \o <<Percent>>
      BY <2>3, <2>4, <2>7, <2>8, UnplusedAppend
    <3> QED
      BY <2>2, <3>1, AppendIsConcat
  <2>10. Unplused(b) = Append(Append(u, Percent), x)
    <3>1. Append(u, Percent) \in Seq(Safe)
      BY <2>2, AppendProperties
    <3>2. Unplused(b) = Append(u, Percent) \o <<x>>
      BY <2>3, <2>5, <2>7, <2>9, UnplusedAppend
    <3> QED
      BY <2>2, <3>1, <3>2, AppendIsConcat
  <2>11. Unplused(Append(b, y)) = Append(Append(Append(u, Percent), x), y)
    <3>1. Append(Append(u, Percent), x) \in Seq(Safe)
      BY <2>2, AppendProperties
    <3>2. Unplused(Append(b, y)) = Append(Append(u, Percent), x) \o <<y>>
      BY <2>3, <2>7, <2>10, UnplusedAppend
    <3> QED
      BY <2>2, <3>1, <3>2, AppendIsConcat
  <2>12. u \o Esc(c) = Append(Append(Append(u, Percent), x), y)
    BY <2>1, <2>2, AppendThree
  <2> QED
    BY <2>6, <2>8, <2>11, <2>12
<1>3. CASE c \in Kept /\ Enc(c) = <<c>> /\ Esc(c) = <<c>>
  <2>1. c # Plus /\ c \in Sign
    BY <1>3, KeptIs DEF Sign, Safe
  <2>2. q \o Enc(c) = Append(q, c)
    BY <1>3, <2>1, AppendIsConcat
  <2>3. Unplus(c) = Esc(c)
    BY <1>3, <2>1 DEF Unplus
  <2> QED
    BY <2>1, <2>2, <2>3, UnplusedAppend
<1> QED
  BY <1>1, <1>2, <1>3, EncIs

\* escaped takes the characters of a value one by one.
LEMMA EscapedAppend ==
  ASSUME NEW v \in Seq(Char), NEW c \in Char
  PROVE  /\ escaped(v) \in Seq(Safe)
         /\ escaped(Append(v, c)) = escaped(v) \o Esc(c)
<1>1. \A u : escaped(u) = Unplused(QueryEscape(u))
  BY EscapedIs, QueryEscapeIs DEF Unplused
<1>2. /\ QueryEscape(v) \in Seq(Sign)
      /\ QueryEscape(Append(v, c)) = QueryEscape(v) \o Enc(c)
  BY QueryEscapeAppend
<1>3. Plus \in Sign
  BY DEF Sign
<1>4. Unplused(QueryEscape(v)) \in Seq(Safe)
  BY <1>2, <1>3, UnplusedAppend
<1> QED
  BY <1>1, <1>2, <1>4, UnplusOf

----------------------------------------------------------------------------
(* An escaped value is safe, and reads as it was. *)

\* What has been read, with no code at hand.
Plain(o) == [out |-> o, code |-> << >>]

\* The three characters of a code are read as the one they stand for.
LEMMA ReadCode ==
  ASSUME NEW o, NEW x, NEW y
  PROVE  Reading(Reading(Reading(Plain(o), Percent), x), y) =
           Plain(Append(o, 16 * HexValue(x) + HexValue(y)))
<1>1. PICK e : e = << >> /\ Len(e) = 0
  BY EmptySeq
<1>2. PICK p : p = <<Percent>>
  OBVIOUS
<1>3. Len(p) = 1 /\ p # << >> /\ Append(e, Percent) = p
  BY <1>1, <1>2
<1>4. PICK q : q = <<Percent, x>>
  OBVIOUS
<1>5. Len(q) = 2 /\ q[2] = x /\ Append(p, x) = q
  <2>1. PICK S : S = {Percent, x}
    OBVIOUS
  <2>2. p \in Seq(S) /\ q \in Seq(S) /\ x \in S
    BY <1>2, <1>4, <2>1
  <2>3. Len(q) = 2 /\ q[1] = Percent /\ q[2] = x /\ p[1] = Percent
    BY <1>2, <1>4
  <2>4. PICK a \in Seq(S) : a = Append(p, x) /\ Len(a) = 2 /\ a[1] = p[1] /\ a[2] = x
    <3>1. /\ Append(p, x) \in Seq(S) /\ Len(Append(p, x)) = Len(p) + 1
          /\ \A i \in 1 .. Len(p) : Append(p, x)[i] = p[i]
          /\ Append(p, x)[Len(p) + 1] = x
      BY <2>2, AppendProperties
    <3>2. Len(p) + 1 = 2 /\ 1 \in 1 .. Len(p)
      BY <1>3
    <3> QED
      BY <3>1, <3>2
  <2>5. \A i \in 1 .. 2 : a[i] = q[i]
    <3>1. \A i \in 1 .. 2 : i = 1 \/ i = 2
      OBVIOUS
    <3> QED
      BY <2>3, <2>4, <3>1
  <2> QED
    BY <2>2, <2>3, <2>4, <2>5, SeqEqual
<1>6. Reading(Plain(o), Percent) = [out |-> o, code |-> p]
  BY <1>1, <1>3 DEF Reading, Plain
<1>7. Reading([out |-> o, code |-> p], x) = [out |-> o, code |-> q]
  <2>1. PICK r : r = [out |-> o, code |-> p]
    OBVIOUS
  <2>2. r.out = o /\ r.code = p
    BY <2>1
  <2>3. Reading(r, x) = [out |-> r.out, code |-> Append(r.code, x)]
    <3>1. Len(r.code) # 2 /\ r.code # << >>
      BY <1>3, <2>2
    <3> QED
      BY <3>1, Zenon DEF Reading
  <2> QED
    BY <1>5, <2>1, <2>2, <2>3
<1>8. Reading([out |-> o, code |-> q], y) =
        [out |-> Append(o, 16 * HexValue(x) + HexValue(y)), code |-> << >>]
  <2>1. PICK r : r = [out |-> o, code |-> q]
    OBVIOUS
  <2>2. r.out = o /\ r.code = q /\ Len(r.code) = 2 /\ r.code[2] = x
    BY <1>5, <2>1
  <2>3. Reading(r, y) =
          [out |-> Append(r.out, 16 * HexValue(r.code[2]) + HexValue(y)), code |-> << >>]
    BY <2>2, Zenon DEF Reading
  <2> QED
    BY <2>1, <2>2, <2>3
<1> QED
  BY <1>6, <1>7, <1>8 DEF Plain

\* Any other character is read as itself.
LEMMA ReadPlain ==
  ASSUME NEW o, NEW c, c # Percent PROVE Reading(Plain(o), c) = Plain(Append(o, c))
BY EmptySeq DEF Reading, Plain

\* One escaped character is read as itself.
LEMMA ReadEsc ==
  ASSUME NEW o \in Seq(Char), NEW c \in Char, NEW s \in Seq(Safe), Read(s) = Plain(o)
  PROVE  Read(s \o Esc(c)) = Plain(Append(o, c))
<1>1. CASE c \notin Kept
  <2>1. PICK x, y \in Kept \ {Percent, Plus} :
          Esc(c) = <<Percent, x, y>> /\ 16 * HexValue(x) + HexValue(y) = c
    BY <1>1, CodeIs
  <2>2. Percent \in Safe /\ x \in Safe /\ y \in Safe
    BY DEF Safe
  <2>3. PICK a \in Seq(Safe) : a = Append(s, Percent)
    BY <2>2, AppendProperties
  <2>4. PICK b \in Seq(Safe) : b = Append(a, x)
    BY <2>2, AppendProperties
  <2>5. s \o Esc(c) = Append(b, y)
    BY <2>1, <2>2, <2>3, <2>4, AppendThree
  <2>6. Read(a) = Reading(Plain(o), Percent)
    BY <2>2, <2>3, ReadAppend
  <2>7. Read(b) = Reading(Reading(Plain(o), Percent), x)
    BY <2>2, <2>4, <2>6, ReadAppend
  <2>8. Read(Append(b, y)) = Reading(Reading(Reading(Plain(o), Percent), x), y)
    BY <2>2, <2>7, ReadAppend
  <2>9. Read(Append(b, y)) = Plain(Append(o, 16 * HexValue(x) + HexValue(y)))
    BY <2>8, ReadCode
  <2> QED
    BY <2>1, <2>5, <2>9
<1>2. CASE c \in Kept
  <2>1. Esc(c) = <<c>> /\ c \in Safe /\ c # Percent
    BY <1>2, KeptIs DEF Esc, Safe
  <2>2. s \o Esc(c) = Append(s, c)
    BY <2>1, AppendIsConcat
  <2>3. Read(Append(s, c)) = Reading(Plain(o), c)
    BY <2>1, ReadAppend
  <2> QED
    BY <2>1, <2>2, <2>3, ReadPlain
<1> QED
  BY <1>1, <1>2

RoundTrip(v) == escaped(v) \in Seq(Safe) /\ Unescape(escaped(v)) = v

\* Whatever a value holds, escaped it is of letters, digits, - . _ ~ and percent
\* signs, of which none ends a quote, a comment or the name of a field, and it is
\* read as the value it was (sqlcomment.go:25-31).
THEOREM EscapedReads == \A v \in Seq(Char) : RoundTrip(v)
<1>1. PICK I : I = {n \in Nat : \A v \in Seq(Char) : Len(v) = n => Read(escaped(v)) = Plain(v)}
  OBVIOUS
<1>2. 0 \in I
  <2> SUFFICES ASSUME NEW v \in Seq(Char), Len(v) = 0 PROVE Read(escaped(v)) = Plain(v)
    BY <1>1
  <2>1. v = << >>
    OBVIOUS
  <2>2. EncAll(v) = << >>
    BY <2>1 DEF EncAll
  <2>3. UnplusAll(<< >>) = << >>
    BY DEF UnplusAll
  <2>4. escaped(v) = << >>
    BY <2>2, <2>3, EscapedIs, FlattenNone
  <2> QED
    BY <2>1, <2>4, ReadNone DEF Start, Plain
<1>3. \A n \in Nat : n \in I => n + 1 \in I
  <2> SUFFICES ASSUME NEW n \in Nat, n \in I, NEW v \in Seq(Char), Len(v) = n + 1
               PROVE  Read(escaped(v)) = Plain(v)
    BY <1>1
  <2>1. v # << >>
    BY EmptySeq
  <2>2. PICK u \in Seq(Char), c \in Char : v = Append(u, c)
    BY <2>1, SequenceEmptyOrAppend
  <2>3. Len(u) = n
    <3>1. Len(v) = Len(u) + 1
      BY <2>2, AppendProperties
    <3> QED
      BY <3>1
  <2>4. Read(escaped(u)) = Plain(u)
    BY <1>1, <2>3
  <2>5. escaped(u) \in Seq(Safe) /\ escaped(v) = escaped(u) \o Esc(c)
    BY <2>2, EscapedAppend
  <2> QED
    BY <2>2, <2>4, <2>5, ReadEsc
<1>4. Nat \subseteq I
  BY <1>2, <1>3, SetInduction
<1>5. ASSUME NEW v \in Seq(Char) PROVE RoundTrip(v)
  <2>1. Len(v) \in I
    BY <1>4
  <2>2. Read(escaped(v)) = Plain(v)
    BY <1>1, <2>1
  <2>3. Unescape(escaped(v)) = v
    BY <2>2, UnescapeReads DEF Plain
  <2>4. escaped(v) \in Seq(Safe)
    <3>1. CASE v = << >>
      <4>1. EncAll(v) = << >>
        BY <3>1 DEF EncAll
      <4>2. UnplusAll(<< >>) = << >>
        BY DEF UnplusAll
      <4>3. escaped(v) = << >>
        BY <4>1, <4>2, EscapedIs, FlattenNone
      <4> QED
        BY <4>3
    <3>2. CASE v # << >>
      <4>1. PICK c : c \in Char
        BY <3>2, SequenceEmptyOrAppend
      <4> QED
        BY <4>1, EscapedAppend
    <3> QED
      BY <3>1, <3>2
  <2> QED
    BY <2>3, <2>4 DEF RoundTrip
<1> QED
  BY <1>5

----------------------------------------------------------------------------
(* The pairs that add makes. *)

\* What the comment is made of, but for its end.
Mark == Safe \cup {Quote, Comma, Equals}

\* What ends a comment is no mark, and what ends a value or a name is not in one.
LEMMA MarkIs ==
  /\ Star \notin Mark /\ Quote \notin Safe /\ Equals \notin Safe /\ FieldName \subseteq Mark
  /\ Equals # Quote /\ Equals # Comma /\ Equals \notin FieldName
<1>1. Star \notin Safe /\ Quote \notin Safe /\ Equals \notin Safe
  BY KeptIs, SignsAre DEF Safe
<1>2. FieldName \subseteq Mark /\ Equals \notin FieldName
  BY KeptIs DEF Mark, Safe
<1>3. Equals # Quote /\ Equals # Comma /\ Star # Quote /\ Star # Comma /\ Star # Equals
  BY SignsAre
<1> QED
  BY <1>1, <1>2, <1>3 DEF Mark

\* Concatenation, by positions.
LEMMA ConcatIs ==
  ASSUME NEW S, NEW s \in Seq(S), NEW t \in Seq(S),
         NEW n \in Nat, n = Len(s), NEW m \in Nat, m = Len(t), NEW u, u = s \o t
  PROVE  /\ u \in Seq(S) /\ Len(u) = n + m
         /\ \A i \in 1 .. n : u[i] = s[i]
         /\ \A i \in 1 .. m : u[n + i] = t[i]
<1>1. /\ s \o t \in Seq(S) /\ Len(s \o t) = Len(s) + Len(t)
      /\ \A i \in 1 .. Len(s) + Len(t) :
           (s \o t)[i] = IF i <= Len(s) THEN s[i] ELSE t[i - Len(s)]
  BY ConcatProperties
<1>2. /\ u \in Seq(S) /\ Len(u) = n + m
      /\ \A i \in 1 .. n + m : u[i] = IF i <= n THEN s[i] ELSE t[i - n]
  BY <1>1
<1>3. \A i \in 1 .. m : n + i \in 1 .. n + m /\ ~ (n + i <= n) /\ (n + i) - n = i
  OBVIOUS
<1> QED
  BY <1>2, <1>3

\* The name k stands in b, with an equals sign and e in quotes behind it.
Quotes(b, k, e) ==
  \E i \in 1 .. Len(b) :
    /\ b[i] = k /\ b[i + 1] = Equals /\ b[i + 2] = Quote
    /\ i + 3 + Len(e) <= Len(b) /\ b[i + 3 + Len(e)] = Quote
    /\ \A j \in 1 .. Len(e) : b[i + 2 + j] = e[j]

\* The names in b, which equals signs follow, are those of K that have a value in f,
\* each once and with it.
At(b) == {i \in 1 .. Len(b) - 1 : b[i + 1] = Equals}

Once(b) == \A i, j \in At(b) : b[i] = b[j] => i = j
Named(b, f, K) == \A i \in At(b) : b[i] \in K /\ f[b[i]] # << >>
Valued(b, f, K) == \A k \in K : f[k] # << >> => Quotes(b, k, escaped(f[k]))

Body(b, f, K) == b \in Seq(Mark) /\ Once(b) /\ Named(b, f, K) /\ Valued(b, f, K)

\* h is b, perhaps a comma up to n, the name k, an equals sign, and e in quotes.
Shape(h, b, l, n, k, e, m) ==
  /\ h \in Seq(Mark) /\ l <= n /\ Len(h) = n + 4 + m
  /\ \A i \in 1 .. l : h[i] = b[i]
  /\ \A i \in l + 1 .. n : h[i] # Equals
  /\ h[n + 1] = k /\ h[n + 2] = Equals /\ h[n + 3] = Quote /\ h[n + 4 + m] = Quote
  /\ \A j \in 1 .. m : h[n + 3 + j] = e[j]

\* What add makes of the pairs b when there is a value.
LEMMA AddShape ==
  ASSUME NEW b \in Seq(Mark), NEW k \in FieldName, NEW v \in Seq(Char), v # << >>,
         NEW e, e = escaped(v), NEW l \in Nat, l = Len(b), NEW m \in Nat, m = Len(e)
  PROVE  \E n \in Nat : Shape(add(b, k, v), b, l, n, k, e, m)
<1>2. e \in Seq(Safe)
  BY EscapedReads DEF RoundTrip
<1>3. e \in Seq(Mark)
  BY <1>2, SeqMonotonic DEF Mark
<1>6. PICK s : s = IF b = << >> THEN << >> ELSE <<Comma>>
  OBVIOUS
<1>7. s \in Seq(Mark) /\ Len(s) \in Nat /\ \A i \in 1 .. Len(s) : s[i] # Equals
  <2>1. Comma \in Mark /\ Comma # Equals
    BY MarkIs DEF Mark
  <2>2. PICK x : x = <<Comma>>
    OBVIOUS
  <2>3. x \in Seq(Mark) /\ Len(x) = 1 /\ x[1] = Comma
    BY <2>1, <2>2
  <2>4. CASE s = x
    <3>1. Len(s) = 1 /\ \A i \in 1 .. 1 : i = 1
      BY <2>3, <2>4
    <3>2. s \in Seq(Mark) /\ s[1] = Comma
      BY <2>3, <2>4
    <3> QED
      BY <2>1, <3>1, <3>2
  <2>5. CASE s = << >>
    BY <2>5, EmptySeq
  <2> QED
    BY <1>6, <2>2, <2>4, <2>5
<1>8. PICK c : c = b \o s
  OBVIOUS
<1>9. PICK n \in Nat : n = Len(c)
  BY <1>7, <1>8, ConcatProperties
<1>10. /\ c \in Seq(Mark) /\ l <= n /\ \A i \in 1 .. l : c[i] = b[i]
       /\ \A i \in l + 1 .. n : c[i] # Equals
  <2>1. PICK w \in Nat : w = Len(s)
    BY <1>7
  <2>2. /\ c \in Seq(Mark) /\ Len(c) = l + w
        /\ \A i \in 1 .. l : c[i] = b[i]
        /\ \A i \in 1 .. w : c[l + i] = s[i]
    BY <1>7, <1>8, <2>1, ConcatIs
  <2>3. ASSUME NEW i \in l + 1 .. n PROVE c[i] # Equals
    <3>1. PICK j \in 1 .. w : i = l + j
      <4>1. i - l \in 1 .. w /\ i = l + (i - l)
        BY <1>9, <2>2
      <4> QED
        BY <4>1
    <3> QED
      BY <1>7, <2>1, <2>2, <3>1
  <2> QED
    BY <1>9, <2>2, <2>3
<1>11. PICK q : q = <<k, Equals, Quote>>
  OBVIOUS
<1>12. q \in Seq(Mark) /\ Len(q) = 3 /\ q[1] = k /\ q[2] = Equals /\ q[3] = Quote
  <2>1. k \in Mark /\ Equals \in Mark /\ Quote \in Mark
    BY MarkIs DEF Mark
  <2> QED
    BY <1>11, <2>1
<1>13. PICK d : d = c \o q
  OBVIOUS
<1>14. /\ d \in Seq(Mark) /\ Len(d) = n + 3
       /\ \A i \in 1 .. n : d[i] = c[i]
       /\ d[n + 1] = k /\ d[n + 2] = Equals /\ d[n + 3] = Quote
  <2>1. /\ d \in Seq(Mark) /\ Len(d) = n + 3
        /\ \A i \in 1 .. n : d[i] = c[i]
        /\ \A i \in 1 .. 3 : d[n + i] = q[i]
    <3>1. PICK w \in Nat : w = 3 /\ w = Len(q)
      BY <1>12
    <3>2. /\ d \in Seq(Mark) /\ Len(d) = n + w
          /\ \A i \in 1 .. n : d[i] = c[i]
          /\ \A i \in 1 .. w : d[n + i] = q[i]
      <4>1. c \in Seq(Mark) /\ q \in Seq(Mark) /\ n = Len(c) /\ w = Len(q) /\ d = c \o q
        BY <1>9, <1>10, <1>12, <1>13, <3>1
      <4> QED
        BY <4>1, ConcatIs
    <3> QED
      BY <3>1, <3>2
  <2> QED
    BY <1>12, <2>1
<1>15. PICK g : g = d \o e
  OBVIOUS
<1>16. /\ g \in Seq(Mark) /\ Len(g) = n + 3 + m
       /\ \A i \in 1 .. n + 3 : g[i] = d[i]
       /\ \A j \in 1 .. m : g[n + 3 + j] = e[j]
  <2>1. PICK w \in Nat : w = n + 3 /\ w = Len(d)
    BY <1>14
  <2>2. /\ g \in Seq(Mark) /\ Len(g) = w + m
        /\ \A i \in 1 .. w : g[i] = d[i]
        /\ \A i \in 1 .. m : g[w + i] = e[i]
    <3>1. d \in Seq(Mark) /\ e \in Seq(Mark) /\ w = Len(d) /\ m = Len(e) /\ g = d \o e
      BY <1>3, <1>14, <1>15, <2>1
    <3> QED
      BY <3>1, ConcatIs
  <2> QED
    BY <2>1, <2>2
<1>17. PICK z : z = <<Quote>>
  OBVIOUS
<1>18. z \in Seq(Mark) /\ Len(z) = 1 /\ z[1] = Quote
  <2>1. Quote \in Mark
    BY DEF Mark
  <2> QED
    BY <1>17, <2>1
<1>19. PICK h : h = g \o z
  OBVIOUS
<1>20. /\ h \in Seq(Mark) /\ Len(h) = n + 4 + m
       /\ \A i \in 1 .. n + 3 + m : h[i] = g[i]
       /\ h[n + 4 + m] = Quote
  <2>1. PICK w \in Nat, x \in Nat : w = n + 3 + m /\ w = Len(g) /\ x = 1 /\ x = Len(z)
    BY <1>16, <1>18
  <2>2. /\ h \in Seq(Mark) /\ Len(h) = w + x
        /\ \A i \in 1 .. w : h[i] = g[i]
        /\ \A i \in 1 .. x : h[w + i] = z[i]
    <3>1. g \in Seq(Mark) /\ z \in Seq(Mark) /\ w = Len(g) /\ x = Len(z) /\ h = g \o z
      BY <1>16, <1>18, <1>19, <2>1
    <3> QED
      BY <3>1, ConcatIs
  <2>3. Len(h) = w + 1 /\ h[w + 1] = Quote
    <3>1. Len(h) = w + 1 /\ \A i \in 1 .. 1 : h[w + i] = z[i]
      BY <2>1, <2>2
    <3> QED
      BY <1>18, <3>1
  <2>4. w + 1 = n + 4 + m
    BY <2>1
  <2> QED
    BY <2>1, <2>2, <2>3, <2>4
<1>21. h = add(b, k, v)
  BY <1>6, <1>8, <1>11, <1>13, <1>15, <1>17, <1>19 DEF add
<1>22. \A i \in 1 .. n : h[i] = c[i]
  BY <1>14, <1>16, <1>20
<1>23. h[n + 1] = k /\ h[n + 2] = Equals /\ h[n + 3] = Quote
  <2>1. \A i \in {n + 1, n + 2, n + 3} : i \in 1 .. n + 3 /\ i \in 1 .. n + 3 + m
    OBVIOUS
  <2>2. \A i \in {n + 1, n + 2, n + 3} : h[i] = d[i]
    BY <1>16, <1>20, <2>1
  <2> QED
    BY <1>14, <2>2
<1>24. \A j \in 1 .. m : h[n + 3 + j] = e[j]
  BY <1>16, <1>20
<1>25. /\ \A i \in 1 .. l : h[i] = b[i]
       /\ \A i \in l + 1 .. n : h[i] # Equals
  <2>1. \A i \in 1 .. l : i \in 1 .. n
    BY <1>10
  <2>2. \A i \in l + 1 .. n : i \in 1 .. n
    OBVIOUS
  <2>3. \A i \in 1 .. l : h[i] = b[i]
    BY <1>10, <1>22, <2>1
  <2>4. \A i \in l + 1 .. n : h[i] # Equals
    BY <1>10, <1>22, <2>2
  <2> QED
    BY <2>3, <2>4
<1> QED
  BY <1>10, <1>20, <1>21, <1>23, <1>24, <1>25 DEF Shape

\* A name keeps its quotes when the pairs grow.
LEMMA QuotesStay ==
  ASSUME NEW b \in Seq(Mark), NEW h \in Seq(Mark), Len(b) <= Len(h),
         \A i \in 1 .. Len(b) : h[i] = b[i],
         NEW k, NEW e \in Seq(Safe), Quotes(b, k, e)
  PROVE  Quotes(h, k, e)
<1>1. PICK n \in Nat, m \in Nat, l \in Nat : n = Len(b) /\ m = Len(e) /\ l = Len(h)
  OBVIOUS
<1>2. PICK i \in 1 .. n :
        /\ b[i] = k /\ b[i + 1] = Equals /\ b[i + 2] = Quote
        /\ i + 3 + m <= n /\ b[i + 3 + m] = Quote
        /\ \A j \in 1 .. m : b[i + 2 + j] = e[j]
  BY <1>1 DEF Quotes
<1>3. i \in 1 .. l /\ i + 3 + m <= l
  BY <1>1, <1>2
<1>4. h[i] = k /\ h[i + 1] = Equals /\ h[i + 2] = Quote /\ h[i + 3 + m] = Quote
  <2>1. i \in 1 .. n /\ i + 1 \in 1 .. n /\ i + 2 \in 1 .. n /\ i + 3 + m \in 1 .. n
    BY <1>2
  <2> QED
    BY <1>1, <1>2, <2>1
<1>5. \A j \in 1 .. m : h[i + 2 + j] = e[j]
  <2> SUFFICES ASSUME NEW j \in 1 .. m PROVE h[i + 2 + j] = e[j]
    OBVIOUS
  <2>0. i + 3 + m <= n
    BY <1>2
  <2>1. i + 2 + j \in 1 .. n
    BY <2>0
  <2> QED
    BY <1>1, <1>2, <2>1
<1> QED
  BY <1>1, <1>3, <1>4, <1>5 DEF Quotes

\* add keeps what is said of the pairs, and says it of one name more.
LEMMA AddBody ==
  ASSUME NEW b, NEW f, NEW K, Body(b, f, K), K \subseteq FieldName,
         \A x \in K : f[x] \in Seq(Char),
         NEW k \in FieldName, k \notin K, f[k] \in Seq(Char)
  PROVE  Body(add(b, k, f[k]), f, K \cup {k})
<1>1. CASE f[k] = << >>
  <2>1. add(b, k, f[k]) = b
    BY <1>1 DEF add
  <2> QED
    BY <1>1, <2>1 DEF Body, Named, Valued
<1>2. CASE f[k] # << >>
  <2>1. PICK h, e, l : h = add(b, k, f[k]) /\ e = escaped(f[k]) /\ l = Len(b)
    OBVIOUS
  <2>2. b \in Seq(Mark) /\ l \in Nat
    BY <2>1 DEF Body
  <2>3. e \in Seq(Safe) /\ Len(e) \in Nat
    BY <2>1, EscapedReads DEF RoundTrip
  <2>5. PICK m \in Nat : m = Len(e)
    BY <2>3
  <2>4. PICK n \in Nat :
          /\ h \in Seq(Mark) /\ l <= n /\ Len(h) = n + 4 + m
          /\ \A i \in 1 .. l : h[i] = b[i]
          /\ \A i \in l + 1 .. n : h[i] # Equals
          /\ h[n + 1] = k /\ h[n + 2] = Equals /\ h[n + 3] = Quote /\ h[n + 4 + m] = Quote
          /\ \A j \in 1 .. m : h[n + 3 + j] = e[j]
    <3>1. PICK n \in Nat : Shape(h, b, l, n, k, e, m)
      BY <1>2, <2>1, <2>2, <2>5, AddShape
    <3> QED
      BY <3>1 DEF Shape
  <2>6. \A j \in 1 .. m : e[j] # Equals
    BY <2>3, <2>5, MarkIs, ElementOfSeq
  <2>7. ASSUME NEW i \in At(h) PROVE i = n + 1 \/ (i \in At(b) /\ h[i] = b[i])
    <3>1. PICK p \in 2 .. n + 4 + m : p = i + 1 /\ h[p] = Equals /\ i \in 1 .. n + 3 + m
      BY <2>4, <2>5 DEF At
    <3>2. CASE p \in 1 .. l
      <4>1. i \in 1 .. l /\ i \in 1 .. l - 1 /\ b[i + 1] = Equals
        BY <2>2, <2>4, <3>1, <3>2
      <4> QED
        BY <2>1, <2>4, <4>1 DEF At
    <3>3. CASE p \in l + 1 .. n
      BY <2>4, <3>1, <3>3
    <3>4. CASE p = n + 1
      BY <2>4, <3>1, <3>4, MarkIs
    <3>5. CASE p = n + 2
      BY <3>1, <3>5
    <3>6. CASE p = n + 3 \/ p = n + 4 + m
      BY <2>4, <3>1, <3>6, MarkIs
    <3>7. CASE p \in n + 4 .. n + 3 + m
      <4>1. PICK j \in 1 .. m : p = n + 3 + j
        <5>1. p - (n + 3) \in 1 .. m /\ p = n + 3 + (p - (n + 3))
          BY <3>7
        <5> QED
          BY <5>1
      <4> QED
        BY <2>4, <2>6, <3>1, <4>1
    <3> QED
      BY <2>2, <2>5, <3>2, <3>3, <3>4, <3>5, <3>6, <3>7
  <2>8. \A i \in At(b) : b[i] \in K /\ f[b[i]] # << >>
    BY DEF Body, Named
  <2>9. Once(h)
    <3> SUFFICES ASSUME NEW i \in At(h), NEW j \in At(h), h[i] = h[j] PROVE i = j
      BY DEF Once
    <3>1. CASE i = n + 1 /\ j = n + 1
      BY <3>1
    <3>2. CASE (i \in At(b) /\ h[i] = b[i]) /\ (j \in At(b) /\ h[j] = b[j])
      BY <3>2 DEF Body, Once
    <3>3. CASE i = n + 1 /\ (j \in At(b) /\ h[j] = b[j])
      BY <2>4, <2>8, <3>3
    <3>4. CASE j = n + 1 /\ (i \in At(b) /\ h[i] = b[i])
      BY <2>4, <2>8, <3>4
    <3> QED
      BY <2>7, <3>1, <3>2, <3>3, <3>4
  <2>10. Named(h, f, K \cup {k})
    <3> SUFFICES ASSUME NEW i \in At(h) PROVE h[i] \in K \cup {k} /\ f[h[i]] # << >>
      BY DEF Named
    <3> QED
      BY <1>2, <2>4, <2>7, <2>8
  <2>11. Valued(h, f, K \cup {k})
    <3>1. Quotes(h, k, e)
      <4>1. /\ n + 1 \in 1 .. Len(h) /\ (n + 1) + 1 = n + 2 /\ (n + 1) + 2 = n + 3
            /\ (n + 1) + 3 + m = n + 4 + m
        BY <2>4, <2>5
      <4>2. \A j \in 1 .. m : h[(n + 1) + 2 + j] = e[j]
        <5>1. \A j \in 1 .. m : (n + 1) + 2 + j = n + 3 + j
          OBVIOUS
        <5> QED
          BY <2>4, <2>5, <5>1
      <4> QED
        BY <2>4, <2>5, <4>1, <4>2 DEF Quotes
    <3>2. ASSUME NEW x \in K, f[x] # << >> PROVE Quotes(h, x, escaped(f[x]))
      <4>1. Quotes(b, x, escaped(f[x]))
        BY <3>2 DEF Body, Valued
      <4>2. escaped(f[x]) \in Seq(Safe)
        BY EscapedReads DEF RoundTrip
      <4>3. Len(b) <= Len(h)
        BY <2>1, <2>4, <2>5
      <4> QED
        BY <2>1, <2>2, <2>4, <4>1, <4>2, <4>3, QuotesStay
    <3> QED
      BY <2>1, <3>1, <3>2 DEF Valued
  <2> QED
    BY <2>1, <2>4, <2>9, <2>10, <2>11 DEF Body
<1> QED
  BY <1>1, <1>2

\* So the three calls of add write the three fields.
LEMMA EncodeBody ==
  ASSUME NEW f \in [FieldName -> Seq(Char)]
  PROVE  \E b : /\ Body(b, f, FieldName)
                /\ encode(f) = IF b = << >> THEN << >>
                               ELSE <<Slash, Star>> \o b \o <<Star, Slash>>
<1>1. PICK a : a = add(<< >>, ApplicationName, f[ApplicationName])
  OBVIOUS
<1>2. PICK r : r = add(a, RouteName, f[RouteName])
  OBVIOUS
<1>3. PICK b : b = add(r, TraceparentName, f[TraceparentName])
  OBVIOUS
<1>4. \A k \in FieldName : f[k] \in Seq(Char)
  OBVIOUS
<1>5. /\ FieldName = {ApplicationName, RouteName, TraceparentName}
      /\ ApplicationName # RouteName /\ ApplicationName # TraceparentName
      /\ RouteName # TraceparentName
  BY SignsAre
<1>6. Body(<< >>, f, {})
  <2>1. << >> \in Seq(Mark) /\ Len(<< >>) = 0
    BY EmptySeq
  <2>2. At(<< >>) = {}
    BY <2>1 DEF At
  <2> QED
    BY <2>1, <2>2 DEF Body, Once, Named, Valued
<1>7. Body(a, f, {ApplicationName})
  <2>1. Body(a, f, {} \cup {ApplicationName})
    BY <1>1, <1>4, <1>5, <1>6, AddBody
  <2> QED
    BY <2>1
<1>8. Body(r, f, {ApplicationName, RouteName})
  <2>1. Body(r, f, {ApplicationName} \cup {RouteName})
    BY <1>2, <1>4, <1>5, <1>7, AddBody
  <2>2. {ApplicationName} \cup {RouteName} = {ApplicationName, RouteName}
    OBVIOUS
  <2> QED
    BY <2>1, <2>2
<1>9. Body(b, f, FieldName)
  <2>1. Body(b, f, {ApplicationName, RouteName} \cup {TraceparentName})
    BY <1>3, <1>4, <1>5, <1>8, AddBody
  <2>2. {ApplicationName, RouteName} \cup {TraceparentName} = FieldName
    BY <1>5
  <2> QED
    BY <2>1, <2>2
<1>10. encode(f) = IF b = << >> THEN << >> ELSE <<Slash, Star>> \o b \o <<Star, Slash>>
  BY <1>1, <1>2, <1>3 DEF encode
<1> QED
  BY <1>9, <1>10

----------------------------------------------------------------------------
(* How others read what is sent. *)

\* What is sent when the pairs are b, and the positions of its parts.
Text == Mark \cup {Star, Slash, SQL}

Sent(sql, b, n) ==
  /\ sql \in Seq(Text) /\ Len(sql) = n + 5
  /\ sql[1] = Slash /\ sql[2] = Star
  /\ \A i \in 1 .. n : sql[2 + i] = b[i]
  /\ sql[n + 3] = Star /\ sql[n + 4] = Slash /\ sql[n + 5] = SQL

\* encode and before put the parts there.
LEMMA SentShape ==
  ASSUME NEW b \in Seq(Mark), NEW n \in Nat, n = Len(b)
  PROVE  Sent((<<Slash, Star>> \o b \o <<Star, Slash>>) \o <<SQL>>, b, n)
<1>1. PICK p : p = <<Slash, Star>>
  OBVIOUS
<1>2. PICK z : z = <<Star, Slash>>
  OBVIOUS
<1>3. PICK q : q = <<SQL>>
  OBVIOUS
<1>4. PICK two \in Nat, one \in Nat : two = 2 /\ one = 1
  OBVIOUS
<1>5. Star \in Text /\ Slash \in Text /\ SQL \in Text
  BY DEF Text
<1>6. p \in Seq(Text) /\ two = Len(p) /\ p[1] = Slash /\ p[2] = Star
  BY <1>1, <1>4, <1>5
<1>7. z \in Seq(Text) /\ two = Len(z) /\ z[1] = Star /\ z[2] = Slash
  BY <1>2, <1>4, <1>5
<1>8. q \in Seq(Text) /\ one = Len(q) /\ q[1] = SQL
  BY <1>3, <1>4, <1>5
<1>9. b \in Seq(Text)
  BY SeqMonotonic DEF Text
<1>10. PICK c : c = p \o b
  OBVIOUS
<1>11. /\ c \in Seq(Text) /\ Len(c) = two + n
       /\ \A i \in 1 .. two : c[i] = p[i]
       /\ \A i \in 1 .. n : c[two + i] = b[i]
  BY <1>6, <1>9, <1>10, ConcatIs
<1>12. PICK w \in Nat : w = n + 2 /\ w = Len(c)
  BY <1>4, <1>11
<1>13. PICK d : d = c \o z
  OBVIOUS
<1>14. /\ d \in Seq(Text) /\ Len(d) = w + two
       /\ \A i \in 1 .. w : d[i] = c[i]
       /\ \A i \in 1 .. two : d[w + i] = z[i]
  <2>1. c \in Seq(Text) /\ z \in Seq(Text) /\ w = Len(c) /\ two = Len(z) /\ d = c \o z
    BY <1>7, <1>11, <1>12, <1>13
  <2> QED
    BY <2>1, ConcatIs
<1>15. PICK x \in Nat : x = n + 4 /\ x = Len(d)
  BY <1>4, <1>12, <1>14
<1>16. PICK s : s = d \o q
  OBVIOUS
<1>17. /\ s \in Seq(Text) /\ Len(s) = x + one
       /\ \A i \in 1 .. x : s[i] = d[i]
       /\ \A i \in 1 .. one : s[x + i] = q[i]
  <2>1. d \in Seq(Text) /\ q \in Seq(Text) /\ x = Len(d) /\ one = Len(q) /\ s = d \o q
    BY <1>8, <1>14, <1>15, <1>16
  <2> QED
    BY <2>1, ConcatIs
<1>18. \A i \in 1 .. n + 2 : s[i] = c[i]
  BY <1>12, <1>14, <1>15, <1>17
<1>19. s[1] = Slash /\ s[2] = Star
  BY <1>4, <1>6, <1>11, <1>18
<1>20. \A i \in 1 .. n : s[2 + i] = b[i]
  BY <1>4, <1>11, <1>18
<1>21. s[n + 3] = Star /\ s[n + 4] = Slash
  <2>1. d[w + 1] = Star /\ d[w + 2] = Slash
    BY <1>4, <1>7, <1>14
  <2>2. w + 1 = n + 3 /\ w + 2 = n + 4
    BY <1>12
  <2> QED
    BY <1>15, <1>17, <2>1, <2>2
<1>22. s[n + 5] = SQL /\ Len(s) = n + 5
  <2>1. s[x + 1] = SQL
    BY <1>4, <1>8, <1>17
  <2>2. x + 1 = n + 5
    BY <1>15
  <2> QED
    BY <1>4, <1>17, <2>1, <2>2
<1>23. s = (<<Slash, Star>> \o b \o <<Star, Slash>>) \o <<SQL>>
  BY <1>1, <1>2, <1>3, <1>10, <1>13, <1>16
<1> QED
  BY <1>17, <1>19, <1>20, <1>21, <1>22, <1>23 DEF Sent

\* The end of the comment is found where it is, and the SQL behind it.
LEMMA BehindIs ==
  ASSUME NEW sql, NEW b \in Seq(Mark), NEW n \in Nat, n = Len(b), Sent(sql, b, n)
  PROVE  HasComment(sql) /\ Behind(sql) = n + 5 /\ SubSeq(sql, n + 5, n + 5) = <<SQL>>
<1>1. PICK T : T = {j \in 3 .. n + 5 : j < n + 5 /\ sql[j] = Star /\ sql[j + 1] = Slash}
  OBVIOUS
<1>2. \A i \in 3 .. n + 2 : sql[i] # Star
  <2> SUFFICES ASSUME NEW i \in 3 .. n + 2 PROVE sql[i] # Star
    OBVIOUS
  <2>1. PICK j \in 1 .. n : i = 2 + j
    <3>1. i - 2 \in 1 .. n /\ i = 2 + (i - 2)
      OBVIOUS
    <3> QED
      BY <3>1
  <2>2. b[j] \in Mark
    BY ElementOfSeq
  <2> QED
    BY <2>1, <2>2, MarkIs DEF Sent
<1>3. n + 3 \in T /\ \A j \in 3 .. n + 2 : j \notin T
  BY <1>1, <1>2 DEF Sent
<1>4. PICK m : m = FirstFrom(sql, 3, LAMBDA j : j < Len(sql) /\ sql[j] = Star /\ sql[j + 1] = Slash)
  OBVIOUS
<1>5. m = CHOOSE j \in 3 .. Len(sql) :
            /\ j < Len(sql) /\ sql[j] = Star /\ sql[j + 1] = Slash
            /\ \A k \in 3 .. j - 1 : ~ (k < Len(sql) /\ sql[k] = Star /\ sql[k + 1] = Slash)
  BY <1>4 DEF FirstFrom
<1>6. m \in T /\ \A k \in 3 .. m - 1 : k \notin T
  <2>1. \E j \in 3 .. Len(sql) :
          /\ j < Len(sql) /\ sql[j] = Star /\ sql[j + 1] = Slash
          /\ \A k \in 3 .. j - 1 : ~ (k < Len(sql) /\ sql[k] = Star /\ sql[k + 1] = Slash)
    <3>1. n + 3 \in 3 .. Len(sql) /\ n + 3 < Len(sql) /\ sql[n + 3] = Star
          /\ sql[(n + 3) + 1] = Slash
      BY DEF Sent
    <3>2. \A k \in 3 .. (n + 3) - 1 : sql[k] # Star
      BY <1>2
    <3> QED
      BY <3>1, <3>2
  <2>2. /\ m \in 3 .. Len(sql) /\ m < Len(sql) /\ sql[m] = Star /\ sql[m + 1] = Slash
        /\ \A k \in 3 .. m - 1 : ~ (k < Len(sql) /\ sql[k] = Star /\ sql[k + 1] = Slash)
    BY <1>5, <2>1, Zenon
  <2> QED
    BY <1>1, <2>2 DEF Sent
<1>7. m = n + 3
  BY <1>1, <1>3, <1>6
<1>8. Behind(sql) = n + 5
  BY <1>4, <1>7 DEF Behind
<1>9. PICK p, q : p = <<Slash, Star>> /\ q = <<SQL>>
  OBVIOUS
<1>10. /\ p \in Seq(Text) /\ Len(p) = 2 /\ p[1] = Slash /\ p[2] = Star
       /\ q \in Seq(Text) /\ Len(q) = 1 /\ q[1] = SQL
  <2>1. Star \in Text /\ Slash \in Text /\ SQL \in Text
    BY DEF Text
  <2> QED
    BY <1>9, <2>1
<1>11. sql \in Seq(Text) /\ Len(sql) = n + 5 /\ sql[1] = Slash /\ sql[2] = Star
       /\ sql[n + 5] = SQL
  BY DEF Sent
<1>12. \A i \in 1 .. n + 5 : sql[i] \in Text
  BY <1>11, ElementOfSeq
<1>13. SubSeq(sql, n + 5, n + 5) = q
  <2>1. PICK t : t = SubSeq(sql, n + 5, n + 5)
    OBVIOUS
  <2>2. PICK k \in Int : k = n + 5
    OBVIOUS
  <2>3. t \in Seq(Text) /\ Len(t) = 1 /\ t[1] = sql[k]
    <3>1. \A i \in k .. k : sql[i] \in Text
      BY <1>12, <2>2
    <3>2. /\ SubSeq(sql, k, k) \in Seq(Text)
          /\ Len(SubSeq(sql, k, k)) = IF k <= k THEN k - k + 1 ELSE 0
          /\ \A i \in 1 .. k - k + 1 : SubSeq(sql, k, k)[i] = sql[k + i - 1]
      BY <3>1, SubSeqProperties
    <3>3. k - k + 1 = 1 /\ k <= k /\ k + 1 - 1 = k
      OBVIOUS
    <3> QED
      BY <2>1, <2>2, <3>2, <3>3
  <2>4. \A i \in 1 .. 1 : t[i] = q[i]
    BY <1>10, <1>11, <2>2, <2>3
  <2> QED
    BY <1>10, <2>1, <2>3, <2>4, SeqEqual
<1>14. HasComment(sql)
  <2>1. SubSeq(p, 1, 2) = p
    BY <1>10, SubSeqFull
  <2>2. PICK t : t = SubSeq(sql, 1, 2)
    OBVIOUS
  <2>3. t \in Seq(Text) /\ Len(t) = 2 /\ t[1] = sql[1] /\ t[2] = sql[2]
    <3>1. \A i \in 1 .. 2 : sql[i] \in Text
      BY <1>12
    <3>2. /\ SubSeq(sql, 1, 2) \in Seq(Text)
          /\ Len(SubSeq(sql, 1, 2)) = IF 1 <= 2 THEN 2 - 1 + 1 ELSE 0
          /\ \A i \in 1 .. 2 - 1 + 1 : SubSeq(sql, 1, 2)[i] = sql[1 + i - 1]
      BY <3>1, SubSeqProperties
    <3> QED
      BY <2>2, <3>2
  <2>4. \A i \in 1 .. 2 : t[i] = p[i]
    <3>1. \A i \in 1 .. 2 : i = 1 \/ i = 2
      OBVIOUS
    <3> QED
      BY <1>10, <1>11, <2>3, <3>1
  <2>5. t = p
    BY <1>10, <2>3, <2>4, SeqEqual
  <2>6. Len(p) <= Len(sql)
    BY <1>10, <1>11
  <2>7. IsPrefix(p, sql)
    BY <1>10, <2>1, <2>2, <2>5, <2>6 DEF IsPrefix
  <2> QED
    BY <1>9, <2>7 DEF HasComment
<1> QED
  BY <1>8, <1>9, <1>13, <1>14

\* The least of one number.
LEMMA MinOfOne == ASSUME NEW n \in Nat PROVE Min({n}) = n
<1>1. {n} \subseteq Nat /\ {n} # {}
  OBVIOUS
<1>2. Min({n}) \in {n}
  BY <1>1, MinIn
<1> QED
  BY <1>2

\* Where the name k stands in sql.
Names(sql, k) == {i \in 1 .. Len(sql) - 1 : sql[i] = k /\ sql[i + 1] = Equals}

\* A name that stands nowhere is found nowhere.
LEMMA NoField ==
  ASSUME NEW sql, NEW k, Names(sql, k) = {} PROVE FieldOf(sql, k) = << >>
BY Zenon DEF FieldOf, Names

\* It stands at p alone.
OnlyAt(sql, k, p) == Names(sql, k) = {p}

\* The first quote in sql from i on.
QuoteAt(sql, i) == FirstFrom(sql, i, LAMBDA j : sql[j] = Quote)

\* And one that stands once is found there.
LEMMA FieldAt ==
  ASSUME NEW sql, NEW k, NEW p \in Nat, OnlyAt(sql, k, p),
         NEW a, a = p + 3, NEW last, last = QuoteAt(sql, a)
  PROVE  FieldOf(sql, k) = Unescape(SubSeq(sql, a, last - 1))
<1>1. {i \in 1 .. Len(sql) - 1 : sql[i] = k /\ sql[i + 1] = Equals} = {p}
  BY Zenon DEF OnlyAt, Names
<1>2. {p} # {} /\ Min({p}) = p
  BY MinOfOne
<1> QED
  BY <1>1, <1>2, Zenon DEF FieldOf, QuoteAt

Unquoted(sql, a, z) == \A i \in a .. z - 1 : sql[i] # Quote

\* The quote that ends a value is the first behind its beginning.
LEMMA QuoteEnds ==
  ASSUME NEW sql, NEW a \in Nat, NEW z \in Nat, a <= z, NEW l \in Nat, l = Len(sql), z <= l,
         sql[z] = Quote, Unquoted(sql, a, z),
         NEW m, m = QuoteAt(sql, a)
  PROVE  m = z
<1>1. \A i \in a .. z - 1 : sql[i] # Quote
  BY DEF Unquoted
<1>2. m = CHOOSE j \in a .. l : sql[j] = Quote /\ \A i \in a .. j - 1 : ~ (sql[i] = Quote)
  BY Zenon DEF FirstFrom, QuoteAt
<1>3. \E j \in a .. l : sql[j] = Quote /\ \A i \in a .. j - 1 : ~ (sql[i] = Quote)
  <2>1. z \in a .. l
    OBVIOUS
  <2> QED
    BY <1>1, <2>1
<1>4. m \in a .. l /\ sql[m] = Quote /\ \A i \in a .. m - 1 : ~ (sql[i] = Quote)
  BY <1>2, <1>3, Zenon
<1>5. ~ (z \in a .. m - 1) /\ ~ (m \in a .. z - 1)
  BY <1>1, <1>4
<1> QED
  BY <1>1, <1>4, <1>5

\* Each field of the pairs is read from what is sent as it was given.
LEMMA FieldIs ==
  ASSUME NEW f \in [FieldName -> Seq(Char)], NEW b, Body(b, f, FieldName),
         NEW n \in Nat, n = Len(b), NEW sql, Sent(sql, b, n), NEW k \in FieldName
  PROVE  FieldOf(sql, k) = f[k]
<1>1. b \in Seq(Mark) /\ f[k] \in Seq(Char)
  BY DEF Body
<1>2. /\ Len(sql) = n + 5 /\ sql[2] = Star /\ \A j \in 1 .. n : sql[2 + j] = b[j]
      /\ sql[1] = Slash /\ sql[n + 3] = Star /\ sql[n + 4] = Slash /\ sql[n + 5] = SQL
  BY DEF Sent
<1>3. ASSUME NEW i \in Names(sql, k) PROVE \E j \in At(b) : i = 2 + j /\ b[j] = k
  <2>1. i \in 1 .. n + 4 /\ sql[i] = k /\ sql[i + 1] = Equals
    BY <1>2 DEF Names
  <2>2. i # 1 /\ i # 2 /\ i # n + 2 /\ i # n + 3 /\ i # n + 4
    <3>1. k # Star /\ k # Slash /\ Equals # Star /\ Equals # Slash /\ Equals # SQL
      BY SignsAre
    <3> QED
      BY <1>2, <2>1, <3>1
  <2>3. PICK j \in 1 .. n - 1 : i = 2 + j
    <3>1. i - 2 \in 1 .. n - 1 /\ i = 2 + (i - 2)
      BY <2>1, <2>2
    <3> QED
      BY <3>1
  <2>4. b[j] = k /\ b[j + 1] = Equals
    <3>1. j \in 1 .. n /\ j + 1 \in 1 .. n /\ 2 + (j + 1) = i + 1
      BY <2>3
    <3> QED
      BY <1>2, <2>1, <2>3, <3>1
  <2> QED
    BY <2>3, <2>4 DEF At
<1>5. CASE f[k] = << >>
  <2>1. \A j \in At(b) : b[j] # k
    BY <1>5 DEF Body, Named
  <2>2. Names(sql, k) = {}
    BY <1>3, <2>1
  <2> QED
    BY <1>5, <2>2, NoField
<1>6. CASE f[k] # << >>
  <2>1. PICK e : e = escaped(f[k])
    OBVIOUS
  <2>2. e \in Seq(Safe) /\ Unescape(e) = f[k]
    BY <1>1, <2>1, EscapedReads DEF RoundTrip
  <2>3. PICK m \in Nat : m = Len(e)
    BY <2>2
  <2>4. PICK i \in 1 .. n :
          /\ b[i] = k /\ b[i + 1] = Equals /\ b[i + 2] = Quote
          /\ i + 3 + m <= n /\ b[i + 3 + m] = Quote
          /\ \A j \in 1 .. m : b[i + 2 + j] = e[j]
    <3>1. Quotes(b, k, e)
      BY <1>6, <2>1 DEF Body, Valued
    <3> QED
      BY <2>3, <3>1 DEF Quotes
  <2>5. PICK p \in Nat : p = i + 2
    OBVIOUS
  <2>6. \A j \in 1 .. n : sql[2 + j] = b[j]
    BY <1>2
  <2>7. i \in At(b)
    <3>1. i \in 1 .. n - 1
      BY <2>4
    <3> QED
      BY <2>4, <3>1 DEF At
  <2>8. Names(sql, k) = {p}
    <3>1. ASSUME NEW j \in Names(sql, k) PROVE j = p
      <4>1. PICK x \in At(b) : j = 2 + x /\ b[x] = k
        BY <1>3
      <4>2. x = i
        BY <2>4, <2>7, <4>1 DEF Body, Once
      <4> QED
        BY <2>5, <4>1, <4>2
    <3>2. p \in Names(sql, k)
      <4>1. /\ i \in 1 .. n /\ i + 1 \in 1 .. n /\ 2 + i = p /\ 2 + (i + 1) = p + 1
            /\ p \in 1 .. (n + 5) - 1
        BY <2>4, <2>5
      <4>2. sql[p] = k /\ sql[p + 1] = Equals
        BY <2>4, <2>6, <4>1
      <4> QED
        BY <1>2, <4>1, <4>2 DEF Names
    <3> QED
      BY <3>1, <3>2
  <2>9. PICK a \in Nat, z \in Nat : a = p + 3 /\ z = p + 3 + m
    OBVIOUS
  <2>10. sql[z] = Quote /\ z <= n + 5
    <3>1. i + 3 + m \in 1 .. n /\ z = 2 + (i + 3 + m)
      BY <2>4, <2>5, <2>9
    <3> QED
      BY <2>4, <2>6, <3>1
  <2>11. ASSUME NEW j \in 1 .. m PROVE sql[a + j - 1] = e[j]
    <3>1. i + 2 + j \in 1 .. n /\ a + j - 1 = 2 + (i + 2 + j)
      BY <2>4, <2>5, <2>9
    <3> QED
      BY <2>4, <2>6, <3>1
  <2>12. \A j \in a .. z - 1 : sql[j] \in Safe
    <3> SUFFICES ASSUME NEW j \in a .. z - 1 PROVE sql[j] \in Safe
      OBVIOUS
    <3>1. PICK x \in 1 .. m : j = a + x - 1
      <4>1. j - a + 1 \in 1 .. m /\ j = a + (j - a + 1) - 1
        BY <2>9
      <4> QED
        BY <4>1
    <3>2. e[x] \in Safe
      BY <2>2, <2>3, ElementOfSeq
    <3> QED
      BY <2>11, <3>1, <3>2
  <2>13. QuoteAt(sql, a) = z
    <3>1. Unquoted(sql, a, z)
      BY <2>12, MarkIs DEF Unquoted
    <3>2. PICK l \in Nat : l = Len(sql) /\ z <= l /\ a <= z
      BY <1>2, <2>9, <2>10
    <3>3. a \in Nat /\ z \in Nat /\ a <= z /\ l \in Nat /\ l = Len(sql) /\ z <= l /\ sql[z] = Quote
      BY <2>9, <2>10, <3>2
    <3>4. PICK x : x = QuoteAt(sql, a)
      OBVIOUS
    <3>5. x = z
      BY <3>1, <3>3, <3>4, QuoteEnds
    <3> QED
      BY <3>4, <3>5
  <2>14. SubSeq(sql, a, z - 1) = e
    <3>0. PICK y \in Int : y = z - 1
      OBVIOUS
    <3>1. PICK t : t = SubSeq(sql, a, y)
      OBVIOUS
    <3>2. /\ t \in Seq(Safe)
          /\ Len(t) = IF a <= y THEN y - a + 1 ELSE 0
          /\ \A j \in 1 .. y - a + 1 : t[j] = sql[a + j - 1]
      BY <2>12, <3>0, <3>1, SubSeqProperties
    <3>3. y - a + 1 = m /\ (a <= y <=> m # 0)
      BY <2>9, <3>0
    <3>4. Len(t) = m
      BY <3>2, <3>3
    <3>5. \A j \in 1 .. m : t[j] = e[j]
      BY <2>11, <3>2, <3>3
    <3> QED
      BY <2>2, <2>3, <3>0, <3>1, <3>2, <3>4, <3>5, SeqEqual
  <2>15. FieldOf(sql, k) = Unescape(SubSeq(sql, a, z - 1))
    <3>1. z = QuoteAt(sql, a)
      BY <2>13
    <3>2. OnlyAt(sql, k, p)
      BY <2>8 DEF OnlyAt
    <3>3. a = p + 3
      BY <2>9
    <3> QED
      BY <3>1, <3>2, <3>3, FieldAt
  <2> QED
    BY <2>2, <2>14, <2>15
<1> QED
  BY <1>5, <1>6

\* What encode makes of any fields: behind it stands the SQL, and it reads as they
\* are (sqlcomment.go:18-29).
THEOREM EncodedReads ==
  \A f \in [FieldName -> Seq(Char)] :
    LET sql == encode(f) \o <<SQL>> IN Uncommented(sql) = <<SQL>> /\ ReadsAs(sql, f)
<1> SUFFICES ASSUME NEW f \in [FieldName -> Seq(Char)], NEW sql, sql = encode(f) \o <<SQL>>
             PROVE  Uncommented(sql) = <<SQL>> /\ ReadsAs(sql, f)
  OBVIOUS
<1>1. PICK b : /\ Body(b, f, FieldName)
               /\ encode(f) = IF b = << >> THEN << >> ELSE <<Slash, Star>> \o b \o <<Star, Slash>>
  BY EncodeBody
<1>2. PICK n \in Nat : b \in Seq(Mark) /\ n = Len(b)
  BY <1>1 DEF Body
<1>3. PICK q : q = <<SQL>>
  OBVIOUS
<1>4. sql = encode(f) \o q
  BY <1>3
<1>5. CASE b = << >>
  <2>1. q \in Seq({SQL}) /\ Len(q) = 1 /\ q[1] = SQL
    BY <1>3
  <2>2. sql = q
    BY <1>1, <1>4, <1>5, <2>1, ConcatEmptySeq
  <2>0. Len(sql) = 1 /\ sql[1] = SQL
    BY <2>1, <2>2
  <2>3. ~ HasComment(sql)
    <3>1. PICK p : p = <<Slash, Star>>
      OBVIOUS
    <3>2. Len(p) = 2
      BY <3>1
    <3>3. ~ (Len(p) <= Len(sql))
      BY <2>0, <3>2
    <3> QED
      BY <3>1, <3>3, Zenon DEF HasComment, IsPrefix
  <2>4. ASSUME NEW k \in FieldName PROVE FieldOf(sql, k) = f[k]
    <3>1. Names(sql, k) = {}
      BY <2>0 DEF Names
    <3>2. FieldOf(sql, k) = << >>
      BY <3>1, NoField
    <3>3. f[k] = << >>
      <4>1. ~ Quotes(b, k, escaped(f[k]))
        BY <1>5, EmptySeq DEF Quotes
      <4> QED
        BY <1>1, <4>1 DEF Body, Valued
    <3> QED
      BY <3>2, <3>3
  <2> QED
    BY <1>3, <1>4, <2>2, <2>3, <2>4 DEF ReadsAs, Uncommented
<1>6. CASE b # << >>
  <2>1. sql = (<<Slash, Star>> \o b \o <<Star, Slash>>) \o q
    BY <1>1, <1>4, <1>6
  <2>2. Sent(sql, b, n)
    BY <1>2, <1>3, <2>1, SentShape
  <2>3. /\ HasComment(sql) /\ Behind(sql) = n + 5
        /\ SubSeq(sql, n + 5, n + 5) = q
    BY <1>2, <1>3, <2>2, BehindIs
  <2>4. Len(sql) = n + 5
    BY <2>2 DEF Sent
  <2>5. \A k \in FieldName : FieldOf(sql, k) = f[k]
    BY <1>1, <1>2, <2>2, FieldIs
  <2> QED
    BY <1>3, <1>4, <2>3, <2>4, <2>5 DEF ReadsAs, Uncommented
<1> QED
  BY <1>5, <1>6

----------------------------------------------------------------------------
(* Every statement is sent with such a comment. *)

\* A statement on its way carries the SQL with the comment of its fields.
CommentInv ==
  /\ application \in Application
  /\ call.at = "sent" /\ call.op \in Statement =>
       /\ call.fields \in [FieldName -> Seq(Char)]
       /\ call.sql = encode(call.fields) \o <<SQL>>

\* Every value a field may have is a string.
LEMMA ValuesAre ==
  Application \subseteq Seq(Char) /\ Route \subseteq Seq(Char) /\ <<Identity>> \in Seq(Char)
<1>1. Identity \in Char
  BY DEF Char, Word
<1> QED
  BY <1>1, ValueAssumption

\* before makes such a statement.
LEMMA CommentSent ==
  ASSUME application \in Application, NEW op \in Statement, NEW route \in Route,
         NEW traced \in BOOLEAN, before(op, route, traced)
  PROVE  CommentInv'
<1>1. PICK f : f = [k \in FieldName |->
                      CASE k = ApplicationName -> application
                        [] k = RouteName -> route
                        [] k = TraceparentName -> IF traced THEN <<Identity>> ELSE << >>]
  OBVIOUS
<1>2. f \in [FieldName -> Seq(Char)]
  <2> SUFFICES ASSUME NEW k \in FieldName PROVE f[k] \in Seq(Char)
    BY <1>1
  <2>1. application \in Seq(Char) /\ route \in Seq(Char) /\ <<Identity>> \in Seq(Char)
        /\ << >> \in Seq(Char)
    BY ValuesAre, EmptySeq
  <2>5. /\ ApplicationName # RouteName /\ ApplicationName # TraceparentName
        /\ RouteName # TraceparentName
    BY SignsAre
  <2>2. CASE k = ApplicationName
    BY <1>1, <2>1, <2>2, <2>5
  <2>3. CASE k = RouteName
    BY <1>1, <2>1, <2>3, <2>5
  <2>4. CASE k = TraceparentName
    BY <1>1, <2>1, <2>4, <2>5
  <2> QED
    BY <2>2, <2>3, <2>4 DEF FieldName
<1>3. /\ call' = [at |-> "sent", op |-> op, fields |-> f, sql |-> encode(f) \o <<SQL>>,
                  tracer |-> tracer, span |-> "open", fate |-> "none"]
      /\ application' = application
  BY <1>1, Zenon DEF before
<1>4. call'.fields = f /\ call'.sql = encode(f) \o <<SQL>>
  BY <1>3
<1> QED
  BY <1>2, <1>3, <1>4 DEF CommentInv

\* No other step sends one, or changes what is sent.
LEMMA CommentStep ==
  ASSUME CallInv, CommentInv, TelemetryNext \/ UNCHANGED telemetryVars
  PROVE  CommentInv'
<1>1. CASE UNCHANGED <<call, application>>
  BY <1>1 DEF CommentInv
<1>2. ASSUME NEW op \in Statement, NEW route \in Route, NEW traced \in BOOLEAN,
             before(op, route, traced)
      PROVE  CommentInv'
  BY <1>2, CommentSent DEF CommentInv
<1>3. CASE SendBatch
  <2>1. call'.op = "SendBatch" /\ application' = application
    BY <1>3 DEF SendBatch, NoCall
  <2> QED
    BY <2>1 DEF CommentInv, Statement
<1>4. CASE Return
  <2>1. PICK a, o, f, s, t, p, e : call = [at |-> a, op |-> o, fields |-> f, sql |-> s,
                                           tracer |-> t, span |-> p, fate |-> e]
    BY DEF CallInv
  <2>2. PICK was \in {"done", "failed"} :
          call' = [call EXCEPT !.at = "returned", !.fate = was, !.sql = << >>,
                     !.fields = << >>,
                     !.span = IF @ = "open" THEN end(innerError(call.op, was)) ELSE @]
    BY <1>4 DEF Return
  <2>3. call'.at = "returned" /\ application' = application
    BY <1>4, <2>1, <2>2 DEF Return
  <2> QED
    BY <2>3 DEF CommentInv
<1>5. CASE Again
  <2>1. call'.at = "idle" /\ application' = application
    BY <1>5 DEF Again, NoCall
  <2> QED
    BY <2>1 DEF CommentInv
<1>6. CASE BeginTx \/ EndTx
  BY <1>1, <1>6 DEF BeginTx, EndTx
<1>7. CASE OtelNext /\ UNCHANGED pgxVars
  BY <1>1, <1>7 DEF pgxVars
<1>8. CASE UNCHANGED telemetryVars
  BY <1>1, <1>8 DEF telemetryVars, pgxVars
<1> QED
  BY <1>2, <1>3, <1>4, <1>5, <1>6, <1>7, <1>8 DEF TelemetryNext, PoolCall, TxCall

\* Whatever strings the application and the routes are, Postgres executes the
\* caller's SQL, and the comment of a traced statement reads as its fields
\* (sqlcomment.go:18-29, options.go:77-84).
THEOREM CommentReads == TelemetrySpec => []CommentIsRead
<1>1. TelemetryInit => CommentInv
  BY DEF TelemetryInit, NoCall, CommentInv
<1>2. IInv /\ CommentInv /\ [TelemetryNext]_telemetryVars => CommentInv'
  BY CommentStep DEF IInv
<1>3. CommentInv => CommentIsRead
  <2> SUFFICES ASSUME CommentInv, call.at = "sent", call.op \in Statement
               PROVE  Uncommented(call.sql) = <<SQL>> /\ ReadsAs(call.sql, call.fields)
    BY DEF CommentIsRead
  <2>1. PICK f, s : f = call.fields /\ s = call.sql
    OBVIOUS
  <2>2. f \in [FieldName -> Seq(Char)] /\ s = encode(f) \o <<SQL>>
    BY <2>1 DEF CommentInv
  <2>3. Uncommented(s) = <<SQL>> /\ ReadsAs(s, f)
    BY <2>2, EncodedReads
  <2> QED
    BY <2>1, <2>3
<1> QED
  BY <1>1, <1>2, <1>3, AlwaysInv, PTL DEF TelemetrySpec

----------------------------------------------------------------------------
(* The hook of otelredis. *)

Batch == 1 .. Len(names)

\* The hook has the commands of one call.
BatchInv ==
  /\ names \in Seq(Name) /\ Len(names) <= MaxBatch
  /\ at # "idle" => names # << >>
  /\ at # "idle" /\ ~ pipelined => Len(names) = 1
  /\ at \in {"recording", "returned"} => fate \in [Batch -> Fate] /\ errs \in [Batch -> Err]

\* What an error on a command may be, given what became of it.
Tells(f, e) == e = Replied(f) \/ (f = "failed" /\ e = "transport")

\* go-redis has left an error on each command, or on none and sent none.
Told ==
  /\ \A i \in Batch : Tells(fate[i], errs[i])
  /\ IsErr(aggregate) => \E i \in Batch : IsErr(errs[i])
  /\ (\A i \in Batch : errs[i] = "nil") => aggregate = "nil"
  /\ Len(names) = 1 => aggregate = errs[1]

Untold ==
  /\ \A i \in Batch : fate[i] = "failed" /\ errs[i] = "nil"
  /\ aggregate = "transport"

ReplyInv ==
  at \in {"recording", "returned"} => Told \/ Untold

\* The values are of their types, which are not told by the above.
ValueInv ==
  /\ pipelined \in BOOLEAN /\ aggregate \in Err /\ span \in {"none", "open", "ok", "error"}
  /\ at \in {"idle", "sent"} => fate = << >> /\ errs = << >>

Recorded(i) == names[i] = "get" /\ fate[i] # "failed"

\* The metrics so far are those of the commands the loop has gone through.
RecordInv ==
  /\ durations \in Seq(Name \X BOOLEAN)
  /\ at \in {"idle", "sent"} => durations = << >> /\ gets = {}
  /\ at \in {"recording", "returned"} =>
       /\ Len(durations) <= Len(names)
       /\ \A i \in 1 .. Len(durations) : durations[i] = <<names[i], fate[i] = "failed">>
       /\ gets = {<<i, IF fate[i] = "value" THEN "hit" ELSE "miss">> :
                    i \in {j \in 1 .. Len(durations) : Recorded(j)}}
  /\ at = "recording" /\ ~ pipelined => durations = << >>
  /\ at = "returned" => Len(durations) = Len(names)

\* The span is failed when a command is.
FailInv ==
  at = "returned" => (span = "error" <=> \E i \in Batch : fate[i] = "failed")

HookInv == at \in {"idle", "sent", "recording", "returned"}
           /\ BatchInv /\ ReplyInv /\ ValueInv /\ RecordInv /\ FailInv

----------------------------------------------------------------------------
(* The errors of the commands. *)

\* cmdsFirstErr finds a command with an error, when there is one.
LEMMA FirstErrIs ==
  ASSUME NEW es, NEW n \in Nat, Len(es) = n
  PROVE  \/ FirstErr(es) = "nil" /\ \A i \in 1 .. n : es[i] = "nil"
         \/ \E i \in 1 .. n : es[i] # "nil" /\ FirstErr(es) = es[i]
<1>1. PICK I : I = {i \in 1 .. Len(es) : es[i] # "nil"}
  OBVIOUS
<1>2. SelectInSeq(es, LAMBDA e : e # "nil") = IF I # {} THEN Min(I) ELSE 0
  BY <1>1 DEF SelectInSeq
<1>3. FirstErr(es) = IF SelectInSeq(es, LAMBDA e : e # "nil") = 0 THEN "nil"
                     ELSE es[SelectInSeq(es, LAMBDA e : e # "nil")]
  BY DEF FirstErr
<1>4. CASE I = {}
  BY <1>1, <1>2, <1>3, <1>4
<1>5. CASE I # {}
  <2>1. Min(I) \in I
    BY <1>1, <1>5, MinIn
  <2>2. Min(I) # 0
    BY <1>1, <2>1
  <2> QED
    BY <1>1, <1>2, <1>3, <1>5, <2>1, <2>2
<1> QED
  BY <1>4, <1>5

\* So does pipelineSpanErr, of those that are errors to the telemetry.
LEMMA SpanErrIs ==
  ASSUME NEW es, NEW n \in Nat, Len(es) = n, NEW agg
  PROVE  \/ pipelineSpanErr(agg, es) = agg /\ \A i \in 1 .. n : ~ IsErr(es[i])
         \/ \E i \in 1 .. n : IsErr(es[i]) /\ pipelineSpanErr(agg, es) = es[i]
<1>1. PICK I : I = {i \in 1 .. Len(es) : IsErr(es[i])}
  OBVIOUS
<1>2. SelectInSeq(es, IsErr) = IF I # {} THEN Min(I) ELSE 0
  BY <1>1 DEF SelectInSeq
<1>3. pipelineSpanErr(agg, es) = IF SelectInSeq(es, IsErr) = 0 THEN agg
                                 ELSE es[SelectInSeq(es, IsErr)]
  BY DEF pipelineSpanErr
<1>4. CASE I = {}
  BY <1>1, <1>2, <1>3, <1>4
<1>5. CASE I # {}
  <2>1. Min(I) \in I
    BY <1>1, <1>5, MinIn
  <2>2. Min(I) # 0
    BY <1>1, <2>1
  <2> QED
    BY <1>1, <1>2, <1>3, <1>5, <2>1, <2>2
<1> QED
  BY <1>4, <1>5

\* Whatever go-redis answered, the error that is recorded of a command in a
\* pipeline tells its fate.
LEMMA ErrorTells ==
  ASSUME BatchInv, Told \/ Untold, at = "recording", NEW i \in Batch, NEW e,
         e = IF errs[i] = "nil" THEN pipelineFallbackErr(aggregate, errs) ELSE errs[i]
  PROVE  /\ IsErr(e) <=> fate[i] = "failed"
         /\ e = "redis.Nil" <=> fate[i] = "missing"
<1>1. fate[i] \in Fate /\ DOMAIN errs = Batch
  BY DEF BatchInv
<1>2. CASE Untold
  BY <1>1, <1>2 DEF Untold, pipelineFallbackErr, IsErr
<1>3. CASE Told
  <2>1. Tells(fate[i], errs[i])
    BY <1>3 DEF Told
  <2>2. pipelineFallbackErr(aggregate, errs) = "nil"
    BY <1>1, <1>3 DEF Told, pipelineFallbackErr, IsErr
  <2> QED
    BY <1>1, <2>1, <2>2 DEF Tells, Replied, Fate, IsErr
<1> QED
  BY <1>2, <1>3

\* Likewise the error of the whole pipeline.
LEMMA SpanErrorTells ==
  ASSUME BatchInv, Told \/ Untold, at = "recording", names # << >>
  PROVE  IsErr(pipelineSpanErr(aggregate, errs)) <=> \E i \in Batch : fate[i] = "failed"
<1>1. /\ fate \in [Batch -> Fate] /\ errs \in [Batch -> Err] /\ Len(names) \in Nat \ {0}
  BY DEF BatchInv
<1>2. Len(errs) = Len(names)
  BY <1>1 DEF Batch
<1>3. \/ pipelineSpanErr(aggregate, errs) = aggregate /\ \A i \in Batch : ~ IsErr(errs[i])
      \/ \E i \in Batch : IsErr(errs[i]) /\ pipelineSpanErr(aggregate, errs) = errs[i]
  BY <1>1, <1>2, SpanErrIs DEF Batch
<1>4. CASE Untold
  <2>1. 1 \in Batch
    BY <1>1 DEF Batch
  <2> QED
    BY <1>3, <1>4, <2>1 DEF Untold, IsErr
<1>5. CASE Told
  <2>1. \A i \in Batch : IsErr(errs[i]) <=> fate[i] = "failed"
    BY <1>1, <1>5 DEF Told, Tells, Replied, Fate, IsErr
  <2> QED
    BY <1>3, <1>5, <2>1 DEF Told
<1> QED
  BY <1>4, <1>5

----------------------------------------------------------------------------
(* The steps of the hook. *)

\* A call is issued, of one command or of several.
LEMMA IssueStep ==
  ASSUME HookInv, Issue
  PROVE  HookInv'
<1>1. at = "idle" /\ at' = "sent" /\ UNCHANGED <<fate, errs, aggregate, durations, gets>>
  BY DEF Issue, outcome
<1>2. PICK n \in {1, MaxBatch} :
        /\ names' \in BoundedSeq(Name, n) \ {<< >>}
        /\ ~ pipelined' => n = 1
  BY DEF Issue
<1>3. n \in Nat
  BY <1>2, BatchAssumption
<1>4. PICK m \in 0 .. n : names' \in [1 .. m -> Name]
  <2>1. names' \in UNION {[1 .. m -> Name] : m \in 0 .. n}
    BY <1>2 DEF BoundedSeq, SeqOf
  <2> QED
    BY <2>1
<1>5. names' \in Seq(Name) /\ Len(names') = m
  BY <1>3, <1>4
<1>6. m # 0 /\ names' # << >>
  BY <1>2, <1>3, <1>4, <1>5
<1>7. Len(names') <= MaxBatch /\ (~ pipelined' => Len(names') = 1)
  BY <1>2, <1>3, <1>4, <1>5, <1>6, BatchAssumption
<1>8. ValueInv'
  BY <1>1 DEF HookInv, ValueInv, Issue
<1> QED
  BY <1>1, <1>5, <1>6, <1>7, <1>8 DEF HookInv, BatchInv, ReplyInv, RecordInv, FailInv

\* go-redis answers, in one of its three ways.
LEMMA ReplyStep ==
  ASSUME HookInv, Reply
  PROVE  HookInv'
<1>1. /\ at = "sent" /\ at' = "recording"
      /\ UNCHANGED <<pipelined, names, durations, gets, span>>
      /\ durations = << >> /\ gets = {} /\ names \in Seq(Name) /\ names # << >>
      /\ Len(names) <= MaxBatch /\ (~ pipelined => Len(names) = 1)
  BY DEF Reply, HookInv, BatchInv, RecordInv
<1>2. PICK f \in [Batch -> Fate] : fate' = f /\ (Executed(f) \/ Broken(f) \/ Unsent(f))
  BY DEF Reply, Batch
<1>3. PICK n \in Nat : n = Len(names) /\ Batch = 1 .. n /\ Len(names)' = n /\ Batch' = 1 .. n
  BY <1>1 DEF Batch
<1>4. \A i \in Batch : f[i] \in Fate /\ Replied(f[i]) \in Err
  BY <1>2 DEF Fate, Replied, Err
<1>5. errs' \in [Batch -> Err] /\ (Told' \/ Untold')
  <2>1. CASE Executed(f)
    <3>1. errs' = [i \in Batch |-> Replied(f[i])] /\ aggregate' = FirstErr(errs')
      BY <1>2, <2>1 DEF Executed
    <3>2. errs' \in [Batch -> Err] /\ Len(errs') = n
      BY <1>3, <1>4, <3>1
    <3>3. \/ aggregate' = "nil" /\ \A i \in Batch : errs'[i] = "nil"
          \/ \E i \in Batch : errs'[i] # "nil" /\ aggregate' = errs'[i]
      BY <1>3, <3>1, <3>2, FirstErrIs
    <3>4. \A i \in Batch : Tells(fate'[i], errs'[i])
      BY <1>2, <3>1 DEF Tells
    <3>5. n = 1 => aggregate' = errs'[1]
      BY <1>3, <3>3
    <3> QED
      BY <1>3, <3>2, <3>3, <3>4, <3>5 DEF Told, IsErr
  <2>2. CASE Broken(f)
    <3>1. PICK k \in Batch :
            /\ \A i \in k .. Len(f) : f[i] = "failed"
            /\ errs' = [i \in Batch |-> IF i < k THEN Replied(f[i]) ELSE "transport"]
            /\ aggregate' \in {"transport", FirstErr(errs')}
      BY <1>2, <2>2 DEF Broken
    <3>2. errs' \in [Batch -> Err] /\ Len(errs') = n
      <4>1. "transport" \in Err
        BY DEF Err
      <4> QED
        BY <1>3, <1>4, <3>1, <4>1
    <3>3. errs'[k] = "transport" /\ k \in Batch
      BY <1>3, <3>1
    <3>4. \E i \in Batch : errs'[i] # "nil" /\ aggregate' = errs'[i]
      <4>1. \/ FirstErr(errs') = "nil" /\ \A i \in Batch : errs'[i] = "nil"
            \/ \E i \in Batch : errs'[i] # "nil" /\ FirstErr(errs') = errs'[i]
        BY <1>3, <3>2, FirstErrIs
      <4> QED
        BY <3>1, <3>3, <4>1
    <3>5. \A i \in Batch : Tells(fate'[i], errs'[i])
      <4>1. Len(f) = n
        BY <1>2, <1>3
      <4> QED
        BY <1>2, <1>3, <3>1, <4>1 DEF Tells
    <3>6. n = 1 => aggregate' = errs'[1]
      BY <1>3, <3>4
    <3> QED
      BY <1>3, <3>2, <3>4, <3>5, <3>6 DEF Told, IsErr
  <2>3. CASE Unsent(f)
    BY <1>2, <1>3, <2>3 DEF Unsent, Untold, Err
  <2> QED
    BY <1>2, <2>1, <2>2, <2>3
<1>6. RecordInv'
  BY <1>1, <1>3 DEF HookInv, RecordInv
<1>7. BatchInv'
  BY <1>1, <1>2, <1>3, <1>5 DEF BatchInv
<1>8. aggregate' \in Err
  <2>1. errs' \in [Batch -> Err] /\ Len(errs') = n
    BY <1>3, <1>5
  <2>2. FirstErr(errs') \in Err
    BY <1>3, <2>1, FirstErrIs DEF Err
  <2> QED
    BY <1>2, <2>2 DEF Executed, Broken, Unsent, Err
<1>9. ValueInv'
  BY <1>1, <1>8 DEF HookInv, ValueInv
<1> QED
  BY <1>1, <1>5, <1>6, <1>7, <1>9 DEF HookInv, ReplyInv, FailInv

\* A command is recorded, after those that have been.
LEMMA Recording ==
  ASSUME HookInv, at = "recording", NEW i, i = Len(durations) + 1, i <= Len(names),
         NEW e, record(i, e), UNCHANGED <<names, fate>>,
         IsErr(e) <=> fate[i] = "failed", e = "redis.Nil" <=> fate[i] = "missing"
  PROVE  /\ durations' \in Seq(Name \X BOOLEAN) /\ Len(durations') = i
         /\ \A j \in 1 .. i : durations'[j] = <<names'[j], fate'[j] = "failed">>
         /\ gets' = {<<j, IF fate'[j] = "value" THEN "hit" ELSE "miss">> :
                       j \in {l \in 1 .. i : Recorded(l)'}}
<1>1. /\ names \in Seq(Name) /\ durations \in Seq(Name \X BOOLEAN)
      /\ \A j \in 1 .. Len(durations) : durations[j] = <<names[j], fate[j] = "failed">>
      /\ gets = {<<j, IF fate[j] = "value" THEN "hit" ELSE "miss">> :
                   j \in {l \in 1 .. Len(durations) : Recorded(l)}}
  BY DEF HookInv, BatchInv, RecordInv
<1>2. PICK n \in Nat : n = Len(durations) /\ i = n + 1 /\ i \in 1 .. Len(names)
  BY <1>1
<1>3. fate[i] \in Fate /\ names[i] \in Name
  BY <1>1, <1>2 DEF HookInv, BatchInv, Batch
<1>4. IsErr(e) \in BOOLEAN
  BY DEF IsErr
<1>5. PICK line \in Name \X BOOLEAN : line = <<names[i], IsErr(e)>>
  BY <1>3, <1>4
<1>6. durations' = Append(durations, line)
  BY <1>5 DEF record
<1>7. /\ durations' \in Seq(Name \X BOOLEAN) /\ Len(durations') = i /\ durations'[i] = line
      /\ \A j \in 1 .. n : durations'[j] = durations[j]
  BY <1>1, <1>2, <1>5, <1>6
<1>8. line = <<names[i], fate[i] = "failed">>
  BY <1>4, <1>5
<1>9. \A j \in 1 .. i : durations'[j] = <<names[j], fate[j] = "failed">>
  <2>1. durations'[i] = <<names[i], fate[i] = "failed">>
    BY ONLY <1>7, <1>8
  <2>2. \A j \in 1 .. n : durations'[j] = <<names[j], fate[j] = "failed">>
    BY ONLY <1>1, <1>2, <1>7
  <2>3. \A j \in 1 .. i : j \in 1 .. n \/ j = i
    BY ONLY <1>2
  <2> QED
    BY ONLY <2>1, <2>2, <2>3
<1>10. gets' = {<<j, IF fate[j] = "value" THEN "hit" ELSE "miss">> :
                  j \in {l \in 1 .. i : Recorded(l)}}
  <2>1. 1 .. i = 1 .. n \cup {i}
    BY <1>2
  <2>2. Recorded(i) <=> names[i] = "get" /\ ~ IsErr(e)
    BY DEF Recorded
  <2>3. (IF fate[i] = "value" THEN "hit" ELSE "miss")
          = IF e = "redis.Nil" \/ fate[i] = "failed" THEN "miss" ELSE "hit"
    BY <1>3 DEF Fate
  <2>4. CASE Recorded(i)
    <3>1. gets' = gets \cup {<<i, IF fate[i] = "value" THEN "hit" ELSE "miss">>}
      BY <2>2, <2>3, <2>4 DEF record
    <3> QED
      BY <1>1, <1>2, <2>1, <2>4, <3>1
  <2>5. CASE ~ Recorded(i)
    <3>1. gets' = gets
      BY <2>2, <2>5 DEF record
    <3> QED
      BY <1>1, <1>2, <2>1, <2>5, <3>1
  <2> QED
    BY <2>4, <2>5
<1> QED
  BY <1>7, <1>9, <1>10 DEF Recorded

\* A single command is recorded with what next returned, which is its error.
LEMMA SingleStep ==
  ASSUME HookInv, ProcessHook
  PROVE  HookInv'
<1>1. /\ at = "recording" /\ ~ pipelined /\ at' = "returned"
      /\ record(1, aggregate) /\ endSpan(aggregate)
      /\ UNCHANGED <<pipelined, names, fate, errs, aggregate>>
  BY DEF ProcessHook, outcome
<1>2. BatchInv /\ (Told \/ Untold) /\ durations = << >> /\ Len(names) = 1 /\ Batch = {1}
  <2>1. BatchInv /\ (Told \/ Untold) /\ durations = << >> /\ Len(names) = 1
    BY <1>1 DEF HookInv, BatchInv, ReplyInv, RecordInv
  <2> QED
    BY ONLY <2>1 DEF Batch
<1>3. Batch' = Batch /\ BatchInv' /\ (Told' \/ Untold')
  BY <1>1, <1>2 DEF Batch, BatchInv, Told, Untold
<1>4. /\ IsErr(aggregate) <=> fate[1] = "failed"
      /\ aggregate = "redis.Nil" <=> fate[1] = "missing"
  <2>1. fate[1] \in Fate
    BY <1>1, <1>2 DEF BatchInv
  <2>2. CASE Untold
    BY <1>2, <2>2 DEF Untold, IsErr
  <2>3. CASE Told
    BY <1>2, <2>1, <2>3 DEF Told, Tells, Replied, Fate, IsErr
  <2> QED
    BY <1>2, <2>2, <2>3
<1>5. /\ durations' \in Seq(Name \X BOOLEAN) /\ Len(durations') = 1
      /\ \A j \in 1 .. 1 : durations'[j] = <<names'[j], fate'[j] = "failed">>
      /\ gets' = {<<j, IF fate'[j] = "value" THEN "hit" ELSE "miss">> :
                    j \in {l \in 1 .. 1 : Recorded(l)'}}
  <2>1. 1 = Len(durations) + 1 /\ 1 <= Len(names)
    BY <1>2
  <2> QED
    BY <1>1, <1>4, <2>1, Recording
<1>6. RecordInv'
  BY <1>1, <1>2, <1>5 DEF RecordInv
<1>7. FailInv'
  BY <1>1, <1>2, <1>3, <1>4 DEF FailInv, endSpan
<1>8. ValueInv'
  BY <1>1 DEF HookInv, ValueInv, endSpan
<1> QED
  BY <1>1, <1>3, <1>6, <1>7, <1>8 DEF HookInv, ReplyInv

\* A turn of the loop records the next command of the pipeline.
LEMMA RecordStep ==
  ASSUME HookInv, RecordNext
  PROVE  HookInv'
<1>1. PICK e : e = IF errs[Len(durations) + 1] = "nil" THEN pipelineFallbackErr(aggregate, errs)
                   ELSE errs[Len(durations) + 1]
  OBVIOUS
<1>2. PICK i : i = Len(durations) + 1
  OBVIOUS
<1>3. /\ at = "recording" /\ pipelined /\ i <= Len(names) /\ record(i, e)
      /\ UNCHANGED <<at, pipelined, names, fate, errs, aggregate, span>>
  BY <1>1, <1>2 DEF RecordNext, outcome
<1>4. BatchInv /\ (Told \/ Untold) /\ Len(durations) \in Nat /\ Len(names) \in Nat
  BY <1>3 DEF HookInv, BatchInv, ReplyInv, RecordInv
<1>5. i \in Batch
  BY <1>2, <1>3, <1>4 DEF Batch
<1>6. /\ IsErr(e) <=> fate[i] = "failed"
      /\ e = "redis.Nil" <=> fate[i] = "missing"
  BY <1>1, <1>2, <1>3, <1>4, <1>5, ErrorTells
<1>7. /\ durations' \in Seq(Name \X BOOLEAN) /\ Len(durations') = i
      /\ \A j \in 1 .. i : durations'[j] = <<names'[j], fate'[j] = "failed">>
      /\ gets' = {<<j, IF fate'[j] = "value" THEN "hit" ELSE "miss">> :
                    j \in {l \in 1 .. i : Recorded(l)'}}
  BY <1>2, <1>3, <1>6, Recording
<1>8. RecordInv'
  BY <1>3, <1>7 DEF RecordInv
<1>9. Batch' = Batch /\ BatchInv' /\ (Told' \/ Untold')
  BY <1>3, <1>4 DEF Batch, BatchInv, Told, Untold
<1>10. ValueInv'
  BY <1>3 DEF HookInv, ValueInv
<1> QED
  BY <1>3, <1>8, <1>9, <1>10 DEF HookInv, ReplyInv, FailInv

\* After the last command the span ends, with the error of the pipeline.
LEMMA EndStep ==
  ASSUME HookInv, EndPipeline
  PROVE  HookInv'
<1>1. /\ at = "recording" /\ pipelined /\ Len(durations) = Len(names) /\ at' = "returned"
      /\ endSpan(pipelineSpanErr(aggregate, errs))
      /\ UNCHANGED <<pipelined, names, fate, errs, aggregate, durations, gets>>
  BY DEF EndPipeline, outcome
<1>2. BatchInv /\ (Told \/ Untold) /\ names # << >>
  BY <1>1 DEF HookInv, BatchInv, ReplyInv
<1>3. IsErr(pipelineSpanErr(aggregate, errs)) <=> \E i \in Batch : fate[i] = "failed"
  BY <1>1, <1>2, SpanErrorTells
<1>4. Batch' = Batch /\ BatchInv' /\ (Told' \/ Untold')
  BY <1>1, <1>2 DEF Batch, BatchInv, Told, Untold
<1>5. FailInv'
  BY <1>1, <1>3, <1>4 DEF FailInv, endSpan
<1>6. RecordInv'
  BY <1>1 DEF HookInv, RecordInv, Recorded
<1>7. ValueInv'
  BY <1>1 DEF HookInv, ValueInv, endSpan
<1> QED
  BY <1>1, <1>4, <1>5, <1>6, <1>7 DEF HookInv, ReplyInv

----------------------------------------------------------------------------
(* The theorems about the hook. *)

\* The invariant is inductive.
LEMMA Hooked ==
  Spec => []HookInv
<1>1. Init => HookInv
  <2>1. Init => ValueInv
    BY DEF Init, ValueInv, Err
  <2>2. Init => BatchInv
    BY BatchAssumption DEF Init, BatchInv
  <2> QED
    BY <2>1, <2>2 DEF Init, HookInv, ReplyInv, RecordInv, FailInv
<1>2. HookInv /\ [Next]_vars => HookInv'
  <2> SUFFICES ASSUME HookInv, [Next]_vars PROVE HookInv'
    OBVIOUS
  <2>1. CASE UNCHANGED vars
    BY <2>1 DEF vars, outcome, HookInv, BatchInv, ReplyInv, ValueInv, RecordInv, FailInv,
                Batch, Told, Untold, Recorded
  <2> QED
    BY <2>1, IssueStep, ReplyStep, SingleStep, RecordStep, EndStep DEF Next, Over
<1> QED
  BY <1>1, <1>2, PTL DEF Spec

\* A sequence that is no longer than a pipeline may be is of its type.
LEMMA Bounded ==
  ASSUME NEW S, NEW n \in 0 .. MaxBatch, NEW s \in [1 .. n -> S]
  PROVE  s \in BoundedSeq(S, MaxBatch)
BY DEF BoundedSeq, SeqOf

\* The variables of the hook are of their types.
THEOREM HookTypeCorrect ==
  Spec => []TypeOK
<1>1. HookInv => TypeOK
  <2> SUFFICES ASSUME HookInv PROVE TypeOK
    OBVIOUS
  <2>1. PICK n \in 0 .. MaxBatch : n = Len(names)
    BY BatchAssumption DEF HookInv, BatchInv
  <2>2. names \in BoundedSeq(Name, MaxBatch)
    BY <2>1, Bounded DEF HookInv, BatchInv
  <2>3. fate \in BoundedSeq(Fate, MaxBatch) /\ errs \in BoundedSeq(Err, MaxBatch)
    <3>1. CASE at \in {"idle", "sent"}
      <4>1. 0 \in 0 .. MaxBatch /\ << >> \in [1 .. 0 -> Fate] /\ << >> \in [1 .. 0 -> Err]
        BY BatchAssumption
      <4>2. fate = << >> /\ errs = << >>
        BY <3>1 DEF HookInv, ValueInv
      <4> QED
        BY <4>1, <4>2, Bounded
    <3>2. CASE at \in {"recording", "returned"}
      <4>1. fate \in [1 .. n -> Fate] /\ errs \in [1 .. n -> Err]
        BY <2>1, <3>2 DEF HookInv, BatchInv, Batch
      <4> QED
        BY <2>1, <4>1, Bounded
    <3> QED
      BY <3>1, <3>2 DEF HookInv
  <2>4. durations \in Seq(Name \X BOOLEAN) /\ Len(durations) <= Len(names)
    BY DEF HookInv, BatchInv, RecordInv
  <2>5. gets \subseteq (1 .. MaxBatch) \X {"hit", "miss"}
    <3>1. CASE at \in {"idle", "sent"}
      BY <3>1 DEF HookInv, RecordInv
    <3>2. CASE at \in {"recording", "returned"}
      <4>1. gets = {<<i, IF fate[i] = "value" THEN "hit" ELSE "miss">> :
                      i \in {j \in 1 .. Len(durations) : Recorded(j)}}
        BY <3>2 DEF HookInv, RecordInv
      <4>2. \A i \in 1 .. Len(durations) : i \in 1 .. MaxBatch
        BY <2>1, <2>4, BatchAssumption
      <4> QED
        BY <4>1, <4>2
    <3> QED
      BY <3>1, <3>2 DEF HookInv
  <2> QED
    BY <2>2, <2>3, <2>4, <2>5 DEF HookInv, ValueInv, TypeOK
<1> QED
  BY <1>1, Hooked, PTL

\* For pipelines of any length, and any set of commands: the durations and the
\* hit counter tell the fate of every command, whatever go-redis answered with.
THEOREM MetricsTell ==
  Spec => []MetricsTellTheFate
<1>1. HookInv => MetricsTellTheFate
  <2> SUFFICES ASSUME HookInv PROVE MetricsTellTheFate
    OBVIOUS
  <2>1. /\ names \in Seq(Name) /\ durations \in Seq(Name \X BOOLEAN)
        /\ DOMAIN names = Batch /\ DOMAIN durations = 1 .. Len(durations)
    BY DEF HookInv, BatchInv, RecordInv, Batch
  <2>2. CASE at \in {"idle", "sent"}
    <3>1. DOMAIN durations = {}
      BY <2>2 DEF HookInv, RecordInv
    <3> QED
      BY <2>2, <3>1 DEF MetricsTellTheFate
  <2>3. CASE at \in {"recording", "returned"}
    <3>1. \A i \in DOMAIN durations : durations[i] = <<names[i], fate[i] = "failed">>
      BY <2>1, <2>3 DEF HookInv, RecordInv
    <3>2. at = "returned" => 1 .. Len(durations) = DOMAIN names
      BY <2>1 DEF HookInv, RecordInv, Batch
    <3>3. gets = {<<i, IF fate[i] = "value" THEN "hit" ELSE "miss">> :
                    i \in {j \in 1 .. Len(durations) : Recorded(j)}}
      BY <2>3 DEF HookInv, RecordInv
    <3> QED
      BY ONLY <3>1, <3>2, <3>3 DEF MetricsTellTheFate, Recorded
  <2> QED
    BY <2>2, <2>3 DEF HookInv
<1> QED
  BY <1>1, Hooked, PTL

\* And its span is failed exactly when a command of it is.
THEOREM SpanTells ==
  Spec => []SpanTellsTheFate
<1>1. HookInv => SpanTellsTheFate
  BY DEF HookInv, BatchInv, FailInv, SpanTellsTheFate
<1> QED
  BY <1>1, Hooked, PTL

=============================================================================
