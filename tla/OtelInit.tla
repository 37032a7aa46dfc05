------------------------------ MODULE OtelInit ------------------------------
(***************************************************************************)
(* adapters/otelinit/setup.go: Setup installs the OpenTelemetry globals    *)
(* and returns a shutdown function, which a deferred call, a signal        *)
(* handler and others may call at the same time.                           *)
(*                                                                         *)
(* The providers are the service's: each may have a Shutdown method, which *)
(* answers once its exporter has flushed, perhaps with an error.           *)
(***************************************************************************)
EXTENDS Naturals, Sequences, SequencesExt

CONSTANT Caller   \* the goroutines that call shutdown

VARIABLES
  given,       \* the providers Setup was given
  closable,    \* those that have a Shutdown
  globals,     \* what is installed
  setup,       \* what Setup returned
  once,        \* the sync.Once
  answers,     \* what each turn of the loop came to, in order
  shutdownErr, \* the variable the closure keeps
  caller,      \* where each caller is
  answer       \* what it got

otelVars == <<given, closable, globals, setup, once, answers, shutdownErr, caller, answer>>

OtelTypeOK ==
  /\ closable \subseteq Range(given) /\ globals \subseteq {"tracer", "meter", "propagator"}
  /\ setup \in {"none", "error", "nil"} /\ once \in {"new", "running", "done"}
  /\ answers \in Seq({"nil", "tracer", "meter"})
  /\ shutdownErr \in {"nil", "tracer", "meter"}
  /\ caller \in [Caller -> {"idle", "called", "returned"}]
  /\ answer \in [Caller -> {"none", "nil", "tracer", "meter"}]

OtelInit ==
  /\ given \in {<< >>, <<"meter">>, <<"tracer">>, <<"tracer", "meter">>}
  /\ closable \in SUBSET Range(given)
  /\ globals = {} /\ setup = "none" /\ once = "new"
  /\ answers = << >> /\ shutdownErr = "nil"
  /\ caller = [c \in Caller |-> "idle"] /\ answer = [c \in Caller |-> "none"]

\* Without a tracer provider nothing is installed.
Setup ==
  /\ setup = "none"
  /\ IF "tracer" \in Range(given)
     THEN setup' = "nil" /\ globals' = Range(given) \cup {"propagator"}
     ELSE setup' = "error" /\ UNCHANGED globals
  /\ UNCHANGED <<given, closable, once, answers, shutdownErr, caller, answer>>

\* The tracer provider, then that of the meter if there is one.
shutdowners == given

\* The provider whose turn it is answers nil, or its error, which is named after
\* it; one without a Shutdown is passed over.
Turn ==
  LET p == shutdowners[Len(answers) + 1]
  IN IF p \in closable THEN {"nil", p} ELSE {"nil"}

\* The first caller runs the function of once.Do, the others wait for it.
ShutdownCalled(c) ==
  /\ setup = "nil" /\ caller[c] = "idle"
  /\ caller' = [caller EXCEPT ![c] = "called"]
  /\ once' = IF once = "new" THEN "running" ELSE once
  /\ UNCHANGED <<given, closable, globals, setup, answers, shutdownErr, answer>>

\* [slip] The first error ends the loop.
ProviderShutsDownOrFails ==
  /\ once = "running" /\ Len(answers) < Len(shutdowners)
  /\ \E e \in Turn :
       /\ answers' = Append(answers, e)
       /\ shutdownErr' = e
       /\ once' = IF e = "nil" THEN once ELSE "done"
  /\ UNCHANGED <<given, closable, globals, setup, caller, answer>>

\* One turn of the loop.
ProviderShutsDown ==
  /\ once = "running" /\ Len(answers) < Len(shutdowners)
  /\ \E e \in Turn :
       /\ answers' = Append(answers, e)
       /\ shutdownErr' = IF e # "nil" /\ shutdownErr = "nil" THEN e ELSE shutdownErr
  /\ UNCHANGED <<given, closable, globals, setup, once, caller, answer>>

OnceDone ==
  /\ once = "running" /\ Len(answers) = Len(shutdowners)
  /\ once' = "done"
  /\ UNCHANGED <<given, closable, globals, setup, answers, shutdownErr, caller, answer>>

\* [slip] A flag in place of the sync.Once: who comes second does not wait.
ShutdownReturnsAtOnce(c) ==
  /\ caller[c] = "called" /\ (once = "done" \/ \E d \in Caller \ {c} : caller[d] = "called")
  /\ caller' = [caller EXCEPT ![c] = "returned"]
  /\ answer' = [answer EXCEPT ![c] = shutdownErr]
  /\ UNCHANGED <<given, closable, globals, setup, once, answers, shutdownErr>>

ShutdownReturns(c) ==
  /\ caller[c] = "called" /\ once = "done"
  /\ caller' = [caller EXCEPT ![c] = "returned"]
  /\ answer' = [answer EXCEPT ![c] = shutdownErr]
  /\ UNCHANGED <<given, closable, globals, setup, once, answers, shutdownErr>>

OtelNext ==
  \/ Setup \/ ProviderShutsDown \/ OnceDone
  \/ \E c \in Caller : ShutdownCalled(c) \/ ShutdownReturns(c)

\* Has the Shutdown of p answered?
Down(p) == p \in closable /\ \E i \in DOMAIN answers : shutdowners[i] = p

----------------------------------------------------------------------------
\* Whoever called shutdown, first or while another does, gets an answer when all
\* providers have flushed, though one of them failed, and gets the first of
\* their errors (setup.go:23-26, 55-66).
ShutdownTellsAll ==
  \A c \in Caller : caller[c] = "returned" =>
    /\ \A p \in closable : Down(p)
    /\ LET k == SelectInSeq(answers, LAMBDA e : e # "nil")
       IN answer[c] = IF k = 0 THEN "nil" ELSE answers[k]
=============================================================================
