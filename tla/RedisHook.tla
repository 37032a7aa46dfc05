----------------------------- MODULE RedisHook ------------------------------
(***************************************************************************)
(* adapters/otelredis/hook.go: the span and the metrics of one call on an  *)
(* instrumented Redis client, a single command or a pipeline.              *)
(*                                                                         *)
(* go-redis is external: it leaves an error on each command and returns an *)
(* aggregate.  fate is what really became of each command, which the hook  *)
(* never sees and its telemetry must tell.                                 *)
(***************************************************************************)
EXTENDS Naturals, Sequences, SequencesExt

CONSTANTS
  Name,     \* the commands: "get" and others
  MaxBatch  \* bound: the commands of a pipeline

ASSUME BatchAssumption == MaxBatch \in Nat \ {0}

Fate == {"value", "missing", "failed"}
Err  == {"nil", "redis.Nil", "command", "transport"}

VARIABLES
  at,         \* where the call is
  pipelined,  \* is it a pipeline?
  names,      \* the names of its commands
  fate,       \* what became of each
  errs,       \* cmd.Err() of each
  aggregate,  \* the error that next returned
  durations,  \* the duration histogram: <<command, error attribute>>
  gets,       \* the hit/miss counter: <<index of the command, result>>
  span        \* the span

outcome == <<fate, errs, aggregate>>
vars == <<at, pipelined, names, outcome, durations, gets, span>>

TypeOK ==
  /\ at \in {"idle", "sent", "recording", "returned"}
  /\ pipelined \in BOOLEAN
  /\ names \in BoundedSeq(Name, MaxBatch)
  /\ fate \in BoundedSeq(Fate, MaxBatch)
  /\ errs \in BoundedSeq(Err, MaxBatch)
  /\ aggregate \in Err
  /\ durations \in Seq(Name \X BOOLEAN) /\ Len(durations) <= Len(names)
  /\ gets \subseteq (1 .. MaxBatch) \X {"hit", "miss"}
  /\ span \in {"none", "open", "ok", "error"}

Init ==
  /\ at = "idle" /\ pipelined = FALSE /\ names = << >>
  /\ fate = << >> /\ errs = << >> /\ aggregate = "nil"
  /\ durations = << >> /\ gets = {} /\ span = "none"

IsErr(e) == e \notin {"nil", "redis.Nil"}

----------------------------------------------------------------------------
\* go-redis.

\* cmdsFirstErr.
FirstErr(es) ==
  LET k == SelectInSeq(es, LAMBDA e : e # "nil")
  IN IF k = 0 THEN "nil" ELSE es[k]

Replied(f) == CASE f = "value"   -> "nil"
                [] f = "missing" -> "redis.Nil"
                [] f = "failed"  -> "command"

\* Every command had its reply.
Executed(f) ==
  /\ errs' = [i \in DOMAIN f |-> Replied(f[i])]
  /\ aggregate' = FirstErr(errs')

\* The connection broke before the reply to command k: that command and the
\* ones after it carry the error.
Broken(f) ==
  \E k \in DOMAIN f :
    /\ \A i \in k .. Len(f) : f[i] = "failed"
    /\ errs' = [i \in DOMAIN f |-> IF i < k THEN Replied(f[i]) ELSE "transport"]
    /\ aggregate' \in {"transport", FirstErr(errs')}

\* No connection: no command was sent, and none carries an error.
Unsent(f) ==
  /\ \A i \in DOMAIN f : f[i] = "failed"
  /\ errs' = [i \in DOMAIN f |-> "nil"]
  /\ aggregate' = "transport"

Reply ==
  /\ at = "sent"
  /\ \E f \in [1 .. Len(names) -> Fate] :
       /\ fate' = f
       /\ Executed(f) \/ Broken(f) \/ Unsent(f)
  /\ at' = "recording"
  /\ UNCHANGED <<pipelined, names, durations, gets, span>>

----------------------------------------------------------------------------
\* The hook.

\* [slip] The aggregate is trusted for the whole batch.
pipelineSpanErrAggregate(agg, es) == agg

pipelineSpanErr(agg, es) ==
  LET k == SelectInSeq(es, IsErr) IN IF k = 0 THEN agg ELSE es[k]

\* [slip] Commands that carry errors do not keep it from the others.
pipelineFallbackErrAlways(agg, es) == IF IsErr(agg) THEN agg ELSE "nil"

pipelineFallbackErr(agg, es) ==
  IF IsErr(agg) /\ \A i \in DOMAIN es : es[i] = "nil" THEN agg ELSE "nil"

Issue ==
  /\ at = "idle" /\ at' = "sent"
  /\ pipelined' \in BOOLEAN
  /\ names' \in BoundedSeq(Name, IF pipelined' THEN MaxBatch ELSE 1) \ {<< >>}
  /\ span' = "open"
  /\ UNCHANGED <<outcome, durations, gets>>

\* [slip] Any error on a GET is a miss.
recordFailureMisses(i, e) ==
  /\ durations' = Append(durations, <<names[i], IsErr(e)>>)
  /\ gets' = IF names[i] = "get"
             THEN gets \cup {<<i, IF e = "nil" THEN "hit" ELSE "miss">>}
             ELSE gets

\* record, of the i-th command with the error e.
record(i, e) ==
  /\ durations' = Append(durations, <<names[i], IsErr(e)>>)
  /\ gets' = IF names[i] = "get" /\ ~ IsErr(e)
             THEN gets \cup {<<i, IF e = "redis.Nil" THEN "miss" ELSE "hit">>}
             ELSE gets

\* end, of startSpan.
endSpan(e) == span' = IF IsErr(e) THEN "error" ELSE "ok"

ProcessHook ==
  /\ at = "recording" /\ ~ pipelined
  /\ record(1, aggregate) /\ endSpan(aggregate)
  /\ at' = "returned" /\ UNCHANGED <<pipelined, names, outcome>>

\* One turn of the loop of ProcessPipelineHook.
RecordNext ==
  LET i == Len(durations) + 1
      fallback == pipelineFallbackErr(aggregate, errs)
  IN /\ at = "recording" /\ pipelined /\ i <= Len(names)
     /\ record(i, IF errs[i] = "nil" THEN fallback ELSE errs[i])
     /\ UNCHANGED <<at, pipelined, names, outcome, span>>

EndPipeline ==
  /\ at = "recording" /\ pipelined /\ Len(durations) = Len(names)
  /\ endSpan(pipelineSpanErr(aggregate, errs))
  /\ at' = "returned" /\ UNCHANGED <<pipelined, names, outcome, durations, gets>>

Over == at = "returned" /\ UNCHANGED vars

Next == Issue \/ Reply \/ ProcessHook \/ RecordNext \/ EndPipeline \/ Over

Spec == Init /\ [][Next]_vars

----------------------------------------------------------------------------
\* The metrics tell what became of each command, whatever mixture of per-command
\* errors and aggregate go-redis answered with: the error attribute of each
\* duration, a missing key being no error, and the hit counter, with nothing for
\* a GET that failed, so that an outage does not change the hit ratio
\* (hook.go:46-52, 112-121).
MetricsTellTheFate ==
  /\ \A i \in DOMAIN durations : durations[i] = <<names[i], fate[i] = "failed">>
  /\ at = "returned" =>
       gets = {<<i, IF fate[i] = "value" THEN "hit" ELSE "miss">> :
                 i \in {j \in DOMAIN names : names[j] = "get" /\ fate[j] # "failed"}}

\* The span of a call is failed exactly when one of its commands is, even behind
\* a miss that came first (hook.go:95-101).
SpanTellsTheFate ==
  at = "returned" => (span = "error" <=> \E i \in DOMAIN fate : fate[i] = "failed")
=============================================================================
