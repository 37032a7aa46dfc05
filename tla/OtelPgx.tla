------------------------------- MODULE OtelPgx -------------------------------
(***************************************************************************)
(* adapters/otelpgx: the span and the SQL comment that Pool and Tx give    *)
(* each statement, while the globals that OtelInit installs come and go.   *)
(*                                                                         *)
(* pgx is external: a statement is done or fails, which Query and Exec     *)
(* return and QueryRow keeps for Scan.  So is the SDK: its tracers record  *)
(* nothing before it is installed, nor what ends after its Shutdown.       *)
(* A string is a sequence of characters: bytes, and the words that are not *)
(* spelt here, the caller's SQL and the names of the fields among them.    *)
(***************************************************************************)
EXTENDS OtelInit

CONSTANTS
  Application,  \* what WithApplication may be given
  Route         \* what routeFromContext may return

Byte == 0 .. 255

\* Words are the numbers behind the bytes.
ApplicationName == 256
RouteName == 257
TraceparentName == 258
Identity == 259  \* what traceparentFromContext makes of a valid span context
SQL == 260

FieldName == {ApplicationName, RouteName, TraceparentName}

\* The words that a value may hold, each of letters, digits and dashes alone.
Word == FieldName \cup {Identity}

Char == Byte \cup Word

ASSUME ValueAssumption == Application \cup Route \subseteq Seq(Char)

VARIABLES
  application,  \* of the config
  override,     \* was WithTracerProvider given?
  tx,           \* where the transaction is
  call          \* the call at hand

pgxVars == <<application, override, tx, call>>
telemetryVars == <<otelVars, pgxVars>>

NoCall == [at |-> "idle", op |-> "none", fields |-> << >>, sql |-> << >>,
           tracer |-> "none", span |-> "none", fate |-> "none"]

TelemetryInit ==
  /\ OtelInit
  /\ application \in Application /\ override \in BOOLEAN
  /\ tx = "none" /\ call = NoCall

----------------------------------------------------------------------------
\* The comment.

Space == 32
Percent == 37
Quote == 39
Star == 42
Plus == 43
Comma == 44
Slash == 47
Equals == 61

\* What url.QueryEscape keeps: letters, digits, - . _ ~, and the words of them.
Kept == (48 .. 57) \cup (65 .. 90) \cup (97 .. 122) \cup {45, 46, 95, 126} \cup Word

\* A digit of a hexadecimal number.
Digit(n) == IF n < 10 THEN 48 + n ELSE 55 + n

PercentCode(c) == <<Percent, Digit(c \div 16), Digit(c % 16)>>

QueryEscape(v) ==
  FlattenSeq([i \in DOMAIN v |-> IF v[i] = Space THEN <<Plus>>
                                 ELSE IF v[i] \in Kept THEN <<v[i]>> ELSE PercentCode(v[i])])

\* [slip] The plus that stands for a space is left.
escapedPlus(v) == QueryEscape(v)

\* strings.ReplaceAll(url.QueryEscape(v), "+", "%20")
escaped(v) ==
  LET q == QueryEscape(v)
  IN FlattenSeq([i \in DOMAIN q |-> IF q[i] = Plus THEN PercentCode(Space) ELSE <<q[i]>>])

\* What add makes of the pairs so far, with the comma of the join; the calls of
\* add are in the order that sort.Strings leaves.
add(pairs, k, v) ==
  IF v = << >> THEN pairs
  ELSE pairs \o (IF pairs = << >> THEN << >> ELSE <<Comma>>)
             \o <<k, Equals, Quote>> \o escaped(v) \o <<Quote>>

encode(f) ==
  LET pairs == add(add(add(<< >>, ApplicationName, f[ApplicationName]),
                       RouteName, f[RouteName]), TraceparentName, f[TraceparentName])
  IN IF pairs = << >> THEN << >> ELSE <<Slash, Star>> \o pairs \o <<Star, Slash>>

----------------------------------------------------------------------------
\* The calls.

\* Of the tracers there are, which one records?
tracer == IF override THEN "own"
          ELSE IF "tracer" \in globals /\ ~ Down("tracer") THEN "global" ELSE "noop"

\* before, with a route and perhaps a span from the caller's context.
before(op, route, traced) ==
  LET f == [k \in FieldName |->
              CASE k = ApplicationName -> application
                [] k = RouteName -> route
                [] k = TraceparentName -> IF traced THEN <<Identity>> ELSE << >>]
  IN /\ call' = [at |-> "sent", op |-> op, fields |-> f, sql |-> encode(f) \o <<SQL>>,
                 tracer |-> tracer, span |-> "open", fate |-> "none"]
     /\ UNCHANGED <<otelVars, application, override, tx>>

Statement == {"Query", "QueryRow", "Exec"}

PoolCall(op, route, traced) == call.at = "idle" /\ before(op, route, traced)

TxCall(op, route, traced) == call.at = "idle" /\ tx = "open" /\ before(op, route, traced)

\* SendBatch, of Pool or Tx, has neither a comment nor a span.
SendBatch ==
  /\ call.at = "idle"
  /\ call' = [NoCall EXCEPT !.at = "sent", !.op = "SendBatch", !.sql = <<SQL>>]
  /\ UNCHANGED <<otelVars, application, override, tx>>

BeginTx ==
  /\ call.at = "idle" /\ tx = "none" /\ tx' \in {"open", "none"}
  /\ UNCHANGED <<otelVars, application, override, call>>

\* Commit or Rollback.
EndTx ==
  /\ call.at = "idle" /\ tx = "open" /\ tx' = "none"
  /\ UNCHANGED <<otelVars, application, override, call>>

\* The inner call has been made, and pgx returned an error or nil.
innerError(op, fate) == fate = "failed" /\ op \in {"Query", "Exec"}

\* [slip] A failed call returns before its span is ended.
endUnlessFailed(err) ==
  IF err \/ call.tracer = "noop" \/ (call.tracer = "global" /\ Down("tracer"))
  THEN "lost" ELSE "ok"

\* end: what becomes of the span.
end(err) ==
  IF call.tracer = "noop" \/ (call.tracer = "global" /\ Down("tracer")) THEN "lost"
  ELSE IF err THEN "error" ELSE "ok"

\* The comment has served its turn.
Return ==
  /\ call.at = "sent"
  /\ \E fate \in {"done", "failed"} :
       call' = [call EXCEPT !.at = "returned", !.fate = fate, !.sql = << >>, !.fields = << >>,
                  !.span = IF @ = "open" THEN end(innerError(call.op, fate)) ELSE @]
  /\ UNCHANGED <<otelVars, application, override, tx>>

Again ==
  /\ call.at = "returned" /\ call' = NoCall
  /\ UNCHANGED <<otelVars, application, override, tx>>

TelemetryNext ==
  \/ OtelNext /\ UNCHANGED pgxVars
  \/ \E op \in Statement, route \in Route, traced \in BOOLEAN :
       PoolCall(op, route, traced) \/ TxCall(op, route, traced)
  \/ SendBatch \/ BeginTx \/ EndTx \/ Return \/ Again

TelemetrySpec == TelemetryInit /\ [][TelemetryNext]_telemetryVars

----------------------------------------------------------------------------
\* How the comment is read by others: Postgres skips to the first end of the
\* comment, and a tool takes what stands between quotes, percent-decoded.

FirstFrom(s, i, test(_)) == CHOOSE j \in i .. Len(s) :
                              test(j) /\ \A k \in i .. j - 1 : ~ test(k)

HexValue(d) == IF d < 65 THEN d - 48 ELSE d - 55

\* What is read, and the code at hand, after one more character.
Reading(r, c) ==
  IF Len(r.code) = 2
    THEN [out |-> Append(r.out, 16 * HexValue(r.code[2]) + HexValue(c)), code |-> << >>]
  ELSE IF r.code # << >> \/ c = Percent THEN [out |-> r.out, code |-> Append(r.code, c)]
  ELSE [out |-> Append(r.out, c), code |-> << >>]

Unescape(s) ==
  LET read[i \in 0 .. Len(s)] ==
        IF i = 0 THEN [out |-> << >>, code |-> << >>] ELSE Reading(read[i - 1], s[i])
  IN read[Len(s)].out

HasComment(sql) == IsPrefix(<<Slash, Star>>, sql)

\* The position after the comment.
Behind(sql) ==
  FirstFrom(sql, 3, LAMBDA j : j < Len(sql) /\ sql[j] = Star /\ sql[j + 1] = Slash) + 2

\* What Postgres executes.
Uncommented(sql) ==
  IF HasComment(sql) THEN SubSeq(sql, Behind(sql), Len(sql)) ELSE sql

\* What stands in quotes behind a name and an equals sign.
FieldOf(sql, k) ==
  LET named == {i \in 1 .. Len(sql) - 1 : sql[i] = k /\ sql[i + 1] = Equals}
      first == Min(named) + 3
      last == FirstFrom(sql, first, LAMBDA j : sql[j] = Quote)
  IN IF named = {} THEN << >> ELSE Unescape(SubSeq(sql, first, last - 1))

ReadsAs(sql, fields) == \A k \in FieldName : FieldOf(sql, k) = fields[k]

NoFields == [k \in FieldName |-> << >>]

\* Whatever the route and the application contain, quotes, spaces and ends of
\* comments included, Postgres executes the caller's SQL and the comment of a
\* traced statement reads back as the fields of the call; one without a valid span
\* context says as much or nothing at all (sqlcomment.go:18-29, options.go:77-84).
CommentIsRead ==
  call.at = "sent" /\ call.op \in Statement =>
    /\ Uncommented(call.sql) = <<SQL>>
    /\ \/ ReadsAs(call.sql, call.fields)
       \/ call.fields[TraceparentName] = << >> /\ ReadsAs(call.sql, NoFields)

\* A statement that begins and ends between Setup and shutdown, or whose pool has
\* a provider of its own, has a span, though it fails; the span says error
\* exactly when the call returned one, which QueryRow never does, and a batch has
\* none (pool.go:62-97, options.go:62-68, 85-103).
SpanTellsTheStatement ==
  call.at = "returned" =>
    IF call.op = "SendBatch" THEN call.span = "none"
    ELSE /\ override \/ ("tracer" \in globals /\ call.tracer # "noop" /\ ~ Down("tracer"))
              => call.span # "lost"
         /\ call.span # "lost" =>
              (call.span = "error" <=> call.fate = "failed" /\ call.op # "QueryRow")
==============================================================================
