SPECIFICATION TelemetrySpec
CONSTANTS
  Caller = {c1, c2}
  Application <- Applications
  Route <- Routes
SYMMETRY Callers
INVARIANTS CommentIsRead SpanTellsTheStatement ShutdownTellsAll
