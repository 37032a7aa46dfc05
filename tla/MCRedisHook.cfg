SPECIFICATION Spec
CONSTANTS
  Name = {"get", "set"}
  MaxBatch = 3
INVARIANTS MetricsTellTheFate SpanTellsTheFate
