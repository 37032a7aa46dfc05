SPECIFICATION ServiceSpec
CONSTANTS
  Request = {r1, r2}
  Task = {t1}
INVARIANTS StartOutlivesServe NilStopMeansQuiet PoolIsReleased RefusedOnlyPastDeadline
PROPERTY ServiceStops
