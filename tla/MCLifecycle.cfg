SPECIFICATION Spec
CONSTANTS
  N = 2
  HasInit <- AllButFirst
  Errors = {"boom"}
INVARIANTS TypeOK StopOrder DrainedOrReported TriggerGenuine SendNeverBlocks StopReported
PROPERTIES FirstTriggerWins RunEnds NoGoroutineLeak KeepsContract
