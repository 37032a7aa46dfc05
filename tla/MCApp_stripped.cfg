SPECIFICATION AppSpec
CONSTANTS
  N = 2
  HasInit <- OnlyFirst
  Errors = {"boom", "mixed"}
  WrapsCanceled = {"mixed"}
INVARIANT OnlyCanceledStripped
