SPECIFICATION Spec
CONSTANTS
  N = 2
  HasInit <- AllButFirst
  Errors = {"boom"}
INVARIANT OnlyEnteredStopped
