SPECIFICATION AppSpec
CONSTANTS
  N = 2
  HasInit <- OnlyFirst
  Errors = {"boom"}
  WrapsCanceled = {}
PROPERTY AskedAppEnds
