SPECIFICATION CoherenceSpec
CONSTANTS
  Keys = {"user:42"}
  Buffer = 1
  MaxPublish = 2
  Prefix <- UserPrefixes
  Key <- UserKeys
  Value = {"alice", "bob"}
  DefaultTTL <- Defaults
  MyPrefix <- D
  MyKey <- K
  MyValue = "alice"
  MyMessage = "user:42"
  MaxSibling = 1
INVARIANTS HandledInOrder NothingMissed HandlerSeesTheDelete
PROPERTIES CachesKeepTheirContract DemoEnds
