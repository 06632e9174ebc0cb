SPECIFICATION FairSpec
CONSTANTS
  Turns = {t1}
  MaxSends = 1
  MaxLooks = 1
  Entities <- Conversation
  Contributions <- OneEach
  Weight <- EvenWeight
  VisibleLimit = 1
  Observers = {o1}
  OldObservers = {}
  Drainers = {}
  ReplayMaxEvents = 2
  ReplayMaxBytes = 9
  Batch = 1
  MaxLog = 3
  MaxEvictions = 1
  MaxDrops = 2
INVARIANTS
  StreamHasNoGap
  ShowsSettledTurns
PROPERTIES
  NeverGoesBack
  EveryClientCatchesUp
CHECK_DEADLOCK FALSE
