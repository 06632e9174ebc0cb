SPECIFICATION Spec
CONSTANTS
  Turns = {t1, t2}
  MaxSends = 1
  MaxLooks = 1
  Entities <- Conversation
  Contributions <- OneEach
  Weight <- EvenWeight
  VisibleLimit = 1
  Observers = {o1}
  OldObservers = {o1}
  Drainers = {}
  ReplayMaxEvents = 1
  ReplayMaxBytes = 9
  Batch = 1
  MaxLog = 4
  MaxEvictions = 0
  MaxDrops = 1
INVARIANTS
  ShowsSettledTurns
SYMMETRY TurnSymmetry
CHECK_DEADLOCK FALSE
