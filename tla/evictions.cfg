SPECIFICATION FairSpec
CONSTANTS
  Runs = {1, 2}
  LaneOf <- BackgroundThenUser
  NoRun = NoRun
  Callers = {}
  Awaited = {1, 2}
  NoStrand = NoStrand
  MaxPendingUsers = 1
  MaxPendingAgents = 1
  MaxFences = 1
  MaxAttempts = 2
  MaxDrive = 1
  MaxEvictions = 2
INVARIANTS
  SlotInv
  OneTurnAtATime
  OwedWorkHasAlarm
  FencedNeverRan
PROPERTIES
  ImplementsTurnSlot
  EveryTurnSettles
CHECK_DEADLOCK FALSE
