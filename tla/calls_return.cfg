SPECIFICATION FairSpec
CONSTANTS
  Runs = {1, 2}
  LaneOf <- AgentThenUser
  NoRun = NoRun
  Callers = {c1}
  Awaited = {1}
  NoStrand = NoStrand
  MaxPendingUsers = 1
  MaxPendingAgents = 1
  MaxFences = 1
  MaxAttempts = 2
  MaxDrive = 0
  MaxEvictions = 0
INVARIANTS
  TypeOK
  NoLostWakeup
  ReservedForACaller
PROPERTIES
  EveryCallReturns
CHECK_DEADLOCK FALSE
