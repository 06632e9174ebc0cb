SPECIFICATION Spec
CONSTANTS
  Runs = {1, 2, 3}
  LaneOf <- AgentTwoUsers
  NoRun = NoRun
  Callers = {}
  Awaited = {1, 2}
  NoStrand = NoStrand
  MaxPendingUsers = 2
  MaxPendingAgents = 1
  MaxFences = 1
  MaxAttempts = 2
  MaxDrive = 0
  MaxEvictions = 0
INVARIANTS
  ActiveSlot
  ParkedSlot
  QueuesHoldWaitingRuns
PROPERTIES
  SettlementIsFinal
  PersonGoesNext
CONSTRAINT NoFencesOneStop
CHECK_DEADLOCK FALSE
