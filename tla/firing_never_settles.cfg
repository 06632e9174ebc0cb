SPECIFICATION FairSpec
CONSTANTS
  None = None
  Chat = Chat
  Routine = {1}
  Scheduled = {}
  Unreachable = {}
  Asks = {a1}
  Hooks = {a1}
  AskOf <- FirstRoutine
  Period = 1
  Deferral = 1
  Backoff <- Growing
  PauseAfter = 2
  Lease = 2
  Timeout = 1
  Recovery = 1
  Batch = 2
  QueueLimit = 1
  MaxChats = 0
  MaxEdits = 0
  MaxEvictions = 0
PROPERTIES
  EveryFiringSettles
