SPECIFICATION FairSpec
CONSTANTS
  Approvals = {}
  Presses = {p1, p2}
  Handoffs = {}
  Tasks = {}
  Chats = {c1}
  None = None
  PressLimit = 1
  InputLimit = 2
  ReceiptLimit = 1
  MaxFaults = 2
INVARIANTS
  SomebodyComes
PROPERTIES
  AnswerIsCarried
CHECK_DEADLOCK FALSE
