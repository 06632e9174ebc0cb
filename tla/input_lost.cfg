SPECIFICATION Spec
CONSTANTS
  Approvals = {a1}
  Presses = {}
  Handoffs = {w1}
  Tasks = {}
  Chats = {c1}
  None = None
  PressLimit = 1
  InputLimit = 1
  ReceiptLimit = 1
  MaxFaults = 2
INVARIANTS
  NeverLost
CHECK_DEADLOCK FALSE
