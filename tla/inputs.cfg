SPECIFICATION Spec
CONSTANTS
  Approvals = {a1}
  Presses = {}
  Handoffs = {w1}
  Tasks = {k1}
  Chats = {c1, c2}
  None = None
  PressLimit = 1
  InputLimit = 1
  ReceiptLimit = 1
  MaxFaults = 2
INVARIANTS
  TypeOK
  LostOnlyAstray
  ToldOnce
  DeliversSomething
  DispatchFollowsTheDecision
CHECK_DEADLOCK FALSE
