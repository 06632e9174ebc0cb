SPECIFICATION OutboxSpec
CONSTANTS
  Entities = {"light", "heavy"}
  Contributions <- AloneOrTogether
  Weight <- LightAndHeavy
  Observers = {o1}
  Drainers = {s1}
  ReplayMaxEvents = 2
  ReplayMaxBytes = 3
  Batch = 2
  MaxLog = 4
  MaxEvictions = 1
INVARIANTS
  WindowHoldsWhatIsOwed
  BroadcastIsExact
  NoSocketLeftBehind
  OutboxInv
CHECK_DEADLOCK FALSE
