SPECIFICATION Spec
CONSTANTS
  First <- PairFirst
  Owns <- PairOwns
  Tasks = {"a", "b"}
  Idle = "idle"
  MaxPriorities = 3
  Ticks = 4
  Overflows = 2
  EventLists <- MCLists
  Queues = {"one", "two"}
  Mutexes = {}
  Length <- MCLength
  Items = {1, 2}
  Uses <- PairUses
  Handlers <- PairHandlers
  Aborters = {"a"}
  MaxCount = 1
  MaxPended = 1
  MaxWaited = 2
INVARIANTS Inv NoLostWakeup HighestRunning
PROPERTIES FailsInTime FifoSpec
