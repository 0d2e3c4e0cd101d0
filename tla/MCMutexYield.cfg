SPECIFICATION Spec
CONSTANTS
  First <- TrioFirst
  Owns <- TrioOwnsSame
  Tasks = {"lo", "mid", "hi"}
  Idle = "idle"
  MaxPriorities = 4
  Ticks = 3
  Overflows = 1
  EventLists <- MCLists
  Queues = {"m", "n"}
  Mutexes = {"m", "n"}
  Length <- MCLength
  Items = {1}
  Uses <- TrioUses
  Handlers = {}
  Aborters = {}
  MaxCount = 1
  MaxPended = 1
  MaxWaited = 1
INVARIANTS HighestRunning
