SPECIFICATION FairSpec
CONSTANTS
  Created = {a, b}
  Tasks = {a, b}
  Idle = idle
  MaxPriorities = 2
  Ticks = 4
  Overflows = 1
  EventLists = {}
  Controllers = {a}
  Receivers = {b}
  MaxNotify = 1
  MaxNest = 1
  MaxPended = 1
  Stray = FALSE
INVARIANTS Inv HighestRunning DelaysRight NotificationKept
PROPERTIES TurnComes
