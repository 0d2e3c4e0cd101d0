SPECIFICATION FairSpec
CONSTANTS
  Num = 3
  MaxCalls = 7
INVARIANTS Inv NoLostWakeup
PROPERTIES WireInOrder OwnedUntouched DropOnlyWhenFull FifoSpec AllSent
CHECK_DEADLOCK FALSE
