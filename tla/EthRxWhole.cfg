SPECIFICATION Spec
CONSTANTS
  Num = 3
  MaxFrames = 4
  Kinds = {"good", "long"}
INVARIANTS WholeFrames
CHECK_DEADLOCK FALSE
