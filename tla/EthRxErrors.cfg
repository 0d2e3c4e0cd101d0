SPECIFICATION Spec
CONSTANTS
  Num = 3
  MaxFrames = 4
  Kinds = {"good", "bad"}
INVARIANTS ErrorFramesDiscarded
CHECK_DEADLOCK FALSE
