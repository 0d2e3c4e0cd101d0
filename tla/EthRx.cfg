SPECIFICATION FairSpec
CONSTANTS
  Num = 3
  MaxFrames = 6
  Kinds = {"good", "bad", "long"}
INVARIANTS Inv
PROPERTIES CopyStable MissOnlyWhenFull WedgeIsPermanent FifoSpec TakenUnlessWedged
CHECK_DEADLOCK FALSE
