SPECIFICATION FairSpec
CONSTANTS
  Base = 4
  Contents <- MCContents
  MaxEvents = 3
  Ticks = 8
  Burst = 2
  TimTicks = 5
  MaxOther = 3
  MainLen = 3
  HandlerLen = 2
  MaxHandlers = 3
  MaxChars = 6
  Pins = {1, 8, 9}
  SystemClk = 144000000
  Slow = 9600
  Fast = 115200
INVARIANTS Inv
PROPERTIES WaitsMs DelayEnds LoopsEnd Served
CHECK_DEADLOCK FALSE
