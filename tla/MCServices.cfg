SPECIFICATION ServicesSpec
CONSTANTS
  again = again
  once = once
  ann = ann
  bob = bob
  cid = cid
  dan = dan
  belt = belt
  Daemon = daemon
  Idle = idle
INVARIANTS PartsRight NeverEarly SleepsRightly Meeting Streaming
CHECK_DEADLOCK FALSE
