SPECIFICATION FairSpec
CONSTANTS
  Me = me
  Peers = {p1, p2}
  Nobody = nobody
  Arrivals <- MCArrivals
  RxNum = 1
  TxNum = 1
  MaxFrames = 3
  RxDescs = 4
  IdleDescs = 1
  TxDescs = 2
  TxNames = 3
  Words <- MCWords
  Default <- MCDefault
  Forms <- MCForms
  UserLen = 2
  PassLen = 2
  Wide = 8
  MaxFaults = 2
  MaxSockets = 3
  Template <- MCTemplate
  Value <- MCValue
  TypeOf <- MCTypeOf
  Received <- MCReceived
  MaxTries = 2
  MaxReceived = 2
  MaxTimeouts = 1
  ResetWait = 2
  ReInitWait = 1
  TRTries = 3
  SucTries = 1
  WaitTries = 2
  PTries = 1
  LongTries = 2
  Byte = 4
INVARIANTS Inv EchoAtMostOnce
PROPERTIES GoesOn ArpNeverSettles
CHECK_DEADLOCK FALSE
