SPECIFICATION FairSpec
CONSTANTS
  RxCount = 2
  TxCount = 2
  Budget = 2
  MaxRx = 5
  MaxTx = 4
  MaxFail = 1
INVARIANTS
  TypeOK
  PassedInOrder
  SentInOrder
  StoppedIsWoken
PROPERTIES
  RingIsRead
CHECK_DEADLOCK FALSE
