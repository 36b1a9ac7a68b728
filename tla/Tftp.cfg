\* Two threads for one client, packets lost, answers prompt or late.
SPECIFICATION Spec
CONSTANTS
  Conn = {1, 2}
  Files = {0, 3, 4}
  MaxBlock = 3
  Retry = 2
  ClientTries = 2
  MaxLoss = 1
  Cases <- MCCases
INVARIANTS TypeOK ReceivedInOrder LockStep
PROPERTIES ThreadsEnd FileArrives
CHECK_DEADLOCK FALSE
