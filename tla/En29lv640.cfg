\* Both drivers, three jobs, a reset or restart at any point of two of them.
SPECIFICATION Spec
CONSTANTS
  Addr <- MCAddr
  Images <- MCImages
  Sectors <- MCSectors
  Words <- MCWords
  MaxJobs = 3
  MaxResets = 2
INVARIANTS VerifyIsTruthful ProbeHeals
PROPERTY ImplementsArray
CHECK_DEADLOCK FALSE
