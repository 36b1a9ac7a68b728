SPECIFICATION Spec
CONSTANTS
  Client <- MCClient
  Pin <- MCPin
  Scenes <- ContentionScenes
  Chars <- MCChars
  LcdSize = 2
  PortPins = {0, 1}
  GuestRegs <- MCGuestRegs
  MaxQueue = 2
INVARIANTS ContentionIndicated
CHECK_DEADLOCK FALSE
