SPECIFICATION Spec
CONSTANTS
  Client <- MCClient
  Pin <- MCPin
  Scenes <- MCScenes
  Chars <- MCChars
  LcdSize = 2
  PortPins = {0, 1}
  GuestRegs <- MCGuestRegs
  MaxQueue = 2
INVARIANTS DisplaysFollow PortMirrored OneAnswer LcdShowsText
PROPERTIES ServerEndures
CHECK_DEADLOCK FALSE
