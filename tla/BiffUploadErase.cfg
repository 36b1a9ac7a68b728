\* bb_eth_upload.py: ATTN repeated, sectors erased, a limit, late replies.
SPECIFICATION Spec
CONSTANTS
  Pieces = {"a", "b", "c", "pad"}
  Pad = "pad"
  Files <- MCSmallFiles
  ChunkPieces = 2
  AttnTries = 2
  Attempts = 2
  MaxChunks = 2
  Sectors = 2
  Errors = {0, 1}
  Late = TRUE
INVARIANTS WritesInStep
PROPERTY Terminates
CHECK_DEADLOCK FALSE
