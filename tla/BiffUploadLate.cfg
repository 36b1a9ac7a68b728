\* bb_eth_upload8.py: replies may come after the 50ms they are waited for.
SPECIFICATION Spec
CONSTANTS
  Pieces = {"a", "b", "c", "pad"}
  Pad = "pad"
  Files <- MCSmallFiles
  ChunkPieces = 2
  AttnTries = 2
  Attempts = 2
  MaxChunks = 1000
  Sectors = 0
  Errors = {0}
  Late = TRUE
INVARIANT StoredIsImage
CHECK_DEADLOCK FALSE
