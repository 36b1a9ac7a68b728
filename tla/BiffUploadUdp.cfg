\* bb_udp_upload.py: one ATTN, no erase, no limit; replies are waited out.
SPECIFICATION Spec
CONSTANTS
  Pieces = {"a", "b", "c", "pad"}
  Pad = "pad"
  Files <- MCFiles
  ChunkPieces = 2
  AttnTries = 1
  Attempts = 3
  MaxChunks = 1000
  Sectors = 0
  Errors = {0, 1}
  Late = FALSE
INVARIANTS TypeOK StoredIsImage
PROPERTY ImplementsFlasher
CHECK_DEADLOCK FALSE
