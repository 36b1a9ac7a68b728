SPECIFICATION Spec
CONSTANTS
  Handle = {h1, h2}
  Bits <- MCBits
  ChunkSize = 2
  Block = 4
  ChunkCount = 8
  DeviceSize = 8
  Data <- MCData
  Counts = {1, 6}
  Parts <- MCParts
  PartCounts = {2, 5}
  SaneTail <- MCTail
  InitialFlash <- MCInitialFlash
  MaxCalls = 3
  MaxFaults = 1
INVARIANTS
  TypeOK
  BufferedMeansMoved
  RunReadsBack
  RunVerifies
  BootIsImage
PROPERTY ConfigOnlyByItsChunk
SYMMETRY MCSymmetry
