SPECIFICATION ProgSpec
CONSTANTS
  NumQtrm = 2
  MaxChunks = 2
  MaxAnnounces = 1
  Qtrm = {0, 1}
  ChunkCells = 2
  FifoCells = 1
  MaxTotal = 2
  GoldenBlocks = 0
  MaxMisreads = 0
  MaxResets = 0
  MaxUploads = 2
  MaxFaults = 1
INVARIANTS
  AckMeansStored
PROPERTIES
  OkMeansImage
