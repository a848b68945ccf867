SPECIFICATION IndexSpec
CONSTANTS
  Uploads <- MCPapers
  MaxIndexAttempt = 1
  MaxInserts = 1
INVARIANTS
  ChunksFindTheirRegion
CHECK_DEADLOCK FALSE
