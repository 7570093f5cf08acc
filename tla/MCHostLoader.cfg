SPECIFICATION FairSpec
CONSTANTS
  MAX_MEMORY_SIZE = 12
  code_size = 6
  block_size = 2
  UINT_SIZE = 40
  Files <- MCFiles
  MaxRuns = 2
INVARIANTS FlashIsTheFile
PROPERTIES RunsEnd
