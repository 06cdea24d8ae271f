CONSTANTS
  b1 = b1
  b2 = b2
  b3 = b3
  vocab = vocab
  search = search
  Regions <- MCRegions
  Blocks <- MCBlocks
  NULL = NULL
  MaxSize = 2
  ReallocOutcomes = {"fail", "inplace", "moved", "zero"}
SPECIFICATION Spec
CHECK_DEADLOCK FALSE
INVARIANTS TypeOK NoLeak
