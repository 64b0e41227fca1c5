SPECIFICATION PoolSpec
CONSTANTS
  b1 = b1
  b2 = b2
  b3 = b3
  b4 = b4
  b5 = b5
  Blocks <- MCBlocks
  Word = 4
  MinBlock = 8
  BlockSizes = {10}
  Requests = {1, 2, 4, 5, 8, 9}
  Texts <- MCTexts
  Hash <- MCHash
  EntrySize = 4
  PoolSize = 10
SYMMETRY AnyBlock
CHECK_DEADLOCK FALSE
INVARIANTS
  OnePointerEach
  TextsStay
  RangesApart
  NothingOutOfReach
