SPECIFICATION Spec
CONSTANTS
  a = a
  b = b
  d = d
  o = o
  b1 = b1
  b2 = b2
  TailByte = TailByte
  Keys <- MCKeys
  Configs <- BatchConfigs
  Blocks <- BatchBlocks
  Rand <- BatchRand
  RandRange = 64
  MAX_ENTRIES = 2
  MIN_ENTRY = 10
  MAX_FEE = 1
  SUFFIX_LEN = 1
  Ids = {i1, i2, i3}
  Deposits <- BatchDeposits
  Witnesses <- BatchWitnesses
  Signers <- MCSigners
  LockTimes = {1}
  OutputLists <- MCOutputLists
  ForeignScripts <- MCForeign
  MaxInputs = 3
  MaxTime = 2
INVARIANT BlockFixesTheWinner
SYMMETRY Symmetry
CHECK_DEADLOCK FALSE
