SPECIFICATION Spec
CONSTANTS
  a = a
  b = b
  d = d
  o = o
  b1 = b1
  b2 = b2
  TailByte = TailByte
  Keys <- MCKeys
  Configs <- MCConfigs
  Blocks <- MCBlocks
  Rand <- MCRand
  RandRange = 64
  MAX_ENTRIES = 2
  MIN_ENTRY = 10
  MAX_FEE = 1
  SUFFIX_LEN = 1
  Ids = {i1, i2, i3}
  Deposits <- MCDeposits
  Witnesses <- MCWitnesses
  Signers <- MCSigners
  LockTimes = {0, 1, 2}
  OutputLists <- MCOutputLists
  ForeignScripts <- MCForeign
  MaxInputs = 3
  MaxTime = 3
INVARIANTS TypeOK ExactlyOneWinner
PROPERTY ImplementsPot
SYMMETRY Symmetry
CHECK_DEADLOCK FALSE
