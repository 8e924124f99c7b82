SPECIFICATION Spec
CHECK_DEADLOCK FALSE
CONSTANTS
  Requests = {r1}
  Heartbeats = {}
  Settlers = {s1, s2}
  Pubkeys = {p1}
  HeartbeatPubkeys = {h1}
  KeyPairs = {k1}
  Blocks = {4, 5}
  DayLength = 2
  DRAW_DELAY = 1
  MAX_ENTRIES_PER_DRAW = 2
  MAX_ATTEMPTS = 8
  DRAW_FEE = 1
  FEE_CEILING = 4
  RequestOverrun = 0
  Faults = {}
  MaxFaults = 0
  Amounts = {2}
  MIN_ENTRY = 2
  RECLAIM_DELAY = 0
  DelegateUsed = 35000
  UNITS_PER_BUDGET = 10000
  MaxCoins = 1
  MaxTime = 3
  FeeNeeded <- MCFeeNeeded
  LeaderUsed <- MCLeaderUsed
  h1 = h1
  k1 = k1
  p1 = p1
  r1 = r1
  s1 = s1
  s2 = s2
PROPERTY SettlementIsFinal
