SPECIFICATION Spec
CHECK_DEADLOCK FALSE
CONSTANTS
  Requests = {r1, r2}
  Heartbeats = {}
  Settlers = {s1, s2}
  Pubkeys = {p1, p2}
  HeartbeatPubkeys = {h1}
  KeyPairs = {k1, k2}
  Blocks = {5}
  DayLength = 2
  DRAW_DELAY = 1
  MAX_ENTRIES_PER_DRAW = 2
  MAX_ATTEMPTS = 8
  DRAW_FEE = 1
  FEE_CEILING = 4
  RequestOverrun = 0
  Faults = {"crash", "rpc", "lost"}
  MaxFaults = 2
  Amounts = {2}
  MIN_ENTRY = 2
  RECLAIM_DELAY = 0
  DelegateUsed = 35000
  UNITS_PER_BUDGET = 10000
  MaxCoins = 1
  MaxTime = 5
  FeeNeeded <- MCFeeNeeded
  LeaderUsed <- MCLeaderUsed
  h1 = h1
  k1 = k1
  k2 = k2
  p1 = p1
  p2 = p2
  r1 = r1
  r2 = r2
  s1 = s1
  s2 = s2
INVARIANT EntrantsKept
INVARIANT OneTemplatePerDay
SYMMETRY MCSymmetry
INVARIANT PaidAsRecorded
