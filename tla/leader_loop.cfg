SPECIFICATION Spec
CONSTANTS
  RandRange = 128
  MAX_ENTRIES = 3
  MIN_ENTRY = 20
  Values <- MCValues
INVARIANTS TypeOK LoopsAgreeWithPickWinner OnlyListedReasonsReject NoInputSkipped EveryInputCanWin
CHECK_DEADLOCK FALSE
