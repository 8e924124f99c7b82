SPECIFICATION Spec
CONSTANTS Functions <- MCFunctions
 Contracts <- MCContracts
 Lines <- MCLines
 MaxBreakpoints = 1
INVARIANTS TypeOK CallsShownAreOpen
PROPERTIES NeverBack ContinueStopsAtBreakpoints OverSkipsNothing OutLeavesTheCall
CHECK_DEADLOCK FALSE
