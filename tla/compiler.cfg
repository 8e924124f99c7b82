SPECIFICATION Spec
CONSTANTS Programs <- AllPrograms
 MaxIterations = 32
INVARIANTS TypeOK MeaningKept ScriptMeans CovenantKept RefusesOnlyWrong SettlesInTime
CHECK_DEADLOCK FALSE
