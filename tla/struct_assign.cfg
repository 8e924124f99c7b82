SPECIFICATION Spec
CONSTANTS Programs <- StructAssignPrograms
 MaxIterations = 32
INVARIANT MeaningKept
CHECK_DEADLOCK FALSE
