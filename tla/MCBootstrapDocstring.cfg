SPECIFICATION Spec
CONSTANT FileCount = 2
INVARIANT EveryFailureRestores
