SPECIFICATION Spec
CONSTANT FileCount = 2
INVARIANTS FailureRestores SuccessIsComplete OriginalsKept
