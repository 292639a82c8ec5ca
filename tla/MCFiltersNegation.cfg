SPECIFICATION FiltersSpec
CONSTANTS
  Stored <- PlainStored
  Operands <- PlainOperands
  MaxTuple = 2
  MaxComparisons = 2
  MaxFilters = 4
CHECK_DEADLOCK FALSE
INVARIANT PgVectorIsExact
