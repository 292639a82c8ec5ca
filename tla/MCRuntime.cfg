SPECIFICATION MCSpec
CONSTANTS
  None = None
  Profiles <- MCProfiles
  Alternatives <- MCAlternatives
  Overrides <- MCOverrides
  s1 = s1
  s2 = s2
  Sources <- MCSources
  MaxEdits = 2
  Ids = {1, 2, 3}
  Values = {1, 2}
  Scores = {1, 2}
  LengthsOf <- MCLengths
  TopK = 2
  RerankTopK = 2
  Multiplier = 1
  RrfK = 1
  MaxContext = 3
  MaxMarkers = 2
  Stored <- PlainStored
  Operands <- PlainOperands
  MaxTuple = 2
  MaxComparisons = 2
  MaxFilters = 5
SYMMETRY Symmetry
CHECK_DEADLOCK FALSE
INVARIANTS IndexIsOfOneMake ServesWhatItIndexed
           AnswersAreGrounded StagesAgree FusionRespectsSources TranslationsAreTrue
