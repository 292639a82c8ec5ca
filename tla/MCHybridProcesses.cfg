SPECIFICATION Spec
CONSTANTS
  k1 = k1
  k2 = k2
  p1 = p1
  p2 = p2
  m1 = m1
  m2 = m2
  c1 = c1
  c2 = c2
  x = x
  y = y
  None = None
  Clients <- Threads
  Processes <- TwoProcesses
  Home <- OwnHome
  Manifests <- TwoManifests
  Chunks = {c1}
  Contents = {x, y}
  Configs <- MixedConfigs
  Sources <- OneSource
  Batches <- NoBatches
  IdSets <- NoIdSets
  MaxEvents = 9
INVARIANTS SparseBindingFollowsDense IncompatibleRunWroteNothing AnswersUnderManifest
PROPERTY IndexNeverConflicts
