SPECIFICATION Spec
CONSTANTS
  k1 = k1
  k2 = k2
  p1 = p1
  p2 = p2
  m1 = m1
  m2 = m2
  c1 = c1
  c2 = c2
  x = x
  y = y
  None = None
  Clients <- Threads
  Processes <- OneProcess
  Home <- SameHome
  Manifests <- TwoManifests
  Chunks = {c1, c2}
  Contents = {x}
  Configs <- OneConfig
  Sources <- Editions
  Batches <- NoBatches
  IdSets <- NoIdSets
  MaxEvents = 16
INVARIANT SparseCoveredByDense
PROPERTY IndexSuccessIsSearchable
SYMMETRY Symmetry
