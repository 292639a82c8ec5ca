SPECIFICATION Spec
CONSTANTS
  k1 = k1
  k2 = k2
  m1 = m1
  m2 = m2
  m3 = m3
  c1 = c1
  x = x
  None = None
  Clients <- MCClients
  Manifests <- MCManifests
  Chunks <- MCChunks
  Contents <- MCContents
  Batches <- MCBatches
  IdSets <- MCIdSets
  Dimension <- MCDimension
SYMMETRY Symmetry
INVARIANT OneInitialiser
PROPERTIES BareCollectionStaysClosed ImplementsManifestIndex
