SPECIFICATION StoresSpec
CONSTANTS
  k1 = k1
  k2 = k2
  m1 = m1
  m2 = m2
  c1 = c1
  c2 = c2
  x = x
  None = None
  Clients <- MCClients
  Manifests <- MCManifests
  Chunks <- MCChunks
  Contents <- MCContents
  Batches <- MCBatches
  IdSets <- MCIdSets
  BatchSize = 1
SYMMETRY Symmetry
INVARIANTS BulkMeetsItsManifest NamespaceUnderSentinel OneBatchInDoubt
PROPERTIES SuccessIsWhole EveryBatchConfirmed ImplementsManifestIndex
