SPECIFICATION StoresSpec
CONSTANTS
  k1 = k1
  k2 = k2
  m1 = m1
  m2 = m2
  c1 = c1
  c2 = c2
  x = x
  y = y
  None = None
  Orphan = Orphan
  MaxOrphans = 1
  Clients <- MCClients
  Manifests <- MCManifests
  Chunks <- MCChunks
  Contents <- MCContents
  Batches <- MCBatches
  IdSets <- MCIdSets
  PgChunks <- MCPgChunks
  PgBatches <- MCPgBatches
  PgIdSets <- MCIdSets
INVARIANTS LockDiscipline TableLockDiscipline
PROPERTIES ImplementsManifestIndex EffectOnlyWithSuccess EveryCallEnds
           TablesImplementIndex EffectOnlyWithSuccessOrLoss EveryTransactionEnds
