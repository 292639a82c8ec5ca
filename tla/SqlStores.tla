------------------------------ MODULE SqlStores ------------------------------
(***************************************************************************)
(* The two stores that write in one database transaction.  A composition   *)
(* holds one of them, the one its components.vector_store names, so a      *)
(* behaviour is one of SqliteStore or one of PgVectorStore.  They share    *)
(* the callers and the manifests; the collection of each has its own       *)
(* chunks, and PgVectorStore its own variables.                            *)
(***************************************************************************)
EXTENDS SqliteStore, Naturals, Sequences, FiniteSets

CONSTANTS
  PgChunks,   \* the chunk IDs of the PostgreSQL collection
  PgBatches,  \* the chunk-to-content maps that its upserts carry
  PgIdSets,   \* the sets of chunk IDs that its deletes carry
  Orphan,     \* a session whose client is gone
  MaxOrphans  \* bound: orphans that wait for the table lock at a time

VARIABLES
  kind,  \* the vector store that was selected
  binding, entries, holder, queue, late, pgcall, place, failure, outcome, reply

Pg ==
  INSTANCE PgVectorStore
    WITH Chunks <- PgChunks, Batches <- PgBatches, IdSets <- PgIdSets,
         manifest <- binding, rows <- entries, lock <- holder, call <- pgcall,
         pc <- place, result <- outcome, answer <- reply

sqlite   == vars
pgvector == <<binding, entries, holder, queue, late, pgcall, place, failure, outcome, reply>>
stores   == <<kind, sqlite, pgvector>>

ASSUME PgBatchesAreMaps == PgBatches \subseteq [PgChunks -> Contents \cup {None}]

ASSUME PgIdSetsAreChunks == PgIdSets \subseteq SUBSET PgChunks

ASSUME PgNoneIsNoValue == None \notin Pg!Row \cup Pg!Call \cup Pg!Answer

ASSUME OrphanIsNoClient == Orphan \notin Clients \cup {None}

-----------------------------------------------------------------------------

Select == kind \in {"sqlite", "pgvector"} /\ Init /\ Pg!Init

WithSqlite(action)   == kind = "sqlite" /\ action /\ UNCHANGED <<kind, pgvector>>
WithPgVector(action) == kind = "pgvector" /\ action /\ UNCHANGED <<kind, sqlite>>

Use == WithSqlite(Next) \/ WithPgVector(Pg!Next)

\* The fairness of FairSpec and of Pg!FairSpec.
StoresFairness ==
  /\ \A k \in Clients : /\ WF_stores(WithSqlite(Step(k)))
                        /\ WF_stores(WithPgVector(Pg!Step(k)))
  /\ WF_stores(WithPgVector(Pg!Grant))
  /\ WF_stores(WithPgVector(Pg!Reap))

StoresSpec == Select /\ [][Use]_stores /\ StoresFairness

-----------------------------------------------------------------------------
(* The properties of PgVectorStore *)

\* The table lock: its holder is the client between LOCK TABLE and the end of
\* its transaction, and no handler leaves it with a live session.
TableLockDiscipline == Pg!TableLockDiscipline

\* The two tables implement the index the port promises.
TablesImplementIndex == Pg!TablesImplementIndex

\* The tables change only with a reported success, or with a COMMIT whose
\* client is gone.
EffectOnlyWithSuccessOrLoss == Pg!EffectOnlyWithSuccessOrLoss

\* Every call ends, although LOCK TABLE has no timeout.
EveryTransactionEnds == Pg!EveryTransactionEnds

=============================================================================
