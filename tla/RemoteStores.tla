----------------------------- MODULE RemoteStores -----------------------------
(***************************************************************************)
(* The two stores that write in several requests, without a transaction.   *)
(* A composition holds one of them, the one its components.vector_store    *)
(* names, so a behaviour is one of OpenSearchStore or one of               *)
(* PineconeStore, which has its own variables.                             *)
(***************************************************************************)
EXTENDS OpenSearchStore

VARIABLES
  kind,  \* the vector store that was selected
  sentinel, records, seen, unsettled, pcall, place, queue, sent, confirmed, outcome

Pinecone ==
  INSTANCE PineconeStore
    WITH rows <- records, late <- unsettled, call <- pcall, pc <- place, todo <- queue,
         applied <- confirmed, result <- outcome

opensearch == vars
pinecone   == <<sentinel, records, seen, unsettled, pcall, place, queue, sent, confirmed, outcome>>
stores     == <<kind, opensearch, pinecone>>

\* Requests are tuples of records or of IDs.
ASSUME RequestsAreFinite ==
  /\ \A batch \in Batches : IsFiniteSet(IdsOf(batch))
  /\ \A ids \in IdSets : IsFiniteSet(ids)

\* None is no call of the index that OpenSearchStore implements in parts either.
ASSUME NoneIsNoPart == None \notin Index!Call

-----------------------------------------------------------------------------

Select ==
  /\ kind \in {"opensearch", "pinecone"}
  /\ Init /\ Pinecone!Init
  /\ kind = "opensearch" => sentinel = None

Use ==
  \/ kind = "opensearch" /\ Next /\ UNCHANGED <<kind, pinecone>>
  \/ kind = "pinecone" /\ Pinecone!Next /\ UNCHANGED <<kind, opensearch>>

StoresSpec == Select /\ [][Use]_stores

-----------------------------------------------------------------------------
(* The properties of PineconeStore *)

\* The records, and whoever is about to use them, belong to the sentinel.
NamespaceUnderSentinel == Pinecone!NamespaceUnderSentinel

\* Of a failed upsert or delete a single batch is in doubt.
OneBatchInDoubt == Pinecone!OneBatchInDoubt

\* A call reports success when its last batch is confirmed.
EveryBatchConfirmed == Pinecone!EveryBatchConfirmed

=============================================================================
