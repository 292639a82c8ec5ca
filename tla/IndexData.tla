------------------------------ MODULE IndexData ------------------------------
(***************************************************************************)
(* The values every manifest-bound index of ragkit holds, shared by the    *)
(* abstract index and by the models of the concrete stores.                *)
(*                                                                         *)
(* A chunk ID digests the document, the chunker, the source parts with     *)
(* their locators, and the text (derive_chunk_id).  Metadata, confidence   *)
(* and extractor identity are not in it, so one ID can come with several   *)
(* contents: Contents are those variants.                                  *)
(***************************************************************************)

CONSTANTS
  Clients,    \* callers of the store: processes, threads or hosts
  Manifests,  \* the index manifests those callers were composed with
  Chunks,     \* chunk IDs
  Contents,   \* what can be stored under one chunk ID (chunk and embedding)
  Batches,    \* the chunk-to-content maps that upserts carry
  IdSets,     \* the sets of chunk IDs that deletes carry
  None        \* Python's None: no manifest, no row, no lock holder

\* A row remembers the manifest of the upsert that wrote it.  The stores keep
\* no such column: it is what lets properties speak of the row's origin.
Row  == [content : Contents, under : Manifests]
Rows == [Chunks -> Row \cup {None}]

ASSUME BatchesAreMaps == Batches \subseteq [Chunks -> Contents \cup {None}]

ASSUME IdSetsAreChunks == IdSets \subseteq SUBSET Chunks

NoRows == [c \in Chunks |-> None]

\* The chunk IDs a batch carries, and those an index holds.
IdsOf(batch) == {c \in Chunks : batch[c] # None}

\* UpsertRequest: rows of the batch replace the rows of the same IDs.
Put(rows, m, batch) ==
  [c \in Chunks |-> IF batch[c] = None
                      THEN rows[c]
                      ELSE [content |-> batch[c], under |-> m]]

\* DeleteRequest: IDs that are not stored are ignored.
Drop(rows, ids) == [c \in Chunks |-> IF c \in ids THEN None ELSE rows[c]]

AllUnder(rows, m) == \A c \in Chunks : rows[c] # None => rows[c].under = m

\* One call of the VectorStore port.  `batch` matters to upserts and `ids` to
\* deletes; the other operations carry the neutral values.
Call ==
  [op : {"preflight", "search"}, manifest : Manifests, batch : {NoRows}, ids : {{}}]
    \cup [op : {"upsert"}, manifest : Manifests, batch : Batches, ids : {{}}]
    \cup [op : {"delete"}, manifest : Manifests, batch : {NoRows}, ids : IdSets]

\* How a call ends: it returns, or raises IndexCompatibilityError or
\* ProviderError, or its process stops.
Results == {"none", "ok", "incompatible", "provider_error", "crashed"}

\* A search result: the manifest the caller expected and the rows it was given
\* (ranking, top_k and filters select among them).
Answer == [expected : Manifests, found : Rows]

ASSUME NoneIsNoValue ==
  None \notin Clients \cup Manifests \cup Contents \cup Row \cup Call \cup Answer

=============================================================================
