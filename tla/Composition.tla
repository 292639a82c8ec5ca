----------------------------- MODULE Composition -----------------------------
(***************************************************************************)
(* Profile, composition and index compatibility over the life of a         *)
(* deployment.  A profile file is edited, processes are started from it    *)
(* (with the overrides of the command line), index and answer, and stop;   *)
(* the persistent collections stay.  bootstrap accepts or refuses a        *)
(* profile as a whole, and derives from it the components and the manifest *)
(* that every index operation carries.                                     *)
(*                                                                         *)
(* One process runs at a time: HybridIndexing interleaves several.  Values *)
(* are the parts of a profile that decide about composition, manifest and  *)
(* retrieval; credentials, addresses and model downloads only make an      *)
(* operation fail, which Fail stands for.                                  *)
(***************************************************************************)
EXTENDS Integers

CONSTANTS
  Profiles,      \* the profile files that a process can be started with first
  Alternatives,  \* for each field of a profile, the values it is edited to
  Overrides,     \* the command-line overrides
  Sources,       \* the addresses that are indexed and asked about
  MaxEdits,      \* bound: edits of the profile
  None

ASSUME CollectionAssumption ==
  /\ "collection" \in DOMAIN Alternatives
  /\ \A p \in Profiles : "collection" \in DOMAIN p /\ p.collection \in Alternatives.collection

VARIABLES
  profile,  \* the profile file
  edits,    \* how often it was edited
  runtime,  \* the profile the running process was composed from, or None
  indexes,  \* every collection: its bound manifest and its entries
  indexed,  \* the sources this process has indexed with success
  outcome   \* the last operation and how it ended

vars == <<profile, edits, runtime, indexes, indexed, outcome>>

-----------------------------------------------------------------------------
(* Tables of ports/models.py *)

Families == {"text", "ocr", "layout", "vision", "media"}

\* Every family takes these strategies ...
Everywhere ==
  {"fixed", "sliding_window", "recursive", "sentence", "paragraph", "semantic",
   "proposition", "evidence"}

Prose   == {"section", "hierarchical"}
Genres  == {"book", "legal", "medical", "conversation", "table"}

\* ... and those that its evidence allows.
SupportedChunking ==
  [f \in Families |-> Everywhere \cup
     CASE f = "text"   -> Prose \cup Genres \cup {"code"}
       [] f = "ocr"    -> Prose \cup Genres \cup {"layout_region"}
       [] f = "layout" -> Prose \cup Genres \cup {"code", "layout_region"}
       [] f = "vision" -> {"image_region"}
       [] f = "media"  -> {"conversation", "transcript_segment", "scene"}]

Persistent == {"sqlite", "pgvector", "qdrant", "pinecone", "opensearch"}
Databases  == Persistent \cup {"none", "memory"}

PhysicalIndexes ==
  [d \in Databases |->
     CASE d = "none"                      -> {"none"}
       [] d \in {"memory", "sqlite"}      -> {"exact"}
       [] d = "pgvector"                  -> {"exact", "hnsw", "ivf_flat"}
       [] d \in {"qdrant", "opensearch"}  -> {"hnsw"}
       [] d = "pinecone"                  -> {"managed"}]

DefaultPhysical ==
  [d \in Databases |->
     CASE d = "none" -> "none"
       [] d \in {"memory", "sqlite"} -> "exact"
       [] d \in {"pgvector", "qdrant", "opensearch"} -> "hnsw"
       [] d = "pinecone" -> "managed"]

-----------------------------------------------------------------------------
(* Resolution of a profile *)

\* AUTO is an alias of the family's default.
ChunkingStrategy(p) ==
  IF p.chunking = "auto"
    THEN IF p.family = "text" THEN "recursive" ELSE "evidence"
    ELSE p.chunking

ChunkingAccepted(p) == ChunkingStrategy(p) \in SupportedChunking[p.family]

\* AUTO resolves from the retriever.
RequestedStrategy(p) == IF p.strategy = "auto" THEN p.retriever ELSE p.strategy

Strategy(p) == IF RequestedStrategy(p) = "auto" THEN "dense" ELSE RequestedStrategy(p)

Physical(p) == IF p.physical = "auto" THEN DefaultPhysical[p.database] ELSE p.physical

PolicyAccepted(p) ==
  /\ p.database \in Databases
  /\ Strategy(p) \in {"dense", "sparse", "hybrid"}
  /\ Strategy(p) = "sparse" <=> p.database = "none"
  /\ Physical(p) \in PhysicalIndexes[p.database]
  /\ p.retriever = Strategy(p)

Policy(p) == [strategy |-> Strategy(p), database |-> p.database, physical |-> Physical(p)]

\* The relations between settings; a single value out of range is never in a profile.
SettingsAccepted(p) == p.reranker_max_top_k <= p.reranker_max_candidates

LimitsAccepted(p) ==
  /\ p.overlap_chars < p.chunk_chars
  /\ p.min_chars <= p.chunk_chars

\* load_config
Loaded(p) == SettingsAccepted(p) /\ LimitsAccepted(p)

\* _validate_family_selections
FamilyAccepted(p) ==
  /\ p.classifier = IF p.family = "text" THEN "text" ELSE "declared"
  /\ \/ p.extractor = p.family
     \/ p.family = "vision" /\ p.extractor = "mixed_image"

\* The stores bootstrap opens for the policy and for the retriever.
HasVector(p) == Strategy(p) \in {"dense", "hybrid"}
HasSparse(p) == p.retriever \in {"sparse", "hybrid"}

\* _require_indexing_components
ComponentsAgree(p) ==
  /\ HasVector(p) <=> Strategy(p) # "sparse"
  /\ HasSparse(p) <=> Strategy(p) # "dense"

\* The constructors that refuse what the settings allow.
AdaptersAccept(p) ==
  /\ p.embedder \in {"hashing", "torch"}
  /\ p.reranker = "cross-encoder" => p.device = "cpu"

Accepted(p) ==
  /\ Loaded(p) /\ FamilyAccepted(p) /\ ChunkingAccepted(p) /\ PolicyAccepted(p)
  /\ AdaptersAccept(p) /\ ComponentsAgree(p)

-----------------------------------------------------------------------------
(* Fingerprints and the manifest *)

\* Mutant: the bounds of the chunking policy are left out.
ChunkerByStrategy(p) == [family |-> p.family, strategy |-> ChunkingStrategy(p)]

Chunker(p) ==
  [family |-> p.family, strategy |-> ChunkingStrategy(p), chars |-> p.chunk_chars,
   overlap |-> p.overlap_chars, min |-> p.min_chars]

\* DisabledEmbedder, HashingEmbedder and TorchTextEmbedder.
Embedder(p) ==
  IF Strategy(p) = "sparse" THEN <<"not_materialized">>
  ELSE IF p.embedder = "hashing" THEN <<"hashing", p.dimension>>
  ELSE <<"torch", p.model, p.device>>

\* What the fingerprint of a store depends on: max_chunks is its max_top_k.
VectorStore(p) ==
  IF ~HasVector(p) THEN <<>>
  ELSE IF p.database \in {"memory", "sqlite"} THEN <<p.database>>
  ELSE IF p.database = "pgvector" THEN <<p.database, Physical(p), p.max_chunks>>
  ELSE IF p.database = "qdrant" THEN <<p.database, p.max_chunks>>
  ELSE <<p.database, p.max_chunks, p.vector_timeout>>

SparseIndex(p) == IF HasSparse(p) THEN <<"bm25", p.bm25>> ELSE <<>>

\* manifest_for; the dimension of the embeddings is a part of Embedder.
ManifestFor(p, source) ==
  [corpus   |-> source,
   chunker  |-> Chunker(p),
   embedder |-> Embedder(p),
   indexing |-> <<Policy(p), VectorStore(p), SparseIndex(p)>>]

-----------------------------------------------------------------------------
(* Indexes *)

\* A collection of a database, or an index in the memory of the process.
Here == {<<"memory", "process">>, <<"bm25", "process">>}

DensePlace(p) ==
  <<p.database, IF p.database = "memory" THEN "process" ELSE p.collection>>

Places == Here \cup (Persistent \X Alternatives.collection)

Dense(p)  == IF HasVector(p) THEN {DensePlace(p)} ELSE {}
Sparse(p) == IF HasSparse(p) THEN {<<"bm25", "process">>} ELSE {}

\* An index is bound to no manifest or to one.
Empty == [bound |-> {}, entries |-> {}]

\* How the chunks of an index were made: by which rules, from what, and with
\* which vectors if they have any.
Make(p, source) ==
  [source |-> source, family |-> p.family, strategy |-> ChunkingStrategy(p),
   chars |-> p.chunk_chars, overlap |-> p.overlap_chars, min |-> p.min_chars,
   vectors |-> IF ~HasVector(p) THEN <<>>
               ELSE IF p.embedder = "hashing" THEN <<p.embedder, p.dimension>>
               ELSE <<p.embedder, p.model, p.device>>]

Compatible(index, m) == index.bound \subseteq {m}

Write(places, p, source) ==
  indexes' = [q \in Places |->
                IF q \in places
                  THEN [bound   |-> {ManifestFor(p, source)},
                        entries |-> indexes[q].entries \cup {Make(p, source)}]
                  ELSE indexes[q]]

-----------------------------------------------------------------------------

End(op, source, how) == outcome' = [op |-> op, source |-> source, how |-> how]

Init ==
  /\ profile \in Profiles
  /\ edits = 0
  /\ runtime = None
  /\ indexes = [q \in Places |-> Empty]
  /\ indexed = {}
  /\ outcome = [op |-> "edit", source |-> None, how |-> "ok"]

\* One field of the file is changed, or another file is used.  A process reads
\* the file once, so an edit while one runs is an edit after it.
Edit ==
  /\ runtime = None /\ edits < MaxEdits
  /\ \/ \E p \in Profiles : profile' = p
     \/ \E f \in DOMAIN Alternatives : \E v \in Alternatives[f] :
          profile' = [profile EXCEPT ![f] = v]
  /\ profile' # profile
  /\ edits' = edits + 1
  /\ End("edit", None, "ok")
  /\ UNCHANGED <<runtime, indexes, indexed>>

\* An override that is not given keeps what the profile says.
Given(option, kept) == IF option = "unset" THEN kept ELSE option

OverriddenStrategy(p, o) ==
  IF o.strategy \in {"unset", "auto"} THEN p.retriever ELSE o.strategy

OverrideAccepted(p, o) ==
  OverriddenStrategy(p, o) = "sparse" => o.database \in {"unset", "none"}

\* Any indexing option makes the strategy and the database explicit.
Overridden(p, o) ==
  LET q == [p EXCEPT !.chunking = Given(o.chunking, @)]
      s == OverriddenStrategy(p, o)
  IN  IF {o.strategy, o.database, o.physical} = {"unset"} THEN q
      ELSE [q EXCEPT !.retriever = s, !.strategy = s,
                     !.database  = IF s = "sparse" THEN "none" ELSE Given(o.database, @),
                     !.physical  = Given(o.physical, @)]

\* load_config, the overrides and bootstrap: nothing has been read yet.
Start(o) ==
  /\ runtime = None
  /\ LET p == Overridden(profile, o)
     IN \/ /\ Loaded(profile) /\ OverrideAccepted(profile, o) /\ Accepted(p)
           /\ runtime' = p
           /\ indexes' = [q \in Places |-> IF q \in Here THEN Empty ELSE indexes[q]]
           /\ End("start", None, "ok")
        \/ /\ ~(Loaded(profile) /\ OverrideAccepted(profile, o) /\ Accepted(p))
           /\ End("start", None, "refused")
           /\ UNCHANGED <<runtime, indexes>>
  /\ indexed' = {}
  /\ UNCHANGED <<profile, edits>>

Stop ==
  /\ runtime # None
  /\ runtime' = None
  /\ indexed' = {}
  /\ indexes' = [q \in Places |-> IF q \in Here THEN Empty ELSE indexes[q]]
  /\ End("edit", None, "ok")
  /\ UNCHANGED <<profile, edits>>

\* Mutant: the sparse index is bound for sparse policies only.
TargetsOfPolicy(p) == IF Strategy(p) = "sparse" THEN Sparse(p) ELSE Dense(p)

\* The indexes an indexing run writes: the policy decides.
Targets(p) ==
  (IF Strategy(p) \in {"dense", "hybrid"} THEN Dense(p) ELSE {})
    \cup (IF Strategy(p) \in {"sparse", "hybrid"} THEN Sparse(p) ELSE {})

\* Both indexes are asked before the first is written.
Preflight(source) ==
  \A q \in Dense(runtime) \cup Sparse(runtime) :
    Compatible(indexes[q], ManifestFor(runtime, source))

IndexRefused(source) ==
  /\ runtime # None /\ ~Preflight(source)
  /\ End("index", None, "incompatible")
  /\ UNCHANGED <<profile, edits, runtime, indexes, indexed>>

Index(source) ==
  /\ runtime # None /\ Preflight(source)
  /\ Write(Targets(runtime), runtime, source)
  /\ indexed' = indexed \cup {source}
  /\ End("index", None, "ok")
  /\ UNCHANGED <<profile, edits, runtime>>

\* A stage, a provider or the sparse upsert fails: nothing was written, or the
\* vector store alone.
IndexFails(source) ==
  /\ runtime # None /\ Preflight(source)
  /\ \E written \in {{}, Dense(runtime)} : Write(written, runtime, source)
  /\ End("index", None, "failed")
  /\ UNCHANGED <<profile, edits, runtime, indexed>>

-----------------------------------------------------------------------------
(* Asking *)

\* What a hybrid retriever asks each of its sources for.
CandidateTopK(p) == IF p.retriever = "hybrid" THEN p.top_k * p.multiplier ELSE p.top_k

\* HybridRetriever has a bound of its own, and so have the stores of a server.
BeyondLimits(p) ==
  /\ \/ p.retriever = "hybrid"
     \/ p.retriever = "dense" /\ p.database \in Persistent \ {"sqlite"}
  /\ CandidateTopK(p) > p.max_chunks

\* The indexes the retriever reads: the profile's selection decides.
Asked(p) ==
  (IF p.retriever \in {"dense", "hybrid"} THEN Dense(p) ELSE {})
    \cup (IF p.retriever \in {"sparse", "hybrid"} THEN Sparse(p) ELSE {})

Searchable(p, source) ==
  \A q \in Asked(p) : indexes[q].bound = {ManifestFor(p, source)}

\* LocalCrossEncoderReranker.rerank, once there is a candidate.
RerankRefused(p) == p.reranker = "cross-encoder" /\ p.top_k > p.reranker_max_top_k

Ask(source) ==
  /\ runtime # None
  /\ \/ BeyondLimits(runtime) /\ End("ask", source, "limit_exceeded")
     \/ ~BeyondLimits(runtime) /\ ~Searchable(runtime, source)
        /\ End("ask", source, "incompatible")
     \/ /\ ~BeyondLimits(runtime) /\ Searchable(runtime, source)
        /\ \/ End("ask", source, "omitted")
           \/ RerankRefused(runtime) /\ End("ask", source, "invalid")
           \/ ~RerankRefused(runtime) /\ End("ask", source, "answered")
           \/ End("ask", source, "failed")
  /\ UNCHANGED <<profile, edits, runtime, indexes, indexed>>

Next ==
  \/ Edit \/ Stop
  \/ \E o \in Overrides : Start(o)
  \/ \E s \in Sources : IndexRefused(s) \/ Index(s) \/ IndexFails(s) \/ Ask(s)

Spec == Init /\ [][Next]_vars

-----------------------------------------------------------------------------
(* Properties *)

\* What an index holds was made in one way: by one chunking policy for one
\* family, from one corpus, with one embedder.  Edits, overrides, restarts and
\* runs that failed half-way never add a chunk that was made differently, as
\* every input of the chunker and the embedder is in the manifest.  (The code
\* keeps no such record: docs/chunking-strategies.md promises it.)
IndexIsOfOneMake ==
  \A q \in Places : \A a, b \in indexes[q].entries : a = b

\* A process that has indexed a source can be asked about it: the retriever
\* that the profile selects reads exactly the indexes that the policy writes,
\* under the manifest they were written with, in spite of what was left in the
\* collections before.  Only a limit of the profile refuses the question.
ServesWhatItIndexed ==
  outcome.op = "ask" /\ outcome.source \in indexed => outcome.how # "incompatible"

=============================================================================
