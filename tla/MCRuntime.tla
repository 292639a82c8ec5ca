------------------------------ MODULE MCRuntime ------------------------------
(***************************************************************************)
(* One process: how it is composed, how it answers, and how its store      *)
(* compiles a filter, for checking with TLC.  The three share no state but *)
(* the profile, so a behaviour is one of Composition, one of Answering, or *)
(* one of MetadataFilters.                                                 *)
(***************************************************************************)
EXTENDS Composition, Answering, MCMetadataFilters, TLC

CONSTANTS s1, s2

VARIABLE kind  \* what the behaviour is about

\* configs/hybrid.toml with a persistent store.
Hybrid ==
  [family |-> "text", classifier |-> "text", extractor |-> "text",
   chunking |-> "auto", chunk_chars |-> 2, overlap_chars |-> 0, min_chars |-> 1,
   retriever |-> "hybrid", strategy |-> "auto", database |-> "sqlite", physical |-> "auto",
   embedder |-> "hashing", dimension |-> 2, model |-> "m", device |-> "cpu",
   reranker |-> "noop", reranker_max_top_k |-> 1, reranker_max_candidates |-> 2,
   bm25 |-> 1, top_k |-> 2, multiplier |-> 2, max_chunks |-> 4,
   vector_timeout |-> 1, collection |-> "a"]

\* configs/vision.toml with a server.
Vision ==
  [Hybrid EXCEPT !.family = "vision", !.classifier = "declared", !.extractor = "vision",
                 !.retriever = "dense", !.database = "pgvector", !.embedder = "torch",
                 !.reranker = "cross-encoder", !.reranker_max_top_k = 2]

MCProfiles == {Hybrid, Vision}

MCSources == {s1, s2}
Symmetry  == Permutations(MCSources)

MCAlternatives ==
  [chunking |-> {"sentence", "code"}, overlap_chars |-> {1, 2},
   retriever |-> {"dense"}, strategy |-> {"dense"},
   database |-> {"memory", "opensearch"}, physical |-> {"ivf_flat"},
   embedder |-> {"torch"}, device |-> {"cuda"},
   top_k |-> {3}, max_chunks |-> {1},
   collection |-> {"a", "b"}]

NoOverride == [chunking |-> "unset", strategy |-> "unset", database |-> "unset",
               physical |-> "unset"]

MCOverrides ==
  {NoOverride,
   [NoOverride EXCEPT !.strategy = "sparse", !.chunking = "sentence"],
   [NoOverride EXCEPT !.strategy = "dense", !.database = "qdrant"]}

-----------------------------------------------------------------------------
(* Answering: three chunks, of which the second and the first do not fit the
   prompt together, and the third has no text *)

MCLengths == {<<1, 2, 0>>}

-----------------------------------------------------------------------------

MCInit ==
  /\ kind \in {"composition", "answering", "filters"}
  /\ Init /\ AnsweringInit /\ FiltersInit
  /\ kind # "composition" => profile = Hybrid

MCNext ==
  \/ kind = "composition" /\ Next /\ UNCHANGED <<kind, answering, filters>>
  \/ kind = "answering" /\ AnsweringNext /\ UNCHANGED <<kind, vars, filters>>
  \/ kind = "filters" /\ FiltersNext /\ UNCHANGED <<kind, vars, answering>>

MCSpec == MCInit /\ [][MCNext]_<<kind, vars, answering, filters>>

=============================================================================
