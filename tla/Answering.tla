------------------------------ MODULE Answering ------------------------------
(***************************************************************************)
(* AnsweringService.run with the repository's own components: retrieval    *)
(* from a vector store, from BM25, or from both with reciprocal-rank       *)
(* fusion; reranking that keeps the scores or gives new ones; a prompt of  *)
(* whole chunks within the budget; extractive or hosted generation.  The   *)
(* service checks the result of every stage before it uses it.             *)
(*                                                                         *)
(* Scores, lengths and the model's answer are arbitrary.  Chunk IDs are    *)
(* numbers, ordered as their strings are.  A value is the content of a     *)
(* chunk: the two indexes may hold different ones under one ID.            *)
(***************************************************************************)
EXTENDS Integers, Sequences, FiniteSets

CONSTANTS
  Ids,         \* chunk IDs
  Values,      \* contents of a chunk
  Scores,      \* native scores; those of BM25 are positive
  LengthsOf,   \* functions from Ids to the lengths of the chunks' texts
  TopK,        \* retrieval_top_k
  RerankTopK,  \* rerank_top_k
  Multiplier,  \* hybrid_candidate_multiplier
  RrfK,        \* hybrid_rrf_k
  MaxContext,  \* max_context_chars
  MaxMarkers   \* bound: markers in the answer of a hosted model

\* The index is finite; the settings and the limits of a request are positive.
ASSUME AnsweringAssumption ==
  /\ IsFiniteSet(Ids) /\ Ids \subseteq Int /\ Scores \subseteq Int
  /\ \A l \in LengthsOf : l \in [Ids -> Nat]
  /\ {TopK, RerankTopK, Multiplier, RrfK, MaxContext, MaxMarkers} \subseteq Nat \ {0}

VARIABLES
  stage,       \* the stage that comes next, "idle" after the run
  mode,        \* the components: [retriever, reranker, generator]
  lengths,     \* the lengths of the chunks' texts
  found,       \* what each source of the retriever returned, in order
  candidates,  \* what retrieval returned
  context,     \* what reranking returned
  prompt,      \* the chunk IDs the prompt authorises
  citations,   \* the chunk IDs of the answer
  ending       \* how the run ended

run       == <<candidates, context, prompt, citations>>
answering == <<stage, mode, lengths, found, run, ending>>

-----------------------------------------------------------------------------
(* Ranked results *)

\* The order of every stage: by relevance, then by ID.
Before(a, b) == a.score > b.score \/ (a.score = b.score /\ a.id < b.id)

Place(results, r) == 1 + Cardinality({o \in results : Before(o, r)})
AtPlace(results, i) == CHOOSE r \in results : Place(results, r) = i

\* sorted(...)[:top_k] with enumerate(..., start=1): the IDs of results differ.
Ranked(results, k) ==
  [i \in 1..(IF Cardinality(results) < k THEN Cardinality(results) ELSE k) |->
     LET r == AtPlace(results, i)
     IN  [id |-> r.id, value |-> r.value, score |-> r.score, rank |-> i]]

IdsOf(ranked)     == {ranked[i].id : i \in DOMAIN ranked}
Members(ranked)   == {ranked[i] : i \in DOMAIN ranked}
RankIn(ranked, c) == CHOOSE i \in DOMAIN ranked : ranked[i].id = c

\* _validate_ranked
WellRanked(ranked, k) ==
  /\ Len(ranked) <= k
  /\ Cardinality(IdsOf(ranked)) = Len(ranked)
  /\ \A i \in DOMAIN ranked : ranked[i].rank = i
  /\ \A i, j \in DOMAIN ranked : i < j => Before(ranked[i], ranked[j])

-----------------------------------------------------------------------------
(* Control of a run *)

Modes ==
  [retriever : {"dense", "sparse", "hybrid"}, reranker : {"noop", "cross-encoder"},
   generator : {"extractive", "hosted"}]

AnsweringInit ==
  /\ stage = "idle"
  /\ mode = [retriever |-> "dense", reranker |-> "noop", generator |-> "extractive"]
  /\ lengths \in LengthsOf
  /\ found = <<>>
  /\ candidates = <<>> /\ context = <<>> /\ prompt = <<>> /\ citations = <<>>
  /\ ending = "none"

Begin ==
  /\ stage = "idle" /\ ending = "none"
  /\ stage' = "retrieve"
  /\ mode' \in Modes
  /\ UNCHANGED <<lengths, found, run, ending>>

Goto(next)  == stage' = next /\ UNCHANGED ending
Finish(how) == stage' = "idle" /\ ending' = how

\* An answer has no content unless the run succeeds.
Raise(how) == Finish(how) /\ UNCHANGED run

-----------------------------------------------------------------------------
(* Retrieval *)

\* The sources of the retriever, in the order they are searched.
SourcesOf(retriever) ==
  IF retriever = "hybrid" THEN <<"dense", "sparse">> ELSE <<retriever>>

\* How many results each source is asked for.
TopRank == TopK * Multiplier
CandidatesPerSource == IF mode.retriever = "hybrid" THEN TopRank ELSE TopK

\* Any scored chunks; BM25 leaves out those that do not match.
Results(source) ==
  UNION {[chunks -> [value : Values, score : {s \in Scores : source = "sparse" => s > 0}]] :
           chunks \in SUBSET Ids}

\* The search of one source.
Search ==
  /\ stage = "retrieve" /\ Len(found) < Len(SourcesOf(mode.retriever))
  /\ LET source == SourcesOf(mode.retriever)[Len(found) + 1]
     IN \E r \in Results(source) :
          found' = Append(found,
            Ranked({[id |-> c, value |-> r[c].value, score |-> r[c].score] : c \in DOMAIN r},
                   CandidatesPerSource))
  /\ UNCHANGED <<stage, mode, lengths, run, ending>>

\* Two sources returned different contents for one ID.
Conflict ==
  \E i, j \in DOMAIN found : \E a \in Members(found[i]), b \in Members(found[j]) :
    a.id = b.id /\ a.value # b.value

\* Exact sums of 1 / (RrfK + rank): all terms over one denominator.
Product[k \in 0..TopRank] == IF k = 0 THEN 1 ELSE Product[k - 1] * (RrfK + k)
Denominator == Product[TopRank]

\* Mutant: the last source replaces the contribution of the first.
ContributionOfLast(c) ==
  LET last == CHOOSE i \in DOMAIN found : /\ c \in IdsOf(found[i])
                                          /\ \A j \in DOMAIN found : c \in IdsOf(found[j]) => j <= i
  IN  Denominator \div (RrfK + RankIn(found[last], c))

Term(i, c) ==
  IF c \in IdsOf(found[i]) THEN Denominator \div (RrfK + RankIn(found[i], c)) ELSE 0

\* Reciprocal-rank fusion of the two sources.
Contribution(c) == Term(1, c) + Term(2, c)

Fused ==
  Ranked({[id |-> r.id, value |-> r.value, score |-> Contribution(r.id)] :
            r \in Members(found[1]) \cup Members(found[2])}, TopK)

\* What the service does with the results of the retriever.
Retrieved(results) ==
  IF WellRanked(results, TopK)
    THEN /\ candidates' = results
         /\ IF results = <<>> THEN Finish("omitted") ELSE Goto("rerank")
         /\ UNCHANGED <<context, prompt, citations>>
    ELSE Raise("integrity_error")

Retrieve ==
  /\ stage = "retrieve" /\ Len(found) = Len(SourcesOf(mode.retriever))
  /\ \/ mode.retriever # "hybrid" /\ Retrieved(found[1])
     \/ mode.retriever = "hybrid" /\ Conflict /\ Raise("conflict")
     \/ mode.retriever = "hybrid" /\ ~Conflict /\ Retrieved(Fused)
  /\ UNCHANGED <<mode, lengths, found>>

-----------------------------------------------------------------------------
(* Reranking *)

\* Mutant: equal logits keep the order of the candidates.
RescoredStably(logit) ==
  LET before(i, j) == \/ logit[candidates[i].id] > logit[candidates[j].id]
                      \/ logit[candidates[i].id] = logit[candidates[j].id] /\ i < j
      place(i) == 1 + Cardinality({j \in DOMAIN candidates : before(j, i)})
      kept == IF Len(candidates) < RerankTopK THEN Len(candidates) ELSE RerankTopK
  IN  [n \in 1..kept |->
         LET i == CHOOSE i \in DOMAIN candidates : place(i) = n
         IN  [id |-> candidates[i].id, value |-> candidates[i].value,
              score |-> logit[candidates[i].id], rank |-> n]]

\* LocalCrossEncoderReranker: a new score for every candidate.
Rescored(logit) ==
  Ranked({[id |-> r.id, value |-> r.value, score |-> logit[r.id]] : r \in Members(candidates)},
         RerankTopK)

\* NoOpReranker: the candidates, in the same order, cut.
Kept ==
  Ranked({[id |-> r.id, value |-> r.value, score |-> r.score] : r \in Members(candidates)},
         RerankTopK)

\* The service's checks: well ranked, and nothing that was not retrieved.
Reranked(results) ==
  IF /\ WellRanked(results, RerankTopK)
     /\ \A r \in Members(results) : \E c \in Members(candidates) : r.id = c.id /\ r.value = c.value
    THEN /\ context' = results
         /\ IF results = <<>> THEN Finish("omitted") ELSE Goto("prompt")
         /\ UNCHANGED <<candidates, prompt, citations>>
    ELSE Raise("integrity_error")

Rerank ==
  /\ stage = "rerank"
  /\ \/ mode.reranker = "noop" /\ Reranked(Kept)
     \/ /\ mode.reranker = "cross-encoder"
        /\ \E logit \in [IdsOf(candidates) -> Scores] : Reranked(Rescored(logit))
  /\ UNCHANGED <<mode, lengths, found>>

-----------------------------------------------------------------------------
(* Prompt *)

\* Mutant: the separators are not counted.
SeparatorUncounted(included) == 0

\* A newline before every chunk but the first.
Separator(included) == IF included = <<>> THEN 0 ELSE 1

\* Whole chunks in the order of the context; one that does not fit is left out,
\* and a later one may still fit.
Consider(prior, i) ==
  LET used == prior.used + Separator(prior.ids) + lengths[context[i].id]
  IN  IF used > MaxContext THEN prior
      ELSE [ids |-> Append(prior.ids, context[i].id), used |-> used]

Scan[i \in 0..Len(context)] ==
  IF i = 0 THEN [ids |-> <<>>, used |-> 0] ELSE Consider(Scan[i - 1], i)

Included == Scan[Len(context)].ids

Unique(ids) == \A i, j \in DOMAIN ids : ids[i] = ids[j] => i = j
SetOf(ids)  == {ids[i] : i \in DOMAIN ids}

BuildPrompt ==
  /\ stage = "prompt"
  /\ IF Unique(Included) /\ SetOf(Included) \subseteq IdsOf(context)
       THEN /\ prompt' = Included
            /\ Goto("generate")
            /\ UNCHANGED <<candidates, context, citations>>
       ELSE Raise("integrity_error")
  /\ UNCHANGED <<mode, lengths, found>>

-----------------------------------------------------------------------------
(* Generation *)

\* The markers of a hosted model's answer: IDs, in any order, more than once,
\* and of chunks that are not in the prompt.
Markers == UNION {[1..n -> Ids] : n \in 0..MaxMarkers}

\* _sanitize_citations: of the authorised IDs the first mention of each.
FirstMentions(markers) ==
  {i \in DOMAIN markers : /\ markers[i] \in SetOf(prompt)
                          /\ \A j \in 1..(i - 1) : markers[j] # markers[i]}

Sanitized(markers) ==
  LET mentions == FirstMentions(markers)
  IN  [n \in 1..Cardinality(mentions) |->
         markers[CHOOSE i \in mentions : 1 + Cardinality({j \in mentions : j < i}) = n]]

\* ExtractiveGenerator: the first chunk of the prompt, unless it has no words.
Excerpt == IF prompt = <<>> \/ lengths[prompt[1]] = 0 THEN <<>> ELSE <<prompt[1]>>

Generated(cited) ==
  IF Unique(cited) /\ SetOf(cited) \subseteq SetOf(prompt)
    THEN /\ citations' = cited
         /\ Finish("answered")
         /\ UNCHANGED <<candidates, context, prompt>>
    ELSE Raise("integrity_error")

Generate ==
  /\ stage = "generate"
  /\ \/ mode.generator = "extractive" /\ Generated(Excerpt)
     \/ mode.generator = "hosted" /\ \E markers \in Markers : Generated(Sanitized(markers))
  /\ UNCHANGED <<mode, lengths, found>>

-----------------------------------------------------------------------------

\* A provider, a limit or the telemetry sink raises in a stage.
StageFails ==
  /\ stage # "idle"
  /\ Raise("failed")
  /\ UNCHANGED <<mode, lengths, found>>

AnsweringNext ==
  Begin \/ Search \/ Retrieve \/ Rerank \/ BuildPrompt \/ Generate \/ StageFails

AnsweringSpec == AnsweringInit /\ [][AnsweringNext]_answering

-----------------------------------------------------------------------------
(* Properties *)

\* The length of the texts of some chunks together.
LengthUpTo(ids) ==
  LET total[i \in 0..Len(ids)] == IF i = 0 THEN 0 ELSE total[i - 1] + lengths[ids[i]]
  IN  total

\* What is cited was retrieved, with the content a source returned, survived
\* reranking, and stands whole in the prompt, whose chunks together with the
\* newlines between them fit the budget.
AnswersAreGrounded ==
  /\ \A c \in SetOf(citations) :
       /\ c \in SetOf(prompt)
       /\ \E r \in Members(context) :
            r.id = c /\ \E i \in DOMAIN found : \E s \in Members(found[i]) :
                          s.id = c /\ s.value = r.value
  /\ prompt # <<>> => LengthUpTo(prompt)[Len(prompt)] + Len(prompt) - 1 <= MaxContext

\* The stages of the repository agree on order, ranks, identities and
\* authorisation: the service's own checks, which turn a disagreement into an
\* IntegrityError, never stop a run.  (Indexes that hold different contents
\* under one ID do: that is the retriever's check.)
StagesAgree == ending # "integrity_error"

\* Fusion respects its sources: when every source that returned b returned a
\* before it, b is not among the candidates without a before it.
FusionRespectsSources ==
  mode.retriever = "hybrid" /\ candidates # <<>> =>
    \A a \in UNION {IdsOf(found[i]) : i \in DOMAIN found} : \A b \in IdsOf(candidates) :
      /\ a # b
      /\ \A i \in DOMAIN found :
           b \in IdsOf(found[i]) =>
             a \in IdsOf(found[i]) /\ RankIn(found[i], a) < RankIn(found[i], b)
      => a \in IdsOf(candidates) /\ RankIn(candidates, a) < RankIn(candidates, b)

=============================================================================
