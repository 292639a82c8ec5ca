--------------------------- MODULE RuntimeProofs ---------------------------
(***************************************************************************)
(* A process, for any profiles, alternatives, overrides and sources, and   *)
(* for any chunks, scores, lengths and limits.                             *)
(*                                                                         *)
(* Composition.  Whatever is edited, restarted, refused or broken off      *)
(* half-way, an index holds chunks of one make, and a process finds what   *)
(* it has indexed.  The argument for the first: a manifest determines the  *)
(* make of what is written under it (ManifestDeterminesMake), since each   *)
(* input of chunker and embedder is part of a fingerprint; and an index    *)
(* that is bound to a manifest is only written under that one.  For the    *)
(* second: the indexes that the policy writes are the ones the retriever   *)
(* asks (WrittenIsAsked).                                                  *)
(*                                                                         *)
(* Answering.  Every stage hands the next one a listing (Listing): at most *)
(* so many results, of different chunks, in the order of relevance and     *)
(* then ID, with their ranks.  That order is total, so that sorting gives  *)
(* each result a place of its own (RankedIsListing), and the checks of the *)
(* service hold of every listing.  The terms of fusion decrease with the   *)
(* rank (TermsDecrease), the scan of the prompt builder keeps its count    *)
(* (IncludedFits), and what is cited is traced back through the stages     *)
(* (AnsweringInv).  The recursive functions of the model are reasoned      *)
(* about by induction over a set of numbers (Induction, Recursion).        *)
(***************************************************************************)
EXTENDS Composition, Answering, MetadataFilters, FiniteSetTheorems, TLAPS

\* The make that a manifest stands for.
MakeOf(m) ==
  [source |-> m.corpus, family |-> m.chunker.family, strategy |-> m.chunker.strategy,
   chars |-> m.chunker.chars, overlap |-> m.chunker.overlap, min |-> m.chunker.min,
   vectors |-> IF m.embedder = <<"not_materialized">> THEN <<>> ELSE m.embedder]

MadeAsBound ==
  \A q \in Places :
    /\ \A m, n \in indexes[q].bound : m = n
    /\ \A e \in indexes[q].entries : \E m \in indexes[q].bound : e = MakeOf(m)

HasCollection(p) == "collection" \in DOMAIN p /\ p.collection \in Alternatives.collection

Composed == runtime # None => Accepted(runtime) /\ HasCollection(runtime)

\* What was indexed is found by whoever asks, as long as the process runs.
IndexedIsSearchable ==
  \A s \in indexed : runtime # None /\ Searchable(runtime, s)

IInv ==
  /\ HasCollection(profile) /\ Composed
  /\ MadeAsBound /\ IndexedIsSearchable /\ ServesWhatItIndexed

-----------------------------------------------------------------------------
(* The policy and the manifest *)

\* The strategies of an accepted profile, and what follows for its stores.
LEMMA AcceptedStrategy ==
  ASSUME NEW p, Accepted(p)
  PROVE  /\ Strategy(p) \in {"dense", "sparse", "hybrid"}
         /\ p.retriever = Strategy(p)
         /\ p.embedder \in {"hashing", "torch"}
         /\ HasVector(p) <=> Strategy(p) # "sparse"
         /\ HasSparse(p) <=> Strategy(p) # "dense"
  BY DEF Accepted, PolicyAccepted, AdaptersAccept, HasVector, HasSparse

\* A manifest determines how everything is made that is written under it.
LEMMA ManifestDeterminesMake ==
  ASSUME NEW p, NEW s, Accepted(p)
  PROVE  Make(p, s) = MakeOf(ManifestFor(p, s))
<1>1. /\ ManifestFor(p, s).corpus = s
      /\ ManifestFor(p, s).chunker = Chunker(p)
      /\ ManifestFor(p, s).embedder = Embedder(p)
  BY DEF ManifestFor
<1>2. /\ Chunker(p).family = p.family /\ Chunker(p).strategy = ChunkingStrategy(p)
      /\ Chunker(p).chars = p.chunk_chars /\ Chunker(p).overlap = p.overlap_chars
      /\ Chunker(p).min = p.min_chars
  BY DEF Chunker
<1>3. Make(p, s).vectors = IF Embedder(p) = <<"not_materialized">> THEN <<>> ELSE Embedder(p)
  <2>1. CASE Strategy(p) = "sparse"
    BY <2>1, AcceptedStrategy DEF Make, Embedder
  <2>2. CASE Strategy(p) # "sparse" /\ p.embedder = "hashing"
    <3>1. <<"hashing", p.dimension>> # <<"not_materialized">>
      OBVIOUS
    <3>2. QED
      BY <2>2, <3>1, AcceptedStrategy DEF Make, Embedder
  <2>3. CASE Strategy(p) # "sparse" /\ p.embedder = "torch"
    <3>1. <<"torch", p.model, p.device>> # <<"not_materialized">>
      OBVIOUS
    <3>2. QED
      BY <2>3, <3>1, AcceptedStrategy DEF Make, Embedder
  <2>4. QED
    BY <2>1, <2>2, <2>3, AcceptedStrategy
<1>4. QED
  BY <1>1, <1>2, <1>3 DEF Make, MakeOf

\* What the policy makes a run write is what its retriever asks, and all of it was
\* asked for compatibility first; each is a place.
LEMMA WrittenIsAsked ==
  ASSUME NEW p, Accepted(p), HasCollection(p)
  PROVE  /\ Targets(p) = Asked(p)
         /\ Targets(p) = Dense(p) \cup Sparse(p)
         /\ Targets(p) \subseteq Places
         /\ Dense(p) \subseteq Targets(p)
<1>1. /\ Targets(p) = Asked(p) /\ Targets(p) = Dense(p) \cup Sparse(p)
      /\ Dense(p) \subseteq Targets(p)
  BY AcceptedStrategy DEF Targets, Asked, Dense, Sparse
<1>2. Sparse(p) \subseteq Places
  BY DEF Sparse, Places, Here
<1>3. Dense(p) \subseteq Places
  <2>1. CASE HasVector(p)
    <3>1. p.database \in Databases /\ p.database # "none"
      BY <2>1, AcceptedStrategy DEF Accepted, PolicyAccepted
    <3>2. CASE p.database = "memory"
      BY <3>2 DEF Dense, DensePlace, Places, Here
    <3>3. CASE p.database # "memory"
      <4>1. p.database \in Persistent
        BY <3>1, <3>3 DEF Databases
      <4>2. DensePlace(p) = <<p.database, p.collection>>
        BY <3>3 DEF DensePlace
      <4>3. DensePlace(p) \in Persistent \X Alternatives.collection
        BY <4>1, <4>2 DEF HasCollection
      <4>4. QED
        BY <4>3 DEF Dense, Places
    <3>4. QED
      BY <3>2, <3>3
  <2>2. QED
    BY <2>1 DEF Dense
<1>4. QED
  BY <1>1, <1>2, <1>3

-----------------------------------------------------------------------------
(* Steps *)

\* A write of indexes that were found compatible keeps every index of one make, and
\* what could be searched stays searchable.
LEMMA Writing ==
  ASSUME IInv, NEW source, NEW written, runtime # None, Preflight(source),
         written \subseteq Targets(runtime), Write(written, runtime, source)
  PROVE  /\ MadeAsBound'
         /\ \A q \in written : indexes'[q].bound = {ManifestFor(runtime, source)}
         /\ \A s \in indexed : \A q \in Asked(runtime) :
              indexes'[q].bound = {ManifestFor(runtime, s)}
<1> DEFINE M == ManifestFor(runtime, source)
<1>1. Accepted(runtime) /\ HasCollection(runtime)
  BY DEF IInv, Composed
<1>2. /\ written \subseteq Places
      /\ \A q \in written : indexes[q].bound \subseteq {M}
  BY <1>1, WrittenIsAsked DEF Preflight, Compatible
<1>3. \A q \in Places :
        /\ q \in written => /\ indexes'[q].bound = {M}
                            /\ indexes'[q].entries = indexes[q].entries \cup {Make(runtime, source)}
        /\ q \notin written => indexes'[q] = indexes[q]
  BY DEF Write
<1>4. Make(runtime, source) = MakeOf(M)
  BY <1>1, ManifestDeterminesMake
<1>5. ASSUME NEW q \in Places
      PROVE  /\ \A m, n \in indexes'[q].bound : m = n
             /\ \A e \in indexes'[q].entries : \E m \in indexes'[q].bound : e = MakeOf(m)
  <2>1. CASE q \in written
    <3>1. /\ indexes'[q].bound = {M}
          /\ indexes'[q].entries = indexes[q].entries \cup {MakeOf(M)}
      BY <1>3, <1>4, <2>1
    <3>2. \A e \in indexes[q].entries : e = MakeOf(M)
      BY <1>2, <2>1 DEF IInv, MadeAsBound
    <3>3. QED
      BY <3>1, <3>2
  <2>2. CASE q \notin written
    BY <1>3, <2>2 DEF IInv, MadeAsBound
  <2>3. QED
    BY <2>1, <2>2
<1>6. ASSUME NEW s \in indexed, NEW q \in Asked(runtime)
      PROVE  indexes'[q].bound = {ManifestFor(runtime, s)}
  <2>1. q \in Places /\ q \in Targets(runtime)
    BY <1>1, WrittenIsAsked
  <2>2. indexes[q].bound = {ManifestFor(runtime, s)}
    BY DEF IInv, IndexedIsSearchable, Searchable
  <2>3. CASE q \in written
    BY <1>2, <1>3, <2>1, <2>2, <2>3
  <2>4. CASE q \notin written
    BY <1>3, <2>1, <2>2, <2>4
  <2>5. QED
    BY <2>3, <2>4
<1>7. MadeAsBound'
  BY <1>5 DEF MadeAsBound
<1>8. QED
  BY <1>2, <1>3, <1>6, <1>7

\* Indexes in the memory of a process come and go with it.
LEMMA Emptied ==
  ASSUME MadeAsBound, indexes' = [q \in Places |-> IF q \in Here THEN Empty ELSE indexes[q]]
  PROVE  MadeAsBound'
<1>1. ASSUME NEW q \in Places
      PROVE  /\ \A m, n \in indexes'[q].bound : m = n
             /\ \A e \in indexes'[q].entries : \E m \in indexes'[q].bound : e = MakeOf(m)
  <2>1. CASE q \in Here
    <3>1. indexes'[q] = Empty
      BY <2>1
    <3>2. QED
      BY <3>1 DEF Empty
  <2>2. CASE q \notin Here
    <3>1. indexes'[q] = indexes[q]
      BY <2>2
    <3>2. QED
      BY <3>1 DEF MadeAsBound
  <2>3. QED
    BY <2>1, <2>2
<1>2. QED
  BY <1>1 DEF MadeAsBound

\* The name of the collection survives edits and overrides.
LEMMA Editing ==
  ASSUME HasCollection(profile), NEW f \in DOMAIN Alternatives, NEW v \in Alternatives[f]
  PROVE  HasCollection([profile EXCEPT ![f] = v])
  BY DEF HasCollection

LEMMA Overriding ==
  ASSUME HasCollection(profile), NEW o
  PROVE  HasCollection(Overridden(profile, o))
  BY DEF HasCollection, Overridden

LEMMA InitInvariant == Init => IInv
<1> SUFFICES ASSUME Init PROVE IInv
  OBVIOUS
<1>1. HasCollection(profile) /\ Composed
  BY CollectionAssumption DEF Init, HasCollection, Composed
<1>2. MadeAsBound
  BY DEF Init, MadeAsBound, Empty
<1>3. IndexedIsSearchable /\ ServesWhatItIndexed
  BY DEF Init, IndexedIsSearchable, ServesWhatItIndexed
<1>4. QED
  BY <1>1, <1>2, <1>3 DEF IInv

\* The end of an operation that is not a question.
LEMMA NoQuestion ==
  ASSUME NEW op, NEW how, op # "ask", End(op, None, how)
  PROVE  ServesWhatItIndexed'
  BY DEF End, ServesWhatItIndexed

\* Every step keeps the invariant.
LEMMA NextInvariant == IInv /\ [Next]_vars => IInv'
<1> SUFFICES ASSUME IInv, [Next]_vars PROVE IInv'
  OBVIOUS
<1>1. CASE Edit
  <2>1. HasCollection(profile')
    <3>1. CASE \E p \in Profiles : profile' = p
      BY <3>1, CollectionAssumption DEF HasCollection
    <3>2. CASE \E f \in DOMAIN Alternatives : \E v \in Alternatives[f] :
                 profile' = [profile EXCEPT ![f] = v]
      BY <3>2, Editing DEF IInv
    <3>3. QED
      BY <1>1, <3>1, <3>2 DEF Edit
  <2>2. ServesWhatItIndexed'
    BY <1>1, NoQuestion DEF Edit
  <2>3. UNCHANGED <<runtime, indexes, indexed>>
    BY <1>1 DEF Edit
  <2>4. QED
    BY <2>1, <2>2, <2>3
       DEF IInv, HasCollection, Composed, MadeAsBound, IndexedIsSearchable, Searchable
<1>2. CASE Stop
  <2>1. MadeAsBound'
    BY <1>2, Emptied DEF Stop, IInv
  <2>2. ServesWhatItIndexed'
    BY <1>2, NoQuestion DEF Stop
  <2>3. runtime' = None /\ indexed' = {} /\ profile' = profile
    BY <1>2 DEF Stop
  <2>4. QED
    BY <2>1, <2>2, <2>3 DEF IInv, HasCollection, Composed, IndexedIsSearchable
<1>3. ASSUME NEW o \in Overrides, Start(o) PROVE IInv'
  <2>1. MadeAsBound'
    <3>1. CASE UNCHANGED indexes
      BY <3>1 DEF IInv, MadeAsBound
    <3>2. CASE indexes' = [q \in Places |-> IF q \in Here THEN Empty ELSE indexes[q]]
      BY <3>2, Emptied DEF IInv
    <3>3. QED
      BY <1>3, <3>1, <3>2 DEF Start
  <2>2. Composed'
    <3>1. CASE runtime' = runtime
      BY <3>1 DEF IInv, Composed, HasCollection
    <3>2. CASE runtime' = Overridden(profile, o) /\ Accepted(Overridden(profile, o))
      BY <3>2, Overriding DEF IInv, Composed
    <3>3. QED
      BY <1>3, <3>1, <3>2 DEF Start
  <2>3. ServesWhatItIndexed'
    BY <1>3 DEF Start, End, ServesWhatItIndexed
  <2>4. indexed' = {} /\ profile' = profile
    BY <1>3 DEF Start
  <2>5. QED
    BY <2>1, <2>2, <2>3, <2>4 DEF IInv, HasCollection, IndexedIsSearchable
<1>4. ASSUME NEW s \in Sources, IndexRefused(s) PROVE IInv'
  <2>1. ServesWhatItIndexed'
    BY <1>4, NoQuestion DEF IndexRefused
  <2>2. UNCHANGED <<profile, runtime, indexes, indexed>>
    BY <1>4 DEF IndexRefused
  <2>3. QED
    BY <2>1, <2>2
       DEF IInv, HasCollection, Composed, MadeAsBound, IndexedIsSearchable, Searchable
<1>5. ASSUME NEW s \in Sources, Index(s) PROVE IInv'
  <2>1. /\ runtime # None /\ Preflight(s)
        /\ Write(Targets(runtime), runtime, s)
        /\ indexed' = indexed \cup {s}
        /\ UNCHANGED <<profile, runtime>>
    BY <1>5 DEF Index
  <2>2. /\ MadeAsBound'
        /\ \A q \in Targets(runtime) : indexes'[q].bound = {ManifestFor(runtime, s)}
        /\ \A t \in indexed : \A q \in Asked(runtime) :
             indexes'[q].bound = {ManifestFor(runtime, t)}
    BY <2>1, Writing
  <2>3. Targets(runtime) = Asked(runtime)
    BY <2>1, WrittenIsAsked DEF IInv, Composed
  <2>4. IndexedIsSearchable'
    <3>1. ASSUME NEW t \in indexed', NEW q \in Asked(runtime)
          PROVE  indexes'[q].bound = {ManifestFor(runtime, t)}
      BY <2>1, <2>2, <2>3
    <3>2. QED
      BY <2>1, <3>1 DEF IndexedIsSearchable, Searchable
  <2>5. ServesWhatItIndexed'
    BY <1>5, NoQuestion DEF Index
  <2>6. QED
    BY <2>1, <2>2, <2>4, <2>5 DEF IInv, HasCollection, Composed
<1>6. ASSUME NEW s \in Sources, IndexFails(s) PROVE IInv'
  <2>1. /\ runtime # None /\ Preflight(s)
        /\ UNCHANGED <<profile, runtime, indexed>>
    BY <1>6 DEF IndexFails
  <2>2. PICK written \in {{}, Dense(runtime)} : Write(written, runtime, s)
    BY <1>6 DEF IndexFails
  <2>3. written \subseteq Targets(runtime)
    BY <2>1, <2>2, WrittenIsAsked DEF IInv, Composed
  <2>4. /\ MadeAsBound'
        /\ \A t \in indexed : \A q \in Asked(runtime) :
             indexes'[q].bound = {ManifestFor(runtime, t)}
    BY <2>1, <2>2, <2>3, Writing
  <2>5. IndexedIsSearchable'
    BY <2>1, <2>4 DEF IndexedIsSearchable, Searchable
  <2>6. ServesWhatItIndexed'
    BY <1>6, NoQuestion DEF IndexFails
  <2>7. QED
    BY <2>1, <2>4, <2>5, <2>6 DEF IInv, HasCollection, Composed
<1>7. ASSUME NEW s \in Sources, Ask(s) PROVE IInv'
  <2>1. UNCHANGED <<profile, runtime, indexes, indexed>>
    BY <1>7 DEF Ask
  <2>2. outcome'.source = s
    BY <1>7 DEF Ask, End
  <2>3. outcome'.how = "incompatible" => ~Searchable(runtime, s)
    BY <1>7 DEF Ask, End
  <2>4. ServesWhatItIndexed'
    BY <2>1, <2>2, <2>3 DEF IInv, IndexedIsSearchable, ServesWhatItIndexed
  <2>5. QED
    BY <2>1, <2>4 DEF IInv, HasCollection, Composed, MadeAsBound, IndexedIsSearchable, Searchable
<1>8. CASE UNCHANGED vars
  BY <1>8
     DEF vars, IInv, HasCollection, Composed, MadeAsBound, IndexedIsSearchable, Searchable,
         ServesWhatItIndexed
<1>9. QED
  BY <1>1, <1>2, <1>3, <1>4, <1>5, <1>6, <1>7, <1>8 DEF Next

-----------------------------------------------------------------------------
(* Results *)

\* No edit, override, restart or broken-off run mixes chunks of two makes in an
\* index: bootstrap derives the manifest from everything that decides about them.
THEOREM OneMake == Spec => []IndexIsOfOneMake
<1>1. IInv => IndexIsOfOneMake
  BY DEF IInv, MadeAsBound, IndexIsOfOneMake
<1>2. QED
  BY <1>1, InitInvariant, NextInvariant, PTL DEF Spec

\* A process is never told that what it has itself indexed is incompatible.
THEOREM ServesOwn == Spec => []ServesWhatItIndexed
<1>1. IInv => ServesWhatItIndexed
  BY DEF IInv
<1>2. QED
  BY <1>1, InitInvariant, NextInvariant, PTL DEF Spec

-----------------------------------------------------------------------------
(* Induction and counting *)

\* Every set of natural numbers has a least one.
LEMMA Least ==
  ASSUME NEW T \in SUBSET Nat, T # {}
  PROVE  \E n \in T : \A m \in T : n <= m
<1> DEFINE R == OpToRel(<, Nat)
<1>1. IsWellFoundedOn(R, Nat)
  BY NatLessThanWellFounded
<1>2. \A a, b \in Nat : a < b => <<a, b>> \in R
  BY DEF OpToRel
<1> HIDE DEF R
<1>3. PICK n \in T : \A m \in T : <<m, n>> \notin R
  BY <1>1, WFMin
<1>4. \A m \in T : ~(m < n) /\ m \in Nat /\ n \in Nat
  BY <1>2, <1>3
<1>5. QED
  BY <1>4

\* Induction over the natural numbers, of a set of them.
LEMMA Induction ==
  ASSUME NEW S, 0 \in S, \A n \in Nat : n \in S => n + 1 \in S
  PROVE  Nat \subseteq S
<1> SUFFICES ASSUME ~(Nat \subseteq S) PROVE FALSE
  OBVIOUS
<1> DEFINE T == {n \in Nat : n \notin S}
<1>1. PICK n \in T : \A m \in T : n <= m
  <2>1. T \in SUBSET Nat /\ T # {}
    OBVIOUS
  <2> HIDE DEF T
  <2>2. QED
    BY <2>1, Least
<1>2. n # 0 /\ n \in Nat
  BY <1>1
<1>3. n - 1 \in Nat /\ ~(n <= n - 1) /\ (n - 1) + 1 = n
  BY <1>2
<1>4. n - 1 \in S
  BY <1>1, <1>3
<1>5. QED
  BY <1>1, <1>3, <1>4

\* f has the values that g computes step by step from a.
Computed(f, a, g, n) == /\ f[0] = a
                        /\ \A i \in 1..n : f[i] = g[<<f[i - 1], i>>]

\* What is computed step by step exists.
LEMMA Recursion ==
  ASSUME NEW S, NEW a \in S, NEW g \in [S \X Nat -> S]
  PROVE  \A n \in Nat : \E f \in [0..n -> S] : Computed(f, a, g, n)
<1> DEFINE Steps(f, n) == Computed(f, a, g, n)
           N == {n \in Nat : \E f \in [0..n -> S] : Steps(f, n)}
<1>1. 0 \in N
  <2>1. [i \in 0..0 |-> a] \in [0..0 -> S] /\ Steps([i \in 0..0 |-> a], 0)
    BY DEF Computed
  <2>2. QED
    BY <2>1
<1>2. ASSUME NEW n \in Nat, n \in N PROVE n + 1 \in N
  <2>1. PICK f \in [0..n -> S] : Steps(f, n)
    BY <1>2
  <2> DEFINE h == [i \in 0..(n + 1) |-> IF i = n + 1 THEN g[<<f[n], n + 1>>] ELSE f[i]]
  <2>2. \A i \in 0..(n + 1) : i # n + 1 => i \in 0..n
    OBVIOUS
  <2>3. n \in 0..n /\ f[n] \in S /\ n + 1 \in Nat
    OBVIOUS
  <2>4. h \in [0..(n + 1) -> S]
    BY <2>2, <2>3
  <2>5. h[0] = a
    BY <2>1 DEF Computed
  <2>6. ASSUME NEW i \in 1..(n + 1) PROVE h[i] = g[<<h[i - 1], i>>]
    <3>1. i - 1 \in 0..(n + 1) /\ i - 1 # n + 1 /\ i \in 0..(n + 1)
      OBVIOUS
    <3>2. h[i - 1] = f[i - 1]
      BY <3>1
    <3>3. CASE i = n + 1
      <4>1. i - 1 = n
        BY <3>3
      <4>2. QED
        BY <3>1, <3>2, <3>3, <4>1
    <3>4. CASE i # n + 1
      <4>1. i \in 1..n
        BY <3>4
      <4>2. QED
        BY <2>1, <3>1, <3>2, <3>4, <4>1 DEF Computed
    <3>5. QED
      BY <3>3, <3>4
  <2>7. Steps(h, n + 1)
    BY <2>5, <2>6 DEF Computed
  <2> HIDE DEF h
  <2>8. QED
    BY <2>4, <2>7
<1> HIDE DEF N
<1>3. Nat \subseteq N
  BY <1>1, <1>2, Induction
<1>4. QED
  BY <1>3 DEF N

\* The places of the members of a set that R orders.
Position(S, R) == [r \in S |-> 1 + Cardinality({o \in S : <<o, r>> \in R})]

\* R is a strict total order of S.
Orders(R, S) ==
  /\ \A a \in S : <<a, a>> \notin R
  /\ \A a, b \in S : a # b => <<a, b>> \in R \/ <<b, a>> \in R
  /\ \A a, b, c \in S : <<a, b>> \in R /\ <<b, c>> \in R => <<a, c>> \in R

\* Each member has a place of its own, in order, and no place is left out.
Enumerates(P, S, R) ==
  /\ Cardinality(S) \in Nat
  /\ \A r \in S : P[r] \in 1..Cardinality(S)
  /\ \A a, b \in S : <<a, b>> \in R => P[a] < P[b]
  /\ \A a, b \in S : P[a] = P[b] => a = b
  /\ \A i \in 1..Cardinality(S) : \E r \in S : P[r] = i

\* A strict total order gives every member of a finite set a place.
LEMMA Placing ==
  ASSUME NEW S, IsFiniteSet(S), NEW R, Orders(R, S)
  PROVE  Enumerates(Position(S, R), S, R)
<1> DEFINE Lower(r) == {o \in S : <<o, r>> \in R}
           n == Cardinality(S)
           P == Position(S, R)
<1>0. n \in Nat
  BY FS_CardinalityType
<1>1. ASSUME NEW r \in S
      PROVE  /\ IsFiniteSet(Lower(r)) /\ Cardinality(Lower(r)) \in Nat
             /\ Cardinality(Lower(r)) <= n - 1
  <2>1. Lower(r) \in SUBSET (S \ {r})
    BY DEF Orders
  <2>2. IsFiniteSet(S \ {r}) /\ Cardinality(S \ {r}) = n - 1
    BY FS_RemoveElement
  <2> HIDE DEF Lower, n
  <2>3. QED
    BY <2>1, <2>2, FS_Subset, FS_CardinalityType
<1>2. \A r \in S : P[r] = 1 + Cardinality(Lower(r)) /\ P[r] \in 1..n
  <2>1. \A r \in S : P[r] = 1 + Cardinality(Lower(r))
    BY DEF Position
  <2> HIDE DEF P, Lower, n
  <2>2. QED
    BY <1>0, <1>1, <2>1
<1>3. ASSUME NEW a \in S, NEW b \in S, <<a, b>> \in R
      PROVE  P[a] < P[b]
  <2>1. Lower(a) \cup {a} \in SUBSET Lower(b) /\ a \notin Lower(a)
    BY <1>3 DEF Orders
  <2> HIDE DEF Lower, n, P
  <2>2. Cardinality(Lower(a) \cup {a}) = Cardinality(Lower(a)) + 1
    BY <1>1, <2>1, FS_AddElement
  <2>3. Cardinality(Lower(a) \cup {a}) <= Cardinality(Lower(b))
    BY <1>1, <2>1, FS_Subset
  <2>4. QED
    BY <1>1, <1>2, <2>2, <2>3
<1> HIDE DEF P, Lower
<1>4. \A a, b \in S : P[a] = P[b] => a = b
  <2> SUFFICES ASSUME NEW a \in S, NEW b \in S, P[a] = P[b], a # b PROVE FALSE
    OBVIOUS
  <2>1. P[a] < P[b] \/ P[b] < P[a]
    BY <1>3 DEF Orders
  <2>2. P[a] \in Int /\ P[b] \in Int
    BY <1>0, <1>2
  <2>3. QED
    BY <2>1, <2>2
<1>5. \A i \in 1..n : \E r \in S : P[r] = i
  <2>1. P \in Injection(S, 1..n)
    <3>1. P \in [S -> 1..n]
      BY <1>2 DEF P, Position
    <3>2. QED
      BY <1>4, <3>1 DEF Injection, IsInjective
  <2>2. IsFiniteSet(1..n) /\ Cardinality(1..n) = n
    <3> HIDE DEF n
    <3>1. 1 \in Int /\ n \in Int
      BY <1>0
    <3>2. IsFiniteSet(1..n) /\ Cardinality(1..n) = IF 1 > n THEN 0 ELSE n - 1 + 1
      BY <3>1, FS_Interval
    <3>3. QED
      BY <1>0, <3>2
  <2>3. P \in Surjection(S, 1..n)
    BY <2>1, <2>2, FS_Injection
  <2>4. QED
    BY <2>3 DEF Surjection
<1>6. QED
  BY <1>0, <1>2, <1>3, <1>4, <1>5 DEF P, Enumerates

-----------------------------------------------------------------------------
(* Ranked results *)

\* Results before and after they have a rank, and results that can be given one.
Entries == [id : Ids, value : Values, score : Int]
Ranks   == [id : Ids, value : Values, score : Int, rank : Nat]

Rankable(S) == S \subseteq Entries /\ \A a, b \in S : a.id = b.id => a = b

\* What every stage hands to the next: at most k results in order.
Listing(s, k) ==
  /\ s \in Seq(Ranks) /\ Len(s) <= k
  /\ \A i \in DOMAIN s : s[i].rank = i
  /\ \A i, j \in DOMAIN s : i < j => Before(s[i], s[j])
  /\ \A i, j \in DOMAIN s : s[i].id = s[j].id => i = j

LEMMA RankableIsFinite ==
  ASSUME NEW S, Rankable(S)
  PROVE  IsFiniteSet(S)
<1> DEFINE f == [r \in S |-> r.id]
<1>1. f \in [S -> Ids]
  BY DEF Rankable, Entries
<1>2. f \in Injection(S, Ids)
  BY <1>1 DEF Rankable, Injection, IsInjective
<1>3. QED
  BY <1>2, AnsweringAssumption, FS_Injection

\* Relevance, then ID, is a total order: each result has a place of its own, and
\* every place has a result.
LEMMA Placed ==
  ASSUME NEW S, Rankable(S)
  PROVE  /\ Cardinality(S) \in Nat
         /\ \A r \in S : Place(S, r) \in 1..Cardinality(S)
         /\ \A a, b \in S : Before(a, b) => Place(S, a) < Place(S, b)
         /\ \A a, b \in S : Place(S, a) = Place(S, b) => a = b
         /\ \A i \in 1..Cardinality(S) : \E r \in S : Place(S, r) = i
<1> DEFINE R == {p \in S \X S : Before(p[1], p[2])}
<1>1. \A a, b \in S : <<a, b>> \in R <=> Before(a, b)
  OBVIOUS
<1>2. \A a \in S : a.id \in Int /\ a.score \in Int
  BY AnsweringAssumption DEF Rankable, Entries
<1>3. \A a \in S : ~Before(a, a)
  BY <1>2 DEF Before
<1>4. \A a, b \in S : a # b => Before(a, b) \/ Before(b, a)
  BY <1>2 DEF Before, Rankable
<1>5. \A a, b, c \in S : Before(a, b) /\ Before(b, c) => Before(a, c)
  BY <1>2 DEF Before
<1>6. \A r \in S : Place(S, r) = Position(S, R)[r]
  <2> SUFFICES ASSUME NEW r \in S PROVE Place(S, r) = Position(S, R)[r]
    OBVIOUS
  <2>1. {o \in S : Before(o, r)} = {o \in S : <<o, r>> \in R}
    OBVIOUS
  <2> HIDE DEF R
  <2>2. QED
    BY <2>1 DEF Place, Position
<1> HIDE DEF R
<1>7. Enumerates(Position(S, R), S, R)
  <2>1. IsFiniteSet(S)
    BY RankableIsFinite
  <2>2. Orders(R, S)
    BY <1>1, <1>3, <1>4, <1>5 DEF Orders
  <2>3. QED
    BY <2>1, <2>2, Placing
<1>8. QED
  <2> DEFINE P == Position(S, R)
  <2>1. Enumerates(P, S, R) /\ \A r \in S : Place(S, r) = P[r]
    BY <1>6, <1>7
  <2> HIDE DEF P
  <2>2. /\ Cardinality(S) \in Nat
        /\ \A a \in S : P[a] \in 1..Cardinality(S)
        /\ \A a, b \in S : Before(a, b) => P[a] < P[b]
        /\ \A a, b \in S : P[a] = P[b] => a = b
        /\ \A i \in 1..Cardinality(S) : \E r \in S : P[r] = i
    BY <1>1, <2>1 DEF Enumerates
  <2>3. QED
    BY <2>1, <2>2

\* Ranked: the first k results, in order.
LEMMA RankedIsListing ==
  ASSUME NEW S, Rankable(S), NEW k \in Nat
  PROVE  /\ Listing(Ranked(S, k), k)
         /\ \A i \in DOMAIN Ranked(S, k) : \E r \in S :
              /\ Place(S, r) = i
              /\ Ranked(S, k)[i].id = r.id /\ Ranked(S, k)[i].value = r.value
              /\ Ranked(S, k)[i].score = r.score
<1> DEFINE n == IF Cardinality(S) < k THEN Cardinality(S) ELSE k
           L == Ranked(S, k)
<1>1. n \in Nat /\ n <= k /\ 1..n \subseteq 1..Cardinality(S)
  BY Placed
<1>2. DOMAIN L = 1..n
  BY DEF Ranked
<1>3. \A i \in 1..n : AtPlace(S, i) \in S /\ Place(S, AtPlace(S, i)) = i
  <2> SUFFICES ASSUME NEW i \in 1..n
               PROVE  AtPlace(S, i) \in S /\ Place(S, AtPlace(S, i)) = i
    OBVIOUS
  <2>1. \E r \in S : Place(S, r) = i
    BY <1>1, Placed
  <2>2. QED
    BY <2>1 DEF AtPlace
<1>4. \A i \in 1..n :
        /\ L[i] \in Ranks
        /\ L[i].id = AtPlace(S, i).id /\ L[i].value = AtPlace(S, i).value
        /\ L[i].score = AtPlace(S, i).score /\ L[i].rank = i
  <2> SUFFICES ASSUME NEW i \in 1..n
               PROVE  /\ L[i] \in Ranks
                      /\ L[i].id = AtPlace(S, i).id /\ L[i].value = AtPlace(S, i).value
                      /\ L[i].score = AtPlace(S, i).score /\ L[i].rank = i
    OBVIOUS
  <2> DEFINE r == AtPlace(S, i)
  <2>1. L[i] = [id |-> r.id, value |-> r.value, score |-> r.score, rank |-> i]
    BY DEF Ranked
  <2>2. r \in Entries /\ i \in Nat
    BY <1>1, <1>3 DEF Rankable
  <2> HIDE DEF r, L, n
  <2>3. L[i].id = r.id /\ L[i].value = r.value /\ L[i].score = r.score /\ L[i].rank = i
    BY <2>1
  <2>4. L[i] \in Ranks
    BY <2>1, <2>2 DEF Entries, Ranks
  <2>5. QED
    BY <2>3, <2>4 DEF r
<1> HIDE DEF L, n
<1>5. L \in Seq(Ranks) /\ Len(L) = n
  <2>1. L = [i \in 1..n |-> L[i]]
    BY <1>2 DEF L, Ranked, n
  <2>2. L \in [1..n -> Ranks]
    BY <1>4, <2>1
  <2>3. QED
    BY <1>1, <1>2, <2>2
<1>6. ASSUME NEW i \in 1..n, NEW j \in 1..n, i < j
      PROVE  Before(L[i], L[j])
  <2> DEFINE a == AtPlace(S, i)
             b == AtPlace(S, j)
  <2>1. a \in S /\ b \in S /\ Place(S, a) = i /\ Place(S, b) = j
    BY <1>3
  <2>2. a # b /\ ~Before(b, a)
    <3>1. ~(j < i) /\ i # j
      BY <1>6
    <3> HIDE DEF a, b
    <3>2. QED
      BY <2>1, <3>1, Placed
  <2>3. /\ a.id \in Int /\ a.score \in Int /\ b.id \in Int /\ b.score \in Int
        /\ a.id # b.id
    BY <2>1, <2>2, AnsweringAssumption DEF Rankable, Entries
  <2>4. /\ L[i].id = a.id /\ L[i].score = a.score
        /\ L[j].id = b.id /\ L[j].score = b.score
    BY <1>4
  <2>5. QED
    BY <2>2, <2>3, <2>4 DEF Before
<1>7. \A i, j \in 1..n : L[i].id = L[j].id => i = j
  <2> SUFFICES ASSUME NEW i \in 1..n, NEW j \in 1..n, L[i].id = L[j].id PROVE i = j
    OBVIOUS
  <2>1. AtPlace(S, i) = AtPlace(S, j)
    BY <1>3, <1>4 DEF Rankable
  <2>2. QED
    BY <1>3, <2>1
<1>8. Listing(L, k)
  BY <1>1, <1>2, <1>4, <1>5, <1>6, <1>7 DEF Listing
<1>9. \A i \in DOMAIN L : \E r \in S :
        /\ Place(S, r) = i
        /\ L[i].id = r.id /\ L[i].value = r.value /\ L[i].score = r.score
  BY <1>2, <1>3, <1>4
<1>10. QED
  BY <1>8, <1>9 DEF L

LEMMA ListingOfRanks ==
  ASSUME NEW s, NEW k, Listing(s, k)
  PROVE  /\ Len(s) \in Nat /\ DOMAIN s = 1..Len(s)
         /\ \A i \in DOMAIN s : /\ s[i] \in Ranks /\ s[i].id \in Ids
                                /\ s[i].value \in Values /\ s[i].score \in Int
<1>1. s \in Seq(Ranks)
  BY DEF Listing
<1>2. Len(s) \in Nat /\ DOMAIN s = 1..Len(s) /\ \A i \in DOMAIN s : s[i] \in Ranks
  BY <1>1
<1>3. QED
  BY <1>2 DEF Ranks

\* What the service checks of a stage holds of every listing.
LEMMA ListingIsWellRanked ==
  ASSUME NEW s, NEW k \in Nat, Listing(s, k)
  PROVE  WellRanked(s, k)
<1> DEFINE n == Len(s)
           f == [i \in 1..n |-> s[i].id]
<1>1. n \in Nat /\ DOMAIN s = 1..n
  BY DEF Listing
<1>2. f \in Injection(1..n, IdsOf(s))
  <2>1. f \in [1..n -> IdsOf(s)]
    BY <1>1 DEF IdsOf
  <2>2. QED
    BY <1>1, <2>1 DEF Listing, Injection, IsInjective
<1>3. f \in Surjection(1..n, IdsOf(s))
  BY <1>1, <1>2 DEF IdsOf, Surjection, Injection
<1> HIDE DEF f, n
<1>4. IsFiniteSet(1..n) /\ Cardinality(1..n) = n
  <2>1. 1 \in Int /\ n \in Int
    BY <1>1
  <2>2. IsFiniteSet(1..n) /\ Cardinality(1..n) = IF 1 > n THEN 0 ELSE n - 1 + 1
    BY <2>1, FS_Interval
  <2>3. QED
    BY <1>1, <2>2
<1>5. Cardinality(IdsOf(s)) = n
  BY <1>2, <1>3, <1>4, FS_Surjection
<1>6. QED
  BY <1>1, <1>5 DEF Listing, WellRanked, n

\* What stands before a ranked result is ranked, at an earlier place.
LEMMA EarlierIsRanked ==
  ASSUME NEW S, Rankable(S), NEW k \in Nat, NEW a \in S, NEW b \in S, Before(a, b),
         b.id \in IdsOf(Ranked(S, k))
  PROVE  /\ a.id \in IdsOf(Ranked(S, k))
         /\ RankIn(Ranked(S, k), a.id) < RankIn(Ranked(S, k), b.id)
<1> DEFINE L == Ranked(S, k)
<1>1. /\ Listing(L, k)
      /\ \A i \in DOMAIN L : \E r \in S : Place(S, r) = i /\ L[i].id = r.id
  BY RankedIsListing
<1>2. Place(S, a) < Place(S, b) /\ Place(S, a) \in 1..Cardinality(S)
      /\ Place(S, b) \in 1..Cardinality(S) /\ Cardinality(S) \in Nat
  BY Placed
<1>3. DOMAIN L = 1..(IF Cardinality(S) < k THEN Cardinality(S) ELSE k)
  BY DEF Ranked
<1> HIDE DEF L
<1>4. ASSUME NEW r \in S, Place(S, r) \in DOMAIN L
      PROVE  r.id \in IdsOf(L) /\ RankIn(L, r.id) = Place(S, r)
  <2>1. PICK t \in S : Place(S, t) = Place(S, r) /\ L[Place(S, r)].id = t.id
    BY <1>1, <1>4
  <2>2. t = r
    BY <2>1, Placed
  <2>3. L[Place(S, r)].id = r.id
    BY <2>1, <2>2
  <2>4. \A i \in DOMAIN L : L[i].id = r.id => i = Place(S, r)
    BY <1>1, <1>4, <2>3 DEF Listing
  <2>5. QED
    BY <1>4, <2>3, <2>4 DEF IdsOf, RankIn
<1>5. Place(S, b) \in DOMAIN L
  <2>1. PICK i \in DOMAIN L : L[i].id = b.id
    BY DEF IdsOf, L
  <2>2. PICK r \in S : Place(S, r) = i /\ L[i].id = r.id
    BY <1>1
  <2>3. r = b
    BY <2>1, <2>2 DEF Rankable
  <2>4. QED
    BY <2>2, <2>3
<1>6. Place(S, a) \in DOMAIN L
  BY <1>2, <1>3, <1>5
<1>7. QED
  BY <1>2, <1>4, <1>5, <1>6 DEF L

-----------------------------------------------------------------------------
(* Reciprocal-rank fusion *)

LEMMA ExactDivision ==
  ASSUME NEW q \in Nat, NEW m \in Nat \ {0}
  PROVE  (q * m) \div m = q
  OBVIOUS

\* Of two factors of a positive number the smaller has the larger quotient.
LEMMA Quotients ==
  ASSUME NEW d \in Nat \ {0}, NEW m \in Nat \ {0}, NEW n \in Nat \ {0}, m < n,
         NEW p \in Nat, NEW q \in Nat, d = p * m, d = q * n
  PROVE  q < p
<1> SUFFICES ASSUME p <= q PROVE FALSE
  OBVIOUS
<1>1. p * m <= q * m
  OBVIOUS
<1>2. q # 0
  OBVIOUS
<1>3. q * m < q * n
  BY <1>2
<1>4. q * m \in Int /\ q * n \in Int /\ p * m \in Int
  OBVIOUS
<1>5. QED
  BY <1>1, <1>3, <1>4

\* The recursive function Product computes what its equation says.
LEMMA ProductIs ==
  /\ TopRank \in Nat
  /\ \A k \in 0..TopRank : Product[k] \in Nat
  /\ Product[0] = 1
  /\ \A k \in 1..TopRank : Product[k] = Product[k - 1] * (RrfK + k)
<1> DEFINE g == [p \in Nat \X Nat |-> p[1] * (RrfK + p[2])]
<1>1. TopRank \in Nat /\ RrfK \in Nat
  BY AnsweringAssumption DEF TopRank
<1>2. g \in [Nat \X Nat -> Nat]
  BY <1>1
<1>3. \A n, k \in Nat : g[<<n, k>>] = n * (RrfK + k)
  OBVIOUS
<1> HIDE DEF g
<1>4. PICK f \in [0..TopRank -> Nat] : Computed(f, 1, g, TopRank)
  <2>1. 1 \in Nat
    OBVIOUS
  <2>2. QED
    BY <1>1, <1>2, <2>1, Recursion
<1>5. f = [k \in 0..TopRank |-> IF k = 0 THEN 1 ELSE f[k - 1] * (RrfK + k)]
  <2>1. ASSUME NEW k \in 0..TopRank
        PROVE  f[k] = IF k = 0 THEN 1 ELSE f[k - 1] * (RrfK + k)
    <3>1. CASE k = 0
      BY <1>4, <3>1 DEF Computed
    <3>2. CASE k # 0
      <4>1. k \in 1..TopRank /\ k - 1 \in 0..TopRank /\ k \in Nat
        BY <1>1, <3>2
      <4>2. QED
        BY <1>3, <1>4, <3>2, <4>1 DEF Computed
    <3>3. QED
      BY <3>1, <3>2
  <2>2. QED
    BY <2>1
<1>6. Product = [k \in 0..TopRank |-> IF k = 0 THEN 1 ELSE Product[k - 1] * (RrfK + k)]
  BY <1>5, Zenon DEF Product
<1>7. ASSUME NEW k \in 1..TopRank
      PROVE  k \in 0..TopRank /\ k # 0 /\ Product[k] = Product[k - 1] * (RrfK + k)
  <2>1. k \in 0..TopRank /\ k # 0
    BY <1>1
  <2>2. QED
    BY <1>6, <2>1
<1>8. Product[0] = 1
  <2>1. 0 \in 0..TopRank
    BY <1>1
  <2>2. QED
    BY <1>6, <2>1
<1>9. \A k \in 0..TopRank : Product[k] \in Nat
  <2> DEFINE N == {k \in Nat : k <= TopRank => Product[k] \in Nat}
  <2>1. 0 \in N
    BY <1>8
  <2>2. ASSUME NEW k \in Nat, k \in N PROVE k + 1 \in N
    <3> SUFFICES ASSUME k + 1 <= TopRank PROVE Product[k + 1] \in Nat
      OBVIOUS
    <3>1. Product[k] \in Nat /\ k + 1 \in 1..TopRank /\ (k + 1) - 1 = k
      BY <1>1, <2>2
    <3>2. Product[k + 1] = Product[k] * (RrfK + (k + 1))
      BY <1>7, <3>1
    <3>3. QED
      BY <1>1, <3>1, <3>2
  <2> HIDE DEF N
  <2>3. Nat \subseteq N
    BY <2>1, <2>2, Induction
  <2>4. QED
    BY <1>1, <2>3 DEF N
<1>10. QED
  BY <1>1, <1>7, <1>8, <1>9

\* The denominator is a multiple of every term's.
LEMMA DenominatorIs ==
  /\ Denominator \in Nat \ {0}
  /\ \A k \in 1..TopRank : \E q \in Nat : Denominator = q * (RrfK + k)
<1>0. TopRank \in Nat /\ RrfK \in Nat \ {0}
  BY ProductIs, AnsweringAssumption
<1> DEFINE Multiple(n) == /\ Product[n] \in Nat \ {0}
                          /\ \A k \in 1..n : \E q \in Nat : Product[n] = q * (RrfK + k)
           N == {n \in Nat : n <= TopRank => Multiple(n)}
<1>1. 0 \in N
  BY ProductIs
<1>2. ASSUME NEW n \in Nat, n \in N PROVE n + 1 \in N
  <2> SUFFICES ASSUME n + 1 <= TopRank PROVE Multiple(n + 1)
    OBVIOUS
  <2> DEFINE m == RrfK + (n + 1)
  <2>1. Multiple(n)
    BY <1>0, <1>2
  <2>2. n + 1 \in 1..TopRank /\ (n + 1) - 1 = n /\ m \in Nat \ {0}
    BY <1>0
  <2>3. Product[n + 1] = Product[n] * m
    BY <2>2, ProductIs
  <2>4. Product[n + 1] \in Nat \ {0}
    <3> HIDE DEF m
    <3>1. QED
      BY <2>1, <2>2, <2>3
  <2>5. ASSUME NEW k \in 1..(n + 1)
        PROVE  \E q \in Nat : Product[n + 1] = q * (RrfK + k)
    <3>1. CASE k = n + 1
      BY <2>1, <2>3, <3>1
    <3>2. CASE k # n + 1
      <4>1. k \in 1..n /\ RrfK + k \in Nat
        BY <1>0, <3>2
      <4>2. PICK q \in Nat : Product[n] = q * (RrfK + k)
        BY <2>1, <4>1
      <4> DEFINE t == RrfK + k
      <4>3. (q * t) * m = (q * m) * t /\ q * m \in Nat
        <5> HIDE DEF t, m
        <5>1. t \in Nat
          BY <4>1 DEF t
        <5>2. QED
          BY <2>2, <5>1
      <4>4. QED
        BY <2>3, <4>2, <4>3
    <3>3. QED
      BY <3>1, <3>2
  <2>6. QED
    BY <2>4, <2>5
<1> HIDE DEF N
<1>3. Nat \subseteq N
  BY <1>1, <1>2, Induction
<1>4. Multiple(TopRank)
  <2>1. TopRank \in N /\ TopRank <= TopRank
    BY <1>0, <1>3
  <2> HIDE DEF Multiple
  <2>2. QED
    BY <2>1 DEF N
<1>5. QED
  BY <1>4 DEF Denominator

\* The contribution of a rank, and that an earlier one contributes more.
LEMMA TermsDecrease ==
  ASSUME NEW j \in 1..TopRank, NEW k \in 1..TopRank
  PROVE  /\ Denominator \div (RrfK + j) \in Nat
         /\ j < k => Denominator \div (RrfK + k) < Denominator \div (RrfK + j)
<1>0. TopRank \in Nat /\ RrfK \in Nat \ {0}
  BY ProductIs, AnsweringAssumption
<1> DEFINE m == RrfK + j
           n == RrfK + k
<1>1. m \in Nat \ {0} /\ n \in Nat \ {0} /\ (j < k => m < n)
  BY <1>0
<1>2. PICK p \in Nat : Denominator = p * m
  BY DenominatorIs
<1>3. PICK q \in Nat : Denominator = q * n
  BY DenominatorIs
<1> HIDE DEF m, n
<1>4. Denominator \div m = p /\ Denominator \div n = q
  BY <1>1, <1>2, <1>3, ExactDivision
<1>5. j < k => q < p
  BY <1>1, <1>2, <1>3, DenominatorIs, Quotients
<1>6. QED
  BY <1>4, <1>5 DEF m, n

-----------------------------------------------------------------------------
(* The prompt *)

\* The recursive function of LengthUpTo adds one length after another.
Summed(ids) == /\ LengthUpTo(ids)[0] = 0
               /\ \A i \in 1..Len(ids) :
                    LengthUpTo(ids)[i] = LengthUpTo(ids)[i - 1] + lengths[ids[i]]
               /\ \A i \in 0..Len(ids) : LengthUpTo(ids)[i] \in Nat

\* The lengths add up.
LEMMA LengthIs ==
  ASSUME lengths \in [Ids -> Nat], NEW ids \in Seq(Ids)
  PROVE  Summed(ids)
<1> DEFINE n == Len(ids)
           g == [p \in Nat \X Nat |-> p[1] + (IF p[2] \in 1..n THEN lengths[ids[p[2]]] ELSE 0)]
           T == LengthUpTo(ids)
<1>1. n \in Nat /\ DOMAIN ids = 1..n
  OBVIOUS
<1>2. \A i \in 1..n : lengths[ids[i]] \in Nat
  OBVIOUS
<1> HIDE DEF n
<1>3. g \in [Nat \X Nat -> Nat]
  BY <1>2
<1>4. \A u \in Nat : \A i \in 1..n : i \in Nat /\ g[<<u, i>>] = u + lengths[ids[i]]
  BY <1>1
<1> HIDE DEF g
<1>5. PICK f \in [0..n -> Nat] : Computed(f, 0, g, n)
  <2>1. 0 \in Nat
    OBVIOUS
  <2>2. QED
    BY <1>1, <1>3, <2>1, Recursion
<1>6. \A i \in 1..n : i \in 0..n /\ i - 1 \in 0..n /\ i # 0
  BY <1>1
<1>7. f = [i \in 0..n |-> IF i = 0 THEN 0 ELSE f[i - 1] + lengths[ids[i]]]
  <2>1. ASSUME NEW i \in 0..n
        PROVE  f[i] = IF i = 0 THEN 0 ELSE f[i - 1] + lengths[ids[i]]
    <3>1. CASE i = 0
      BY <1>5, <3>1 DEF Computed
    <3>2. CASE i # 0
      <4>1. i \in 1..n
        BY <1>1, <3>2
      <4>2. QED
        BY <1>4, <1>5, <1>6, <3>2, <4>1 DEF Computed
    <3>3. QED
      BY <3>1, <3>2
  <2>2. QED
    BY <2>1
<1>8. T = [i \in 0..n |-> IF i = 0 THEN 0 ELSE T[i - 1] + lengths[ids[i]]]
  BY <1>7, Zenon DEF LengthUpTo, n
<1> HIDE DEF T
<1>9. T[0] = 0 /\ \A i \in 1..n : T[i] = T[i - 1] + lengths[ids[i]]
  <2>1. 0 \in 0..n
    BY <1>1
  <2>2. QED
    BY <1>6, <1>8, <2>1
<1>10. \A i \in 0..n : T[i] \in Nat
  <2> DEFINE N == {i \in Nat : i <= n => T[i] \in Nat}
  <2>1. 0 \in N
    BY <1>9
  <2>2. ASSUME NEW i \in Nat, i \in N PROVE i + 1 \in N
    <3> SUFFICES ASSUME i + 1 <= n PROVE T[i + 1] \in Nat
      OBVIOUS
    <3>1. T[i] \in Nat /\ i + 1 \in 1..n /\ (i + 1) - 1 = i
      BY <1>1, <2>2
    <3>2. T[i + 1] = T[i] + lengths[ids[i + 1]]
      BY <1>9, <3>1
    <3>3. QED
      BY <1>2, <3>1, <3>2
  <2> HIDE DEF N
  <2>3. Nat \subseteq N
    BY <2>1, <2>2, Induction
  <2>4. QED
    BY <1>1, <2>3 DEF N
<1>11. QED
  BY <1>9, <1>10 DEF Summed, T, n

LengthOf(ids) == LengthUpTo(ids)[Len(ids)]

\* One more chunk.
LEMMA LengthOfAppend ==
  ASSUME lengths \in [Ids -> Nat], NEW ids \in Seq(Ids), NEW c \in Ids
  PROVE  /\ LengthOf(Append(ids, c)) = LengthOf(ids) + lengths[c]
         /\ LengthOf(ids) \in Nat /\ LengthOf(<<>>) = 0
<1> DEFINE n == Len(ids)
           more == Append(ids, c)
<1>1. /\ n \in Nat /\ more \in Seq(Ids) /\ Len(more) = n + 1 /\ more[n + 1] = c
      /\ \A i \in 1..n : more[i] = ids[i]
  OBVIOUS
<1>2. Summed(ids) /\ Summed(more)
  BY <1>1, LengthIs
<1> DEFINE N == {i \in Nat : i <= n => LengthUpTo(more)[i] = LengthUpTo(ids)[i]}
<1> HIDE DEF n, more
<1>3. 0 \in N
  BY <1>2 DEF Summed
<1>4. ASSUME NEW i \in Nat, i \in N PROVE i + 1 \in N
  <2> SUFFICES ASSUME i + 1 <= n PROVE LengthUpTo(more)[i + 1] = LengthUpTo(ids)[i + 1]
    OBVIOUS
  <2>1. /\ i + 1 \in 1..n /\ i + 1 \in 1..(n + 1) /\ (i + 1) - 1 = i
        /\ LengthUpTo(more)[i] = LengthUpTo(ids)[i]
    BY <1>1, <1>4
  <2>2. LengthUpTo(more)[i + 1] = LengthUpTo(more)[i] + lengths[more[i + 1]]
    BY <1>1, <1>2, <2>1 DEF Summed
  <2>3. LengthUpTo(ids)[i + 1] = LengthUpTo(ids)[i] + lengths[ids[i + 1]]
    BY <1>1, <1>2, <2>1 DEF Summed, n
  <2>4. QED
    BY <1>1, <2>1, <2>2, <2>3
<1> HIDE DEF N
<1>5. Nat \subseteq N
  BY <1>3, <1>4, Induction
<1>6. LengthUpTo(more)[n] = LengthUpTo(ids)[n]
  BY <1>1, <1>5 DEF N
<1>7. LengthUpTo(more)[n + 1] = LengthUpTo(more)[n] + lengths[c]
  <2>1. n + 1 \in 1..(n + 1) /\ (n + 1) - 1 = n
    BY <1>1
  <2>2. QED
    BY <1>1, <1>2, <2>1 DEF Summed
<1>8. LengthUpTo(ids)[n] \in Nat
  BY <1>1, <1>2 DEF Summed, n
<1>9. LengthUpTo(<<>>)[0] = 0 /\ Len(<<>>) = 0
  <2>1. <<>> \in Seq(Ids)
    OBVIOUS
  <2>2. QED
    BY <2>1, LengthIs DEF Summed
<1>10. QED
  BY <1>1, <1>6, <1>7, <1>8, <1>9 DEF LengthOf, n, more

\* What has been taken into the prompt: chunks of the context before place i, each
\* once, and with the newlines between them they are as long as was counted.
Taken(s, i) ==
  /\ s.ids \in Seq(Ids) /\ s.used \in Nat /\ s.used <= MaxContext
  /\ Unique(s.ids)
  /\ \A n \in DOMAIN s.ids : \E m \in 1..i : s.ids[n] = context[m].id
  /\ s.used = IF s.ids = <<>> THEN 0 ELSE LengthOf(s.ids) + Len(s.ids) - 1

LEMMA ConsiderTakes ==
  ASSUME lengths \in [Ids -> Nat], Listing(context, RerankTopK),
         NEW i \in Nat, i + 1 <= Len(context), NEW s \in [ids : Seq(Ids), used : Nat],
         Taken(s, i)
  PROVE  Taken(Consider(s, i + 1), i + 1)
<1> DEFINE c == context[i + 1].id
           sep == Separator(s.ids)
           used == s.used + sep + lengths[c]
<1>1. /\ i + 1 \in DOMAIN context /\ c \in Ids /\ lengths[c] \in Nat
      /\ sep \in Nat /\ used \in Nat /\ MaxContext \in Nat
  <2>1. i + 1 \in DOMAIN context /\ c \in Ids
    BY ListingOfRanks
  <2>2. lengths[c] \in Nat /\ sep \in Nat
    BY <2>1 DEF Separator
  <2>3. s.used \in Nat /\ MaxContext \in Nat
    BY AnsweringAssumption DEF Taken
  <2> HIDE DEF c, sep
  <2>4. QED
    BY <2>1, <2>2, <2>3
<1>2. CASE used > MaxContext
  <2>1. Consider(s, i + 1) = s
    BY <1>2 DEF Consider
  <2>2. 1..i \subseteq 1..(i + 1)
    OBVIOUS
  <2>3. QED
    BY <2>1, <2>2 DEF Taken
<1>3. CASE ~(used > MaxContext)
  <2> DEFINE ids == Append(s.ids, c)
  <2>1. Consider(s, i + 1) = [ids |-> ids, used |-> used]
    BY <1>3 DEF Consider
  <2>2. /\ ids \in Seq(Ids) /\ Len(ids) = Len(s.ids) + 1 /\ Len(s.ids) \in Nat
        /\ ids # <<>> /\ ids[Len(s.ids) + 1] = c
        /\ DOMAIN ids = 1..(Len(s.ids) + 1) /\ DOMAIN s.ids = 1..Len(s.ids)
        /\ \A n \in 1..Len(s.ids) : ids[n] = s.ids[n]
    BY <1>1 DEF Taken
  <2>3. \A n \in DOMAIN s.ids : s.ids[n] # c
    <3> SUFFICES ASSUME NEW n \in DOMAIN s.ids PROVE s.ids[n] # c
      OBVIOUS
    <3>1. PICK m \in 1..i : s.ids[n] = context[m].id
      BY DEF Taken
    <3>2. m \in DOMAIN context /\ m # i + 1
      BY <1>1 DEF Listing
    <3>3. QED
      BY <1>1, <3>1, <3>2 DEF Listing
  <2>4. LengthOf(ids) = LengthOf(s.ids) + lengths[c] /\ LengthOf(s.ids) \in Nat
        /\ LengthOf(<<>>) = 0
    BY <1>1, LengthOfAppend DEF Taken
  <2> HIDE DEF ids, c
  <2>5. Unique(ids)
    <3>1. \A n, m \in 1..Len(s.ids) : s.ids[n] = s.ids[m] => n = m
      BY <2>2 DEF Taken, Unique
    <3>2. ASSUME NEW n \in DOMAIN ids, NEW m \in DOMAIN ids, ids[n] = ids[m] PROVE n = m
      <4>1. \A k \in DOMAIN ids : k # Len(s.ids) + 1 => k \in 1..Len(s.ids) /\ ids[k] # c
        <5> SUFFICES ASSUME NEW k \in DOMAIN ids, k # Len(s.ids) + 1
                     PROVE  k \in 1..Len(s.ids) /\ ids[k] # c
          OBVIOUS
        <5>1. k \in 1..Len(s.ids)
          BY <2>2
        <5>2. QED
          BY <2>2, <2>3, <5>1
      <4>2. CASE n = Len(s.ids) + 1 \/ m = Len(s.ids) + 1
        BY <2>2, <3>2, <4>1, <4>2
      <4>3. CASE n # Len(s.ids) + 1 /\ m # Len(s.ids) + 1
        BY <2>2, <3>1, <3>2, <4>1, <4>3
      <4>4. QED
        BY <4>2, <4>3
    <3>3. QED
      BY <3>2 DEF Unique
  <2>6. \A n \in DOMAIN ids : \E m \in 1..(i + 1) : ids[n] = context[m].id
    <3> SUFFICES ASSUME NEW n \in DOMAIN ids
                 PROVE  \E m \in 1..(i + 1) : ids[n] = context[m].id
      OBVIOUS
    <3>1. CASE n = Len(s.ids) + 1
      <4>1. i + 1 \in 1..(i + 1)
        OBVIOUS
      <4>2. QED
        BY <2>2, <3>1, <4>1 DEF c
    <3>2. CASE n # Len(s.ids) + 1
      <4>1. n \in 1..Len(s.ids)
        BY <2>2, <3>2
      <4>2. PICK m \in 1..i : s.ids[n] = context[m].id
        BY <2>2, <4>1 DEF Taken
      <4>3. m \in 1..(i + 1)
        OBVIOUS
      <4>4. QED
        BY <2>2, <4>1, <4>2, <4>3
    <3>3. QED
      BY <3>1, <3>2
  <2>7. used = LengthOf(ids) + Len(ids) - 1
    <3>1. CASE s.ids = <<>>
      BY <1>1, <2>2, <2>4, <3>1 DEF Taken, Separator
    <3>2. CASE s.ids # <<>>
      BY <1>1, <2>2, <2>4, <3>2 DEF Taken, Separator
    <3>3. QED
      BY <3>1, <3>2
  <2> HIDE DEF used
  <2>8. Consider(s, i + 1).ids = ids /\ Consider(s, i + 1).used = used
    BY <2>1
  <2>9. used <= MaxContext
    BY <1>1, <1>3
  <2>10. QED
    BY <1>1, <2>2, <2>5, <2>6, <2>7, <2>8, <2>9 DEF Taken
<1>4. QED
  BY <1>2, <1>3

\* The chunks of the prompt are whole, of the context, each once, and fit.
LEMMA IncludedFits ==
  ASSUME lengths \in [Ids -> Nat], Listing(context, RerankTopK)
  PROVE  /\ Included \in Seq(Ids) /\ Unique(Included)
         /\ SetOf(Included) \subseteq IdsOf(context)
         /\ Included # <<>> => LengthOf(Included) + Len(Included) - 1 <= MaxContext
<1> DEFINE n == Len(context)
           S == [ids : Seq(Ids), used : Nat]
           a == [ids |-> <<>>, used |-> 0]
           g == [p \in S \X Nat |-> IF p[2] \in 1..n THEN Consider(p[1], p[2]) ELSE p[1]]
<1>1. n \in Nat /\ DOMAIN context = 1..n /\ \A i \in 1..n : context[i].id \in Ids
  BY ListingOfRanks
<1> HIDE DEF n
<1>2. \A s \in S : \A i \in 1..n : Consider(s, i) \in S
  <2> SUFFICES ASSUME NEW s \in S, NEW i \in 1..n PROVE Consider(s, i) \in S
    OBVIOUS
  <2> DEFINE used == s.used + Separator(s.ids) + lengths[context[i].id]
  <2>1. used \in Nat
    BY <1>1 DEF Separator
  <2>2. Consider(s, i) \in {s, [ids |-> Append(s.ids, context[i].id), used |-> used]}
    BY DEF Consider
  <2> HIDE DEF used
  <2>3. Append(s.ids, context[i].id) \in Seq(Ids)
    BY <1>1
  <2>4. [ids |-> Append(s.ids, context[i].id), used |-> used] \in S
    BY <2>1, <2>3
  <2> HIDE DEF S
  <2>5. QED
    BY <2>2, <2>4
<1>3. a \in S /\ Taken(a, 0)
  BY AnsweringAssumption DEF Taken, Unique
<1> HIDE DEF S, a
<1>4. g \in [S \X Nat -> S]
  BY <1>2
<1>5. \A s \in S : \A i \in 1..n : i \in Nat /\ g[<<s, i>>] = Consider(s, i)
  BY <1>1
<1> HIDE DEF g
<1>6. PICK f \in [0..n -> S] : Computed(f, a, g, n)
  BY <1>1, <1>3, <1>4, Recursion
<1>7. \A i \in 1..n : i \in 0..n /\ i - 1 \in 0..n /\ i # 0
  BY <1>1
<1>8. f = [i \in 0..n |-> IF i = 0 THEN a ELSE Consider(f[i - 1], i)]
  <2>1. ASSUME NEW i \in 0..n
        PROVE  f[i] = IF i = 0 THEN a ELSE Consider(f[i - 1], i)
    <3>1. CASE i = 0
      BY <1>6, <3>1 DEF Computed
    <3>2. CASE i # 0
      <4>1. i \in 1..n
        BY <1>1, <3>2
      <4>2. QED
        BY <1>5, <1>6, <1>7, <3>2, <4>1 DEF Computed
    <3>3. QED
      BY <3>1, <3>2
  <2>2. QED
    BY <2>1
<1>9. Scan = [i \in 0..n |-> IF i = 0 THEN a ELSE Consider(Scan[i - 1], i)]
  BY <1>8, Zenon DEF Scan, n, a
<1>10. Scan[0] = a /\ \A i \in 1..n : Scan[i] = Consider(Scan[i - 1], i)
  <2>1. 0 \in 0..n
    BY <1>1
  <2>2. QED
    BY <1>7, <1>9, <2>1
<1> DEFINE N == {i \in Nat : i <= n => Scan[i] \in S /\ Taken(Scan[i], i)}
<1>11. 0 \in N
  BY <1>3, <1>10
<1>12. ASSUME NEW i \in Nat, i \in N PROVE i + 1 \in N
  <2> SUFFICES ASSUME i + 1 <= n PROVE Scan[i + 1] \in S /\ Taken(Scan[i + 1], i + 1)
    OBVIOUS
  <2>1. /\ Scan[i] \in S /\ Taken(Scan[i], i) /\ i + 1 \in 1..n /\ (i + 1) - 1 = i
    BY <1>1, <1>12
  <2>2. Scan[i + 1] = Consider(Scan[i], i + 1)
    BY <1>10, <2>1
  <2>3. Taken(Consider(Scan[i], i + 1), i + 1)
    BY <2>1, ConsiderTakes DEF S, n
  <2>4. QED
    BY <1>2, <2>1, <2>2, <2>3
<1> HIDE DEF N
<1>13. Nat \subseteq N
  BY <1>11, <1>12, Induction
<1>14. Taken(Scan[n], n)
  BY <1>1, <1>13 DEF N
<1>15. Included = Scan[n].ids
  BY DEF Included, n
<1>16. QED
  BY <1>1, <1>14, <1>15, AnsweringAssumption DEF Taken, SetOf, IdsOf

-----------------------------------------------------------------------------
(* Citations *)

\* Of the markers of an answer the authorised ones remain, each once.
LEMMA SanitizedIsUnique ==
  ASSUME NEW k \in Nat, NEW markers \in [1..k -> Ids]
  PROVE  Unique(Sanitized(markers)) /\ SetOf(Sanitized(markers)) \subseteq SetOf(prompt)
<1> DEFINE S == FirstMentions(markers)
           R == {p \in S \X S : p[1] < p[2]}
           n == Cardinality(S)
           at(m) == CHOOSE i \in S : 1 + Cardinality({j \in S : j < i}) = m
<1>1. S \subseteq 1..k /\ \A i \in S : i \in Int
  BY DEF FirstMentions
<1>2. IsFiniteSet(S)
  <2>1. 1 \in Int /\ k \in Int
    OBVIOUS
  <2>2. IsFiniteSet(1..k)
    BY <2>1, FS_Interval
  <2> HIDE DEF S
  <2>3. QED
    BY <1>1, <2>2, FS_Subset
<1>3. \A i, j \in S : markers[i] = markers[j] => i = j
  <2> SUFFICES ASSUME NEW i \in S, NEW j \in S, markers[i] = markers[j], i < j PROVE FALSE
    BY <1>1
  <2>1. i \in 1..(j - 1)
    BY <1>1
  <2>2. QED
    BY <2>1 DEF FirstMentions
<1>4. \A i \in S : markers[i] \in SetOf(prompt)
  BY DEF FirstMentions
<1> HIDE DEF S
<1>5. \A i, j \in S : <<i, j>> \in R <=> i < j
  OBVIOUS
<1>6. \A i \in S : 1 + Cardinality({j \in S : j < i}) = Position(S, R)[i]
  <2> SUFFICES ASSUME NEW i \in S
               PROVE  1 + Cardinality({j \in S : j < i}) = Position(S, R)[i]
    OBVIOUS
  <2>1. {j \in S : j < i} = {j \in S : <<j, i>> \in R}
    OBVIOUS
  <2> HIDE DEF R
  <2>2. QED
    BY <2>1 DEF Position
<1> HIDE DEF R
<1>7. Enumerates(Position(S, R), S, R)
  <2>1. Orders(R, S)
    BY <1>1, <1>5 DEF Orders
  <2>2. QED
    BY <1>2, <2>1, Placing
<1>8. n \in Nat /\ \A m \in 1..n : at(m) \in S /\ Position(S, R)[at(m)] = m
  <2>1. n \in Nat
    BY <1>7 DEF Enumerates
  <2>2. ASSUME NEW m \in 1..n PROVE at(m) \in S /\ Position(S, R)[at(m)] = m
    <3>1. \E i \in S : 1 + Cardinality({j \in S : j < i}) = m
      BY <1>6, <1>7 DEF Enumerates
    <3>2. at(m) \in S /\ 1 + Cardinality({j \in S : j < at(m)}) = m
      BY <3>1
    <3>3. QED
      BY <1>6, <3>2
  <2>3. QED
    BY <2>1, <2>2
<1>9. Sanitized(markers) = [m \in 1..n |-> markers[at(m)]]
  BY DEF Sanitized, S
<1> HIDE DEF at, n
<1>10. ASSUME NEW l \in 1..n, NEW m \in 1..n, markers[at(l)] = markers[at(m)] PROVE l = m
  BY <1>3, <1>8, <1>10
<1>11. QED
  BY <1>4, <1>8, <1>9, <1>10 DEF Unique, SetOf

-----------------------------------------------------------------------------
(* Fusion *)

\* What fusion sorts, and when both sources have returned a listing.
FusedEntries ==
  {[id |-> r.id, value |-> r.value, score |-> Contribution(r.id)] :
     r \in Members(found[1]) \cup Members(found[2])}

Sourced == DOMAIN found = 1..2 /\ \A i \in 1..2 : Listing(found[i], TopRank)

LEMMA RankInListing ==
  ASSUME NEW s, Listing(s, TopRank), NEW c \in IdsOf(s)
  PROVE  RankIn(s, c) \in DOMAIN s /\ s[RankIn(s, c)].id = c /\ RankIn(s, c) \in 1..TopRank
<1>1. \E i \in DOMAIN s : s[i].id = c
  BY DEF IdsOf
<1>2. RankIn(s, c) \in DOMAIN s /\ s[RankIn(s, c)].id = c
  BY <1>1 DEF RankIn
<1>3. DOMAIN s = 1..Len(s) /\ Len(s) \in Nat /\ Len(s) <= TopRank /\ TopRank \in Nat
  BY ListingOfRanks, ProductIs DEF Listing
<1>4. QED
  BY <1>2, <1>3

LEMMA TermIs ==
  ASSUME Sourced, NEW i \in 1..2, NEW c
  PROVE  Term(i, c) \in Nat
<1>1. CASE c \in IdsOf(found[i])
  <2>1. RankIn(found[i], c) \in 1..TopRank
    BY <1>1, RankInListing DEF Sourced
  <2>2. QED
    BY <1>1, <2>1, TermsDecrease DEF Term
<1>2. CASE c \notin IdsOf(found[i])
  BY <1>2 DEF Term
<1>3. QED
  BY <1>1, <1>2

\* Without a conflict the two sources name each chunk once.
LEMMA FusedIsRankable ==
  ASSUME Sourced, ~Conflict
  PROVE  Rankable(FusedEntries)
<1> DEFINE M == Members(found[1]) \cup Members(found[2])
<1>1. \A r \in M : r.id \in Ids /\ r.value \in Values
  <2> SUFFICES ASSUME NEW i \in 1..2, NEW r \in Members(found[i])
               PROVE  r.id \in Ids /\ r.value \in Values
    OBVIOUS
  <2>1. QED
    BY ListingOfRanks DEF Sourced, Members
<1>2. \A a, b \in M : a.id = b.id => a.value = b.value
  BY DEF Conflict, Sourced
<1>3. \A c : Contribution(c) \in Int
  BY TermIs DEF Contribution
<1> HIDE DEF M
<1>4. FusedEntries = {[id |-> r.id, value |-> r.value, score |-> Contribution(r.id)] : r \in M}
  BY DEF FusedEntries, M
<1>5. FusedEntries \subseteq Entries
  BY <1>1, <1>3, <1>4 DEF Entries
<1>6. ASSUME NEW a \in FusedEntries, NEW b \in FusedEntries, a.id = b.id PROVE a = b
  <2>1. PICK p \in M : a = [id |-> p.id, value |-> p.value, score |-> Contribution(p.id)]
    BY <1>4
  <2>2. PICK q \in M : b = [id |-> q.id, value |-> q.value, score |-> Contribution(q.id)]
    BY <1>4
  <2>3. a.id = p.id /\ b.id = q.id
    BY <2>1, <2>2
  <2>4. p.id = q.id /\ p.value = q.value
    BY <1>2, <1>6, <2>3
  <2>5. QED
    BY <2>1, <2>2, <2>4
<1>7. QED
  BY <1>5, <1>6 DEF Rankable

\* What every source that returned b returned before it contributes more.
LEMMA EarlierContributesMore ==
  ASSUME Sourced, NEW a, NEW b, NEW k \in 1..2, b \in IdsOf(found[k]),
         \A i \in 1..2 : b \in IdsOf(found[i]) =>
           a \in IdsOf(found[i]) /\ RankIn(found[i], a) < RankIn(found[i], b)
  PROVE  Contribution(b) < Contribution(a)
<1>1. ASSUME NEW i \in 1..2
      PROVE  /\ Term(i, a) \in Nat /\ Term(i, b) \in Nat /\ Term(i, b) <= Term(i, a)
             /\ b \in IdsOf(found[i]) => Term(i, b) < Term(i, a)
  <2>1. Term(i, a) \in Nat /\ Term(i, b) \in Nat
    BY TermIs
  <2>2. CASE b \in IdsOf(found[i])
    <3>1. a \in IdsOf(found[i]) /\ RankIn(found[i], a) < RankIn(found[i], b)
      BY <2>2
    <3>2. RankIn(found[i], a) \in 1..TopRank /\ RankIn(found[i], b) \in 1..TopRank
      BY <2>2, <3>1, RankInListing DEF Sourced
    <3>3. Term(i, b) < Term(i, a)
      BY <2>2, <3>1, <3>2, TermsDecrease DEF Term
    <3>4. QED
      BY <2>1, <3>3
  <2>3. CASE b \notin IdsOf(found[i])
    <3>1. Term(i, b) = 0
      BY <2>3 DEF Term
    <3>2. QED
      BY <2>1, <2>3, <3>1
  <2>4. QED
    BY <2>2, <2>3
<1>2. k = 1 \/ k = 2
  OBVIOUS
<1>3. 1 \in 1..2 /\ 2 \in 1..2
  OBVIOUS
<1>4. /\ Term(1, a) \in Nat /\ Term(1, b) \in Nat /\ Term(1, b) <= Term(1, a)
      /\ Term(2, a) \in Nat /\ Term(2, b) \in Nat /\ Term(2, b) <= Term(2, a)
      /\ Term(1, b) < Term(1, a) \/ Term(2, b) < Term(2, a)
  BY <1>1, <1>2, <1>3
<1>5. QED
  BY <1>4 DEF Contribution

\* Fusion hands on what its sources returned, in an order that respects theirs.
LEMMA FusedRespects ==
  ASSUME Sourced, ~Conflict
  PROVE  /\ Listing(Fused, TopK)
         /\ \A i \in DOMAIN Fused : \E k \in 1..2 : \E s \in Members(found[k]) :
              s.id = Fused[i].id /\ s.value = Fused[i].value
         /\ \A a \in UNION {IdsOf(found[i]) : i \in DOMAIN found} : \A b \in IdsOf(Fused) :
              /\ a # b
              /\ \A i \in DOMAIN found :
                   b \in IdsOf(found[i]) =>
                     a \in IdsOf(found[i]) /\ RankIn(found[i], a) < RankIn(found[i], b)
              => a \in IdsOf(Fused) /\ RankIn(Fused, a) < RankIn(Fused, b)
<1>1. Rankable(FusedEntries) /\ TopK \in Nat /\ Fused = Ranked(FusedEntries, TopK)
  BY FusedIsRankable, AnsweringAssumption DEF Fused, FusedEntries
<1>2. /\ Listing(Fused, TopK)
      /\ \A i \in DOMAIN Fused : \E r \in FusedEntries :
           Fused[i].id = r.id /\ Fused[i].value = r.value
  BY <1>1, RankedIsListing
<1>3. \A e \in FusedEntries : \E k \in 1..2 : \E s \in Members(found[k]) :
        e.id = s.id /\ e.value = s.value /\ e.score = Contribution(s.id)
  BY DEF FusedEntries
<1>4. \A i \in DOMAIN Fused : \E k \in 1..2 : \E s \in Members(found[k]) :
        s.id = Fused[i].id /\ s.value = Fused[i].value
  BY <1>2, <1>3
<1>5. ASSUME NEW a \in UNION {IdsOf(found[i]) : i \in DOMAIN found}, NEW b \in IdsOf(Fused),
             a # b,
             \A i \in DOMAIN found :
               b \in IdsOf(found[i]) =>
                 a \in IdsOf(found[i]) /\ RankIn(found[i], a) < RankIn(found[i], b)
      PROVE  a \in IdsOf(Fused) /\ RankIn(Fused, a) < RankIn(Fused, b)
  <2>1. PICK eb \in FusedEntries : eb.id = b
    BY <1>2 DEF IdsOf
  <2>2. PICK k \in 1..2 : \E s \in Members(found[k]) :
          eb.id = s.id /\ eb.score = Contribution(s.id)
    BY <1>3
  <2>3. b \in IdsOf(found[k])
    BY <2>1, <2>2 DEF IdsOf, Members
  <2>4. Contribution(b) < Contribution(a)
    BY <1>5, <2>3, EarlierContributesMore DEF Sourced
  <2>5. PICK sa \in Members(found[1]) \cup Members(found[2]) : sa.id = a
    BY DEF Sourced, IdsOf, Members
  <2> DEFINE ea == [id |-> sa.id, value |-> sa.value, score |-> Contribution(sa.id)]
  <2>6. ea \in FusedEntries /\ ea.id = a /\ ea.score = Contribution(a)
    BY <2>5 DEF FusedEntries
  <2> HIDE DEF ea
  <2>7. Before(ea, eb)
    <3>1. \A i \in 1..2, c \in {a, b} : Term(i, c) \in Nat
      BY TermIs
    <3>2. Contribution(a) \in Int /\ Contribution(b) \in Int
      BY <3>1 DEF Contribution
    <3>3. QED
      BY <2>1, <2>2, <2>4, <2>6, <3>2 DEF Before
  <2>8. QED
    BY <1>1, <2>1, <2>6, <2>7, EarlierIsRanked
<1>6. QED
  BY <1>2, <1>4, <1>5

-----------------------------------------------------------------------------
(* The run *)

\* The run has not come beyond these stages.
NotBeyond(stages) == stage \in stages \/ (stage = "idle" /\ ending = "none")

\* What is still to come is empty.
Ahead ==
  /\ NotBeyond({}) => found = <<>>
  /\ NotBeyond({"retrieve"}) => candidates = <<>>
  /\ NotBeyond({"retrieve", "rerank"}) => context = <<>>
  /\ NotBeyond({"retrieve", "rerank", "prompt"}) => prompt = <<>>
  /\ NotBeyond({"retrieve", "rerank", "prompt", "generate"}) => citations = <<>>

\* A source returned this content of the chunk.
Located(r, lists) == \E i \in DOMAIN lists : \E s \in Members(lists[i]) :
                       s.id = r.id /\ s.value = r.value

\* Nothing is new in a later stage.
Grounded ==
  /\ \A r \in Members(candidates) : Located(r, found)
  /\ \A r \in Members(context) : \E c \in Members(candidates) : c.id = r.id /\ c.value = r.value
  /\ SetOf(citations) \subseteq SetOf(prompt)

\* The prompt has chunks of the context, each once, and fits.
GoodPrompt ==
  /\ prompt \in Seq(Ids) /\ Unique(prompt) /\ SetOf(prompt) \subseteq IdsOf(context)
  /\ prompt # <<>> => LengthOf(prompt) + Len(prompt) - 1 <= MaxContext

\* Every source has returned a listing.
Searched ==
  /\ DOMAIN found = 1..Len(found) /\ Len(found) \in Nat
  /\ \A i \in DOMAIN found : Listing(found[i], CandidatesPerSource)

\* The inductive invariant of a run: what every stage has handed on.
AnsweringInv ==
  /\ lengths \in [Ids -> Nat] /\ mode \in Modes
  /\ StagesAgree /\ Ahead /\ Searched
  /\ Listing(candidates, TopK) /\ Listing(context, RerankTopK)
  /\ Grounded /\ GoodPrompt /\ FusionRespectsSources

LEMMA EmptyListing == ASSUME NEW k \in Nat PROVE Listing(<<>>, k)
  BY DEF Listing

LEMMA AnsweringInitInvariant == AnsweringInit => AnsweringInv
<1> SUFFICES ASSUME AnsweringInit PROVE AnsweringInv
  OBVIOUS
<1>1. lengths \in [Ids -> Nat] /\ mode \in Modes
  BY AnsweringAssumption DEF AnsweringInit, Modes
<1>2. TopK \in Nat /\ RerankTopK \in Nat
  BY AnsweringAssumption
<1>3. /\ stage = "idle" /\ found = <<>> /\ ending = "none"
      /\ candidates = <<>> /\ context = <<>> /\ prompt = <<>> /\ citations = <<>>
  BY DEF AnsweringInit
<1>4. StagesAgree /\ Ahead
  BY <1>3 DEF StagesAgree, Ahead, NotBeyond
<1>5. Searched
  BY <1>3 DEF Searched
<1>6. Listing(candidates, TopK) /\ Listing(context, RerankTopK)
  BY <1>2, <1>3, EmptyListing
<1>7. Grounded
  BY <1>3 DEF Grounded, Members, SetOf
<1>8. GoodPrompt
  BY <1>3 DEF GoodPrompt, Unique, SetOf
<1>9. FusionRespectsSources
  BY <1>3 DEF FusionRespectsSources
<1>10. QED
  BY <1>1, <1>4, <1>5, <1>6, <1>7, <1>8, <1>9 DEF AnsweringInv

\* A run that stops without an answer leaves what it had.
LEMMA Stopping ==
  ASSUME AnsweringInv, NEW how \in {"failed", "conflict"}, Raise(how),
         UNCHANGED <<mode, lengths, found>>
  PROVE  AnsweringInv'
<1>1. UNCHANGED <<mode, lengths, found, candidates, context, prompt, citations>>
      /\ stage' = "idle" /\ ending' = how
  BY DEF Raise, Finish, run
<1>2. StagesAgree' /\ Ahead'
  BY <1>1 DEF StagesAgree, Ahead, NotBeyond
<1>3. Searched' /\ FusionRespectsSources'
  BY <1>1 DEF AnsweringInv, Searched, CandidatesPerSource, FusionRespectsSources
<1>4. Grounded' /\ GoodPrompt'
  BY <1>1 DEF AnsweringInv, Grounded, GoodPrompt, Located, LengthOf, LengthUpTo
<1>5. QED
  BY <1>1, <1>2, <1>3, <1>4 DEF AnsweringInv

LEMMA BeginKeeps == ASSUME AnsweringInv, Begin PROVE AnsweringInv'
<1>1. /\ stage = "idle" /\ ending = "none" /\ stage' = "retrieve" /\ mode' \in Modes
      /\ UNCHANGED <<lengths, found, candidates, context, prompt, citations, ending>>
  BY DEF Begin, run
<1>2. found = <<>> /\ candidates = <<>>
  BY <1>1 DEF AnsweringInv, Ahead, NotBeyond
<1>3. StagesAgree' /\ Ahead'
  BY <1>1 DEF AnsweringInv, StagesAgree, Ahead, NotBeyond
<1>4. Searched' /\ FusionRespectsSources'
  BY <1>1, <1>2 DEF Searched, FusionRespectsSources
<1>5. Grounded' /\ GoodPrompt'
  BY <1>1 DEF AnsweringInv, Grounded, GoodPrompt, Located, LengthOf, LengthUpTo
<1>6. QED
  BY <1>1, <1>3, <1>4, <1>5 DEF AnsweringInv

LEMMA SearchKeeps == ASSUME AnsweringInv, Search PROVE AnsweringInv'
<1>1. /\ stage = "retrieve" /\ candidates = <<>> /\ context = <<>>
      /\ UNCHANGED <<stage, mode, lengths, candidates, context, prompt, citations, ending>>
  BY DEF Search, run, AnsweringInv, Ahead, NotBeyond
<1> DEFINE S(r) == {[id |-> c, value |-> r[c].value, score |-> r[c].score] : c \in DOMAIN r}
<1>2. PICK source : \E r \in Results(source) :
        found' = Append(found, Ranked(S(r), CandidatesPerSource))
  BY DEF Search
<1>3. PICK r \in Results(source) : found' = Append(found, Ranked(S(r), CandidatesPerSource))
  BY <1>2
<1>4. PICK chunks \in SUBSET Ids : r \in [chunks -> [value : Values, score : Scores]]
  BY DEF Results
<1>5. Rankable(S(r))
  <2>1. \A c \in chunks : c \in Ids /\ r[c].value \in Values /\ r[c].score \in Int
    BY <1>4, AnsweringAssumption
  <2>2. DOMAIN r = chunks
    BY <1>4
  <2>3. QED
    BY <2>1, <2>2 DEF Rankable, Entries
<1>6. CandidatesPerSource \in Nat
  BY ProductIs, AnsweringAssumption DEF CandidatesPerSource
<1> DEFINE L == Ranked(S(r), CandidatesPerSource)
<1>7. Listing(L, CandidatesPerSource)
  BY <1>5, <1>6, RankedIsListing
<1> HIDE DEF L
<1>8. found' = Append(found, L)
  BY <1>3 DEF L
<1>9. Searched'
  <2>1. /\ DOMAIN found' = 1..Len(found') /\ Len(found') = Len(found) + 1
        /\ \A i \in 1..Len(found) : found'[i] = found[i]
        /\ found'[Len(found) + 1] = L
    BY <1>8 DEF AnsweringInv, Searched
  <2>2. QED
    BY <1>1, <1>7, <2>1 DEF AnsweringInv, Searched, CandidatesPerSource
<1>10. StagesAgree' /\ Ahead'
  BY <1>1 DEF AnsweringInv, StagesAgree, Ahead, NotBeyond
<1>11. Grounded' /\ GoodPrompt'
  BY <1>1 DEF AnsweringInv, Grounded, GoodPrompt, Located, Members, LengthOf, LengthUpTo
<1>12. FusionRespectsSources'
  BY <1>1 DEF FusionRespectsSources
<1>13. QED
  BY <1>1, <1>9, <1>10, <1>11, <1>12 DEF AnsweringInv

\* What the service takes over from the retriever.
LEMMA TakingOver ==
  ASSUME AnsweringInv, stage = "retrieve", NEW results, Listing(results, TopK), Retrieved(results),
         UNCHANGED <<mode, lengths, found>>,
         \A r \in Members(results) : Located(r, found),
         mode.retriever = "hybrid" =>
           \A a \in UNION {IdsOf(found[i]) : i \in DOMAIN found} : \A b \in IdsOf(results) :
             /\ a # b
             /\ \A i \in DOMAIN found :
                  b \in IdsOf(found[i]) =>
                    a \in IdsOf(found[i]) /\ RankIn(found[i], a) < RankIn(found[i], b)
             => a \in IdsOf(results) /\ RankIn(results, a) < RankIn(results, b)
  PROVE  AnsweringInv'
<1>1. WellRanked(results, TopK)
  BY ListingIsWellRanked, AnsweringAssumption
<1>2. /\ candidates' = results /\ UNCHANGED <<context, prompt, citations>>
      /\ \/ stage' = "idle" /\ ending' = "omitted"
         \/ stage' = "rerank" /\ UNCHANGED ending
  BY <1>1 DEF Retrieved, Goto, Finish
<1>3. context = <<>> /\ prompt = <<>> /\ citations = <<>>
  BY DEF AnsweringInv, Ahead, NotBeyond
<1>4. StagesAgree' /\ Ahead'
  BY <1>2, <1>3 DEF AnsweringInv, StagesAgree, Ahead, NotBeyond
<1>5. Searched'
  BY DEF AnsweringInv, Searched, CandidatesPerSource
<1>6. Grounded'
  BY <1>2, <1>3 DEF Grounded, Located, Members, SetOf
<1>7. GoodPrompt'
  BY <1>2, <1>3 DEF AnsweringInv, GoodPrompt
<1>8. FusionRespectsSources'
  BY <1>2 DEF FusionRespectsSources
<1>9. QED
  BY <1>2, <1>4, <1>5, <1>6, <1>7, <1>8 DEF AnsweringInv

LEMMA RetrieveKeeps == ASSUME AnsweringInv, Retrieve PROVE AnsweringInv'
<1>1. /\ stage = "retrieve" /\ Len(found) = Len(SourcesOf(mode.retriever))
      /\ UNCHANGED <<mode, lengths, found>>
  BY DEF Retrieve
<1>2. CASE mode.retriever # "hybrid" /\ Retrieved(found[1])
  <2>1. 1 \in DOMAIN found /\ CandidatesPerSource = TopK
    BY <1>1, <1>2 DEF AnsweringInv, Searched, SourcesOf, CandidatesPerSource
  <2>2. Listing(found[1], TopK)
    BY <2>1 DEF AnsweringInv, Searched
  <2>3. \A r \in Members(found[1]) : Located(r, found)
    BY <2>1 DEF Located
  <2>4. QED
    BY <1>1, <1>2, <2>2, <2>3, TakingOver
<1>3. CASE mode.retriever = "hybrid" /\ Conflict /\ Raise("conflict")
  BY <1>1, <1>3, Stopping
<1>4. CASE mode.retriever = "hybrid" /\ ~Conflict /\ Retrieved(Fused)
  <2>1. Sourced
    BY <1>1, <1>4 DEF AnsweringInv, Searched, SourcesOf, CandidatesPerSource, Sourced
  <2>2. /\ Listing(Fused, TopK)
        /\ \A i \in DOMAIN Fused : \E k \in 1..2 : \E s \in Members(found[k]) :
             s.id = Fused[i].id /\ s.value = Fused[i].value
        /\ \A a \in UNION {IdsOf(found[i]) : i \in DOMAIN found} : \A b \in IdsOf(Fused) :
             /\ a # b
             /\ \A i \in DOMAIN found :
                  b \in IdsOf(found[i]) =>
                    a \in IdsOf(found[i]) /\ RankIn(found[i], a) < RankIn(found[i], b)
             => a \in IdsOf(Fused) /\ RankIn(Fused, a) < RankIn(Fused, b)
    BY <1>4, <2>1, FusedRespects
  <2>3. \A r \in Members(Fused) : Located(r, found)
    BY <2>1, <2>2 DEF Sourced, Located, Members
  <2>4. QED
    BY <1>1, <1>4, <2>2, <2>3, TakingOver
<1>5. QED
  BY <1>2, <1>3, <1>4 DEF Retrieve

\* The candidates with any scores can be ranked again.
LEMMA Rerankable ==
  ASSUME Listing(candidates, TopK), NEW S,
         \A e \in S : \E c \in Members(candidates) :
           /\ e = [id |-> c.id, value |-> c.value, score |-> e.score]
           /\ e.score \in Int,
         \A c \in Members(candidates) : \A d, e \in S :
           d.id = c.id /\ e.id = c.id => d.score = e.score
  PROVE  Rankable(S)
<1>1. \A c \in Members(candidates) : c.id \in Ids /\ c.value \in Values
  BY ListingOfRanks DEF Members
<1>2. S \subseteq Entries
  BY <1>1 DEF Entries
<1>3. ASSUME NEW d \in S, NEW e \in S, d.id = e.id PROVE d = e
  <2>1. PICK c \in Members(candidates) : d = [id |-> c.id, value |-> c.value, score |-> d.score]
    OBVIOUS
  <2>2. PICK b \in Members(candidates) : e = [id |-> b.id, value |-> b.value, score |-> e.score]
    OBVIOUS
  <2>3. d.id = c.id /\ e.id = b.id
    BY <2>1, <2>2
  <2>4. c = b
    <3>1. \A x, y \in Members(candidates) : x.id = y.id => x = y
      BY DEF Members, Listing
    <3>2. c.id = b.id
      BY <1>3, <2>3
    <3>3. QED
      BY <2>1, <2>2, <3>1, <3>2
  <2>5. d.score = e.score
    BY <1>3, <2>3
  <2>6. QED
    BY <2>1, <2>2, <2>4, <2>5
<1>4. QED
  BY <1>2, <1>3 DEF Rankable

\* What the service takes over from the reranker.
LEMMA TakingContext ==
  ASSUME AnsweringInv, stage = "rerank", NEW S, Rankable(S), Reranked(Ranked(S, RerankTopK)),
         UNCHANGED <<mode, lengths, found>>,
         \A e \in S : \E c \in Members(candidates) : c.id = e.id /\ c.value = e.value
  PROVE  AnsweringInv'
<1> DEFINE results == Ranked(S, RerankTopK)
<1>1. /\ RerankTopK \in Nat /\ Listing(results, RerankTopK)
      /\ \A r \in Members(results) : \E e \in S : r.id = e.id /\ r.value = e.value
  BY RankedIsListing, AnsweringAssumption DEF Members
<1> HIDE DEF results
<1>2. WellRanked(results, RerankTopK)
  BY <1>1, ListingIsWellRanked
<1>3. \A r \in Members(results) : \E c \in Members(candidates) : r.id = c.id /\ r.value = c.value
  BY <1>1
<1>4. /\ context' = results /\ UNCHANGED <<candidates, prompt, citations>>
      /\ \/ stage' = "idle" /\ ending' = "omitted"
         \/ stage' = "prompt" /\ UNCHANGED ending
  BY <1>2, <1>3 DEF Reranked, Goto, Finish, results
<1>5. prompt = <<>> /\ citations = <<>>
  BY DEF AnsweringInv, Ahead, NotBeyond
<1>6. StagesAgree' /\ Ahead'
  BY <1>4, <1>5 DEF AnsweringInv, StagesAgree, Ahead, NotBeyond
<1>7. Searched' /\ FusionRespectsSources'
  BY <1>4 DEF AnsweringInv, Searched, CandidatesPerSource, FusionRespectsSources
<1>8. Grounded'
  BY <1>3, <1>4, <1>5 DEF AnsweringInv, Grounded, Located, Members, SetOf
<1>9. GoodPrompt'
  BY <1>4, <1>5 DEF AnsweringInv, GoodPrompt, SetOf
<1>10. QED
  BY <1>1, <1>4, <1>6, <1>7, <1>8, <1>9 DEF AnsweringInv

LEMMA RerankKeeps == ASSUME AnsweringInv, Rerank PROVE AnsweringInv'
<1>1. stage = "rerank" /\ UNCHANGED <<mode, lengths, found>> /\ Listing(candidates, TopK)
  BY DEF Rerank, AnsweringInv
<1>2. \A c \in Members(candidates) : c.score \in Int /\ c.id \in IdsOf(candidates)
  BY <1>1, ListingOfRanks DEF Members, IdsOf
<1>3. \A c, d \in Members(candidates) : c.id = d.id => c = d
  BY <1>1 DEF Members, Listing
<1>4. CASE Reranked(Kept)
  <2> DEFINE S == {[id |-> r.id, value |-> r.value, score |-> r.score] : r \in Members(candidates)}
  <2>1. Rankable(S)
    <3>1. \A e \in S : \E c \in Members(candidates) :
            /\ e = [id |-> c.id, value |-> c.value, score |-> e.score]
            /\ e.score \in Int
      BY <1>2
    <3>2. \A c \in Members(candidates) : \A d, e \in S :
            d.id = c.id /\ e.id = c.id => d.score = e.score
      BY <1>3
    <3> HIDE DEF S
    <3>3. QED
      BY <1>1, <3>1, <3>2, Rerankable
  <2>2. \A e \in S : \E c \in Members(candidates) : c.id = e.id /\ c.value = e.value
    OBVIOUS
  <2>3. Reranked(Ranked(S, RerankTopK))
    BY <1>4 DEF Kept
  <2> HIDE DEF S
  <2>4. QED
    BY <1>1, <2>1, <2>2, <2>3, TakingContext
<1>5. ASSUME NEW logit \in [IdsOf(candidates) -> Scores], Reranked(Rescored(logit))
      PROVE  AnsweringInv'
  <2> DEFINE S == {[id |-> r.id, value |-> r.value, score |-> logit[r.id]] :
                     r \in Members(candidates)}
  <2>1. Rankable(S)
    <3>1. \A c \in Members(candidates) : logit[c.id] \in Int
      BY <1>2, AnsweringAssumption
    <3>2. \A e \in S : \E c \in Members(candidates) :
            /\ e = [id |-> c.id, value |-> c.value, score |-> e.score]
            /\ e.score \in Int
      BY <3>1
    <3>3. \A c \in Members(candidates) : \A d, e \in S :
            d.id = c.id /\ e.id = c.id => d.score = e.score
      BY <1>3
    <3> HIDE DEF S
    <3>4. QED
      BY <1>1, <3>2, <3>3, Rerankable
  <2>2. \A e \in S : \E c \in Members(candidates) : c.id = e.id /\ c.value = e.value
    OBVIOUS
  <2>3. Reranked(Ranked(S, RerankTopK))
    BY <1>5 DEF Rescored
  <2> HIDE DEF S
  <2>4. QED
    BY <1>1, <2>1, <2>2, <2>3, TakingContext
<1>6. QED
  BY <1>4, <1>5 DEF Rerank

LEMMA BuildPromptKeeps == ASSUME AnsweringInv, BuildPrompt PROVE AnsweringInv'
<1>1. /\ stage = "prompt" /\ UNCHANGED <<mode, lengths, found>>
      /\ citations = <<>>
  BY DEF BuildPrompt, AnsweringInv, Ahead, NotBeyond
<1>2. /\ Included \in Seq(Ids) /\ Unique(Included)
      /\ SetOf(Included) \subseteq IdsOf(context)
      /\ Included # <<>> => LengthOf(Included) + Len(Included) - 1 <= MaxContext
  BY IncludedFits DEF AnsweringInv
<1>3. /\ prompt' = Included /\ UNCHANGED <<candidates, context, citations>>
      /\ stage' = "generate" /\ UNCHANGED ending
  BY <1>2 DEF BuildPrompt, Goto
<1>4. StagesAgree' /\ Ahead'
  BY <1>1, <1>3 DEF AnsweringInv, StagesAgree, Ahead, NotBeyond
<1>5. Searched' /\ FusionRespectsSources'
  BY <1>1, <1>3 DEF AnsweringInv, Searched, CandidatesPerSource, FusionRespectsSources
<1>6. Grounded'
  BY <1>1, <1>3 DEF AnsweringInv, Grounded, Located, Members, SetOf
<1>7. GoodPrompt'
  <2>1. LengthOf(Included) = LengthOf(prompt)'
    BY <1>1, <1>3 DEF LengthOf, LengthUpTo
  <2>2. QED
    BY <1>2, <1>3, <2>1 DEF GoodPrompt
<1>8. QED
  BY <1>1, <1>3, <1>4, <1>5, <1>6, <1>7 DEF AnsweringInv

\* What the service takes over from the generator.
LEMMA TakingAnswer ==
  ASSUME AnsweringInv, stage = "generate",
         NEW cited, Unique(cited), SetOf(cited) \subseteq SetOf(prompt), Generated(cited),
         UNCHANGED <<mode, lengths, found>>
  PROVE  AnsweringInv'
<1>1. /\ citations' = cited /\ UNCHANGED <<candidates, context, prompt>>
      /\ stage' = "idle" /\ ending' = "answered"
  BY DEF Generated, Finish
<1>2. StagesAgree' /\ Ahead'
  BY <1>1 DEF StagesAgree, Ahead, NotBeyond
<1>3. Searched' /\ FusionRespectsSources'
  BY <1>1 DEF AnsweringInv, Searched, CandidatesPerSource, FusionRespectsSources
<1>4. Grounded'
  <2>1. SetOf(citations)' = SetOf(cited) /\ SetOf(prompt)' = SetOf(prompt)
    BY <1>1 DEF SetOf
  <2>2. /\ \A r \in Members(candidates)' : Located(r, found)'
        /\ \A r \in Members(context)' : \E c \in Members(candidates)' :
             c.id = r.id /\ c.value = r.value
    BY <1>1 DEF AnsweringInv, Grounded, Located, Members
  <2>3. QED
    BY <2>1, <2>2 DEF Grounded
<1>5. GoodPrompt'
  BY <1>1 DEF AnsweringInv, GoodPrompt, LengthOf, LengthUpTo
<1>6. QED
  BY <1>1, <1>2, <1>3, <1>4, <1>5 DEF AnsweringInv

LEMMA GenerateKeeps == ASSUME AnsweringInv, Generate PROVE AnsweringInv'
<1>1. stage = "generate" /\ UNCHANGED <<mode, lengths, found>>
  BY DEF Generate
<1>2. CASE Generated(Excerpt)
  <2>1. Unique(Excerpt) /\ SetOf(Excerpt) \subseteq SetOf(prompt)
    <3>1. CASE Excerpt = <<>>
      BY <3>1 DEF Unique, SetOf
    <3>2. CASE Excerpt # <<>>
      <4>1. prompt # <<>> /\ Excerpt = <<prompt[1]>>
        BY <3>2 DEF Excerpt
      <4>2. prompt \in Seq(Ids) /\ 1 \in DOMAIN prompt
        BY <4>1 DEF AnsweringInv, GoodPrompt
      <4>3. QED
        BY <4>1, <4>2 DEF Unique, SetOf
    <3>3. QED
      BY <3>1, <3>2
  <2>2. QED
    BY <1>1, <1>2, <2>1, TakingAnswer
<1>3. ASSUME NEW markers \in Markers, Generated(Sanitized(markers)) PROVE AnsweringInv'
  <2>1. PICK k \in 0..MaxMarkers : markers \in [1..k -> Ids]
    BY DEF Markers
  <2>2. k \in Nat
    BY AnsweringAssumption
  <2>3. Unique(Sanitized(markers)) /\ SetOf(Sanitized(markers)) \subseteq SetOf(prompt)
    BY <2>1, <2>2, SanitizedIsUnique
  <2>4. QED
    BY <1>1, <1>3, <2>3, TakingAnswer
<1>4. QED
  BY <1>2, <1>3 DEF Generate

LEMMA AnsweringNextInvariant == AnsweringInv /\ [AnsweringNext]_answering => AnsweringInv'
<1> SUFFICES ASSUME AnsweringInv, [AnsweringNext]_answering PROVE AnsweringInv'
  OBVIOUS
<1>1. CASE StageFails
  BY <1>1, Stopping DEF StageFails
<1>2. CASE UNCHANGED answering
  <2>1. UNCHANGED <<stage, mode, lengths, found, candidates, context, prompt, citations, ending>>
    BY <1>2 DEF answering, run
  <2>2. StagesAgree' /\ Ahead' /\ Searched' /\ FusionRespectsSources'
    BY <2>1 DEF AnsweringInv, StagesAgree, Ahead, NotBeyond, Searched, CandidatesPerSource,
                FusionRespectsSources
  <2>3. Grounded' /\ GoodPrompt'
    BY <2>1 DEF AnsweringInv, Grounded, GoodPrompt, Located, LengthOf, LengthUpTo
  <2>4. QED
    BY <2>1, <2>2, <2>3 DEF AnsweringInv
<1>3. QED
  BY <1>1, <1>2, BeginKeeps, SearchKeeps, RetrieveKeeps, RerankKeeps, BuildPromptKeeps,
     GenerateKeeps DEF AnsweringNext

LEMMA AnsweringInvariant == AnsweringSpec => []AnsweringInv
  BY AnsweringInitInvariant, AnsweringNextInvariant, PTL DEF AnsweringSpec

\* The service's own checks of a stage (_validate_ranked, the membership of the
\* context, the authorisation of the prompt and of the citations) never stop a run
\* of the repository's components: whatever the scores, the sizes and the limits,
\* the stages agree on order, ranks, identities and authorisation.
THEOREM StagesNeverDisagree == AnsweringSpec => []StagesAgree
<1>1. AnsweringInv => StagesAgree
  BY DEF AnsweringInv
<1>2. QED
  BY <1>1, AnsweringInvariant, PTL

\* HybridRetriever.retrieve: what every source that returned b returned before b
\* is among the candidates whenever b is, and before it.
THEOREM FusionKeepsOrder == AnsweringSpec => []FusionRespectsSources
<1>1. AnsweringInv => FusionRespectsSources
  BY DEF AnsweringInv
<1>2. QED
  BY <1>1, AnsweringInvariant, PTL

\* What AnsweringService.run cites stands in the prompt, was retrieved with the
\* content that a source returned, and survived reranking; and the chunks of the
\* prompt with the newlines between them fit max_context_chars.
THEOREM CitationsAreGrounded == AnsweringSpec => []AnswersAreGrounded
<1>1. AnsweringInv => AnswersAreGrounded
  <2> SUFFICES ASSUME AnsweringInv PROVE AnswersAreGrounded
    OBVIOUS
  <2>1. ASSUME NEW c \in SetOf(citations)
        PROVE  /\ c \in SetOf(prompt)
               /\ \E r \in Members(context) :
                    r.id = c /\ \E i \in DOMAIN found : \E s \in Members(found[i]) :
                                  s.id = c /\ s.value = r.value
    <3>1. c \in SetOf(prompt)
      BY DEF AnsweringInv, Grounded
    <3>2. PICK r \in Members(context) : r.id = c
      BY <3>1 DEF AnsweringInv, GoodPrompt, IdsOf, Members
    <3>3. PICK d \in Members(candidates) : d.id = c /\ d.value = r.value
      BY <3>2 DEF AnsweringInv, Grounded
    <3>4. Located(d, found)
      BY DEF AnsweringInv, Grounded
    <3>5. QED
      BY <3>1, <3>2, <3>3, <3>4 DEF Located
  <2>2. prompt # <<>> => LengthUpTo(prompt)[Len(prompt)] + Len(prompt) - 1 <= MaxContext
    BY DEF AnsweringInv, GoodPrompt, LengthOf
  <2>3. QED
    BY <2>1, <2>2 DEF AnswersAreGrounded
<1>2. QED
  BY <1>1, AnsweringInvariant, PTL

-----------------------------------------------------------------------------
(* Metadata filters *)

Types == Number \cup {"bool", "str", "null", "absent"}

\* A scalar is its type and its value.
LEMMA Scalarity ==
  /\ \A v \in Stored : v.type \in Types /\ v.n \in Int
  /\ \A x \in Operands : x.type \in Types \ {"absent"} /\ x.n \in Int
  /\ \A v \in Stored, x \in Operands : v.type = x.type /\ v.n = x.n => v = x
  /\ \A v \in Stored : (v.type = "null" <=> v = Null) /\ (v.type = "absent" <=> v = Absent)
  /\ \A x \in Operands : x.type = "null" <=> x = Null
<1> DEFINE Storable == Scalars \cup {Absent}
<1>1. \A w \in Storable : w.type \in Types /\ w.n \in Int
  BY DEF Scalars, Types, Number, Null, Absent, Scalar
<1>2. \A w, u \in Storable : w.type = u.type /\ w.n = u.n => w = u
  BY DEF Scalars, Types, Number, Null, Absent, Scalar
<1>3. \A w \in Storable : (w.type = "null" <=> w = Null) /\ (w.type = "absent" <=> w = Absent)
  BY DEF Scalars, Types, Number, Null, Absent, Scalar
<1>4. \A x \in Scalars : x.type # "absent"
  BY DEF Scalars, Types, Number, Null, Absent, Scalar
<1>5. Stored \subseteq Storable /\ Operands \subseteq Storable /\ Operands \subseteq Scalars
  BY ValuesAreScalars
<1> HIDE DEF Storable
<1>6. QED
  BY <1>1, <1>2, <1>3, <1>4, <1>5

\* Python's == with an operand that is not null is equality in one projection,
\* where it does not blur the value; and a number is compared with numbers.
LEMMA Telling ==
  ASSUME NEW v \in Stored, NEW x \in Operands, x # Null
  PROVE  /\ ~Blurs(v, x) => (Equal(Get(v), x) <=> Suffix(v) = Suffix(x) /\ v.n = x.n)
         /\ x.type \in Number => (Comparable(Get(v), x) <=> Suffix(v) = Suffix(x))
<1>1. /\ v.type \in Types /\ x.type \in Types \ {"absent", "null"} /\ v.n \in Int /\ x.n \in Int
      /\ v.type = x.type /\ v.n = x.n => v = x
      /\ v.type = "absent" <=> v = Absent
  BY Scalarity
<1>2. Null.type = "null" /\ Null.n = 0
  BY DEF Null, Scalar
<1>3. CASE v = Absent
  <2>1. Get(v) = Null /\ v.type = "absent"
    BY <1>1, <1>3 DEF Get
  <2>2. ~Equal(Null, x) /\ ~Comparable(Null, x)
    BY <1>1, <1>2 DEF Equal, Comparable, Number, Types
  <2>3. Suffix(v) # Suffix(x)
    BY <1>1, <2>1 DEF Suffix, Number, Types
  <2>4. QED
    BY <2>1, <2>2, <2>3
<1>4. CASE v # Absent
  <2>1. Get(v) = v
    BY <1>4 DEF Get
  <2>2. ~Blurs(v, x) => (Equal(v, x) <=> Suffix(v) = Suffix(x) /\ v.n = x.n)
    BY <1>1 DEF Blurs, Equal, Suffix, Number, Types
  <2>3. x.type \in Number => (Comparable(v, x) <=> Suffix(v) = Suffix(x))
    BY <1>1 DEF Comparable, Suffix, Number, Types
  <2>4. QED
    BY <2>1, <2>2, <2>3
<1>5. QED
  BY <1>3, <1>4

\* A value that a comparison does not blur is told by == from each operand.
LEMMA Told ==
  ASSUME NEW c \in Comparisons, NEW v \in Stored \ Blurred(c), c.op \notin Ordered,
         NEW x \in c.values
  PROVE  ~Blurs(v, x)
  BY DEF Blurred

\* Null is equal to an absent field and to a null.
LEMMA TellingNull ==
  ASSUME NEW v \in Stored
  PROVE  Equal(Get(v), Null) <=> v \in {Absent, Null}
<1>1. v.type = "null" <=> v = Null
  BY Scalarity
<1>2. Null.type = "null"
  BY DEF Null, Scalar
<1>3. QED
  BY <1>1, <1>2 DEF Equal, Get, Number

\* The shape of a comparison.
LEMMA Shape ==
  ASSUME NEW c \in Comparisons
  PROVE  /\ c.op \in {"eq", "ne", "in"} \cup Ordered
         /\ c.values \subseteq Operands /\ c.values # {}
         /\ c.op # "in" => \E x \in Operands : c.values = {x}
  BY DEF Comparisons, Compare

\* The operands of one type belong to one projection.
LEMMA OneType ==
  ASSUME NEW c \in Comparisons, SameType(c)
  PROVE  \E t : \A x \in c.values : x.type = t
<1> DEFINE T == {x.type : x \in c.values}
<1>1. T \subseteq Types
  BY Shape, Scalarity
<1>2. IsFiniteSet(Types)
  <2>1. IsFiniteSet({}) /\ Types = {} \cup {"int"} \cup {"float"} \cup {"bool"} \cup {"str"}
                                      \cup {"null"} \cup {"absent"}
    BY FS_EmptySet DEF Types, Number
  <2>2. QED
    BY <2>1, FS_AddElement
<1>3. IsFiniteSet(T)
  BY <1>1, <1>2, FS_Subset
<1>4. \E t : T = {t}
  BY <1>3, FS_Singleton DEF SameType
<1>5. QED
  BY <1>4

LEMMA PineconeLeafIsExact ==
  ASSUME NEW c \in Comparisons, ~PineconeRejects(c), NEW v \in Stored \ Blurred(c)
  PROVE  /\ PineconeLeaf(c, FALSE, v) <=> Compares(c, v)
         /\ PineconeLeaf(c, TRUE, v) <=> ~Compares(c, v)
<1>1. CASE Null \in c.values
  <2>1. c.op \in {"eq", "ne"} /\ c.values = {Null}
    BY <1>1, Shape DEF PineconeRejects
  <2>2. Compares(c, v) <=> (v \in {Absent, Null} <=> c.op = "eq")
    BY <2>1, TellingNull DEF Compares
  <2>3. QED
    BY <1>1, <2>1, <2>2 DEF PineconeLeaf, Complement
<1>2. CASE Null \notin c.values
  <2>1. PICK t : \A x \in c.values : x.type = t
    BY OneType DEF PineconeRejects
  <2>2. \A x \in c.values :
          /\ x \in Operands /\ x # Null
          /\ Projected(c, v) <=> Suffix(v) = Suffix(x)
          /\ v.n \in Int /\ x.n \in Int
    BY <1>2, <2>1, Shape, Scalarity DEF Projected, Suffixes, Suffix
  <2>3. c.op \notin Ordered =>
          \A x \in c.values : Equal(Get(v), x) <=> Projected(c, v) /\ v.n = x.n
    BY <2>2, Telling, Told
  <2>t. c.op \in {"eq", "in", "ne"} => c.op \notin Ordered
    BY DEF Ordered
  <2>4. CASE c.op \in {"eq", "in"}
    <3>1. Compares(c, v) <=> Projected(c, v) /\ \E x \in c.values : v.n = x.n
      BY <2>3, <2>t, <2>4 DEF Compares
    <3>2. QED
      BY <1>2, <2>4, <3>1 DEF PineconeLeaf, Native, Complement
  <2>5. CASE c.op = "ne"
    <3>1. Compares(c, v) <=> (Projected(c, v) => \A x \in c.values : v.n # x.n)
      BY <2>3, <2>t, <2>5 DEF Compares
    <3>2. \E x \in Operands : c.values = {x}
      BY <2>5, Shape
    <3>3. QED
      BY <1>2, <2>5, <3>1, <3>2 DEF PineconeLeaf, Native, Complement
  <2>6. CASE c.op \in Ordered
    <3>1. PICK x \in Operands : c.values = {x}
      BY <2>6, Shape DEF Ordered
    <3>2. x.type \in Number
      BY <2>6, <3>1 DEF PineconeRejects, OrdersNonNumbers
    <3>3. /\ Comparable(Get(v), x) <=> Projected(c, v)
          /\ v.n \in Int /\ x.n \in Int
      BY <2>2, <3>1, <3>2, Telling
    <3>4. Compares(c, v) <=> Projected(c, v) /\ InOrder(c.op, v, x)
      BY <2>6, <3>1, <3>3 DEF Compares, Ordered
    <3>5. InOrder(Complement(c.op), v, x) <=> ~InOrder(c.op, v, x)
      BY <2>6, <3>3 DEF InOrder, Complement, Ordered
    <3>6. Native(c.op, v, c.values) <=> InOrder(c.op, v, x)
      BY <2>6, <3>1 DEF Native, Ordered
    <3>7. Native(Complement(c.op), v, c.values) <=> InOrder(Complement(c.op), v, x)
      BY <2>6, <3>1 DEF Native, Complement, Ordered
    <3>8. Complement(c.op) # "eq" /\ c.op # "ne"
      BY <2>6 DEF Complement, Ordered
    <3>9. QED
      BY <1>2, <2>6, <3>4, <3>5, <3>6, <3>7, <3>8 DEF PineconeLeaf, Ordered
  <2>7. QED
    BY <2>4, <2>5, <2>6, Shape
<1>3. QED
  BY <1>1, <1>2

LEMMA OpenSearchLeafIsExact ==
  ASSUME NEW c \in Comparisons, ~OpenSearchRejects(c), NEW v \in Stored \ Blurred(c)
  PROVE  OpenSearchLeaf(c, v) <=> Compares(c, v)
<1>1. CASE Null \in c.values
  <2>1. c.op \notin Ordered
    BY <1>1 DEF OpenSearchRejects, OrdersNonNumbers, Null, Scalar, Number
  <2>2. c.op \in {"eq", "ne"} /\ c.values = {Null}
    BY <1>1, <2>1, Shape DEF OpenSearchRejects
  <2>3. Compares(c, v) <=> (v \in {Absent, Null} <=> c.op = "eq")
    BY <2>2, TellingNull DEF Compares
  <2>4. QED
    BY <1>1, <2>2, <2>3 DEF OpenSearchLeaf
<1>2. CASE Null \notin c.values
  <2>1. \E t : \A x \in c.values : x.type = t
    <3>1. CASE c.op = "in"
      BY <3>1, OneType DEF OpenSearchRejects
    <3>2. CASE c.op # "in"
      BY <3>2, Shape
    <3>3. QED
      BY <3>1, <3>2
  <2>2. \A x \in c.values :
          /\ x \in Operands /\ x # Null
          /\ Projected(c, v) <=> Suffix(v) = Suffix(x)
          /\ v.n \in Int /\ x.n \in Int
    BY <1>2, <2>1, Shape, Scalarity DEF Projected, Suffixes, Suffix
  <2>3. c.op \notin Ordered =>
          \A x \in c.values : Equal(Get(v), x) <=> Projected(c, v) /\ v.n = x.n
    BY <2>2, Telling, Told
  <2>t. c.op \in {"eq", "in", "ne"} => c.op \notin Ordered
    BY DEF Ordered
  <2>4. CASE c.op \in {"eq", "in"}
    BY <1>2, <2>3, <2>t, <2>4 DEF Compares, OpenSearchLeaf, Native
  <2>5. CASE c.op = "ne"
    <3>1. \E x \in Operands : c.values = {x}
      BY <2>5, Shape
    <3>2. QED
      BY <1>2, <2>3, <2>t, <2>5, <3>1 DEF Compares, OpenSearchLeaf, Native
  <2>6. CASE c.op \in Ordered
    <3>1. PICK x \in Operands : c.values = {x}
      BY <2>6, Shape DEF Ordered
    <3>2. x.type \in Number
      BY <2>6, <3>1 DEF OpenSearchRejects, OrdersNonNumbers
    <3>3. Comparable(Get(v), x) <=> Projected(c, v)
      BY <2>2, <3>1, <3>2, Telling
    <3>4. QED
      BY <1>2, <2>6, <3>1, <3>3 DEF Compares, OpenSearchLeaf, Native, Ordered
  <2>7. QED
    BY <2>4, <2>5, <2>6, Shape
<1>3. QED
  BY <1>1, <1>2

LEMMA QdrantLeafIsExact ==
  ASSUME NEW c \in Comparisons, ~QdrantRejects(c),
         NEW v \in Stored \ (Blurred(c) \cup Widened(c))
  PROVE  QdrantLeaf(c, v) <=> Compares(c, v)
<1>1. Null \notin c.values /\ c.op # "ne"
  BY DEF QdrantRejects
<1>2. \A x \in c.values :
        /\ x \in Operands /\ x # Null /\ x.type \in Types \ {"absent", "null"}
        /\ v.type \in Types /\ v.n \in Int /\ x.n \in Int
        /\ v.type = x.type /\ v.n = x.n => v = x
  BY <1>1, Shape, Scalarity
<1>3. CASE c.op \in {"eq", "in"} /\ \A x \in c.values : x.type # "float"
  <2>1. ASSUME NEW x \in c.values PROVE Equal(Get(v), x) <=> v = x
    <3>1. ~Blurs(v, x) /\ ~Widens(v, x)
      BY <1>3, Told DEF Widened, Ordered
    <3>2. Suffix(v) = Suffix(x) /\ v.n = x.n => v.type = x.type
      BY <1>2, <1>3, <3>1 DEF Suffix, Number, Types, Widens
    <3>3. QED
      BY <1>2, <3>1, <3>2, Telling
  <2>2. QED
    BY <1>3, <2>1 DEF Compares, QdrantLeaf
<1>4. CASE c.op \in {"eq", "in"} /\ \E x \in c.values : x.type = "float"
  <2>1. c.op = "eq"
    BY <1>4 DEF QdrantRejects
  <2>2. PICK x \in Operands : c.values = {x}
    BY <2>1, Shape
  <2>3. x.type = "float" /\ Suffix(x) = "num"
    BY <1>4, <2>2 DEF Suffix, Number
  <2>4. Suffix(v) = "num" <=> v.type \in Number
    BY <1>2, <2>2 DEF Suffix, Number, Types
  <2>5. Equal(Get(v), x) <=> v.type \in Number /\ v.n = x.n
    <3>1. ~Blurs(v, x)
      BY <2>1, <2>2, Told DEF Ordered
    <3>2. QED
      BY <1>2, <2>2, <2>3, <2>4, <3>1, Telling
  <2>6. QED
    BY <2>1, <2>2, <2>3, <2>5 DEF Compares, QdrantLeaf, Native
<1>5. CASE c.op \in Ordered
  <2>1. PICK x \in Operands : c.values = {x}
    BY <1>5, Shape DEF Ordered
  <2>2. x.type \in Number /\ Suffix(x) = "num"
    BY <1>5, <2>1 DEF QdrantRejects, OrdersNonNumbers, Suffix
  <2>3. Suffix(v) = "num" <=> v.type \in Number
    BY <1>2, <2>1 DEF Suffix, Number, Types
  <2>4. Comparable(Get(v), x) <=> v.type \in Number
    BY <1>2, <2>1, <2>2, <2>3, Telling
  <2>5. QED
    BY <1>5, <2>1, <2>4 DEF Compares, QdrantLeaf, Native, Ordered
<1>6. QED
  BY <1>1, <1>3, <1>4, <1>5, Shape

\* The greatest and the least of some truth values.
LEMMA Extremes ==
  ASSUME NEW T \in SUBSET {0, 1, 2}, T # {}
  PROVE  /\ Max(T) \in T /\ \A t \in T : Max(T) >= t
         /\ Min(T) \in T /\ \A t \in T : Min(T) <= t
<1>1. \E m \in T : \A t \in T : m >= t
  <2>1. CASE 2 \in T
    BY <2>1
  <2>2. CASE 2 \notin T /\ 1 \in T
    BY <2>2
  <2>3. CASE T = {0}
    BY <2>3
  <2>4. QED
    BY <2>1, <2>2, <2>3
<1>2. \E m \in T : \A t \in T : m <= t
  <2>1. CASE 0 \in T
    BY <2>1
  <2>2. CASE 0 \notin T /\ 1 \in T
    BY <2>2
  <2>3. CASE T = {2}
    BY <2>3
  <2>4. QED
    BY <2>1, <2>2, <2>3
<1>3. QED
  BY <1>1, <1>2 DEF Max, Min

\* A truth value that is not unknown is the right one.
Truthful(truth, b) == truth \in {0, 1, 2} /\ (truth = 2 => b) /\ (truth = 0 => ~b)

LEMMA PgVectorEqualIsTruthful ==
  ASSUME NEW v \in Stored, NEW x \in Operands, ~Blurs(v, x)
  PROVE  PgVectorEqual(v, x) = IF Equal(Get(v), x) THEN 2 ELSE 0
<1>1. CASE x = Null
  BY <1>1, TellingNull DEF PgVectorEqual, Truth, True3, False3
<1>2. CASE x # Null
  <2>1. /\ v.type \in Types /\ x.type \in Types \ {"absent", "null"}
        /\ v.type = x.type /\ v.n = x.n => v = x
    BY <1>2, Scalarity
  <2>2. JsonEqual(v, x) <=> Suffix(v) = Suffix(x) /\ v.n = x.n
    BY <2>1 DEF JsonEqual, Suffix, Number, Types
  <2>3. QED
    BY <1>2, <2>2, Telling DEF PgVectorEqual, Truth, True3, False3
<1>3. QED
  BY <1>1, <1>2

LEMMA PgVectorLeafIsTruthful ==
  ASSUME NEW c \in Comparisons, NEW v \in Stored \ Blurred(c)
  PROVE  Truthful(PgVectorLeaf(c, v), Compares(c, v))
<1>1. c.values \subseteq Operands /\ c.values # {}
  BY Shape
<1>2. CASE c.op \notin Ordered
  <2> DEFINE T == {PgVectorEqual(v, x) : x \in c.values}
  <2>1. \A x \in c.values : PgVectorEqual(v, x) = IF Equal(Get(v), x) THEN 2 ELSE 0
    BY <1>1, <1>2, Told, PgVectorEqualIsTruthful
  <2>2. T \in SUBSET {0, 1, 2} /\ T # {} /\ 1 \notin T
    BY <1>1, <2>1
  <2>3. Max(T) \in T /\ \A t \in T : Max(T) >= t
    BY <2>2, Extremes
  <2>4. (2 \in T <=> \E x \in c.values : Equal(Get(v), x))
    BY <2>1
  <2>5. Max(T) \in {0, 2} /\ (Max(T) = 2 <=> 2 \in T)
    BY <2>2, <2>3
  <2> HIDE DEF T
  <2>6. CASE c.op \in {"eq", "in"}
    <3>1. PgVectorLeaf(c, v) = Max(T)
      BY <2>6 DEF PgVectorLeaf, T
    <3>2. QED
      BY <2>4, <2>5, <2>6, <3>1 DEF Truthful, Compares
  <2>7. CASE c.op = "ne"
    <3>1. PgVectorLeaf(c, v) = 2 - Max(T)
      BY <2>7 DEF PgVectorLeaf, True3, T
    <3>2. QED
      BY <2>4, <2>5, <2>7, <3>1 DEF Truthful, Compares
  <2>8. QED
    BY <1>2, <2>6, <2>7, Shape
<1>3. CASE c.op \in Ordered
  <2>1. PICK x \in Operands : c.values = {x}
    BY <1>3, Shape DEF Ordered
  <2>2. PgVectorLeaf(c, v) = Max({PgVectorOrder(c, v, x)})
    BY <1>3, <2>1 DEF PgVectorLeaf, Ordered
  <2>3. Compares(c, v) <=> Comparable(Get(v), x) /\ InOrder(c.op, v, x)
    BY <1>3, <2>1 DEF Compares, Ordered
  <2>4. v # Absent => Get(v) = v
    BY DEF Get
  <2>5. Truthful(PgVectorOrder(c, v, x), Compares(c, v))
    BY <2>3, <2>4 DEF Truthful, PgVectorOrder, Truth, True3, False3, Unknown3
  <2>6. Max({PgVectorOrder(c, v, x)}) = PgVectorOrder(c, v, x)
    BY <2>5, Extremes DEF Truthful
  <2>7. QED
    BY <2>2, <2>5, <2>6
<1>4. QED
  BY <1>2, <1>3

\* Of the chunks that no comparison blurs, the query selects what is matched and
\* that of the negation the rest.
Pushed(query, f) ==
  \A v \in Stored \ f.blurred : /\ v \in query[FALSE] <=> v \in f.matches
                                /\ v \in query[TRUE] <=> v \notin f.matches

\* What every filter that can be built is for each store that accepts it; SQL's
\* truth values may be unknown, but they are not wrong.
Translated(f) ==
  /\ "pinecone" \notin f.rejectedBy => Pushed(f.pinecone, f)
  /\ "opensearch" \notin f.rejectedBy => Pushed(f.openSearch, f)
  /\ "qdrant" \notin f.rejectedBy => Agree(f.qdrant, f, f.blurred \cup f.widened)
  /\ "pgvector" \notin f.rejectedBy =>
       \A v \in Stored \ f.blurred : Truthful(f.pgVector[v], v \in f.matches)

LEMMA ComparisonIsTranslated ==
  ASSUME NEW c \in Comparisons
  PROVE  Translated(Comparison(c))
<1> DEFINE f == Comparison(c)
<1>1. /\ \A v \in Stored : v \in f.matches <=> Compares(c, v)
      /\ f.blurred = Blurred(c) /\ f.widened = Widened(c)
  BY DEF Comparison, Matched
<1>2. ASSUME "pinecone" \notin f.rejectedBy PROVE Pushed(f.pinecone, f)
  <2>1. ~PineconeRejects(c)
    BY <1>2 DEF Comparison
  <2>2. \A v \in Stored \ Blurred(c) : /\ PineconeLeaf(c, FALSE, v) <=> Compares(c, v)
                                       /\ PineconeLeaf(c, TRUE, v) <=> ~Compares(c, v)
    BY <2>1, PineconeLeafIsExact
  <2>3. /\ f.pinecone[FALSE] = {v \in Stored : PineconeLeaf(c, FALSE, v)}
        /\ f.pinecone[TRUE] = {v \in Stored : PineconeLeaf(c, TRUE, v)}
    BY DEF Comparison, Pinecone
  <2> HIDE DEF f
  <2>4. QED
    BY <1>1, <2>2, <2>3 DEF Pushed
<1>3. ASSUME "opensearch" \notin f.rejectedBy PROVE Pushed(f.openSearch, f)
  <2>1. ~OpenSearchRejects(c)
    BY <1>3 DEF Comparison
  <2>2. \A v \in Stored \ Blurred(c) : OpenSearchLeaf(c, v) <=> Compares(c, v)
    BY <2>1, OpenSearchLeafIsExact
  <2>3. /\ f.openSearch[FALSE] = {v \in Stored : OpenSearchLeaf(c, v)}
        /\ f.openSearch[TRUE] = {v \in Stored : ~OpenSearchLeaf(c, v)}
    BY DEF Comparison, OpenSearch
  <2> HIDE DEF f
  <2>4. QED
    BY <1>1, <2>2, <2>3 DEF Pushed
<1>4. ASSUME "qdrant" \notin f.rejectedBy PROVE Agree(f.qdrant, f, f.blurred \cup f.widened)
  <2>1. ~QdrantRejects(c)
    BY <1>4 DEF Comparison
  <2>2. \A v \in Stored \ (Blurred(c) \cup Widened(c)) : QdrantLeaf(c, v) <=> Compares(c, v)
    BY <2>1, QdrantLeafIsExact
  <2>3. f.qdrant = {v \in Stored : QdrantLeaf(c, v)}
    BY DEF Comparison, Qdrant
  <2> HIDE DEF f
  <2>4. QED
    BY <1>1, <2>2, <2>3 DEF Agree
<1>5. \A v \in Stored \ f.blurred : Truthful(f.pgVector[v], v \in f.matches)
  <2>1. \A v \in Stored : f.pgVector[v] = PgVectorLeaf(c, v)
    BY DEF Comparison, PgVector
  <2> HIDE DEF f
  <2>2. QED
    BY <1>1, <2>1, PgVectorLeafIsTruthful DEF Truthful
<1> HIDE DEF f
<1>6. QED
  BY <1>2, <1>3, <1>4, <1>5 DEF Translated, f

LEMMA NotIsTranslated ==
  ASSUME NEW f, Translated(f)
  PROVE  Translated(Not(f))
<1> DEFINE g == Not(f)
<1>1. /\ g.matches = Stored \ f.matches
      /\ g.blurred = f.blurred
      /\ g.pinecone[FALSE] = f.pinecone[TRUE] /\ g.pinecone[TRUE] = f.pinecone[FALSE]
      /\ g.openSearch[FALSE] = f.openSearch[TRUE] /\ g.openSearch[TRUE] = f.openSearch[FALSE]
      /\ \A v \in Stored : g.pgVector[v] = 2 - f.pgVector[v]
      /\ g.rejectedBy = f.rejectedBy \cup {"qdrant"}
  BY DEF Not, MatchedNot, PineconeNot, OpenSearchNot, PgVectorNot, True3
<1> HIDE DEF g
<1>2. /\ "pinecone" \notin g.rejectedBy => Pushed(g.pinecone, g)
      /\ "opensearch" \notin g.rejectedBy => Pushed(g.openSearch, g)
  BY <1>1 DEF Translated, Pushed
<1>3. "pgvector" \notin g.rejectedBy =>
        \A v \in Stored \ g.blurred : Truthful(g.pgVector[v], v \in g.matches)
  BY <1>1 DEF Translated, Truthful
<1>4. Translated(g)
  BY <1>1, <1>2, <1>3 DEF Translated
<1>5. QED
  BY <1>4 DEF g

\* What a connective compiles to selects what all of its parts select, or any of them.
LEMMA PineconeAllSelects ==
  ASSUME NEW F, NEW conjunction \in BOOLEAN, NEW negated \in BOOLEAN, NEW v \in Stored
  PROVE  /\ conjunction # negated =>
              (v \in PineconeAll(conjunction, F)[negated] <=> \A f \in F : v \in f.pinecone[negated])
         /\ conjunction = negated =>
              (v \in PineconeAll(conjunction, F)[negated] <=> \E f \in F : v \in f.pinecone[negated])
<1>1. PICK queries : queries = {f.pinecone[negated] : f \in F}
  OBVIOUS
<1>2. PineconeAll(conjunction, F)[negated] =
        IF conjunction # negated THEN Every(queries) ELSE Some(queries)
  BY <1>1 DEF PineconeAll
<1>3. /\ v \in Every(queries) <=> \A f \in F : v \in f.pinecone[negated]
      /\ v \in Some(queries) <=> \E f \in F : v \in f.pinecone[negated]
  BY <1>1 DEF Every, Some
<1>4. QED
  BY <1>2, <1>3

LEMMA OpenSearchAllSelects ==
  ASSUME NEW F, NEW conjunction \in BOOLEAN, NEW negated \in BOOLEAN, NEW v \in Stored
  PROVE  /\ conjunction # negated =>
              (v \in OpenSearchAll(conjunction, F)[negated] <=> \A f \in F : v \in f.openSearch[negated])
         /\ conjunction = negated =>
              (v \in OpenSearchAll(conjunction, F)[negated] <=> \E f \in F : v \in f.openSearch[negated])
<1>1. PICK queries : queries = {f.openSearch[negated] : f \in F}
  OBVIOUS
<1>2. OpenSearchAll(conjunction, F)[negated] =
        IF conjunction # negated THEN Every(queries) ELSE Some(queries)
  BY <1>1 DEF OpenSearchAll
<1>3. /\ v \in Every(queries) <=> \A f \in F : v \in f.openSearch[negated]
      /\ v \in Some(queries) <=> \E f \in F : v \in f.openSearch[negated]
  BY <1>1 DEF Every, Some
<1>4. QED
  BY <1>2, <1>3

LEMMA ConnectedIsTranslated ==
  ASSUME NEW F, F # {}, \A f \in F : Translated(f), NEW conjunction \in BOOLEAN
  PROVE  Translated(Connected(conjunction, F))
<1> DEFINE g == Connected(conjunction, F)
           Holds(v) == IF conjunction THEN \A f \in F : v \in f.matches
                                      ELSE \E f \in F : v \in f.matches
<1>1. \A v \in Stored : v \in g.matches <=> Holds(v)
  BY DEF Connected, MatchedAll, Every, Some
<1>2. \A store : store \notin g.rejectedBy => \A f \in F : store \notin f.rejectedBy
  BY DEF Connected
<1>3. \A f \in F : f.blurred \subseteq g.blurred /\ f.widened \subseteq g.widened
  BY DEF Connected
<1>4. ASSUME "pinecone" \notin g.rejectedBy PROVE Pushed(g.pinecone, g)
  <2> SUFFICES ASSUME NEW v \in Stored \ g.blurred
               PROVE  /\ v \in g.pinecone[FALSE] <=> v \in g.matches
                      /\ v \in g.pinecone[TRUE] <=> v \notin g.matches
    BY DEF Pushed
  <2>1. \A f \in F : /\ v \in f.pinecone[FALSE] <=> v \in f.matches
                     /\ v \in f.pinecone[TRUE] <=> v \notin f.matches
    BY <1>2, <1>3, <1>4 DEF Translated, Pushed
  <2>2. g.pinecone = PineconeAll(conjunction, F) /\ v \in Stored
    BY DEF Connected
  <2>3. CASE conjunction
    <3>1. /\ v \in g.pinecone[FALSE] <=> \A f \in F : v \in f.pinecone[FALSE]
          /\ v \in g.pinecone[TRUE] <=> \E f \in F : v \in f.pinecone[TRUE]
      BY <2>2, <2>3, PineconeAllSelects
    <3>2. v \in g.matches <=> \A f \in F : v \in f.matches
      BY <1>1, <2>3
    <3> HIDE DEF g
    <3>3. QED
      BY <2>1, <3>1, <3>2
  <2>4. CASE ~conjunction
    <3>1. /\ v \in g.pinecone[FALSE] <=> \E f \in F : v \in f.pinecone[FALSE]
          /\ v \in g.pinecone[TRUE] <=> \A f \in F : v \in f.pinecone[TRUE]
      BY <2>2, <2>4, PineconeAllSelects
    <3>2. v \in g.matches <=> \E f \in F : v \in f.matches
      BY <1>1, <2>4
    <3> HIDE DEF g
    <3>3. QED
      BY <2>1, <3>1, <3>2
  <2>5. QED
    BY <2>3, <2>4
<1>5. ASSUME "opensearch" \notin g.rejectedBy PROVE Pushed(g.openSearch, g)
  <2> SUFFICES ASSUME NEW v \in Stored \ g.blurred
               PROVE  /\ v \in g.openSearch[FALSE] <=> v \in g.matches
                      /\ v \in g.openSearch[TRUE] <=> v \notin g.matches
    BY DEF Pushed
  <2>1. \A f \in F : /\ v \in f.openSearch[FALSE] <=> v \in f.matches
                     /\ v \in f.openSearch[TRUE] <=> v \notin f.matches
    BY <1>2, <1>3, <1>5 DEF Translated, Pushed
  <2>2. g.openSearch = OpenSearchAll(conjunction, F) /\ v \in Stored
    BY DEF Connected
  <2>3. CASE conjunction
    <3>1. /\ v \in g.openSearch[FALSE] <=> \A f \in F : v \in f.openSearch[FALSE]
          /\ v \in g.openSearch[TRUE] <=> \E f \in F : v \in f.openSearch[TRUE]
      BY <2>2, <2>3, OpenSearchAllSelects
    <3>2. v \in g.matches <=> \A f \in F : v \in f.matches
      BY <1>1, <2>3
    <3> HIDE DEF g
    <3>3. QED
      BY <2>1, <3>1, <3>2
  <2>4. CASE ~conjunction
    <3>1. /\ v \in g.openSearch[FALSE] <=> \E f \in F : v \in f.openSearch[FALSE]
          /\ v \in g.openSearch[TRUE] <=> \A f \in F : v \in f.openSearch[TRUE]
      BY <2>2, <2>4, OpenSearchAllSelects
    <3>2. v \in g.matches <=> \E f \in F : v \in f.matches
      BY <1>1, <2>4
    <3> HIDE DEF g
    <3>3. QED
      BY <2>1, <3>1, <3>2
  <2>5. QED
    BY <2>3, <2>4
<1>6. ASSUME "qdrant" \notin g.rejectedBy PROVE Agree(g.qdrant, g, g.blurred \cup g.widened)
  <2> SUFFICES ASSUME NEW v \in Stored \ (g.blurred \cup g.widened)
               PROVE  v \in g.qdrant <=> v \in g.matches
    BY DEF Agree
  <2>1. \A f \in F : v \in f.qdrant <=> v \in f.matches
    BY <1>2, <1>3, <1>6 DEF Translated, Agree
  <2>2. v \in g.qdrant <=> IF conjunction THEN \A f \in F : v \in f.qdrant
                                          ELSE \E f \in F : v \in f.qdrant
    BY DEF Connected, QdrantAll, Every, Some
  <2> HIDE DEF g
  <2>3. QED
    BY <1>1, <2>1, <2>2
<1>7. ASSUME "pgvector" \notin g.rejectedBy, NEW v \in Stored \ g.blurred
      PROVE  Truthful(g.pgVector[v], v \in g.matches)
  <2> DEFINE T == {f.pgVector[v] : f \in F}
  <2>1. \A f \in F : Truthful(f.pgVector[v], v \in f.matches)
    BY <1>2, <1>3, <1>7 DEF Translated
  <2>2. T \in SUBSET {0, 1, 2} /\ T # {}
    BY <2>1 DEF Truthful
  <2>3. /\ Max(T) \in T /\ \A t \in T : Max(T) >= t
        /\ Min(T) \in T /\ \A t \in T : Min(T) <= t
    BY <2>2, Extremes
  <2>4. g.pgVector[v] = IF conjunction THEN Min(T) ELSE Max(T)
    BY DEF Connected, PgVectorAll
  <2>5. /\ 2 \in T => \E f \in F : v \in f.matches
        /\ T = {2} => \A f \in F : v \in f.matches
        /\ 0 \in T => \E f \in F : v \notin f.matches
        /\ T = {0} => \A f \in F : v \notin f.matches
    <3>1. \A f \in F : f.pgVector[v] \in T
      OBVIOUS
    <3>2. \A t \in T : \E f \in F : t = f.pgVector[v]
      OBVIOUS
    <3> HIDE DEF T
    <3>3. QED
      BY <2>1, <3>1, <3>2 DEF Truthful
  <2> HIDE DEF T
  <2>6. /\ Min(T) = 2 => T = {2}
        /\ Max(T) = 0 => T = {0}
        /\ Min(T) \in {0, 1, 2} /\ Max(T) \in {0, 1, 2}
    <3>1. Min(T) \in {0, 1, 2} /\ Max(T) \in {0, 1, 2}
      BY <2>2, <2>3
    <3>2. ASSUME Min(T) = 2 PROVE T = {2}
      <4>1. \A t \in T : t \in {0, 1, 2} /\ 2 <= t
        BY <2>2, <2>3, <3>2
      <4>2. \A t \in T : t = 2
        BY <4>1
      <4>3. QED
        BY <2>2, <4>2
    <3>3. ASSUME Max(T) = 0 PROVE T = {0}
      <4>1. \A t \in T : t \in {0, 1, 2} /\ 0 >= t
        BY <2>2, <2>3, <3>3
      <4>2. \A t \in T : t = 0
        BY <4>1
      <4>3. QED
        BY <2>2, <4>2
    <3>4. QED
      BY <3>1, <3>2, <3>3
  <2>7. CASE conjunction
    BY <1>1, <2>3, <2>4, <2>5, <2>6, <2>7 DEF Truthful
  <2>8. CASE ~conjunction
    BY <1>1, <2>3, <2>4, <2>5, <2>6, <2>8 DEF Truthful
  <2>9. QED
    BY <2>7, <2>8
<1> HIDE DEF g
<1>8. Translated(g)
  BY <1>4, <1>5, <1>6, <1>7 DEF Translated
<1>9. QED
  BY <1>8 DEF g

TranslatedAll == \A f \in filters : Translated(f)

LEMMA FiltersNextInvariant == TranslatedAll /\ [FiltersNext]_filters => TranslatedAll'
<1> SUFFICES ASSUME TranslatedAll, [FiltersNext]_filters PROVE TranslatedAll'
  OBVIOUS
<1>1. ASSUME NEW f, Translated(f), filters' = filters \cup {f}
      PROVE  TranslatedAll'
  BY <1>1 DEF TranslatedAll
<1>2. CASE MakeComparison
  BY <1>1, <1>2, ComparisonIsTranslated DEF MakeComparison
<1>3. CASE Negate
  BY <1>1, <1>3, NotIsTranslated DEF Negate, TranslatedAll
<1>4. CASE Connect
  <2>1. PICK children \in (SUBSET filters) \ {{}} :
          \E connected \in {And(children), Or(children)} : filters' = filters \cup {connected}
    BY <1>4 DEF Connect
  <2>2. Translated(And(children)) /\ Translated(Or(children))
    BY <2>1, ConnectedIsTranslated DEF And, Or, TranslatedAll
  <2>3. QED
    BY <1>1, <2>1, <2>2
<1>5. CASE UNCHANGED filters
  BY <1>5 DEF TranslatedAll
<1>6. QED
  BY <1>2, <1>3, <1>4, <1>5 DEF FiltersNext

THEOREM FiltersAreTranslated == FiltersSpec => []TranslationsAreTrue
<1>1. FiltersInit => TranslatedAll
  BY DEF FiltersInit, TranslatedAll
<1>2. TranslatedAll => TranslationsAreTrue
  BY DEF TranslatedAll, Translated, Pushed, Agree, TranslationsAreTrue, PineconeIsExact,
         OpenSearchIsExact, QdrantIsExact, PgVectorIsSound, PgVectorSelects, Truthful, True3
<1>3. QED
  BY <1>1, <1>2, FiltersNextInvariant, PTL DEF FiltersSpec

=============================================================================
