------------------------- MODULE ManifestIndexProofs -------------------------
(* Proofs about the abstract index, for every set of clients and manifests. *)
EXTENDS ManifestIndex, TLAPS

\* Overwriting with the batch of a compatible upsert, and deleting, keep every
\* row under the index's manifest.
LEMMA PutStaysUnder ==
  ASSUME NEW rs, NEW m, NEW batch,
         \A c \in Chunks : rs[c] # None => rs[c].under = m
  PROVE  AllUnder(Put(rs, m, batch), m)
  BY DEF AllUnder, Put

\* Rows that remain after a delete keep their manifest.
LEMMA DropStaysUnder ==
  ASSUME NEW rs, NEW m, NEW ids, AllUnder(rs, m)
  PROVE  AllUnder(Drop(rs, ids), m)
  BY DEF AllUnder, Drop

\* An upsert yields rows.
LEMMA PutType ==
  ASSUME NEW rs \in Rows, NEW m \in Manifests, NEW batch \in Batches
  PROVE  Put(rs, m, batch) \in Rows
  BY BatchesAreMaps DEF Put, Rows, Row

\* A delete yields rows.
LEMMA DropType ==
  ASSUME NEW rs \in Rows, NEW ids
  PROVE  Drop(rs, ids) \in Rows
  BY DEF Drop, Rows

-----------------------------------------------------------------------------
(* The invariant, operation by operation *)

\* What is stored, and what any client still holds of a search, was written
\* under the manifest of the index.
Bound == RowsUnderManifest /\ AnswersUnderManifest

Sound == TypeOK /\ Bound

\* An index that has rows has a manifest, so the first upsert finds it empty.
LEMMA UnboundIsEmpty ==
  ASSUME TypeOK, RowsUnderManifest, manifest = None
  PROVE  \A c \in Chunks : rows[c] = None
  BY NoneIsNoValue DEF TypeOK, RowsUnderManifest, AllUnder, Rows, Row

\* The new index is sound: without manifest, row or answer.
LEMMA EmptyIsSound == Init => Sound
  BY DEF Init, Sound, Bound, TypeOK, RowsUnderManifest, AnswersUnderManifest, AllUnder, NoRows, Rows

\* An upsert either binds an empty index or writes more rows under its manifest;
\* in both cases answers that are still held stay true.
LEMMA UpsertIsSound ==
  ASSUME Sound, NEW m \in Manifests, NEW batch \in Batches, Upsert(m, batch)
  PROVE  Sound'
<1> USE DEF Sound, Bound
<1>types. TypeOK'
  BY PutType DEF TypeOK, Upsert
<1>rows. RowsUnderManifest'
  <2>1. \A c \in Chunks : rows[c] # None => rows[c].under = m
    BY UnboundIsEmpty DEF Upsert, RowsUnderManifest, AllUnder
  <2>2. QED
    BY <2>1, PutStaysUnder DEF Upsert, RowsUnderManifest
<1>answers. AnswersUnderManifest'
  <2> SUFFICES ASSUME NEW k \in Clients, answer'[k] # None
               PROVE  answer'[k].expected = m /\ AllUnder(answer'[k].found, m)
    BY DEF AnswersUnderManifest, Upsert, AllUnder
  <2>1. answer[k].expected = manifest /\ AllUnder(answer[k].found, manifest)
    BY DEF AnswersUnderManifest, Upsert
  <2>2. manifest = m
    BY <2>1, NoneIsNoValue DEF TypeOK, Upsert, Answer
  <2>3. QED
    BY <2>1, <2>2 DEF Upsert
<1> QED
  BY <1>types, <1>rows, <1>answers

\* A delete takes rows away and leaves manifest and answers.
LEMMA DeleteIsSound ==
  ASSUME Sound, NEW m \in Manifests, NEW ids \in IdSets, Delete(m, ids)
  PROVE  Sound'
<1> USE DEF Sound, Bound
<1>types. TypeOK'
  BY DropType DEF TypeOK, Delete
<1>rows. RowsUnderManifest'
  BY DropStaysUnder DEF Delete, RowsUnderManifest
<1>answers. AnswersUnderManifest'
  BY DEF Delete, AnswersUnderManifest, AllUnder
<1> QED
  BY <1>types, <1>rows, <1>answers

\* A search answers with the present rows, under the manifest it expects.
LEMMA SearchIsSound ==
  ASSUME Sound, NEW k \in Clients, NEW m \in Manifests, Search(k, m)
  PROVE  Sound'
<1>types. TypeOK'
  BY DEF Sound, TypeOK, Search, Answer
<1>bound. Bound'
  BY DEF Sound, Bound, Search, TypeOK, RowsUnderManifest, AnswersUnderManifest, AllUnder
<1> QED
  BY <1>types, <1>bound DEF Sound

\* A client that forgets its answer holds none.
LEMMA ForgetIsSound ==
  ASSUME Sound, NEW k \in Clients, Forget(k)
  PROVE  Sound'
<1>types. TypeOK'
  BY DEF Sound, TypeOK, Forget
<1>bound. Bound'
  BY DEF Sound, Bound, Forget, TypeOK, RowsUnderManifest, AnswersUnderManifest, AllUnder
<1> QED
  BY <1>types, <1>bound DEF Sound

\* The abstract index is always sound.
LEMMA AlwaysSound == Spec => []Sound
<1>next. ASSUME Sound, Next PROVE Sound'
  BY <1>next, UpsertIsSound, DeleteIsSound, SearchIsSound, ForgetIsSound DEF Next
<1>idle. ASSUME Sound, UNCHANGED vars PROVE Sound'
  BY <1>idle DEF vars, Sound, Bound, TypeOK, RowsUnderManifest, AnswersUnderManifest, AllUnder
<1>step. Sound /\ [Next]_vars => Sound'
  BY <1>next, <1>idle
<1> QED
  BY EmptyIsSound, <1>step, PTL DEF Spec

-----------------------------------------------------------------------------
(* The theorems *)

\* The variables of the abstract index keep their types.
THEOREM TypeCorrect == Spec => []TypeOK
<1>1. Sound => TypeOK
  BY DEF Sound
<1> QED
  BY AlwaysSound, <1>1, PTL

\* The index never holds, and never answers with, a row written under another
\* manifest than its own.
THEOREM ManifestBound == Spec => [](RowsUnderManifest /\ AnswersUnderManifest)
<1>1. Sound => RowsUnderManifest /\ AnswersUnderManifest
  BY DEF Sound, Bound
<1> QED
  BY AlwaysSound, <1>1, PTL

\* Binding is final: no operation, in any order, rebinds the index.
THEOREM BindingIsFinal == Spec => BoundOnce
<1>1. [Next]_vars => [manifest # None => manifest' = manifest]_vars
  BY DEF Next, vars, Upsert, Delete, Search, Forget
<1>2. QED
  BY <1>1, PTL DEF Spec, BoundOnce

=============================================================================
