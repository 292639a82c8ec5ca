---------------------------- MODULE ManifestIndex ----------------------------
(***************************************************************************)
(* What the VectorStore and SparseIndex ports promise of one index,        *)
(* whatever stores it: the first upsert binds the index to its manifest,   *)
(* for ever; every upsert and delete takes effect in one step, and only    *)
(* under that manifest; a search answers with the rows of one moment, and  *)
(* only to a caller that expects that manifest.  Calls that are refused    *)
(* have no effect and are stuttering steps here.                           *)
(***************************************************************************)
EXTENDS IndexData

VARIABLES
  manifest,  \* the persisted manifest, None until the first upsert
  rows,      \* the stored rows
  answer     \* what each client's last search returned, None if it has none

vars == <<manifest, rows, answer>>

\* The index holds whole rows, and answers hold rows of it.
TypeOK ==
  /\ manifest \in Manifests \cup {None}
  /\ rows \in Rows
  /\ answer \in [Clients -> Answer \cup {None}]

Init ==
  /\ manifest = None
  /\ rows = NoRows
  /\ answer = [k \in Clients |-> None]

Upsert(m, batch) ==
  /\ manifest \in {None, m}
  /\ manifest' = m
  /\ rows' = Put(rows, m, batch)
  /\ UNCHANGED answer

Delete(m, ids) ==
  /\ manifest = m
  /\ rows' = Drop(rows, ids)
  /\ UNCHANGED <<manifest, answer>>

\* Mutant: a search that takes the index for its own.
SearchUnchecked(k, m) ==
  /\ answer' = [answer EXCEPT ![k] = [expected |-> m, found |-> rows]]
  /\ UNCHANGED <<manifest, rows>>

Search(k, m) ==
  /\ manifest = m
  /\ answer' = [answer EXCEPT ![k] = [expected |-> m, found |-> rows]]
  /\ UNCHANGED <<manifest, rows>>

\* A client starts another call and no longer holds the last answer.
Forget(k) ==
  /\ answer' = [answer EXCEPT ![k] = None]
  /\ UNCHANGED <<manifest, rows>>

Next ==
  \/ \E m \in Manifests, batch \in Batches : Upsert(m, batch)
  \/ \E m \in Manifests, ids \in IdSets : Delete(m, ids)
  \/ \E k \in Clients, m \in Manifests : Search(k, m)
  \/ \E k \in Clients : Forget(k)

Spec == Init /\ [][Next]_vars

-----------------------------------------------------------------------------

\* Every stored row was written under the manifest the index is bound to: a
\* vector that another embedder or chunker produced is never in the index.
RowsUnderManifest == AllUnder(rows, manifest)

\* A search result only ever holds rows written under the manifest its caller
\* expected, and that manifest is still the one the index is bound to.
AnswersUnderManifest ==
  \A k \in Clients : answer[k] # None =>
    /\ answer[k].expected = manifest
    /\ AllUnder(answer[k].found, manifest)

\* A bound index is never unbound or bound to another manifest.
BoundOnce == [][manifest # None => manifest' = manifest]_vars

=============================================================================
