---------------------------- MODULE SqlStoresProofs ----------------------------
(***************************************************************************)
(* Both SQL stores implement ManifestIndex, for any number of processes,   *)
(* manifests and chunks, and so does whichever of them a composition       *)
(* selects.  The argument is the same twice: a lock that one client holds  *)
(* at a time, from the moment it reads the manifest until COMMIT.          *)
(*                                                                         *)
(* SqliteStore: while a client is in its transaction no other client       *)
(* commits, so the uncommitted image stays the committed one with the      *)
(* client's own rows applied to it, and COMMIT publishes exactly one whole *)
(* upsert or delete.                                                       *)
(*                                                                         *)
(* PgVectorStore (Pg!): what a session may publish stays publishable as    *)
(* long as it holds the table lock, also when its client is gone and only  *)
(* the server still knows of it.                                           *)
(***************************************************************************)
EXTENDS SqlStores, TLAPS

\* What every implementation of the abstract index inherits from it.
Promise == INSTANCE ManifestIndexProofs
PgPromise ==
  INSTANCE ManifestIndexProofs
    WITH Chunks <- PgChunks, Batches <- PgBatches, IdSets <- PgIdSets,
         manifest <- binding, rows <- entries, answer <- reply

-----------------------------------------------------------------------------
(* SqliteStore *)

\* Which calls are in progress where.
CallsInPlace ==
  \A k \in Clients :
    /\ pc[k] = "idle" <=> call[k] = None
    /\ pc[k] = "schema" => call[k].op = "upsert"
    /\ pc[k] \in {"begin"} \cup InTransaction => call[k].op \in {"upsert", "delete"}
    /\ pc[k] \in {"begin"} \cup InTransaction /\ call[k].op = "upsert"
         => schema = "entries"
    /\ pc[k] = "rows" => call[k].op = "search" /\ call[k].manifest = manifest

\* The rows the client's call is about.
Touched(k) == IdsOf(call[k].batch) \cup call[k].ids

\* The image is the committed index with the rows done so far replaced.
ImageOfCommitted ==
  \A k \in Clients :
    /\ pc[k] = "check" =>
         pending = Image(manifest, rows, Touched(k))
    /\ pc[k] = "write" =>
         /\ \/ manifest = call[k].manifest
            \/ manifest = None /\ call[k].op = "upsert"
         /\ pending.manifest = call[k].manifest
         /\ pending.todo \subseteq Touched(k)
         /\ \A c \in Chunks :
              pending.rows[c] = IF c \in Touched(k) \ pending.todo
                                  THEN Written(k, c) ELSE rows[c]

IInv == TypeOK /\ LockDiscipline /\ CallsInPlace /\ ImageOfCommitted

-----------------------------------------------------------------------------

\* The fields of a call, by its operation.
LEMMA CallFields ==
  ASSUME NEW c \in Call
  PROVE  /\ c.op \in {"preflight", "search", "upsert", "delete"}
         /\ c.manifest \in Manifests
         /\ c.op = "upsert" => c.batch \in Batches /\ c.ids = {}
         /\ c.op # "upsert" => c.batch = NoRows
         /\ c.op = "delete" => c.ids \in IdSets
         /\ c.op # "delete" => c.ids = {}
         /\ c.ids \subseteq Chunks
         /\ c # None
  BY NoneIsNoValue, IdSetsAreChunks DEF Call


\* The committed index, and with it the lock holder's image, is out of reach of
\* every step that leaves the tables, the lock and the image alone.
LEMMA OutsideTransaction ==
  ASSUME IInv, NEW k \in Clients,
         pc[k] \notin InTransaction, pc'[k] \notin InTransaction,
         TypeOK', CallsInPlace',
         UNCHANGED <<manifest, rows, lock, pending>>,
         schema' = schema \/ manifest = None \/ schema' = "entries",
         \A j \in Clients \ {k} : pc'[j] = pc[j] /\ call'[j] = call[j]
  PROVE  IInv'
<1>1. LockDiscipline'
  BY DEF IInv, LockDiscipline
<1>2. ImageOfCommitted'
  BY DEF IInv, ImageOfCommitted, Touched, Written, InTransaction
<1>3. QED
  BY <1>1, <1>2 DEF IInv

\* A client that leaves its call, with or without a rollback.
LEMMA Leaving ==
  ASSUME IInv, NEW k \in Clients, pc[k] # "idle",
         NEW how \in Results, End(k, how), RollBack(k),
         UNCHANGED <<schema, manifest, rows, answer>>
  PROVE  IInv'
<1> USE DEF IInv, End, RollBack
<1>1. TypeOK'
  BY DEF TypeOK, NoPending, Image, Pending, NoRows, Rows, Places
<1>2. LockDiscipline'
  BY NoneIsNoValue DEF TypeOK, LockDiscipline, InTransaction
<1>3. CallsInPlace'
  BY DEF TypeOK, CallsInPlace, InTransaction
<1>4. ImageOfCommitted'
  BY DEF TypeOK, LockDiscipline, ImageOfCommitted, Touched, Written, InTransaction
<1>5. QED
  BY <1>1, <1>2, <1>3, <1>4


\* One step of one client keeps the invariant.
LEMMA StepInvariant ==
  ASSUME IInv, NEW k \in Clients,
         Start(k) \/ Step(k) \/ StatementFails(k) \/ Crash(k)
  PROVE  IInv'
<1> USE DEF IInv, stored, transaction, Goto, End, Image
<1>1. CASE Start(k)
  <2>1. TypeOK' /\ CallsInPlace'
    BY <1>1, CallFields DEF Start, TypeOK, Places, Results, CallsInPlace, InTransaction
  <2>2. QED
    BY <1>1, <2>1, OutsideTransaction DEF Start, TypeOK, InTransaction
<1>2. CASE Preflight(k)
  <2>1. TypeOK' /\ CallsInPlace'
    BY <1>2 DEF Preflight, TypeOK, Places, Results, CallsInPlace, InTransaction
  <2>2. QED
    BY <1>2, <2>1, OutsideTransaction DEF Preflight, TypeOK, InTransaction
<1>3. CASE SearchManifest(k)
  <2>1. TypeOK' /\ CallsInPlace'
    BY <1>3 DEF SearchManifest, TypeOK, Places, Results, CallsInPlace, InTransaction
  <2>2. QED
    BY <1>3, <2>1, OutsideTransaction DEF SearchManifest, TypeOK, InTransaction
<1>4. CASE SearchRows(k)
  <2>1. TypeOK' /\ CallsInPlace'
    BY <1>4, CallFields
    DEF SearchRows, TypeOK, Places, Results, CallsInPlace, InTransaction, Answer
  <2>2. QED
    BY <1>4, <2>1, OutsideTransaction DEF SearchRows, TypeOK, InTransaction
<1>5. CASE OpenForUpsert(k)
  <2>1. TypeOK' /\ CallsInPlace'
    BY <1>5 DEF OpenForUpsert, TypeOK, Places, Schemas, CallsInPlace, InTransaction
  <2>2. schema' = schema \/ manifest = None
    BY <1>5 DEF OpenForUpsert, LockDiscipline
  <2>3. QED
    BY <1>5, <2>1, <2>2, OutsideTransaction DEF OpenForUpsert, TypeOK, InTransaction
<1>6. CASE CreateTable(k)
  <2>1. TypeOK' /\ CallsInPlace'
    BY <1>6 DEF CreateTable, TypeOK, Places, Schemas, CallsInPlace, InTransaction
  <2>2. schema' = schema \/ manifest = None
    BY <1>6 DEF CreateTable, LockDiscipline
  <2>3. QED
    BY <1>6, <2>1, <2>2, OutsideTransaction DEF CreateTable, TypeOK, InTransaction
<1>7. CASE SchemaReady(k)
  <2>1. TypeOK' /\ CallsInPlace'
    BY <1>7 DEF SchemaReady, TypeOK, Places, Schemas, CallsInPlace, InTransaction
  <2>2. QED
    BY <1>7, <2>1, OutsideTransaction DEF SchemaReady, TypeOK, InTransaction
<1>8. CASE OpenForDelete(k)
  <2>1. TypeOK' /\ CallsInPlace'
    BY <1>8 DEF OpenForDelete, TypeOK, Places, Results, CallsInPlace, InTransaction
  <2>2. QED
    BY <1>8, <2>1, OutsideTransaction DEF OpenForDelete, TypeOK, InTransaction
<1>9. CASE Begin(k)
  <2>0. /\ call[k] \in Call /\ call[k].op \in {"upsert", "delete"}
        /\ k # None /\ lock' = k
    BY <1>9, NoneIsNoValue DEF Begin, TypeOK, CallsInPlace
  <2>1. TypeOK'
    BY <1>9, <2>0, CallFields DEF Begin, TypeOK, Places, Pending, IdsOf
  <2>2. LockDiscipline'
    BY <1>9, NoneIsNoValue DEF Begin, TypeOK, LockDiscipline, InTransaction
  <2>3. CallsInPlace'
    BY <1>9 DEF Begin, TypeOK, CallsInPlace, InTransaction
  <2>4. ImageOfCommitted'
    BY <1>9, NoneIsNoValue
    DEF Begin, TypeOK, LockDiscipline, ImageOfCommitted, Touched, InTransaction
  <2>5. QED
    BY <2>1, <2>2, <2>3, <2>4
<1>10. CASE CheckManifest(k)
  <2>0. call[k] \in Call /\ lock = k
    BY <1>10 DEF CheckManifest, TypeOK, LockDiscipline, CallsInPlace, InTransaction
  <2>1. CASE MayWrite(k) /\ pc' = [pc EXCEPT ![k] = "write"]
    <3>0. /\ pending' = Image(call[k].manifest, pending.rows, pending.todo)
          /\ pc[k] = "check"
          /\ UNCHANGED <<schema, manifest, rows, lock, call, result, answer>>
      BY <1>10, <2>1 DEF CheckManifest, TypeOK
    <3>1. TypeOK'
      BY <3>0, <2>1, <2>0, CallFields DEF TypeOK, Places, Pending
    <3>2. LockDiscipline'
      BY <3>0, <2>1, <2>0 DEF TypeOK, LockDiscipline, InTransaction
    <3>3. CallsInPlace'
      BY <3>0, <2>1 DEF TypeOK, CallsInPlace, InTransaction
    <3>4. ImageOfCommitted'
      BY <3>0, <2>1, <2>0
      DEF TypeOK, LockDiscipline, ImageOfCommitted, Touched, Written, InTransaction,
          MayWrite, Pending
    <3>5. QED
      BY <3>1, <3>2, <3>3, <3>4
  <2>2. CASE End(k, "incompatible") /\ RollBack(k)
    BY <2>2, <1>10, Leaving DEF CheckManifest, Results
  <2>3. QED
    BY <1>10, <2>1, <2>2 DEF CheckManifest
<1>11. CASE WriteRow(k)
  <2> PICK c \in pending.todo :
        pending' = Image(pending.manifest, [pending.rows EXCEPT ![c] = Written(k, c)],
                         pending.todo \ {c})
    BY <1>11 DEF WriteRow
  <2>0. /\ call[k] \in Call /\ lock = k /\ pc[k] = "write" /\ c \in Touched(k)
        /\ call[k].op \in {"upsert", "delete"}
    BY <1>11
    DEF WriteRow, TypeOK, LockDiscipline, CallsInPlace, ImageOfCommitted, InTransaction
  <2>1. Written(k, c) \in Row \cup {None}
    <3>1. CASE call[k].op = "upsert"
      BY <3>1, <2>0, CallFields, BatchesAreMaps DEF Touched, IdsOf, Written, Row
    <3>2. CASE call[k].op = "delete"
      BY <3>2 DEF Written
    <3>3. QED
      BY <3>1, <3>2, <2>0
  <2>2. pending \in Pending /\ c \in Chunks
    BY DEF TypeOK, Pending
  <2>3. /\ pending'.manifest = pending.manifest
        /\ pending'.todo = pending.todo \ {c}
        /\ pending'.rows = [pending.rows EXCEPT ![c] = Written(k, c)]
        /\ pending' \in Pending
    BY <2>1, <2>2 DEF Pending, Rows
  <2>4. TypeOK'
    BY <1>11, <2>3 DEF WriteRow, TypeOK
  <2>5. LockDiscipline' /\ CallsInPlace'
    BY <1>11 DEF WriteRow, LockDiscipline, CallsInPlace
  <2>6. ImageOfCommitted'
    <3>1. \A d \in Chunks : pending'.rows[d] =
            IF d \in Touched(k) \ pending'.todo THEN Written(k, d) ELSE rows[d]
      BY <2>0, <2>2, <2>3 DEF ImageOfCommitted, Pending, Rows
    <3>2. \A j \in Clients : pc[j] \in InTransaction => j = k
      BY <2>0 DEF LockDiscipline
    <3>3. QED
      BY <1>11, <2>0, <2>3, <3>1, <3>2
      DEF WriteRow, ImageOfCommitted, Touched, Written, InTransaction
  <2>7. QED
    BY <2>4, <2>5, <2>6
<1>12. CASE Commit(k)
  <2>0. /\ lock = k /\ pc[k] = "write" /\ pending.manifest # None
        /\ pending \in Pending /\ manifest \in {None, pending.manifest}
    BY <1>12, CallFields, NoneIsNoValue
    DEF Commit, TypeOK, LockDiscipline, CallsInPlace, ImageOfCommitted, InTransaction
  <2>1. TypeOK'
    BY <1>12, <2>0
    DEF Commit, TypeOK, Pending, NoPending, NoRows, Rows, Places, Results
  <2>2. LockDiscipline'
    BY <1>12, <2>0, NoneIsNoValue
    DEF Commit, TypeOK, LockDiscipline, CallsInPlace, ImageOfCommitted, InTransaction
  <2>3. CallsInPlace'
    BY <1>12, <2>0, CallFields, NoneIsNoValue DEF Commit, TypeOK, CallsInPlace, InTransaction
  <2>4. ImageOfCommitted'
    BY <1>12, <2>0 DEF Commit, TypeOK, LockDiscipline, ImageOfCommitted, InTransaction
  <2>5. QED
    BY <2>1, <2>2, <2>3, <2>4
<1>13. CASE BusyTimeout(k)
  <2>1. TypeOK' /\ CallsInPlace'
    BY <1>13 DEF BusyTimeout, Blocked, TypeOK, Places, Results, CallsInPlace, InTransaction
  <2>2. QED
    BY <1>13, <2>1, OutsideTransaction DEF BusyTimeout, Blocked, TypeOK, InTransaction
<1>14. CASE StatementFails(k)
  BY <1>14, Leaving DEF StatementFails, Results
<1>15. CASE Crash(k)
  BY <1>15, Leaving DEF Crash, Results
<1>16. QED
  BY <1>1, <1>2, <1>3, <1>4, <1>5, <1>6, <1>7, <1>8, <1>9, <1>10, <1>11, <1>12,
     <1>13, <1>14, <1>15 DEF Step

\* The invariant the other theorems rest on.
THEOREM Invariance == Spec => []IInv
<1>1. Init => IInv
  BY NoneIsNoValue
  DEF Init, IInv, TypeOK, LockDiscipline, CallsInPlace, ImageOfCommitted, InTransaction,
      NoPending, Image, Pending, NoRows, Rows, Schemas, Places, Results
<1>2. IInv /\ [Next]_vars => IInv'
  <2>1. CASE Next
    BY <2>1, StepInvariant DEF Next
  <2>2. CASE UNCHANGED vars
    BY <2>2
    DEF vars, IInv, TypeOK, LockDiscipline, CallsInPlace, ImageOfCommitted, Touched, Written
  <2>3. QED
    BY <2>1, <2>2
<1>3. QED
  BY <1>1, <1>2, PTL DEF Spec

\* Types, the write lock, and its release on every path hold in every state.
THEOREM LockSafety == Spec => [](TypeOK /\ LockDiscipline)
  BY Invariance, PTL DEF IInv

-----------------------------------------------------------------------------
(* Refinement *)

\* What COMMIT publishes is the committed index with one whole batch put into
\* it, or one whole set of IDs dropped from it.
LEMMA CommitPublishesUpsert ==
  ASSUME IInv, NEW k \in Clients, Commit(k), call[k].op = "upsert"
  PROVE  /\ call[k].manifest \in Manifests /\ call[k].batch \in Batches
         /\ manifest \in {None, call[k].manifest} /\ manifest' = call[k].manifest
         /\ rows' = Put(rows, call[k].manifest, call[k].batch)
<1>1. /\ call[k] \in Call /\ pc[k] = "write" /\ pending \in Pending
      /\ call[k].manifest \in Manifests /\ call[k].batch \in Batches /\ call[k].ids = {}
  BY CallFields DEF IInv, Commit, TypeOK, CallsInPlace, InTransaction
<1>2. \A c \in Chunks :
        pending.rows[c] = IF call[k].batch[c] = None
                            THEN rows[c]
                            ELSE [content |-> call[k].batch[c], under |-> call[k].manifest]
  BY <1>1 DEF IInv, Commit, ImageOfCommitted, Touched, IdsOf, Written
<1>3. pending.rows = Put(rows, call[k].manifest, call[k].batch)
  BY <1>1, <1>2 DEF Put, Pending, Rows
<1>4. QED
  BY <1>1, <1>3 DEF IInv, Commit, ImageOfCommitted

\* The image a delete commits is the abstract delete of its IDs.
LEMMA CommitPublishesDelete ==
  ASSUME IInv, NEW k \in Clients, Commit(k), call[k].op = "delete"
  PROVE  /\ call[k].manifest \in Manifests /\ call[k].ids \in IdSets
         /\ manifest = call[k].manifest /\ manifest' = manifest
         /\ rows' = Drop(rows, call[k].ids)
<1>1. /\ call[k] \in Call /\ pc[k] = "write" /\ pending \in Pending
      /\ call[k].manifest \in Manifests /\ call[k].ids \in IdSets
      /\ call[k].batch = NoRows
  BY CallFields DEF IInv, Commit, TypeOK, CallsInPlace, InTransaction
<1>2. IdsOf(call[k].batch) = {}
  BY <1>1 DEF IdsOf, NoRows
<1>3. \A c \in Chunks :
        pending.rows[c] = IF c \in call[k].ids THEN None ELSE rows[c]
  BY <1>2 DEF IInv, Commit, ImageOfCommitted, Touched, Written
<1>4. pending.rows = Drop(rows, call[k].ids)
  BY <1>1, <1>3 DEF Drop, Pending, Rows
<1>5. QED
  BY <1>1, <1>4 DEF IInv, Commit, ImageOfCommitted

\* A step that touches neither the tables nor an answer is a stutter.
LEMMA StepRefines ==
  ASSUME IInv, NEW k \in Clients,
         Start(k) \/ Step(k) \/ StatementFails(k) \/ Crash(k)
  PROVE  [Index!Next]_(Index!vars)
<1>1. CASE Start(k)
  BY <1>1 DEF Start, stored, Index!Next, Index!Forget
<1>2. CASE SearchRows(k)
  <2>1. call[k].manifest \in Manifests
    BY <1>2, CallFields DEF SearchRows, IInv, TypeOK, CallsInPlace
  <2>2. Index!Search(k, call[k].manifest)
    BY <1>2 DEF SearchRows, stored, Index!Search, IInv, CallsInPlace
  <2>3. QED
    BY <2>1, <2>2 DEF Index!Next
<1>3. CASE Commit(k)
  <2>1. call[k].op \in {"upsert", "delete"} /\ answer' = answer
    BY <1>3 DEF Commit, IInv, CallsInPlace, InTransaction
  <2>2. CASE call[k].op = "upsert"
    BY <1>3, <2>1, <2>2, CommitPublishesUpsert
    DEF Index!Next, Index!Upsert, Put, Index!Put
  <2>3. CASE call[k].op = "delete"
    BY <1>3, <2>1, <2>3, CommitPublishesDelete
    DEF Index!Next, Index!Delete, Drop, Index!Drop
  <2>4. QED
    BY <2>1, <2>2, <2>3
<1>4. CASE ~(Start(k) \/ SearchRows(k) \/ Commit(k))
  <2>1. UNCHANGED <<manifest, rows, answer>>
    BY <1>4
    DEF Step, Preflight, SearchManifest, OpenForUpsert, CreateTable, SchemaReady,
        OpenForDelete, Begin, CheckManifest, WriteRow, BusyTimeout, StatementFails, Crash,
        stored
  <2>2. QED
    BY <2>1 DEF Index!vars
<1>5. QED
  BY <1>1, <1>2, <1>3, <1>4

\* SQLiteVectorStore implements the index of the VectorStore port.
THEOREM Refinement == Spec => ImplementsManifestIndex
<1>1. Init => Index!Init
  BY DEF Init, NoRows, Index!Init, Index!NoRows
<1>2. IInv /\ [Next]_vars => [Index!Next]_(Index!vars)
  <2>1. CASE Next
    BY <2>1, StepRefines DEF Next
  <2>2. CASE UNCHANGED vars
    BY <2>2 DEF vars, Index!vars
  <2>3. QED
    BY <2>1, <2>2
<1>3. QED
  BY <1>1, <1>2, Invariance, PTL DEF Spec, Index!Spec, ImplementsManifestIndex

\* Only a successful upsert or delete changes the committed index: a call that
\* raises or crashes has no effect.
THEOREM NoEffectWithoutSuccess == Spec => EffectOnlyWithSuccess
<1> DEFINE Reported ==
      \E k \in Clients : /\ call[k] # None
                         /\ call[k].op \in {"upsert", "delete"}
                         /\ result'[k] = "ok"
<1>1. IInv /\ [Next]_vars =>
        [<<manifest, rows>>' # <<manifest, rows>> => Reported]_vars
  <2> SUFFICES ASSUME IInv, NEW k \in Clients,
                      Start(k) \/ Step(k) \/ StatementFails(k) \/ Crash(k),
                      <<manifest, rows>>' # <<manifest, rows>>
               PROVE  Reported
    BY DEF Next, vars
  <2>1. Commit(k)
    BY DEF Start, Step, Preflight, SearchManifest, SearchRows, OpenForUpsert, CreateTable,
           SchemaReady, OpenForDelete, Begin, CheckManifest, WriteRow, BusyTimeout,
           StatementFails, Crash, stored
  <2>2. QED
    BY <2>1 DEF Commit, End, IInv, TypeOK, CallsInPlace, InTransaction
<1>2. QED
  BY <1>1, Invariance, PTL DEF Spec, EffectOnlyWithSuccess

\* No row of another manifest is ever stored in the SQLite file or given to a
\* search, whatever processes were composed with and however they interleave.
THEOREM NoForeignRows == Spec => [](Index!RowsUnderManifest /\ Index!AnswersUnderManifest)
<1>1. Index!Spec => Promise!Spec
  <2>1. Index!Init => Promise!Init
    BY DEF Index!Init, Promise!Init, Index!NoRows, Promise!NoRows
  <2>2. [Index!Next]_(Index!vars) => [Promise!Next]_(Promise!vars)
    BY DEF Index!Next, Index!Upsert, Index!Delete, Index!Search, Index!Forget, Index!vars,
           Index!Put, Index!Drop, Promise!Next, Promise!Upsert, Promise!Delete, Promise!Search,
           Promise!Forget, Promise!vars, Promise!Put, Promise!Drop
  <2>3. QED
    BY <2>1, <2>2, PTL DEF Index!Spec, Promise!Spec
<1>2. Promise!RowsUnderManifest /\ Promise!AnswersUnderManifest
        => Index!RowsUnderManifest /\ Index!AnswersUnderManifest
  BY DEF Index!RowsUnderManifest, Promise!RowsUnderManifest, Index!AnswersUnderManifest,
         Promise!AnswersUnderManifest, Index!AllUnder, Promise!AllUnder
<1>3. Promise!BatchesAreMaps /\ Promise!IdSetsAreChunks /\ Promise!NoneIsNoValue
  BY BatchesAreMaps, IdSetsAreChunks, NoneIsNoValue
  DEF Row, Rows, Call, NoRows, Answer, Promise!Row, Promise!Rows, Promise!Call,
      Promise!NoRows, Promise!Answer
<1>4. Spec => Index!Spec
  BY Refinement DEF ImplementsManifestIndex
<1>5. QED
  BY <1>1, <1>2, <1>3, <1>4, Promise!ManifestBound, PTL

-----------------------------------------------------------------------------
(* PgVectorStore *)

\* What the transaction of a call may publish, the sender of the call gone or not.
Publishable(c) ==
  /\ c.op \in {"upsert", "delete"}
  /\ binding = c.manifest \/ (binding = None /\ c.op = "upsert")

\* Which calls are in progress where.
SessionsInPlace ==
  /\ \A k \in Clients :
       /\ place[k] = "idle" <=> pgcall[k] = None
       /\ place[k] \in {"wait"} \cup Pg!Locked => pgcall[k].op \in {"upsert", "delete"}
       /\ place[k] = "rows" => pgcall[k].op = "search" /\ pgcall[k].manifest = binding
       /\ place[k] \in {"write", "commit"} => Publishable(pgcall[k])
  /\ late # None => Publishable(late)

PgInv == Pg!TypeOK /\ TableLockDiscipline /\ SessionsInPlace

-----------------------------------------------------------------------------

\* The fields of a call of PgVectorStore.
LEMMA PgCallFields ==
  ASSUME NEW c \in Pg!Call
  PROVE  /\ c.op \in {"preflight", "search", "upsert", "delete"}
         /\ c.manifest \in Manifests
         /\ c.op = "upsert" => c.batch \in PgBatches
         /\ c.op = "delete" => c.ids \in PgIdSets
         /\ c # None
  BY PgNoneIsNoValue DEF Pg!Call

\* A transaction leaves whole rows and a manifest.
LEMMA PublishType ==
  ASSUME NEW c \in Pg!Call, Pg!Publish(c), entries \in Pg!Rows
  PROVE  binding' \in Manifests /\ entries' \in Pg!Rows
<1>1. CASE c.op = "upsert"
  <2>1. c.batch \in [PgChunks -> Contents \cup {None}] /\ c.manifest \in Manifests
    BY <1>1, PgCallFields, PgBatchesAreMaps
  <2>2. QED
    BY <1>1, <2>1 DEF Pg!Publish, Pg!Put, Pg!Rows, Pg!Row
<1>2. CASE c.op # "upsert"
  BY <1>2, PgCallFields DEF Pg!Publish, Pg!Drop, Pg!Rows
<1>3. QED
  BY <1>1, <1>2

\* The places of the queue.
LEMMA QueueFacts ==
  ASSUME Pg!TypeOK
  PROVE  /\ queue \in Seq(Pg!Sessions) /\ Len(queue) \in Nat
         /\ \A i \in 1..Len(queue) : queue[i] \in Pg!Sessions
         /\ \A k \in Clients : k # Orphan /\ k # None /\ Orphan # None
  BY OrphanIsNoClient, NoneIsNoValue, PgNoneIsNoValue DEF Pg!TypeOK

\* A session that is abandoned leaves an orphan in its place.
LEMMA AbandonedQueue ==
  ASSUME Pg!TypeOK, NEW k \in Clients
  PROVE  /\ Pg!Abandoned(k) \in Seq(Pg!Sessions)
         /\ Len(Pg!Abandoned(k)) = Len(queue)
         /\ \A i \in 1..Len(queue) :
              Pg!Abandoned(k)[i] = IF queue[i] = k THEN Orphan ELSE queue[i]
<1> DEFINE q == Pg!Abandoned(k)
<1>1. q \in [1..Len(queue) -> Pg!Sessions]
  BY QueueFacts DEF Pg!Abandoned, Pg!Sessions
<1>2. Len(queue) \in Nat
  BY QueueFacts
<1>3. QED
  BY <1>1, <1>2 DEF Pg!Abandoned

-----------------------------------------------------------------------------

\* Steps that leave the lock, the queue and the tables alone, by a client that
\* neither waits nor holds the lock, before or after.
LEMMA OutsideLock ==
  ASSUME PgInv, NEW k \in Clients,
         place[k] \notin {"wait"} \cup Pg!Locked, place'[k] \notin {"wait"} \cup Pg!Locked,
         UNCHANGED <<Pg!stored, Pg!server>>,
         Pg!TypeOK',
         place'[k] = "idle" <=> pgcall'[k] = None,
         place'[k] = "rows" => pgcall'[k].op = "search" /\ pgcall'[k].manifest = binding,
         \A j \in Clients \ {k} : place'[j] = place[j] /\ pgcall'[j] = pgcall[j]
  PROVE  PgInv'
<1>1. TableLockDiscipline'
  BY DEF PgInv, TableLockDiscipline, Pg!TableLockDiscipline, Pg!server
<1>2. SessionsInPlace'
  BY DEF PgInv, SessionsInPlace, Publishable, Pg!stored, Pg!server, Pg!Locked
<1>3. QED
  BY <1>1, <1>2 DEF PgInv

\* Steps of the holder of the lock that keep it.
LEMMA InsideLock ==
  ASSUME PgInv, NEW k \in Clients, place[k] \in Pg!Locked, place'[k] \in Pg!Locked,
         UNCHANGED <<Pg!stored, Pg!server, pgcall>>,
         place'[k] \in {"write", "commit"} => Publishable(pgcall[k]),
         Pg!TypeOK', \A j \in Clients \ {k} : place'[j] = place[j]
  PROVE  PgInv'
<1>1. TableLockDiscipline'
  BY DEF PgInv, TableLockDiscipline, Pg!TableLockDiscipline, Pg!server, Pg!Locked
<1>2. SessionsInPlace'
  BY DEF PgInv, SessionsInPlace, Publishable, Pg!stored, Pg!server, Pg!Locked
<1>3. QED
  BY <1>1, <1>2 DEF PgInv

\* A transaction that ends and leaves the lock free.
LEMMA Released ==
  ASSUME PgInv, NEW k \in Clients, place[k] \in Pg!Locked,
         holder' = None, UNCHANGED <<queue, late, reply>>,
         NEW how \in Pg!Outcomes, Pg!End(k, how),
         UNCHANGED Pg!stored \/ (Pg!Publish(pgcall[k]) /\ Publishable(pgcall[k]))
  PROVE  PgInv'
<1>0. holder = k /\ late = None /\ k # None /\ pgcall[k] \in Pg!Call
  BY QueueFacts, PgCallFields
  DEF PgInv, Pg!TypeOK, TableLockDiscipline, Pg!TableLockDiscipline, SessionsInPlace, Pg!Locked
<1>1. Pg!TypeOK'
  <2>1. binding' \in Manifests \cup {None} /\ entries' \in Pg!Rows
    BY <1>0, PublishType DEF PgInv, Pg!TypeOK, Pg!stored
  <2>2. QED
    BY <2>1 DEF PgInv, Pg!TypeOK, Pg!End, Pg!Places, Pg!Outcomes, Pg!Results
<1>2. TableLockDiscipline'
  BY <1>0, QueueFacts
  DEF PgInv, Pg!TypeOK, TableLockDiscipline, Pg!TableLockDiscipline, Pg!End, Pg!Locked
<1>3. binding' = binding \/ binding = None
  BY DEF Pg!Publish, Publishable, Pg!stored
<1>4. \A j \in Clients : place[j] \in Pg!Locked => j = k
  BY <1>0 DEF PgInv, TableLockDiscipline, Pg!TableLockDiscipline
<1>5. SessionsInPlace'
  <2>1. place'[k] = "idle" /\ pgcall'[k] = None /\ late' = None
    BY <1>0 DEF PgInv, Pg!TypeOK, Pg!End
  <2>2. ASSUME NEW j \in Clients \ {k}
        PROVE  /\ place'[j] = place[j] /\ pgcall'[j] = pgcall[j] /\ place[j] \notin Pg!Locked
               /\ place[j] = "rows" => pgcall[j].manifest = binding'
    <3>1. place[j] = "rows" => pgcall[j] \in Pg!Call /\ pgcall[j].manifest = binding
      BY DEF PgInv, Pg!TypeOK, SessionsInPlace
    <3>2. QED
      BY <1>3, <1>4, <3>1, PgCallFields, NoneIsNoValue, PgNoneIsNoValue
      DEF PgInv, Pg!TypeOK, Pg!End
  <2>3. QED
    BY <2>1, <2>2 DEF PgInv, SessionsInPlace, Pg!Locked
<1>6. QED
  BY <1>1, <1>2, <1>5 DEF PgInv

\* A session that is left behind, with the lock or its place in the queue.
LEMMA Left ==
  ASSUME PgInv, NEW k \in Clients, place[k] # "idle", Pg!LeaveSession(k),
         NEW how \in Pg!Outcomes, Pg!End(k, how), UNCHANGED <<Pg!stored, reply>>
  PROVE  PgInv'
<1>0. /\ pgcall[k] \in Pg!Call /\ k # Orphan /\ k # None /\ Orphan # None
      /\ place[k] \in Pg!Locked <=> holder = k
  BY QueueFacts
  DEF PgInv, Pg!TypeOK, SessionsInPlace, TableLockDiscipline, Pg!TableLockDiscipline
<1>q. /\ queue' \in Seq(Pg!Sessions) /\ Len(queue') = Len(queue)
      /\ \A i \in 1..Len(queue) : queue'[i] = IF queue[i] = k THEN Orphan ELSE queue[i]
  BY AbandonedQueue DEF PgInv, Pg!LeaveSession
<1>p. /\ place'[k] = "idle"
      /\ \A j \in Clients \ {k} : place'[j] = place[j] /\ pgcall'[j] = pgcall[j]
  BY DEF PgInv, Pg!TypeOK, Pg!End
<1>1. Pg!TypeOK'
  BY <1>0, <1>q
  DEF PgInv, Pg!TypeOK, Pg!End, Pg!LeaveSession, Pg!Places, Pg!Outcomes, Pg!Results,
      Pg!Sessions, Pg!stored
<1>2. TableLockDiscipline'
  <2>1. \A j \in Clients : place'[j] \in Pg!Locked <=> holder' = j
    BY <1>0, <1>p, QueueFacts
    DEF PgInv, TableLockDiscipline, Pg!TableLockDiscipline, Pg!LeaveSession, Pg!Locked
  <2>2. \A j \in Clients : place'[j] = "wait" <=> \E i \in 1..Len(queue') : queue'[i] = j
    BY <1>0, <1>p, <1>q, QueueFacts DEF PgInv, TableLockDiscipline, Pg!TableLockDiscipline
  <2>3. \A i, j \in 1..Len(queue') : queue'[i] = queue'[j] /\ i # j => queue'[i] = Orphan
    BY <1>q DEF PgInv, TableLockDiscipline, Pg!TableLockDiscipline
  <2>4. late' # None => holder' = Orphan
    BY <1>0 DEF PgInv, TableLockDiscipline, Pg!TableLockDiscipline, Pg!LeaveSession, Pg!Locked
  <2>5. QED
    BY <2>1, <2>2, <2>3, <2>4 DEF TableLockDiscipline, Pg!TableLockDiscipline
<1>3. SessionsInPlace'
  <2>1. late' # None => Publishable(late')
    BY DEF PgInv, SessionsInPlace, Pg!LeaveSession
  <2>2. QED
    BY <1>p, <2>1
    DEF PgInv, Pg!TypeOK, SessionsInPlace, Publishable, Pg!End, Pg!stored, Pg!Locked
<1>4. QED
  BY <1>1, <1>2, <1>3 DEF PgInv

\* Whatever a client does, and however its connection ends, keeps the invariant.
LEMMA SessionInvariant ==
  ASSUME PgInv, NEW k \in Clients,
         Pg!Start(k) \/ Pg!Step(k) \/ Pg!StatementFails(k) \/ Pg!ConnectionLost(k) \/ Pg!Crash(k)
  PROVE  PgInv'
<1> USE DEF Pg!Goto, Pg!End, Pg!Locked
<1>1. CASE Pg!Start(k)
  <2>1. Pg!TypeOK' /\ (place'[k] = "idle" <=> pgcall'[k] = None)
    BY <1>1, PgCallFields
    DEF Pg!Start, PgInv, Pg!TypeOK, Pg!Places, Pg!Outcomes, Pg!Results, Pg!stored, Pg!server
  <2>2. QED
    BY <1>1, <2>1, OutsideLock DEF Pg!Start, PgInv, Pg!TypeOK
<1>2. CASE Pg!Connect(k)
  <2>0. pgcall[k] \in Pg!Call
    BY <1>2 DEF Pg!Connect, PgInv, Pg!TypeOK, SessionsInPlace
  <2>1. CASE Pg!Goto(k, "read") /\ UNCHANGED Pg!server
    <3>1. Pg!TypeOK' /\ (place'[k] = "idle" <=> pgcall'[k] = None)
      BY <1>2, <2>0, <2>1, PgCallFields
      DEF Pg!Connect, PgInv, Pg!TypeOK, Pg!Places, Pg!stored, Pg!server
    <3>2. QED
      BY <1>2, <2>1, <3>1, OutsideLock DEF Pg!Connect, PgInv, Pg!TypeOK
  <2>2. CASE /\ pgcall[k].op \in {"upsert", "delete"}
             /\ Pg!Goto(k, "wait")
             /\ queue' = Append(queue, k)
             /\ UNCHANGED <<holder, late>>
    <3>0. /\ place[k] = "connect" /\ holder # k /\ \A i \in 1..Len(queue) : queue[i] # k
          /\ UNCHANGED <<Pg!stored, reply>>
      BY <1>2 DEF Pg!Connect, PgInv, TableLockDiscipline, Pg!TableLockDiscipline
    <3>q. /\ queue' \in Seq(Pg!Sessions) /\ Len(queue') = Len(queue) + 1
          /\ Len(queue) \in Nat
          /\ \A i \in 1..Len(queue) : queue'[i] = queue[i]
          /\ queue'[Len(queue) + 1] = k
      BY <2>2, QueueFacts DEF PgInv, Pg!Sessions
    <3>p. place'[k] = "wait" /\ \A j \in Clients \ {k} : place'[j] = place[j]
      BY <2>2 DEF PgInv, Pg!TypeOK
    <3>1. Pg!TypeOK'
      BY <2>2, <3>0, <3>q DEF PgInv, Pg!TypeOK, Pg!Places, Pg!stored
    <3>2. TableLockDiscipline'
      <4>1. \A j \in Clients : place'[j] \in Pg!Locked <=> holder' = j
        BY <2>2, <3>0, <3>p DEF PgInv, TableLockDiscipline, Pg!TableLockDiscipline
      <4>2. \A j \in Clients : place'[j] = "wait" <=> \E i \in 1..Len(queue') : queue'[i] = j
        BY <3>0, <3>p, <3>q DEF PgInv, TableLockDiscipline, Pg!TableLockDiscipline
      <4>3. \A i, j \in 1..Len(queue') : queue'[i] = queue'[j] /\ i # j => queue'[i] = Orphan
        BY <3>0, <3>q DEF PgInv, TableLockDiscipline, Pg!TableLockDiscipline
      <4>4. QED
        BY <2>2, <4>1, <4>2, <4>3 DEF PgInv, TableLockDiscipline, Pg!TableLockDiscipline
    <3>3. SessionsInPlace'
      BY <2>0, <2>2, <3>0, <3>p, PgCallFields
      DEF PgInv, Pg!TypeOK, SessionsInPlace, Publishable, Pg!stored
    <3>4. QED
      BY <3>1, <3>2, <3>3 DEF PgInv
  <2>3. CASE Pg!End(k, "provider_error") /\ UNCHANGED Pg!server
    <3>1. Pg!TypeOK' /\ (place'[k] = "idle" <=> pgcall'[k] = None)
      BY <1>2, <2>3
      DEF Pg!Connect, PgInv, Pg!TypeOK, Pg!Places, Pg!Outcomes, Pg!Results, Pg!stored, Pg!server
    <3>2. QED
      BY <1>2, <2>3, <3>1, OutsideLock DEF Pg!Connect, PgInv, Pg!TypeOK
  <2>4. QED
    BY <1>2, <2>1, <2>2, <2>3 DEF Pg!Connect
<1>3. CASE Pg!Preflight(k)
  <2>1. Pg!TypeOK' /\ (place'[k] = "idle" <=> pgcall'[k] = None)
    BY <1>3
    DEF Pg!Preflight, PgInv, Pg!TypeOK, Pg!Places, Pg!Outcomes, Pg!Results, Pg!stored, Pg!server
  <2>2. QED
    BY <1>3, <2>1, OutsideLock DEF Pg!Preflight, PgInv, Pg!TypeOK
<1>4. CASE Pg!SearchManifest(k)
  <2>1. Pg!TypeOK' /\ (place'[k] = "idle" <=> pgcall'[k] = None)
    BY <1>4
    DEF Pg!SearchManifest, PgInv, Pg!TypeOK, SessionsInPlace, Pg!Places, Pg!Outcomes,
        Pg!Results, Pg!stored, Pg!server
  <2>2. QED
    BY <1>4, <2>1, OutsideLock DEF Pg!SearchManifest, PgInv, Pg!TypeOK
<1>5. CASE Pg!SearchRows(k)
  <2>0. pgcall[k].manifest \in Manifests
    BY <1>5, PgCallFields DEF Pg!SearchRows, PgInv, Pg!TypeOK, SessionsInPlace
  <2>1. Pg!TypeOK' /\ (place'[k] = "idle" <=> pgcall'[k] = None)
    BY <1>5, <2>0
    DEF Pg!SearchRows, PgInv, Pg!TypeOK, Pg!Places, Pg!Outcomes, Pg!Results, Pg!stored,
        Pg!server, Pg!Answer
  <2>2. QED
    BY <1>5, <2>1, OutsideLock DEF Pg!SearchRows, PgInv, Pg!TypeOK
<1>6. CASE Pg!CheckManifest(k)
  <2>1. Pg!TypeOK'
    BY <1>6
    DEF Pg!CheckManifest, Pg!Raise, PgInv, Pg!TypeOK, Pg!Places, Pg!Outcomes, Pg!Results,
        Pg!stored, Pg!server
  <2>2. pgcall[k].op \in {"upsert", "delete"}
    BY <1>6 DEF Pg!CheckManifest, PgInv, SessionsInPlace
  <2>3. QED
    BY <1>6, <2>1, <2>2, InsideLock
    DEF Pg!CheckManifest, Pg!Raise, Pg!MayWrite, Publishable, PgInv, Pg!TypeOK
<1>7. CASE Pg!Write(k)
  <2>1. Pg!TypeOK'
    BY <1>7 DEF Pg!Write, PgInv, Pg!TypeOK, Pg!Places, Pg!stored, Pg!server
  <2>2. QED
    BY <1>7, <2>1, InsideLock DEF Pg!Write, PgInv, Pg!TypeOK, SessionsInPlace
<1>8. CASE Pg!Commit(k)
  BY <1>8, Released DEF Pg!Commit, PgInv, SessionsInPlace, Pg!Outcomes, Pg!Results
<1>9. CASE Pg!RollBack(k)
  BY <1>9, Released DEF Pg!RollBack, PgInv, Pg!TypeOK
<1>10. CASE Pg!StatementFails(k)
  <2>1. CASE place[k] \in {"read", "rows"} /\ Pg!End(k, "provider_error") /\ UNCHANGED queue
    <3>1. Pg!TypeOK' /\ (place'[k] = "idle" <=> pgcall'[k] = None)
      BY <1>10, <2>1
      DEF Pg!StatementFails, PgInv, Pg!TypeOK, Pg!Places, Pg!Outcomes, Pg!Results, Pg!stored,
          Pg!server
    <3>2. QED
      BY <1>10, <2>1, <3>1, OutsideLock DEF Pg!StatementFails, Pg!server, PgInv, Pg!TypeOK
  <2>2. CASE /\ place[k] = "wait" /\ Pg!MayAbandon(k)
             /\ queue' = Pg!Abandoned(k)
             /\ Pg!End(k, "provider_error")
    <3>1. Pg!LeaveSession(k)
      BY <1>10, <2>2
      DEF Pg!StatementFails, Pg!LeaveSession, PgInv, TableLockDiscipline, Pg!TableLockDiscipline
    <3>2. QED
      BY <1>10, <2>2, <3>1, Left DEF Pg!StatementFails, Pg!Outcomes, Pg!Results
  <2>3. CASE /\ place[k] \in {"check", "write", "commit"}
             /\ Pg!Raise(k, "provider_error")
             /\ UNCHANGED queue
    <3>1. Pg!TypeOK'
      BY <1>10, <2>3
      DEF Pg!StatementFails, Pg!Raise, PgInv, Pg!TypeOK, Pg!Places, Pg!Outcomes, Pg!Results,
          Pg!stored
    <3>2. QED
      BY <1>10, <2>3, <3>1, InsideLock
      DEF Pg!StatementFails, Pg!Raise, Pg!server, PgInv, Pg!TypeOK
  <2>4. QED
    BY <1>10, <2>1, <2>2, <2>3 DEF Pg!StatementFails
<1>11. CASE Pg!ConnectionLost(k)
  BY <1>11, Left DEF Pg!ConnectionLost, Pg!Outcomes, Pg!Results
<1>12. CASE Pg!Crash(k)
  BY <1>12, Left DEF Pg!Crash, Pg!Outcomes, Pg!Results
<1>13. QED
  BY <1>1, <1>2, <1>3, <1>4, <1>5, <1>6, <1>7, <1>8, <1>9, <1>10, <1>11, <1>12 DEF Pg!Step

\* The first in the queue is the only one that leaves it.
LEMMA GrantInvariant ==
  ASSUME PgInv, Pg!Grant
  PROVE  PgInv'
<1> DEFINE h == Head(queue)
<1>q. /\ h = queue[1] /\ h \in Pg!Sessions /\ 1 \in 1..Len(queue) /\ Len(queue) \in Nat
      /\ queue' \in Seq(Pg!Sessions) /\ Len(queue') = Len(queue) - 1
      /\ \A i \in 1..Len(queue') : i + 1 \in 1..Len(queue) /\ queue'[i] = queue[i + 1]
      /\ \A i \in 1..Len(queue) : i # 1 => i - 1 \in 1..Len(queue') /\ queue'[i - 1] = queue[i]
  BY QueueFacts DEF PgInv, Pg!Grant
<1>0. /\ holder = None /\ holder' = h /\ late = None
      /\ UNCHANGED <<Pg!stored, late, pgcall, failure, outcome, reply>>
      /\ place' = IF h = Orphan THEN place ELSE [place EXCEPT ![h] = "check"]
  BY OrphanIsNoClient DEF PgInv, Pg!Grant, TableLockDiscipline, Pg!TableLockDiscipline
<1> HIDE DEF h
<1>1. Pg!TypeOK'
  BY <1>0, <1>q DEF PgInv, Pg!TypeOK, Pg!Places, Pg!Sessions, Pg!stored
<1>2. \A j \in Clients : place[j] \notin Pg!Locked
  BY <1>0, QueueFacts DEF PgInv, TableLockDiscipline, Pg!TableLockDiscipline
<1>3. \A j \in Clients : /\ h = j => place[j] = "wait" /\ place'[j] = "check"
                         /\ h # j => place'[j] = place[j]
  BY <1>0, <1>q, QueueFacts DEF PgInv, Pg!TypeOK, TableLockDiscipline, Pg!TableLockDiscipline
<1>4. TableLockDiscipline'
  <2>1. \A j \in Clients : place'[j] \in Pg!Locked <=> holder' = j
    BY <1>0, <1>2, <1>3 DEF Pg!Locked
  <2>2. \A j \in Clients : place'[j] = "wait" <=> \E i \in 1..Len(queue') : queue'[i] = j
    <3> SUFFICES ASSUME NEW j \in Clients
                 PROVE  place'[j] = "wait" <=> \E i \in 1..Len(queue') : queue'[i] = j
      OBVIOUS
    <3>1. CASE h = j
      <4>1. \A i \in 1..Len(queue') : queue'[i] # j
        <5> SUFFICES ASSUME NEW i \in 1..Len(queue'), queue'[i] = j PROVE FALSE
          OBVIOUS
        <5>1. i + 1 \in 1..Len(queue) /\ queue[i + 1] = queue[1] /\ i + 1 # 1
          BY <1>q, <3>1
        <5>2. queue[1] = Orphan
          BY <1>q, <5>1 DEF PgInv, TableLockDiscipline, Pg!TableLockDiscipline
        <5>3. QED
          BY <1>q, <3>1, <5>2, OrphanIsNoClient
      <4>2. QED
        BY <1>3, <3>1, <4>1
    <3>2. CASE h # j
      <4>1. (\E i \in 1..Len(queue') : queue'[i] = j) <=> \E i \in 1..Len(queue) : queue[i] = j
        BY <1>q, <3>2
      <4>2. QED
        BY <1>3, <3>2, <4>1 DEF PgInv, TableLockDiscipline, Pg!TableLockDiscipline
    <3>3. QED
      BY <3>1, <3>2
  <2>3. \A i, j \in 1..Len(queue') : queue'[i] = queue'[j] /\ i # j => queue'[i] = Orphan
    BY <1>q DEF PgInv, TableLockDiscipline, Pg!TableLockDiscipline
  <2>4. QED
    BY <1>0, <2>1, <2>2, <2>3 DEF TableLockDiscipline, Pg!TableLockDiscipline
<1>5. SessionsInPlace'
  BY <1>0, <1>3 DEF PgInv, SessionsInPlace, Publishable, Pg!stored, Pg!Locked
<1>6. QED
  BY <1>1, <1>4, <1>5 DEF PgInv

\* The end of a lost session frees the lock, after its COMMIT or without it.
LEMMA ReapInvariant ==
  ASSUME PgInv, Pg!Reap
  PROVE  PgInv'
<1>0. /\ holder = Orphan /\ holder' = None /\ late' = None /\ Orphan # None
      /\ \A j \in Clients : place[j] \notin Pg!Locked /\ j # Orphan /\ j # None
  BY QueueFacts, OrphanIsNoClient, NoneIsNoValue, PgNoneIsNoValue
  DEF PgInv, Pg!Reap, TableLockDiscipline, Pg!TableLockDiscipline
<1>1. /\ binding' \in Manifests \cup {None} /\ entries' \in Pg!Rows
      /\ binding' = binding \/ binding = None
  BY PublishType
  DEF PgInv, Pg!Reap, Pg!TypeOK, SessionsInPlace, Pg!Publish, Publishable, Pg!stored
<1>2. Pg!TypeOK'
  BY <1>0, <1>1 DEF PgInv, Pg!Reap, Pg!TypeOK, Pg!control
<1>3. TableLockDiscipline'
  BY <1>0 DEF PgInv, Pg!Reap, TableLockDiscipline, Pg!TableLockDiscipline, Pg!control
<1>4. SessionsInPlace'
  BY <1>0, <1>1, PgCallFields, NoneIsNoValue, PgNoneIsNoValue
  DEF PgInv, Pg!Reap, Pg!TypeOK, SessionsInPlace, Publishable, Pg!control, Pg!Locked
<1>5. QED
  BY <1>2, <1>3, <1>4 DEF PgInv

\* The inductive invariant of PgVectorStore.
THEOREM PgInvariance == Pg!Spec => []PgInv
<1>1. Pg!Init => PgInv
  BY OrphanIsNoClient, NoneIsNoValue, PgNoneIsNoValue
  DEF Pg!Init, PgInv, Pg!TypeOK, TableLockDiscipline, Pg!TableLockDiscipline, SessionsInPlace,
      Pg!NoRows, Pg!Rows, Pg!Places, Pg!Locked,
      Pg!Outcomes, Pg!Results
<1>2. PgInv /\ [Pg!Next]_(Pg!vars) => PgInv'
  <2>1. CASE Pg!Next
    BY <2>1, SessionInvariant, GrantInvariant, ReapInvariant DEF Pg!Next, Pg!Server
  <2>2. CASE UNCHANGED Pg!vars
    BY <2>2
    DEF Pg!vars, Pg!stored, Pg!server, Pg!control, PgInv, Pg!TypeOK, TableLockDiscipline,
        Pg!TableLockDiscipline, SessionsInPlace, Publishable
  <2>3. QED
    BY <2>1, <2>2
<1>3. QED
  BY <1>1, <1>2, PTL DEF Pg!Spec

\* The table lock is held where it must be, by one live client, and never leaked.
THEOREM TableLockSafety == Pg!Spec => []TableLockDiscipline
  BY PgInvariance, PTL DEF PgInv

-----------------------------------------------------------------------------

\* A COMMIT, of a client or of a session without one, is one upsert or delete.
LEMMA PublishRefines ==
  ASSUME NEW c \in Pg!Call, Publishable(c), Pg!Publish(c), UNCHANGED reply
  PROVE  Pg!Index!Next
<1>1. CASE c.op = "upsert"
  <2>1. Pg!Index!Upsert(c.manifest, c.batch)
    BY <1>1 DEF Pg!Publish, Publishable, Pg!Index!Upsert, Pg!Put, Pg!Index!Put
  <2>2. QED
    BY <1>1, <2>1, PgCallFields DEF Pg!Index!Next
<1>2. CASE c.op = "delete"
  <2>1. Pg!Index!Delete(c.manifest, c.ids)
    BY <1>2 DEF Pg!Publish, Publishable, Pg!Index!Delete, Pg!Drop, Pg!Index!Drop
  <2>2. QED
    BY <1>2, <2>1, PgCallFields DEF Pg!Index!Next
<1>3. QED
  BY <1>1, <1>2 DEF Publishable

\* Every other step of the server or of a client is a stutter, or a search.
LEMMA PgNextRefines ==
  ASSUME PgInv, Pg!Next
  PROVE  [Pg!Index!Next]_(Pg!Index!vars)
<1>1. ASSUME NEW k \in Clients, Pg!Start(k) PROVE Pg!Index!Next
  <2>1. Pg!Index!Forget(k)
    BY <1>1 DEF Pg!Start, Pg!stored, Pg!Index!Forget
  <2>2. QED
    BY <2>1 DEF Pg!Index!Next
<1>2. ASSUME NEW k \in Clients, Pg!SearchRows(k) PROVE Pg!Index!Next
  <2>1. pgcall[k].manifest \in Manifests
    BY <1>2, PgCallFields DEF Pg!SearchRows, PgInv, Pg!TypeOK, SessionsInPlace
  <2>2. Pg!Index!Search(k, pgcall[k].manifest)
    BY <1>2 DEF Pg!SearchRows, Pg!stored, Pg!Index!Search, PgInv, SessionsInPlace
  <2>3. QED
    BY <2>1, <2>2 DEF Pg!Index!Next
<1>3. ASSUME NEW k \in Clients, Pg!Commit(k) PROVE Pg!Index!Next
  <2>1. pgcall[k] \in Pg!Call /\ Publishable(pgcall[k])
    BY <1>3 DEF Pg!Commit, PgInv, Pg!TypeOK, SessionsInPlace
  <2>2. QED
    BY <1>3, <2>1, PublishRefines DEF Pg!Commit
<1>4. ASSUME Pg!Reap PROVE Pg!Index!Next \/ UNCHANGED Pg!Index!vars
  <2>1. late # None => late \in Pg!Call /\ Publishable(late)
    BY DEF PgInv, Pg!TypeOK, SessionsInPlace
  <2>2. QED
    BY <1>4, <2>1, PublishRefines DEF Pg!Reap, Pg!stored, Pg!Index!vars
<1>5. ASSUME NEW k \in Clients,
             Pg!Step(k) \/ Pg!StatementFails(k) \/ Pg!ConnectionLost(k) \/ Pg!Crash(k)
               \/ Pg!Grant,
             ~Pg!SearchRows(k), ~Pg!Commit(k)
      PROVE  UNCHANGED Pg!Index!vars
  BY <1>5
  DEF Pg!Step, Pg!Connect, Pg!Preflight, Pg!SearchManifest, Pg!CheckManifest, Pg!Write,
      Pg!RollBack, Pg!StatementFails,
      Pg!ConnectionLost, Pg!Crash, Pg!Grant, Pg!stored, Pg!Index!vars
<1>6. CASE Pg!Grant
  BY <1>6 DEF Pg!Grant, Pg!stored, Pg!Index!vars
<1>7. QED
  BY <1>1, <1>2, <1>3, <1>4, <1>5, <1>6 DEF Pg!Next, Pg!Server

\* PgVectorStore implements the index of the VectorStore port.
THEOREM TablesRefine == Pg!Spec => TablesImplementIndex
<1>1. Pg!Init => Pg!Index!Init
  BY DEF Pg!Init, Pg!NoRows, Pg!Index!Init, Pg!Index!NoRows
<1>2. PgInv /\ [Pg!Next]_(Pg!vars) => [Pg!Index!Next]_(Pg!Index!vars)
  <2>1. UNCHANGED Pg!vars => UNCHANGED Pg!Index!vars
    BY DEF Pg!vars, Pg!stored, Pg!Index!vars
  <2>2. QED
    BY <2>1, PgNextRefines
<1>3. QED
  BY <1>1, <1>2, PgInvariance, PTL
  DEF Pg!Spec, Pg!Index!Spec, TablesImplementIndex, Pg!TablesImplementIndex

\* Only a COMMIT changes the tables: one that is reported, or one whose client is gone.
THEOREM NoEffectButByCommit == Pg!Spec => EffectOnlyWithSuccessOrLoss
<1> DEFINE Accounted ==
      \/ \E k \in Clients : place[k] = "commit" /\ outcome'[k] = "ok"
      \/ holder = Orphan /\ late # None
<1>1. PgInv /\ [Pg!Next]_(Pg!vars) => [Pg!stored' # Pg!stored => Accounted]_(Pg!vars)
  <2> SUFFICES ASSUME PgInv, Pg!Next, Pg!stored' # Pg!stored
               PROVE  Accounted
    BY DEF Pg!vars
  <2>1. ASSUME NEW k \in Clients, Pg!Commit(k) PROVE Accounted
    BY <2>1 DEF Pg!Commit, Pg!End, PgInv, Pg!TypeOK
  <2>2. ASSUME Pg!Reap PROVE Accounted
    BY <2>2 DEF Pg!Reap
  <2>3. ASSUME NEW k \in Clients,
               Pg!Start(k) \/ Pg!Step(k) \/ Pg!StatementFails(k) \/ Pg!ConnectionLost(k)
                 \/ Pg!Crash(k)
        PROVE  Pg!Commit(k)
    BY <2>3
    DEF Pg!Start, Pg!Step, Pg!Connect, Pg!Preflight, Pg!SearchManifest, Pg!SearchRows,
        Pg!CheckManifest, Pg!Write,
        Pg!RollBack, Pg!StatementFails, Pg!ConnectionLost, Pg!Crash
  <2>4. ~Pg!Grant
    BY DEF Pg!Grant
  <2>5. QED
    BY <2>1, <2>2, <2>3, <2>4 DEF Pg!Next, Pg!Server
<1>2. QED
  BY <1>1, PgInvariance, PTL
  DEF Pg!Spec, EffectOnlyWithSuccessOrLoss, Pg!EffectOnlyWithSuccessOrLoss

\* Nor in the tables of the PostgreSQL server, COMMITs of lost clients included.
THEOREM PgNoForeignRows ==
  Pg!Spec => [](Pg!Index!RowsUnderManifest /\ Pg!Index!AnswersUnderManifest)
<1>1. Pg!Index!Spec => PgPromise!Spec
  <2>1. Pg!Index!Init => PgPromise!Init
    BY DEF Pg!Index!Init, PgPromise!Init, Pg!Index!NoRows, PgPromise!NoRows
  <2>2. [Pg!Index!Next]_(Pg!Index!vars) => [PgPromise!Next]_(PgPromise!vars)
    BY DEF Pg!Index!Next, Pg!Index!Upsert, Pg!Index!Delete, Pg!Index!Search, Pg!Index!Forget,
           Pg!Index!vars, Pg!Index!Put, Pg!Index!Drop, PgPromise!Next, PgPromise!Upsert,
           PgPromise!Delete, PgPromise!Search, PgPromise!Forget, PgPromise!vars, PgPromise!Put,
           PgPromise!Drop
  <2>3. QED
    BY <2>1, <2>2, PTL DEF Pg!Index!Spec, PgPromise!Spec
<1>2. PgPromise!RowsUnderManifest /\ PgPromise!AnswersUnderManifest
        => Pg!Index!RowsUnderManifest /\ Pg!Index!AnswersUnderManifest
  BY DEF Pg!Index!RowsUnderManifest, PgPromise!RowsUnderManifest,
         Pg!Index!AnswersUnderManifest, PgPromise!AnswersUnderManifest, Pg!Index!AllUnder,
         PgPromise!AllUnder
<1>3. PgPromise!BatchesAreMaps /\ PgPromise!IdSetsAreChunks /\ PgPromise!NoneIsNoValue
  BY NoneIsNoValue, PgBatchesAreMaps, PgIdSetsAreChunks, PgNoneIsNoValue
  DEF Pg!Row, Pg!Rows, Pg!Call, Pg!NoRows, Pg!Answer, PgPromise!Row, PgPromise!Rows,
      PgPromise!Call, PgPromise!NoRows, PgPromise!Answer
<1>4. Pg!Spec => Pg!Index!Spec
  BY TablesRefine DEF TablesImplementIndex, Pg!TablesImplementIndex
<1>5. QED
  BY <1>1, <1>2, <1>3, <1>4, PgPromise!ManifestBound, PTL

-----------------------------------------------------------------------------
(* The store a composition selects *)

\* The store that was not selected stays as it is, so a composition behaves
\* as each of the two stores may.
LEMMA EachStoreBehaves == StoresSpec => Spec /\ Pg!Spec
<1>1. Select => Init /\ Pg!Init
  BY DEF Select
<1>2. [Use]_stores => [Next]_vars /\ [Pg!Next]_(Pg!vars)
  BY DEF Use, WithSqlite, WithPgVector, stores, sqlite, pgvector, vars, Pg!vars, Pg!stored,
         Pg!server, Pg!control
<1>3. QED
  BY <1>1, <1>2, PTL DEF StoresSpec, Spec, Pg!Spec

\* What the locks are for, in whichever store was selected: they are held
\* where they must be, nothing but a success (or the COMMIT of a lost client)
\* has an effect, and the port is implemented.
THEOREM StoresSafety ==
  StoresSpec => /\ [](LockDiscipline /\ TableLockDiscipline)
                /\ EffectOnlyWithSuccess /\ EffectOnlyWithSuccessOrLoss
                /\ ImplementsManifestIndex /\ TablesImplementIndex
<1>1. Spec => []LockDiscipline
  BY LockSafety, PTL
<1>2. QED
  BY <1>1, EachStoreBehaves, TableLockSafety, NoEffectWithoutSuccess, NoEffectButByCommit,
     Refinement, TablesRefine, PTL

=============================================================================
