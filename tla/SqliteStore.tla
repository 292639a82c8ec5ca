----------------------------- MODULE SqliteStore -----------------------------
(***************************************************************************)
(* SQLiteVectorStore: one database file, shared by processes that were     *)
(* composed with any of several manifests.  An upsert opens (and creates)  *)
(* the file, creates the two tables statement by statement, takes the      *)
(* write lock with BEGIN IMMEDIATE, compares or inserts the manifest,      *)
(* writes row by row and commits.  A delete does the same on a file that   *)
(* must exist.  A search and a preflight run outside any transaction, one  *)
(* statement at a time.  A process may stop anywhere; the database then    *)
(* rolls its transaction back.                                             *)
(***************************************************************************)
EXTENDS IndexData

VARIABLES
  schema,    \* the file: absent, empty, or the tables created so far
  manifest,  \* committed row of ragkit_manifests for this collection
  rows,      \* committed rows of ragkit_entries for this collection
  lock,      \* the client inside BEGIN IMMEDIATE, or None
  pending,   \* the lock holder's uncommitted image and the rows it has left
  call,      \* the call each client is making, None between calls
  pc,        \* where in the call it is
  result,    \* how its last call ended
  answer     \* what its last search returned

vars == <<schema, manifest, rows, lock, pending, call, pc, result, answer>>
stored == <<schema, manifest, rows>>
transaction == <<lock, pending>>

Schemas == {"absent", "empty", "manifests", "entries"}
Places == {"idle", "open", "schema", "begin", "check", "write", "rows"}
InTransaction == {"check", "write"}

Pending ==
  [manifest : Manifests \cup {None}, rows : Rows, todo : SUBSET Chunks]

Image(m, rs, todo) == [manifest |-> m, rows |-> rs, todo |-> todo]

NoPending == Image(None, NoRows, {})

\* The committed and the pending rows are whole rows.
TypeOK ==
  /\ schema \in Schemas
  /\ manifest \in Manifests \cup {None}
  /\ rows \in Rows
  /\ lock \in Clients \cup {None}
  /\ pending \in Pending
  /\ call \in [Clients -> Call \cup {None}]
  /\ pc \in [Clients -> Places]
  /\ result \in [Clients -> Results]
  /\ answer \in [Clients -> Answer \cup {None}]

Init ==
  /\ schema = "absent"
  /\ manifest = None
  /\ rows = NoRows
  /\ lock = None
  /\ pending = NoPending
  /\ call = [k \in Clients |-> None]
  /\ pc = [k \in Clients |-> "idle"]
  /\ result = [k \in Clients |-> "none"]
  /\ answer = [k \in Clients |-> None]

-----------------------------------------------------------------------------
(* Control of a call *)

Start(k) ==
  /\ pc[k] = "idle"
  /\ \E c \in Call : call' = [call EXCEPT ![k] = c]
  /\ pc' = [pc EXCEPT ![k] = "open"]
  /\ result' = [result EXCEPT ![k] = "none"]
  /\ answer' = [answer EXCEPT ![k] = None]
  /\ UNCHANGED <<stored, transaction>>

Goto(k, place) ==
  /\ pc' = [pc EXCEPT ![k] = place]
  /\ UNCHANGED <<call, result>>

End(k, how) ==
  /\ pc' = [pc EXCEPT ![k] = "idle"]
  /\ call' = [call EXCEPT ![k] = None]
  /\ result' = [result EXCEPT ![k] = how]

\* Mutant: the connection is left open in its transaction.
RollBackForgotten(k) == UNCHANGED transaction

\* Leaving the transaction without COMMIT: nothing of the image survives.
RollBack(k) ==
  /\ lock' = IF lock = k THEN None ELSE lock
  /\ pending' = IF lock = k THEN NoPending ELSE pending

-----------------------------------------------------------------------------
(* require_compatible and search: statements outside a transaction *)

\* A missing file, a missing table and a missing row all mean "no manifest".
Preflight(k) ==
  /\ pc[k] = "open" /\ call[k].op = "preflight"
  /\ End(k, IF manifest \in {None, call[k].manifest} THEN "ok" ELSE "incompatible")
  /\ UNCHANGED <<stored, transaction, answer>>

SearchManifest(k) ==
  /\ pc[k] = "open" /\ call[k].op = "search"
  /\ \/ manifest = call[k].manifest /\ Goto(k, "rows")
     \/ manifest # call[k].manifest /\ End(k, "incompatible")
  /\ UNCHANGED <<stored, transaction, answer>>

SearchRows(k) ==
  /\ pc[k] = "rows"
  /\ answer' = [answer EXCEPT ![k] = [expected |-> call[k].manifest, found |-> rows]]
  /\ End(k, "ok")
  /\ UNCHANGED <<stored, transaction>>

-----------------------------------------------------------------------------
(* upsert and delete *)

\* sqlite3.connect creates the file of an upsert.
OpenForUpsert(k) ==
  /\ pc[k] = "open" /\ call[k].op = "upsert"
  /\ schema' = IF schema = "absent" THEN "empty" ELSE schema
  /\ Goto(k, "schema")
  /\ UNCHANGED <<manifest, rows, transaction, answer>>

\* executescript(_SCHEMA): each missing table is created in a transaction of
\* its own; CREATE TABLE IF NOT EXISTS takes no lock for a table that exists.
CreateTable(k) ==
  /\ pc[k] = "schema" /\ schema # "entries" /\ lock = None
  /\ schema' = IF schema = "empty" THEN "manifests" ELSE "entries"
  /\ UNCHANGED <<manifest, rows, transaction, call, pc, result, answer>>

SchemaReady(k) ==
  /\ pc[k] = "schema" /\ schema = "entries"
  /\ Goto(k, "begin")
  /\ UNCHANGED <<stored, transaction, answer>>

\* A delete never creates the file.
OpenForDelete(k) ==
  /\ pc[k] = "open" /\ call[k].op = "delete"
  /\ \/ schema = "absent" /\ End(k, "incompatible")
     \/ schema # "absent" /\ Goto(k, "begin")
  /\ UNCHANGED <<stored, transaction, answer>>

Begin(k) ==
  /\ pc[k] = "begin" /\ lock = None
  /\ lock' = k
  /\ pending' = Image(manifest, rows, IdsOf(call[k].batch) \cup call[k].ids)
  /\ Goto(k, "check")
  /\ UNCHANGED <<stored, answer>>

\* Mutant: the manifest of a bound collection is replaced, not compared.
MayWriteAlways(k) == TRUE

\* The first upsert inserts its manifest; any other must match exactly.
MayWrite(k) ==
  \/ pending.manifest = call[k].manifest
  \/ pending.manifest = None /\ call[k].op = "upsert"

CheckManifest(k) ==
  /\ pc[k] = "check"
  /\ \/ /\ MayWrite(k)
        /\ pending' = Image(call[k].manifest, pending.rows, pending.todo)
        /\ Goto(k, "write")
        /\ UNCHANGED lock
     \/ /\ ~MayWrite(k)
        /\ End(k, "incompatible")
        /\ RollBack(k)
  /\ UNCHANGED <<stored, answer>>

\* executemany: one statement per chunk.
Written(k, c) ==
  IF call[k].op = "upsert"
    THEN [content |-> call[k].batch[c], under |-> call[k].manifest]
    ELSE None

\* Mutant: no BEGIN, so every statement commits by itself.
WriteRowAutocommit(k) ==
  /\ pc[k] = "write"
  /\ \E c \in pending.todo :
       /\ pending' = Image(pending.manifest, [pending.rows EXCEPT ![c] = Written(k, c)],
                        pending.todo \ {c})
       /\ rows' = [rows EXCEPT ![c] = Written(k, c)]
  /\ UNCHANGED <<schema, manifest, lock, call, pc, result, answer>>

WriteRow(k) ==
  /\ pc[k] = "write"
  /\ \E c \in pending.todo :
       pending' = Image(pending.manifest, [pending.rows EXCEPT ![c] = Written(k, c)],
                        pending.todo \ {c})
  /\ UNCHANGED <<stored, lock, call, pc, result, answer>>

Commit(k) ==
  /\ pc[k] = "write" /\ pending.todo = {}
  /\ manifest' = pending.manifest
  /\ rows' = pending.rows
  /\ lock' = None
  /\ pending' = NoPending
  /\ End(k, "ok")
  /\ UNCHANGED <<schema, answer>>

-----------------------------------------------------------------------------
(* Failures *)

\* Mutant: no timeout on BEGIN IMMEDIATE.
BlockedInSchema(k) == lock # None /\ pc[k] = "schema" /\ schema # "entries"

\* What the client needs another holds the write lock for.
Blocked(k) ==
  /\ lock # None
  /\ \/ pc[k] = "begin"
     \/ pc[k] = "schema" /\ schema # "entries"

\* sqlite3.connect(timeout=30.0): waiting ends in "database is locked".
BusyTimeout(k) ==
  /\ Blocked(k)
  /\ End(k, "provider_error")
  /\ UNCHANGED <<stored, transaction, answer>>

\* Any statement may raise sqlite3.Error: rollback, close, ProviderError.
StatementFails(k) ==
  /\ pc[k] # "idle"
  /\ End(k, "provider_error")
  /\ RollBack(k)
  /\ UNCHANGED <<stored, answer>>

\* The process stops; the hot journal is rolled back for it.
Crash(k) ==
  /\ pc[k] # "idle"
  /\ End(k, "crashed")
  /\ RollBack(k)
  /\ UNCHANGED <<stored, answer>>

-----------------------------------------------------------------------------

Step(k) ==
  \/ Preflight(k)
  \/ SearchManifest(k) \/ SearchRows(k)
  \/ OpenForUpsert(k) \/ CreateTable(k) \/ SchemaReady(k) \/ OpenForDelete(k)
  \/ Begin(k) \/ CheckManifest(k) \/ WriteRow(k) \/ Commit(k)
  \/ BusyTimeout(k)

Next == \E k \in Clients : Start(k) \/ Step(k) \/ StatementFails(k) \/ Crash(k)

Spec == Init /\ [][Next]_vars

\* A client that is inside a call keeps executing it: Python runs the next
\* statement, and a wait for the lock ends by the lock or by the timeout.
FairSpec == Spec /\ \A k \in Clients : WF_vars(Step(k))

-----------------------------------------------------------------------------
(* Properties *)

Index == INSTANCE ManifestIndex

\* The store implements the index the port promises: whatever the
\* interleaving of connections and crashes, the committed tables change only
\* by whole upserts and deletes under one manifest, and a search, although it
\* reads the manifest and the rows in two statements, answers from one commit.
ImplementsManifestIndex == Index!Spec

\* A connection holds the write lock exactly while it is inside its
\* transaction, and a manifest row only exists beside both tables: no error
\* path or crash of upsert or delete leaves the database locked.
LockDiscipline ==
  /\ \A k \in Clients : pc[k] \in InTransaction <=> lock = k
  /\ manifest # None => schema = "entries"

\* The committed index changes only in the step in which an upsert or a delete
\* reports success: a call that raises, or whose process stops before its COMMIT
\* takes effect, changed nothing.  (COMMIT and the report are one step.)
EffectOnlyWithSuccess ==
  [][<<manifest, rows>>' # <<manifest, rows>> =>
       \E k \in Clients : /\ call[k] # None
                          /\ call[k].op \in {"upsert", "delete"}
                          /\ result'[k] = "ok"]_vars

\* Every call returns or raises, also when other processes keep taking the
\* write lock: the busy timeout bounds the wait.
EveryCallEnds == \A k \in Clients : pc[k] # "idle" ~> pc[k] = "idle"

=============================================================================
