---------------------------- MODULE PgVectorStore ----------------------------
(***************************************************************************)
(* PgVectorStore: two tables of a PostgreSQL server.  Upserts and deletes  *)
(* queue for a table lock that nobody can share (SHARE ROW EXCLUSIVE), so  *)
(* the manifest they read is still there when they commit.  Searches and   *)
(* preflights take no lock that conflicts with it and read one statement   *)
(* at a time (READ COMMITTED).  A client whose connection is lost does not *)
(* know what becomes of its session: the server notices later, and until   *)
(* then the session keeps its place in the queue, or the lock.             *)
(***************************************************************************)
EXTENDS IndexData, Naturals, Sequences, FiniteSets

CONSTANTS
  Orphan,      \* a session whose client is gone: no client, and not None
  MaxOrphans   \* bound, a natural number: orphans that wait in the queue at a time

VARIABLES
  manifest,  \* committed row of ragkit_manifests for this collection
  rows,      \* committed rows of ragkit_entries for this collection
  lock,      \* the session that holds the table lock, or None
  queue,     \* the sessions that wait for it
  late,      \* the call of an orphaned lock holder whose COMMIT is on its way
  call,      \* the call each client is making, None between calls
  pc,        \* where in the call it is
  failure,   \* the error that is rolling its transaction back
  result,    \* how its last call ended
  answer     \* what its last search returned

stored  == <<manifest, rows>>
server  == <<lock, queue, late>>
control == <<call, pc, failure, result>>
vars    == <<stored, server, control, answer>>

Sessions == Clients \cup {Orphan}
Places   == {"idle", "connect", "read", "rows", "wait", "check", "write", "commit", "rollback"}
Locked   == {"check", "write", "commit", "rollback"}

\* driver_error: an error of the driver that is not translated.
Outcomes == Results \cup {"driver_error"}

\* Whatever sessions die, the tables hold whole rows.
TypeOK ==
  /\ manifest \in Manifests \cup {None}
  /\ rows \in Rows
  /\ lock \in Sessions \cup {None}
  /\ queue \in Seq(Sessions)
  /\ late \in Call \cup {None}
  /\ call \in [Clients -> Call \cup {None}]
  /\ pc \in [Clients -> Places]
  /\ failure \in [Clients -> Outcomes]
  /\ result \in [Clients -> Outcomes]
  /\ answer \in [Clients -> Answer \cup {None}]

Init ==
  /\ manifest = None
  /\ rows = NoRows
  /\ lock = None
  /\ queue = <<>>
  /\ late = None
  /\ call = [k \in Clients |-> None]
  /\ pc = [k \in Clients |-> "idle"]
  /\ failure = [k \in Clients |-> "none"]
  /\ result = [k \in Clients |-> "none"]
  /\ answer = [k \in Clients |-> None]

-----------------------------------------------------------------------------
(* Control of a call *)

Start(k) ==
  /\ pc[k] = "idle"
  /\ \E c \in Call : call' = [call EXCEPT ![k] = c]
  /\ pc' = [pc EXCEPT ![k] = "connect"]
  /\ result' = [result EXCEPT ![k] = "none"]
  /\ answer' = [answer EXCEPT ![k] = None]
  /\ UNCHANGED <<stored, server, failure>>

Goto(k, place) ==
  /\ pc' = [pc EXCEPT ![k] = place]
  /\ UNCHANGED <<call, failure, result>>

End(k, how) ==
  /\ pc' = [pc EXCEPT ![k] = "idle"]
  /\ call' = [call EXCEPT ![k] = None]
  /\ failure' = [failure EXCEPT ![k] = "none"]
  /\ result' = [result EXCEPT ![k] = how]

\* An error inside the try statement of upsert and delete.
Raise(k, error) ==
  /\ pc' = [pc EXCEPT ![k] = "rollback"]
  /\ failure' = [failure EXCEPT ![k] = error]
  /\ UNCHANGED <<call, result>>

\* _connect; BEGIN and LOCK TABLE follow at once in upsert and delete.
Connect(k) ==
  /\ pc[k] = "connect"
  /\ \/ call[k].op \in {"preflight", "search"} /\ Goto(k, "read") /\ UNCHANGED server
     \/ /\ call[k].op \in {"upsert", "delete"}
        /\ Goto(k, "wait")
        /\ queue' = Append(queue, k)
        /\ UNCHANGED <<lock, late>>
     \/ End(k, "provider_error") /\ UNCHANGED server
  /\ UNCHANGED <<stored, answer>>

-----------------------------------------------------------------------------
(* require_compatible and search: statements without a table lock *)

Preflight(k) ==
  /\ pc[k] = "read" /\ call[k].op = "preflight"
  /\ End(k, IF manifest \in {None, call[k].manifest} THEN "ok" ELSE "incompatible")
  /\ UNCHANGED <<stored, server, answer>>

\* Mutant: a search of a collection without a manifest goes on.
SearchManifestLenient(k) ==
  /\ pc[k] = "read" /\ call[k].op = "search"
  /\ \/ manifest \in {None, call[k].manifest} /\ Goto(k, "rows")
     \/ manifest \notin {None, call[k].manifest} /\ End(k, "incompatible")
  /\ UNCHANGED <<stored, server, answer>>

SearchManifest(k) ==
  /\ pc[k] = "read" /\ call[k].op = "search"
  /\ \/ manifest = call[k].manifest /\ Goto(k, "rows")
     \/ manifest # call[k].manifest /\ End(k, "incompatible")
  /\ UNCHANGED <<stored, server, answer>>

SearchRows(k) ==
  /\ pc[k] = "rows"
  /\ answer' = [answer EXCEPT ![k] = [expected |-> call[k].manifest, found |-> rows]]
  /\ End(k, "ok")
  /\ UNCHANGED <<stored, server>>

-----------------------------------------------------------------------------
(* upsert and delete *)

\* The server gives the lock to the first in the queue.
Grant ==
  /\ lock = None /\ queue # <<>>
  /\ lock' = Head(queue)
  /\ queue' = Tail(queue)
  /\ pc' = IF lock' = Orphan THEN pc ELSE [pc EXCEPT ![lock'] = "check"]
  /\ UNCHANGED <<stored, late, call, failure, result, answer>>

MayWrite(k) ==
  \/ manifest = call[k].manifest
  \/ manifest = None /\ call[k].op = "upsert"

\* Mutant: a mismatch is read again instead of raised.
CheckManifestAgain(k) ==
  /\ pc[k] = "check"
  /\ MayWrite(k)
  /\ Goto(k, "write")
  /\ UNCHANGED <<stored, server, answer>>

\* The manifest is inserted or compared.
CheckManifest(k) ==
  /\ pc[k] = "check"
  /\ \/ MayWrite(k) /\ Goto(k, "write")
     \/ ~MayWrite(k) /\ Raise(k, "incompatible")
  /\ UNCHANGED <<stored, server, answer>>

\* What the transaction of a call makes of the tables.
Publish(c) ==
  /\ manifest' = c.manifest
  /\ rows' = IF c.op = "upsert" THEN Put(rows, c.manifest, c.batch) ELSE Drop(rows, c.ids)

\* Mutant: a connection in autocommit mode.
WriteAutocommit(k) ==
  /\ pc[k] = "write"
  /\ Goto(k, "commit")
  /\ Publish(call[k])
  /\ UNCHANGED <<server, answer>>

\* executemany or DELETE, which nobody sees before COMMIT.
Write(k) ==
  /\ pc[k] = "write"
  /\ Goto(k, "commit")
  /\ UNCHANGED <<stored, server, answer>>

Commit(k) ==
  /\ pc[k] = "commit"
  /\ Publish(call[k])
  /\ lock' = None
  /\ End(k, "ok")
  /\ UNCHANGED <<queue, late, answer>>

\* Mutant: an error of the project's own is raised on without a rollback.
RollBackProviderErrors(k) ==
  /\ pc[k] = "rollback"
  /\ lock' = IF failure[k] = "incompatible" THEN lock ELSE None
  /\ End(k, failure[k])
  /\ UNCHANGED <<stored, queue, late, answer>>

\* Both handlers roll back before they raise.
RollBack(k) ==
  /\ pc[k] = "rollback"
  /\ lock' = None
  /\ End(k, failure[k])
  /\ UNCHANGED <<stored, queue, late, answer>>

-----------------------------------------------------------------------------
(* Failures *)

\* A session leaves the queue, its place is skipped when it is reached.
Abandoned(k) == [i \in 1..Len(queue) |-> IF queue[i] = k THEN Orphan ELSE queue[i]]

OrphansWaiting == {i \in 1..Len(queue) : queue[i] = Orphan}

\* Bound: at most MaxOrphans places of the queue are abandoned.
MayAbandon(k) == pc[k] = "wait" => Cardinality(OrphansWaiting) < MaxOrphans

\* A statement raises and the connection stays: reads close it, the other two
\* roll back.
StatementFails(k) ==
  /\ \/ pc[k] \in {"read", "rows"} /\ End(k, "provider_error") /\ UNCHANGED queue
     \/ /\ pc[k] = "wait" /\ MayAbandon(k)
        /\ queue' = Abandoned(k)
        /\ End(k, "provider_error")
     \/ pc[k] \in {"check", "write", "commit"} /\ Raise(k, "provider_error") /\ UNCHANGED queue
  /\ UNCHANGED <<stored, lock, late, answer>>

\* The session stays behind, perhaps with a COMMIT under way.
LeaveSession(k) ==
  /\ MayAbandon(k)
  /\ queue' = Abandoned(k)
  /\ lock' = IF lock = k THEN Orphan ELSE lock
  /\ late' = IF pc[k] = "commit" THEN call[k] ELSE late

\* The connection is lost: rollback() of upsert and delete raises the driver's
\* own error, out of the handlers; a read has nothing to roll back.
ConnectionLost(k) ==
  /\ pc[k] \notin {"idle", "connect"}
  /\ LeaveSession(k)
  /\ End(k, IF pc[k] \in {"read", "rows"} THEN "provider_error" ELSE "driver_error")
  /\ UNCHANGED <<stored, answer>>

Crash(k) ==
  /\ pc[k] # "idle"
  /\ LeaveSession(k)
  /\ End(k, "crashed")
  /\ UNCHANGED <<stored, answer>>

\* The server notices: the session ends, after its COMMIT if that arrives.
Reap ==
  /\ lock = Orphan
  /\ lock' = None
  /\ late' = None
  /\ \/ UNCHANGED stored
     \/ late # None /\ Publish(late)
  /\ UNCHANGED <<queue, control, answer>>

-----------------------------------------------------------------------------

Step(k) ==
  \/ Connect(k)
  \/ Preflight(k) \/ SearchManifest(k) \/ SearchRows(k)
  \/ CheckManifest(k) \/ Write(k) \/ Commit(k) \/ RollBack(k)

Server == Grant \/ Reap

Next ==
  \/ \E k \in Clients : Start(k) \/ Step(k) \/ StatementFails(k) \/ ConnectionLost(k) \/ Crash(k)
  \/ Server

Spec == Init /\ [][Next]_vars

\* Clients execute their next statement, the server hands its lock on and, by
\* its keep-alive probes, ends the sessions of lost clients.
Fairness == (\A k \in Clients : WF_vars(Step(k))) /\ WF_vars(Grant) /\ WF_vars(Reap)

FairSpec == Spec /\ Fairness

-----------------------------------------------------------------------------
(* Properties *)

Index == INSTANCE ManifestIndex

\* The two tables implement the index the port promises: first upserts that
\* race, searches between two commits and COMMITs whose client is gone
\* included.
TablesImplementIndex == Index!Spec

\* A client between LOCK TABLE and the end of its transaction holds the lock
\* and nobody else does; who waits is in the queue once; and no call that has
\* ended leaves the lock with a live session, whichever handler it ended in.
TableLockDiscipline ==
  /\ \A k \in Clients : pc[k] \in Locked <=> lock = k
  /\ \A k \in Clients : pc[k] = "wait" <=> \E i \in 1..Len(queue) : queue[i] = k
  /\ \A i, j \in 1..Len(queue) : queue[i] = queue[j] /\ i # j => queue[i] = Orphan
  /\ late # None => lock = Orphan

\* The tables change only in the step in which a call reports success, or in
\* the end of a session whose client is gone: a call that was refused, or
\* raised ProviderError, has no effect, then or later.
EffectOnlyWithSuccessOrLoss ==
  [][stored' # stored =>
       \/ \E k \in Clients : pc[k] = "commit" /\ result'[k] = "ok"
       \/ lock = Orphan /\ late # None]_vars

\* LOCK TABLE has no timeout, yet every call ends, as the queue is served in
\* order and the lock of a lost client is taken back.
EveryTransactionEnds == \A k \in Clients : pc[k] # "idle" ~> pc[k] = "idle"

=============================================================================
