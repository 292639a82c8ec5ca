---------------------------- MODULE PineconeStore ----------------------------
(***************************************************************************)
(* PineconeVectorStore: a namespace of a hosted index whose manifest, the  *)
(* sentinel, an operator has put there.  The store never writes it, and    *)
(* every call reads it first.  Records travel in batches, each in one      *)
(* request that the SDK repeats when it times out, and queries see what    *)
(* was written only after a while.                                         *)
(***************************************************************************)
EXTENDS IndexData, Naturals, FiniteSets, SequencesExt

CONSTANT BatchSize  \* batch_size

VARIABLES
  sentinel,  \* the provisioned manifest, None before
  rows,      \* the records of the namespace
  seen,      \* the records queries see
  late,      \* the batch of a request that the client no longer waits for
  call,      \* the call each client is making, None between calls
  pc,        \* where in the call it is
  todo,      \* the chunk IDs it has still to send, in order
  sent,      \* those it has sent
  applied,   \* those whose request has returned
  result     \* how its last call ended

namespace == <<sentinel, rows, seen, late>>
progress  == <<call, pc, todo, sent, applied, result>>
vars      == <<namespace, progress>>

Init ==
  /\ sentinel \in Manifests \cup {None}
  /\ rows = NoRows
  /\ seen = NoRows
  /\ late = [k \in Clients |-> None]
  /\ call = [k \in Clients |-> None]
  /\ pc = [k \in Clients |-> "idle"]
  /\ todo = [k \in Clients |-> <<>>]
  /\ sent = [k \in Clients |-> {}]
  /\ applied = [k \in Clients |-> {}]
  /\ result = [k \in Clients |-> "none"]

-----------------------------------------------------------------------------
(* The hosted index *)

\* An operator writes the sentinel of an empty namespace.
Provision ==
  /\ sentinel = None
  /\ sentinel' \in Manifests
  /\ UNCHANGED <<rows, seen, late, progress>>

\* Queries catch up with one record.
Settle(c) ==
  /\ seen' = [seen EXCEPT ![c] = rows[c]]
  /\ UNCHANGED <<sentinel, rows, late, progress>>

Execute(c, ids) ==
  rows' = IF c.op = "upsert"
            THEN Put(rows, c.manifest, [i \in Chunks |-> IF i \in ids THEN c.batch[i] ELSE None])
            ELSE Drop(rows, ids)

\* A request that timed out is carried out after all, or in part, or never.
ExecuteLate(k) ==
  /\ late[k] # None
  /\ \E ids \in SUBSET late[k].ids : Execute(late[k].call, ids)
  /\ late' = [late EXCEPT ![k] = None]
  /\ UNCHANGED <<sentinel, seen, progress>>

-----------------------------------------------------------------------------
(* The client *)

\* Every record is encoded and checked before the first request.
Start(k) ==
  /\ pc[k] = "idle"
  /\ \E c \in Call :
       /\ call' = [call EXCEPT ![k] = c]
       /\ \E order \in SetToSeqs(IdsOf(c.batch) \cup c.ids) :
            todo' = [todo EXCEPT ![k] = order]
  /\ pc' = [pc EXCEPT ![k] = "fetch"]
  /\ result' = [result EXCEPT ![k] = "none"]
  /\ UNCHANGED <<namespace, sent, applied>>

\* The call goes on, with the given IDs left and the given ones confirmed.
Goto(k, place, left, done) ==
  /\ pc' = [pc EXCEPT ![k] = place]
  /\ todo' = [todo EXCEPT ![k] = left]
  /\ sent' = [sent EXCEPT ![k] = @ \cup done]
  /\ applied' = [applied EXCEPT ![k] = @ \cup done]
  /\ UNCHANGED <<call, result>>

End(k, how) ==
  /\ pc' = [pc EXCEPT ![k] = "idle"]
  /\ call' = [call EXCEPT ![k] = None]
  /\ todo' = [todo EXCEPT ![k] = <<>>]
  /\ sent' = [sent EXCEPT ![k] = {}]
  /\ applied' = [applied EXCEPT ![k] = {}]
  /\ result' = [result EXCEPT ![k] = how]

\* Mutant: a namespace without sentinel is taken for a new one.
CompatibleIfAbsent(k) == sentinel \in {None, call[k].manifest}

Compatible(k) == sentinel = call[k].manifest

\* require_compatible, which each call begins with.
Fetch(k) ==
  /\ pc[k] = "fetch"
  /\ \/ ~Compatible(k) /\ End(k, "incompatible")
     \/ /\ Compatible(k)
        /\ \/ call[k].op = "search" /\ Goto(k, "query", <<>>, {})
           \/ call[k].op # "search" /\ todo[k] = <<>> /\ End(k, "ok")
           \/ call[k].op # "search" /\ todo[k] # <<>> /\ Goto(k, "send", todo[k], {})
  /\ UNCHANGED namespace

\* The answer is selected from what queries see by then.
Query(k) ==
  /\ pc[k] = "query"
  /\ End(k, "ok")
  /\ UNCHANGED namespace

\* The loop over offsets: a batch, and what follows it.
Batch(s) == {s[i] : i \in 1..BatchSize \cap DOMAIN s}

\* Mutant: the last batch is left out if it is shorter than the others would be.
RestFullOnly(s) == IF Len(s) < 2 * BatchSize + 1 THEN <<>> ELSE SubSeq(s, BatchSize + 1, Len(s))

Rest(s) == SubSeq(s, BatchSize + 1, Len(s))

Send(k) ==
  /\ pc[k] = "send"
  /\ Execute(call[k], Batch(todo[k]))
  /\ \/ Rest(todo[k]) = <<>> /\ End(k, "ok")
     \/ Rest(todo[k]) # <<>> /\ Goto(k, "send", Rest(todo[k]), Batch(todo[k]))
  /\ UNCHANGED <<sentinel, seen, late>>

\* The SDK repeats a request that timed out.  Bound: one request per client is
\* abandoned at a time.
Retry(k) ==
  /\ pc[k] = "send" /\ late[k] = None
  /\ late' = [late EXCEPT ![k] = [call |-> call[k], ids |-> Batch(todo[k])]]
  /\ sent' = [sent EXCEPT ![k] = @ \cup Batch(todo[k])]
  /\ UNCHANGED <<sentinel, rows, seen, call, pc, todo, applied, result>>

\* Mutant: a failed batch is skipped and the error raised at the end.
SendFailsLater(k) ==
  /\ pc[k] = "send"
  /\ \E ids \in SUBSET Batch(todo[k]) : Execute(call[k], ids)
  /\ \/ Rest(todo[k]) = <<>> /\ End(k, "provider_error")
     \/ /\ Rest(todo[k]) # <<>>
        /\ sent' = [sent EXCEPT ![k] = @ \cup Batch(todo[k])]
        /\ todo' = [todo EXCEPT ![k] = Rest(todo[k])]
        /\ UNCHANGED <<call, pc, applied, result>>
  /\ UNCHANGED <<sentinel, seen, late>>

\* The request raises, carried out or not, or later.
SendFails(k) ==
  /\ pc[k] = "send"
  /\ \/ \E ids \in SUBSET Batch(todo[k]) : Execute(call[k], ids) /\ UNCHANGED late
     \/ /\ late[k] = None
        /\ late' = [late EXCEPT ![k] = [call |-> call[k], ids |-> Batch(todo[k])]]
        /\ UNCHANGED rows
  /\ End(k, "provider_error")
  /\ UNCHANGED <<sentinel, seen>>

\* A fetch or a query raises.
ReadFails(k) ==
  /\ pc[k] \in {"fetch", "query"}
  /\ End(k, "provider_error")
  /\ UNCHANGED namespace

Crash(k) ==
  /\ pc[k] # "idle"
  /\ End(k, "crashed")
  /\ UNCHANGED namespace

Next ==
  \/ Provision
  \/ \E c \in Chunks : Settle(c)
  \/ \E k \in Clients :
       \/ Start(k) \/ Fetch(k) \/ Query(k) \/ Send(k) \/ Retry(k)
       \/ SendFails(k) \/ ReadFails(k) \/ Crash(k) \/ ExecuteLate(k)

Spec == Init /\ [][Next]_vars

-----------------------------------------------------------------------------
(* Properties *)

\* Records, also those queries still see, belong to the provisioned manifest,
\* and so does whoever is about to query them: a namespace without a sentinel
\* is never written, and no client is given records of another manifest.
NamespaceUnderSentinel ==
  /\ AllUnder(rows, sentinel) /\ AllUnder(seen, sentinel)
  /\ \A k \in Clients : pc[k] \in {"send", "query"} => call[k].manifest = sentinel

\* Wherever an upsert or a delete fails, a single batch is in doubt: every
\* earlier one was confirmed and no later one was sent.
OneBatchInDoubt ==
  \A k \in Clients :
    /\ sent[k] \ applied[k] \subseteq Batch(todo[k])
    /\ applied[k] \cup ToSet(todo[k]) =
         IF pc[k] \in {"fetch", "send"} THEN IdsOf(call[k].batch) \cup call[k].ids ELSE {}

\* A call reports success in the step in which its last batch is confirmed.
EveryBatchConfirmed ==
  [][\A k \in Clients :
       /\ call[k] # None /\ result'[k] = "ok"
       /\ call[k].op \in {"upsert", "delete"}
       => IdsOf(call[k].batch) \cup call[k].ids \subseteq applied[k] \cup Batch(todo[k])]_vars

=============================================================================
