-------------------------- MODULE MCHybridIndexing --------------------------
(* Model values and compositions for checking HybridIndexing with TLC. *)
EXTENDS HybridIndexing, TLC

CONSTANTS k1, k2, p1, p2, m1, m2, c1, c2, x, y

\* Two threads of one process.
Threads    == {k1, k2}
OneProcess == {p1}
SameHome   == k1 :> p1 @@ k2 :> p1

\* Two processes with a thread each.
TwoProcesses == {p1, p2}
OwnHome      == k1 :> p1 @@ k2 :> p2

TwoManifests == {m1, m2}

\* Two renderings of the same chunks; the second fits one manifest only.
MixedConfigs == {[rendering |-> x, manifests |-> {m1, m2}],
                 [rendering |-> y, manifests |-> {m1}]}
OneConfig    == {[rendering |-> x, manifests |-> {m1, m2}]}

\* The source is edited: from nothing, to one chunk, to two that share it.
Editions  == {{}, {c1}, {c1, c2}}
OneSource == {{c1}}

\* Batches and delete requests of the store port play no role here.
NoBatches == {}
NoIdSets  == {}

\* The threads of one process, and the manifests its composition fits, are
\* interchangeable.
Symmetry == Permutations(Threads) \cup Permutations(TwoManifests)

=============================================================================
