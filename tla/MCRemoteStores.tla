--------------------------- MODULE MCRemoteStores ---------------------------
(* The stores of RemoteStores, for checking with TLC. *)
EXTENDS RemoteStores, TLC

CONSTANTS k1, k2, m1, m2, c1, c2, x

MCClients   == {k1, k2}
MCManifests == {m1, m2}
MCChunks    == {c1, c2}
MCContents  == {x}

\* With BatchSize 1: an upsert of two requests, and one of none.
MCBatches == {c1 :> x @@ c2 :> x, c1 :> None @@ c2 :> None}
MCIdSets  == {{c1}}

Symmetry == Permutations(MCClients) \cup Permutations(MCManifests)

=============================================================================
