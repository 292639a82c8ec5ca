---------------------------- MODULE MCQdrantStore ----------------------------
(* Model values and call arguments for checking QdrantStore with TLC. *)
EXTENDS QdrantStore, TLC

CONSTANTS k1, k2, m1, m2, m3, c1, x

MCClients   == {k1, k2}
MCManifests == {m1, m2, m3}
MCChunks    == {c1}
MCContents  == {x}

\* A batch, and the empty batch, which initialises but otherwise sends nothing.
MCBatches == {c1 :> x, c1 :> None}
MCIdSets  == {{c1}}

\* Two manifests that only the sentinel tells apart, and one of another size.
MCDimension == m1 :> 2 @@ m2 :> 2 @@ m3 :> 3

Symmetry == Permutations(MCClients) \cup Permutations({m1, m2})

=============================================================================
