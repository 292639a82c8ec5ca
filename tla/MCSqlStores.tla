----------------------------- MODULE MCSqlStores -----------------------------
(* The stores of SqlStores, for checking with TLC. *)
EXTENDS SqlStores, TLC

CONSTANTS k1, k2, m1, m2, c1, c2, x, y

MCClients   == {k1, k2}
MCManifests == {m1, m2}
MCChunks    == {c1, c2}
MCContents  == {x, y}

\* One upsert of two chunks, and one that changes the content of the first.
MCBatches == {c1 :> x @@ c2 :> x, c1 :> y @@ c2 :> None}
MCIdSets  == {{c1}}

\* PgVectorStore writes a batch in one statement, so one chunk is enough; a
\* second content tells the upserts of a client apart.
MCPgChunks  == {c1}
MCPgBatches == {c1 :> x, c1 :> y}

=============================================================================
