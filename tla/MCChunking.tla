------------------------------ MODULE MCChunking ------------------------------
(* Every text of up to four characters, and longer ones of fewer characters. *)
EXTENDS Chunking

TextsOver(alphabet, lengths) == UNION {[1..n -> alphabet] : n \in lengths}

MCTexts ==
  {t \in TextsOver({"x", " ", "\n", "."}, 1..4) \cup TextsOver({"x", " ", "."}, {5})
         \cup TextsOver({"x", "\n", "#"}, {5}) \cup TextsOver({"x", "\n", ";"}, {5})
         \cup {<<"x", " ", "y", ".", " ", "x", ".", " ", "x">>} : Ink(t, 0, Len(t)) # {}}

MCBodies   == {<<" ">>, <<"x">>, <<"x", "y", "x">>}
MCSizes    == {<<2, 1, 1>>, <<4, 1, 3>>}
MCRequests == {Default, Policy("auto", <<4, 1, 3>>)}

=============================================================================
