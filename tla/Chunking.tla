------------------------------- MODULE Chunking -------------------------------
(***************************************************************************)
(* From the parts an extractor finds in a document to its chunks.          *)
(*                                                                         *)
(* AdaptiveChunker is bound to one document family and one policy.  The    *)
(* extractor of that family appends parts in reading order, each with the  *)
(* relations its own heuristics give it; chunk then cuts the document once *)
(* the caller asks for it.  A text is cut by the strategies of             *)
(* TextChunking; the parts of the other families are atoms, which are      *)
(* grouped.                                                                *)
(***************************************************************************)
EXTENDS TextChunking

CONSTANTS Texts,     \* the texts of a text document
          Bodies,    \* what a word, a cell, an image or a segment says
          Sizes,     \* <<max_chars, overlap_chars, min_chunk_chars>> of a policy
          MaxParts,  \* bound on the parts of one document
          MaxChunks, \* the max_chunks of a request
          Requests   \* the policies requests name, or Default

ASSUME SizesAssumption ==
  \A s \in Sizes : s[1] \in Nat \ {0} /\ s[2] \in 0..(s[1] - 1) /\ s[3] \in 1..s[1]

\* A text without searchable text is refused, and any empty part (_validate_part).
ASSUME DocumentsHaveText ==
  /\ \A t \in Texts : t \in Seq(Char) /\ Ink(t, 0, Len(t)) # {}
  /\ \A b \in Bodies : b \in Seq(Char) /\ b # <<>>

\* A blank body is skipped or refused, but for the cell of a workbook: it is
\* skipped only if it has no value.
Inked == {b \in Bodies : Ink(b, 0, Len(b)) # {}}

VARIABLES
  bound,    \* the family and the resolved policy, or Unbound
  form,     \* whether the OCR extractor reads a form
  parts,    \* the parts of the document, in reading order
  chunks,   \* what chunk returned
  outcome   \* "reading", "chunks", "limit" or "rejected"

vars == <<bound, form, parts, chunks, outcome>>

-----------------------------------------------------------------------------
(* Policies *)

Prose == {"auto", "fixed", "sliding_window", "recursive", "sentence", "paragraph", "section",
          "hierarchical", "semantic", "proposition", "evidence"}

Supported(family) ==
  CASE family = "text"   -> Prose \cup {"book", "legal", "medical", "code", "conversation", "table"}
    [] family = "ocr"    -> Prose \cup {"book", "legal", "medical", "conversation", "table",
                                        "layout_region"}
    [] family = "layout" -> Prose \cup {"book", "legal", "medical", "code", "conversation",
                                        "table", "layout_region"}
    [] family = "vision" -> (Prose \ {"section", "hierarchical"}) \cup {"image_region"}
    [] family = "media"  -> (Prose \ {"section", "hierarchical"})
                              \cup {"conversation", "transcript_segment", "scene"}

Families   == {"text", "ocr", "layout", "vision", "media"}
Strategies == UNION {Supported(f) : f \in Families}

Policy(strategy, size) ==
  [strategy |-> strategy, max |-> size[1], overlap |-> size[2], min |-> size[3], threshold |-> 50]
Policies == {Policy(s, z) : s \in Strategies, z \in Sizes}

Native  == {"table", "layout_region", "image_region", "transcript_segment", "scene", "evidence"}

\* ChunkingPolicy(), which names no policy in a request
Default == Policy("auto", <<1200, 120, 80>>)
Unbound == [family |-> "none", policy |-> Default]

\* default_chunking_strategy, resolve_chunking_policy
Resolved(family, policy) ==
  IF policy.strategy = "auto"
    THEN [policy EXCEPT !.strategy = IF family = "text" THEN "recursive" ELSE "evidence"]
    ELSE policy

-----------------------------------------------------------------------------
(* Parts and their relations *)

To(kind, part) == [kind |-> kind, part |-> part]

\* The positions of a set from 1 to n, in order, and the elements at some positions.
InOrder(set, n) ==
  LET upTo[i \in 0..n] == IF i = 0 THEN <<>>
                          ELSE IF i \in set THEN Append(upTo[i - 1], i) ELSE upTo[i - 1]
  IN upTo[n]
Listed(list, set) == LET at == InOrder(set, Len(list)) IN [k \in DOMAIN at |-> list[at[k]]]

\* dict.fromkeys: each element once, where it occurs first.
Distinct(list) == Listed(list, {k \in DOMAIN list : \A j \in 1..(k - 1) : list[j] # list[k]})

\* The parts a part is related to, once each and never itself.
Related(i, kinds) ==
  LET to    == parts[i].to
      links == Listed(to, {k \in DOMAIN to : to[k].kind \in kinds /\ to[k].part # i})
  IN Distinct([k \in DOMAIN links |-> links[k].part])

Relations == {"LABELED_BY", "CONTINUES", "KEYFRAME_OF"}

\* _label_ids
Labels == {r.part : r \in {q \in UNION {Range(parts[i].to) : i \in DOMAIN parts} :
                             q.kind = "LABELED_BY"}}

Unlabelling == InOrder(DOMAIN parts \ Labels, Len(parts))

-----------------------------------------------------------------------------
(* Groups of atomic parts: a group is the sequence of its parts' positions *)

\* The length of a group's text, a blank line between its parts.
Size(group) ==
  LET size[n \in 0..Len(group)] ==
        IF n = 0 THEN 0 ELSE size[n - 1] + Len(parts[group[n]].text) + IF n = 1 THEN 0 ELSE 2
  IN size[Len(group)]

\* Neighbouring parts from one to another, the latter excluded.
Run(span) == [n \in 1..Length(span) |-> span[1] + n - 1]
Runs(spans) == [k \in DOMAIN spans |-> Run(spans[k])]

\* _fixed_atomic_groups
FixedGroups(limit) ==
  Runs(Join([i \in DOMAIN parts |-> <<i, i + 1>>],
            {p \in Pairs : Size(Run(Both(p[1], p[2]))) <= limit}))

\* _sliding_atomic_groups: what is left of the limit, up to the overlap, is
\* filled with the end of the group before.
SlidingGroups(limit, overlap) ==
  LET fixed == FixedGroups(limit)
      Carried(previous, group) ==
        LET budget    == Least(overlap, Max({0, limit - Size(group)}))
            Suffix(n) == SubSeq(previous, Len(previous) - n + 1, Len(previous))
        IN Suffix(Max({n \in 0..Len(previous) : Size(Suffix(n)) <= budget}))
      sliding[k \in DOMAIN fixed] ==
        IF k = 1 THEN fixed[1]
        ELSE LET previous  == sliding[k - 1]
                 candidate == Carried(previous, fixed[k]) \o fixed[k]
             IN IF candidate # previous THEN candidate ELSE fixed[k]
  IN sliding

\* _joined_atomic_parts: the text of all parts, and where a part begins in it.
Joined ==
  LET upTo[n \in 1..Len(parts)] ==
        IF n = 1 THEN parts[1].text ELSE upTo[n - 1] \o <<"\n", "\n">> \o parts[n].text
  IN upTo

Start(i) == Len(Joined[i]) - Len(parts[i].text)

\* A group for the parts that each span touches, which are neighbours.
SpannedGroups(policy) ==
  LET spans      == TextSpans(Joined[Len(parts)], policy)
      Touched(k) == {i \in DOMAIN parts : /\ Start(i) < spans[k][2]
                                          /\ Start(i) + Len(parts[i].text) > spans[k][1]}
  IN Runs(Join(FlattenSeq([k \in DOMAIN spans |-> Hull(Touched(k))]), Same))

\* _table_groups: a row holds its cells, each with its labels behind it.
TableGroups ==
  LET Row(i)     == IF parts[i].kind = "cell" THEN <<parts[i].at[1]>> ELSE parts[i].at
      rows       == Distinct([k \in DOMAIN Unlabelling |-> Row(Unlabelling[k])])
      Cells(row) == Listed(Unlabelling, {k \in DOMAIN Unlabelling : Row(Unlabelling[k]) = row})
      Labelled(cells) == [k \in DOMAIN cells |-> <<cells[k]>> \o Related(cells[k], {"LABELED_BY"})]
  IN [r \in DOMAIN rows |-> Distinct(FlattenSeq(Labelled(Cells(rows[r]))))]

\* Mutant: only the parts without relations of their own become groups.
EvidenceGroupsUnrelated ==
  LET alone == InOrder({i \in DOMAIN parts \ Labels : parts[i].to = <<>>}, Len(parts))
  IN [k \in DOMAIN alone |-> <<alone[k]>>]

\* _region_groups, _evidence_groups: whatever labels no other part, with all it
\* is related to.
EvidenceGroups == [k \in DOMAIN Unlabelling |->
                     <<Unlabelling[k]>> \o Related(Unlabelling[k], Relations)]

\* _scene_groups: every keyframe goes with its scene.
SceneGroups ==
  LET keyframes    == {i \in DOMAIN parts : parts[i].kind = "keyframe"}
      heads        == InOrder(DOMAIN parts \ keyframes, Len(parts))
      Keyframes(h) == InOrder({i \in keyframes : h \in Range(Related(i, {"KEYFRAME_OF"}))},
                              Len(parts))
  IN [k \in DOMAIN heads |-> <<heads[k]>> \o Keyframes(heads[k])]

\* ModalityChunker._groups and _chunk_normalized_modality
Groups(policy) ==
  CASE policy.strategy = "table"          -> TableGroups
    [] policy.strategy = "scene"          -> SceneGroups
    [] policy.strategy \in Native \ {"table", "scene"} -> EvidenceGroups
    [] policy.strategy = "fixed"          -> FixedGroups(policy.max)
    [] policy.strategy = "sliding_window" -> SlidingGroups(policy.max, policy.overlap)
    [] OTHER                              -> SpannedGroups(policy)

\* _chunk_text, chunk_text_documents: the spans of the parts, one after the other.
SpansOf(text, policy) ==
  CASE policy.strategy = "table"    -> TableRows(text)
    [] policy.strategy = "evidence" -> FixedSpans(text, policy.max)
    [] OTHER                        -> TextSpans(text, policy)

TextChunks(policy) ==
  FlattenSeq([i \in DOMAIN parts |->
                LET spans == SpansOf(parts[i].text, policy)
                IN [k \in DOMAIN spans |-> [parts |-> <<i>>, span |-> spans[k]]]])

GroupChunks(policy) ==
  LET groups == Groups(policy)
  IN [k \in DOMAIN groups |-> [parts |-> groups[k], span |-> <<0, Size(groups[k])>>]]

-----------------------------------------------------------------------------
(* Actions *)

Init ==
  /\ bound = Unbound
  /\ form \in BOOLEAN
  /\ parts = <<>> /\ chunks = <<>>
  /\ outcome = "reading"

\* AdaptiveChunker.__init__
Bind(family, policy) ==
  /\ bound = Unbound /\ outcome = "reading"
  /\ form => family \in {"ocr", "vision"}
  /\ IF policy.strategy \in Supported(family)
       THEN bound' = [family |-> family, policy |-> Resolved(family, policy)] /\ UNCHANGED outcome
       ELSE outcome' = "rejected" /\ UNCHANGED bound
  /\ UNCHANGED <<form, parts, chunks>>

\* An extractor appends one part.
Read(family, kind, text, at, to) ==
  /\ bound # Unbound /\ outcome = "reading" /\ Len(parts) < MaxParts
  /\ bound.family = family
  /\ parts' = Append(parts, [kind |-> kind, text |-> text, at |-> at, to |-> to])
  /\ UNCHANGED <<bound, form, chunks, outcome>>

Previous == parts[Len(parts)]

ReadText(text) == parts = <<>> /\ Read("text", "text", text, <<1, 1>>, <<>>)

\* On a form, the word to the left on the same line is taken for a label.
WordLabels(line) ==
  IF form /\ parts # <<>> /\ Previous.at[1] = line
    THEN <<To("LABELED_BY", Len(parts))>> ELSE <<>>

\* OcrDocumentExtractor.extract, and the OCR half of a mixed image, whose
\* family is vision.  Words of one line may differ in height, and so in row.
ReadWord(text, line, height) ==
  /\ \A i \in DOMAIN parts : parts[i].kind = "word"
  /\ line \in IF parts = <<>> THEN {1} ELSE {Previous.at[1], Previous.at[1] + 1}
  /\ \E family \in {"ocr", "vision"} :
       Read(family, "word", text, <<line, height>>, WordLabels(line))

\* LayoutDocumentExtractor._part: a part continues the one before it in the same
\* container, and a cell is labelled by the header of its column.
Continued(kind) ==
  IF parts # <<>> /\ Previous.kind = kind THEN <<To("CONTINUES", Len(parts))>> ELSE <<>>

ReadBox(text) == Read("layout", "box", text, <<0, Len(parts)>>, Continued("box"))

ReadCell(text, row, column) ==
  LET cells   == {i \in DOMAIN parts : parts[i].kind = "cell"}
      headers == {i \in cells : parts[i].at = <<1, column>>}
  IN /\ cells # {} => /\ Previous.kind = "cell"
                      /\ \/ Previous.at[1] < row
                         \/ Previous.at[1] = row /\ Previous.at[2] < column
     /\ Read("layout", "cell", text, <<row, column>>,
             Continued("cell") \o IF headers = {} THEN <<>>
                                  ELSE <<To("LABELED_BY", Max(headers))>>)

\* VisionDocumentExtractor
ReadImage(text) == Read("vision", "image", text, <<0, Len(parts)>>, <<>>)

\* MediaDocumentExtractor._transcript_parts, _scene_parts
ReadSegment(text) ==
  /\ \A i \in DOMAIN parts : parts[i].kind = "segment"
  /\ Read("media", "segment", text, <<0, Len(parts)>>, <<>>)
ReadScene(text) ==
  LET Part(kind, to) == [kind |-> kind, text |-> text, at |-> <<0, 0>>, to |-> to]
  IN /\ bound # Unbound /\ bound.family = "media" /\ outcome = "reading"
     /\ Len(parts) + 2 <= MaxParts
     /\ parts' = parts \o <<Part("scene", <<>>),
                           Part("keyframe", <<To("KEYFRAME_OF", Len(parts) + 1)>>)>>
     /\ UNCHANGED <<bound, form, chunks, outcome>>

\* An extractor that meets a blank or malformed part, a limit or an engine that
\* fails raises, and no part of the document reaches the chunker.
Refuse ==
  /\ bound # Unbound /\ outcome = "reading"
  /\ outcome' = "rejected"
  /\ UNCHANGED <<bound, form, parts, chunks>>

\* _bounded: too many chunks are an error, never a shorter answer.
Bounding(made) ==
  IF Len(made) > MaxChunks THEN outcome' = "limit" /\ chunks' = <<>>
                           ELSE outcome' = "chunks" /\ chunks' = made

\* AdaptiveChunker.chunk: the request asks for the bound policy or for none.
Chunk(asked) ==
  /\ bound # Unbound /\ parts # <<>> /\ outcome = "reading"
  /\ bound.family = "vision" => \E i \in DOMAIN parts : parts[i].kind = "image"
  /\ IF asked # Default /\ Resolved(bound.family, asked) # bound.policy
       THEN outcome' = "rejected" /\ UNCHANGED chunks
       ELSE Bounding(IF bound.family = "text" THEN TextChunks(bound.policy)
                                              ELSE GroupChunks(bound.policy))
  /\ UNCHANGED <<bound, form, parts>>

Next ==
  \/ \E f \in Families, p \in Policies : Bind(f, p)
  \/ \E t \in Texts : ReadText(t)
  \/ \E b \in Bodies, row, column \in 1..2 : ReadCell(b, row, column)
  \/ \E b \in Inked :
       \/ \E line \in 1..MaxParts, height \in 1..2 : ReadWord(b, line, height)
       \/ ReadBox(b)
       \/ ReadImage(b)
       \/ ReadSegment(b)
       \/ ReadScene(b)
  \/ Refuse
  \/ \E asked \in Requests : Chunk(asked)

Spec == Init /\ [][Next]_vars

-----------------------------------------------------------------------------
(* Properties *)

Chunked  == outcome = "chunks"
IsText   == bound # Unbound /\ bound.family = "text"
Strategy == bound.policy.strategy
Text     == parts[1].text

\* Whether one chunk holds the text from a to b.
Whole(a, b) == \E k \in DOMAIN chunks : chunks[k].span[1] <= a /\ b <= chunks[k].span[2]

\* The chunks of a text leave out nothing but white space, whatever the strategy
\* and the sizes, and come in the order of the text: every piece that trimming,
\* cutting, packing and merging move from list to list arrives where it was.  No
\* two chunks of a document have the same evidence and text, for they would have
\* the same ChunkId.  (text_strategy_spans, _chunk_text, _chunk_normalized_modality,
\* and the max_chunks limit of _bounded)
ChunksCoverText ==
  Chunked =>
    /\ IsText => \A i \in Ink(Text, 0, Len(Text)) : Whole(i, i + 1)
    /\ \A j, k \in DOMAIN chunks : j < k =>
         /\ chunks[j] # chunks[k]
         /\ IsText => /\ chunks[j].span[1] <= chunks[k].span[1]
                      /\ chunks[j].span[2] <= chunks[k].span[2]

\* No chunk of a text is longer than max_chars, but a row of a table; and no group
\* of several fixed atoms is.  (_merge_short, _pack_units, _fixed_atomic_groups)
ChunksFit ==
  Chunked => \A k \in DOMAIN chunks :
    \/ Length(chunks[k].span) <= bound.policy.max
    \/ IsText /\ Strategy = "table"
    \/ ~IsText /\ (Strategy = "fixed" => Len(chunks[k].parts) = 1)

\* The units a strategy is named for; the others have none.
Units ==
  IF Strategy \notin TextStrategies \ {"fixed", "sliding_window"} THEN <<>>
  ELSE LET regions == Regions(Text, Strategy)
       IN FlattenSeq([i \in DOMAIN regions |->
                        UnitsOf(Text, Strategy, regions[i][1], regions[i][2])])

\* A unit that fits into a chunk is never cut: packing, bounding and merging keep
\* it in one; and a sliding window keeps whatever is as short as the overlap.
\* (_recursive_spans, _pack_units, _merge_short, _sliding_spans)
UnitsStayWhole ==
  Chunked /\ IsText =>
    /\ \A u \in Range(Units) : Length(u) <= bound.policy.max => Whole(u[1], u[2])
    /\ Strategy = "sliding_window" =>
         \A i \in Ink(Text, 0, Len(Text)) :
           LET b == Max(Ink(Text, i, Least(i + bound.policy.overlap, Len(Text))) \cup {i})
           IN Whole(i, b + 1)

\* A word that fits into a chunk is never cut, except by the two windows: a long
\* unit is cut at white space as long as there is any within reach.
\* (the order of the separators in _recursive_spans)
WordsStayWhole ==
  Chunked /\ IsText /\ Strategy \notin {"fixed", "sliding_window", "evidence"} =>
    \A a \in 0..Len(Text), b \in 0..Len(Text) :
      (/\ a < b /\ b - a <= bound.policy.max
       /\ Ink(Text, a, b) = a..(b - 1)
       /\ a = 0 \/ IsSpace(At(Text, a - 1))
       /\ b = Len(Text) \/ IsSpace(At(Text, b))) => Whole(a, b)

\* No separator is cut through that could have been kept whole.
NothingIsCut == UnitsStayWhole /\ WordsStayWhole

Kept(i) == \E k \in DOMAIN chunks : i \in Range(chunks[k].parts)

\* Whether a part says anything.
Says(i) == Ink(parts[i].text, 0, Len(parts[i].text)) # {}

\* Whatever an extractor found that is not blank is evidence of a chunk, if no
\* label is itself labelled: the parts that are only labels arrive with the parts
\* they label.  (_label_ids and _related drop and restore them;
\* _joined_atomic_parts, whose spans pass over blank cells)
EvidenceKept ==
  Chunked /\ (\A i \in Labels : \A r \in Range(parts[i].to) : r.kind # "LABELED_BY") =>
    \A i \in DOMAIN parts : parts[i].kind # "text" /\ Says(i) => Kept(i)

\* "`evidence` | One atomic chunk per provenance-bearing content part"
\* (docs/chunking-strategies.md): that strategy leaves no part without a chunk.
EveryPartKept ==
  Chunked /\ Strategy = "evidence" =>
    \A i \in DOMAIN parts : parts[i].kind # "text" => Kept(i)

=============================================================================
