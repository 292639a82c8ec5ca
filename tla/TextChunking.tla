----------------------------- MODULE TextChunking -----------------------------
(***************************************************************************)
(* text_strategy_spans: where each textual chunking strategy cuts a text.  *)
(*                                                                         *)
(* A text is a sequence of the characters the patterns tell apart: letters *)
(* of a word, a blank, a newline, the end of a sentence, the end of a      *)
(* clause, and a heading mark, which stands for whatever begins a section  *)
(* of the strategy at hand (a heading, an article, a declaration, the name *)
(* of a speaker).  A span <<start, end>> is half-open and counts from 0.   *)
(***************************************************************************)
EXTENDS Integers, SequencesExt, FiniteSetsExt

Char == {"x", "y", " ", "\n", ".", ";", "#"}

\* The character at a position, and the class \s of the patterns.
At(text, i) == text[i + 1]
IsSpace(c)  == c \in {" ", "\n"}

\* The positions from a to b, b excluded, that are not white space.
Ink(text, a, b) == {i \in a..(b - 1) : ~IsSpace(At(text, i))}

\* _trim: the span without the white space around it; none if nothing is left.
Hull(ink)           == IF ink = {} THEN <<>> ELSE << <<Min(ink), Max(ink) + 1>> >>
Trimmed(text, a, b) == Hull(Ink(text, a, b))

Least(a, b) == IF a < b THEN a ELSE b

\* A span, its length, and the span of two neighbours.
Spans             == Nat \X Nat
Pairs             == Spans \X Spans
Length(span)      == span[2] - span[1]
Both(left, right) == <<left[1], right[2]>>

\* What a cursor finds that moves from a to b: piece[i] at i, where it goes on to next[i].
Scan(a, b, piece, next) ==
  LET from[i \in a..b] == IF i = b THEN <<>> ELSE piece[i] \o from[next[i]]
  IN from[a]

Sliced(text, a, b, next) == Scan(a, b, [i \in a..(b - 1) |-> Trimmed(text, i, next[i])], next)

NextCut(a, b, cuts) == [i \in a..(b - 1) |-> Min({c \in cuts \cup {b} : c > i})]

\* Mutant: the text after the last cut is forgotten.
PiecesBeforeLast(text, a, b, cuts) ==
  LET next == NextCut(a, b, cuts)
  IN Scan(a, b, [i \in a..(b - 1) |-> IF next[i] = b THEN <<>> ELSE Trimmed(text, i, next[i])],
          next)

\* What lies between the cuts of a region, trimmed.
Pieces(text, a, b, cuts) == Sliced(text, a, b, NextCut(a, b, cuts))

\* Neighbours become one span as long as the rule, a set of pairs, allows it.
Join(spans, rule) ==
  LET joined[k \in 0..Len(spans)] ==
        IF k = 0 THEN <<>>
        ELSE LET done == joined[k - 1]
             IN IF done # <<>> /\ <<Last(done), spans[k]>> \in rule
                  THEN Append(Front(done), Both(Last(done), spans[k]))
                  ELSE Append(done, spans[k])
  IN joined[Len(spans)]

Same == {p \in Pairs : p[1] = p[2]}

-----------------------------------------------------------------------------
(* Windows *)

\* _fixed_spans
FixedSpans(text, limit) ==
  Sliced(text, 0, Len(text), [i \in 0..(Len(text) - 1) |-> Least(i + limit, Len(text))])

\* The windows a step apart, up to the first that reaches the end of the text.
Windows(text, limit, step) ==
  LET size == Len(text)
      end  == [i \in 0..(size - 1) |-> Least(i + limit, size)]
  IN Scan(0, size, [i \in 0..(size - 1) |-> Trimmed(text, i, end[i])],
          [i \in 0..(size - 1) |-> IF end[i] = size THEN size ELSE i + step])

\* _sliding_spans: a window that trims to the same span as the last is skipped.
SlidingSpans(text, limit, overlap) == Join(Windows(text, limit, limit - overlap), Same)

-----------------------------------------------------------------------------
(* Rows of a text table *)

\* _table_row_spans: a row ends with its line and begins behind the row before,
\* the blank lines between them included.
TableRows(text) ==
  LET size == Len(text)
      ends == {j \in 0..size : j = size \/ At(text, j) = "\n"}
      end  == [i \in 0..size |-> Min({j \in ends : j = size \/ Ink(text, i, j) # {}})]
  IN Scan(0, size + 1,
          [i \in 0..size |-> IF Ink(text, i, end[i]) = {} THEN <<>> ELSE << <<i, end[i]>> >>],
          [i \in 0..size |-> end[i] + 1])

-----------------------------------------------------------------------------
(* Boundaries: a match is known by the position at which it starts *)

\* White space from i to j.
Blank(text, i, j) == \A k \in i..j : IsSpace(At(text, k))

\* \n\s*\n matches at the first newline of white space that has another one.
BlankLines(text, a, b) ==
  LET newline == {i \in a..(b - 1) : At(text, i) = "\n"}
  IN {i \in newline :
        /\ \E j \in newline : i < j /\ Blank(text, i, j)
        /\ ~ \E j \in newline : j < i /\ Blank(text, j, i)}

Newlines(text, a, b) == {i \in a..(b - 1) : At(text, i) = "\n"}

\* (?<=[.!?])\s+
SentenceGaps(text, a, b) ==
  {i \in (a + 1)..(b - 1) : IsSpace(At(text, i)) /\ At(text, i - 1) = "."}

\* \s+
Gaps(text, a, b) ==
  {i \in a..(b - 1) : IsSpace(At(text, i)) /\ (i = a \/ ~IsSpace(At(text, i - 1)))}

FirstOf(sets) == sets[Min({i \in DOMAIN sets : sets[i] # {}})]

\* Mutant: white space inside a line is no boundary.
BoundaryWithoutGaps(text, a, b) ==
  Max(FirstOf(<<BlankLines(text, a, b), Newlines(text, a, b), SentenceGaps(text, a, b),
                {b - 1}>>))

\* The last match of the largest separator there is in a window, or its end.
Boundary(text, a, b) ==
  Max(FirstOf(<<BlankLines(text, a, b), Newlines(text, a, b), SentenceGaps(text, a, b),
                Gaps(text, a, b), {b - 1}>>))

\* _recursive_spans: a rest that is too long is cut at the last boundary within reach.
RecursiveSpans(text, a, b, limit) ==
  LET next == [i \in a..(b - 1) |->
                 LET rest == Trimmed(text, i, b)
                 IN IF rest = <<>> \/ Length(rest[1]) <= limit
                      THEN b
                      ELSE Boundary(text, rest[1][1], rest[1][1] + limit + 1)]
  IN Sliced(text, a, b, next)

\* _bounded_units
Bounded(text, units, limit) ==
  FlattenSeq([i \in 1..Len(units) |-> RecursiveSpans(text, units[i][1], units[i][2], limit)])

-----------------------------------------------------------------------------
(* Units *)

Paragraphs(text, a, b) == Pieces(text, a, b, BlankLines(text, a, b))

\* A sentence ends behind a run of marks that white space or the end follows.
Sentences(text, a, b) ==
  Pieces(text, a, b,
         {i \in (a + 1)..b : At(text, i - 1) = "." /\ (i = b \/ IsSpace(At(text, i)))})

Clauses(text, sentences) ==
  FlattenSeq([k \in DOMAIN sentences |->
                Pieces(text, sentences[k][1], sentences[k][2],
                       {i \in (sentences[k][1] + 1)..(sentences[k][2] - 1) :
                          At(text, i - 1) = ";" /\ IsSpace(At(text, i))})])

Propositions(text, a, b) == Clauses(text, Sentences(text, a, b))

\* A section begins at each heading; what comes before the first is one too.
Sections(text) ==
  Pieces(text, 0, Len(text),
         {i \in 0..(Len(text) - 1) : At(text, i) = "#" /\ (i = 0 \/ At(text, i - 1) = "\n")})

-----------------------------------------------------------------------------
(* Packing *)

\* _pack_units, of units that are bounded already
Pack(spans, limit) == Join(spans, {p \in Pairs : Length(Both(p[1], p[2])) <= limit})

\* Mutant: the bound is on the shorter of the two.
MergeShortUnbounded(spans, minimum, limit) ==
  Join(spans, {p \in Pairs : /\ Length(p[2]) <= limit
                             /\ Length(p[2]) < minimum \/ Length(p[1]) < minimum})

\* _merge_short
MergeShort(spans, minimum, limit) ==
  Join(spans, {p \in Pairs : /\ Length(Both(p[1], p[2])) <= limit
                             /\ Length(p[2]) < minimum \/ Length(p[1]) < minimum})

\* _tokens: the words of a span.
Tokens(text, span) ==
  LET inWord == {i \in span[1]..(span[2] - 1) : At(text, i) \in {"x", "y"}}
  IN {SubSeq(text, i + 1, j) : i \in {n \in inWord : n - 1 \notin inWord},
                               j \in {n + 1 : n \in {m \in inWord : m + 1 \notin inWord}}}
       \ {<<>>}

\* _jaccard(left, right) >= threshold, the threshold in percent.
Similar(left, right, threshold) ==
  left \cup right # {} =>
    100 * Cardinality(left \cap right) >= threshold * Cardinality(left \cup right)

\* _semantic_spans, of bounded sentences: a group has the words of those it took.
SemanticSpans(text, sentences, limit, threshold) ==
  LET Taken(group) == {s \in Range(sentences) : group[1] <= s[1] /\ s[2] <= group[2]}
      Words(group) == UNION {Tokens(text, s) : s \in Taken(group)}
  IN Join(sentences, {p \in Pairs : /\ Length(Both(p[1], p[2])) <= limit
                                    /\ Similar(Words(p[1]), Words(p[2]), threshold)})

-----------------------------------------------------------------------------
(* Strategies *)

TextStrategies ==
  {"fixed", "sliding_window", "recursive", "sentence", "paragraph", "section", "hierarchical",
   "semantic", "proposition", "book", "legal", "medical", "code", "conversation"}

\* These work on each section by itself ...
Sectioned == {"section", "hierarchical", "book", "legal", "medical", "code", "conversation"}

Regions(text, strategy) ==
  IF strategy \in Sectioned THEN Sections(text) ELSE << <<0, Len(text)>> >>

\* ... on these units of it ...
UnitsOf(text, strategy, a, b) ==
  CASE strategy \in {"recursive", "paragraph", "hierarchical", "book", "medical"}
                                           -> Paragraphs(text, a, b)
    [] strategy \in {"sentence", "semantic"} -> Sentences(text, a, b)
    [] strategy \in {"proposition", "legal"} -> Propositions(text, a, b)
    [] OTHER                               -> << <<a, b>> >>

\* ... which some of them put together.
Grouped(text, policy, spans) ==
  CASE policy.strategy \in {"sentence", "paragraph", "section", "book", "medical"}
                                    -> Pack(spans, policy.max)
    [] policy.strategy = "semantic" -> SemanticSpans(text, spans, policy.max, policy.threshold)
    [] OTHER                        -> spans

RegionSpans(text, policy, a, b) ==
  CASE policy.strategy = "fixed"          -> FixedSpans(text, policy.max)
    [] policy.strategy = "sliding_window" -> SlidingSpans(text, policy.max, policy.overlap)
    [] OTHER -> Grouped(text, policy,
                        Bounded(text, UnitsOf(text, policy.strategy, a, b), policy.max))

\* Code and conversations keep their short spans.
Minimum(policy) == IF policy.strategy \in {"code", "conversation"} THEN 0 ELSE policy.min

OverRegions(text, policy, regions) ==
  FlattenSeq([i \in DOMAIN regions |->
                MergeShort(RegionSpans(text, policy, regions[i][1], regions[i][2]),
                           Minimum(policy), policy.max)])

\* text_strategy_spans
TextSpans(text, policy) == OverRegions(text, policy, Regions(text, policy.strategy))

=============================================================================
