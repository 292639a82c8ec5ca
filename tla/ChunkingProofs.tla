--------------------------- MODULE ChunkingProofs ---------------------------
(***************************************************************************)
(* What chunks promise, for any documents, sizes and requests: they leave  *)
(* out nothing but white space, they come in order and none comes twice,   *)
(* they keep to max_chars, no unit and no word that fits is cut, and every *)
(* part of a document that is not blank is in a group.                     *)
(*                                                                         *)
(* The strategies are built from few helpers, and so is the argument.      *)
(*                                                                         *)
(* A scan of a cursor (Scan) finds sorted spans if its pieces are sorted,  *)
(* and holds a text if the cursor does not pass it without a piece that    *)
(* holds it (ScanSorted, ScanHolds).  A join of neighbours (Join) keeps    *)
(* what its spans hold, their order and a limit that its rule keeps; the   *)
(* invariant of its loop is JoinInv.                                       *)
(*                                                                         *)
(* Each textual strategy is a scan, or joins of scans within scans.  Neat  *)
(* lists, different spans in order and in a set of spans, go in and come   *)
(* out of each of its stages, from UnitsOf to MergeShort, and so does what *)
(* the strategy may not cut (Entire): TextSpansFacts.                      *)
(*                                                                         *)
(* The groups of atoms differ by a part of their own: the first one        *)
(* (Headed), the last one (SlidingDiffers), or the span of neighbours they *)
(* are (Neighbours).  A part is in a group because it begins one, because  *)
(* a part that is no label is labelled by it (LabelOf), or because it has  *)
(* ink, which the spans of the text of all parts hold (PartInked).         *)
(*                                                                         *)
(* The invariant of the chunker (Inv) says what the extractors leave it:   *)
(* parts that name parts before them, one text or none, and keyframes      *)
(* behind their scenes; and that the chunks are made of those parts.       *)
(***************************************************************************)
EXTENDS Chunking, NaturalsInduction, WellFoundedInduction, SequenceTheorems, TLAPS

-----------------------------------------------------------------------------
(* Induction and recursion *)

\* Every non-empty set of natural numbers has a least member.
LEMMA LeastExists ==
  ASSUME NEW T \in SUBSET Nat, T # {}
  PROVE  \E n \in T : \A m \in T : n <= m
<1> DEFINE R == OpToRel(<, Nat)
<1>1. IsWellFoundedOn(R, Nat)
  BY NatLessThanWellFounded
<1>2. \A a, b \in Nat : a < b => <<a, b>> \in R
  BY DEF OpToRel
<1> HIDE DEF R
<1>3. PICK n \in T : \A m \in T : <<m, n>> \notin R
  BY <1>1, WFMin
<1>4. \A m \in T : ~(m < n) /\ m \in Nat /\ n \in Nat
  BY <1>2, <1>3
<1>5. QED
  BY <1>4

\* Induction from a number up to another, and down to it, of a set of them.
Upward(S, a, b)   == a \in S /\ \A n \in a..(b - 1) : n \in S => n + 1 \in S
Downward(S, a, b) == \A i \in a..b : (\A j \in (i + 1)..b : j \in S) => i \in S

\* What holds of a, and of each number after one it holds of, holds from a to b.
LEMMA Upwards ==
  ASSUME NEW a \in Int, NEW b \in Int, NEW S, Upward(S, a, b)
  PROVE  a..b \subseteq S
<1>0. a \in S /\ \A n \in a..(b - 1) : n \in S => n + 1 \in S
  BY DEF Upward
<1> SUFFICES ASSUME NEW c \in a..b, c \notin S PROVE FALSE
  OBVIOUS
<1> DEFINE T == {n \in Nat : n + a \in a..b /\ n + a \notin S}
<1>1. PICK n \in T : \A m \in T : n <= m
  <2>1. T \in SUBSET Nat /\ c - a \in T
    OBVIOUS
  <2> HIDE DEF T
  <2>2. QED
    BY <2>1, LeastExists
<1>2. n # 0 /\ n \in Nat /\ n + a \in a..b /\ n + a \notin S
  BY <1>0, <1>1
<1>3. n - 1 \in Nat /\ ~(n <= n - 1) /\ (n - 1) + a \in a..(b - 1) /\ ((n - 1) + a) + 1 = n + a
  BY <1>2
<1>4. (n - 1) + a \in S
  BY <1>1, <1>3
<1>5. QED
  BY <1>0, <1>2, <1>3, <1>4

\* What holds of each number if it holds of all after it, holds from a to b.
LEMMA Downwards ==
  ASSUME NEW a \in Int, NEW b \in Int, NEW S, Downward(S, a, b)
  PROVE  a..b \subseteq S
<1>0. \A i \in a..b : (\A j \in (i + 1)..b : j \in S) => i \in S
  BY DEF Downward
<1> SUFFICES ASSUME NEW c \in a..b, c \notin S PROVE FALSE
  OBVIOUS
<1> DEFINE T == {n \in Nat : b - n \in a..b /\ b - n \notin S}
<1>1. PICK n \in T : \A m \in T : n <= m
  <2>1. T \in SUBSET Nat /\ b - c \in T
    OBVIOUS
  <2> HIDE DEF T
  <2>2. QED
    BY <2>1, LeastExists
<1>2. n \in Nat /\ b - n \in a..b /\ b - n \notin S
  BY <1>1
<1>3. ASSUME NEW j \in (b - n + 1)..b PROVE j \in S
  <2>1. b - j \in Nat /\ b - (b - j) = j /\ ~(n <= b - j) /\ j \in a..b
    BY <1>2
  <2>2. QED
    BY <1>1, <2>1
<1>4. QED
  BY <1>0, <1>2, <1>3

\* Of some numbers of an interval there are a least and a greatest.
LEMMA Extremes ==
  ASSUME NEW a \in Int, NEW b \in Int, NEW S \in SUBSET (a..b), S # {}
  PROVE  /\ Min(S) \in S /\ \A x \in S : Min(S) <= x
         /\ Max(S) \in S /\ \A x \in S : Max(S) >= x
<1>1. \E x \in S : \A y \in S : x <= y
  <2> DEFINE T == {x - a : x \in S}
  <2>1. T \in SUBSET Nat /\ T # {}
    <3>1. \A x \in S : x - a \in Nat
      OBVIOUS
    <3>2. QED
      BY <3>1
  <2>2. PICK n \in T : \A m \in T : n <= m
    <3> HIDE DEF T
    <3>1. QED
      BY <2>1, LeastExists
  <2>3. n + a \in S
    OBVIOUS
  <2>4. \A y \in S : n <= y - a /\ y \in Int /\ n \in Int
    BY <2>1, <2>2
  <2>5. QED
    BY <2>3, <2>4
<1>2. \E x \in S : \A y \in S : x >= y
  <2> DEFINE T == {b - x : x \in S}
  <2>1. T \in SUBSET Nat /\ T # {}
    <3>1. \A x \in S : b - x \in Nat
      OBVIOUS
    <3>2. QED
      BY <3>1
  <2>2. PICK n \in T : \A m \in T : n <= m
    <3> HIDE DEF T
    <3>1. QED
      BY <2>1, LeastExists
  <2>3. b - n \in S
    OBVIOUS
  <2>4. \A y \in S : n <= b - y /\ y \in Int /\ n \in Int
    BY <2>1, <2>2
  <2>5. QED
    BY <2>3, <2>4
<1>3. QED
  BY <1>1, <1>2 DEF Min, Max

\* f has the values that g computes step by step from a at m.
Computed(f, a, g, m, n) == /\ f[m] = a
                           /\ \A i \in (m + 1)..n : f[i] = g[<<f[i - 1], i>>]

Computable(a, g, m, n, S) == \E f \in [m..n -> S] : Computed(f, a, g, m, n)

\* What is computed step by step exists.
LEMMA Recursion ==
  ASSUME NEW m \in Int, NEW n \in Int, m <= n, NEW S, NEW a \in S, NEW g \in [S \X (m..n) -> S]
  PROVE  Computable(a, g, m, n, S)
<1> DEFINE Steps(f, k) == Computed(f, a, g, m, k)
           N == {k \in m..n : \E f \in [m..k -> S] : Steps(f, k)}
<1>1. m \in N
  <2>1. [i \in m..m |-> a] \in [m..m -> S] /\ Steps([i \in m..m |-> a], m)
    BY DEF Computed
  <2>2. QED
    BY <2>1
<1>2. ASSUME NEW k \in m..(n - 1), k \in N PROVE k + 1 \in N
  <2>1. PICK f \in [m..k -> S] : Steps(f, k)
    BY <1>2
  <2> DEFINE h == [i \in m..(k + 1) |-> IF i = k + 1 THEN g[<<f[k], k + 1>>] ELSE f[i]]
  <2>2. \A i \in m..(k + 1) : i # k + 1 => i \in m..k
    OBVIOUS
  <2>3. k \in m..k /\ f[k] \in S /\ k + 1 \in m..n
    OBVIOUS
  <2>4. h \in [m..(k + 1) -> S]
    BY <2>2, <2>3
  <2>5. h[m] = a
    BY <2>1 DEF Computed
  <2>6. ASSUME NEW i \in (m + 1)..(k + 1) PROVE h[i] = g[<<h[i - 1], i>>]
    <3>1. i - 1 \in m..(k + 1) /\ i - 1 # k + 1 /\ i \in m..(k + 1)
      OBVIOUS
    <3>2. h[i - 1] = f[i - 1]
      BY <3>1
    <3>3. CASE i = k + 1
      <4>1. i - 1 = k
        BY <3>3
      <4>2. QED
        BY <3>1, <3>2, <3>3, <4>1
    <3>4. CASE i # k + 1
      <4>1. i \in (m + 1)..k
        BY <3>4
      <4>2. QED
        BY <2>1, <3>1, <3>2, <3>4, <4>1 DEF Computed
    <3>5. QED
      BY <3>3, <3>4
  <2>7. Steps(h, k + 1)
    BY <2>5, <2>6 DEF Computed
  <2> HIDE DEF h
  <2>8. QED
    BY <2>3, <2>4, <2>7
<1> HIDE DEF N
<1>3. m..n \subseteq N
  <2>1. Upward(N, m, n)
    BY <1>1, <1>2 DEF Upward
  <2>2. QED
    BY <2>1, Upwards
<1>4. n \in N
  BY <1>3
<1>5. QED
  BY <1>4 DEF N, Computable

-----------------------------------------------------------------------------
(* Lists *)

\* Each element of a list and each later one are in the relation R.
Sorted(list, R) == \A j, k \in 1..Len(list) : j < k => <<list[j], list[k]>> \in R

\* The length, the positions and the elements of a list.
LEMMA Elements ==
  ASSUME NEW X, NEW list \in Seq(X)
  PROVE  /\ Len(list) \in Nat /\ DOMAIN list = 1..Len(list)
         /\ Range(list) \subseteq X
         /\ \A i \in 1..Len(list) : list[i] \in X /\ list[i] \in Range(list)
         /\ \A s \in Range(list) : \E i \in 1..Len(list) : s = list[i]
<1>1. Len(list) \in Nat /\ DOMAIN list = 1..Len(list)
  BY LenProperties
<1>2. \A i \in 1..Len(list) : list[i] \in X
  BY ElementOfSeq
<1>3. QED
  BY <1>1, <1>2 DEF Range

\* A function of 1..n is a list of length n.
LEMMA Functional ==
  ASSUME NEW X, NEW n \in Nat, NEW f \in [1..n -> X]
  PROVE  f \in Seq(X) /\ Len(f) = n
<1>1. f \in Seq(X)
  BY SeqDef
<1>2. Len(f) \in Nat /\ DOMAIN f = 1..Len(f)
  BY <1>1, LenProperties
<1>3. 1..Len(f) = 1..n
  BY <1>2
<1>4. Len(f) = n
  BY <1>2, <1>3
<1>5. QED
  BY <1>1, <1>4

\* A list of one element.
LEMMA Singleton ==
  ASSUME NEW X, NEW x \in X
  PROVE  <<x>> \in Seq(X) /\ Len(<<x>>) = 1 /\ <<x>>[1] = x /\ Range(<<x>>) = {x}
BY DEF Range

\* The empty list.
LEMMA NoElements ==
  ASSUME NEW X
  PROVE  <<>> \in Seq(X) /\ Len(<<>>) = 0 /\ Range(<<>>) = {}
BY DEF Range

\* A list has elements if and only if its length is not 0.
LEMMA NonEmpty ==
  ASSUME NEW X, NEW list \in Seq(X)
  PROVE  list # <<>> <=> Len(list) \in Nat \ {0}
BY EmptySeq

\* The provers reason about the elements of s \o t, and not well about it as a whole.
Then(s, t) == s \o t

\* The length of two lists, one behind the other.
LEMMA Joint ==
  ASSUME NEW X, NEW s \in Seq(X), NEW t \in Seq(X)
  PROVE  Then(s, t) \in Seq(X) /\ Len(Then(s, t)) = Len(s) + Len(t)
BY ConcatProperties DEF Then

\* The elements of two lists, one behind the other, by position.
LEMMA JointElements ==
  ASSUME NEW X, NEW s \in Seq(X), NEW t \in Seq(X)
  PROVE  /\ \A i \in 1..Len(s) : Then(s, t)[i] = s[i]
         /\ \A i \in (Len(s) + 1)..(Len(s) + Len(t)) : Then(s, t)[i] = t[i - Len(s)]
<1>1. Len(s) \in Nat /\ Len(t) \in Nat
  BY Elements
<1>2. \A i \in 1 .. Len(s) + Len(t) : Then(s, t)[i] = IF i <= Len(s) THEN s[i] ELSE t[i - Len(s)]
  BY ConcatProperties DEF Then
<1>3. QED
  BY <1>1, <1>2

\* The elements of two lists, one behind the other, as a set.
LEMMA JointRange ==
  ASSUME NEW X, NEW s \in Seq(X), NEW t \in Seq(X)
  PROVE  Range(Then(s, t)) = Range(s) \cup Range(t)
<1>1. Len(s) \in Nat /\ Len(t) \in Nat
  BY Elements
<1>2. Then(s, t) \in Seq(X) /\ Len(Then(s, t)) = Len(s) + Len(t)
  BY Joint
<1>3. \A i \in 1..Len(s) : Then(s, t)[i] = s[i]
  BY JointElements
<1>4. \A i \in (Len(s) + 1)..(Len(s) + Len(t)) : Then(s, t)[i] = t[i - Len(s)]
  BY JointElements
<1>5. ASSUME NEW x PROVE x \in Range(Then(s, t)) <=> x \in Range(s) \/ x \in Range(t)
  <2>1. ASSUME x \in Range(Then(s, t)) PROVE x \in Range(s) \/ x \in Range(t)
    <3>1. PICK i \in 1..(Len(s) + Len(t)) : x = Then(s, t)[i]
      BY <1>2, <2>1, Elements
    <3>2. CASE i <= Len(s)
      <4>1. i \in 1..Len(s) /\ x = s[i]
        BY <1>1, <1>3, <3>1, <3>2
      <4>2. QED
        BY <4>1, Elements
    <3>3. CASE ~(i <= Len(s))
      <4>1. i - Len(s) \in 1..Len(t) /\ x = t[i - Len(s)]
        BY <1>1, <1>4, <3>1, <3>3
      <4>2. QED
        BY <4>1, Elements
    <3>4. QED
      BY <3>2, <3>3
  <2>2. ASSUME x \in Range(s) PROVE x \in Range(Then(s, t))
    <3>1. PICK i \in 1..Len(s) : x = s[i]
      BY <2>2, Elements
    <3>2. i \in 1..Len(Then(s, t)) /\ Then(s, t)[i] = x
      BY <1>1, <1>2, <1>3, <3>1
    <3>3. QED
      BY <1>2, <3>2, Elements
  <2>3. ASSUME x \in Range(t) PROVE x \in Range(Then(s, t))
    <3>1. PICK i \in 1..Len(t) : x = t[i]
      BY <2>3, Elements
    <3>2. /\ Len(s) + i \in (Len(s) + 1)..(Len(s) + Len(t))
          /\ Len(s) + i \in 1..Len(Then(s, t)) /\ (Len(s) + i) - Len(s) = i
      BY <1>1, <1>2
    <3>3. Then(s, t)[Len(s) + i] = x
      BY <1>4, <3>1, <3>2
    <3>4. QED
      BY <1>2, <3>2, <3>3, Elements
  <2>4. QED
    BY <2>1, <2>2, <2>3
<1>6. QED
  BY <1>5

\* Sorted lists stay sorted behind each other, if each element of the one is in the
\* relation to each of the other.
LEMMA SortedConcatenation ==
  ASSUME NEW X, NEW s \in Seq(X), NEW t \in Seq(X), NEW R, Sorted(s, R), Sorted(t, R),
         \A x \in Range(s), y \in Range(t) : <<x, y>> \in R
  PROVE  Sorted(Then(s, t), R)
<1>1. /\ Len(s) \in Nat /\ Len(t) \in Nat
      /\ \A i \in 1..Len(s) : s[i] \in Range(s)
      /\ \A i \in 1..Len(t) : t[i] \in Range(t)
  BY Elements
<1>2. /\ Len(Then(s, t)) = Len(s) + Len(t)
      /\ \A i \in 1..Len(s) : Then(s, t)[i] = s[i]
      /\ \A i \in (Len(s) + 1)..(Len(s) + Len(t)) : Then(s, t)[i] = t[i - Len(s)]
  BY Joint, JointElements
<1>3. ASSUME NEW j \in 1..Len(Then(s, t)), NEW k \in 1..Len(Then(s, t)), j < k
      PROVE  <<Then(s, t)[j], Then(s, t)[k]>> \in R
  <2> DEFINE n == Len(s)
  <2>1. CASE k <= n
    <3>1. j \in 1..Len(s) /\ k \in 1..Len(s)
      BY <1>1, <1>2, <1>3, <2>1
    <3>2. QED
      BY <1>2, <1>3, <3>1 DEF Sorted
  <2>2. CASE n < j
    <3>1. j - n \in 1..Len(t) /\ k - n \in 1..Len(t) /\ j - n < k - n
      BY <1>1, <1>2, <1>3, <2>2
    <3>2. j \in (n + 1)..(n + Len(t)) /\ k \in (n + 1)..(n + Len(t))
      BY <1>1, <1>2, <1>3, <2>2
    <3>3. Then(s, t)[j] = t[j - n] /\ Then(s, t)[k] = t[k - n]
      BY <1>2, <3>1, <3>2
    <3>4. QED
      BY <3>1, <3>3 DEF Sorted
  <2>3. CASE j <= n /\ n < k
    <3>1. j \in 1..Len(s) /\ k - n \in 1..Len(t) /\ k \in (n + 1)..(n + Len(t))
      BY <1>1, <1>2, <1>3, <2>3
    <3>2. Then(s, t)[j] = s[j] /\ Then(s, t)[k] = t[k - n]
      BY <1>2, <3>1
    <3>3. QED
      BY <1>1, <3>1, <3>2
  <2>4. n \in Nat /\ j \in Int /\ k \in Int
    BY <1>1, <1>2
  <2> HIDE DEF n
  <2>5. k <= n \/ n < j \/ (j <= n /\ n < k)
    BY <2>4
  <2>6. QED
    BY <2>1, <2>2, <2>3, <2>5
<1> DEFINE u == Then(s, t)
<1>4. \A j, k \in 1..Len(u) : j < k => <<u[j], u[k]>> \in R
  BY <1>3
<1> HIDE DEF u
<1>5. Sorted(u, R)
  BY <1>4 DEF Sorted
<1>6. QED
  BY <1>5 DEF u

\* A list of at most one element is sorted.
LEMMA SortedShort ==
  ASSUME NEW list, NEW R, Len(list) \in {0, 1}
  PROVE  Sorted(list, R)
BY DEF Sorted

-----------------------------------------------------------------------------
(* Scans *)

\* A scan is the value at a of a function of the cursor.
Scans(f, a, b, piece, next) ==
  f[b] = <<>> /\ \A i \in a..(b - 1) : f[i] = Then(piece[i], f[next[i]])

Scannable(X, a, b, piece, next) ==
  /\ a \in Int /\ b \in Int /\ a <= b
  /\ \A i \in a..(b - 1) : next[i] \in (i + 1)..b /\ piece[i] \in Seq(X)

Scanned(f, X, a, b, piece, next) ==
  /\ Scannable(X, a, b, piece, next) /\ f \in [a..b -> Seq(X)]
  /\ Scans(f, a, b, piece, next) /\ Scan(a, b, piece, next) = f[a]

HasScan(X, a, b, piece, next) == \E f : Scanned(f, X, a, b, piece, next)

\* One step of a scan.
LEMMA ScanStep ==
  ASSUME NEW X, NEW a, NEW b, NEW next, NEW piece, NEW f, Scanned(f, X, a, b, piece, next),
         NEW i \in a..(b - 1)
  PROVE  /\ next[i] \in (i + 1)..b
         /\ piece[i] \in Seq(X) /\ f[next[i]] \in Seq(X)
         /\ f[i] = Then(piece[i], f[next[i]])
<1>0. a \in Int /\ b \in Int
  BY DEF Scanned, Scannable
<1>1. next[i] \in (i + 1)..b /\ piece[i] \in Seq(X)
  BY DEF Scanned, Scannable
<1>2. next[i] \in a..b
  BY <1>0, <1>1
<1>3. f[next[i]] \in Seq(X)
  BY <1>2 DEF Scanned
<1>4. f[i] = Then(piece[i], f[next[i]])
  BY DEF Scanned, Scans
<1>5. QED
  BY <1>1, <1>3, <1>4

\* The elements of a scan are those of the piece at the cursor and of the rest.
LEMMA ScanRange ==
  ASSUME NEW X, NEW a, NEW b, NEW next, NEW piece, NEW f, Scanned(f, X, a, b, piece, next),
         NEW i \in a..(b - 1)
  PROVE  Range(f[i]) = Range(piece[i]) \cup Range(f[next[i]])
<1>1. piece[i] \in Seq(X) /\ f[next[i]] \in Seq(X) /\ f[i] = Then(piece[i], f[next[i]])
  BY ScanStep
<1>2. QED
  BY <1>1, JointRange

\* A scan that has reached the end finds nothing.
LEMMA ScanEnd ==
  ASSUME NEW X, NEW a, NEW b, NEW next, NEW piece, NEW f, Scanned(f, X, a, b, piece, next)
  PROVE  f[b] = <<>> /\ Range(f[b]) = {} /\ Len(f[b]) = 0
BY NoElements DEF Scanned, Scans

\* Where a scan begins and ends, and that it finds a list.
LEMMA ScanBounds ==
  ASSUME NEW X, NEW a, NEW b, NEW next, NEW piece, NEW f, Scanned(f, X, a, b, piece, next)
  PROVE  /\ a \in Int /\ b \in Int /\ a <= b
         /\ Scan(a, b, piece, next) = f[a] /\ f[a] \in Seq(X)
BY DEF Scanned, Scannable

\* A cursor that only goes forward has a scan: every cursor of the chunkers ends.
LEMMA Scanning ==
  ASSUME NEW X, NEW a, NEW b, NEW next, NEW piece, Scannable(X, a, b, piece, next)
  PROVE  HasScan(X, a, b, piece, next)
<1>0. /\ a \in Int /\ b \in Int /\ a <= b
      /\ \A i \in a..(b - 1) : next[i] \in (i + 1)..b /\ piece[i] \in Seq(X)
  BY DEF Scannable
<1> DEFINE N == {c \in a..b : \E f \in [c..b -> Seq(X)] : Scans(f, c, b, piece, next)}
<1>1. ASSUME NEW c \in a..b, \A j \in (c + 1)..b : j \in N PROVE c \in N
  <2>1. CASE c = b
    <3> DEFINE f == [i \in b..b |-> <<>>]
    <3>1. f \in [c..b -> Seq(X)]
      BY <2>1, NoElements
    <3>2. f[b] = <<>> /\ c..(b - 1) = {}
      BY <2>1
    <3> HIDE DEF f
    <3>3. Scans(f, c, b, piece, next)
      BY <3>2 DEF Scans
    <3>4. QED
      BY <3>1, <3>3
  <2>2. CASE c # b
    <3>1. c + 1 \in N /\ c \in a..(b - 1)
      BY <1>0, <1>1, <2>2
    <3>2. PICK f \in [(c + 1)..b -> Seq(X)] : Scans(f, c + 1, b, piece, next)
      BY <3>1
    <3> DEFINE x == Then(piece[c], f[next[c]])
               g == [i \in c..b |-> IF i = c THEN x ELSE f[i]]
    <3>3. next[c] \in (c + 1)..b /\ piece[c] \in Seq(X) /\ f[next[c]] \in Seq(X)
      BY <1>0, <3>1, <3>2
    <3>4. x \in Seq(X)
      BY <3>3, Joint
    <3> HIDE DEF x
    <3>5. \A i \in c..b : i # c => i \in (c + 1)..b /\ f[i] \in Seq(X)
      OBVIOUS
    <3>6. g \in [c..b -> Seq(X)]
      BY <3>4, <3>5
    <3>7. ASSUME NEW i \in (c + 1)..b PROVE g[i] = f[i]
      <4>1. i \in c..b /\ i # c
        OBVIOUS
      <4>2. QED
        BY <4>1
    <3>8. g[c] = Then(piece[c], g[next[c]])
      <4>1. g[c] = x
        BY <3>1
      <4>2. g[next[c]] = f[next[c]]
        BY <3>3, <3>7
      <4>3. QED
        BY <4>1, <4>2 DEF x
    <3>9. ASSUME NEW i \in (c + 1)..(b - 1) PROVE g[i] = Then(piece[i], g[next[i]])
      <4>1. i \in (c + 1)..b /\ next[i] \in (c + 1)..b
        BY <1>0, <3>1
      <4>2. QED
        BY <3>2, <3>7, <4>1 DEF Scans
    <3>10. g[b] = <<>>
      BY <1>0, <2>2, <3>2, <3>7 DEF Scans
    <3> HIDE DEF g
    <3>11. Scans(g, c, b, piece, next)
      <4>1. ASSUME NEW i \in c..(b - 1) PROVE g[i] = Then(piece[i], g[next[i]])
        <5>1. i = c \/ i \in (c + 1)..(b - 1)
          OBVIOUS
        <5>2. QED
          BY <3>8, <3>9, <5>1
      <4>2. QED
        BY <3>10, <4>1 DEF Scans
    <3>12. QED
      BY <3>6, <3>11
  <2>3. QED
    BY <2>1, <2>2
<1> HIDE DEF N
<1>2. a..b \subseteq N
  <2>1. Downward(N, a, b)
    BY <1>1 DEF Downward
  <2>2. QED
    BY <1>0, <2>1, Downwards
<1>3. a \in N
  BY <1>0, <1>2
<1>4. PICK f \in [a..b -> Seq(X)] : Scans(f, a, b, piece, next)
  BY <1>3 DEF N
<1> DEFINE IsScan(h) == h = [i \in a..b |-> IF i = b THEN <<>> ELSE Then(piece[i], h[next[i]])]
<1>5. IsScan(f)
  <2>1. ASSUME NEW i \in a..b PROVE f[i] = IF i = b THEN <<>> ELSE Then(piece[i], f[next[i]])
    <3>1. i = b \/ (i \in a..(b - 1) /\ i # b)
      BY <1>0
    <3>2. QED
      BY <1>4, <3>1 DEF Scans
  <2>2. f = [i \in a..b |-> f[i]]
    BY <1>4
  <2>3. QED
    BY <2>1, <2>2
<1> DEFINE from == CHOOSE h : IsScan(h)
<1>6. IsScan(from)
  BY <1>5, Zenon
<1>7. Scan(a, b, piece, next) = from[a]
  BY DEF Scan, Then
<1> HIDE DEF from
<1>8. \A i \in a..b : from[i] = IF i = b THEN <<>> ELSE Then(piece[i], from[next[i]])
  BY <1>6
<1> DEFINE E == {i \in a..b : from[i] = f[i]}
<1>9. ASSUME NEW i \in a..b, \A j \in (i + 1)..b : j \in E PROVE i \in E
  <2>1. CASE i = b
    BY <1>4, <1>8, <2>1 DEF Scans
  <2>2. CASE i # b
    <3>1. i \in a..(b - 1) /\ next[i] \in (i + 1)..b
      BY <1>0, <2>2
    <3>2. from[next[i]] = f[next[i]]
      BY <1>9, <3>1
    <3>3. QED
      BY <1>4, <1>8, <2>2, <3>1, <3>2 DEF Scans
  <2>3. QED
    BY <2>1, <2>2
<1> HIDE DEF E
<1>10. a..b \subseteq E
  <2>1. Downward(E, a, b)
    BY <1>9 DEF Downward
  <2>2. QED
    BY <1>0, <2>1, Downwards
<1>11. from[a] = f[a]
  BY <1>0, <1>10 DEF E
<1>12. Scanned(f, X, a, b, piece, next)
  BY <1>4, <1>7, <1>11 DEF Scanned
<1>13. QED
  BY <1>12 DEF HasScan

-----------------------------------------------------------------------------
(* What a scan finds *)

\* A span of a list holds the text from x to y.
Holds(list, x, y) == \E s \in Range(list) : s[1] <= x /\ y <= s[2]

\* What is found from i on is in the pieces from i on.
FoundIn(list, piece, i, b) == \A s \in Range(list) : \E j \in i..(b - 1) : s \in Range(piece[j])

\* What is found from the cursor on is in its piece or found behind it.
LEMMA FoundStep ==
  ASSUME NEW X, NEW a, NEW b, NEW next, NEW piece, NEW f, Scanned(f, X, a, b, piece, next),
         NEW i \in a..(b - 1), FoundIn(f[next[i]], piece, next[i], b)
  PROVE  FoundIn(f[i], piece, i, b)
<1>1. a \in Int /\ b \in Int
  BY ScanBounds
<1>2. /\ next[i] \in (i + 1)..b
      /\ Range(f[i]) = Range(piece[i]) \cup Range(f[next[i]])
  BY ScanStep, ScanRange
<1>3. ASSUME NEW s \in Range(f[i]) PROVE \E j \in i..(b - 1) : s \in Range(piece[j])
  <2>1. CASE s \in Range(piece[i])
    BY <1>1, <2>1
  <2>2. CASE s \in Range(f[next[i]])
    <3>1. PICK j \in next[i]..(b - 1) : s \in Range(piece[j])
      BY <2>2 DEF FoundIn
    <3>2. j \in i..(b - 1)
      BY <1>1, <1>2
    <3>3. QED
      BY <3>1, <3>2
  <2>3. QED
    BY <1>2, <1>3, <2>1, <2>2
<1>4. QED
  BY <1>3 DEF FoundIn

\* What a scan finds is in the pieces.
LEMMA ScanFinds ==
  ASSUME NEW X, NEW a, NEW b, NEW next, NEW piece, Scannable(X, a, b, piece, next)
  PROVE  /\ Scan(a, b, piece, next) \in Seq(X)
         /\ FoundIn(Scan(a, b, piece, next), piece, a, b)
<1>1. PICK f : Scanned(f, X, a, b, piece, next)
  BY Scanning DEF HasScan
<1>2. a \in Int /\ b \in Int /\ a <= b
  BY <1>1, ScanBounds
<1> DEFINE N == {i \in a..b : FoundIn(f[i], piece, i, b)}
<1>3. ASSUME NEW i \in a..b, \A j \in (i + 1)..b : j \in N PROVE i \in N
  <2>1. CASE i = b
    <3>1. Range(f[i]) = {}
      BY <1>1, <2>1, ScanEnd
    <3>2. QED
      BY <3>1 DEF FoundIn
  <2>2. CASE i # b
    <3>1. i \in a..(b - 1)
      BY <1>2, <2>2
    <3>2. next[i] \in (i + 1)..b
      BY <1>1, <3>1, ScanStep
    <3>3. FoundIn(f[next[i]], piece, next[i], b)
      BY <1>3, <3>2
    <3>4. QED
      BY <1>1, <3>1, <3>3, FoundStep
  <2>3. QED
    BY <2>1, <2>2
<1> HIDE DEF N
<1>4. Downward(N, a, b)
  BY <1>3 DEF Downward
<1>5. a \in N
  BY <1>2, <1>4, Downwards
<1>6. QED
  BY <1>1, <1>5, ScanBounds DEF N

\* Pieces in the relation R, that come one after the other, are a list in it.
Follows(a, b, piece, next, R) ==
  \A i, j \in a..(b - 1) : next[i] <= j =>
    \A s \in Range(piece[i]), t \in Range(piece[j]) : <<s, t>> \in R

SortedPieces(a, b, piece, R) == \A i \in a..(b - 1) : Sorted(piece[i], R)

\* A scan finds a sorted list, if its pieces are sorted and follow one another.
LEMMA ScanSorted ==
  ASSUME NEW X, NEW a, NEW b, NEW next, NEW piece, Scannable(X, a, b, piece, next),
         NEW R, SortedPieces(a, b, piece, R), Follows(a, b, piece, next, R)
  PROVE  Sorted(Scan(a, b, piece, next), R)
<1>1. PICK f : Scanned(f, X, a, b, piece, next)
  BY Scanning DEF HasScan
<1>2. a \in Int /\ b \in Int /\ a <= b
  BY <1>1, ScanBounds
<1> DEFINE N == {i \in a..b : FoundIn(f[i], piece, i, b) /\ Sorted(f[i], R)}
<1>3. ASSUME NEW i \in a..b, \A j \in (i + 1)..b : j \in N PROVE i \in N
  <2>1. CASE i = b
    <3>1. Range(f[i]) = {} /\ Len(f[i]) = 0
      BY <1>1, <2>1, ScanEnd
    <3>2. Sorted(f[i], R)
      BY <3>1, SortedShort
    <3>3. QED
      BY <3>1, <3>2 DEF FoundIn
  <2>2. CASE i # b
    <3>1. i \in a..(b - 1)
      BY <1>2, <2>2
    <3>2. next[i] \in (i + 1)..b
      BY <1>1, <3>1, ScanStep
    <3>3. FoundIn(f[next[i]], piece, next[i], b) /\ Sorted(f[next[i]], R)
      BY <1>3, <3>2
    <3>4. FoundIn(f[i], piece, i, b)
      BY <1>1, <3>1, <3>3, FoundStep
    <3>5. ASSUME NEW s \in Range(piece[i]), NEW t \in Range(f[next[i]]) PROVE <<s, t>> \in R
      <4>1. PICK j \in next[i]..(b - 1) : t \in Range(piece[j])
        BY <3>3 DEF FoundIn
      <4>2. j \in a..(b - 1) /\ next[i] <= j
        BY <1>2, <3>1, <3>2
      <4>3. QED
        BY <3>1, <4>1, <4>2 DEF Follows
    <3>6. piece[i] \in Seq(X) /\ f[next[i]] \in Seq(X) /\ f[i] = Then(piece[i], f[next[i]])
      BY <1>1, <3>1, ScanStep
    <3>7. Sorted(piece[i], R)
      BY <3>1 DEF SortedPieces
    <3>8. Sorted(Then(piece[i], f[next[i]]), R)
      BY <3>3, <3>5, <3>6, <3>7, SortedConcatenation
    <3>9. QED
      BY <3>4, <3>6, <3>8
  <2>3. QED
    BY <2>1, <2>2
<1> HIDE DEF N
<1>4. Downward(N, a, b)
  BY <1>3 DEF Downward
<1>5. a \in N
  BY <1>2, <1>4, Downwards
<1>6. QED
  BY <1>1, <1>5, ScanBounds DEF N

\* The cursor does not pass the text from x to y without a piece that holds it.
Catches(a, x, y, piece, next) == \A i \in a..x : next[i] <= x \/ Holds(piece[i], x, y)

\* A text that the cursor cannot pass without a piece that holds it is held.
LEMMA ScanHolds ==
  ASSUME NEW X, NEW a, NEW b, NEW next, NEW piece, Scannable(X, a, b, piece, next),
         NEW x \in a..(b - 1), NEW y, Catches(a, x, y, piece, next)
  PROVE  Holds(Scan(a, b, piece, next), x, y)
<1>1. PICK f : Scanned(f, X, a, b, piece, next)
  BY Scanning DEF HasScan
<1>2. a \in Int /\ b \in Int /\ a <= b
  BY <1>1, ScanBounds
<1> DEFINE N == {i \in a..x : Holds(f[i], x, y)}
<1>3. ASSUME NEW i \in a..x, \A j \in (i + 1)..x : j \in N PROVE i \in N
  <2>1. i \in a..(b - 1)
    BY <1>2
  <2>20. next[i] \in (i + 1)..b
    BY <1>1, <2>1, ScanStep
  <2>21. Range(f[i]) = Range(piece[i]) \cup Range(f[next[i]])
    BY <1>1, <2>1, ScanRange
  <2>2. /\ next[i] \in (i + 1)..b
        /\ Range(f[i]) = Range(piece[i]) \cup Range(f[next[i]])
    BY <2>20, <2>21
  <2>3. CASE Holds(piece[i], x, y)
    BY <2>2, <2>3 DEF Holds
  <2>4. CASE next[i] <= x
    <3>1. next[i] \in (i + 1)..x
      BY <1>2, <2>2, <2>4
    <3>2. Holds(f[next[i]], x, y)
      BY <1>3, <3>1
    <3>3. QED
      BY <2>2, <3>2 DEF Holds
  <2>5. QED
    BY <2>3, <2>4 DEF Catches
<1> HIDE DEF N
<1>4. Downward(N, a, x)
  BY <1>3 DEF Downward
<1>5. x \in Int /\ a \in a..x
  BY <1>2
<1>6. a \in N
  BY <1>2, <1>4, <1>5, Downwards
<1>7. QED
  BY <1>1, <1>6, ScanBounds DEF N

-----------------------------------------------------------------------------
(* Lists of lists *)

\* f[i] is the first i lists, one after the other.
Flat(f, X, lists, n) ==
  /\ n \in Nat \ {0} /\ n = Len(lists) /\ f \in [1..n -> Seq(X)]
  /\ \A i \in 1..n : lists[i] \in Seq(X)
  /\ f[1] = lists[1]
  /\ \A i \in 1..(n - 1) : f[i + 1] = Then(f[i], lists[i + 1])

HasFlat(X, lists, n) == \E f : Flat(f, X, lists, n)

\* A list of lists can be flattened.
LEMMA FlatExists ==
  ASSUME NEW X, NEW lists \in Seq(Seq(X)), lists # <<>>
  PROVE  HasFlat(X, lists, Len(lists))
<1>0. Len(lists) \in Nat \ {0} /\ \A i \in 1..Len(lists) : lists[i] \in Seq(X)
  BY Elements, NonEmpty
<1>1. PICK n \in Nat \ {0} : n = Len(lists)
  BY <1>0
<1> DEFINE g == [p \in Seq(X) \X (1..n) |-> Then(p[1], lists[p[2]])]
<1>2. n \in Int /\ 1 \in Int /\ 1 <= n /\ lists[1] \in Seq(X)
  BY <1>0, <1>1
<1>3. g \in [Seq(X) \X (1..n) -> Seq(X)]
  <2>1. \A p \in Seq(X) \X (1..n) : Then(p[1], lists[p[2]]) \in Seq(X)
    BY <1>0, <1>1, Joint
  <2>2. QED
    BY <2>1
<1>4. \A s \in Seq(X), i \in 1..n : g[<<s, i>>] = Then(s, lists[i])
  OBVIOUS
<1> HIDE DEF g
<1>5. Computable(lists[1], g, 1, n, Seq(X))
  BY <1>2, <1>3, Recursion
<1>6. PICK f \in [1..n -> Seq(X)] : Computed(f, lists[1], g, 1, n)
  BY <1>5 DEF Computable
<1>7. f[1] = lists[1]
  BY <1>6 DEF Computed
<1>8. ASSUME NEW i \in 1..(n - 1) PROVE f[i + 1] = Then(f[i], lists[i + 1])
  <2>1. i \in 1..n /\ i + 1 \in 1..n /\ i + 1 \in (1 + 1)..n /\ (i + 1) - 1 = i
    BY <1>2
  <2>2. f[i + 1] = g[<<f[i], i + 1>>] /\ f[i] \in Seq(X)
    BY <1>6, <2>1 DEF Computed
  <2>3. QED
    BY <1>4, <2>1, <2>2
<1>9. Flat(f, X, lists, n)
  BY <1>0, <1>1, <1>6, <1>7, <1>8 DEF Flat
<1>10. QED
  BY <1>1, <1>9 DEF HasFlat

\* What FlattenSeq computes is the last of the flattened beginnings.
LEMMA FlatValue ==
  ASSUME NEW X, NEW lists, NEW n, NEW f, Flat(f, X, lists, n), lists # <<>>
  PROVE  FlattenSeq(lists) = f[n]
<1>0. n \in Nat \ {0} /\ n = Len(lists) /\ n \in 1..n
  BY DEF Flat
<1> DEFINE IsFlat(h) == h = [i \in 1..n |-> IF i = 1 THEN lists[i] ELSE Then(h[i - 1], lists[i])]
<1>1. IsFlat(f)
  <2>1. ASSUME NEW i \in 1..n PROVE f[i] = IF i = 1 THEN lists[i] ELSE Then(f[i - 1], lists[i])
    <3>1. CASE i = 1
      BY <3>1 DEF Flat
    <3>2. CASE i # 1
      <4>1. i - 1 \in 1..(n - 1) /\ (i - 1) + 1 = i
        BY <1>0, <3>2
      <4>2. f[i] = Then(f[i - 1], lists[i])
        BY <4>1 DEF Flat
      <4>3. QED
        BY <3>2, <4>2
    <3>3. QED
      BY <3>1, <3>2
  <2>2. f = [i \in 1..n |-> f[i]]
    BY DEF Flat
  <2>3. QED
    BY <2>1, <2>2
<1> DEFINE flatten == CHOOSE h : IsFlat(h)
<1>2. IsFlat(flatten)
  BY <1>1, Zenon
<1>3. FlattenSeq(lists) = flatten[n]
  BY <1>0 DEF FlattenSeq, Then
<1> HIDE DEF flatten
<1>4. \A i \in 1..n : flatten[i] = IF i = 1 THEN lists[i] ELSE Then(flatten[i - 1], lists[i])
  BY <1>2
<1> DEFINE E == {i \in 1..n : flatten[i] = f[i]}
<1>5. 1 \in E
  BY <1>0, <1>4 DEF Flat
<1>6. ASSUME NEW i \in 1..(n - 1), i \in E PROVE i + 1 \in E
  <2>1. i + 1 \in 1..n /\ i + 1 # 1 /\ (i + 1) - 1 = i
    BY <1>0
  <2>2. f[i + 1] = Then(f[i], lists[i + 1])
    BY DEF Flat
  <2>3. flatten[i + 1] = Then(flatten[i], lists[i + 1])
    BY <1>4, <2>1
  <2>4. QED
    BY <1>6, <2>1, <2>2, <2>3
<1> HIDE DEF E
<1>7. Upward(E, 1, n)
  BY <1>5, <1>6 DEF Upward
<1>8. n \in E
  BY <1>0, <1>7, Upwards
<1>9. QED
  BY <1>3, <1>8 DEF E

\* One more list.
LEMMA FlatStep ==
  ASSUME NEW X, NEW lists, NEW n, NEW f, Flat(f, X, lists, n), NEW i \in 1..(n - 1)
  PROVE  /\ i \in 1..n /\ i + 1 \in 1..n
         /\ f[i] \in Seq(X) /\ lists[i + 1] \in Seq(X) /\ f[i + 1] = Then(f[i], lists[i + 1])
<1>1. i \in 1..n /\ i + 1 \in 1..n
  BY DEF Flat
<1>2. f[i] \in Seq(X) /\ lists[i + 1] \in Seq(X) /\ f[i + 1] = Then(f[i], lists[i + 1])
  BY <1>1 DEF Flat
<1>3. QED
  BY <1>1, <1>2

\* The elements of one more list.
LEMMA FlatRange ==
  ASSUME NEW X, NEW lists, NEW n, NEW f, Flat(f, X, lists, n), NEW i \in 1..(n - 1)
  PROVE  Range(f[i + 1]) = Range(f[i]) \cup Range(lists[i + 1])
<1>1. f[i] \in Seq(X) /\ lists[i + 1] \in Seq(X) /\ f[i + 1] = Then(f[i], lists[i + 1])
  BY FlatStep
<1>2. QED
  BY <1>1, JointRange

HasElements(list, lists, i) == \A s : s \in Range(list) <=> \E j \in 1..i : s \in Range(lists[j])

\* The elements of the first i lists.
LEMMA FlatElements ==
  ASSUME NEW X, NEW lists, NEW n, NEW f, Flat(f, X, lists, n), NEW i \in 1..n
  PROVE  HasElements(f[i], lists, i)
<1>0. n \in Nat \ {0} /\ f[1] = lists[1] /\ n \in Int /\ 1 \in Int
  BY DEF Flat
<1> DEFINE N == {k \in 1..n : HasElements(f[k], lists, k)}
<1>1. 1 \in N
  BY <1>0 DEF HasElements
<1>2. ASSUME NEW k \in 1..(n - 1), k \in N PROVE k + 1 \in N
  <2>1. k + 1 \in 1..n /\ Range(f[k + 1]) = Range(f[k]) \cup Range(lists[k + 1])
    BY FlatStep, FlatRange
  <2>2. \A j : j \in 1..(k + 1) <=> (j \in 1..k \/ j = k + 1)
    BY <1>0
  <2>3. HasElements(f[k], lists, k)
    BY <1>2
  <2>4. HasElements(f[k + 1], lists, k + 1)
    BY <2>1, <2>2, <2>3 DEF HasElements
  <2>5. QED
    BY <2>1, <2>4
<1> HIDE DEF N
<1>3. Upward(N, 1, n)
  BY <1>1, <1>2 DEF Upward
<1>4. i \in N
  BY <1>0, <1>3, Upwards
<1>5. QED
  BY <1>4 DEF N

\* The elements of the lists are the elements of them all.
LEMMA Flattened ==
  ASSUME NEW X, NEW lists \in Seq(Seq(X))
  PROVE  /\ FlattenSeq(lists) \in Seq(X)
         /\ \A s : s \in Range(FlattenSeq(lists)) <=>
                     \E i \in 1..Len(lists) : s \in Range(lists[i])
<1>1. CASE lists = <<>>
  <2>1. FlattenSeq(lists) = <<>> /\ Len(lists) = 0
    BY <1>1 DEF FlattenSeq
  <2>2. FlattenSeq(lists) \in Seq(X) /\ Range(FlattenSeq(lists)) = {} /\ 1..Len(lists) = {}
    BY <2>1, NoElements
  <2>3. QED
    BY <2>2
<1>2. CASE lists # <<>>
  <2>1. PICK f : Flat(f, X, lists, Len(lists))
    BY <1>2, FlatExists DEF HasFlat
  <2>20. FlattenSeq(lists) = f[Len(lists)]
    BY <1>2, <2>1, FlatValue
  <2>2. FlattenSeq(lists) = f[Len(lists)] /\ Len(lists) \in 1..Len(lists)
    BY <2>1, <2>20 DEF Flat
  <2>3. f[Len(lists)] \in Seq(X)
    BY <2>1, <2>2 DEF Flat
  <2>4. HasElements(f[Len(lists)], lists, Len(lists))
    BY <2>1, <2>2, FlatElements
  <2>5. QED
    BY <2>2, <2>3, <2>4 DEF HasElements
<1>3. QED
  BY <1>1, <1>2

\* Lists in the relation R, that come one after the other, are a list in it.
SortedLists(lists, R) ==
  /\ \A i \in 1..Len(lists) : Sorted(lists[i], R)
  /\ \A i, j \in 1..Len(lists) : i < j =>
       \A s \in Range(lists[i]), t \in Range(lists[j]) : <<s, t>> \in R

\* A flattened list of lists is sorted if they are, and one after the other.
LEMMA FlattenedSorted ==
  ASSUME NEW X, NEW lists \in Seq(Seq(X)), NEW R, SortedLists(lists, R)
  PROVE  Sorted(FlattenSeq(lists), R)
<1>1. CASE lists = <<>>
  BY <1>1 DEF FlattenSeq, Sorted
<1>2. CASE lists # <<>>
  <2>1. PICK f : Flat(f, X, lists, Len(lists))
    BY <1>2, FlatExists DEF HasFlat
  <2>2. PICK n : n = Len(lists) /\ Flat(f, X, lists, n)
    BY <2>1
  <2>30. FlattenSeq(lists) = f[n]
    BY <1>2, <2>2, FlatValue
  <2>3. FlattenSeq(lists) = f[n] /\ n \in Nat \ {0} /\ f[1] = lists[1]
    BY <2>2, <2>30 DEF Flat
  <2> DEFINE N == {i \in 1..n : Sorted(f[i], R)}
  <2>4. 1 \in N
    BY <2>2, <2>3 DEF SortedLists
  <2>5. ASSUME NEW i \in 1..(n - 1), i \in N PROVE i + 1 \in N
    <3>1. /\ i \in 1..n /\ i + 1 \in 1..n
          /\ f[i] \in Seq(X) /\ lists[i + 1] \in Seq(X) /\ f[i + 1] = Then(f[i], lists[i + 1])
      BY <2>2, FlatStep
    <3>2. ASSUME NEW s \in Range(f[i]), NEW t \in Range(lists[i + 1]) PROVE <<s, t>> \in R
      <4>0. HasElements(f[i], lists, i)
        BY <2>2, <3>1, FlatElements
      <4>1. PICK j \in 1..i : s \in Range(lists[j])
        BY <4>0 DEF HasElements
      <4>2. j \in 1..n /\ j < i + 1
        BY <2>3
      <4>3. QED
        BY <2>2, <3>1, <4>1, <4>2 DEF SortedLists
    <3>3. Sorted(f[i], R) /\ Sorted(lists[i + 1], R)
      BY <2>2, <2>5, <3>1 DEF SortedLists
    <3>4. Sorted(Then(f[i], lists[i + 1]), R)
      BY <3>1, <3>2, <3>3, SortedConcatenation
    <3>5. QED
      BY <3>1, <3>4
  <2> HIDE DEF N
  <2>6. Upward(N, 1, n)
    BY <2>4, <2>5 DEF Upward
  <2>7. n \in N
    BY <2>3, <2>6, Upwards
  <2>8. QED
    BY <2>3, <2>7 DEF N
<1>3. QED
  BY <1>1, <1>2

-----------------------------------------------------------------------------
(* Joined neighbours *)

\* t is the first n elements of s and e behind them.
Extends(t, s, n, e) ==
  /\ n \in 0..Len(s) /\ Len(t) = n + 1
  /\ \A i \in 1..n : t[i] = s[i]
  /\ t[n + 1] = e

JoinStep(done, span, rule) ==
  IF done # <<>> /\ <<Last(done), span>> \in rule
    THEN Append(Front(done), Both(Last(done), span))
    ELSE Append(done, span)

Parted(t, done, span, rule) ==
  Extends(t, done, Len(done), span) /\ (done # <<>> => <<done[Len(done)], span>> \notin rule)

Merged(t, done, span, rule) ==
  /\ done # <<>> /\ <<done[Len(done)], span>> \in rule
  /\ Extends(t, done, Len(done) - 1, Both(done[Len(done)], span))

\* The span of two spans begins with the first and ends with the second.
LEMMA BothSpan ==
  ASSUME NEW p \in Spans, NEW q \in Spans
  PROVE  Both(p, q) \in Spans /\ Both(p, q)[1] = p[1] /\ Both(p, q)[2] = q[2]
BY DEF Both, Spans

\* Appending keeps the elements there are.
LEMMA AppendExtends ==
  ASSUME NEW X, NEW s \in Seq(X), NEW e \in X
  PROVE  Append(s, e) \in Seq(X) /\ Extends(Append(s, e), s, Len(s), e)
<1>1. Len(s) \in Nat
  BY Elements
<1>2. /\ Append(s, e) \in Seq(X) /\ Len(Append(s, e)) = Len(s) + 1
      /\ \A i \in 1..Len(s) : Append(s, e)[i] = s[i]
      /\ Append(s, e)[Len(s) + 1] = e
  BY AppendProperties
<1>3. QED
  BY <1>1, <1>2 DEF Extends

\* A step of a join appends a span or merges it into the last one.
LEMMA JoinStepCases ==
  ASSUME NEW done \in Seq(Spans), NEW span \in Spans, NEW rule
  PROVE  /\ JoinStep(done, span, rule) \in Seq(Spans)
         /\ \/ Parted(JoinStep(done, span, rule), done, span, rule)
            \/ Merged(JoinStep(done, span, rule), done, span, rule)
<1>1. Last(done) = done[Len(done)]
  BY DEF Last
<1>2. CASE done # <<>> /\ <<Last(done), span>> \in rule
  <2>1. Len(done) \in Nat \ {0}
    BY <1>2, NonEmpty
  <2>2. done[Len(done)] \in Spans
    BY <2>1, Elements
  <2>3. /\ Front(done) \in Seq(Spans) /\ Len(Front(done)) = Len(done) - 1
        /\ \A i \in 1..(Len(done) - 1) : Front(done)[i] = done[i]
    <3>1. \A i \in 1..(Len(done) - 1) : done[i] \in Spans
      BY <2>1, Elements
    <3>2. PICK n \in Nat : n = Len(done) - 1
      BY <2>1
    <3>3. 1 \in Int /\ n \in Int /\ \A i \in 1..n : done[i] \in Spans
      BY <3>1, <3>2
    <3>4. /\ SubSeq(done, 1, n) \in Seq(Spans)
          /\ Len(SubSeq(done, 1, n)) = IF 1 <= n THEN n - 1 + 1 ELSE 0
          /\ \A i \in 1..(n - 1 + 1) : SubSeq(done, 1, n)[i] = done[1 + i - 1]
      BY <3>3, SubSeqProperties
    <3>5. Len(SubSeq(done, 1, n)) = n /\ \A i \in 1..n : SubSeq(done, 1, n)[i] = done[i]
      <4>1. (IF 1 <= n THEN n - 1 + 1 ELSE 0) = n
        BY <3>2
      <4>2. ASSUME NEW i \in 1..n PROVE SubSeq(done, 1, n)[i] = done[i]
        <5>1. i \in 1..(n - 1 + 1) /\ 1 + i - 1 = i
          BY <3>2
        <5>2. QED
          BY <3>4, <5>1
      <4>3. QED
        BY <3>4, <4>1, <4>2
    <3>6. Front(done) = SubSeq(done, 1, n)
      BY <3>2 DEF Front
    <3>7. QED
      BY <3>2, <3>4, <3>5, <3>6
  <2>4. Both(Last(done), span) \in Spans
    BY <1>1, <2>2, BothSpan
  <2>5. JoinStep(done, span, rule) = Append(Front(done), Both(Last(done), span))
    BY <1>2 DEF JoinStep
  <2>6. /\ JoinStep(done, span, rule) \in Seq(Spans)
        /\ Extends(JoinStep(done, span, rule), Front(done), Len(done) - 1, Both(Last(done), span))
    BY <2>3, <2>4, <2>5, AppendExtends
  <2>7. Extends(JoinStep(done, span, rule), done, Len(done) - 1, Both(Last(done), span))
    BY <2>1, <2>3, <2>6 DEF Extends
  <2>8. QED
    BY <1>1, <1>2, <2>6, <2>7 DEF Merged
<1>3. CASE ~(done # <<>> /\ <<Last(done), span>> \in rule)
  <2>1. JoinStep(done, span, rule) = Append(done, span)
    BY <1>3 DEF JoinStep
  <2>2. /\ JoinStep(done, span, rule) \in Seq(Spans)
        /\ Extends(JoinStep(done, span, rule), done, Len(done), span)
    BY <2>1, AppendExtends
  <2>3. QED
    BY <1>1, <1>3, <2>2 DEF Parted
<1>4. QED
  BY <1>2, <1>3

\* f[k] is what the first k spans become.
Joining(f, spans, rule, n) ==
  /\ n \in Nat /\ n = Len(spans) /\ spans \in Seq(Spans)
  /\ f[0] = <<>>
  /\ \A k \in 1..n : f[k] = JoinStep(f[k - 1], spans[k], rule)
  /\ Join(spans, rule) = f[n]

HasJoining(spans, rule, n) == \E f : Joining(f, spans, rule, n)

\* Every list of spans can be joined.
LEMMA JoiningExists ==
  ASSUME NEW spans \in Seq(Spans), NEW rule
  PROVE  HasJoining(spans, rule, Len(spans))
<1>0. Len(spans) \in Nat /\ \A i \in 1..Len(spans) : spans[i] \in Spans
  BY Elements
<1>1. PICK n \in Nat : n = Len(spans)
  BY <1>0
<1> DEFINE g == [p \in Seq(Spans) \X (0..n) |->
                   IF p[2] = 0 THEN p[1] ELSE JoinStep(p[1], spans[p[2]], rule)]
<1>2. n \in Int /\ 0 \in Int /\ 0 <= n /\ <<>> \in Seq(Spans)
  BY NoElements
<1>3. g \in [Seq(Spans) \X (0..n) -> Seq(Spans)]
  <2>1. \A s \in Seq(Spans), i \in 1..n : JoinStep(s, spans[i], rule) \in Seq(Spans)
    BY <1>0, <1>1, JoinStepCases
  <2>2. \A p \in Seq(Spans) \X (0..n) : p[1] \in Seq(Spans) /\ (p[2] = 0 \/ p[2] \in 1..n)
    BY <1>2
  <2>3. QED
    BY <2>1, <2>2
<1>4. \A s \in Seq(Spans), i \in 1..n : g[<<s, i>>] = JoinStep(s, spans[i], rule)
  BY <1>2
<1> HIDE DEF g
<1>5. Computable(<<>>, g, 0, n, Seq(Spans))
  BY <1>2, <1>3, Recursion
<1>6. PICK f \in [0..n -> Seq(Spans)] : Computed(f, <<>>, g, 0, n)
  BY <1>5 DEF Computable
<1>7. f[0] = <<>>
  BY <1>6 DEF Computed
<1>8. ASSUME NEW k \in 1..n PROVE f[k] = JoinStep(f[k - 1], spans[k], rule)
  <2>1. k - 1 \in 0..n /\ k \in (0 + 1)..n
    BY <1>2
  <2>2. f[k] = g[<<f[k - 1], k>>] /\ f[k - 1] \in Seq(Spans)
    BY <1>6, <2>1 DEF Computed
  <2>3. QED
    BY <1>4, <2>2
<1> DEFINE IsJoined(h) == h = [k \in 0..n |-> IF k = 0 THEN <<>> ELSE JoinStep(h[k - 1], spans[k], rule)]
<1>9. IsJoined(f)
  <2>1. ASSUME NEW k \in 0..n PROVE f[k] = IF k = 0 THEN <<>> ELSE JoinStep(f[k - 1], spans[k], rule)
    <3>1. k = 0 \/ (k \in 1..n /\ k # 0)
      BY <1>2
    <3>2. QED
      BY <1>7, <1>8, <3>1
  <2>2. f = [k \in 0..n |-> f[k]]
    BY <1>6
  <2>3. QED
    BY <2>1, <2>2
<1> DEFINE joined == CHOOSE h : IsJoined(h)
<1>10. IsJoined(joined)
  BY <1>9, Zenon
<1>11. Join(spans, rule) = joined[n]
  BY <1>1 DEF Join, JoinStep
<1> HIDE DEF joined
<1>12. \A k \in 0..n : joined[k] = IF k = 0 THEN <<>> ELSE JoinStep(joined[k - 1], spans[k], rule)
  BY <1>10
<1>13. joined[0] = <<>>
  BY <1>2, <1>12
<1>14. ASSUME NEW k \in 1..n PROVE joined[k] = JoinStep(joined[k - 1], spans[k], rule)
  <2>1. k \in 0..n /\ k # 0
    BY <1>2
  <2>2. QED
    BY <1>12, <2>1
<1>15. Joining(joined, spans, rule, n)
  BY <1>1, <1>11, <1>13, <1>14 DEF Joining
<1>16. QED
  BY <1>1, <1>15 DEF HasJoining

Rising(p, q)    == p[1] <= q[1] /\ p[2] <= q[2]
Closed(F, rule) == /\ F \subseteq Spans
                   /\ \A p, q \in F : (<<p, q>> \in rule /\ Rising(p, q)) => Both(p, q) \in F
InOrderOf(spans) == \A i, j \in 1..Len(spans) : i < j => Rising(spans[i], spans[j])

\* What the first k spans have become.
JoinInv(list, spans, k, F) ==
  /\ list \in Seq(Spans) /\ Len(list) \in Nat
  /\ \A i \in 1..Len(list) : list[i] \in F
  /\ k = 0 => Len(list) = 0
  /\ k > 0 => /\ Len(list) > 0
              /\ list[Len(list)][1] <= spans[k][1] /\ list[Len(list)][2] = spans[k][2]
  /\ \A i, j \in 1..Len(list) : i < j => Rising(list[i], list[j])
  /\ \A h \in 1..k : \E i \in 1..Len(list) :
       list[i][1] <= spans[h][1] /\ spans[h][2] <= list[i][2]

\* The invariant, if the next span is appended.
LEMMA JoinInvParted ==
  ASSUME NEW spans, NEW F, F \subseteq Spans, NEW rule, NEW k \in Nat, NEW list, NEW t,
         JoinInv(list, spans, k, F), Parted(t, list, spans[k + 1], rule), t \in Seq(Spans),
         \A h \in 1..(k + 1) : spans[h] \in F, k > 0 => Rising(spans[k], spans[k + 1])
  PROVE  JoinInv(t, spans, k + 1, F)
<1> DEFINE n == Len(list)
           s == spans[k + 1]
<1>1. n \in Nat /\ Len(t) = n + 1 /\ (\A i \in 1..n : t[i] = list[i]) /\ t[n + 1] = s
  BY DEF JoinInv, Parted, Extends
<1>2. (\A i \in 1..n : list[i] \in F) /\ (k = 0 => n = 0)
  BY DEF JoinInv
<1>3. k > 0 => n > 0 /\ list[n][1] <= spans[k][1] /\ list[n][2] = spans[k][2]
  BY DEF JoinInv
<1>4. \A i, j \in 1..n : i < j => Rising(list[i], list[j])
  BY DEF JoinInv
<1>5. \A h \in 1..k : \E i \in 1..n : list[i][1] <= spans[h][1] /\ spans[h][2] <= list[i][2]
  BY DEF JoinInv
<1>6. \A p \in F : p[1] \in Nat /\ p[2] \in Nat
  BY DEF Spans
<1>7. s \in F /\ (k > 0 => spans[k] \in F /\ spans[k][1] <= s[1] /\ spans[k][2] <= s[2])
  <2>1. k + 1 \in 1..(k + 1) /\ (k > 0 => k \in 1..(k + 1))
    OBVIOUS
  <2>2. QED
    BY <2>1 DEF Rising
<1> HIDE DEF n, s
<1>8. \A i \in 1..Len(t) : t[i] \in F
  BY <1>1, <1>2, <1>7
<1>9. ASSUME NEW i \in 1..n PROVE Rising(list[i], s)
  <2>1. k > 0 /\ n \in 1..n
    BY <1>1, <1>2
  <2>2. i = n \/ Rising(list[i], list[n])
    BY <1>1, <1>4, <2>1
  <2>3. list[i] \in F /\ list[n] \in F
    BY <1>2, <2>1
  <2>4. list[i][1] <= list[n][1] /\ list[i][2] <= list[n][2]
    BY <1>6, <2>2, <2>3 DEF Rising
  <2>5. /\ list[n][1] <= spans[k][1] /\ list[n][2] = spans[k][2]
        /\ spans[k][1] <= s[1] /\ spans[k][2] <= s[2]
    BY <1>3, <1>7, <2>1
  <2>6. /\ list[i][1] \in Nat /\ list[i][2] \in Nat /\ list[n][1] \in Nat
        /\ spans[k][1] \in Nat /\ spans[k][2] \in Nat /\ s[1] \in Nat /\ s[2] \in Nat
    BY <1>6, <1>7, <2>1, <2>3
  <2>7. list[i][1] <= s[1]
    <3>1. PICK p \in Nat, l \in Nat, q \in Nat, r \in Nat :
            p = list[i][1] /\ l = list[n][1] /\ q = spans[k][1] /\ r = s[1]
      BY <2>6
    <3>2. p <= l /\ l <= q /\ q <= r
      BY <2>4, <2>5, <3>1
    <3>3. p <= r
      BY <3>2
    <3>4. QED
      BY <3>1, <3>3
  <2>8. list[i][2] <= s[2]
    <3>1. PICK p \in Nat, q \in Nat, r \in Nat : p = list[i][2] /\ q = spans[k][2] /\ r = s[2]
      BY <2>6
    <3>2. p <= q /\ q <= r
      BY <2>4, <2>5, <3>1
    <3>3. p <= r
      BY <3>2
    <3>4. QED
      BY <3>1, <3>3
  <2>9. QED
    BY <2>7, <2>8 DEF Rising
<1>10. \A i, j \in 1..Len(t) : i < j => Rising(t[i], t[j])
  <2>1. ASSUME NEW i \in 1..Len(t), NEW j \in 1..Len(t), i < j PROVE Rising(t[i], t[j])
    <3>1. i \in 1..n /\ (j \in 1..n \/ j = n + 1)
      BY <1>1, <2>1
    <3>2. CASE j \in 1..n
      BY <1>1, <1>4, <2>1, <3>1, <3>2
    <3>3. CASE j = n + 1
      BY <1>1, <1>9, <3>1, <3>3
    <3>4. QED
      BY <3>1, <3>2, <3>3
  <2>2. QED
    BY <2>1
<1>11. ASSUME NEW h \in 1..(k + 1)
       PROVE  \E i \in 1..Len(t) : t[i][1] <= spans[h][1] /\ spans[h][2] <= t[i][2]
  <2>1. CASE h = k + 1
    <3>1. n + 1 \in 1..Len(t) /\ t[n + 1] = spans[h] /\ spans[h] \in F
      BY <1>1, <1>7, <2>1 DEF s
    <3>2. t[n + 1][1] <= spans[h][1] /\ spans[h][2] <= t[n + 1][2]
      BY <1>6, <3>1
    <3>3. \E i : i \in 1..Len(t) /\ i = n + 1
      BY <3>1
    <3>4. QED
      BY <3>2, <3>3
  <2>2. CASE h # k + 1
    <3>1. h \in 1..k
      BY <2>2
    <3>2. PICK i \in 1..n : list[i][1] <= spans[h][1] /\ spans[h][2] <= list[i][2]
      BY <1>5, <3>1
    <3>3. i \in 1..Len(t) /\ t[i] = list[i]
      BY <1>1
    <3>4. QED
      BY <3>2, <3>3
  <2>3. QED
    BY <2>1, <2>2
<1>12. t[Len(t)][1] <= spans[k + 1][1] /\ t[Len(t)][2] = spans[k + 1][2]
  BY <1>1, <1>6, <1>7 DEF s
<1>13. QED
  BY <1>1, <1>8, <1>10, <1>11, <1>12 DEF JoinInv

\* The invariant, if the next span is merged.
LEMMA JoinInvMerged ==
  ASSUME NEW spans, NEW F, NEW rule, Closed(F, rule), NEW k \in Nat, NEW list, NEW t,
         JoinInv(list, spans, k, F), Merged(t, list, spans[k + 1], rule), t \in Seq(Spans),
         \A h \in 1..(k + 1) : spans[h] \in F, k > 0 => Rising(spans[k], spans[k + 1])
  PROVE  JoinInv(t, spans, k + 1, F)
<1> DEFINE n == Len(list)
           s == spans[k + 1]
           l == list[n]
           m == Both(l, s)
<1>0. list # <<>> /\ <<l, s>> \in rule /\ list \in Seq(Spans)
  BY DEF Merged, JoinInv
<1>1. n \in Nat \ {0} /\ Len(t) = n /\ (\A i \in 1..(n - 1) : t[i] = list[i]) /\ t[n] = m
  <2>1. n \in Nat \ {0}
    BY <1>0, NonEmpty
  <2>2. Len(t) = (n - 1) + 1 /\ (\A i \in 1..(n - 1) : t[i] = list[i]) /\ t[(n - 1) + 1] = m
    BY DEF Merged, Extends
  <2>3. QED
    BY <2>1, <2>2
<1>2. (\A i \in 1..n : list[i] \in F) /\ (k = 0 => n = 0)
  BY DEF JoinInv
<1>3. k > 0 => n > 0 /\ list[n][1] <= spans[k][1] /\ list[n][2] = spans[k][2]
  BY DEF JoinInv
<1>4. \A i, j \in 1..n : i < j => Rising(list[i], list[j])
  BY DEF JoinInv
<1>5. \A h \in 1..k : \E i \in 1..n : list[i][1] <= spans[h][1] /\ spans[h][2] <= list[i][2]
  BY DEF JoinInv
<1>6. \A p \in F : p[1] \in Nat /\ p[2] \in Nat /\ p \in Spans
  BY DEF Spans, Closed
<1>7. s \in F /\ (k > 0 => spans[k] \in F /\ spans[k][1] <= s[1] /\ spans[k][2] <= s[2])
  <2>1. k + 1 \in 1..(k + 1) /\ (k > 0 => k \in 1..(k + 1))
    OBVIOUS
  <2>2. QED
    BY <2>1 DEF Rising
<1>8. k > 0 /\ l \in F /\ l[1] <= s[1] /\ l[2] <= s[2] /\ s \in F
  <2>1. k > 0
    BY <1>1, <1>2
  <2>2. l \in F
    BY <1>1, <1>2
  <2>3. QED
    BY <1>3, <1>6, <1>7, <2>1, <2>2
<1>9. m \in F /\ m[1] = l[1] /\ m[2] = s[2]
  <2>1. Rising(l, s)
    BY <1>8 DEF Rising
  <2>2. m \in F
    BY <1>0, <1>8, <2>1 DEF Closed
  <2>3. QED
    BY <1>6, <1>8, <2>2, BothSpan
<1>19. l = list[n]
  OBVIOUS
<1> HIDE DEF n, s, m, l
<1>10. \A i \in 1..Len(t) : t[i] \in F
  <2>1. \A i \in 1..n : i = n \/ i \in 1..(n - 1)
    BY <1>1
  <2>2. QED
    BY <1>1, <1>2, <1>9, <2>1
<1>11. \A i, j \in 1..Len(t) : i < j => Rising(t[i], t[j])
  <2>1. ASSUME NEW i \in 1..Len(t), NEW j \in 1..Len(t), i < j PROVE Rising(t[i], t[j])
    <3>1. i \in 1..(n - 1) /\ i \in 1..n /\ n \in 1..n /\ i < n /\ t[i] = list[i]
      BY <1>1, <2>1
    <3>2. CASE j \in 1..(n - 1)
      <4>1. j \in 1..n /\ t[j] = list[j]
        BY <1>1, <3>2
      <4>2. QED
        BY <1>4, <2>1, <3>1, <4>1
    <3>3. CASE j = n
      <4>1. Rising(list[i], l) /\ list[i] \in F
        BY <1>2, <1>4, <1>19, <3>1
      <4>2. Rising(list[i], m)
        <5>1. PICK p1 \in Nat, p2 \in Nat, l1 \in Nat, l2 \in Nat, s2 \in Nat :
                /\ p1 = list[i][1] /\ p2 = list[i][2]
                /\ l1 = l[1] /\ l2 = l[2] /\ s2 = s[2]
          BY <1>6, <1>8, <4>1
        <5>2. p1 <= l1 /\ p2 <= l2 /\ l2 <= s2
          BY <1>8, <4>1, <5>1 DEF Rising
        <5>3. p1 <= l1 /\ p2 <= s2
          BY <5>2
        <5>4. QED
          BY <1>9, <5>1, <5>3 DEF Rising
      <4>3. QED
        BY <1>1, <3>1, <3>3, <4>2
    <3>4. j \in 1..(n - 1) \/ j = n
      BY <1>1
    <3>5. QED
      BY <3>2, <3>3, <3>4
  <2>2. QED
    BY <2>1
<1>12. ASSUME NEW h \in 1..(k + 1)
       PROVE  \E i \in 1..Len(t) : t[i][1] <= spans[h][1] /\ spans[h][2] <= t[i][2]
  <2>0. n \in 1..Len(t) /\ t[n] = m
    BY <1>1
  <2>1. CASE h = k + 1
    <3>1. m[1] <= spans[h][1] /\ spans[h][2] <= m[2]
      BY <1>6, <1>8, <1>9, <2>1 DEF s
    <3>2. QED
      BY <2>0, <3>1
  <2>2. CASE h # k + 1
    <3>1. h \in 1..k
      BY <2>2
    <3>2. PICK i \in 1..n : list[i][1] <= spans[h][1] /\ spans[h][2] <= list[i][2]
      BY <1>5, <3>1
    <3>3. CASE i = n
      <4>1. spans[h] \in F
        BY <3>1
      <4>2. m[1] <= spans[h][1] /\ l[2] <= m[2] /\ spans[h][2] <= l[2]
        BY <1>8, <1>9, <1>19, <3>2, <3>3
      <4>3. m[1] <= spans[h][1] /\ spans[h][2] <= m[2]
        BY <1>6, <1>8, <1>9, <4>1, <4>2
      <4>4. QED
        BY <2>0, <4>3
    <3>4. CASE i # n
      <4>1. i \in 1..Len(t) /\ t[i] = list[i]
        BY <1>1, <3>4
      <4>2. QED
        BY <3>2, <4>1
    <3>5. QED
      BY <3>3, <3>4
  <2>3. QED
    BY <2>1, <2>2
<1>13. t[Len(t)][1] <= spans[k + 1][1] /\ t[Len(t)][2] = spans[k + 1][2]
  BY <1>1, <1>8, <1>9 DEF s
<1>14. QED
  BY <1>1, <1>10, <1>11, <1>12, <1>13 DEF JoinInv

\* The invariant of joining.
LEMMA JoiningInv ==
  ASSUME NEW spans, NEW n, NEW f, NEW rule, Joining(f, spans, rule, n),
         NEW F, Closed(F, rule), \A i \in 1..n : spans[i] \in F, InOrderOf(spans)
  PROVE  \A k \in 0..n : JoinInv(f[k], spans, k, F)
<1>0. n \in Nat /\ n = Len(spans) /\ f[0] = <<>> /\ F \subseteq Spans
  BY DEF Joining, Closed
<1> DEFINE N == {k \in 0..n : JoinInv(f[k], spans, k, F)}
<1>1. 0 \in N
  <2>1. <<>> \in Seq(Spans) /\ Len(<<>>) = 0
    BY NoElements
  <2>2. JoinInv(<<>>, spans, 0, F)
    BY <2>1 DEF JoinInv
  <2>3. QED
    BY <1>0, <2>2
<1>2. ASSUME NEW k \in 0..(n - 1), k \in N PROVE k + 1 \in N
  <2> DEFINE t == f[k + 1]
  <2>1. k \in Nat /\ k + 1 \in 1..n /\ (k + 1) - 1 = k
    BY <1>0
  <2>2. t = JoinStep(f[k], spans[k + 1], rule)
    BY <2>1 DEF Joining
  <2>3. JoinInv(f[k], spans, k, F)
    BY <1>2
  <2>4. f[k] \in Seq(Spans) /\ spans[k + 1] \in Spans
    BY <1>0, <2>1, <2>3 DEF JoinInv
  <2>5. /\ t \in Seq(Spans)
        /\ Parted(t, f[k], spans[k + 1], rule) \/ Merged(t, f[k], spans[k + 1], rule)
    BY <2>2, <2>4, JoinStepCases
  <2>6. /\ \A h \in 1..(k + 1) : spans[h] \in F
        /\ k > 0 => Rising(spans[k], spans[k + 1])
    <3>1. \A h \in 1..(k + 1) : h \in 1..n
      BY <1>0
    <3>2. k > 0 => k \in 1..Len(spans) /\ k + 1 \in 1..Len(spans) /\ k < k + 1
      BY <1>0
    <3>3. QED
      BY <3>1, <3>2 DEF InOrderOf
  <2> HIDE DEF t
  <2>7. JoinInv(t, spans, k + 1, F)
    <3>1. CASE Parted(t, f[k], spans[k + 1], rule)
      BY <1>0, <2>1, <2>3, <2>5, <2>6, <3>1, JoinInvParted
    <3>2. CASE Merged(t, f[k], spans[k + 1], rule)
      BY <2>1, <2>3, <2>5, <2>6, <3>2, JoinInvMerged
    <3>3. QED
      BY <2>5, <3>1, <3>2
  <2>8. QED
    BY <1>0, <2>1, <2>7 DEF t
<1> HIDE DEF N
<1>3. Upward(N, 0, n)
  BY <1>1, <1>2 DEF Upward
<1>4. 0..n \subseteq N
  BY <1>0, <1>3, Upwards
<1>5. QED
  BY <1>4 DEF N

NoTwice(list)  == \A i, j \in 1..Len(list) : i < j => list[i] # list[j]
ApartOf(spans) == \A i, j \in 1..Len(spans) : i < j => spans[i][2] <= spans[j][1]

\* Spans that rise both ways are the same.
LEMMA SpanEqual ==
  ASSUME NEW p \in Spans, NEW q \in Spans, Rising(p, q), Rising(q, p)
  PROVE  p = q
<1>1. /\ p = <<p[1], p[2]>> /\ q = <<q[1], q[2]>>
      /\ p[1] \in Nat /\ p[2] \in Nat /\ q[1] \in Nat /\ q[2] \in Nat
  BY DEF Spans
<1>2. p[1] = q[1] /\ p[2] = q[2]
  BY <1>1 DEF Rising
<1>3. QED
  BY <1>1, <1>2

\* The same span is not found twice in a row, or it is joined.
Differs(rule, spans, k) == Same \subseteq rule \/ (k > 0 => spans[k] # spans[k + 1])

\* Spans that are joined if they are the same are found once.
LEMMA NoTwiceStep ==
  ASSUME NEW spans, NEW F, F \subseteq Spans, NEW rule, NEW k \in Nat, NEW list, NEW t,
         JoinInv(list, spans, k, F), JoinInv(t, spans, k + 1, F),
         \/ Parted(t, list, spans[k + 1], rule)
         \/ Merged(t, list, spans[k + 1], rule),
         \A h \in 1..(k + 1) : spans[h] \in F, k > 0 => Rising(spans[k], spans[k + 1]),
         Differs(rule, spans, k), NoTwice(list)
  PROVE  NoTwice(t)
<1> DEFINE n == Len(list)
           s == spans[k + 1]
<1>1. /\ n \in Nat /\ \A i \in 1..n : list[i] \in Spans
      /\ s \in Spans /\ (k > 0 => spans[k] \in Spans)
      /\ \A i \in 1..Len(t) : t[i] \in Spans
  <2>1. k + 1 \in 1..(k + 1) /\ (k > 0 => k \in 1..(k + 1))
    OBVIOUS
  <2>2. QED
    BY <2>1 DEF JoinInv
<1>2. \A i, j \in 1..n : i < j => list[i] # list[j] /\ Rising(list[i], list[j])
  BY DEF JoinInv, NoTwice
<1>3. n > 0 => k > 0 /\ list[n][1] <= spans[k][1] /\ list[n][2] = spans[k][2]
  BY DEF JoinInv
<1>4. CASE Parted(t, list, s, rule)
  <2>1. Len(t) = n + 1 /\ (\A i \in 1..n : t[i] = list[i]) /\ t[n + 1] = s
    BY <1>4 DEF Parted, Extends
  <2>2. n > 0 => <<list[n], s>> \notin rule
    <3>1. n > 0 => list # <<>>
      BY EmptySeq
    <3>2. QED
      BY <1>4, <3>1 DEF Parted
  <2>3. n > 0 => list[n] # s
    <3>1. SUFFICES ASSUME n > 0, list[n] = s PROVE FALSE
      OBVIOUS
    <3>2. k > 0 /\ s[1] <= spans[k][1] /\ s[2] = spans[k][2] /\ Rising(spans[k], s)
      BY <1>3, <3>1
    <3>3. Rising(s, spans[k])
      BY <1>1, <3>2 DEF Rising, Spans
    <3>4. spans[k] = s
      BY <1>1, <3>2, <3>3, SpanEqual
    <3>5. <<list[n], s>> \in Same
      BY <1>1, <3>1 DEF Same, Pairs
    <3>6. QED
      BY <2>2, <3>1, <3>2, <3>4, <3>5 DEF Differs
  <2>4. \A i \in 1..n : Rising(t[i], t[n + 1])
    <3>1. \A i \in 1..n : i \in 1..Len(t) /\ n + 1 \in 1..Len(t) /\ i < n + 1
      BY <1>1, <2>1
    <3>2. QED
      BY <3>1 DEF JoinInv
  <2>5. ASSUME NEW i \in 1..n PROVE list[i] # s
    <3>1. CASE i = n
      BY <2>3, <3>1
    <3>2. CASE i # n
      <4>1. i < n /\ n \in 1..n
        BY <1>1, <3>2
      <4>2. list[i] # list[n] /\ Rising(list[i], list[n]) /\ Rising(list[n], s)
        BY <1>2, <2>1, <2>4, <4>1
      <4>3. list[i] \in Spans /\ list[n] \in Spans
        BY <1>1, <4>1
      <4>4. QED
        BY <4>2, <4>3, SpanEqual
    <3>3. QED
      BY <3>1, <3>2
  <2> HIDE DEF s
  <2>6. \A i, j \in 1..Len(t) : i < j => t[i] # t[j]
    <3>1. ASSUME NEW i \in 1..Len(t), NEW j \in 1..Len(t), i < j PROVE t[i] # t[j]
      <4>1. i \in 1..n /\ (j \in 1..n \/ j = n + 1)
        BY <1>1, <2>1, <3>1
      <4>2. CASE j \in 1..n
        BY <1>2, <2>1, <3>1, <4>1, <4>2
      <4>3. CASE j = n + 1
        BY <2>1, <2>5, <4>1, <4>3
      <4>4. QED
        BY <4>1, <4>2, <4>3
    <3>2. QED
      BY <3>1
  <2>7. QED
    BY <2>6 DEF NoTwice
<1>5. CASE Merged(t, list, s, rule)
  <2> DEFINE l == list[n]
             m == Both(l, s)
  <2>0. list # <<>> /\ list \in Seq(Spans)
    BY <1>5 DEF Merged, JoinInv
  <2>1. n \in Nat \ {0} /\ Len(t) = n /\ (\A i \in 1..(n - 1) : t[i] = list[i]) /\ t[n] = m
    <3>1. n \in Nat \ {0}
      BY <2>0, NonEmpty
    <3>2. Len(t) = (n - 1) + 1 /\ (\A i \in 1..(n - 1) : t[i] = list[i]) /\ t[(n - 1) + 1] = m
      BY <1>5 DEF Merged, Extends
    <3>3. QED
      BY <3>1, <3>2
  <2>2. l \in Spans /\ m \in Spans /\ m[1] = l[1] /\ m[2] = s[2]
    <3>1. l \in Spans
      BY <1>1, <2>1
    <3>2. QED
      BY <1>1, <3>1, BothSpan
  <2>3. k > 0 /\ l[2] = spans[k][2] /\ Rising(spans[k], s)
    BY <1>3, <2>1
  <2>4. Rising(l, m)
    BY <1>1, <2>2, <2>3 DEF Rising, Spans
  <2>5. ASSUME NEW i \in 1..(n - 1) PROVE list[i] # m
    <3>1. i \in 1..n /\ n \in 1..n /\ i < n
      BY <2>1
    <3>2. list[i] # l /\ Rising(list[i], l) /\ list[i] \in Spans
      BY <1>1, <1>2, <3>1
    <3>3. QED
      BY <2>2, <2>4, <3>2, SpanEqual
  <2> HIDE DEF s, l, m
  <2>6. \A i, j \in 1..Len(t) : i < j => t[i] # t[j]
    <3>1. ASSUME NEW i \in 1..Len(t), NEW j \in 1..Len(t), i < j PROVE t[i] # t[j]
      <4>1. i \in 1..(n - 1) /\ (j \in 1..(n - 1) \/ j = n) /\ i \in 1..n /\ j \in 1..n
        BY <2>1, <3>1
      <4>2. CASE j \in 1..(n - 1)
        BY <1>2, <2>1, <3>1, <4>1, <4>2
      <4>3. CASE j = n
        BY <2>1, <2>5, <4>1, <4>3
      <4>4. QED
        BY <4>1, <4>2, <4>3
    <3>2. QED
      BY <3>1
  <2>7. QED
    BY <2>6 DEF NoTwice
<1>6. QED
  BY <1>4, <1>5

\* Spans apart from each other stay so.
LEMMA ApartStep ==
  ASSUME NEW spans, NEW F, F \subseteq Spans, NEW rule, NEW k \in Nat, NEW list, NEW t,
         JoinInv(list, spans, k, F), JoinInv(t, spans, k + 1, F),
         \/ Parted(t, list, spans[k + 1], rule)
         \/ Merged(t, list, spans[k + 1], rule),
         \A h \in 1..(k + 1) : spans[h] \in F, k > 0 => spans[k][2] <= spans[k + 1][1],
         ApartOf(list)
  PROVE  ApartOf(t)
<1> DEFINE n == Len(list)
           s == spans[k + 1]
<1>1. /\ n \in Nat /\ \A i \in 1..n : list[i] \in Spans
      /\ s \in Spans /\ (k > 0 => spans[k] \in Spans)
  <2>1. k + 1 \in 1..(k + 1) /\ (k > 0 => k \in 1..(k + 1))
    OBVIOUS
  <2>2. QED
    BY <2>1 DEF JoinInv
<1>2. \A i, j \in 1..n : i < j => list[i][2] <= list[j][1] /\ Rising(list[i], list[j])
  BY DEF JoinInv, ApartOf
<1>3. n > 0 => k > 0 /\ list[n][2] = spans[k][2]
  BY DEF JoinInv
<1>4. CASE Parted(t, list, s, rule)
  <2>1. Len(t) = n + 1 /\ (\A i \in 1..n : t[i] = list[i]) /\ t[n + 1] = s
    BY <1>4 DEF Parted, Extends
  <2>2. ASSUME NEW i \in 1..n PROVE list[i][2] <= s[1]
    <3>1. n > 0 /\ n \in 1..n /\ (i < n \/ i = n)
      BY <1>1
    <3>2. list[n][2] <= s[1]
      BY <1>3, <3>1
    <3>3. i < n => list[i][2] <= list[n][2]
      BY <1>2, <3>1 DEF Rising
    <3>4. list[i][2] \in Nat /\ list[n][2] \in Nat /\ s[1] \in Nat
      BY <1>1, <3>1 DEF Spans
    <3>5. QED
      BY <3>1, <3>2, <3>3, <3>4
  <2> HIDE DEF s
  <2>3. \A i, j \in 1..Len(t) : i < j => t[i][2] <= t[j][1]
    <3>1. ASSUME NEW i \in 1..Len(t), NEW j \in 1..Len(t), i < j PROVE t[i][2] <= t[j][1]
      <4>1. i \in 1..n /\ (j \in 1..n \/ j = n + 1)
        BY <1>1, <2>1, <3>1
      <4>2. CASE j \in 1..n
        BY <1>2, <2>1, <3>1, <4>1, <4>2
      <4>3. CASE j = n + 1
        BY <2>1, <2>2, <4>1, <4>3
      <4>4. QED
        BY <4>1, <4>2, <4>3
    <3>2. QED
      BY <3>1
  <2>4. QED
    BY <2>3 DEF ApartOf
<1>5. CASE Merged(t, list, s, rule)
  <2> DEFINE l == list[n]
             m == Both(l, s)
  <2>0. list # <<>> /\ list \in Seq(Spans)
    BY <1>5 DEF Merged, JoinInv
  <2>1. n \in Nat \ {0} /\ Len(t) = n /\ (\A i \in 1..(n - 1) : t[i] = list[i]) /\ t[n] = m
    <3>1. n \in Nat \ {0}
      BY <2>0, NonEmpty
    <3>2. Len(t) = (n - 1) + 1 /\ (\A i \in 1..(n - 1) : t[i] = list[i]) /\ t[(n - 1) + 1] = m
      BY <1>5 DEF Merged, Extends
    <3>3. QED
      BY <3>1, <3>2
  <2>2. m[1] = l[1]
    <3>1. l \in Spans
      BY <1>1, <2>1
    <3>2. QED
      BY <1>1, <3>1, BothSpan
  <2>5. ASSUME NEW i \in 1..(n - 1) PROVE list[i][2] <= m[1]
    <3>1. i \in 1..n /\ n \in 1..n /\ i < n
      BY <2>1
    <3>2. QED
      BY <1>2, <2>2, <3>1
  <2> HIDE DEF s, l, m
  <2>6. \A i, j \in 1..Len(t) : i < j => t[i][2] <= t[j][1]
    <3>1. ASSUME NEW i \in 1..Len(t), NEW j \in 1..Len(t), i < j PROVE t[i][2] <= t[j][1]
      <4>1. i \in 1..(n - 1) /\ (j \in 1..(n - 1) \/ j = n) /\ i \in 1..n /\ j \in 1..n
        BY <2>1, <3>1
      <4>2. CASE j \in 1..(n - 1)
        BY <1>2, <2>1, <3>1, <4>1, <4>2
      <4>3. CASE j = n
        BY <2>1, <2>5, <4>1, <4>3
      <4>4. QED
        BY <4>1, <4>2, <4>3
    <3>2. QED
      BY <3>1
  <2>7. QED
    BY <2>6 DEF ApartOf
<1>6. QED
  BY <1>4, <1>5

\* Spans that can be joined under a rule, in the set F.
Joinable(spans, rule, F) ==
  /\ spans \in Seq(Spans) /\ Closed(F, rule)
  /\ \A i \in 1..Len(spans) : spans[i] \in F
  /\ InOrderOf(spans)

\* The invariant, for the whole list.
LEMMA JoinedInv ==
  ASSUME NEW spans, NEW rule, NEW F, Joinable(spans, rule, F)
  PROVE  JoinInv(Join(spans, rule), spans, Len(spans), F)
<1>1. PICK f : Joining(f, spans, rule, Len(spans))
  BY JoiningExists DEF Joinable, HasJoining
<1>2. PICK n : n = Len(spans) /\ Joining(f, spans, rule, n)
  BY <1>1
<1>3. Closed(F, rule) /\ (\A i \in 1..n : spans[i] \in F) /\ InOrderOf(spans)
  BY <1>2 DEF Joinable
<1>4. \A k \in 0..n : JoinInv(f[k], spans, k, F)
  BY <1>2, <1>3, JoiningInv
<1>5. n \in 0..n /\ Join(spans, rule) = f[n]
  BY <1>2 DEF Joining
<1>6. QED
  BY <1>2, <1>4, <1>5

\* What is joined is as its spans are, and in their order.
LEMMA JoinFacts ==
  ASSUME NEW spans, NEW rule, NEW F, Joinable(spans, rule, F)
  PROVE  /\ Join(spans, rule) \in Seq(Spans) /\ InOrderOf(Join(spans, rule))
         /\ \A i \in 1..Len(Join(spans, rule)) : Join(spans, rule)[i] \in F
BY JoinedInv DEF JoinInv, InOrderOf

\* A join holds whatever its spans hold.
LEMMA JoinHolds ==
  ASSUME NEW spans, NEW rule, NEW F, Joinable(spans, rule, F), NEW x \in Int, NEW y \in Int,
         Holds(spans, x, y)
  PROVE  Holds(Join(spans, rule), x, y)
<1> DEFINE joined == Join(spans, rule)
<1>0. spans \in Seq(Spans) /\ joined \in Seq(Spans) /\ JoinInv(joined, spans, Len(spans), F)
  BY JoinedInv, JoinFacts DEF Joinable
<1>1. PICK s \in Range(spans) : s[1] <= x /\ y <= s[2]
  BY DEF Holds
<1>2. PICK h \in 1..Len(spans) : s = spans[h]
  BY <1>0, Elements
<1> HIDE DEF joined
<1>3. PICK i \in 1..Len(joined) : joined[i][1] <= spans[h][1] /\ spans[h][2] <= joined[i][2]
  BY <1>0 DEF JoinInv
<1>4. joined[i] \in Range(joined) /\ joined[i] \in Spans /\ spans[h] \in Spans
  BY <1>0, Elements
<1>5. joined[i][1] <= x /\ y <= joined[i][2]
  <2>1. /\ joined[i][1] \in Nat /\ joined[i][2] \in Nat
        /\ spans[h][1] \in Nat /\ spans[h][2] \in Nat
    BY <1>4 DEF Spans
  <2>2. PICK j1 \in Nat, j2 \in Nat, h1 \in Nat, h2 \in Nat :
          /\ j1 = joined[i][1] /\ j2 = joined[i][2]
          /\ h1 = spans[h][1] /\ h2 = spans[h][2]
    BY <2>1
  <2>3. h1 <= x /\ y <= h2 /\ j1 <= h1 /\ h2 <= j2
    BY <1>1, <1>2, <1>3, <2>2
  <2>4. j1 <= x /\ y <= j2
    BY <2>3
  <2>5. QED
    BY <2>2, <2>4
<1>6. QED
  BY <1>4, <1>5 DEF Holds, joined

\* One step from the invariant to the next.
LEMMA JoiningStep ==
  ASSUME NEW spans, NEW n, NEW f, NEW rule, Joining(f, spans, rule, n),
         NEW F, Joinable(spans, rule, F), NEW k \in 0..(n - 1)
  PROVE  /\ JoinInv(f[k], spans, k, F) /\ JoinInv(f[k + 1], spans, k + 1, F)
         /\ \/ Parted(f[k + 1], f[k], spans[k + 1], rule)
            \/ Merged(f[k + 1], f[k], spans[k + 1], rule)
         /\ \A h \in 1..(k + 1) : spans[h] \in F
         /\ k > 0 => Rising(spans[k], spans[k + 1])
<1>1. n \in Nat /\ n = Len(spans) /\ F \subseteq Spans
  BY DEF Joining, Joinable, Closed
<1>2. Closed(F, rule) /\ (\A i \in 1..n : spans[i] \in F) /\ InOrderOf(spans)
  BY <1>1 DEF Joinable
<1>3. \A h \in 0..n : JoinInv(f[h], spans, h, F)
  BY <1>2, JoiningInv
<1>4. k \in 0..n /\ k + 1 \in 0..n /\ k + 1 \in 1..n /\ (k + 1) - 1 = k
  BY <1>1
<1>5. JoinInv(f[k], spans, k, F) /\ JoinInv(f[k + 1], spans, k + 1, F)
  BY <1>3, <1>4
<1>6. f[k + 1] = JoinStep(f[k], spans[k + 1], rule)
  BY <1>4 DEF Joining
<1>7. f[k] \in Seq(Spans) /\ spans[k + 1] \in Spans
  BY <1>1, <1>2, <1>4, <1>5 DEF JoinInv
<1>8. \/ Parted(f[k + 1], f[k], spans[k + 1], rule)
      \/ Merged(f[k + 1], f[k], spans[k + 1], rule)
  BY <1>6, <1>7, JoinStepCases
<1>9. /\ \A h \in 1..(k + 1) : spans[h] \in F
      /\ k > 0 => Rising(spans[k], spans[k + 1])
  <2>1. \A h \in 1..(k + 1) : h \in 1..n
    BY <1>1
  <2>2. k > 0 => k \in 1..Len(spans) /\ k + 1 \in 1..Len(spans) /\ k < k + 1
    BY <1>1
  <2>3. QED
    BY <1>2, <2>1, <2>2 DEF InOrderOf
<1>10. QED
  BY <1>5, <1>8, <1>9

\* A join has no span twice, if it merges the same ones or there are none.
LEMMA JoinNoTwice ==
  ASSUME NEW spans, NEW rule, NEW F, Joinable(spans, rule, F),
         Same \subseteq rule \/ NoTwice(spans)
  PROVE  NoTwice(Join(spans, rule))
<1>1. PICK f : Joining(f, spans, rule, Len(spans))
  BY JoiningExists DEF Joinable, HasJoining
<1>2. PICK n : n = Len(spans) /\ Joining(f, spans, rule, n)
  BY <1>1
<1>3. n \in Nat /\ f[0] = <<>> /\ Join(spans, rule) = f[n] /\ F \subseteq Spans
  BY <1>2 DEF Joining, Joinable, Closed
<1> DEFINE N == {k \in 0..n : NoTwice(f[k])}
<1>4. 0 \in N
  BY <1>3 DEF NoTwice
<1>5. ASSUME NEW k \in 0..(n - 1), k \in N PROVE k + 1 \in N
  <2>1. /\ JoinInv(f[k], spans, k, F) /\ JoinInv(f[k + 1], spans, k + 1, F)
        /\ \/ Parted(f[k + 1], f[k], spans[k + 1], rule)
           \/ Merged(f[k + 1], f[k], spans[k + 1], rule)
        /\ \A h \in 1..(k + 1) : spans[h] \in F
        /\ k > 0 => Rising(spans[k], spans[k + 1])
    BY <1>2, JoiningStep
  <2>2. Differs(rule, spans, k)
    <3>1. k > 0 => k \in 1..Len(spans) /\ k + 1 \in 1..Len(spans) /\ k < k + 1
      BY <1>2, <1>3
    <3>2. QED
      BY <3>1 DEF NoTwice, Differs
  <2>3. k \in Nat /\ k + 1 \in 0..n /\ NoTwice(f[k])
    BY <1>3, <1>5
  <2>4. NoTwice(f[k + 1])
    BY <1>3, <2>1, <2>2, <2>3, NoTwiceStep
  <2>5. QED
    BY <2>3, <2>4
<1> HIDE DEF N
<1>6. Upward(N, 0, n)
  BY <1>4, <1>5 DEF Upward
<1>7. n \in N
  BY <1>3, <1>6, Upwards
<1>8. QED
  BY <1>3, <1>7 DEF N

\* A join of spans apart is apart.
LEMMA JoinApart ==
  ASSUME NEW spans, NEW rule, NEW F, Joinable(spans, rule, F), ApartOf(spans)
  PROVE  ApartOf(Join(spans, rule))
<1>1. PICK f : Joining(f, spans, rule, Len(spans))
  BY JoiningExists DEF Joinable, HasJoining
<1>2. PICK n : n = Len(spans) /\ Joining(f, spans, rule, n)
  BY <1>1
<1>3. n \in Nat /\ f[0] = <<>> /\ Join(spans, rule) = f[n] /\ F \subseteq Spans
  BY <1>2 DEF Joining, Joinable, Closed
<1> DEFINE N == {k \in 0..n : ApartOf(f[k])}
<1>4. 0 \in N
  BY <1>3 DEF ApartOf
<1>5. ASSUME NEW k \in 0..(n - 1), k \in N PROVE k + 1 \in N
  <2>1. /\ JoinInv(f[k], spans, k, F) /\ JoinInv(f[k + 1], spans, k + 1, F)
        /\ \/ Parted(f[k + 1], f[k], spans[k + 1], rule)
           \/ Merged(f[k + 1], f[k], spans[k + 1], rule)
        /\ \A h \in 1..(k + 1) : spans[h] \in F
    BY <1>2, JoiningStep
  <2>2. k > 0 => spans[k][2] <= spans[k + 1][1]
    <3>1. k > 0 => k \in 1..Len(spans) /\ k + 1 \in 1..Len(spans) /\ k < k + 1
      BY <1>2, <1>3
    <3>2. QED
      BY <3>1 DEF ApartOf
  <2>3. k \in Nat /\ k + 1 \in 0..n /\ ApartOf(f[k])
    BY <1>3, <1>5
  <2>4. ApartOf(f[k + 1])
    BY <1>3, <2>1, <2>2, <2>3, ApartStep
  <2>5. QED
    BY <2>3, <2>4
<1> HIDE DEF N
<1>6. Upward(N, 0, n)
  BY <1>4, <1>5 DEF Upward
<1>7. n \in N
  BY <1>3, <1>6, Upwards
<1>8. QED
  BY <1>3, <1>7 DEF N

-----------------------------------------------------------------------------
(* Spans of a text *)

InkAt(text, i) == ~IsSpace(At(text, i))

\* The spans of a text between two positions, that hold something.
Within(a, b) == {s \in Spans : a <= s[1] /\ s[1] < s[2] /\ s[2] <= b}

\* Those of them that white space neither begins nor ends.
Tight(text, a, b) == {s \in Within(a, b) : InkAt(text, s[1]) /\ InkAt(text, s[2] - 1)}

Climbing  == {p \in Pairs : Rising(p[1], p[2])}
Ascending == {p \in Pairs : Rising(p[1], p[2]) /\ p[1] # p[2]}
Apart     == {p \in Pairs : p[1][2] <= p[2][1]}

\* A position of a stretch that is not white space.
LEMMA InkElement ==
  ASSUME NEW text, NEW a \in Int, NEW b \in Int, NEW i \in Int
  PROVE  i \in Ink(text, a, b) <=> (a <= i /\ i < b /\ InkAt(text, i))
BY DEF Ink, InkAt

\* The hull of some positions holds them all.
LEMMA HullFacts ==
  ASSUME NEW a \in Nat, NEW b \in Nat, NEW S \in SUBSET (a..(b - 1)), S # {}
  PROVE  /\ Hull(S) = << <<Min(S), Max(S) + 1>> >>
         /\ <<Min(S), Max(S) + 1>> \in Within(a, b)
         /\ Min(S) \in S /\ Max(S) \in S
         /\ \A i \in S : Min(S) <= i /\ i < Max(S) + 1
<1>1. /\ Min(S) \in S /\ \A x \in S : Min(S) <= x
      /\ Max(S) \in S /\ \A x \in S : Max(S) >= x
  <2>1. PICK c \in Int : c = b - 1
    OBVIOUS
  <2>2. S \in SUBSET (a..c) /\ a \in Int
    BY <2>1
  <2>3. QED
    BY <2>1, <2>2, Extremes
<1>2. Hull(S) = << <<Min(S), Max(S) + 1>> >>
  BY DEF Hull
<1>3. PICK m \in S : m = Min(S)
  BY <1>1
<1>4. PICK n \in S : n = Max(S)
  BY <1>1
<1>5. m \in a..(b - 1) /\ n \in a..(b - 1) /\ m <= n /\ \A i \in S : i \in Int /\ m <= i /\ i <= n
  BY <1>1, <1>3, <1>4
<1>6. <<m, n + 1>> \in Within(a, b)
  BY <1>5 DEF Within, Spans
<1>7. <<Min(S), Max(S) + 1>> \in Within(a, b)
  BY <1>3, <1>4, <1>6
<1>8. \A i \in S : m <= i /\ i < n + 1
  BY <1>5
<1>9. \A i \in S : Min(S) <= i /\ i < Max(S) + 1
  BY <1>3, <1>4, <1>8
<1>10. QED
  BY <1>1, <1>2, <1>7, <1>9

\* Trimming leaves at most one span, with no white space at its ends.
LEMMA TrimmedFacts ==
  ASSUME NEW text, NEW a \in Nat, NEW b \in Nat
  PROVE  /\ Trimmed(text, a, b) \in Seq(Spans) /\ Len(Trimmed(text, a, b)) \in {0, 1}
         /\ Range(Trimmed(text, a, b)) \subseteq Tight(text, a, b)
         /\ (Ink(text, a, b) # {} => Trimmed(text, a, b) # <<>>)
<1> DEFINE S == Ink(text, a, b)
<1>0. S \in SUBSET (a..(b - 1)) /\ Trimmed(text, a, b) = Hull(S)
  BY DEF Ink, Trimmed
<1>1. CASE S = {}
  <2>1. Hull(S) = <<>>
    BY <1>1 DEF Hull
  <2>2. QED
    BY <1>0, <1>1, <2>1, NoElements
<1>2. CASE S # {}
  <2> DEFINE s == <<Min(S), Max(S) + 1>>
  <2>1. Hull(S) = <<s>> /\ s \in Within(a, b) /\ Min(S) \in S /\ Max(S) \in S
    BY <1>0, <1>2, HullFacts
  <2>2. s[1] \in S /\ s[2] - 1 \in S
    <3>1. Max(S) \in Int /\ (Max(S) + 1) - 1 = Max(S)
      BY <1>0, <2>1
    <3>2. QED
      BY <2>1, <3>1
  <2>3. s \in Tight(text, a, b)
    BY <2>1, <2>2 DEF Tight, Ink, InkAt
  <2>4. s \in Spans
    BY <2>1 DEF Within
  <2> HIDE DEF s, S
  <2>5. <<s>> \in Seq(Spans) /\ Len(<<s>>) = 1 /\ Range(<<s>>) = {s}
    BY <2>4, Singleton
  <2>6. <<s>> # <<>>
    OBVIOUS
  <2>7. QED
    BY <1>0, <2>1, <2>3, <2>5, <2>6
<1>3. QED
  BY <1>1, <1>2

\* A trimmed span has all that is there to hold.
LEMMA TrimmedHull ==
  ASSUME NEW text, NEW a \in Nat, NEW b \in Nat, NEW s \in Range(Trimmed(text, a, b)),
         NEW i \in Int, a <= i, i < b, InkAt(text, i)
  PROVE  s[1] <= i /\ i < s[2]
<1> DEFINE S == Ink(text, a, b)
<1>0. S \in SUBSET (a..(b - 1)) /\ Trimmed(text, a, b) = Hull(S) /\ i \in S
  BY DEF Ink, Trimmed, InkAt
<1> HIDE DEF S
<1>1. PICK t : t = <<Min(S), Max(S) + 1>>
  OBVIOUS
<1>2. Hull(S) = <<t>> /\ t \in Spans /\ t[1] <= i /\ i < t[2]
  <2>1. S # {}
    BY <1>0
  <2>2. Hull(S) = <<t>> /\ t \in Within(a, b) /\ Min(S) <= i /\ i < Max(S) + 1
    BY <1>0, <1>1, <2>1, HullFacts
  <2>3. QED
    BY <1>1, <2>2 DEF Within
<1>3. Range(<<t>>) = {t}
  BY <1>2, Singleton
<1>4. s = t
  BY <1>0, <1>2, <1>3
<1>5. QED
  BY <1>2, <1>4

\* Text from x to y, white space neither first nor last.
Firm(text, a, b, x, y) ==
  /\ x \in Nat /\ y \in Nat /\ a <= x /\ x < y /\ y <= b
  /\ InkAt(text, x) /\ InkAt(text, y - 1)

\* Trimming keeps whatever begins and ends with ink.
LEMMA TrimmedHolds ==
  ASSUME NEW text, NEW a \in Nat, NEW b \in Nat, NEW x, NEW y, Firm(text, a, b, x, y)
  PROVE  Holds(Trimmed(text, a, b), x, y)
<1>1. x \in Nat /\ y \in Nat /\ a <= x /\ x < y /\ y <= b /\ InkAt(text, x) /\ InkAt(text, y - 1)
  BY DEF Firm
<1>2. Ink(text, a, b) # {}
  BY <1>1, InkElement
<1>3. Len(Trimmed(text, a, b)) \in Nat \ {0}
  BY <1>2, TrimmedFacts, NonEmpty
<1>4. PICK s : s \in Range(Trimmed(text, a, b))
  <2>1. 1 \in 1..Len(Trimmed(text, a, b))
    BY <1>3
  <2>2. Trimmed(text, a, b)[1] \in Range(Trimmed(text, a, b))
    BY <2>1, TrimmedFacts, Elements
  <2>3. QED
    BY <2>2
<1>5. s[1] <= x
  BY <1>1, <1>4, TrimmedHull
<1>6. y - 1 < s[2]
  <2>1. y - 1 \in Int /\ a <= y - 1 /\ y - 1 < b
    BY <1>1
  <2>2. QED
    BY <1>1, <1>4, <2>1, TrimmedHull
<1>7. s[2] \in Nat
  <2>1. s \in Tight(text, a, b)
    BY <1>4, TrimmedFacts
  <2>2. QED
    BY <2>1 DEF Tight, Within, Spans
<1>8. y <= s[2]
  BY <1>1, <1>6, <1>7
<1>9. QED
  BY <1>4, <1>5, <1>8 DEF Holds

-----------------------------------------------------------------------------
(* Slices *)

\* A cursor that goes forward from a to b.
Cursor(a, b, next) == a \in Nat /\ b \in Nat /\ a <= b /\ \A i \in a..(b - 1) : next[i] \in (i + 1)..b

Slices(text, a, b, next) == [i \in a..(b - 1) |-> Trimmed(text, i, next[i])]

\* The slices of a cursor can be scanned.
LEMMA SlicesScannable ==
  ASSUME NEW text, NEW a, NEW b, NEW next, Cursor(a, b, next)
  PROVE  /\ Scannable(Spans, a, b, Slices(text, a, b, next), next)
         /\ \A i \in a..(b - 1) : /\ i \in Nat /\ next[i] \in Nat
                                  /\ Slices(text, a, b, next)[i] = Trimmed(text, i, next[i])
<1>1. a \in Nat /\ b \in Nat /\ a <= b /\ \A i \in a..(b - 1) : next[i] \in (i + 1)..b
  BY DEF Cursor
<1>2. \A i \in a..(b - 1) : i \in Nat /\ next[i] \in Nat
  BY <1>1
<1>3. \A i \in a..(b - 1) : Slices(text, a, b, next)[i] = Trimmed(text, i, next[i])
  BY DEF Slices
<1>4. \A i \in a..(b - 1) : Slices(text, a, b, next)[i] \in Seq(Spans)
  BY <1>2, <1>3, TrimmedFacts
<1>5. Scannable(Spans, a, b, Slices(text, a, b, next), next)
  BY <1>1, <1>4 DEF Scannable
<1>6. QED
  BY <1>2, <1>3, <1>5

\* Slices are trimmed, and apart from each other.
LEMMA SlicedFacts ==
  ASSUME NEW text, NEW a, NEW b, NEW next, Cursor(a, b, next)
  PROVE  /\ Sliced(text, a, b, next) \in Seq(Spans)
         /\ Range(Sliced(text, a, b, next)) \subseteq Tight(text, a, b)
         /\ Sorted(Sliced(text, a, b, next), Apart)
<1> DEFINE piece == Slices(text, a, b, next)
<1>1. a \in Nat /\ b \in Nat /\ a <= b /\ \A i \in a..(b - 1) : next[i] \in (i + 1)..b
  BY DEF Cursor
<1>2. /\ Scannable(Spans, a, b, piece, next)
      /\ \A i \in a..(b - 1) : /\ i \in Nat /\ next[i] \in Nat
                               /\ piece[i] = Trimmed(text, i, next[i])
  BY SlicesScannable
<1>3. Sliced(text, a, b, next) = Scan(a, b, piece, next)
  BY DEF Sliced, Slices
<1> HIDE DEF piece
<1>4. ASSUME NEW i \in a..(b - 1), NEW s \in Range(piece[i])
      PROVE  s \in Spans /\ s \in Tight(text, i, next[i]) /\ i <= s[1] /\ s[2] <= next[i]
  <2>1. s \in Tight(text, i, next[i])
    BY <1>2, <1>4, TrimmedFacts
  <2>2. QED
    BY <2>1 DEF Tight, Within
<1>5. Scan(a, b, piece, next) \in Seq(Spans) /\ FoundIn(Scan(a, b, piece, next), piece, a, b)
  BY <1>2, ScanFinds
<1>6. ASSUME NEW s \in Range(Scan(a, b, piece, next)) PROVE s \in Tight(text, a, b)
  <2>1. PICK i \in a..(b - 1) : s \in Range(piece[i])
    BY <1>5 DEF FoundIn
  <2>2. s \in Tight(text, i, next[i]) /\ next[i] \in (i + 1)..b
    BY <1>1, <1>4, <2>1
  <2>3. QED
    BY <1>1, <2>2 DEF Tight, Within, Spans
<1>7. SortedPieces(a, b, piece, Apart)
  <2>1. ASSUME NEW i \in a..(b - 1) PROVE Sorted(piece[i], Apart)
    <3>1. Len(piece[i]) \in {0, 1}
      BY <1>2, TrimmedFacts
    <3>2. QED
      BY <3>1, SortedShort
  <2>2. QED
    BY <2>1 DEF SortedPieces
<1>8. Follows(a, b, piece, next, Apart)
  <2>1. ASSUME NEW i \in a..(b - 1), NEW j \in a..(b - 1), next[i] <= j,
               NEW s \in Range(piece[i]), NEW t \in Range(piece[j])
        PROVE  <<s, t>> \in Apart
    <3>1. s \in Spans /\ s[2] <= next[i] /\ t \in Spans /\ j <= t[1]
      BY <1>4
    <3>2. s[2] \in Nat /\ next[i] \in Nat /\ j \in Nat /\ t[1] \in Nat
      BY <1>2, <3>1 DEF Spans
    <3>3. s[2] <= t[1]
      BY <2>1, <3>1, <3>2
    <3>4. QED
      BY <3>1, <3>3 DEF Apart, Pairs
  <2>2. QED
    BY <2>1 DEF Follows
<1>9. Sorted(Scan(a, b, piece, next), Apart)
  BY <1>2, <1>7, <1>8, ScanSorted
<1>10. QED
  BY <1>3, <1>5, <1>6, <1>9

\* What the cursor does not cut is held by a slice.
Uncut(a, x, y, next) == \A i \in a..x : next[i] <= x \/ y <= next[i]

\* Sliced text is held, if the cursor does not cut it.
LEMMA SlicedHolds ==
  ASSUME NEW text, NEW a, NEW b, NEW next, Cursor(a, b, next),
         NEW x, NEW y, Firm(text, a, b, x, y), Uncut(a, x, y, next)
  PROVE  Holds(Sliced(text, a, b, next), x, y)
<1> DEFINE piece == Slices(text, a, b, next)
<1>1. /\ a \in Nat /\ b \in Nat /\ x \in Nat /\ y \in Nat /\ a <= x /\ x < y /\ y <= b
      /\ InkAt(text, x) /\ InkAt(text, y - 1)
  BY DEF Cursor, Firm
<1>2. /\ Scannable(Spans, a, b, piece, next)
      /\ \A i \in a..(b - 1) : /\ i \in Nat /\ next[i] \in Nat
                               /\ piece[i] = Trimmed(text, i, next[i])
  BY SlicesScannable
<1>3. Sliced(text, a, b, next) = Scan(a, b, piece, next)
  BY DEF Sliced, Slices
<1> HIDE DEF piece
<1>4. ASSUME NEW i \in a..x PROVE next[i] <= x \/ Holds(piece[i], x, y)
  <2>1. i \in a..(b - 1) /\ i <= x
    BY <1>1
  <2>2. CASE next[i] <= x
    BY <2>2
  <2>3. CASE y <= next[i]
    <3>1. Firm(text, i, next[i], x, y)
      BY <1>1, <2>1, <2>3 DEF Firm
    <3>2. i \in Nat /\ next[i] \in Nat /\ piece[i] = Trimmed(text, i, next[i])
      BY <1>2, <2>1
    <3>3. QED
      BY <3>1, <3>2, TrimmedHolds
  <2>4. QED
    BY <2>2, <2>3 DEF Uncut
<1>5. Catches(a, x, y, piece, next)
  BY <1>4 DEF Catches
<1>6. x \in a..(b - 1)
  BY <1>1
<1>7. QED
  BY <1>2, <1>3, <1>5, <1>6, ScanHolds

-----------------------------------------------------------------------------
(* Pieces between cuts *)

\* The next cut is a cut or the end, and the cursor goes forward.
LEMMA NextCuts ==
  ASSUME NEW a \in Nat, NEW b \in Nat, a <= b, NEW cuts, cuts \subseteq a..b
  PROVE  /\ Cursor(a, b, NextCut(a, b, cuts))
         /\ \A i \in a..(b - 1) : NextCut(a, b, cuts)[i] \in cuts \cup {b}
<1>1. ASSUME NEW i \in a..(b - 1)
      PROVE  NextCut(a, b, cuts)[i] \in (i + 1)..b /\ NextCut(a, b, cuts)[i] \in cuts \cup {b}
  <2> DEFINE S == {c \in cuts \cup {b} : c > i}
  <2>1. NextCut(a, b, cuts)[i] = Min(S)
    BY DEF NextCut
  <2>2. S \in SUBSET (a..b) /\ b \in S
    <3>1. b \in a..b /\ b > i
      OBVIOUS
    <3>2. QED
      BY <3>1
  <2>3. Min(S) \in S
    <3> HIDE DEF S
    <3>1. S # {}
      BY <2>2
    <3>2. a \in Int /\ b \in Int
      OBVIOUS
    <3>3. QED
      BY <2>2, <3>1, <3>2, Extremes
  <2>4. \A c \in S : c \in (i + 1)..b
    OBVIOUS
  <2>5. QED
    BY <2>1, <2>3, <2>4
<1>2. QED
  BY <1>1 DEF Cursor

\* Pieces are trimmed, and apart from each other.
LEMMA PiecesFacts ==
  ASSUME NEW text, NEW a \in Nat, NEW b \in Nat, a <= b, NEW cuts, cuts \subseteq a..b
  PROVE  /\ Pieces(text, a, b, cuts) \in Seq(Spans)
         /\ Range(Pieces(text, a, b, cuts)) \subseteq Tight(text, a, b)
         /\ Sorted(Pieces(text, a, b, cuts), Apart)
BY NextCuts, SlicedFacts DEF Pieces

\* Pieces hold a text that no cut runs through.
LEMMA PiecesHold ==
  ASSUME NEW text, NEW a \in Nat, NEW b \in Nat, a <= b, NEW cuts, cuts \subseteq a..b,
         NEW x, NEW y, Firm(text, a, b, x, y), \A c \in cuts : c <= x \/ y <= c
  PROVE  Holds(Pieces(text, a, b, cuts), x, y)
<1>1. Cursor(a, b, NextCut(a, b, cuts))
  BY NextCuts
<1>2. Uncut(a, x, y, NextCut(a, b, cuts))
  <2>1. x \in Nat /\ y \in Nat /\ a <= x /\ x < y /\ y <= b
    BY DEF Firm
  <2>2. ASSUME NEW i \in a..x
        PROVE  NextCut(a, b, cuts)[i] <= x \/ y <= NextCut(a, b, cuts)[i]
    <3>1. i \in a..(b - 1)
      BY <2>1
    <3>2. NextCut(a, b, cuts)[i] \in cuts \cup {b}
      BY <3>1, NextCuts
    <3>3. QED
      BY <2>1, <3>2
  <2>3. QED
    BY <2>2 DEF Uncut
<1>3. QED
  BY <1>1, <1>2, SlicedHolds DEF Pieces

-----------------------------------------------------------------------------
(* Neat lists *)

\* Different spans in order, all of them in F.
Neat(list, F) ==
  /\ list \in Seq(Spans) /\ \A i \in 1..Len(list) : list[i] \in F
  /\ InOrderOf(list) /\ NoTwice(list)

\* The elements of a neat list.
LEMMA NeatRange ==
  ASSUME NEW list, NEW F, Neat(list, F)
  PROVE  Range(list) \subseteq F
BY Elements DEF Neat

\* Spans apart that hold something are neat.
LEMMA ApartNeat ==
  ASSUME NEW list \in Seq(Spans), Sorted(list, Apart), NEW a, NEW b, NEW F,
         Range(list) \subseteq F, F \subseteq Within(a, b)
  PROVE  Neat(list, F) /\ ApartOf(list)
<1>1. \A i \in 1..Len(list) : list[i] \in F
  BY Elements
<1>2. ASSUME NEW i \in 1..Len(list), NEW j \in 1..Len(list), i < j
      PROVE  /\ Rising(list[i], list[j]) /\ list[i] # list[j]
             /\ list[i][2] <= list[j][1]
  <2>1. list[i][2] <= list[j][1]
    BY <1>2 DEF Sorted, Apart
  <2>2. /\ list[i][1] \in Nat /\ list[i][2] \in Nat /\ list[i][1] < list[i][2]
        /\ list[j][1] \in Nat /\ list[j][2] \in Nat /\ list[j][1] < list[j][2]
    BY <1>1 DEF Within, Spans
  <2>3. list[i][1] <= list[j][1] /\ list[i][2] <= list[j][2] /\ list[i][1] # list[j][1]
    BY <2>1, <2>2
  <2>4. QED
    BY <2>1, <2>3 DEF Rising
<1>3. InOrderOf(list)
  BY <1>2 DEF InOrderOf
<1>4. NoTwice(list)
  BY <1>2 DEF NoTwice
<1>5. ApartOf(list)
  BY <1>2 DEF ApartOf
<1>6. QED
  BY <1>1, <1>3, <1>4, <1>5 DEF Neat

\* A neat list stays neat when it is joined.
LEMMA NeatJoin ==
  ASSUME NEW spans, NEW F, Neat(spans, F), NEW rule, Closed(F, rule)
  PROVE  Neat(Join(spans, rule), F)
<1>1. Joinable(spans, rule, F) /\ NoTwice(spans)
  BY DEF Neat, Joinable
<1>2. NoTwice(Join(spans, rule))
  BY <1>1, JoinNoTwice
<1>3. QED
  BY <1>1, <1>2, JoinFacts DEF Neat

\* A joined neat list holds what it held.
LEMMA NeatJoinHolds ==
  ASSUME NEW spans, NEW F, Neat(spans, F), NEW rule, Closed(F, rule),
         NEW x \in Int, NEW y \in Int, Holds(spans, x, y)
  PROVE  Holds(Join(spans, rule), x, y)
<1>1. Joinable(spans, rule, F)
  BY DEF Neat, Joinable
<1>2. QED
  BY <1>1, JoinHolds

\* The spans that fit.
Fitting(a, b, limit) == {s \in Within(a, b) : Length(s) <= limit}

\* A rule that joins only what fits stays among the spans that fit.
LEMMA FittingClosed ==
  ASSUME NEW a \in Nat, NEW b \in Nat, NEW limit \in Int, NEW rule,
         \A p \in rule : Length(Both(p[1], p[2])) <= limit
  PROVE  Closed(Fitting(a, b, limit), rule)
<1> DEFINE F == Fitting(a, b, limit)
<1>1. F \subseteq Spans
  BY DEF Fitting, Within
<1>2. ASSUME NEW p \in F, NEW q \in F, <<p, q>> \in rule, Rising(p, q)
      PROVE  Both(p, q) \in F
  <2>1. p \in Within(a, b) /\ q \in Within(a, b) /\ p \in Spans /\ q \in Spans
    BY DEF Fitting, Within
  <2>2. Both(p, q) \in Spans /\ Both(p, q)[1] = p[1] /\ Both(p, q)[2] = q[2]
    BY <2>1, BothSpan
  <2>3. Both(p, q) \in Within(a, b)
    BY <1>2, <2>1, <2>2 DEF Within, Rising, Spans
  <2>4. Length(Both(p, q)) <= limit
    BY <1>2
  <2>5. QED
    BY <2>3, <2>4 DEF Fitting
<1>3. QED
  BY <1>1, <1>2 DEF Closed

\* Slices are neat, and as short as the trimmed stretches of the cursor.
LEMMA SlicedShort ==
  ASSUME NEW text, NEW a, NEW b, NEW next, Cursor(a, b, next), NEW limit \in Int,
         \A i \in a..(b - 1) : \A s \in Range(Trimmed(text, i, next[i])) : Length(s) <= limit
  PROVE  /\ Neat(Sliced(text, a, b, next), Fitting(a, b, limit))
         /\ Sorted(Sliced(text, a, b, next), Apart)
<1> DEFINE piece == Slices(text, a, b, next)
<1>1. /\ Scannable(Spans, a, b, piece, next)
      /\ \A i \in a..(b - 1) : piece[i] = Trimmed(text, i, next[i])
  BY SlicesScannable
<1>2. Sliced(text, a, b, next) = Scan(a, b, piece, next)
  BY DEF Sliced, Slices
<1> HIDE DEF piece
<1>3. FoundIn(Scan(a, b, piece, next), piece, a, b)
  BY <1>1, ScanFinds
<1>4. /\ Sliced(text, a, b, next) \in Seq(Spans) /\ Sorted(Sliced(text, a, b, next), Apart)
      /\ Range(Sliced(text, a, b, next)) \subseteq Tight(text, a, b)
  BY SlicedFacts
<1>5. \A s \in Range(Sliced(text, a, b, next)) : Length(s) <= limit
  BY <1>1, <1>2, <1>3 DEF FoundIn
<1>6. Range(Sliced(text, a, b, next)) \subseteq Fitting(a, b, limit)
  BY <1>4, <1>5 DEF Tight, Fitting
<1>7. Fitting(a, b, limit) \subseteq Within(a, b)
  BY DEF Fitting
<1>8. QED
  BY <1>4, <1>6, <1>7, ApartNeat

\* A character that is no white space.
LEMMA FirmInk ==
  ASSUME NEW text, NEW a \in Nat, NEW b \in Nat, NEW x \in Ink(text, a, b)
  PROVE  Firm(text, a, b, x, x + 1)
<1>1. x \in Nat /\ a <= x /\ x < b /\ InkAt(text, x) /\ (x + 1) - 1 = x /\ x + 1 <= b
  BY DEF Ink, InkAt
<1>2. QED
  BY <1>1 DEF Firm

-----------------------------------------------------------------------------
(* Windows *)

\* Fixed spans fit, and leave out nothing but white space.
LEMMA FixedFacts ==
  ASSUME NEW text, Len(text) \in Nat, NEW limit \in Nat \ {0}
  PROVE  /\ Neat(FixedSpans(text, limit), Fitting(0, Len(text), limit))
         /\ \A x \in Ink(text, 0, Len(text)) : Holds(FixedSpans(text, limit), x, x + 1)
<1>1. PICK n \in Nat : n = Len(text)
  OBVIOUS
<1> DEFINE next == [i \in 0..(n - 1) |-> Least(i + limit, n)]
<1>2. FixedSpans(text, limit) = Sliced(text, 0, n, next)
  BY <1>1 DEF FixedSpans
<1>3. \A i \in 0..(n - 1) : next[i] \in (i + 1)..n /\ next[i] <= i + limit
  BY DEF Least
<1> HIDE DEF next
<1>4. Cursor(0, n, next)
  BY <1>3 DEF Cursor
<1>5. ASSUME NEW i \in 0..(n - 1), NEW s \in Range(Trimmed(text, i, next[i]))
      PROVE  Length(s) <= limit
  <2>1. i \in Nat /\ next[i] \in Nat /\ next[i] <= i + limit
    BY <1>3
  <2>2. s \in Tight(text, i, next[i])
    BY <1>5, <2>1, TrimmedFacts
  <2>3. QED
    BY <2>1, <2>2 DEF Tight, Within, Spans, Length
<1>6. Neat(Sliced(text, 0, n, next), Fitting(0, n, limit))
  BY <1>4, <1>5, SlicedShort
<1>7. ASSUME NEW x \in Ink(text, 0, n) PROVE Holds(Sliced(text, 0, n, next), x, x + 1)
  <2>1. Firm(text, 0, n, x, x + 1)
    BY FirmInk
  <2>2. Uncut(0, x, x + 1, next)
    <3>1. x \in 0..(n - 1)
      BY DEF Ink
    <3>2. \A i \in 0..x : next[i] \in Nat
      BY <1>3, <3>1
    <3>3. QED
      BY <3>1, <3>2 DEF Uncut
  <2>3. QED
    BY <1>4, <2>1, <2>2, SlicedHolds
<1>8. QED
  BY <1>1, <1>2, <1>6, <1>7

\* The windows from i to end[i].
Ends(n, limit, end, next, step) ==
  \A i \in 0..(n - 1) :
    /\ end[i] \in (i + 1)..n /\ end[i] <= i + limit /\ (end[i] = i + limit \/ end[i] = n)
    /\ next[i] \in (i + 1)..n
    /\ (end[i] = n /\ next[i] = n) \/ (end[i] # n /\ next[i] = i + step)

\* Sliding windows are a scan whose pieces overlap.
LEMMA WindowsScan ==
  ASSUME NEW text, Len(text) \in Nat, NEW limit \in Nat \ {0}, NEW step \in 1..limit
  PROVE  \E end, next : /\ Ends(Len(text), limit, end, next, step)
                        /\ Scannable(Spans, 0, Len(text), Slices(text, 0, Len(text), end), next)
                        /\ Windows(text, limit, step)
                             = Scan(0, Len(text), Slices(text, 0, Len(text), end), next)
<1>1. PICK n \in Nat : n = Len(text)
  OBVIOUS
<1> DEFINE end  == [i \in 0..(n - 1) |-> Least(i + limit, n)]
           next == [i \in 0..(n - 1) |-> IF end[i] = n THEN n ELSE i + step]
<1>2. Windows(text, limit, step) = Scan(0, n, Slices(text, 0, n, end), next)
  BY <1>1 DEF Windows, Slices
<1>3. \A i \in 0..(n - 1) : /\ end[i] \in (i + 1)..n /\ end[i] <= i + limit
                            /\ end[i] = i + limit \/ end[i] = n
  BY DEF Least
<1>4. \A i \in 0..(n - 1) : next[i] = IF end[i] = n THEN n ELSE i + step
  OBVIOUS
<1> HIDE DEF end, next
<1>5. \A i \in 0..(n - 1) : next[i] \in (i + 1)..n
  BY <1>3, <1>4
<1>6. Ends(n, limit, end, next, step)
  BY <1>3, <1>4, <1>5 DEF Ends
<1>7. Cursor(0, n, end)
  BY <1>3 DEF Cursor
<1>8. Scannable(Spans, 0, n, Slices(text, 0, n, end), end)
  BY <1>7, SlicesScannable
<1>9. Scannable(Spans, 0, n, Slices(text, 0, n, end), next)
  BY <1>5, <1>8 DEF Scannable
<1>10. QED
  BY <1>1, <1>2, <1>6, <1>9

\* Of two windows the later one begins and ends no earlier, trimmed.
LEMMA WindowsRise ==
  ASSUME NEW text, NEW a \in Nat, NEW b \in Nat, NEW c \in Nat, NEW d \in Nat, a <= c, b <= d,
         NEW s \in Range(Trimmed(text, a, b)), NEW t \in Range(Trimmed(text, c, d))
  PROVE  Rising(s, t)
<1>1. s \in Tight(text, a, b) /\ t \in Tight(text, c, d)
  BY TrimmedFacts
<1>2. /\ s[1] \in Nat /\ s[2] \in Nat /\ a <= s[1] /\ s[1] < s[2] /\ s[2] <= b
      /\ InkAt(text, s[1]) /\ InkAt(text, s[2] - 1)
      /\ t[1] \in Nat /\ t[2] \in Nat /\ c <= t[1] /\ t[1] < t[2] /\ t[2] <= d
      /\ InkAt(text, t[1]) /\ InkAt(text, t[2] - 1)
  BY <1>1 DEF Tight, Within, Spans
<1>3. s[1] <= t[1]
  <2>1. CASE t[1] < b
    <3>1. t[1] \in Int /\ a <= t[1]
      BY <1>2
    <3>2. QED
      BY <1>2, <2>1, <3>1, TrimmedHull
  <2>2. CASE ~(t[1] < b)
    BY <1>2, <2>2
  <2>3. QED
    BY <2>1, <2>2
<1>4. s[2] <= t[2]
  <2>1. CASE c <= s[2] - 1
    <3>1. s[2] - 1 \in Int /\ s[2] - 1 < d
      BY <1>2
    <3>2. s[2] - 1 < t[2]
      BY <1>2, <2>1, <3>1, TrimmedHull
    <3>3. QED
      BY <1>2, <3>2
  <2>2. CASE ~(c <= s[2] - 1)
    BY <1>2, <2>2
  <2>3. QED
    BY <2>1, <2>2
<1>5. QED
  BY <1>3, <1>4 DEF Rising

\* The windows of a text: short, in order, and no more than a step apart.
LEMMA WindowsFacts ==
  ASSUME NEW text, Len(text) \in Nat, NEW limit \in Nat \ {0}, NEW step \in 1..limit
  PROVE  /\ Windows(text, limit, step) \in Seq(Spans)
         /\ Range(Windows(text, limit, step)) \subseteq Fitting(0, Len(text), limit)
         /\ Sorted(Windows(text, limit, step), Climbing)
<1>1. PICK n \in Nat : n = Len(text)
  OBVIOUS
<1>2. PICK end, next : /\ Ends(n, limit, end, next, step)
                       /\ Scannable(Spans, 0, n, Slices(text, 0, n, end), next)
                       /\ Windows(text, limit, step) = Scan(0, n, Slices(text, 0, n, end), next)
  BY <1>1, WindowsScan
<1> DEFINE piece == Slices(text, 0, n, end)
<1>3. \A i \in 0..(n - 1) : /\ end[i] \in (i + 1)..n /\ end[i] <= i + limit
                            /\ end[i] = i + limit \/ end[i] = n
                            /\ next[i] \in (i + 1)..n
  BY <1>2 DEF Ends
<1>4. \A i \in 0..(n - 1) : piece[i] = Trimmed(text, i, end[i])
  BY DEF Slices
<1> HIDE DEF piece
<1>5. ASSUME NEW i \in 0..(n - 1)
      PROVE  i \in Nat /\ end[i] \in Nat /\ next[i] \in Nat /\ piece[i] = Trimmed(text, i, end[i])
  BY <1>3, <1>4
<1>6. ASSUME NEW i \in 0..(n - 1), NEW s \in Range(piece[i]) PROVE s \in Fitting(0, n, limit)
  <2>1. s \in Tight(text, i, end[i])
    BY <1>5, <1>6, TrimmedFacts
  <2>2. end[i] <= n /\ end[i] <= i + limit
    BY <1>3
  <2>3. QED
    BY <1>5, <2>1, <2>2 DEF Tight, Within, Spans, Fitting, Length
<1>7. /\ Scan(0, n, piece, next) \in Seq(Spans)
      /\ FoundIn(Scan(0, n, piece, next), piece, 0, n)
  BY <1>2, ScanFinds DEF piece
<1>8. Range(Scan(0, n, piece, next)) \subseteq Fitting(0, n, limit)
  BY <1>6, <1>7 DEF FoundIn
<1>9. SortedPieces(0, n, piece, Climbing)
  <2>1. ASSUME NEW i \in 0..(n - 1) PROVE Sorted(piece[i], Climbing)
    <3>1. Len(piece[i]) \in {0, 1}
      BY <1>5, TrimmedFacts
    <3>2. QED
      BY <3>1, SortedShort
  <2>2. QED
    BY <2>1 DEF SortedPieces
<1>10. Follows(0, n, piece, next, Climbing)
  <2>1. ASSUME NEW i \in 0..(n - 1), NEW j \in 0..(n - 1), next[i] <= j,
               NEW s \in Range(piece[i]), NEW t \in Range(piece[j])
        PROVE  <<s, t>> \in Climbing
    <3>1. i <= j /\ end[i] <= end[j]
      <4>1. end[i] \in Nat /\ end[j] \in Nat /\ i < next[i] /\ next[i] \in Nat
        BY <1>3, <1>5
      <4>2. i < j
        BY <2>1, <4>1
      <4>3. end[i] <= i + limit /\ end[i] <= n /\ (end[j] = j + limit \/ end[j] = n)
        BY <1>3
      <4>4. QED
        BY <4>1, <4>2, <4>3
    <3>2. Rising(s, t)
      <4>1. /\ i \in Nat /\ end[i] \in Nat /\ j \in Nat /\ end[j] \in Nat
            /\ s \in Range(Trimmed(text, i, end[i])) /\ t \in Range(Trimmed(text, j, end[j]))
        BY <1>5, <2>1
      <4>2. QED
        BY <3>1, <4>1, WindowsRise
    <3>3. s \in Spans /\ t \in Spans
      BY <1>6 DEF Fitting, Within
    <3>4. QED
      BY <3>2, <3>3 DEF Climbing, Pairs
  <2>2. QED
    BY <2>1 DEF Follows
<1>11. Sorted(Scan(0, n, piece, next), Climbing)
  BY <1>2, <1>9, <1>10, ScanSorted DEF piece
<1>12. QED
  BY <1>1, <1>2, <1>7, <1>8, <1>11 DEF piece

\* Text as short as what two windows share is in one of them.
LEMMA WindowsHold ==
  ASSUME NEW text, Len(text) \in Nat, NEW limit \in Nat \ {0}, NEW step \in 1..limit,
         NEW x, NEW y, Firm(text, 0, Len(text), x, y), y <= x + (limit - step) \/ y = x + 1
  PROVE  Holds(Windows(text, limit, step), x, y)
<1>1. PICK n \in Nat : n = Len(text)
  OBVIOUS
<1>2. PICK end, next : /\ Ends(n, limit, end, next, step)
                       /\ Scannable(Spans, 0, n, Slices(text, 0, n, end), next)
                       /\ Windows(text, limit, step) = Scan(0, n, Slices(text, 0, n, end), next)
  BY <1>1, WindowsScan
<1> DEFINE piece == Slices(text, 0, n, end)
<1>3. /\ x \in Nat /\ y \in Nat /\ x < y /\ y <= n /\ InkAt(text, x) /\ InkAt(text, y - 1)
  BY <1>1 DEF Firm
<1>4. \A i \in 0..(n - 1) : piece[i] = Trimmed(text, i, end[i])
  BY DEF Slices
<1> HIDE DEF piece
<1>5. ASSUME NEW i \in 0..x PROVE next[i] <= x \/ Holds(piece[i], x, y)
  <2>1. i \in 0..(n - 1) /\ i \in Nat /\ i <= x
    BY <1>3
  <2>2. /\ end[i] \in (i + 1)..n /\ (end[i] = i + limit \/ end[i] = n)
        /\ (end[i] = n /\ next[i] = n) \/ (end[i] # n /\ next[i] = i + step)
    BY <1>2, <2>1 DEF Ends
  <2>3. end[i] \in Nat
    BY <2>1, <2>2
  <2>4. next[i] <= x \/ y <= end[i]
    <3>1. CASE end[i] = n
      BY <1>3, <3>1
    <3>2. CASE end[i] # n
      <4>1. end[i] = i + limit /\ next[i] = i + step
        BY <2>2, <3>2
      <4>2. CASE y = x + 1
        BY <1>3, <2>1, <4>1, <4>2
      <4>3. CASE y <= x + (limit - step)
        BY <1>3, <2>1, <4>1, <4>3
      <4>4. QED
        BY <4>2, <4>3
    <3>3. QED
      BY <3>1, <3>2
  <2>5. CASE y <= end[i]
    <3>1. Firm(text, i, end[i], x, y)
      BY <1>3, <2>1, <2>5 DEF Firm
    <3>2. QED
      BY <1>4, <2>1, <2>3, <3>1, TrimmedHolds
  <2>6. QED
    BY <2>4, <2>5
<1>6. Catches(0, x, y, piece, next)
  BY <1>5 DEF Catches
<1>7. x \in 0..(n - 1)
  BY <1>3
<1>8. Holds(Scan(0, n, piece, next), x, y)
  BY <1>2, <1>6, <1>7, ScanHolds DEF piece
<1>9. QED
  BY <1>2, <1>8 DEF piece

\* Sliding spans fit, are all different, and hold what is as short as the overlap.
LEMMA SlidingFacts ==
  ASSUME NEW text, Len(text) \in Nat, NEW limit \in Nat \ {0}, NEW overlap \in 0..(limit - 1)
  PROVE  /\ Neat(SlidingSpans(text, limit, overlap), Fitting(0, Len(text), limit))
         /\ \A x, y : (/\ Firm(text, 0, Len(text), x, y)
                       /\ y <= x + overlap \/ y = x + 1)
                      => Holds(SlidingSpans(text, limit, overlap), x, y)
<1>1. PICK n \in Nat : n = Len(text)
  OBVIOUS
<1>2. PICK step \in 1..limit : step = limit - overlap
  OBVIOUS
<1> DEFINE windows == Windows(text, limit, step)
           F == Fitting(0, n, limit)
<1>3. windows \in Seq(Spans) /\ Range(windows) \subseteq F /\ Sorted(windows, Climbing)
  BY <1>1, WindowsFacts
<1>4. SlidingSpans(text, limit, overlap) = Join(windows, Same)
  BY <1>2 DEF SlidingSpans
<1>5. Closed(F, Same)
  <2>1. ASSUME NEW p \in F, NEW q \in F, <<p, q>> \in Same PROVE Both(p, q) \in F
    <3>1. p = q /\ p \in Spans
      BY <2>1 DEF Same, Fitting, Within
    <3>2. Both(p, q) = p
      BY <3>1 DEF Both, Spans
    <3>3. QED
      BY <2>1, <3>2
  <2>2. F \subseteq Spans
    BY DEF Fitting, Within
  <2> HIDE DEF F
  <2>3. QED
    BY <2>1, <2>2 DEF Closed
<1> HIDE DEF windows, F
<1>6. Joinable(windows, Same, F)
  <2>1. \A i \in 1..Len(windows) : windows[i] \in F
    BY <1>3, Elements
  <2>2. InOrderOf(windows)
    BY <1>3 DEF InOrderOf, Sorted, Climbing
  <2>3. QED
    BY <1>3, <1>5, <2>1, <2>2 DEF Joinable
<1>7. Neat(Join(windows, Same), F)
  <2>1. NoTwice(Join(windows, Same))
    BY <1>6, JoinNoTwice
  <2>2. QED
    BY <1>6, <2>1, JoinFacts DEF Neat
<1>8. ASSUME NEW x, NEW y, Firm(text, 0, n, x, y), y <= x + overlap \/ y = x + 1
      PROVE  Holds(Join(windows, Same), x, y)
  <2>1. x \in Int /\ y \in Int
    BY <1>8 DEF Firm
  <2>2. y <= x + (limit - step) \/ y = x + 1
    BY <1>2, <1>8, <2>1
  <2>3. Holds(windows, x, y)
    BY <1>1, <1>8, <2>2, WindowsHold DEF windows
  <2>4. QED
    BY <1>6, <2>1, <2>3, JoinHolds
<1>9. QED
  BY <1>1, <1>4, <1>7, <1>8 DEF F

-----------------------------------------------------------------------------
(* Rows *)

\* Text of a region without white space.
Unbroken(text, a, b, x, y) == Firm(text, a, b, x, y) /\ \A i \in x..(y - 1) : InkAt(text, i)

\* The rows of a table hold whatever has no white space in it.
LEMMA RowsFacts ==
  ASSUME NEW text, Len(text) \in Nat
  PROVE  /\ Neat(TableRows(text), Within(0, Len(text)))
         /\ \A x, y : Unbroken(text, 0, Len(text), x, y) => Holds(TableRows(text), x, y)
<1>1. PICK n \in Nat : n = Len(text)
  OBVIOUS
<1> DEFINE ends  == {j \in 0..n : j = n \/ At(text, j) = "\n"}
           end   == [i \in 0..n |-> Min({j \in ends : j = n \/ Ink(text, i, j) # {}})]
           piece == [i \in 0..n |-> IF Ink(text, i, end[i]) = {} THEN <<>> ELSE << <<i, end[i]>> >>]
           next  == [i \in 0..n |-> end[i] + 1]
<1>2. TableRows(text) = Scan(0, n + 1, piece, next)
  BY <1>1 DEF TableRows
<1>3. ASSUME NEW i \in 0..n
      PROVE  /\ end[i] \in i..n /\ (end[i] = n \/ At(text, end[i]) = "\n")
             /\ (Ink(text, i, end[i]) = {} => end[i] = n)
             /\ (Ink(text, i, end[i]) # {} => i < end[i])
  <2> DEFINE S == {j \in ends : j = n \/ Ink(text, i, j) # {}}
  <2>1. end[i] = Min(S)
    OBVIOUS
  <2>2. S \in SUBSET (0..n) /\ n \in S
    <3>1. n \in 0..n
      BY <1>1
    <3>2. QED
      BY <3>1
  <2>3. \A j \in S : (j = n \/ Ink(text, i, j) # {}) /\ (j = n \/ At(text, j) = "\n")
    OBVIOUS
  <2> HIDE DEF S, end
  <2>4. Min(S) \in S
    <3>1. S # {} /\ 0 \in Int /\ n \in Int
      BY <2>2
    <3>2. QED
      BY <2>2, <3>1, Extremes
  <2>5. Ink(text, i, end[i]) # {} => i < end[i]
    <3>1. end[i] \in 0..n
      BY <2>1, <2>2, <2>4
    <3>2. SUFFICES ASSUME NEW k \in Ink(text, i, end[i]) PROVE i < end[i]
      OBVIOUS
    <3>3. QED
      BY <3>1 DEF Ink
  <2>6. PICK e \in 0..n : e = end[i]
    BY <2>1, <2>2, <2>4
  <2>7. /\ e = n \/ At(text, e) = "\n"
        /\ Ink(text, i, e) = {} => e = n
        /\ Ink(text, i, e) # {} => i < e
    BY <2>1, <2>3, <2>4, <2>5, <2>6
  <2>8. e \in i..n
    BY <2>7
  <2>9. QED
    BY <2>6, <2>7, <2>8
<1>4. ASSUME NEW i \in 0..n
      PROVE  /\ next[i] = end[i] + 1
             /\ piece[i] = IF Ink(text, i, end[i]) = {} THEN <<>> ELSE << <<i, end[i]>> >>
  OBVIOUS
<1> HIDE DEF ends, end, piece, next
<1>5. ASSUME NEW i \in 0..n
      PROVE  /\ piece[i] \in Seq(Spans) /\ Len(piece[i]) \in {0, 1}
             /\ \A s \in Range(piece[i]) : s \in Within(0, n) /\ s = <<i, end[i]>>
             /\ Ink(text, i, end[i]) # {} => <<i, end[i]>> \in Range(piece[i])
  <2>1. CASE Ink(text, i, end[i]) = {}
    <3>1. piece[i] = <<>>
      BY <1>4, <2>1
    <3>2. QED
      BY <2>1, <3>1, NoElements
  <2>2. CASE Ink(text, i, end[i]) # {}
    <3> DEFINE s == <<i, end[i]>>
    <3>1. piece[i] = <<s>>
      BY <1>4, <2>2
    <3>2. s \in Spans /\ s \in Within(0, n)
      <4>1. PICK e \in 0..n : e = end[i] /\ i < e
        BY <1>3, <2>2
      <4>2. <<i, e>> \in Within(0, n) /\ <<i, e>> \in Spans
        BY <4>1 DEF Within, Spans
      <4>3. QED
        BY <4>1, <4>2
    <3>3. s = <<i, end[i]>>
      OBVIOUS
    <3> HIDE DEF s
    <3>4. <<s>> \in Seq(Spans) /\ Len(<<s>>) = 1 /\ Range(<<s>>) = {s}
      BY <3>2, Singleton
    <3>5. QED
      BY <3>1, <3>2, <3>3, <3>4
  <2>3. QED
    BY <2>1, <2>2
<1>6. PICK b \in Nat : b = n + 1 /\ \A i : i \in 0..(b - 1) <=> i \in 0..n
  OBVIOUS
<1>7. Scannable(Spans, 0, b, piece, next)
  <2>1. ASSUME NEW i \in 0..(b - 1) PROVE next[i] \in (i + 1)..b /\ piece[i] \in Seq(Spans)
    <3>1. i \in 0..n
      BY <1>6
    <3>2. next[i] = end[i] + 1 /\ end[i] \in i..n /\ piece[i] \in Seq(Spans)
      BY <1>3, <1>4, <1>5, <3>1
    <3>3. QED
      BY <1>6, <3>1, <3>2
  <2>2. QED
    BY <1>6, <2>1 DEF Scannable
<1>8. /\ Scan(0, b, piece, next) \in Seq(Spans)
      /\ FoundIn(Scan(0, b, piece, next), piece, 0, b)
  BY <1>7, ScanFinds
<1>9. Range(Scan(0, b, piece, next)) \subseteq Within(0, n)
  BY <1>5, <1>6, <1>8 DEF FoundIn
<1>10. SortedPieces(0, b, piece, Apart)
  <2>1. ASSUME NEW i \in 0..(b - 1) PROVE Sorted(piece[i], Apart)
    <3>1. Len(piece[i]) \in {0, 1}
      BY <1>5, <1>6
    <3>2. QED
      BY <3>1, SortedShort
  <2>2. QED
    BY <2>1 DEF SortedPieces
<1>11. Follows(0, b, piece, next, Apart)
  <2>1. ASSUME NEW i \in 0..(b - 1), NEW j \in 0..(b - 1), next[i] <= j,
               NEW s \in Range(piece[i]), NEW t \in Range(piece[j])
        PROVE  <<s, t>> \in Apart
    <3>1. i \in 0..n /\ j \in 0..n
      BY <1>6
    <3>2. s \in Spans /\ t \in Spans /\ s = <<i, end[i]>> /\ t = <<j, end[j]>>
      BY <1>5, <3>1 DEF Within
    <3>3. end[i] <= j
      <4>1. end[i] \in Nat /\ next[i] = end[i] + 1 /\ j \in Nat
        <5>1. end[i] \in i..n /\ next[i] = end[i] + 1
          BY <1>3, <1>4, <3>1
        <5>2. QED
          BY <3>1, <5>1
      <4>2. QED
        BY <2>1, <4>1
    <3>4. QED
      BY <3>2, <3>3 DEF Apart, Pairs
  <2>2. QED
    BY <2>1 DEF Follows
<1>12. Sorted(Scan(0, b, piece, next), Apart)
  BY <1>7, <1>10, <1>11, ScanSorted
<1>13. Neat(Scan(0, b, piece, next), Within(0, n))
  BY <1>8, <1>9, <1>12, ApartNeat
<1>14. ASSUME NEW x, NEW y, Unbroken(text, 0, n, x, y)
       PROVE  Holds(Scan(0, b, piece, next), x, y)
  <2>1. /\ x \in Nat /\ y \in Nat /\ x < y /\ y <= n
        /\ \A i \in x..(y - 1) : InkAt(text, i)
    BY <1>14 DEF Unbroken, Firm
  <2>2. ASSUME NEW i \in 0..x PROVE next[i] <= x \/ Holds(piece[i], x, y)
    <3>1. i \in 0..n /\ i <= x /\ i \in Nat
      BY <1>1, <2>1
    <3>2. /\ end[i] \in i..n /\ (end[i] = n \/ At(text, end[i]) = "\n")
          /\ (Ink(text, i, end[i]) = {} => end[i] = n)
      BY <1>3, <3>1
    <3>3. PICK e \in Nat : e = end[i]
      BY <3>1, <3>2
    <3>4. next[i] = e + 1
      BY <1>4, <3>1, <3>3
    <3>5. e \notin x..(y - 1)
      <4>1. CASE e = n
        BY <2>1, <4>1
      <4>2. CASE At(text, e) = "\n"
        BY <2>1, <4>2 DEF InkAt, IsSpace
      <4>3. QED
        BY <3>2, <3>3, <4>1, <4>2
    <3>6. CASE e < x
      BY <2>1, <3>3, <3>4, <3>6
    <3>7. CASE y <= e
      <4>1. x < e /\ InkAt(text, x)
        BY <2>1, <3>3, <3>7
      <4>2. x \in Ink(text, i, e)
        BY <2>1, <3>1, <4>1, InkElement
      <4>3. <<i, e>> \in Range(piece[i])
        BY <1>5, <3>1, <3>3, <4>2
      <4>4. QED
        BY <3>1, <3>7, <4>3 DEF Holds
    <3>8. QED
      BY <2>1, <3>3, <3>5, <3>6, <3>7
  <2>3. Catches(0, x, y, piece, next)
    BY <2>2 DEF Catches
  <2>4. x \in 0..(b - 1)
    BY <1>6, <2>1
  <2>5. QED
    BY <1>7, <2>3, <2>4, ScanHolds
<1>15. QED
  BY <1>1, <1>2, <1>6, <1>13, <1>14

-----------------------------------------------------------------------------
(* Boundaries *)

SpaceAt(text, a, b) == {i \in a..(b - 1) : IsSpace(At(text, i))}

\* Every separator begins with white space.
LEMMA SeparatorsAreSpace ==
  ASSUME NEW text, NEW a \in Nat, NEW b \in Nat
  PROVE  /\ BlankLines(text, a, b) \subseteq SpaceAt(text, a, b)
         /\ Newlines(text, a, b) \subseteq SpaceAt(text, a, b)
         /\ SentenceGaps(text, a, b) \subseteq SpaceAt(text, a, b)
         /\ Gaps(text, a, b) \subseteq SpaceAt(text, a, b)
<1>1. \A i : At(text, i) = "\n" => IsSpace(At(text, i))
  BY DEF IsSpace
<1>2. BlankLines(text, a, b) \subseteq SpaceAt(text, a, b)
  BY <1>1 DEF BlankLines, SpaceAt
<1>3. Newlines(text, a, b) \subseteq SpaceAt(text, a, b)
  BY <1>1 DEF Newlines, SpaceAt
<1>4. \A i \in (a + 1)..(b - 1) : i \in a..(b - 1)
  OBVIOUS
<1>5. SentenceGaps(text, a, b) \subseteq SpaceAt(text, a, b)
  BY <1>4 DEF SentenceGaps, SpaceAt
<1>6. Gaps(text, a, b) \subseteq SpaceAt(text, a, b)
  BY DEF Gaps, SpaceAt
<1>7. QED
  BY <1>2, <1>3, <1>5, <1>6

\* Where there is no gap there is no white space.
LEMMA NoGapNoSpace ==
  ASSUME NEW text, NEW a \in Nat, NEW b \in Nat, Gaps(text, a, b) = {}
  PROVE  SpaceAt(text, a, b) = {}
<1> DEFINE W == SpaceAt(text, a, b)
<1>1. SUFFICES ASSUME W # {} PROVE FALSE
  OBVIOUS
<1>2. PICK c \in Int : c = b - 1
  OBVIOUS
<1>3. W \in SUBSET (a..c) /\ a \in Int
  BY <1>2 DEF SpaceAt
<1>4. \A i : i \in W <=> i \in a..(b - 1) /\ IsSpace(At(text, i))
  BY DEF SpaceAt
<1> HIDE DEF W
<1>5. Min(W) \in W /\ \A x \in W : Min(W) <= x
  BY <1>1, <1>2, <1>3, Extremes
<1>6. PICK w \in W : \A x \in W : w <= x
  BY <1>5
<1>7. w \in a..(b - 1) /\ IsSpace(At(text, w))
  BY <1>4
<1>8. w = a \/ ~IsSpace(At(text, w - 1))
  <2>1. w # a => w - 1 \in a..(b - 1) /\ ~(w <= w - 1)
    BY <1>7
  <2>2. QED
    BY <1>4, <1>6, <2>1
<1>9. w \in Gaps(text, a, b)
  BY <1>7, <1>8 DEF Gaps
<1>10. QED
  BY <1>9

\* The boundary in a window that begins with text is behind its first character, and
\* white space if there is any in the window.
LEMMA BoundaryFacts ==
  ASSUME NEW text, NEW a \in Nat, NEW b \in Nat, a + 1 < b, InkAt(text, a)
  PROVE  /\ Boundary(text, a, b) \in (a + 1)..(b - 1)
         /\ \/ IsSpace(At(text, Boundary(text, a, b)))
            \/ Boundary(text, a, b) = b - 1 /\ SpaceAt(text, a, b) = {}
<1> DEFINE S1 == BlankLines(text, a, b)
           S2 == Newlines(text, a, b)
           S3 == SentenceGaps(text, a, b)
           S4 == Gaps(text, a, b)
           S5 == {b - 1}
           W  == SpaceAt(text, a, b)
<1>1. S1 \subseteq W /\ S2 \subseteq W /\ S3 \subseteq W /\ S4 \subseteq W
  BY SeparatorsAreSpace
<1>2. PICK c \in Nat : c = b - 1 /\ S5 = {c}
  OBVIOUS
<1>3. \A i \in W : i \in (a + 1)..c /\ IsSpace(At(text, i))
  <2>1. \A i \in W : i \in a..c /\ IsSpace(At(text, i))
    BY <1>2 DEF SpaceAt
  <2>2. \A i \in W : i # a
    BY <2>1 DEF InkAt
  <2>3. QED
    BY <1>2, <2>1, <2>2
<1>4. S4 = {} => W = {}
  BY NoGapNoSpace
<1>5. Boundary(text, a, b) = Max(FirstOf(<<S1, S2, S3, S4, S5>>))
  BY DEF Boundary
<1> HIDE DEF S1, S2, S3, S4, S5, W
<1> DEFINE T == <<S1, S2, S3, S4, S5>>
           I == {i \in DOMAIN T : T[i] # {}}
<1>6. FirstOf(T) = T[Min(I)]
  BY DEF FirstOf
<1>7. DOMAIN T = 1..5 /\ T[1] = S1 /\ T[2] = S2 /\ T[3] = S3 /\ T[4] = S4 /\ T[5] = S5
  OBVIOUS
<1> HIDE DEF T
<1>8. I \in SUBSET (1..5) /\ 5 \in I
  <2>1. S5 # {} /\ 5 \in 1..5
    BY <1>2
  <2>2. QED
    BY <1>7, <2>1
<1>9. Min(I) \in I /\ \A x \in I : Min(I) <= x
  <2> HIDE DEF I
  <2>1. I # {} /\ 1 \in Int /\ 5 \in Int
    BY <1>8
  <2>2. QED
    BY <1>8, <2>1, Extremes
<1>10. PICK m \in 1..5 : m = Min(I) /\ T[m] # {} /\ (m = 5 => S4 = {})
  <2>1. \A i \in DOMAIN T : T[i] # {} => i \in I
    OBVIOUS
  <2>2. \A i \in I : T[i] # {}
    OBVIOUS
  <2> HIDE DEF I
  <2>3. S4 # {} => 4 \in I
    <3>1. 4 \in 1..5
      OBVIOUS
    <3>2. QED
      BY <1>7, <2>1, <3>1
  <2>4. Min(I) \in 1..5
    BY <1>8, <1>9
  <2>5. Min(I) = 5 => S4 = {}
    <3>1. ASSUME Min(I) = 5, S4 # {} PROVE FALSE
      <4>1. 5 <= 4
        BY <1>9, <2>3, <3>1
      <4>2. QED
        BY <4>1
    <3>2. QED
      BY <3>1
  <2>6. QED
    BY <1>9, <2>2, <2>4, <2>5
<1> DEFINE F == FirstOf(T)
<1>11. F # {} /\ (F \subseteq W \/ (F = {c} /\ W = {}))
  <2>1. F = T[m]
    BY <1>6, <1>10
  <2>2. CASE m = 5
    BY <1>2, <1>4, <1>7, <1>10, <2>1, <2>2
  <2>3. CASE m # 5
    <3>1. m = 1 \/ m = 2 \/ m = 3 \/ m = 4
      BY <2>3
    <3>2. F \subseteq W
      BY <1>1, <1>7, <2>1, <3>1
    <3>3. QED
      BY <1>10, <2>1, <3>2
  <2>4. QED
    BY <2>2, <2>3
<1>12. F \in SUBSET ((a + 1)..c)
  <2>1. c \in (a + 1)..c
    BY <1>2
  <2>2. QED
    BY <1>3, <1>11, <2>1
<1>13. Boundary(text, a, b) = Max(F)
  BY <1>5 DEF T
<1> HIDE DEF F
<1>14. Max(F) \in F
  <2>1. a + 1 \in Int /\ c \in Int
    OBVIOUS
  <2>2. PICK d \in Int : d = a + 1
    BY <2>1
  <2>3. F \in SUBSET (d..c)
    BY <1>12, <2>2
  <2>4. QED
    BY <1>11, <2>1, <2>3, Extremes
<1>15. PICK B : B = Boundary(text, a, b) /\ B \in F
  BY <1>13, <1>14
<1>16. B \in (a + 1)..c /\ (IsSpace(At(text, B)) \/ (B = c /\ W = {}))
  BY <1>3, <1>11, <1>12, <1>15
<1>17. QED
  BY <1>2, <1>15, <1>16 DEF W

-----------------------------------------------------------------------------
(* Recursive cuts *)

\* Text that no strategy but the windows cuts: a character, or a word that fits.
Solid(text, x, y, limit) ==
  /\ x \in Nat /\ y \in Nat /\ x < y
  /\ \A i \in x..(y - 1) : InkAt(text, i)
  /\ y = x + 1 \/ (y - x <= limit /\ (x = 0 \/ IsSpace(At(text, x - 1))))

NextBoundary(text, a, b, limit) ==
  [i \in a..(b - 1) |->
     LET rest == Trimmed(text, i, b)
     IN IF rest = <<>> \/ Length(rest[1]) <= limit
          THEN b
          ELSE Boundary(text, rest[1][1], rest[1][1] + limit + 1)]

\* Where the cursor goes on: at the end, or at a boundary behind the rest's begin.
AtEnd(text, i, b, next, limit) ==
  next = b /\ \A s \in Range(Trimmed(text, i, b)) : Length(s) <= limit

AtBoundary(text, i, b, next, limit) ==
  \E r \in i..(b - 1) :
    /\ next \in (r + 1)..(r + limit) /\ r + limit < b
    /\ \A k \in i..(r - 1) : ~InkAt(text, k)
    /\ \/ IsSpace(At(text, next))
       \/ next = r + limit /\ SpaceAt(text, r, r + limit + 1) = {}

\* The cursor of the recursive strategy goes to the end or to a boundary.
LEMMA NextBoundaries ==
  ASSUME NEW text, NEW a \in Nat, NEW b \in Nat, NEW limit \in Nat \ {0}, NEW i \in a..(b - 1)
  PROVE  \/ AtEnd(text, i, b, NextBoundary(text, a, b, limit)[i], limit)
         \/ AtBoundary(text, i, b, NextBoundary(text, a, b, limit)[i], limit)
<1> DEFINE rest == Trimmed(text, i, b)
           next == NextBoundary(text, a, b, limit)[i]
<1>0. i \in Nat
  OBVIOUS
<1>1. next = IF rest = <<>> \/ Length(rest[1]) <= limit
               THEN b ELSE Boundary(text, rest[1][1], rest[1][1] + limit + 1)
  BY DEF NextBoundary
<1>2. /\ rest \in Seq(Spans) /\ Len(rest) \in {0, 1} /\ Range(rest) \subseteq Tight(text, i, b)
  BY <1>0, TrimmedFacts
<1> HIDE DEF next
<1>3. CASE rest = <<>>
  <2>1. Range(rest) = {}
    BY <1>3, NoElements
  <2>2. QED
    BY <1>1, <1>3, <2>1 DEF next, AtEnd
<1>4. CASE rest # <<>>
  <2> DEFINE s == rest[1]
  <2>1. Len(rest) = 1 /\ s \in Range(rest) /\ \A t \in Range(rest) : t = s
    <3>1. Len(rest) = 1
      BY <1>2, <1>4, NonEmpty
    <3>2. 1 \in 1..Len(rest) /\ \A k \in 1..Len(rest) : k = 1
      BY <3>1
    <3> HIDE DEF rest
    <3>3. s \in Range(rest)
      BY <1>2, <3>2, Elements
    <3>4. ASSUME NEW t \in Range(rest) PROVE t = s
      <4>1. PICK k \in 1..Len(rest) : t = rest[k]
        BY <1>2, Elements
      <4>2. QED
        BY <3>2, <4>1
    <3>5. QED
      BY <3>1, <3>3, <3>4
  <2>2. s \in Tight(text, i, b)
    BY <1>2, <2>1
  <2>3. CASE Length(s) <= limit
    <3>1. next = b
      BY <1>1, <2>3
    <3>2. \A t \in Range(rest) : Length(t) <= limit
      BY <2>1, <2>3
    <3>3. QED
      BY <3>1, <3>2 DEF next, AtEnd
  <2>4. CASE ~(Length(s) <= limit)
    <3> DEFINE r == s[1]
    <3>1. /\ r \in Nat /\ s[2] \in Nat /\ i <= r /\ r < s[2] /\ s[2] <= b /\ InkAt(text, r)
          /\ r + limit < s[2] /\ r + limit + 1 \in Nat /\ (r + limit + 1) - 1 = r + limit
      BY <2>2, <2>4 DEF Tight, Within, Spans, Length
    <3>2. next = Boundary(text, r, r + limit + 1)
      BY <1>1, <1>4, <2>4
    <3>3. \A k \in i..(r - 1) : ~InkAt(text, k)
      <4>1. SUFFICES ASSUME NEW k \in i..(r - 1), InkAt(text, k) PROVE FALSE
        OBVIOUS
      <4>2. k \in Int /\ i <= k /\ k < b
        BY <3>1
      <4>3. s[1] <= k
        BY <1>0, <2>1, <4>1, <4>2, TrimmedHull
      <4>4. QED
        BY <3>1, <4>1, <4>3
    <3> HIDE DEF s, r, rest
    <3>4. PICK e \in Nat : e = r + limit + 1 /\ e - 1 = r + limit
      BY <3>1
    <3>5. r + 1 < e
      BY <3>1, <3>4
    <3>6. /\ Boundary(text, r, e) \in (r + 1)..(e - 1)
          /\ \/ IsSpace(At(text, Boundary(text, r, e)))
             \/ Boundary(text, r, e) = e - 1 /\ SpaceAt(text, r, e) = {}
      BY <3>1, <3>5, BoundaryFacts
    <3>7. /\ next \in (r + 1)..(r + limit)
          /\ \/ IsSpace(At(text, next))
             \/ next = r + limit /\ SpaceAt(text, r, r + limit + 1) = {}
      BY <3>2, <3>4, <3>6
    <3>8. r \in i..(b - 1) /\ r + limit < b
      BY <3>1
    <3>9. QED
      BY <3>3, <3>7, <3>8 DEF next, AtBoundary
  <2>5. QED
    BY <2>3, <2>4
<1>5. QED
  BY <1>3, <1>4

\* The cursor of the recursive strategy goes forward: the loop of _recursive_spans
\* ends.
LEMMA RecursiveCursor ==
  ASSUME NEW text, NEW a \in Nat, NEW b \in Nat, a <= b, NEW limit \in Nat \ {0}
  PROVE  Cursor(a, b, NextBoundary(text, a, b, limit))
<1>1. ASSUME NEW i \in a..(b - 1) PROVE NextBoundary(text, a, b, limit)[i] \in (i + 1)..b
  <2> DEFINE next == NextBoundary(text, a, b, limit)[i]
  <2>1. CASE AtEnd(text, i, b, next, limit)
    BY <2>1 DEF AtEnd
  <2>2. CASE AtBoundary(text, i, b, next, limit)
    <3>1. PICK r \in i..(b - 1) : next \in (r + 1)..(r + limit) /\ r + limit < b
      BY <2>2 DEF AtBoundary
    <3> HIDE DEF next
    <3>2. next \in (i + 1)..b
      BY <3>1
    <3>3. QED
      BY <3>2 DEF next
  <2>3. QED
    BY <2>1, <2>2, NextBoundaries
<1>2. QED
  BY <1>1 DEF Cursor

\* The recursive strategy, by the name of its cursor.
LEMMA RecursiveSliced ==
  ASSUME NEW text, NEW a, NEW b, NEW limit
  PROVE  RecursiveSpans(text, a, b, limit) = Sliced(text, a, b, NextBoundary(text, a, b, limit))
BY DEF RecursiveSpans, NextBoundary

\* A long text is cut into short spans.
LEMMA RecursiveShort ==
  ASSUME NEW text, NEW a \in Nat, NEW b \in Nat, a <= b, NEW limit \in Nat \ {0}
  PROVE  /\ Neat(RecursiveSpans(text, a, b, limit), Fitting(a, b, limit))
         /\ Sorted(RecursiveSpans(text, a, b, limit), Apart)
<1> DEFINE next == NextBoundary(text, a, b, limit)
<1>1. Cursor(a, b, next)
  BY RecursiveCursor
<1>2. ASSUME NEW i \in a..(b - 1), NEW s \in Range(Trimmed(text, i, next[i]))
      PROVE  Length(s) <= limit
  <2>1. CASE AtEnd(text, i, b, next[i], limit)
    BY <1>2, <2>1 DEF AtEnd
  <2>2. CASE AtBoundary(text, i, b, next[i], limit)
    <3>1. PICK r \in i..(b - 1) : /\ next[i] \in (r + 1)..(r + limit)
                                  /\ \A k \in i..(r - 1) : ~InkAt(text, k)
      BY <2>2 DEF AtBoundary
    <3> HIDE DEF next
    <3>2. i \in Nat /\ r \in Nat /\ next[i] \in Nat /\ next[i] <= r + limit
      BY <3>1
    <3>3. s \in Tight(text, i, next[i])
      BY <1>2, <3>2, TrimmedFacts
    <3>4. /\ s[1] \in Nat /\ s[2] \in Nat /\ i <= s[1] /\ s[1] < s[2] /\ s[2] <= next[i]
          /\ InkAt(text, s[1])
      BY <3>3 DEF Tight, Within, Spans
    <3>5. r <= s[1]
      <4>1. s[1] \in i..(r - 1) \/ r <= s[1]
        BY <3>2, <3>4
      <4>2. QED
        BY <3>1, <3>4, <4>1
    <3>6. QED
      BY <3>2, <3>4, <3>5 DEF Length
  <2>3. QED
    BY <2>1, <2>2, NextBoundaries
<1>3. limit \in Int
  OBVIOUS
<1> HIDE DEF next
<1>4. /\ Neat(Sliced(text, a, b, next), Fitting(a, b, limit))
      /\ Sorted(Sliced(text, a, b, next), Apart)
  BY <1>1, <1>2, <1>3, SlicedShort
<1>5. QED
  BY <1>4, RecursiveSliced DEF next

\* What is short enough, and neither character nor word that fits, is cut.
LEMMA RecursiveHolds ==
  ASSUME NEW text, NEW a \in Nat, NEW b \in Nat, a <= b, NEW limit \in Nat \ {0},
         NEW x, NEW y, Firm(text, a, b, x, y), Solid(text, x, y, limit) \/ b - a <= limit
  PROVE  Holds(RecursiveSpans(text, a, b, limit), x, y)
<1> DEFINE next == NextBoundary(text, a, b, limit)
<1>1. Cursor(a, b, next)
  BY RecursiveCursor
<1>2. x \in Nat /\ y \in Nat /\ a <= x /\ x < y /\ y <= b
  BY DEF Firm
<1>3. ASSUME NEW i \in a..x PROVE next[i] <= x \/ y <= next[i]
  <2>0. i \in a..(b - 1) /\ i \in Nat /\ i <= x
    BY <1>2
  <2>1. CASE AtEnd(text, i, b, next[i], limit)
    BY <1>2, <2>1 DEF AtEnd
  <2>2. CASE AtBoundary(text, i, b, next[i], limit)
    <3>1. PICK r \in i..(b - 1) :
               /\ next[i] \in (r + 1)..(r + limit) /\ r + limit < b
               /\ \A k \in i..(r - 1) : ~InkAt(text, k)
               /\ \/ IsSpace(At(text, next[i]))
                  \/ next[i] = r + limit /\ SpaceAt(text, r, r + limit + 1) = {}
      BY <2>2 DEF AtBoundary
    <3> HIDE DEF next
    <3>2. r \in Nat /\ next[i] \in Nat /\ i <= r /\ r < next[i] /\ next[i] <= r + limit
      BY <2>0, <3>1
    <3>3. Solid(text, x, y, limit)
      <4>1. CASE b - a <= limit
        <5>1. a <= r
          BY <2>0, <3>2
        <5>2. QED
          BY <3>1, <3>2, <4>1, <5>1
      <4>2. QED
        BY <4>1
    <3>4. SUFFICES ASSUME x < next[i], next[i] < y PROVE FALSE
      BY <1>2, <3>2
    <3>5. \A k \in x..(y - 1) : InkAt(text, k)
      BY <3>3 DEF Solid
    <3>6. next[i] \in x..(y - 1)
      BY <1>2, <3>2, <3>4
    <3>7. ~IsSpace(At(text, next[i]))
      BY <3>5, <3>6 DEF InkAt
    <3>8. next[i] = r + limit /\ SpaceAt(text, r, r + limit + 1) = {}
      BY <3>1, <3>7
    <3>9. y - x <= limit /\ (x = 0 \/ IsSpace(At(text, x - 1)))
      <4>1. y # x + 1
        BY <1>2, <3>2, <3>4
      <4>2. QED
        BY <3>3, <4>1 DEF Solid
    <3>10. r <= x
      <4>1. InkAt(text, x)
        BY DEF Firm
      <4>2. x \in i..(r - 1) \/ r <= x
        BY <1>2, <2>0, <3>2
      <4>3. QED
        BY <3>1, <4>1, <4>2
    <3>11. x = r
      <4>1. SUFFICES ASSUME x # r PROVE FALSE
        OBVIOUS
      <4>2. x # 0 /\ x - 1 \in r..(r + limit + 1 - 1)
        BY <1>2, <3>2, <3>4, <3>8, <3>10, <4>1
      <4>3. x - 1 \in SpaceAt(text, r, r + limit + 1)
        BY <3>9, <4>2 DEF SpaceAt
      <4>4. QED
        BY <3>8, <4>3
    <3>12. QED
      BY <1>2, <3>2, <3>4, <3>8, <3>9, <3>11
  <2>3. QED
    BY <2>0, <2>1, <2>2, NextBoundaries
<1> HIDE DEF next
<1>4. Uncut(a, x, y, next)
  BY <1>3 DEF Uncut
<1>5. Holds(Sliced(text, a, b, next), x, y)
  BY <1>1, <1>4, SlicedHolds
<1>6. QED
  BY <1>5, RecursiveSliced DEF next

-----------------------------------------------------------------------------
(* Units *)

\* A list of pieces of a region, apart from each other.
PieceList(text, list, a, b) ==
  list \in Seq(Spans) /\ Range(list) \subseteq Tight(text, a, b) /\ Sorted(list, Apart)

\* A region holds what its pieces hold.
SolidIn(text, a, b, x, y, limit) == Firm(text, a, b, x, y) /\ Solid(text, x, y, limit)

\* Paragraphs are pieces, and no word is cut between them.
LEMMA ParagraphFacts ==
  ASSUME NEW text, NEW a \in Nat, NEW b \in Nat, a <= b
  PROVE  /\ PieceList(text, Paragraphs(text, a, b), a, b)
         /\ \A x, y, limit : SolidIn(text, a, b, x, y, limit) => Holds(Paragraphs(text, a, b), x, y)
<1> DEFINE cuts == BlankLines(text, a, b)
<1>1. \A c \in cuts : c \in a..(b - 1) /\ IsSpace(At(text, c))
  BY SeparatorsAreSpace DEF SpaceAt
<1> HIDE DEF cuts
<1>2. cuts \subseteq a..b
  BY <1>1
<1>3. Paragraphs(text, a, b) = Pieces(text, a, b, cuts)
  BY DEF Paragraphs, cuts
<1>4. ASSUME NEW x, NEW y, NEW limit, SolidIn(text, a, b, x, y, limit)
      PROVE  Holds(Pieces(text, a, b, cuts), x, y)
  <2>1. Firm(text, a, b, x, y) /\ x \in Nat /\ y \in Nat /\ \A i \in x..(y - 1) : InkAt(text, i)
    BY <1>4 DEF SolidIn, Solid
  <2>2. ASSUME NEW c \in cuts PROVE c <= x \/ y <= c
    <3>1. c \in Int /\ c \notin x..(y - 1)
      BY <1>1, <2>1 DEF InkAt
    <3>2. QED
      BY <2>1, <3>1
  <2>3. QED
    BY <1>2, <2>1, <2>2, PiecesHold
<1>5. QED
  BY <1>2, <1>3, <1>4, PiecesFacts DEF PieceList

\* Sentences are pieces, and no word is cut between them.
LEMMA SentenceFacts ==
  ASSUME NEW text, NEW a \in Nat, NEW b \in Nat, a <= b
  PROVE  /\ PieceList(text, Sentences(text, a, b), a, b)
         /\ \A x, y, limit : SolidIn(text, a, b, x, y, limit) => Holds(Sentences(text, a, b), x, y)
<1> DEFINE cuts == {i \in (a + 1)..b : At(text, i - 1) = "." /\ (i = b \/ IsSpace(At(text, i)))}
<1>1. \A c \in cuts : c \in (a + 1)..b /\ (c = b \/ IsSpace(At(text, c)))
  OBVIOUS
<1>3. Sentences(text, a, b) = Pieces(text, a, b, cuts)
  BY DEF Sentences
<1> HIDE DEF cuts
<1>2. cuts \subseteq a..b
  BY <1>1
<1>4. ASSUME NEW x, NEW y, NEW limit, SolidIn(text, a, b, x, y, limit)
      PROVE  Holds(Pieces(text, a, b, cuts), x, y)
  <2>1. /\ Firm(text, a, b, x, y) /\ x \in Nat /\ y \in Nat /\ y <= b
        /\ \A i \in x..(y - 1) : InkAt(text, i)
    BY <1>4 DEF SolidIn, Solid, Firm
  <2>2. ASSUME NEW c \in cuts PROVE c <= x \/ y <= c
    <3>1. c \in Int /\ (c = b \/ c \notin x..(y - 1))
      BY <1>1, <2>1 DEF InkAt
    <3>2. QED
      BY <2>1, <3>1
  <2>3. QED
    BY <1>2, <2>1, <2>2, PiecesHold
<1>5. QED
  BY <1>2, <1>3, <1>4, PiecesFacts DEF PieceList

\* Sections are pieces, and no word is cut between them.
LEMMA SectionFacts ==
  ASSUME NEW text, Len(text) \in Nat
  PROVE  /\ PieceList(text, Sections(text), 0, Len(text))
         /\ \A x, y, limit : SolidIn(text, 0, Len(text), x, y, limit) => Holds(Sections(text), x, y)
<1>0. PICK n \in Nat : n = Len(text)
  OBVIOUS
<1> DEFINE cuts == {i \in 0..(n - 1) : At(text, i) = "#" /\ (i = 0 \/ At(text, i - 1) = "\n")}
<1>1. \A c \in cuts : c \in 0..(n - 1) /\ (c = 0 \/ IsSpace(At(text, c - 1)))
  BY DEF IsSpace
<1>3. Sections(text) = Pieces(text, 0, n, cuts)
  BY <1>0 DEF Sections
<1> HIDE DEF cuts
<1>2. cuts \subseteq 0..n /\ 0 <= n
  BY <1>1
<1>4. ASSUME NEW x, NEW y, NEW limit, SolidIn(text, 0, n, x, y, limit)
      PROVE  Holds(Pieces(text, 0, n, cuts), x, y)
  <2>1. /\ Firm(text, 0, n, x, y) /\ x \in Nat /\ y \in Nat
        /\ \A i \in x..(y - 1) : InkAt(text, i)
    BY <1>4 DEF SolidIn, Solid
  <2>2. ASSUME NEW c \in cuts PROVE c <= x \/ y <= c
    <3>1. c \in Nat /\ (c = 0 \/ c - 1 \notin x..(y - 1))
      BY <1>1, <2>1 DEF InkAt
    <3>2. QED
      BY <2>1, <3>1
  <2>3. QED
    BY <1>2, <2>1, <2>2, PiecesHold
<1>5. QED
  BY <1>0, <1>2, <1>3, <1>4, PiecesFacts DEF PieceList

-----------------------------------------------------------------------------
(* Lists within the spans of another one *)

\* Lists of spans, one for each span of another list and within it.
Nested(lists, outer) ==
  /\ outer \in Seq(Spans) /\ Sorted(outer, Apart)
  /\ lists \in Seq(Seq(Spans)) /\ Len(lists) = Len(outer)
  /\ \A k \in 1..Len(outer) : Range(lists[k]) \subseteq Within(outer[k][1], outer[k][2])

\* A function of 1..n whose values are lists is a list of lists.
LEMMA ListOfLists ==
  ASSUME NEW n \in Nat, NEW lists, DOMAIN lists = 1..n, lists = [k \in 1..n |-> lists[k]],
         \A k \in 1..n : lists[k] \in Seq(Spans)
  PROVE  lists \in Seq(Seq(Spans)) /\ Len(lists) = n
<1>1. lists \in [1..n -> Seq(Spans)]
  OBVIOUS
<1>2. QED
  BY <1>1, Functional

\* A relation that holds between spans apart from each other.
Spacious(R) == \A s, t \in Spans : (s[1] < s[2] /\ t[1] < t[2] /\ s[2] <= t[1]) => <<s, t>> \in R

\* Apart and ascending are such relations.
LEMMA ApartSpacious ==
  Spacious(Apart) /\ Spacious(Ascending)
<1>1. ASSUME NEW s \in Spans, NEW t \in Spans, s[1] < s[2], t[1] < t[2], s[2] <= t[1]
      PROVE  <<s, t>> \in Apart /\ <<s, t>> \in Ascending
  <2>1. s[1] \in Nat /\ s[2] \in Nat /\ t[1] \in Nat /\ t[2] \in Nat
    BY DEF Spans
  <2>2. s[1] <= t[1] /\ s[2] <= t[2] /\ s[1] # t[1]
    BY <1>1, <2>1
  <2>3. Rising(s, t) /\ s # t
    BY <2>2 DEF Rising
  <2>4. QED
    BY <1>1, <2>3 DEF Apart, Ascending, Pairs
<1>2. QED
  BY <1>1 DEF Spacious

\* Nested lists, sorted, are sorted when they are flattened.
LEMMA NestedSorted ==
  ASSUME NEW lists, NEW outer, Nested(lists, outer), NEW R, Spacious(R),
         \A k \in 1..Len(outer) : Sorted(lists[k], R)
  PROVE  Sorted(FlattenSeq(lists), R)
<1>1. /\ outer \in Seq(Spans) /\ Sorted(outer, Apart)
      /\ lists \in Seq(Seq(Spans)) /\ Len(lists) = Len(outer)
      /\ \A k \in 1..Len(outer) : Range(lists[k]) \subseteq Within(outer[k][1], outer[k][2])
  BY DEF Nested
<1>2. PICK n : n = Len(outer) /\ n = Len(lists)
  BY <1>1
<1>3. ASSUME NEW i \in 1..n, NEW j \in 1..n, i < j,
             NEW s \in Range(lists[i]), NEW t \in Range(lists[j])
      PROVE  <<s, t>> \in R
  <2>1. outer[i] \in Spans /\ outer[j] \in Spans /\ outer[i][2] <= outer[j][1]
    BY <1>1, <1>2, <1>3 DEF Sorted, Apart, Pairs
  <2>2. s \in Within(outer[i][1], outer[i][2]) /\ t \in Within(outer[j][1], outer[j][2])
    BY <1>1, <1>2, <1>3
  <2>3. /\ s \in Spans /\ s[1] < s[2] /\ s[2] <= outer[i][2]
        /\ t \in Spans /\ t[1] < t[2] /\ outer[j][1] <= t[1]
    BY <2>2 DEF Within
  <2>4. s[2] <= t[1]
    <3>1. s[2] \in Nat /\ outer[i][2] \in Nat /\ outer[j][1] \in Nat /\ t[1] \in Nat
      BY <2>1, <2>3 DEF Spans
    <3>2. QED
      BY <2>1, <2>3, <3>1
  <2>5. QED
    BY <2>3, <2>4 DEF Spacious
<1>4. SortedLists(lists, R)
  BY <1>2, <1>3 DEF SortedLists
<1>5. QED
  BY <1>1, <1>4, FlattenedSorted

\* Nested lists, flattened, hold what one of them holds.
LEMMA NestedFacts ==
  ASSUME NEW lists, NEW outer, Nested(lists, outer)
  PROVE  /\ FlattenSeq(lists) \in Seq(Spans)
         /\ \A s \in Range(FlattenSeq(lists)) : \E k \in 1..Len(outer) : s \in Range(lists[k])
         /\ \A k \in 1..Len(outer) : \A x, y :
              Holds(lists[k], x, y) => Holds(FlattenSeq(lists), x, y)
<1>1. lists \in Seq(Seq(Spans)) /\ Len(lists) = Len(outer)
  BY DEF Nested
<1>2. /\ FlattenSeq(lists) \in Seq(Spans)
      /\ \A s : s \in Range(FlattenSeq(lists)) <=> \E i \in 1..Len(lists) : s \in Range(lists[i])
  BY <1>1, Flattened
<1>3. ASSUME NEW k \in 1..Len(outer), NEW x, NEW y, Holds(lists[k], x, y)
      PROVE  Holds(FlattenSeq(lists), x, y)
  <2>1. PICK s \in Range(lists[k]) : s[1] <= x /\ y <= s[2]
    BY <1>3 DEF Holds
  <2>2. s \in Range(FlattenSeq(lists))
    BY <1>1, <1>2
  <2>3. QED
    BY <2>1, <2>2 DEF Holds
<1>4. QED
  BY <1>1, <1>2, <1>3

\* What is within a part of a region is within the region.
LEMMA WithinWithin ==
  ASSUME NEW a \in Nat, NEW b \in Nat, NEW u \in Within(a, b)
  PROVE  /\ Within(u[1], u[2]) \subseteq Within(a, b)
         /\ \A text : Tight(text, u[1], u[2]) \subseteq Tight(text, a, b)
         /\ \A limit : Fitting(u[1], u[2], limit) \subseteq Fitting(a, b, limit)
<1>1. ASSUME NEW s \in Within(u[1], u[2]) PROVE s \in Within(a, b)
  BY DEF Within, Spans
<1>2. QED
  BY <1>1 DEF Tight, Fitting

\* Text that a span of a list holds is text of that span.
LEMMA HeldIn ==
  ASSUME NEW text, NEW list, NEW a \in Nat, NEW b \in Nat, PieceList(text, list, a, b),
         NEW x, NEW y, Firm(text, a, b, x, y), Holds(list, x, y)
  PROVE  \E k \in 1..Len(list) : Firm(text, list[k][1], list[k][2], x, y)
<1>1. PICK s \in Range(list) : s[1] <= x /\ y <= s[2]
  BY DEF Holds
<1>2. PICK k \in 1..Len(list) : s = list[k]
  BY Elements DEF PieceList
<1>3. Firm(text, s[1], s[2], x, y)
  BY <1>1 DEF Firm
<1>4. QED
  BY <1>2, <1>3

\* A piece is within its region, and begins and ends with ink.
LEMMA UnitElement ==
  ASSUME NEW text, NEW list, NEW a \in Nat, NEW b \in Nat, PieceList(text, list, a, b),
         NEW k \in 1..Len(list)
  PROVE  /\ list[k] \in Tight(text, a, b) /\ list[k] \in Within(a, b) /\ list[k] \in Spans
         /\ list[k][1] \in Nat /\ list[k][2] \in Nat /\ list[k][1] < list[k][2]
         /\ a <= list[k][1] /\ list[k][2] <= b
<1>1. list[k] \in Tight(text, a, b)
  BY Elements DEF PieceList
<1>2. QED
  BY <1>1 DEF Tight, Within, Spans

\* A position inside a region is one of it.
LEMMA Inside ==
  ASSUME NEW a \in Nat, NEW b \in Nat, NEW c, c \in (a + 1)..(b - 1)
  PROVE  c \in a..b
<1>1. c \in Int /\ a + 1 <= c /\ c <= b - 1
  OBVIOUS
<1>2. a <= c /\ c <= b
  BY <1>1
<1>3. QED
  BY <1>1, <1>2

\* The clauses of sentences are pieces, and no word is cut between them.
LEMMA ClauseFacts ==
  ASSUME NEW text, NEW a \in Nat, NEW b \in Nat, NEW sentences, PieceList(text, sentences, a, b)
  PROVE  /\ PieceList(text, Clauses(text, sentences), a, b)
         /\ \A x, y, limit : (SolidIn(text, a, b, x, y, limit) /\ Holds(sentences, x, y))
                               => Holds(Clauses(text, sentences), x, y)
<1> DEFINE Cuts(k) == {i \in (sentences[k][1] + 1)..(sentences[k][2] - 1) :
                         At(text, i - 1) = ";" /\ IsSpace(At(text, i))}
           Piece(k) == Pieces(text, sentences[k][1], sentences[k][2], Cuts(k))
           lists == [k \in DOMAIN sentences |-> Piece(k)]
<1>0. PICK n \in Nat : n = Len(sentences) /\ DOMAIN sentences = 1..n
  BY Elements DEF PieceList
<1>u. ASSUME NEW k \in 1..n
      PROVE  /\ sentences[k] \in Within(a, b)
             /\ sentences[k][1] \in Nat /\ sentences[k][2] \in Nat
             /\ sentences[k][1] <= sentences[k][2]
  <2>1. k \in 1..Len(sentences)
    BY <1>0
  <2>2. /\ sentences[k] \in Within(a, b)
        /\ sentences[k][1] \in Nat /\ sentences[k][2] \in Nat
        /\ sentences[k][1] < sentences[k][2]
    BY <2>1, UnitElement
  <2>3. QED
    BY <2>2
<1>1. Clauses(text, sentences) = FlattenSeq(lists)
  BY DEF Clauses
<1>2. ASSUME NEW k \in 1..n
      PROVE  Cuts(k) \subseteq sentences[k][1]..sentences[k][2] /\ \A c \in Cuts(k) : IsSpace(At(text, c))
  <2>1. sentences[k][1] \in Nat /\ sentences[k][2] \in Nat
    BY <1>u
  <2>2. ASSUME NEW c \in Cuts(k)
        PROVE  c \in sentences[k][1]..sentences[k][2] /\ IsSpace(At(text, c))
    <3>1. c \in (sentences[k][1] + 1)..(sentences[k][2] - 1) /\ IsSpace(At(text, c))
      BY <2>2
    <3>2. PICK lo \in Nat, hi \in Nat : lo = sentences[k][1] /\ hi = sentences[k][2]
      BY <2>1
    <3>3. c \in (lo + 1)..(hi - 1)
      BY <3>1, <3>2
    <3>4. c \in lo..hi
      BY <3>3, Inside
    <3>5. QED
      BY <3>1, <3>2, <3>4
  <2>3. QED
    BY <2>2
<1>3. \A k \in 1..n : lists[k] = Piece(k)
  BY <1>0
<1>30. DOMAIN lists = 1..n /\ lists = [k \in 1..n |-> lists[k]]
  BY <1>0
<1> HIDE DEF Cuts, lists
<1>4. ASSUME NEW k \in 1..n
      PROVE  /\ lists[k] \in Seq(Spans) /\ Sorted(lists[k], Apart)
             /\ Range(lists[k]) \subseteq Tight(text, sentences[k][1], sentences[k][2])
  <2>1. sentences[k][1] \in Nat /\ sentences[k][2] \in Nat /\ sentences[k][1] <= sentences[k][2]
    BY <1>u
  <2>2. PICK lo, hi, cuts :
          /\ lo \in Nat /\ hi \in Nat
          /\ lo = sentences[k][1] /\ hi = sentences[k][2] /\ lo <= hi
          /\ cuts = Cuts(k) /\ cuts \subseteq lo..hi
    <3>1. Cuts(k) \subseteq sentences[k][1]..sentences[k][2]
      BY <1>2
    <3>2. QED
      BY <2>1, <3>1
  <2>3. lists[k] = Pieces(text, lo, hi, cuts)
    BY <1>3, <2>2
  <2>4. /\ Pieces(text, lo, hi, cuts) \in Seq(Spans)
        /\ Range(Pieces(text, lo, hi, cuts)) \subseteq Tight(text, lo, hi)
        /\ Sorted(Pieces(text, lo, hi, cuts), Apart)
    BY <2>2, PiecesFacts
  <2>5. QED
    BY <2>2, <2>3, <2>4
<1>5. Nested(lists, sentences)
  <2>1. lists \in Seq(Seq(Spans)) /\ Len(lists) = n
    BY <1>30, <1>4, ListOfLists
  <2>2. \A k \in 1..n : Range(lists[k]) \subseteq Within(sentences[k][1], sentences[k][2])
    BY <1>4 DEF Tight
  <2>3. QED
    BY <1>0, <2>1, <2>2 DEF Nested, PieceList
<1>6. Sorted(FlattenSeq(lists), Apart)
  BY <1>0, <1>4, <1>5, NestedSorted, ApartSpacious
<1>7. FlattenSeq(lists) \in Seq(Spans) /\ Range(FlattenSeq(lists)) \subseteq Tight(text, a, b)
  <2>1. ASSUME NEW s \in Range(FlattenSeq(lists)) PROVE s \in Tight(text, a, b)
    <3>1. PICK k \in 1..n : s \in Range(lists[k])
      BY <1>0, <1>5, NestedFacts
    <3>2. sentences[k] \in Within(a, b)
      BY <1>u
    <3>3. QED
      BY <1>4, <3>1, <3>2, WithinWithin
  <2>2. QED
    BY <1>5, <2>1, NestedFacts
<1>8. ASSUME NEW x, NEW y, NEW limit, SolidIn(text, a, b, x, y, limit), Holds(sentences, x, y)
      PROVE  Holds(FlattenSeq(lists), x, y)
  <2>1. /\ Firm(text, a, b, x, y) /\ x \in Nat /\ y \in Nat
        /\ \A i \in x..(y - 1) : InkAt(text, i)
    BY <1>8 DEF SolidIn, Solid
  <2>2. PICK k \in 1..n : Firm(text, sentences[k][1], sentences[k][2], x, y)
    BY <1>0, <1>8, <2>1, HeldIn
  <2>3. ASSUME NEW c \in Cuts(k) PROVE c <= x \/ y <= c
    <3>1. sentences[k][1] \in Nat /\ sentences[k][2] \in Nat
      BY <1>u
    <3>2. c \in Int /\ c \notin x..(y - 1)
      BY <1>2, <2>1, <3>1 DEF InkAt
    <3>3. QED
      BY <2>1, <3>2
  <2>4. sentences[k][1] \in Nat /\ sentences[k][2] \in Nat /\ sentences[k][1] <= sentences[k][2]
    BY <1>u
  <2>5. Holds(Piece(k), x, y)
    BY <1>2, <2>2, <2>3, <2>4, PiecesHold
  <2>6. QED
    BY <1>0, <1>3, <1>5, <2>5, NestedFacts
<1>9. QED
  BY <1>1, <1>6, <1>7, <1>8 DEF PieceList

-----------------------------------------------------------------------------
(* Bounded units *)

BoundedBy(lists, text, units, limit) ==
  /\ Bounded(text, units, limit) = FlattenSeq(lists)
  /\ Nested(lists, units)
  /\ \A k \in 1..Len(units) :
       /\ lists[k] = RecursiveSpans(text, units[k][1], units[k][2], limit)
       /\ Neat(lists[k], Fitting(units[k][1], units[k][2], limit))
       /\ Sorted(lists[k], Apart)

\* Bounding makes a list of spans within each unit.
LEMMA BoundedNested ==
  ASSUME NEW text, NEW a \in Nat, NEW b \in Nat, NEW units, PieceList(text, units, a, b),
         NEW limit \in Nat \ {0}
  PROVE  \E lists : BoundedBy(lists, text, units, limit)
<1> DEFINE lists == [i \in 1..Len(units) |-> RecursiveSpans(text, units[i][1], units[i][2], limit)]
<1>0. PICK n \in Nat : n = Len(units)
  BY Elements DEF PieceList
<1>1. Bounded(text, units, limit) = FlattenSeq(lists)
  BY DEF Bounded
<1>2. DOMAIN lists = 1..n /\ lists = [k \in 1..n |-> lists[k]]
  BY <1>0
<1>3. \A k \in 1..n : lists[k] = RecursiveSpans(text, units[k][1], units[k][2], limit)
  BY <1>0
<1> HIDE DEF lists
<1>4. ASSUME NEW k \in 1..n
      PROVE  /\ Neat(lists[k], Fitting(units[k][1], units[k][2], limit))
             /\ Sorted(lists[k], Apart)
  <2>1. k \in 1..Len(units)
    BY <1>0
  <2>2. units[k][1] \in Nat /\ units[k][2] \in Nat /\ units[k][1] < units[k][2]
    BY <2>1, UnitElement
  <2>3. PICK lo \in Nat, hi \in Nat : lo = units[k][1] /\ hi = units[k][2] /\ lo <= hi
    BY <2>2
  <2>4. lists[k] = RecursiveSpans(text, lo, hi, limit)
    BY <1>3, <2>3
  <2>5. /\ Neat(RecursiveSpans(text, lo, hi, limit), Fitting(lo, hi, limit))
        /\ Sorted(RecursiveSpans(text, lo, hi, limit), Apart)
    BY <2>3, RecursiveShort
  <2>6. QED
    BY <2>3, <2>4, <2>5
<1>5. \A k \in 1..n : lists[k] \in Seq(Spans)
  BY <1>4 DEF Neat
<1>6. lists \in Seq(Seq(Spans)) /\ Len(lists) = n
  BY <1>2, <1>5, ListOfLists
<1>7. \A k \in 1..n : Range(lists[k]) \subseteq Within(units[k][1], units[k][2])
  <2>1. ASSUME NEW k \in 1..n PROVE Range(lists[k]) \subseteq Fitting(units[k][1], units[k][2], limit)
    BY <1>4, NeatRange
  <2>2. QED
    BY <2>1 DEF Fitting
<1>8. Nested(lists, units)
  <2>1. units \in Seq(Spans) /\ Sorted(units, Apart)
    BY DEF PieceList
  <2>2. QED
    BY <1>0, <1>6, <1>7, <2>1 DEF Nested
<1>9. BoundedBy(lists, text, units, limit)
  BY <1>0, <1>1, <1>3, <1>4, <1>8 DEF BoundedBy
<1>10. QED
  BY <1>9

\* Bounded units fit.
LEMMA BoundedFacts ==
  ASSUME NEW text, NEW a \in Nat, NEW b \in Nat, NEW units, PieceList(text, units, a, b),
         NEW limit \in Nat \ {0}
  PROVE  Neat(Bounded(text, units, limit), Fitting(a, b, limit))
<1>0. PICK lists : BoundedBy(lists, text, units, limit)
  BY BoundedNested
<1>1. /\ Bounded(text, units, limit) = FlattenSeq(lists)
      /\ Nested(lists, units)
      /\ \A k \in 1..Len(units) :
           /\ Neat(lists[k], Fitting(units[k][1], units[k][2], limit))
           /\ Sorted(lists[k], Apart)
  BY <1>0 DEF BoundedBy
<1>2. Sorted(FlattenSeq(lists), Apart)
  <2>1. \A k \in 1..Len(units) : Sorted(lists[k], Apart)
    BY <1>1
  <2>2. Nested(lists, units) /\ Spacious(Apart)
    BY <1>1, ApartSpacious
  <2>3. QED
    BY <2>1, <2>2, NestedSorted
<1>3. /\ FlattenSeq(lists) \in Seq(Spans)
      /\ \A s \in Range(FlattenSeq(lists)) : \E k \in 1..Len(units) : s \in Range(lists[k])
  BY <1>1, NestedFacts
<1>4. Range(FlattenSeq(lists)) \subseteq Fitting(a, b, limit)
  <2>1. ASSUME NEW s \in Range(FlattenSeq(lists)) PROVE s \in Fitting(a, b, limit)
    <3>1. PICK k \in 1..Len(units) : s \in Range(lists[k])
      BY <1>3
    <3>2. s \in Fitting(units[k][1], units[k][2], limit)
      BY <1>1, <3>1, NeatRange
    <3>4. units[k] \in Within(a, b)
      BY UnitElement
    <3>5. Fitting(units[k][1], units[k][2], limit) \subseteq Fitting(a, b, limit)
      BY <3>4, WithinWithin
    <3>6. QED
      BY <3>2, <3>5
  <2>2. QED
    BY <2>1
<1>5. Fitting(a, b, limit) \subseteq Within(a, b)
  BY DEF Fitting
<1>6. QED
  BY <1>1, <1>2, <1>3, <1>4, <1>5, ApartNeat

\* Bounding keeps what a unit holds, if it may not be cut or the unit fits.
LEMMA BoundedHolds ==
  ASSUME NEW text, NEW a \in Nat, NEW b \in Nat, NEW units, PieceList(text, units, a, b),
         NEW limit \in Nat \ {0}, NEW k \in 1..Len(units),
         NEW x, NEW y, Firm(text, units[k][1], units[k][2], x, y),
         Solid(text, x, y, limit) \/ Length(units[k]) <= limit
  PROVE  Holds(Bounded(text, units, limit), x, y)
<1>0. PICK lists : BoundedBy(lists, text, units, limit)
  BY BoundedNested
<1>1. /\ Bounded(text, units, limit) = FlattenSeq(lists)
      /\ Nested(lists, units)
      /\ lists[k] = RecursiveSpans(text, units[k][1], units[k][2], limit)
  BY <1>0 DEF BoundedBy
<1>2. units[k][1] \in Nat /\ units[k][2] \in Nat /\ units[k][1] < units[k][2]
  BY UnitElement
<1>3. PICK lo \in Nat, hi \in Nat : lo = units[k][1] /\ hi = units[k][2] /\ lo <= hi
  BY <1>2
<1>4. Solid(text, x, y, limit) \/ hi - lo <= limit
  BY <1>3 DEF Length
<1>5. Firm(text, lo, hi, x, y)
  BY <1>3
<1>6. Holds(RecursiveSpans(text, lo, hi, limit), x, y)
  BY <1>3, <1>4, <1>5, RecursiveHolds
<1>7. Holds(lists[k], x, y)
  BY <1>1, <1>3, <1>6
<1>8. QED
  BY <1>1, <1>7, NestedFacts

\* Bounding cuts no word that fits.
LEMMA BoundedSolid ==
  ASSUME NEW text, NEW a \in Nat, NEW b \in Nat, NEW units, PieceList(text, units, a, b),
         NEW limit \in Nat \ {0}, NEW x, NEW y,
         SolidIn(text, a, b, x, y, limit), Holds(units, x, y)
  PROVE  Holds(Bounded(text, units, limit), x, y)
<1>1. Firm(text, a, b, x, y) /\ Solid(text, x, y, limit)
  BY DEF SolidIn
<1>2. PICK k \in 1..Len(units) : Firm(text, units[k][1], units[k][2], x, y)
  BY <1>1, HeldIn
<1>3. QED
  BY <1>1, <1>2, BoundedHolds

\* A trimmed span begins and ends with ink.
LEMMA TightFirm ==
  ASSUME NEW text, NEW a, NEW b, NEW s \in Tight(text, a, b)
  PROVE  Firm(text, s[1], s[2], s[1], s[2])
<1>1. s \in Spans /\ s[1] < s[2] /\ InkAt(text, s[1]) /\ InkAt(text, s[2] - 1)
  BY DEF Tight, Within
<1>2. s[1] \in Nat /\ s[2] \in Nat
  BY <1>1 DEF Spans
<1>3. s[1] <= s[1] /\ s[2] <= s[2]
  BY <1>2
<1>4. QED
  BY <1>1, <1>2, <1>3 DEF Firm

\* Bounding leaves a unit that fits as it is.
LEMMA BoundedUnit ==
  ASSUME NEW text, NEW a \in Nat, NEW b \in Nat, NEW units, PieceList(text, units, a, b),
         NEW limit \in Nat \ {0}, NEW u \in Range(units), Length(u) <= limit
  PROVE  Holds(Bounded(text, units, limit), u[1], u[2])
<1>1. PICK k \in 1..Len(units) : u = units[k]
  BY Elements DEF PieceList
<1>2. Firm(text, u[1], u[2], u[1], u[2])
  BY TightFirm DEF PieceList
<1>3. Firm(text, units[k][1], units[k][2], u[1], u[2]) /\ Length(units[k]) <= limit
  BY <1>1, <1>2
<1>4. QED
  BY <1>3, BoundedHolds

-----------------------------------------------------------------------------
(* Regions and their units *)

\* A region that a strategy works on: the sections begin and end with ink.
Region(text, strategy, a, b) ==
  a \in Nat /\ b \in Nat /\ a <= b /\ (strategy \in Sectioned => <<a, b>> \in Tight(text, a, b))

UnitStrategies == TextStrategies \ {"fixed", "sliding_window"}

\* A region of its own is one piece.
LEMMA WholeRegion ==
  ASSUME NEW text, NEW a \in Nat, NEW b \in Nat, <<a, b>> \in Tight(text, a, b)
  PROVE  /\ PieceList(text, << <<a, b>> >>, a, b)
         /\ \A x, y, limit : SolidIn(text, a, b, x, y, limit) => Holds(<< <<a, b>> >>, x, y)
<1>1. PICK s : s = <<a, b>>
  OBVIOUS
<1>2. s \in Spans /\ s \in Tight(text, a, b) /\ s[1] = a /\ s[2] = b
  BY <1>1 DEF Tight, Within
<1>3. <<s>> \in Seq(Spans) /\ Len(<<s>>) = 1 /\ Range(<<s>>) = {s}
  BY <1>2, Singleton
<1>4. Sorted(<<s>>, Apart)
  BY <1>3, SortedShort
<1>5. PieceList(text, <<s>>, a, b)
  BY <1>2, <1>3, <1>4 DEF PieceList
<1>6. ASSUME NEW x, NEW y, NEW limit, SolidIn(text, a, b, x, y, limit) PROVE Holds(<<s>>, x, y)
  <2>1. a <= x /\ y <= b
    BY <1>6 DEF SolidIn, Firm
  <2>2. QED
    BY <1>2, <1>3, <2>1 DEF Holds
<1>7. QED
  BY <1>1, <1>5, <1>6

\* Propositions are pieces, and no word is cut between them.
LEMMA PropositionFacts ==
  ASSUME NEW text, NEW a \in Nat, NEW b \in Nat, a <= b
  PROVE  /\ PieceList(text, Propositions(text, a, b), a, b)
         /\ \A x, y, limit : SolidIn(text, a, b, x, y, limit) => Holds(Propositions(text, a, b), x, y)
<1>1. Propositions(text, a, b) = Clauses(text, Sentences(text, a, b))
  BY DEF Propositions
<1>2. /\ PieceList(text, Sentences(text, a, b), a, b)
      /\ \A x, y, limit : SolidIn(text, a, b, x, y, limit) => Holds(Sentences(text, a, b), x, y)
  BY SentenceFacts
<1>3. PICK sentences : sentences = Sentences(text, a, b)
  OBVIOUS
<1>4. PieceList(text, sentences, a, b)
  BY <1>2, <1>3
<1>5. /\ PieceList(text, Clauses(text, sentences), a, b)
      /\ \A x, y, limit : (SolidIn(text, a, b, x, y, limit) /\ Holds(sentences, x, y))
                               => Holds(Clauses(text, sentences), x, y)
  BY <1>4, ClauseFacts
<1>6. QED
  BY <1>1, <1>2, <1>3, <1>5

\* What the units of a strategy are.
LEMMA UnitsOfCases ==
  ASSUME NEW text, NEW strategy \in UnitStrategies, NEW a, NEW b
  PROVE  \/ UnitsOf(text, strategy, a, b) = Paragraphs(text, a, b)
         \/ UnitsOf(text, strategy, a, b) = Sentences(text, a, b)
         \/ UnitsOf(text, strategy, a, b) = Propositions(text, a, b)
         \/ strategy \in Sectioned /\ UnitsOf(text, strategy, a, b) = << <<a, b>> >>
<1>1. CASE strategy \in {"recursive", "paragraph", "hierarchical", "book", "medical"}
  BY <1>1 DEF UnitsOf
<1>2. CASE strategy \in {"sentence", "semantic"}
  BY <1>2 DEF UnitsOf
<1>3. CASE strategy \in {"proposition", "legal"}
  BY <1>3 DEF UnitsOf
<1>4. CASE strategy \in {"section", "code", "conversation"}
  BY <1>4 DEF UnitsOf, Sectioned
<1>5. QED
  BY <1>1, <1>2, <1>3, <1>4 DEF UnitStrategies, TextStrategies

\* The units of every strategy are pieces, and no word is cut between them.
LEMMA UnitsOfFacts ==
  ASSUME NEW text, NEW strategy \in UnitStrategies, NEW a, NEW b, Region(text, strategy, a, b)
  PROVE  /\ PieceList(text, UnitsOf(text, strategy, a, b), a, b)
         /\ \A x, y, limit :
              SolidIn(text, a, b, x, y, limit) => Holds(UnitsOf(text, strategy, a, b), x, y)
<1>0. a \in Nat /\ b \in Nat /\ a <= b /\ (strategy \in Sectioned => <<a, b>> \in Tight(text, a, b))
  BY DEF Region
<1>1. CASE UnitsOf(text, strategy, a, b) = Paragraphs(text, a, b)
  BY <1>0, <1>1, ParagraphFacts
<1>2. CASE UnitsOf(text, strategy, a, b) = Sentences(text, a, b)
  BY <1>0, <1>2, SentenceFacts
<1>3. CASE UnitsOf(text, strategy, a, b) = Propositions(text, a, b)
  BY <1>0, <1>3, PropositionFacts
<1>4. CASE strategy \in Sectioned /\ UnitsOf(text, strategy, a, b) = << <<a, b>> >>
  BY <1>0, <1>4, WholeRegion
<1>5. QED
  BY <1>1, <1>2, <1>3, <1>4, UnitsOfCases

-----------------------------------------------------------------------------
(* Packing and merging *)

\* The rule of packing, merging and grouping by meaning: a pair fits into a chunk.
Short(rule, limit) == \A p \in rule : Length(Both(p[1], p[2])) <= limit

\* A rule that joins only what fits keeps the list neat and what it holds.
LEMMA ShortJoin ==
  ASSUME NEW spans, NEW a \in Nat, NEW b \in Nat, NEW limit \in Int,
         Neat(spans, Fitting(a, b, limit)), NEW rule, Short(rule, limit)
  PROVE  /\ Neat(Join(spans, rule), Fitting(a, b, limit))
         /\ \A x \in Int, y \in Int : Holds(spans, x, y) => Holds(Join(spans, rule), x, y)
<1>1. Closed(Fitting(a, b, limit), rule)
  BY FittingClosed DEF Short
<1>2. QED
  BY <1>1, NeatJoin, NeatJoinHolds

\* What grouping and merging make of a list of spans.
Kind(text, spans, made, a, b, limit) ==
  /\ Neat(made, Fitting(a, b, limit))
  /\ \A x \in Int, y \in Int : Holds(spans, x, y) => Holds(made, x, y)

\* Packing and grouping by meaning keep what the spans hold, and keep to the limit.
LEMMA GroupedFacts ==
  ASSUME NEW text, NEW policy, policy.max \in Nat \ {0}, NEW a \in Nat, NEW b \in Nat,
         NEW spans, Neat(spans, Fitting(a, b, policy.max))
  PROVE  Kind(text, spans, Grouped(text, policy, spans), a, b, policy.max)
<1>1. CASE policy.strategy \in {"sentence", "paragraph", "section", "book", "medical"}
  <2> DEFINE rule == {p \in Pairs : Length(Both(p[1], p[2])) <= policy.max}
  <2>1. Grouped(text, policy, spans) = Join(spans, rule)
    BY <1>1 DEF Grouped, Pack
  <2>2. Short(rule, policy.max)
    BY DEF Short
  <2> HIDE DEF rule
  <2>3. QED
    BY <2>1, <2>2, ShortJoin DEF Kind
<1>2. CASE policy.strategy = "semantic"
  <2> DEFINE Taken(group) == {s \in Range(spans) : group[1] <= s[1] /\ s[2] <= group[2]}
             Words(group) == UNION {Tokens(text, s) : s \in Taken(group)}
             rule == {p \in Pairs : /\ Length(Both(p[1], p[2])) <= policy.max
                                    /\ Similar(Words(p[1]), Words(p[2]), policy.threshold)}
  <2>1. Grouped(text, policy, spans) = Join(spans, rule)
    BY <1>2 DEF Grouped, SemanticSpans
  <2>2. Short(rule, policy.max)
    BY DEF Short
  <2> HIDE DEF rule
  <2>3. QED
    BY <2>1, <2>2, ShortJoin DEF Kind
<1>3. CASE policy.strategy \notin {"sentence", "paragraph", "section", "book", "medical", "semantic"}
  <2>1. Grouped(text, policy, spans) = spans
    BY <1>3 DEF Grouped
  <2>2. QED
    BY <2>1 DEF Kind
<1>4. QED
  BY <1>1, <1>2, <1>3

\* So does merging short spans.
LEMMA MergedShortFacts ==
  ASSUME NEW text, NEW limit \in Nat, NEW minimum, NEW a \in Nat, NEW b \in Nat,
         NEW spans, Neat(spans, Fitting(a, b, limit))
  PROVE  Kind(text, spans, MergeShort(spans, minimum, limit), a, b, limit)
<1> DEFINE rule == {p \in Pairs : /\ Length(Both(p[1], p[2])) <= limit
                                  /\ Length(p[2]) < minimum \/ Length(p[1]) < minimum}
<1>1. MergeShort(spans, minimum, limit) = Join(spans, rule)
  BY DEF MergeShort
<1>2. Short(rule, limit)
  BY DEF Short
<1> HIDE DEF rule
<1>3. QED
  BY <1>1, <1>2, ShortJoin DEF Kind

-----------------------------------------------------------------------------
(* The spans of a region *)

\* A policy that text_strategy_spans is called with.
Sound(policy) ==
  /\ policy.strategy \in TextStrategies
  /\ policy.max \in Nat \ {0} /\ policy.overlap \in 0..(policy.max - 1)

\* The regions of a strategy: the windows have the whole text.
Regional(text, policy, a, b) ==
  /\ Region(text, policy.strategy, a, b)
  /\ policy.strategy \notin Sectioned => a = 0 /\ b = Len(text)

\* Text of a region that no strategy may cut: a character; a word; a unit; and
\* what is no longer than the overlap of two windows.
Entire(text, policy, a, b, x, y) ==
  /\ Firm(text, a, b, x, y)
  /\ \/ y = x + 1
     \/ policy.strategy \in UnitStrategies /\ Solid(text, x, y, policy.max)
     \/ policy.strategy = "sliding_window" /\ y <= x + policy.overlap
     \/ /\ policy.strategy \in UnitStrategies /\ y - x <= policy.max
        /\ <<x, y>> \in Range(UnitsOf(text, policy.strategy, a, b))

\* The fixed strategy, on its region.
LEMMA FixedRegion ==
  ASSUME NEW text, Len(text) \in Nat, NEW policy, Sound(policy), policy.strategy = "fixed",
         NEW a, NEW b, Regional(text, policy, a, b)
  PROVE  /\ Neat(RegionSpans(text, policy, a, b), Fitting(a, b, policy.max))
         /\ \A x, y : Entire(text, policy, a, b, x, y) => Holds(RegionSpans(text, policy, a, b), x, y)
<1>1. RegionSpans(text, policy, a, b) = FixedSpans(text, policy.max)
  BY DEF RegionSpans
<1>2. a = 0 /\ b = Len(text) /\ policy.max \in Nat \ {0}
  BY DEF Regional, Sectioned, Sound
<1>3. /\ Neat(FixedSpans(text, policy.max), Fitting(0, Len(text), policy.max))
      /\ \A x \in Ink(text, 0, Len(text)) : Holds(FixedSpans(text, policy.max), x, x + 1)
  BY <1>2, FixedFacts
<1>4. ASSUME NEW x, NEW y, Entire(text, policy, a, b, x, y)
      PROVE  Holds(FixedSpans(text, policy.max), x, y)
  <2>1. y = x + 1 /\ Firm(text, a, b, x, y)
    BY <1>4 DEF Entire, UnitStrategies
  <2>2. x \in Ink(text, 0, Len(text))
    BY <1>2, <2>1, InkElement DEF Firm
  <2>3. QED
    BY <1>3, <2>1, <2>2
<1>5. QED
  BY <1>1, <1>2, <1>3, <1>4

\* The sliding window, on its region.
LEMMA SlidingRegion ==
  ASSUME NEW text, Len(text) \in Nat, NEW policy, Sound(policy),
         policy.strategy = "sliding_window", NEW a, NEW b, Regional(text, policy, a, b)
  PROVE  /\ Neat(RegionSpans(text, policy, a, b), Fitting(a, b, policy.max))
         /\ \A x, y : Entire(text, policy, a, b, x, y) => Holds(RegionSpans(text, policy, a, b), x, y)
<1>1. RegionSpans(text, policy, a, b) = SlidingSpans(text, policy.max, policy.overlap)
  BY DEF RegionSpans
<1>2. /\ a = 0 /\ b = Len(text)
      /\ policy.max \in Nat \ {0} /\ policy.overlap \in 0..(policy.max - 1)
  BY DEF Regional, Sectioned, Sound
<1>3. /\ Neat(SlidingSpans(text, policy.max, policy.overlap), Fitting(0, Len(text), policy.max))
      /\ \A x, y : (/\ Firm(text, 0, Len(text), x, y)
                    /\ y <= x + policy.overlap \/ y = x + 1)
                   => Holds(SlidingSpans(text, policy.max, policy.overlap), x, y)
  BY <1>2, SlidingFacts
<1>4. ASSUME NEW x, NEW y, Entire(text, policy, a, b, x, y)
      PROVE  Holds(SlidingSpans(text, policy.max, policy.overlap), x, y)
  <2>1. (y = x + 1 \/ y <= x + policy.overlap) /\ Firm(text, a, b, x, y)
    BY <1>4 DEF Entire, UnitStrategies
  <2>2. QED
    BY <1>2, <1>3, <2>1
<1>5. QED
  BY <1>1, <1>2, <1>3, <1>4

\* The strategies with units, on a region.
LEMMA UnitRegion ==
  ASSUME NEW text, NEW policy, Sound(policy),
         policy.strategy \in UnitStrategies, NEW a, NEW b, Regional(text, policy, a, b)
  PROVE  /\ Neat(RegionSpans(text, policy, a, b), Fitting(a, b, policy.max))
         /\ \A x, y : Entire(text, policy, a, b, x, y) => Holds(RegionSpans(text, policy, a, b), x, y)
<1>0. PICK units, bounded : /\ units = UnitsOf(text, policy.strategy, a, b)
                            /\ bounded = Bounded(text, units, policy.max)
  OBVIOUS
<1>1. RegionSpans(text, policy, a, b) = Grouped(text, policy, bounded)
  BY <1>0 DEF RegionSpans, UnitStrategies
<1>2. a \in Nat /\ b \in Nat /\ policy.max \in Nat \ {0} /\ Region(text, policy.strategy, a, b)
  BY DEF Regional, Region, Sound
<1>3. /\ PieceList(text, units, a, b)
      /\ \A x, y, limit : SolidIn(text, a, b, x, y, limit) => Holds(units, x, y)
  BY <1>0, <1>2, UnitsOfFacts
<1>4. Neat(bounded, Fitting(a, b, policy.max))
  BY <1>0, <1>2, <1>3, BoundedFacts
<1>5. Kind(text, bounded, Grouped(text, policy, bounded), a, b, policy.max)
  BY <1>2, <1>4, GroupedFacts
<1>6. ASSUME NEW x, NEW y, Entire(text, policy, a, b, x, y)
      PROVE  Holds(bounded, x, y)
  <2>1. Firm(text, a, b, x, y) /\ x \in Nat /\ y \in Nat /\ x < y /\ InkAt(text, x)
    BY <1>6 DEF Entire, Firm
  <2>2. CASE Solid(text, x, y, policy.max)
    <3>1. SolidIn(text, a, b, x, y, policy.max)
      BY <2>1, <2>2 DEF SolidIn
    <3>2. QED
      BY <1>0, <1>2, <1>3, <3>1, BoundedSolid
  <2>3. CASE y = x + 1
    <3>1. \A i \in x..(y - 1) : i = x
      BY <2>1, <2>3
    <3>2. Solid(text, x, y, policy.max)
      BY <2>1, <2>3, <3>1 DEF Solid
    <3>3. QED
      BY <2>2, <3>2
  <2>4. CASE y - x <= policy.max /\ <<x, y>> \in Range(units)
    <3>1. PICK u : u = <<x, y>>
      OBVIOUS
    <3>2. u \in Range(units) /\ Length(u) <= policy.max /\ u[1] = x /\ u[2] = y
      BY <2>4, <3>1 DEF Length
    <3>3. Holds(Bounded(text, units, policy.max), u[1], u[2])
      BY <1>2, <1>3, <3>2, BoundedUnit
    <3>4. QED
      BY <1>0, <3>2, <3>3
  <2>5. policy.strategy # "sliding_window"
    BY DEF UnitStrategies
  <2>6. \/ y = x + 1
        \/ Solid(text, x, y, policy.max)
        \/ y - x <= policy.max /\ <<x, y>> \in Range(units)
    BY <1>0, <1>6, <2>5 DEF Entire
  <2>7. QED
    BY <2>2, <2>3, <2>4, <2>6
<1>7. ASSUME NEW x, NEW y, Entire(text, policy, a, b, x, y)
      PROVE  Holds(Grouped(text, policy, bounded), x, y)
  <2>1. x \in Int /\ y \in Int
    BY <1>7 DEF Entire, Firm
  <2>2. QED
    BY <1>5, <1>6, <1>7, <2>1 DEF Kind
<1>8. QED
  BY <1>1, <1>5, <1>7 DEF Kind

\* Whatever the strategy, its spans of a region fit and hold what it may not cut.
LEMMA RegionFacts ==
  ASSUME NEW text, Len(text) \in Nat, NEW policy, Sound(policy),
         NEW a, NEW b, Regional(text, policy, a, b)
  PROVE  /\ Neat(RegionSpans(text, policy, a, b), Fitting(a, b, policy.max))
         /\ \A x, y : Entire(text, policy, a, b, x, y) => Holds(RegionSpans(text, policy, a, b), x, y)
<1>1. \/ policy.strategy = "fixed" \/ policy.strategy = "sliding_window"
      \/ policy.strategy \in UnitStrategies
  BY DEF Sound, UnitStrategies
<1>2. QED
  BY <1>1, FixedRegion, SlidingRegion, UnitRegion

\* What a region becomes: its spans, merged if they are short.
RegionMade(text, policy, a, b) ==
  MergeShort(RegionSpans(text, policy, a, b), Minimum(policy), policy.max)

\* So they do once the short ones are merged.
LEMMA RegionMadeFacts ==
  ASSUME NEW text, Len(text) \in Nat, NEW policy, Sound(policy),
         NEW a, NEW b, Regional(text, policy, a, b)
  PROVE  /\ Neat(RegionMade(text, policy, a, b), Fitting(a, b, policy.max))
         /\ \A x, y : Entire(text, policy, a, b, x, y) => Holds(RegionMade(text, policy, a, b), x, y)
<1>0. PICK spans : spans = RegionSpans(text, policy, a, b)
  OBVIOUS
<1>1. a \in Nat /\ b \in Nat /\ policy.max \in Nat
  BY DEF Regional, Region, Sound
<1>2. /\ Neat(spans, Fitting(a, b, policy.max))
      /\ \A x, y : Entire(text, policy, a, b, x, y) => Holds(spans, x, y)
  BY <1>0, RegionFacts
<1>3. Kind(text, spans, MergeShort(spans, Minimum(policy), policy.max), a, b, policy.max)
  BY <1>1, <1>2, MergedShortFacts
<1>4. /\ Neat(RegionMade(text, policy, a, b), Fitting(a, b, policy.max))
      /\ \A x \in Int, y \in Int : Holds(spans, x, y) => Holds(RegionMade(text, policy, a, b), x, y)
  BY <1>0, <1>3 DEF Kind, RegionMade
<1>5. ASSUME NEW x, NEW y, Entire(text, policy, a, b, x, y)
      PROVE  Holds(RegionMade(text, policy, a, b), x, y)
  <2>1. x \in Int /\ y \in Int
    BY <1>5 DEF Entire, Firm
  <2>2. QED
    BY <1>2, <1>4, <1>5, <2>1
<1>6. QED
  BY <1>4, <1>5

-----------------------------------------------------------------------------
(* The spans of a text *)

\* A neat list ascends.
LEMMA NeatSorted ==
  ASSUME NEW list, NEW F, Neat(list, F)
  PROVE  list \in Seq(Spans) /\ Sorted(list, Ascending)
<1>1. list \in Seq(Spans) /\ InOrderOf(list) /\ NoTwice(list)
  BY DEF Neat
<1>2. ASSUME NEW i \in 1..Len(list), NEW j \in 1..Len(list), i < j
      PROVE  <<list[i], list[j]>> \in Ascending
  <2>1. list[i] \in Spans /\ list[j] \in Spans
    BY <1>1, Elements
  <2>2. Rising(list[i], list[j]) /\ list[i] # list[j]
    BY <1>1, <1>2 DEF InOrderOf, NoTwice
  <2>3. QED
    BY <2>1, <2>2 DEF Ascending, Pairs
<1>3. QED
  BY <1>1, <1>2 DEF Sorted

\* An ascending list is neat.
LEMMA SortedNeat ==
  ASSUME NEW list \in Seq(Spans), Sorted(list, Ascending), NEW F, Range(list) \subseteq F
  PROVE  Neat(list, F)
<1>1. ASSUME NEW i \in 1..Len(list), NEW j \in 1..Len(list), i < j
      PROVE  Rising(list[i], list[j]) /\ list[i] # list[j]
  BY <1>1 DEF Sorted, Ascending
<1>2. \A i \in 1..Len(list) : list[i] \in F
  BY Elements
<1>3. QED
  BY <1>1, <1>2 DEF Neat, InOrderOf, NoTwice

\* The regions of a text, one after the other.
Regioned(text, policy, regions) ==
  /\ regions \in Seq(Spans) /\ Sorted(regions, Apart)
  /\ \A k \in 1..Len(regions) : /\ Regional(text, policy, regions[k][1], regions[k][2])
                                /\ regions[k][2] <= Len(text)

\* The regions of a strategy come one after the other.
LEMMA RegionsFacts ==
  ASSUME NEW text, Len(text) \in Nat, NEW policy
  PROVE  Regioned(text, policy, Regions(text, policy.strategy))
<1>1. CASE policy.strategy \in Sectioned
  <2>0. PICK regions : regions = Sections(text) /\ Regions(text, policy.strategy) = regions
    BY <1>1 DEF Regions
  <2>1. PieceList(text, regions, 0, Len(text))
    BY <2>0, SectionFacts
  <2>2. ASSUME NEW k \in 1..Len(regions)
        PROVE  /\ Regional(text, policy, regions[k][1], regions[k][2])
               /\ regions[k][2] <= Len(text)
    <3>1. PICK s : s = regions[k]
      OBVIOUS
    <3>2. s \in Tight(text, 0, Len(text))
      BY <2>1, <3>1, Elements DEF PieceList
    <3>3. s \in Spans /\ s[1] < s[2] /\ s[2] <= Len(text)
      BY <3>2 DEF Tight, Within
    <3>4. s[1] \in Nat /\ s[2] \in Nat /\ s = <<s[1], s[2]>> /\ s[1] <= s[2]
      BY <3>3 DEF Spans
    <3>5. s \in Tight(text, s[1], s[2])
      BY <3>2, <3>3, <3>4 DEF Tight, Within
    <3>6. Regional(text, policy, s[1], s[2])
      BY <1>1, <3>4, <3>5 DEF Regional, Region
    <3>7. QED
      BY <3>1, <3>3, <3>6
  <2>3. QED
    BY <2>0, <2>1, <2>2 DEF Regioned, PieceList
<1>2. CASE policy.strategy \notin Sectioned
  <2>0. PICK whole : whole = <<0, Len(text)>>
    OBVIOUS
  <2>1. Regions(text, policy.strategy) = <<whole>>
    BY <1>2, <2>0 DEF Regions
  <2>2. whole \in Spans /\ whole[1] = 0 /\ whole[2] = Len(text)
    BY <2>0 DEF Spans
  <2>3. <<whole>> \in Seq(Spans) /\ Len(<<whole>>) = 1 /\ <<whole>>[1] = whole
    BY <2>2, Singleton
  <2>4. Sorted(<<whole>>, Apart)
    BY <2>3, SortedShort
  <2>5. Regional(text, policy, whole[1], whole[2]) /\ whole[2] <= Len(text)
    BY <1>2, <2>2 DEF Regional, Region
  <2>6. PICK regions : regions = <<whole>>
    OBVIOUS
  <2>7. \A k \in 1..Len(regions) : regions[k] = whole
    BY <2>3, <2>6
  <2>8. Regioned(text, policy, regions)
    BY <2>3, <2>4, <2>5, <2>6, <2>7 DEF Regioned
  <2>9. QED
    BY <2>1, <2>6, <2>8
<1>3. QED
  BY <1>1, <1>2

\* The regions, each made into spans.
Made(text, policy, regions, lists) ==
  /\ OverRegions(text, policy, regions) = FlattenSeq(lists)
  /\ Nested(lists, regions)
  /\ \A k \in 1..Len(regions) :
       /\ Sorted(lists[k], Ascending)
       /\ Range(lists[k]) \subseteq Fitting(0, Len(text), policy.max)
       /\ \A x, y : Entire(text, policy, regions[k][1], regions[k][2], x, y) => Holds(lists[k], x, y)

\* Every region is made into a list of spans within it.
LEMMA MakeRegions ==
  ASSUME NEW text, Len(text) \in Nat, NEW policy, Sound(policy),
         NEW regions, Regioned(text, policy, regions)
  PROVE  \E lists : Made(text, policy, regions, lists)
<1> DEFINE lists == [i \in DOMAIN regions |->
                       MergeShort(RegionSpans(text, policy, regions[i][1], regions[i][2]),
                                  Minimum(policy), policy.max)]
<1>0. PICK n \in Nat : n = Len(regions) /\ DOMAIN regions = 1..n
  BY Elements DEF Regioned
<1>1. OverRegions(text, policy, regions) = FlattenSeq(lists)
  BY DEF OverRegions
<1>2. DOMAIN lists = 1..n /\ lists = [k \in 1..n |-> lists[k]]
  BY <1>0
<1>3. \A k \in 1..n : lists[k] = RegionMade(text, policy, regions[k][1], regions[k][2])
  BY <1>0 DEF RegionMade
<1> HIDE DEF lists
<1>4. ASSUME NEW k \in 1..n
      PROVE  /\ lists[k] \in Seq(Spans) /\ Sorted(lists[k], Ascending)
             /\ Range(lists[k]) \subseteq Within(regions[k][1], regions[k][2])
             /\ Range(lists[k]) \subseteq Fitting(0, Len(text), policy.max)
             /\ \A x, y : Entire(text, policy, regions[k][1], regions[k][2], x, y)
                            => Holds(lists[k], x, y)
  <2>1. PICK a, b : a = regions[k][1] /\ b = regions[k][2]
    OBVIOUS
  <2>2. Regional(text, policy, a, b) /\ b <= Len(text)
    BY <1>0, <2>1 DEF Regioned
  <2>3. a \in Nat /\ b \in Nat
    BY <2>2 DEF Regional, Region
  <2>4. /\ Neat(RegionMade(text, policy, a, b), Fitting(a, b, policy.max))
        /\ \A x, y : Entire(text, policy, a, b, x, y) => Holds(RegionMade(text, policy, a, b), x, y)
    BY <2>2, RegionMadeFacts
  <2>5. lists[k] = RegionMade(text, policy, a, b)
    BY <1>3, <2>1
  <2>6. Neat(lists[k], Fitting(a, b, policy.max))
    BY <2>4, <2>5
  <2>7. lists[k] \in Seq(Spans) /\ Sorted(lists[k], Ascending)
    BY <2>6, NeatSorted
  <2>8. Range(lists[k]) \subseteq Fitting(a, b, policy.max)
    BY <2>6, NeatRange
  <2>9. Range(lists[k]) \subseteq Within(a, b)
    BY <2>8 DEF Fitting
  <2>10. ASSUME NEW s \in Range(lists[k]) PROVE s \in Fitting(0, Len(text), policy.max)
    <3>1. s \in Fitting(a, b, policy.max)
      BY <2>8
    <3>2. s \in Spans /\ a <= s[1] /\ s[1] < s[2] /\ s[2] <= b /\ Length(s) <= policy.max
      BY <3>1 DEF Fitting, Within
    <3>3. s[1] \in Nat /\ s[2] \in Nat
      BY <3>2 DEF Spans
    <3>4. s[2] <= Len(text)
      BY <2>2, <2>3, <3>2, <3>3
    <3>5. 0 <= s[1]
      BY <3>3
    <3>6. QED
      BY <3>2, <3>4, <3>5 DEF Fitting, Within
  <2>11. Range(lists[k]) \subseteq Fitting(0, Len(text), policy.max)
    BY <2>10
  <2>12. QED
    BY <2>1, <2>4, <2>5, <2>7, <2>9, <2>11
<1>5. lists \in Seq(Seq(Spans)) /\ Len(lists) = n
  BY <1>2, <1>4, ListOfLists
<1>6. Nested(lists, regions)
  <2>1. \A k \in 1..n : Range(lists[k]) \subseteq Within(regions[k][1], regions[k][2])
    BY <1>4
  <2>2. regions \in Seq(Spans) /\ Sorted(regions, Apart)
    BY DEF Regioned
  <2>3. QED
    BY <1>0, <1>5, <2>1, <2>2 DEF Nested
<1>7. Made(text, policy, regions, lists)
  BY <1>0, <1>1, <1>4, <1>6 DEF Made
<1>8. QED
  BY <1>7

\* The spans of a text fit, ascend, and hold what the strategy may not cut.
LEMMA TextSpansFacts ==
  ASSUME NEW text, Len(text) \in Nat, NEW policy, Sound(policy)
  PROVE  /\ Neat(TextSpans(text, policy), Fitting(0, Len(text), policy.max))
         /\ \A k \in 1..Len(Regions(text, policy.strategy)) : \A x, y :
              Entire(text, policy, Regions(text, policy.strategy)[k][1],
                                   Regions(text, policy.strategy)[k][2], x, y)
                => Holds(TextSpans(text, policy), x, y)
<1>0. PICK regions : regions = Regions(text, policy.strategy)
  OBVIOUS
<1>1. Regioned(text, policy, regions)
  BY <1>0, RegionsFacts
<1>2. PICK lists : Made(text, policy, regions, lists)
  BY <1>1, MakeRegions
<1>3. /\ TextSpans(text, policy) = FlattenSeq(lists)
      /\ Nested(lists, regions)
      /\ \A k \in 1..Len(regions) :
           /\ Sorted(lists[k], Ascending)
           /\ Range(lists[k]) \subseteq Fitting(0, Len(text), policy.max)
           /\ \A x, y : Entire(text, policy, regions[k][1], regions[k][2], x, y)
                          => Holds(lists[k], x, y)
  BY <1>0, <1>2 DEF Made, TextSpans
<1>4. Sorted(FlattenSeq(lists), Ascending)
  <2>1. \A k \in 1..Len(regions) : Sorted(lists[k], Ascending)
    BY <1>3
  <2>2. QED
    BY <1>3, <2>1, ApartSpacious, NestedSorted
<1>5. /\ FlattenSeq(lists) \in Seq(Spans)
      /\ \A s \in Range(FlattenSeq(lists)) : \E k \in 1..Len(regions) : s \in Range(lists[k])
      /\ \A k \in 1..Len(regions) : \A x, y :
              Holds(lists[k], x, y) => Holds(FlattenSeq(lists), x, y)
  BY <1>3, NestedFacts
<1>6. Range(FlattenSeq(lists)) \subseteq Fitting(0, Len(text), policy.max)
  BY <1>3, <1>5
<1>7. Neat(FlattenSeq(lists), Fitting(0, Len(text), policy.max))
  BY <1>4, <1>5, <1>6, SortedNeat
<1>8. \A k \in 1..Len(regions) : \A x, y :
        Entire(text, policy, regions[k][1], regions[k][2], x, y) => Holds(FlattenSeq(lists), x, y)
  BY <1>3, <1>5
<1>9. QED
  BY <1>0, <1>3, <1>7, <1>8

\* Text of the whole document lies within one region: in any, if the strategy has
\* only one, and no cut between sections runs through ink.
LEMMA RegionOf ==
  ASSUME NEW text, Len(text) \in Nat, NEW policy, NEW x, NEW y, NEW limit,
         Firm(text, 0, Len(text), x, y), policy.strategy \in Sectioned => Solid(text, x, y, limit)
  PROVE  \E k \in 1..Len(Regions(text, policy.strategy)) :
           Firm(text, Regions(text, policy.strategy)[k][1],
                      Regions(text, policy.strategy)[k][2], x, y)
<1>1. CASE policy.strategy \in Sectioned
  <2>0. PICK regions : regions = Sections(text) /\ Regions(text, policy.strategy) = regions
    BY <1>1 DEF Regions
  <2>1. /\ PieceList(text, regions, 0, Len(text))
        /\ \A u, v, l : SolidIn(text, 0, Len(text), u, v, l) => Holds(regions, u, v)
    BY <2>0, SectionFacts
  <2>2. SolidIn(text, 0, Len(text), x, y, limit)
    BY <1>1 DEF SolidIn
  <2>3. Holds(regions, x, y)
    BY <2>1, <2>2
  <2>4. \E k \in 1..Len(regions) : Firm(text, regions[k][1], regions[k][2], x, y)
    BY <2>1, <2>3, HeldIn
  <2>5. QED
    BY <2>0, <2>4
<1>2. CASE policy.strategy \notin Sectioned
  <2>0. PICK whole : whole = <<0, Len(text)>>
    OBVIOUS
  <2>1. PICK regions : regions = <<whole>> /\ Regions(text, policy.strategy) = regions
    BY <1>2, <2>0 DEF Regions
  <2>2. whole \in Spans /\ whole[1] = 0 /\ whole[2] = Len(text)
    BY <2>0 DEF Spans
  <2>3. Len(regions) = 1 /\ regions[1] = whole
    BY <2>1, <2>2, Singleton
  <2>4. Firm(text, regions[1][1], regions[1][2], x, y)
    BY <2>2, <2>3
  <2>5. 1 \in 1..Len(regions)
    BY <2>3
  <2>6. QED
    BY <2>1, <2>4, <2>5
<1>3. QED
  BY <1>1, <1>2

\* Every character that is not white space is held.
LEMMA InkKept ==
  ASSUME NEW text, Len(text) \in Nat, NEW policy, Sound(policy), NEW i \in Ink(text, 0, Len(text))
  PROVE  Holds(TextSpans(text, policy), i, i + 1)
<1>1. Firm(text, 0, Len(text), i, i + 1)
  BY FirmInk
<1>2. i \in Nat /\ InkAt(text, i)
  BY <1>1 DEF Firm
<1>3. \A j \in i..((i + 1) - 1) : j = i
  BY <1>2
<1>4. Solid(text, i, i + 1, 0)
  BY <1>2, <1>3 DEF Solid
<1>5. PICK k \in 1..Len(Regions(text, policy.strategy)) :
        Firm(text, Regions(text, policy.strategy)[k][1],
                   Regions(text, policy.strategy)[k][2], i, i + 1)
  BY <1>1, <1>4, RegionOf
<1>6. Entire(text, policy, Regions(text, policy.strategy)[k][1],
                           Regions(text, policy.strategy)[k][2], i, i + 1)
  BY <1>5 DEF Entire
<1>7. QED
  BY <1>6, TextSpansFacts

\* Every word that fits is held.
LEMMA WordKept ==
  ASSUME NEW text, Len(text) \in Nat, NEW policy, Sound(policy),
         policy.strategy \in UnitStrategies,
         NEW x, NEW y, SolidIn(text, 0, Len(text), x, y, policy.max)
  PROVE  Holds(TextSpans(text, policy), x, y)
<1>1. Firm(text, 0, Len(text), x, y) /\ Solid(text, x, y, policy.max)
  BY DEF SolidIn
<1>2. PICK k \in 1..Len(Regions(text, policy.strategy)) :
        Firm(text, Regions(text, policy.strategy)[k][1],
                   Regions(text, policy.strategy)[k][2], x, y)
  BY <1>1, RegionOf
<1>3. Entire(text, policy, Regions(text, policy.strategy)[k][1],
                           Regions(text, policy.strategy)[k][2], x, y)
  BY <1>1, <1>2 DEF Entire
<1>4. QED
  BY <1>3, TextSpansFacts

\* Every unit that fits is held.
LEMMA UnitKept ==
  ASSUME NEW text, Len(text) \in Nat, NEW policy, Sound(policy),
         policy.strategy \in UnitStrategies,
         NEW k \in 1..Len(Regions(text, policy.strategy)),
         NEW u \in Range(UnitsOf(text, policy.strategy, Regions(text, policy.strategy)[k][1],
                                 Regions(text, policy.strategy)[k][2])),
         Length(u) <= policy.max
  PROVE  Holds(TextSpans(text, policy), u[1], u[2])
<1>0. PICK a, b : a = Regions(text, policy.strategy)[k][1] /\ b = Regions(text, policy.strategy)[k][2]
  OBVIOUS
<1>1. Regional(text, policy, a, b)
  BY <1>0, RegionsFacts DEF Regioned
<1>2. Region(text, policy.strategy, a, b) /\ a \in Nat /\ b \in Nat
  BY <1>1 DEF Regional, Region
<1>3. PieceList(text, UnitsOf(text, policy.strategy, a, b), a, b)
  BY <1>2, UnitsOfFacts
<1>4. u \in Tight(text, a, b)
  BY <1>0, <1>3 DEF PieceList
<1>5. u \in Spans /\ a <= u[1] /\ u[2] <= b
  BY <1>4 DEF Tight, Within
<1>6. u[1] \in Nat /\ u[2] \in Nat /\ u = <<u[1], u[2]>>
  BY <1>5 DEF Spans
<1>7. Firm(text, u[1], u[2], u[1], u[2])
  BY <1>4, TightFirm
<1>8. Firm(text, a, b, u[1], u[2])
  BY <1>5, <1>7 DEF Firm
<1>9. Entire(text, policy, a, b, u[1], u[2])
  <2>1. <<u[1], u[2]>> \in Range(UnitsOf(text, policy.strategy, a, b))
    BY <1>0, <1>6
  <2>2. u[2] - u[1] <= policy.max
    BY DEF Length
  <2>3. QED
    BY <1>8, <2>1, <2>2 DEF Entire
<1>10. QED
  BY <1>0, <1>9, TextSpansFacts

\* Sliding windows hold whatever is as short as their overlap.
LEMMA OverlapKept ==
  ASSUME NEW text, Len(text) \in Nat, NEW policy, Sound(policy),
         policy.strategy = "sliding_window",
         NEW x, NEW y, Firm(text, 0, Len(text), x, y), y <= x + policy.overlap \/ y = x + 1
  PROVE  Holds(TextSpans(text, policy), x, y)
<1>1. policy.strategy \notin Sectioned
  BY DEF Sectioned
<1>2. PICK k \in 1..Len(Regions(text, policy.strategy)) :
        Firm(text, Regions(text, policy.strategy)[k][1],
                   Regions(text, policy.strategy)[k][2], x, y)
  BY <1>1, RegionOf
<1>3. Entire(text, policy, Regions(text, policy.strategy)[k][1],
                           Regions(text, policy.strategy)[k][2], x, y)
  BY <1>2 DEF Entire
<1>4. QED
  BY <1>3, TextSpansFacts

-----------------------------------------------------------------------------
(* The spans of a document *)

\* One list, flattened.
LEMMA OneList ==
  ASSUME NEW X, NEW list \in Seq(X)
  PROVE  FlattenSeq(<<list>>) = list
<1>1. PICK lists : lists = <<list>>
  OBVIOUS
<1>2. lists \in Seq(Seq(X)) /\ Len(lists) = 1 /\ lists[1] = list
  BY <1>1, Singleton
<1>3. lists # <<>>
  <2>1. lists \in Seq(Seq(X)) /\ Len(lists) \in Nat \ {0}
    BY <1>2
  <2>2. QED
    BY <2>1, NonEmpty
<1>4. PICK f : Flat(f, X, lists, 1)
  BY <1>2, <1>3, FlatExists DEF HasFlat
<1>5. FlattenSeq(lists) = f[1]
  BY <1>3, <1>4, FlatValue
<1>6. f[1] = lists[1]
  BY <1>4 DEF Flat
<1>7. QED
  BY <1>1, <1>2, <1>5, <1>6

\* The policies that a family accepts, resolved.
Served(family, policy) ==
  /\ policy.strategy \in Supported(family) \ {"auto"}
  /\ policy.max \in Nat \ {0} /\ policy.overlap \in 0..(policy.max - 1)

\* What a text can be cut by.
LEMMA ServedText ==
  ASSUME NEW policy, Served("text", policy)
  PROVE  policy.strategy \in TextStrategies \cup {"table", "evidence"}
BY DEF Served, Supported, Prose, TextStrategies

\* The policies that text_strategy_spans is called with are sound.
LEMMA TextSound ==
  ASSUME NEW policy, Served("text", policy), policy.strategy \notin {"table", "evidence"}
  PROVE  Sound(policy)
<1>1. policy.strategy \in TextStrategies
  BY ServedText
<1>2. QED
  BY <1>1 DEF Sound, Served

\* The spans of a text: within it, in order, no longer than a chunk may be, unless
\* they are rows of a table.
LEMMA SpansOfFacts ==
  ASSUME NEW text, Len(text) \in Nat, NEW policy, Served("text", policy)
  PROVE  /\ Neat(SpansOf(text, policy), Within(0, Len(text)))
         /\ policy.strategy # "table" =>
              \A s \in Range(SpansOf(text, policy)) : Length(s) <= policy.max
<1>0. policy.max \in Nat \ {0}
  BY DEF Served
<1>1. CASE policy.strategy = "table"
  BY <1>1, RowsFacts DEF SpansOf
<1>2. CASE policy.strategy # "table"
  <2>1. Neat(SpansOf(text, policy), Fitting(0, Len(text), policy.max))
    <3>1. CASE policy.strategy = "evidence"
      BY <1>0, <3>1, FixedFacts DEF SpansOf
    <3>2. CASE policy.strategy # "evidence"
      <4>1. Sound(policy)
        BY <1>2, <3>2, TextSound
      <4>2. SpansOf(text, policy) = TextSpans(text, policy)
        BY <1>2, <3>2 DEF SpansOf
      <4>3. QED
        BY <4>1, <4>2, TextSpansFacts
    <3>3. QED
      BY <3>1, <3>2
  <2>2. /\ SpansOf(text, policy) \in Seq(Spans) /\ InOrderOf(SpansOf(text, policy))
        /\ NoTwice(SpansOf(text, policy))
        /\ \A i \in 1..Len(SpansOf(text, policy)) :
             SpansOf(text, policy)[i] \in Fitting(0, Len(text), policy.max)
    BY <2>1 DEF Neat
  <2>3. Neat(SpansOf(text, policy), Within(0, Len(text)))
    BY <2>2 DEF Neat, Fitting
  <2>4. Range(SpansOf(text, policy)) \subseteq Fitting(0, Len(text), policy.max)
    BY <2>1, NeatRange
  <2>5. QED
    BY <2>3, <2>4 DEF Fitting
<1>3. QED
  BY <1>1, <1>2

\* Every character of a text that is not white space is in a span.
LEMMA SpansOfInk ==
  ASSUME NEW text, Len(text) \in Nat, NEW policy, Served("text", policy),
         NEW i \in Ink(text, 0, Len(text))
  PROVE  Holds(SpansOf(text, policy), i, i + 1)
<1>0. policy.max \in Nat \ {0}
  BY DEF Served
<1>1. Firm(text, 0, Len(text), i, i + 1)
  BY FirmInk
<1>2. i \in Nat /\ InkAt(text, i)
  BY <1>1 DEF Firm
<1>3. \A j \in i..((i + 1) - 1) : j = i
  BY <1>2
<1>4. Unbroken(text, 0, Len(text), i, i + 1)
  BY <1>1, <1>2, <1>3 DEF Unbroken
<1>5. CASE policy.strategy = "table"
  BY <1>4, <1>5, RowsFacts DEF SpansOf
<1>6. CASE policy.strategy = "evidence"
  BY <1>0, <1>6, FixedFacts DEF SpansOf
<1>7. CASE policy.strategy \notin {"table", "evidence"}
  <2>1. Sound(policy)
    BY <1>7, TextSound
  <2>2. SpansOf(text, policy) = TextSpans(text, policy)
    BY <1>7 DEF SpansOf
  <2>3. QED
    BY <2>1, <2>2, InkKept
<1>8. QED
  BY <1>5, <1>6, <1>7

\* Every word of a text that fits is in a span.
LEMMA SpansOfWord ==
  ASSUME NEW text, Len(text) \in Nat, NEW policy, Served("text", policy),
         policy.strategy \notin {"fixed", "sliding_window", "evidence"},
         NEW a, NEW b, SolidIn(text, 0, Len(text), a, b, policy.max)
  PROVE  Holds(SpansOf(text, policy), a, b)
<1>1. CASE policy.strategy = "table"
  <2>1. Unbroken(text, 0, Len(text), a, b)
    BY DEF SolidIn, Solid, Unbroken
  <2>2. QED
    BY <1>1, <2>1, RowsFacts DEF SpansOf
<1>2. CASE policy.strategy # "table"
  <2>1. Sound(policy)
    BY <1>2, TextSound
  <2>2. SpansOf(text, policy) = TextSpans(text, policy)
    BY <1>2 DEF SpansOf
  <2>3. policy.strategy \in UnitStrategies
    BY <2>1 DEF UnitStrategies, Sound
  <2>4. QED
    BY <2>1, <2>2, <2>3, WordKept
<1>3. QED
  BY <1>1, <1>2

-----------------------------------------------------------------------------
(* The chunks of a text *)

\* The chunks of a document that is one text: one chunk of part 1 for each span.
LEMMA TextChunksMade ==
  ASSUME NEW policy, Len(parts) = 1, DOMAIN parts = 1..1,
         NEW spans, spans = SpansOf(parts[1].text, policy), spans \in Seq(Spans)
  PROVE  /\ DOMAIN TextChunks(policy) = 1..Len(spans)
         /\ \A k \in 1..Len(spans) :
              TextChunks(policy)[k] = [parts |-> <<1>>, span |-> spans[k]]
<1> DEFINE Of(i) == LET made == SpansOf(parts[i].text, policy)
                    IN [k \in DOMAIN made |-> [parts |-> <<i>>, span |-> made[k]]]
           made1 == [k \in 1..Len(spans) |-> [parts |-> <<1>>, span |-> spans[k]]]
<1>0. PICK n \in Nat : n = Len(spans) /\ DOMAIN spans = 1..n
  BY Elements
<1>1. Of(1) = made1
  BY <1>0
<1>2. [i \in DOMAIN parts |-> Of(i)] = <<made1>>
  <2>1. [i \in DOMAIN parts |-> Of(i)] = [i \in 1..1 |-> made1]
    BY <1>1
  <2> HIDE DEF made1
  <2>2. [i \in 1..1 |-> made1] = <<made1>>
    OBVIOUS
  <2>3. QED
    BY <2>1, <2>2
<1>3. TextChunks(policy) = FlattenSeq([i \in DOMAIN parts |-> Of(i)])
  BY DEF TextChunks
<1>4. made1 \in Seq({made1[k] : k \in 1..n})
  <2>1. made1 \in [1..n -> {made1[k] : k \in 1..n}]
    BY <1>0
  <2>2. QED
    BY <2>1, Functional
<1>5. FlattenSeq(<<made1>>) = made1
  BY <1>4, OneList
<1>6. TextChunks(policy) = made1
  BY <1>2, <1>3, <1>5
<1>7. QED
  BY <1>0, <1>6

-----------------------------------------------------------------------------
(* The invariant *)

Kinds == {"text", "word", "box", "cell", "image", "segment", "scene", "keyframe"}
Links == [kind : Relations, part : Nat]
Part  == [kind : Kinds, text : Texts \cup Bodies, at : Nat \X Nat, to : Seq(Links)]

\* The chunker is bound to a family and a resolved policy it serves, or not yet.
Bound ==
  bound = Unbound \/ \E f \in Families, p \in Policies :
                       /\ p.strategy \in Supported(f)
                       /\ bound = [family |-> f, policy |-> Resolved(f, p)]

\* A text document has one part, and only it has parts of a text.
Reading ==
  /\ parts \in Seq(Part)
  /\ parts # <<>> => bound # Unbound
  /\ \A i \in 1..Len(parts) : parts[i].kind = "text" <=> bound.family = "text"
  /\ bound.family = "text" => Len(parts) <= 1

\* A part is related to parts before it, and a keyframe to the scene before it.
Linked ==
  \A i \in 1..Len(parts) :
    /\ \A r \in Range(parts[i].to) : r.part \in 1..(i - 1)
    /\ parts[i].kind = "keyframe" =>
         /\ parts[i].to = <<To("KEYFRAME_OF", i - 1)>> /\ parts[i - 1].kind = "scene"

\* What chunk returned is made of the parts, which no longer change.
ChunksMade ==
  Chunked => /\ parts # <<>>
             /\ chunks = IF bound.family = "text" THEN TextChunks(bound.policy)
                                                  ELSE GroupChunks(bound.policy)

Inv == Bound /\ Reading /\ Linked /\ ChunksMade

\* A bound policy is one that the family serves.
LEMMA BoundServed ==
  ASSUME Bound, bound # Unbound
  PROVE  bound.family \in Families /\ Served(bound.family, bound.policy)
<1>1. PICK f \in Families, p \in Policies :
        p.strategy \in Supported(f) /\ bound = [family |-> f, policy |-> Resolved(f, p)]
  BY DEF Bound
<1>2. PICK s \in Strategies, z \in Sizes : p = Policy(s, z)
  BY DEF Policies
<1>3. z[1] \in Nat \ {0} /\ z[2] \in 0..(z[1] - 1)
  BY SizesAssumption
<1>4. /\ p.strategy = s /\ p.max = z[1] /\ p.overlap = z[2]
      /\ p = [strategy |-> s, max |-> z[1], overlap |-> z[2], min |-> z[3], threshold |-> 50]
  BY <1>2 DEF Policy
<1>5. Resolved(f, p).max = z[1] /\ Resolved(f, p).overlap = z[2]
  BY <1>4 DEF Resolved
<1>6. Resolved(f, p).strategy \in Supported(f) \ {"auto"}
  <2>1. CASE p.strategy # "auto"
    BY <1>1, <2>1 DEF Resolved
  <2>2. CASE p.strategy = "auto"
    <3>1. Resolved(f, p).strategy = IF f = "text" THEN "recursive" ELSE "evidence"
      BY <1>4, <2>2 DEF Resolved
    <3>2. "evidence" \in Supported(f) /\ "recursive" \in Supported("text")
      BY DEF Supported, Prose, Families
    <3>3. QED
      BY <3>1, <3>2
  <2>3. QED
    BY <2>1, <2>2
<1>7. bound.family = f /\ bound.policy = Resolved(f, p)
  BY <1>1
<1>8. QED
  BY <1>3, <1>5, <1>6, <1>7 DEF Served

\* A part has text. (DocumentsHaveText)
LEMMA PartText ==
  ASSUME NEW p \in Part
  PROVE  p.text \in Seq(Char) /\ Len(p.text) \in Nat \ {0}
<1>1. p.text \in Seq(Char) /\ p.text # <<>>
  <2>1. CASE p.text \in Texts
    <3>1. p.text \in Seq(Char) /\ Ink(p.text, 0, Len(p.text)) # {}
      BY <2>1, DocumentsHaveText
    <3>2. PICK i \in 0..(Len(p.text) - 1) : TRUE
      BY <3>1 DEF Ink
    <3>3. Len(p.text) # 0
      BY <3>2
    <3>4. QED
      BY <3>1, <3>3, NonEmpty
  <2>2. CASE p.text \in Bodies
    BY <2>2, DocumentsHaveText
  <2>3. QED
    BY <2>1, <2>2 DEF Part
<1>2. QED
  BY <1>1, NonEmpty

\* The chunks of a text are its spans.
Spanned(spans) ==
  /\ Len(Text) \in Nat /\ Served("text", bound.policy) /\ spans = SpansOf(Text, bound.policy)
  /\ Neat(spans, Within(0, Len(Text)))
  /\ DOMAIN chunks = 1..Len(spans)
  /\ \A k \in 1..Len(spans) : chunks[k] = [parts |-> <<1>>, span |-> spans[k]]

\* The chunks of a text document are the spans of its text.
LEMMA TextChunked ==
  ASSUME Inv, Chunked, IsText
  PROVE  \E spans : Spanned(spans)
<1>1. bound # Unbound /\ bound.family = "text"
  BY DEF IsText
<1>2. parts \in Seq(Part) /\ Len(parts) <= 1 /\ parts # <<>> /\ chunks = TextChunks(bound.policy)
  BY <1>1 DEF Inv, Reading, ChunksMade
<1>3. Len(parts) = 1 /\ DOMAIN parts = 1..1 /\ parts[1] \in Part
  <2>1. Len(parts) \in Nat \ {0}
    BY <1>2, NonEmpty
  <2>2. Len(parts) = 1
    <3>1. PICK n \in Nat \ {0} : n = Len(parts)
      BY <2>1
    <3>2. n <= 1
      BY <1>2, <3>1
    <3>3. n = 1
      BY <3>2
    <3>4. QED
      BY <3>1, <3>3
  <2>3. DOMAIN parts = 1..Len(parts) /\ \A i \in 1..Len(parts) : parts[i] \in Part
    BY <1>2, Elements
  <2>4. 1 \in 1..Len(parts)
    BY <2>2
  <2>5. QED
    BY <2>2, <2>3, <2>4
<1>4. Served("text", bound.policy)
  BY <1>1, BoundServed DEF Inv
<1>5. Len(Text) \in Nat
  BY <1>3, PartText DEF Text
<1>6. PICK spans : spans = SpansOf(Text, bound.policy)
  OBVIOUS
<1>7. Neat(spans, Within(0, Len(Text)))
  BY <1>4, <1>5, <1>6, SpansOfFacts
<1>8. spans \in Seq(Spans)
  BY <1>7 DEF Neat
<1>9. /\ DOMAIN TextChunks(bound.policy) = 1..Len(spans)
      /\ \A k \in 1..Len(spans) : TextChunks(bound.policy)[k] = [parts |-> <<1>>, span |-> spans[k]]
  <2>1. PICK policy : policy = bound.policy
    OBVIOUS
  <2>2. spans = SpansOf(parts[1].text, policy)
    BY <1>6, <2>1 DEF Text
  <2>3. /\ DOMAIN TextChunks(policy) = 1..Len(spans)
        /\ \A k \in 1..Len(spans) : TextChunks(policy)[k] = [parts |-> <<1>>, span |-> spans[k]]
    BY <1>3, <1>8, <2>2, TextChunksMade
  <2>4. QED
    BY <2>1, <2>3
<1>10. Spanned(spans)
  BY <1>2, <1>4, <1>5, <1>6, <1>7, <1>9 DEF Spanned
<1>11. QED
  BY <1>10

\* What a span holds a chunk holds.
LEMMA SpannedWhole ==
  ASSUME NEW spans, Spanned(spans), NEW a, NEW b, Holds(spans, a, b)
  PROVE  Whole(a, b)
<1>1. /\ DOMAIN chunks = 1..Len(spans)
      /\ \A k \in 1..Len(spans) : chunks[k] = [parts |-> <<1>>, span |-> spans[k]]
      /\ spans \in Seq(Spans)
  BY DEF Spanned, Neat
<1>2. PICK s \in Range(spans) : s[1] <= a /\ b <= s[2]
  BY DEF Holds
<1>3. PICK k \in 1..Len(spans) : s = spans[k]
  BY <1>1, Elements
<1>4. chunks[k].span = s
  BY <1>1, <1>3
<1>5. QED
  BY <1>1, <1>2, <1>4 DEF Whole

\* A text: its ink is covered, and its chunks come in order.
LEMMA TextCovered ==
  ASSUME Inv, Chunked, IsText
  PROVE  /\ \A i \in Ink(Text, 0, Len(Text)) : Whole(i, i + 1)
         /\ \A j, k \in DOMAIN chunks : j < k =>
              /\ chunks[j] # chunks[k]
              /\ chunks[j].span[1] <= chunks[k].span[1]
              /\ chunks[j].span[2] <= chunks[k].span[2]
<1>1. PICK spans : Spanned(spans)
  BY TextChunked
<1>2. /\ Len(Text) \in Nat /\ Served("text", bound.policy) /\ spans = SpansOf(Text, bound.policy)
      /\ DOMAIN chunks = 1..Len(spans)
      /\ \A k \in 1..Len(spans) : chunks[k] = [parts |-> <<1>>, span |-> spans[k]]
  BY <1>1 DEF Spanned
<1>3. InOrderOf(spans) /\ NoTwice(spans)
  BY <1>1 DEF Spanned, Neat
<1>4. ASSUME NEW i \in Ink(Text, 0, Len(Text)) PROVE Whole(i, i + 1)
  <2>1. Holds(spans, i, i + 1)
    BY <1>2, SpansOfInk
  <2>2. QED
    BY <1>1, <2>1, SpannedWhole
<1>5. ASSUME NEW j \in 1..Len(spans), NEW k \in 1..Len(spans), j < k
      PROVE  /\ chunks[j] # chunks[k]
             /\ chunks[j].span[1] <= chunks[k].span[1]
             /\ chunks[j].span[2] <= chunks[k].span[2]
  <2>1. Rising(spans[j], spans[k]) /\ spans[j] # spans[k]
    BY <1>3, <1>5 DEF InOrderOf, NoTwice
  <2>2. chunks[j].span = spans[j] /\ chunks[k].span = spans[k]
    BY <1>2
  <2>3. chunks[j] # chunks[k]
    BY <2>1, <2>2
  <2>4. QED
    BY <2>1, <2>2, <2>3 DEF Rising
<1>6. QED
  BY <1>2, <1>4, <1>5

\* The chunks of a text fit, but the rows of a table.
LEMMA TextFits ==
  ASSUME Inv, Chunked, IsText, NEW k \in DOMAIN chunks, Strategy # "table"
  PROVE  Length(chunks[k].span) <= bound.policy.max
<1>1. PICK spans : Spanned(spans)
  BY TextChunked
<1>2. /\ Len(Text) \in Nat /\ Served("text", bound.policy) /\ spans = SpansOf(Text, bound.policy)
      /\ k \in 1..Len(spans) /\ chunks[k] = [parts |-> <<1>>, span |-> spans[k]]
      /\ spans \in Seq(Spans)
  BY <1>1 DEF Spanned, Neat
<1>3. chunks[k].span = spans[k] /\ spans[k] \in Range(spans)
  BY <1>2, Elements
<1>4. bound.policy.strategy # "table"
  BY DEF Strategy
<1>5. QED
  BY <1>2, <1>3, <1>4, SpansOfFacts

-----------------------------------------------------------------------------
(* Nothing is cut *)

\* A unit is a unit of one of the regions.
LEMMA UnitOf ==
  ASSUME Len(Text) \in Nat, NEW u \in Range(Units)
  PROVE  /\ Strategy \in UnitStrategies
         /\ \E k \in 1..Len(Regions(Text, Strategy)) :
              u \in Range(UnitsOf(Text, Strategy, Regions(Text, Strategy)[k][1],
                                  Regions(Text, Strategy)[k][2]))
<1>1. CASE Strategy \notin TextStrategies \ {"fixed", "sliding_window"}
  <2>1. Units = <<>>
    BY <1>1 DEF Units
  <2>2. Range(Units) = {}
    BY <2>1, NoElements
  <2>3. QED
    BY <2>2
<1>2. CASE Strategy \in TextStrategies \ {"fixed", "sliding_window"}
  <2> DEFINE regions == Regions(Text, Strategy)
             lists == [i \in DOMAIN regions |->
                         UnitsOf(Text, Strategy, regions[i][1], regions[i][2])]
  <2>1. Units = FlattenSeq(lists)
    BY <1>2 DEF Units
  <2>2. Regioned(Text, bound.policy, regions)
    BY RegionsFacts DEF Strategy
  <2>3. PICK n \in Nat : n = Len(regions) /\ DOMAIN regions = 1..n
    BY <2>2, Elements DEF Regioned
  <2>4. DOMAIN lists = 1..n /\ lists = [k \in 1..n |-> lists[k]]
    BY <2>3
  <2>5. \A k \in 1..n : lists[k] = UnitsOf(Text, Strategy, regions[k][1], regions[k][2])
    BY <2>3
  <2> HIDE DEF lists, regions
  <2>6. ASSUME NEW k \in 1..n PROVE lists[k] \in Seq(Spans)
    <3>1. PICK a, b : a = regions[k][1] /\ b = regions[k][2]
      OBVIOUS
    <3>2. Region(Text, Strategy, a, b)
      BY <2>2, <2>3, <3>1 DEF Regioned, Regional, Strategy
    <3>3. a \in Nat /\ b \in Nat /\ Strategy \in UnitStrategies
      BY <1>2, <3>2 DEF Region, UnitStrategies
    <3>4. PieceList(Text, UnitsOf(Text, Strategy, a, b), a, b)
      BY <3>2, <3>3, UnitsOfFacts
    <3>5. QED
      BY <2>5, <3>1, <3>4 DEF PieceList
  <2>7. lists \in Seq(Seq(Spans)) /\ Len(lists) = n
    BY <2>4, <2>6, ListOfLists
  <2>8. PICK k \in 1..Len(lists) : u \in Range(lists[k])
    BY <2>1, <2>7, Flattened
  <2>9. k \in 1..n
    BY <2>7, <2>8
  <2>10. u \in Range(UnitsOf(Text, Strategy, regions[k][1], regions[k][2]))
    BY <2>5, <2>8, <2>9
  <2>11. QED
    BY <1>2, <2>3, <2>9, <2>10 DEF UnitStrategies, regions
<1>3. QED
  BY <1>1, <1>2

\* A word that fits is a text that no strategy with units cuts.
LEMMA WordSolid ==
  ASSUME NEW text, Len(text) \in Nat, NEW limit, NEW a \in 0..Len(text), NEW b \in 0..Len(text),
         a < b, b - a <= limit, Ink(text, a, b) = a..(b - 1),
         a = 0 \/ IsSpace(At(text, a - 1))
  PROVE  SolidIn(text, 0, Len(text), a, b, limit)
<1>1. PICK n \in Nat : n = Len(text)
  OBVIOUS
<1>2. a \in Nat /\ b \in Nat /\ b <= n
  BY <1>1
<1>3. \A i \in a..(b - 1) : InkAt(text, i)
  BY <1>2, InkElement
<1>4. a \in a..(b - 1) /\ b - 1 \in a..(b - 1)
  BY <1>2
<1>5. Firm(text, 0, Len(text), a, b)
  BY <1>1, <1>2, <1>3, <1>4 DEF Firm
<1>6. Solid(text, a, b, limit)
  BY <1>2, <1>3 DEF Solid
<1>7. QED
  BY <1>5, <1>6 DEF SolidIn

\* The longest text from a character on that an overlap holds.
LEMMA OverlapFirm ==
  ASSUME NEW text, Len(text) \in Nat, NEW overlap \in Nat, NEW i \in Ink(text, 0, Len(text)),
         NEW b, b = Max(Ink(text, i, Least(i + overlap, Len(text))) \cup {i})
  PROVE  Firm(text, 0, Len(text), i, b + 1) /\ (b + 1 <= i + overlap \/ b + 1 = i + 1)
<1>1. PICK n \in Nat : n = Len(text)
  OBVIOUS
<1>2. i \in Nat /\ i < n /\ InkAt(text, i)
  <2>1. Firm(text, 0, n, i, i + 1)
    BY <1>1, FirmInk
  <2>2. i \in Nat /\ InkAt(text, i) /\ i + 1 <= n
    BY <2>1 DEF Firm
  <2>3. QED
    BY <1>1, <2>2
<1>3. PICK m \in Nat : m = Least(i + overlap, n) /\ m <= i + overlap /\ m <= n
  <2>1. Least(i + overlap, n) = IF i + overlap < n THEN i + overlap ELSE n
    BY DEF Least
  <2>2. i + overlap \in Nat
    BY <1>2
  <2>3. CASE i + overlap < n
    BY <1>1, <2>1, <2>2, <2>3
  <2>4. CASE ~(i + overlap < n)
    BY <1>1, <2>1, <2>2, <2>4
  <2>5. QED
    BY <2>3, <2>4
<1>4. PICK S : S = Ink(text, i, m) \cup {i}
  OBVIOUS
<1>5. ASSUME NEW k \in S
      PROVE  k \in i..(n - 1) /\ InkAt(text, k) /\ (k < i + overlap \/ k = i)
  <2>1. CASE k = i
    BY <1>2, <2>1
  <2>2. CASE k \in Ink(text, i, m)
    <3>1. k \in Int
      BY <2>2, <1>2 DEF Ink
    <3>2. i <= k /\ k < m /\ InkAt(text, k)
      BY <1>2, <2>2, <3>1, InkElement
    <3>3. k < n /\ k < i + overlap
      BY <1>2, <1>3, <3>1, <3>2
    <3>4. QED
      BY <1>2, <3>1, <3>2, <3>3
  <2>3. QED
    BY <1>4, <2>1, <2>2
<1>6. S \in SUBSET (i..(n - 1)) /\ S # {}
  BY <1>4, <1>5
<1>7. Max(S) \in S /\ b = Max(S)
  <2>1. PICK c \in Int : c = n - 1
    BY <1>1
  <2>2. S \in SUBSET (i..c)
    BY <1>6, <2>1
  <2>3. Max(S) \in S
    <3>1. PICK l \in Int : l = i
      BY <1>2
    <3>2. S \in SUBSET (l..c) /\ S # {}
      BY <1>6, <2>2, <3>1
    <3>3. QED
      BY <3>2, Extremes
  <2>4. QED
    BY <1>1, <1>3, <1>4, <2>3
<1>8. b \in i..(n - 1) /\ InkAt(text, b) /\ (b < i + overlap \/ b = i)
  BY <1>5, <1>7
<1>9. b \in Nat /\ i < b + 1 /\ b + 1 <= n /\ (b + 1) - 1 = b
  BY <1>1, <1>2, <1>8
<1>10. Firm(text, 0, n, i, b + 1)
  BY <1>2, <1>8, <1>9 DEF Firm
<1>11. b + 1 <= i + overlap \/ b + 1 = i + 1
  BY <1>2, <1>8, <1>9
<1>12. QED
  BY <1>1, <1>10, <1>11

\* Units that fit are whole, and so is what an overlap holds.
LEMMA UnitsWhole ==
  ASSUME Inv, Chunked, IsText
  PROVE  UnitsStayWhole
<1>1. PICK spans : Spanned(spans)
  BY TextChunked
<1>2. /\ Len(Text) \in Nat /\ Served("text", bound.policy) /\ spans = SpansOf(Text, bound.policy)
  BY <1>1 DEF Spanned
<1>3. ASSUME NEW u \in Range(Units), Length(u) <= bound.policy.max
      PROVE  Whole(u[1], u[2])
  <2>1. Strategy \in UnitStrategies
    BY <1>2, UnitOf
  <2>2. PICK k \in 1..Len(Regions(Text, Strategy)) :
          u \in Range(UnitsOf(Text, Strategy, Regions(Text, Strategy)[k][1],
                              Regions(Text, Strategy)[k][2]))
    BY <1>2, UnitOf
  <2>3. bound.policy.strategy \in UnitStrategies /\ bound.policy.strategy \notin {"table", "evidence"}
    BY <2>1 DEF Strategy, UnitStrategies, TextStrategies
  <2>4. Sound(bound.policy)
    BY <1>2, <2>3, TextSound
  <2>5. Holds(TextSpans(Text, bound.policy), u[1], u[2])
    BY <1>2, <1>3, <2>2, <2>3, <2>4, UnitKept DEF Strategy
  <2>6. spans = TextSpans(Text, bound.policy)
    BY <1>2, <2>3 DEF SpansOf
  <2>7. QED
    BY <1>1, <2>5, <2>6, SpannedWhole
<1>4. ASSUME Strategy = "sliding_window", NEW i \in Ink(Text, 0, Len(Text)), NEW b,
             b = Max(Ink(Text, i, Least(i + bound.policy.overlap, Len(Text))) \cup {i})
      PROVE  Whole(i, b + 1)
  <2>1. bound.policy.strategy = "sliding_window" /\ bound.policy.strategy \notin {"table", "evidence"}
    BY <1>4 DEF Strategy
  <2>2. Sound(bound.policy)
    BY <1>2, <2>1, TextSound
  <2>3. bound.policy.overlap \in Nat
    BY <2>2 DEF Sound
  <2>4. /\ Firm(Text, 0, Len(Text), i, b + 1)
        /\ b + 1 <= i + bound.policy.overlap \/ b + 1 = i + 1
    BY <1>2, <1>4, <2>3, OverlapFirm
  <2>5. Holds(TextSpans(Text, bound.policy), i, b + 1)
    BY <1>2, <2>1, <2>2, <2>4, OverlapKept
  <2>6. spans = TextSpans(Text, bound.policy)
    BY <1>2, <2>1 DEF SpansOf
  <2>7. QED
    BY <1>1, <2>5, <2>6, SpannedWhole
<1>5. QED
  BY <1>3, <1>4 DEF UnitsStayWhole

\* Words that fit are whole.
LEMMA WordsWhole ==
  ASSUME Inv, Chunked, IsText, Strategy \notin {"fixed", "sliding_window", "evidence"}
  PROVE  WordsStayWhole
<1>1. PICK spans : Spanned(spans)
  BY TextChunked
<1>2. /\ Len(Text) \in Nat /\ Served("text", bound.policy) /\ spans = SpansOf(Text, bound.policy)
  BY <1>1 DEF Spanned
<1>3. ASSUME NEW a \in 0..Len(Text), NEW b \in 0..Len(Text), a < b, b - a <= bound.policy.max,
             Ink(Text, a, b) = a..(b - 1), a = 0 \/ IsSpace(At(Text, a - 1))
      PROVE  Whole(a, b)
  <2>1. SolidIn(Text, 0, Len(Text), a, b, bound.policy.max)
    BY <1>2, <1>3, WordSolid
  <2>2. Holds(spans, a, b)
    BY <1>2, <2>1, SpansOfWord DEF Strategy
  <2>3. QED
    BY <1>1, <2>2, SpannedWhole
<1>4. QED
  BY <1>3 DEF WordsStayWhole

\* The invariant implies that nothing is cut.
LEMMA UncutFromInv ==
  ASSUME Inv
  PROVE  NothingIsCut
<1>1. UnitsStayWhole
  <2>1. CASE Chunked /\ IsText
    BY <2>1, UnitsWhole
  <2>2. CASE ~(Chunked /\ IsText)
    BY <2>2 DEF UnitsStayWhole
  <2>3. QED
    BY <2>1, <2>2
<1>2. WordsStayWhole
  <2>1. CASE Chunked /\ IsText /\ Strategy \notin {"fixed", "sliding_window", "evidence"}
    BY <2>1, WordsWhole
  <2>2. CASE ~(Chunked /\ IsText /\ Strategy \notin {"fixed", "sliding_window", "evidence"})
    BY <2>2 DEF WordsStayWhole
  <2>3. QED
    BY <2>1, <2>2
<1>3. QED
  BY <1>1, <1>2 DEF NothingIsCut

-----------------------------------------------------------------------------
(* What depends on the parts alone *)

\* What chunk returns depends on the parts alone.
LEMMA SameText ==
  ASSUME parts' = parts, NEW policy
  PROVE  TextChunks(policy)' = TextChunks(policy)
BY DEF TextChunks

\* The length of a group depends on the parts alone.
LEMMA SameSizes ==
  ASSUME parts' = parts, NEW group
  PROVE  Size(group)' = Size(group)
BY DEF Size

\* So do the fixed groups,
LEMMA SameFixed ==
  ASSUME parts' = parts, NEW limit
  PROVE  FixedGroups(limit)' = FixedGroups(limit)
BY DEF FixedGroups, Size

\* the sliding groups,
LEMMA SameSliding ==
  ASSUME parts' = parts, NEW limit, NEW overlap
  PROVE  SlidingGroups(limit, overlap)' = SlidingGroups(limit, overlap)
BY DEF SlidingGroups, Size, FixedGroups

\* the groups of spans,
LEMMA SameSpanned ==
  ASSUME parts' = parts, NEW policy
  PROVE  SpannedGroups(policy)' = SpannedGroups(policy)
BY DEF SpannedGroups, Start, Joined

\* the parts that label no other,
LEMMA SameLabels ==
  ASSUME parts' = parts
  PROVE  Unlabelling' = Unlabelling
BY DEF Unlabelling, Labels

\* the relations of a part,
LEMMA SameRelated ==
  ASSUME parts' = parts, NEW i, NEW kinds
  PROVE  Related(i, kinds)' = Related(i, kinds)
BY DEF Related

\* the groups of atoms,
LEMMA SameAtoms ==
  ASSUME parts' = parts
  PROVE  TableGroups' = TableGroups /\ EvidenceGroups' = EvidenceGroups /\ SceneGroups' = SceneGroups
<1>1. TableGroups' = TableGroups
  BY SameLabels, SameRelated DEF TableGroups
<1>2. EvidenceGroups' = EvidenceGroups
  BY SameLabels, SameRelated DEF EvidenceGroups
<1>3. SceneGroups' = SceneGroups
  BY SameRelated, Zenon DEF SceneGroups
<1>4. QED
  BY <1>1, <1>2, <1>3

\* and the chunks of all of them.
LEMMA SameGroups ==
  ASSUME parts' = parts, NEW policy
  PROVE  GroupChunks(policy)' = GroupChunks(policy)
<1>1. Groups(policy)' = Groups(policy)
  BY SameAtoms, SameFixed, SameSliding, SameSpanned DEF Groups
<1>2. QED
  BY <1>1, SameSizes DEF GroupChunks

-----------------------------------------------------------------------------
(* The invariant is kept *)

\* The chunker starts with no part.
LEMMA Starts ==
  ASSUME Init
  PROVE  Inv
<1>1. /\ parts = <<>> /\ Len(parts) = 0 /\ bound = Unbound /\ bound.family = "none"
      /\ outcome = "reading"
  BY DEF Init, Unbound
<1>2. Bound
  BY <1>1 DEF Bound
<1>3. parts \in Seq(Part) /\ \A i \in 1..Len(parts) : FALSE
  BY <1>1
<1>4. Reading
  BY <1>1, <1>3 DEF Reading
<1>5. Linked
  BY <1>3 DEF Linked
<1>6. ChunksMade
  BY <1>1 DEF ChunksMade, Chunked
<1>7. QED
  BY <1>2, <1>4, <1>5, <1>6 DEF Inv

\* A part that an extractor may append.
Fresh(p, family) ==
  /\ p \in Part /\ p.kind # "keyframe"
  /\ p.kind = "text" <=> family = "text"
  /\ p.kind = "text" => parts = <<>>
  /\ \A r \in Range(p.to) : r.part \in 1..Len(parts)

\* Appending such a part keeps the invariant.
LEMMA Appended ==
  ASSUME Inv, NEW p, bound # Unbound, Fresh(p, bound.family),
         parts' = Append(parts, p), bound' = bound, outcome' = "reading"
  PROVE  Inv'
<1>0. PICK n \in Nat : n = Len(parts)
  BY Elements DEF Inv, Reading
<1>1. parts \in Seq(Part) /\ p \in Part
  BY DEF Inv, Reading, Fresh
<1>2. /\ parts' \in Seq(Part) /\ Len(parts') = n + 1
      /\ \A i \in 1..n : parts'[i] = parts[i]
      /\ parts'[n + 1] = p
  <2>1. parts' \in Seq(Part) /\ Extends(parts', parts, Len(parts), p)
    BY <1>1, AppendExtends
  <2>2. QED
    BY <1>0, <2>1 DEF Extends
<1>3. \A i \in 1..(n + 1) : i \in 1..n \/ i = n + 1
  BY <1>0
<1>4. Bound'
  BY DEF Inv, Bound
<1>5. Reading'
  <2>1. ASSUME NEW i \in 1..(n + 1) PROVE parts'[i].kind = "text" <=> bound.family = "text"
    BY <1>0, <1>2, <1>3 DEF Inv, Reading, Fresh
  <2>2. ASSUME bound.family = "text" PROVE n + 1 <= 1
    <3>1. parts = <<>>
      BY <2>2 DEF Fresh
    <3>2. n = 0
      BY <1>0, <3>1
    <3>3. QED
      BY <3>2
  <2>3. QED
    BY <1>2, <2>1, <2>2 DEF Reading
<1>6. Linked'
  <2>1. ASSUME NEW i \in 1..n
        PROVE  /\ \A r \in Range(parts'[i].to) : r.part \in 1..(i - 1)
               /\ parts'[i].kind = "keyframe" =>
                    /\ parts'[i].to = <<To("KEYFRAME_OF", i - 1)>>
                    /\ parts'[i - 1].kind = "scene"
    <3>1. /\ \A r \in Range(parts[i].to) : r.part \in 1..(i - 1)
          /\ parts[i].kind = "keyframe" =>
               parts[i].to = <<To("KEYFRAME_OF", i - 1)>> /\ parts[i - 1].kind = "scene"
      BY <1>0 DEF Inv, Linked
    <3>2. parts'[i] = parts[i]
      BY <1>2
    <3>3. ASSUME parts[i].kind = "keyframe" PROVE parts'[i - 1] = parts[i - 1]
      <4>1. Range(<<To("KEYFRAME_OF", i - 1)>>) = {To("KEYFRAME_OF", i - 1)}
        BY Singleton
      <4>2. To("KEYFRAME_OF", i - 1).part = i - 1
        BY DEF To
      <4>3. i - 1 \in 1..(i - 1)
        BY <3>1, <3>3, <4>1, <4>2
      <4>4. i - 1 \in 1..n
        BY <1>0, <4>3
      <4>5. QED
        BY <1>2, <4>4
    <3>4. QED
      BY <3>1, <3>2, <3>3
  <2>2. /\ \A r \in Range(p.to) : r.part \in 1..n
        /\ p.kind # "keyframe"
    BY <1>0 DEF Fresh
  <2>3. (n + 1) - 1 = n
    BY <1>0
  <2>4. ASSUME NEW i \in 1..(n + 1)
        PROVE  /\ \A r \in Range(parts'[i].to) : r.part \in 1..(i - 1)
               /\ parts'[i].kind = "keyframe" =>
                    /\ parts'[i].to = <<To("KEYFRAME_OF", i - 1)>>
                    /\ parts'[i - 1].kind = "scene"
    BY <1>2, <1>3, <2>1, <2>2, <2>3
  <2>5. QED
    BY <1>2, <2>4 DEF Linked
<1>7. ChunksMade'
  BY DEF ChunksMade, Chunked
<1>8. QED
  BY <1>4, <1>5, <1>6, <1>7 DEF Inv

\* An extractor that appends such a part keeps the invariant.
LEMMA ReadKeeps ==
  ASSUME Inv, NEW family, NEW kind \in Kinds \ {"keyframe"}, NEW text \in Texts \cup Bodies,
         NEW at \in Nat \X Nat, NEW to \in Seq(Links), Read(family, kind, text, at, to),
         kind = "text" <=> family = "text", kind = "text" => parts = <<>>,
         \A r \in Range(to) : r.part \in 1..Len(parts)
  PROVE  Inv'
<1> DEFINE p == [kind |-> kind, text |-> text, at |-> at, to |-> to]
<1>1. /\ bound # Unbound /\ bound.family = family
      /\ parts' = Append(parts, p) /\ bound' = bound /\ outcome' = "reading"
  BY DEF Read
<1>2. p \in Part
  BY DEF Part
<1>3. p.kind = kind /\ p.to = to
  OBVIOUS
<1> HIDE DEF p
<1>4. Fresh(p, bound.family)
  BY <1>1, <1>2, <1>3 DEF Fresh
<1>5. QED
  BY <1>1, <1>4, Appended

\* A relation that an extractor makes.
LEMMA ToLink ==
  ASSUME NEW kind \in Relations, NEW i \in Nat
  PROVE  To(kind, i) \in Links /\ To(kind, i).part = i /\ To(kind, i).kind = kind
BY DEF To, Links

\* A list of one relation.
LEMMA OneLink ==
  ASSUME NEW kind \in Relations, NEW n \in Nat, NEW i \in 1..n
  PROVE  /\ <<To(kind, i)>> \in Seq(Links)
         /\ \A r \in Range(<<To(kind, i)>>) : r.part \in 1..n
<1>1. To(kind, i) \in Links /\ To(kind, i).part = i
  BY ToLink
<1>2. QED
  BY <1>1, Singleton

\* The last part, if there is one.
LEMMA PartsBefore ==
  ASSUME Inv, parts # <<>>
  PROVE  Len(parts) \in 1..Len(parts) /\ Len(parts) \in Nat
<1>1. Len(parts) \in Nat \ {0}
  BY NonEmpty DEF Inv, Reading
<1>2. QED
  BY <1>1

\* Reading a text document.
LEMMA TextReads ==
  ASSUME Inv, NEW t \in Texts, ReadText(t)
  PROVE  Inv'
<1>1. Read("text", "text", t, <<1, 1>>, <<>>) /\ parts = <<>>
  BY DEF ReadText
<1>2. <<1, 1>> \in Nat \X Nat /\ <<>> \in Seq(Links) /\ Range(<<>>) = {}
  BY NoElements
<1>3. "text" \in Kinds \ {"keyframe"}
  BY DEF Kinds
<1>4. QED
  BY <1>1, <1>2, <1>3, ReadKeeps

\* Reading a word.
LEMMA WordReads ==
  ASSUME Inv, NEW b \in Bodies, NEW line \in 1..MaxParts, NEW height \in 1..2,
         ReadWord(b, line, height)
  PROVE  Inv'
<1>1. PICK family \in {"ocr", "vision"} :
        Read(family, "word", b, <<line, height>>, WordLabels(line))
  BY DEF ReadWord
<1>2. <<line, height>> \in Nat \X Nat /\ "word" \in Kinds \ {"keyframe"}
  BY DEF Kinds
<1>3. /\ WordLabels(line) \in Seq(Links)
      /\ \A r \in Range(WordLabels(line)) : r.part \in 1..Len(parts)
  <2>1. CASE WordLabels(line) = <<>>
    BY <2>1, NoElements
  <2>2. CASE WordLabels(line) = <<To("LABELED_BY", Len(parts))>> /\ parts # <<>>
    BY <2>2, PartsBefore, OneLink DEF Relations
  <2>3. QED
    BY <2>1, <2>2 DEF WordLabels
<1>4. QED
  BY <1>1, <1>2, <1>3, ReadKeeps

\* What a part of a layout continues is a part before it.
LEMMA ContinuedLinks ==
  ASSUME Inv, NEW kind
  PROVE  /\ Continued(kind) \in Seq(Links)
         /\ \A r \in Range(Continued(kind)) : r.part \in 1..Len(parts)
<1>1. CASE Continued(kind) = <<>>
  BY <1>1, NoElements
<1>2. CASE Continued(kind) = <<To("CONTINUES", Len(parts))>> /\ parts # <<>>
  BY <1>2, PartsBefore, OneLink DEF Relations
<1>3. QED
  BY <1>1, <1>2 DEF Continued

\* The positions of the parts.
LEMMA LengthNat ==
  ASSUME Inv
  PROVE  Len(parts) \in Nat /\ DOMAIN parts = 1..Len(parts)
BY Elements DEF Inv, Reading

\* Reading a box.
LEMMA BoxReads ==
  ASSUME Inv, NEW b \in Bodies, ReadBox(b)
  PROVE  Inv'
<1>1. Read("layout", "box", b, <<0, Len(parts)>>, Continued("box"))
  BY DEF ReadBox
<1>2. <<0, Len(parts)>> \in Nat \X Nat /\ "box" \in Kinds \ {"keyframe"}
  BY LengthNat DEF Kinds
<1>3. QED
  BY <1>1, <1>2, ContinuedLinks, ReadKeeps

\* Reading a cell: the header it names is a part before it.
LEMMA CellReads ==
  ASSUME Inv, NEW b \in Bodies, NEW row \in 1..2, NEW column \in 1..2, ReadCell(b, row, column)
  PROVE  Inv'
<1> DEFINE cells   == {i \in DOMAIN parts : parts[i].kind = "cell"}
           headers == {i \in cells : parts[i].at = <<1, column>>}
           label   == IF headers = {} THEN <<>> ELSE <<To("LABELED_BY", Max(headers))>>
<1>1. Read("layout", "cell", b, <<row, column>>, Then(Continued("cell"), label))
  BY DEF ReadCell, Then
<1>2. PICK n \in Nat : n = Len(parts) /\ DOMAIN parts = 1..n
  BY LengthNat
<1>3. headers \in SUBSET (1..n)
  BY <1>2
<1>4. label \in Seq(Links) /\ \A r \in Range(label) : r.part \in 1..n
  <2>1. CASE headers = {}
    BY <2>1, NoElements
  <2>2. CASE headers # {}
    <3> DEFINE i == Max(headers)
    <3>1. label = <<To("LABELED_BY", i)>>
      BY <2>2
    <3> HIDE DEF headers
    <3>2. i \in headers
      <4>1. PICK H : H = headers
        OBVIOUS
      <4>2. 1 \in Int /\ n \in Int /\ H \in SUBSET (1..n) /\ H # {}
        BY <1>2, <1>3, <2>2, <4>1
      <4>3. Max(H) \in H
        BY <4>2, Extremes
      <4>4. QED
        BY <4>1, <4>3
    <3>3. i \in 1..n
      BY <1>3, <3>2
    <3> HIDE DEF i
    <3>4. QED
      BY <1>2, <3>1, <3>3, OneLink DEF Relations
  <2>3. QED
    BY <2>1, <2>2
<1>5. Continued("cell") \in Seq(Links) /\ \A r \in Range(Continued("cell")) : r.part \in 1..n
  BY <1>2, ContinuedLinks
<1> HIDE DEF label
<1>6. PICK to : to = Then(Continued("cell"), label)
  OBVIOUS
<1>7. to \in Seq(Links) /\ Range(to) = Range(Continued("cell")) \cup Range(label)
  <2>1. PICK c \in Seq(Links) : c = Continued("cell")
    BY <1>5
  <2>2. PICK d \in Seq(Links) : d = label
    BY <1>4
  <2>3. Then(c, d) \in Seq(Links)
    BY Joint
  <2>4. Range(Then(c, d)) = Range(c) \cup Range(d)
    BY JointRange
  <2>5. QED
    BY <1>6, <2>1, <2>2, <2>3, <2>4
<1>8. \A r \in Range(to) : r.part \in 1..Len(parts)
  BY <1>2, <1>4, <1>5, <1>7
<1>9. <<row, column>> \in Nat \X Nat /\ "cell" \in Kinds \ {"keyframe"}
  BY DEF Kinds
<1>10. Read("layout", "cell", b, <<row, column>>, to)
  BY <1>1, <1>6
<1>11. QED
  BY <1>7, <1>8, <1>9, <1>10, ReadKeeps

\* Reading an image.
LEMMA ImageReads ==
  ASSUME Inv, NEW b \in Bodies, ReadImage(b)
  PROVE  Inv'
<1>1. Read("vision", "image", b, <<0, Len(parts)>>, <<>>)
  BY DEF ReadImage
<1>2. <<0, Len(parts)>> \in Nat \X Nat /\ "image" \in Kinds \ {"keyframe"}
  BY LengthNat DEF Kinds
<1>3. <<>> \in Seq(Links) /\ Range(<<>>) = {}
  BY NoElements
<1>4. QED
  BY <1>1, <1>2, <1>3, ReadKeeps

\* Reading a segment.
LEMMA SegmentReads ==
  ASSUME Inv, NEW b \in Bodies, ReadSegment(b)
  PROVE  Inv'
<1>1. Read("media", "segment", b, <<0, Len(parts)>>, <<>>)
  BY DEF ReadSegment
<1>2. <<0, Len(parts)>> \in Nat \X Nat /\ "segment" \in Kinds \ {"keyframe"}
  BY LengthNat DEF Kinds
<1>3. <<>> \in Seq(Links) /\ Range(<<>>) = {}
  BY NoElements
<1>4. QED
  BY <1>1, <1>2, <1>3, ReadKeeps

\* A list of two elements.
LEMMA TwoElements ==
  ASSUME NEW X, NEW p \in X, NEW q \in X
  PROVE  /\ <<p, q>> \in Seq(X) /\ Len(<<p, q>>) = 2
         /\ <<p, q>>[1] = p /\ <<p, q>>[2] = q
OBVIOUS

\* Reading a scene and its keyframe, which names it.
LEMMA SceneReads ==
  ASSUME Inv, NEW b \in Bodies, ReadScene(b)
  PROVE  Inv'
<1>0. PICK n \in Nat : n = Len(parts) /\ DOMAIN parts = 1..n
  BY LengthNat
<1> DEFINE p == [kind |-> "scene", text |-> b, at |-> <<0, 0>>, to |-> <<>>]
           q == [kind |-> "keyframe", text |-> b, at |-> <<0, 0>>,
                 to |-> <<To("KEYFRAME_OF", n + 1)>>]
           two == <<p, q>>
<1>1. /\ bound # Unbound /\ bound.family = "media" /\ outcome' = "reading"
      /\ parts' = Then(parts, two) /\ bound' = bound
  BY <1>0 DEF ReadScene, Then
<1>2. PICK r : r = To("KEYFRAME_OF", n + 1)
  OBVIOUS
<1>3. r \in Links /\ r.part = n + 1
  BY <1>0, <1>2, ToLink DEF Relations
<1>4. <<r>> \in Seq(Links) /\ Range(<<r>>) = {r}
  BY <1>3, Singleton
<1>5. p \in Part /\ q \in Part
  BY <1>2, <1>4 DEF Part, Kinds
<1>6. /\ p.kind = "scene" /\ p.to = <<>>
      /\ q.kind = "keyframe" /\ q.to = <<r>> /\ q.to = <<To("KEYFRAME_OF", n + 1)>>
  BY <1>2
<1> HIDE DEF p, q
<1>7. two \in Seq(Part) /\ Len(two) = 2 /\ two[1] = p /\ two[2] = q
  BY <1>5, TwoElements
<1> HIDE DEF two
<1>8. parts \in Seq(Part)
  BY DEF Inv, Reading
<1>9. /\ parts' \in Seq(Part) /\ Len(parts') = n + 2
      /\ \A i \in 1..n : parts'[i] = parts[i]
      /\ parts'[n + 1] = p /\ parts'[n + 2] = q
  <2>1. parts' \in Seq(Part) /\ Len(parts') = n + 2
    BY <1>0, <1>1, <1>7, <1>8, Joint
  <2>2. \A i \in 1..n : parts'[i] = parts[i]
    BY <1>0, <1>1, <1>7, <1>8, JointElements
  <2>3. \A i \in (n + 1)..(n + 2) : parts'[i] = two[i - n]
    BY <1>0, <1>1, <1>7, <1>8, JointElements
  <2>4. parts'[n + 1] = two[1] /\ parts'[n + 2] = two[2]
    <3>1. n + 1 \in (n + 1)..(n + 2) /\ n + 2 \in (n + 1)..(n + 2)
      BY <1>0
    <3>2. (n + 1) - n = 1 /\ (n + 2) - n = 2
      BY <1>0
    <3>3. QED
      BY <2>3, <3>1, <3>2
  <2>5. QED
    BY <1>7, <2>1, <2>2, <2>4
<1>10. \A i \in 1..(n + 2) : i \in 1..n \/ i = n + 1 \/ i = n + 2
  BY <1>0
<1>11. Bound'
  BY <1>1 DEF Inv, Bound
<1>12. Reading'
  <2>1. ASSUME NEW i \in 1..(n + 2) PROVE parts'[i].kind # "text"
    <3>1. CASE i \in 1..n
      BY <1>0, <1>1, <1>9, <3>1 DEF Inv, Reading
    <3>2. CASE i = n + 1
      BY <1>6, <1>9, <3>2
    <3>3. CASE i = n + 2
      BY <1>6, <1>9, <3>3
    <3>4. QED
      BY <1>10, <3>1, <3>2, <3>3
  <2>2. QED
    BY <1>1, <1>9, <2>1 DEF Reading
<1>13. Linked'
  <2>1. ASSUME NEW i \in 1..n
        PROVE  /\ \A l \in Range(parts'[i].to) : l.part \in 1..(i - 1)
               /\ parts'[i].kind = "keyframe" =>
                    /\ parts'[i].to = <<To("KEYFRAME_OF", i - 1)>>
                    /\ parts'[i - 1].kind = "scene"
    <3>1. /\ \A l \in Range(parts[i].to) : l.part \in 1..(i - 1)
          /\ parts[i].kind = "keyframe" =>
               parts[i].to = <<To("KEYFRAME_OF", i - 1)>> /\ parts[i - 1].kind = "scene"
      BY <1>0 DEF Inv, Linked
    <3>2. parts'[i] = parts[i]
      BY <1>9
    <3>3. ASSUME parts[i].kind = "keyframe" PROVE parts'[i - 1] = parts[i - 1]
      <4>1. Range(<<To("KEYFRAME_OF", i - 1)>>) = {To("KEYFRAME_OF", i - 1)}
        BY Singleton
      <4>2. To("KEYFRAME_OF", i - 1).part = i - 1
        BY DEF To
      <4>3. i - 1 \in 1..(i - 1)
        BY <3>1, <3>3, <4>1, <4>2
      <4>4. i - 1 \in 1..n
        BY <1>0, <4>3
      <4>5. QED
        BY <1>9, <4>4
    <3>4. QED
      BY <3>1, <3>2, <3>3
  <2>2. /\ \A l \in Range(p.to) : FALSE
        /\ p.kind # "keyframe"
    BY <1>6, NoElements
  <2>3. (n + 2) - 1 = n + 1 /\ n + 1 \in 1..(n + 1)
    BY <1>0
  <2>4. \A l \in Range(q.to) : l.part \in 1..(n + 1)
    BY <1>3, <1>4, <1>6, <2>3
  <2>5. ASSUME NEW i \in 1..(n + 2)
        PROVE  /\ \A l \in Range(parts'[i].to) : l.part \in 1..(i - 1)
               /\ parts'[i].kind = "keyframe" =>
                    /\ parts'[i].to = <<To("KEYFRAME_OF", i - 1)>>
                    /\ parts'[i - 1].kind = "scene"
    <3>1. CASE i \in 1..n
      BY <2>1, <3>1
    <3>2. CASE i = n + 1
      BY <1>9, <2>2, <3>2
    <3>3. CASE i = n + 2
      BY <1>6, <1>9, <2>3, <2>4, <3>3
    <3>4. QED
      BY <1>10, <3>1, <3>2, <3>3
  <2>6. QED
    BY <1>9, <2>5 DEF Linked
<1>14. ChunksMade'
  BY <1>1 DEF ChunksMade, Chunked
<1>15. QED
  BY <1>11, <1>12, <1>13, <1>14 DEF Inv

\* The parts and the policy stay.
LEMMA SameReading ==
  ASSUME Inv, parts' = parts, bound' = bound
  PROVE  Bound' /\ Reading' /\ Linked'
BY DEF Inv, Bound, Reading, Linked

\* Binding the chunker.
LEMMA Binds ==
  ASSUME Inv, NEW f \in Families, NEW p \in Policies, Bind(f, p)
  PROVE  Inv'
<1>1. bound = Unbound /\ parts' = parts /\ outcome' # "chunks"
  BY DEF Bind
<1>2. parts = <<>>
  BY <1>1 DEF Inv, Reading
<1>3. Len(parts') = 0 /\ parts' = <<>> /\ parts' \in Seq(Part) /\ \A i \in 1..Len(parts') : FALSE
  BY <1>1, <1>2
<1>4. Bound'
  <2>1. \/ /\ p.strategy \in Supported(f)
           /\ bound' = [family |-> f, policy |-> Resolved(f, p)]
        \/ bound' = bound
    BY DEF Bind
  <2>2. QED
    BY <1>1, <2>1 DEF Bound
<1>5. Reading' /\ Linked'
  BY <1>3 DEF Reading, Linked
<1>6. ChunksMade'
  BY <1>1 DEF ChunksMade, Chunked
<1>7. QED
  BY <1>4, <1>5, <1>6 DEF Inv

\* An extractor that raises.
LEMMA Refuses ==
  ASSUME Inv, Refuse
  PROVE  Inv'
<1>1. parts' = parts /\ bound' = bound /\ outcome' = "rejected"
  BY DEF Refuse
<1>2. ChunksMade'
  BY <1>1 DEF ChunksMade, Chunked
<1>3. QED
  BY <1>1, <1>2, SameReading DEF Inv

\* Chunking what was read.
LEMMA Chunks ==
  ASSUME Inv, NEW asked \in Requests, Chunk(asked)
  PROVE  Inv'
<1>1. parts' = parts /\ bound' = bound /\ parts # <<>>
  BY DEF Chunk
<1>2. \/ outcome' = "rejected" \/ outcome' = "limit"
      \/ /\ outcome' = "chunks"
         /\ chunks' = IF bound.family = "text" THEN TextChunks(bound.policy)
                                               ELSE GroupChunks(bound.policy)
  BY DEF Chunk, Bounding
<1>3. PICK policy : policy = bound.policy
  OBVIOUS
<1>4. TextChunks(policy)' = TextChunks(policy) /\ GroupChunks(policy)' = GroupChunks(policy)
  BY <1>1, SameText, SameGroups
<1>5. ChunksMade'
  BY <1>1, <1>2, <1>3, <1>4 DEF ChunksMade, Chunked
<1>6. QED
  BY <1>1, <1>5, SameReading DEF Inv

\* A step that changes nothing.
LEMMA Stutters ==
  ASSUME Inv, UNCHANGED vars
  PROVE  Inv'
<1>1. parts' = parts /\ bound' = bound /\ outcome' = outcome /\ chunks' = chunks
  BY DEF vars
<1>2. PICK policy : policy = bound.policy
  OBVIOUS
<1>3. TextChunks(policy)' = TextChunks(policy) /\ GroupChunks(policy)' = GroupChunks(policy)
  BY <1>1, SameText, SameGroups
<1>4. ChunksMade'
  BY <1>1, <1>2, <1>3 DEF Inv, ChunksMade, Chunked
<1>5. QED
  BY <1>1, <1>4, SameReading DEF Inv

\* Every step keeps the invariant.
LEMMA Steps ==
  ASSUME Inv, Next
  PROVE  Inv'
<1>1. ASSUME NEW f \in Families, NEW p \in Policies, Bind(f, p) PROVE Inv'
  BY <1>1, Binds
<1>2. ASSUME NEW t \in Texts, ReadText(t) PROVE Inv'
  BY <1>2, TextReads
<1>3. ASSUME NEW b \in Inked,
             \/ \E line \in 1..MaxParts, height \in 1..2 : ReadWord(b, line, height)
             \/ ReadBox(b)
             \/ ReadImage(b)
             \/ ReadSegment(b)
             \/ ReadScene(b)
      PROVE  Inv'
  <2>1. b \in Bodies
    BY DEF Inked
  <2>2. QED
    BY <1>3, <2>1, WordReads, BoxReads, ImageReads, SegmentReads, SceneReads
<1>6. ASSUME NEW b \in Bodies, NEW row \in 1..2, NEW column \in 1..2, ReadCell(b, row, column)
      PROVE  Inv'
  BY <1>6, CellReads
<1>4. CASE Refuse
  BY <1>4, Refuses
<1>5. ASSUME NEW asked \in Requests, Chunk(asked) PROVE Inv'
  BY <1>5, Chunks
<1>7. QED
  BY <1>1, <1>2, <1>3, <1>4, <1>5, <1>6 DEF Next

\* The parts and the chunks are as the extractors and the chunker make them, for any
\* documents, sizes and requests.
THEOREM ChunkingInvariant ==
  Spec => []Inv
<1>1. Init => Inv
  BY Starts
<1>2. Inv /\ [Next]_vars => Inv'
  BY Steps, Stutters
<1>3. QED
  BY <1>1, <1>2, PTL DEF Spec

\* Whatever the strategy and the sizes, no unit and no word that fits is cut.
THEOREM NothingIsEverCut ==
  Spec => []NothingIsCut
<1>1. Inv => NothingIsCut
  BY UncutFromInv
<1>2. QED
  BY <1>1, ChunkingInvariant, PTL

-----------------------------------------------------------------------------
(* Orders and selections *)

\* The elements of a list and one behind them.
LEMMA AppendRange ==
  ASSUME NEW X, NEW s \in Seq(X), NEW e \in X
  PROVE  Range(Append(s, e)) = Range(s) \cup {e}
<1>1. /\ Append(s, e) \in Seq(X) /\ Len(Append(s, e)) = Len(s) + 1
      /\ \A i \in 1..Len(s) : Append(s, e)[i] = s[i]
      /\ Append(s, e)[Len(s) + 1] = e
  BY AppendExtends DEF Extends
<1>2. PICK n \in Nat : n = Len(s)
  BY Elements
<1>3. \A i \in 1..(n + 1) : i \in 1..n \/ i = n + 1
  BY <1>2
<1>4. n + 1 \in 1..(n + 1) /\ \A i \in 1..n : i \in 1..(n + 1)
  BY <1>2
<1>5. ASSUME NEW x \in Range(Append(s, e)) PROVE x \in Range(s) \cup {e}
  <2>1. PICK i \in 1..(n + 1) : x = Append(s, e)[i]
    <3>1. PICK t \in Seq(X) : t = Append(s, e)
      BY <1>1
    <3>2. PICK i \in 1..Len(t) : x = t[i]
      BY <1>5, <3>1, Elements
    <3>3. Len(t) = n + 1
      BY <1>1, <1>2, <3>1
    <3>4. QED
      BY <3>1, <3>2, <3>3
  <2>2. CASE i \in 1..n
    BY <1>1, <1>2, <2>1, <2>2, Elements
  <2>3. CASE i = n + 1
    BY <1>1, <1>2, <2>1, <2>3
  <2>4. QED
    BY <1>3, <2>2, <2>3
<1>6. ASSUME NEW x \in Range(s) \cup {e} PROVE x \in Range(Append(s, e))
  <2>1. \A i \in 1..(n + 1) : Append(s, e)[i] \in Range(Append(s, e))
    BY <1>1, <1>2, Elements
  <2>2. CASE x = e
    BY <1>1, <1>2, <1>4, <2>1, <2>2
  <2>3. CASE x \in Range(s)
    <3>1. PICK i \in 1..n : x = s[i]
      BY <1>2, <2>3, Elements
    <3>2. QED
      BY <1>1, <1>2, <1>4, <2>1, <3>1
  <2>4. QED
    BY <1>6, <2>2, <2>3
<1>7. QED
  BY <1>5, <1>6

Increasing(list) == \A j, k \in 1..Len(list) : j < k => list[j] < list[k]

\* The numbers of a set up to one, in order.
Ordered(list, set, n) ==
  /\ list \in Seq(Nat) /\ Increasing(list)
  /\ \A x : x \in Range(list) <=> x \in set /\ x \in 1..n

\* The next number, if it is in the set.
LEMMA OrderedAppend ==
  ASSUME NEW list, NEW set, NEW n \in Nat, Ordered(list, set, n), n + 1 \in set
  PROVE  Ordered(Append(list, n + 1), set, n + 1)
<1>1. list \in Seq(Nat) /\ Increasing(list) /\ \A x : x \in Range(list) <=> x \in set /\ x \in 1..n
  BY DEF Ordered
<1>2. PICK e \in Nat : e = n + 1
  OBVIOUS
<1>3. PICK t : t = Append(list, e)
  OBVIOUS
<1>4. /\ t \in Seq(Nat) /\ Len(t) = Len(list) + 1
      /\ \A i \in 1..Len(list) : t[i] = list[i]
      /\ t[Len(list) + 1] = e
  BY <1>1, <1>3, AppendExtends DEF Extends
<1>5. Range(t) = Range(list) \cup {e}
  BY <1>1, <1>3, AppendRange
<1>6. PICK m \in Nat : m = Len(list)
  BY <1>1, Elements
<1>7. ASSUME NEW j \in 1..(m + 1), NEW k \in 1..(m + 1), j < k PROVE t[j] < t[k]
  <2>1. j \in 1..m
    BY <1>6, <1>7
  <2>2. t[j] = list[j] /\ list[j] \in Range(list)
    BY <1>1, <1>4, <1>6, <2>1, Elements
  <2>3. CASE k = m + 1
    <3>1. list[j] \in 1..n
      BY <1>1, <2>2
    <3>2. QED
      BY <1>2, <1>4, <1>6, <2>2, <2>3, <3>1
  <2>4. CASE k # m + 1
    <3>1. k \in 1..m
      BY <1>6, <2>4
    <3>2. t[k] = list[k]
      BY <1>4, <1>6, <3>1
    <3>3. list[j] < list[k]
      BY <1>1, <1>6, <1>7, <2>1, <3>1 DEF Increasing
    <3>4. QED
      BY <2>2, <3>2, <3>3
  <2>5. QED
    BY <2>3, <2>4
<1>8. ASSUME NEW x PROVE x \in Range(t) <=> x \in set /\ x \in 1..(n + 1)
  <2>1. x \in 1..(n + 1) <=> x \in 1..n \/ x = e
    BY <1>2
  <2>2. QED
    BY <1>1, <1>2, <1>5, <2>1
<1>9. Increasing(t)
  BY <1>4, <1>6, <1>7 DEF Increasing
<1>10. Ordered(t, set, n + 1)
  BY <1>4, <1>8, <1>9 DEF Ordered
<1>11. QED
  BY <1>2, <1>3, <1>10

\* The next number, if it is not.
LEMMA OrderedSkip ==
  ASSUME NEW list, NEW set, NEW n \in Nat, Ordered(list, set, n), n + 1 \notin set
  PROVE  Ordered(list, set, n + 1)
<1>1. \A x : x \in set => (x \in 1..(n + 1) <=> x \in 1..n)
  <2>1. ASSUME NEW x, x # n + 1 PROVE x \in 1..(n + 1) <=> x \in 1..n
    BY <2>1
  <2>2. QED
    BY <2>1
<1>2. QED
  BY <1>1 DEF Ordered

\* InOrder lists the numbers of the set.
LEMMA InOrderOrdered ==
  ASSUME NEW set, NEW n \in Nat
  PROVE  Ordered(InOrder(set, n), set, n)
<1> DEFINE g == [p \in Seq(Nat) \X (0..n) |-> IF p[2] \in set THEN Append(p[1], p[2]) ELSE p[1]]
<1>1. 0 \in Int /\ n \in Int /\ 0 <= n /\ <<>> \in Seq(Nat)
  BY NoElements
<1>2. g \in [Seq(Nat) \X (0..n) -> Seq(Nat)]
  <2>1. \A s \in Seq(Nat), i \in 0..n : Append(s, i) \in Seq(Nat)
    BY AppendExtends
  <2>2. \A p \in Seq(Nat) \X (0..n) : p[1] \in Seq(Nat) /\ p[2] \in 0..n
    OBVIOUS
  <2>3. QED
    BY <2>1, <2>2
<1>3. \A s \in Seq(Nat), i \in 0..n : g[<<s, i>>] = IF i \in set THEN Append(s, i) ELSE s
  OBVIOUS
<1> HIDE DEF g
<1>4. PICK f \in [0..n -> Seq(Nat)] : Computed(f, <<>>, g, 0, n)
  BY <1>1, <1>2, Recursion DEF Computable
<1>5. f[0] = <<>>
  BY <1>4 DEF Computed
<1>6. ASSUME NEW i \in 1..n
      PROVE  f[i] = IF i \in set THEN Append(f[i - 1], i) ELSE f[i - 1]
  <2>1. i - 1 \in 0..n /\ i \in (0 + 1)..n /\ i \in 0..n
    OBVIOUS
  <2>2. f[i] = g[<<f[i - 1], i>>] /\ f[i - 1] \in Seq(Nat)
    BY <1>4, <2>1 DEF Computed
  <2>3. QED
    BY <1>3, <2>1, <2>2
<1> DEFINE IsUpTo(h) == h = [i \in 0..n |-> IF i = 0 THEN <<>>
                                           ELSE IF i \in set THEN Append(h[i - 1], i) ELSE h[i - 1]]
<1>7. IsUpTo(f)
  <2>1. ASSUME NEW i \in 0..n
        PROVE  f[i] = IF i = 0 THEN <<>>
                      ELSE IF i \in set THEN Append(f[i - 1], i) ELSE f[i - 1]
    <3>1. i = 0 \/ (i \in 1..n /\ i # 0)
      OBVIOUS
    <3>2. QED
      BY <1>5, <1>6, <3>1
  <2>2. f = [i \in 0..n |-> f[i]]
    BY <1>4
  <2>3. QED
    BY <2>1, <2>2
<1> DEFINE upTo == CHOOSE h : IsUpTo(h)
<1>8. IsUpTo(upTo)
  BY <1>7, Zenon
<1>9. InOrder(set, n) = upTo[n]
  BY DEF InOrder
<1> HIDE DEF upTo
<1>10. \A i \in 0..n : upTo[i] = IF i = 0 THEN <<>>
                                ELSE IF i \in set THEN Append(upTo[i - 1], i) ELSE upTo[i - 1]
  BY <1>8
<1> DEFINE S == {i \in 0..n : Ordered(upTo[i], set, i)}
<1>11. 0 \in S
  <2>1. upTo[0] = <<>>
    BY <1>1, <1>10
  <2>2. <<>> \in Seq(Nat) /\ Len(<<>>) = 0 /\ Range(<<>>) = {}
    BY NoElements
  <2>3. Increasing(<<>>)
    BY <2>2 DEF Increasing
  <2>4. Ordered(<<>>, set, 0)
    BY <2>2, <2>3 DEF Ordered
  <2>5. QED
    BY <2>1, <2>4
<1>12. ASSUME NEW i \in 0..(n - 1), i \in S PROVE i + 1 \in S
  <2>1. i \in Nat /\ i + 1 \in 0..n /\ i + 1 # 0 /\ (i + 1) - 1 = i
    BY <1>1
  <2>2. upTo[i + 1] = IF i + 1 \in set THEN Append(upTo[i], i + 1) ELSE upTo[i]
    BY <1>10, <2>1
  <2>3. Ordered(upTo[i], set, i)
    BY <1>12
  <2>4. Ordered(upTo[i + 1], set, i + 1)
    <3>1. CASE i + 1 \in set
      BY <2>1, <2>2, <2>3, <3>1, OrderedAppend
    <3>2. CASE i + 1 \notin set
      BY <2>1, <2>2, <2>3, <3>2, OrderedSkip
    <3>3. QED
      BY <3>1, <3>2
  <2>5. QED
    BY <2>1, <2>4
<1> HIDE DEF S
<1>13. Upward(S, 0, n)
  BY <1>11, <1>12 DEF Upward
<1>14. n \in S
  BY <1>1, <1>13, Upwards
<1>15. QED
  BY <1>9, <1>14 DEF S

\* The positions whose elements a selection of a list has.
Selected(made, list, set, at) ==
  /\ Ordered(at, set, Len(list)) /\ Len(made) = Len(at)
  /\ \A k \in 1..Len(at) : made[k] = list[at[k]]

\* Listed selects the elements at the positions of the set.
LEMMA ListedFacts ==
  ASSUME NEW X, NEW list \in Seq(X), NEW set
  PROVE  /\ Listed(list, set) \in Seq(X)
         /\ \E at : Selected(Listed(list, set), list, set, at)
<1>1. PICK n \in Nat : n = Len(list)
  BY Elements
<1>2. PICK at : at = InOrder(set, n)
  OBVIOUS
<1>3. Ordered(at, set, n)
  BY <1>2, InOrderOrdered
<1>4. at \in Seq(Nat)
  BY <1>3 DEF Ordered
<1>5. PICK m \in Nat : m = Len(at) /\ DOMAIN at = 1..m
  BY <1>4, Elements
<1> DEFINE made == [k \in 1..m |-> list[at[k]]]
<1>6. Listed(list, set) = made
  BY <1>1, <1>2, <1>5 DEF Listed
<1>7. \A k \in 1..m : list[at[k]] \in X
  <2>1. ASSUME NEW k \in 1..m PROVE list[at[k]] \in X
    <3>1. at[k] \in 1..n
      BY <1>3, <1>4, <1>5, Elements DEF Ordered
    <3>2. QED
      BY <1>1, <3>1, Elements
  <2>2. QED
    BY <2>1
<1>8. made \in [1..m -> X]
  BY <1>7
<1>9. \A k \in 1..m : made[k] = list[at[k]]
  OBVIOUS
<1> HIDE DEF made
<1>10. made \in Seq(X) /\ Len(made) = m
  BY <1>8, Functional
<1>11. Selected(made, list, set, at)
  BY <1>1, <1>3, <1>5, <1>9, <1>10 DEF Selected
<1>12. QED
  BY <1>6, <1>10, <1>11

\* The elements of a selection.
LEMMA ListedRange ==
  ASSUME NEW X, NEW list \in Seq(X), NEW set, NEW x
  PROVE  x \in Range(Listed(list, set)) <=> \E k \in 1..Len(list) : k \in set /\ x = list[k]
<1>1. PICK made : made = Listed(list, set)
  OBVIOUS
<1>2. made \in Seq(X)
  BY <1>1, ListedFacts
<1>3. PICK at : Selected(made, list, set, at)
  BY <1>1, ListedFacts
<1>4. /\ at \in Seq(Nat) /\ \A k : k \in Range(at) <=> k \in set /\ k \in 1..Len(list)
      /\ Len(made) = Len(at) /\ \A k \in 1..Len(at) : made[k] = list[at[k]]
  BY <1>3 DEF Selected, Ordered
<1>5. ASSUME x \in Range(made) PROVE \E k \in 1..Len(list) : k \in set /\ x = list[k]
  <2>1. PICK i \in 1..Len(at) : x = list[at[i]]
    BY <1>2, <1>4, <1>5, Elements
  <2>2. at[i] \in Range(at)
    BY <1>4, Elements
  <2>3. QED
    BY <1>4, <2>1, <2>2
<1>6. ASSUME NEW k \in 1..Len(list), k \in set, x = list[k] PROVE x \in Range(made)
  <2>1. k \in Range(at)
    BY <1>4, <1>6
  <2>2. PICK i \in 1..Len(at) : k = at[i]
    BY <1>4, <2>1, Elements
  <2>3. made[i] = x
    BY <1>4, <1>6, <2>2
  <2>4. QED
    BY <1>2, <1>4, <2>3, Elements
<1>7. QED
  BY <1>1, <1>5, <1>6

\* A selection that has the first element begins with it.
LEMMA ListedFirst ==
  ASSUME NEW X, NEW list \in Seq(X), NEW set, 1 \in set, list # <<>>
  PROVE  Len(Listed(list, set)) \in Nat \ {0} /\ Listed(list, set)[1] = list[1]
<1>1. PICK made : made = Listed(list, set)
  OBVIOUS
<1>2. PICK at : Selected(made, list, set, at)
  BY <1>1, ListedFacts
<1>3. /\ at \in Seq(Nat) /\ \A k : k \in Range(at) <=> k \in set /\ k \in 1..Len(list)
      /\ Increasing(at)
      /\ Len(made) = Len(at) /\ \A k \in 1..Len(at) : made[k] = list[at[k]]
  BY <1>2 DEF Selected, Ordered
<1>4. 1 \in 1..Len(list)
  <2>1. Len(list) \in Nat \ {0}
    BY NonEmpty
  <2>2. QED
    BY <2>1
<1>5. PICK m \in Nat : m = Len(at)
  BY <1>3, Elements
<1>6. PICK i \in 1..m : at[i] = 1
  BY <1>3, <1>4, <1>5, Elements
<1>7. m \in Nat \ {0} /\ 1 \in 1..m
  BY <1>6
<1>8. at[1] = 1
  <2>1. CASE i = 1
    BY <1>6, <2>1
  <2>2. CASE 1 < i
    <3>1. at[1] < 1
      BY <1>3, <1>5, <1>6, <1>7, <2>2 DEF Increasing
    <3>2. at[1] \in Range(at) /\ at[1] \in Nat
      BY <1>3, <1>5, <1>7, Elements
    <3>3. at[1] \in 1..Len(list)
      BY <1>3, <3>2
    <3>4. QED
      BY <3>1, <3>2, <3>3
  <2>3. QED
    BY <2>1, <2>2
<1>9. QED
  BY <1>1, <1>3, <1>5, <1>7, <1>8

\* Distinct leaves no element twice.
LEMMA DistinctFacts ==
  ASSUME NEW X, NEW list \in Seq(X)
  PROVE  Distinct(list) \in Seq(X) /\ NoTwice(Distinct(list))
<1> DEFINE set == {k \in DOMAIN list : \A j \in 1..(k - 1) : list[j] # list[k]}
<1>1. Distinct(list) = Listed(list, set)
  BY DEF Distinct
<1>2. PICK n \in Nat : n = Len(list) /\ DOMAIN list = 1..n
  BY Elements
<1>3. \A k \in set : k \in 1..n /\ \A j \in 1..(k - 1) : list[j] # list[k]
  BY <1>2
<1> HIDE DEF set
<1>4. PICK made : made = Listed(list, set)
  OBVIOUS
<1>5. made \in Seq(X)
  BY <1>4, ListedFacts
<1>6. PICK at : Selected(made, list, set, at)
  BY <1>4, ListedFacts
<1>7. /\ at \in Seq(Nat) /\ \A k : k \in Range(at) <=> k \in set /\ k \in 1..Len(list)
      /\ Increasing(at)
      /\ Len(made) = Len(at) /\ \A k \in 1..Len(at) : made[k] = list[at[k]]
  BY <1>6 DEF Selected, Ordered
<1>8. ASSUME NEW j \in 1..Len(made), NEW k \in 1..Len(made), j < k PROVE made[j] # made[k]
  <2>1. j \in 1..Len(at) /\ k \in 1..Len(at)
    BY <1>7
  <2>2. at[j] < at[k]
    BY <1>7, <1>8, <2>1 DEF Increasing
  <2>3. at[j] \in Range(at) /\ at[k] \in Range(at)
    BY <1>7, <2>1, Elements
  <2>4. at[j] \in 1..n /\ at[k] \in 1..n /\ at[k] \in set
    BY <1>2, <1>7, <2>3
  <2>5. PICK p \in 1..n, q \in 1..n : p = at[j] /\ q = at[k] /\ p < q /\ q \in set
    BY <2>2, <2>4
  <2>6. p \in 1..(q - 1)
    BY <2>5
  <2>7. list[p] # list[q]
    BY <1>3, <2>5, <2>6
  <2>8. QED
    BY <1>7, <2>1, <2>5, <2>7
<1>9. QED
  BY <1>1, <1>4, <1>5, <1>8 DEF NoTwice

\* Distinct leaves every element.
LEMMA DistinctRange ==
  ASSUME NEW X, NEW list \in Seq(X), NEW x
  PROVE  x \in Range(Distinct(list)) <=> x \in Range(list)
<1> DEFINE set == {k \in DOMAIN list : \A j \in 1..(k - 1) : list[j] # list[k]}
<1>1. Distinct(list) = Listed(list, set)
  BY DEF Distinct
<1>2. PICK n \in Nat : n = Len(list) /\ DOMAIN list = 1..n
  BY Elements
<1>3. \A k : k \in set <=> k \in 1..n /\ \A j \in 1..(k - 1) : list[j] # list[k]
  BY <1>2
<1> HIDE DEF set
<1>4. x \in Range(Distinct(list)) <=> \E k \in 1..n : k \in set /\ x = list[k]
  BY <1>1, <1>2, ListedRange
<1>5. ASSUME NEW k \in 1..n, x = list[k] PROVE \E i \in 1..n : i \in set /\ x = list[i]
  <2>1. PICK S : S = {i \in 1..n : list[i] = x}
    OBVIOUS
  <2>2. 1 \in Int /\ n \in Int /\ S \in SUBSET (1..n) /\ S # {}
    BY <1>5, <2>1
  <2>3. PICK i \in S : \A j \in S : i <= j
    BY <2>2, Extremes
  <2>4. i \in 1..n /\ list[i] = x
    BY <2>1
  <2>5. ASSUME NEW j \in 1..(i - 1) PROVE list[j] # list[i]
    <3>1. j \in 1..n /\ ~(i <= j)
      BY <2>4
    <3>2. j \notin S
      BY <2>3, <3>1
    <3>3. QED
      BY <2>1, <2>4, <3>1, <3>2
  <2>6. i \in set
    BY <1>3, <2>4, <2>5
  <2>7. QED
    BY <2>4, <2>6
<1>6. x \in Range(list) <=> \E k \in 1..n : x = list[k]
  BY <1>2, Elements
<1>7. QED
  BY <1>4, <1>5, <1>6

\* Distinct leaves the first element where it is.
LEMMA DistinctFirst ==
  ASSUME NEW X, NEW list \in Seq(X), list # <<>>
  PROVE  Len(Distinct(list)) \in Nat \ {0} /\ Distinct(list)[1] = list[1]
<1> DEFINE set == {k \in DOMAIN list : \A j \in 1..(k - 1) : list[j] # list[k]}
<1>1. Distinct(list) = Listed(list, set)
  BY DEF Distinct
<1>2. Len(list) \in Nat \ {0} /\ DOMAIN list = 1..Len(list)
  BY NonEmpty, Elements
<1>3. 1 \in set
  <2>1. 1 \in DOMAIN list
    BY <1>2
  <2>2. \A j \in 1..(1 - 1) : FALSE
    OBVIOUS
  <2>3. QED
    BY <2>1, <2>2
<1> HIDE DEF set
<1>4. QED
  BY <1>1, <1>3, ListedFirst

-----------------------------------------------------------------------------
(* Relations between parts *)

\* The parts, their relations, and that these name parts before them.
LEMMA PartsTyped ==
  ASSUME Inv
  PROVE  /\ Len(parts) \in Nat /\ DOMAIN parts = 1..Len(parts)
         /\ \A i \in 1..Len(parts) : /\ parts[i] \in Part /\ parts[i].to \in Seq(Links)
                                     /\ \A r \in Range(parts[i].to) : r.part \in 1..(i - 1)
<1>1. parts \in Seq(Part) /\ Linked
  BY DEF Inv, Reading
<1>2. Len(parts) \in Nat /\ DOMAIN parts = 1..Len(parts) /\ \A i \in 1..Len(parts) : parts[i] \in Part
  BY <1>1, Elements
<1>3. \A p \in Part : p.to \in Seq(Links)
  BY DEF Part
<1>4. QED
  BY <1>1, <1>2, <1>3 DEF Linked

\* Related finds every part that a part names, none of them itself.
LEMMA RelatedFacts ==
  ASSUME Inv, NEW i \in 1..Len(parts), NEW kinds
  PROVE  /\ Related(i, kinds) \in Seq(Nat)
         /\ \A r \in Range(parts[i].to) : r.kind \in kinds => r.part \in Range(Related(i, kinds))
<1>1. PICK to : to = parts[i].to
  OBVIOUS
<1>2. to \in Seq(Links) /\ i \in Nat /\ \A r \in Range(to) : r.part \in 1..(i - 1)
  BY <1>1, PartsTyped
<1> DEFINE links == Listed(to, {k \in DOMAIN to : to[k].kind \in kinds /\ to[k].part # i})
           targets == [k \in DOMAIN links |-> links[k].part]
<1>3. Related(i, kinds) = Distinct(targets)
  BY <1>1 DEF Related
<1>4. links \in Seq(Links)
  BY <1>2, ListedFacts
<1>5. PICK n \in Nat : n = Len(to) /\ DOMAIN to = 1..n
  BY <1>2, Elements
<1>6. ASSUME NEW r \in Range(to), r.kind \in kinds PROVE r \in Range(links)
  <2>1. PICK k \in 1..n : r = to[k]
    BY <1>2, <1>5, Elements
  <2>2. r.part # i
    BY <1>2
  <2>3. k \in {j \in DOMAIN to : to[j].kind \in kinds /\ to[j].part # i}
    BY <1>5, <1>6, <2>1, <2>2
  <2>4. QED
    BY <1>2, <1>5, <2>1, <2>3, ListedRange
<1> HIDE DEF links
<1>7. PICK m \in Nat : m = Len(links) /\ DOMAIN links = 1..m
  BY <1>4, Elements
<1>8. \A k \in 1..m : links[k] \in Links /\ links[k].part \in Nat
  <2>1. \A k \in 1..m : links[k] \in Links
    BY <1>4, <1>7, Elements
  <2>2. \A q \in Links : q.part \in Nat
    BY DEF Links
  <2>3. QED
    BY <2>1, <2>2
<1>9. targets \in [1..m -> Nat] /\ \A k \in 1..m : targets[k] = links[k].part
  BY <1>7, <1>8
<1> HIDE DEF targets
<1>10. targets \in Seq(Nat) /\ Len(targets) = m
  BY <1>9, Functional
<1>11. ASSUME NEW r \in Range(to), r.kind \in kinds PROVE r.part \in Range(Related(i, kinds))
  <2>1. PICK k \in 1..m : r = links[k]
    BY <1>4, <1>6, <1>7, <1>11, Elements
  <2>2. r.part \in Range(targets)
    BY <1>9, <1>10, <2>1, Elements
  <2>3. QED
    BY <1>3, <1>10, <2>2, DistinctRange
<1>12. Related(i, kinds) \in Seq(Nat)
  BY <1>3, <1>10, DistinctFacts
<1>13. QED
  BY <1>1, <1>11, <1>12

\* The positions that label no other part.
LEMMA UnlabellingOrdered ==
  ASSUME Inv
  PROVE  Ordered(Unlabelling, (1..Len(parts)) \ Labels, Len(parts))
<1>1. PICK n \in Nat : n = Len(parts) /\ DOMAIN parts = 1..n
  BY PartsTyped
<1>2. PICK set : set = (1..n) \ Labels
  OBVIOUS
<1>3. Unlabelling = InOrder(set, n)
  BY <1>1, <1>2 DEF Unlabelling
<1>4. Ordered(InOrder(set, n), set, n)
  BY <1>1, InOrderOrdered
<1>5. QED
  BY <1>1, <1>2, <1>3, <1>4

\* Whether a label is itself labelled; and where a label is a label.
Plain == \A i \in Labels : \A r \in Range(parts[i].to) : r.kind # "LABELED_BY"

\* A label labels a part that is no label, if no label is itself labelled.
LEMMA LabelOf ==
  ASSUME Inv, Plain, NEW i \in Labels
  PROVE  \E j \in (1..Len(parts)) \ Labels :
           \E r \in Range(parts[j].to) : r.kind = "LABELED_BY" /\ r.part = i
<1>1. PICK q \in UNION {Range(parts[j].to) : j \in DOMAIN parts} : q.kind = "LABELED_BY" /\ q.part = i
  BY DEF Labels
<1>2. PICK j \in DOMAIN parts : q \in Range(parts[j].to)
  BY <1>1
<1>3. j \notin Labels
  BY <1>1, <1>2 DEF Plain
<1>4. QED
  BY <1>1, <1>2, <1>3, PartsTyped

-----------------------------------------------------------------------------
(* Groups of evidence and scenes *)

\* Groups that are all different, and of which every part that is not blank has one.
Differing(groups) == \A j, k \in DOMAIN groups : j < k => groups[j] # groups[k]
Covering(groups)  ==
  \A i \in 1..Len(parts) : Says(i) => \E k \in DOMAIN groups : i \in Range(groups[k])

\* Groups that begin with parts of their own.
Headed(groups, heads) ==
  /\ heads \in Seq(Nat) /\ NoTwice(heads) /\ DOMAIN groups = 1..Len(heads)
  /\ \A k \in 1..Len(heads) : groups[k][1] = heads[k]

\* Such groups are all different.
LEMMA HeadedDiffer ==
  ASSUME NEW groups, NEW heads, Headed(groups, heads)
  PROVE  Differing(groups)
BY DEF Headed, Differing, NoTwice

\* A list with an element before it.
LEMMA HeadAndRest ==
  ASSUME NEW X, NEW h \in X, NEW rest \in Seq(X)
  PROVE  /\ <<h>> \o rest \in Seq(X)
         /\ (<<h>> \o rest)[1] = h
         /\ Range(<<h>> \o rest) = {h} \cup Range(rest)
         /\ <<h>> \o rest # <<>>
<1>1. PICK one : one = <<h>> /\ one \in Seq(X) /\ Len(one) = 1 /\ one[1] = h /\ Range(one) = {h}
  BY Singleton
<1>2. PICK all : all = Then(one, rest) /\ all = <<h>> \o rest
  BY <1>1 DEF Then
<1>3. all \in Seq(X) /\ Len(all) = 1 + Len(rest)
  BY <1>1, <1>2, Joint
<1>4. all[1] = h
  <2>1. 1 \in 1..Len(one)
    BY <1>1
  <2>2. QED
    BY <1>1, <1>2, <2>1, JointElements
<1>5. Range(all) = {h} \cup Range(rest)
  <2>1. one \in Seq(X) /\ Range(one) = {h}
    BY <1>1
  <2>2. Range(Then(one, rest)) = Range(one) \cup Range(rest)
    BY <2>1, JointRange
  <2>3. QED
    BY <1>2, <2>1, <2>2
<1>6. all # <<>>
  <2>1. Len(rest) \in Nat
    BY Elements
  <2>2. Len(all) \in Nat \ {0}
    BY <1>3, <2>1
  <2>3. QED
    BY <1>3, <2>2, NonEmpty
<1>7. QED
  BY <1>2, <1>3, <1>4, <1>5, <1>6

\* Numbers in order are all different.
LEMMA OrderedHeads ==
  ASSUME NEW list, NEW set, NEW n, Ordered(list, set, n)
  PROVE  list \in Seq(Nat) /\ NoTwice(list)
<1>1. list \in Seq(Nat) /\ Increasing(list)
  BY DEF Ordered
<1>2. \A i \in 1..Len(list) : list[i] \in Nat
  BY <1>1, Elements
<1>3. ASSUME NEW j \in 1..Len(list), NEW k \in 1..Len(list), j < k PROVE list[j] # list[k]
  <2>1. list[j] < list[k] /\ list[j] \in Nat /\ list[k] \in Nat
    BY <1>1, <1>2, <1>3 DEF Increasing
  <2>2. QED
    BY <2>1
<1>4. QED
  BY <1>1, <1>3 DEF NoTwice

\* The groups of evidence are all different.
LEMMA EvidenceDiffers ==
  ASSUME Inv
  PROVE  Differing(EvidenceGroups)
<1>1. PICK heads : heads = Unlabelling
  OBVIOUS
<1>2. Ordered(heads, (1..Len(parts)) \ Labels, Len(parts))
  BY <1>1, UnlabellingOrdered
<1>3. heads \in Seq(Nat) /\ NoTwice(heads)
  BY <1>2, OrderedHeads
<1>4. PICK n \in Nat : n = Len(heads) /\ DOMAIN heads = 1..n
  BY <1>3, Elements
<1>5. PICK groups : groups = EvidenceGroups
  OBVIOUS
<1>6. DOMAIN groups = 1..n /\ \A k \in 1..n : groups[k] = <<heads[k]>> \o Related(heads[k], Relations)
  BY <1>1, <1>4, <1>5 DEF EvidenceGroups
<1>7. ASSUME NEW k \in 1..n PROVE groups[k][1] = heads[k]
  <2>1. heads[k] \in Range(heads) /\ heads[k] \in Nat
    BY <1>3, <1>4, Elements
  <2>2. heads[k] \in 1..Len(parts)
    BY <1>2, <2>1 DEF Ordered
  <2>3. Related(heads[k], Relations) \in Seq(Nat)
    BY <2>2, RelatedFacts
  <2>4. PICK h \in Nat, rest \in Seq(Nat) : h = heads[k] /\ rest = Related(heads[k], Relations)
    BY <2>1, <2>3
  <2>5. (<<h>> \o rest)[1] = h
    BY HeadAndRest
  <2>6. QED
    BY <1>6, <2>4, <2>5
<1>8. Headed(groups, heads)
  BY <1>3, <1>4, <1>6, <1>7 DEF Headed
<1>9. QED
  BY <1>5, <1>8, HeadedDiffer

\* They hold every part, the labels with the parts they label.
LEMMA EvidenceCovers ==
  ASSUME Inv, Plain
  PROVE  Covering(EvidenceGroups)
<1>1. PICK heads : heads = Unlabelling
  OBVIOUS
<1>2. Ordered(heads, (1..Len(parts)) \ Labels, Len(parts))
  BY <1>1, UnlabellingOrdered
<1>3. heads \in Seq(Nat)
  BY <1>2, OrderedHeads
<1>4. PICK n \in Nat : n = Len(heads) /\ DOMAIN heads = 1..n
  BY <1>3, Elements
<1>5. PICK groups : groups = EvidenceGroups
  OBVIOUS
<1>6. DOMAIN groups = 1..n /\ \A k \in 1..n : groups[k] = <<heads[k]>> \o Related(heads[k], Relations)
  BY <1>1, <1>4, <1>5 DEF EvidenceGroups
<1>7. ASSUME NEW j \in (1..Len(parts)) \ Labels
      PROVE  \E k \in 1..n : /\ j \in Range(groups[k])
                             /\ Range(Related(j, Relations)) \subseteq Range(groups[k])
  <2>1. j \in Range(heads)
    BY <1>2 DEF Ordered
  <2>2. PICK k \in 1..n : heads[k] = j
    BY <1>3, <1>4, <2>1, Elements
  <2>3. Related(j, Relations) \in Seq(Nat) /\ j \in Nat
    BY RelatedFacts, PartsTyped
  <2>4. Range(groups[k]) = {j} \cup Range(Related(j, Relations))
    <3>1. PICK rest \in Seq(Nat) : rest = Related(j, Relations)
      BY <2>3
    <3>2. Range(<<j>> \o rest) = {j} \cup Range(rest)
      BY <2>3, HeadAndRest
    <3>3. QED
      BY <1>6, <2>2, <3>1, <3>2
  <2>5. QED
    BY <2>4
<1>8. ASSUME NEW i \in 1..Len(parts) PROVE \E k \in 1..n : i \in Range(groups[k])
  <2>1. CASE i \notin Labels
    BY <1>7, <2>1
  <2>2. CASE i \in Labels
    <3>1. PICK j \in (1..Len(parts)) \ Labels :
            \E r \in Range(parts[j].to) : r.kind = "LABELED_BY" /\ r.part = i
      BY <2>2, LabelOf
    <3>2. PICK r \in Range(parts[j].to) : r.kind = "LABELED_BY" /\ r.part = i
      BY <3>1
    <3>3. i \in Range(Related(j, Relations))
      BY <3>2, RelatedFacts DEF Relations
    <3>4. QED
      BY <1>7, <3>3
  <2>3. QED
    BY <2>1, <2>2
<1>9. QED
  BY <1>5, <1>6, <1>8 DEF Covering

\* The groups of scenes are all different.
LEMMA SceneDiffers ==
  ASSUME Inv
  PROVE  Differing(SceneGroups)
<1>1. PICK n \in Nat : n = Len(parts) /\ DOMAIN parts = 1..n
  BY PartsTyped
<1> DEFINE keyframes == {i \in DOMAIN parts : parts[i].kind = "keyframe"}
           heads == InOrder(DOMAIN parts \ keyframes, Len(parts))
           follow(h) == InOrder({i \in keyframes : h \in Range(Related(i, {"KEYFRAME_OF"}))}, Len(parts))
<1>2. SceneGroups = [k \in DOMAIN heads |-> <<heads[k]>> \o follow(heads[k])]
  BY DEF SceneGroups
<1>3. heads = InOrder(DOMAIN parts \ keyframes, n)
  BY <1>1
<1>4. \A h : follow(h) \in Seq(Nat)
  BY <1>1, InOrderOrdered DEF Ordered
<1> HIDE DEF follow, keyframes, heads
<1>5. Ordered(heads, DOMAIN parts \ keyframes, n)
  BY <1>3, InOrderOrdered
<1>6. PICK H : H = heads
  OBVIOUS
<1>7. H \in Seq(Nat) /\ NoTwice(H)
  BY <1>5, <1>6, OrderedHeads
<1>8. PICK m \in Nat : m = Len(H) /\ DOMAIN H = 1..m
  BY <1>7, Elements
<1>9. PICK groups : groups = SceneGroups
  OBVIOUS
<1>10. DOMAIN groups = 1..m /\ \A k \in 1..m : groups[k] = <<H[k]>> \o follow(H[k])
  BY <1>2, <1>6, <1>8, <1>9
<1>11. ASSUME NEW k \in 1..m PROVE groups[k][1] = H[k]
  <2>1. PICK h \in Nat, rest \in Seq(Nat) : h = H[k] /\ rest = follow(H[k])
    BY <1>4, <1>7, <1>8, Elements
  <2>2. (<<h>> \o rest)[1] = h
    BY HeadAndRest
  <2>3. QED
    BY <1>10, <2>1, <2>2
<1>12. Headed(groups, H)
  BY <1>7, <1>8, <1>10, <1>11 DEF Headed
<1>13. QED
  BY <1>9, <1>12, HeadedDiffer

\* A keyframe names the part before it.
LEMMA KeyframeFollows ==
  ASSUME Inv, NEW i \in 1..Len(parts), parts[i].kind = "keyframe"
  PROVE  /\ i - 1 \in 1..Len(parts) /\ parts[i - 1].kind = "scene"
         /\ i - 1 \in Range(Related(i, {"KEYFRAME_OF"}))
<1>1. parts[i].to = <<To("KEYFRAME_OF", i - 1)>> /\ parts[i - 1].kind = "scene"
  BY DEF Inv, Linked
<1>2. PICK n \in Nat : n = Len(parts)
  BY PartsTyped
<1>3. PICK r : r = To("KEYFRAME_OF", i - 1)
  OBVIOUS
<1>4. r.kind = "KEYFRAME_OF" /\ r.part = i - 1
  BY <1>3 DEF To
<1>5. r \in Range(parts[i].to)
  <2>1. parts[i].to = <<r>>
    BY <1>1, <1>3
  <2>2. Range(<<r>>) = {r}
    BY Singleton
  <2>3. QED
    BY <2>1, <2>2
<1>6. r.part \in 1..(i - 1)
  BY <1>5, PartsTyped
<1>7. i - 1 \in 1..n
  BY <1>2, <1>4, <1>6
<1>8. r.part \in Range(Related(i, {"KEYFRAME_OF"}))
  <2>1. r.kind \in {"KEYFRAME_OF"}
    BY <1>4
  <2>2. QED
    BY <1>5, <2>1, RelatedFacts
<1>9. QED
  BY <1>1, <1>2, <1>4, <1>7, <1>8

\* They hold every part, the keyframes with their scenes.
LEMMA SceneCovers ==
  ASSUME Inv
  PROVE  Covering(SceneGroups)
<1>1. PICK n \in Nat : n = Len(parts) /\ DOMAIN parts = 1..n
  BY PartsTyped
<1> DEFINE keyframes == {i \in DOMAIN parts : parts[i].kind = "keyframe"}
           heads == InOrder(DOMAIN parts \ keyframes, Len(parts))
           follow(h) == InOrder({i \in keyframes : h \in Range(Related(i, {"KEYFRAME_OF"}))}, Len(parts))
<1>2. SceneGroups = [k \in DOMAIN heads |-> <<heads[k]>> \o follow(heads[k])]
  BY DEF SceneGroups
<1>3. heads = InOrder(DOMAIN parts \ keyframes, n)
  BY <1>1
<1>4. ASSUME NEW h
      PROVE  Ordered(follow(h), {i \in keyframes : h \in Range(Related(i, {"KEYFRAME_OF"}))}, n)
  BY <1>1, InOrderOrdered
<1>5. \A h : follow(h) \in Seq(Nat)
  BY <1>4 DEF Ordered
<1>6. \A i \in keyframes : \A h : h \in Range(Related(i, {"KEYFRAME_OF"})) => i \in Range(follow(h))
  <2>1. SUFFICES ASSUME NEW i \in keyframes, NEW h, h \in Range(Related(i, {"KEYFRAME_OF"}))
                 PROVE  i \in Range(follow(h))
    OBVIOUS
  <2>2. i \in 1..n
    BY <1>1
  <2>3. QED
    BY <1>4, <2>1, <2>2 DEF Ordered
<1>7. \A i \in 1..n : i \in keyframes <=> parts[i].kind = "keyframe"
  BY <1>1
<1> HIDE DEF follow, keyframes, heads
<1>8. Ordered(heads, DOMAIN parts \ keyframes, n)
  BY <1>3, InOrderOrdered
<1>9. PICK H : H = heads
  OBVIOUS
<1>10. H \in Seq(Nat)
  BY <1>8, <1>9, OrderedHeads
<1>11. PICK m \in Nat : m = Len(H) /\ DOMAIN H = 1..m
  BY <1>10, Elements
<1>12. PICK groups : groups = SceneGroups
  OBVIOUS
<1>13. DOMAIN groups = 1..m /\ \A k \in 1..m : groups[k] = <<H[k]>> \o follow(H[k])
  BY <1>2, <1>9, <1>11, <1>12
<1>14. ASSUME NEW j \in 1..n, j \notin keyframes
       PROVE  \E k \in 1..m : j \in Range(groups[k]) /\ Range(follow(j)) \subseteq Range(groups[k])
  <2>1. j \in Range(H)
    BY <1>1, <1>8, <1>9, <1>14 DEF Ordered
  <2>2. PICK k \in 1..m : H[k] = j
    BY <1>10, <1>11, <2>1, Elements
  <2>3. PICK rest \in Seq(Nat) : rest = follow(j)
    BY <1>5
  <2>4. Range(<<j>> \o rest) = {j} \cup Range(rest)
    <3>1. j \in Nat
      OBVIOUS
    <3>2. QED
      BY <2>3, <3>1, HeadAndRest
  <2>5. groups[k] = <<j>> \o rest
    BY <1>13, <2>2, <2>3
  <2>6. QED
    BY <2>3, <2>4, <2>5
<1>15. ASSUME NEW i \in 1..n PROVE \E k \in 1..m : i \in Range(groups[k])
  <2>1. CASE i \notin keyframes
    BY <1>14, <2>1
  <2>2. CASE i \in keyframes
    <3>1. PICK h : h = i - 1 /\ h \in 1..n /\ parts[h].kind = "scene"
                   /\ h \in Range(Related(i, {"KEYFRAME_OF"}))
      BY <1>1, <1>7, <2>2, KeyframeFollows
    <3>2. h \notin keyframes
      BY <1>7, <3>1
    <3>3. i \in Range(follow(h))
      BY <1>6, <2>2, <3>1
    <3>4. QED
      BY <1>14, <3>1, <3>2, <3>3
  <2>3. QED
    BY <2>1, <2>2
<1>16. QED
  BY <1>1, <1>12, <1>13, <1>15 DEF Covering

-----------------------------------------------------------------------------
(* Rows of a table *)

\* A flattened list begins with the first element of the first list.
LEMMA FlattenedFirst ==
  ASSUME NEW X, NEW lists \in Seq(Seq(X)), lists # <<>>, lists[1] # <<>>
  PROVE  FlattenSeq(lists) # <<>> /\ FlattenSeq(lists)[1] = lists[1][1]
<1>1. PICK f : Flat(f, X, lists, Len(lists))
  BY FlatExists DEF HasFlat
<1>2. PICK n : n = Len(lists) /\ Flat(f, X, lists, n)
  BY <1>1
<1>3. n \in Nat \ {0} /\ f[1] = lists[1] /\ n \in Int /\ 1 \in Int /\ lists[1] \in Seq(X)
  BY <1>2, Elements DEF Flat
<1>4. PICK e : e = lists[1][1]
  OBVIOUS
<1> DEFINE Begins(s) == s \in Seq(X) /\ Len(s) \in Nat \ {0} /\ s[1] = e
           N == {k \in 1..n : Begins(f[k])}
<1>5. 1 \in N
  <2>1. Len(lists[1]) \in Nat \ {0}
    BY <1>3, NonEmpty
  <2>2. QED
    BY <1>3, <1>4, <2>1
<1>6. ASSUME NEW k \in 1..(n - 1), k \in N PROVE k + 1 \in N
  <2>1. k + 1 \in 1..n /\ f[k] \in Seq(X) /\ lists[k + 1] \in Seq(X)
        /\ f[k + 1] = Then(f[k], lists[k + 1])
    BY <1>2, FlatStep
  <2>2. PICK s \in Seq(X), t \in Seq(X) : s = f[k] /\ t = lists[k + 1]
    BY <2>1
  <2>3. Len(s) \in Nat \ {0} /\ s[1] = e
    BY <1>6, <2>2
  <2>4. Then(s, t) \in Seq(X) /\ Len(Then(s, t)) = Len(s) + Len(t) /\ Len(t) \in Nat
    BY Joint, Elements
  <2>5. Then(s, t)[1] = s[1]
    <3>1. 1 \in 1..Len(s)
      BY <2>3
    <3>2. QED
      BY <3>1, JointElements
  <2>6. Len(Then(s, t)) \in Nat \ {0}
    BY <2>3, <2>4
  <2>7. Begins(f[k + 1])
    BY <2>1, <2>2, <2>3, <2>4, <2>5, <2>6
  <2>8. QED
    BY <2>1, <2>7
<1>7. Upward(N, 1, n)
  BY <1>5, <1>6 DEF Upward
<1> HIDE DEF N
<1>8. n \in N
  <2>1. n \in 1..n
    BY <1>3
  <2>2. QED
    BY <1>3, <1>7, <2>1, Upwards
<1>9. Begins(f[n])
  BY <1>8 DEF N
<1>10. FlattenSeq(lists) = f[n]
  BY <1>2, FlatValue
<1>11. f[n] # <<>>
  BY <1>9, NonEmpty
<1>12. QED
  BY <1>4, <1>9, <1>10, <1>11

-----------------------------------------------------------------------------
\* The definitions of TableGroups, by name.
RowOf(i)         == IF parts[i].kind = "cell" THEN <<parts[i].at[1]>> ELSE parts[i].at
RowList          == Distinct([k \in DOMAIN Unlabelling |-> RowOf(Unlabelling[k])])
CellsOf(row)     == Listed(Unlabelling, {k \in DOMAIN Unlabelling : RowOf(Unlabelling[k]) = row})
WithLabels(list) == [k \in DOMAIN list |-> <<list[k]>> \o Related(list[k], {"LABELED_BY"})]
TableRow(row)    == Distinct(FlattenSeq(WithLabels(CellsOf(row))))

\* TableGroups is made of these definitions.
LEMMA TableGroupsMade ==
  TableGroups = [r \in DOMAIN RowList |-> TableRow(RowList[r])]
BY DEF TableGroups, RowOf, RowList, CellsOf, WithLabels, TableRow

\* The parts that label no other, in order.
Heads(list, n) ==
  /\ n \in Nat /\ n = Len(list) /\ DOMAIN list = 1..n
  /\ list \in Seq(1..Len(parts)) /\ NoTwice(list)
  /\ \A i \in 1..Len(parts) : i \notin Labels => i \in Range(list)

\* Unlabelling lists them.
LEMMA UnlabellingHeads ==
  ASSUME Inv
  PROVE  Heads(Unlabelling, Len(Unlabelling))
<1>1. PICK list : list = Unlabelling
  OBVIOUS
<1>2. Ordered(list, (1..Len(parts)) \ Labels, Len(parts))
  BY <1>1, UnlabellingOrdered
<1>3. list \in Seq(Nat) /\ NoTwice(list)
  BY <1>2, OrderedHeads
<1>4. PICK n \in Nat : n = Len(list) /\ DOMAIN list = 1..n
  BY <1>3, Elements
<1>5. \A k \in 1..n : list[k] \in 1..Len(parts)
  <2>1. \A k \in 1..n : list[k] \in Range(list)
    BY <1>3, <1>4, Elements
  <2>2. QED
    BY <1>2, <2>1 DEF Ordered
<1>6. list \in [1..n -> 1..Len(parts)]
  <2>1. list = [k \in 1..n |-> list[k]]
    BY <1>3, <1>4, SeqDef
  <2>2. QED
    BY <1>5, <2>1
<1>7. list \in Seq(1..Len(parts))
  BY <1>6, Functional
<1>8. \A i \in 1..Len(parts) : i \notin Labels => i \in Range(list)
  BY <1>2 DEF Ordered
<1>9. QED
  BY <1>1, <1>3, <1>4, <1>7, <1>8 DEF Heads

\* The rows of the parts that label no other, each of them once.
LEMMA RowListFacts ==
  ASSUME Inv
  PROVE  /\ Len(RowList) \in Nat /\ DOMAIN RowList = 1..Len(RowList) /\ NoTwice(RowList)
         /\ \A row : row \in Range(RowList) <=> \E i \in Range(Unlabelling) : row = RowOf(i)
<1>1. PICK list, n : list = Unlabelling /\ Heads(list, n)
  BY UnlabellingHeads
<1>2. /\ n \in Nat /\ n = Len(list) /\ DOMAIN list = 1..n /\ list \in Seq(1..Len(parts))
  BY <1>1 DEF Heads
<1>3. PICK X : X = {RowOf(i) : i \in 1..Len(parts)}
  OBVIOUS
<1> DEFINE of == [k \in 1..n |-> RowOf(list[k])]
<1>4. RowList = Distinct(of)
  BY <1>1, <1>2 DEF RowList
<1>5. of \in [1..n -> X] /\ \A k \in 1..n : of[k] = RowOf(list[k])
  <2>1. \A k \in 1..n : list[k] \in 1..Len(parts)
    BY <1>2, Elements
  <2>2. \A k \in 1..n : RowOf(list[k]) \in X
    BY <1>3, <2>1
  <2>3. QED
    BY <2>2
<1> HIDE DEF of
<1>6. of \in Seq(X) /\ Len(of) = n
  BY <1>2, <1>5, Functional
<1>7. PICK rows : rows = RowList
  OBVIOUS
<1>8. rows \in Seq(X) /\ NoTwice(rows)
  BY <1>4, <1>6, <1>7, DistinctFacts
<1>9. Len(rows) \in Nat /\ DOMAIN rows = 1..Len(rows)
  BY <1>8, Elements
<1>10. ASSUME NEW row PROVE row \in Range(rows) <=> \E i \in Range(list) : row = RowOf(i)
  <2>1. row \in Range(rows) <=> row \in Range(of)
    BY <1>4, <1>6, <1>7, DistinctRange
  <2>2. row \in Range(of) <=> \E k \in 1..n : row = of[k]
    BY <1>6, Elements
  <2>3. (\E i \in Range(list) : row = RowOf(i)) <=> \E k \in 1..n : row = RowOf(list[k])
    BY <1>2, Elements
  <2>4. QED
    BY <1>5, <2>1, <2>2, <2>3
<1>11. QED
  BY <1>1, <1>7, <1>8, <1>9, <1>10

\* The cells of a row.
LEMMA CellsFacts ==
  ASSUME Inv, NEW row
  PROVE  /\ CellsOf(row) \in Seq(1..Len(parts))
         /\ \A i : i \in Range(CellsOf(row)) <=> i \in Range(Unlabelling) /\ RowOf(i) = row
<1>1. PICK list, n : list = Unlabelling /\ Heads(list, n)
  BY UnlabellingHeads
<1>2. /\ n \in Nat /\ n = Len(list) /\ DOMAIN list = 1..n /\ list \in Seq(1..Len(parts))
  BY <1>1 DEF Heads
<1>3. PICK set : set = {k \in 1..n : RowOf(list[k]) = row}
  OBVIOUS
<1>4. CellsOf(row) = Listed(list, set)
  BY <1>1, <1>2, <1>3 DEF CellsOf
<1>5. CellsOf(row) \in Seq(1..Len(parts))
  BY <1>2, <1>4, ListedFacts
<1>6. ASSUME NEW i PROVE i \in Range(CellsOf(row)) <=> i \in Range(list) /\ RowOf(i) = row
  <2>1. i \in Range(CellsOf(row)) <=> \E k \in 1..n : k \in set /\ i = list[k]
    BY <1>2, <1>4, ListedRange
  <2>2. i \in Range(list) <=> \E k \in 1..n : i = list[k]
    BY <1>2, Elements
  <2>3. QED
    BY <1>3, <2>1, <2>2
<1>7. QED
  BY <1>1, <1>5, <1>6

\* Each cell and behind it its labels.
LEMMA WithLabelsFacts ==
  ASSUME Inv, NEW list \in Seq(1..Len(parts))
  PROVE  /\ WithLabels(list) \in Seq(Seq(Nat)) /\ Len(WithLabels(list)) = Len(list)
         /\ \A k \in 1..Len(list) :
              /\ WithLabels(list)[k] # <<>> /\ WithLabels(list)[k][1] = list[k]
              /\ Range(WithLabels(list)[k]) = {list[k]} \cup Range(Related(list[k], {"LABELED_BY"}))
<1>1. PICK n \in Nat : n = Len(list) /\ DOMAIN list = 1..n
  BY Elements
<1>2. PICK lists : lists = WithLabels(list)
  OBVIOUS
<1>3. lists = [k \in 1..n |-> <<list[k]>> \o Related(list[k], {"LABELED_BY"})]
  BY <1>1, <1>2 DEF WithLabels
<1>4. ASSUME NEW k \in 1..n
      PROVE  /\ <<list[k]>> \o Related(list[k], {"LABELED_BY"}) \in Seq(Nat)
             /\ lists[k] # <<>> /\ lists[k][1] = list[k]
             /\ Range(lists[k]) = {list[k]} \cup Range(Related(list[k], {"LABELED_BY"}))
  <2>1. list[k] \in 1..Len(parts)
    BY <1>1, Elements
  <2>2. PICK i \in 1..Len(parts) : i = list[k]
    BY <2>1
  <2>3. i \in Nat
    OBVIOUS
  <2>4. PICK rest \in Seq(Nat) : rest = Related(i, {"LABELED_BY"})
    BY RelatedFacts
  <2>5. /\ <<i>> \o rest \in Seq(Nat) /\ (<<i>> \o rest)[1] = i
        /\ Range(<<i>> \o rest) = {i} \cup Range(rest) /\ <<i>> \o rest # <<>>
    BY <2>3, HeadAndRest
  <2>6. lists[k] = <<i>> \o rest
    BY <1>3, <2>2, <2>4
  <2>7. QED
    BY <2>2, <2>4, <2>5, <2>6
<1>5. lists \in [1..n -> Seq(Nat)]
  BY <1>3, <1>4
<1>6. lists \in Seq(Seq(Nat)) /\ Len(lists) = n
  BY <1>5, Functional
<1>7. QED
  BY <1>1, <1>2, <1>4, <1>6

\* The group of a row begins with a cell of it, and holds its cells and their labels.
LEMMA TableRowFacts ==
  ASSUME Inv, NEW row \in Range(RowList)
  PROVE  /\ TableRow(row)[1] \in Range(CellsOf(row))
         /\ \A i \in Range(CellsOf(row)) :
              /\ i \in Range(TableRow(row))
              /\ Range(Related(i, {"LABELED_BY"})) \subseteq Range(TableRow(row))
<1>1. PICK list \in Seq(1..Len(parts)) : list = CellsOf(row)
  BY CellsFacts
<1>2. PICK lists : lists = WithLabels(list)
  OBVIOUS
<1>3. /\ lists \in Seq(Seq(Nat)) /\ Len(lists) = Len(list)
      /\ \A k \in 1..Len(list) :
           /\ lists[k] # <<>> /\ lists[k][1] = list[k]
           /\ Range(lists[k]) = {list[k]} \cup Range(Related(list[k], {"LABELED_BY"}))
  BY <1>2, WithLabelsFacts
<1>4. PICK i \in Range(Unlabelling) : row = RowOf(i)
  BY RowListFacts
<1>5. i \in Range(list)
  BY <1>1, <1>4, CellsFacts
<1>6. PICK n \in Nat \ {0} : n = Len(list) /\ 1 \in 1..n
  <2>1. PICK k \in 1..Len(list) : i = list[k]
    BY <1>5, Elements
  <2>2. Len(list) \in Nat
    BY Elements
  <2>3. QED
    BY <2>1, <2>2
<1>7. lists # <<>> /\ lists[1] # <<>> /\ lists[1][1] = list[1] /\ list[1] \in Range(list)
  <2>1. Len(lists) \in Nat \ {0}
    BY <1>3, <1>6
  <2>2. lists # <<>>
    BY <1>3, <2>1, NonEmpty
  <2>3. list[1] \in Range(list)
    BY <1>6, Elements
  <2>4. QED
    BY <1>3, <1>6, <2>2, <2>3
<1>8. PICK flat : flat = FlattenSeq(lists)
  OBVIOUS
<1>9. flat \in Seq(Nat) /\ \A s : s \in Range(flat) <=> \E k \in 1..Len(lists) : s \in Range(lists[k])
  BY <1>3, <1>8, Flattened
<1>10. flat # <<>> /\ flat[1] = list[1]
  BY <1>3, <1>7, <1>8, FlattenedFirst
<1>11. TableRow(row) = Distinct(flat)
  BY <1>1, <1>2, <1>8 DEF TableRow
<1>12. Distinct(flat)[1] = list[1]
  BY <1>9, <1>10, DistinctFirst
<1>13. \A s : s \in Range(Distinct(flat)) <=> s \in Range(flat)
  BY <1>9, DistinctRange
<1>14. ASSUME NEW c \in Range(list)
       PROVE  /\ c \in Range(flat) /\ Range(Related(c, {"LABELED_BY"})) \subseteq Range(flat)
  <2>1. PICK k \in 1..Len(list) : c = list[k]
    BY Elements
  <2>2. Range(lists[k]) = {c} \cup Range(Related(c, {"LABELED_BY"})) /\ k \in 1..Len(lists)
    BY <1>3, <2>1
  <2>3. QED
    BY <1>9, <2>2
<1>15. QED
  BY <1>1, <1>7, <1>11, <1>12, <1>13, <1>14

\* The rows of a table are all different.
LEMMA TableDiffers ==
  ASSUME Inv
  PROVE  Differing(TableGroups)
<1>1. PICK rows : rows = RowList
  OBVIOUS
<1>2. PICK n \in Nat : n = Len(rows) /\ DOMAIN rows = 1..n
  BY <1>1, RowListFacts
<1>3. NoTwice(rows)
  BY <1>1, RowListFacts
<1>4. PICK groups : groups = TableGroups
  OBVIOUS
<1>5. DOMAIN groups = 1..n /\ \A k \in 1..n : groups[k] = TableRow(rows[k])
  BY <1>1, <1>2, <1>4, TableGroupsMade
<1>6. ASSUME NEW k \in 1..n PROVE RowOf(groups[k][1]) = rows[k]
  <2>1. rows[k] \in Range(rows)
    BY <1>2 DEF Range
  <2>2. PICK row \in Range(RowList) : row = rows[k]
    BY <1>1, <2>1
  <2>3. TableRow(row)[1] \in Range(CellsOf(row))
    BY TableRowFacts
  <2>4. RowOf(TableRow(row)[1]) = row
    BY <2>3, CellsFacts
  <2>5. QED
    BY <1>5, <2>2, <2>4
<1>7. ASSUME NEW j \in 1..n, NEW k \in 1..n, j < k PROVE groups[j] # groups[k]
  <2>1. rows[j] # rows[k]
    BY <1>2, <1>3, <1>7 DEF NoTwice
  <2>2. RowOf(groups[j][1]) = rows[j] /\ RowOf(groups[k][1]) = rows[k]
    BY <1>6
  <2>3. QED
    BY <2>1, <2>2
<1>8. QED
  BY <1>4, <1>5, <1>7 DEF Differing

\* They hold every part.
LEMMA TableCovers ==
  ASSUME Inv, Plain
  PROVE  Covering(TableGroups)
<1>1. PICK rows : rows = RowList
  OBVIOUS
<1>2. PICK n \in Nat : n = Len(rows) /\ DOMAIN rows = 1..n
  BY <1>1, RowListFacts
<1>3. PICK groups : groups = TableGroups
  OBVIOUS
<1>4. DOMAIN groups = 1..n /\ \A k \in 1..n : groups[k] = TableRow(rows[k])
  BY <1>1, <1>2, <1>3, TableGroupsMade
<1>5. ASSUME NEW j \in 1..Len(parts), j \notin Labels
      PROVE  \E k \in 1..n : /\ j \in Range(groups[k])
                             /\ Range(Related(j, {"LABELED_BY"})) \subseteq Range(groups[k])
  <2>1. j \in Range(Unlabelling)
    BY <1>5, UnlabellingHeads DEF Heads
  <2>2. PICK row : row = RowOf(j)
    OBVIOUS
  <2>3. row \in Range(RowList)
    BY <2>1, <2>2, RowListFacts
  <2>4. j \in Range(CellsOf(row))
    BY <2>1, <2>2, CellsFacts
  <2>5. j \in Range(TableRow(row)) /\ Range(Related(j, {"LABELED_BY"})) \subseteq Range(TableRow(row))
    BY <2>3, <2>4, TableRowFacts
  <2>6. PICK k \in 1..n : row = rows[k]
    BY <1>1, <1>2, <2>3 DEF Range
  <2>7. QED
    BY <1>4, <2>5, <2>6
<1>6. ASSUME NEW i \in 1..Len(parts) PROVE \E k \in 1..n : i \in Range(groups[k])
  <2>1. CASE i \notin Labels
    BY <1>5, <2>1
  <2>2. CASE i \in Labels
    <3>1. PICK j \in (1..Len(parts)) \ Labels :
            \E r \in Range(parts[j].to) : r.kind = "LABELED_BY" /\ r.part = i
      BY <2>2, LabelOf
    <3>2. PICK r \in Range(parts[j].to) : r.kind \in {"LABELED_BY"} /\ r.part = i
      BY <3>1
    <3>3. i \in Range(Related(j, {"LABELED_BY"}))
      BY <3>2, RelatedFacts
    <3>4. QED
      BY <1>5, <3>3
  <2>3. QED
    BY <2>1, <2>2
<1>7. QED
  BY <1>3, <1>4, <1>6 DEF Covering

-----------------------------------------------------------------------------
(* Runs of neighbours *)

\* The length of a group's text is a number.
LEMMA SizeNat ==
  ASSUME Inv, NEW group \in Seq(1..Len(parts))
  PROVE  Size(group) \in Nat
<1>1. PICK n \in Nat : n = Len(group)
  BY Elements
<1>2. \A i \in 1..n : Len(parts[group[i]].text) \in Nat
  <2>1. ASSUME NEW i \in 1..n PROVE Len(parts[group[i]].text) \in Nat
    <3>1. group[i] \in 1..Len(parts)
      BY <1>1, Elements
    <3>2. PICK j \in 1..Len(parts) : j = group[i]
      BY <3>1
    <3>3. parts[j] \in Part
      BY PartsTyped
    <3>4. QED
      BY <3>2, <3>3, PartText
  <2>2. QED
    BY <2>1
<1> DEFINE more(i) == Len(parts[group[i]].text) + IF i = 1 THEN 0 ELSE 2
           g == [p \in Nat \X (0..n) |-> IF p[2] = 0 THEN p[1] ELSE p[1] + more(p[2])]
<1>3. ASSUME NEW i \in 1..n PROVE more(i) \in Nat
  <2>1. PICK c \in Nat, d \in Nat : c = Len(parts[group[i]].text) /\ d = IF i = 1 THEN 0 ELSE 2
    BY <1>2
  <2>2. c + d \in Nat
    OBVIOUS
  <2>3. more(i) = c + d
    BY <2>1
  <2>4. QED
    BY <2>2, <2>3
<1> HIDE DEF more
<1>4. 0 \in Int /\ n \in Int /\ 0 <= n /\ 0 \in Nat
  OBVIOUS
<1>5. g \in [Nat \X (0..n) -> Nat] /\ \A s \in Nat, i \in 1..n : g[<<s, i>>] = s + more(i)
  <2>1. ASSUME NEW s \in Nat, NEW i \in 0..n PROVE (IF i = 0 THEN s ELSE s + more(i)) \in Nat
    <3>1. i = 0 \/ i \in 1..n
      OBVIOUS
    <3>2. QED
      BY <1>3, <3>1
  <2>2. \A p \in Nat \X (0..n) : p[1] \in Nat /\ p[2] \in 0..n
    OBVIOUS
  <2>3. g \in [Nat \X (0..n) -> Nat]
    BY <2>1, <2>2
  <2>4. \A s \in Nat, i \in 1..n : g[<<s, i>>] = s + more(i)
    <3>1. \A i \in 1..n : i \in 0..n /\ i # 0
      OBVIOUS
    <3>2. QED
      BY <3>1
  <2>5. QED
    BY <2>3, <2>4
<1> HIDE DEF g
<1>6. PICK f \in [0..n -> Nat] : Computed(f, 0, g, 0, n)
  BY <1>4, <1>5, Recursion DEF Computable
<1>7. f[0] = 0
  BY <1>6 DEF Computed
<1>8. ASSUME NEW i \in 1..n PROVE f[i] = f[i - 1] + more(i)
  <2>1. i - 1 \in 0..n /\ i \in (0 + 1)..n
    OBVIOUS
  <2>2. f[i] = g[<<f[i - 1], i>>] /\ f[i - 1] \in Nat
    BY <1>6, <2>1 DEF Computed
  <2>3. QED
    BY <1>5, <2>2
<1> DEFINE IsSize(h) == h = [i \in 0..Len(group) |->
                               IF i = 0 THEN 0
                               ELSE h[i - 1] + Len(parts[group[i]].text) + IF i = 1 THEN 0 ELSE 2]
<1>9. IsSize(f)
  <2>1. ASSUME NEW i \in 0..n
        PROVE  f[i] = IF i = 0 THEN 0
                      ELSE f[i - 1] + Len(parts[group[i]].text) + IF i = 1 THEN 0 ELSE 2
    <3>1. CASE i = 0
      BY <1>7, <3>1
    <3>2. CASE i # 0
      <4>1. i \in 1..n /\ i - 1 \in 0..n
        BY <3>2
      <4>2. PICK c \in Nat, d \in Nat : c = Len(parts[group[i]].text) /\ d = IF i = 1 THEN 0 ELSE 2
        BY <1>2, <4>1
      <4>3. more(i) = c + d
        BY <4>2 DEF more
      <4>4. f[i] = f[i - 1] + (c + d) /\ f[i - 1] \in Nat
        BY <1>6, <1>8, <4>1, <4>3
      <4>5. f[i] = f[i - 1] + c + d
        BY <4>4
      <4>6. QED
        BY <3>2, <4>2, <4>5
    <3>3. QED
      BY <3>1, <3>2
  <2>2. f = [i \in 0..n |-> f[i]]
    BY <1>6
  <2>3. QED
    BY <1>1, <2>1, <2>2
<1> DEFINE size == CHOOSE h : IsSize(h)
<1>10. IsSize(size)
  BY <1>9, Zenon
<1>11. Size(group) = size[Len(group)]
  BY DEF Size
<1> HIDE DEF size
<1>12. \A i \in 0..n : size[i] = IF i = 0 THEN 0
                                ELSE size[i - 1] + Len(parts[group[i]].text) + IF i = 1 THEN 0 ELSE 2
  BY <1>1, <1>10
<1> DEFINE S == {i \in 0..n : size[i] \in Nat}
<1>13. 0 \in S
  BY <1>4, <1>12
<1>14. ASSUME NEW i \in 0..(n - 1), i \in S PROVE i + 1 \in S
  <2>1. i + 1 \in 0..n /\ i + 1 # 0 /\ (i + 1) - 1 = i /\ i + 1 \in 1..n
    OBVIOUS
  <2>2. PICK c \in Nat, d \in Nat : /\ c = Len(parts[group[i + 1]].text)
                                   /\ d = IF i + 1 = 1 THEN 0 ELSE 2
    BY <1>2, <2>1
  <2>3. size[i + 1] = size[i] + c + d
    BY <1>12, <2>1, <2>2
  <2>4. PICK e \in Nat : e = size[i]
    BY <1>14
  <2>5. e + c + d \in Nat
    OBVIOUS
  <2>6. QED
    BY <2>1, <2>3, <2>4, <2>5
<1> HIDE DEF S
<1>15. Upward(S, 0, n)
  BY <1>13, <1>14 DEF Upward
<1>16. n \in S
  BY <1>4, <1>15, Upwards
<1>17. QED
  BY <1>1, <1>11, <1>16 DEF S

\* The spans of neighbouring parts.
LEMMA RunFacts ==
  ASSUME NEW n \in Nat, NEW s \in Within(1, n + 1)
  PROVE  /\ Run(s) \in Seq(1..n) /\ Len(Run(s)) = Length(s) /\ Length(s) \in Nat \ {0}
         /\ Run(s)[1] = s[1]
         /\ \A i \in 1..n : s[1] <= i /\ i < s[2] => i \in Range(Run(s))
<1>1. s[1] \in 1..n /\ s[2] \in 1..(n + 1) /\ s[1] < s[2]
  BY DEF Within, Spans
<1>2. PICK a \in 1..n, b \in 1..(n + 1) : a = s[1] /\ b = s[2] /\ a < b
  BY <1>1
<1>3. PICK m \in Nat \ {0} : m = b - a
  BY <1>2
<1>4. Length(s) = m
  BY <1>2, <1>3 DEF Length
<1>5. PICK run : run = Run(s)
  OBVIOUS
<1>6. run = [k \in 1..m |-> a + k - 1]
  BY <1>2, <1>4, <1>5 DEF Run
<1>7. run \in [1..m -> 1..n]
  <2>1. \A k \in 1..m : a + k - 1 \in 1..n
    BY <1>2, <1>3
  <2>2. QED
    BY <1>6, <2>1
<1>8. run \in Seq(1..n) /\ Len(run) = m
  BY <1>7, Functional
<1>9. run[1] = a
  BY <1>2, <1>3, <1>6
<1>10. ASSUME NEW i \in 1..n, a <= i, i < b PROVE i \in Range(run)
  <2>1. i - a + 1 \in 1..m
    BY <1>2, <1>3, <1>10
  <2>2. run[i - a + 1] = i
    <3>1. run[i - a + 1] = a + (i - a + 1) - 1
      BY <1>6, <2>1
    <3>2. QED
      BY <1>2, <3>1
  <2>3. run[i - a + 1] \in Range(run)
    BY <1>8, <2>1, Elements
  <2>4. QED
    BY <2>2, <2>3
<1>11. QED
  BY <1>2, <1>4, <1>5, <1>8, <1>9, <1>10

\* The groups of the neighbours that spans name.
Neighbours(groups, spans) ==
  /\ Neat(spans, Within(1, Len(parts) + 1))
  /\ DOMAIN groups = 1..Len(spans)
  /\ \A k \in 1..Len(spans) : groups[k] = Run(spans[k])

\* The groups that spans of neighbours name.
LEMMA RunsMade ==
  ASSUME NEW spans, Neat(spans, Within(1, Len(parts) + 1))
  PROVE  Neighbours(Runs(spans), spans)
<1>1. DOMAIN spans = 1..Len(spans)
  BY Elements DEF Neat
<1>2. QED
  BY <1>1 DEF Neighbours, Runs

\* Different spans name different groups.
LEMMA NeighboursDiffer ==
  ASSUME Inv, NEW groups, NEW spans, Neighbours(groups, spans)
  PROVE  Differing(groups)
<1>1. /\ Neat(spans, Within(1, Len(parts) + 1)) /\ DOMAIN groups = 1..Len(spans)
      /\ \A k \in 1..Len(spans) : groups[k] = Run(spans[k])
  BY DEF Neighbours
<1>2. PICK n \in Nat : n = Len(parts)
  BY PartsTyped
<1>3. \A k \in 1..Len(spans) : spans[k] \in Within(1, n + 1)
  BY <1>1, <1>2 DEF Neat
<1>4. ASSUME NEW j \in 1..Len(spans), NEW k \in 1..Len(spans), j < k PROVE groups[j] # groups[k]
  <2>1. PICK p \in Within(1, n + 1), q \in Within(1, n + 1) : p = spans[j] /\ q = spans[k]
    BY <1>3
  <2>2. p # q
    BY <1>1, <1>4, <2>1 DEF Neat, NoTwice
  <2>3. /\ p = <<p[1], p[2]>> /\ q = <<q[1], q[2]>>
        /\ p[1] \in Nat /\ p[2] \in Nat /\ q[1] \in Nat /\ q[2] \in Nat
    BY DEF Within, Spans
  <2>4. SUFFICES ASSUME Run(p) = Run(q) PROVE FALSE
    BY <1>1, <2>1
  <2>5. p[1] = q[1]
    <3>1. Run(p)[1] = p[1]
      BY RunFacts
    <3>2. Run(q)[1] = q[1]
      BY RunFacts
    <3>3. QED
      BY <2>4, <3>1, <3>2
  <2>6. Length(p) = Length(q)
    BY <2>4, RunFacts
  <2>7. p[2] = q[2]
    BY <2>3, <2>5, <2>6 DEF Length
  <2>8. QED
    BY <2>2, <2>3, <2>5, <2>7
<1>5. QED
  BY <1>1, <1>4 DEF Differing

\* If the spans hold the position of every part that is not blank the groups cover.
LEMMA NeighboursCover ==
  ASSUME Inv, NEW groups, NEW spans, Neighbours(groups, spans),
         \A i \in 1..Len(parts) : Says(i) => Holds(spans, i, i + 1)
  PROVE  Covering(groups)
<1>1. /\ Neat(spans, Within(1, Len(parts) + 1)) /\ DOMAIN groups = 1..Len(spans)
      /\ \A k \in 1..Len(spans) : groups[k] = Run(spans[k])
  BY DEF Neighbours
<1>2. PICK n \in Nat : n = Len(parts)
  BY PartsTyped
<1>3. spans \in Seq(Spans) /\ \A k \in 1..Len(spans) : spans[k] \in Within(1, n + 1)
  BY <1>1, <1>2 DEF Neat
<1>4. ASSUME NEW i \in 1..n, Says(i) PROVE \E k \in 1..Len(spans) : i \in Range(groups[k])
  <2>1. PICK s \in Range(spans) : s[1] <= i /\ i + 1 <= s[2]
    BY <1>2, <1>4 DEF Holds
  <2>2. PICK k \in 1..Len(spans) : s = spans[k]
    BY <1>3, Elements
  <2>3. s \in Within(1, n + 1)
    BY <1>3, <2>2
  <2>4. s[2] \in Nat
    BY <2>3 DEF Within, Spans
  <2>5. i < s[2]
    BY <2>1, <2>4
  <2>6. i \in Range(Run(s))
    BY <2>1, <2>3, <2>5, RunFacts
  <2>7. QED
    BY <1>1, <2>2, <2>6
<1>5. QED
  BY <1>1, <1>2, <1>4 DEF Covering

-----------------------------------------------------------------------------
(* Fixed groups *)

\* The spans of neighbours that are one part or fit.
Fits(limit) == {s \in Within(1, Len(parts) + 1) : Length(s) = 1 \/ Size(Run(s)) <= limit}

Packed(spans, limit) == Neat(spans, Fits(limit)) /\ ApartOf(spans) /\ \A i \in 1..Len(parts) : Holds(spans, i, i + 1)

\* Each part by itself.
LEMMA AtomsPacked ==
  ASSUME Inv, NEW limit
  PROVE  Packed([i \in DOMAIN parts |-> <<i, i + 1>>], limit)
<1>1. PICK n \in Nat : n = Len(parts) /\ DOMAIN parts = 1..n
  BY PartsTyped
<1>2. PICK spans : spans = [i \in 1..n |-> <<i, i + 1>>]
  OBVIOUS
<1>3. \A i \in 1..n : spans[i] = <<i, i + 1>> /\ spans[i][1] = i /\ spans[i][2] = i + 1
  BY <1>2
<1>4. ASSUME NEW i \in 1..n PROVE spans[i] \in Fits(limit) /\ spans[i] \in Spans
  <2>1. PICK s : s = <<i, i + 1>>
    OBVIOUS
  <2>2. s[1] = i /\ s[2] = i + 1 /\ s \in Spans
    BY <2>1 DEF Spans
  <2>3. s \in Within(1, n + 1) /\ Length(s) = 1
    BY <2>2 DEF Within, Length
  <2>4. QED
    BY <1>1, <1>3, <2>1, <2>2, <2>3 DEF Fits
<1>5. spans \in [1..n -> Spans]
  BY <1>2, <1>4
<1>6. spans \in Seq(Spans) /\ Len(spans) = n
  BY <1>5, Functional
<1>7. ASSUME NEW i \in 1..n, NEW j \in 1..n, i < j
      PROVE  Rising(spans[i], spans[j]) /\ spans[i] # spans[j] /\ spans[i][2] <= spans[j][1]
  <2>1. /\ spans[i][1] = i /\ spans[i][2] = i + 1
        /\ spans[j][1] = j /\ spans[j][2] = j + 1
    BY <1>3
  <2>2. Rising(spans[i], spans[j])
    BY <1>7, <2>1 DEF Rising
  <2>3. spans[i][1] # spans[j][1]
    BY <1>7, <2>1
  <2>4. spans[i] # spans[j]
    BY <2>3
  <2>5. spans[i][2] <= spans[j][1]
    BY <1>7, <2>1
  <2>6. QED
    BY <2>2, <2>4, <2>5
<1>8. Neat(spans, Fits(limit)) /\ ApartOf(spans)
  BY <1>4, <1>6, <1>7 DEF Neat, InOrderOf, NoTwice, ApartOf
<1>9. ASSUME NEW i \in 1..n PROVE Holds(spans, i, i + 1)
  <2>1. spans[i] \in Range(spans) /\ spans[i][1] = i /\ spans[i][2] = i + 1
    BY <1>3, <1>6, Elements
  <2>2. spans[i][1] <= i /\ i + 1 <= spans[i][2]
    BY <2>1
  <2>3. QED
    BY <2>1, <2>2 DEF Holds
<1>10. QED
  BY <1>1, <1>2, <1>8, <1>9 DEF Packed

\* Packing parts keeps them and keeps to the limit.
LEMMA FixedPacked ==
  ASSUME Inv, NEW limit
  PROVE  \E spans : Packed(spans, limit) /\ FixedGroups(limit) = Runs(spans)
<1>1. PICK atoms : atoms = [i \in DOMAIN parts |-> <<i, i + 1>>]
  OBVIOUS
<1>2. PICK rule : rule = {p \in Pairs : Size(Run(Both(p[1], p[2]))) <= limit}
  OBVIOUS
<1>3. Packed(atoms, limit)
  BY <1>1, AtomsPacked
<1>4. PICK F : F = Fits(limit)
  OBVIOUS
<1>5. PICK n \in Nat : n = Len(parts)
  BY PartsTyped
<1>6. Closed(F, rule)
  <2>1. F \subseteq Spans
    BY <1>4 DEF Fits, Within
  <2>2. ASSUME NEW p \in F, NEW q \in F, <<p, q>> \in rule, Rising(p, q) PROVE Both(p, q) \in F
    <3>1. p \in Within(1, n + 1) /\ q \in Within(1, n + 1)
      BY <1>4, <1>5 DEF Fits
    <3>2. Size(Run(Both(p, q))) <= limit
      <4>1. PICK r : r = <<p, q>>
        OBVIOUS
      <4>2. r[1] = p /\ r[2] = q /\ r \in rule
        BY <2>2, <4>1
      <4>3. QED
        BY <1>2, <4>2
    <3>3. PICK s : s = Both(p, q)
      OBVIOUS
    <3>4. s \in Spans /\ s[1] = p[1] /\ s[2] = q[2]
      BY <3>1, <3>3, BothSpan DEF Within
    <3>5. s \in Within(1, n + 1)
      <4>1. /\ 1 <= p[1] /\ p[1] < p[2] /\ q[1] < q[2] /\ q[2] <= n + 1
            /\ p[1] \in Nat /\ p[2] \in Nat /\ q[1] \in Nat /\ q[2] \in Nat
        BY <3>1 DEF Within, Spans
      <4>2. p[1] <= q[1]
        BY <2>2 DEF Rising
      <4>3. 1 <= s[1] /\ s[1] < s[2] /\ s[2] <= n + 1
        BY <3>4, <4>1, <4>2
      <4>4. QED
        BY <3>4, <4>3 DEF Within
    <3>6. QED
      BY <1>4, <1>5, <3>2, <3>3, <3>5 DEF Fits
  <2>3. QED
    BY <2>1, <2>2 DEF Closed
<1>7. Neat(atoms, F) /\ ApartOf(atoms)
  BY <1>3, <1>4 DEF Packed
<1>8. PICK spans : spans = Join(atoms, rule)
  OBVIOUS
<1>9. Neat(spans, F)
  BY <1>6, <1>7, <1>8, NeatJoin
<1>10. ApartOf(spans)
  <2>1. Joinable(atoms, rule, F)
    BY <1>6, <1>7 DEF Joinable, Neat
  <2>2. QED
    BY <1>7, <1>8, <2>1, JoinApart
<1>11. ASSUME NEW i \in 1..Len(parts) PROVE Holds(spans, i, i + 1)
  <2>1. Holds(atoms, i, i + 1) /\ i \in Int /\ i + 1 \in Int
    BY <1>3, <1>5 DEF Packed
  <2>2. QED
    BY <1>6, <1>7, <1>8, <2>1, NeatJoinHolds
<1>12. Packed(spans, limit)
  BY <1>4, <1>9, <1>10, <1>11 DEF Packed
<1>13. FixedGroups(limit) = Runs(spans)
  BY <1>1, <1>2, <1>8 DEF FixedGroups
<1>14. QED
  BY <1>12, <1>13

\* Packed spans are spans of neighbours.
LEMMA PackedNeighbours ==
  ASSUME Inv, NEW limit, NEW spans, Packed(spans, limit)
  PROVE  Neighbours(Runs(spans), spans)
<1>1. Neat(spans, Within(1, Len(parts) + 1))
  BY DEF Packed, Neat, Fits
<1>2. QED
  BY <1>1, RunsMade

\* Fixed groups are all different and hold every part.
LEMMA FixedDiffers ==
  ASSUME Inv, NEW limit
  PROVE  Differing(FixedGroups(limit)) /\ Covering(FixedGroups(limit))
<1>1. PICK spans : Packed(spans, limit) /\ FixedGroups(limit) = Runs(spans)
  BY FixedPacked
<1>2. Neighbours(FixedGroups(limit), spans)
  BY <1>1, PackedNeighbours
<1>3. \A i \in 1..Len(parts) : Holds(spans, i, i + 1)
  BY <1>1 DEF Packed
<1>4. QED
  BY <1>2, <1>3, NeighboursDiffer, NeighboursCover

\* A group of several fixed atoms fits.
LEMMA FixedFits ==
  ASSUME Inv, NEW limit \in Nat, NEW k \in DOMAIN FixedGroups(limit)
  PROVE  LET group == FixedGroups(limit)[k]
         IN Size(group) \in Nat /\ (Len(group) = 1 \/ Size(group) <= limit)
<1>1. PICK spans : Packed(spans, limit) /\ FixedGroups(limit) = Runs(spans)
  BY FixedPacked
<1>2. Neighbours(FixedGroups(limit), spans)
  BY <1>1, PackedNeighbours
<1>3. PICK group : group = FixedGroups(limit)[k]
  OBVIOUS
<1>4. k \in 1..Len(spans) /\ group = Run(spans[k])
  BY <1>2, <1>3 DEF Neighbours
<1>5. PICK s : s = spans[k] /\ s \in Fits(limit)
  BY <1>1, <1>4 DEF Packed, Neat
<1>6. PICK n \in Nat : n = Len(parts)
  BY PartsTyped
<1>7. s \in Within(1, n + 1) /\ (Length(s) = 1 \/ Size(Run(s)) <= limit)
  BY <1>5, <1>6 DEF Fits
<1>8. Run(s) \in Seq(1..n) /\ Len(Run(s)) = Length(s)
  BY <1>7, RunFacts
<1>9. Size(Run(s)) \in Nat
  BY <1>6, <1>8, SizeNat
<1>10. QED
  BY <1>3, <1>4, <1>5, <1>7, <1>8, <1>9

-----------------------------------------------------------------------------
(* Chunks fit *)

\* The chunks of a document that is no text are its groups.
GroupsMade(groups) ==
  /\ groups = Groups(bound.policy) /\ Served(bound.family, bound.policy)
  /\ DOMAIN chunks = DOMAIN groups
  /\ \A k \in DOMAIN groups : chunks[k] = [parts |-> groups[k], span |-> <<0, Size(groups[k])>>]

\* The chunks of such a document, from the invariant.
LEMMA GroupChunked ==
  ASSUME Inv, Chunked, ~IsText
  PROVE  \E groups : GroupsMade(groups)
<1>1. parts # <<>> /\ bound # Unbound
  BY DEF Inv, ChunksMade, Reading
<1>2. bound.family # "text"
  BY <1>1 DEF IsText
<1>3. chunks = GroupChunks(bound.policy)
  BY <1>2 DEF Inv, ChunksMade
<1>4. Served(bound.family, bound.policy)
  BY <1>1, BoundServed DEF Inv
<1>5. PICK groups : groups = Groups(bound.policy)
  OBVIOUS
<1>6. chunks = [k \in DOMAIN groups |-> [parts |-> groups[k], span |-> <<0, Size(groups[k])>>]]
  BY <1>3, <1>5 DEF GroupChunks
<1>7. GroupsMade(groups)
  BY <1>4, <1>5, <1>6 DEF GroupsMade
<1>8. QED
  BY <1>7

\* The invariant implies that chunks fit.
LEMMA FitsFromInv ==
  ASSUME Inv
  PROVE  ChunksFit
<1>1. SUFFICES ASSUME Chunked, NEW k \in DOMAIN chunks
               PROVE  \/ Length(chunks[k].span) <= bound.policy.max
                      \/ IsText /\ Strategy = "table"
                      \/ ~IsText /\ (Strategy = "fixed" => Len(chunks[k].parts) = 1)
  BY DEF ChunksFit
<1>2. CASE IsText
  BY <1>1, <1>2, TextFits
<1>3. CASE ~IsText /\ Strategy = "fixed"
  <2>1. PICK groups : GroupsMade(groups)
    BY <1>1, <1>3, GroupChunked
  <2>2. PICK limit \in Nat : limit = bound.policy.max
    BY <2>1 DEF GroupsMade, Served
  <2>3. groups = FixedGroups(limit)
    <3>1. bound.policy.strategy = "fixed"
      BY <1>3 DEF Strategy
    <3>2. Groups(bound.policy) = FixedGroups(bound.policy.max)
      BY <3>1 DEF Groups, Native
    <3>3. QED
      BY <2>1, <2>2, <3>2 DEF GroupsMade
  <2>4. k \in DOMAIN FixedGroups(limit)
    BY <1>1, <2>1, <2>3 DEF GroupsMade
  <2>5. PICK group : group = FixedGroups(limit)[k]
    OBVIOUS
  <2>6. Size(group) \in Nat /\ (Len(group) = 1 \/ Size(group) <= limit)
    BY <2>4, <2>5, FixedFits
  <2>7. chunks[k] = [parts |-> group, span |-> <<0, Size(group)>>]
    BY <2>1, <2>3, <2>4, <2>5 DEF GroupsMade
  <2>8. chunks[k].parts = group /\ chunks[k].span[1] = 0 /\ chunks[k].span[2] = Size(group)
    BY <2>7
  <2>9. Length(chunks[k].span) = Size(group)
    BY <2>6, <2>8 DEF Length
  <2>10. QED
    BY <1>3, <2>2, <2>6, <2>8, <2>9
<1>4. CASE ~IsText /\ Strategy # "fixed"
  BY <1>4
<1>5. QED
  BY <1>2, <1>3, <1>4

\* No chunk of a text is longer than max_chars, but a row of a table; and no group
\* of several fixed atoms is.
THEOREM ChunksAlwaysFit == Spec => []ChunksFit
<1>1. Inv => ChunksFit
  BY FitsFromInv
<1>2. QED
  BY <1>1, ChunkingInvariant, PTL

-----------------------------------------------------------------------------
(* Sliding groups *)

\* The definitions of SlidingGroups, by name.
Suffix(list, n)              == SubSeq(list, Len(list) - n + 1, Len(list))
Budget(group, limit, overlap) == Least(overlap, Max({0, limit - Size(group)}))
Carried(previous, group, limit, overlap) ==
  Suffix(previous, Max({n \in 0..Len(previous) :
                          Size(Suffix(previous, n)) <= Budget(group, limit, overlap)}))
Slid(previous, group, limit, overlap) ==
  LET candidate == Carried(previous, group, limit, overlap) \o group
  IN IF candidate # previous THEN candidate ELSE group

\* No parts have no text.
LEMMA SizeOfNone == Size(<<>>) = 0
<1> DEFINE IsSize(h) == h = [i \in 0..Len(<<>>) |->
                               IF i = 0 THEN 0
                               ELSE h[i - 1] + Len(parts[<<>>[i]].text) + IF i = 1 THEN 0 ELSE 2]
           size == CHOOSE h : IsSize(h)
<1>1. Len(<<>>) = 0 /\ 0..0 = {0}
  BY NoElements
<1>2. PICK f : f = [i \in 0..0 |-> 0]
  OBVIOUS
<1>3. IsSize(f)
  <2>1. \A i \in 0..0 : i = 0
    OBVIOUS
  <2>2. f = [i \in 0..0 |-> IF i = 0 THEN 0
                            ELSE f[i - 1] + Len(parts[<<>>[i]].text) + IF i = 1 THEN 0 ELSE 2]
    BY <1>2, <2>1
  <2>3. QED
    BY <1>1, <2>2
<1>4. IsSize(size)
  BY <1>3, Zenon
<1>5. Size(<<>>) = size[Len(<<>>)]
  BY DEF Size
<1> HIDE DEF size
<1>6. size[0] = 0
  BY <1>1, <1>4
<1>7. QED
  BY <1>1, <1>5, <1>6

\* The end of a list is a list of the same elements.
LEMMA SuffixSeq ==
  ASSUME NEW X, NEW list \in Seq(X), NEW n \in 0..Len(list)
  PROVE  Suffix(list, n) \in Seq(X)
<1>1. PICK m \in Nat : m = Len(list)
  BY Elements
<1>2. PICK a \in Int : a = m - n + 1 /\ 1 <= a
  BY <1>1
<1>3. \A i \in a..m : list[i] \in X
  BY <1>1, <1>2, Elements
<1>4. SubSeq(list, a, m) \in Seq(X)
  BY <1>2, <1>3, SubSeqProperties
<1>5. QED
  BY <1>1, <1>2, <1>4 DEF Suffix

\* The last 0 elements.
LEMMA SuffixNone ==
  ASSUME NEW X, NEW list \in Seq(X)
  PROVE  Suffix(list, 0) = <<>>
<1>1. PICK m \in Nat : m = Len(list)
  BY Elements
<1>2. PICK a \in Int : a = m + 1 /\ m < a
  OBVIOUS
<1>3. SubSeq(list, a, m) = <<>>
  BY <1>2, SubSeqEmpty
<1>4. Len(list) - 0 + 1 = a
  BY <1>1, <1>2
<1>5. QED
  BY <1>1, <1>3, <1>4 DEF Suffix

\* What is left of the limit is a number.
LEMMA BudgetNat ==
  ASSUME Inv, NEW group \in Seq(1..Len(parts)), NEW limit \in Nat, NEW overlap \in Nat
  PROVE  Budget(group, limit, overlap) \in Nat
<1>1. PICK left \in Int : left = limit - Size(group)
  BY SizeNat
<1>2. PICK S : S = {0, left}
  OBVIOUS
<1>3. PICK lo \in Int, hi \in Int : lo = (IF left < 0 THEN left ELSE 0) /\ hi = (IF left < 0 THEN 0 ELSE left)
  OBVIOUS
<1>4. S \in SUBSET (lo..hi) /\ S # {}
  BY <1>2, <1>3
<1>5. PICK m : m = Max(S)
  OBVIOUS
<1>6. m \in S /\ m >= 0
  <2>1. Max(S) \in S /\ \A x \in S : Max(S) >= x
    BY <1>4, Extremes
  <2>2. QED
    BY <1>2, <1>5, <2>1
<1>7. m \in Nat
  BY <1>1, <1>2, <1>6
<1>8. Budget(group, limit, overlap) = Least(overlap, m)
  BY <1>1, <1>2, <1>5 DEF Budget
<1>9. Least(overlap, m) \in Nat
  BY <1>7 DEF Least
<1>10. QED
  BY <1>8, <1>9

\* What is carried over are parts.
LEMMA CarriedSeq ==
  ASSUME Inv, NEW previous \in Seq(1..Len(parts)), NEW group \in Seq(1..Len(parts)),
         NEW limit \in Nat, NEW overlap \in Nat
  PROVE  Carried(previous, group, limit, overlap) \in Seq(1..Len(parts))
<1>1. PICK m \in Nat : m = Len(previous)
  BY Elements
<1>2. PICK budget \in Nat : budget = Budget(group, limit, overlap)
  BY BudgetNat
<1>3. PICK S : S = {n \in 0..m : Size(Suffix(previous, n)) <= budget}
  OBVIOUS
<1>4. 0 \in S
  <2>1. Size(Suffix(previous, 0)) = 0
    BY SuffixNone, SizeOfNone
  <2>2. 0 <= budget /\ 0 \in 0..m
    OBVIOUS
  <2>3. QED
    BY <1>3, <2>1, <2>2
<1>5. Max(S) \in S
  <2>1. S \in SUBSET (0..m) /\ S # {} /\ 0 \in Int /\ m \in Int
    BY <1>3, <1>4
  <2>2. QED
    BY <2>1, Extremes
<1>6. PICK n : n = Max(S)
  OBVIOUS
<1>7. n \in 0..Len(previous)
  BY <1>1, <1>3, <1>5, <1>6
<1>8. Suffix(previous, n) \in Seq(1..Len(parts))
  BY <1>7, SuffixSeq
<1>9. Carried(previous, group, limit, overlap) = Suffix(previous, n)
  BY <1>1, <1>2, <1>3, <1>6 DEF Carried
<1>10. QED
  BY <1>8, <1>9

\* A group that has another one at its end.
Ending(longer, group) ==
  /\ longer \in Seq(1..Len(parts)) /\ Len(longer) \in Nat \ {0}
  /\ longer[Len(longer)] = group[Len(group)]
  /\ Range(group) \subseteq Range(longer)

\* A group ends with itself.
LEMMA EndingItself ==
  ASSUME NEW group \in Seq(1..Len(parts)), group # <<>>
  PROVE  Ending(group, group)
BY NonEmpty DEF Ending

\* What a fixed group becomes ends with it.
LEMMA SlidEnding ==
  ASSUME Inv, NEW previous \in Seq(1..Len(parts)), NEW group \in Seq(1..Len(parts)), group # <<>>,
         NEW limit \in Nat, NEW overlap \in Nat
  PROVE  Ending(Slid(previous, group, limit, overlap), group)
<1>1. PICK carried \in Seq(1..Len(parts)) : carried = Carried(previous, group, limit, overlap)
  BY CarriedSeq
<1>2. PICK candidate : candidate = carried \o group /\ candidate = Then(carried, group)
  BY DEF Then
<1>3. candidate \in Seq(1..Len(parts)) /\ Len(candidate) = Len(carried) + Len(group)
  BY <1>2, Joint
<1>4. Range(group) \subseteq Range(candidate)
  BY <1>2, JointRange
<1>5. PICK p \in Nat, q \in Nat \ {0} : p = Len(carried) /\ q = Len(group)
  BY Elements, NonEmpty
<1>6. candidate[Len(candidate)] = group[Len(group)]
  <2>1. p + q \in (p + 1)..(p + q) /\ (p + q) - p = q
    BY <1>5
  <2>2. candidate[p + q] = group[(p + q) - p]
    <3>1. \A i \in (p + 1)..(p + q) : Then(carried, group)[i] = group[i - p]
      BY <1>5, JointElements
    <3>2. QED
      BY <1>2, <2>1, <3>1
  <2>3. QED
    BY <1>3, <1>5, <2>1, <2>2
<1>7. Ending(candidate, group)
  BY <1>3, <1>4, <1>5, <1>6 DEF Ending
<1>8. Ending(group, group)
  BY EndingItself
<1>9. Slid(previous, group, limit, overlap) = IF candidate # previous THEN candidate ELSE group
  BY <1>1, <1>2 DEF Slid
<1>10. QED
  BY <1>7, <1>8, <1>9

-----------------------------------------------------------------------------
Sliding(groups, fixed, m) == /\ m \in Nat /\ DOMAIN groups = 1..m /\ DOMAIN fixed = 1..m
                             /\ \A k \in 1..m : Ending(groups[k], fixed[k])

\* Every sliding group ends with the fixed group it was made from.
LEMMA SlidingMade ==
  ASSUME Inv, NEW limit \in Nat, NEW overlap \in Nat, NEW m \in Nat \ {0}, NEW fixed,
         fixed = FixedGroups(limit), DOMAIN fixed = 1..m,
         \A k \in 1..m : fixed[k] \in Seq(1..Len(parts)) /\ fixed[k] # <<>>
  PROVE  Sliding(SlidingGroups(limit, overlap), fixed, m)
<1>1. PICK X : X = Seq(1..Len(parts))
  OBVIOUS
<1> DEFINE g == [p \in X \X (1..m) |-> Slid(p[1], fixed[p[2]], limit, overlap)]
<1>2. 1 \in Int /\ m \in Int /\ 1 <= m /\ fixed[1] \in X
  BY <1>1
<1>3. \A s \in X, i \in 1..m : Slid(s, fixed[i], limit, overlap) \in X
  BY <1>1, SlidEnding DEF Ending
<1>4. g \in [X \X (1..m) -> X] /\ \A s \in X, i \in 1..m : g[<<s, i>>] = Slid(s, fixed[i], limit, overlap)
  <2>1. \A p \in X \X (1..m) : p[1] \in X /\ p[2] \in 1..m
    OBVIOUS
  <2>2. \A p \in X \X (1..m) : Slid(p[1], fixed[p[2]], limit, overlap) \in X
    BY <1>3, <2>1
  <2>3. QED
    BY <2>2
<1> HIDE DEF g
<1>5. PICK f \in [1..m -> X] : Computed(f, fixed[1], g, 1, m)
  BY <1>2, <1>4, Recursion DEF Computable
<1>6. f[1] = fixed[1]
  BY <1>5 DEF Computed
<1>7. ASSUME NEW i \in 2..m PROVE f[i] = Slid(f[i - 1], fixed[i], limit, overlap)
  <2>1. i - 1 \in 1..m /\ i \in (1 + 1)..m /\ i \in 1..m
    OBVIOUS
  <2>2. f[i] = g[<<f[i - 1], i>>] /\ f[i - 1] \in X
    BY <1>5, <2>1 DEF Computed
  <2>3. QED
    BY <1>4, <2>1, <2>2
<1> DEFINE IsSliding(h) == h = [k \in 1..m |-> IF k = 1 THEN fixed[1]
                                               ELSE Slid(h[k - 1], fixed[k], limit, overlap)]
<1>8. IsSliding(f)
  <2>1. ASSUME NEW k \in 1..m
        PROVE  f[k] = IF k = 1 THEN fixed[1] ELSE Slid(f[k - 1], fixed[k], limit, overlap)
    <3>1. k = 1 \/ (k \in 2..m /\ k # 1)
      OBVIOUS
    <3>2. QED
      BY <1>6, <1>7, <3>1
  <2>2. f = [k \in 1..m |-> f[k]]
    BY <1>5
  <2>3. QED
    BY <2>1, <2>2
<1> DEFINE sliding == CHOOSE h : IsSliding(h)
<1>9. IsSliding(sliding)
  BY <1>8, Zenon
<1>10. SlidingGroups(limit, overlap) = sliding
  BY DEF SlidingGroups, Slid, Carried, Suffix, Budget
<1> HIDE DEF sliding
<1>11. DOMAIN sliding = 1..m
  BY <1>9
<1>12. \A k \in 1..m : sliding[k] = IF k = 1 THEN fixed[1]
                                   ELSE Slid(sliding[k - 1], fixed[k], limit, overlap)
  BY <1>9
<1> DEFINE S == {k \in 1..m : Ending(sliding[k], fixed[k])}
<1>13. 1 \in S
  <2>1. sliding[1] = fixed[1] /\ 1 \in 1..m
    BY <1>2, <1>12
  <2>2. PICK group \in Seq(1..Len(parts)) : group = fixed[1] /\ group # <<>>
    BY <1>2
  <2>3. Ending(group, group)
    BY <2>2, EndingItself
  <2>4. QED
    BY <2>1, <2>2, <2>3
<1>14. ASSUME NEW i \in 1..(m - 1), i \in S PROVE i + 1 \in S
  <2>1. i + 1 \in 1..m /\ i + 1 # 1 /\ (i + 1) - 1 = i
    OBVIOUS
  <2>2. sliding[i + 1] = Slid(sliding[i], fixed[i + 1], limit, overlap)
    BY <1>12, <2>1
  <2>3. PICK previous \in Seq(1..Len(parts)), group \in Seq(1..Len(parts)) :
          previous = sliding[i] /\ group = fixed[i + 1] /\ group # <<>>
    BY <1>14, <2>1 DEF Ending
  <2>4. Ending(Slid(previous, group, limit, overlap), group)
    BY <2>3, SlidEnding
  <2>5. QED
    BY <2>1, <2>2, <2>3, <2>4
<1> HIDE DEF S
<1>15. Upward(S, 1, m)
  BY <1>13, <1>14 DEF Upward
<1>16. 1..m \subseteq S
  BY <1>2, <1>15, Upwards
<1>17. QED
  BY <1>10, <1>11, <1>16 DEF S, Sliding

\* The last part of a run.
LEMMA RunLast ==
  ASSUME NEW n \in Nat, NEW s \in Within(1, n + 1)
  PROVE  Run(s)[Len(Run(s))] = s[2] - 1
<1>1. s[1] \in Nat /\ s[2] \in Nat
  BY DEF Within, Spans
<1>2. Len(Run(s)) = Length(s) /\ Length(s) \in Nat \ {0}
  BY RunFacts
<1>3. PICK m \in Nat \ {0} : m = Length(s) /\ m = s[2] - s[1]
  BY <1>2 DEF Length
<1>4. m \in 1..m
  BY <1>3
<1>5. Run(s)[m] = s[1] + m - 1
  BY <1>3, <1>4 DEF Run
<1>6. QED
  BY <1>1, <1>2, <1>3, <1>5

\* The groups of one window each, which end apart.
LEMMA FixedNeighbours ==
  ASSUME Inv, parts # <<>>, NEW limit \in Nat
  PROVE  \E spans, m : /\ m \in Nat \ {0} /\ m = Len(spans) /\ Packed(spans, limit)
                       /\ Neighbours(FixedGroups(limit), spans)
<1>1. PICK spans : Packed(spans, limit) /\ FixedGroups(limit) = Runs(spans)
  BY FixedPacked
<1>2. Neighbours(FixedGroups(limit), spans)
  BY <1>1, PackedNeighbours
<1>3. spans \in Seq(Spans)
  BY <1>1 DEF Packed, Neat
<1>4. 1 \in 1..Len(parts)
  <2>1. parts \in Seq(Part)
    BY DEF Inv, Reading
  <2>2. Len(parts) \in Nat \ {0}
    BY <2>1, NonEmpty
  <2>3. QED
    BY <2>2
<1>5. Holds(spans, 1, 1 + 1)
  BY <1>1, <1>4 DEF Packed
<1>6. PICK s \in Range(spans) : TRUE
  BY <1>5 DEF Holds
<1>7. PICK k \in 1..Len(spans) : s = spans[k]
  BY <1>3, Elements
<1>8. Len(spans) \in Nat \ {0}
  <2>1. Len(spans) \in Nat
    BY <1>3, Elements
  <2>2. QED
    BY <1>7, <2>1
<1>9. QED
  BY <1>1, <1>2, <1>8

\* Sliding groups end with different parts: they are all different, and hold every
\* part.
LEMMA SlidingDiffers ==
  ASSUME Inv, parts # <<>>, NEW limit \in Nat, NEW overlap \in Nat
  PROVE  Differing(SlidingGroups(limit, overlap)) /\ Covering(SlidingGroups(limit, overlap))
<1>1. PICK spans, m : /\ m \in Nat \ {0} /\ m = Len(spans) /\ Packed(spans, limit)
                      /\ Neighbours(FixedGroups(limit), spans)
  BY FixedNeighbours
<1>2. PICK fixed : fixed = FixedGroups(limit)
  OBVIOUS
<1>3. /\ Neat(spans, Within(1, Len(parts) + 1)) /\ DOMAIN fixed = 1..m
      /\ \A k \in 1..m : fixed[k] = Run(spans[k])
  BY <1>1, <1>2 DEF Neighbours
<1>4. PICK n \in Nat : n = Len(parts)
  BY PartsTyped
<1>5. \A k \in 1..m : spans[k] \in Within(1, n + 1)
  BY <1>1, <1>3, <1>4 DEF Neat
<1>6. ASSUME NEW k \in 1..m
      PROVE  /\ fixed[k] \in Seq(1..Len(parts)) /\ fixed[k] # <<>>
             /\ fixed[k][Len(fixed[k])] = spans[k][2] - 1
  <2>1. PICK s \in Within(1, n + 1) : s = spans[k]
    BY <1>5
  <2>2. Run(s) \in Seq(1..n) /\ Len(Run(s)) = Length(s) /\ Length(s) \in Nat \ {0}
    BY RunFacts
  <2>3. Run(s)[Len(Run(s))] = s[2] - 1
    BY RunLast
  <2>4. Run(s) # <<>>
    BY <2>2, NonEmpty
  <2>5. QED
    BY <1>3, <1>4, <2>1, <2>2, <2>3, <2>4
<1>7. PICK groups : groups = SlidingGroups(limit, overlap)
  OBVIOUS
<1>8. Sliding(groups, fixed, m)
  BY <1>1, <1>2, <1>3, <1>6, <1>7, SlidingMade
<1>9. /\ DOMAIN groups = 1..m
      /\ \A k \in 1..m : groups[k][Len(groups[k])] = spans[k][2] - 1 /\ Range(fixed[k]) \subseteq Range(groups[k])
  BY <1>6, <1>8 DEF Sliding, Ending
<1>10. ASSUME NEW j \in 1..m, NEW k \in 1..m, j < k PROVE groups[j] # groups[k]
  <2>1. spans[j][2] <= spans[k][1]
    BY <1>1, <1>10 DEF Packed, ApartOf
  <2>2. /\ spans[j][2] \in Nat /\ spans[k][1] \in Nat /\ spans[k][2] \in Nat
        /\ spans[k][1] < spans[k][2]
    BY <1>5 DEF Within, Spans
  <2>3. spans[j][2] - 1 # spans[k][2] - 1
    <3>1. PICK e1 \in Nat, s2 \in Nat, e2 \in Nat :
            e1 = spans[j][2] /\ s2 = spans[k][1] /\ e2 = spans[k][2]
      BY <2>2
    <3>2. e1 <= s2 /\ s2 < e2
      BY <2>1, <2>2, <3>1
    <3>3. e1 - 1 # e2 - 1
      BY <3>2
    <3>4. QED
      BY <3>1, <3>3
  <2>4. QED
    BY <1>9, <2>3
<1>11. Differing(groups)
  BY <1>9, <1>10 DEF Differing
<1>12. Covering(fixed)
  BY <1>2, FixedDiffers
<1>13. Covering(groups)
  BY <1>3, <1>9, <1>12 DEF Covering
<1>14. QED
  BY <1>7, <1>11, <1>13

-----------------------------------------------------------------------------
(* The text of all parts *)

Gap == <<"\n", "\n">>

JoinedBy(f, n) ==
  /\ n \in Nat \ {0} /\ n = Len(parts) /\ f = Joined
  /\ \A i \in 1..n : f[i] \in Seq(Char) /\ parts[i].text \in Seq(Char)
  /\ f[1] = parts[1].text
  /\ \A i \in 1..(n - 1) : f[i + 1] = Then(Then(f[i], Gap), parts[i + 1].text)

\* The blank line between two parts.
LEMMA GapFacts == Gap \in Seq(Char) /\ Len(Gap) = 2
<1>1. "\n" \in Char
  BY DEF Char
<1>2. QED
  BY <1>1 DEF Gap

\* The text of all parts exists.
LEMMA JoinedExists ==
  ASSUME Inv, parts # <<>>
  PROVE  \E f, n : JoinedBy(f, n)
<1>1. PICK n \in Nat \ {0} : n = Len(parts)
  <2>1. parts \in Seq(Part)
    BY DEF Inv, Reading
  <2>2. QED
    BY <2>1, NonEmpty
<1>2. PICK X : X = Seq(Char)
  OBVIOUS
<1>3. \A i \in 1..n : parts[i].text \in X
  <2>1. ASSUME NEW i \in 1..n PROVE parts[i].text \in Seq(Char)
    <3>1. parts[i] \in Part
      BY <1>1, PartsTyped
    <3>2. QED
      BY <3>1, PartText
  <2>2. QED
    BY <1>2, <2>1
<1> DEFINE more(s, i) == Then(Then(s, Gap), parts[i].text)
           g == [p \in X \X (1..n) |-> more(p[1], p[2])]
<1>4. \A s \in X, i \in 1..n : more(s, i) \in X
  <2>1. ASSUME NEW s \in X, NEW i \in 1..n PROVE more(s, i) \in X
    <3>1. s \in Seq(Char) /\ Gap \in Seq(Char) /\ parts[i].text \in Seq(Char)
      BY <1>2, <1>3, GapFacts
    <3>2. Then(s, Gap) \in Seq(Char)
      BY <3>1, Joint
    <3>3. Then(Then(s, Gap), parts[i].text) \in Seq(Char)
      BY <3>1, <3>2, Joint
    <3>4. QED
      BY <1>2, <3>3
  <2>2. QED
    BY <2>1
<1> HIDE DEF more
<1>5. 1 \in Int /\ n \in Int /\ 1 <= n /\ parts[1].text \in X
  BY <1>3
<1>6. g \in [X \X (1..n) -> X] /\ \A s \in X, i \in 1..n : g[<<s, i>>] = more(s, i)
  <2>1. \A p \in X \X (1..n) : p[1] \in X /\ p[2] \in 1..n
    OBVIOUS
  <2>2. \A p \in X \X (1..n) : more(p[1], p[2]) \in X
    BY <1>4, <2>1
  <2>3. QED
    BY <2>2
<1> HIDE DEF g
<1>7. PICK f \in [1..n -> X] : Computed(f, parts[1].text, g, 1, n)
  BY <1>5, <1>6, Recursion DEF Computable
<1>8. f[1] = parts[1].text
  BY <1>7 DEF Computed
<1>9. ASSUME NEW i \in 2..n PROVE f[i] = more(f[i - 1], i)
  <2>1. i - 1 \in 1..n /\ i \in (1 + 1)..n /\ i \in 1..n
    OBVIOUS
  <2>2. f[i] = g[<<f[i - 1], i>>] /\ f[i - 1] \in X
    BY <1>7, <2>1 DEF Computed
  <2>3. QED
    BY <1>6, <2>1, <2>2
<1> DEFINE IsJoined(h) == h = [i \in 1..Len(parts) |-> IF i = 1 THEN parts[1].text
                                                       ELSE Then(Then(h[i - 1], Gap), parts[i].text)]
<1>10. IsJoined(f)
  <2>1. ASSUME NEW i \in 1..n
        PROVE  f[i] = IF i = 1 THEN parts[1].text ELSE Then(Then(f[i - 1], Gap), parts[i].text)
    <3>1. i = 1 \/ (i \in 2..n /\ i # 1)
      OBVIOUS
    <3>2. QED
      BY <1>8, <1>9, <3>1 DEF more
  <2>2. f = [i \in 1..n |-> f[i]]
    BY <1>7
  <2>3. QED
    BY <1>1, <2>1, <2>2
<1> DEFINE joined == CHOOSE h : IsJoined(h)
<1>11. IsJoined(joined)
  BY <1>10, Zenon
<1>12. Joined = joined
  BY DEF Joined, Then, Gap
<1> HIDE DEF joined
<1>13. \A i \in 1..n : joined[i] = IF i = 1 THEN parts[1].text
                                   ELSE Then(Then(joined[i - 1], Gap), parts[i].text)
  BY <1>1, <1>11
<1>14. joined[1] = parts[1].text
  BY <1>5, <1>13
<1>15. \A i \in 1..(n - 1) : joined[i + 1] = Then(Then(joined[i], Gap), parts[i + 1].text)
  <2>1. \A i \in 1..(n - 1) : i + 1 \in 1..n /\ i + 1 # 1 /\ (i + 1) - 1 = i
    OBVIOUS
  <2>2. QED
    BY <1>13, <2>1
<1> DEFINE S == {i \in 1..n : joined[i] \in X}
<1>16. 1 \in S
  BY <1>5, <1>14
<1>17. ASSUME NEW i \in 1..(n - 1), i \in S PROVE i + 1 \in S
  <2>1. i + 1 \in 1..n /\ joined[i + 1] = more(joined[i], i + 1)
    BY <1>15 DEF more
  <2>2. QED
    BY <1>4, <1>17, <2>1
<1> HIDE DEF S
<1>18. Upward(S, 1, n)
  BY <1>16, <1>17 DEF Upward
<1>19. 1..n \subseteq S
  BY <1>5, <1>18, Upwards
<1>20. \A i \in 1..n : joined[i] \in Seq(Char) /\ parts[i].text \in Seq(Char)
  BY <1>2, <1>3, <1>19 DEF S
<1>21. JoinedBy(joined, n)
  BY <1>1, <1>12, <1>14, <1>15, <1>20 DEF JoinedBy
<1>22. QED
  BY <1>21

-----------------------------------------------------------------------------
(* Where the parts are in it *)

\* Where the parts begin and end in the text of all of them.
Placed(st, en, n) ==
  /\ n \in Nat \ {0} /\ n = Len(parts) /\ DOMAIN parts = 1..n
  /\ \A i \in 1..n : /\ st[i] \in Nat /\ en[i] \in Nat /\ st[i] < en[i]
                     /\ Start(i) = st[i] /\ Start(i) + Len(parts[i].text) = en[i]
                     /\ Len(Joined[i]) = en[i] /\ Len(parts[i].text) = en[i] - st[i]
  /\ \A i, j \in 1..n : i < j => en[i] < st[j]

\* Every part has its place, and behind it the next one.
LEMMA PartsPlaced ==
  ASSUME Inv, parts # <<>>
  PROVE  \E st, en, n : Placed(st, en, n)
<1>1. PICK f, n : JoinedBy(f, n)
  BY JoinedExists
<1>2. /\ n \in Nat \ {0} /\ n = Len(parts) /\ f = Joined
      /\ \A i \in 1..n : f[i] \in Seq(Char) /\ parts[i].text \in Seq(Char)
      /\ f[1] = parts[1].text
      /\ \A i \in 1..(n - 1) : f[i + 1] = Then(Then(f[i], Gap), parts[i + 1].text)
  BY <1>1 DEF JoinedBy
<1>3. DOMAIN parts = 1..n
  BY <1>2, PartsTyped
<1>4. PICK en : en = [i \in 1..n |-> Len(f[i])]
  OBVIOUS
<1>5. PICK long : long = [i \in 1..n |-> Len(parts[i].text)]
  OBVIOUS
<1>6. \A i \in 1..n : en[i] \in Nat /\ en[i] = Len(f[i])
  BY <1>2, <1>4, Elements
<1>7. \A i \in 1..n : long[i] \in Nat \ {0} /\ long[i] = Len(parts[i].text)
  <2>1. ASSUME NEW i \in 1..n PROVE Len(parts[i].text) \in Nat \ {0}
    <3>1. parts[i] \in Part
      BY <1>2, PartsTyped
    <3>2. QED
      BY <3>1, PartText
  <2>2. QED
    BY <1>5, <2>1
<1>8. en[1] = long[1]
  <2>1. 1 \in 1..n
    BY <1>2
  <2>2. QED
    BY <1>2, <1>6, <1>7, <2>1
<1>9. ASSUME NEW i \in 1..(n - 1) PROVE en[i + 1] = en[i] + 2 + long[i + 1]
  <2>1. i \in 1..n /\ i + 1 \in 1..n
    BY <1>2
  <2>2. PICK s \in Seq(Char), t \in Seq(Char) : s = f[i] /\ t = parts[i + 1].text
    BY <1>2, <2>1
  <2>3. Then(s, Gap) \in Seq(Char) /\ Len(Then(s, Gap)) = Len(s) + 2
    BY GapFacts, Joint
  <2>4. Len(Then(Then(s, Gap), t)) = Len(Then(s, Gap)) + Len(t)
    BY <2>3, Joint
  <2>5. f[i + 1] = Then(Then(s, Gap), t)
    BY <1>2, <2>2
  <2>6. en[i + 1] = Len(f[i + 1]) /\ en[i] = Len(s) /\ long[i + 1] = Len(t)
    BY <1>6, <1>7, <2>1, <2>2
  <2>7. QED
    BY <2>3, <2>4, <2>5, <2>6
<1>10. PICK st : st = [i \in 1..n |-> en[i] - long[i]]
  OBVIOUS
<1>11. ASSUME NEW i \in 1..n PROVE st[i] \in Nat /\ st[i] + long[i] = en[i] /\ st[i] < en[i]
  <2>1. st[i] = en[i] - long[i] /\ en[i] \in Nat /\ long[i] \in Nat \ {0}
    BY <1>6, <1>7, <1>10
  <2>2. en[i] >= long[i]
    <3>1. CASE i = 1
      BY <1>8, <2>1, <3>1
    <3>2. CASE i # 1
      <4>1. PICK j \in 1..(n - 1) : i = j + 1
        <5>1. i - 1 \in 1..(n - 1) /\ i = (i - 1) + 1
          BY <1>2, <3>2
        <5>2. QED
          BY <5>1
      <4>2. j \in 1..n
        BY <1>2
      <4>3. en[i] = en[j] + 2 + long[i] /\ en[j] \in Nat
        BY <1>6, <1>9, <4>1, <4>2
      <4>4. QED
        BY <2>1, <4>3
    <3>3. QED
      BY <3>1, <3>2
  <2>3. QED
    BY <2>1, <2>2
<1>12. ASSUME NEW i \in 1..n
       PROVE  /\ Start(i) = st[i] /\ Start(i) + Len(parts[i].text) = en[i]
              /\ Len(Joined[i]) = en[i] /\ Len(parts[i].text) = en[i] - st[i]
  <2>1. Len(Joined[i]) = en[i] /\ Len(parts[i].text) = long[i]
    BY <1>2, <1>6, <1>7
  <2>2. Start(i) = en[i] - long[i]
    BY <2>1 DEF Start
  <2>3. st[i] = en[i] - long[i]
    BY <1>10
  <2>4. en[i] \in Nat /\ long[i] \in Nat
    BY <1>6, <1>7
  <2>5. QED
    BY <2>1, <2>2, <2>3, <2>4
<1>13. ASSUME NEW i \in 1..n, NEW j \in 1..n, i < j PROVE en[i] < st[j]
  <2> DEFINE S == {k \in (i + 1)..n : en[i] < st[k]}
  <2>1. \A k \in i..(n - 1) : /\ k \in 1..n /\ k + 1 \in 1..n
                              /\ st[k + 1] = en[k] + 2 /\ en[k] \in Nat
    <3>1. ASSUME NEW k \in i..(n - 1)
          PROVE  k \in 1..n /\ k + 1 \in 1..n /\ st[k + 1] = en[k] + 2 /\ en[k] \in Nat
      <4>1. k \in 1..(n - 1) /\ k \in 1..n /\ k + 1 \in 1..n
        BY <1>2
      <4>2. en[k + 1] = en[k] + 2 + long[k + 1] /\ st[k + 1] = en[k + 1] - long[k + 1]
            /\ en[k] \in Nat /\ long[k + 1] \in Nat
        BY <1>6, <1>7, <1>9, <1>10, <4>1
      <4>3. st[k + 1] = en[k] + 2
        BY <4>2
      <4>4. QED
        BY <4>1, <4>2, <4>3
    <3>2. QED
      BY <3>1
  <2>2. i + 1 \in S
    <3>1. i \in i..(n - 1) /\ i + 1 \in (i + 1)..n
      BY <1>2, <1>13
    <3>2. QED
      BY <2>1, <3>1
  <2>3. ASSUME NEW k \in (i + 1)..(n - 1), k \in S PROVE k + 1 \in S
    <3>1. k \in i..(n - 1) /\ k + 1 \in (i + 1)..n
      BY <1>2
    <3>2. st[k + 1] = en[k] + 2 /\ k \in 1..n
      BY <2>1, <3>1
    <3>3. en[i] < st[k] /\ st[k] < en[k] /\ en[i] \in Nat /\ st[k] \in Nat /\ en[k] \in Nat
      BY <1>6, <1>11, <2>3, <3>2
    <3>4. QED
      BY <3>1, <3>2, <3>3
  <2> HIDE DEF S
  <2>4. Upward(S, i + 1, n)
    BY <2>2, <2>3 DEF Upward
  <2>5. j \in S
    <3>1. i + 1 \in Int /\ n \in Int /\ j \in (i + 1)..n
      BY <1>2, <1>13
    <3>2. QED
      BY <2>4, <3>1, Upwards
  <2>6. QED
    BY <2>5 DEF S
<1>14. Placed(st, en, n)
  BY <1>2, <1>3, <1>6, <1>11, <1>12, <1>13 DEF Placed
<1>15. QED
  BY <1>14

\* What one more part does to the text: what was written stays, and the part follows.
LEMMA LettersAppended ==
  ASSUME NEW f, NEW n, JoinedBy(f, n), NEW st, NEW en, Placed(st, en, n), NEW k \in 1..(n - 1)
  PROVE  /\ \A p \in 0..(en[k] - 1) : At(f[k + 1], p) = At(f[k], p)
         /\ \A x \in 0..(en[k + 1] - st[k + 1] - 1) :
              At(f[k + 1], st[k + 1] + x) = At(parts[k + 1].text, x)
<1>1. /\ n \in Nat \ {0} /\ f = Joined
      /\ \A i \in 1..n : f[i] \in Seq(Char) /\ parts[i].text \in Seq(Char)
      /\ f[k + 1] = Then(Then(f[k], Gap), parts[k + 1].text)
  BY DEF JoinedBy
<1>2. k \in 1..n /\ k + 1 \in 1..n
  BY <1>1
<1>3. PICK s \in Seq(Char), t \in Seq(Char) : s = f[k] /\ t = parts[k + 1].text
  BY <1>1, <1>2
<1>4. PICK u : u = Then(s, Gap)
  OBVIOUS
<1>5. u \in Seq(Char) /\ Len(u) = Len(s) + 2
  BY <1>4, GapFacts, Joint
<1>6. PICK v : v = Then(u, t)
  OBVIOUS
<1>7. Len(v) = Len(u) + Len(t) /\ v = f[k + 1]
  BY <1>1, <1>3, <1>4, <1>5, <1>6, Joint
<1>8. PICK a \in Nat, b \in Nat, c \in Nat : a = en[k] /\ b = st[k + 1] /\ c = en[k + 1] /\ b < c
  BY <1>2 DEF Placed
<1>9. Len(s) = a /\ Len(t) = c - b /\ Len(v) = c
  BY <1>1, <1>2, <1>3, <1>7, <1>8 DEF Placed
<1>10. Len(u) = a + 2 /\ Len(u) = b
  <2>1. Len(u) = a + 2
    BY <1>5, <1>9
  <2>2. c = Len(u) + (c - b)
    BY <1>7, <1>9
  <2>3. QED
    BY <2>1, <2>2
<1>11. \A i \in 1..a : u[i] = s[i]
  BY <1>4, <1>9, GapFacts, JointElements
<1>12. \A i \in 1..b : v[i] = u[i]
  BY <1>5, <1>6, <1>10, JointElements
<1>13. \A i \in (b + 1)..(b + (c - b)) : v[i] = t[i - b]
  <2>1. \A i \in (Len(u) + 1)..(Len(u) + Len(t)) : v[i] = t[i - Len(u)]
    BY <1>5, <1>6, JointElements
  <2>2. QED
    BY <1>9, <1>10, <2>1
<1>14. ASSUME NEW p \in 0..(a - 1) PROVE At(v, p) = At(s, p)
  <2>0. b = a + 2
    BY <1>10
  <2>1. p + 1 \in 1..a /\ p + 1 \in 1..b
    BY <2>0
  <2>2. v[p + 1] = s[p + 1]
    BY <1>11, <1>12, <2>1
  <2>3. QED
    BY <2>2 DEF At
<1>15. ASSUME NEW x \in 0..(c - b - 1) PROVE At(v, b + x) = At(t, x)
  <2>1. b + x + 1 \in (b + 1)..(b + (c - b)) /\ (b + x + 1) - b = x + 1
    <3>1. b \in Int /\ c \in Int /\ x \in Int /\ 0 <= x /\ x <= c - b - 1
      OBVIOUS
    <3>2. PICK y \in Int : y = b + x + 1 /\ b + 1 <= y /\ y <= b + (c - b) /\ y - b = x + 1
      BY <3>1
    <3>3. QED
      BY <3>2
  <2>2. v[b + x + 1] = t[x + 1]
    BY <1>13, <2>1
  <2>3. QED
    BY <2>2 DEF At
<1>16. QED
  BY <1>3, <1>7, <1>8, <1>14, <1>15

\* What is written in a part is written in the text of all parts.
LEMMA LettersKept ==
  ASSUME NEW f, NEW n, JoinedBy(f, n), NEW st, NEW en, Placed(st, en, n),
         NEW i \in 1..n, NEW x \in 0..(en[i] - st[i] - 1)
  PROVE  At(f[n], st[i] + x) = At(parts[i].text, x)
<1>1. n \in Nat \ {0} /\ f[1] = parts[1].text /\ n = Len(parts) /\ f = Joined
  BY DEF JoinedBy
<1>2. \A k \in 1..n : st[k] \in Nat /\ en[k] \in Nat /\ st[k] < en[k] /\ Len(f[k]) = en[k]
                      /\ Len(parts[k].text) = en[k] - st[k]
  BY <1>1 DEF Placed
<1>3. \A j, k \in 1..n : j < k => en[j] < st[k]
  BY DEF Placed
<1> DEFINE S == {k \in i..n : At(f[k], st[i] + x) = At(parts[i].text, x)}
<1>4. i \in S
  <2>1. CASE i = 1
    <3>1. st[1] = 0
      <4>1. 1 \in 1..n
        BY <1>1
      <4>2. Len(f[1]) = en[1] /\ Len(parts[1].text) = en[1] - st[1] /\ st[1] \in Nat /\ en[1] \in Nat
        BY <1>2, <4>1
      <4>3. en[1] = en[1] - st[1]
        BY <1>1, <4>2
      <4>4. QED
        BY <4>2, <4>3
    <3>2. At(f[1], 0 + x) = At(parts[1].text, x)
      BY <1>1
    <3>3. QED
      BY <1>1, <2>1, <3>1, <3>2
  <2>2. CASE i # 1
    <3>1. PICK k \in 1..(n - 1) : i = k + 1
      <4>1. i - 1 \in 1..(n - 1) /\ i = (i - 1) + 1
        BY <1>1, <2>2
      <4>2. QED
        BY <4>1
    <3>2. \A y \in 0..(en[k + 1] - st[k + 1] - 1) : At(f[k + 1], st[k + 1] + y) = At(parts[k + 1].text, y)
      BY LettersAppended
    <3>3. QED
      BY <1>1, <3>1, <3>2
  <2>3. QED
    BY <2>1, <2>2
<1>5. ASSUME NEW k \in i..(n - 1), k \in S PROVE k + 1 \in S
  <2>1. k \in 1..(n - 1) /\ k \in 1..n /\ k + 1 \in i..n
    BY <1>1
  <2>2. \A p \in 0..(en[k] - 1) : At(f[k + 1], p) = At(f[k], p)
    BY <2>1, LettersAppended
  <2>3. st[i] + x \in 0..(en[k] - 1)
    <3>1. PICK a \in Nat, b \in Nat, c \in Nat : a = st[i] /\ b = en[i] /\ c = en[k] /\ a < b
      BY <1>2, <2>1
    <3>2. b <= c
      <4>1. CASE i = k
        BY <3>1, <4>1
      <4>2. CASE i < k
        <5>1. en[i] < st[k] /\ st[k] < en[k] /\ st[k] \in Nat
          BY <1>2, <1>3, <2>1, <4>2
        <5>2. QED
          BY <3>1, <5>1
      <4>3. QED
        BY <2>1, <4>1, <4>2
    <3>3. a + x \in 0..(c - 1)
      BY <3>1, <3>2
    <3>4. QED
      BY <3>1, <3>3
  <2>4. QED
    BY <1>5, <2>1, <2>2, <2>3
<1> HIDE DEF S
<1>6. Upward(S, i, n)
  BY <1>4, <1>5 DEF Upward
<1>7. n \in S
  <2>1. i \in Int /\ n \in Int /\ n \in i..n
    BY <1>1
  <2>2. QED
    BY <1>6, <2>1, Upwards
<1>8. QED
  BY <1>7 DEF S

\* The text of all parts has ink where a part is that is not blank.
LEMMA PartInked ==
  ASSUME Inv, NEW f, NEW n, JoinedBy(f, n), NEW st, NEW en, Placed(st, en, n), NEW i \in 1..n,
         Says(i)
  PROVE  \E p \in Ink(f[n], 0, Len(f[n])) : st[i] <= p /\ p < en[i]
<1>1. n \in Nat \ {0} /\ n = Len(parts) /\ n \in 1..n /\ f = Joined
  BY DEF JoinedBy
<1>2. PICK text : text = parts[i].text
  OBVIOUS
<1>3. Len(text) \in Nat /\ Ink(text, 0, Len(text)) # {}
  <2>1. parts[i] \in Part
    BY <1>1, PartsTyped
  <2>2. QED
    BY <1>2, <2>1, PartText DEF Says
<1>4. PICK x \in Ink(text, 0, Len(text)) : TRUE
  BY <1>3
<1>5. x \in 0..(Len(text) - 1) /\ ~IsSpace(At(text, x))
  BY DEF Ink
<1>6. PICK a \in Nat, b \in Nat, c \in Nat : a = st[i] /\ b = en[i] /\ c = en[n] /\ a < b
  BY <1>1 DEF Placed
<1>7. Len(text) = b - a /\ Len(f[n]) = c
  BY <1>1, <1>2, <1>6 DEF Placed
<1>8. b <= c
  <2>1. CASE i = n
    BY <1>6, <2>1
  <2>2. CASE i < n
    <3>1. en[i] < st[n] /\ st[n] < en[n] /\ st[n] \in Nat
      BY <1>1, <2>2 DEF Placed
    <3>2. QED
      BY <1>6, <3>1
  <2>3. QED
    BY <1>1, <2>1, <2>2
<1>9. At(f[n], a + x) = At(text, x)
  <2>1. x \in 0..(en[i] - st[i] - 1)
    BY <1>5, <1>6, <1>7
  <2>2. QED
    BY <1>2, <1>6, <2>1, LettersKept
<1>10. a + x \in 0..(c - 1) /\ a <= a + x /\ a + x < b
  <2>1. x \in 0..((b - a) - 1)
    BY <1>5, <1>7
  <2>2. QED
    BY <1>8, <2>1
<1>11. a + x \in Ink(f[n], 0, c)
  BY <1>5, <1>9, <1>10 DEF Ink
<1>12. QED
  BY <1>6, <1>7, <1>10, <1>11

-----------------------------------------------------------------------------
(* Groups of spans *)

\* The parts that a span of the text touches.
TouchedBy(s) == {i \in DOMAIN parts : Start(i) < s[2] /\ Start(i) + Len(parts[i].text) > s[1]}
Hulls(spans) == [k \in DOMAIN spans |-> Hull(TouchedBy(spans[k]))]

\* SpannedGroups is made of these definitions.
LEMMA SpannedMade ==
  ASSUME NEW policy
  PROVE  SpannedGroups(policy)
           = Runs(Join(FlattenSeq(Hulls(TextSpans(Joined[Len(parts)], policy))), Same))
BY DEF SpannedGroups, Hulls, TouchedBy

\* A span touches the parts whose places it overlaps.
LEMMA TouchedElement ==
  ASSUME NEW st, NEW en, NEW n, Placed(st, en, n), NEW s \in Spans, NEW i \in 1..n
  PROVE  i \in TouchedBy(s) <=> st[i] < s[2] /\ s[1] < en[i]
<1>1. DOMAIN parts = 1..n /\ Start(i) = st[i] /\ Start(i) + Len(parts[i].text) = en[i]
      /\ st[i] \in Nat /\ en[i] \in Nat
  BY DEF Placed
<1>2. s[1] \in Nat /\ s[2] \in Nat
  BY DEF Spans
<1>3. i \in TouchedBy(s) <=> Start(i) < s[2] /\ Start(i) + Len(parts[i].text) > s[1]
  BY <1>1 DEF TouchedBy
<1>4. st[i] < s[2] /\ en[i] > s[1] <=> st[i] < s[2] /\ s[1] < en[i]
  BY <1>1, <1>2
<1>5. QED
  BY <1>1, <1>3, <1>4

\* The hull of the parts that one span touches.
HullOf(list, s, n) ==
  /\ list \in Seq(Spans) /\ Len(list) \in {0, 1} /\ Range(list) \subseteq Within(1, n + 1)
  /\ \A h \in Range(list) :
       \E a, b \in TouchedBy(s) : /\ h[1] = a /\ h[2] = b + 1
                                  /\ \A i \in TouchedBy(s) : a <= i /\ i <= b
  /\ \A i \in TouchedBy(s) : Holds(list, i, i + 1)

\* The parts that a span touches are within their hull.
LEMMA HullMade ==
  ASSUME NEW st, NEW en, NEW n, Placed(st, en, n), NEW s \in Spans
  PROVE  HullOf(Hull(TouchedBy(s)), s, n)
<1>1. n \in Nat \ {0} /\ DOMAIN parts = 1..n
  BY DEF Placed
<1>2. PICK T : T = TouchedBy(s)
  OBVIOUS
<1>3. T \in SUBSET (1..n)
  BY <1>1, <1>2 DEF TouchedBy
<1>4. CASE T = {}
  <2>1. Hull(T) = <<>>
    BY <1>4 DEF Hull
  <2>2. <<>> \in Seq(Spans) /\ Len(<<>>) = 0 /\ Range(<<>>) = {}
    BY NoElements
  <2>3. QED
    BY <1>2, <1>4, <2>1, <2>2 DEF HullOf
<1>5. CASE T # {}
  <2>1. PICK lo, hi : lo = Min(T) /\ hi = Max(T)
    OBVIOUS
  <2>2. 1 \in Nat /\ n + 1 \in Nat /\ T \in SUBSET (1..((n + 1) - 1))
    BY <1>1, <1>3
  <2>3. PICK h : h = <<lo, hi + 1>>
    OBVIOUS
  <2>4. /\ Hull(T) = <<h>> /\ h \in Within(1, n + 1)
        /\ lo \in T /\ hi \in T /\ \A i \in T : lo <= i /\ i < hi + 1
    BY <1>5, <2>1, <2>2, <2>3, HullFacts
  <2>5. h \in Spans /\ h[1] = lo /\ h[2] = hi + 1
    BY <2>3, <2>4 DEF Within
  <2>6. <<h>> \in Seq(Spans) /\ Len(<<h>>) = 1 /\ Range(<<h>>) = {h}
    BY <2>5, Singleton
  <2>7. ASSUME NEW i \in T PROVE i <= hi /\ lo <= i /\ i + 1 <= hi + 1
    <3>1. i \in 1..n /\ hi \in 1..n /\ lo \in 1..n
      BY <1>3, <2>4
    <3>2. QED
      BY <2>4, <3>1
  <2>8. PICK list : list = Hull(T) /\ list = <<h>>
    BY <2>4
  <2>9. \A i \in T : Holds(list, i, i + 1)
    BY <2>5, <2>6, <2>7, <2>8 DEF Holds
  <2>10. \A g \in Range(list) : \E a, b \in T : /\ g[1] = a /\ g[2] = b + 1
                                              /\ \A i \in T : a <= i /\ i <= b
    BY <2>4, <2>5, <2>6, <2>7, <2>8
  <2>11. list \in Seq(Spans) /\ Len(list) \in {0, 1} /\ Range(list) \subseteq Within(1, n + 1)
    BY <2>4, <2>6, <2>8
  <2>12. QED
    BY <1>2, <2>8, <2>9, <2>10, <2>11 DEF HullOf
<1>6. QED
  BY <1>4, <1>5

\* Spans that rise touch parts that rise.
LEMMA HullsRise ==
  ASSUME NEW st, NEW en, NEW n, Placed(st, en, n), NEW s \in Spans, NEW t \in Spans, Rising(s, t),
         NEW p \in Range(Hull(TouchedBy(s))), NEW q \in Range(Hull(TouchedBy(t)))
  PROVE  <<p, q>> \in Climbing
<1>1. /\ n \in Nat \ {0} /\ DOMAIN parts = 1..n
      /\ \A i \in 1..n : st[i] \in Nat /\ en[i] \in Nat /\ st[i] < en[i]
      /\ \A i, j \in 1..n : i < j => en[i] < st[j]
  BY DEF Placed
<1>2. HullOf(Hull(TouchedBy(s)), s, n) /\ HullOf(Hull(TouchedBy(t)), t, n)
  BY HullMade
<1>3. p \in Within(1, n + 1) /\ q \in Within(1, n + 1)
  BY <1>2 DEF HullOf
<1>4. PICK a, b \in TouchedBy(s) : p[1] = a /\ p[2] = b + 1 /\ \A i \in TouchedBy(s) : a <= i /\ i <= b
  BY <1>2 DEF HullOf
<1>5. PICK c, d \in TouchedBy(t) : q[1] = c /\ q[2] = d + 1 /\ \A i \in TouchedBy(t) : c <= i /\ i <= d
  BY <1>2 DEF HullOf
<1>6. a \in 1..n /\ b \in 1..n /\ c \in 1..n /\ d \in 1..n
  BY <1>1 DEF TouchedBy
<1>7. /\ s[1] \in Nat /\ s[2] \in Nat /\ t[1] \in Nat /\ t[2] \in Nat
      /\ s[1] <= t[1] /\ s[2] <= t[2]
  BY DEF Spans, Rising
<1>8. /\ st[a] < s[2] /\ s[1] < en[a] /\ st[b] < s[2] /\ s[1] < en[b]
      /\ st[c] < t[2] /\ t[1] < en[c] /\ st[d] < t[2] /\ t[1] < en[d]
  BY <1>6, TouchedElement
<1>9. a <= c
  <2>1. SUFFICES ASSUME c < a PROVE FALSE
    BY <1>6
  <2>2. en[c] < st[a] /\ st[c] < en[c]
    BY <1>1, <1>6, <2>1
  <2>3. st[c] \in Nat /\ en[c] \in Nat /\ st[a] \in Nat
    BY <1>1, <1>6
  <2>4. st[c] < s[2] /\ s[1] < en[c]
    BY <1>7, <1>8, <2>2, <2>3
  <2>5. c \in TouchedBy(s)
    BY <1>6, <2>4, TouchedElement
  <2>6. QED
    BY <1>4, <1>6, <2>1, <2>5
<1>10. b <= d
  <2>1. SUFFICES ASSUME d < b PROVE FALSE
    BY <1>6
  <2>2. en[d] < st[b] /\ st[b] < en[b]
    BY <1>1, <1>6, <2>1
  <2>3. st[b] \in Nat /\ en[b] \in Nat /\ en[d] \in Nat
    BY <1>1, <1>6
  <2>4. st[b] < t[2] /\ t[1] < en[b]
    BY <1>7, <1>8, <2>2, <2>3
  <2>5. b \in TouchedBy(t)
    BY <1>6, <2>4, TouchedElement
  <2>6. QED
    BY <1>5, <1>6, <2>1, <2>5
<1>11. Rising(p, q)
  <2>1. p[1] <= q[1]
    BY <1>4, <1>5, <1>9
  <2>2. p[2] <= q[2]
    BY <1>4, <1>5, <1>6, <1>10
  <2>3. QED
    BY <2>1, <2>2 DEF Rising
<1>12. p \in Spans /\ q \in Spans
  BY <1>3 DEF Within
<1>13. PICK pair : pair = <<p, q>>
  OBVIOUS
<1>14. pair \in Pairs /\ pair[1] = p /\ pair[2] = q
  BY <1>12, <1>13 DEF Pairs
<1>15. QED
  BY <1>11, <1>13, <1>14 DEF Climbing

\* The hulls of rising spans rise, and hold every part that a span touches.
LEMMA HullsListed ==
  ASSUME NEW st, NEW en, NEW n, Placed(st, en, n), NEW spans \in Seq(Spans), InOrderOf(spans)
  PROVE  LET list == FlattenSeq(Hulls(spans))
         IN /\ list \in Seq(Spans) /\ Sorted(list, Climbing) /\ Range(list) \subseteq Within(1, n + 1)
            /\ \A k \in 1..Len(spans) : \A i \in TouchedBy(spans[k]) : Holds(list, i, i + 1)
<1>1. PICK m \in Nat : m = Len(spans) /\ DOMAIN spans = 1..m
  BY Elements
<1>2. PICK lists : lists = Hulls(spans)
  OBVIOUS
<1>3. DOMAIN lists = 1..m /\ \A k \in 1..m : lists[k] = Hull(TouchedBy(spans[k]))
  BY <1>1, <1>2 DEF Hulls
<1>4. \A k \in 1..m : spans[k] \in Spans
  BY <1>1, Elements
<1>5. ASSUME NEW k \in 1..m PROVE HullOf(lists[k], spans[k], n)
  <2>1. PICK s \in Spans : s = spans[k]
    BY <1>4
  <2>2. HullOf(Hull(TouchedBy(s)), s, n)
    BY HullMade
  <2>3. QED
    BY <1>3, <2>1, <2>2
<1>6. \A k \in 1..m : lists[k] \in Seq(Spans)
  BY <1>5 DEF HullOf
<1>7. lists \in Seq(Seq(Spans)) /\ Len(lists) = m
  <2>1. lists = [k \in 1..m |-> Hull(TouchedBy(spans[k]))]
    BY <1>1, <1>2 DEF Hulls
  <2>2. \A k \in 1..m : Hull(TouchedBy(spans[k])) \in Seq(Spans)
    BY <1>3, <1>6
  <2>3. lists \in [1..m -> Seq(Spans)]
    BY <2>1, <2>2
  <2>4. QED
    BY <2>3, Functional
<1>8. PICK list : list = FlattenSeq(lists)
  OBVIOUS
<1>9. list \in Seq(Spans) /\ \A s : s \in Range(list) <=> \E k \in 1..m : s \in Range(lists[k])
  BY <1>7, <1>8, Flattened
<1>10. SortedLists(lists, Climbing)
  <2>1. \A k \in 1..m : Sorted(lists[k], Climbing)
    BY <1>5, SortedShort DEF HullOf
  <2>2. ASSUME NEW j \in 1..m, NEW k \in 1..m, j < k, NEW p \in Range(lists[j]), NEW q \in Range(lists[k])
        PROVE  <<p, q>> \in Climbing
    <3>1. PICK s \in Spans, t \in Spans : s = spans[j] /\ t = spans[k]
      BY <1>4
    <3>2. Rising(s, t)
      BY <1>1, <2>2, <3>1 DEF InOrderOf
    <3>3. p \in Range(Hull(TouchedBy(s))) /\ q \in Range(Hull(TouchedBy(t)))
      BY <1>3, <3>1
    <3>4. QED
      BY <3>2, <3>3, HullsRise
  <2>3. QED
    BY <1>7, <2>1, <2>2 DEF SortedLists
<1>11. Sorted(list, Climbing)
  BY <1>7, <1>8, <1>10, FlattenedSorted
<1>12. Range(list) \subseteq Within(1, n + 1)
  BY <1>5, <1>9 DEF HullOf
<1>13. ASSUME NEW k \in 1..m, NEW i \in TouchedBy(spans[k]) PROVE Holds(list, i, i + 1)
  <2>1. Holds(lists[k], i, i + 1)
    BY <1>5 DEF HullOf
  <2>2. QED
    BY <1>9, <2>1 DEF Holds
<1>14. QED
  BY <1>1, <1>2, <1>8, <1>9, <1>11, <1>12, <1>13

\* Joining what is the same makes nothing new.
LEMMA SameClosed ==
  ASSUME NEW F, F \subseteq Spans
  PROVE  Closed(F, Same)
<1>1. ASSUME NEW p \in F, NEW q \in F, <<p, q>> \in Same PROVE Both(p, q) \in F
  <2>1. PICK r : r = <<p, q>>
    OBVIOUS
  <2>2. r[1] = p /\ r[2] = q /\ r \in Same
    BY <1>1, <2>1
  <2>3. p = q
    BY <2>2 DEF Same
  <2>4. p = <<p[1], p[2]>>
    BY DEF Spans
  <2>5. Both(p, q) = p
    BY <2>3, <2>4 DEF Both
  <2>6. QED
    BY <2>5
<1>2. QED
  BY <1>1 DEF Closed

\* What is joined when it is the same.
LEMMA SameJoined ==
  ASSUME NEW n \in Nat, NEW list \in Seq(Spans), Sorted(list, Climbing), Range(list) \subseteq Within(1, n + 1)
  PROVE  /\ Neat(Join(list, Same), Within(1, n + 1))
         /\ \A i \in 1..n : Holds(list, i, i + 1) => Holds(Join(list, Same), i, i + 1)
<1>1. PICK F : F = Within(1, n + 1)
  OBVIOUS
<1>2. Closed(F, Same)
  <2>1. F \subseteq Spans
    BY <1>1 DEF Within
  <2>2. QED
    BY <2>1, SameClosed
<1>3. \A i \in 1..Len(list) : list[i] \in F
  BY <1>1, Elements
<1>4. InOrderOf(list)
  <2>1. ASSUME NEW i \in 1..Len(list), NEW j \in 1..Len(list), i < j PROVE Rising(list[i], list[j])
    <3>1. PICK r : r = <<list[i], list[j]>>
      OBVIOUS
    <3>2. r \in Climbing
      BY <2>1, <3>1 DEF Sorted
    <3>3. Rising(r[1], r[2]) /\ r[1] = list[i] /\ r[2] = list[j]
      BY <3>1, <3>2 DEF Climbing
    <3>4. QED
      BY <3>3
  <2>2. QED
    BY <2>1 DEF InOrderOf
<1>5. Joinable(list, Same, F)
  BY <1>2, <1>3, <1>4 DEF Joinable
<1>6. NoTwice(Join(list, Same))
  BY <1>5, JoinNoTwice
<1>7. /\ Join(list, Same) \in Seq(Spans) /\ InOrderOf(Join(list, Same))
      /\ \A i \in 1..Len(Join(list, Same)) : Join(list, Same)[i] \in F
  BY <1>5, JoinFacts
<1>8. Neat(Join(list, Same), F)
  BY <1>6, <1>7 DEF Neat
<1>9. ASSUME NEW i \in 1..n, Holds(list, i, i + 1) PROVE Holds(Join(list, Same), i, i + 1)
  <2>1. i \in Int /\ i + 1 \in Int
    OBVIOUS
  <2>2. QED
    BY <1>5, <1>9, <2>1, JoinHolds
<1>10. QED
  BY <1>1, <1>8, <1>9

\* The groups of spans are all different and cover: a part that is not blank has ink,
\* a span of the text holds it, and that span touches the part.
LEMMA SpannedDiffers ==
  ASSUME Inv, parts # <<>>, NEW policy, Sound(policy)
  PROVE  Differing(SpannedGroups(policy)) /\ Covering(SpannedGroups(policy))
<1>1. PICK st, en, n : Placed(st, en, n)
  BY PartsPlaced
<1>2. n \in Nat \ {0} /\ n = Len(parts)
  BY <1>1 DEF Placed
<1>3. PICK f, k : JoinedBy(f, k)
  BY JoinedExists
<1>4. k = n /\ f = Joined
  BY <1>2, <1>3 DEF JoinedBy
<1>5. PICK text : text = f[n]
  OBVIOUS
<1>6. Len(text) \in Nat
  <2>1. n \in 1..n
    BY <1>2
  <2>2. QED
    BY <1>1, <1>4, <1>5, <2>1 DEF Placed
<1>7. PICK spans : spans = TextSpans(text, policy)
  OBVIOUS
<1>8. Neat(spans, Fitting(0, Len(text), policy.max))
  BY <1>6, <1>7, TextSpansFacts
<1>9. spans \in Seq(Spans) /\ InOrderOf(spans)
  BY <1>8 DEF Neat
<1>10. PICK list : list = FlattenSeq(Hulls(spans))
  OBVIOUS
<1>11. /\ list \in Seq(Spans) /\ Sorted(list, Climbing) /\ Range(list) \subseteq Within(1, n + 1)
       /\ \A j \in 1..Len(spans) : \A i \in TouchedBy(spans[j]) : Holds(list, i, i + 1)
  BY <1>1, <1>9, <1>10, HullsListed
<1>12. PICK joined : joined = Join(list, Same)
  OBVIOUS
<1>13. Neat(joined, Within(1, n + 1)) /\ \A i \in 1..n : Holds(list, i, i + 1) => Holds(joined, i, i + 1)
  BY <1>2, <1>11, <1>12, SameJoined
<1>14. SpannedGroups(policy) = Runs(joined)
  <2>1. text = Joined[Len(parts)]
    BY <1>2, <1>4, <1>5
  <2>2. QED
    BY <1>7, <1>10, <1>12, <2>1, SpannedMade
<1>15. Neighbours(SpannedGroups(policy), joined)
  BY <1>2, <1>13, <1>14, RunsMade
<1>16. ASSUME NEW i \in 1..n, Says(i) PROVE Holds(joined, i, i + 1)
  <2>1. PICK p \in Ink(text, 0, Len(text)) : st[i] <= p /\ p < en[i]
    BY <1>1, <1>3, <1>4, <1>5, <1>16, PartInked
  <2>2. Holds(spans, p, p + 1)
    BY <1>6, <1>7, InkKept
  <2>3. PICK s \in Range(spans) : s[1] <= p /\ p + 1 <= s[2]
    BY <2>2 DEF Holds
  <2>4. PICK j \in 1..Len(spans) : s = spans[j]
    BY <1>9, <2>3, Elements
  <2>5. s \in Spans
    BY <1>9, <2>3, Elements
  <2>6. st[i] < s[2] /\ s[1] < en[i]
    <3>1. p \in Int
      BY <1>6 DEF Ink
    <3>2. s[1] \in Nat /\ s[2] \in Nat
      BY <2>5 DEF Spans
    <3>3. st[i] \in Nat /\ en[i] \in Nat
      BY <1>1 DEF Placed
    <3>4. QED
      BY <2>1, <2>3, <3>1, <3>2, <3>3
  <2>7. i \in TouchedBy(s)
    BY <1>1, <2>5, <2>6, TouchedElement
  <2>8. Holds(list, i, i + 1)
    BY <1>11, <2>4, <2>7
  <2>9. QED
    BY <1>13, <2>8
<1>17. Differing(SpannedGroups(policy))
  BY <1>15, NeighboursDiffer
<1>18. Covering(SpannedGroups(policy))
  BY <1>2, <1>15, <1>16, NeighboursCover
<1>19. QED
  BY <1>17, <1>18

-----------------------------------------------------------------------------
(* Every part has a group *)

\* The strategies that cut the text of all parts are strategies of texts.
LEMMA OtherSound ==
  ASSUME NEW family \in Families, NEW policy, Served(family, policy),
         policy.strategy \notin Native \cup {"fixed", "sliding_window"}
  PROVE  Sound(policy)
<1>1. policy.strategy \in Supported(family) \ {"auto"}
  BY DEF Served
<1>2. policy.strategy \in TextStrategies
  <2>1. CASE family = "text"
    BY <1>1, <2>1 DEF Supported, Prose, TextStrategies, Native
  <2>2. CASE family = "ocr"
    BY <1>1, <2>2 DEF Supported, Prose, TextStrategies, Native
  <2>3. CASE family = "layout"
    BY <1>1, <2>3 DEF Supported, Prose, TextStrategies, Native
  <2>4. CASE family = "vision"
    BY <1>1, <2>4 DEF Supported, Prose, TextStrategies, Native
  <2>5. CASE family = "media"
    BY <1>1, <2>5 DEF Supported, Prose, TextStrategies, Native
  <2>6. QED
    BY <2>1, <2>2, <2>3, <2>4, <2>5 DEF Families
<1>3. QED
  BY <1>2 DEF Sound, Served

\* The groups of a policy are all different and cover.
LEMMA GroupsDiffer ==
  ASSUME Inv, parts # <<>>, NEW family \in Families, NEW policy, Served(family, policy)
  PROVE  Differing(Groups(policy)) /\ (Plain => Covering(Groups(policy)))
<1>1. PICK strategy : strategy = policy.strategy
  OBVIOUS
<1>2. PICK limit \in Nat, overlap \in Nat : limit = policy.max /\ overlap = policy.overlap
  BY DEF Served
<1>3. CASE strategy = "table"
  <2>1. Groups(policy) = TableGroups
    BY <1>1, <1>3 DEF Groups
  <2>2. QED
    BY <2>1, TableDiffers, TableCovers
<1>4. CASE strategy = "scene"
  <2>1. Groups(policy) = SceneGroups
    BY <1>1, <1>4 DEF Groups, Native
  <2>2. QED
    BY <2>1, SceneDiffers, SceneCovers
<1>5. CASE strategy \in Native \ {"table", "scene"}
  <2>1. Groups(policy) = EvidenceGroups
    BY <1>1, <1>5 DEF Groups, Native
  <2>2. QED
    BY <2>1, EvidenceDiffers, EvidenceCovers
<1>6. CASE strategy = "fixed"
  <2>1. Groups(policy) = FixedGroups(limit)
    BY <1>1, <1>2, <1>6 DEF Groups, Native
  <2>2. QED
    BY <2>1, FixedDiffers
<1>7. CASE strategy = "sliding_window"
  <2>1. Groups(policy) = SlidingGroups(limit, overlap)
    BY <1>1, <1>2, <1>7 DEF Groups, Native
  <2>2. QED
    BY <2>1, SlidingDiffers
<1>8. CASE strategy \notin Native \cup {"fixed", "sliding_window"}
  <2>1. Groups(policy) = SpannedGroups(policy)
    BY <1>1, <1>8 DEF Groups, Native
  <2>2. Sound(policy)
    BY <1>1, <1>8, OtherSound
  <2>3. QED
    BY <2>1, <2>2, SpannedDiffers
<1>9. strategy \in Native \/ strategy \notin Native
  OBVIOUS
<1>10. QED
  BY <1>3, <1>4, <1>5, <1>6, <1>7, <1>8, <1>9

\* The groups of a chunked document are all different and cover.
LEMMA GroupedDiffer ==
  ASSUME Inv, Chunked, NEW groups, GroupsMade(groups)
  PROVE  Differing(groups) /\ (Plain => Covering(groups))
<1>1. parts # <<>> /\ bound # Unbound
  BY DEF Inv, ChunksMade, Reading
<1>2. bound.family \in Families
  BY <1>1, BoundServed DEF Inv
<1>3. PICK family, policy : family \in Families /\ family = bound.family /\ policy = bound.policy
  BY <1>2
<1>4. groups = Groups(policy) /\ Served(family, policy)
  BY <1>3 DEF GroupsMade
<1>5. QED
  BY <1>1, <1>3, <1>4, GroupsDiffer

\* The invariant implies that chunks cover the document.
LEMMA CoverFromInv ==
  ASSUME Inv
  PROVE  ChunksCoverText
<1>1. CASE Chunked /\ IsText
  BY <1>1, TextCovered DEF ChunksCoverText
<1>2. CASE Chunked /\ ~IsText
  <2>1. PICK groups : GroupsMade(groups)
    BY <1>2, GroupChunked
  <2>2. Differing(groups)
    BY <1>2, <2>1, GroupedDiffer
  <2>3. /\ DOMAIN chunks = DOMAIN groups
        /\ \A k \in DOMAIN groups :
             chunks[k] = [parts |-> groups[k], span |-> <<0, Size(groups[k])>>]
    BY <2>1 DEF GroupsMade
  <2>4. \A k \in DOMAIN groups : chunks[k].parts = groups[k]
    BY <2>3
  <2>5. \A j, k \in DOMAIN chunks : j < k => chunks[j] # chunks[k]
    BY <2>2, <2>3, <2>4 DEF Differing
  <2>6. QED
    BY <1>2, <2>5 DEF ChunksCoverText
<1>3. CASE ~Chunked
  BY <1>3 DEF ChunksCoverText
<1>4. QED
  BY <1>1, <1>2, <1>3

\* The invariant implies that evidence is kept.
LEMMA KeptFromInv ==
  ASSUME Inv
  PROVE  EvidenceKept
<1>1. SUFFICES ASSUME Chunked, Plain, NEW i \in DOMAIN parts, parts[i].kind # "text", Says(i)
               PROVE  Kept(i)
  BY DEF EvidenceKept, Plain
<1>2. i \in 1..Len(parts)
  BY PartsTyped
<1>3. ~IsText
  BY <1>1, <1>2 DEF Inv, Reading, IsText
<1>4. PICK groups : GroupsMade(groups)
  BY <1>1, <1>3, GroupChunked
<1>5. Covering(groups)
  BY <1>1, <1>4, GroupedDiffer
<1>6. PICK k \in DOMAIN groups : i \in Range(groups[k])
  BY <1>1, <1>2, <1>5 DEF Covering
<1>7. k \in DOMAIN chunks /\ chunks[k].parts = groups[k]
  BY <1>4 DEF GroupsMade
<1>8. QED
  BY <1>6, <1>7 DEF Kept

-----------------------------------------------------------------------------
(* Results *)

\* The chunks of a text leave out nothing but white space and come in the order
\* of the text, and no two chunks of a document are the same.
THEOREM ChunksAlwaysCover == Spec => []ChunksCoverText
<1>1. Inv => ChunksCoverText
  BY CoverFromInv
<1>2. QED
  BY <1>1, ChunkingInvariant, PTL

\* Whatever an extractor found that is not blank is evidence of a chunk, if no label
\* is itself labelled.
THEOREM EvidenceIsKept == Spec => []EvidenceKept
<1>1. Inv => EvidenceKept
  BY KeptFromInv
<1>2. QED
  BY <1>1, ChunkingInvariant, PTL

=============================================================================
