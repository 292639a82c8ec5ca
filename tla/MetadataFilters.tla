--------------------------- MODULE MetadataFilters ---------------------------
(***************************************************************************)
(* Metadata filters, and what the stores make of them.  The memory and     *)
(* SQLite stores and BM25 evaluate a filter in Python (_matches); the      *)
(* Pinecone, OpenSearch, Qdrant and pgvector stores compile it to a query  *)
(* of their backend, or raise UnsupportedCapabilityError.  Each compiler   *)
(* is modelled by the chunks its query selects.                            *)
(*                                                                         *)
(* Every compiler is a recursion over the tree of a filter, so a filter is *)
(* represented by what each of them makes of it, and a node by what they   *)
(* make of it from what they made of its children.  All comparisons are of *)
(* one field: an absent one, a null, and a value of each type give every   *)
(* combination of truth values that several fields could.                  *)
(***************************************************************************)
EXTENDS Integers, FiniteSetsExt

CONSTANTS
  Stored,          \* what the field of a chunk can be: Absent, or a scalar
  Operands,        \* the scalars that filters compare it with
  MaxTuple,        \* bound: operands of one IN
  MaxComparisons,  \* bound: filters at hand when a comparison is made
  MaxFilters       \* bound: filters at hand

\* Numbers and booleans carry their numeric value doubled, so that 2.5 is 5.
Scalar(type, n) == [type |-> type, n |-> n]
Null   == Scalar("null", 0)
Absent == Scalar("absent", 0)

Number  == {"int", "float"}
Ordered == {"gt", "gte", "lt", "lte"}

Scalars == [type : Number \cup {"bool", "str"}, n : Int] \cup {Null}

ASSUME ValuesAreScalars == Stored \subseteq Scalars \cup {Absent} /\ Operands \subseteq Scalars

Compare(op, values) == [op |-> op, values |-> values]

\* IN takes a tuple of one or more scalars, every other operator one scalar.
Comparisons ==
  {Compare(op, {x}) : op \in {"eq", "ne"} \cup Ordered, x \in Operands}
    \cup {Compare("in", xs) : xs \in {t \in SUBSET Operands : t # {} /\ Cardinality(t) <= MaxTuple}}

\* The chunks that every one of some queries selects, and that any does.
Every(queries) == {v \in Stored : \A q \in queries : v \in q}
Some(queries)  == {v \in Stored : \E q \in queries : v \in q}

\* The order of two strings or two numbers.
InOrder(op, x, y) ==
  \/ op = "gt"  /\ x.n > y.n
  \/ op = "gte" /\ x.n >= y.n
  \/ op = "lt"  /\ x.n < y.n
  \/ op = "lte" /\ x.n <= y.n

-----------------------------------------------------------------------------
(* Python: memory, SQLite and BM25 *)

\* Python's ==, for which True is 1 and 1 is 1.0.
Equal(x, y) ==
  \/ x = y
  \/ {x.type, y.type} \subseteq Number \cup {"bool"} /\ x.n = y.n

\* metadata.get: an absent field reads as None.
Get(v) == IF v = Absent THEN Null ELSE v

\* A value that Python takes for an operand of another type: True for 1, or 1 for
\* True, and 2.0 for 2.  (1 for 1.0 is not among them: every store takes it so.)
Blurs(v, x)  == v.n = x.n /\ \/ v.type = "bool" /\ x.type \in Number
                             \/ v.type \in Number /\ x.type = "bool"
Widens(v, x) == v.n = x.n /\ v.type = "float" /\ x.type = "int"

\* Only the comparisons that use == do so.
Blurred(c) == {v \in Stored : c.op \notin Ordered /\ \E x \in c.values : Blurs(v, x)}
Widened(c) == {v \in Stored : c.op \notin Ordered /\ \E x \in c.values : Widens(v, x)}

Comparable(x, y) ==
  \/ x.type = "str" /\ y.type = "str"
  \/ {x.type, y.type} \subseteq Number

Compares(c, v) ==
  CASE c.op \in {"eq", "in"} -> \E x \in c.values : Equal(Get(v), x)
    [] c.op = "ne"           -> \A x \in c.values : ~Equal(Get(v), x)
    [] OTHER -> \A x \in c.values : Comparable(Get(v), x) /\ InOrder(c.op, v, x)

Matched(c) == {v \in Stored : Compares(c, v)}

MatchedNot(f) == Stored \ f.matches

MatchedAll(conjunction, children) ==
  LET matches == {f.matches : f \in children}
  IN IF conjunction THEN Every(matches) ELSE Some(matches)

-----------------------------------------------------------------------------
(* Pinecone and OpenSearch: typed projections of the value *)

\* A value is stored under the field of its type; 1 and 1.0 share theirs.
Suffix(x) == IF x.type \in Number THEN "num" ELSE x.type

Suffixes(c) == {Suffix(x) : x \in c.values}
SameType(c) == Cardinality({x.type : x \in c.values}) = 1

\* A bound on anything but a number.
OrdersNonNumbers(c) == c.op \in Ordered /\ \E x \in c.values : x.type \notin Number

\* What a native operator finds in the projection the operands belong to.
Native(op, v, values) ==
  CASE op \in {"eq", "in"}  -> \E x \in values : v.n = x.n
    [] op \in {"ne", "nin"} -> \A x \in values : v.n # x.n
    [] OTHER                -> \A x \in values : InOrder(op, v, x)

Projected(c, v) == Suffix(v) \in Suffixes(c)

PineconeRejects(c) ==
  \/ Null \in c.values /\ c.op \notin {"eq", "ne"}
  \/ ~SameType(c)
  \/ OrdersNonNumbers(c)

Complement(op) ==
  CASE op = "eq" -> "ne" [] op = "ne" -> "eq"
    [] op = "gt" -> "lte" [] op = "gte" -> "lt"
    [] op = "lt" -> "gte" [] op = "lte" -> "gt"
    [] op = "in" -> "nin"

\* Mutant: no clause for a missing projection.
PineconeLeafPresent(c, negated, v) ==
  LET selected == IF negated THEN Complement(c.op) ELSE c.op
  IN  IF Null \in c.values
        THEN v \in {Absent, Null} <=> selected = "eq"
        ELSE Projected(c, v) /\ Native(selected, v, c.values)

\* A complement also selects the chunks without the projection.
PineconeLeaf(c, negated, v) ==
  LET selected == IF negated THEN Complement(c.op) ELSE c.op
      complement == negated \/ c.op = "ne"
  IN  IF Null \in c.values
        THEN v \in {Absent, Null} <=> selected = "eq"
        ELSE IF Projected(c, v)
               THEN Native(selected, v, c.values)
               ELSE complement /\ selected # "eq"

\* The query of a filter and that of its negation: Not is pushed to the
\* comparisons, and under it conjunction and disjunction change places.
Pinecone(c)    == [negated \in BOOLEAN |-> {v \in Stored : PineconeLeaf(c, negated, v)}]
PineconeNot(f) == [negated \in BOOLEAN |-> f.pinecone[~negated]]

PineconeAll(conjunction, children) ==
  [negated \in BOOLEAN |->
     LET queries == {f.pinecone[negated] : f \in children}
     IN IF conjunction # negated THEN Every(queries) ELSE Some(queries)]

OpenSearchRejects(c) ==
  \/ OrdersNonNumbers(c)
  \/ c.op = "in" /\ (~SameType(c) \/ Null \in c.values)

\* A nested query on the entry of the key; NE is must_not of EQ.
OpenSearchLeaf(c, v) ==
  IF Null \in c.values
    THEN v \in {Absent, Null} <=> c.op = "eq"
    ELSE IF c.op = "ne"
           THEN ~(Projected(c, v) /\ Native("eq", v, c.values))
           ELSE Projected(c, v) /\ Native(c.op, v, c.values)

\* The same, with must and should; a negated comparison is under must_not.
OpenSearch(c)    == [negated \in BOOLEAN |-> {v \in Stored : ~(OpenSearchLeaf(c, v) <=> negated)}]
OpenSearchNot(f) == [negated \in BOOLEAN |-> f.openSearch[~negated]]

OpenSearchAll(conjunction, children) ==
  [negated \in BOOLEAN |->
     LET queries == {f.openSearch[negated] : f \in children}
     IN IF conjunction # negated THEN Every(queries) ELSE Some(queries)]

-----------------------------------------------------------------------------
(* Qdrant: no negation, no inequality, no null *)

QdrantRejects(c) ==
  \/ Null \in c.values
  \/ c.op = "ne"
  \/ c.op = "in" /\ (~SameType(c) \/ \E x \in c.values : x.type = "float")
  \/ OrdersNonNumbers(c)

\* Match compares typed values; equality of floats is a range.
QdrantLeaf(c, v) ==
  IF c.op \in {"eq", "in"} /\ \A x \in c.values : x.type # "float"
    THEN v \in c.values
    ELSE v.type \in Number /\ Native(c.op, v, c.values)

Qdrant(c) == {v \in Stored : QdrantLeaf(c, v)}

QdrantAll(conjunction, children) ==
  LET queries == {f.qdrant : f \in children}
  IN IF conjunction THEN Every(queries) ELSE Some(queries)

-----------------------------------------------------------------------------
(* pgvector: SQL's three truth values *)

False3   == 0
Unknown3 == 1
True3    == 2
Truth(b) == IF b THEN True3 ELSE False3

PgVectorRejects(c) == c.op \in Ordered /\ \E x \in c.values : x.type \in {"bool", "null"}

\* jsonb equality, for which 1 is 1.0 and true is not 1.
JsonEqual(x, y) == x = y \/ ({x.type, y.type} \subseteq Number /\ x.n = y.n)

\* COALESCE makes the comparison with an absent field false, and null tests
\* for the key first.
PgVectorEqual(v, x) ==
  Truth(IF x = Null THEN v \in {Absent, Null} ELSE JsonEqual(v, x))

\* jsonb_typeof of an absent field is NULL, and so is the whole conjunction.
PgVectorOrder(c, v, x) ==
  IF v = Absent THEN Unknown3 ELSE Truth(Comparable(v, x) /\ InOrder(c.op, v, x))

PgVectorLeaf(c, v) ==
  CASE c.op \in {"eq", "in"} -> Max({PgVectorEqual(v, x) : x \in c.values})
    [] c.op = "ne"           -> True3 - Max({PgVectorEqual(v, x) : x \in c.values})
    [] OTHER                 -> Max({PgVectorOrder(c, v, x) : x \in c.values})

PgVector(c)    == [v \in Stored |-> PgVectorLeaf(c, v)]
PgVectorNot(f) == [v \in Stored |-> True3 - f.pgVector[v]]

PgVectorAll(conjunction, children) ==
  [v \in Stored |->
     LET truths == {f.pgVector[v] : f \in children}
     IN IF conjunction THEN Min(truths) ELSE Max(truths)]

\* WHERE keeps the rows for which the condition is true.
PgVectorSelects(f) == {v \in Stored : f.pgVector[v] = True3}

-----------------------------------------------------------------------------
(* The filters a caller can build: what is matched, what each query selects,
   the stores that raise UnsupportedCapabilityError, and the values that some
   comparison of the filter blurs or widens *)

Comparison(c) ==
  [matches    |-> Matched(c),
   pinecone   |-> Pinecone(c),
   openSearch |-> OpenSearch(c),
   qdrant     |-> Qdrant(c),
   pgVector   |-> PgVector(c),
   blurred    |-> Blurred(c),
   widened    |-> Widened(c),
   rejectedBy |-> {store \in {"pinecone", "opensearch", "qdrant", "pgvector"} :
                     \/ store = "pinecone"   /\ PineconeRejects(c)
                     \/ store = "opensearch" /\ OpenSearchRejects(c)
                     \/ store = "qdrant"     /\ QdrantRejects(c)
                     \/ store = "pgvector"   /\ PgVectorRejects(c)}]

Not(f) ==
  [matches    |-> MatchedNot(f),
   pinecone   |-> PineconeNot(f),
   openSearch |-> OpenSearchNot(f),
   qdrant     |-> {},
   pgVector   |-> PgVectorNot(f),
   blurred    |-> f.blurred,
   widened    |-> f.widened,
   rejectedBy |-> f.rejectedBy \cup {"qdrant"}]

Connected(conjunction, children) ==
  [matches    |-> MatchedAll(conjunction, children),
   pinecone   |-> PineconeAll(conjunction, children),
   openSearch |-> OpenSearchAll(conjunction, children),
   qdrant     |-> QdrantAll(conjunction, children),
   pgVector   |-> PgVectorAll(conjunction, children),
   blurred    |-> UNION {f.blurred : f \in children},
   widened    |-> UNION {f.widened : f \in children},
   rejectedBy |-> UNION {f.rejectedBy : f \in children}]

And(children) == Connected(TRUE, children)
Or(children)  == Connected(FALSE, children)

VARIABLE filters  \* those at hand, each of which may become part of others

FiltersInit == filters = {}

MakeComparison ==
  /\ Cardinality(filters) < MaxComparisons
  /\ \E c \in Comparisons : filters' = filters \cup {Comparison(c)}

Negate ==
  /\ Cardinality(filters) < MaxFilters
  /\ \E f \in filters : filters' = filters \cup {Not(f)}

Connect ==
  /\ Cardinality(filters) < MaxFilters
  /\ \E children \in (SUBSET filters) \ {{}} :
       \E connected \in {And(children), Or(children)} : filters' = filters \cup {connected}

FiltersNext == MakeComparison \/ Negate \/ Connect

FiltersSpec == FiltersInit /\ [][FiltersNext]_filters

-----------------------------------------------------------------------------
(* Properties.  Values that a comparison of the filter blurs are left out, and
   for Qdrant those that one widens: there the typed stores do differ from the
   evaluation in Python, which README.md beside this module tells. *)

Agree(selected, f, apart) == \A v \in Stored \ apart : v \in selected <=> v \in f.matches

\* Pinecone either rejects a filter or selects the chunks that satisfy it,
\* although negations are compiled into complements of typed projections.
PineconeIsExact(f) ==
  "pinecone" \in f.rejectedBy \/ Agree(f.pinecone[FALSE], f, f.blurred)

\* So does OpenSearch, whose negations become must_not.
OpenSearchIsExact(f) ==
  "opensearch" \in f.rejectedBy \/ Agree(f.openSearch[FALSE], f, f.blurred)

\* So does Qdrant, which rejects negation, inequality and null, and tuples of
\* floats or of mixed types.
QdrantIsExact(f) ==
  "qdrant" \in f.rejectedBy \/ Agree(f.qdrant, f, f.blurred \cup f.widened)

\* pgvector returns no chunk that does not satisfy the filter.
PgVectorIsSound(f) ==
  "pgvector" \in f.rejectedBy \/ PgVectorSelects(f) \ f.blurred \subseteq f.matches

\* The four compilers together: a filter that a store accepts selects chunks
\* that satisfy it, and all of them in three of the stores, unless Python's ==
\* takes the value of the chunk for an operand of another type.
TranslationsAreTrue ==
  \A f \in filters :
    PineconeIsExact(f) /\ OpenSearchIsExact(f) /\ QdrantIsExact(f) /\ PgVectorIsSound(f)

\* Nor does pgvector drop one that does: README.md says that the stores translate
\* only filters they can represent exactly.
PgVectorIsExact ==
  \A f \in filters :
    "pgvector" \in f.rejectedBy \/ Agree(PgVectorSelects(f), f, f.blurred)

=============================================================================
