-------------------------- MODULE MCMetadataFilters --------------------------
(* The values of a metadata field for checking MetadataFilters with TLC. *)
EXTENDS MetadataFilters

\* A value of every type, with 1 beside True, 2.0 beside 2, and 2.5.
PlainStored ==
  {Absent, Null, Scalar("bool", 0), Scalar("bool", 2), Scalar("str", 1), Scalar("str", 2),
   Scalar("int", 2), Scalar("int", 4), Scalar("int", 6), Scalar("float", 4), Scalar("float", 5)}

\* The same for filters.
PlainOperands ==
  {Null, Scalar("bool", 2), Scalar("str", 1), Scalar("int", 2), Scalar("int", 4),
   Scalar("float", 4), Scalar("float", 5)}

=============================================================================
