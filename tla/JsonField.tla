----------------------------- MODULE JsonField -----------------------------
(***************************************************************************)
(* What the builder json of utils.hpp makes of a C++ value it is given for *)
(* a member of a request.                                                  *)
(***************************************************************************)

Null == "null"

\* A string literal is passed as an array of characters; decayed, it is a
\* pointer.
LITERAL == "char*"

\* Mutation: numbers with a fraction are forgotten.
StoredTypesWithoutDouble == {"string", "int"}

\* The types field() has a branch for.
StoredTypes == {"string", "int", "double"}

\* field(): a value of a type without a branch compiles, and leaves behind the
\* null that was in the buffer.
field(type, value) == IF type \in StoredTypes THEN value ELSE Null

=============================================================================
