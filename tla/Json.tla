-------------------------------- MODULE Json --------------------------------
(***************************************************************************)
(* serde_json values as protocol.rs handles them: an object is a function  *)
(* from its field names to their values, an array of items a sequence.     *)
(* Where a value may be of several JSON types it is tagged with its kind.  *)
(***************************************************************************)
EXTENDS Lists, SequencesExt

Str(t) == [kind |-> "string", text |-> t]
Arr(s) == [kind |-> "array", parts |-> s]
Obj(o) == [kind |-> "object", fields |-> o]
Other == [kind |-> "other"]             \* null, a number or a boolean
NULL == "null"                          \* where a string is expected

Has(o, f) == f \in DOMAIN o
Type(o) == IF Has(o, "type") THEN o.type ELSE ""
Role(o) == IF Has(o, "role") THEN o.role ELSE ""
With(o, f, v) == [g \in DOMAIN o \cup {f} |-> IF g = f THEN v ELSE o[g]]   \* insert
Default(o, f, v) == IF Has(o, f) THEN o ELSE With(o, f, v)    \* entry().or_insert()
\* The fields of o and those of d that it lacks (@@, which the provers do not know).
Merge(o, d) ==
  [f \in DOMAIN o \cup DOMAIN d |-> IF f \in DOMAIN o THEN o[f] ELSE d[f]]
\* as_array of a field, or nothing
Parts(o, f) == IF Has(o, f) /\ o[f].kind = "array" THEN o[f].parts ELSE <<>>
Without(o, F) == [f \in DOMAIN o \ F |-> o[f]]  \* remove
=============================================================================
