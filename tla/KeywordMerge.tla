---------------------------- MODULE KeywordMerge ----------------------------
(***************************************************************************)
(* The algebra of json_schema.rs that merges two conjuncts of an allOf     *)
(* keyword by keyword (merge_two, merge_extra_value, finalize_merged).     *)
(*                                                                         *)
(* A schema is a function from the keywords it has to their values.  The   *)
(* keywords whose values are schemas are left to AllOfMerge.  `true` and   *)
(* `false` as a value of additionalProperties are Open and Closed; a merge *)
(* that fails is Rejected.                                                 *)
(***************************************************************************)
EXTENDS Integers

CONSTANTS
  SafeInteger,   (* MAX_SAFE_INTEGER, 2^53 - 1 in the code.                *)
  LargestInteger,(* The largest value of an i64.                           *)
  Contained,     (* accepted_set_is_contained_by: narrower, wider format.  *)
  Rejected,      (* The result of a merge that fails.                      *)
  Open, Closed   (* additionalProperties: true and false.                  *)

ASSUME LimitsAssumption ==
  /\ SafeInteger \in Nat /\ LargestInteger \in Nat
  /\ 0 < SafeInteger /\ SafeInteger <= LargestInteger

(* The table is an order, and the formats that contain one are a chain.    *)
ASSUME ContainedAssumption ==
  \A p, q \in Contained :
    /\ p[1] = q[2] /\ p[2] = q[1] => p[1] = p[2]
    /\ p[2] = q[1] => << p[1], q[2] >> \in Contained
    /\ p[1] = q[1] /\ p[2] # q[2] =>
         << p[2], q[2] >> \in Contained \/ << q[2], p[2] >> \in Contained

LowerBounds ==
  { "minimum", "exclusiveMinimum", "minLength", "minItems", "minProperties", "minContains" }
UpperBounds ==
  { "maximum", "exclusiveMaximum", "maxLength", "maxItems", "maxProperties", "maxContains" }
Flags == { "uniqueItems", "deprecated" }
Annotations == { "default", "title", "description" }

(* The tighter of two bounds.                                              *)
NumericExtreme(key, a, b) ==
  IF (key \in LowerBounds /\ a >= b) \/ (key \in UpperBounds /\ a <= b) THEN a ELSE b

(* The numbers an i64 has, from 0 on.                                      *)
Whole == 0 .. LargestInteger

(* Euclid's loop: x and y become y and x % y, until y is 0.                *)
Gcd[y \in Whole] == [ x \in Whole |-> IF y = 0 THEN x ELSE Gcd[x % y][y] ]

(* Faulty variant: the product of the divisors.                            *)
MergeMultipleOfProduct(a, b) == IF a * b <= SafeInteger THEN a * b ELSE Rejected

(* The least common multiple, when it neither overflows nor exceeds what   *)
(* every target represents exactly.                                        *)
MergeMultipleOf(a, b) ==
  LET lcm == (a \div Gcd[b][a]) * b
  IN  IF lcm <= LargestInteger /\ lcm <= SafeInteger THEN lcm ELSE Rejected

(* The format whose strings are all strings of the other.                  *)
MergeFormats(a, b) ==
  IF << a, b >> \in Contained THEN a
  ELSE IF << b, a >> \in Contained THEN b ELSE Rejected

IntersectEnum(a, b) == IF a \cap b = {} THEN Rejected ELSE a \cap b

MergeDependentRequired(a, b) ==
  [ trigger \in DOMAIN a \cup DOMAIN b |->
      (IF trigger \in DOMAIN a THEN a[trigger] ELSE {})
        \cup (IF trigger \in DOMAIN b THEN b[trigger] ELSE {}) ]

MergeType(a, b) == IF {a, b} = {"integer", "number"} THEN "integer" ELSE Rejected

(* Both schemas have the keyword.  What is not listed - const, pattern and *)
(* contains among it - has no merge unless the values are equal.           *)
MergeKeyword(key, a, b) ==
  CASE a = b -> a
    [] a # b /\ key \in LowerBounds \cup UpperBounds -> NumericExtreme(key, a, b)
    [] a # b /\ key = "type" -> MergeType(a, b)
    [] a # b /\ key = "multipleOf" -> MergeMultipleOf(a, b)
    [] a # b /\ key \in Flags -> a \/ b
    [] a # b /\ key = "enum" -> IntersectEnum(a, b)
    [] a # b /\ key = "format" -> MergeFormats(a, b)
    [] a # b /\ key = "required" -> a \cup b
    [] a # b /\ key = "dependentRequired" -> MergeDependentRequired(a, b)
    [] a # b /\ key \in Annotations -> b
    [] OTHER -> Rejected

Has(schema, key) == key \in DOMAIN schema
Without(schema, keys) == [ key \in DOMAIN schema \ keys |-> schema[key] ]

(* Faulty variant: the inclusive bound wins a tie.                         *)
DominatedInclusive(schema) ==
  { key \in DOMAIN schema :
      \/ key = "exclusiveMinimum" /\ Has(schema, "minimum") /\ schema["minimum"] >= schema[key]
      \/ key = "minimum" /\ Has(schema, "exclusiveMinimum") /\ schema["exclusiveMinimum"] > schema[key]
      \/ key = "exclusiveMaximum" /\ Has(schema, "maximum") /\ schema["maximum"] <= schema[key]
      \/ key = "maximum" /\ Has(schema, "exclusiveMaximum") /\ schema["exclusiveMaximum"] < schema[key] }

(* collapse_numeric_pair: the bound that the other one of its side makes   *)
(* superfluous.                                                            *)
Dominated(schema) ==
  { key \in DOMAIN schema :
      \/ key = "minimum" /\ Has(schema, "exclusiveMinimum") /\ schema["exclusiveMinimum"] >= schema[key]
      \/ key = "exclusiveMinimum" /\ Has(schema, "minimum") /\ schema["minimum"] > schema[key]
      \/ key = "maximum" /\ Has(schema, "exclusiveMaximum") /\ schema["exclusiveMaximum"] <= schema[key]
      \/ key = "exclusiveMaximum" /\ Has(schema, "maximum") /\ schema["maximum"] < schema[key] }

(* Faulty variant: a pair of bounds stays when there is a const.           *)
FinalizeMergedEarly(schema) ==
  IF Has(schema, "const")
  THEN IF Has(schema, "enum") /\ schema["const"] \notin schema["enum"]
       THEN Rejected ELSE Without(schema, {"enum"})
  ELSE Without(schema, Dominated(schema))

(* A const that the enum does not have is an error, and otherwise the enum *)
(* has nothing to add to it.                                               *)
FinalizeMerged(schema) ==
  IF Has(schema, "const") /\ Has(schema, "enum")
  THEN IF schema["const"] \in schema["enum"]
       THEN Without(schema, {"enum"} \cup Dominated(schema))
       ELSE Rejected
  ELSE Without(schema, Dominated(schema))
=============================================================================
