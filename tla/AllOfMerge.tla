----------------------------- MODULE AllOfMerge -----------------------------
(***************************************************************************)
(* merge_branch_list of json_schema.rs: the conjuncts of an allOf, already *)
(* expanded, are folded into one schema from left to right; the children   *)
(* whose merge was put off are flattened next (normalize_children); then   *)
(* the validators of single nodes have their say (validate_schema_node).   *)
(*                                                                         *)
(* KeywordMerge has the keywords with plain values.  Here are the ones     *)
(* with schemas as values, and `$ref`, `allOf` and `oneOf` in children.    *)
(***************************************************************************)
EXTENDS KeywordMerge, Sequences, SequencesExt

CONSTANTS
  BranchLists,   (* The lists of conjuncts that are merged.                *)
  Target,        (* The declared model each reference resolves to.         *)
  Values,        (* The JSON values that the properties speak of.          *)
  MergeBelow(_, _), ConjunctsBelow(_), AcceptsBelow(_, _, _), CauseBelow(_),
                 (* MergePair, Conjuncts, Accepts and HasCause of what is  *)
                 (* below: recursion goes from a schema to its parts.      *)
  MaxBranches,   (* Bound of the length of a list.                         *)
  Children,      (* Children[n] is what n conjuncts can say of one child,  *)
                 (* merged.                                                *)
  Schemas,       (* These, and what they consist of and are flattened to.  *)
  Nesting        (* How deep references and allOf are nested in each.      *)

VARIABLES
  branches,      (* The conjuncts.                                         *)
  next,          (* The first one that is not merged yet.                  *)
  acc,           (* What the ones before it are merged into.               *)
  outcome        (* How far the node is: folding, merged, flat, accepted;  *)
                 (* or unmergeable, or rejected by a validator.            *)

vars == << branches, next, acc, outcome >>

Empty == [ key \in {} |-> key ]

ChildKeywords == { "items", "additionalProperties" }

(* A child that only the walk over the children can flatten.               *)
IsUnflattened(schema) == Has(schema, "$ref") \/ Has(schema, "oneOf") \/ Has(schema, "allOf")

(* What fails fails what it is a part of, and ends what comes after it.    *)
OrRejected(parts) == IF \E part \in DOMAIN parts : parts[part] = Rejected THEN Rejected ELSE parts
Then(result, Rest(_)) == IF result = Rejected THEN Rejected ELSE Rest(result)

(* Are two children kept as an allOf?                                      *)
Deferred(a, b) == IsUnflattened(a) \/ IsUnflattened(b)

(* merge_child_schemas.                                                    *)
MergeChild(a, b) ==
  CASE a = b \/ b = Empty -> a
    [] a = Empty /\ b # Empty -> b
    [] a # b /\ a # Empty /\ b # Empty /\ Deferred(a, b) ->
         [ key \in {"allOf"} |-> << a, b >> ]
    [] OTHER -> MergeBelow(a, b)

MergeProperties(a, b) ==
  OrRejected([ name \in DOMAIN a \cup DOMAIN b |->
                 CASE name \notin DOMAIN b -> a[name]
                   [] name \notin DOMAIN a -> b[name]
                   [] OTHER -> MergeChild(a[name], b[name]) ])

(* Faulty variant: the later branch decides whether the object is closed.  *)
MergeAdditionalPropertiesLast(a, b) == IF b = Open THEN a ELSE b

(* false closes the object; true yields to a schema; two schemas merge.    *)
MergeAdditionalProperties(a, b) ==
  CASE Closed \in {a, b} -> Closed
    [] Closed \notin {a, b} /\ a = Open -> b
    [] Closed \notin {a, b} /\ b = Open -> a
    [] OTHER -> MergeChild(a, b)

MergeValue(key, a, b) ==
  CASE key = "properties" -> MergeProperties(a, b)
    [] key = "additionalProperties" -> MergeAdditionalProperties(a, b)
    [] key = "items" -> MergeChild(a, b)
    [] OTHER -> MergeKeyword(key, a, b)

(* merge_two: a keyword that one side lacks is taken from the other.       *)
MergeTwo(a, b) ==
  OrRejected([ key \in DOMAIN a \cup DOMAIN b |->
                 CASE ~ Has(b, key) -> a[key]
                   [] ~ Has(a, key) -> b[key]
                   [] OTHER -> MergeValue(key, a[key], b[key]) ])

(* merge_schema_pair.                                                      *)
MergePair(a, b) == Then(MergeTwo(a, b), FinalizeMerged)

(* merge_branch_list.                                                      *)
MergeList(list) ==
  LET merged[n \in 1 .. Len(list)] ==
        IF n = 1 THEN list[1]
        ELSE IF merged[n - 1] = Rejected THEN Rejected ELSE MergePair(merged[n - 1], list[n])
  IN  Then(merged[Len(list)], FinalizeMerged)

-----------------------------------------------------------------------------
(* The children, and the validators.                                       *)

(* expand_branches of a child: what its reference leads to, then its allOf *)
(* branches, then the rest of it.                                          *)
Conjuncts(schema) ==
  LET own == Without(schema, {"$ref", "allOf"})
  IN  (IF Has(schema, "$ref") THEN ConjunctsBelow(Target[schema["$ref"]]) ELSE << >>)
        \o (IF Has(schema, "allOf")
            THEN FlattenSeq([ n \in DOMAIN schema["allOf"] |-> ConjunctsBelow(schema["allOf"][n]) ])
            ELSE << >>)
        \o (IF own = Empty THEN << >> ELSE << own >>)

(* A bare reference and a node without allOf stay as they are; a union is  *)
(* not a conjunct.                                                         *)
MergeConjuncts(list) ==
  IF \E n \in DOMAIN list : Has(list[n], "oneOf") THEN Rejected ELSE MergeList(list)
Flatten(schema) ==
  IF Has(schema, "allOf") \/ (Has(schema, "$ref") /\ DOMAIN schema # {"$ref"})
  THEN MergeConjuncts(Conjuncts(schema))
  ELSE schema

FlattenValue(key, value) ==
  CASE key = "properties" -> OrRejected([ name \in DOMAIN value |-> Flatten(value[name]) ])
    [] key \in ChildKeywords \cup {"contains"} /\ value \notin {Open, Closed} -> Flatten(value)
    [] OTHER -> value

(* normalize_children.                                                     *)
FlattenChildren(schema) ==
  OrRejected([ key \in DOMAIN schema |-> FlattenValue(key, schema[key]) ])

(* The numbers are integers and halves; `twice` avoids fractions.          *)
BoundsHold(schema, number) ==
  /\ Has(schema, "minimum") => number.twice >= 2 * schema["minimum"]
  /\ Has(schema, "exclusiveMinimum") => number.twice > 2 * schema["exclusiveMinimum"]
  /\ Has(schema, "maximum") => number.twice <= 2 * schema["maximum"]
  /\ Has(schema, "exclusiveMaximum") => number.twice < 2 * schema["exclusiveMaximum"]
  /\ Has(schema, "multipleOf") => number.twice % (2 * schema["multipleOf"]) = 0

(* The literals of a node: its const, its default, the members of its enum.*)
Literals(schema) ==
  { schema[key] : key \in DOMAIN schema \cap {"const", "default"} }
    \cup (IF Has(schema, "enum") THEN schema["enum"] ELSE {})

(* validate_numeric_constraints, of a node with at most one bound a side.  *)
Floor(schema) == IF Has(schema, "minimum") THEN schema["minimum"] ELSE schema["exclusiveMinimum"]
Ceiling(schema) == IF Has(schema, "maximum") THEN schema["maximum"] ELSE schema["exclusiveMaximum"]
HasFloor(schema) == Has(schema, "minimum") \/ Has(schema, "exclusiveMinimum")
HasCeiling(schema) == Has(schema, "maximum") \/ Has(schema, "exclusiveMaximum")
Smallest(schema) == Floor(schema) + (IF Has(schema, "minimum") THEN 0 ELSE 1)
Largest(schema) == Ceiling(schema) - (IF Has(schema, "maximum") THEN 0 ELSE 1)

NumericKeywords == { "minimum", "exclusiveMinimum", "maximum", "exclusiveMaximum", "multipleOf" }

(* Faulty variant: that a bound is exclusive matters to integers only.     *)
IsCrossedRange(schema) ==
  /\ HasFloor(schema) /\ HasCeiling(schema)
  /\ IF schema["type"] = "integer" THEN Smallest(schema) > Largest(schema)
     ELSE Floor(schema) > Ceiling(schema)

IsEmptyRange(schema) ==
  /\ HasFloor(schema) /\ HasCeiling(schema)
  /\ IF schema["type"] = "integer" THEN Smallest(schema) > Largest(schema)
     ELSE \/ Floor(schema) > Ceiling(schema)
          \/ /\ Floor(schema) = Ceiling(schema)
             /\ Has(schema, "exclusiveMinimum") \/ Has(schema, "exclusiveMaximum")

(* binary64_range_contains_multiple, between whole bounds.                 *)
ContainsMultiple(schema) ==
  \E number \in Smallest(schema) .. Largest(schema) : number % schema["multipleOf"] = 0

ValidNumbers(schema) ==
  \/ DOMAIN schema \cap NumericKeywords = {}
  \/ /\ Has(schema, "type") /\ schema["type"] \in {"integer", "number"}
     /\ schema["type"] = "integer" =>
          /\ Has(schema, "multipleOf") => schema["multipleOf"] <= SafeInteger
          /\ HasCeiling(schema) => Largest(schema) >= - SafeInteger
          /\ HasFloor(schema) => Smallest(schema) <= SafeInteger
     /\ ~ IsEmptyRange(schema)
     /\ Has(schema, "multipleOf") /\ HasFloor(schema) /\ HasCeiling(schema) =>
          ContainsMultiple(schema)
     /\ \A literal \in Literals(schema) : literal.kind = "number" => BoundsHold(schema, literal)

(* A pair of counts leaves something.                                      *)
ValidCounts(schema, least, most) ==
  Has(schema, least) /\ Has(schema, most) => schema[least] <= schema[most]

(* validate_string_constraints.                                            *)
ValidStrings(schema) ==
  \/ DOMAIN schema \cap {"minLength", "maxLength"} = {}
  \/ /\ Has(schema, "type") /\ schema["type"] = "string"
     /\ ValidCounts(schema, "minLength", "maxLength")

(* validate_array_constraints: an omitted minContains is 1 here.           *)
ArrayKeywords == { "minItems", "maxItems", "uniqueItems", "contains", "minContains", "maxContains" }
ValidArrays(schema) ==
  \/ DOMAIN schema \cap ArrayKeywords = {}
  \/ /\ Has(schema, "type") /\ schema["type"] = "array"
     /\ ValidCounts(schema, "minItems", "maxItems")
     /\ DOMAIN schema \cap {"minContains", "maxContains"} # {} => Has(schema, "contains")
     /\ ValidCounts(schema, "minContains", "maxContains")
     /\ Has(schema, "maxContains") /\ ~ Has(schema, "minContains") => schema["maxContains"] >= 1
     /\ Has(schema, "minContains") /\ schema["minContains"] = 0 => Has(schema, "maxContains")

(* validate_object_constraints: a closed object has no more members than   *)
(* properties, and what is always there, alone or with all that a trigger  *)
(* brings along, must fit in.                                              *)
Declared(schema) == IF Has(schema, "properties") THEN DOMAIN schema["properties"] ELSE {}
IsClosed(schema) ==
  Has(schema, "additionalProperties") /\ schema["additionalProperties"] = Closed
Required(schema) == IF Has(schema, "required") THEN schema["required"] ELSE {}
Forced(schema, trigger) ==
  LET dependents == schema["dependentRequired"]
      Grow(members) == members \cup UNION { dependents[m] : m \in members \cap DOMAIN dependents }
  IN  Required(schema)
        \cup FoldLeft(LAMBDA members, n : Grow(members), {trigger}, SetToSeq(Declared(schema)))

ObjectKeywords == { "minProperties", "maxProperties", "dependentRequired" }
ValidObjects(schema) ==
  \/ DOMAIN schema \cap ObjectKeywords = {}
  \/ /\ Has(schema, "type") /\ schema["type"] = "object"
     /\ ValidCounts(schema, "minProperties", "maxProperties")
     /\ Has(schema, "minProperties") /\ IsClosed(schema) =>
          schema["minProperties"] <= Cardinality(Declared(schema))
     /\ Has(schema, "maxProperties") => Cardinality(Required(schema)) <= schema["maxProperties"]
     /\ Has(schema, "dependentRequired") =>
          \A trigger \in DOMAIN schema["dependentRequired"] :
            /\ {trigger} \cup schema["dependentRequired"][trigger]
                 \subseteq Declared(schema) \ Required(schema)
            /\ Has(schema, "maxProperties") =>
                 Cardinality(Forced(schema, trigger)) <= schema["maxProperties"]

IsOfType(value, type) ==
  \/ value.kind = type
  \/ value.kind = "number" /\ type = "integer" /\ value.twice % 2 = 0

(* validate_const_enum and validate_default.                               *)
ValidLiterals(schema) ==
  /\ Has(schema, "type") => \A literal \in Literals(schema) : IsOfType(literal, schema["type"])
  /\ ~ (Has(schema, "const") /\ Has(schema, "enum"))
  /\ ~ (Has(schema, "const") /\ Has(schema, "default"))
  /\ Has(schema, "enum") /\ Has(schema, "default") => schema["default"] \in schema["enum"]

(* validate_type_presence and validate_required.                           *)
ValidShape(schema) ==
  \/ Has(schema, "$ref") \/ Has(schema, "oneOf")
  \/ /\ Has(schema, "type")
     /\ (schema["type"] = "object")
          = (DOMAIN schema \cap {"properties", "additionalProperties"} # {})
     /\ (schema["type"] = "array") = Has(schema, "items")
     /\ Required(schema) \subseteq Declared(schema)

IsValidNode(schema) ==
  /\ ValidNumbers(schema) /\ ValidStrings(schema) /\ ValidArrays(schema) /\ ValidObjects(schema)
  /\ ValidLiterals(schema) /\ ValidShape(schema)

ChildrenOf(schema) ==
  UNION { IF key = "properties" THEN { schema[key][name] : name \in DOMAIN schema[key] }
          ELSE {schema[key]} \ {Open, Closed}
            : key \in DOMAIN schema \cap ({"properties"} \cup ChildKeywords) }

IsValid(schema) == IsValidNode(schema) /\ \A child \in ChildrenOf(schema) : IsValidNode(child)

-----------------------------------------------------------------------------
Init ==
  /\ branches \in BranchLists
  /\ next = 2 /\ acc = branches[1] /\ outcome = "folding"

Settle(result, stage) ==
  /\ outcome' = IF result = Rejected THEN "unmergeable" ELSE stage
  /\ acc' = IF result = Rejected THEN acc ELSE result

MergeBranch ==
  /\ outcome = "folding" /\ next <= Len(branches)
  /\ Settle(MergePair(acc, branches[next]), "folding")
  /\ next' = next + 1
  /\ UNCHANGED branches

FinishFold ==
  /\ outcome = "folding" /\ next > Len(branches)
  /\ Settle(FinalizeMerged(acc), "merged")
  /\ UNCHANGED << branches, next >>

NormalizeChildren ==
  /\ outcome = "merged"
  /\ Settle(FlattenChildren(acc), "flat")
  /\ UNCHANGED << branches, next >>

Validate ==
  /\ outcome = "flat"
  /\ outcome' = IF IsValid(acc) THEN "accepted" ELSE "rejected"
  /\ UNCHANGED << branches, next, acc >>

Next == MergeBranch \/ FinishFold \/ NormalizeChildren \/ Validate

Spec == Init /\ [][Next]_vars

-----------------------------------------------------------------------------
(* What a schema means: the values it accepts.  A keyword speaks of the    *)
(* values of its own kind only.                                            *)

Between(schema, least, count, most) ==
  (Has(schema, least) => schema[least] <= count) /\ (Has(schema, most) => count <= schema[most])

Number(n) == [ kind |-> "number", twice |-> 2 * n ]

AcceptsArray(schema, elements) ==
  /\ Between(schema, "minItems", Len(elements), "maxItems")
  /\ Has(schema, "uniqueItems") /\ schema["uniqueItems"] => IsInjective(elements)
  /\ Has(schema, "items") =>
       \A n \in DOMAIN elements : AcceptsBelow(schema["items"], Number(elements[n]), {})
  /\ Has(schema, "contains") =>
       LET count == Cardinality({ n \in DOMAIN elements :
                                    AcceptsBelow(schema["contains"], Number(elements[n]), {}) })
       IN  /\ Between(schema, "minContains", count, "maxContains")
           /\ ~ Has(schema, "minContains") => count >= 1

HasMemberSchema(schema) ==
  Has(schema, "additionalProperties") /\ schema["additionalProperties"] \notin {Open, Closed}

(* A closed object is closed to all but the members that the branches      *)
(* declare together, `declared`: the exception that allOf.md makes for     *)
(* `false`.  A schema for the other members speaks, as everywhere in JSON  *)
(* Schema, of those that its own branch does not declare.                  *)
AcceptsObject(schema, members, declared) ==
  /\ Between(schema, "minProperties", Cardinality(DOMAIN members), "maxProperties")
  /\ Has(schema, "required") => schema["required"] \subseteq DOMAIN members
  /\ Has(schema, "dependentRequired") =>
       \A trigger \in DOMAIN schema["dependentRequired"] \cap DOMAIN members :
         schema["dependentRequired"][trigger] \subseteq DOMAIN members
  /\ Has(schema, "properties") =>
       \A name \in DOMAIN schema["properties"] \cap DOMAIN members :
         AcceptsBelow(schema["properties"][name], Number(members[name]), {})
  /\ IsClosed(schema) => DOMAIN members \subseteq declared
  /\ HasMemberSchema(schema) =>
       \A name \in DOMAIN members \ Declared(schema) :
         AcceptsBelow(schema["additionalProperties"], Number(members[name]), {})

Accepts(schema, value, declared) ==
  /\ Has(schema, "type") => IsOfType(value, schema["type"])
  /\ Has(schema, "const") => value = schema["const"]
  /\ Has(schema, "enum") => value \in schema["enum"]
  /\ value.kind = "number" => BoundsHold(schema, value)
  /\ value.kind = "string" =>
       /\ Between(schema, "minLength", value.length, "maxLength")
       /\ Has(schema, "format") => schema["format"] \in value.formats
       /\ Has(schema, "pattern") => schema["pattern"] \in value.patterns
  /\ value.kind = "array" => AcceptsArray(schema, value.elements)
  /\ value.kind = "object" => AcceptsObject(schema, value.members, declared)
  /\ Has(schema, "$ref") => AcceptsBelow(Target[schema["$ref"]], value, {})
  /\ Has(schema, "allOf") =>
       \A n \in DOMAIN schema["allOf"] : AcceptsBelow(schema["allOf"][n], value, declared)
  /\ Has(schema, "oneOf") =>
       Cardinality({ alternative \in schema["oneOf"] : AcceptsBelow(alternative, value, {}) }) = 1

DeclaredIn(list) == UNION { Declared(list[n]) : n \in DOMAIN list }
AllAccept(list, value) == \A n \in DOMAIN list : Accepts(list[n], value, DeclaredIn(list))

-----------------------------------------------------------------------------
(* What the instance must be like.                                         *)

WellTyped(schema) ==
  /\ \A key \in DOMAIN schema \cap (LowerBounds \cup UpperBounds) : schema[key] \in Int
  /\ Has(schema, "multipleOf") => schema["multipleOf"] \in Whole \ {0}
  /\ Has(schema, "uniqueItems") => schema["uniqueItems"] \in BOOLEAN

ChildrenIn(schema, set) ==
  /\ \A key \in DOMAIN schema \cap {"items", "contains"} : schema[key] \in set
  /\ Has(schema, "additionalProperties") =>
       schema["additionalProperties"] \in set \cup {Open, Closed}
  /\ Has(schema, "properties") =>
       \A name \in DOMAIN schema["properties"] : schema["properties"][name] \in set

(* Numbers in arrays and objects: what the children are asked about.       *)
Elements ==
  UNION { CASE value.kind = "array" -> Range(value.elements)
            [] value.kind = "object" -> Range(value.members)
            [] OTHER -> {} : value \in Values }

ASSUME BranchesAssumption ==
  /\ MaxBranches \in Nat \ {0}
  /\ \A list \in BranchLists :
       /\ list \in Seq(Range(list)) /\ Len(list) \in 1 .. MaxBranches
       /\ \A n \in DOMAIN list :
            /\ WellTyped(list[n]) /\ ChildrenIn(list[n], Children[1])
            /\ Has(list[n], "minContains") => list[n]["minContains"] >= 0

ASSUME ChildrenAssumption ==
  /\ Open # Closed /\ Open \notin Schemas /\ Closed \notin Schemas
  /\ \A n \in 1 .. MaxBranches :
       /\ Children[1] \subseteq Children[n] /\ Children[n] \subseteq Schemas
       /\ \A child \in Children[n] : Flatten(child) \in Schemas \cup {Rejected}
  /\ \A n \in 1 .. MaxBranches - 1 :
       /\ Children[n] \subseteq Children[n + 1]
       /\ \A a \in Children[n], b \in Children[1] :
            MergeChild(a, b) \in Children[n + 1] \cup {Rejected}

(* A chain of references and allOf ends, or the walk has found a cycle; a  *)
(* declared model says something, and so does one branch of an allOf.      *)
ASSUME SchemasAssumption ==
  \A schema \in Schemas :
    /\ WellTyped(schema)
    /\ Nesting[schema] \in Nat
    /\ Has(schema, "$ref") =>
         LET target == Target[schema["$ref"]]
         IN  target \in Schemas /\ DOMAIN target # {} /\ Nesting[target] < Nesting[schema]
    /\ Has(schema, "allOf") =>
         /\ schema["allOf"] \in Seq(Schemas)
         /\ \A branch \in Range(schema["allOf"]) : Nesting[branch] < Nesting[schema]
         /\ \E branch \in Range(schema["allOf"]) : DOMAIN branch # {}

ASSUME ValuesAssumption ==
  \A value \in Values :
    /\ value.kind \in {"number", "string", "array", "object"}
    /\ value.kind = "number" => value.twice \in Int
    /\ value.kind = "string" =>
         /\ value.length \in Nat
         /\ \A pair \in Contained : pair[1] \in value.formats => pair[2] \in value.formats
    /\ value.kind = "array" => value.elements \in Seq(Int)
    /\ value.kind = "object" =>
         IsFiniteSet(DOMAIN value.members) /\ Range(value.members) \subseteq Int

ASSUME RecursionAssumption ==
  /\ \A n \in 1 .. MaxBranches - 1 : \A a \in Children[n], b \in Children[1] :
       ~ Deferred(a, b) => MergeBelow(a, b) = MergePair(a, b)
  /\ \A schema \in Schemas :
       /\ ConjunctsBelow(schema) = Conjuncts(schema)
       /\ \A n \in Elements :
            AcceptsBelow(schema, Number(n), {}) <=> Accepts(schema, Number(n), {})

-----------------------------------------------------------------------------
(* Properties.                                                             *)

Having(list, key) == { list[n][key] : n \in { m \in DOMAIN list : Has(list[m], key) } }

TypeOK ==
  /\ next \in 2 .. Len(branches) + 1
  /\ DOMAIN acc \subseteq UNION { DOMAIN branches[n] : n \in 1 .. next - 1 }
  /\ next > 2 /\ outcome # "unmergeable" => Dominated(acc) = {}
  /\ outcome \in {"folding", "merged", "flat", "accepted", "rejected", "unmergeable"}

(* A branch omits minContains, which stands for 1, and others say 0: the   *)
(* one case in which a keyword that is not there has something to say.     *)
OmitsMinContains(list) ==
  /\ Having(list, "minContains") = {0}
  /\ \E n \in DOMAIN list : Has(list[n], "contains") /\ ~ Has(list[n], "minContains")

(* A branch has a count and leaves it to another to say of what.           *)
HasCountAlone(list) ==
  \E n \in DOMAIN list :
    DOMAIN list[n] \cap {"minContains", "maxContains"} # {} /\ ~ Has(list[n], "contains")

(* A merge has one `properties`, so a branch's schema for the members that *)
(* it does not declare is no longer asked about those that another branch  *)
(* declares: they escape it, which allOf.md does not provide for.  All     *)
(* else that the branch says holds, its schema for the rest included.      *)
Escapes(list, n, value) ==
  /\ HasMemberSchema(list[n]) /\ value.kind = "object"
  /\ ~ (DOMAIN value.members \cap DeclaredIn(list) \subseteq Declared(list[n]))
AcceptsButForEscape(list, n, value) ==
  \/ Accepts(list[n], value, DeclaredIn(list))
  \/ /\ Escapes(list, n, value)
     /\ Accepts(Without(list[n], {"additionalProperties"}), value, DeclaredIn(list))
     /\ \A name \in DOMAIN value.members \ DeclaredIn(list) :
          AcceptsBelow(list[n]["additionalProperties"], Number(value.members[name]), {})

AcceptsAlone(schema, value) == Accepts(schema, value, Declared(schema))
IsConjunctionOf(schema, list) ==
  \A value \in Values :
    /\ AllAccept(list, value) => AcceptsAlone(schema, value)
    /\ AcceptsAlone(schema, value) => \A n \in DOMAIN list : AcceptsButForEscape(list, n, value)

FoldedSoFar == SubSeq(branches, 1, next - 1)

(* What has been merged accepts every value that all of its branches       *)
(* accept, and no other: no bound, member, divisor or closed object is     *)
(* lost or made up on the way, in whichever order they come.  Excepted are *)
(* the two kinds of counts above, and the members that escape a schema for *)
(* other members: of those, and of nothing else, a merge may say less.     *)
MergedIsConjunction ==
  outcome # "unmergeable" /\ ~ OmitsMinContains(FoldedSoFar) /\ ~ HasCountAlone(FoldedSoFar) =>
    IsConjunctionOf(acc, FoldedSoFar)

IfValid(schema) == IF IsValid(schema) THEN schema ELSE Rejected
Verdict(list) == Then(Then(MergeList(list), FlattenChildren), IfValid)

Orders(n) == { order \in [1 .. n -> 1 .. n] : IsInjective(order) }
LastDefault(list) ==
  LET with == { n \in DOMAIN list : Has(list[n], "default") }
  IN  IF with = {} THEN 0 ELSE list[Max(with)]["default"]

(* Is it what became of the branches?                                      *)
IsVerdict(verdict) ==
  IF outcome # "accepted" THEN verdict = Rejected
  ELSE verdict # Rejected /\ Without(verdict, Annotations) = Without(acc, Annotations)

(* "The validation semantics never depend on branch order" (allOf.md): the *)
(* same branches in another order get the same verdict and, annotations    *)
(* aside, the same schema.  A default is validated too, so it is the same. *)
OrderDoesNotMatter ==
  outcome \in {"accepted", "rejected", "unmergeable"} =>
    \A order \in Orders(Len(branches)) :
      LET list == [ n \in DOMAIN branches |-> branches[order[n]] ]
      IN  LastDefault(list) = LastDefault(branches) => IsVerdict(Verdict(list))

(* The children at one place, expanded, each one once.                     *)
ChildLists(list) ==
  LET Expanded(children) == FlattenSeq(SetToSeq({ Conjuncts(child) : child \in children }))
      named == Having(list, "properties")
  IN  { Expanded(Having(list, key) \ {Open, Closed, Empty}) : key \in ChildKeywords }
        \cup { Expanded({ p[name] : p \in { q \in named : name \in DOMAIN q } } \ {Empty})
                 : name \in DeclaredIn(list) }

(* Nothing satisfies the conjuncts, or they have no single schema.         *)
HasCause(list) ==
  LET Differ(key) == Cardinality(Having(list, key)) > 1
  IN  \/ \A value \in Values : ~ AllAccept(list, value)
      \/ Len(list) > 1 /\ Having(list, "oneOf") # {}
      \/ Differ("pattern") \/ Differ("contains")
      \/ \E a, b \in Having(list, "format") :
           a # b /\ << a, b >> \notin Contained /\ << b, a >> \notin Contained
      \/ /\ Having(list, "multipleOf") # {}
         /\ \A n \in 1 .. SafeInteger : \E d \in Having(list, "multipleOf") : n % d # 0
      \/ \E children \in ChildLists(list) : children # << >> /\ CauseBelow(children)

(* Branches are unmergeable only for a cause they have together, never     *)
(* because of a pair that happened to be merged first.                     *)
UnmergeableForCause == outcome = "unmergeable" => HasCause(branches)

(* An accepted node has a value: the ranges, divisors, closed sets, counts *)
(* and members that come from different branches leave one.  (What the     *)
(* items of an array and its contains leave together, no validator asks.)  *)
AcceptedNodesHaveValues ==
  outcome = "accepted" /\ ~ Has(acc, "contains") =>
    \E value \in Values : AcceptsAlone(acc, value)

=============================================================================
