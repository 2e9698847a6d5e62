---------------------------- MODULE MCAllOfMerge ----------------------------
(* Small instances of AllOfMerge: every pair of branches about one kind of *)
(* value, and every list of three of those that have something to say to   *)
(* two others.  6 stands for the largest safe integer.                     *)
EXTENDS AllOfMerge

K(key, value) == [ k \in {key} |-> value ]
And(a, b) == [ k \in DOMAIN a \cup DOMAIN b |-> IF k \in DOMAIN b THEN b[k] ELSE a[k] ]
Half(n) == [ kind |-> "number", twice |-> n ]

Integer == K("type", "integer")
AtLeast2 == And(Integer, K("minimum", 2))
AtMost2 == And(Integer, K("maximum", 2))

Of(type, schemas) == { And(K("type", type), schema) : schema \in schemas }
NumberBranches ==
  { Integer, AtLeast2, K("minimum", 1) }
    \cup Of("number",
           { K("exclusiveMinimum", 1), K("exclusiveMinimum", 2), K("maximum", 3),
             K("exclusiveMaximum", 2), K("multipleOf", 2), K("multipleOf", 3), K("multipleOf", 4),
             K("enum", {Half(2), Half(4)}), K("enum", {Half(4), Half(6)}), K("const", Half(4)),
             K("default", Half(4)) })
MoreNumberBranches ==
  { AtMost2, K("type", "string"), K("multipleOf", 4) }
    \cup Of("number",
           { Empty, K("exclusiveMinimum", 6), K("maximum", -7), K("const", Half(5)),
             K("default", Half(6)) })
StringBranches ==
  { K("minLength", 2), K("deprecated", TRUE) }
    \cup Of("string",
           { K("minLength", 1), K("minLength", 2), K("maxLength", 1),
             And(K("maxLength", 2), K("deprecated", TRUE)), K("deprecated", FALSE),
             K("pattern", "p"), K("pattern", "q") }
             \cup { K("format", f) : f \in {"uri", "hostname", "uuid", "uri-reference", "email"} })
ArrayBranches ==
  { K("minItems", 2) }
    \cup Of("array",
           { K("minItems", 1), K("maxItems", 1), K("uniqueItems", TRUE), K("uniqueItems", FALSE),
             K("items", AtLeast2), K("items", AtMost2), K("items", K("$ref", "R")),
             K("contains", AtLeast2), K("contains", AtMost2),
             And(K("contains", AtLeast2), And(K("minContains", 0), K("maxContains", 1))),
             And(K("contains", AtLeast2), K("minContains", 2)), K("maxContains", 1) })
Union == K("oneOf", { AtMost2, And(Integer, K("minimum", 3)) })
P(name, schema) == K("properties", K(name, schema))
ObjectBranches ==
  Of("object",
     { K("required", {"a"}), K("required", {"b"}),
       P("a", AtMost2), P("a", K("$ref", "R")), P("a", Union),
       P("a", And(K("$ref", "R"), K("maximum", 3))), P("a", And(Integer, K("minimum", 3))),
       K("properties", And(K("a", Integer), K("b", Integer))),
       And(P("b", AtMost2), K("additionalProperties", Closed)),
       K("additionalProperties", AtLeast2),
       K("dependentRequired", K("a", {"b"})), K("dependentRequired", K("b", {"a"})),
       K("minProperties", 2), K("maxProperties", 1) })
MoreObjectBranches ==
  { K("minProperties", 1) }
    \cup Of("object",
           { P("a", AtLeast2), P("a", Empty), P("b", Integer),
             K("additionalProperties", Open), K("additionalProperties", AtMost2) })

Lists(set, more) ==
  { << a, b >> : a, b \in set \cup more } \cup { << a, b, c >> : a, b, c \in set }
MCBranchLists ==
  Lists(NumberBranches, MoreNumberBranches) \cup Lists(StringBranches, {})
    \cup Lists(ArrayBranches, {}) \cup Lists(ObjectBranches, MoreObjectBranches)

MCTarget == [ name \in {"R"} |-> AtLeast2 ]
MCContained ==
  { << "uri", "uri-reference" >>, << "hostname", "uri-reference" >>, << "uuid", "hostname" >>,
    << "uuid", "uri-reference" >> }

Upward == { set \in SUBSET {"uri", "hostname", "uuid", "uri-reference", "email"} :
              \A pair \in MCContained : pair[1] \in set => pair[2] \in set }
MCValues ==
  { Half(n) : n \in -26 .. 26 }
    \cup { [ kind |-> "string", length |-> n, formats |-> f, patterns |-> p ] :
             n \in 0 .. 2, f \in Upward, p \in SUBSET {"p", "q"} }
    \cup { [ kind |-> "array", elements |-> e ] :
             e \in UNION { [ 1 .. n -> 1 .. 3 ] : n \in 0 .. 3 } }
    \cup { [ kind |-> "object", members |-> m ] :
             m \in UNION { [ names -> 1 .. 4 ] : names \in SUBSET {"a", "b"} } }
-----------------------------------------------------------------------------
(* The recursion.  (The LETs keep TLC's coverage report from following it.) *)
MCMergeBelow(a, b) == LET merged == MergePair(a, b) IN merged
MCConjunctsBelow(schema) == LET list == Conjuncts(schema) IN list
MCAcceptsBelow(schema, value, declared) == LET does == Accepts(schema, value, declared) IN does
MCCauseBelow(list) == LET has == HasCause(list) IN has

MCMaxBranches == 3
Authored ==
  UNION { ChildrenOf(schema) \cup { schema[key] : key \in DOMAIN schema \cap {"contains"} } :
            schema \in ArrayBranches \cup ObjectBranches \cup MoreObjectBranches }
MCChildren[n \in 1 .. MCMaxBranches] ==
  IF n = 1 THEN Authored
  ELSE MCChildren[n - 1]
         \cup ({ MergeChild(a, b) : a \in MCChildren[n - 1], b \in Authored } \ {Rejected})
MCSchemas ==
  LET merged == MCChildren[MCMaxBranches]
  IN  merged \cup { MCTarget[name] : name \in DOMAIN MCTarget }
        \cup ({ Flatten(child) : child \in merged } \ {Rejected})
MCNesting[schema \in MCSchemas] ==
  IF Has(schema, "allOf") THEN 1 + Max({ MCNesting[branch] : branch \in Range(schema["allOf"]) })
  ELSE IF Has(schema, "$ref") THEN 1 + MCNesting[MCTarget[schema["$ref"]]] ELSE 0
=============================================================================
