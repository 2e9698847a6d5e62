----------------------------- MODULE MCHoisting -----------------------------
(* Small instances of Hoisting: a definition M with members, and what else *)
(* in the document may bear the name of a shape of M.                      *)
EXTENDS Hoisting

K(key, value) == [ k \in {key} |-> value ]
And(a, b) == [ k \in DOMAIN a \cup DOMAIN b |-> IF k \in DOMAIN b THEN b[k] ELSE a[k] ]

(* A schema of a node and the schemas one step below it.                   *)
Tree(node, children) ==
  LET below == UNION { { << step >> \o path : path \in DOMAIN children[step] } :
                         step \in DOMAIN children }
  IN  [ path \in {<< >>} \cup below |->
          IF path = << >> THEN node ELSE children[path[1]][Tail(path)] ]
Leaf(node) == [ path \in {<< >>} |-> node ]

OfObjects == K("type", "object")
String == Leaf(K("type", "string"))
Null == Leaf(K("type", "null"))
Object == Leaf(OfObjects)
FreeForm == Leaf(And(OfObjects, K("additionalProperties", TRUE)))
Named(schema) == [ schema EXCEPT ![<< >>] = And(@, K("x-name", << "own" >>)) ]
Array(of) == Tree(K("type", "array"), K(<< "items", "" >>, of))
Map(of) == Tree(OfObjects, K(<< "additionalProperties", "" >>, of))
OneOf(a, b) ==
  Tree([ key \in {} |-> key ], And(K(<< "oneOf", "1" >>, a), K(<< "oneOf", "2" >>, b)))
Nullable(schema) == OneOf(schema, Null)
Member(name, schema) == Tree(OfObjects, K(<< "properties", name >>, schema))
Ref(name) == Leaf(K("$ref", name))

Flat == { String, Ref(<< "M" >>), Ref(<< "M", "A" >>), Object, FreeForm, Named(Object) }
Around(schemas) ==
  UNION { { Array(s), Map(s), Nullable(s), OneOf(s, String), OneOf(Array(s), String),
            OneOf(s, Named(Object)), Member("a", s), Named(Member("a", s)) } : s \in schemas }

(* The unions that validate_one_of admits: no union in a union, no branch  *)
(* twice, and a free-form branch, which has no tag, is the only object.    *)
Valid(schema) ==
  /\ WellFormed(schema)
  /\ \A path \in DOMAIN schema : \A a, b \in Branches(schema, path) :
       a # b => /\ Below(schema, a) # Below(schema, b)
                /\ IsFreeForm(schema, a) => ~ IsInlineObject(schema, b)
Plain == { s \in Flat \cup Around(Flat) : Valid(s) }
Deep == Plain \cup { s \in Around(Around(Flat)) : Valid(s) }
Deepest == Deep \cup { s \in Around(Around(Around({Object, Ref(<< "M", "A" >>)}))) : Valid(s) }

Beside ==
  { [ id \in {} |-> String ], K(Def(<< "M", "A" >>), Object), K(Def(<< "mA" >>), Object),
    K(Def(<< "N" >>), Named(Object)), K(<< "nested", << "M" >>, << "M", "A" >> >>, Member("b", Object)),
    K(<< "root", << "M", "A", "Item" >> >>, Object), K(<< "root", << "R" >> >>, Member("a", Object)),
    K(<< "operation", << "M" >> >>, Object), K(<< "operation", << "P" >> >>, Member("a", Object)) }
MCDocuments ==
  { K(Def(<< "M" >>), Member("a", s)) : s \in Deepest }
    \cup { And(K(Def(<< "M" >>), Member("a", s)), beside) : s \in Deep, beside \in Beside }
    \cup { K(Def(<< "M" >>), Tree(OfObjects, And(K(<< "properties", "a" >>, s),
                                                 K(<< "properties", other >>, t)))) :
             s \in Plain, other \in {"a_item", "aObject"}, t \in {Object, Nullable(Object), Array(Object)} }
    \cup { K(Def(<< "M" >>), s) : s \in { t \in Plain : ~ Has(t[<< >>], "$ref") } }

MCWords ==
  [ name \in {"a", "b", "a_item", "aObject"} |->
      CASE name = "a" -> << "A" >> [] name = "b" -> << "B" >>
        [] name = "a_item" -> << "A", "Item" >> [] name = "aObject" -> << "A", "Object" >> ]
MCRecased == [ key \in { << "mA" >>, << "own" >> } |->
                 IF key = << "own" >> THEN << "Own" >> ELSE << "M", "A" >> ]
=============================================================================
