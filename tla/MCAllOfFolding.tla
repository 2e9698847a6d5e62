---------------------------- MODULE MCAllOfFolding ----------------------------
(* Small instances of AllOfFolding: two files, a node is its own text.     *)
EXTENDS AllOfFolding

Text(target, allOf, own, child, union) ==
  [target |-> target, allOf |-> allOf, own |-> own, child |-> child, union |-> union]

In(file, name) == [file |-> file, name |-> name]

(* The texts: { type: string }, { $ref }, { $ref, minProperties: 1 },      *)
(* { allOf: [..] }, { properties: { name: .. } } and { oneOf: [..] }.      *)
Leaf == Text(None, {}, TRUE, << >>, FALSE)
Ref(to) == Text(to, {}, FALSE, << >>, FALSE)
RefWith(to) == Text(to, {}, TRUE, << >>, FALSE)
RefWithChild(to, name, node) == Text(to, {}, TRUE, name :> node, FALSE)
All(branches) == Text(None, branches, FALSE, << >>, FALSE)
Object(name, node) == Text(None, {}, TRUE, name :> node, FALSE)
Union(node) == Text(None, {}, TRUE, "p" :> node, TRUE)

X == In(Here, "X")
Y == In(Here, "Y")
BX == In("b", "X")

Refs == { Ref(X), Ref(Y), Ref(BX) }
Folds1 == { RefWith(X), RefWith(Y), All({Ref(X), Leaf}), All({Ref(Y), Leaf}) }
Simple == {Leaf, Ref(X)} \cup Folds1

BodiesOfX ==
  { Leaf, Ref(Y), RefWith(Y), All({Ref(Y), Leaf}), All({Ref(Y), Object("p", Leaf)}),
    Union(Leaf), All({Ref(BX), Object("p", Leaf)}),
    All({Ref(Y), Ref(BX)}), RefWithChild(BX, "p", Ref(BX)), RefWithChild(Y, "q", RefWith(Y)) }
  \cup { Object("p", node) : node \in Simple }
BodiesOfY ==
  { Leaf, RefWith(X), RefWithChild(X, "p", Leaf), All({Ref(X), Object("q", All({Ref(X), Leaf}))}),
    RefWith(BX), Object("p", Ref(BX)) }
  \cup { Object("p", node) : node \in Simple }
BodiesOfBX ==
  { None, Leaf, Ref(X), RefWith(Y), Union(Ref(Y)), RefWithChild(Y, "p", Leaf) }
  \cup { Object("p", node) : node \in {Leaf, Ref(X), RefWith(Y)} }
BodiesOfBY == { None, Object("p", Leaf) }

AX == << "a", "X" >>
AY == << "a", "Y" >>
BXKey == << "b", "X" >>
BYKey == << "b", "Y" >>

MCModels == { AX, AY, BXKey, BYKey }
MCBodies ==
  { AX :> x @@ AY :> y @@ BXKey :> bx @@ BYKey :> by :
      x \in BodiesOfX, y \in BodiesOfY, bx \in BodiesOfBX, by \in BodiesOfBY }
MCOrders == { << AX, AY, BXKey, BYKey >>, << BXKey, BYKey, AY, AX >> }

(* Every node of the inputs: five waves of parts below the bodies.         *)
PartsOf(node) == node.allOf \cup { node.child[name] : name \in DOMAIN node.child }
RECURSIVE NodesBelow(_)
NodesBelow(nodes) ==
  IF nodes = {} THEN {} ELSE nodes \cup NodesBelow(UNION { PartsOf(node) : node \in nodes })
MCNodes == NodesBelow((BodiesOfX \cup BodiesOfY \cup BodiesOfBX \cup BodiesOfBY) \ {None})

MCTarget == [ node \in MCNodes |-> node.target ]
MCAllOf == [ node \in MCNodes |-> node.allOf ]
RECURSIVE NestingOf(_)
NestingOf(node) ==
  IF node.allOf = {} THEN 0 ELSE 1 + Max({ NestingOf(branch) : branch \in node.allOf })
MCNesting == [ node \in MCNodes |-> NestingOf(node) ]
MCOwn == [ node \in MCNodes |-> node.own ]
MCChild == [ node \in MCNodes |-> node.child ]
MCUnions == { node \in MCNodes : node.union }
=============================================================================
