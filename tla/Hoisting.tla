------------------------------ MODULE Hoisting ------------------------------
(***************************************************************************)
(* How the JSON Schema loader names the shapes that are written inline:    *)
(* hoist_inline_object_shapes of src/src/parser/json_schema.rs moves every *)
(* object, and every sum type in an element position, into a definition    *)
(* named after the position it was written in and leaves a reference       *)
(* behind, pass after pass until a pass finds none.  Then the models are   *)
(* collected, their references and unions validated, and the type names    *)
(* of the emitted code checked for coincidences (build_name_manifest).     *)
(*                                                                         *)
(* One document.  A schema is a function from its positions, which are     *)
(* sequences of steps like << "properties", "a" >>, to the keywords it has *)
(* there that are not schemas.  `x-name` is the x-<lang>-name of the       *)
(* target being generated; `additionalProperties` is there when it is      *)
(* true, and a step when it is a schema.  A type name is the sequence of   *)
(* its words, so that names run into one another as in UpperCamelCase.     *)
(***************************************************************************)
EXTENDS Naturals, SequencesExt

CONSTANTS
  Documents,     (* Inputs: functions from the ids of models to schemas.   *)
  Words,         (* The words of the name of a member.                     *)
  Recased        (* The type names of the keys that are not their own.     *)

VARIABLES
  authored,      (* The document as it was written.                        *)
  models,        (* As it is now: the definitions grow.                    *)
  unwalked,      (* Models this pass has yet to walk.                      *)
  hoisted,       (* Shapes taken out in this pass and not yet inserted.    *)
  outcome        (* walking, inserting, hoisted, collected, valid,         *)
                 (* accepted or rejected.                                  *)

vars == << authored, models, unwalked, hoisted, outcome >>

(* Models: << "def", key >>, << "nested", outer key, key >> for a          *)
(* definition inside a definition, << "root", name >>,                     *)
(* << "operation", name >> for an inline input or output.                  *)
Def(key) == << "def", key >>
Camel(key) == IF key \in DOMAIN Recased THEN Recased[key] ELSE key
ModelName(id) == Camel(Last(id))
RootNames(document) == { id[2] : id \in { i \in DOMAIN document : i[1] = "root" } }

Step == { "properties", "items", "additionalProperties", "oneOf" } \X STRING
Prefix(path, n) == SubSeq(path, 1, n)
IsMember(path) == path # << >> /\ Last(path)[1] = "properties"
IsElement(path) == path # << >> /\ Last(path)[1] \in {"items", "additionalProperties"}
IsBranch(path) == path # << >> /\ Last(path)[1] = "oneOf"

Has(node, key) == key \in DOMAIN node
Without(node, keys) == [ key \in DOMAIN node \ keys |-> node[key] ]
IsOfType(schema, path, type) == Has(schema[path], "type") /\ schema[path]["type"] = type
IsInlineObject(schema, path) == IsOfType(schema, path, "object")
IsFreeForm(schema, path) ==
  /\ Has(schema[path], "additionalProperties")
  /\ ~ \E member \in DOMAIN schema : IsMember(member) /\ Front(member) = path
Branches(schema, path) == { branch \in DOMAIN schema : IsBranch(branch) /\ Front(branch) = path }

(* A union of two or more non-null branches; one that has a single one     *)
(* only makes it nullable.                                                 *)
IsSumType(schema, path) ==
  \E a, b \in Branches(schema, path) :
    a # b /\ ~ IsOfType(schema, a, "null") /\ ~ IsOfType(schema, b, "null")

(* A shape that cannot be named.                                           *)
Unnamed == << >>

-----------------------------------------------------------------------------
(* What one pass takes out of a model.  A node has one kind of children:   *)
(* an object has no branches, and a union no items.                        *)

(* Is it a union whose branches are walked by hoist_union_object_branches? *)
WalksBranches(schema, path) == path = << >> \/ (IsMember(path) /\ IsSumType(schema, path))

(* hoist_property_shape, hoist_subschema_shape, and the branches of unions *)
(* and nullability wrappers: does the walk take out what it finds there?   *)
IsHoisted(schema, path) ==
  \/ IsMember(path) /\ IsInlineObject(schema, path)
  \/ IsElement(path) /\ (IsInlineObject(schema, path) \/ IsSumType(schema, path))
  \/ /\ IsBranch(path) /\ IsInlineObject(schema, path)
     /\ WalksBranches(schema, Front(path)) => ~ IsFreeForm(schema, path)

(* Does the walk go on to it from the position it is in?  All positions of *)
(* a model itself, the elements of the others, and their branches; but of  *)
(* a nullability wrapper only the object it has.                           *)
IsWalked(schema, path) ==
  LET from == Front(path)
  IN  \/ from = << >>
      \/ IsElement(path) /\ (IsBranch(from) => WalksBranches(schema, Front(from)))
      \/ /\ IsBranch(path) /\ ~ IsBranch(from)
         /\ WalksBranches(schema, from) \/ IsInlineObject(schema, path)

(* hoist_model_inline_shapes.  The walk does not go down into what it      *)
(* takes out.                                                              *)
Places(schema) ==
  { path \in DOMAIN schema :
      /\ path # << >> /\ IsHoisted(schema, path)
      /\ \A n \in DOMAIN path :
           /\ IsWalked(schema, Prefix(path, n))
           /\ n < Len(path) => ~ IsHoisted(schema, Prefix(path, n)) }

(* Faulty variant: a nullability wrapper is named like a union.            *)
SuffixOfUnion(schema, path) ==
  CASE IsMember(path) -> Words[Last(path)[2]]
    [] IsElement(path) -> IF Last(path)[1] = "items" THEN << "Item" >> ELSE << "Value" >>
    [] OTHER -> IF IsHoisted(schema, path) THEN << "Object" >> ELSE << "Array" >>

(* What is added to the name on the way down; a nullability wrapper adds   *)
(* nothing to the name of what is in it.                                   *)
Suffix(schema, path) ==
  CASE IsMember(path) -> Words[Last(path)[2]]
    [] IsElement(path) -> IF Last(path)[1] = "items" THEN << "Item" >> ELSE << "Value" >>
    [] IsBranch(path) /\ WalksBranches(schema, Front(path)) ->
         IF IsHoisted(schema, path) THEN << "Object" >> ELSE << "Array" >>
    [] OTHER -> << >>
Derived(schema, path, model) ==
  LET name[n \in 0 .. Len(path)] ==
        IF n = 0 THEN model ELSE name[n - 1] \o Suffix(schema, Prefix(path, n))
  IN  name[Len(path)]

(* resolve_shape_name.  On a member x-name names the member; and of the    *)
(* object branches of one union several must name themselves.              *)
ShapeName(schema, path, model) ==
  CASE ~ IsMember(path) /\ Has(schema[path], "x-name") -> schema[path]["x-name"]
    [] /\ IsBranch(path) /\ ~ Has(schema[path], "x-name")
       /\ WalksBranches(schema, Front(path))
       /\ \E other \in Branches(schema, Front(path)) \ {path} : IsHoisted(schema, other) -> Unnamed
    [] OTHER -> Derived(schema, path, model)

StaysBehind(path) == IF IsMember(path) THEN {"x-name"} ELSE {}

(* Faulty variant: the shape is taken out and left in its place as well.   *)
LeftBehindAsWell(schema, path, name) == schema[path]

(* The reference that is left behind, and the shape that is taken out.     *)
LeftBehind(schema, path, name) ==
  [ key \in (DOMAIN schema[path] \cap StaysBehind(path)) \cup {"$ref"} |->
      IF key = "$ref" THEN name ELSE schema[path][key] ]
Below(schema, path) ==
  [ rest \in { SubSeq(p, Len(path) + 1, Len(p)) : p \in { q \in DOMAIN schema : IsPrefix(path, q) } } |->
      schema[path \o rest] ]
TakenOut(schema, path) ==
  LET shape == Below(schema, path)
  IN  [ p \in DOMAIN shape |->
          IF p = << >> THEN Without(shape[p], StaysBehind(path)) ELSE shape[p] ]

IsBelow(path, places) == \E place \in places : place # path /\ IsPrefix(place, path)
Walked(schema, model) ==
  LET places == Places(schema)
  IN  [ path \in { p \in DOMAIN schema : ~ IsBelow(p, places) } |->
          IF path \in places THEN LeftBehind(schema, path, ShapeName(schema, path, model))
          ELSE schema[path] ]

-----------------------------------------------------------------------------
Init ==
  /\ authored \in Documents
  /\ models = authored
  /\ unwalked = DOMAIN authored
  /\ hoisted = {}
  /\ outcome = "walking"

(* One model of the pass; the order is that of the text, which is any.     *)
WalkModel(id) ==
  LET places == Places(models[id])
      Name(path) == ShapeName(models[id], path, ModelName(id))
  IN  /\ outcome = "walking"
      /\ \A path \in places : Name(path) # Unnamed
      /\ models' = [ models EXCEPT ![id] = Walked(models[id], ModelName(id)) ]
      /\ hoisted' = hoisted \cup
                      { [ name |-> Name(path), origin |-> << id, path >>,
                          schema |-> TakenOut(models[id], path) ] : path \in places }
      /\ unwalked' = unwalked \ {id}
      /\ UNCHANGED << authored, outcome >>

RejectUnnamed(id) ==
  /\ outcome = "walking"
  /\ \E path \in Places(models[id]) : ShapeName(models[id], path, ModelName(id)) = Unnamed
  /\ outcome' = "rejected"
  /\ UNCHANGED << authored, models, unwalked, hoisted >>

(* Faulty variant: a pass that found nothing is followed by another one.   *)
EndPassAnyway ==
  /\ outcome = "walking" /\ unwalked = {}
  /\ outcome' = "inserting"
  /\ UNCHANGED << authored, models, unwalked, hoisted >>

EndPass ==
  /\ outcome = "walking" /\ unwalked = {}
  /\ outcome' = IF hoisted = {} THEN "hoisted" ELSE "inserting"
  /\ UNCHANGED << authored, models, unwalked, hoisted >>

Clashes(name) == name \in RootNames(models) \/ Def(name) \in DOMAIN models

(* Faulty variant: the queue is not emptied.                               *)
InsertAndKeep(shape) ==
  /\ outcome = "inserting"
  /\ ~ Clashes(shape.name)
  /\ models' = [ id \in DOMAIN models \cup {Def(shape.name)} |->
                   IF id = Def(shape.name) THEN shape.schema ELSE models[id] ]
  /\ UNCHANGED << authored, unwalked, hoisted, outcome >>

InsertShape(shape) ==
  /\ outcome = "inserting"
  /\ ~ Clashes(shape.name)
  /\ models' = [ id \in DOMAIN models \cup {Def(shape.name)} |->
                   IF id = Def(shape.name) THEN shape.schema ELSE models[id] ]
  /\ hoisted' = hoisted \ {shape}
  /\ UNCHANGED << authored, unwalked, outcome >>

RejectClash(shape) ==
  /\ outcome = "inserting"
  /\ Clashes(shape.name)
  /\ outcome' = "rejected"
  /\ UNCHANGED << authored, models, unwalked, hoisted >>

NextPass ==
  /\ outcome = "inserting" /\ hoisted = {}
  /\ unwalked' = DOMAIN models
  /\ outcome' = "walking"
  /\ UNCHANGED << authored, models, hoisted >>

Judge(before, fine, after) ==
  /\ outcome = before
  /\ outcome' = IF fine THEN after ELSE "rejected"
  /\ UNCHANGED << authored, models, unwalked, hoisted >>

(* The root and the definitions share one namespace.                       *)
CollectModels ==
  Judge("hoisted", \A name \in RootNames(models) : Def(name) \notin DOMAIN models, "collected")

References(document) ==
  UNION { { document[id][path]["$ref"] :
              path \in { p \in DOMAIN document[id] : Has(document[id][p], "$ref") } }
            : id \in DOMAIN document }

(* validate_model_refs and validate_all_unions.                            *)
ValidateModels ==
  Judge("collected",
        /\ \A name \in References(models) : Def(name) \in DOMAIN models
        /\ \A id \in DOMAIN models : \A path \in DOMAIN models[id] :
             IsBranch(path) /\ IsInlineObject(models[id], path) => IsFreeForm(models[id], path),
        "valid")

(* type_identifier, and the coincidences of types in build_name_manifest.  *)
Identifier(document, id) ==
  LET root == document[id][<< >>]
  IN  IF Has(root, "x-name") THEN root["x-name"] ELSE ModelName(id)
BuildNames ==
  Judge("valid",
        \A one, other \in DOMAIN models :
          one # other => Identifier(models, one) # Identifier(models, other),
        "accepted")

Next ==
  \/ \E id \in unwalked : WalkModel(id) \/ RejectUnnamed(id)
  \/ EndPass
  \/ \E shape \in hoisted : InsertShape(shape) \/ RejectClash(shape)
  \/ NextPass
  \/ CollectModels
  \/ ValidateModels
  \/ BuildNames

Spec == Init /\ [][Next]_vars /\ WF_vars(Next)

-----------------------------------------------------------------------------
(* What the text says: the shapes that need a name, at every depth, each   *)
(* with the name its position has ("Naming an inline object shape" in      *)
(* properties.md, "Unions in element positions" in oneOf.md).              *)

IsNullable(schema, path) ==
  path # << >> /\ Branches(schema, path) # {} /\ ~ IsSumType(schema, path)

NeedsName(schema, path) ==
  \/ /\ path # << >> /\ IsInlineObject(schema, path)
     /\ IsBranch(path) /\ ~ IsNullable(schema, Front(path)) => ~ IsFreeForm(schema, path)
  \/ IsElement(path) /\ IsSumType(schema, path)
Shapes(schema) == { path \in DOMAIN schema : NeedsName(schema, path) }

(* Does it have a name that its position has no part in?                   *)
NamesItself(schema, path) ==
  NeedsName(schema, path) /\ ~ IsMember(path) /\ Has(schema[path], "x-name")
IsAmbiguous(schema, path) ==
  /\ NeedsName(schema, path) /\ IsBranch(path) /\ ~ Has(schema[path], "x-name")
  /\ ~ IsNullable(schema, Front(path))
  /\ \E other \in Branches(schema, Front(path)) : other # path /\ NeedsName(schema, other)

Word(schema, path) ==
  CASE IsMember(path) -> Words[Last(path)[2]]
    [] IsElement(path) /\ Last(path)[1] = "items" -> << "Item" >>
    [] IsElement(path) /\ Last(path)[1] # "items" -> << "Value" >>
    [] IsBranch(path) /\ IsNullable(schema, Front(path)) -> << >>
    [] OTHER -> IF NeedsName(schema, path) THEN << "Object" >> ELSE << "Array" >>

(* The name of what encloses it, spelled as a type's, and its own word.    *)
NameOf(schema, path, model) ==
  LET name[n \in 0 .. Len(path)] ==
        IF n = 0 THEN model
        ELSE LET here == Prefix(path, n)
                 outside == Prefix(path, n - 1)
             IN  IF NamesItself(schema, here) THEN schema[here]["x-name"]
                 ELSE IF IsAmbiguous(schema, here) THEN Unnamed
                 ELSE (IF NeedsName(schema, outside) THEN Camel(name[n - 1]) ELSE name[n - 1])
                        \o Word(schema, here)
  IN  name[Len(path)]

(* A shape of a document is the model it is written in and its position.   *)
AllShapes(document) ==
  UNION { { << id, path >> : path \in Shapes(document[id]) } : id \in DOMAIN document }
TextName(document, shape) == NameOf(document[shape[1]], shape[2], ModelName(shape[1]))

(* What the text has from there to the shapes in it, with references in    *)
(* their places.                                                           *)
Part(document, shape) ==
  LET schema == document[shape[1]]
      home == shape[2]
      inner == { path \in Shapes(schema) : path # home /\ IsPrefix(home, path) }
      own == { path \in DOMAIN schema : IsPrefix(home, path) /\ ~ IsBelow(path, inner) }
  IN  [ rest \in { SubSeq(path, Len(home) + 1, Len(path)) : path \in own } |->
          LET path == home \o rest
          IN  IF path \in inner
              THEN LeftBehind(schema, path, TextName(document, << shape[1], path >>))
              ELSE IF rest = << >> THEN Without(schema[path], StaysBehind(path)) ELSE schema[path] ]

(* An array in a nullability wrapper below a member or an element is not   *)
(* walked by the code: what its elements have inline stays there.          *)
HidesElements(document) ==
  \E shape \in AllShapes(document) :
    \E n \in DOMAIN shape[2] :
      LET array == Prefix(shape[2], n - 1)
      IN  /\ shape[2][n][1] = "items" /\ IsBranch(array)
          /\ IsNullable(document[shape[1]], Front(array))

(* Why a document has no names: a union does not name its branches, two    *)
(* things that need a name have the same, or a reference leads nowhere.    *)
HasCause(document) ==
  LET shapes == AllShapes(document)
      Name(shape) == TextName(document, shape)
      keys == { id[2] : id \in { i \in DOMAIN document : i[1] \in {"def", "root"} } }
  IN  \/ \E shape \in shapes : Name(shape) = Unnamed
      \/ \E one, other \in shapes : one # other /\ Name(one) = Name(other)
      \/ \E shape \in shapes :
           \/ Name(shape) \in keys
           \/ \E id \in DOMAIN document : Name(shape) = Identifier(document, id)
      \/ \E one, other \in DOMAIN document :
           /\ one # other
           /\ \/ Identifier(document, one) = Identifier(document, other)
              \/ one[1] = "root" /\ other = Def(one[2])
      \/ \E name \in References(document) :
           Def(name) \notin DOMAIN document /\ \A shape \in shapes : Name(shape) # name

-----------------------------------------------------------------------------
(* What the validators of single nodes and unions have made sure of before *)
(* (validate_schema_node, validate_one_of), as far as the walk relies on   *)
(* it: a node is a function of its keywords, and its children are of one   *)
(* kind; unions are not nested directly; and an open object has no schema  *)
(* for its other members.                                                  *)
WellFormed(schema) ==
  /\ << >> \in DOMAIN schema
  /\ \A path \in DOMAIN schema :
       /\ path \in Seq(Step) /\ schema[path] = Without(schema[path], {})
       /\ path # << >> => Front(path) \in DOMAIN schema
       /\ IsMember(path) => IsInlineObject(schema, Front(path))
       /\ IsElement(path) =>
            IF Last(path)[1] = "items" THEN IsOfType(schema, Front(path), "array")
            ELSE /\ IsInlineObject(schema, Front(path))
                 /\ ~ Has(schema[Front(path)], "additionalProperties")
       /\ IsBranch(path) => ~ Has(schema[Front(path)], "type") /\ ~ IsBranch(Front(path))

ASSUME DocumentsAssumption ==
  \A document \in Documents : \A id \in DOMAIN document :
    /\ WellFormed(document[id])
    /\ id[1] = "def" => id = Def(id[2])

(* UpperCamelCase words make UpperCamelCase names; only a key of the text, *)
(* or an x-name, is spelled in another way.                                *)
ASSUME NamesAssumption ==
  \A document \in Documents : \A shape \in AllShapes(document) :
    NamesItself(document[shape[1]], shape[2]) \/ TextName(document, shape) \notin DOMAIN Recased

Synthesized == DOMAIN models \ DOMAIN authored

TypeOK ==
  /\ unwalked \subseteq DOMAIN models
  /\ DOMAIN authored \subseteq DOMAIN models
  /\ \A shape \in hoisted :
       /\ shape.name # Unnamed
       /\ IsInlineObject(shape.schema, << >>) \/ IsSumType(shape.schema, << >>)
       /\ Has(models[shape.origin[1]][shape.origin[2]], "$ref")
  /\ outcome = "inserting" => unwalked = {}
  /\ outcome \in {"walking", "inserting", "hoisted", "collected", "valid", "accepted", "rejected"}

(* When a document is accepted, its definitions are the ones of the text   *)
(* and one for every shape that needs a name, at whatever depth it was     *)
(* written and in whichever pass it was found: under the name of its       *)
(* position, and with what the text has there.                             *)
EveryShapeHasItsPositionsName ==
  outcome = "accepted" /\ ~ HidesElements(authored) =>
    /\ ~ HasCause(authored)
    /\ Synthesized = { Def(TextName(authored, shape)) : shape \in AllShapes(authored) }
    /\ \A id \in DOMAIN authored : models[id] = Part(authored, << id, << >> >>)
    /\ \A shape \in AllShapes(authored) :
         models[Def(TextName(authored, shape))] = Part(authored, shape)

(* A document is rejected for something the text shows, never for a name   *)
(* that an earlier pass gave to the same shape.                            *)
RejectedForCause == outcome = "rejected" => HasCause(authored) \/ HidesElements(authored)

(* The passes come to an end: each one leaves fewer shapes inline.         *)
Terminates == <>(outcome \in {"accepted", "rejected"})

=============================================================================
