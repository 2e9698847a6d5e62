----------------------------- MODULE AllOfFolding -----------------------------
(***************************************************************************)
(* How the JSON Schema loader of src/src/parser/json_schema.rs removes     *)
(* `allOf`, and `$ref` with siblings, from the models of its input:        *)
(* `normalize_document`, `normalize_schema`, `expand_branches` and         *)
(* `merge_child_schemas`.                                                  *)
(*                                                                         *)
(* The walk goes down one model at a time.  A position that folds others   *)
(* is expanded into the conjuncts that must all hold there; what they say  *)
(* of the same child (a property, an element, a catch-all value) is merged *)
(* and visited in turn.  `walk` is the stack of that recursion.            *)
(*                                                                         *)
(* A node is one authored schema: nodes with the same text are one node.   *)
(* Which constraints a conjunct carries, and whether two of them agree, is *)
(* left out: the walk does not depend on it.                               *)
(***************************************************************************)
EXTENDS Naturals, FiniteSets, SequencesExt

CONSTANTS
  Files,      (* Files, all in one directory.                              *)
  Models,     (* << file, name >> of the models that may be declared.      *)
  Names,      (* Names of children.                                        *)
  Nodes,      (* Authored nodes.                                           *)
  Target,     (* The $ref of each node: [file, name], or None.             *)
  AllOf,      (* The branches of its allOf.                                *)
  Nesting,    (* How deep allOf is nested in its allOf; a text is finite.  *)
  Own,        (* Has it a keyword of its own, beside $ref and allOf?       *)
  Child,      (* Its children: a function from names to nodes.             *)
  Unions,     (* Nodes that are a oneOf.                                   *)
  Bodies,     (* Inputs: the node of each model, or None.                  *)
  Orders,     (* Inputs: the order of the documents and their models.      *)
  Here,       (* The file part of a reference such as "#/$defs/X".         *)
  None,
  MaxNesting,
  MaxDepth,   (* Bound of the recursion.                                   *)
  Horizon     (* Depth at which the reference definitions call it endless. *)

Reference == [file : Files \cup {Here}, name : { model[2] : model \in Models }]

ASSUME ModelsAssumption ==
  /\ Models \subseteq Files \X { model[2] : model \in Models }
  /\ Here \notin Files
  /\ IsFiniteSet(Models)
ASSUME TargetAssumption == Target \in [Nodes -> Reference \cup {None}]
ASSUME NoneAssumption == None \notin Nodes /\ None \notin Models /\ None \notin Reference
ASSUME AllOfAssumption == AllOf \in [Nodes -> SUBSET Nodes]
ASSUME NestingAssumption ==
  /\ MaxNesting \in Nat /\ Nesting \in [Nodes -> 0 .. MaxNesting]
  /\ \A node \in Nodes : \A branch \in AllOf[node] : Nesting[branch] < Nesting[node]
ASSUME OwnAssumption == Own \in [Nodes -> BOOLEAN]
ASSUME ChildAssumption ==
  \A node \in Nodes :
    /\ DOMAIN Child[node] \subseteq Names
    /\ \A name \in DOMAIN Child[node] : Child[node][name] \in Nodes
    /\ Child[node] # << >> => Own[node]
ASSUME BodiesAssumption == Bodies \subseteq [Models -> Nodes \cup {None}]
ASSUME OrdersAssumption ==
  Orders \subseteq Seq(Models) /\ \A order \in Orders : Range(order) = Models
ASSUME BoundsAssumption ==
  /\ MaxDepth \in Nat /\ Horizon \in Nat
  /\ MaxDepth <= Horizon
  /\ (MaxNesting + 1) * Cardinality(Models) <= Horizon + 1

VARIABLES
  body,       (* The authored models: raw_models.                          *)
  queue,      (* Models that are still to be normalized.                   *)
  current,    (* The model under way, or None.                             *)
  walk,       (* Frames of normalize_children, the outermost first.        *)
  fold,       (* The expansion under way, or None.                         *)
  flat,       (* The positions finished: what the loader keeps of a model. *)
  read,       (* References resolved: the file each was written in, and    *)
              (* the file it was resolved from.                            *)
  outcome     (* "running", "accepted", "cycle", "combinator" or           *)
              (* "unresolved".                                             *)

vars == << body, queue, current, walk, fold, flat, read, outcome >>

-----------------------------------------------------------------------------
(* A position is what several conjuncts say of one value: a set of nodes,  *)
(* each with the file it was written in, which the loader does not keep.   *)
Part == [node : Nodes, home : Files]

Keys == Files \X { model[2] : model \in Models }

Declared(model) == model \in Models /\ body[model] # None

(* Faulty variant: the fragment alone is a name everywhere.                *)
ResolveAnywhere(reference, file) == << reference.file, reference.name >>

(* resolve_ref_key.                                                        *)
Resolve(reference, file) ==
  << IF reference.file = Here THEN file ELSE reference.file, reference.name >>

IsBareRef(node) == Target[node] # None /\ AllOf[node] = {} /\ ~ Own[node]

IsSingle(position) == \A part, other \in position : part.node = other.node

(* A position that stays a reference.                                      *)
IsReference(position) ==
  IsSingle(position) /\ \E part \in position : IsBareRef(part.node)

(* Faulty variant: only an allOf is unflattened.                           *)
IsFoldedByAllOf(position) ==
  /\ ~ IsReference(position)
  /\ \E part \in position : AllOf[part.node] # {}

(* normalize_schema folds an allOf and a $ref with siblings; for several   *)
(* nodes merge_child_schemas writes an allOf if one of them is unflattened.*)
IsFolded(position) ==
  /\ ~ IsReference(position)
  /\ \E part \in position :
       \/ AllOf[part.node] # {}
       \/ Target[part.node] # None
       \/ part.node \in Unions /\ ~ IsSingle(position)

ChildNames(parts) == UNION { DOMAIN Child[part.node] : part \in parts }

(* merge_properties, merge_items, merge_additional_properties.             *)
ChildAt(parts, name) ==
  { [node |-> Child[part.node][name], home |-> part.home] :
      part \in { p \in parts : name \in DOMAIN Child[p.node] } }

-----------------------------------------------------------------------------
(* A frame of normalize_children.                                          *)
Frame(path, parts, cycle, by) ==
  [path |-> path, parts |-> parts, cycle |-> cycle, by |-> by,
   todo |-> ChildNames(parts)]

Arrive(model, path, parts) ==
  flat' = flat \cup { [model |-> model, path |-> path, parts |-> parts] }

(* A bare reference is kept.                                               *)
KeepReference(model, position, path, below) ==
  /\ IsReference(position)
  /\ Arrive(model, path, position)
  /\ read' = read \cup
       { [reference |-> Target[part.node], home |-> part.home, file |-> model[1]] :
           part \in position }
  /\ walk' = below
  /\ UNCHANGED fold

(* A node, or a merge of nodes, with nothing to fold.                      *)
EnterPlain(model, position, cycle, path, below) ==
  /\ ~ IsReference(position) /\ ~ IsFolded(position)
  /\ Arrive(model, path, position)
  /\ walk' = Append(below, Frame(path, position, cycle, "plain"))
  /\ UNCHANGED << fold, read >>

(* Is it a $ref with siblings, and not an allOf of several nodes?          *)
FollowsReference(position) ==
  IsSingle(position) /\ \E part \in position : Target[part.node] # None

(* Faulty variant: the children do not see what was followed.              *)
FollowedIsForgotten(position, file) == {}

(* Faulty variant, of an earlier normalize_schema: every reference folded  *)
(* here is an ancestor of every child.                                     *)
FollowedIsEveryFold(position, file) ==
  LET nodes == UNION { {part.node} \cup AllOf[part.node] : part \in position }
  IN  { Resolve(Target[node], file) : node \in { n \in nodes : Target[n] # None } }

(* What normalize_schema keeps on the cycle stack for the children.        *)
Followed(position, file) ==
  IF FollowsReference(position)
  THEN { Resolve(Target[part.node], file) : part \in position }
  ELSE {}

BeginFold(model, position, cycle, path, below) ==
  /\ IsFolded(position)
  /\ fold' = [ path |-> path,
               pending |->
                 { [ node |-> part.node, file |-> model[1], trail |-> cycle,
                     homes |-> { p.home : p \in { q \in position : q.node = part.node } } ] :
                   part \in position },
               parts |-> {},
               cycle |-> cycle \cup Followed(position, model[1]),
               by |-> IF FollowsReference(position) THEN "implicit" ELSE "explicit" ]
  /\ walk' = below
  /\ UNCHANGED << flat, read >>

(* normalize_schema.                                                       *)
Visit(model, position, cycle, path, below) ==
  \/ KeepReference(model, position, path, below)
  \/ EnterPlain(model, position, cycle, path, below)
  \/ BeginFold(model, position, cycle, path, below)

(* The next declared model of normalize_document, its own first ancestor.  *)
StartModel ==
  /\ outcome = "running" /\ current = None /\ queue # << >>
  /\ queue' = Tail(queue)
  /\ IF Declared(Head(queue))
     THEN /\ current' = Head(queue)
          /\ Visit(Head(queue), {[node |-> body[Head(queue)], home |-> Head(queue)[1]]},
                   {Head(queue)}, << >>, << >>)
     ELSE UNCHANGED << current, walk, fold, flat, read >>
  /\ UNCHANGED << body, outcome >>

(* Faulty variant: a child is not crossed off.                             *)
VisitChildAgain ==
  /\ outcome = "running" /\ fold = None /\ walk # << >>
  /\ Len(walk) < MaxDepth
  /\ LET top == walk[Len(walk)]
     IN  \E name \in top.todo :
           Visit(current, ChildAt(top.parts, name), top.cycle, Append(top.path, name), walk)
  /\ UNCHANGED << body, queue, current, outcome >>

(* A child of the innermost frame, in any order.                           *)
VisitChild ==
  /\ outcome = "running" /\ fold = None /\ walk # << >>
  /\ Len(walk) < MaxDepth
  /\ LET top == walk[Len(walk)]
     IN  \E name \in top.todo :
           Visit(current, ChildAt(top.parts, name), top.cycle, Append(top.path, name),
                 [walk EXCEPT ![Len(walk)].todo = @ \ {name}])
  /\ UNCHANGED << body, queue, current, outcome >>

LeaveFrame ==
  /\ outcome = "running" /\ fold = None /\ walk # << >>
  /\ walk[Len(walk)].todo = {}
  /\ walk' = SubSeq(walk, 1, Len(walk) - 1)
  /\ UNCHANGED << body, queue, current, fold, flat, read, outcome >>

FinishModel ==
  /\ outcome = "running" /\ fold = None /\ walk = << >> /\ current # None
  /\ current' = None
  /\ UNCHANGED << body, queue, walk, fold, flat, read, outcome >>

-----------------------------------------------------------------------------
(* expand_branches.                                                        *)

Decide(cause) ==
  /\ outcome' = cause
  /\ UNCHANGED << body, queue, current, walk, fold, flat >>

TargetOf(item) == Resolve(Target[item.node], item.file)

(* The references an item reads: the same one for each place of the text.  *)
ReadOf(item) ==
  { [reference |-> Target[item.node], home |-> home, file |-> item.file] :
      home \in IF Target[item.node] = None THEN {} ELSE item.homes }

(* reject_combinator_branch.                                               *)
RejectCombinator ==
  /\ outcome = "running" /\ fold # None
  /\ \E item \in fold.pending : item.node \in Unions
  /\ Decide("combinator")
  /\ UNCHANGED read

RejectCycle ==
  /\ outcome = "running" /\ fold # None
  /\ \E item \in fold.pending :
       /\ Target[item.node] # None /\ item.node \notin Unions
       /\ TargetOf(item) \in item.trail
       /\ read' = read \cup ReadOf(item)
  /\ Decide("cycle")

RejectUnresolved ==
  /\ outcome = "running" /\ fold # None
  /\ \E item \in fold.pending :
       /\ Target[item.node] # None /\ item.node \notin Unions
       /\ TargetOf(item) \notin item.trail /\ ~ Declared(TargetOf(item))
       /\ read' = read \cup ReadOf(item)
  /\ Decide("unresolved")

(* Faulty variant: the branches of a folded model are left out.                      *)
ExpansionOfTargets(item) ==
  { [node |-> body[target], file |-> target[1], homes |-> {target[1]},
     trail |-> item.trail \cup {target}] :
      target \in IF Target[item.node] = None THEN {} ELSE {TargetOf(item)} }

(* What an expanded item leaves to be expanded: its target, with the       *)
(* target's file, and the branches of its allOf.                           *)
Expansion(item) ==
  { [node |-> body[target], file |-> target[1], homes |-> {target[1]},
     trail |-> item.trail \cup {target}] :
      target \in IF Target[item.node] = None THEN {} ELSE {TargetOf(item)} }
  \cup
  { [item EXCEPT !.node = branch] : branch \in AllOf[item.node] }

(* One conjunct, in any order: its $ref, its allOf, its own keywords.      *)
ExpandBranch ==
  /\ outcome = "running" /\ fold # None
  /\ \E item \in fold.pending :
       /\ item.node \notin Unions
       /\ Target[item.node] # None =>
            TargetOf(item) \notin item.trail /\ Declared(TargetOf(item))
       /\ fold' = [fold EXCEPT
            !.pending = (@ \ {item}) \cup Expansion(item),
            !.parts = @ \cup { [node |-> item.node, home |-> home] :
                                 home \in IF Own[item.node] THEN item.homes ELSE {} }]
       /\ read' = read \cup ReadOf(item)
  /\ UNCHANGED << body, queue, current, walk, flat, outcome >>

(* merge_branch_list; the merged node's children come next.                *)
FinishFold ==
  /\ outcome = "running" /\ fold # None
  /\ fold.pending = {}
  /\ Arrive(current, fold.path, fold.parts)
  /\ walk' = Append(walk, Frame(fold.path, fold.parts, fold.cycle, fold.by))
  /\ fold' = None
  /\ UNCHANGED << body, queue, current, read, outcome >>

-----------------------------------------------------------------------------
(* validate_model_refs: every reference that is left must name a model.    *)
Dangling ==
  { entry \in flat :
      /\ IsReference(entry.parts)
      /\ \E part \in entry.parts :
           ~ Declared(Resolve(Target[part.node], entry.model[1])) }

ValidateModelRefs ==
  /\ outcome = "running" /\ current = None /\ queue = << >>
  /\ Decide(IF Dangling = {} THEN "accepted" ELSE "unresolved")
  /\ UNCHANGED read

Init ==
  /\ body \in Bodies
  /\ queue \in Orders
  /\ current = None
  /\ walk = << >>
  /\ fold = None
  /\ flat = {}
  /\ read = {}
  /\ outcome = "running"

Next ==
  \/ StartModel \/ VisitChild \/ LeaveFrame \/ FinishModel
  \/ RejectCombinator \/ RejectCycle \/ RejectUnresolved \/ ExpandBranch \/ FinishFold
  \/ ValidateModelRefs

Spec == Init /\ [][Next]_vars /\ WF_vars(Next)

-----------------------------------------------------------------------------
(* Reference: what the authored models say.  A reference means the model   *)
(* it names in the file it is written in.                                  *)

FoldedBy(part) ==
  { [node |-> body[target], home |-> target[1]] :
      target \in { m \in Models : /\ Target[part.node] # None
                                  /\ m = Resolve(Target[part.node], part.home)
                                  /\ Declared(m) } }
  \cup { [node |-> branch, home |-> part.home] : branch \in AllOf[part.node] }

(* What is folded into a position, by the length of the way to it.         *)
FoldWaves(position) ==
  LET wave[i \in 0 .. Horizon] ==
        IF i = 0 THEN position ELSE UNION { FoldedBy(part) : part \in wave[i - 1] }
  IN  wave

FoldedParts(position) == UNION { FoldWaves(position)[i] : i \in 0 .. Horizon }

(* The conjuncts of a position.                                            *)
Conjuncts(position) ==
  IF IsFolded(position) THEN { part \in FoldedParts(position) : Own[part.node] }
  ELSE position

(* The positions right below one.                                          *)
PlacesBelow(place) ==
  IF IsReference(place.position) THEN {}
  ELSE LET parts == Conjuncts(place.position)
       IN  { [path |-> Append(place.path, name), position |-> ChildAt(parts, name)] :
               name \in ChildNames(parts) }

(* The positions of a model, by the length of their paths.                 *)
PositionWaves(model) ==
  LET wave[i \in 0 .. Horizon] ==
        IF i = 0
        THEN {[path |-> << >>, position |-> {[node |-> body[model], home |-> model[1]]}]}
        ELSE UNION { PlacesBelow(place) : place \in wave[i - 1] }
  IN  wave

Places(model) == UNION { PositionWaves(model)[i] : i \in 0 .. Horizon }

(* A position that folds itself has no finite list of conjuncts, and a     *)
(* model whose merged children have merged children without end is no      *)
(* finite schema.                                                          *)
Unflattenable(model) ==
  \/ PositionWaves(model)[Horizon] # {}
  \/ \E place \in Places(model) :
       ~ IsReference(place.position) /\ FoldWaves(place.position)[Horizon] # {}

DeclaredModels == { model \in Models : Declared(model) }

MeetsUnion(model) ==
  \E place \in Places(model) :
    IsFolded(place.position) /\ \E part \in FoldedParts(place.position) : part.node \in Unions

MeetsDangling(model) ==
  \E place \in Places(model) : \E part \in FoldedParts(place.position) :
    Target[part.node] # None /\ ~ Declared(Resolve(Target[part.node], part.home))

(* Every reference was resolved from the file it is written in.            *)
ReadAtHome ==
  \A r \in read : Resolve(r.reference, r.file) = Resolve(r.reference, r.home)

TargetsOf(parts) ==
  { Resolve(Target[part.node], part.home) : part \in { p \in parts : Target[p.node] # None } }

(* The models that are folded into a position.                             *)
FoldedModels(position) ==
  IF IsReference(position) THEN {} ELSE TargetsOf(FoldedParts(position))

(* Some place folds the model it is in, or itself, or what a $ref with     *)
(* siblings above it folds.                                                *)
FoldsAgain(model) ==
  \E place \in Places(model) :
    /\ ~ IsReference(place.position)
    /\ \/ model \in FoldedModels(place.position)
       \/ FoldWaves(place.position)[Horizon] # {}
       \/ \E above \in Places(model) :
            /\ IsStrictPrefix(above.path, place.path)
            /\ FollowsReference(above.position)
            /\ TargetsOf(above.position) \cap FoldedModels(place.position) # {}

-----------------------------------------------------------------------------
Frames ==
  [path : Seq(Names), parts : SUBSET Part, cycle : SUBSET Keys,
   by : {"plain", "implicit", "explicit"}, todo : SUBSET Names]

Items == [node : Nodes, file : Files, homes : SUBSET Files, trail : SUBSET Keys]

Folds ==
  [path : Seq(Names), pending : SUBSET Items, parts : SUBSET Part,
   cycle : SUBSET Keys, by : {"implicit", "explicit"}]

ASSUME NoFoldAssumption == None \notin Folds

TypeOK ==
  /\ body \in [Models -> Nodes \cup {None}]
  /\ queue \in Seq(Models)
  /\ current \in Models \cup {None}
  /\ walk \in Seq(Frames)
  /\ fold \in Folds \cup {None}
  /\ flat \subseteq [model : Models, path : Seq(Names), parts : SUBSET Part]
  /\ read \subseteq [reference : Reference, home : Files, file : Files]
  /\ outcome \in {"running", "accepted", "cycle", "combinator", "unresolved"}

(* An accepted model is the conjunction of what it folds: at every place,  *)
(* at any depth, it has the conjuncts the authored text has there, from    *)
(* every branch, target and sibling, and no others; and what is left as a  *)
(* reference is a lone reference in the text.                              *)
FlattenedExactly ==
  outcome = "accepted" /\ ReadAtHome =>
    flat = UNION { { [model |-> model, path |-> place.path,
                      parts |-> Conjuncts(place.position)] : place \in Places(model) } :
                   model \in DeclaredModels }

(* A load is rejected only for what is wrong with some model of the input, *)
(* whatever the order of the documents, the models and the branches.       *)
RejectedForCause ==
  ReadAtHome =>
    /\ outcome = "cycle" => \E model \in DeclaredModels : FoldsAgain(model)
    /\ outcome = "combinator" => \E model \in DeclaredModels : MeetsUnion(model)
    /\ outcome = "unresolved" => \E model \in DeclaredModels : MeetsDangling(model)

(* A $ref with siblings keeps its target on the stack for what is below:   *)
(* below one another there are fewer of them than there are models, so     *)
(* they alone cannot recurse without bound.                                *)
ImplicitFoldsAreBounded ==
  walk # << >> =>
    Cardinality({ i \in DOMAIN walk : walk[i].by = "implicit" }) < Cardinality(Models)

(* Every input whose models are finite is decided, if its references were  *)
(* read in the files they are written in.                                  *)
FiniteInputsAreDecided ==
  <>( \/ outcome # "running"
      \/ Len(walk) = MaxDepth /\ (Unflattenable(current) \/ ~ ReadAtHome) )

(* "Exhausting the stack, or recursing without bound, is never an          *)
(* acceptable outcome": the recursion is not in the state it was in.       *)
NeverRecursesWithoutBound ==
  \A i, j \in DOMAIN walk :
    i < j => ~ (walk[i].parts = walk[j].parts /\ walk[i].cycle = walk[j].cycle)

(* "A relative path resolves against the referring file's directory", and  *)
(* "#" names the referring file's root.                                    *)
ReferencesKeepTheirMeaning == ReadAtHome

(* "What is rejected is a back-edge that is itself a merged node": if no   *)
(* model is without a finite flattening, none is rejected for a cycle.     *)
OnlyCyclesAreRejected ==
  outcome = "cycle" => \E model \in DeclaredModels : Unflattenable(model)
=============================================================================
