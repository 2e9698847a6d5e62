-------------------------- MODULE AllOfFolding_proofs --------------------------
(***************************************************************************)
(* For any files, models, nodes and inputs, with no bound on the recursion *)
(* but MaxDepth: the walk keeps its types, the folds of $refs with         *)
(* siblings below one another are fewer than the models, an accepted model *)
(* has at every place the conjuncts of the text, and a load is rejected    *)
(* only for what is wrong with some model.                                 *)
(*                                                                         *)
(* The folds of $refs with siblings: the cycle stack of a frame has all    *)
(* that the frames above it have, and the model under way.  An expansion   *)
(* ends only after its first conjunct, and that one's target must not be   *)
(* on the stack: so the frame that an implicit fold pushes has a model on  *)
(* its stack that no frame above it has.  One such model for each such     *)
(* frame gives an injection into the models other than the one under way.  *)
(*                                                                         *)
(* What is kept, and what is rejected: Faithful relates every piece of the *)
(* walk to the text.  Frames, expansions and what is kept are at places of *)
(* their model; an item of an expansion stands for parts folded into its   *)
(* position, at a distance that the models on its trail and the nested     *)
(* allOfs account for, and each model on the trail leads to it; what an    *)
(* expansion has expanded and still has to expand has the position, and    *)
(* with a part all it folds; and each child of a place that is kept is     *)
(* kept too, or is being expanded, or is still to be visited.  The waves   *)
(* of the reference definitions are reasoned about with UpTo, an induction *)
(* over sets of numbers.                                                   *)
(***************************************************************************)
EXTENDS AllOfFolding, FiniteSetTheorems, SequenceTheorems, TLAPS

(* Between two models nothing is under way.                                *)
Idle == current = None => walk = << >> /\ fold = None

IInv == TypeOK /\ Idle

(* The cycle stack below which the next position is visited.               *)
TopOf(frames, model) ==
  IF frames = << >> THEN {model} ELSE frames[Len(frames)].cycle

(* A model on the stack that no frame above has there.                     *)
IsNew(found, frames, i, model) ==
  /\ found \in Models \ {model} /\ found \in frames[i].cycle
  /\ \A h \in 1 .. i - 1 : found \notin frames[h].cycle

StackOf(frames, model) ==
  \A i \in 1 .. Len(frames) :
    /\ model \in frames[i].cycle
    /\ \A h \in 1 .. i : frames[h].cycle \subseteq frames[i].cycle
    /\ frames[i].by = "implicit" => \E found : IsNew(found, frames, i, model)

(* The expansion of an implicit fold has found that its target is not on   *)
(* the stack, or has not come to it yet.                                   *)
ExpansionOf(expansion, top) ==
  /\ top \subseteq expansion.cycle
  /\ expansion.by = "implicit" =>
       \/ \E found \in Models : found \in expansion.cycle /\ found \notin top
       \/ \E item \in expansion.pending :
            /\ Target[item.node] # None
            /\ TargetOf(item) \in expansion.cycle /\ item.trail = top

CycleStack ==
  /\ StackOf(walk, current)
  /\ fold # None => ExpansionOf(fold, TopOf(walk, current))

-----------------------------------------------------------------------------
(* A name of the model under way's file, or of the file it is written in.  *)
LEMMA ResolvedIsKey ==
  ASSUME NEW node \in Nodes, Target[node] # None, NEW file \in Files
  PROVE  Resolve(Target[node], file) \in Keys
<1>1. Target[node] \in Reference
  BY TargetAssumption
<1>2. Target[node].file \in Files \cup {Here} /\ Target[node].name \in { model[2] : model \in Models }
  BY <1>1 DEF Reference
<1>3. QED
  BY <1>2 DEF Resolve, Keys

(* A model is named by its file and its name.                              *)
LEMMA ModelsAreKeys == \A model \in Models : model \in Keys /\ model[1] \in Files
BY ModelsAssumption DEF Keys

(* What the children of a position are.                                    *)
LEMMA ChildTyping ==
  ASSUME NEW parts \in SUBSET Part
  PROVE  /\ ChildNames(parts) \in SUBSET Names
         /\ \A name : ChildAt(parts, name) \in SUBSET Part
<1>1. \A part \in parts : part.node \in Nodes /\ part.home \in Files
  BY DEF Part
<1>2. ChildNames(parts) \in SUBSET Names
  BY <1>1, ChildAssumption DEF ChildNames
<1>3. ASSUME NEW name PROVE ChildAt(parts, name) \in SUBSET Part
  BY <1>1, ChildAssumption DEF ChildAt, Part
<1>4. QED
  BY <1>2, <1>3

(* What is pushed on the walk is a frame.                                  *)
LEMMA FrameTyping ==
  ASSUME NEW path \in Seq(Names), NEW parts \in SUBSET Part, NEW cycle \in SUBSET Keys,
         NEW by \in {"plain", "implicit", "explicit"}
  PROVE  Frame(path, parts, cycle, by) \in Frames
BY ChildTyping DEF Frame, Frames

(* What a $ref with siblings puts on the stack is the name of a model.     *)
LEMMA FollowedTyping ==
  ASSUME NEW position \in SUBSET Part, NEW file \in Files
  PROVE  Followed(position, file) \in SUBSET Keys
<1>1. CASE FollowsReference(position)
  <2>1. PICK part \in position : Target[part.node] # None
    BY <1>1 DEF FollowsReference
  <2>2. \A p \in position : p.node = part.node /\ p.node \in Nodes
    BY <1>1 DEF FollowsReference, IsSingle, Part
  <2>3. \A p \in position : Resolve(Target[p.node], file) \in Keys
    BY <2>1, <2>2, ResolvedIsKey
  <2>4. QED
    BY <1>1, <2>3 DEF Followed
<1>2. CASE ~ FollowsReference(position)
  BY <1>2 DEF Followed
<1>3. QED
  BY <1>1, <1>2

(* An expansion begins as one.                                             *)
LEMMA BeginTyping ==
  ASSUME NEW model \in Models, NEW position \in SUBSET Part, NEW cycle \in SUBSET Keys,
         NEW path \in Seq(Names), NEW below, BeginFold(model, position, cycle, path, below)
  PROVE  fold' \in Folds
<1>0. model[1] \in Files
  BY ModelsAreKeys
<1> DEFINE pending ==
             { [ node |-> part.node, file |-> model[1], trail |-> cycle,
                 homes |-> { p.home : p \in { q \in position : q.node = part.node } } ] :
               part \in position }
<1>1. pending \in SUBSET Items
  <2>1. \A part \in position : part.node \in Nodes /\ part.home \in Files
    BY DEF Part
  <2>2. QED
    BY <1>0, <2>1 DEF Items
<1>2. cycle \cup Followed(position, model[1]) \in SUBSET Keys
  BY <1>0, FollowedTyping
<1>3. fold' \in Folds
  <2> HIDE DEF pending
  <2>1. fold' = [ path |-> path, pending |-> pending, parts |-> {},
                  cycle |-> cycle \cup Followed(position, model[1]),
                  by |-> IF FollowsReference(position) THEN "implicit" ELSE "explicit" ]
    BY DEF BeginFold, pending
  <2>2. (IF FollowsReference(position) THEN "implicit" ELSE "explicit") \in {"implicit", "explicit"}
    OBVIOUS
  <2>3. QED
    BY <1>1, <1>2, <2>1, <2>2 DEF Folds
<1>4. QED
  BY <1>3

(* A visit of a position keeps the types.                                  *)
LEMMA VisitTyping ==
  ASSUME TypeOK, NEW model \in Models, NEW position \in SUBSET Part, NEW cycle \in SUBSET Keys,
         NEW path \in Seq(Names), NEW below \in Seq(Frames),
         Visit(model, position, cycle, path, below)
  PROVE  /\ walk' \in Seq(Frames) /\ fold' \in Folds \cup {None}
         /\ flat' \subseteq [model : Models, path : Seq(Names), parts : SUBSET Part]
         /\ read' \subseteq [reference : Reference, home : Files, file : Files]
<1>0. model[1] \in Files
  BY ModelsAreKeys
<1>1. CASE KeepReference(model, position, path, below)
  <2>1. \A part \in position : part.home \in Files /\ part.node \in Nodes /\ Target[part.node] # None
    BY <1>1 DEF KeepReference, IsReference, IsSingle, IsBareRef, Part
  <2>2. \A part \in position : Target[part.node] \in Reference
    BY <2>1, TargetAssumption
  <2>3. { [reference |-> Target[part.node], home |-> part.home, file |-> model[1]] : part \in position }
           \subseteq [reference : Reference, home : Files, file : Files]
    BY <1>0, <2>1, <2>2
  <2>4. QED
    BY <1>1, <2>3 DEF KeepReference, Arrive, TypeOK
<1>2. CASE EnterPlain(model, position, cycle, path, below)
  <2>1. Frame(path, position, cycle, "plain") \in Frames
    BY FrameTyping
  <2>2. walk' \in Seq(Frames)
    BY <1>2, <2>1 DEF EnterPlain
  <2>3. QED
    BY <1>2, <2>2 DEF EnterPlain, Arrive, TypeOK
<1>3. CASE BeginFold(model, position, cycle, path, below)
  <2>1. fold' \in Folds
    BY <1>3, BeginTyping
  <2>2. QED
    BY <1>3, <2>1 DEF BeginFold, TypeOK
<1>4. QED
  BY <1>1, <1>2, <1>3 DEF Visit

(* The innermost frame with a child crossed off.                           *)
LEMMA CrossedOff ==
  ASSUME TypeOK, walk # << >>, NEW name
  PROVE  LET below == [walk EXCEPT ![Len(walk)].todo = @ \ {name}]
         IN  /\ below \in Seq(Frames) /\ Len(below) = Len(walk) /\ Len(walk) \in Nat \ {0}
             /\ \A i \in 1 .. Len(walk) :
                  /\ below[i].path = walk[i].path /\ below[i].parts = walk[i].parts
                  /\ below[i].cycle = walk[i].cycle /\ below[i].by = walk[i].by
                  /\ below[i].todo = walk[i].todo \ (IF i = Len(walk) THEN {name} ELSE {})
<1> DEFINE n == Len(walk)
           below == [walk EXCEPT ![n].todo = @ \ {name}]
<1>1. walk \in Seq(Frames) /\ n \in Nat \ {0} /\ DOMAIN walk = 1 .. n
  BY DEF TypeOK
<1>2. \A i \in 1 .. n : walk[i] \in Frames
  BY <1>1
<1>3. below = [ i \in 1 .. n |-> IF i = n THEN [walk[n] EXCEPT !.todo = @ \ {name}] ELSE walk[i] ]
  BY <1>1
<1> HIDE DEF below
<1>4. [walk[n] EXCEPT !.todo = @ \ {name}] \in Frames
  <2>1. walk[n] \in Frames
    BY <1>1, <1>2
  <2>2. walk[n].todo \ {name} \in SUBSET Names
    BY <2>1 DEF Frames
  <2>3. QED
    BY <2>1, <2>2 DEF Frames
<1>5. below \in Seq(Frames) /\ Len(below) = n
  BY <1>1, <1>2, <1>3, <1>4
<1>6. ASSUME NEW i \in 1 .. n
      PROVE  /\ below[i].path = walk[i].path /\ below[i].parts = walk[i].parts
             /\ below[i].cycle = walk[i].cycle /\ below[i].by = walk[i].by
             /\ below[i].todo = walk[i].todo \ (IF i = n THEN {name} ELSE {})
  <2>1. CASE i = n
    <3>1. below[i] = [walk[n] EXCEPT !.todo = @ \ {name}] /\ walk[n] \in Frames
      BY <1>2, <1>3, <2>1
    <3>2. QED
      BY <2>1, <3>1 DEF Frames
  <2>2. CASE i # n
    BY <1>3, <2>2
  <2>3. QED
    BY <2>1, <2>2
<1>7. QED
  BY <1>1, <1>5, <1>6 DEF below

(* The next step of an item's expansion.                                   *)
LEMMA ExpansionTyping ==
  ASSUME TypeOK, NEW item \in Items,
         Target[item.node] # None => Declared(TargetOf(item))
  PROVE  Expansion(item) \in SUBSET Items
<1>1. /\ item.node \in Nodes /\ item.file \in Files
      /\ item.homes \in SUBSET Files /\ item.trail \in SUBSET Keys
  BY DEF Items
<1>2. ASSUME NEW target \in IF Target[item.node] = None THEN {} ELSE {TargetOf(item)}
      PROVE  [node |-> body[target], file |-> target[1], homes |-> {target[1]},
              trail |-> item.trail \cup {target}] \in Items
  <2>1. target \in Models /\ body[target] # None
    BY <1>2 DEF Declared
  <2>2. body[target] \in Nodes /\ target \in Keys /\ target[1] \in Files
    BY <2>1, ModelsAreKeys DEF TypeOK
  <2>3. QED
    BY <1>1, <2>2 DEF Items
<1>3. ASSUME NEW branch \in AllOf[item.node]
      PROVE  [item EXCEPT !.node = branch] \in Items
  <2>1. branch \in Nodes
    BY <1>1, AllOfAssumption
  <2>2. QED
    BY <2>1 DEF Items
<1>4. QED
  BY <1>2, <1>3 DEF Expansion

(* What an item reads is a reference, with two files.                      *)
LEMMA ReadTyping ==
  ASSUME NEW item \in Items
  PROVE  ReadOf(item) \subseteq [reference : Reference, home : Files, file : Files]
<1>1. item.node \in Nodes /\ item.file \in Files /\ item.homes \in SUBSET Files
  BY DEF Items
<1>2. Target[item.node] # None => Target[item.node] \in Reference
  BY <1>1, TargetAssumption
<1>3. QED
  BY <1>1, <1>2 DEF ReadOf

-----------------------------------------------------------------------------
(* The types of the walk are kept by every step.                           *)
THEOREM Invariance == Spec => []IInv
<1>1. Init => IInv
  BY BodiesAssumption, OrdersAssumption DEF Init, IInv, TypeOK, Idle
<1>2. IInv /\ [Next]_vars => IInv'
  <2> SUFFICES ASSUME IInv, [Next]_vars PROVE IInv'
    OBVIOUS
  <2>0. TypeOK /\ Idle
    BY DEF IInv
  <2>1. CASE StartModel
    <3> DEFINE model == Head(queue)
    <3>1. queue \in Seq(Models) /\ queue # << >> /\ model \in Models /\ queue' \in Seq(Models)
      BY <2>0, <2>1 DEF StartModel, TypeOK
    <3>2. CASE Declared(model)
      <4>1. /\ current' = model /\ UNCHANGED << body, outcome >>
            /\ Visit(model, {[node |-> body[model], home |-> model[1]]}, {model}, << >>, << >>)
        BY <2>1, <3>2 DEF StartModel
      <4>2. body[model] \in Nodes /\ model \in Keys /\ model[1] \in Files
        BY <2>0, <3>1, <3>2, ModelsAreKeys DEF Declared, TypeOK
      <4> HIDE DEF model
      <4>3. {[node |-> body[model], home |-> model[1]]} \in SUBSET Part
        BY <4>2 DEF Part
      <4>4. {model} \in SUBSET Keys /\ << >> \in Seq(Names) /\ << >> \in Seq(Frames)
        BY <4>2
      <4>5. /\ walk' \in Seq(Frames) /\ fold' \in Folds \cup {None}
            /\ flat' \subseteq [model : Models, path : Seq(Names), parts : SUBSET Part]
            /\ read' \subseteq [reference : Reference, home : Files, file : Files]
        BY <2>0, <3>1, <4>1, <4>3, <4>4, VisitTyping
      <4>6. current' # None
        BY <3>1, <4>1, NoneAssumption
      <4>7. QED
        BY <2>0, <3>1, <4>1, <4>5, <4>6 DEF IInv, TypeOK, Idle
    <3>3. CASE ~ Declared(model)
      BY <2>0, <2>1, <3>1, <3>3 DEF StartModel, IInv, TypeOK, Idle
    <3>4. QED
      BY <3>2, <3>3
  <2>2. CASE VisitChild
    <3> DEFINE top == walk[Len(walk)]
    <3>1. /\ fold = None /\ walk # << >>
          /\ UNCHANGED << body, queue, current, outcome >>
      BY <2>2 DEF VisitChild
    <3>2. PICK name \in top.todo :
            Visit(current, ChildAt(top.parts, name), top.cycle, Append(top.path, name),
                  [walk EXCEPT ![Len(walk)].todo = @ \ {name}])
      BY <2>2 DEF VisitChild
    <3>3. current \in Models /\ current # None
      BY <2>0, <3>1 DEF TypeOK, Idle
    <3>4. top \in Frames
      <4>1. walk \in Seq(Frames) /\ Len(walk) \in 1 .. Len(walk)
        BY <2>0, <3>1 DEF TypeOK
      <4>2. QED
        BY <4>1
    <3>5. /\ top.parts \in SUBSET Part /\ top.cycle \in SUBSET Keys
          /\ top.path \in Seq(Names) /\ top.todo \in SUBSET Names
      BY <3>4 DEF Frames
    <3>6. Append(top.path, name) \in Seq(Names) /\ ChildAt(top.parts, name) \in SUBSET Part
      <4> HIDE DEF top
      <4>1. name \in Names
        BY <3>2, <3>5
      <4>2. Append(top.path, name) \in Seq(Names)
        BY <3>5, <4>1
      <4>3. ChildAt(top.parts, name) \in SUBSET Part
        BY <3>5, ChildTyping
      <4>4. QED
        BY <4>2, <4>3
    <3>7. [walk EXCEPT ![Len(walk)].todo = @ \ {name}] \in Seq(Frames)
      BY <2>0, <3>1, CrossedOff
    <3>8. /\ walk' \in Seq(Frames) /\ fold' \in Folds \cup {None}
          /\ flat' \subseteq [model : Models, path : Seq(Names), parts : SUBSET Part]
          /\ read' \subseteq [reference : Reference, home : Files, file : Files]
      BY <2>0, <3>2, <3>3, <3>5, <3>6, <3>7, VisitTyping
    <3>9. QED
      BY <2>0, <3>1, <3>3, <3>8 DEF IInv, TypeOK, Idle
  <2>3. CASE LeaveFrame
    <3>1. /\ walk' = SubSeq(walk, 1, Len(walk) - 1) /\ walk # << >>
          /\ UNCHANGED << body, queue, current, fold, flat, read, outcome >>
      BY <2>3 DEF LeaveFrame
    <3>2. walk' \in Seq(Frames)
      BY <2>0, <3>1 DEF TypeOK
    <3>3. current # None
      BY <2>0, <3>1 DEF Idle
    <3>4. QED
      BY <2>0, <3>1, <3>2, <3>3 DEF IInv, TypeOK, Idle
  <2>4. CASE FinishModel
    BY <2>0, <2>4 DEF FinishModel, IInv, TypeOK, Idle
  <2>5. CASE RejectCombinator
    BY <2>0, <2>5 DEF RejectCombinator, Decide, IInv, TypeOK, Idle
  <2>6. CASE RejectCycle \/ RejectUnresolved
    <3>1. PICK item \in fold.pending : read' = read \cup ReadOf(item)
      BY <2>6 DEF RejectCycle, RejectUnresolved
    <3>2. fold # None /\ UNCHANGED << body, queue, current, walk, fold, flat >>
          /\ outcome' \in {"cycle", "unresolved"}
      BY <2>6 DEF RejectCycle, RejectUnresolved, Decide
    <3>3. fold \in Folds
      BY <2>0, <3>2 DEF TypeOK
    <3>4. item \in Items
      BY <3>1, <3>3 DEF Folds
    <3>5. read' \subseteq [reference : Reference, home : Files, file : Files]
      BY <2>0, <3>1, <3>4, ReadTyping DEF TypeOK
    <3>6. QED
      BY <2>0, <3>2, <3>5 DEF IInv, TypeOK, Idle
  <2>7. CASE ExpandBranch
    <3>1. fold # None /\ UNCHANGED << body, queue, current, walk, flat, outcome >>
      BY <2>7 DEF ExpandBranch
    <3>2. PICK item \in fold.pending :
            /\ Target[item.node] # None => Declared(TargetOf(item))
            /\ fold' = [fold EXCEPT
                 !.pending = (@ \ {item}) \cup Expansion(item),
                 !.parts = @ \cup { [node |-> item.node, home |-> home] :
                                      home \in IF Own[item.node] THEN item.homes ELSE {} }]
            /\ read' = read \cup ReadOf(item)
      BY <2>7 DEF ExpandBranch
    <3>3. fold \in Folds
      BY <2>0, <3>1 DEF TypeOK
    <3>4. /\ fold.pending \in SUBSET Items /\ fold.parts \in SUBSET Part
          /\ item \in Items
      BY <3>2, <3>3 DEF Folds
    <3>5. (fold.pending \ {item}) \cup Expansion(item) \in SUBSET Items
      BY <2>0, <3>2, <3>4, ExpansionTyping
    <3>6. item.node \in Nodes /\ item.homes \in SUBSET Files
      BY <3>4 DEF Items
    <3>7. fold.parts \cup { [node |-> item.node, home |-> home] :
                              home \in IF Own[item.node] THEN item.homes ELSE {} } \in SUBSET Part
      BY <3>4, <3>6 DEF Part
    <3>8. fold' \in Folds
      BY <3>2, <3>3, <3>5, <3>7 DEF Folds
    <3>9. read' \subseteq [reference : Reference, home : Files, file : Files]
      BY <2>0, <3>2, <3>4, ReadTyping DEF TypeOK
    <3>10. current # None
      BY <2>0, <3>1 DEF Idle
    <3>11. QED
      BY <2>0, <3>1, <3>8, <3>9, <3>10 DEF IInv, TypeOK, Idle
  <2>8. CASE FinishFold
    <3>1. /\ fold # None /\ fold' = None
          /\ Arrive(current, fold.path, fold.parts)
          /\ walk' = Append(walk, Frame(fold.path, fold.parts, fold.cycle, fold.by))
          /\ UNCHANGED << body, queue, current, read, outcome >>
      BY <2>8 DEF FinishFold
    <3>2. fold \in Folds /\ current \in Models /\ current # None
      BY <2>0, <3>1 DEF TypeOK, Idle
    <3>3. /\ fold.path \in Seq(Names) /\ fold.parts \in SUBSET Part /\ fold.cycle \in SUBSET Keys
          /\ fold.by \in {"plain", "implicit", "explicit"}
      BY <3>2 DEF Folds
    <3>4. walk' \in Seq(Frames)
      <4>1. PICK frame \in Frames : walk' = Append(walk, frame)
        BY <3>1, <3>3, FrameTyping
      <4>2. walk \in Seq(Frames)
        BY <2>0 DEF TypeOK
      <4>3. QED
        BY <4>1, <4>2
    <3>5. flat' \subseteq [model : Models, path : Seq(Names), parts : SUBSET Part]
      BY <2>0, <3>1, <3>2, <3>3 DEF Arrive, TypeOK
    <3>6. QED
      BY <2>0, <3>1, <3>2, <3>4, <3>5 DEF IInv, TypeOK, Idle
  <2>9. CASE ValidateModelRefs
    BY <2>0, <2>9 DEF ValidateModelRefs, Decide, IInv, TypeOK, Idle
  <2>10. CASE UNCHANGED vars
    BY <2>0, <2>10 DEF vars, IInv, TypeOK, Idle
  <2>11. QED
    BY <2>1, <2>2, <2>3, <2>4, <2>5, <2>6, <2>7, <2>8, <2>9, <2>10 DEF Next
<1>3. QED
  BY <1>1, <1>2, PTL DEF Spec

(* Types hold at every depth of the recursion.                             *)
THEOREM Typing == Spec => []TypeOK
<1>1. IInv => TypeOK
  BY DEF IInv
<1>2. QED
  BY <1>1, Invariance, PTL

-----------------------------------------------------------------------------
(* The cycle stack.                                                        *)

(* The stack below which the walk goes on has all that the frames have.    *)
LEMMA TopHasAll ==
  ASSUME NEW frames \in Seq(Frames), NEW model, StackOf(frames, model)
  PROVE  /\ model \in TopOf(frames, model)
         /\ \A h \in 1 .. Len(frames) : frames[h].cycle \subseteq TopOf(frames, model)
<1>1. CASE frames = << >>
  BY <1>1 DEF TopOf
<1>2. CASE frames # << >>
  <2>1. Len(frames) \in 1 .. Len(frames)
    BY <1>2
  <2>2. QED
    BY <1>2, <2>1 DEF StackOf, TopOf
<1>3. QED
  BY <1>1, <1>2

(* Another frame whose stack has all that was there, and something new if  *)
(* it is that of an implicit fold.                                         *)
LEMMA Push ==
  ASSUME NEW frames \in Seq(Frames), NEW model, StackOf(frames, model), NEW frame \in Frames,
         TopOf(frames, model) \subseteq frame.cycle,
         frame.by = "implicit" =>
           \E found \in Models : found \in frame.cycle /\ found \notin TopOf(frames, model)
  PROVE  StackOf(Append(frames, frame), model)
<1> DEFINE n == Len(frames)
           longer == Append(frames, frame)
<1>1. /\ n \in Nat /\ Len(longer) = n + 1 /\ longer[n + 1] = frame
      /\ \A i \in 1 .. n : longer[i] = frames[i]
  OBVIOUS
<1>2. /\ model \in TopOf(frames, model)
      /\ \A h \in 1 .. n : frames[h].cycle \subseteq TopOf(frames, model)
  BY TopHasAll
<1> HIDE DEF n, longer
<1>3. ASSUME NEW i \in 1 .. n
      PROVE  /\ model \in longer[i].cycle
             /\ \A h \in 1 .. i : longer[h].cycle \subseteq longer[i].cycle
             /\ longer[i].by = "implicit" => \E found : IsNew(found, longer, i, model)
  <2>1. \A h \in 1 .. i : h \in 1 .. n /\ longer[h] = frames[h]
    BY <1>1
  <2>2. /\ model \in frames[i].cycle
        /\ \A h \in 1 .. i : frames[h].cycle \subseteq frames[i].cycle
        /\ frames[i].by = "implicit" => \E found : IsNew(found, frames, i, model)
    BY <1>3 DEF StackOf, n
  <2>3. \A found : IsNew(found, frames, i, model) => IsNew(found, longer, i, model)
    BY <1>1, <2>1 DEF IsNew
  <2>4. QED
    BY <1>1, <2>1, <2>2, <2>3
<1>4. /\ model \in longer[n + 1].cycle
      /\ \A h \in 1 .. n + 1 : longer[h].cycle \subseteq longer[n + 1].cycle
  <2>1. ASSUME NEW h \in 1 .. n + 1 PROVE longer[h].cycle \subseteq longer[n + 1].cycle
    <3>1. CASE h = n + 1
      BY <3>1
    <3>2. CASE h \in 1 .. n
      BY <1>1, <1>2, <3>2
    <3>3. QED
      BY <1>1, <3>1, <3>2
  <2>2. QED
    BY <1>1, <1>2, <2>1
<1>5. longer[n + 1].by = "implicit" => \E found : IsNew(found, longer, n + 1, model)
  <2> SUFFICES ASSUME frame.by = "implicit" PROVE \E found : IsNew(found, longer, n + 1, model)
    BY <1>1
  <2>1. PICK found \in Models : found \in frame.cycle /\ found \notin TopOf(frames, model)
    OBVIOUS
  <2>2. \A h \in 1 .. n : found \notin longer[h].cycle
    BY <1>1, <1>2, <2>1
  <2>3. IsNew(found, longer, n + 1, model)
    BY <1>1, <1>2, <2>1, <2>2 DEF IsNew
  <2>4. QED
    BY <2>3
<1>6. \A i \in 1 .. n + 1 : i \in 1 .. n \/ i = n + 1
  BY <1>1
<1>7. QED
  BY <1>1, <1>3, <1>4, <1>5, <1>6 DEF StackOf, longer

(* A visit below the stack of the frames keeps the stack.                  *)
LEMMA VisitKeeps ==
  ASSUME NEW model \in Models, NEW position \in SUBSET Part, NEW path \in Seq(Names),
         NEW below \in Seq(Frames), StackOf(below, model), TopOf(below, model) \in SUBSET Keys,
         Visit(model, position, TopOf(below, model), path, below),
         fold = None, current' = model
  PROVE  CycleStack'
<1> DEFINE top == TopOf(below, model)
<1>1. CASE KeepReference(model, position, path, below)
  BY <1>1 DEF KeepReference, CycleStack
<1>2. CASE EnterPlain(model, position, top, path, below)
  <2>1. /\ walk' = Append(below, Frame(path, position, top, "plain"))
        /\ fold' = None
    BY <1>2 DEF EnterPlain
  <2>2. Frame(path, position, top, "plain") \in Frames
    BY FrameTyping
  <2>3. /\ Frame(path, position, top, "plain").cycle = top
        /\ Frame(path, position, top, "plain").by = "plain"
    BY DEF Frame
  <2>4. StackOf(walk', model)
    BY <2>1, <2>2, <2>3, Push
  <2>5. QED
    BY <2>1, <2>4 DEF CycleStack
<1>3. CASE BeginFold(model, position, top, path, below)
  <2> DEFINE Item(part) ==
               [ node |-> part.node, file |-> model[1], trail |-> top,
                 homes |-> { p.home : p \in { q \in position : q.node = part.node } } ]
             pending == { Item(part) : part \in position }
  <2>1. /\ walk' = below
        /\ fold' = [ path |-> path, pending |-> pending, parts |-> {},
                     cycle |-> top \cup Followed(position, model[1]),
                     by |-> IF FollowsReference(position) THEN "implicit" ELSE "explicit" ]
    BY <1>3 DEF BeginFold
  <2>2. ASSUME FollowsReference(position)
        PROVE  \E item \in pending :
                 /\ Target[item.node] # None
                 /\ TargetOf(item) \in top \cup Followed(position, model[1]) /\ item.trail = top
    <3>1. PICK part \in position : Target[part.node] # None
      BY <2>2 DEF FollowsReference
    <3>2. Resolve(Target[part.node], model[1]) \in Followed(position, model[1])
      BY <2>2, <3>1 DEF Followed
    <3>3. Item(part) \in pending
      BY <3>1
    <3>4. /\ Item(part).node = part.node /\ Item(part).file = model[1] /\ Item(part).trail = top
      OBVIOUS
    <3> HIDE DEF Item, pending
    <3>5. TargetOf(Item(part)) = Resolve(Target[part.node], model[1])
      BY <3>4 DEF TargetOf
    <3>6. QED
      BY <3>1, <3>2, <3>3, <3>4, <3>5
  <2> HIDE DEF pending
  <2>3. /\ fold'.cycle = top \cup Followed(position, model[1]) /\ fold'.pending = pending
        /\ fold'.by = "implicit" => FollowsReference(position)
    BY <2>1
  <2>4. ExpansionOf(fold', top)
    BY <2>2, <2>3 DEF ExpansionOf
  <2>5. QED
    BY <2>1, <2>4 DEF CycleStack
<1>4. QED
  BY <1>1, <1>2, <1>3 DEF Visit

(* The cycle stack in every reachable state.                               *)
THEOREM StackInvariance == Spec => []CycleStack
<1>1. Init => CycleStack
  BY DEF Init, CycleStack, StackOf
<1>2. IInv /\ IInv' /\ CycleStack /\ [Next]_vars => CycleStack'
  <2> SUFFICES ASSUME IInv, IInv', CycleStack, [Next]_vars PROVE CycleStack'
    OBVIOUS
  <2>0. TypeOK /\ Idle
    BY DEF IInv
  <2>1. CASE StartModel
    <3> DEFINE model == Head(queue)
    <3>1. queue # << >> /\ model \in Models /\ walk = << >> /\ fold = None
      BY <2>0, <2>1 DEF StartModel, TypeOK, Idle
    <3>2. CASE Declared(model)
      <4>1. /\ current' = model
            /\ Visit(model, {[node |-> body[model], home |-> model[1]]}, {model}, << >>, << >>)
        BY <2>1, <3>2 DEF StartModel
      <4>2. body[model] \in Nodes /\ model \in Keys /\ model[1] \in Files
        BY <2>0, <3>1, <3>2, ModelsAreKeys DEF Declared, TypeOK
      <4> HIDE DEF model
      <4>3. {[node |-> body[model], home |-> model[1]]} \in SUBSET Part
        BY <4>2 DEF Part
      <4>4. TopOf(<< >>, model) = {model} /\ StackOf(<< >>, model) /\ {model} \in SUBSET Keys
        BY <4>2 DEF TopOf, StackOf
      <4>5. << >> \in Seq(Names) /\ << >> \in Seq(Frames)
        OBVIOUS
      <4>6. QED
        BY <3>1, <4>1, <4>3, <4>4, <4>5, VisitKeeps
    <3>3. CASE ~ Declared(model)
      BY <2>1, <3>1, <3>3 DEF StartModel, CycleStack
    <3>4. QED
      BY <3>2, <3>3
  <2>2. CASE VisitChild
    <3> DEFINE top == walk[Len(walk)]
    <3>1. fold = None /\ walk # << >> /\ current' = current
      BY <2>2 DEF VisitChild
    <3>2. PICK name \in top.todo :
            Visit(current, ChildAt(top.parts, name), top.cycle, Append(top.path, name),
                  [walk EXCEPT ![Len(walk)].todo = @ \ {name}])
      BY <2>2 DEF VisitChild
    <3> DEFINE below == [walk EXCEPT ![Len(walk)].todo = @ \ {name}]
    <3>3. current \in Models
      BY <2>0, <3>1 DEF TypeOK, Idle
    <3>4. top \in Frames
      <4>1. walk \in Seq(Frames) /\ Len(walk) \in 1 .. Len(walk)
        BY <2>0, <3>1 DEF TypeOK
      <4>2. QED
        BY <4>1
    <3>5. /\ below \in Seq(Frames) /\ Len(below) = Len(walk) /\ Len(walk) \in Nat \ {0}
          /\ \A i \in 1 .. Len(walk) : below[i].cycle = walk[i].cycle /\ below[i].by = walk[i].by
      BY <2>0, <3>1, CrossedOff
    <3>6. Visit(current, ChildAt(top.parts, name), top.cycle, Append(top.path, name), below)
      BY <3>2
    <3> HIDE DEF below
    <3>7. StackOf(below, current)
      <4>1. \A i \in 1 .. Len(walk) : \A found :
               IsNew(found, walk, i, current) => IsNew(found, below, i, current)
        BY <3>5 DEF IsNew
      <4>2. QED
        BY <3>5, <4>1 DEF StackOf, CycleStack
    <3>8. TopOf(below, current) = top.cycle
      BY <3>5 DEF TopOf
    <3>9. /\ top.parts \in SUBSET Part /\ top.cycle \in SUBSET Keys
          /\ top.path \in Seq(Names) /\ top.todo \in SUBSET Names
      BY <3>4 DEF Frames
    <3> HIDE DEF top
    <3>10. name \in Names
      BY <3>2, <3>9
    <3>11. Append(top.path, name) \in Seq(Names) /\ ChildAt(top.parts, name) \in SUBSET Part
      <4>1. Append(top.path, name) \in Seq(Names)
        BY <3>9, <3>10
      <4>2. ChildAt(top.parts, name) \in SUBSET Part
        BY <3>9, ChildTyping
      <4>3. QED
        BY <4>1, <4>2
    <3>12. QED
      BY <3>1, <3>3, <3>5, <3>6, <3>7, <3>8, <3>9, <3>11, VisitKeeps
  <2>3. CASE LeaveFrame
    <3>1. /\ walk' = SubSeq(walk, 1, Len(walk) - 1) /\ walk # << >>
          /\ current' = current /\ fold' = None
      BY <2>3 DEF LeaveFrame
    <3>2. walk \in Seq(Frames) /\ Len(walk) \in Nat \ {0}
      BY <2>0, <3>1 DEF TypeOK
    <3>3. Len(walk') = Len(walk) - 1 /\ \A i \in 1 .. Len(walk) - 1 : walk'[i] = walk[i]
      <4>1. \A i \in 1 .. Len(walk) - 1 : walk[i] \in Frames
        BY <3>2
      <4>2. /\ Len(SubSeq(walk, 1, Len(walk) - 1)) =
                 IF 1 <= Len(walk) - 1 THEN Len(walk) - 1 - 1 + 1 ELSE 0
            /\ \A i \in 1 .. Len(walk) - 1 - 1 + 1 :
                 SubSeq(walk, 1, Len(walk) - 1)[i] = walk[1 + i - 1]
        <5>1. Len(walk) - 1 \in Int
          BY <3>2
        <5>2. QED
          BY <4>1, <5>1, SubSeqProperties
      <4>3. Len(walk) - 1 - 1 + 1 = Len(walk) - 1 /\ \A i \in 1 .. Len(walk) - 1 : 1 + i - 1 = i
        BY <3>2
      <4>4. QED
        BY <3>1, <3>2, <4>2, <4>3
    <3>4. \A i \in 1 .. Len(walk) - 1 : \A found :
             IsNew(found, walk, i, current) => IsNew(found, walk', i, current)
      BY <3>2, <3>3 DEF IsNew
    <3>5. StackOf(walk', current)
      BY <3>2, <3>3, <3>4 DEF StackOf, CycleStack
    <3>6. QED
      BY <3>1, <3>5 DEF CycleStack
  <2>4. CASE FinishModel
    BY <2>4 DEF FinishModel, CycleStack, StackOf
  <2>5. CASE RejectCombinator \/ RejectCycle \/ RejectUnresolved \/ ValidateModelRefs
    BY <2>5 DEF RejectCombinator, RejectCycle, RejectUnresolved, ValidateModelRefs, Decide, CycleStack
  <2>6. CASE ExpandBranch
    <3> DEFINE top == TopOf(walk, current)
    <3>1. fold # None /\ walk' = walk /\ current' = current
      BY <2>6 DEF ExpandBranch
    <3>2. PICK item \in fold.pending :
            /\ Target[item.node] # None => TargetOf(item) \notin item.trail /\ Declared(TargetOf(item))
            /\ fold' = [fold EXCEPT
                 !.pending = (@ \ {item}) \cup Expansion(item),
                 !.parts = @ \cup { [node |-> item.node, home |-> home] :
                                      home \in IF Own[item.node] THEN item.homes ELSE {} }]
      BY <2>6 DEF ExpandBranch
    <3>3. fold \in Folds
      BY <2>0, <3>1 DEF TypeOK
    <3>4. /\ fold'.cycle = fold.cycle /\ fold'.by = fold.by
          /\ fold'.pending = (fold.pending \ {item}) \cup Expansion(item)
      BY <3>2, <3>3 DEF Folds
    <3>5. ExpansionOf(fold, top)
      BY <3>1 DEF CycleStack
    <3> HIDE DEF top
    <3>6. ExpansionOf(fold', top)
      <4>1. top \subseteq fold'.cycle
        BY <3>4, <3>5 DEF ExpansionOf
      <4>2. ASSUME fold.by = "implicit"
            PROVE  \/ \E found \in Models : found \in fold.cycle /\ found \notin top
                   \/ \E other \in fold'.pending :
                        /\ Target[other.node] # None
                        /\ TargetOf(other) \in fold.cycle /\ other.trail = top
        <5>1. CASE \E found \in Models : found \in fold.cycle /\ found \notin top
          BY <5>1
        <5>2. CASE \E other \in fold.pending :
                     /\ Target[other.node] # None
                     /\ TargetOf(other) \in fold.cycle /\ other.trail = top
          <6>1. PICK other \in fold.pending :
                  /\ Target[other.node] # None
                  /\ TargetOf(other) \in fold.cycle /\ other.trail = top
            BY <5>2
          <6>2. CASE other = item
            <7>1. TargetOf(item) \in Models /\ TargetOf(item) \notin top
              BY <3>2, <6>1, <6>2 DEF Declared
            <7>2. QED
              BY <6>1, <6>2, <7>1
          <6>3. CASE other # item
            BY <3>4, <6>1, <6>3
          <6>4. QED
            BY <6>2, <6>3
        <5>3. QED
          BY <3>5, <4>2, <5>1, <5>2 DEF ExpansionOf
      <4>3. QED
        BY <3>4, <4>1, <4>2 DEF ExpansionOf
    <3>7. QED
      BY <3>1, <3>6 DEF CycleStack, top
  <2>7. CASE FinishFold
    <3> DEFINE top == TopOf(walk, current)
               frame == Frame(fold.path, fold.parts, fold.cycle, fold.by)
    <3>1. /\ fold # None /\ fold' = None /\ fold.pending = {}
          /\ walk' = Append(walk, frame) /\ current' = current
      BY <2>7 DEF FinishFold
    <3>2. fold \in Folds /\ walk \in Seq(Frames)
      BY <2>0, <3>1 DEF TypeOK
    <3>3. /\ fold.path \in Seq(Names) /\ fold.parts \in SUBSET Part /\ fold.cycle \in SUBSET Keys
          /\ fold.by \in {"plain", "implicit", "explicit"}
      BY <3>2 DEF Folds
    <3>4. frame \in Frames /\ frame.cycle = fold.cycle /\ frame.by = fold.by
      <4>1. frame \in Frames
        BY <3>3, FrameTyping
      <4>2. QED
        BY <4>1 DEF Frame
    <3>5. ExpansionOf(fold, top)
      BY <3>1 DEF CycleStack
    <3> HIDE DEF top, frame
    <3>6. /\ top \subseteq frame.cycle
          /\ frame.by = "implicit" => \E found \in Models : found \in frame.cycle /\ found \notin top
      BY <3>1, <3>4, <3>5 DEF ExpansionOf
    <3>7. StackOf(walk, current)
      BY DEF CycleStack
    <3>8. StackOf(walk', current)
      BY <3>1, <3>2, <3>4, <3>6, <3>7, Push DEF top
    <3>9. QED
      BY <3>1, <3>8 DEF CycleStack
  <2>8. CASE UNCHANGED vars
    BY <2>8 DEF vars, CycleStack
  <2>9. QED
    BY <2>1, <2>2, <2>3, <2>4, <2>5, <2>6, <2>7, <2>8 DEF Next
<1>3. QED
  BY <1>1, <1>2, Invariance, PTL DEF Spec

(* However many models there are and whatever they fold, the folds of      *)
(* $refs with siblings below one another are fewer than the models: that   *)
(* spelling alone never recurses without bound.                            *)
THEOREM ImplicitFoldsEnd == Spec => []ImplicitFoldsAreBounded
<1>1. IInv /\ CycleStack => ImplicitFoldsAreBounded
  <2> SUFFICES ASSUME IInv, CycleStack, walk # << >>
               PROVE  Cardinality({ i \in DOMAIN walk : walk[i].by = "implicit" }) < Cardinality(Models)
    BY DEF ImplicitFoldsAreBounded
  <2> DEFINE deep == { i \in DOMAIN walk : walk[i].by = "implicit" }
             others == Models \ {current}
             new == [ i \in deep |-> CHOOSE found : IsNew(found, walk, i, current) ]
  <2>1. walk \in Seq(Frames) /\ DOMAIN walk = 1 .. Len(walk) /\ Len(walk) \in Nat
    BY DEF IInv, TypeOK
  <2>2. current \in Models
    BY DEF IInv, TypeOK, Idle
  <2>3. \A i \in deep : i \in 1 .. Len(walk) /\ IsNew(new[i], walk, i, current)
    <3> SUFFICES ASSUME NEW i \in deep
                 PROVE  i \in 1 .. Len(walk) /\ IsNew(new[i], walk, i, current)
      OBVIOUS
    <3>1. i \in 1 .. Len(walk) /\ walk[i].by = "implicit"
      BY <2>1
    <3>2. \E found : IsNew(found, walk, i, current)
      BY <3>1 DEF CycleStack, StackOf
    <3>3. QED
      BY <3>1, <3>2
  <2> HIDE DEF new
  <2>4. \A i \in deep : new[i] \in others
    BY <2>3 DEF IsNew
  <2>5. \A i, j \in deep : new[i] = new[j] => i = j
    <3>1. ASSUME NEW i \in deep, NEW j \in deep, i < j PROVE new[i] # new[j]
      <4>1. new[i] \in walk[i].cycle
        BY <2>3 DEF IsNew
      <4>2. i \in 1 .. j - 1
        BY <2>3, <3>1
      <4>3. new[j] \notin walk[i].cycle
        BY <2>3, <4>2 DEF IsNew
      <4>4. QED
        BY <4>1, <4>3
    <3>2. \A i, j \in deep : i = j \/ i < j \/ j < i
      BY <2>3
    <3>3. QED
      BY <3>1, <3>2
  <2> HIDE DEF deep
  <2>6. new \in Injection(deep, others)
    <3>1. DOMAIN new = deep /\ new = [ i \in deep |-> new[i] ]
      BY DEF new
    <3>2. new \in [deep -> others]
      BY <2>4, <3>1
    <3>3. QED
      BY <2>5, <3>2 DEF Injection, IsInjective
  <2>7. /\ IsFiniteSet(others) /\ Cardinality(others) = Cardinality(Models) - 1
        /\ Cardinality(Models) \in Nat
    BY <2>2, ModelsAssumption, FS_RemoveElement, FS_CardinalityType
  <2>8. IsFiniteSet(deep) /\ Cardinality(deep) <= Cardinality(others)
    BY <2>6, <2>7, FS_Injection DEF ExistsInjection
  <2>9. Cardinality(deep) \in Nat
    BY <2>8, FS_CardinalityType
  <2>10. QED
    BY <2>7, <2>8, <2>9 DEF deep
<1>2. QED
  BY <1>1, Invariance, StackInvariance, PTL

-----------------------------------------------------------------------------
(* A node, with the file it was written in.                                *)
PartAt(node, home) == [node |-> node, home |-> home]

(* The place of a model itself.                                            *)
Root(model) == { PartAt(body[model], model[1]) }

(* Induction over the numbers up to a bound, for sets of numbers: a set    *)
(* that has 0, and with a number the next one, has all of them.            *)
LEMMA UpTo ==
  ASSUME NEW bound \in Nat, NEW numbers \in SUBSET (0 .. bound), 0 \in numbers,
         \A n \in 0 .. bound - 1 : n \in numbers => n + 1 \in numbers
  PROVE  numbers = 0 .. bound
<1> DEFINE low == { n \in 0 .. bound : 0 .. n \subseteq numbers }
           size == Cardinality(low)
<1>1. IsFiniteSet(low) /\ size \in Nat
  <2>1. IsFiniteSet(0 .. bound) /\ low \in SUBSET (0 .. bound)
    BY FS_Interval
  <2>2. QED
    BY <2>1, FS_Subset, FS_CardinalityType
<1>2. 0 \in low
  BY 0 .. 0 = {0}
<1>3. \A n \in low : 0 .. n \subseteq low
  OBVIOUS
<1>4. \A n \in low : n \in Nat /\ n <= bound
  OBVIOUS
<1>5. \A n \in low : n < bound => n + 1 \in low
  <2> SUFFICES ASSUME NEW n \in low, n < bound PROVE n + 1 \in low
    OBVIOUS
  <2>1. n \in numbers /\ n + 1 \in numbers
    OBVIOUS
  <2>2. 0 .. n + 1 = (0 .. n) \cup {n + 1}
    BY <1>4
  <2>3. QED
    BY <1>4, <2>1, <2>2
<1> HIDE DEF low
<1>6. \A n \in low : n + 1 <= size
  <2> SUFFICES ASSUME NEW n \in low PROVE n + 1 <= size
    OBVIOUS
  <2>0. n \in Nat
    BY <1>4
  <2>1. Cardinality(0 .. n) = n + 1 /\ 0 .. n \in SUBSET low
    BY <1>3, <2>0, FS_Interval
  <2>2. Cardinality(0 .. n) <= size
    BY <1>1, <2>1, FS_Subset
  <2>3. QED
    BY <2>1, <2>2
<1>7. low = 0 .. size - 1
  <2>0. size # 0
    BY <1>1, <1>2, FS_EmptySet
  <2>1. IsFiniteSet(0 .. size - 1) /\ Cardinality(0 .. size - 1) = size
    BY <1>1, <2>0, FS_Interval
  <2>2. low \in SUBSET (0 .. size - 1)
    BY <1>1, <1>4, <1>6
  <2>3. QED
    BY <2>1, <2>2, FS_Subset
<1>8. size - 1 \in low
  BY <1>1, <1>2, <1>6, <1>7
<1>9. bound \in low
  <2>1. size - 1 < bound => size \in low
    BY <1>1, <1>5, <1>8
  <2>2. size - 1 = bound
    BY <1>1, <1>4, <1>6, <1>8, <2>1
  <2>3. QED
    BY <1>8, <2>2
<1>10. QED
  BY <1>9 DEF low

(* The waves of what a position folds are what their definition says.      *)
LEMMA FoldWavesAre ==
  ASSUME NEW position
  PROVE  /\ FoldWaves(position)[0] = position
         /\ \A i \in 1 .. Horizon :
              FoldWaves(position)[i] = UNION { FoldedBy(part) : part \in FoldWaves(position)[i - 1] }
<1> DEFINE Next1(set) == UNION { FoldedBy(part) : part \in set }
           IsWave(w, n) == w = [ i \in 0 .. n |-> IF i = 0 THEN position ELSE Next1(w[i - 1]) ]
           good == { n \in 0 .. Horizon : \E w : IsWave(w, n) }
<1>0. Horizon \in Nat
  BY BoundsAssumption
<1> HIDE DEF Next1
<1>1. 0 \in good
  <2>1. IsWave([ i \in 0 .. 0 |-> position ], 0)
    OBVIOUS
  <2>2. 0 \in 0 .. Horizon
    BY <1>0
  <2> HIDE DEF IsWave
  <2>3. QED
    BY <2>1, <2>2
<1>2. ASSUME NEW n \in 0 .. Horizon - 1, n \in good PROVE n + 1 \in good
  <2>1. PICK w : IsWave(w, n)
    BY <1>2
  <2> DEFINE longer == [ i \in 0 .. n + 1 |-> IF i <= n THEN w[i] ELSE Next1(w[n]) ]
  <2>2. ASSUME NEW i \in 0 .. n + 1
        PROVE  longer[i] = IF i = 0 THEN position ELSE Next1(longer[i - 1])
    <3>1. CASE i = 0
      BY <2>1, <3>1
    <3>2. CASE i # 0 /\ i <= n
      <4>1. i - 1 \in 0 .. n + 1 /\ i - 1 <= n /\ i \in 0 .. n
        BY <3>2
      <4>2. QED
        BY <2>1, <3>2, <4>1
    <3>3. CASE i = n + 1
      BY <3>3
    <3>4. QED
      BY <1>0, <3>1, <3>2, <3>3
  <2>3. IsWave(longer, n + 1)
    BY <2>2
  <2>4. n + 1 \in 0 .. Horizon
    BY <1>0
  <2> HIDE DEF longer, IsWave
  <2>5. QED
    BY <2>3, <2>4
<1>3. Horizon \in good
  <2> HIDE DEF good
  <2>1. good \in SUBSET (0 .. Horizon)
    BY DEF good
  <2>2. good = 0 .. Horizon
    BY <1>0, <1>1, <1>2, <2>1, UpTo
  <2>3. QED
    BY <1>0, <2>2
<1>4. PICK w : IsWave(w, Horizon)
  BY <1>3
<1>5. FoldWaves(position) = CHOOSE f : IsWave(f, Horizon)
  BY DEF FoldWaves, Next1
<1>6. IsWave(FoldWaves(position), Horizon)
  <2> HIDE DEF IsWave
  <2>1. QED
    BY <1>4, <1>5
<1>7. QED
  <2> DEFINE f == FoldWaves(position)
  <2> HIDE DEF f
  <2>1. f = [ i \in 0 .. Horizon |-> IF i = 0 THEN position ELSE Next1(f[i - 1]) ]
    BY <1>6 DEF f
  <2>2. f[0] = position /\ \A i \in 1 .. Horizon : f[i] = Next1(f[i - 1])
    BY <1>0, <2>1
  <2>3. QED
    BY <2>2 DEF f, Next1

(* And so are the waves of the places of a model.                          *)
LEMMA PositionWavesAre ==
  ASSUME NEW model
  PROVE  /\ PositionWaves(model)[0] = {[path |-> << >>, position |-> Root(model)]}
         /\ \A i \in 1 .. Horizon :
              PositionWaves(model)[i] =
                UNION { PlacesBelow(place) : place \in PositionWaves(model)[i - 1] }
<1> DEFINE start == {[path |-> << >>, position |-> {[node |-> body[model], home |-> model[1]]}]}
           Next1(set) == UNION { PlacesBelow(place) : place \in set }
           IsWave(w, n) == w = [ i \in 0 .. n |-> IF i = 0 THEN start ELSE Next1(w[i - 1]) ]
           good == { n \in 0 .. Horizon : \E w : IsWave(w, n) }
<1>0. Horizon \in Nat
  BY BoundsAssumption
<1> HIDE DEF Next1, start
<1>1. 0 \in good
  <2>1. IsWave([ i \in 0 .. 0 |-> start ], 0)
    OBVIOUS
  <2>2. 0 \in 0 .. Horizon
    BY <1>0
  <2> HIDE DEF IsWave
  <2>3. QED
    BY <2>1, <2>2
<1>2. ASSUME NEW n \in 0 .. Horizon - 1, n \in good PROVE n + 1 \in good
  <2>1. PICK w : IsWave(w, n)
    BY <1>2
  <2> DEFINE longer == [ i \in 0 .. n + 1 |-> IF i <= n THEN w[i] ELSE Next1(w[n]) ]
  <2>2. ASSUME NEW i \in 0 .. n + 1
        PROVE  longer[i] = IF i = 0 THEN start ELSE Next1(longer[i - 1])
    <3>1. CASE i = 0
      BY <2>1, <3>1
    <3>2. CASE i # 0 /\ i <= n
      <4>1. i - 1 \in 0 .. n + 1 /\ i - 1 <= n /\ i \in 0 .. n
        BY <3>2
      <4>2. QED
        BY <2>1, <3>2, <4>1
    <3>3. CASE i = n + 1
      BY <3>3
    <3>4. QED
      BY <1>0, <3>1, <3>2, <3>3
  <2>3. IsWave(longer, n + 1)
    BY <2>2
  <2>4. n + 1 \in 0 .. Horizon
    BY <1>0
  <2> HIDE DEF longer, IsWave
  <2>5. QED
    BY <2>3, <2>4
<1>3. Horizon \in good
  <2> HIDE DEF good
  <2>1. good \in SUBSET (0 .. Horizon)
    BY DEF good
  <2>2. good = 0 .. Horizon
    BY <1>0, <1>1, <1>2, <2>1, UpTo
  <2>3. QED
    BY <1>0, <2>2
<1>4. PICK w : IsWave(w, Horizon)
  BY <1>3
<1>5. PositionWaves(model) = CHOOSE f : IsWave(f, Horizon)
  BY DEF PositionWaves, Next1, start
<1>6. IsWave(PositionWaves(model), Horizon)
  <2> HIDE DEF IsWave
  <2>1. QED
    BY <1>4, <1>5
<1>7. QED
  <2> DEFINE f == PositionWaves(model)
  <2> HIDE DEF f
  <2>1. f = [ i \in 0 .. Horizon |-> IF i = 0 THEN start ELSE Next1(f[i - 1]) ]
    BY <1>6 DEF f
  <2>2. f[0] = start /\ \A i \in 1 .. Horizon : f[i] = Next1(f[i - 1])
    BY <1>0, <2>1
  <2>3. QED
    BY <2>2 DEF f, Next1, start, Root, PartAt

(* While the models are what they are, so is all that is said about them.  *)
LEMMA SameModels ==
  ASSUME body' = body
  PROVE  /\ \A model : Declared(model)' <=> Declared(model)
         /\ \A model : Root(model)' = Root(model)
         /\ \A part : FoldedBy(part)' = FoldedBy(part)
         /\ \A position : FoldedParts(position)' = FoldedParts(position)
         /\ \A position : Conjuncts(position)' = Conjuncts(position)
         /\ \A model : PositionWaves(model)' = PositionWaves(model)
         /\ \A model : Places(model)' = Places(model)
<1>1. \A model : Declared(model)' <=> Declared(model)
  BY DEF Declared
<1>2. \A model : Root(model)' = Root(model)
  BY DEF Root
<1>3. \A part : FoldedBy(part)' = FoldedBy(part)
  BY DEF FoldedBy, Declared
<1>4. \A position : FoldWaves(position)' = FoldWaves(position)
  BY DEF FoldWaves, FoldedBy, Declared
<1>5. \A position : FoldedParts(position)' = FoldedParts(position)
  BY <1>4 DEF FoldedParts
<1>6. \A position : Conjuncts(position)' = Conjuncts(position)
  BY <1>5 DEF Conjuncts
<1>7. \A model : PositionWaves(model)' = PositionWaves(model)
  BY DEF PositionWaves, PlacesBelow, Conjuncts, FoldedParts, FoldWaves, FoldedBy, Declared
<1>8. \A model : Places(model)' = Places(model)
  BY <1>7 DEF Places
<1>9. QED
  BY <1>1, <1>2, <1>3, <1>5, <1>6, <1>7, <1>8

-----------------------------------------------------------------------------
(* What is kept of a place that is finished.                               *)
Entry(model, path, position) ==
  [model |-> model, path |-> path, parts |-> Conjuncts(position)]

(* The text of the model has this position at the end of this path.        *)
AtPlace(model, path, position) ==
  /\ Len(path) <= Horizon
  /\ [path |-> path, position |-> position] \in PositionWaves(model)[Len(path)]

(* What a part folds are parts.                                            *)
LEMMA FoldedByTyping ==
  ASSUME body \in [Models -> Nodes \cup {None}], NEW part \in Part
  PROVE  FoldedBy(part) \in SUBSET Part
<1>1. part.node \in Nodes /\ part.home \in Files
  BY DEF Part
<1>2. ASSUME NEW target \in Models, Declared(target)
      PROVE  [node |-> body[target], home |-> target[1]] \in Part
  BY <1>2, ModelsAreKeys DEF Declared, Part
<1>3. ASSUME NEW branch \in AllOf[part.node]
      PROVE  [node |-> branch, home |-> part.home] \in Part
  <2>1. branch \in Nodes
    BY <1>1, AllOfAssumption
  <2>2. QED
    BY <1>1, <2>1 DEF Part
<1>4. QED
  BY <1>2, <1>3 DEF FoldedBy

(* Everything folded into a position lies in a set that has the position   *)
(* and what its members fold.                                              *)
LEMMA ClosedParts ==
  ASSUME NEW position, NEW closed, position \subseteq closed,
         \A part \in closed : FoldedBy(part) \subseteq closed
  PROVE  /\ FoldedParts(position) \subseteq closed
         /\ \A i \in 0 .. Horizon : FoldWaves(position)[i] \subseteq closed
<1> DEFINE good == { i \in 0 .. Horizon : FoldWaves(position)[i] \subseteq closed }
<1>0. Horizon \in Nat
  BY BoundsAssumption
<1>1. 0 \in good
  BY <1>0, FoldWavesAre
<1>2. ASSUME NEW n \in 0 .. Horizon - 1, n \in good PROVE n + 1 \in good
  <2>1. n + 1 \in 1 .. Horizon /\ (n + 1) - 1 = n
    BY <1>0
  <2>2. FoldWaves(position)[n + 1] = UNION { FoldedBy(part) : part \in FoldWaves(position)[n] }
    BY <2>1, FoldWavesAre
  <2>3. QED
    BY <1>2, <2>1, <2>2
<1>3. good = 0 .. Horizon
  <2>1. good \in SUBSET (0 .. Horizon)
    OBVIOUS
  <2> HIDE DEF good
  <2>2. QED
    BY <1>0, <1>1, <1>2, <2>1, UpTo
<1>4. \A i \in 0 .. Horizon : FoldWaves(position)[i] \subseteq closed
  BY <1>3
<1>5. QED
  BY <1>4 DEF FoldedParts

(* What is folded into a position are parts.                               *)
LEMMA FoldedPartsTyping ==
  ASSUME body \in [Models -> Nodes \cup {None}], NEW position \in SUBSET Part
  PROVE  /\ FoldedParts(position) \in SUBSET Part
         /\ \A i \in 0 .. Horizon : FoldWaves(position)[i] \in SUBSET Part
         /\ Conjuncts(position) \in SUBSET Part
<1>1. \A part \in Part : FoldedBy(part) \subseteq Part
  BY FoldedByTyping
<1>2. /\ FoldedParts(position) \subseteq Part
      /\ \A i \in 0 .. Horizon : FoldWaves(position)[i] \subseteq Part
  BY <1>1, ClosedParts
<1>3. QED
  BY <1>2 DEF Conjuncts

(* One wave further.                                                       *)
LEMMA NextFoldWave ==
  ASSUME NEW position, NEW n \in 0 .. Horizon - 1, NEW part \in FoldWaves(position)[n],
         NEW folded \in FoldedBy(part)
  PROVE  folded \in FoldWaves(position)[n + 1]
<1>1. n + 1 \in 1 .. Horizon /\ (n + 1) - 1 = n
  BY BoundsAssumption
<1>2. FoldWaves(position)[n + 1] = UNION { FoldedBy(p) : p \in FoldWaves(position)[n] }
  BY <1>1, FoldWavesAre
<1>3. QED
  BY <1>2

(* What folds itself again and again is folded at every distance.          *)
LEMMA EndlessFold ==
  ASSUME NEW position, NEW n \in 0 .. Horizon, NEW chain,
         FoldWaves(position)[n] \cap chain # {},
         \A part \in chain : FoldedBy(part) \cap chain # {}
  PROVE  FoldWaves(position)[Horizon] # {}
<1> DEFINE bound == Horizon - n
           good == { i \in 0 .. bound : FoldWaves(position)[n + i] \cap chain # {} }
<1>0. Horizon \in Nat /\ n \in Nat /\ bound \in Nat
  BY BoundsAssumption
<1>1. 0 \in good
  BY <1>0
<1>2. ASSUME NEW i \in 0 .. bound - 1, i \in good PROVE i + 1 \in good
  <2>1. PICK part \in chain : part \in FoldWaves(position)[n + i]
    BY <1>2
  <2>2. PICK folded \in chain : folded \in FoldedBy(part)
    BY <2>1
  <2>3. n + i \in 0 .. Horizon - 1
    BY <1>0
  <2>4. folded \in FoldWaves(position)[(n + i) + 1]
    BY <2>1, <2>2, <2>3, NextFoldWave
  <2>5. i + 1 \in 0 .. bound /\ (n + i) + 1 = n + (i + 1)
    BY <1>0
  <2>6. QED
    BY <2>2, <2>4, <2>5
<1>3. good = 0 .. bound
  <2>1. good \in SUBSET (0 .. bound)
    OBVIOUS
  <2> HIDE DEF good, bound
  <2>2. QED
    BY <1>0, <1>1, <1>2, <2>1, UpTo
<1>4. bound \in good
  <2> HIDE DEF good, bound
  <2>1. QED
    BY <1>0, <1>3
<1>5. n + bound = Horizon
  BY <1>0
<1>6. QED
  BY <1>4, <1>5

-----------------------------------------------------------------------------
(* What is left as a reference is one in the text.                         *)
LEMMA ReferencesStay ==
  ASSUME NEW position
  PROVE  IsReference(Conjuncts(position)) <=> IsReference(position)
<1>1. CASE IsFolded(position)
  <2>1. ~ IsReference(position)
    BY <1>1 DEF IsFolded
  <2>2. \A part \in Conjuncts(position) : Own[part.node]
    BY <1>1 DEF Conjuncts
  <2>3. ~ IsReference(Conjuncts(position))
    BY <2>2 DEF IsReference, IsBareRef
  <2>4. QED
    BY <2>1, <2>3
<1>2. CASE ~ IsFolded(position)
  BY <1>2 DEF Conjuncts
<1>3. QED
  BY <1>1, <1>2

(* The place of a model itself.                                            *)
LEMMA RootPlace ==
  ASSUME NEW model
  PROVE  AtPlace(model, << >>, Root(model))
<1>1. Len(<< >>) = 0 /\ 0 <= Horizon
  BY BoundsAssumption
<1>2. QED
  BY <1>1, PositionWavesAre DEF AtPlace

(* The places below a place.                                               *)
LEMMA ChildPlace ==
  ASSUME NEW model, NEW path \in Seq(Names), NEW position,
         AtPlace(model, path, position), ~ IsReference(position), Len(path) < Horizon,
         NEW name \in Names, name \in ChildNames(Conjuncts(position))
  PROVE  AtPlace(model, Append(path, name), ChildAt(Conjuncts(position), name))
<1> DEFINE place == [path |-> path, position |-> position]
           child == [path |-> Append(path, name), position |-> ChildAt(Conjuncts(position), name)]
<1>1. /\ Len(path) \in Nat /\ Len(Append(path, name)) = Len(path) + 1
      /\ Len(path) + 1 \in 1 .. Horizon /\ (Len(path) + 1) - 1 = Len(path)
  BY BoundsAssumption
<1>2. place \in PositionWaves(model)[Len(path)]
  BY DEF AtPlace
<1>3. child \in PlacesBelow(place)
  BY DEF PlacesBelow
<1>4. PositionWaves(model)[Len(path) + 1] =
        UNION { PlacesBelow(p) : p \in PositionWaves(model)[Len(path)] }
  BY <1>1, PositionWavesAre
<1>5. child \in PositionWaves(model)[Len(path) + 1]
  BY <1>2, <1>3, <1>4
<1>6. QED
  BY <1>1, <1>5 DEF AtPlace

(* A place of some depth is a place of the model.                          *)
LEMMA PlaceIsThere ==
  ASSUME NEW model, NEW path \in Seq(Names), NEW position, AtPlace(model, path, position)
  PROVE  [path |-> path, position |-> position] \in Places(model)
<1>1. Len(path) \in 0 .. Horizon
  BY BoundsAssumption DEF AtPlace
<1>2. QED
  BY <1>1 DEF AtPlace, Places

(* What holds of the root and of what is below a place holds everywhere.   *)
LEMMA EveryPlace ==
  ASSUME NEW model, NEW settled,
         [path |-> << >>, position |-> Root(model)] \in settled,
         \A place \in settled : PlacesBelow(place) \subseteq settled
  PROVE  Places(model) \subseteq settled
<1> DEFINE good == { i \in 0 .. Horizon : PositionWaves(model)[i] \subseteq settled }
<1>0. Horizon \in Nat
  BY BoundsAssumption
<1>1. 0 \in good
  BY <1>0, PositionWavesAre
<1>2. ASSUME NEW n \in 0 .. Horizon - 1, n \in good PROVE n + 1 \in good
  <2>1. n + 1 \in 1 .. Horizon /\ (n + 1) - 1 = n
    BY <1>0
  <2>2. PositionWaves(model)[n + 1] = UNION { PlacesBelow(place) : place \in PositionWaves(model)[n] }
    BY <2>1, PositionWavesAre
  <2>3. QED
    BY <1>2, <2>1, <2>2
<1>3. good = 0 .. Horizon
  <2>1. good \in SUBSET (0 .. Horizon)
    OBVIOUS
  <2> HIDE DEF good
  <2>2. QED
    BY <1>0, <1>1, <1>2, <2>1, UpTo
<1>4. QED
  BY <1>3 DEF Places

(* Places have paths of names and positions of parts.                      *)
LEMMA PlaceTyping ==
  ASSUME body \in [Models -> Nodes \cup {None}], NEW model \in Models, Declared(model)
  PROVE  Places(model) \subseteq [path : Seq(Names), position : SUBSET Part]
<1> DEFINE typed == [path : Seq(Names), position : SUBSET Part]
<1>1. [path |-> << >>, position |-> Root(model)] \in typed
  <2>1. Root(model) \in SUBSET Part
    BY ModelsAreKeys DEF Root, PartAt, Part, Declared
  <2>2. QED
    BY <2>1
<1>2. ASSUME NEW place \in typed PROVE PlacesBelow(place) \subseteq typed
  <2>1. place.path \in Seq(Names) /\ place.position \in SUBSET Part
    OBVIOUS
  <2>2. Conjuncts(place.position) \in SUBSET Part
    BY <2>1, FoldedPartsTyping
  <2>3. /\ ChildNames(Conjuncts(place.position)) \in SUBSET Names
        /\ \A name : ChildAt(Conjuncts(place.position), name) \in SUBSET Part
    BY <2>2, ChildTyping
  <2>4. \A name \in ChildNames(Conjuncts(place.position)) : Append(place.path, name) \in Seq(Names)
    BY <2>1, <2>3
  <2>5. QED
    BY <2>3, <2>4 DEF PlacesBelow
<1> HIDE DEF typed
<1>3. QED
  BY <1>1, <1>2, EveryPlace DEF typed

(* A path from a place above to a child of it.                             *)
LEMMA PrefixOfChild ==
  ASSUME NEW above \in Seq(Names), NEW path \in Seq(Names), NEW name \in Names,
         IsPrefix(above, path)
  PROVE  IsStrictPrefix(above, Append(path, name))
<1>1. Len(above) \in Nat /\ Len(path) \in Nat /\ Len(above) <= Len(path)
  BY DEF IsPrefix
<1>2. Len(Append(path, name)) = Len(path) + 1
  OBVIOUS
<1>3. \A i \in 1 .. Len(above) : above[i] = path[i]
  <2>1. \A i \in 1 .. Len(above) : above[i] \in Names /\ path[i] \in Names
    BY <1>1
  <2>2. /\ \A i \in 1 .. Len(above) - 1 + 1 : SubSeq(above, 1, Len(above))[i] = above[1 + i - 1]
        /\ \A i \in 1 .. Len(above) - 1 + 1 : SubSeq(path, 1, Len(above))[i] = path[1 + i - 1]
    <3>1. 1 \in Int /\ Len(above) \in Int
      BY <1>1
    <3>2. QED
      BY <2>1, <3>1, SubSeqProperties
  <2>3. SubSeq(above, 1, Len(above)) = SubSeq(path, 1, Len(above))
    BY DEF IsPrefix
  <2>4. \A i \in 1 .. Len(above) : i \in 1 .. Len(above) - 1 + 1 /\ 1 + i - 1 = i
    BY <1>1
  <2> QED
    BY <2>2, <2>3, <2>4
<1>4. SubSeq(above, 1, Len(above)) = SubSeq(Append(path, name), 1, Len(above))
  <2>1. \A i \in 1 .. Len(above) : Append(path, name)[i] = above[i]
    BY <1>1, <1>3
  <2>2. SubSeq(above, 1, Len(above)) = [ i \in 1 .. Len(above) |-> above[i] ]
    BY <1>1
  <2>3. SubSeq(Append(path, name), 1, Len(above)) = [ i \in 1 .. Len(above) |-> Append(path, name)[i] ]
    BY <1>1, <1>2
  <2>4. QED
    BY <2>1, <2>2, <2>3
<1>5. QED
  BY <1>1, <1>2, <1>4 DEF IsStrictPrefix, IsPrefix

-----------------------------------------------------------------------------
(* The cycle stack of the position under way.                              *)
Top == TopOf(walk, current)

(* What an item of an expansion stands for: its node, at each home.        *)
PartsOf(item) == { PartAt(item.node, home) : home \in item.homes }

(* Parts that the expansion has yet to come to.                            *)
Unexpanded == UNION { PartsOf(item) : item \in fold.pending }

(* One part folds another, over parts each of which folds a further one.   *)
Leads(from, to) ==
  \E chain \in SUBSET Part :
    /\ from \in chain /\ to \in chain
    /\ \A part \in chain \ {to} : FoldedBy(part) \cap chain # {}

(* How far an item is from the position: the models and the nested allOfs  *)
(* on the way to it bound that.                                            *)
Reached(item, position, top) ==
  \E n \in 0 .. Horizon :
    /\ n + Nesting[item.node] <= MaxNesting + (MaxNesting + 1) * Cardinality(item.trail \ top)
    /\ PartsOf(item) \subseteq FoldWaves(position)[n]

(* The models that an item's trail has besides are those on the way to it. *)
ItemTraced(item, position, top) ==
  /\ item.homes # {} /\ top \subseteq item.trail
  /\ Reached(item, position, top)
  /\ \A model \in item.trail \ top :
       /\ model \in Models
       /\ \A part \in PartsOf(item) : Leads(PartAt(body[model], model[1]), part)

(* What is expanded and its own keywords are kept; the rest is to come.    *)
Covered(done, position) ==
  /\ position \subseteq done \cup Unexpanded
  /\ \A part \in done :
       /\ FoldedBy(part) \subseteq done \cup Unexpanded
       /\ Own[part.node] => part \in fold.parts

(* A reference of the position itself means the same in both files, or is  *)
(* still to be read.                                                       *)
ReadLocally(position) ==
  \A part \in position :
    Target[part.node] # None =>
      \/ Resolve(Target[part.node], part.home) = Resolve(Target[part.node], current[1])
      \/ \E item \in fold.pending :
           item.node = part.node /\ item.file = current[1] /\ part.home \in item.homes

(* The expansion under way is that of a position.                          *)
Expands(position) ==
  /\ position \in SUBSET Part /\ IsFolded(position)
  /\ fold.cycle = Top \cup Followed(position, current[1])
  /\ \A item \in fold.pending : ItemTraced(item, position, Top)
  /\ \A part \in fold.parts : Own[part.node] /\ part \in FoldedParts(position)
  /\ \E done \in SUBSET Part : Covered(done, position)
  /\ ReadLocally(position)

(* A place above that follows a reference to the model.                    *)
Follows(above, model, key) ==
  above \in Places(model) /\ FollowsReference(above.position) /\ key \in TargetsOf(above.position)

(* A frame is a place with its conjuncts, and each model on its stack is   *)
(* folded by a $ref with siblings at the place or above it.                *)
FrameTraced(frame, model) ==
  /\ frame.todo \subseteq ChildNames(frame.parts)
  /\ \E position \in SUBSET Part :
       /\ AtPlace(model, frame.path, position) /\ ~ IsReference(position)
       /\ frame.parts = Conjuncts(position)
  /\ \A key \in frame.cycle \ {model} :
       \E above : IsPrefix(above.path, frame.path) /\ Follows(above, model, key)

(* The walk is the way to a place of the model under way.                  *)
FramesTraced == \A i \in 1 .. Len(walk) : Len(walk[i].path) = i - 1 /\ FrameTraced(walk[i], current)

(* What is kept is a place of its model with the place's conjuncts; a      *)
(* reference that is kept means the same as where it was written.          *)
EntryTraced(entry) ==
  /\ Declared(entry.model)
  /\ \E position \in SUBSET Part :
       /\ AtPlace(entry.model, entry.path, position) /\ entry.parts = Conjuncts(position)
       /\ IsReference(position) =>
            \A part \in position :
              Resolve(Target[part.node], part.home) = Resolve(Target[part.node], entry.model[1])

EntriesTraced == \A entry \in flat : EntryTraced(entry)

(* The expansion under way is that of a place below the walk.              *)
FoldTraced ==
  fold # None =>
    /\ Len(fold.path) = Len(walk)
    /\ \E position \in SUBSET Part : AtPlace(current, fold.path, position) /\ Expands(position)
    /\ \A key \in Top \ {current} :
         \E above : IsStrictPrefix(above.path, fold.path) /\ Follows(above, current, key)

(* A place that is finished, or being expanded.                            *)
Settled(model, path, position) ==
  \/ Entry(model, path, position) \in flat
  \/ model = current /\ fold # None /\ fold.path = path /\ Expands(position)

(* A child that a frame has yet to visit.                                  *)
Awaited(entry, name) ==
  /\ entry.model = current
  /\ \E i \in 1 .. Len(walk) :
       walk[i].path = entry.path /\ walk[i].parts = entry.parts /\ name \in walk[i].todo

(* Every child of a place that is kept is kept, or to come.                *)
EntrySettled(entry) ==
  ~ IsReference(entry.parts) =>
    \A name \in ChildNames(entry.parts) :
      Awaited(entry, name) \/ Settled(entry.model, Append(entry.path, name), ChildAt(entry.parts, name))

EntriesSettled == \A entry \in flat : EntrySettled(entry)

(* Every declared model is kept, or to come.                               *)
RootsSettled ==
  \A model \in Models :
    Declared(model) => model \in Range(queue) \/ Settled(model, << >>, Root(model))

(* The state of the walk says what the authored text says, if references   *)
(* were read in the files they are written in.                             *)
Faithful ==
  /\ current # None => Declared(current)
  /\ ReadAtHome => FramesTraced /\ EntriesTraced /\ FoldTraced /\ EntriesSettled /\ RootsSettled

-----------------------------------------------------------------------------
(* While the models are what they are, so is what the text has at a place. *)
LEMMA SamePlaces ==
  ASSUME body' = body
  PROVE  /\ \A model, path, position : AtPlace(model, path, position)' <=> AtPlace(model, path, position)
         /\ \A model, path, position : Entry(model, path, position)' = Entry(model, path, position)
         /\ \A position : FoldWaves(position)' = FoldWaves(position)
         /\ \A from, to : Leads(from, to)' <=> Leads(from, to)
         /\ \A above, model, key : Follows(above, model, key)' <=> Follows(above, model, key)
         /\ \A frame, model : FrameTraced(frame, model)' <=> FrameTraced(frame, model)
         /\ \A entry : EntryTraced(entry)' <=> EntryTraced(entry)
         /\ \A item, position, top : ItemTraced(item, position, top)' <=> ItemTraced(item, position, top)
<1>1. \A model, path, position : AtPlace(model, path, position)' <=> AtPlace(model, path, position)
  BY SameModels DEF AtPlace
<1>2. \A model, path, position : Entry(model, path, position)' = Entry(model, path, position)
  BY SameModels DEF Entry
<1>3. \A position : FoldWaves(position)' = FoldWaves(position)
  BY DEF FoldWaves, FoldedBy, Declared
<1>4. \A from, to : Leads(from, to)' <=> Leads(from, to)
  BY SameModels DEF Leads
<1>5. \A above, model, key : Follows(above, model, key)' <=> Follows(above, model, key)
  BY SameModels DEF Follows
<1>6. \A frame, model : FrameTraced(frame, model)' <=> FrameTraced(frame, model)
  BY <1>1, <1>5, SameModels DEF FrameTraced
<1>7. \A entry : EntryTraced(entry)' <=> EntryTraced(entry)
  BY <1>1, SameModels DEF EntryTraced
<1>8. \A item, position, top : Reached(item, position, top)' <=> Reached(item, position, top)
  BY <1>3 DEF Reached
<1>9. \A item, position, top : ItemTraced(item, position, top)' <=> ItemTraced(item, position, top)
  BY <1>4, <1>8 DEF ItemTraced
<1>10. QED
  BY <1>1, <1>2, <1>3, <1>4, <1>5, <1>6, <1>7, <1>9

(* What has been read stays read.                                          *)
LEMMA ReadGrows ==
  ASSUME read \subseteq read', ReadAtHome' PROVE ReadAtHome
BY DEF ReadAtHome

(* An expansion that is not touched is still that of its position.         *)
LEMMA SameExpansion ==
  ASSUME body' = body, fold' = fold, walk' = walk, current' = current
  PROVE  \A position : Expands(position)' <=> Expands(position)
<1>1. Top' = Top
  BY DEF Top
<1>2. Unexpanded' = Unexpanded
  BY DEF Unexpanded
<1>3. \A done, position : Covered(done, position)' <=> Covered(done, position)
  BY <1>2, SameModels DEF Covered
<1>4. \A position : ReadLocally(position)' <=> ReadLocally(position)
  BY DEF ReadLocally
<1>5. \A position : FoldedParts(position)' = FoldedParts(position)
  BY SameModels
<1>6. \A item, position, top : ItemTraced(item, position, top)' <=> ItemTraced(item, position, top)
  BY SamePlaces
<1>7. QED
  BY <1>1, <1>3, <1>4, <1>5, <1>6 DEF Expands

(* The model under way is on every cycle stack, and they are names.        *)
LEMMA TopTyping ==
  ASSUME TypeOK, CycleStack, current \in Models
  PROVE  Top \in SUBSET Keys /\ current \in Top
<1>1. CASE walk = << >>
  BY <1>1, ModelsAreKeys DEF Top, TopOf
<1>2. CASE walk # << >>
  <2>1. walk \in Seq(Frames) /\ Len(walk) \in 1 .. Len(walk)
    BY <1>2 DEF TypeOK
  <2>2. walk[Len(walk)] \in Frames /\ current \in walk[Len(walk)].cycle
    BY <2>1 DEF CycleStack, StackOf
  <2>3. QED
    BY <1>2, <2>2 DEF Top, TopOf, Frames
<1>3. QED
  BY <1>1, <1>2

-----------------------------------------------------------------------------
(* A fold begins with all of its position to expand.                       *)
LEMMA BeginExpands ==
  ASSUME body' = body, NEW model \in Models, current' = model, NEW position \in SUBSET Part,
         NEW path \in Seq(Names), NEW below, TopOf(below, model) \in SUBSET Keys,
         BeginFold(model, position, TopOf(below, model), path, below)
  PROVE  fold' # None /\ fold'.path = path /\ Expands(position)'
<1> DEFINE top == TopOf(below, model)
           Item(part) ==
             [ node |-> part.node, file |-> model[1], trail |-> top,
               homes |-> { p.home : p \in { q \in position : q.node = part.node } } ]
           pending == { Item(part) : part \in position }
<1>1. /\ walk' = below /\ IsFolded(position)
      /\ fold' = [ path |-> path, pending |-> pending, parts |-> {},
                   cycle |-> top \cup Followed(position, model[1]),
                   by |-> IF FollowsReference(position) THEN "implicit" ELSE "explicit" ]
  BY DEF BeginFold
<1>2. ASSUME NEW part \in position
      PROVE  /\ Item(part) \in pending /\ Item(part).node = part.node
             /\ Item(part).file = model[1] /\ Item(part).trail = top
             /\ part.home \in Item(part).homes
             /\ \A home \in Item(part).homes : PartAt(part.node, home) \in position
             /\ part = PartAt(part.node, part.home)
  <2>1. \A p \in position : p = PartAt(p.node, p.home)
    BY DEF Part, PartAt
  <2>2. QED
    BY <2>1
<1>3. \A item \in pending : \E part \in position : item = Item(part)
  OBVIOUS
<1> HIDE DEF Item, pending
<1>4. /\ fold'.path = path /\ fold'.pending = pending /\ fold'.parts = {}
      /\ fold'.cycle = top \cup Followed(position, model[1])
  BY <1>1
<1>5. fold' # None
  <2>1. fold' \in Folds
    BY BeginTyping
  <2>2. QED
    BY <2>1, NoFoldAssumption
<1>6. Top' = top
  BY <1>1 DEF Top
<1>7. ASSUME NEW part \in position PROVE ItemTraced(Item(part), position, top)
  <2>1. Item(part).homes # {} /\ top \subseteq Item(part).trail /\ Item(part).trail \ top = {}
    BY <1>2
  <2>2. Reached(Item(part), position, top)
    <3>1. 0 \in 0 .. Horizon /\ MaxNesting \in Nat
      BY BoundsAssumption, NestingAssumption
    <3>2. Cardinality(Item(part).trail \ top) = 0
      BY <2>1, FS_EmptySet
    <3>3. Nesting[Item(part).node] \in 0 .. MaxNesting
      BY <1>2, NestingAssumption DEF Part
    <3>4. PartsOf(Item(part)) \subseteq FoldWaves(position)[0]
      BY <1>2, FoldWavesAre DEF PartsOf
    <3>5. QED
      BY <3>1, <3>2, <3>3, <3>4 DEF Reached
  <2>3. QED
    BY <2>1, <2>2 DEF ItemTraced
<1>8. \A item \in pending : ItemTraced(item, position, top)'
  BY <1>3, <1>7, SamePlaces
<1>9. position \subseteq Unexpanded'
  BY <1>2, <1>4 DEF Unexpanded, PartsOf
<1>10. Covered({}, position)'
  BY <1>9 DEF Covered
<1>11. ReadLocally(position)'
  BY <1>2, <1>4 DEF ReadLocally
<1>12. Expands(position)'
  <2>1. \E done \in SUBSET Part : Covered(done, position)'
    BY <1>10
  <2>2. QED
    BY <1>1, <1>4, <1>6, <1>8, <2>1, <1>11 DEF Expands
<1>13. QED
  BY <1>4, <1>5, <1>12

(* A visit leaves its position finished, or being expanded.                *)
LEMMA VisitTraces ==
  ASSUME TypeOK, TypeOK', body' = body, NEW model \in Models, Declared(model), current' = model,
         fold = None, NEW position \in SUBSET Part, NEW path \in Seq(Names), NEW below \in Seq(Frames),
         Len(path) = Len(below), AtPlace(model, path, position),
         \A key \in TopOf(below, model) \ {model} :
           \E above : IsStrictPrefix(above.path, path) /\ Follows(above, model, key),
         TopOf(below, model) \in SUBSET Keys,
         \A i \in 1 .. Len(below) : Len(below[i].path) = i - 1 /\ FrameTraced(below[i], model),
         Visit(model, position, TopOf(below, model), path, below),
         ReadAtHome', EntriesTraced
  PROVE  /\ FramesTraced' /\ EntriesTraced' /\ FoldTraced' /\ Settled(model, path, position)'
         /\ flat \subseteq flat' /\ \A entry \in flat' \ flat : EntrySettled(entry)'
         /\ Len(below) <= Len(walk') /\ \A i \in 1 .. Len(below) : walk'[i] = below[i]
<1> DEFINE top == TopOf(below, model)
           arrived == [model |-> model, path |-> path, parts |-> position]
<1>0. Len(below) \in Nat
  OBVIOUS
<1>1. ASSUME walk' = below PROVE FramesTraced'
  BY <1>1, SamePlaces DEF FramesTraced
<1>2. ASSUME flat' = flat PROVE EntriesTraced'
  BY <1>2, SamePlaces DEF EntriesTraced
<1>3. ASSUME ~ IsFolded(position), flat' = flat \cup {arrived},
             IsReference(position) =>
               \A part \in position :
                 Resolve(Target[part.node], part.home) = Resolve(Target[part.node], model[1])
      PROVE  EntriesTraced' /\ Settled(model, path, position)'
  <2>1. position = Conjuncts(position)
    BY <1>3 DEF Conjuncts
  <2>2. EntryTraced(arrived)
    BY <1>3, <2>1 DEF EntryTraced
  <2>3. \A entry \in flat' : EntryTraced(entry)'
    BY <1>3, <2>2, SamePlaces DEF EntriesTraced
  <2>4. Entry(model, path, position) = arrived
    BY <2>1 DEF Entry
  <2>5. Entry(model, path, position)' \in flat'
    BY <1>3, <2>4, SamePlaces
  <2>6. QED
    BY <2>3, <2>5 DEF EntriesTraced, Settled
<1>4. CASE KeepReference(model, position, path, below)
  <2>1. /\ IsReference(position) /\ flat' = flat \cup {arrived} /\ walk' = below /\ fold' = None
        /\ read' = read \cup
             { [reference |-> Target[part.node], home |-> part.home, file |-> model[1]] :
                 part \in position }
    BY <1>4 DEF KeepReference, Arrive
  <2>2. ASSUME NEW part \in position
        PROVE  Resolve(Target[part.node], part.home) = Resolve(Target[part.node], model[1])
    <3>1. [reference |-> Target[part.node], home |-> part.home, file |-> model[1]] \in read'
      BY <2>1
    <3>2. QED
      BY <3>1 DEF ReadAtHome
  <2>3. ~ IsFolded(position)
    BY <2>1 DEF IsFolded
  <2>4. \A entry \in flat' \ flat : EntrySettled(entry)'
    BY <2>1 DEF EntrySettled
  <2>5. EntriesTraced' /\ Settled(model, path, position)'
    BY <1>3, <2>1, <2>2, <2>3
  <2>6. FoldTraced'
    BY <2>1 DEF FoldTraced
  <2>7. QED
    BY <1>0, <1>1, <2>1, <2>4, <2>5, <2>6
<1>5. CASE EnterPlain(model, position, top, path, below)
  <2> DEFINE frame == Frame(path, position, top, "plain")
  <2>1. /\ ~ IsReference(position) /\ ~ IsFolded(position) /\ flat' = flat \cup {arrived}
        /\ walk' = Append(below, frame) /\ fold' = None
    BY <1>5 DEF EnterPlain, Arrive
  <2>2. /\ frame.path = path /\ frame.parts = position /\ frame.cycle = top
        /\ frame.todo = ChildNames(position)
    BY DEF Frame
  <2>3. frame \in Frames
    BY FrameTyping
  <2>4. FrameTraced(frame, model)
    <3>1. position = Conjuncts(position)
      BY <2>1 DEF Conjuncts
    <3>2. \A key \in top \ {model} : \E above : IsPrefix(above.path, path) /\ Follows(above, model, key)
      BY DEF IsStrictPrefix
    <3>3. QED
      BY <2>1, <2>2, <3>1, <3>2 DEF FrameTraced
  <2> HIDE DEF frame
  <2>5. /\ Len(walk') = Len(below) + 1 /\ walk'[Len(below) + 1] = frame
        /\ \A i \in 1 .. Len(below) : walk'[i] = below[i]
    BY <2>1, <2>3
  <2>6. FramesTraced'
    <3>1. \A i \in 1 .. Len(below) + 1 : Len(walk'[i].path) = i - 1 /\ FrameTraced(walk'[i], model)
      <4> SUFFICES ASSUME NEW i \in 1 .. Len(below) + 1
                   PROVE  Len(walk'[i].path) = i - 1 /\ FrameTraced(walk'[i], model)
        OBVIOUS
      <4>1. CASE i = Len(below) + 1
        BY <1>0, <2>2, <2>4, <2>5, <4>1
      <4>2. CASE i \in 1 .. Len(below)
        BY <2>5, <4>2
      <4>3. QED
        BY <1>0, <4>1, <4>2
    <3>2. QED
      BY <2>5, <3>1, SamePlaces DEF FramesTraced
  <2>7. EntrySettled(arrived)'
    <3>1. Len(below) + 1 \in 1 .. Len(walk')
      BY <1>0, <2>5
    <3>2. \A name \in ChildNames(position) : Awaited(arrived, name)'
      BY <2>2, <2>5, <3>1 DEF Awaited
    <3>3. QED
      BY <3>2 DEF EntrySettled
  <2>8. EntriesTraced' /\ Settled(model, path, position)'
    BY <1>3, <2>1
  <2>9. FoldTraced'
    BY <2>1 DEF FoldTraced
  <2>10. QED
    BY <1>0, <2>1, <2>5, <2>6, <2>7, <2>8, <2>9
<1>6. CASE BeginFold(model, position, top, path, below)
  <2>1. walk' = below /\ flat' = flat
    BY <1>6 DEF BeginFold
  <2>3. fold' # None /\ fold'.path = path /\ Expands(position)'
    BY <1>6, BeginExpands
  <2>4. Settled(model, path, position)'
    BY <2>3 DEF Settled
  <2>5. Top' = top
    BY <2>1 DEF Top
  <2>6. AtPlace(model, path, position)'
    BY SamePlaces
  <2>7. \A key \in top \ {model} :
          \E above : IsStrictPrefix(above.path, path) /\ Follows(above, model, key)'
    BY SamePlaces
  <2>8. FoldTraced'
    BY <2>1, <2>3, <2>5, <2>6, <2>7 DEF FoldTraced
  <2>9. QED
    BY <1>0, <1>1, <1>2, <2>1, <2>4, <2>8
<1>7. QED
  BY <1>4, <1>5, <1>6 DEF Visit

-----------------------------------------------------------------------------
(* A way of folds is a step longer.                                        *)
LEMMA LeadsOn ==
  ASSUME NEW from \in Part, NEW part \in Part, NEW next \in Part, next \in FoldedBy(part)
  PROVE  Leads(from, from) /\ (Leads(from, part) => Leads(from, next))
<1>1. Leads(from, from)
  <2>1. {from} \in SUBSET Part
    OBVIOUS
  <2>2. QED
    BY <2>1 DEF Leads
<1>2. ASSUME Leads(from, part) PROVE Leads(from, next)
  <2>1. PICK chain \in SUBSET Part :
          /\ from \in chain /\ part \in chain
          /\ \A p \in chain \ {part} : FoldedBy(p) \cap chain # {}
    BY <1>2 DEF Leads
  <2> DEFINE longer == chain \cup {next}
  <2>2. longer \in SUBSET Part /\ from \in longer /\ next \in longer
    BY <2>1
  <2>3. \A p \in longer \ {next} : FoldedBy(p) \cap longer # {}
    BY <2>1
  <2> HIDE DEF longer
  <2>4. QED
    BY <2>2, <2>3 DEF Leads
<1>3. QED
  BY <1>1, <1>2

(* The distance that the models on the way allow is below the horizon.     *)
LEMMA Deeper ==
  ASSUME NEW n \in Nat, NEW nest \in Nat, NEW nest2 \in 0 .. MaxNesting, NEW c \in Nat, NEW c2 \in Nat,
         n + nest <= MaxNesting + (MaxNesting + 1) * c,
         c2 + 1 <= Cardinality(Models),
         (c2 = c /\ nest2 < nest) \/ c2 = c + 1
  PROVE  /\ n + 1 \in 0 .. Horizon /\ n \in 0 .. Horizon - 1
         /\ n + 1 + nest2 <= MaxNesting + (MaxNesting + 1) * c2
<1> DEFINE k == MaxNesting + 1
<1>1. MaxNesting \in Nat /\ k \in Nat /\ Horizon \in Nat /\ Cardinality(Models) \in Nat
  <2>1. MaxNesting \in Nat /\ Horizon \in Nat
    BY NestingAssumption, BoundsAssumption
  <2>2. Cardinality(Models) \in Nat
    BY ModelsAssumption, FS_CardinalityType
  <2>3. QED
    BY <2>1, <2>2
<1>2. k * Cardinality(Models) <= Horizon + 1
  BY BoundsAssumption
<1> HIDE DEF k
<1>3. k * c \in Nat /\ k * c2 \in Nat /\ k * (c + 1) = k * c + k /\ k * (c2 + 1) = k * c2 + k
  BY <1>1
<1>4. n + 1 + nest2 <= MaxNesting + k * c2
  <2>1. n + nest <= MaxNesting + k * c /\ k = MaxNesting + 1
    BY DEF k
  <2>2. CASE c2 = c /\ nest2 < nest
    <3>1. n + 1 + nest2 <= n + nest
      BY <1>1, <2>2
    <3>2. QED
      BY <1>1, <1>3, <2>1, <2>2, <3>1
  <2>3. CASE c2 = c + 1
    <3>1. k * c2 = k * c + k
      BY <1>3, <2>3
    <3>2. QED
      BY <1>1, <1>3, <2>1, <3>1
  <2>4. QED
    BY <2>2, <2>3
<1>5. k * (c2 + 1) <= k * Cardinality(Models)
  <2>1. PICK more \in Nat : Cardinality(Models) = (c2 + 1) + more
    <3>1. Cardinality(Models) - (c2 + 1) \in Nat /\ Cardinality(Models) = (c2 + 1) + (Cardinality(Models) - (c2 + 1))
      BY <1>1
    <3>2. QED
      BY <3>1
  <2>2. k * Cardinality(Models) = k * (c2 + 1) + k * more /\ k * more \in Nat
    BY <1>1, <2>1
  <2>3. k * (c2 + 1) \in Nat
    BY <1>1
  <2>4. QED
    BY <2>2, <2>3
<1>6. n + 1 <= Horizon
  <2>1. k = MaxNesting + 1 /\ nest2 \in Nat
    BY <1>1 DEF k
  <2>2. k * Cardinality(Models) \in Nat
    BY <1>1
  <2>3. QED
    BY <1>1, <1>2, <1>3, <1>4, <1>5, <2>1, <2>2
<1>7. QED
  BY <1>1, <1>4, <1>6 DEF k

(* What an item stands for folds what its expansion stands for.            *)
LEMMA ItemFolds ==
  ASSUME NEW item \in Items,
         \A home \in item.homes :
           Target[item.node] # None => Resolve(Target[item.node], home) = TargetOf(item),
         Target[item.node] # None => Declared(TargetOf(item)),
         NEW home \in item.homes
  PROVE  FoldedBy(PartAt(item.node, home)) =
           { PartAt(body[target], target[1]) :
               target \in IF Target[item.node] = None THEN {} ELSE {TargetOf(item)} }
           \cup { PartAt(branch, home) : branch \in AllOf[item.node] }
<1>1. PartAt(item.node, home).node = item.node /\ PartAt(item.node, home).home = home
  BY DEF PartAt
<1>2. CASE Target[item.node] = None
  BY <1>1, <1>2 DEF FoldedBy, PartAt
<1>3. CASE Target[item.node] # None
  <2>1. TargetOf(item) \in Models /\ Declared(TargetOf(item)) /\ Resolve(Target[item.node], home) = TargetOf(item)
    BY <1>3 DEF Declared
  <2>2. { m \in Models : /\ Target[item.node] # None /\ m = Resolve(Target[item.node], home) /\ Declared(m) }
           = {TargetOf(item)}
    BY <1>3, <2>1
  <2>3. QED
    BY <1>1, <1>3, <2>2 DEF FoldedBy, PartAt
<1>4. QED
  BY <1>2, <1>3

(* The items that an expansion leaves are traced as the item was.          *)
LEMMA ExpansionTraced ==
  ASSUME TypeOK, CycleStack, current \in Models, NEW item \in Items,
         \A home \in item.homes :
           Target[item.node] # None => Resolve(Target[item.node], home) = TargetOf(item),
         Target[item.node] # None => TargetOf(item) \notin item.trail /\ Declared(TargetOf(item)),
         NEW position \in SUBSET Part, ItemTraced(item, position, Top)
  PROVE  \A next \in Expansion(item) : ItemTraced(next, position, Top)
<1> DEFINE beyond(i) == i.trail \ Top
<1>0. /\ item.node \in Nodes /\ item.file \in Files
      /\ item.homes \in SUBSET Files /\ item.trail \in SUBSET Keys
  BY DEF Items
<1>1. body \in [Models -> Nodes \cup {None}] /\ MaxNesting \in Nat /\ Horizon \in Nat
  BY NestingAssumption, BoundsAssumption DEF TypeOK
<1>2. /\ item.homes # {} /\ Top \subseteq item.trail
      /\ \A model \in beyond(item) :
           /\ model \in Models
           /\ \A part \in PartsOf(item) : Leads(PartAt(body[model], model[1]), part)
  BY DEF ItemTraced
<1>3. PICK n \in 0 .. Horizon :
        /\ n + Nesting[item.node] <= MaxNesting + (MaxNesting + 1) * Cardinality(beyond(item))
        /\ PartsOf(item) \subseteq FoldWaves(position)[n]
  BY DEF ItemTraced, Reached
<1>4. ASSUME NEW some \in SUBSET (Models \ {current})
      PROVE  IsFiniteSet(some) /\ Cardinality(some) \in Nat /\ Cardinality(some) + 1 <= Cardinality(Models)
  <2>1. IsFiniteSet(Models \ {current}) /\ Cardinality(Models \ {current}) = Cardinality(Models) - 1
    BY ModelsAssumption, FS_RemoveElement
  <2>2. Cardinality(Models) \in Nat
    BY ModelsAssumption, FS_CardinalityType
  <2>3. IsFiniteSet(some) /\ Cardinality(some) <= Cardinality(Models \ {current})
    BY <2>1, FS_Subset
  <2>4. Cardinality(some) \in Nat
    BY <2>3, FS_CardinalityType
  <2>5. QED
    BY <2>1, <2>2, <2>3, <2>4
<1>5. beyond(item) \in SUBSET (Models \ {current}) /\ Cardinality(beyond(item)) \in Nat
  <2>1. beyond(item) \in SUBSET (Models \ {current})
    BY <1>2, TopTyping
  <2>2. QED
    BY <1>4, <2>1
<1>6. Nesting[item.node] \in 0 .. MaxNesting
  BY <1>0, NestingAssumption
<1>7. ASSUME NEW home \in item.homes, NEW next \in FoldedBy(PartAt(item.node, home))
      PROVE  next \in Part /\ \A model \in beyond(item) : Leads(PartAt(body[model], model[1]), next)
  <2>1. PartAt(item.node, home) \in PartsOf(item) /\ PartAt(item.node, home) \in Part
    BY <1>0, <1>7 DEF PartsOf, PartAt, Part
  <2>2. next \in Part
    BY <1>1, <1>7, <2>1, FoldedByTyping
  <2>3. ASSUME NEW model \in beyond(item) PROVE Leads(PartAt(body[model], model[1]), next)
    <3>1. Leads(PartAt(body[model], model[1]), PartAt(item.node, home))
      BY <1>2, <2>1
    <3>2. PartAt(body[model], model[1]) \in Part
      BY <3>1 DEF Leads
    <3>3. QED
      BY <1>7, <2>1, <2>2, <3>1, <3>2, LeadsOn
  <2>4. QED
    BY <2>2, <2>3
<1>8. ASSUME NEW target, Target[item.node] # None, target = TargetOf(item)
      PROVE  ItemTraced([node |-> body[target], file |-> target[1], homes |-> {target[1]},
                         trail |-> item.trail \cup {target}], position, Top)
  <2> DEFINE next == [node |-> body[target], file |-> target[1], homes |-> {target[1]},
                      trail |-> item.trail \cup {target}]
             part == PartAt(body[target], target[1])
  <2>1. target \in Models /\ target \notin item.trail /\ body[target] \in Nodes /\ target[1] \in Files
    BY <1>1, <1>8, ModelsAreKeys DEF Declared
  <2>2. /\ next.homes # {} /\ Top \subseteq next.trail /\ PartsOf(next) = {part}
        /\ beyond(next) = beyond(item) \cup {target} /\ next.node = body[target]
    BY <1>2, <2>1 DEF PartsOf, PartAt
  <2>3. ASSUME NEW home \in item.homes PROVE part \in FoldedBy(PartAt(item.node, home))
    BY <1>8, <2>3, ItemFolds
  <2> HIDE DEF next
  <2>4. part \in Part /\ \A model \in beyond(item) : Leads(PartAt(body[model], model[1]), part)
    BY <1>2, <1>7, <2>3
  <2>5. Leads(part, part)
    <3>1. {part} \in SUBSET Part
      BY <2>4
    <3>2. QED
      BY <3>1 DEF Leads
  <2>6. \A model \in beyond(next) :
           /\ model \in Models
           /\ \A p \in PartsOf(next) : Leads(PartAt(body[model], model[1]), p)
    BY <1>2, <2>1, <2>2, <2>4, <2>5
  <2>7. Cardinality(beyond(next)) = Cardinality(beyond(item)) + 1
    <3>1. target \notin beyond(item) /\ IsFiniteSet(beyond(item))
      BY <1>4, <1>5, <2>1
    <3>2. QED
      BY <2>2, <3>1, FS_AddElement
  <2>8. beyond(next) \in SUBSET (Models \ {current})
    BY <1>5, <2>1, <2>2, <1>2, TopTyping
  <2>9. /\ Cardinality(beyond(next)) \in Nat
        /\ Cardinality(beyond(next)) + 1 <= Cardinality(Models)
    BY <1>4, <2>8
  <2>10. Nesting[next.node] \in 0 .. MaxNesting
    BY <2>1, <2>2, NestingAssumption
  <2>11. /\ n + 1 \in 0 .. Horizon /\ n \in 0 .. Horizon - 1
         /\ n + 1 + Nesting[next.node] <= MaxNesting + (MaxNesting + 1) * Cardinality(beyond(next))
    <3>1. n \in Nat /\ Nesting[item.node] \in Nat
      BY <1>1, <1>3, <1>6
    <3> HIDE DEF beyond
    <3>2. QED
      BY <1>3, <1>5, <2>7, <2>9, <2>10, <3>1, Deeper
  <2>12. PartsOf(next) \subseteq FoldWaves(position)[n + 1]
    <3>1. PICK home \in item.homes : TRUE
      BY <1>2
    <3>2. PartAt(item.node, home) \in FoldWaves(position)[n]
      BY <1>3 DEF PartsOf
    <3>3. part \in FoldWaves(position)[n + 1]
      BY <2>3, <2>11, <3>2, NextFoldWave
    <3>4. QED
      BY <2>2, <3>3
  <2>13. Reached(next, position, Top)
    BY <2>11, <2>12 DEF Reached
  <2>14. ItemTraced(next, position, Top)
    BY <2>2, <2>6, <2>13 DEF ItemTraced
  <2>15. QED
    BY <2>14 DEF next
<1>9. ASSUME NEW branch \in AllOf[item.node]
      PROVE  ItemTraced([item EXCEPT !.node = branch], position, Top)
  <2> DEFINE next == [item EXCEPT !.node = branch]
  <2>1. /\ next.node = branch /\ next.homes = item.homes /\ next.trail = item.trail
    BY DEF Items
  <2> HIDE DEF next
  <2>2. ASSUME NEW home \in item.homes
        PROVE  PartAt(branch, home) \in FoldedBy(PartAt(item.node, home))
    BY <2>2, ItemFolds
  <2>3. ASSUME NEW home \in item.homes
        PROVE  PartAt(branch, home) \in FoldWaves(position)[n + 1] /\ n + 1 \in 0 .. Horizon
               /\ n + 1 + Nesting[branch] <= MaxNesting + (MaxNesting + 1) * Cardinality(beyond(item))
    <3>1. branch \in Nodes /\ Nesting[branch] < Nesting[item.node]
      BY <1>0, AllOfAssumption, NestingAssumption
    <3>2. Nesting[branch] \in 0 .. MaxNesting /\ n \in Nat /\ Nesting[item.node] \in Nat
      BY <1>1, <1>3, <1>6, <3>1, NestingAssumption
    <3>3. Cardinality(beyond(item)) + 1 <= Cardinality(Models)
      BY <1>4, <1>5
    <3> HIDE DEF beyond
    <3>4. /\ n + 1 \in 0 .. Horizon /\ n \in 0 .. Horizon - 1
          /\ n + 1 + Nesting[branch] <= MaxNesting + (MaxNesting + 1) * Cardinality(beyond(item))
      BY <1>3, <1>5, <3>1, <3>2, <3>3, Deeper
    <3>5. PartAt(item.node, home) \in FoldWaves(position)[n]
      BY <1>3 DEF PartsOf
    <3>6. QED
      BY <2>2, <3>4, <3>5, NextFoldWave
  <2>4. Reached(next, position, Top)
    BY <1>2, <2>1, <2>3 DEF Reached, PartsOf
  <2>5. \A model \in beyond(next) :
           /\ model \in Models
           /\ \A p \in PartsOf(next) : Leads(PartAt(body[model], model[1]), p)
    BY <1>2, <1>7, <2>1, <2>2 DEF PartsOf
  <2>6. QED
    BY <1>2, <2>1, <2>4, <2>5 DEF ItemTraced, next
<1>10. QED
  BY <1>8, <1>9 DEF Expansion

-----------------------------------------------------------------------------
(* A step of an expansion is still the expansion of its position.          *)
LEMMA ExpandKeeps ==
  ASSUME TypeOK, CycleStack, current \in Models, fold # None,
         body' = body, walk' = walk, current' = current, NEW item \in fold.pending,
         Target[item.node] # None => TargetOf(item) \notin item.trail /\ Declared(TargetOf(item)),
         fold' = [fold EXCEPT
            !.pending = (@ \ {item}) \cup Expansion(item),
            !.parts = @ \cup { [node |-> item.node, home |-> home] :
                                 home \in IF Own[item.node] THEN item.homes ELSE {} }],
         read' = read \cup ReadOf(item), ReadAtHome',
         NEW position \in SUBSET Part, Expands(position)
  PROVE  fold' # None /\ fold'.path = fold.path /\ Expands(position)'
<1> DEFINE kept == { [node |-> item.node, home |-> home] :
                       home \in IF Own[item.node] THEN item.homes ELSE {} }
<1>1. fold \in Folds /\ item \in Items /\ fold.pending \in SUBSET Items
  <2>1. fold \in Folds
    BY DEF TypeOK
  <2>2. QED
    BY <2>1 DEF Folds
<1>2. item.node \in Nodes /\ item.homes \in SUBSET Files /\ item.file \in Files
  BY <1>1 DEF Items
<1>3. Expansion(item) \in SUBSET Items
  BY <1>1, ExpansionTyping
<1>4. kept \in SUBSET Part
  BY <1>2 DEF Part
<1>5. /\ fold' \in Folds /\ fold'.path = fold.path /\ fold'.cycle = fold.cycle
      /\ fold'.pending = (fold.pending \ {item}) \cup Expansion(item)
      /\ fold'.parts = fold.parts \cup kept
  <2> HIDE DEF kept
  <2>1. fold' = [fold EXCEPT !.pending = (@ \ {item}) \cup Expansion(item), !.parts = @ \cup kept]
    BY DEF kept
  <2>2. (fold.pending \ {item}) \cup Expansion(item) \in SUBSET Items /\ fold.parts \cup kept \in SUBSET Part
    BY <1>1, <1>3, <1>4 DEF Folds
  <2>3. QED
    BY <1>1, <2>1, <2>2 DEF Folds
<1>6. fold' # None
  BY <1>5, NoFoldAssumption
<1>7. Top' = Top
  BY DEF Top
<1>8. \A home \in item.homes :
        Target[item.node] # None => Resolve(Target[item.node], home) = TargetOf(item)
  <2> SUFFICES ASSUME NEW home \in item.homes, Target[item.node] # None
               PROVE  Resolve(Target[item.node], home) = TargetOf(item)
    OBVIOUS
  <2>1. [reference |-> Target[item.node], home |-> home, file |-> item.file] \in read'
    BY DEF ReadOf
  <2>2. QED
    BY <2>1 DEF ReadAtHome, TargetOf
<1>9. ItemTraced(item, position, Top)
  BY DEF Expands
<1>10. \A next \in fold'.pending : ItemTraced(next, position, Top)
  <2>1. \A next \in Expansion(item) : ItemTraced(next, position, Top)
    BY <1>1, <1>8, <1>9, ExpansionTraced
  <2>2. QED
    BY <1>5, <2>1 DEF Expands
<1>11. \A part \in fold'.parts : Own[part.node] /\ part \in FoldedParts(position)
  <2>1. kept \subseteq PartsOf(item) /\ \A part \in kept : Own[part.node]
    BY DEF PartsOf, PartAt
  <2>2. PartsOf(item) \subseteq FoldedParts(position)
    BY <1>9 DEF ItemTraced, Reached, FoldedParts
  <2>3. QED
    BY <1>5, <2>1, <2>2 DEF Expands
<1>12. \E done \in SUBSET Part : Covered(done, position)'
  <2>1. PICK done \in SUBSET Part : Covered(done, position)
    BY DEF Expands
  <2> DEFINE more == done \cup PartsOf(item)
  <2>2. more \in SUBSET Part
    BY <1>2 DEF PartsOf, PartAt, Part
  <2>3. \A part \in Unexpanded : part \in PartsOf(item) \/ part \in Unexpanded'
    BY <1>5 DEF Unexpanded
  <2>4. ASSUME NEW part \in PartsOf(item)
        PROVE  /\ FoldedBy(part) \subseteq Unexpanded'
               /\ Own[part.node] => part \in fold'.parts
    <3>1. PICK home \in item.homes : part = PartAt(item.node, home)
      BY <2>4 DEF PartsOf
    <3>2. FoldedBy(part) =
           { PartAt(body[target], target[1]) :
               target \in IF Target[item.node] = None THEN {} ELSE {TargetOf(item)} }
           \cup { PartAt(branch, home) : branch \in AllOf[item.node] }
      BY <1>1, <1>8, <3>1, ItemFolds
    <3>3. ASSUME NEW target, Target[item.node] # None, target = TargetOf(item)
          PROVE  PartAt(body[target], target[1]) \in Unexpanded'
      <4> DEFINE next == [node |-> body[target], file |-> target[1], homes |-> {target[1]},
                          trail |-> item.trail \cup {target}]
      <4>1. next \in Expansion(item)
        BY <3>3 DEF Expansion
      <4>2. next.node = body[target] /\ target[1] \in next.homes
        OBVIOUS
      <4> HIDE DEF next
      <4>3. next \in fold'.pending
        BY <1>5, <4>1
      <4>4. PartAt(body[target], target[1]) \in PartsOf(next)
        BY <4>2 DEF PartsOf
      <4>5. QED
        BY <4>3, <4>4 DEF Unexpanded
    <3>4. ASSUME NEW branch \in AllOf[item.node] PROVE PartAt(branch, home) \in Unexpanded'
      <4> DEFINE next == [item EXCEPT !.node = branch]
      <4>1. next \in Expansion(item)
        BY <3>4 DEF Expansion
      <4>2. next.node = branch /\ next.homes = item.homes
        BY <1>1 DEF Items
      <4> HIDE DEF next
      <4>3. next \in fold'.pending
        BY <1>5, <4>1
      <4>4. PartAt(branch, home) \in PartsOf(next)
        BY <4>2 DEF PartsOf
      <4>5. QED
        BY <4>3, <4>4 DEF Unexpanded
    <3>5. Own[part.node] => part \in fold'.parts
      BY <1>5, <3>1 DEF PartAt
    <3>6. QED
      BY <3>2, <3>3, <3>4, <3>5
  <2>5. position \subseteq more \cup Unexpanded'
    BY <2>1, <2>3 DEF Covered
  <2>6. ASSUME NEW part \in more
        PROVE  /\ FoldedBy(part) \subseteq more \cup Unexpanded'
               /\ Own[part.node] => part \in fold'.parts
    <3>1. CASE part \in done
      BY <1>5, <2>1, <2>3, <3>1 DEF Covered
    <3>2. CASE part \in PartsOf(item)
      BY <2>4, <3>2
    <3>3. QED
      BY <3>1, <3>2
  <2> HIDE DEF more
  <2>7. \A part \in more : FoldedBy(part)' = FoldedBy(part)
    BY SameModels
  <2>8. Covered(more, position)'
    BY <2>5, <2>6, <2>7 DEF Covered
  <2>9. QED
    BY <2>2, <2>8
<1>13. ReadLocally(position)'
  <2> SUFFICES ASSUME NEW part \in position, Target[part.node] # None
               PROVE  \/ Resolve(Target[part.node], part.home) = Resolve(Target[part.node], current[1])
                      \/ \E other \in fold'.pending :
                           other.node = part.node /\ other.file = current[1] /\ part.home \in other.homes
    BY DEF ReadLocally
  <2>1. CASE Resolve(Target[part.node], part.home) = Resolve(Target[part.node], current[1])
    BY <2>1
  <2>2. CASE \E other \in fold.pending :
               other.node = part.node /\ other.file = current[1] /\ part.home \in other.homes
    <3>1. PICK other \in fold.pending :
            other.node = part.node /\ other.file = current[1] /\ part.home \in other.homes
      BY <2>2
    <3>2. CASE other = item
      <4>1. Resolve(Target[part.node], part.home) = Resolve(Target[part.node], current[1])
        BY <1>8, <3>1, <3>2 DEF TargetOf
      <4>2. QED
        BY <4>1
    <3>3. CASE other # item
      BY <1>5, <3>1, <3>3
    <3>4. QED
      BY <3>2, <3>3
  <2>3. QED
    BY <2>1, <2>2 DEF Expands, ReadLocally
<1>14. Expands(position)'
  <2>1. (\A next \in fold.pending : ItemTraced(next, position, Top))'
    BY <1>7, <1>10, SamePlaces
  <2>2. (\A part \in fold.parts : Own[part.node] /\ part \in FoldedParts(position))'
    BY <1>11, SameModels
  <2>3. (fold.cycle = Top \cup Followed(position, current[1]))'
    BY <1>5, <1>7 DEF Expands, Followed
  <2>4. position \in SUBSET Part /\ IsFolded(position)
    BY DEF Expands
  <2>5. QED
    BY <1>12, <1>13, <2>1, <2>2, <2>3, <2>4 DEF Expands
<1>15. QED
  BY <1>5, <1>6, <1>14

(* A finished expansion has found the conjuncts of its position, and what  *)
(* the children have on their stack beside the position's.                 *)
LEMMA FoldedAll ==
  ASSUME fold # None, fold.pending = {}, NEW position \in SUBSET Part, Expands(position)
  PROVE  /\ fold.parts = Conjuncts(position) /\ ~ IsReference(position)
         /\ fold.cycle = Top \cup Followed(position, current[1])
         /\ \A key \in Followed(position, current[1]) :
              FollowsReference(position) /\ key \in TargetsOf(position)
<1>1. Unexpanded = {}
  BY DEF Unexpanded
<1>2. PICK done \in SUBSET Part : Covered(done, position)
  BY DEF Expands
<1>3. FoldedParts(position) \subseteq done
  <2>1. position \subseteq done /\ \A part \in done : FoldedBy(part) \subseteq done
    BY <1>1, <1>2 DEF Covered
  <2>2. QED
    BY <2>1, ClosedParts
<1>4. fold.parts = Conjuncts(position) /\ ~ IsReference(position)
  BY <1>2, <1>3 DEF Expands, Covered, Conjuncts, IsFolded
<1>5. ASSUME NEW key \in Followed(position, current[1])
      PROVE  FollowsReference(position) /\ key \in TargetsOf(position)
  <2>1. FollowsReference(position)
    BY <1>5 DEF Followed
  <2>2. PICK part \in position : key = Resolve(Target[part.node], current[1])
    BY <1>5, <2>1 DEF Followed
  <2>3. Target[part.node] # None
    BY <2>1, <2>2 DEF FollowsReference, IsSingle
  <2>4. Resolve(Target[part.node], part.home) = Resolve(Target[part.node], current[1])
    BY <2>3 DEF Expands, ReadLocally
  <2>5. QED
    BY <2>1, <2>2, <2>3, <2>4 DEF TargetsOf
<1>6. QED
  BY <1>4, <1>5 DEF Expands

-----------------------------------------------------------------------------
(* A step that changes no more than the outcome, and adds to what is read. *)
LEMMA OnlyReads ==
  ASSUME Faithful, UNCHANGED << body, queue, current, walk, fold, flat >>, read \subseteq read'
  PROVE  Faithful'
<1>1. (current # None => Declared(current))'
  BY SameModels DEF Faithful
<1>2. ASSUME ReadAtHome'
      PROVE  (FramesTraced /\ EntriesTraced /\ FoldTraced /\ EntriesSettled /\ RootsSettled)'
  <2>1. FramesTraced /\ EntriesTraced /\ FoldTraced /\ EntriesSettled /\ RootsSettled
    BY <1>2, ReadGrows DEF Faithful
  <2>2. Top' = Top
    BY DEF Top
  <2>3. FramesTraced'
    BY <2>1, SamePlaces DEF FramesTraced
  <2>4. EntriesTraced'
    BY <2>1, SamePlaces DEF EntriesTraced
  <2>5. FoldTraced'
    BY <2>1, <2>2, SamePlaces, SameExpansion DEF FoldTraced
  <2>6. \A model, path, position : Settled(model, path, position) => Settled(model, path, position)'
    BY SamePlaces, SameExpansion DEF Settled
  <2>7. \A entry, name : Awaited(entry, name) => Awaited(entry, name)'
    BY DEF Awaited
  <2>8. \A entry : EntrySettled(entry) => EntrySettled(entry)'
    BY <2>6, <2>7 DEF EntrySettled
  <2>9. EntriesSettled'
    BY <2>1, <2>8 DEF EntriesSettled
  <2>10. RootsSettled'
    BY <2>1, <2>6, SameModels DEF RootsSettled
  <2>11. QED
    BY <2>3, <2>4, <2>5, <2>9, <2>10
<1>3. QED
  BY <1>1, <1>2 DEF Faithful

(* With nothing being expanded, what is settled is finished.               *)
LEMMA FinishedStays ==
  ASSUME body' = body, fold = None, flat \subseteq flat', NEW model, NEW path, NEW position,
         Settled(model, path, position)
  PROVE  Settled(model, path, position)'
BY SamePlaces DEF Settled

(* The first visit of the next model.                                      *)
LEMMA StartKeeps ==
  ASSUME IInv, IInv', Faithful, StartModel PROVE Faithful'
<1>m. PICK model : model = Head(queue)
  OBVIOUS
<1>0. TypeOK /\ TypeOK' /\ walk = << >> /\ fold = None
  BY DEF IInv, Idle, StartModel
<1>1. queue \in Seq(Models) /\ queue # << >> /\ model \in Models /\ queue' = Tail(queue) /\ body' = body
  BY <1>0, <1>m DEF StartModel, TypeOK
<1>2. \A m \in Range(queue) : m = model \/ m \in Range(queue')
  <2>1. ASSUME NEW i \in 1 .. Len(queue), i # 1 PROVE queue[i] \in Range(queue')
    <3>1. /\ i - 1 \in 1 .. Len(queue') /\ queue'[i - 1] = queue[i] /\ DOMAIN queue' = 1 .. Len(queue')
      BY <1>1, <2>1
    <3>2. QED
      BY <3>1 DEF Range
  <2>2. DOMAIN queue = 1 .. Len(queue) /\ queue[1] = model
    BY <1>1, <1>m
  <2>3. QED
    BY <2>1, <2>2 DEF Range
<1>3. CASE Declared(model)
  <2>1. /\ current' = model /\ outcome' = outcome
        /\ Visit(model, {[node |-> body[model], home |-> model[1]]}, {model}, << >>, << >>)
    BY <1>3, <1>m DEF StartModel
  <2>2. model \in Keys /\ Root(model) \in SUBSET Part /\ Root(model) = {[node |-> body[model], home |-> model[1]]}
    BY <1>0, <1>1, <1>3, ModelsAreKeys DEF TypeOK, Declared, Root, PartAt, Part
  <2>3. TopOf(<< >>, model) = {model} /\ {model} \in SUBSET Keys
    BY <2>2 DEF TopOf
  <2>4. (current # None => Declared(current))'
    BY <1>1, <1>3, <2>1 DEF Declared
  <2>5. ASSUME ReadAtHome'
        PROVE  (FramesTraced /\ EntriesTraced /\ FoldTraced /\ EntriesSettled /\ RootsSettled)'
    <3>1. read \subseteq read'
      BY <2>1 DEF Visit, KeepReference, EnterPlain, BeginFold
    <3>2. FramesTraced /\ EntriesTraced /\ FoldTraced /\ EntriesSettled /\ RootsSettled
      BY <2>5, <3>1, ReadGrows DEF Faithful
    <3>r. PICK root : root = Root(model)
      OBVIOUS
    <3>3. /\ << >> \in Seq(Names) /\ << >> \in Seq(Frames) /\ Len(<< >>) = 0
          /\ AtPlace(model, << >>, root)
      BY <3>r, RootPlace
    <3>4. Visit(model, root, TopOf(<< >>, model), << >>, << >>) /\ root \in SUBSET Part
      BY <2>1, <2>2, <2>3, <3>r
    <3>5. /\ FramesTraced' /\ EntriesTraced' /\ FoldTraced' /\ Settled(model, << >>, root)'
          /\ flat \subseteq flat' /\ \A entry \in flat' \ flat : EntrySettled(entry)'
      <4>1. \A key \in TopOf(<< >>, model) \ {model} :
              \E above : IsStrictPrefix(above.path, << >>) /\ Follows(above, model, key)
        BY <2>3
      <4>2. \A i \in 1 .. Len(<< >>) : Len(<< >>[i].path) = i - 1 /\ FrameTraced(<< >>[i], model)
        BY <3>3
      <4>3. QED
        BY <1>0, <1>1, <1>3, <2>1, <2>2, <2>3, <2>5, <3>2, <3>3, <3>4, <4>1, <4>2, VisitTraces
    <3>6. ASSUME NEW entry \in flat PROVE EntrySettled(entry)'
      <4>1. \A name : ~ Awaited(entry, name)
        BY <1>0 DEF Awaited
      <4>2. EntrySettled(entry)
        BY <3>2 DEF EntriesSettled
      <4>3. QED
        BY <1>0, <1>1, <3>5, <4>1, <4>2, FinishedStays DEF EntrySettled
    <3>7. EntriesSettled'
      BY <3>5, <3>6 DEF EntriesSettled
    <3>8. RootsSettled'
      <4> SUFFICES ASSUME NEW m \in Models, Declared(m), m \notin Range(queue')
                   PROVE  Settled(m, << >>, Root(m))'
        BY <1>1, SameModels DEF RootsSettled
      <4>1. CASE m = model
        BY <1>1, <3>r, <3>5, <4>1, SameModels
      <4>2. CASE m # model
        <5>1. Settled(m, << >>, Root(m))
          BY <1>2, <3>2, <4>2 DEF RootsSettled
        <5>2. QED
          BY <1>0, <1>1, <3>5, <5>1, FinishedStays, SameModels DEF Settled
      <4>3. QED
        BY <4>1, <4>2
    <3>9. QED
      BY <3>5, <3>7, <3>8
  <2>6. QED
    BY <2>4, <2>5 DEF Faithful
<1>4. CASE ~ Declared(model)
  <2>1. UNCHANGED << body, current, walk, fold, flat, read, outcome >>
    BY <1>4, <1>m DEF StartModel
  <2>2. (current # None => Declared(current))'
    BY <2>1, SameModels DEF Faithful
  <2>3. ASSUME ReadAtHome'
        PROVE  (FramesTraced /\ EntriesTraced /\ FoldTraced /\ EntriesSettled /\ RootsSettled)'
    <3>1. FramesTraced /\ EntriesTraced /\ FoldTraced /\ EntriesSettled /\ RootsSettled
      BY <2>1, <2>3, ReadGrows DEF Faithful
    <3>2. FramesTraced' /\ EntriesTraced' /\ FoldTraced'
      <4>1. FramesTraced'
        BY <1>0, <2>1 DEF FramesTraced
      <4>2. EntriesTraced'
        BY <2>1, <3>1, SamePlaces DEF EntriesTraced
      <4>3. FoldTraced'
        BY <1>0, <2>1 DEF FoldTraced
      <4>4. QED
        BY <4>1, <4>2, <4>3
    <3>3. \A m, path, position : Settled(m, path, position) => Settled(m, path, position)'
      BY <1>0, <2>1, FinishedStays
    <3>4. \A entry, name : Awaited(entry, name) => Awaited(entry, name)'
      BY <1>0 DEF Awaited
    <3>5. \A entry : EntrySettled(entry) => EntrySettled(entry)'
      BY <3>3, <3>4 DEF EntrySettled
    <3>6. EntriesSettled'
      BY <2>1, <3>1, <3>5 DEF EntriesSettled
    <3>7. RootsSettled'
      <4> SUFFICES ASSUME NEW m \in Models, Declared(m), m \notin Range(queue')
                   PROVE  Settled(m, << >>, Root(m))'
        BY <1>1, SameModels DEF RootsSettled
      <4>1. m # model
        BY <1>4
      <4>2. Settled(m, << >>, Root(m))
        BY <1>2, <3>1, <4>1 DEF RootsSettled
      <4>3. QED
        BY <1>0, <2>1, <4>2, FinishedStays, SameModels DEF Settled
    <3>8. QED
      BY <3>2, <3>6, <3>7
  <2>4. QED
    BY <2>2, <2>3 DEF Faithful
<1>5. QED
  BY <1>3, <1>4

(* A visit of a child: one place further down.                             *)
LEMMA ChildKeeps ==
  ASSUME IInv, IInv', CycleStack, Faithful, VisitChild PROVE Faithful'
<1> DEFINE top == walk[Len(walk)]
<1>0. TypeOK /\ TypeOK' /\ fold = None /\ walk # << >> /\ Len(walk) < MaxDepth
      /\ UNCHANGED << body, queue, current, outcome >>
  BY DEF IInv, VisitChild
<1>1. PICK name \in top.todo :
        Visit(current, ChildAt(top.parts, name), top.cycle, Append(top.path, name),
              [walk EXCEPT ![Len(walk)].todo = @ \ {name}])
  BY DEF VisitChild
<1> DEFINE below == [walk EXCEPT ![Len(walk)].todo = @ \ {name}]
<1>p. PICK path, position : path = Append(top.path, name) /\ position = ChildAt(top.parts, name)
  OBVIOUS
<1>m. PICK model : model = current
  OBVIOUS
<1>2. current \in Models /\ current # None /\ Declared(current)
  <2>1. current # None
    BY <1>0 DEF IInv, Idle
  <2>2. QED
    BY <1>0, <2>1 DEF TypeOK, Faithful
<1>3. /\ below \in Seq(Frames) /\ Len(below) = Len(walk) /\ Len(walk) \in Nat \ {0}
      /\ \A i \in 1 .. Len(walk) :
           /\ below[i].path = walk[i].path /\ below[i].parts = walk[i].parts
           /\ below[i].cycle = walk[i].cycle /\ below[i].by = walk[i].by
           /\ below[i].todo = walk[i].todo \ (IF i = Len(walk) THEN {name} ELSE {})
  BY <1>0, CrossedOff
<1>4. Visit(current, position, top.cycle, path, below)
  BY <1>1, <1>p
<1>5. top \in Frames /\ Len(walk) \in 1 .. Len(walk)
  <2>1. walk \in Seq(Frames) /\ Len(walk) \in 1 .. Len(walk)
    BY <1>0 DEF TypeOK
  <2>2. QED
    BY <2>1
<1> HIDE DEF below
<1>6. TopOf(below, current) = top.cycle
  BY <1>3, <1>5 DEF TopOf
<1>7. /\ top.parts \in SUBSET Part /\ top.cycle \in SUBSET Keys
      /\ top.path \in Seq(Names) /\ top.todo \in SUBSET Names
  BY <1>5 DEF Frames
<1> HIDE DEF top
<1>8. name \in Names /\ path \in Seq(Names) /\ position \in SUBSET Part
  <2>1. name \in Names
    BY <1>1, <1>7
  <2>2. position \in SUBSET Part
    BY <1>7, <1>p, ChildTyping
  <2>3. QED
    BY <1>7, <1>p, <2>1, <2>2
<1>9. (current # None => Declared(current))'
  BY <1>0, <1>2, SameModels
<1>10. ASSUME ReadAtHome'
       PROVE  (FramesTraced /\ EntriesTraced /\ FoldTraced /\ EntriesSettled /\ RootsSettled)'
  <2>1. read \subseteq read'
    BY <1>1 DEF Visit, KeepReference, EnterPlain, BeginFold
  <2>2. FramesTraced /\ EntriesTraced /\ FoldTraced /\ EntriesSettled /\ RootsSettled
    BY <1>10, <2>1, ReadGrows DEF Faithful
  <2>3. Len(top.path) = Len(walk) - 1 /\ FrameTraced(top, current)
    BY <1>5, <2>2 DEF FramesTraced, top
  <2>4. PICK place \in SUBSET Part :
          AtPlace(current, top.path, place) /\ ~ IsReference(place) /\ top.parts = Conjuncts(place)
    BY <2>3 DEF FrameTraced
  <2>5. AtPlace(model, path, position) /\ Len(path) = Len(below)
    <3>1. name \in ChildNames(Conjuncts(place))
      BY <1>1, <2>3, <2>4 DEF FrameTraced
    <3>2. Len(top.path) < Horizon /\ Len(path) = Len(top.path) + 1
      BY <1>0, <1>3, <1>7, <1>8, <1>p, <2>3, BoundsAssumption
    <3>3. QED
      BY <1>3, <1>7, <1>8, <1>m, <1>p, <2>3, <2>4, <3>1, <3>2, ChildPlace
  <2>6. \A key \in TopOf(below, model) \ {model} :
          \E above : IsStrictPrefix(above.path, path) /\ Follows(above, model, key)
    <3> SUFFICES ASSUME NEW key \in top.cycle \ {model}
                 PROVE  \E above : IsStrictPrefix(above.path, path) /\ Follows(above, model, key)
      BY <1>6, <1>m
    <3>1. PICK above : IsPrefix(above.path, top.path) /\ Follows(above, model, key)
      BY <1>m, <2>3 DEF FrameTraced
    <3>2. above.path \in Seq(Names)
      <4>1. above \in [path : Seq(Names), position : SUBSET Part]
        BY <1>0, <1>2, <1>m, <3>1, PlaceTyping DEF Follows, TypeOK
      <4>2. QED
        BY <4>1
    <3>3. IsStrictPrefix(above.path, path)
      BY <1>7, <1>8, <1>p, <3>1, <3>2, PrefixOfChild
    <3>4. QED
      BY <3>1, <3>3
  <2>7. \A i \in 1 .. Len(below) : Len(below[i].path) = i - 1 /\ FrameTraced(below[i], model)
    <3> SUFFICES ASSUME NEW i \in 1 .. Len(walk)
                 PROVE  Len(below[i].path) = i - 1 /\ FrameTraced(below[i], model)
      BY <1>3
    <3>1. Len(walk[i].path) = i - 1 /\ FrameTraced(walk[i], current)
      BY <2>2 DEF FramesTraced
    <3>2. /\ below[i].path = walk[i].path /\ below[i].parts = walk[i].parts
          /\ below[i].cycle = walk[i].cycle /\ below[i].todo \subseteq walk[i].todo
      BY <1>3
    <3>3. QED
      BY <1>m, <3>1, <3>2 DEF FrameTraced
  <2>8. /\ FramesTraced' /\ EntriesTraced' /\ FoldTraced' /\ Settled(model, path, position)'
        /\ flat \subseteq flat' /\ \A entry \in flat' \ flat : EntrySettled(entry)'
        /\ Len(below) <= Len(walk') /\ \A i \in 1 .. Len(below) : walk'[i] = below[i]
    <3>1. /\ model \in Models /\ Declared(model) /\ current' = model /\ body' = body
          /\ TopOf(below, model) \in SUBSET Keys /\ EntriesTraced
          /\ Visit(model, position, TopOf(below, model), path, below)
      BY <1>0, <1>m, <1>2, <1>4, <1>6, <1>7, <2>2
    <3>2. below \in Seq(Frames)
      BY <1>3
    <3>3. QED
      BY <1>0, <1>8, <1>10, <2>5, <2>6, <2>7, <3>1, <3>2, VisitTraces
  <2>9. ASSUME NEW entry \in flat PROVE EntrySettled(entry)'
    <3> SUFFICES ASSUME ~ IsReference(entry.parts), NEW n \in ChildNames(entry.parts)
                 PROVE  \/ Awaited(entry, n)'
                        \/ Settled(entry.model, Append(entry.path, n), ChildAt(entry.parts, n))'
      BY DEF EntrySettled
    <3>1. CASE Settled(entry.model, Append(entry.path, n), ChildAt(entry.parts, n))
      BY <1>0, <2>8, <3>1, FinishedStays
    <3>2. CASE Awaited(entry, n)
      <4>1. PICK i \in 1 .. Len(walk) :
              walk[i].path = entry.path /\ walk[i].parts = entry.parts /\ n \in walk[i].todo
        BY <3>2 DEF Awaited
      <4>2. CASE i = Len(walk) /\ n = name
        <5>1. entry.model = model /\ Append(entry.path, n) = path /\ ChildAt(entry.parts, n) = position
          BY <1>m, <1>p, <3>2, <4>1, <4>2 DEF Awaited, top
        <5>2. QED
          BY <1>0, <2>8, <5>1
      <4>3. CASE ~ (i = Len(walk) /\ n = name)
        <5>1. n \in below[i].todo
          BY <1>3, <4>1, <4>3
        <5>2. i \in 1 .. Len(walk') /\ walk'[i] = below[i]
          <6>1. i \in 1 .. Len(below)
            BY <1>3
          <6>2. walk' \in Seq(Frames)
            BY <1>0 DEF TypeOK
          <6>3. QED
            BY <1>3, <2>8, <6>1, <6>2
        <5>3. walk'[i].path = entry.path /\ walk'[i].parts = entry.parts
          BY <1>3, <4>1, <5>2
        <5>4. Awaited(entry, n)'
          BY <1>0, <3>2, <5>1, <5>2, <5>3 DEF Awaited
        <5>5. QED
          BY <5>4
      <4>4. QED
        BY <4>2, <4>3
    <3>3. QED
      BY <2>2, <3>1, <3>2 DEF EntriesSettled, EntrySettled
  <2>10. EntriesSettled'
    BY <2>8, <2>9 DEF EntriesSettled
  <2>11. RootsSettled'
    <3> SUFFICES ASSUME NEW m \in Models, Declared(m), m \notin Range(queue)
                 PROVE  Settled(m, << >>, Root(m))'
      BY <1>0, SameModels DEF RootsSettled
    <3>1. Settled(m, << >>, Root(m))
      BY <2>2 DEF RootsSettled
    <3>2. QED
      BY <1>0, <2>8, <3>1, FinishedStays, SameModels DEF Settled
  <2>12. QED
    BY <2>8, <2>10, <2>11
<1>11. QED
  BY <1>9, <1>10 DEF Faithful

-----------------------------------------------------------------------------
(* A frame is left with no child to visit.                                 *)
LEMMA LeaveKeeps ==
  ASSUME IInv, Faithful, LeaveFrame PROVE Faithful'
<1>0. /\ TypeOK /\ fold = None /\ walk # << >> /\ walk[Len(walk)].todo = {}
      /\ walk' = SubSeq(walk, 1, Len(walk) - 1)
      /\ UNCHANGED << body, queue, current, fold, flat, read, outcome >>
  BY DEF IInv, LeaveFrame
<1>1. walk \in Seq(Frames) /\ Len(walk) \in Nat \ {0}
  BY <1>0 DEF TypeOK
<1>2. Len(walk') = Len(walk) - 1 /\ \A i \in 1 .. Len(walk) - 1 : walk'[i] = walk[i]
  <2>1. \A i \in 1 .. Len(walk) - 1 : walk[i] \in Frames
    BY <1>1
  <2>2. /\ Len(SubSeq(walk, 1, Len(walk) - 1)) =
             IF 1 <= Len(walk) - 1 THEN Len(walk) - 1 - 1 + 1 ELSE 0
        /\ \A i \in 1 .. Len(walk) - 1 - 1 + 1 :
             SubSeq(walk, 1, Len(walk) - 1)[i] = walk[1 + i - 1]
    <3>1. Len(walk) - 1 \in Int
      BY <1>1
    <3>2. QED
      BY <2>1, <3>1, SubSeqProperties
  <2>3. Len(walk) - 1 - 1 + 1 = Len(walk) - 1 /\ \A i \in 1 .. Len(walk) - 1 : 1 + i - 1 = i
    BY <1>1
  <2>4. QED
    BY <1>0, <1>1, <2>2, <2>3
<1>3. (current # None => Declared(current))'
  BY <1>0, SameModels DEF Faithful
<1>4. ASSUME ReadAtHome'
      PROVE  (FramesTraced /\ EntriesTraced /\ FoldTraced /\ EntriesSettled /\ RootsSettled)'
  <2>1. FramesTraced /\ EntriesTraced /\ FoldTraced /\ EntriesSettled /\ RootsSettled
    BY <1>0, <1>4, ReadGrows DEF Faithful
  <2>2. FramesTraced'
    <3>1. \A i \in 1 .. Len(walk) - 1 : Len(walk'[i].path) = i - 1 /\ FrameTraced(walk'[i], current)
      BY <1>1, <1>2, <2>1 DEF FramesTraced
    <3>2. QED
      BY <1>0, <1>2, <3>1, SamePlaces DEF FramesTraced
  <2>3. EntriesTraced'
    BY <1>0, <2>1, SamePlaces DEF EntriesTraced
  <2>4. FoldTraced'
    BY <1>0 DEF FoldTraced
  <2>5. \A model, path, position : Settled(model, path, position) => Settled(model, path, position)'
    BY <1>0, FinishedStays
  <2>6. \A entry, name : Awaited(entry, name) => Awaited(entry, name)'
    <3> SUFFICES ASSUME NEW entry, NEW name, Awaited(entry, name) PROVE Awaited(entry, name)'
      OBVIOUS
    <3>1. PICK i \in 1 .. Len(walk) :
            walk[i].path = entry.path /\ walk[i].parts = entry.parts /\ name \in walk[i].todo
      BY DEF Awaited
    <3>2. i \in 1 .. Len(walk')
      BY <1>0, <1>1, <1>2, <3>1
    <3>3. walk'[i] = walk[i]
      BY <1>2, <3>2
    <3>4. QED
      BY <1>0, <3>1, <3>2, <3>3 DEF Awaited
  <2>7. \A entry : EntrySettled(entry) => EntrySettled(entry)'
    BY <2>5, <2>6 DEF EntrySettled
  <2>8. EntriesSettled'
    BY <1>0, <2>1, <2>7 DEF EntriesSettled
  <2>9. RootsSettled'
    BY <1>0, <2>1, <2>5, SameModels DEF RootsSettled
  <2>10. QED
    BY <2>2, <2>3, <2>4, <2>8, <2>9
<1>5. QED
  BY <1>3, <1>4 DEF Faithful

(* A model is finished with nothing under way.                             *)
LEMMA FinishKeeps ==
  ASSUME IInv, Faithful, FinishModel PROVE Faithful'
<1>0. /\ fold = None /\ walk = << >> /\ current' = None
      /\ UNCHANGED << body, queue, walk, fold, flat, read, outcome >>
  BY DEF FinishModel
<1>1. (current # None => Declared(current))'
  BY <1>0
<1>2. ASSUME ReadAtHome'
      PROVE  (FramesTraced /\ EntriesTraced /\ FoldTraced /\ EntriesSettled /\ RootsSettled)'
  <2>1. FramesTraced /\ EntriesTraced /\ FoldTraced /\ EntriesSettled /\ RootsSettled
    BY <1>0, <1>2, ReadGrows DEF Faithful
  <2>2. FramesTraced' /\ FoldTraced'
    BY <1>0 DEF FramesTraced, FoldTraced
  <2>3. EntriesTraced'
    BY <1>0, <2>1, SamePlaces DEF EntriesTraced
  <2>4. \A model, path, position : Settled(model, path, position) => Settled(model, path, position)'
    BY <1>0, FinishedStays
  <2>5. \A entry, name : ~ Awaited(entry, name)
    BY <1>0 DEF Awaited
  <2>6. \A entry : EntrySettled(entry) => EntrySettled(entry)'
    BY <2>4, <2>5 DEF EntrySettled
  <2>7. EntriesSettled'
    BY <1>0, <2>1, <2>6 DEF EntriesSettled
  <2>8. RootsSettled'
    BY <1>0, <2>1, <2>4, SameModels DEF RootsSettled
  <2>9. QED
    BY <2>2, <2>3, <2>7, <2>8
<1>3. QED
  BY <1>1, <1>2 DEF Faithful

(* A step of an expansion.                                                 *)
LEMMA ExpansionKeeps ==
  ASSUME IInv, CycleStack, Faithful, ExpandBranch PROVE Faithful'
<1>0. /\ TypeOK /\ fold # None /\ current # None
      /\ UNCHANGED << body, queue, current, walk, flat, outcome >>
  BY DEF IInv, Idle, ExpandBranch
<1>1. current \in Models
  BY <1>0 DEF TypeOK
<1>2. PICK item \in fold.pending :
       /\ Target[item.node] # None => TargetOf(item) \notin item.trail /\ Declared(TargetOf(item))
       /\ fold' = [fold EXCEPT
            !.pending = (@ \ {item}) \cup Expansion(item),
            !.parts = @ \cup { [node |-> item.node, home |-> home] :
                                 home \in IF Own[item.node] THEN item.homes ELSE {} }]
       /\ read' = read \cup ReadOf(item)
  BY DEF ExpandBranch
<1>3. (current # None => Declared(current))'
  BY <1>0, SameModels DEF Faithful
<1>4. ASSUME ReadAtHome'
      PROVE  (FramesTraced /\ EntriesTraced /\ FoldTraced /\ EntriesSettled /\ RootsSettled)'
  <2>1. FramesTraced /\ EntriesTraced /\ FoldTraced /\ EntriesSettled /\ RootsSettled
    BY <1>2, <1>4, ReadGrows DEF Faithful
  <2>2. \A position \in SUBSET Part :
          Expands(position) => fold' # None /\ fold'.path = fold.path /\ Expands(position)'
    BY <1>0, <1>1, <1>2, <1>4, ExpandKeeps
  <2>3. Top' = Top
    BY <1>0 DEF Top
  <2>4. FramesTraced'
    BY <1>0, <2>1, SamePlaces DEF FramesTraced
  <2>5. EntriesTraced'
    BY <1>0, <2>1, SamePlaces DEF EntriesTraced
  <2>6. FoldTraced'
    BY <1>0, <2>1, <2>2, <2>3, SamePlaces DEF FoldTraced
  <2>7. \A model, path, position : Settled(model, path, position) => Settled(model, path, position)'
    <3> SUFFICES ASSUME NEW model, NEW path, NEW position, Settled(model, path, position)
                 PROVE  Settled(model, path, position)'
      OBVIOUS
    <3>1. CASE Entry(model, path, position) \in flat
      BY <1>0, <3>1, SamePlaces DEF Settled
    <3>2. CASE model = current /\ fold.path = path /\ Expands(position)
      <4>1. position \in SUBSET Part
        BY <3>2 DEF Expands
      <4>2. QED
        BY <1>0, <2>2, <3>2, <4>1 DEF Settled
    <3>3. QED
      BY <3>1, <3>2 DEF Settled
  <2>8. \A entry, name : Awaited(entry, name) => Awaited(entry, name)'
    BY <1>0 DEF Awaited
  <2>9. \A entry : EntrySettled(entry) => EntrySettled(entry)'
    BY <2>7, <2>8 DEF EntrySettled
  <2>10. EntriesSettled'
    BY <1>0, <2>1, <2>9 DEF EntriesSettled
  <2>11. RootsSettled'
    BY <1>0, <2>1, <2>7, SameModels DEF RootsSettled
  <2>12. QED
    BY <2>4, <2>5, <2>6, <2>10, <2>11
<1>5. QED
  BY <1>3, <1>4 DEF Faithful

(* The end of an expansion: its position is finished, its children begin.  *)
LEMMA FoldKeeps ==
  ASSUME IInv, IInv', CycleStack, Faithful, FinishFold PROVE Faithful'
<1>m. PICK model, path, frame : model = current /\ path = fold.path
        /\ frame = Frame(fold.path, fold.parts, fold.cycle, fold.by)
  OBVIOUS
<1> DEFINE arrived == [model |-> model, path |-> path, parts |-> frame.parts]
<1>0. /\ TypeOK /\ TypeOK' /\ fold # None /\ current # None /\ fold.pending = {} /\ fold' = None
      /\ UNCHANGED << body, queue, current, read, outcome >>
  BY DEF IInv, Idle, FinishFold
<1>1. /\ model \in Models /\ fold \in Folds /\ walk \in Seq(Frames) /\ Len(walk) \in Nat
  BY <1>0, <1>m DEF TypeOK
<1>2. /\ frame.path = path /\ frame.parts = fold.parts /\ frame.cycle = fold.cycle
      /\ frame.todo = ChildNames(frame.parts) /\ frame \in Frames
  <2>1. /\ fold.path \in Seq(Names) /\ fold.parts \in SUBSET Part /\ fold.cycle \in SUBSET Keys
        /\ fold.by \in {"plain", "implicit", "explicit"}
    BY <1>1 DEF Folds
  <2>2. QED
    BY <1>m, <2>1, FrameTyping DEF Frame
<1>3. walk' = Append(walk, frame) /\ flat' = flat \cup {arrived}
  BY <1>m, <1>2 DEF FinishFold, Arrive
<1>4. /\ Len(walk') = Len(walk) + 1 /\ walk'[Len(walk) + 1] = frame
      /\ \A i \in 1 .. Len(walk) : walk'[i] = walk[i]
  BY <1>1, <1>2, <1>3
<1>5. (current # None => Declared(current))'
  BY <1>0, SameModels DEF Faithful
<1>6. ASSUME ReadAtHome'
      PROVE  (FramesTraced /\ EntriesTraced /\ FoldTraced /\ EntriesSettled /\ RootsSettled)'
  <2>1. FramesTraced /\ EntriesTraced /\ FoldTraced /\ EntriesSettled /\ RootsSettled
    BY <1>0, <1>6, ReadGrows DEF Faithful
  <2>2. Len(path) = Len(walk) /\ path \in Seq(Names)
    BY <1>0, <1>1, <1>m, <2>1 DEF FoldTraced, Folds
  <2>3. PICK position \in SUBSET Part : AtPlace(model, path, position) /\ Expands(position)
    BY <1>0, <1>m, <2>1 DEF FoldTraced
  <2>4. \A other \in SUBSET Part : Expands(other) => frame.parts = Conjuncts(other)
    BY <1>0, <1>2, FoldedAll
  <2>5. /\ ~ IsReference(position) /\ frame.parts = Conjuncts(position)
        /\ frame.cycle = Top \cup Followed(position, current[1])
        /\ \A key \in Followed(position, current[1]) :
             FollowsReference(position) /\ key \in TargetsOf(position)
    BY <1>0, <1>2, <2>3, FoldedAll
  <2>6. FrameTraced(frame, model)
    <3>1. ASSUME NEW key \in frame.cycle \ {model}
          PROVE  \E above : IsPrefix(above.path, frame.path) /\ Follows(above, model, key)
      <4>1. CASE key \in Top
        <5>1. PICK above : IsStrictPrefix(above.path, path) /\ Follows(above, model, key)
          BY <1>0, <1>m, <2>1, <3>1, <4>1 DEF FoldTraced
        <5>2. QED
          BY <1>2, <5>1 DEF IsStrictPrefix
      <4>2. CASE key \in Followed(position, current[1])
        <5> DEFINE above == [path |-> path, position |-> position]
        <5>1. above \in Places(model)
          BY <2>2, <2>3, PlaceIsThere
        <5>2. IsPrefix(path, path)
          BY <2>2 DEF IsPrefix
        <5>3. Follows(above, model, key)
          BY <2>5, <4>2, <5>1 DEF Follows
        <5>4. above.path = path
          OBVIOUS
        <5> HIDE DEF above
        <5>5. QED
          BY <1>2, <5>2, <5>3, <5>4
      <4>3. QED
        BY <2>5, <3>1, <4>1, <4>2
    <3>2. QED
      BY <1>2, <2>3, <2>5, <3>1 DEF FrameTraced
  <2>7. FramesTraced'
    <3>1. \A i \in 1 .. Len(walk) + 1 : Len(walk'[i].path) = i - 1 /\ FrameTraced(walk'[i], model)
      <4> SUFFICES ASSUME NEW i \in 1 .. Len(walk) + 1
                   PROVE  Len(walk'[i].path) = i - 1 /\ FrameTraced(walk'[i], model)
        OBVIOUS
      <4>1. CASE i = Len(walk) + 1
        BY <1>1, <1>2, <1>4, <2>2, <2>6, <4>1
      <4>2. CASE i \in 1 .. Len(walk)
        BY <1>4, <1>m, <2>1, <4>2 DEF FramesTraced
      <4>3. QED
        BY <1>1, <4>1, <4>2
    <3>2. QED
      BY <1>0, <1>m, <1>4, <3>1, SamePlaces DEF FramesTraced
  <2>8. EntriesTraced'
    <3>1. EntryTraced(arrived)
      <4>1. Declared(model)
        BY <1>0, <1>m DEF Faithful
      <4>2. QED
        BY <2>3, <2>5, <4>1 DEF EntryTraced
    <3>2. QED
      BY <1>0, <1>3, <2>1, <3>1, SamePlaces DEF EntriesTraced
  <2>9. FoldTraced'
    BY <1>0 DEF FoldTraced
  <2>10. \A m, p, other : Settled(m, p, other) => Settled(m, p, other)'
    <3> SUFFICES ASSUME NEW m, NEW p, NEW other, Settled(m, p, other)
                 PROVE  Settled(m, p, other)'
      OBVIOUS
    <3>1. CASE Entry(m, p, other) \in flat
      BY <1>0, <1>3, <3>1, SamePlaces DEF Settled
    <3>2. CASE m = current /\ fold.path = p /\ Expands(other)
      <4>1. frame.parts = Conjuncts(other)
        BY <2>4, <3>2 DEF Expands
      <4>2. Entry(m, p, other) = arrived
        BY <1>m, <3>2, <4>1 DEF Entry
      <4>3. Entry(m, p, other)' \in flat'
        BY <1>0, <1>3, <4>2, SamePlaces
      <4>4. QED
        BY <4>3 DEF Settled
    <3>3. QED
      BY <3>1, <3>2 DEF Settled
  <2>11. \A entry, name : Awaited(entry, name) => Awaited(entry, name)'
    <3> SUFFICES ASSUME NEW entry, NEW name, Awaited(entry, name) PROVE Awaited(entry, name)'
      OBVIOUS
    <3>1. PICK i \in 1 .. Len(walk) :
            walk[i].path = entry.path /\ walk[i].parts = entry.parts /\ name \in walk[i].todo
      BY DEF Awaited
    <3>2. i \in 1 .. Len(walk') /\ walk'[i] = walk[i]
      BY <1>1, <1>4, <3>1
    <3>3. QED
      BY <1>0, <3>1, <3>2 DEF Awaited
  <2>12. EntrySettled(arrived)'
    <3>1. Len(walk) + 1 \in 1 .. Len(walk')
      BY <1>1, <1>4
    <3>2. \A name \in ChildNames(frame.parts) : Awaited(arrived, name)'
      BY <1>0, <1>m, <1>2, <1>4, <3>1 DEF Awaited
    <3>3. QED
      BY <3>2 DEF EntrySettled
  <2>13. \A entry : EntrySettled(entry) => EntrySettled(entry)'
    BY <2>10, <2>11 DEF EntrySettled
  <2>14. EntriesSettled'
    BY <1>3, <2>1, <2>12, <2>13 DEF EntriesSettled
  <2>15. RootsSettled'
    BY <1>0, <2>1, <2>10, SameModels DEF RootsSettled
  <2>16. QED
    BY <2>7, <2>8, <2>9, <2>14, <2>15
<1>7. QED
  BY <1>5, <1>6 DEF Faithful

(* The walk is that of the places of the text.                             *)
THEOREM WalkIsFaithful == Spec => []Faithful
<1>1. Init => Faithful
  <2> SUFFICES ASSUME Init PROVE Faithful
    OBVIOUS
  <2>1. current = None /\ walk = << >> /\ fold = None /\ flat = {} /\ Range(queue) = Models
    BY OrdersAssumption DEF Init
  <2>2. FramesTraced /\ EntriesTraced /\ FoldTraced /\ EntriesSettled /\ RootsSettled
    BY <2>1 DEF FramesTraced, EntriesTraced, FoldTraced, EntriesSettled, RootsSettled
  <2>3. QED
    BY <2>1, <2>2 DEF Faithful
<1>2. IInv /\ IInv' /\ CycleStack /\ Faithful /\ [Next]_vars => Faithful'
  <2> SUFFICES ASSUME IInv, IInv', CycleStack, Faithful, [Next]_vars PROVE Faithful'
    OBVIOUS
  <2>1. CASE RejectCombinator \/ RejectCycle \/ RejectUnresolved \/ ValidateModelRefs \/ UNCHANGED vars
    <3>1. UNCHANGED << body, queue, current, walk, fold, flat >> /\ read \subseteq read'
      BY <2>1 DEF RejectCombinator, RejectCycle, RejectUnresolved, ValidateModelRefs, Decide, vars
    <3>2. QED
      BY <3>1, OnlyReads
  <2>2. QED
    BY <2>1, StartKeeps, ChildKeeps, LeaveKeeps, FinishKeeps, ExpansionKeeps, FoldKeeps DEF Next
<1>3. QED
  BY <1>1, <1>2, Invariance, StackInvariance, PTL DEF Spec

-----------------------------------------------------------------------------
(* Why the load has ended: nothing moves any more.                         *)
Rejects(item) == item.node \in Unions
ClosesCycle(item) ==
  Target[item.node] # None /\ TargetOf(item) \in item.trail /\ ReadOf(item) \subseteq read
NamesNothing(item) ==
  Target[item.node] # None /\ ~ Declared(TargetOf(item)) /\ ReadOf(item) \subseteq read

Ended ==
  /\ outcome = "accepted" => current = None /\ queue = << >>
  /\ outcome = "combinator" => fold # None /\ \E item \in fold.pending : Rejects(item)
  /\ outcome = "cycle" => fold # None /\ \E item \in fold.pending : ClosesCycle(item)
  /\ outcome = "unresolved" =>
       \/ fold # None /\ \E item \in fold.pending : NamesNothing(item)
       \/ Dangling # {}

LEMMA EndedForCause == Spec => []Ended
<1>1. Init => Ended
  BY DEF Init, Ended
<1>2. Ended /\ [Next]_vars => Ended'
  <2> SUFFICES ASSUME Ended, [Next]_vars PROVE Ended'
    OBVIOUS
  <2>1. CASE StartModel \/ VisitChild \/ LeaveFrame \/ FinishModel \/ ExpandBranch \/ FinishFold
    <3>1. outcome' = "running"
      BY <2>1 DEF StartModel, VisitChild, LeaveFrame, FinishModel, ExpandBranch, FinishFold
    <3>2. QED
      BY <3>1 DEF Ended
  <2>2. CASE RejectCombinator
    <3>1. fold' = fold /\ fold # None /\ outcome' = "combinator" /\ \E item \in fold.pending : Rejects(item)
      BY <2>2 DEF RejectCombinator, Decide, Rejects
    <3>2. \A item : Rejects(item)' <=> Rejects(item)
      BY DEF Rejects
    <3>3. QED
      BY <3>1, <3>2 DEF Ended
  <2>3. CASE RejectCycle
    <3>1. PICK item \in fold.pending :
            /\ Target[item.node] # None /\ TargetOf(item) \in item.trail
            /\ read' = read \cup ReadOf(item)
      BY <2>3 DEF RejectCycle
    <3>2. ClosesCycle(item)'
      BY <3>1 DEF ClosesCycle, ReadOf, TargetOf
    <3>3. fold' = fold /\ fold # None /\ outcome' = "cycle"
      BY <2>3 DEF RejectCycle, Decide
    <3>4. \E i \in fold'.pending : ClosesCycle(i)'
      BY <3>1, <3>2, <3>3
    <3>5. QED
      BY <3>3, <3>4 DEF Ended
  <2>4. CASE RejectUnresolved
    <3>1. PICK item \in fold.pending :
            /\ Target[item.node] # None /\ ~ Declared(TargetOf(item))
            /\ read' = read \cup ReadOf(item)
      BY <2>4 DEF RejectUnresolved
    <3>2. body' = body /\ fold' = fold /\ fold # None /\ outcome' = "unresolved"
      BY <2>4 DEF RejectUnresolved, Decide
    <3>3. NamesNothing(item)'
      BY <3>1, <3>2 DEF NamesNothing, ReadOf, TargetOf, Declared
    <3>4. \E i \in fold'.pending : NamesNothing(i)'
      BY <3>1, <3>2, <3>3
    <3>5. QED
      BY <3>2, <3>4 DEF Ended
  <2>5. CASE ValidateModelRefs
    <3>1. /\ current = None /\ queue = << >> /\ UNCHANGED << body, queue, current, walk, fold, flat >>
          /\ outcome' = IF Dangling = {} THEN "accepted" ELSE "unresolved"
      BY <2>5 DEF ValidateModelRefs, Decide
    <3>2. Dangling' = Dangling
      BY <3>1 DEF Dangling, Declared
    <3>3. QED
      BY <3>1, <3>2 DEF Ended
  <2>6. CASE UNCHANGED vars
    <3>1. UNCHANGED << body, queue, current, walk, fold, flat, read, outcome >>
      BY <2>6 DEF vars
    <3>2. Dangling' = Dangling
      BY <3>1 DEF Dangling, Declared
    <3>3. \A item : /\ Rejects(item)' <=> Rejects(item)
                    /\ ClosesCycle(item)' <=> ClosesCycle(item)
                    /\ NamesNothing(item)' <=> NamesNothing(item)
      BY <3>1 DEF Rejects, ClosesCycle, NamesNothing, ReadOf, TargetOf, Declared
    <3>4. QED
      BY <3>1, <3>2, <3>3 DEF Ended
  <2>7. QED
    BY <2>1, <2>2, <2>3, <2>4, <2>5, <2>6 DEF Next
<1>3. QED
  BY <1>1, <1>2, PTL DEF Spec

(* What an item stands for is folded into the position.                    *)
LEMMA ItemPlace ==
  ASSUME TypeOK, Idle, Faithful, ReadAtHome, fold # None, NEW item \in fold.pending
  PROVE  \E position \in SUBSET Part, home \in item.homes :
           /\ Declared(current) /\ current \in DeclaredModels
           /\ [path |-> fold.path, position |-> position] \in Places(current)
           /\ IsFolded(position) /\ ~ IsReference(position)
           /\ PartAt(item.node, home) \in FoldedParts(position)
           /\ ItemTraced(item, position, Top)
<1>1. current # None /\ Declared(current) /\ current \in DeclaredModels
  BY DEF Idle, Faithful, DeclaredModels, Declared
<1>2. PICK position \in SUBSET Part : AtPlace(current, fold.path, position) /\ Expands(position)
  BY DEF Faithful, FoldTraced
<1>3. fold.path \in Seq(Names)
  BY DEF TypeOK, Folds
<1>4. [path |-> fold.path, position |-> position] \in Places(current)
  BY <1>2, <1>3, PlaceIsThere
<1>5. IsFolded(position) /\ ~ IsReference(position) /\ ItemTraced(item, position, Top)
  BY <1>2 DEF Expands, IsFolded
<1>6. PICK home \in item.homes : TRUE
  BY <1>5 DEF ItemTraced
<1>7. PartAt(item.node, home) \in FoldedParts(position)
  BY <1>5 DEF ItemTraced, Reached, PartsOf, FoldedParts
<1>8. QED
  BY <1>1, <1>2, <1>4, <1>5, <1>6, <1>7

(* What has been read means the same where it is written.                  *)
LEMMA ReadMeans ==
  ASSUME ReadAtHome, NEW item, ReadOf(item) \subseteq read, Target[item.node] # None,
         NEW home \in item.homes
  PROVE  Resolve(Target[item.node], home) = TargetOf(item)
<1>1. [reference |-> Target[item.node], home |-> home, file |-> item.file] \in read
  BY DEF ReadOf
<1>2. QED
  BY <1>1 DEF ReadAtHome, TargetOf

(* An accepted model is the conjunction of what it folds.                  *)
THEOREM FlatteningIsExact == Spec => []FlattenedExactly
<1>1. IInv /\ Faithful /\ Ended => FlattenedExactly
  <2> SUFFICES ASSUME IInv, Faithful, Ended, outcome = "accepted", ReadAtHome
               PROVE  flat = UNION { { [model |-> model, path |-> place.path,
                                        parts |-> Conjuncts(place.position)] : place \in Places(model) } :
                                     model \in DeclaredModels }
    BY DEF FlattenedExactly
  <2>1. /\ TypeOK /\ walk = << >> /\ fold = None /\ queue = << >>
        /\ EntriesTraced /\ EntriesSettled /\ RootsSettled
    BY DEF IInv, Idle, Ended, Faithful
  <2>2. ASSUME NEW entry \in flat
        PROVE  \E model \in DeclaredModels : \E place \in Places(model) :
                 entry = [model |-> model, path |-> place.path, parts |-> Conjuncts(place.position)]
    <3>1. entry \in [model : Models, path : Seq(Names), parts : SUBSET Part]
      BY <2>1 DEF TypeOK
    <3>2. PICK position \in SUBSET Part :
            AtPlace(entry.model, entry.path, position) /\ entry.parts = Conjuncts(position)
      BY <2>1 DEF EntriesTraced, EntryTraced
    <3>3. [path |-> entry.path, position |-> position] \in Places(entry.model)
      BY <3>1, <3>2, PlaceIsThere
    <3>4. entry.model \in DeclaredModels
      BY <2>1 DEF EntriesTraced, EntryTraced, DeclaredModels, Declared
    <3>5. entry = [model |-> entry.model, path |-> entry.path, parts |-> Conjuncts(position)]
      BY <3>1, <3>2
    <3>6. QED
      BY <3>3, <3>4, <3>5
  <2>3. ASSUME NEW model \in DeclaredModels, NEW place \in Places(model)
        PROVE  [model |-> model, path |-> place.path, parts |-> Conjuncts(place.position)] \in flat
    <3> DEFINE typed == [path : Seq(Names), position : SUBSET Part]
               settled == { p \in typed : Entry(model, p.path, p.position) \in flat }
    <3>1. model \in Models /\ Declared(model)
      BY DEF DeclaredModels
    <3>2. ASSUME NEW path, NEW position, Settled(model, path, position)
          PROVE  Entry(model, path, position) \in flat
      BY <2>1, <3>2 DEF Settled
    <3>3. Places(model) \subseteq typed
      BY <2>1, <3>1, PlaceTyping DEF TypeOK
    <3>4. [path |-> << >>, position |-> Root(model)] \in settled
      <4>1. model \notin Range(queue)
        BY <2>1 DEF Range
      <4>2. Entry(model, << >>, Root(model)) \in flat
        BY <2>1, <3>1, <3>2, <4>1 DEF RootsSettled
      <4>3. Root(model) \in SUBSET Part
        BY <2>1, <3>1, ModelsAreKeys DEF Root, PartAt, Part, Declared, TypeOK
      <4>4. QED
        BY <4>2, <4>3
    <3>5. ASSUME NEW p \in settled PROVE PlacesBelow(p) \subseteq settled
      <4>1. /\ p.path \in Seq(Names) /\ p.position \in SUBSET Part
            /\ Entry(model, p.path, p.position) \in flat
        OBVIOUS
      <4>2. SUFFICES ASSUME ~ IsReference(p.position), NEW name \in ChildNames(Conjuncts(p.position))
                     PROVE  [path |-> Append(p.path, name),
                             position |-> ChildAt(Conjuncts(p.position), name)] \in settled
        BY DEF PlacesBelow
      <4>3. Conjuncts(p.position) \in SUBSET Part
        BY <2>1, <4>1, FoldedPartsTyping DEF TypeOK
      <4>4. name \in Names /\ ChildAt(Conjuncts(p.position), name) \in SUBSET Part
        BY <4>2, <4>3, ChildTyping
      <4>5. ~ IsReference(Conjuncts(p.position))
        BY <4>2, ReferencesStay
      <4>6. Settled(model, Append(p.path, name), ChildAt(Conjuncts(p.position), name))
        <5>1. EntrySettled(Entry(model, p.path, p.position))
          BY <2>1, <4>1 DEF EntriesSettled
        <5>2. \A e, n : ~ Awaited(e, n)
          BY <2>1 DEF Awaited
        <5>3. QED
          BY <4>2, <4>5, <5>1, <5>2 DEF EntrySettled, Entry
      <4>7. Append(p.path, name) \in Seq(Names)
        BY <4>1, <4>4
      <4>8. QED
        BY <3>2, <4>4, <4>6, <4>7
    <3> HIDE DEF settled, typed
    <3>6. place \in settled
      BY <3>4, <3>5, EveryPlace
    <3>7. QED
      BY <3>6 DEF settled, Entry
  <2>4. QED
    BY <2>2, <2>3
<1>2. QED
  BY <1>1, Invariance, WalkIsFaithful, EndedForCause, PTL

(* A load is rejected only for what is wrong with some model.              *)
THEOREM RejectionHasCause == Spec => []RejectedForCause
<1>1. IInv /\ CycleStack /\ Faithful /\ Ended => RejectedForCause
  <2> SUFFICES ASSUME IInv, CycleStack, Faithful, Ended, ReadAtHome
               PROVE  /\ outcome = "cycle" => \E model \in DeclaredModels : FoldsAgain(model)
                      /\ outcome = "combinator" => \E model \in DeclaredModels : MeetsUnion(model)
                      /\ outcome = "unresolved" => \E model \in DeclaredModels : MeetsDangling(model)
    BY DEF RejectedForCause
  <2>0. TypeOK /\ Idle /\ EntriesTraced
    BY DEF IInv, Faithful
  <2>1. ASSUME outcome = "combinator" PROVE \E model \in DeclaredModels : MeetsUnion(model)
    <3>1. fold # None /\ \E item \in fold.pending : Rejects(item)
      BY <2>1 DEF Ended
    <3>2. PICK item \in fold.pending : item.node \in Unions
      BY <3>1 DEF Rejects
    <3>3. PICK position \in SUBSET Part, home \in item.homes :
           /\ current \in DeclaredModels
           /\ [path |-> fold.path, position |-> position] \in Places(current)
           /\ IsFolded(position)
           /\ PartAt(item.node, home) \in FoldedParts(position)
      BY <2>0, <3>1, ItemPlace
    <3>4. MeetsUnion(current)
      <4>1. PartAt(item.node, home).node \in Unions
        BY <3>2 DEF PartAt
      <4>2. QED
        BY <3>3, <4>1 DEF MeetsUnion
    <3>5. QED
      BY <3>3, <3>4
  <2>2. ASSUME outcome = "unresolved" PROVE \E model \in DeclaredModels : MeetsDangling(model)
    <3>1. CASE fold # None /\ \E item \in fold.pending : NamesNothing(item)
      <4>1. PICK item \in fold.pending :
              Target[item.node] # None /\ ~ Declared(TargetOf(item)) /\ ReadOf(item) \subseteq read
        BY <3>1 DEF NamesNothing
      <4>2. PICK position \in SUBSET Part, home \in item.homes :
             /\ current \in DeclaredModels
             /\ [path |-> fold.path, position |-> position] \in Places(current)
             /\ PartAt(item.node, home) \in FoldedParts(position)
        BY <2>0, <3>1, ItemPlace
      <4>3. ~ Declared(Resolve(Target[item.node], home))
        BY <4>1, ReadMeans
      <4>4. PartAt(item.node, home).node = item.node /\ PartAt(item.node, home).home = home
        BY DEF PartAt
      <4>5. MeetsDangling(current)
        BY <4>1, <4>2, <4>3, <4>4 DEF MeetsDangling
      <4>6. QED
        BY <4>2, <4>5
    <3>2. CASE Dangling # {}
      <4>1. PICK entry \in flat :
              /\ IsReference(entry.parts)
              /\ \E part \in entry.parts : ~ Declared(Resolve(Target[part.node], entry.model[1]))
        BY <3>2 DEF Dangling
      <4>2. PICK part \in entry.parts : ~ Declared(Resolve(Target[part.node], entry.model[1]))
        BY <4>1
      <4>3. EntryTraced(entry)
        BY <2>0 DEF EntriesTraced
      <4>4. PICK position \in SUBSET Part :
              /\ AtPlace(entry.model, entry.path, position) /\ entry.parts = Conjuncts(position)
              /\ IsReference(position) =>
                   \A p \in position :
                     Resolve(Target[p.node], p.home) = Resolve(Target[p.node], entry.model[1])
        BY <4>3 DEF EntryTraced
      <4>5. IsReference(position) /\ entry.parts = position
        BY <4>1, <4>4, ReferencesStay DEF Conjuncts, IsFolded
      <4>6. Target[part.node] # None /\ ~ Declared(Resolve(Target[part.node], part.home))
        BY <4>2, <4>4, <4>5 DEF IsReference, IsSingle, IsBareRef
      <4>7. part \in FoldedParts(position)
        BY <4>5, FoldWavesAre, BoundsAssumption DEF FoldedParts
      <4>8. entry.path \in Seq(Names) /\ entry.model \in DeclaredModels
        BY <2>0, <4>3 DEF TypeOK, EntryTraced, DeclaredModels, Declared
      <4>9. [path |-> entry.path, position |-> position] \in Places(entry.model)
        BY <4>4, <4>8, PlaceIsThere
      <4>10. MeetsDangling(entry.model)
        BY <4>6, <4>7, <4>9 DEF MeetsDangling
      <4>11. QED
        BY <4>8, <4>10
    <3>3. QED
      BY <2>2, <3>1, <3>2 DEF Ended
  <2>3. ASSUME outcome = "cycle" PROVE \E model \in DeclaredModels : FoldsAgain(model)
    <3>1. fold # None /\ \E item \in fold.pending : ClosesCycle(item)
      BY <2>3 DEF Ended
    <3>2. PICK item \in fold.pending :
            Target[item.node] # None /\ TargetOf(item) \in item.trail /\ ReadOf(item) \subseteq read
      BY <3>1 DEF ClosesCycle
    <3>3. PICK position \in SUBSET Part, home \in item.homes :
           /\ current \in DeclaredModels
           /\ [path |-> fold.path, position |-> position] \in Places(current)
           /\ ~ IsReference(position)
           /\ PartAt(item.node, home) \in FoldedParts(position)
           /\ ItemTraced(item, position, Top)
      BY <2>0, <3>1, ItemPlace
    <3> DEFINE target == TargetOf(item)
               part == PartAt(item.node, home)
               place == [path |-> fold.path, position |-> position]
    <3>4. Resolve(Target[item.node], home) = target
      BY <3>2, ReadMeans
    <3>5. part.node = item.node /\ part.home = home
      BY DEF PartAt
    <3>6. place.path = fold.path /\ place.position = position /\ place \in Places(current)
      BY <3>3
    <3>7. target \in FoldedModels(position)
      BY <3>2, <3>3, <3>4, <3>5 DEF FoldedModels, TargetsOf
    <3> HIDE DEF target, place
    <3>8. CASE target = current
      BY <3>3, <3>6, <3>7, <3>8 DEF FoldsAgain
    <3>9. CASE target \in Top \ {current}
      <4>1. PICK above : IsStrictPrefix(above.path, fold.path) /\ Follows(above, current, target)
        BY <3>1, <3>9 DEF Faithful, FoldTraced
      <4>2. /\ above \in Places(current) /\ FollowsReference(above.position)
            /\ TargetsOf(above.position) \cap FoldedModels(place.position) # {}
        BY <3>6, <3>7, <4>1 DEF Follows
      <4>3. FoldsAgain(current)
        BY <3>3, <3>6, <4>1, <4>2 DEF FoldsAgain
      <4>4. QED
        BY <3>3, <4>3
    <3>10. CASE target \in item.trail \ Top
      <4>1. target \in Models /\ Leads(PartAt(body[target], target[1]), part)
        BY <3>3, <3>10 DEF ItemTraced, PartsOf
      <4>2. PICK chain \in SUBSET Part :
              /\ PartAt(body[target], target[1]) \in chain /\ part \in chain
              /\ \A p \in chain \ {part} : FoldedBy(p) \cap chain # {}
        BY <4>1 DEF Leads
      <4>3. Declared(target)
        <5>1. PartAt(body[target], target[1]) \in Part
          BY <4>2
        <5>2. body[target] \in Nodes
          BY <5>1 DEF PartAt, Part
        <5>3. QED
          BY <4>1, <5>2, NoneAssumption DEF Declared
      <4>4. PartAt(body[target], target[1]) \in FoldedBy(part)
        BY <3>2, <3>4, <3>5, <4>1, <4>3 DEF FoldedBy, PartAt
      <4>5. \A p \in chain : FoldedBy(p) \cap chain # {}
        BY <4>2, <4>4
      <4>6. PICK n \in 0 .. Horizon : part \in FoldWaves(position)[n]
        BY <3>3 DEF FoldedParts
      <4>7. FoldWaves(position)[Horizon] # {}
        BY <4>2, <4>5, <4>6, EndlessFold
      <4>8. FoldsAgain(current)
        BY <3>3, <3>6, <4>7 DEF FoldsAgain
      <4>9. QED
        BY <3>3, <4>8
    <3>11. QED
      BY <3>2, <3>8, <3>9, <3>10 DEF target
  <2>4. QED
    BY <2>1, <2>2, <2>3
<1>2. QED
  BY <1>1, Invariance, StackInvariance, WalkIsFaithful, EndedForCause, PTL
=============================================================================
