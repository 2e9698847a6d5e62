------------------------ MODULE SourceClosure_proofs ------------------------
(***************************************************************************)
(* For any files, references and inputs: a load succeeds with exactly the  *)
(* reachable files, and fails only for a cause among them.                 *)
(*                                                                         *)
(* The argument: every source was reached, and a source that is not        *)
(* waiting is good and has all its references among the sources, except    *)
(* those still to be followed.  When nothing waits the sources are closed, *)
(* so they are the least closed set.                                       *)
(***************************************************************************)
EXTENDS SourceClosure, FiniteSetTheorems, SequenceTheorems, TLAPS

Waits(file) == \E i \in DOMAIN pending : pending[i] = file

(* A reference that was followed.                                          *)
IsFollowed(reference) == reference \in sources /\ Under(reference, InvocationRoot)

(* The search so far.                                                      *)
SearchState ==
  outcome \in {"reading", "placing", "loaded"} =>
    /\ NamedFiles \subseteq sources /\ sources \subseteq Reachable
    /\ \A i \in DOMAIN pending : pending[i] \in sources
    /\ \A file \in sources : ~ CannotBeRead(file)
    /\ \A file \in sources :
         \/ Waits(file)
         \/ /\ disk[file] = "good"
            /\ \A reference \in refs[file] : reference \in todo \/ IsFollowed(reference)
    /\ \A reference \in todo : \E file \in sources : reference \in refs[file]

(* The search is over, and the tree so far has no conflict.                *)
TreeState ==
  /\ outcome \in {"start", "reading"} => leaves = {}
  /\ outcome = "placing" =>
       /\ sources = Reachable /\ sources # {} /\ Cardinality(sources) # 1
       /\ \A file \in Reachable : ~ IsDefective(file)
       /\ \A file \in sources : ~ IsBadModule(ModulePath(file, sources))
       /\ leaves \subseteq sources
       /\ \A file, other \in leaves :
            file # other => ~ Clashes(ModulePath(file, sources), ModulePath(other, sources))

StartState == outcome = "start" => todo = {}

IInv == TypeOK /\ StartState /\ SearchState /\ TreeState /\ AcceptedIsClosure /\ RejectedForCause

-----------------------------------------------------------------------------
(* The files that are named are reachable, what a reachable file refers to *)
(* is, and no closed set leaves one out.                                   *)
LEMMA ReachableIsLeast ==
  ASSUME TypeOK
  PROVE  /\ NamedFiles \subseteq Reachable
         /\ \A file \in Reachable : refs[file] \cap Files \subseteq Reachable
         /\ \A files \in SUBSET Files :
              NamedFiles \subseteq files
                /\ (\A file \in files : refs[file] \cap Files \subseteq files)
              => Reachable \subseteq files
<1>1. NamedFiles \subseteq Files
  BY DEF NamedFiles
<1>2. QED
  BY <1>1 DEF Reachable

(* What the world determines does not change with the search.              *)
LEMMA WorldStays ==
  ASSUME UNCHANGED world
  PROVE  /\ NamedFiles' = NamedFiles
         /\ Reachable' = Reachable
         /\ InvocationRoot' = InvocationRoot
         /\ \A file : IsDefective(file)' = IsDefective(file)
<1>1. NamedFiles' = NamedFiles
  BY DEF world, NamedFiles
<1>2. Reachable' = Reachable
  BY <1>1 DEF world, Reachable
<1>3. InvocationRoot' = InvocationRoot
  BY DEF world, InvocationRoot
<1>4. \A file : IsDefective(file)' = IsDefective(file)
  BY <1>3 DEF world, IsDefective
<1>5. QED
  BY <1>1, <1>2, <1>3, <1>4

LEMMA InitTyping == Init => TypeOK
BY GraphAssumption, DiskAssumption DEF Init, TypeOK

(* Types hold in every reachable state.                                    *)
THEOREM Typing == Spec => []TypeOK
<1>1. TypeOK /\ [Next]_vars => TypeOK'
  <2> SUFFICES ASSUME TypeOK, [Next]_vars PROVE TypeOK'
    OBVIOUS
  <2> USE DEF world, search
  <2>1. CASE Reject
    BY <2>1 DEF Reject, TypeOK
  <2>2. CASE ReadInputs
    <3>1. NamedFiles \subseteq Files
      BY DEF NamedFiles
    <3>2. Cardinality(NamedFiles) \in Nat
      BY <3>1, FilesAssumption, FS_Subset, FS_CardinalityType
    <3>3. pending' \in Seq(Files)
      BY <2>2, <3>1, <3>2 DEF ReadInputs
    <3>4. QED
      BY <2>2, <3>1, <3>3 DEF ReadInputs, TypeOK
  <2>3. CASE TakeFile
    <3>1. Head(pending) \in Files /\ Tail(pending) \in Seq(Files)
      BY <2>3 DEF TakeFile, TypeOK
    <3>2. QED
      BY <2>3, <3>1 DEF TakeFile, TypeOK
  <2>4. CASE FollowReference
    <3>1. PICK reference \in todo :
            /\ ~ IsRejected(reference)
            /\ todo' = todo \ {reference}
            /\ sources' = sources \cup {reference}
            /\ pending' = IF reference \in sources THEN pending ELSE Append(pending, reference)
      BY <2>4 DEF FollowReference
    <3>2. reference \in Files
      BY <3>1 DEF IsRejected, TypeOK, Reference
    <3>3. pending' \in Seq(Files)
      BY <3>1, <3>2 DEF TypeOK
    <3>4. QED
      BY <2>4, <3>1, <3>2, <3>3 DEF FollowReference, TypeOK
  <2>5. CASE PlaceSources
    BY <2>5 DEF PlaceSources, TypeOK
  <2>6. CASE InsertLeaf
    BY <2>6 DEF InsertLeaf, TypeOK
  <2>7. CASE UNCHANGED vars
    BY <2>7 DEF vars, TypeOK
  <2>8. QED
    BY <2>1, <2>2, <2>3, <2>4, <2>5, <2>6, <2>7
       DEF Next, RejectInput, RejectGrammar, RejectReference, RejectNothing, RejectModule
<1>2. QED
  BY <1>1, InitTyping, PTL DEF Spec

(* A reachable file with a defect, or a conflict of the reachable files'   *)
(* names, is cause enough.                                                 *)
Cause ==
  \/ Reachable = {}
  \/ \E file \in Reachable : IsDefective(file)
  \/ NamesConflict(Reachable)

(* A rejection keeps the state of the search and needs a cause.            *)
LEMMA RejectKeeps ==
  ASSUME IInv, TypeOK', Reject, Cause
  PROVE  IInv'
<1>1. Cause'
  BY WorldStays DEF Reject, Cause, NamesConflict, ModulePath
<1>2. StartState' /\ SearchState' /\ TreeState' /\ AcceptedIsClosure'
  BY DEF Reject, StartState, SearchState, TreeState, AcceptedIsClosure
<1>3. RejectedForCause'
  BY <1>1 DEF Cause, RejectedForCause
<1>4. QED
  BY <1>2, <1>3 DEF IInv

(* When nothing waits the sources are the reachable files, without defect. *)
LEMMA SearchEnds ==
  ASSUME TypeOK, SearchState, outcome = "reading", todo = {}, pending = << >>
  PROVE  sources = Reachable /\ \A file \in Reachable : ~ IsDefective(file)
<1>1. \A file \in sources :
         disk[file] = "good" /\ \A reference \in refs[file] : IsFollowed(reference)
  BY DEF SearchState, Waits
<1>2. \A file \in sources : refs[file] \cap Files \subseteq sources
  BY <1>1 DEF IsFollowed
<1>3. sources \in SUBSET Files /\ NamedFiles \subseteq sources /\ sources \subseteq Reachable
  BY DEF SearchState, TypeOK
<1>4. sources = Reachable
  BY <1>2, <1>3, ReachableIsLeast
<1>5. \A file \in sources : Absolute \notin refs[file]
  BY <1>1, <1>3, AbsoluteAssumption DEF IsFollowed
<1>6. QED
  BY <1>1, <1>4, <1>5 DEF IsDefective, IsFollowed

(* Search, tree and verdict in every reachable state.                      *)
THEOREM Invariance == Spec => []IInv
<1>1. Init => IInv
  BY InitTyping DEF Init, IInv, StartState, SearchState, TreeState, AcceptedIsClosure, RejectedForCause
<1>2. IInv /\ TypeOK' /\ [Next]_vars => IInv'
  <2> SUFFICES ASSUME IInv, TypeOK', [Next]_vars PROVE IInv'
    OBVIOUS
  <2>0. TypeOK /\ SearchState /\ TreeState
    BY DEF IInv
  <2>1. CASE RejectInput
    <3>1. PICK file \in NamedFiles : CannotBeRead(file)
      BY <2>1 DEF RejectInput
    <3>2. file \in Reachable /\ IsDefective(file)
      BY <2>0, <3>1, ReachableIsLeast DEF CannotBeRead, IsDefective
    <3>3. QED
      BY <2>1, <3>2, RejectKeeps DEF RejectInput, Cause
  <2>2. CASE ReadInputs
    <3>1. /\ UNCHANGED world /\ sources' = NamedFiles /\ todo' = todo /\ leaves' = leaves
          /\ outcome' = "reading" /\ outcome = "start"
          /\ \A file \in NamedFiles : ~ CannotBeRead(file)
          /\ \A file \in NamedFiles : \E i \in DOMAIN pending' : pending'[i] = file
          /\ \A i \in DOMAIN pending' : pending'[i] \in NamedFiles
      BY <2>2 DEF ReadInputs
    <3>2. SearchState'
      <4>1. todo = {}
        BY <3>1 DEF IInv, StartState
      <4>2. NamedFiles \subseteq Reachable
        BY <2>0, ReachableIsLeast
      <4>3. disk' = disk
        BY <3>1 DEF world
      <4>4. NamedFiles' = NamedFiles /\ Reachable' = Reachable /\ sources' = NamedFiles /\ todo' = {}
        BY <3>1, <4>1, WorldStays
      <4>5. QED
        BY <3>1, <4>2, <4>3, <4>4 DEF SearchState, Waits, CannotBeRead
    <3>3. TreeState' /\ AcceptedIsClosure' /\ RejectedForCause'
      BY <2>0, <3>1 DEF TreeState, AcceptedIsClosure, RejectedForCause
    <3>4. StartState'
      BY <3>1 DEF StartState
    <3>5. QED
      BY <3>2, <3>3, <3>4 DEF IInv
  <2>3. CASE RejectGrammar
    <3>1. Reject /\ outcome = "reading" /\ pending # << >> /\ disk[Head(pending)] = "malformed"
      BY <2>3 DEF RejectGrammar
    <3>2. Head(pending) = pending[1] /\ 1 \in DOMAIN pending
      BY <2>0, <3>1 DEF TypeOK
    <3>3. Head(pending) \in Reachable /\ IsDefective(Head(pending))
      BY <2>0, <3>1, <3>2 DEF SearchState, IsDefective
    <3>4. QED
      BY <3>1, <3>3, RejectKeeps DEF Cause
  <2>4. CASE TakeFile
    <3>1. /\ outcome = "reading" /\ todo = {} /\ pending # << >>
          /\ disk[Head(pending)] # "malformed"
          /\ pending' = Tail(pending) /\ todo' = refs[Head(pending)]
          /\ UNCHANGED << world, sources, leaves, outcome >>
      BY <2>4 DEF TakeFile
    <3> DEFINE taken == Head(pending)
    <3>2. /\ taken \in sources
          /\ \A i \in DOMAIN pending : pending[i] = taken
               \/ \E j \in DOMAIN pending' : pending'[j] = pending[i]
          /\ \A j \in DOMAIN pending' : pending'[j] \in sources
      <4>1. pending \in Seq(Files) /\ \A i \in DOMAIN pending : pending[i] \in sources
        BY <2>0, <3>1 DEF TypeOK, SearchState
      <4>2. /\ DOMAIN pending = 1 .. Len(pending) /\ Len(pending) \in Nat \ {0}
            /\ DOMAIN pending' = 1 .. Len(pending) - 1
            /\ \A j \in 1 .. Len(pending) - 1 : pending'[j] = pending[j + 1]
        BY <3>1, <4>1
      <4>3. taken = pending[1] /\ 1 \in DOMAIN pending
        BY <3>1, <4>1, <4>2
      <4>4. \A i \in DOMAIN pending : i = 1 \/ (i - 1 \in DOMAIN pending' /\ pending'[i - 1] = pending[i])
        BY <4>2
      <4>5. \A j \in DOMAIN pending' : pending'[j] \in sources
        BY <4>1, <4>2
      <4>6. QED
        BY <4>1, <4>3, <4>4, <4>5
    <3>3. ~ CannotBeRead(taken) /\ disk[taken] \in Condition
      BY <2>0, <3>1, <3>2 DEF SearchState, TypeOK
    <3>4. disk[taken] = "good"
      BY <3>1, <3>3 DEF CannotBeRead, Condition
    <3>5. \A file \in sources :
            \/ (\E j \in DOMAIN pending' : pending'[j] = file)
            \/ disk[file] = "good" /\ \A reference \in refs[file] :
                 reference \in todo' \/ IsFollowed(reference)
      <4> SUFFICES ASSUME NEW file \in sources,
                          ~ \E j \in DOMAIN pending' : pending'[j] = file
                   PROVE  disk[file] = "good" /\ \A reference \in refs[file] :
                            reference \in todo' \/ IsFollowed(reference)
        OBVIOUS
      <4>1. CASE file = taken
        BY <3>1, <3>4, <4>1
      <4>2. CASE file # taken
        <5>1. ~ Waits(file)
          BY <3>2, <4>2 DEF Waits
        <5>2. QED
          BY <2>0, <3>1, <5>1 DEF SearchState
      <4>3. QED
        BY <4>1, <4>2
    <3>6. \A file : CannotBeRead(file)' = CannotBeRead(file)
      BY <3>1 DEF CannotBeRead, world
    <3>7. \A reference : IsFollowed(reference)' = IsFollowed(reference)
      BY <3>1, WorldStays DEF IsFollowed
    <3>8. SearchState'
      <4> HIDE DEF taken
      <4>1. refs' = refs /\ disk' = disk
        BY <3>1 DEF world
      <4>2. \A reference \in todo' : \E file \in sources : reference \in refs[file]
        BY <3>1, <3>2 DEF taken
      <4>3. QED
        BY <2>0, <3>1, <3>2, <3>5, <3>6, <3>7, <4>1, <4>2, WorldStays DEF SearchState, Waits
    <3>9. TreeState' /\ AcceptedIsClosure' /\ RejectedForCause' /\ StartState'
      BY <2>0, <3>1 DEF TreeState, AcceptedIsClosure, RejectedForCause, StartState
    <3>10. QED
      BY <3>8, <3>9 DEF IInv
  <2>5. CASE RejectReference
    <3>1. PICK reference \in todo : IsRejected(reference)
      BY <2>5 DEF RejectReference
    <3>2. Reject /\ outcome = "reading"
      BY <2>5 DEF RejectReference
    <3>3. PICK file \in sources : reference \in refs[file]
      BY <2>0, <3>1, <3>2 DEF SearchState
    <3>4. file \in Reachable
      BY <2>0, <3>2, <3>3 DEF SearchState
    <3>5. \E culprit \in Reachable : IsDefective(culprit)
      <4>1. CASE \/ reference = Absolute
                 \/ reference \in Files /\ ~ Under(reference, InvocationRoot)
        BY <3>3, <3>4, <4>1 DEF IsDefective
      <4>2. CASE reference \in Files /\ CannotBeRead(reference)
        <5>1. reference \in Reachable
          BY <2>0, <3>3, <3>4, <4>2, ReachableIsLeast
        <5>2. QED
          BY <4>2, <5>1 DEF IsDefective, CannotBeRead
      <4>3. \/ reference = Absolute
            \/ reference \in Files /\ ~ Under(reference, InvocationRoot)
            \/ reference \in Files /\ CannotBeRead(reference)
        BY <3>1 DEF IsRejected
      <4>4. QED
        BY <4>1, <4>2, <4>3
    <3>6. QED
      BY <3>2, <3>5, RejectKeeps DEF Cause
  <2>6. CASE FollowReference
    <3>1. outcome = "reading" /\ UNCHANGED << world, leaves, outcome >>
      BY <2>6 DEF FollowReference
    <3>2. PICK reference \in todo :
            /\ ~ IsRejected(reference)
            /\ todo' = todo \ {reference}
            /\ sources' = sources \cup {reference}
            /\ pending' = IF reference \in sources THEN pending ELSE Append(pending, reference)
      BY <2>6 DEF FollowReference
    <3>3. /\ reference \in Files /\ Under(reference, InvocationRoot)
          /\ reference \in sources \/ ~ CannotBeRead(reference)
      BY <2>0, <3>2 DEF IsRejected, TypeOK, Reference
    <3>4. reference \in Reachable
      <4>1. PICK file \in sources : reference \in refs[file]
        BY <2>0, <3>1, <3>2 DEF SearchState
      <4>2. QED
        BY <2>0, <3>1, <3>3, <4>1, ReachableIsLeast DEF SearchState
    <3>5. /\ \A i \in DOMAIN pending : \E j \in DOMAIN pending' : pending'[j] = pending[i]
          /\ \A j \in DOMAIN pending' : pending'[j] = reference \/ pending'[j] \in sources
          /\ reference \in sources \/ \E j \in DOMAIN pending' : pending'[j] = reference
      <4>1. pending \in Seq(Files) /\ \A i \in DOMAIN pending : pending[i] \in sources
        BY <2>0, <3>1 DEF TypeOK, SearchState
      <4>2. CASE reference \in sources
        BY <3>2, <4>1, <4>2
      <4>3. CASE reference \notin sources
        <5>1. /\ DOMAIN pending = 1 .. Len(pending) /\ Len(pending) \in Nat
              /\ DOMAIN pending' = 1 .. Len(pending) + 1
              /\ \A j \in 1 .. Len(pending) : pending'[j] = pending[j]
              /\ pending'[Len(pending) + 1] = reference
          BY <3>2, <3>3, <4>1, <4>3
        <5>2. \A i \in DOMAIN pending : i \in DOMAIN pending' /\ pending'[i] = pending[i]
          BY <5>1
        <5>3. \A j \in DOMAIN pending' : j \in DOMAIN pending \/ j = Len(pending) + 1
          BY <5>1
        <5>4. Len(pending) + 1 \in DOMAIN pending'
          BY <5>1
        <5>5. QED
          BY <4>1, <5>1, <5>2, <5>3, <5>4
      <4>4. QED
        BY <4>2, <4>3
    <3>6. \A file : CannotBeRead(file)' = CannotBeRead(file)
      BY <3>1 DEF CannotBeRead, world
    <3>7. /\ \A other : IsFollowed(other) => IsFollowed(other)'
          /\ IsFollowed(reference)'
      BY <3>1, <3>2, <3>3, WorldStays DEF IsFollowed
    <3>8. refs' = refs /\ disk' = disk
      BY <3>1 DEF world
    <3>9. \A file \in sources' :
            \/ Waits(file)'
            \/ disk[file] = "good" /\ \A other \in refs[file] :
                 other \in todo' \/ IsFollowed(other)'
      <4> SUFFICES ASSUME NEW file \in sources', ~ Waits(file)'
                   PROVE  disk[file] = "good" /\ \A other \in refs[file] :
                            other \in todo' \/ IsFollowed(other)'
        OBVIOUS
      <4>1. file \in sources
        BY <3>2, <3>5 DEF Waits
      <4>2. ~ Waits(file)
        BY <3>5 DEF Waits
      <4>3. disk[file] = "good" /\ \A other \in refs[file] : other \in todo \/ IsFollowed(other)
        BY <2>0, <3>1, <4>1, <4>2 DEF SearchState
      <4>4. QED
        BY <3>2, <3>7, <4>3
    <3>10. SearchState'
      <4>1. NamedFiles \subseteq sources' /\ sources' \subseteq Reachable
        BY <2>0, <3>1, <3>2, <3>4 DEF SearchState
      <4>2. \A j \in DOMAIN pending' : pending'[j] \in sources'
        BY <3>2, <3>5
      <4>3. \A file \in sources' : ~ CannotBeRead(file)
        BY <2>0, <3>1, <3>2, <3>3 DEF SearchState
      <4>4. \A other \in todo' : \E file \in sources' : other \in refs[file]
        BY <2>0, <3>1, <3>2 DEF SearchState
      <4>5. QED
        BY <3>1, <3>6, <3>8, <3>9, <4>1, <4>2, <4>3, <4>4, WorldStays DEF SearchState
    <3>11. TreeState' /\ AcceptedIsClosure' /\ RejectedForCause' /\ StartState'
      BY <2>0, <3>1 DEF TreeState, AcceptedIsClosure, RejectedForCause, StartState
    <3>12. QED
      BY <3>10, <3>11 DEF IInv
  <2>7. CASE RejectNothing
    <3>1. Reject /\ outcome = "reading" /\ todo = {} /\ pending = << >> /\ sources = {}
      BY <2>7 DEF RejectNothing
    <3>2. QED
      BY <2>0, <3>1, SearchEnds, RejectKeeps DEF Cause
  <2>8. CASE PlaceSources
    <3>1. outcome = "reading" /\ todo = {} /\ pending = << >> /\ sources # {}
          /\ UNCHANGED << world, search >>
      BY <2>8 DEF PlaceSources
    <3>2. sources = Reachable /\ \A file \in Reachable : ~ IsDefective(file)
      BY <2>0, <3>1, SearchEnds
    <3>3. /\ Reachable' = Reachable /\ sources' = sources
          /\ \A file : IsDefective(file)' = IsDefective(file)
      BY <3>1, WorldStays DEF search
    <3>4. SearchState'
      BY <2>0, <3>1, WorldStays DEF SearchState, search, world, Waits, CannotBeRead, IsFollowed
    <3>5. CASE Cardinality(sources) = 1
      <4>1. leaves' = sources /\ outcome' = "loaded"
        BY <2>8, <3>5 DEF PlaceSources
      <4>2. AcceptedIsClosure'
        BY <3>1, <3>2, <3>3, <3>5, <4>1 DEF AcceptedIsClosure, NamesConflict
      <4>3. TreeState' /\ RejectedForCause' /\ StartState'
        BY <4>1 DEF TreeState, RejectedForCause, StartState
      <4>4. QED
        BY <3>4, <4>2, <4>3 DEF IInv
    <3>6. CASE Cardinality(sources) # 1 /\ \E file \in sources : IsBadModule(ModulePath(file, sources))
      <4>1. leaves' = leaves /\ outcome' = "rejected"
        BY <2>8, <3>6 DEF PlaceSources
      <4>2. Reject
        BY <3>1, <4>1 DEF Reject
      <4>3. NamesConflict(Reachable)
        BY <3>2, <3>6 DEF NamesConflict
      <4>4. QED
        BY <4>2, <4>3, RejectKeeps DEF Cause
    <3>7. CASE Cardinality(sources) # 1 /\ ~ \E file \in sources : IsBadModule(ModulePath(file, sources))
      <4>1. leaves' = leaves /\ outcome' = "placing" /\ leaves = {}
        BY <2>0, <2>8, <3>1, <3>7 DEF PlaceSources, TreeState
      <4>2. TreeState'
        BY <3>1, <3>2, <3>3, <3>7, <4>1 DEF TreeState, ModulePath
      <4>3. AcceptedIsClosure' /\ RejectedForCause' /\ StartState'
        BY <4>1 DEF AcceptedIsClosure, RejectedForCause, StartState
      <4>4. QED
        BY <3>4, <4>2, <4>3 DEF IInv
    <3>8. QED
      BY <3>5, <3>6, <3>7
  <2>9. CASE RejectModule
    <3>1. Reject /\ outcome = "placing"
      BY <2>9 DEF RejectModule
    <3>2. PICK file \in sources \ leaves, leaf \in leaves :
             Clashes(ModulePath(file, sources), ModulePath(leaf, sources))
      BY <2>9 DEF RejectModule
    <3>3. file # leaf /\ leaf \in sources /\ sources = Reachable /\ Cardinality(sources) # 1
      BY <2>0, <3>1, <3>2 DEF TreeState
    <3>4. NamesConflict(Reachable)
      BY <3>2, <3>3 DEF NamesConflict
    <3>5. QED
      BY <3>1, <3>4, RejectKeeps DEF Cause
  <2>10. CASE InsertLeaf
    <3>1. outcome = "placing" /\ UNCHANGED << world, search >>
          /\ outcome' = IF leaves' = sources THEN "loaded" ELSE "placing"
      BY <2>10 DEF InsertLeaf
    <3>2. PICK file \in sources \ leaves :
            /\ \A leaf \in leaves : ~ Clashes(ModulePath(file, sources), ModulePath(leaf, sources))
            /\ leaves' = leaves \cup {file}
      BY <2>10 DEF InsertLeaf
    <3>3. /\ sources = Reachable /\ sources # {} /\ Cardinality(sources) # 1
          /\ \A f \in Reachable : ~ IsDefective(f)
          /\ \A f \in sources : ~ IsBadModule(ModulePath(f, sources))
          /\ leaves \subseteq sources
      BY <2>0, <3>1 DEF TreeState
    <3>4. \A f, g \in leaves' :
             f # g => ~ Clashes(ModulePath(f, sources), ModulePath(g, sources))
      BY <2>0, <3>1, <3>2 DEF TreeState, Clashes
    <3>5. /\ Reachable' = Reachable /\ sources' = sources
          /\ \A f : IsDefective(f)' = IsDefective(f)
      BY <3>1, WorldStays DEF search
    <3>6. SearchState'
      BY <2>0, <3>1, WorldStays DEF SearchState, search, world, Waits, CannotBeRead, IsFollowed
    <3>7. TreeState'
      BY <3>1, <3>2, <3>3, <3>4, <3>5 DEF TreeState, ModulePath
    <3>8. AcceptedIsClosure'
      BY <3>1, <3>3, <3>4, <3>5 DEF AcceptedIsClosure, NamesConflict, ModulePath
    <3>9. RejectedForCause' /\ StartState'
      BY <3>1 DEF RejectedForCause, StartState
    <3>10. QED
      BY <3>6, <3>7, <3>8, <3>9 DEF IInv
  <2>11. CASE UNCHANGED vars
    BY <2>11, WorldStays
       DEF vars, search, world, IInv, SearchState, TreeState, StartState, AcceptedIsClosure,
           RejectedForCause, Waits, CannotBeRead, IsFollowed, NamesConflict, ModulePath
  <2>12. QED
    BY <2>1, <2>2, <2>3, <2>4, <2>5, <2>6, <2>7, <2>8, <2>9, <2>10, <2>11 DEF Next
<1>3. QED
  BY <1>1, <1>2, Typing, PTL DEF Spec

(* A successful load has exactly the files that the references lead to.    *)
THEOREM AcceptedExactly == Spec => []AcceptedIsClosure
<1>1. IInv => AcceptedIsClosure
  BY DEF IInv
<1>2. QED
  BY <1>1, Invariance, PTL

(* A failed load has a cause that does not depend on the order of search.  *)
THEOREM RejectedSoundly == Spec => []RejectedForCause
<1>1. IInv => RejectedForCause
  BY DEF IInv
<1>2. QED
  BY <1>1, Invariance, PTL

-----------------------------------------------------------------------------
(* The names of the modules.                                               *)

Paths == Seq(STRING)

(* The paths of a set have their first n names in common.                  *)
Agree(paths, n) ==
  /\ n \in Nat
  /\ \A p, q \in paths :
       /\ n <= Len(p) /\ n <= Len(q)
       /\ \A i \in 1 .. n : p[i] = q[i]

(* A prefix has the names it is cut from.                                  *)
LEMMA Cut ==
  ASSUME NEW p \in Paths, NEW m \in Nat \ {0}, NEW n \in Nat, n <= Len(p), m <= n + 1
  PROVE  /\ SubSeq(p, m, n) \in Paths /\ Len(SubSeq(p, m, n)) = n - m + 1
         /\ \A i \in 1 .. n - m + 1 : SubSeq(p, m, n)[i] = p[m + i - 1]
<1>1. \A i \in m .. n : p[i] \in STRING
  BY DEF Paths
<1>2. Len(SubSeq(p, m, n)) = IF m <= n THEN n - m + 1 ELSE 0
  BY <1>1, SubSeqProperties
<1>3. SubSeq(p, m, n) \in Seq(STRING) /\ \A i \in 1 .. n - m + 1 : SubSeq(p, m, n)[i] = p[m + i - 1]
  BY <1>1, SubSeqProperties
<1>4. QED
  BY <1>2, <1>3 DEF Paths

(* Two sequences of equal length and equal names are one.                  *)
LEMMA SamePath ==
  ASSUME NEW p \in Paths, NEW q \in Paths, Len(p) = Len(q), \A i \in 1 .. Len(p) : p[i] = q[i]
  PROVE  p = q
BY DEF Paths

(* Prefixes are equal where the paths agree.                               *)
LEMMA SamePrefix ==
  ASSUME NEW p \in Paths, NEW q \in Paths, NEW n \in Nat, n <= Len(p), n <= Len(q)
  PROVE  SubSeq(p, 1, n) = SubSeq(q, 1, n) <=> \A i \in 1 .. n : p[i] = q[i]
<1>1. /\ SubSeq(p, 1, n) \in Paths /\ Len(SubSeq(p, 1, n)) = n
      /\ \A i \in 1 .. n : SubSeq(p, 1, n)[i] = p[i]
  BY Cut
<1>2. /\ SubSeq(q, 1, n) \in Paths /\ Len(SubSeq(q, 1, n)) = n
      /\ \A i \in 1 .. n : SubSeq(q, 1, n)[i] = q[i]
  BY Cut
<1>3. ASSUME \A i \in 1 .. n : p[i] = q[i] PROVE SubSeq(p, 1, n) = SubSeq(q, 1, n)
  BY <1>1, <1>2, <1>3, SamePath
<1>4. ASSUME SubSeq(p, 1, n) = SubSeq(q, 1, n) PROVE \A i \in 1 .. n : p[i] = q[i]
  BY <1>1, <1>2, <1>4
<1>5. QED
  BY <1>3, <1>4

(* A nonempty set of numbers that has all below each of its members, and   *)
(* has a bound, has a greatest one: one less than their number.            *)
LEMMA Greatest ==
  ASSUME NEW bound \in Nat, NEW numbers \in SUBSET (0 .. bound), 0 \in numbers,
         \A n \in numbers : 0 .. n \subseteq numbers
  PROVE  \E n \in numbers : \A m \in numbers : m <= n
<1>1. IsFiniteSet(0 .. bound)
  BY FS_Interval
<1>2. IsFiniteSet(numbers) /\ Cardinality(numbers) \in Nat
  BY <1>1, FS_Subset, FS_CardinalityType
<1> DEFINE size == Cardinality(numbers)
<1>3. size # 0
  BY <1>2, FS_EmptySet
<1>4. \A n \in numbers : n <= size - 1
  <2> SUFFICES ASSUME NEW n \in numbers PROVE n <= size - 1
    OBVIOUS
  <2>1. n \in Nat /\ Cardinality(0 .. n) = n + 1 /\ 0 .. n \in SUBSET numbers
    BY FS_Interval
  <2>2. Cardinality(0 .. n) <= size
    BY <1>2, <2>1, FS_Subset
  <2>3. QED
    BY <1>2, <2>1, <2>2
<1>5. numbers = 0 .. size - 1
  <2>1. IsFiniteSet(0 .. size - 1) /\ Cardinality(0 .. size - 1) = size
    BY <1>2, <1>3, FS_Interval
  <2>2. numbers \in SUBSET (0 .. size - 1)
    BY <1>2, <1>4
  <2>3. QED
    BY <2>1, <2>2, FS_Subset
<1>6. size - 1 \in 0 .. size - 1
  BY <1>2, <1>3
<1>7. size - 1 \in numbers
  BY <1>5, <1>6
<1>8. QED
  BY <1>4, <1>7

(* The common ancestor is the longest prefix that the paths agree on.      *)
LEMMA AncestorIsDeepest ==
  ASSUME NEW paths \in SUBSET Paths, paths # {}
  PROVE  /\ CommonAncestor(paths) \in Paths
         /\ Agree(paths, Len(CommonAncestor(paths)))
         /\ \A n : Agree(paths, n) => n <= Len(CommonAncestor(paths))
         /\ \A p \in paths : \A i \in 1 .. Len(CommonAncestor(paths)) :
              CommonAncestor(paths)[i] = p[i]
<1> DEFINE any == CHOOSE p \in paths : TRUE
           lengths == { n \in 0 .. Len(any) :
                          \A p, q \in paths :
                            /\ n <= Len(p) /\ n <= Len(q)
                            /\ SubSeq(p, 1, n) = SubSeq(q, 1, n) }
           deepest == CHOOSE n \in lengths : \A m \in lengths : m <= n
<1>1. any \in paths /\ any \in Paths /\ Len(any) \in Nat
  BY DEF Paths
<1>2. \A p \in paths : p \in Paths /\ Len(p) \in Nat
  BY DEF Paths
<1>3. \A n : n \in lengths <=> Agree(paths, n)
  <2> SUFFICES ASSUME NEW n PROVE n \in lengths <=> Agree(paths, n)
    OBVIOUS
  <2>1. ASSUME n \in lengths PROVE Agree(paths, n)
    <3>1. n \in Nat /\ \A p, q \in paths : n <= Len(p) /\ n <= Len(q) /\ SubSeq(p, 1, n) = SubSeq(q, 1, n)
      BY <1>1, <2>1
    <3>2. \A p, q \in paths : \A i \in 1 .. n : p[i] = q[i]
      BY <1>2, <3>1, SamePrefix
    <3>3. QED
      BY <3>1, <3>2 DEF Agree
  <2>2. ASSUME Agree(paths, n) PROVE n \in lengths
    <3>1. n \in Nat /\ \A p, q \in paths : n <= Len(p) /\ n <= Len(q) /\ \A i \in 1 .. n : p[i] = q[i]
      BY <2>2 DEF Agree
    <3>2. \A p, q \in paths : SubSeq(p, 1, n) = SubSeq(q, 1, n)
      BY <1>2, <3>1, SamePrefix
    <3>3. n \in 0 .. Len(any)
      BY <1>1, <3>1
    <3>4. QED
      BY <3>1, <3>2, <3>3
  <2>3. QED
    BY <2>1, <2>2
<1>4. \E n \in lengths : \A m \in lengths : m <= n
  <2>1. lengths \in SUBSET (0 .. Len(any))
    OBVIOUS
  <2>2. Agree(paths, 0)
    BY <1>2 DEF Agree
  <2>3. \A n \in lengths : 0 .. n \subseteq lengths
    <3> SUFFICES ASSUME NEW n \in lengths, NEW m \in 0 .. n PROVE m \in lengths
      OBVIOUS
    <3>1. Agree(paths, n)
      BY <1>3
    <3>2. Agree(paths, m)
      BY <1>2, <3>1 DEF Agree
    <3>3. QED
      BY <1>3, <3>2
  <2>4. 0 \in lengths
    BY <1>3, <2>2
  <2> HIDE DEF lengths, any
  <2>5. QED
    BY <1>1, <2>1, <2>3, <2>4, Greatest
<1>5. deepest \in lengths /\ \A m \in lengths : m <= deepest
  <2> HIDE DEF lengths
  <2>1. QED
    BY <1>4
<1>6. CommonAncestor(paths) = SubSeq(any, 1, deepest)
  BY DEF CommonAncestor
<1> HIDE DEF any, lengths, deepest
<1>7. Agree(paths, deepest) /\ \A n : Agree(paths, n) => n <= deepest
  BY <1>3, <1>5
<1>8. deepest \in Nat /\ deepest <= Len(any)
  BY <1>1, <1>7 DEF Agree
<1>9. /\ SubSeq(any, 1, deepest) \in Paths /\ Len(SubSeq(any, 1, deepest)) = deepest
      /\ \A i \in 1 .. deepest : SubSeq(any, 1, deepest)[i] = any[i]
  BY <1>1, <1>8, Cut
<1>10. \A p \in paths : \A i \in 1 .. deepest : any[i] = p[i]
  BY <1>1, <1>7 DEF Agree
<1>11. QED
  BY <1>6, <1>7, <1>9, <1>10

(* Under, by names.                                                        *)
LEMMA UnderByNames ==
  ASSUME NEW p \in Paths, NEW d \in Paths
  PROVE  Under(p, d) <=> Len(d) <= Len(p) /\ \A i \in 1 .. Len(d) : p[i] = d[i]
<1>1. Len(p) \in Nat /\ Len(d) \in Nat
  BY DEF Paths
<1>2. CASE Len(d) <= Len(p)
  <2>1. SubSeq(p, 1, Len(d)) = SubSeq(d, 1, Len(d)) <=> \A i \in 1 .. Len(d) : p[i] = d[i]
    BY <1>1, <1>2, SamePrefix
  <2>2. /\ SubSeq(d, 1, Len(d)) \in Paths /\ Len(SubSeq(d, 1, Len(d))) = Len(d)
        /\ \A i \in 1 .. Len(d) : SubSeq(d, 1, Len(d))[i] = d[i]
    BY <1>1, Cut
  <2>3. SubSeq(d, 1, Len(d)) = d
    BY <2>2, SamePath
  <2>4. QED
    BY <1>2, <2>1, <2>3 DEF Under
<1>3. CASE ~ (Len(d) <= Len(p))
  BY <1>3 DEF Under
<1>4. QED
  BY <1>2, <1>3

(* What is below a directory is below what is above it.                   *)
LEMMA UnderIsTransitive ==
  ASSUME NEW p \in Paths, NEW d \in Paths, NEW e \in Paths, Under(p, d), Under(d, e)
  PROVE  Under(p, e)
<1>1. Len(p) \in Nat /\ Len(d) \in Nat /\ Len(e) \in Nat
  BY DEF Paths
<1>2. /\ Len(d) <= Len(p) /\ \A i \in 1 .. Len(d) : p[i] = d[i]
      /\ Len(e) <= Len(d) /\ \A i \in 1 .. Len(e) : d[i] = e[i]
  BY UnderByNames
<1>3. Len(e) <= Len(p) /\ \A i \in 1 .. Len(e) : p[i] = e[i]
  BY <1>1, <1>2
<1>4. QED
  BY <1>3, UnderByNames

(* The directory of a file has all its names but the last.                 *)
LEMMA ParentIsAbove ==
  ASSUME NEW p \in Paths, p # << >>
  PROVE  /\ Parent(p) \in Paths /\ Len(Parent(p)) = Len(p) - 1 /\ Len(p) \in Nat \ {0}
         /\ \A i \in 1 .. Len(p) - 1 : Parent(p)[i] = p[i]
         /\ Under(p, Parent(p))
<1>1. Len(p) \in Nat \ {0}
  BY DEF Paths
<1>2. /\ Parent(p) \in Paths /\ Len(Parent(p)) = Len(p) - 1
      /\ \A i \in 1 .. Len(p) - 1 : Parent(p)[i] = p[i]
  <2> DEFINE n == Len(p) - 1
  <2>1. n \in Nat /\ n <= Len(p) /\ 1 <= n + 1 /\ n - 1 + 1 = n
    BY <1>1
  <2> HIDE DEF n
  <2>2. /\ SubSeq(p, 1, n) \in Paths /\ Len(SubSeq(p, 1, n)) = n - 1 + 1
        /\ \A i \in 1 .. n - 1 + 1 : SubSeq(p, 1, n)[i] = p[1 + i - 1]
    BY <2>1, Cut
  <2>3. \A i \in 1 .. n : 1 + i - 1 = i
    OBVIOUS
  <2>4. /\ SubSeq(p, 1, n) \in Paths /\ Len(SubSeq(p, 1, n)) = n
        /\ \A i \in 1 .. n : SubSeq(p, 1, n)[i] = p[i]
    BY <2>1, <2>2, <2>3
  <2>5. QED
    BY <2>4 DEF n, Parent
<1>3. QED
  BY <1>1, <1>2, UnderByNames

(* The inputs are below the invocation root.                               *)
LEMMA RootIsAbove ==
  ASSUME inputs \in InputSets, inputs # {}
  PROVE  /\ InvocationRoot \in Paths
         /\ \A file \in inputs \cap Files :
              Under(file, InvocationRoot) /\ Len(InvocationRoot) < Len(file)
         /\ \A directory \in inputs \ Files : Under(directory, InvocationRoot)
<1> DEFINE place(input) == IF input \in Files THEN Parent(input) ELSE input
           places == { place(input) : input \in inputs }
<1>1. \A input \in inputs : input \in Paths
  BY PathAssumption DEF Paths
<1>2. \A input \in inputs \cap Files :
        /\ Parent(input) \in Paths /\ Under(input, Parent(input))
        /\ Len(Parent(input)) = Len(input) - 1 /\ Len(input) \in Nat \ {0}
  BY <1>1, PathAssumption, ParentIsAbove
<1>3. \A input \in inputs : place(input) \in Paths /\ place(input) \in places
  BY <1>1, <1>2
<1>4. places \in SUBSET Paths /\ places # {}
  BY <1>3
<1>5. InvocationRoot = CommonAncestor(places)
  BY DEF InvocationRoot
<1>6. \A input \in inputs : Under(place(input), InvocationRoot)
  <2> SUFFICES ASSUME NEW input \in inputs PROVE Under(place(input), InvocationRoot)
    OBVIOUS
  <2> HIDE DEF place, places
  <2>1. Agree(places, Len(InvocationRoot)) /\ InvocationRoot \in Paths
    BY <1>4, <1>5, AncestorIsDeepest
  <2>2. \A i \in 1 .. Len(InvocationRoot) : InvocationRoot[i] = place(input)[i]
    BY <1>3, <1>4, <1>5, AncestorIsDeepest
  <2>3. Len(InvocationRoot) <= Len(place(input))
    BY <1>3, <2>1 DEF Agree
  <2>4. QED
    BY <1>3, <2>1, <2>2, <2>3, UnderByNames
<1>7. InvocationRoot \in Paths
  <2> HIDE DEF places
  <2>1. QED
    BY <1>4, <1>5, AncestorIsDeepest
<1>8. \A file \in inputs \cap Files :
        Under(file, InvocationRoot) /\ Len(InvocationRoot) < Len(file)
  <2> SUFFICES ASSUME NEW file \in inputs \cap Files
               PROVE  Under(file, InvocationRoot) /\ Len(InvocationRoot) < Len(file)
    OBVIOUS
  <2>1. Under(Parent(file), InvocationRoot)
    BY <1>6
  <2>2. Under(file, InvocationRoot)
    BY <1>1, <1>2, <1>7, <2>1, UnderIsTransitive
  <2>3. Len(InvocationRoot) <= Len(Parent(file)) /\ Len(InvocationRoot) \in Nat
    BY <1>7, <2>1 DEF Under, Paths
  <2>4. QED
    BY <1>2, <2>2, <2>3
<1>9. \A directory \in inputs \ Files : Under(directory, InvocationRoot)
  BY <1>6
<1>10. QED
  BY <1>7, <1>8, <1>9

(* So are the files they name.                                             *)
LEMMA NamedIsBelowRoot ==
  ASSUME inputs \in InputSets, NEW file \in NamedFiles
  PROVE  Under(file, InvocationRoot)
<1>1. inputs # {}
  BY DEF NamedFiles
<1>2. CASE file \in inputs
  BY <1>1, <1>2, RootIsAbove DEF NamedFiles
<1>3. CASE file \notin inputs
  <2>1. PICK directory \in inputs \ Files : Under(file, directory)
    BY <1>3 DEF NamedFiles
  <2>2. file \in Paths /\ directory \in Paths
    BY PathAssumption DEF NamedFiles, Paths
  <2>3. QED
    BY <1>1, <2>1, <2>2, RootIsAbove, UnderIsTransitive
<1>4. QED
  BY <1>2, <1>3

(* A file that was read is not the invocation root: a root that is no      *)
(* input's directory itself is above some input.                           *)
LEMMA SourceIsBelowRoot ==
  ASSUME inputs \in InputSets, inputs # {}, disk \in Disks,
         NEW file \in Files, Under(file, InvocationRoot), ~ CannotBeRead(file)
  PROVE  Len(InvocationRoot) < Len(file)
<1>1. InvocationRoot \in Paths /\ file \in Paths
  BY PathAssumption, RootIsAbove DEF Paths
<1>2. /\ Len(InvocationRoot) \in Nat /\ Len(file) \in Nat
      /\ Len(InvocationRoot) <= Len(file)
      /\ \A i \in 1 .. Len(InvocationRoot) : file[i] = InvocationRoot[i]
  BY <1>1, UnderByNames DEF Paths
<1>3. ASSUME Len(InvocationRoot) = Len(file) PROVE FALSE
  <2>1. file = InvocationRoot
    BY <1>1, <1>2, <1>3, SamePath
  <2>2. PICK input \in inputs : TRUE
    OBVIOUS
  <2>3. Under(input, file) /\ input # file
    <3>1. CASE input \in Files
      BY <1>2, <2>1, <3>1, RootIsAbove
    <3>2. CASE input \notin Files
      BY <2>1, <3>2, RootIsAbove
    <3>3. QED
      BY <3>1, <3>2
  <2>4. disk[file] \in {"unreadable", "missing"}
    BY <2>3, DirectoryAssumption
  <2>5. QED
    BY <2>4 DEF CannotBeRead
<1>4. QED
  BY <1>2, <1>3

(* What precedes a directory above all files of a set has no part in their *)
(* module paths.                                                           *)
LEMMA PlaceIsRelative ==
  ASSUME NEW files \in SUBSET Paths, NEW root \in Paths,
         \A file \in files : Under(file, root) /\ Len(root) < Len(file),
         NEW file \in files
  PROVE  LET below(f) == SubSeq(f, Len(root) + 1, Len(f))
         IN  ModulePath(file, files) = ModulePath(below(file), { below(f) : f \in files })
<1> DEFINE below(f) == SubSeq(f, Len(root) + 1, Len(f))
           r == Len(root)
           parents == { Parent(f) : f \in files }
           shorter == { Parent(f) : f \in { below(g) : g \in files } }
           deep == Len(CommonAncestor(parents))
           shallow == Len(CommonAncestor(shorter))
<1>1. r \in Nat /\ \A f \in files : f \in Paths /\ Len(f) \in Nat /\ r < Len(f) /\ f # << >>
  BY DEF Paths
<1>2. \A f \in files : \A i \in 1 .. r : f[i] = root[i]
  BY <1>1, UnderByNames
<1>3. \A f \in files :
        /\ below(f) \in Paths /\ Len(below(f)) = Len(f) - r /\ below(f) # << >>
        /\ \A i \in 1 .. Len(f) - r : below(f)[i] = f[r + i]
  <2> SUFFICES ASSUME NEW f \in files
               PROVE  /\ below(f) \in Paths /\ Len(below(f)) = Len(f) - r /\ below(f) # << >>
                      /\ \A i \in 1 .. Len(f) - r : below(f)[i] = f[r + i]
    OBVIOUS
  <2>1. r + 1 \in Nat \ {0} /\ Len(f) \in Nat /\ r + 1 <= Len(f) + 1 /\ f \in Paths
    BY <1>1
  <2>2. /\ below(f) \in Paths /\ Len(below(f)) = Len(f) - (r + 1) + 1
        /\ \A i \in 1 .. Len(f) - (r + 1) + 1 : below(f)[i] = f[r + 1 + i - 1]
    BY <2>1, Cut
  <2> HIDE DEF below
  <2>3. Len(below(f)) = Len(f) - r /\ Len(below(f)) # 0
    BY <1>1, <2>2
  <2>4. \A i \in 1 .. Len(f) - r : r + 1 + i - 1 = r + i /\ i \in 1 .. Len(f) - (r + 1) + 1
    BY <1>1
  <2>5. QED
    BY <2>2, <2>3, <2>4
<1> HIDE DEF below
<1>4. \A f \in files :
        /\ Parent(f) \in Paths /\ Len(Parent(f)) = Len(f) - 1
        /\ \A i \in 1 .. Len(f) - 1 : Parent(f)[i] = f[i]
  BY <1>1, ParentIsAbove
<1>5. \A f \in files :
        /\ Parent(below(f)) \in Paths /\ Len(Parent(below(f))) = Len(f) - r - 1
        /\ \A i \in 1 .. Len(f) - r - 1 : Parent(below(f))[i] = f[r + i]
  <2> SUFFICES ASSUME NEW f \in files
               PROVE  /\ Parent(below(f)) \in Paths /\ Len(Parent(below(f))) = Len(f) - r - 1
                      /\ \A i \in 1 .. Len(f) - r - 1 : Parent(below(f))[i] = f[r + i]
    OBVIOUS
  <2>1. /\ Parent(below(f)) \in Paths /\ Len(Parent(below(f))) = Len(below(f)) - 1
        /\ \A i \in 1 .. Len(below(f)) - 1 : Parent(below(f))[i] = below(f)[i]
    BY <1>3, ParentIsAbove
  <2>2. \A i \in 1 .. Len(f) - r - 1 : i \in 1 .. Len(f) - r /\ i \in 1 .. Len(below(f)) - 1
    BY <1>1, <1>3
  <2>3. QED
    BY <1>3, <2>1, <2>2
<1>6. /\ parents \in SUBSET Paths /\ parents # {}
      /\ shorter \in SUBSET Paths /\ shorter # {}
      /\ \A f \in files : Parent(f) \in parents /\ Parent(below(f)) \in shorter
      /\ \A p \in parents : \E f \in files : p = Parent(f)
      /\ \A p \in shorter : \E f \in files : p = Parent(below(f))
  BY <1>4, <1>5
<1> HIDE DEF parents, shorter
<1>7. \A n \in Nat : Agree(shorter, n) <=> Agree(parents, r + n)
  <2> SUFFICES ASSUME NEW n \in Nat PROVE Agree(shorter, n) <=> Agree(parents, r + n)
    OBVIOUS
  <2>1. ASSUME Agree(shorter, n) PROVE Agree(parents, r + n)
    <3>1. \A f, g \in files : /\ n <= Len(f) - r - 1 /\ n <= Len(g) - r - 1
                              /\ \A i \in 1 .. n : Parent(below(f))[i] = Parent(below(g))[i]
      <4> SUFFICES ASSUME NEW f \in files, NEW g \in files
                   PROVE  /\ n <= Len(f) - r - 1 /\ n <= Len(g) - r - 1
                          /\ \A i \in 1 .. n : Parent(below(f))[i] = Parent(below(g))[i]
        OBVIOUS
      <4>1. Parent(below(f)) \in shorter /\ Parent(below(g)) \in shorter
        BY <1>6
      <4>2. /\ n <= Len(Parent(below(f))) /\ n <= Len(Parent(below(g)))
            /\ \A i \in 1 .. n : Parent(below(f))[i] = Parent(below(g))[i]
        BY <2>1, <4>1 DEF Agree
      <4>3. QED
        BY <1>5, <4>2
    <3>2. \A f, g \in files : \A i \in 1 .. n : f[r + i] = g[r + i]
      <4> SUFFICES ASSUME NEW f \in files, NEW g \in files, NEW i \in 1 .. n
                   PROVE  f[r + i] = g[r + i]
        OBVIOUS
      <4>1. i \in 1 .. Len(f) - r - 1 /\ i \in 1 .. Len(g) - r - 1
        BY <1>1, <3>1
      <4>2. QED
        BY <1>5, <3>1, <4>1
    <3>3. \A f, g \in files : \A i \in 1 .. r + n : f[i] = g[i]
      <4> SUFFICES ASSUME NEW f \in files, NEW g \in files, NEW i \in 1 .. r + n
                   PROVE  f[i] = g[i]
        OBVIOUS
      <4>1. CASE i \in 1 .. r
        BY <1>2, <4>1
      <4>2. CASE i \notin 1 .. r
        <5>1. i - r \in 1 .. n /\ r + (i - r) = i
          BY <1>1, <4>2
        <5>2. QED
          BY <3>2, <5>1
      <4>3. QED
        BY <4>1, <4>2
    <3>4. \A f \in files : r + n <= Len(Parent(f))
      BY <1>1, <1>4, <3>1
    <3>5. \A f, g \in files : \A i \in 1 .. r + n : Parent(f)[i] = Parent(g)[i]
      <4> SUFFICES ASSUME NEW f \in files, NEW g \in files, NEW i \in 1 .. r + n
                   PROVE  Parent(f)[i] = Parent(g)[i]
        OBVIOUS
      <4>1. i \in 1 .. Len(f) - 1 /\ i \in 1 .. Len(g) - 1
        BY <1>1, <1>4, <3>4
      <4>2. QED
        BY <1>4, <3>3, <4>1
    <3>6. QED
      <4> SUFFICES ASSUME NEW p \in parents, NEW q \in parents
                   PROVE  /\ r + n <= Len(p) /\ r + n <= Len(q)
                          /\ \A i \in 1 .. r + n : p[i] = q[i]
        BY <1>1 DEF Agree
      <4>1. PICK f \in files, g \in files : p = Parent(f) /\ q = Parent(g)
        BY <1>6
      <4>2. QED
        BY <3>4, <3>5, <4>1
  <2>2. ASSUME Agree(parents, r + n) PROVE Agree(shorter, n)
    <3>1. \A f, g \in files : /\ r + n <= Len(f) - 1 /\ r + n <= Len(g) - 1
                              /\ \A i \in 1 .. r + n : Parent(f)[i] = Parent(g)[i]
      BY <1>4, <1>6, <2>2 DEF Agree
    <3>2. \A f, g \in files : \A i \in 1 .. n : f[r + i] = g[r + i]
      <4> SUFFICES ASSUME NEW f \in files, NEW g \in files, NEW i \in 1 .. n
                   PROVE  f[r + i] = g[r + i]
        OBVIOUS
      <4>1. r + i \in 1 .. r + n /\ r + i \in 1 .. Len(f) - 1 /\ r + i \in 1 .. Len(g) - 1
        BY <1>1, <3>1
      <4>2. QED
        BY <1>4, <3>1, <4>1
    <3>3. \A f \in files : n <= Len(Parent(below(f)))
      BY <1>1, <1>5, <3>1
    <3>4. \A f, g \in files : \A i \in 1 .. n : Parent(below(f))[i] = Parent(below(g))[i]
      <4> SUFFICES ASSUME NEW f \in files, NEW g \in files, NEW i \in 1 .. n
                   PROVE  Parent(below(f))[i] = Parent(below(g))[i]
        OBVIOUS
      <4>1. i \in 1 .. Len(f) - r - 1 /\ i \in 1 .. Len(g) - r - 1
        BY <1>1, <3>1
      <4>2. QED
        BY <1>5, <3>2, <4>1
    <3>5. QED
      <4> SUFFICES ASSUME NEW p \in shorter, NEW q \in shorter
                   PROVE  /\ n <= Len(p) /\ n <= Len(q)
                          /\ \A i \in 1 .. n : p[i] = q[i]
        BY <1>1 DEF Agree
      <4>1. PICK f \in files, g \in files : p = Parent(below(f)) /\ q = Parent(below(g))
        BY <1>6
      <4>2. QED
        BY <3>3, <3>4, <4>1
  <2>3. QED
    BY <2>1, <2>2
<1>8. /\ deep \in Nat /\ Agree(parents, deep) /\ \A n : Agree(parents, n) => n <= deep
      /\ shallow \in Nat /\ Agree(shorter, shallow) /\ \A n : Agree(shorter, n) => n <= shallow
  BY <1>6, AncestorIsDeepest DEF Agree
<1>9. Agree(parents, r)
  <2>1. \A f, g \in files : \A i \in 1 .. r : Parent(f)[i] = Parent(g)[i]
    BY <1>1, <1>2, <1>4
  <2>2. \A f \in files : r <= Len(Parent(f))
    BY <1>1, <1>4
  <2>3. QED
    <3> SUFFICES ASSUME NEW p \in parents, NEW q \in parents
                 PROVE  /\ r <= Len(p) /\ r <= Len(q)
                        /\ \A i \in 1 .. r : p[i] = q[i]
      BY <1>1 DEF Agree
    <3>1. PICK f \in files, g \in files : p = Parent(f) /\ q = Parent(g)
      BY <1>6
    <3>2. QED
      BY <2>1, <2>2, <3>1
<1>10. deep = r + shallow
  <2>1. r <= deep
    BY <1>8, <1>9
  <2>2. deep - r \in Nat /\ r + (deep - r) = deep
    BY <1>1, <1>8, <2>1
  <2>3. Agree(shorter, deep - r)
    BY <1>7, <1>8, <2>2
  <2>4. Agree(parents, r + shallow)
    BY <1>7, <1>8
  <2>5. deep - r <= shallow /\ r + shallow <= deep
    BY <1>8, <2>3, <2>4
  <2>6. QED
    BY <1>1, <1>8, <2>5
<1>11. deep <= Len(file) - 1
  BY <1>4, <1>6, <1>8 DEF Agree
<1> DEFINE size == Len(file)
           long == SubSeq(file, deep + 1, size - 1)
           short == SubSeq(below(file), shallow + 1, size - r - 1)
<1>12. /\ long \in Paths /\ Len(long) = size - 1 - deep
       /\ \A i \in 1 .. size - 1 - deep : long[i] = file[deep + i]
  <2>1. deep + 1 \in Nat \ {0} /\ size - 1 \in Nat /\ size - 1 <= Len(file) /\ deep + 1 <= size - 1 + 1
    BY <1>1, <1>8, <1>11
  <2>2. /\ long \in Paths /\ Len(long) = size - 1 - (deep + 1) + 1
        /\ \A i \in 1 .. size - 1 - (deep + 1) + 1 : long[i] = file[deep + 1 + i - 1]
    BY <1>1, <2>1, Cut
  <2> HIDE DEF long
  <2>3. size - 1 - (deep + 1) + 1 = size - 1 - deep
    BY <1>1, <1>8
  <2>4. \A i \in 1 .. size - 1 - deep : deep + 1 + i - 1 = deep + i
    BY <1>1, <1>8
  <2>5. QED
    BY <2>2, <2>3, <2>4
<1>13. /\ short \in Paths /\ Len(short) = size - 1 - deep
       /\ \A i \in 1 .. size - 1 - deep : short[i] = file[deep + i]
  <2>1. /\ shallow + 1 \in Nat \ {0} /\ size - r - 1 \in Nat
        /\ size - r - 1 <= Len(below(file)) /\ shallow + 1 <= size - r - 1 + 1
    BY <1>1, <1>3, <1>8, <1>10, <1>11
  <2>2. /\ short \in Paths /\ Len(short) = size - r - 1 - (shallow + 1) + 1
        /\ \A i \in 1 .. size - r - 1 - (shallow + 1) + 1 : short[i] = below(file)[shallow + 1 + i - 1]
    BY <1>3, <2>1, Cut
  <2> HIDE DEF short
  <2>3. size - r - 1 - (shallow + 1) + 1 = size - 1 - deep
    BY <1>1, <1>8, <1>10
  <2>4. \A i \in 1 .. size - 1 - deep :
          /\ shallow + 1 + i - 1 = shallow + i
          /\ shallow + i \in 1 .. size - r /\ r + (shallow + i) = deep + i
    <3> HIDE DEF deep, shallow
    <3> SUFFICES ASSUME NEW i \in 1 .. size - 1 - deep
                 PROVE  /\ shallow + 1 + i - 1 = shallow + i
                        /\ shallow + i \in 1 .. size - r /\ r + (shallow + i) = deep + i
      OBVIOUS
    <3>1. i \in Nat \ {0} /\ i <= size - 1 - (r + shallow)
      BY <1>1, <1>8, <1>10
    <3>2. shallow + i \in Nat \ {0} /\ shallow + i <= size - r
      BY <1>1, <1>8, <3>1
    <3>3. QED
      BY <1>1, <1>8, <1>10, <3>2
  <2>5. Len(short) = size - 1 - deep /\ \A i \in 1 .. size - 1 - deep : short[i] = below(file)[shallow + i]
    BY <2>2, <2>3, <2>4
  <2>6. \A i \in 1 .. size - 1 - deep : below(file)[shallow + i] = file[deep + i]
    BY <1>3, <2>4
  <2>7. QED
    BY <2>2, <2>5, <2>6
<1>14. long = short
  <2> HIDE DEF long, short
  <2>1. QED
    BY <1>12, <1>13, SamePath
<1>15. Len(below(file)) = size - r /\ below(file)[size - r] = file[size]
  <2>1. size - r \in 1 .. size - r /\ r + (size - r) = size
    BY <1>1
  <2>2. QED
    BY <1>3, <2>1
<1>16. ModulePath(file, files) = Append(long, Stem[file[size]])
  BY DEF ModulePath, SourceRoot, parents
<1>17. ModulePath(below(file), { below(g) : g \in files }) = Append(short, Stem[file[size]])
  BY <1>15 DEF ModulePath, SourceRoot, shorter
<1>18. QED
  BY <1>14, <1>16, <1>17 DEF below

(* The inputs are as they were, and every source is below their root.      *)
Rooted ==
  /\ inputs \in InputSets /\ disk \in Disks
  /\ outcome \in {"reading", "placing", "loaded"} =>
       \A file \in sources : Under(file, InvocationRoot)

(* The names of the emitted modules do not depend on what is above the     *)
(* directory that is common to the inputs, whatever the files, references  *)
(* and inputs: a checkout elsewhere gives the same modules.                *)
THEOREM Relocatable == Spec => []Reproducible
<1>1. Init => Rooted
  BY DEF Init, Rooted
<1>2. IInv /\ Rooted /\ [Next]_vars => Rooted'
  <2> SUFFICES ASSUME IInv, Rooted, [Next]_vars PROVE Rooted'
    OBVIOUS
  <2>1. UNCHANGED world
    BY DEF Next, vars, world, Reject, RejectInput, ReadInputs, RejectGrammar, TakeFile,
           RejectReference, FollowReference, RejectNothing, PlaceSources, RejectModule, InsertLeaf
  <2>2. inputs' \in InputSets /\ disk' \in Disks /\ InvocationRoot' = InvocationRoot
    BY <2>1, WorldStays DEF world, Rooted
  <2>3. CASE ReadInputs
    <3>1. sources' = NamedFiles
      BY <2>3 DEF ReadInputs
    <3>2. \A file \in NamedFiles : Under(file, InvocationRoot)
      BY NamedIsBelowRoot DEF Rooted
    <3>3. QED
      BY <2>2, <3>1, <3>2 DEF Rooted
  <2>4. CASE FollowReference
    <3>1. PICK reference \in todo : ~ IsRejected(reference) /\ sources' = sources \cup {reference}
      BY <2>4 DEF FollowReference
    <3>2. Under(reference, InvocationRoot)
      BY <3>1 DEF IsRejected, IInv, TypeOK, Reference
    <3>3. outcome = "reading"
      BY <2>4 DEF FollowReference
    <3>4. QED
      BY <2>2, <3>1, <3>2, <3>3 DEF Rooted
  <2>5. CASE Reject
    BY <2>2, <2>5 DEF Rooted, Reject
  <2>6. CASE TakeFile
    BY <2>2, <2>6 DEF Rooted, TakeFile
  <2>7. CASE PlaceSources
    BY <2>2, <2>7 DEF Rooted, PlaceSources, search
  <2>8. CASE InsertLeaf
    BY <2>2, <2>8 DEF Rooted, InsertLeaf, search
  <2>9. CASE UNCHANGED vars
    BY <2>2, <2>9 DEF Rooted, vars, search
  <2>10. QED
    BY <2>3, <2>4, <2>5, <2>6, <2>7, <2>8, <2>9
       DEF Next, RejectInput, RejectGrammar, RejectReference, RejectNothing, RejectModule
<1>3. IInv /\ Rooted => Reproducible
  <2> SUFFICES ASSUME IInv, Rooted, outcome \in {"placing", "loaded"}, NEW file \in sources
               PROVE  /\ Under(file, InvocationRoot)
                      /\ ModulePath(file, sources) =
                           ModulePath(BelowInvocationRoot(file),
                                      { BelowInvocationRoot(f) : f \in sources })
    BY DEF Reproducible
  <2>1. \A f \in sources : f \in Files /\ ~ CannotBeRead(f) /\ Under(f, InvocationRoot)
    BY DEF IInv, TypeOK, SearchState, Rooted
  <2>2. inputs # {}
    <3>1. sources \subseteq Reachable
      BY DEF IInv, SearchState
    <3>2. ASSUME inputs = {} PROVE FALSE
      <4>1. NamedFiles = {}
        BY <3>2 DEF NamedFiles
      <4>2. Reachable \subseteq {}
        BY <4>1, ReachableIsLeast DEF IInv
      <4>3. QED
        BY <3>1, <4>2
    <3>3. QED
      BY <3>2
  <2>3. InvocationRoot \in Paths /\ sources \in SUBSET Paths
    BY <2>1, <2>2, PathAssumption, RootIsAbove DEF Rooted, Paths
  <2>4. \A f \in sources : Under(f, InvocationRoot) /\ Len(InvocationRoot) < Len(f)
    BY <2>1, <2>2, SourceIsBelowRoot DEF Rooted
  <2>5. QED
    BY <2>1, <2>3, <2>4, PlaceIsRelative DEF BelowInvocationRoot
<1>4. QED
  BY <1>1, <1>2, <1>3, Invariance, PTL DEF Spec
=============================================================================
