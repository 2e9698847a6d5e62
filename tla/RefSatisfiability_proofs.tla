---------------------- MODULE RefSatisfiability_proofs ----------------------
(***************************************************************************)
(* For every number of models and every choice of bodies: a rejection is   *)
(* right, and so is an acceptance when no reference is annotated.          *)
(*                                                                         *)
(* The argument: whatever the sweep order, `instantiable` stays inside     *)
(* every set closed under the requirements the loader extracts, and is     *)
(* itself closed when a sweep adds nothing.  The extracted requirements    *)
(* are weaker than the bodies (annotations are lost), so a set closed for  *)
(* the loader is closed for the reference; without annotations the two     *)
(* notions agree.                                                          *)
(***************************************************************************)
EXTENDS RefSatisfiability, FiniteSetTheorems, TLAPS

(* Closure under the requirements the loader extracts.                     *)
LoaderClosed(S) ==
  \A m \in Model : RequirementHolds(schema[m], S) => m \in S

(* Nothing outside the least closed set is ever added.                     *)
InsideEveryClosedSet ==
  \A S \in SUBSET Model : LoaderClosed(S) => instantiable \subseteq S

(* A sweep that has added nothing so far has found nothing to add.         *)
SweepFoundNothing ==
  pc = "sweep" /\ ~ changed =>
    \A m \in Model :
      m < key /\ RequirementHolds(schema[m], instantiable) => m \in instantiable

(* What the end of the sweeps hands to the verdict.                        *)
FixedPoint ==
  /\ pc # "sweep" => LoaderClosed(instantiable)
  /\ pc = "accepted" => Model \subseteq instantiable
  /\ pc \in {"trace", "rejected"} =>
       /\ cycle # << >>
       /\ \A i \in DOMAIN cycle : cycle[i] \notin instantiable

IInv == TypeOK /\ InsideEveryClosedSet /\ SweepFoundNothing /\ FixedPoint

-----------------------------------------------------------------------------
(* More known models never make a requirement fail.                        *)
LEMMA HoldsMonotone ==
  ASSUME NEW body, NEW S, NEW T, S \subseteq T, RequirementHolds(body, S)
  PROVE  RequirementHolds(body, T)
BY DEF RequirementHolds, MemberHolds, AlternativeHolds

(* The loader asks for no more than the body does.                         *)
LEMMA WritableHolds ==
  ASSUME NEW body \in Seq(Member), NEW S, Writable(body, S)
  PROVE  RequirementHolds(body, S)
<1>1. \A i \in DOMAIN body : \A j \in DOMAIN body[i].alternatives :
        Targets(body[i].alternatives[j]) => Demands(body[i].alternatives[j])
  BY DEF Targets, Demands
<1>2. QED
  BY <1>1 DEF RequirementHolds, MemberHolds, AlternativeHolds, IsPart, Writable

(* Without annotated references it asks for as much.                       *)
LEMMA HoldsWritable ==
  ASSUME NEW body \in Seq(Member), NEW S, RequirementHolds(body, S), ~ Annotated(body)
  PROVE  Writable(body, S)
<1>1. ASSUME NEW i \in DOMAIN body, NEW j \in DOMAIN body[i].alternatives,
             Demands(body[i].alternatives[j])
      PROVE  Targets(body[i].alternatives[j])
  <2>1. body[i] \in Member
    OBVIOUS
  <2>2. body[i].alternatives[j] \in Alternative
    BY <2>1 DEF Member
  <2>3. body[i].alternatives[j].kind # "annotated"
    BY DEF Annotated
  <2>4. QED
    BY <1>1, <2>2, <2>3 DEF Alternative, Demands, Targets
<1>2. QED
  BY <1>1 DEF RequirementHolds, MemberHolds, AlternativeHolds, IsPart, Writable

LEMMA BodiesAreSequences == \A body \in Body : body \in Seq(Member)
BY BodyAssumption

-----------------------------------------------------------------------------
LEMMA InitTyping == Init => TypeOK
<1> SUFFICES ASSUME Init PROVE TypeOK
  OBVIOUS
<1>1. key \in 1 .. N + 1
  BY NAssumption DEF Init
<1>2. cycle \in Seq(Model)
  BY DEF Init
<1>3. QED
  BY <1>1, <1>2 DEF Init, TypeOK

(* Types hold in every reachable state.                                    *)
THEOREM Typing == Spec => []TypeOK
<1>1. Init => TypeOK
  BY InitTyping
<1>2. TypeOK /\ [Next]_vars => TypeOK'
  <2> SUFFICES ASSUME TypeOK, [Next]_vars PROVE TypeOK'
    OBVIOUS
  <2> USE DEF TypeOK
  <2>1. CASE SweepModel
    <3>1. key' \in 1 .. N + 1
      BY <2>1, NAssumption DEF SweepModel, Model
    <3>2. instantiable' \subseteq Model /\ changed' \in BOOLEAN
      BY <2>1 DEF SweepModel
    <3>3. QED
      BY <2>1, <3>1, <3>2 DEF SweepModel
  <2>2. CASE NextSweep
    <3>1. key' \in 1 .. N + 1
      BY <2>2, NAssumption DEF NextSweep
    <3>2. QED
      BY <2>2, <3>1 DEF NextSweep
  <2>3. CASE Accept
    BY <2>3 DEF Accept
  <2>4. CASE StartTrace
    BY <2>4 DEF StartTrace
  <2>5. CASE TraceHop
    BY <2>5 DEF TraceHop
  <2>6. CASE UNCHANGED vars
    BY <2>6 DEF vars
  <2>7. QED
    BY <2>1, <2>2, <2>3, <2>4, <2>5, <2>6 DEF Next
<1>3. QED
  BY <1>1, <1>2, PTL DEF Spec

(* The inductive invariant behind the two verdicts.                        *)
THEOREM Invariance == Spec => []IInv
<1>1. Init => IInv
  <2>1. Init => InsideEveryClosedSet
    BY DEF Init, InsideEveryClosedSet
  <2>2. Init => SweepFoundNothing
    BY NAssumption DEF Init, SweepFoundNothing, Model
  <2>3. Init => FixedPoint
    BY DEF Init, FixedPoint
  <2>4. QED
    BY <2>1, <2>2, <2>3, InitTyping DEF IInv
<1>2. IInv /\ TypeOK' /\ [Next]_vars => IInv'
  <2> SUFFICES ASSUME IInv, TypeOK', [Next]_vars PROVE IInv'
    OBVIOUS
  <2>1. CASE SweepModel
    <3>1. schema' = schema /\ pc = "sweep" /\ pc' = "sweep" /\ cycle' = cycle
      BY <2>1 DEF SweepModel
    <3>2. InsideEveryClosedSet'
      <4> SUFFICES ASSUME NEW S \in SUBSET Model, LoaderClosed(S)', NEW m \in instantiable'
                   PROVE  m \in S
        BY DEF InsideEveryClosedSet
      <4>1. LoaderClosed(S) /\ instantiable \subseteq S
        BY <3>1 DEF LoaderClosed, IInv, InsideEveryClosedSet
      <4>2. CASE m \in instantiable
        BY <4>1, <4>2
      <4>3. CASE m \notin instantiable
        <5>1. m = key /\ key \in Model /\ RequirementHolds(schema[key], instantiable)
          BY <2>1, <4>3 DEF SweepModel
        <5>2. RequirementHolds(schema[key], S)
          BY <5>1, <4>1, HoldsMonotone
        <5>3. QED
          BY <5>1, <5>2, <4>1 DEF LoaderClosed
      <4>4. QED
        BY <4>2, <4>3
    <3>3. SweepFoundNothing'
      <4> SUFFICES ASSUME ~ changed', NEW m \in Model, m < key',
                          RequirementHolds(schema[m], instantiable')
                   PROVE  m \in instantiable'
        BY <3>1 DEF SweepFoundNothing
      <4>1. /\ instantiable' = instantiable /\ ~ changed /\ key' = key + 1
            /\ ~ (key \notin instantiable /\ RequirementHolds(schema[key], instantiable))
        BY <2>1 DEF SweepModel
      <4>2. CASE m = key
        BY <4>1, <4>2
      <4>3. CASE m # key
        <5>1. m < key
          BY <4>1, <4>3, NAssumption DEF IInv, TypeOK, Model
        <5>2. QED
          BY <5>1, <4>1, <3>1 DEF IInv, SweepFoundNothing
      <4>4. QED
        BY <4>2, <4>3
    <3>4. FixedPoint'
      BY <3>1 DEF FixedPoint
    <3>5. QED
      BY <3>2, <3>3, <3>4 DEF IInv
  <2>2. CASE NextSweep
    <3>1. /\ schema' = schema /\ instantiable' = instantiable /\ key' = 1
          /\ pc' = "sweep"
      BY <2>2 DEF NextSweep
    <3>2. InsideEveryClosedSet'
      BY <3>1 DEF IInv, InsideEveryClosedSet, LoaderClosed
    <3>3. SweepFoundNothing'
      BY <3>1, NAssumption DEF SweepFoundNothing, Model
    <3>4. FixedPoint'
      BY <3>1 DEF FixedPoint
    <3>5. QED
      BY <3>2, <3>3, <3>4 DEF IInv
  <2>3. CASE Accept \/ StartTrace
    <3>1. /\ schema' = schema /\ instantiable' = instantiable
          /\ pc = "sweep" /\ pc' \in {"accepted", "trace"} /\ key = N + 1 /\ ~ changed
      BY <2>3 DEF Accept, StartTrace
    <3>2. InsideEveryClosedSet' /\ SweepFoundNothing'
      BY <3>1 DEF IInv, InsideEveryClosedSet, LoaderClosed, SweepFoundNothing
    <3>3. LoaderClosed(instantiable)
      BY <3>1, NAssumption DEF LoaderClosed, IInv, SweepFoundNothing, Model
    <3>4. CASE Accept
      <4>1. pc' = "accepted" /\ Model \subseteq instantiable
        BY <3>4 DEF Accept
      <4>2. FixedPoint'
        BY <3>1, <3>3, <4>1 DEF FixedPoint, LoaderClosed
      <4>3. QED
        BY <3>2, <4>2 DEF IInv
    <3>5. CASE StartTrace
      <4>1. pc' = "trace" /\ \E start \in Model \ instantiable : cycle' = << start >>
        BY <3>5 DEF StartTrace
      <4>2. FixedPoint'
        BY <3>1, <3>3, <4>1 DEF FixedPoint, LoaderClosed
      <4>3. QED
        BY <3>2, <4>2 DEF IInv
    <3>6. QED
      BY <2>3, <3>4, <3>5
  <2>4. CASE TraceHop
    <3>1. /\ schema' = schema /\ instantiable' = instantiable
          /\ pc = "trace" /\ pc' \in {"trace", "rejected"}
      BY <2>4 DEF TraceHop
    <3>2. InsideEveryClosedSet' /\ SweepFoundNothing'
      BY <3>1 DEF IInv, InsideEveryClosedSet, LoaderClosed, SweepFoundNothing
    <3>3. PICK next \in Model :
             /\ IsBlockingTarget(next, schema[cycle[Len(cycle)]], instantiable)
             /\ cycle' = Append(cycle, next)
      BY <2>4 DEF TraceHop
    <3>4. next \notin instantiable
      BY <3>3 DEF IsBlockingTarget, BlockingPlaces
    <3>5. cycle' # << >> /\ \A i \in DOMAIN cycle' : cycle'[i] \notin instantiable
      BY <3>1, <3>3, <3>4 DEF IInv, TypeOK, FixedPoint
    <3>6. FixedPoint'
      BY <3>1, <3>5 DEF IInv, FixedPoint, LoaderClosed
    <3>7. QED
      BY <3>2, <3>6 DEF IInv
  <2>5. CASE UNCHANGED vars
    BY <2>5 DEF vars, IInv, InsideEveryClosedSet, LoaderClosed, SweepFoundNothing, FixedPoint
  <2>6. QED
    BY <2>1, <2>2, <2>3, <2>4, <2>5 DEF Next
<1>3. QED
  BY <1>1, <1>2, Typing, PTL DEF Spec

-----------------------------------------------------------------------------
(* No satisfiable input is rejected: every model on the reported path has  *)
(* no finite value.                                                        *)
THEOREM RejectionSound == Spec => []RejectionIsSound
<1>1. IInv => RejectionIsSound
  <2> SUFFICES ASSUME IInv, pc = "rejected"
               PROVE  /\ cycle # << >>
                      /\ \A i \in DOMAIN cycle : ~ HasFiniteValue(cycle[i])
    BY DEF RejectionIsSound
  <2>1. /\ instantiable \in SUBSET Model /\ LoaderClosed(instantiable) /\ cycle # << >>
        /\ \A i \in DOMAIN cycle : cycle[i] \notin instantiable
    BY DEF IInv, TypeOK, FixedPoint
  <2>2. \A m \in Model : schema[m] \in Seq(Member)
    BY BodiesAreSequences DEF IInv, TypeOK
  <2>3. Closed(instantiable)
    BY <2>1, <2>2, WritableHolds DEF Closed, LoaderClosed
  <2>4. QED
    BY <2>1, <2>3 DEF HasFiniteValue
<1>2. QED
  BY <1>1, Invariance, PTL

(* An accepted input without annotated references has a finite value for   *)
(* every model.                                                            *)
THEOREM AcceptanceComplete == Spec => []AcceptanceIsComplete
<1>1. IInv => AcceptanceIsComplete
  <2> SUFFICES ASSUME IInv, pc = "accepted", \A m \in Model : ~ Annotated(schema[m]),
                      NEW m \in Model, NEW S \in SUBSET Model, Closed(S)
               PROVE  m \in S
    BY DEF AcceptanceIsComplete, HasFiniteValue
  <2>1. \A k \in Model : schema[k] \in Seq(Member)
    BY BodiesAreSequences DEF IInv, TypeOK
  <2>2. LoaderClosed(S)
    BY <2>1, HoldsWritable DEF Closed, LoaderClosed
  <2>3. QED
    BY <2>2 DEF IInv, InsideEveryClosedSet, FixedPoint
<1>2. QED
  BY <1>1, Invariance, PTL

-----------------------------------------------------------------------------
(* The reported path.                                                      *)

(* The path so far runs along required members and repeats no model.       *)
Walk ==
  /\ pc \in {"trace", "rejected"} =>
       \A i \in 1 .. Len(cycle) - 1 : ForcedEdge(cycle[i], cycle[i + 1])
  /\ pc = "trace" => \A i, j \in 1 .. Len(cycle) : cycle[i] = cycle[j] => i = j
  /\ PathIsLasso

(* A path that repeats no model is no longer than the number of models.    *)
LEMMA PathIsShort ==
  ASSUME NEW path \in Seq(Model), NEW n \in Nat, n <= Len(path),
         \A i, j \in 1 .. n : path[i] = path[j] => i = j
  PROVE  n <= N
<1>1. /\ IsFiniteSet(1 .. n) /\ Cardinality(1 .. n) = n
      /\ IsFiniteSet(Model) /\ Cardinality(Model) = N
  BY NAssumption, FS_Interval DEF Model
<1>2. [ i \in 1 .. n |-> path[i] ] \in Injection(1 .. n, Model)
  BY DEF Injection, IsInjective
<1>3. QED
  BY <1>1, <1>2, FS_Injection, NAssumption

(* What blocks a model is written at one of its required members.          *)
LEMMA BlockingIsForced ==
  ASSUME NEW m \in Model, NEW next \in Model, IsBlockingTarget(next, schema[m], instantiable)
  PROVE  ForcedEdge(m, next)
<1>1. PICK p \in BlockingPlaces(schema[m], instantiable) :
        next = schema[m][p[1]].alternatives[p[2]].target
  BY DEF IsBlockingTarget
<1>2. p[1] \in DOMAIN schema[m] /\ p[2] \in DOMAIN schema[m][p[1]].alternatives
  <2>1. p \in UNION { {i} \X (DOMAIN schema[m][i].alternatives) : i \in DOMAIN schema[m] }
    BY <1>1, Zenon DEF BlockingPlaces
  <2>2. PICK i \in DOMAIN schema[m] : p \in {i} \X (DOMAIN schema[m][i].alternatives)
    BY <2>1
  <2>3. p[1] = i /\ p[2] \in DOMAIN schema[m][i].alternatives
    BY <2>2
  <2>4. QED
    BY <2>2, <2>3
<1>3. IsPart(schema[m][p[1]]) /\ Targets(schema[m][p[1]].alternatives[p[2]])
  BY <1>1 DEF BlockingPlaces
<1>4. QED
  BY <1>1, <1>2, <1>3 DEF ForcedEdge, IsPart, Targets, Demands

(* The path that a rejection reports runs along members its models must    *)
(* have, repeats no model and ends on a repetition, for every number of    *)
(* models: the message names a cycle.                                      *)
THEOREM Lasso == Spec => []PathIsLasso
<1>1. Init => Walk
  BY DEF Init, Walk, PathIsLasso
<1>2. IInv /\ TypeOK' /\ Walk /\ [Next]_vars => Walk'
  <2> SUFFICES ASSUME IInv, TypeOK', Walk, [Next]_vars PROVE Walk'
    OBVIOUS
  <2>1. CASE SweepModel \/ NextSweep \/ Accept
    BY <2>1 DEF SweepModel, NextSweep, Accept, Walk, PathIsLasso
  <2>2. CASE StartTrace
    BY <2>2 DEF StartTrace, Walk, PathIsLasso
  <2>3. CASE TraceHop
    <3>1. PICK next \in Model :
             /\ IsBlockingTarget(next, schema[cycle[Len(cycle)]], instantiable)
             /\ cycle' = Append(cycle, next)
             /\ pc' = IF \E i \in DOMAIN cycle : cycle[i] = next THEN "rejected" ELSE "trace"
      BY <2>3 DEF TraceHop
    <3>2. schema' = schema /\ pc = "trace" /\ cycle \in Seq(Model) /\ Len(cycle) \in Nat \ {0}
      BY <2>3 DEF TraceHop, IInv, TypeOK, FixedPoint
    <3>3. /\ Len(cycle') = Len(cycle) + 1 /\ cycle'[Len(cycle) + 1] = next
          /\ \A i \in 1 .. Len(cycle) : cycle'[i] = cycle[i]
          /\ DOMAIN cycle = 1 .. Len(cycle)
      BY <3>1, <3>2
    <3>4. \A i, j \in 1 .. Len(cycle) : cycle[i] = cycle[j] => i = j
      BY <3>2 DEF Walk
    <3>5. ForcedEdge(cycle[Len(cycle)], next)
      BY <3>1, <3>2, BlockingIsForced
    <3>6. \A i \in 1 .. Len(cycle') - 1 : ForcedEdge(cycle'[i], cycle'[i + 1])
      <4> SUFFICES ASSUME NEW i \in 1 .. Len(cycle)
                   PROVE  ForcedEdge(cycle'[i], cycle'[i + 1])
        BY <3>2, <3>3
      <4>1. CASE i = Len(cycle)
        BY <3>2, <3>3, <3>5, <4>1
      <4>2. CASE i # Len(cycle)
        <5>1. i \in 1 .. Len(cycle) - 1 /\ i + 1 \in 1 .. Len(cycle)
          BY <3>2, <4>2
        <5>2. ForcedEdge(cycle[i], cycle[i + 1])
          BY <3>2, <5>1 DEF Walk
        <5>3. QED
          BY <3>3, <5>1, <5>2
      <4>3. QED
        BY <4>1, <4>2
    <3>7. (\A i \in 1 .. Len(cycle) - 1 : ForcedEdge(cycle[i], cycle[i + 1]))'
      BY <3>2, <3>6 DEF ForcedEdge
    <3>8. CASE \E i \in DOMAIN cycle : cycle[i] = next
      <4>1. pc' = "rejected"
        BY <3>1, <3>8
      <4>2. Len(cycle) <= N
        BY <3>2, <3>4, PathIsShort
      <4>3. Len(cycle') \in 2 .. N + 1 /\ Len(cycle') - 1 = Len(cycle)
        BY <3>2, <3>3, <4>2, NAssumption
      <4>4. \A i, j \in 1 .. Len(cycle') - 1 : cycle'[i] = cycle'[j] => i = j
        BY <3>3, <3>4, <4>3
      <4>5. \E i \in 1 .. Len(cycle') - 1 : cycle'[i] = cycle'[Len(cycle')]
        BY <3>3, <3>8, <4>3
      <4>6. PathIsLasso'
        BY <3>7, <4>3, <4>4, <4>5 DEF PathIsLasso
      <4>7. QED
        BY <3>7, <4>1, <4>6 DEF Walk
    <3>9. CASE \A i \in DOMAIN cycle : cycle[i] # next
      <4>1. pc' = "trace"
        BY <3>1, <3>9
      <4>2. \A i, j \in 1 .. Len(cycle') : cycle'[i] = cycle'[j] => i = j
        BY <3>2, <3>3, <3>4, <3>9
      <4>3. QED
        BY <3>7, <4>1, <4>2 DEF Walk, PathIsLasso
    <3>10. QED
      BY <3>8, <3>9
  <2>4. CASE UNCHANGED vars
    BY <2>4 DEF vars, Walk, PathIsLasso, ForcedEdge
  <2>5. QED
    BY <2>1, <2>2, <2>3, <2>4 DEF Next
<1>3. Walk => PathIsLasso
  BY DEF Walk
<1>4. QED
  BY <1>1, <1>2, <1>3, Invariance, Typing, PTL DEF Spec
=============================================================================
