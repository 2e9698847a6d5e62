-------------------------- MODULE RefSatisfiability --------------------------
(***************************************************************************)
(* The loader's check that every recursive model has a finite value:       *)
(* `validate_reference_satisfiability` of src/src/parser/json_schema.rs.   *)
(*                                                                         *)
(* A model is reduced to the members its instances are forced to contain.  *)
(* The check computes, by repeated sweeps over the models in key order,    *)
(* the set of models that have an instance, and when one is missing walks  *)
(* from blocking target to blocking target to report a cycle.              *)
(*                                                                         *)
(* The schemas are inputs: `schema` is chosen by Init and never changes.   *)
(***************************************************************************)
EXTENDS Naturals, Sequences

CONSTANTS
  N,      (* Number of named models; 1..N is the BTreeMap's key order.     *)
  Body    (* The model bodies the inputs are drawn from.                   *)

Model == 1 .. N

(* A $ref whose target is not a model of this input (or does not resolve). *)
Elsewhere == 0

(***************************************************************************)
(* One way to write a value.  "bare": a $ref with no sibling; "annotated": *)
(* a $ref that keeps a sibling such as `deprecated` or `x-go-name`;        *)
(* "leaf": a scalar, null, an array or a map, which forces nothing.        *)
(***************************************************************************)
Alternative == [kind : {"bare", "annotated", "leaf"}, target : 0 .. N]

(***************************************************************************)
(* A property of an object: more than one alternative is a `oneOf`.  A     *)
(* model that is itself a union is a body with one required member.        *)
(***************************************************************************)
Member == [required : BOOLEAN, alternatives : Seq(Alternative)]

ASSUME NAssumption == N \in Nat
ASSUME BodyAssumption ==
  \A body \in Body :
    /\ body \in Seq(Member)
    /\ \A i \in DOMAIN body : body[i].alternatives # << >>

VARIABLES
  schema,         (* Body of each model.                                   *)
  instantiable,   (* Models known to have an instance.                     *)
  key,            (* Next model of the sweep; N + 1 after the last.        *)
  changed,        (* Has this sweep added a model?                         *)
  cycle,          (* The path reported by a rejection.                     *)
  pc              (* "sweep", "trace", "accepted" or "rejected".           *)

vars == << schema, instantiable, key, changed, cycle, pc >>

-----------------------------------------------------------------------------
(* schema_requirement: only a bare $ref to a model becomes a Target.       *)
Targets(alternative) ==
  alternative.kind = "bare" /\ alternative.target \in Model

(* requirement_holds on a Target, and on what reduces to All([]).          *)
AlternativeHolds(alternative, known) ==
  Targets(alternative) => alternative.target \in known

(* Faulty variant: optional members are followed too.                      *)
EveryMemberIsPart(member) == TRUE

(* schema_requirement skips the properties that are not in `required`.     *)
IsPart(member) == member.required

(* Faulty variant: a union is a conjunction.                               *)
MemberHoldsEveryBranch(member, known) ==
  IsPart(member) =>
    \A j \in DOMAIN member.alternatives :
      AlternativeHolds(member.alternatives[j], known)

(* Faulty variant: every union ends the chain.                             *)
MemberHoldsAnyUnion(member, known) ==
  \/ ~ IsPart(member)
  \/ Len(member.alternatives) > 1
  \/ \E j \in DOMAIN member.alternatives :
       AlternativeHolds(member.alternatives[j], known)

(* requirement_holds on Any: some branch.                                  *)
MemberHolds(member, known) ==
  IsPart(member) =>
    \E j \in DOMAIN member.alternatives :
      AlternativeHolds(member.alternatives[j], known)

(* requirement_holds on All.                                               *)
RequirementHolds(body, known) ==
  \A i \in DOMAIN body : MemberHolds(body[i], known)

(* Where a requirement names a model not known to be instantiable.         *)
BlockingPlaces(body, known) ==
  { p \in UNION { {i} \X (DOMAIN body[i].alternatives) : i \in DOMAIN body } :
      /\ IsPart(body[p[1]])
      /\ Targets(body[p[1]].alternatives[p[2]])
      /\ body[p[1]].alternatives[p[2]].target \notin known }

Precedes(p, q) == p[1] < q[1] \/ (p[1] = q[1] /\ p[2] <= q[2])

(* blocking_target: the first of them, depth first, in authored order.     *)
IsBlockingTarget(target, body, known) ==
  \E p \in BlockingPlaces(body, known) :
    /\ \A q \in BlockingPlaces(body, known) : Precedes(p, q)
    /\ target = body[p[1]].alternatives[p[2]].target

-----------------------------------------------------------------------------
Init ==
  /\ schema \in [Model -> Body]
  /\ instantiable = {}
  /\ key = 1
  /\ changed = FALSE
  /\ cycle = << >>
  /\ pc = "sweep"

(* One turn of `for (key, requirement) in &requirements`.                  *)
SweepModel ==
  /\ pc = "sweep"
  /\ key \in Model
  /\ key' = key + 1
  /\ IF key \notin instantiable /\ RequirementHolds(schema[key], instantiable)
     THEN /\ instantiable' = instantiable \cup {key}
          /\ changed' = TRUE
     ELSE UNCHANGED << instantiable, changed >>
  /\ UNCHANGED << schema, cycle, pc >>

(* Faulty variant: `changed` is not reset.                                 *)
NextSweepKeepsChanged ==
  /\ pc = "sweep"
  /\ key = N + 1
  /\ changed
  /\ key' = 1
  /\ UNCHANGED << schema, instantiable, changed, cycle, pc >>

(* Faulty variant: the sweep starts before the first key.                  *)
NextSweepFromOutside ==
  /\ pc = "sweep"
  /\ key = N + 1
  /\ changed
  /\ key' = 0
  /\ changed' = FALSE
  /\ UNCHANGED << schema, instantiable, cycle, pc >>

(* A sweep that added a model is followed by another one.                  *)
NextSweep ==
  /\ pc = "sweep"
  /\ key = N + 1
  /\ changed
  /\ key' = 1
  /\ changed' = FALSE
  /\ UNCHANGED << schema, instantiable, cycle, pc >>

(* The fixed point is reached and holds every model: Ok(()).               *)
Accept ==
  /\ pc = "sweep"
  /\ key = N + 1
  /\ ~ changed
  /\ Model \subseteq instantiable
  /\ pc' = "accepted"
  /\ UNCHANGED << schema, instantiable, key, changed, cycle >>

(* The first model without an instance starts the witness path.            *)
StartTrace ==
  /\ pc = "sweep"
  /\ key = N + 1
  /\ ~ changed
  /\ \E start \in Model \ instantiable :
       /\ \A m \in Model \ instantiable : start <= m
       /\ cycle' = << start >>
  /\ pc' = "trace"
  /\ UNCHANGED << schema, instantiable, key, changed >>

(* One hop of the witness path; it stops at a model already on it.  The    *)
(* code also stops when no target blocks the last model: no input gets     *)
(* there, or the walk below would be stuck and Terminates would fail.      *)
TraceHop ==
  /\ pc = "trace"
  /\ \E next \in Model :
       /\ IsBlockingTarget(next, schema[cycle[Len(cycle)]], instantiable)
       /\ cycle' = Append(cycle, next)
       /\ pc' = IF \E i \in DOMAIN cycle : cycle[i] = next
                THEN "rejected" ELSE "trace"
  /\ UNCHANGED << schema, instantiable, key, changed >>

Next == SweepModel \/ NextSweep \/ Accept \/ StartTrace \/ TraceHop

(* The loops run to their end: nothing else is scheduled in between.       *)
Spec == Init /\ [][Next]_vars /\ WF_vars(Next)

-----------------------------------------------------------------------------
(* Reference: which models have a finite value, from the JSON Schema       *)
(* meaning of the bodies.  A $ref demands a value of its target whether or *)
(* not it carries an annotation.                                           *)

Demands(alternative) ==
  alternative.kind # "leaf" /\ alternative.target \in Model

(* A value can be written for the body out of values of the models in S.   *)
Writable(body, S) ==
  \A i \in DOMAIN body :
    body[i].required =>
      \E j \in DOMAIN body[i].alternatives :
        Demands(body[i].alternatives[j]) => body[i].alternatives[j].target \in S

(* Finite values are what is built bottom-up, so the models that have one  *)
(* are in every set closed under writing values.                           *)
Closed(S) == \A m \in Model : Writable(schema[m], S) => m \in S

HasFiniteValue(m) == \A S \in SUBSET Model : Closed(S) => m \in S

Annotated(body) ==
  \E i \in DOMAIN body : \E j \in DOMAIN body[i].alternatives :
    body[i].alternatives[j].kind = "annotated"

(* b is written at a required member of a.                                 *)
ForcedEdge(a, b) ==
  \E i \in DOMAIN schema[a] :
    /\ schema[a][i].required
    /\ \E j \in DOMAIN schema[a][i].alternatives :
         /\ Demands(schema[a][i].alternatives[j])
         /\ schema[a][i].alternatives[j].target = b

(* Some required member of a can only be written by way of models without  *)
(* a finite value, b among them: the edge is one the author has to break.  *)
MandatoryEdge(a, b) ==
  \E i \in DOMAIN schema[a] :
    /\ schema[a][i].required
    /\ \A j \in DOMAIN schema[a][i].alternatives :
         /\ Demands(schema[a][i].alternatives[j])
         /\ schema[a][i].alternatives[j].target \notin instantiable
    /\ \E j \in DOMAIN schema[a][i].alternatives :
         schema[a][i].alternatives[j].target = b

-----------------------------------------------------------------------------
(* The variables have their types at every step of the loops.              *)
TypeOK ==
  /\ schema \in [Model -> Body]
  /\ instantiable \subseteq Model
  /\ key \in 1 .. N + 1
  /\ changed \in BOOLEAN
  /\ cycle \in Seq(Model)
  /\ pc \in {"sweep", "trace", "accepted", "rejected"}

(* A rejection is never wrong: no model on the reported path has a finite  *)
(* value, whatever mixture of unions, optional members and annotated       *)
(* references led to it ("it never rejects a satisfiable schema").         *)
RejectionIsSound ==
  pc = "rejected" =>
    /\ cycle # << >>
    /\ \A i \in DOMAIN cycle : ~ HasFiniteValue(cycle[i])

(* Without annotated references an acceptance is never wrong either: every *)
(* model has a finite value, so the verdict does not depend on the order   *)
(* in which the sweeps visit the models.                                   *)
AcceptanceIsComplete ==
  pc = "accepted" /\ (\A m \in Model : ~ Annotated(schema[m])) =>
    \A m \in Model : HasFiniteValue(m)

(* The reported path is a lasso: it runs along members the source model    *)
(* must have, repeats no model before its end, and ends on a repetition.   *)
PathIsLasso ==
  pc = "rejected" =>
    /\ Len(cycle) \in 2 .. N + 1
    /\ \A i \in 1 .. Len(cycle) - 1 : ForcedEdge(cycle[i], cycle[i + 1])
    /\ \A i, j \in 1 .. Len(cycle) - 1 : cycle[i] = cycle[j] => i = j
    /\ \E i \in 1 .. Len(cycle) - 1 : cycle[i] = cycle[Len(cycle)]

(* The sweeps and the walk both end with a verdict.                        *)
Terminates == <>(pc \in {"accepted", "rejected"})

(* The rule of features/ref.md with no exception: an accepted input has a  *)
(* finite value for every model.                                           *)
AcceptedModelsHaveValues ==
  pc = "accepted" => \A m \in Model : HasFiniteValue(m)

(* The comment on the witness path: "Every hop is mandatory, so the repeat *)
(* is the cycle the author has to break".                                  *)
EveryHopIsMandatory ==
  pc = "rejected" =>
    \A i \in 1 .. Len(cycle) - 1 : MandatoryEdge(cycle[i], cycle[i + 1])
=============================================================================
