---------------------------- MODULE ItemDelivery ----------------------------
(***************************************************************************)
(* What the item iterator promises, as the guide's section on @nexus.poll  *)
(* states it: items are handed out in order and without gaps, and a        *)
(* consumer that saves the request to resume with and starts again from it *)
(* gets every item at least once.  Nothing is said of pages, of the        *)
(* generator that reads them or of how a read fails.                       *)
(***************************************************************************)
EXTENDS Naturals

VARIABLES
  records,    (* Offsets of the records the service has written.           *)
  tail,       (* The next offset it writes.                                *)
  handed,     (* Offsets of the items handed to the consumer.              *)
  resumeAt,   (* Where the iteration would resume now.                     *)
  saved       (* Where the consumer would start again.                     *)

vars == << records, tail, handed, resumeAt, saved >>

Before(position) == { r \in records : r < position }

(* The positions from which starting again loses nothing.                  *)
SafeAfter(handedOut) ==
  { position \in 1 .. tail : Before(position) \subseteq handedOut }

Init ==
  /\ records = {} /\ tail = 1
  /\ handed = {}
  /\ resumeAt = 1 /\ saved = 1

Append ==
  /\ tail' = tail + 1
  /\ records' \in { records, records \cup {tail} }
  /\ UNCHANGED << handed, resumeAt, saved >>

(* An item, when all those before it have been handed out.                 *)
Hand ==
  \E item \in records :
    /\ Before(item) \subseteq handed
    /\ handed' = handed \cup {item}
    /\ resumeAt' \in SafeAfter(handed \cup {item})
    /\ UNCHANGED << records, tail, saved >>

(* An offset without a record is passed.                                   *)
Advance ==
  /\ resumeAt' \in SafeAfter(handed)
  /\ UNCHANGED << records, tail, handed, saved >>

Save ==
  /\ saved' = resumeAt
  /\ UNCHANGED << records, tail, handed, resumeAt >>

StartAgain ==
  /\ resumeAt' = saved
  /\ UNCHANGED << records, tail, handed, saved >>

Next == Append \/ Hand \/ Advance \/ Save \/ StartAgain

Spec == Init /\ [][Next]_vars

(* What the consumer may rely on: no record before its saved position is   *)
(* missing, and items come without gaps.                                   *)
AtLeastOnce ==
  /\ Before(saved) \subseteq handed
  /\ Before(resumeAt) \subseteq handed
  /\ \A item \in handed : Before(item) \subseteq handed
=============================================================================
