---------------------------- MODULE ReleaseLedger ----------------------------
(***************************************************************************)
(* What preparing releases promises about changelog entries: an entry that *)
(* was merged is pending until one release takes it, and no release takes  *)
(* it again.  A release takes any of the pending entries, perhaps none     *)
(* ("Empty releases are allowed", CONTRIBUTING.md).  Nothing is said of    *)
(* clones, branches, pull requests or failures.                            *)
(***************************************************************************)
EXTENDS Naturals, FiniteSets

VARIABLES
  pending,    (* Entries that wait for a release.                          *)
  released    (* The entries of each release there was.                    *)

vars == << pending, released >>

Taken == UNION { released[v] : v \in DOMAIN released }

Add ==
  \E entries \in SUBSET (pending' \ pending) :
    /\ entries # {} /\ entries \cap Taken = {}
    /\ pending' = pending \cup entries
    /\ UNCHANGED released

Release ==
  \E v \in DOMAIN released' \ DOMAIN released :
    /\ released'[v] \subseteq pending
    /\ DOMAIN released' = DOMAIN released \cup {v}
    /\ \A w \in DOMAIN released : released'[w] = released[w]
    /\ pending' = pending \ released'[v]

Init == DOMAIN released = {}

Next == Add \/ Release

Spec == Init /\ [][Next]_vars

(* No entry is pending and taken, or taken by two releases.                *)
EachEntryOnce ==
  /\ pending \cap Taken = {}
  /\ \A v, w \in DOMAIN released : v # w => released[v] \cap released[w] = {}
=============================================================================
