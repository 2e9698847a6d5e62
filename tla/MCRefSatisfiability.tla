------------------------ MODULE MCRefSatisfiability ------------------------
(* Small instances of RefSatisfiability: three models, bodies of at most   *)
(* two members taken from a set that has every kind of edge.               *)
EXTENDS RefSatisfiability

Bare(t) == [kind |-> "bare", target |-> t]
AnnotatedRef(t) == [kind |-> "annotated", target |-> t]
Leaf == [kind |-> "leaf", target |-> 0]

Req(alts) == [required |-> TRUE, alternatives |-> alts]
Opt(alts) == [required |-> FALSE, alternatives |-> alts]

(* The members, numbered so that a body lists two of them in order.        *)
MCMembers == <<
  Req(<< Bare(1), Bare(2) >>), Req(<< Bare(3), Leaf >>),
  Req(<< Bare(1) >>), Req(<< Bare(2) >>), Req(<< Bare(3) >>),
  Req(<< Bare(2), AnnotatedRef(3) >>), Req(<< AnnotatedRef(1) >>),
  Opt(<< Bare(2) >>) >>

MCBody ==
  { << >>, << Req(<< Bare(Elsewhere) >>) >> }
    \cup { << MCMembers[i] >> : i \in DOMAIN MCMembers }
    \cup { << MCMembers[p[1]], MCMembers[p[2]] >> :
             p \in { q \in (DOMAIN MCMembers) \X (DOMAIN MCMembers) : q[1] < q[2] } }
=============================================================================
