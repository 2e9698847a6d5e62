------------------------ MODULE AbstractSpecs_proofs ------------------------
(***************************************************************************)
(* What the two abstract specifications promise follows from their steps   *)
(* alone, so that whatever implements them may be relied on for it:        *)
(* ItemDelivery skips nothing, and ReleaseLedger takes no entry twice.     *)
(***************************************************************************)
EXTENDS Naturals, FiniteSets, TLAPS

VARIABLES records, tail, handed, resumeAt, saved, pending, released

Delivery == INSTANCE ItemDelivery
Ledger == INSTANCE ReleaseLedger

-----------------------------------------------------------------------------
(* No record, item or position is ahead of the service.                    *)
WithinTail ==
  /\ tail \in Nat \ {0}
  /\ records \subseteq Nat /\ \A r \in records : r < tail
  /\ handed \subseteq records
  /\ resumeAt \in 1 .. tail /\ saved \in 1 .. tail

(* A consumer that starts again from its saved position, or that resumes   *)
(* where the iteration is, has been handed every record before it, and     *)
(* items come without gaps.                                                *)
THEOREM DeliveryIsAtLeastOnce == Delivery!Spec => []Delivery!AtLeastOnce
<1> DEFINE IInv == WithinTail /\ Delivery!AtLeastOnce
<1>1. Delivery!Init => IInv
  BY DEF Delivery!Init, WithinTail, Delivery!AtLeastOnce, Delivery!Before
<1>2. IInv /\ [Delivery!Next]_Delivery!vars => IInv'
  <2> SUFFICES ASSUME WithinTail, Delivery!AtLeastOnce, [Delivery!Next]_Delivery!vars
               PROVE  WithinTail' /\ Delivery!AtLeastOnce'
    OBVIOUS
  <2>1. CASE Delivery!Append
    <3>1. WithinTail'
      BY <2>1 DEF Delivery!Append, WithinTail
    <3>2. \A position \in 1 .. tail : Delivery!Before(position)' = Delivery!Before(position)
      <4> SUFFICES ASSUME NEW position \in 1 .. tail
                   PROVE  { r \in records' : r < position } = { r \in records : r < position }
        BY DEF Delivery!Before
      <4>1. ~ (tail < position)
        BY DEF WithinTail
      <4>2. QED
        BY <2>1, <4>1 DEF Delivery!Append
    <3>3. \A item \in handed : item \in 1 .. tail \/ item = 0
      BY DEF WithinTail
    <3>4. \A item \in handed : Delivery!Before(item)' = Delivery!Before(item)
      <4>1. Delivery!Before(0)' = Delivery!Before(0)
        BY <2>1, <3>1 DEF Delivery!Append, Delivery!Before, WithinTail
      <4>2. QED
        BY <3>2, <3>3, <4>1
    <3>5. Delivery!Before(saved)' = Delivery!Before(saved) /\ Delivery!Before(resumeAt)' = Delivery!Before(resumeAt)
      BY <2>1, <3>2 DEF Delivery!Append, WithinTail, Delivery!Before
    <3>6. QED
      BY <2>1, <3>1, <3>4, <3>5 DEF Delivery!Append, Delivery!AtLeastOnce
  <2>2. CASE Delivery!Hand
    BY <2>2 DEF Delivery!Hand, Delivery!SafeAfter, WithinTail, Delivery!AtLeastOnce, Delivery!Before
  <2>3. CASE Delivery!Advance
    BY <2>3 DEF Delivery!Advance, Delivery!SafeAfter, WithinTail, Delivery!AtLeastOnce, Delivery!Before
  <2>4. CASE Delivery!Save
    BY <2>4 DEF Delivery!Save, WithinTail, Delivery!AtLeastOnce, Delivery!Before
  <2>5. CASE Delivery!StartAgain
    BY <2>5 DEF Delivery!StartAgain, WithinTail, Delivery!AtLeastOnce, Delivery!Before
  <2>6. CASE UNCHANGED Delivery!vars
    BY <2>6 DEF Delivery!vars, WithinTail, Delivery!AtLeastOnce, Delivery!Before
  <2>7. QED
    BY <2>1, <2>2, <2>3, <2>4, <2>5, <2>6 DEF Delivery!Next
<1>3. IInv => Delivery!AtLeastOnce
  OBVIOUS
<1>4. QED
  BY <1>1, <1>2, <1>3, PTL DEF Delivery!Spec

-----------------------------------------------------------------------------
(* No changelog entry is pending and released, or released twice, whatever *)
(* entries come and whatever releases take of them.                        *)
THEOREM TakenOnce == Ledger!Spec => []Ledger!EachEntryOnce
<1>1. Ledger!Init => Ledger!EachEntryOnce
  BY DEF Ledger!Init, Ledger!EachEntryOnce, Ledger!Taken
<1>2. Ledger!EachEntryOnce /\ [Ledger!Next]_Ledger!vars => Ledger!EachEntryOnce'
  <2> SUFFICES ASSUME Ledger!EachEntryOnce, [Ledger!Next]_Ledger!vars PROVE Ledger!EachEntryOnce'
    OBVIOUS
  <2>1. CASE Ledger!Add
    BY <2>1 DEF Ledger!Add, Ledger!EachEntryOnce, Ledger!Taken
  <2>2. CASE Ledger!Release
    <3>1. PICK v \in DOMAIN released' \ DOMAIN released :
            /\ released'[v] \subseteq pending
            /\ DOMAIN released' = DOMAIN released \cup {v}
            /\ \A w \in DOMAIN released : released'[w] = released[w]
            /\ pending' = pending \ released'[v]
      BY <2>2 DEF Ledger!Release
    <3>2. Ledger!Taken' = Ledger!Taken \cup released'[v]
      BY <3>1 DEF Ledger!Taken
    <3>3. \A w \in DOMAIN released : released[w] \cap pending = {}
      BY DEF Ledger!EachEntryOnce, Ledger!Taken
    <3>4. \A u, w \in DOMAIN released' : u # w => released'[u] \cap released'[w] = {}
      BY <3>1, <3>3 DEF Ledger!EachEntryOnce
    <3>5. pending' \cap Ledger!Taken' = {}
      BY <3>1, <3>2 DEF Ledger!EachEntryOnce
    <3>6. QED
      BY <3>4, <3>5 DEF Ledger!EachEntryOnce
  <2>3. CASE UNCHANGED Ledger!vars
    BY <2>3 DEF Ledger!vars, Ledger!EachEntryOnce, Ledger!Taken
  <2>4. QED
    BY <2>1, <2>2, <2>3 DEF Ledger!Next
<1>3. QED
  BY <1>1, <1>2, PTL DEF Ledger!Spec
=============================================================================
