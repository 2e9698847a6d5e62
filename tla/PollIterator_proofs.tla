------------------------- MODULE PollIterator_proofs -------------------------
(***************************************************************************)
(* For every log length, page size and number of failures and crashes: the *)
(* two copies of the request stay in lockstep and no record is skipped.    *)
(*                                                                         *)
(* The argument: what has been passed by a request was handed out, and     *)
(* while a page is being yielded, what its next request will have passed   *)
(* was handed out or is still in the page.  That needs the page generator  *)
(* and the iterator to agree on the request of the page in flight, and the *)
(* saved request to be None only when the iterator's is.                   *)
(***************************************************************************)
EXTENDS PollIterator, FiniteSetTheorems, TLAPS

(* No record and no request is ahead of the service.                       *)
WithinLog ==
  /\ \A r \in records : r < tail
  /\ nextRequest # None => nextRequest <= tail
  /\ pageNext # None => pageNext <= tail
  /\ saved # None => saved <= tail
  /\ seenTail <= tail

(* What each control point knows of the fields.                            *)
ControlState ==
  /\ pc = "reading" =>
       /\ page = {} /\ ~ genFinished
       /\ operation = pageRequest /\ nextRequest = pageRequest
  /\ pc # "reading" => operation = None
  /\ page # {} =>
       /\ pc = "idle" /\ ~ genFinished
       /\ genRequest = pageNext /\ nextRequest # None
  /\ saved = None => nextRequest = None

(* The rest of the page covers what its next request will have passed.     *)
PageCovers ==
  page # {} =>
    /\ page \subseteq Passed(pageNext)
    /\ Passed(pageNext) \subseteq handed \cup page

IInv == TypeOK /\ WithinLog /\ ControlState /\ InLockstep /\ PageCovers /\ NothingSkipped

-----------------------------------------------------------------------------
LEMMA InitTyping == Init => TypeOK
<1> SUFFICES ASSUME Init PROVE TypeOK
  OBVIOUS
<1>1. 1 \in Position
  BY OffsetAssumption DEF Position
<1>2. 0 \in 0 .. MaxFailures /\ 0 \in 0 .. MaxCrashes
  BY BoundsAssumption
<1>3. QED
  BY <1>1, <1>2 DEF Init, TypeOK, Request

LEMMA YieldTyping ==
  ASSUME TypeOK, NEW items \in SUBSET Offset, NEW next \in Request, Yield(items, next)
  PROVE  /\ nextRequest' \in Request /\ page' \subseteq Offset
         /\ delivered' \subseteq Offset /\ handed' \subseteq Offset
<1>1. PICK item \in items :
        /\ page' = items \ {item}
        /\ nextRequest' = NextRequestAfter(item, items \ {item}, next)
        /\ delivered' = delivered \cup {item}
        /\ handed' = handed \cup {item}
  BY DEF Yield
<1>2. item + 1 \in Request
  BY OffsetAssumption DEF Offset, Position, Request
<1>3. nextRequest \in Request
  BY DEF TypeOK
<1>4. nextRequest' \in Request
  BY <1>1, <1>2, <1>3 DEF NextRequestAfter, ResumeReadRequest
<1>5. QED
  BY <1>1, <1>4 DEF TypeOK

(* Types hold in every reachable state.                                    *)
THEOREM Typing == Spec => []TypeOK
<1>1. Init => TypeOK
  BY InitTyping
<1>2. TypeOK /\ [Next]_vars => TypeOK'
  <2> SUFFICES ASSUME TypeOK, [Next]_vars PROVE TypeOK'
    OBVIOUS
  <2> USE DEF mode, service, generator, iterator, consumer, faults
  <2>1. CASE Append
    <3>1. tail' \in Position /\ records' \subseteq Offset
      BY <2>1, OffsetAssumption DEF Append, TypeOK, Offset, Position
    <3>2. QED
      BY <2>1, <3>1 DEF Append, TypeOK
  <2>2. CASE Close
    BY <2>2 DEF Close, TypeOK
  <2>3. CASE NextOfPage
    <3>1. Yield(page, pageNext) /\ page \in SUBSET Offset /\ pageNext \in Request
      BY <2>3 DEF NextOfPage, TypeOK
    <3>2. QED
      BY <2>3, <3>1, YieldTyping DEF NextOfPage, TypeOK
  <2>4. CASE ReadPage
    <3>1. nextRequest \in Position
      BY <2>4 DEF ReadPage, TypeOK, Request
    <3>2. QED
      BY <2>4, <3>1 DEF ReadPage, TypeOK
  <2>5. CASE Stop
    <3>1. pageRequest' \in Position
      BY <2>5 DEF Stop, TypeOK, Request
    <3>2. QED
      BY <2>5, <3>1 DEF Stop, TypeOK
  <2>6. CASE PageArrives
    <3>1. PICK next \in Position, done \in BOOLEAN :
            /\ genRequest' = NextReadRequest(operation, Between(operation, next), next, done)
            /\ pageNext' = NextReadRequest(pageRequest, Between(operation, next), next, done)
            /\ IF Between(operation, next) = {}
               THEN /\ nextRequest' = pageNext'
                    /\ page' = {}
                    /\ pc' = "loop"
                    /\ UNCHANGED << delivered, handed >>
               ELSE /\ Yield(Between(operation, next), pageNext')
                    /\ pc' = "idle"
      BY <2>6 DEF PageArrives
    <3>2. pageNext' \in Request /\ genRequest' \in Request
      BY <3>1 DEF NextReadRequest, Request
    <3>3. Between(operation, next) \in SUBSET Offset
      BY DEF Between, TypeOK
    <3>4. /\ nextRequest' \in Request /\ page' \subseteq Offset
          /\ delivered' \subseteq Offset /\ handed' \subseteq Offset
      <4>1. CASE Between(operation, next) = {}
        BY <3>1, <3>2, <4>1 DEF TypeOK
      <4>2. CASE Between(operation, next) # {}
        BY <3>1, <3>2, <3>3, <4>2, YieldTyping
      <4>3. QED
        BY <4>1, <4>2
    <3>5. pc' \in {"idle", "loop"}
      BY <3>1
    <3>6. QED
      BY <2>6, <3>2, <3>4, <3>5 DEF PageArrives, TypeOK, Request
  <2>7. CASE ReadFails
    <3>1. failures' \in 0 .. MaxFailures
      BY <2>7, BoundsAssumption DEF ReadFails, TypeOK
    <3>2. QED
      BY <2>7, <3>1 DEF ReadFails, TypeOK, Request
  <2>8. CASE Save
    BY <2>8 DEF Save, TypeOK
  <2>9. CASE Crash
    <3>1. crashes' \in 0 .. MaxCrashes
      BY <2>9, BoundsAssumption DEF Crash, TypeOK
    <3>2. saved \in Position
      BY <2>9 DEF Crash, TypeOK, Request
    <3>3. QED
      BY <2>9, <3>1, <3>2 DEF Crash, StartIteration, TypeOK, Request
  <2>10. CASE StartAgain
    <3>1. nextRequest \in Position
      BY <2>10 DEF StartAgain, TypeOK, Request
    <3>2. QED
      BY <2>10, <3>1 DEF StartAgain, StartIteration, TypeOK, Request
  <2>11. CASE UNCHANGED vars
    BY <2>11 DEF vars, TypeOK
  <2>12. QED
    BY <2>1, <2>2, <2>3, <2>4, <2>5, <2>6, <2>7, <2>8, <2>9, <2>10, <2>11 DEF Next, Iterate
<1>3. QED
  BY <1>1, <1>2, PTL DEF Spec

-----------------------------------------------------------------------------
(* The next request of a page has passed what the page's request had, and  *)
(* the page's records: None only comes with the service's tail.            *)
LEMMA PagePasses ==
  ASSUME TypeOK, NEW from \in Position, NEW next \in Position, NEW done \in BOOLEAN,
         Answer(from, next, done)
  PROVE  /\ NextReadRequest(from, Between(from, next), next, done) \in {None, next}
         /\ NextReadRequest(from, Between(from, next), next, done) = None => next = tail
         /\ next <= tail
         /\ Between(from, next) \subseteq { r \in records : r < next }
         /\ { r \in records : r < next }
              \subseteq { r \in records : r < from } \cup Between(from, next)
<1>1. next <= tail /\ (done => next = tail)
      /\ (Between(from, next) = {} /\ next = from => from = tail)
  BY DEF Answer
<1>2. \A r \in records : r \in Nat
  BY OffsetAssumption DEF TypeOK, Offset
<1>3. from \in Nat /\ next \in Nat /\ next # None
  BY OffsetAssumption, NoneAssumption DEF Position
<1>4. NextReadRequest(from, Between(from, next), next, done) \in {None, next}
  BY DEF NextReadRequest
<1>5. NextReadRequest(from, Between(from, next), next, done) = None => next = tail
  BY <1>1, <1>3 DEF NextReadRequest
<1>6. Between(from, next) \subseteq { r \in records : r < next }
  BY DEF Between
<1>7. { r \in records : r < next }
        \subseteq { r \in records : r < from } \cup Between(from, next)
  BY <1>2, <1>3 DEF Between
<1>8. QED
  BY <1>1, <1>4, <1>5, <1>6, <1>7

(* Yielding the first item keeps the page, the request and what was handed *)
(* out consistent, wherever the page comes from.                           *)
LEMMA YieldKeeps ==
  ASSUME TypeOK, WithinLog, nextRequest # None, Passed(nextRequest) \subseteq handed,
         NEW items \in SUBSET records, NEW next \in Request,
         NEW covered \in SUBSET records, covered \subseteq handed \cup items,
         next # None => next <= tail /\ \A r \in items : r < next,
         \A r \in covered : next # None => r < next,
         \A r \in records : (\E q \in items : r < q) => r \in covered,
         Yield(items, next)
  PROVE  /\ page' \subseteq items
         /\ covered \subseteq handed' \cup page'
         /\ handed \subseteq handed'
         /\ page' = {} => nextRequest' = next
         /\ page' # {} =>
              /\ nextRequest' # None
              /\ nextRequest' <= tail
              /\ \A r \in records : r < nextRequest' => r \in handed'
<1>1. PICK item \in items :
        /\ \A other \in items : item <= other
        /\ page' = items \ {item}
        /\ nextRequest' = NextRequestAfter(item, items \ {item}, next)
        /\ handed' = handed \cup {item}
  BY DEF Yield
<1>2. \A r \in records : r \in Nat /\ r < tail
  BY OffsetAssumption DEF TypeOK, Offset, WithinLog
<1>3. tail \in Nat /\ nextRequest \in Nat /\ item \in Nat /\ item + 1 # None
  BY <1>2, OffsetAssumption, NoneAssumption DEF TypeOK, Position, Request
<1>4. \A r \in records : r < item => r \in handed
  BY <1>1, <1>2, <1>3
<1>5. \A r \in records : r < item + 1 => r \in handed'
  BY <1>1, <1>2, <1>3, <1>4
<1>6. \A r \in records : r < nextRequest => r \in handed'
  BY <1>1 DEF Passed
<1>7. page' # {} => nextRequest' \in {item + 1, nextRequest}
  BY <1>1 DEF NextRequestAfter, ResumeReadRequest
<1>8. nextRequest <= tail /\ item + 1 <= tail
  BY <1>1, <1>2, <1>3 DEF WithinLog
<1>9. page' = {} => nextRequest' = next
  BY <1>1 DEF NextRequestAfter
<1>10. page' \subseteq items /\ covered \subseteq handed' \cup page' /\ handed \subseteq handed'
  BY <1>1
<1>11. QED
  BY <1>3, <1>5, <1>6, <1>7, <1>8, <1>9, <1>10

(* A new iteration may start from any request that has skipped nothing.    *)
LEMMA IterationStarts ==
  ASSUME IInv, TypeOK', NEW request \in {saved, nextRequest}, request # None,
         request <= tail, Passed(request) \subseteq handed,
         StartIteration(request),
         UNCHANGED << mode, service, handed, saved, seenTail >>
  PROVE  IInv'
<1> USE DEF mode, service
<1>1. WithinLog'
  BY DEF StartIteration, IInv, WithinLog
<1>2. ControlState' /\ InLockstep' /\ PageCovers'
  BY DEF StartIteration, IInv, ControlState, InLockstep, PageCovers
<1>3. NothingSkipped'
  <2>1. Passed(nextRequest)' = Passed(request) /\ Passed(saved)' = Passed(saved)
    BY DEF StartIteration, Passed
  <2>2. QED
    BY <2>1 DEF IInv, NothingSkipped
<1>4. QED
  BY <1>1, <1>2, <1>3 DEF IInv

(* Lockstep, coverage and no gaps in every reachable state.                *)
THEOREM Invariance == Spec => []IInv
<1>1. Init => IInv
  <2> SUFFICES ASSUME Init PROVE IInv
    OBVIOUS
  <2>1. TypeOK
    BY InitTyping
  <2>2. WithinLog /\ ControlState /\ InLockstep /\ PageCovers /\ NothingSkipped
    BY NoneAssumption DEF Init, WithinLog, ControlState, InLockstep, PageCovers, NothingSkipped, Passed
  <2>3. QED
    BY <2>1, <2>2 DEF IInv
<1>2. IInv /\ TypeOK' /\ [Next]_vars => IInv'
  <2> SUFFICES ASSUME IInv, TypeOK', [Next]_vars PROVE IInv'
    OBVIOUS
  <2> USE DEF mode, service, generator, iterator, consumer, faults
  <2>0. /\ tail \in Nat /\ seenTail \in Nat /\ records \subseteq Nat
        /\ nextRequest # None => nextRequest \in Nat
        /\ pageNext # None => pageNext \in Nat
        /\ saved # None => saved \in Nat
    BY OffsetAssumption DEF IInv, TypeOK, Offset, Position, Request
  <2>1. CASE Append
    <3>1. /\ tail' = tail + 1 /\ records' \subseteq records \cup {tail}
          /\ records \subseteq records'
          /\ UNCHANGED << generator, iterator, consumer >>
      BY <2>1 DEF Append
    <3>2. WithinLog'
      BY <2>0, <3>1 DEF IInv, WithinLog
    <3>3. /\ Passed(nextRequest)' = Passed(nextRequest)
          /\ Passed(pageNext)' = Passed(pageNext)
          /\ Passed(saved)' = Passed(saved)
      <4>1. \A bound \in Nat : bound <= tail =>
               { r \in records' : r < bound } = { r \in records : r < bound }
        <5> SUFFICES ASSUME NEW bound \in Nat, bound <= tail, NEW r \in records', r < bound
                     PROVE  r \in records
          BY <3>1
        <5>1. r # tail
          BY <2>0
        <5>2. QED
          BY <3>1, <5>1
      <4>2. seenTail' = seenTail /\ nextRequest' = nextRequest
            /\ pageNext' = pageNext /\ saved' = saved
        BY <3>1
      <4>3. /\ seenTail <= tail
            /\ nextRequest # None => nextRequest <= tail
            /\ pageNext # None => pageNext <= tail
            /\ saved # None => saved <= tail
        BY DEF IInv, WithinLog
      <4>4. Passed(nextRequest)' = Passed(nextRequest)
        BY <2>0, <4>1, <4>2, <4>3 DEF Passed
      <4>5. Passed(pageNext)' = Passed(pageNext)
        BY <2>0, <4>1, <4>2, <4>3 DEF Passed
      <4>6. Passed(saved)' = Passed(saved)
        BY <2>0, <4>1, <4>2, <4>3 DEF Passed
      <4>7. QED
        BY <4>4, <4>5, <4>6
    <3>4. PageCovers'
      BY <3>1, <3>3 DEF IInv, PageCovers
    <3>5. NothingSkipped'
      BY <3>1, <3>3 DEF IInv, NothingSkipped
    <3>6. ControlState' /\ InLockstep'
      BY <3>1 DEF IInv, ControlState, InLockstep
    <3>7. QED
      BY <3>2, <3>4, <3>5, <3>6 DEF IInv
  <2>2. CASE Close
    BY <2>2 DEF Close, IInv, WithinLog, ControlState, InLockstep, PageCovers, NothingSkipped, Passed
  <2>3. CASE NextOfPage
    <3>1. /\ UNCHANGED << mode, service, generator, pageRequest, pageNext, pc, saved, seenTail >>
          /\ pc = "idle" /\ page # {} /\ Yield(page, pageNext)
      BY <2>3 DEF NextOfPage
    <3>2. /\ page \subseteq Passed(pageNext)
          /\ Passed(pageNext) \subseteq handed \cup page
          /\ Passed(nextRequest) \subseteq handed /\ Passed(saved) \subseteq handed
          /\ pageNext # None => pageNext <= tail
          /\ nextRequest # None /\ genRequest = pageNext /\ ~ genFinished
          /\ operation = None /\ saved # None
      BY <3>1 DEF IInv, PageCovers, NothingSkipped, WithinLog, ControlState
    <3>3. /\ pageNext \in Request
          /\ page \in SUBSET records /\ Passed(pageNext) \in SUBSET records
          /\ \A r \in page : pageNext # None => r < pageNext
          /\ \A r \in Passed(pageNext) : pageNext # None => r < pageNext
      BY <3>2 DEF IInv, TypeOK, Passed
    <3>4. \A r \in records : (\E q \in page : r < q) => r \in Passed(pageNext)
      BY <2>0, <3>2 DEF Passed
    <3>5. /\ page' \subseteq page
          /\ Passed(pageNext) \subseteq handed' \cup page'
          /\ handed \subseteq handed'
          /\ page' = {} => nextRequest' = pageNext
          /\ page' # {} =>
               /\ nextRequest' # None
               /\ nextRequest' <= tail
               /\ \A r \in records : r < nextRequest' => r \in handed'
      BY <3>1, <3>2, <3>3, <3>4, YieldKeeps DEF IInv
    <3>6. Passed(pageNext)' = Passed(pageNext) /\ Passed(saved)' = Passed(saved)
      BY <3>1 DEF Passed
    <3>7. WithinLog'
      BY <3>1, <3>2, <3>5 DEF IInv, WithinLog
    <3>8. ControlState' /\ InLockstep'
      BY <3>1, <3>2, <3>5 DEF ControlState, InLockstep
    <3>9. PageCovers'
      BY <3>2, <3>5, <3>6 DEF PageCovers, Passed
    <3>10. Passed(nextRequest)' \subseteq handed'
      <4>1. CASE page' = {}
        BY <3>1, <3>5, <3>6, <4>1 DEF Passed
      <4>2. CASE page' # {}
        BY <3>1, <3>5, <4>2 DEF Passed
      <4>3. QED
        BY <4>1, <4>2
    <3>11. NothingSkipped'
      BY <3>2, <3>5, <3>6, <3>10 DEF NothingSkipped
    <3>12. QED
      BY <3>7, <3>8, <3>9, <3>11 DEF IInv
  <2>4. CASE ReadPage
    <3>1. QED
      BY <2>4 DEF ReadPage, IInv, WithinLog, ControlState, InLockstep, PageCovers, NothingSkipped, Passed
  <2>5. CASE Stop
    BY <2>5 DEF Stop, IInv, WithinLog, ControlState, InLockstep, PageCovers, NothingSkipped, Passed
  <2>6. CASE PageArrives
    <3>0. /\ pc = "reading" /\ operation' = None /\ seenTail' = tail
          /\ UNCHANGED << mode, service, genFinished, pageRequest, saved, faults >>
      BY <2>6 DEF PageArrives
    <3>1. /\ operation = pageRequest /\ nextRequest = pageRequest /\ ~ genFinished
          /\ pageRequest \in Position /\ pageRequest # None /\ saved # None
          /\ Passed(nextRequest) \subseteq handed /\ Passed(saved) \subseteq handed
      BY <3>0, OffsetAssumption, NoneAssumption
         DEF IInv, TypeOK, ControlState, NothingSkipped, Position
    <3>2. PICK next \in Position, done \in BOOLEAN :
            /\ Answer(pageRequest, next, done)
            /\ genRequest' = NextReadRequest(pageRequest, Between(pageRequest, next), next, done)
            /\ pageNext' = NextReadRequest(pageRequest, Between(pageRequest, next), next, done)
            /\ IF Between(pageRequest, next) = {}
               THEN /\ nextRequest' = pageNext'
                    /\ page' = {}
                    /\ pc' = "loop"
                    /\ UNCHANGED << delivered, handed >>
               ELSE /\ Yield(Between(pageRequest, next), pageNext')
                    /\ pc' = "idle"
      BY <2>6, <3>1 DEF PageArrives
    <3> DEFINE items == Between(pageRequest, next)
               covered == { r \in records : r < next }
    <3>3. /\ pageNext' \in {None, next} /\ (pageNext' = None => next = tail)
          /\ next <= tail /\ next \in Nat /\ next # None
          /\ items \subseteq covered
          /\ covered \subseteq { r \in records : r < pageRequest } \cup items
      BY <3>1, <3>2, PagePasses, OffsetAssumption, NoneAssumption DEF IInv, Position
    <3>4. { r \in records : r < pageRequest } \subseteq handed
      BY <3>1 DEF Passed
    <3>5. covered \subseteq handed \cup items
      BY <3>3, <3>4
    <3>6. Passed(pageNext)' = covered
      <4>1. \A r \in records : r < tail
        BY DEF IInv, WithinLog
      <4>2. QED
        BY <3>0, <3>3, <4>1 DEF Passed
    <3>7. Passed(saved)' = Passed(saved)
      BY <3>0, <3>1 DEF Passed
    <3>8. genRequest' = pageNext'
      BY <3>2
    <3>9. CASE items = {}
      <4>1. nextRequest' = pageNext' /\ page' = {} /\ pc' = "loop" /\ handed' = handed
        BY <3>2, <3>9
      <4>2. WithinLog'
        BY <2>0, <3>0, <3>3, <4>1 DEF IInv, WithinLog
      <4>3. ControlState' /\ InLockstep' /\ PageCovers'
        BY <3>0, <3>1, <3>8, <4>1 DEF ControlState, InLockstep, PageCovers
      <4>4. Passed(nextRequest)' \subseteq handed'
        BY <3>5, <3>6, <3>9, <4>1 DEF Passed
      <4>5. NothingSkipped'
        BY <3>1, <3>7, <4>1, <4>4 DEF NothingSkipped
      <4>6. QED
        BY <4>2, <4>3, <4>5 DEF IInv
    <3>10. CASE items # {}
      <4>1. Yield(items, pageNext') /\ pc' = "idle"
        BY <3>2, <3>10
      <4>2. /\ items \in SUBSET records /\ covered \in SUBSET records
            /\ pageNext' \in Request
            /\ pageNext' # None => pageNext' <= tail /\ \A r \in items : r < pageNext'
            /\ \A r \in covered : pageNext' # None => r < pageNext'
        BY <3>2, <3>3 DEF Request
      <4>3. \A r \in records : (\E q \in items : r < q) => r \in covered
        <5>1. \A q \in items : q \in Nat /\ q < next
          <6> HIDE DEF items
          <6>1. QED
            BY <2>0, <3>3
        <5> HIDE DEF items
        <5>2. QED
          BY <2>0, <3>3, <5>1
      <4>4. /\ page' \subseteq items
            /\ covered \subseteq handed' \cup page'
            /\ handed \subseteq handed'
            /\ page' = {} => nextRequest' = pageNext'
            /\ page' # {} =>
                 /\ nextRequest' # None
                 /\ nextRequest' <= tail
                 /\ \A r \in records : r < nextRequest' => r \in handed'
        <5> HIDE DEF items, covered
        <5>1. QED
          BY <3>1, <3>5, <4>1, <4>2, <4>3, YieldKeeps DEF IInv
      <4>5. WithinLog'
        BY <2>0, <3>0, <3>3, <4>4 DEF IInv, WithinLog
      <4>6. ControlState' /\ InLockstep'
        BY <3>0, <3>1, <3>8, <4>1, <4>4 DEF ControlState, InLockstep
      <4>7. PageCovers'
        BY <3>3, <3>6, <4>4 DEF PageCovers, Passed
      <4>8. Passed(nextRequest)' \subseteq handed'
        <5>1. CASE page' = {}
          BY <3>6, <4>4, <5>1 DEF Passed
        <5>2. CASE page' # {}
          BY <3>0, <4>4, <5>2 DEF Passed
        <5>3. QED
          BY <5>1, <5>2
      <4>9. NothingSkipped'
        BY <3>1, <3>7, <4>4, <4>8 DEF NothingSkipped
      <4>10. QED
        BY <4>5, <4>6, <4>7, <4>9 DEF IInv
    <3>11. QED
      BY <3>9, <3>10
  <2>7. CASE ReadFails
    BY <2>7 DEF ReadFails, IInv, WithinLog, ControlState, InLockstep, PageCovers, NothingSkipped, Passed
  <2>8. CASE Save
    BY <2>8 DEF Save, IInv, WithinLog, ControlState, InLockstep, PageCovers, NothingSkipped, Passed
  <2>9. CASE Crash
    <3>1. /\ saved # None /\ StartIteration(saved)
          /\ UNCHANGED << mode, service, handed, saved, seenTail >>
      BY <2>9 DEF Crash
    <3>2. QED
      BY <3>1, IterationStarts DEF IInv, WithinLog, NothingSkipped
  <2>10. CASE StartAgain
    <3>1. /\ nextRequest # None /\ StartIteration(nextRequest)
          /\ UNCHANGED << mode, service, handed, saved, seenTail >>
      BY <2>10 DEF StartAgain
    <3>2. QED
      BY <3>1, IterationStarts DEF IInv, WithinLog, NothingSkipped
  <2>11. CASE UNCHANGED vars
    BY <2>11 DEF vars, IInv, WithinLog, ControlState, InLockstep, PageCovers, NothingSkipped, Passed
  <2>12. QED
    BY <2>1, <2>2, <2>3, <2>4, <2>5, <2>6, <2>7, <2>8, <2>9, <2>10, <2>11 DEF Next, Iterate
<1>3. QED
  BY <1>1, <1>2, Typing, PTL DEF Spec

(* Resuming from next_request, or from any request the consumer saved,     *)
(* skips no record: for every page size and any failures and crashes.      *)
THEOREM NoRecordSkipped == Spec => []NothingSkipped
<1>1. IInv => NothingSkipped
  BY DEF IInv
<1>2. QED
  BY <1>1, Invariance, PTL

(* The iterator gives the helpers the request of the page it got, although *)
(* the page generator computes its requests on its own.                    *)
THEOREM Lockstep == Spec => []InLockstep
<1>1. IInv => InLockstep
  BY DEF IInv
<1>2. QED
  BY <1>1, Invariance, PTL

-----------------------------------------------------------------------------
(* The order of what is yielded.                                           *)

(* What has been yielded and is read again from next_request.              *)
Repeated == { r \in delivered : r >= nextRequest }

(* The page lies after everything yielded and not before next_request,     *)
(* which has not fallen behind what was saved; what is read again belongs  *)
(* to one page with the rest of it.                                        *)
Ordered ==
  /\ NeverYieldsTwice /\ ResumesAfterTheLastItem
  /\ \A r \in page : nextRequest <= r
  /\ saved # None /\ nextRequest # None => saved <= nextRequest
  /\ page # {} => Cardinality(Repeated \cup page) <= PageSize

(* Part of a page is no larger than the page.                              *)
LEMMA PartOfPage ==
  ASSUME NEW whole \in SUBSET Offset, NEW part \in SUBSET whole
  PROVE  /\ Cardinality(part) \in Nat /\ Cardinality(whole) \in Nat
         /\ Cardinality(part) <= Cardinality(whole)
         /\ Cardinality(part) = Cardinality(whole) => part = whole
<1>1. IsFiniteSet(Offset)
  BY OffsetAssumption, FS_Interval DEF Offset
<1>2. IsFiniteSet(whole)
  BY <1>1, FS_Subset
<1>3. IsFiniteSet(part)
  BY <1>2, FS_Subset
<1>4. QED
  BY <1>2, <1>3, FS_Subset, FS_CardinalityType

(* Yielding the first item of a page keeps the order, wherever the page    *)
(* comes from.                                                             *)
LEMMA YieldOrders ==
  ASSUME TypeOK, TypeOK', nextRequest # None,
         NEW items \in SUBSET Offset, NEW next \in Request, Yield(items, next),
         pageNext' = next,
         \A d \in delivered, r \in items : d < r,
         \A r \in items : nextRequest <= r /\ (next # None => r < next),
         resume => \A d \in delivered : d < nextRequest,
         saved # None => saved <= nextRequest,
         Cardinality(Repeated \cup items) <= PageSize,
         UNCHANGED << resume, saved >>
  PROVE  Ordered'
<1>1. PICK item \in items :
        /\ \A other \in items : item <= other
        /\ page' = items \ {item}
        /\ nextRequest' = NextRequestAfter(item, items \ {item}, next)
        /\ delivered' = delivered \cup {item}
  BY DEF Yield
<1>2. /\ nextRequest \in Nat /\ items \subseteq Nat /\ delivered \subseteq Nat
      /\ next # None => next \in Nat
      /\ saved # None => saved \in Nat
  BY OffsetAssumption DEF TypeOK, Request, Position, Offset
<1>3. /\ page' # {} => nextRequest' = IF resume THEN item + 1 ELSE nextRequest
      /\ page' = {} => nextRequest' = next
  BY <1>1 DEF NextRequestAfter, ResumeReadRequest
<1>4. \A r \in items \ {item} : item < r
  BY <1>1, <1>2
<1>5. \A d \in delivered' : d <= item /\ (next # None => d < next)
  BY <1>1, <1>2
<1>6. NeverYieldsTwice'
  BY <1>1, <1>2, <1>3, <1>4, <1>5 DEF NeverYieldsTwice
<1>7. ResumesAfterTheLastItem'
  BY <1>1, <1>2, <1>3, <1>5 DEF ResumesAfterTheLastItem
<1>8. \A r \in page' : nextRequest' <= r
  BY <1>1, <1>2, <1>3, <1>4
<1>9. saved' # None /\ nextRequest' # None => saved' <= nextRequest'
  BY <1>1, <1>2, <1>3
<1>10. ASSUME page' # {} PROVE Cardinality(Repeated' \cup page') <= PageSize
  <2>1. Repeated \cup items \in SUBSET Offset
    BY DEF Repeated, TypeOK
  <2>2. nextRequest <= nextRequest' /\ nextRequest' \in Nat
    BY <1>1, <1>2, <1>3, <1>10
  <2>3. Repeated' \subseteq Repeated \cup {item}
    <3>1. \A d \in Nat : d >= nextRequest' => d >= nextRequest
      BY <1>2, <2>2
    <3>2. \A d \in delivered' : d \in Nat /\ d \in delivered \cup {item}
      BY <1>1, <1>2
    <3>3. QED
      BY <3>1, <3>2 DEF Repeated
  <2>4. Repeated' \cup page' \in SUBSET (Repeated \cup items)
    BY <1>1, <2>3
  <2>5. QED
    BY <2>1, <2>4, PartOfPage, PageSizeAssumption
<1>11. QED
  BY <1>6, <1>7, <1>8, <1>9, <1>10 DEF Ordered

(* A new iteration has yielded nothing yet.                                *)
LEMMA IterationOrders ==
  ASSUME TypeOK, NEW request, request # None, StartIteration(request),
         UNCHANGED saved, saved # None => saved <= request
  PROVE  Ordered'
BY DEF StartIteration, Ordered, NeverYieldsTwice, ResumesAfterTheLastItem

(* Items come in order in every iteration.                                 *)
THEOREM OrderInvariance == Spec => []Ordered
<1>1. Init => Ordered
  BY DEF Init, Ordered, NeverYieldsTwice, ResumesAfterTheLastItem
<1>2. IInv /\ IInv' /\ Ordered /\ [Next]_vars => Ordered'
  <2> SUFFICES ASSUME IInv, IInv', Ordered, [Next]_vars PROVE Ordered'
    OBVIOUS
  <2> USE DEF mode, service, generator, iterator, consumer, faults
  <2>0. ASSUME UNCHANGED << resume, delivered, page, pageNext, nextRequest, saved >>
        PROVE  Ordered'
    BY <2>0 DEF Ordered, NeverYieldsTwice, ResumesAfterTheLastItem, Repeated
  <2>1. CASE Append \/ Close \/ ReadPage \/ Stop \/ ReadFails \/ UNCHANGED vars
    BY <2>0, <2>1 DEF Append, Close, ReadPage, Stop, ReadFails, vars
  <2>2. CASE NextOfPage
    <3>1. /\ UNCHANGED << mode, pageNext, saved >>
          /\ page # {} /\ Yield(page, pageNext)
      BY <2>2 DEF NextOfPage
    <3>2. nextRequest # None /\ page \in SUBSET Offset /\ pageNext \in Request
      BY <3>1 DEF IInv, ControlState, TypeOK
    <3>3. \A r \in page : nextRequest <= r /\ (pageNext # None => r < pageNext)
      BY <3>1 DEF Ordered, IInv, PageCovers, Passed
    <3>4. QED
      BY <3>1, <3>2, <3>3, YieldOrders
         DEF Ordered, NeverYieldsTwice, ResumesAfterTheLastItem, IInv
  <2>3. CASE PageArrives
    <3>0. /\ pc = "reading" /\ UNCHANGED << mode, saved >>
      BY <2>3 DEF PageArrives
    <3>1. /\ operation = pageRequest /\ nextRequest = pageRequest
          /\ pageRequest \in Position /\ pageRequest # None /\ page = {}
      BY <3>0, OffsetAssumption, NoneAssumption DEF IInv, TypeOK, ControlState, Position
    <3>2. PICK next \in Position, done \in BOOLEAN :
            /\ Answer(pageRequest, next, done)
            /\ pageNext' = NextReadRequest(pageRequest, Between(pageRequest, next), next, done)
            /\ IF Between(pageRequest, next) = {}
               THEN /\ nextRequest' = pageNext'
                    /\ page' = {}
                    /\ UNCHANGED << delivered, handed >>
               ELSE Yield(Between(pageRequest, next), pageNext')
      BY <2>3, <3>1 DEF PageArrives
    <3>3. /\ pageNext' \in {None, next} /\ next \in Nat /\ pageRequest \in Nat
          /\ pageRequest <= next /\ next # None
          /\ Cardinality(Between(pageRequest, next)) <= PageSize
      BY <3>1, <3>2, OffsetAssumption, NoneAssumption DEF NextReadRequest, Answer, Position
    <3>4. delivered \subseteq Nat /\ (saved # None => saved \in Nat)
      BY OffsetAssumption DEF IInv, TypeOK, Offset, Position, Request
    <3>5. \A d \in delivered : d < pageRequest
      BY <3>1 DEF Ordered, NeverYieldsTwice
    <3>6. CASE Between(pageRequest, next) = {}
      <4>1. nextRequest' = pageNext' /\ page' = {} /\ delivered' = delivered
        BY <3>2, <3>6
      <4>2. nextRequest' # None => nextRequest' = next /\ \A d \in delivered : d < nextRequest'
        BY <3>3, <3>4, <3>5, <4>1
      <4>3. saved' # None /\ nextRequest' # None => saved' <= nextRequest'
        BY <3>0, <3>1, <3>3, <3>4, <4>2 DEF Ordered
      <4>4. QED
        BY <4>1, <4>2, <4>3 DEF Ordered, NeverYieldsTwice, ResumesAfterTheLastItem
    <3>7. CASE Between(pageRequest, next) # {}
      <4> DEFINE items == Between(pageRequest, next)
      <4>1. Yield(items, pageNext')
        BY <3>2, <3>7
      <4>2. items \in SUBSET Offset /\ \A r \in items : r \in Nat /\ pageRequest <= r /\ r < next
        <5>1. records \subseteq Offset /\ Offset \subseteq Nat
          BY OffsetAssumption DEF IInv, TypeOK, Offset
        <5>2. QED
          BY <5>1 DEF Between
      <4>3. pageNext' \in Request
        BY <3>2, <3>3 DEF Request
      <4>4. Repeated \cup items = items
        <5>1. \A d \in delivered : d \in Nat /\ d < nextRequest
          BY <3>1, <3>4, <3>5
        <5>2. \A d \in delivered : ~ (d >= nextRequest)
          BY <3>1, <3>3, <5>1
        <5>3. Repeated = {}
          BY <5>2 DEF Repeated
        <5>4. QED
          BY <5>3
      <4>5. /\ \A d \in delivered, r \in items : d < r
            /\ \A r \in items : nextRequest <= r /\ (pageNext' # None => r < pageNext')
        <5> HIDE DEF items
        <5>1. QED
          BY <3>1, <3>3, <3>4, <3>5, <4>2
      <4>6. saved # None => saved <= nextRequest
        BY <3>1 DEF Ordered
      <4>7. Cardinality(Repeated \cup items) <= PageSize
        BY <3>3, <4>4
      <4> HIDE DEF items
      <4>8. QED
        BY <3>0, <3>1, <3>5, <4>1, <4>2, <4>3, <4>5, <4>6, <4>7, YieldOrders DEF IInv
    <3>8. QED
      BY <3>6, <3>7
  <2>4. CASE Save
    <3>1. /\ saved' = nextRequest
          /\ UNCHANGED << resume, delivered, page, pageNext, nextRequest >>
      BY <2>4 DEF Save
    <3>2. saved' # None => saved' \in Nat
      BY <3>1, OffsetAssumption DEF IInv, TypeOK, Position, Request
    <3>3. QED
      BY <3>1, <3>2 DEF Ordered, NeverYieldsTwice, ResumesAfterTheLastItem, Repeated
  <2>5. CASE Crash
    <3>1. saved # None /\ StartIteration(saved) /\ UNCHANGED saved
      BY <2>5 DEF Crash
    <3>2. saved \in Nat
      BY <3>1, OffsetAssumption DEF IInv, TypeOK, Position, Request
    <3>3. saved <= saved
      BY <3>2
    <3>4. QED
      BY <3>1, <3>3, IterationOrders DEF IInv
  <2>6. CASE StartAgain
    <3>1. nextRequest # None /\ StartIteration(nextRequest) /\ UNCHANGED saved
      BY <2>6 DEF StartAgain
    <3>2. QED
      BY <3>1, IterationOrders DEF IInv, Ordered
  <2>7. QED
    BY <2>1, <2>2, <2>3, <2>4, <2>5, <2>6 DEF Next, Iterate
<1>3. QED
  BY <1>1, <1>2, Invariance, PTL DEF Spec

(* No iteration yields an item twice, with a resume helper or without.     *)
THEOREM NoItemTwice == Spec => []NeverYieldsTwice
<1>1. Ordered => NeverYieldsTwice
  BY DEF Ordered
<1>2. QED
  BY <1>1, OrderInvariance, PTL

(* With a resume helper no item that was yielded is read again.            *)
THEOREM ResumesExactly == Spec => []ResumesAfterTheLastItem
<1>1. Ordered => ResumesAfterTheLastItem
  BY DEF Ordered
<1>2. QED
  BY <1>1, OrderInvariance, PTL

(* Without one, the items that are read again are fewer than a page: the   *)
(* first item of the rest of the page has not been yielded.                *)
THEOREM RepeatsWithinAPage == Spec => []RepeatsOnePage
<1>1. IInv /\ Ordered => RepeatsOnePage
  <2> SUFFICES ASSUME IInv, Ordered, nextRequest # None
               PROVE  Cardinality(Repeated) < PageSize
    BY DEF RepeatsOnePage, Repeated
  <2>1. /\ delivered \subseteq Nat /\ nextRequest \in Nat /\ page \subseteq Nat
        /\ delivered \subseteq Offset /\ page \subseteq Offset
    BY OffsetAssumption DEF IInv, TypeOK, Offset, Position, Request
  <2>2. CASE page = {}
    <3>1. \A d \in delivered : d \in Nat /\ d < nextRequest
      BY <2>1, <2>2 DEF Ordered, NeverYieldsTwice
    <3>2. \A d \in delivered : ~ (d >= nextRequest)
      BY <2>1, <3>1
    <3>3. Repeated = {}
      BY <3>2 DEF Repeated
    <3>4. QED
      BY <3>3, FS_EmptySet, PageSizeAssumption
  <2>3. CASE page # {}
    <3>1. Repeated \cup page \in SUBSET Offset /\ Repeated \in SUBSET (Repeated \cup page)
      BY <2>1 DEF Repeated
    <3>2. Repeated # Repeated \cup page
      <4>1. \A r \in page : r \notin delivered
        BY <2>1 DEF Ordered, NeverYieldsTwice
      <4>2. QED
        BY <2>3, <4>1 DEF Repeated
    <3>3. Cardinality(Repeated \cup page) <= PageSize
      BY <2>3 DEF Ordered
    <3>4. QED
      BY <3>1, <3>2, <3>3, PartOfPage, PageSizeAssumption
  <2>4. QED
    BY <2>2, <2>3
<1>2. QED
  BY <1>1, Invariance, OrderInvariance, PTL

(* A later save never names an earlier record.                             *)
THEOREM SavesMoveForward == Spec => SavedMovesForward
<1>1. IInv /\ Ordered /\ [Next]_vars =>
        [ saved' # saved =>
            /\ saved # None
            /\ saved' # None => saved < saved' ]_saved
  <2> SUFFICES ASSUME IInv, Ordered, [Next]_vars, saved' # saved
               PROVE  saved # None /\ (saved' # None => saved < saved')
    OBVIOUS
  <2> USE DEF mode, service, generator, iterator, consumer, faults
  <2>1. saved' = nextRequest
    BY DEF Next, Iterate, Append, Close, NextOfPage, ReadPage, Stop, PageArrives, ReadFails,
           Save, Crash, StartAgain, vars
  <2>2. saved # None
    BY <2>1 DEF IInv, ControlState
  <2>3. saved \in Nat /\ (nextRequest # None => nextRequest \in Nat)
    BY <2>2, OffsetAssumption DEF IInv, TypeOK, Position, Request
  <2>4. QED
    BY <2>1, <2>2, <2>3 DEF Ordered
<1>2. QED
  BY <1>1, Invariance, OrderInvariance, PTL DEF Spec, SavedMovesForward

-----------------------------------------------------------------------------
(* The refinement.                                                         *)

(* The position of next_request is one from which resuming loses nothing.  *)
LEMMA ResumesSafely ==
  ASSUME IInv'
  PROVE  PositionOf(nextRequest)' \in { position \in 1 .. tail' :
            { r \in records' : r < position } \subseteq handed' }
<1>1. PositionOf(nextRequest)' \in 1 .. tail'
  <2>1. nextRequest' \in Position \cup {None} /\ seenTail' \in Position /\ tail' \in Position
    BY DEF IInv, TypeOK, Request
  <2>2. (nextRequest' # None => nextRequest' <= tail') /\ seenTail' <= tail'
    BY DEF IInv, WithinLog
  <2>3. QED
    BY <2>1, <2>2, OffsetAssumption DEF PositionOf, Position
<1>2. { r \in records' : r < PositionOf(nextRequest)' } = Passed(nextRequest)'
  BY DEF PositionOf, Passed
<1>3. Passed(nextRequest)' \subseteq handed'
  BY DEF IInv, NothingSkipped
<1>4. QED
  BY <1>1, <1>2, <1>3

(* Yielding the first item of a page is an item handed out in order.       *)
LEMMA YieldHands ==
  ASSUME IInv', NEW items \in SUBSET records, NEW next, Yield(items, next),
         \A r \in records : (\E q \in items : r < q) => r \in handed \cup items,
         records \subseteq Nat,
         records' = records, tail' = tail, PositionOf(saved)' = PositionOf(saved)
  PROVE  Delivery!Hand
<1>1. PICK item \in items :
        /\ \A other \in items : item <= other
        /\ handed' = handed \cup {item}
  BY DEF Yield
<1>2. Delivery!Before(item) \subseteq handed
  <2> SUFFICES ASSUME NEW r \in records, r < item PROVE r \in handed
    BY DEF Delivery!Before
  <2>1. r \in Nat /\ item \in Nat /\ ~ (item <= r)
    OBVIOUS
  <2>2. r \in handed \cup items /\ r \notin items
    BY <1>1, <2>1
  <2>3. QED
    BY <2>2
<1>3. PositionOf(nextRequest)' \in Delivery!SafeAfter(handed \cup {item})
  <2>1. PositionOf(nextRequest)' \in { position \in 1 .. tail :
           { r \in records : r < position } \subseteq handed \cup {item} }
    BY <1>1, ResumesSafely
  <2>2. QED
    BY <2>1 DEF Delivery!SafeAfter, Delivery!Before
<1>4. QED
  BY <1>1, <1>2, <1>3 DEF Delivery!Hand

(* Pages, page reads, failures, crashes and new iterations implement the   *)
(* at-least-once, gap-free delivery that the guide promises.               *)
THEOREM Implementation == Spec => ImplementsItemDelivery
<1>1. Init => Delivery!Init
  BY NoneAssumption DEF Init, Delivery!Init, PositionOf
<1>2. IInv /\ IInv' /\ [Next]_vars => [Delivery!Next]_(Delivery!vars)
  <2> SUFFICES ASSUME IInv, IInv', [Next]_vars
               PROVE  Delivery!Next \/ UNCHANGED Delivery!vars
    OBVIOUS
  <2> USE DEF mode, service, generator, iterator, consumer, faults, Delivery!vars
  <2>0. records \subseteq Nat
    BY OffsetAssumption DEF IInv, TypeOK, Offset
  <2>1. CASE Append
    BY <2>1 DEF Append, Delivery!Append, Delivery!Next, PositionOf
  <2>2. CASE Close
    BY <2>2 DEF Close, PositionOf
  <2>3. CASE NextOfPage
    <3>1. /\ UNCHANGED << service, saved, seenTail >>
          /\ page # {} /\ Yield(page, pageNext)
      BY <2>3 DEF NextOfPage
    <3>2. page \subseteq Passed(pageNext) /\ Passed(pageNext) \subseteq handed \cup page
      BY <3>1 DEF IInv, PageCovers
    <3>3. /\ seenTail \in Nat /\ (pageNext # None => pageNext \in Nat)
          /\ page \in SUBSET records
      BY <3>2, OffsetAssumption DEF IInv, TypeOK, Position, Request, Passed
    <3>4. \A r \in records : (\E q \in page : r < q) => r \in handed \cup page
      BY <2>0, <3>2, <3>3 DEF Passed
    <3>5. PositionOf(saved)' = PositionOf(saved)
      BY <3>1 DEF PositionOf
    <3>6. Delivery!Hand
      BY <2>0, <3>1, <3>3, <3>4, <3>5, YieldHands
    <3>7. QED
      BY <3>6 DEF Delivery!Next
  <2>4. CASE ReadPage
    BY <2>4 DEF ReadPage, PositionOf
  <2>5. CASE Stop
    BY <2>5 DEF Stop, PositionOf
  <2>6. CASE PageArrives
    <3>1. /\ UNCHANGED << service, saved >> /\ saved # None
          /\ operation \in Nat
          /\ { r \in records : r < operation } \subseteq handed
      <4>1. pc = "reading" /\ UNCHANGED << service, saved >>
        BY <2>6 DEF PageArrives
      <4>2. operation = nextRequest /\ nextRequest # None /\ nextRequest \in Nat
        BY <4>1, OffsetAssumption, NoneAssumption
           DEF IInv, ControlState, TypeOK, Position, Request
      <4>3. QED
        BY <4>1, <4>2 DEF IInv, ControlState, NothingSkipped, Passed
    <3>2. PICK next \in Position :
            IF Between(operation, next) = {}
            THEN handed' = handed
            ELSE Yield(Between(operation, next), pageNext')
      BY <2>6 DEF PageArrives
    <3>3. PositionOf(saved)' = PositionOf(saved)
      BY <3>1 DEF PositionOf
    <3>4. CASE Between(operation, next) = {}
      <4>1. handed' = handed
        BY <3>2, <3>4
      <4>2. Delivery!Advance
        BY <3>1, <3>3, <4>1, ResumesSafely
           DEF Delivery!Advance, Delivery!SafeAfter, Delivery!Before
      <4>3. QED
        BY <4>2 DEF Delivery!Next
    <3>5. CASE Between(operation, next) # {}
      <4>1. Yield(Between(operation, next), pageNext')
        BY <3>2, <3>5
      <4>2. Between(operation, next) \in SUBSET records /\ next \in Nat
        BY OffsetAssumption DEF Between, Position
      <4>3. \A r \in records : (\E q \in Between(operation, next) : r < q) =>
               r \in handed \cup Between(operation, next)
        BY <2>0, <3>1, <4>2 DEF Between
      <4>4. Delivery!Hand
        BY <2>0, <3>1, <3>3, <4>1, <4>2, <4>3, YieldHands
      <4>5. QED
        BY <4>4 DEF Delivery!Next
    <3>6. QED
      BY <3>4, <3>5
  <2>7. CASE ReadFails
    BY <2>7 DEF ReadFails, PositionOf
  <2>8. CASE Save
    BY <2>8 DEF Save, Delivery!Save, Delivery!Next, PositionOf
  <2>9. CASE Crash
    BY <2>9 DEF Crash, StartIteration, Delivery!StartAgain, Delivery!Next, PositionOf
  <2>10. CASE StartAgain
    BY <2>10 DEF StartAgain, StartIteration, PositionOf
  <2>11. CASE UNCHANGED vars
    BY <2>11 DEF vars, PositionOf
  <2>12. QED
    BY <2>1, <2>2, <2>3, <2>4, <2>5, <2>6, <2>7, <2>8, <2>9, <2>10, <2>11 DEF Next, Iterate
<1>3. QED
  BY <1>1, <1>2, Invariance, PTL DEF Spec, ImplementsItemDelivery, Delivery!Spec
=============================================================================
