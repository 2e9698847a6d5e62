---------------------------- MODULE PollIterator ----------------------------
(***************************************************************************)
(* The item iterator that the Python client backend generates for a        *)
(* @nexus.poll operation (PYTHON_POLL_ITERATOR in                          *)
(* src/src/generator/python.rs), the page generator it reads from          *)
(* (render_client_poll_loop), a service that keeps records by offset, and  *)
(* a consumer that saves `next_request`, fails, and starts again from it.  *)
(*                                                                         *)
(* A request is the offset it reads from.  The iterator and the page       *)
(* generator hold their requests apart: the page helper runs in both.      *)
(***************************************************************************)
EXTENDS Naturals, FiniteSets

CONSTANTS
  MaxOffset,     (* Offsets the service may write: bounds the log.         *)
  PageSize,      (* Most records in a page.                                *)
  MaxFailures,   (* Reads that fail or are cancelled.                      *)
  MaxCrashes,    (* Consumer crashes.                                      *)
  None           (* Python's None, as a request.                           *)

ASSUME OffsetAssumption == MaxOffset \in Nat
ASSUME PageSizeAssumption == PageSize \in Nat \ {0}
ASSUME BoundsAssumption == MaxFailures \in Nat /\ MaxCrashes \in Nat
ASSUME NoneAssumption == None \notin Nat

Offset == 1 .. MaxOffset
Position == 1 .. MaxOffset + 1
Request == Position \cup {None}

VARIABLES
  (* How the operation is polled: does a read wait for a record, and has   *)
  (* the directive a python-resume helper?                                 *)
  wait, resume,
  (* The service: its records, the next offset it writes, is it complete?  *)
  records, tail, closed,
  (* The page generator: the request of its next operation, the operation  *)
  (* in flight, and whether an exception has finished it.                  *)
  genRequest, operation, genFinished,
  (* The iterator: its public next_request and its private fields.         *)
  nextRequest, pageRequest, pageNext, page,
  pc,            (* "idle", "loop", "reading" or "ended".                  *)
  (* The consumer: items this iterator yielded, items any iterator         *)
  (* yielded, the saved request, and the tail at the last answer.          *)
  delivered, handed, saved, seenTail,
  failures, crashes

mode == << wait, resume >>
service == << records, tail, closed >>
generator == << genRequest, operation, genFinished >>
iterator == << nextRequest, pageRequest, pageNext, page, pc >>
consumer == << delivered, handed, saved, seenTail >>
faults == << failures, crashes >>
vars == << mode, service, generator, iterator, consumer, faults >>

-----------------------------------------------------------------------------
(* The service.                                                            *)

(* A new record, or an offset that no reader will see.                     *)
Append ==
  /\ ~ closed
  /\ tail \in Offset
  /\ tail' = tail + 1
  /\ records' \in { records, records \cup {tail} }
  /\ UNCHANGED << mode, closed, generator, iterator, consumer, faults >>

Close ==
  /\ ~ closed
  /\ closed' = TRUE
  /\ UNCHANGED << mode, records, tail, generator, iterator, consumer, faults >>

(* The records in [from, next).                                            *)
Between(from, next) == { r \in records : from <= r /\ r < next }

(* An answer to a read from an offset: the records up to next_offset, at   *)
(* most a page of them; an empty page makes progress or is at the tail; a  *)
(* complete, drained service says done.                                    *)
Answer(from, next, done) ==
  /\ from <= next /\ next <= tail
  /\ Cardinality(Between(from, next)) <= PageSize
  /\ Between(from, next) = {} /\ next = from => from = tail
  /\ done => closed /\ next = tail
  /\ closed /\ Between(from, next) = {} /\ next = tail => done

-----------------------------------------------------------------------------
(* The support helpers of the stream sample.                               *)

(* next_read_request: None stops the poll.                                 *)
NextReadRequest(from, items, next, done) ==
  IF done \/ (items = {} /\ ~ wait /\ next = from) THEN None ELSE next

(* Faulty variant: the item is read again.                                 *)
ResumeAtItem(item) == item

(* resume_read_request: past the item's offset.                            *)
ResumeReadRequest(item) == item + 1

-----------------------------------------------------------------------------
(* The iterator and the page generator.                                    *)

(* Faulty variant: the next page, whatever is left of this one.            *)
NextRequestIgnoresRest(item, rest, next) ==
  IF resume THEN ResumeReadRequest(item) ELSE next

(* Faulty variant: the end of a page is not noticed.                       *)
NextRequestKeepsPage(item, rest, next) ==
  IF resume THEN ResumeReadRequest(item) ELSE nextRequest

(* What next_request becomes when __anext__ yields an item of a page.      *)
NextRequestAfter(item, rest, next) ==
  IF rest = {} THEN next
  ELSE IF resume THEN ResumeReadRequest(item) ELSE nextRequest

(* Faulty variant: the item stays in the page.                             *)
YieldWithoutPop(items, next) ==
  \E item \in items :
    /\ \A other \in items : item <= other
    /\ page' = items
    /\ nextRequest' = NextRequestAfter(item, items \ {item}, next)
    /\ delivered' = delivered \cup {item}
    /\ handed' = handed \cup {item}

(* __anext__ pops the first item of the page and returns it.               *)
Yield(items, next) ==
  \E item \in items :
    /\ \A other \in items : item <= other
    /\ page' = items \ {item}
    /\ nextRequest' = NextRequestAfter(item, items \ {item}, next)
    /\ delivered' = delivered \cup {item}
    /\ handed' = handed \cup {item}

(* __anext__ while the page still has items: no await, one step.           *)
NextOfPage ==
  /\ pc = "idle"
  /\ page # {}
  /\ Yield(page, pageNext)
  /\ UNCHANGED << mode, service, generator, pageRequest, pageNext, pc,
                  saved, seenTail, faults >>

(* Faulty variant: the request given to the helpers is the first one.      *)
ReadPageOfOldRequest ==
  /\ pc \in {"idle", "loop"}
  /\ page = {}
  /\ nextRequest # None
  /\ ~ genFinished
  /\ genRequest # None
  /\ operation' = genRequest
  /\ pc' = "reading"
  /\ UNCHANGED << mode, service, genRequest, genFinished, nextRequest, pageRequest,
                  pageNext, page, consumer, faults >>

(* __anext__ with an empty page: `await self._read(self._page_request)`    *)
(* resumes the page generator, which starts an operation.                  *)
ReadPage ==
  /\ pc \in {"idle", "loop"}
  /\ page = {}
  /\ nextRequest # None
  /\ ~ genFinished
  /\ genRequest # None
  /\ pageRequest' = nextRequest
  /\ operation' = genRequest
  /\ pc' = "reading"
  /\ UNCHANGED << mode, service, genRequest, genFinished, nextRequest, pageNext,
                  page, consumer, faults >>

(* The operation's result arrives.  The generator computes its own next    *)
(* request and yields the page; `read` computes it again from the          *)
(* iterator's request, and __anext__ yields the first item or loops.       *)
PageArrives ==
  /\ pc = "reading"
  /\ \E next \in Position, done \in BOOLEAN :
       LET items == Between(operation, next)
           following == NextReadRequest(pageRequest, items, next, done)
       IN  /\ Answer(operation, next, done)
           /\ genRequest' = NextReadRequest(operation, items, next, done)
           /\ pageNext' = following
           /\ IF items = {}
              THEN /\ nextRequest' = following
                   /\ page' = {}
                   /\ pc' = "loop"
                   /\ UNCHANGED << delivered, handed >>
              ELSE /\ Yield(items, following)
                   /\ pc' = "idle"
  /\ operation' = None
  /\ seenTail' = tail
  /\ UNCHANGED << mode, service, genFinished, pageRequest, saved, faults >>

(* Faulty variant: a failed read forgets where to resume.                  *)
ReadFailsForgetting ==
  /\ pc = "reading"
  /\ failures < MaxFailures
  /\ failures' = failures + 1
  /\ operation' = None
  /\ nextRequest' = None
  /\ genFinished' = TRUE
  /\ pc' = "idle"
  /\ UNCHANGED << mode, service, genRequest, pageRequest, pageNext,
                  page, consumer, crashes >>

(* The operation fails, or the consumer's timeout cancels it: the          *)
(* exception leaves __anext__ and finishes the page generator.             *)
ReadFails ==
  /\ pc = "reading"
  /\ failures < MaxFailures
  /\ failures' = failures + 1
  /\ operation' = None
  /\ genFinished' = TRUE
  /\ pc' = "idle"
  /\ UNCHANGED << mode, service, genRequest, nextRequest, pageRequest, pageNext,
                  page, consumer, crashes >>

(* Faulty variant: the request is taken before it is compared with None.   *)
StopTakesRequest ==
  /\ pc \in {"idle", "loop"}
  /\ page = {}
  /\ nextRequest = None \/ genFinished
  /\ pageRequest' = nextRequest
  /\ pc' = "ended"
  /\ UNCHANGED << mode, service, generator, nextRequest, pageNext, page, consumer,
                  faults >>

(* Faulty variant: `if not self._page` in place of `while`.                *)
StopOnEmptyPage ==
  /\ pc \in {"idle", "loop"}
  /\ page = {}
  /\ nextRequest = None \/ genFinished \/ pc = "loop"
  /\ pageRequest' = IF nextRequest = None THEN pageRequest ELSE nextRequest
  /\ pc' = "ended"
  /\ UNCHANGED << mode, service, generator, nextRequest, pageNext, page, consumer,
                  faults >>

(* StopAsyncIteration: after the last page from __anext__ itself; after a  *)
(* failed read from the finished generator, out of the coroutine `read`.   *)
Stop ==
  /\ pc \in {"idle", "loop"}
  /\ page = {}
  /\ nextRequest = None \/ genFinished
  /\ pageRequest' = IF nextRequest = None THEN pageRequest ELSE nextRequest
  /\ pc' = "ended"
  /\ UNCHANGED << mode, service, generator, nextRequest, pageNext, page, consumer,
                  faults >>

-----------------------------------------------------------------------------
(* The consumer.                                                           *)

(* It keeps next_request, at any time: the attribute is public.            *)
Save ==
  /\ saved # nextRequest
  /\ saved' = nextRequest
  /\ UNCHANGED << mode, service, generator, iterator, delivered, handed, seenTail,
                  faults >>

(* PollIterator.__init__ with a fresh page generator on the same request.  *)
StartIteration(request) ==
  /\ genRequest' = request
  /\ operation' = None
  /\ genFinished' = FALSE
  /\ nextRequest' = request
  /\ pageRequest' = request
  /\ pageNext' = None
  /\ page' = {}
  /\ pc' = "idle"
  /\ delivered' = {}

(* Faulty variant: a new process starts at the beginning.                  *)
CrashRestartsAtBeginning ==
  /\ crashes < MaxCrashes
  /\ saved # None
  /\ crashes' = crashes + 1
  /\ StartIteration(1)
  /\ UNCHANGED << mode, service, handed, saved, seenTail, failures >>

(* A crash loses the iterator; the next process starts from the saved one. *)
Crash ==
  /\ crashes < MaxCrashes
  /\ saved # None
  /\ crashes' = crashes + 1
  /\ StartIteration(saved)
  /\ UNCHANGED << mode, service, handed, saved, seenTail, failures >>

(* After an error the guide has the consumer start a new iteration.        *)
StartAgain ==
  /\ genFinished
  /\ nextRequest # None
  /\ pc \in {"idle", "ended"}
  /\ StartIteration(nextRequest)
  /\ UNCHANGED << mode, service, handed, saved, seenTail, faults >>

-----------------------------------------------------------------------------
Init ==
  /\ wait \in BOOLEAN /\ resume \in BOOLEAN
  /\ records = {} /\ tail = 1 /\ closed = FALSE
  /\ genRequest = 1 /\ operation = None /\ genFinished = FALSE
  /\ nextRequest = 1 /\ pageRequest = 1 /\ pageNext = None /\ page = {}
  /\ pc = "idle"
  /\ delivered = {} /\ handed = {} /\ saved = 1 /\ seenTail = 1
  /\ failures = 0 /\ crashes = 0

Iterate == NextOfPage \/ ReadPage \/ Stop

Next ==
  \/ Append \/ Close
  \/ Iterate \/ PageArrives \/ ReadFails
  \/ Save \/ Crash \/ StartAgain

(* The consumer keeps iterating (`async for`) and starts again after an    *)
(* error, and a read that keeps waiting is answered.  Nothing makes the    *)
(* service write, the consumer save, or anything fail.                     *)
Fairness == WF_vars(Iterate) /\ WF_vars(PageArrives) /\ WF_vars(StartAgain)

Spec == Init /\ [][Next]_vars /\ Fairness

-----------------------------------------------------------------------------
(* Types, and the bounds of the environment's counters.                    *)
TypeOK ==
  /\ wait \in BOOLEAN /\ resume \in BOOLEAN
  /\ records \subseteq Offset /\ tail \in Position /\ closed \in BOOLEAN
  /\ genRequest \in Request /\ operation \in Request /\ genFinished \in BOOLEAN
  /\ nextRequest \in Request /\ pageRequest \in Position /\ pageNext \in Request
  /\ page \subseteq Offset
  /\ pc \in {"idle", "loop", "reading", "ended"}
  /\ delivered \subseteq Offset /\ handed \subseteq Offset
  /\ saved \in Request /\ seenTail \in Position
  /\ failures \in 0 .. MaxFailures /\ crashes \in 0 .. MaxCrashes

(* Every record a request has passed was handed to the consumer.  None     *)
(* passes all the service had when it gave its last answer.                *)
Passed(request) ==
  { r \in records : IF request = None THEN r < seenTail ELSE r < request }

(* Resuming never skips a record: whatever next_request says now, and      *)
(* whatever the consumer saved earlier, everything before it was handed    *)
(* out, through empty pages, failed reads, crashes and new iterations.     *)
NothingSkipped ==
  /\ Passed(nextRequest) \subseteq handed
  /\ Passed(saved) \subseteq handed

(* The page generator keeps its requests to itself, and still asks for the *)
(* page that next_request names, and an operation in flight is the read    *)
(* whose request the iterator will give to the helpers.                    *)
InLockstep ==
  /\ operation # None => operation = pageRequest
  /\ page = {} /\ ~ genFinished /\ pc \in {"idle", "loop"} =>
       genRequest = nextRequest

(* With a resume helper next_request is past every item the iterator has   *)
(* yielded: resuming yields none of them twice.                            *)
ResumesAfterTheLastItem ==
  resume /\ nextRequest # None =>
    \A r \in delivered : r < nextRequest

(* Without one, resuming repeats at most items of one page.                *)
RepeatsOnePage ==
  nextRequest # None =>
    Cardinality({ r \in delivered : r >= nextRequest }) < PageSize

(* A running iterator never yields an item twice, with a resume helper or  *)
(* without: what it still has to yield comes after all it has yielded.     *)
NeverYieldsTwice ==
  \A d \in delivered :
    /\ \A r \in page : d < r
    /\ page # {} /\ pageNext # None => d < pageNext
    /\ page = {} /\ nextRequest # None => d < nextRequest

(* The consumer's saved request only moves forward: starting again from it *)
(* never undoes progress that a previous save recorded.                    *)
SavedMovesForward ==
  [][ saved' # saved =>
        /\ saved # None
        /\ saved' # None => saved < saved' ]_saved

(* A waiting read of a service that completes hands out every record, in   *)
(* spite of failures and crashes.                                          *)
EveryRecordIsHandedOut ==
  closed /\ wait ~> records \subseteq handed

(* The position a request stands for in the abstract specification.        *)
PositionOf(request) == IF request = None THEN seenTail ELSE request

Delivery == INSTANCE ItemDelivery
              WITH resumeAt <- PositionOf(nextRequest), saved <- PositionOf(saved)

(* The pages, the two copies of the request and the restarts implement the *)
(* at-least-once, gap-free delivery of ItemDelivery.                       *)
ImplementsItemDelivery == Delivery!Spec
=============================================================================
