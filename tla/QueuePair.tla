------------------------------ MODULE QueuePair ------------------------------
(***************************************************************************)
(* One submission queue and one completion queue (queue.h), the handler    *)
(* that drains them (Namespace::handle_irq, Ctl::handle_irq), the          *)
(* operations that fill them (Nvme_device::inout_data and discard through  *)
(* Namespace::readwrite_* and write_zeroes) and the controller on the      *)
(* other side of the two rings.                                            *)
(*                                                                         *)
(* The driver has one thread: what it does is serialised, and `pc` and     *)
(* `sqe' say where it is.  The device runs concurrently with every step of *)
(* the driver and sees only the memory and the doorbells.                  *)
(*                                                                         *)
(* The device, the kernel's interrupt and the queue of refused requests in *)
(* libblock-device are not part of this repository; they are modelled from *)
(* the way the driver uses them.                                           *)
(***************************************************************************)
EXTENDS Integers, FiniteSets

CONSTANTS
  Size,          \* entries of either ring: Ioq_size, or 2 for the admin queue
  Requests,      \* client requests; one request may be issued again and again
  ZeroRequests,  \* those of them that are Write Zeroes, the others move data
  None,          \* an empty callback, a null pointer
  Triggers       \* the kinds of interrupt there are: TRUE for edge-triggered

\* One more than the largest l4_uint16_t.
Bits16 == 65536

ASSUME SizeAssumption == Size \in Nat /\ 2 <= Size /\ Size < Bits16
ASSUME RequestsAssumption == ZeroRequests \subseteq Requests
ASSUME NoneAssumption == None \notin Requests /\ None \notin Int
ASSUME TriggersAssumption == Triggers \subseteq BOOLEAN

VARIABLES
  \* Submission_queue
  sqTail,        \* _tail: next slot to fill
  sqHead,        \* _head: the device's head as of the last completion seen
  inFlight,      \* _in_flight: commands without a completion (16 bits)
  freeHint,      \* _free_hint: where the search for a free cid starts
  callbacks,     \* _callbacks: per cid, the request whose callback waits
  \* Completion_queue
  cqHead,        \* _head: next slot to look at
  phase,         \* _p: the phase tag of a fresh entry
  \* the driver's thread
  pc,            \* position in handle_irq
  sqe,           \* inout_data's SQE not yet submitted, or None
  cqe,           \* handle_irq's CQE, or None
  \* shared memory and doorbell registers
  sqes, cqes,    \* the two rings
  lists,         \* per cid, the live request its SGL or PRP list describes
  tdbl, hdbl,    \* SQ tail doorbell, CQ head doorbell
  \* device
  devHead,       \* next SQE to fetch
  executing,     \* commands fetched and not completed
  devTail,       \* next CQE to write
  devPhase,      \* the tag it writes
  \* interrupt
  edgeTriggered, \* MSI (edge) or legacy interrupt (level): _irq_trigger_type
  irqPending,    \* edge: latched and not delivered
  irqMasked,     \* level: delivered and not unmasked
  \* clients
  request,       \* per request, what its client knows
  outcome,       \* per request, the device's status (until it is delivered)
  retry          \* libblock-device has been told to try refused requests

sqVars     == <<sqTail, sqHead, inFlight, freeHint, callbacks>>
cqVars     == <<cqHead, phase>>
driverVars == <<pc, sqe, cqe>>
memVars    == <<sqes, cqes, lists, tdbl, hdbl>>
deviceVars == <<devHead, executing, devTail, devPhase>>
irqVars    == <<edgeTriggered, irqPending, irqMasked>>
clientVars == <<request, outcome, retry>>

vars == <<sqVars, cqVars, driverVars, memVars, deviceVars, irqVars, clientVars>>

Index  == 0 .. Size - 1
Status == {"ok", "error"}

ASSUME StatusAssumption == None \notin Status

Sqe    == [cid : Index, req : Requests \union {None}, nlb : BOOLEAN]
Cqe    == [cid : Index, sqhd : Index, p : BOOLEAN, sf : Status]

\* The contents of a slot nobody may look at any more (or yet): an SQE that has
\* been fetched, a CQE that has been acknowledged.  Of the latter the phase tag
\* is still looked at.  The old contents are forgotten so that states that
\* differ only in them are the same.
DeadSqe    == [cid |-> 0, req |-> None, nlb |-> FALSE]
DeadCqe(p) == [cid |-> 0, sqhd |-> 0, p |-> p, sf |-> "ok"]

\* Mutant: the ring is taken to be one entry longer than it is.
MutantWrap(i) == i % (Size + 1)

\* Queue::wrap_around
Wrap(i) == i % Size

\* The number of slots from slot a up to slot b, going round the ring.
Distance(a, b) == IF a <= b THEN b - a ELSE b - a + Size

\* The slots from a up to, not including, b.
Span(a, b) == {s \in Index : Distance(a, s) < Distance(a, b)}

SqTypeOK ==
  /\ sqTail \in Index /\ sqHead \in Index /\ freeHint \in Index
  /\ inFlight \in Nat /\ inFlight < Bits16
  /\ callbacks \in [Index -> Requests \union {None}]

CqTypeOK == cqHead \in Index /\ phase \in BOOLEAN

DriverTypeOK ==
  /\ pc \in {"idle", "consume", "complete", "callback", "return"}
  /\ sqe \in Index \union {None}
  /\ cqe \in Index \union {None}
  /\ pc \in {"complete", "callback"} => cqe \in Index

MemTypeOK ==
  /\ sqes \in [Index -> Sqe]
  /\ cqes \in [Index -> Cqe]
  /\ lists \in [Index -> Requests \union {None}]
  /\ tdbl \in Index /\ hdbl \in Index

DeviceTypeOK ==
  /\ devHead \in Index /\ devTail \in Index /\ devPhase \in BOOLEAN
  /\ executing \subseteq Sqe

IrqTypeOK ==
  edgeTriggered \in BOOLEAN /\ irqPending \in BOOLEAN /\ irqMasked \in BOOLEAN

ClientTypeOK ==
  /\ request \in [Requests -> {"new", "refused", "issued"} \union Status]
  /\ outcome \in [Requests -> Status \union {None}]
  /\ retry \in BOOLEAN

TypeOK ==
  /\ SqTypeOK /\ CqTypeOK /\ DriverTypeOK /\ MemTypeOK
  /\ DeviceTypeOK /\ IrqTypeOK /\ ClientTypeOK

\* Both queues are constructed, created in the device, and empty.
Init ==
  /\ sqTail = 0 /\ sqHead = 0 /\ inFlight = 0 /\ freeHint = 0
  /\ callbacks = [c \in Index |-> None]
  /\ cqHead = 0 /\ phase = TRUE
  /\ pc = "idle" /\ sqe = None /\ cqe = None
  /\ sqes = [s \in Index |-> DeadSqe]
  /\ cqes = [s \in Index |-> DeadCqe(FALSE)]
  /\ lists = [c \in Index |-> None]
  /\ tdbl = 0 /\ hdbl = 0
  /\ devHead = 0 /\ executing = {} /\ devTail = 0 /\ devPhase = TRUE
  /\ edgeTriggered \in Triggers /\ irqPending = FALSE /\ irqMasked = FALSE
  /\ request = [r \in Requests |-> "new"]
  /\ outcome = [r \in Requests |-> None]
  /\ retry = FALSE

-----------------------------------------------------------------------------
(* Issuing requests.                                                       *)

\* A client is served from the server loop, or from within the callback of a
\* request that has just been completed; never in the middle of inout_data.
ClientRuns == pc \in {"idle", "callback"} /\ sqe = None

\* A refused request is tried again when libblock-device is notified.
MayIssue(r) ==
  /\ ClientRuns
  /\ request[r] # "issued"
  /\ request[r] = "refused" => retry

\* Mutant: the commands in flight are taken for limit enough.
MutantIsFull == FALSE

IsFull == sqHead = Wrap(sqTail + 1)

\* Mutant: the number of commands in flight is not looked at.
MutantNoEntry == IsFull

\* produce() has no entry to give away
NoEntry == IsFull \/ inFlight >= Size

\* Mutant: the hint is taken without a search.
MutantIsFirstFree(cid) == cid = freeHint

\* The first free command identifier in the order of produce()'s loop.
IsFirstFree(cid) ==
  /\ callbacks[cid] = None
  /\ \A c \in Index :
       Distance(freeHint, c) < Distance(freeHint, cid) => callbacks[c] # None

\* produce(): take the entry, the identifier and the slot at the tail.
Produce(cid, r) ==
  /\ ~NoEntry
  /\ IsFirstFree(cid)
  /\ inFlight' = inFlight + 1
  /\ callbacks' = [callbacks EXCEPT ![cid] = r]
  /\ sqTail' = Wrap(sqTail + 1)
  /\ UNCHANGED <<sqHead, freeHint>>

\* The request has been accepted; the last refused one consumes the notice.
Accepted(r) ==
  /\ request' = [request EXCEPT ![r] = "issued"]
  /\ retry' = (retry /\ \E q \in Requests \ {r} : request[q] = "refused")
  /\ UNCHANGED outcome

\* produce() returned 0: -L4_EBUSY, the request goes to (or stays in) the
\* queue of refused ones until the next notice.
Refuse(r) ==
  /\ MayIssue(r)
  /\ NoEntry
  /\ request' = [request EXCEPT ![r] = "refused"]
  /\ retry' = (retry /\ request[r] # "refused")
  /\ UNCHANGED <<sqVars, cqVars, driverVars, memVars, deviceVars, irqVars,
                 outcome>>

\* Mutant: the doorbell is rung with the list and the length still to be written.
MutantInoutData(r) ==
  /\ MayIssue(r)
  /\ r \notin ZeroRequests
  /\ \E cid \in Index :
       /\ Produce(cid, r)
       /\ sqes' = [sqes EXCEPT
                     ![sqTail] = [cid |-> cid, req |-> r, nlb |-> FALSE]]
  /\ sqe' = sqTail
  /\ tdbl' = sqTail'
  /\ Accepted(r)
  /\ UNCHANGED <<cqVars, pc, cqe, cqes, lists, hdbl, deviceVars, irqVars>>

\* inout_data() up to readwrite_prepare_sgl() or _prp(): a command with its
\* length still zero.
InoutData(r) ==
  /\ MayIssue(r)
  /\ r \notin ZeroRequests
  /\ \E cid \in Index :
       /\ Produce(cid, r)
       /\ sqes' = [sqes EXCEPT
                     ![sqTail] = [cid |-> cid, req |-> r, nlb |-> FALSE]]
  /\ sqe' = sqTail
  /\ Accepted(r)
  /\ UNCHANGED <<cqVars, pc, cqe, cqes, lists, tdbl, hdbl, deviceVars, irqVars>>

\* Mutant: the doorbell is given the slot of the command, not the one after.
MutantReadwriteSubmit ==
  /\ sqe # None
  /\ lists' = [lists EXCEPT ![sqes[sqe].cid] = sqes[sqe].req]
  /\ sqes' = [sqes EXCEPT ![sqe].nlb = TRUE]
  /\ tdbl' = sqe
  /\ sqe' = None
  /\ UNCHANGED <<sqVars, cqVars, pc, cqe, cqes, hdbl, deviceVars, irqVars,
                 clientVars>>

\* inout_data() from there: write the list of the command's cid, the length
\* (readwrite_submit()) and then the doorbell (submit()).
ReadwriteSubmit ==
  /\ sqe # None
  /\ lists' = [lists EXCEPT ![sqes[sqe].cid] = sqes[sqe].req]
  /\ sqes' = [sqes EXCEPT ![sqe].nlb = TRUE]
  /\ tdbl' = sqTail
  /\ sqe' = None
  /\ UNCHANGED <<sqVars, cqVars, pc, cqe, cqes, hdbl, deviceVars, irqVars,
                 clientVars>>

\* write_zeroes(): no list, prepared and submitted at once.
WriteZeroes(r) ==
  /\ MayIssue(r)
  /\ r \in ZeroRequests
  /\ \E cid \in Index :
       /\ Produce(cid, r)
       /\ sqes' = [sqes EXCEPT
                     ![sqTail] = [cid |-> cid, req |-> r, nlb |-> TRUE]]
  /\ tdbl' = sqTail'
  /\ Accepted(r)
  /\ UNCHANGED <<cqVars, driverVars, cqes, lists, hdbl, deviceVars, irqVars>>

-----------------------------------------------------------------------------
(* The interrupt handler.                                                  *)

Interrupt ==
  IF edgeTriggered THEN irqPending ELSE ~irqMasked /\ devTail # hdbl

\* The server loop receives the interrupt.
HandleIrq ==
  /\ ClientRuns /\ pc = "idle"
  /\ Interrupt
  /\ pc' = "consume"
  /\ irqPending' = FALSE
  /\ irqMasked' = ~edgeTriggered
  /\ UNCHANGED <<edgeTriggered, sqVars, cqVars, sqe, cqe, memVars, deviceVars,
                 clientVars>>

\* Mutant: the phase tag is not inverted after a lap.
MutantConsume ==
  /\ pc = "consume"
  /\ cqes[cqHead].p = phase
  /\ cqe' = cqHead
  /\ cqHead' = Wrap(cqHead + 1)
  /\ pc' = "complete"
  /\ UNCHANGED <<phase, sqVars, sqe, memVars, deviceVars, irqVars, clientVars>>

\* Completion_queue::consume() finds an entry with the current phase tag.
Consume ==
  /\ pc = "consume"
  /\ cqes[cqHead].p = phase
  /\ cqe' = cqHead
  /\ cqHead' = Wrap(cqHead + 1)
  /\ phase' = IF cqHead' = 0 THEN ~phase ELSE phase
  /\ pc' = "complete"
  /\ UNCHANGED <<sqVars, sqe, memVars, deviceVars, irqVars, clientVars>>

\* consume() returns 0.
NothingLeft ==
  /\ pc = "consume"
  /\ cqes[cqHead].p # phase
  /\ pc' = "return"
  /\ UNCHANGED <<sqVars, cqVars, sqe, cqe, memVars, deviceVars, irqVars,
                 clientVars>>

\* Mutant: the end of the handler drops an interrupt that came meanwhile, and
\* leaves the line masked.
MutantHandlerDone ==
  /\ pc = "return"
  /\ pc' = "idle"
  /\ irqPending' = FALSE
  /\ UNCHANGED <<sqVars, cqVars, sqe, cqe, memVars, deviceVars,
                 edgeTriggered, irqMasked, clientVars>>

\* The handler returns to the server loop, having unmasked a level interrupt.
HandlerDone ==
  /\ pc = "return"
  /\ pc' = "idle"
  /\ irqMasked' = FALSE
  /\ UNCHANGED <<sqVars, cqVars, sqe, cqe, memVars, deviceVars,
                 edgeTriggered, irqPending, clientVars>>

\* Mutant: the head the device reports is not taken over.
MutantComplete ==
  /\ pc = "complete"
  /\ LET cid == cqes[cqe].cid
         r   == callbacks[cid]
     IN  /\ freeHint' = cid
         /\ inFlight' = (inFlight - 1) % Bits16
         /\ callbacks' = [callbacks EXCEPT ![cid] = None]
         /\ lists' = [lists EXCEPT ![cid] = None]
         /\ request' = [request EXCEPT ![r] = cqes[cqe].sf]
         /\ outcome' = [outcome EXCEPT ![r] = None]
  /\ retry' = (\E q \in Requests : request[q] = "refused")
  /\ pc' = "callback"
  /\ UNCHANGED <<sqTail, sqHead, cqVars, sqe, cqe, sqes, cqes, tdbl, hdbl,
                 deviceVars, irqVars>>

\* Mutant: the callback is told of success whatever the status field says.
MutantCompleteOk ==
  /\ pc = "complete"
  /\ LET cid == cqes[cqe].cid
         r   == callbacks[cid]
     IN  /\ sqHead' = cqes[cqe].sqhd
         /\ freeHint' = cid
         /\ inFlight' = (inFlight - 1) % Bits16
         /\ callbacks' = [callbacks EXCEPT ![cid] = None]
         /\ lists' = [lists EXCEPT ![cid] = None]
         /\ request' = [request EXCEPT ![r] = "ok"]
         /\ outcome' = [outcome EXCEPT ![r] = None]
  /\ retry' = (\E q \in Requests : request[q] = "refused")
  /\ pc' = "callback"
  /\ UNCHANGED <<sqTail, cqVars, sqe, cqe, sqes, cqes, tdbl, hdbl, deviceVars,
                 irqVars>>

\* Mutant: a completion does not lead to a retry of refused requests.
MutantCompleteNoRetry ==
  /\ pc = "complete"
  /\ LET cid == cqes[cqe].cid
         r   == callbacks[cid]
     IN  /\ sqHead' = cqes[cqe].sqhd
         /\ freeHint' = cid
         /\ inFlight' = (inFlight - 1) % Bits16
         /\ callbacks' = [callbacks EXCEPT ![cid] = None]
         /\ lists' = [lists EXCEPT ![cid] = None]
         /\ request' = [request EXCEPT ![r] = cqes[cqe].sf]
         /\ outcome' = [outcome EXCEPT ![r] = None]
  /\ pc' = "callback"
  /\ UNCHANGED <<retry, sqTail, cqVars, sqe, cqe, sqes, cqes, tdbl, hdbl,
                 deviceVars, irqVars>>

\* Submission_queue::complete() up to the call of the callback, and what the
\* callback reports: libblock-device completes the request and is given the
\* opportunity to try the refused ones.
Complete ==
  /\ pc = "complete"
  /\ LET cid == cqes[cqe].cid
         r   == callbacks[cid]
     IN  /\ sqHead' = cqes[cqe].sqhd
         /\ freeHint' = cid
         /\ inFlight' = (inFlight - 1) % Bits16
         /\ callbacks' = [callbacks EXCEPT ![cid] = None]
         /\ lists' = [lists EXCEPT ![cid] = None]  \* its buffers are unmapped
         /\ request' = [request EXCEPT ![r] = cqes[cqe].sf]
         /\ outcome' = [outcome EXCEPT ![r] = None]
  /\ retry' = (\E q \in Requests : request[q] = "refused")
  /\ pc' = "callback"
  /\ UNCHANGED <<sqTail, cqVars, sqe, cqe, sqes, cqes, tdbl, hdbl, deviceVars,
                 irqVars>>

\* Mutant: one entry per interrupt, `if' in place of `while'.
MutantAcknowledge ==
  /\ pc = "callback" /\ sqe = None
  /\ hdbl' = cqHead
  /\ cqes' = [cqes EXCEPT ![cqe] = DeadCqe(@.p)]
  /\ cqe' = None
  /\ pc' = "idle"
  /\ UNCHANGED <<sqVars, cqVars, sqe, sqes, lists, tdbl, deviceVars,
                 irqVars, clientVars>>

\* The callback returns; Completion_queue::complete() writes the doorbell.
Acknowledge ==
  /\ pc = "callback" /\ sqe = None
  /\ hdbl' = cqHead
  /\ cqes' = [cqes EXCEPT ![cqe] = DeadCqe(@.p)]
  /\ cqe' = None
  /\ pc' = "consume"
  /\ UNCHANGED <<sqVars, cqVars, sqe, sqes, lists, tdbl, deviceVars,
                 irqVars, clientVars>>

-----------------------------------------------------------------------------
(* The device.                                                             *)

DevFetch ==
  /\ devHead # tdbl
  /\ executing' = executing \union {sqes[devHead]}
  /\ sqes' = [sqes EXCEPT ![devHead] = DeadSqe]
  /\ devHead' = Wrap(devHead + 1)
  /\ UNCHANGED <<sqVars, cqVars, driverVars, cqes, lists, tdbl, hdbl, devTail, devPhase, irqVars, clientVars>>

\* Commands complete in any order, with any status, unless the CQ is full.
\* An entry carries the SQ head of that moment.
DevComplete(m) ==
  /\ m \in executing
  /\ Wrap(devTail + 1) # hdbl
  /\ \E status \in Status :
       /\ cqes' = [cqes EXCEPT ![devTail] = [cid |-> m.cid, sqhd |-> devHead,
                                             p |-> devPhase, sf |-> status]]
       /\ outcome' = [outcome EXCEPT ![m.req] = status]
  /\ executing' = executing \ {m}
  /\ devTail' = Wrap(devTail + 1)
  /\ devPhase' = IF devTail' = 0 THEN ~devPhase ELSE devPhase
  /\ irqPending' = edgeTriggered
  /\ UNCHANGED <<sqVars, cqVars, driverVars, sqes, lists, tdbl, hdbl, devHead,
                 edgeTriggered, irqMasked, request, retry>>

-----------------------------------------------------------------------------

Issue(r) == InoutData(r) \/ WriteZeroes(r) \/ Refuse(r)

Handler ==
  \/ HandleIrq \/ Consume \/ Complete \/ Acknowledge
  \/ NothingLeft \/ HandlerDone

Driver == ReadwriteSubmit \/ Handler

Device == DevFetch \/ \E m \in executing : DevComplete(m)

Next == (\E r \in Requests : Issue(r)) \/ Driver \/ Device

\* The server loop goes on running handlers.  The device goes on fetching, and
\* starves no command: a full CQ disables DevComplete again and again, so this
\* takes strong fairness.
Fairness ==
  /\ WF_vars(Driver)
  /\ WF_vars(DevFetch)
  /\ \A r \in Requests : SF_vars(\E m \in executing : m.req = r /\ DevComplete(m))

Spec == Init /\ [][Next]_vars

FairSpec == Spec /\ Fairness

-----------------------------------------------------------------------------
(* Where the commands are.                                                 *)

\* Slots of the SQ filled and not fetched, the one in preparation included.
Queued == Span(devHead, sqTail)

\* Entries of the CQ posted whose callback has not been called.
FirstPosted == IF pc = "complete" THEN cqe ELSE cqHead
Posted      == Span(FirstPosted, devTail)

\* Command identifiers given away and not returned.
Occupied == {c \in Index : callbacks[c] # None}

\* The callback is the one of the request the command was made for.
CallbacksMatch ==
  /\ \A s \in Queued : callbacks[sqes[s].cid] = sqes[s].req
  /\ \A m \in executing : callbacks[m.cid] = m.req

\* No two commands share an identifier.
IdsDistinct ==
  /\ \A s, t \in Queued : sqes[s].cid = sqes[t].cid => s = t
  /\ \A m, n \in executing : m.cid = n.cid => m = n
  /\ \A e, f \in Posted : cqes[e].cid = cqes[f].cid => e = f
  /\ \A s \in Queued, m \in executing : sqes[s].cid # m.cid
  /\ \A s \in Queued, e \in Posted : sqes[s].cid # cqes[e].cid
  /\ \A m \in executing, e \in Posted : m.cid # cqes[e].cid

\* The identifiers given away are those of the commands.
IdsCovered ==
  Occupied = {sqes[s].cid : s \in Queued} \union {m.cid : m \in executing}
               \union {cqes[e].cid : e \in Posted}

\* Each command is in one place, and there alone holds its identifier; its
\* callback is the right one; no identifier is lost; _in_flight counts them.  A
\* completion hence finds a callback, its own, and a command in flight: the
\* asserts of queue.h:243 and 248.
CommandsAccountedFor ==
  /\ CallbacksMatch
  /\ IdsDistinct
  /\ IdsCovered
  /\ inFlight = Cardinality(Occupied)

\* The device never works on a command whose list or length the driver has not
\* written, nor on one whose list belongs to another request by now (inout_data
\* fills list and length after produce() has taken the slot).
DeviceSeesWholeCommands ==
  \A m \in executing :
    /\ m.nlb
    /\ m.req \notin ZeroRequests => lists[m.cid] = m.req

\* consume() takes an entry if and only if the device has posted it: after any
\* number of laps a stale phase tag is never taken for a fresh one (queue.h:293).
FreshIffPosted == (cqes[cqHead].p = phase) <=> (cqHead # devTail)

\* Whenever produce() searches for a free identifier there is one: its loop
\* (queue.h:222) has no other way to end.
SearchTerminates == NoEntry \/ Occupied # Index

\* A refused request has been told to try again, or a completion that will tell
\* it is still to come: -L4_EBUSY never leaves a request behind for good.
RefusedHasWaker ==
  (\E r \in Requests : request[r] = "refused") => retry \/ Occupied # {}

\* When the server loop is idle and the CQ is not empty, an interrupt is
\* pending or can be: no completion is left for a handler that never runs.
InterruptOnTheWay == pc = "idle" /\ cqHead # devTail => Interrupt

\* A command in the SQ stays there unchanged until the device has fetched it,
\* even though the driver learns of the device's progress late, from the head
\* pointer in completions (queue.h:212, 241).
NoCommandLost ==
  [][\A s \in Queued :
       \/ s = devHead /\ devHead' # devHead
       \/ /\ s \in Queued'
          /\ sqes'[s].cid = sqes[s].cid /\ sqes'[s].req = sqes[s].req]_vars

(* The inductive invariant.                                                *)

\* Going round the SQ from the head the driver knows: the heads posted and not
\* seen, in the order they were posted, and the device's head.
HeadsInOrder ==
  /\ \A e \in Posted :
       Distance(sqHead, cqes[e].sqhd) <= Distance(sqHead, devHead)
  /\ \A e, f \in Posted :
       Distance(FirstPosted, e) <= Distance(FirstPosted, f)
         => Distance(sqHead, cqes[e].sqhd) <= Distance(sqHead, cqes[f].sqhd)

\* Further on, the doorbell and the tail, at most one command ahead of it.
SqInOrder ==
  /\ Distance(sqHead, devHead) <= Distance(sqHead, tdbl)
  /\ Distance(sqHead, tdbl) <= Distance(sqHead, sqTail)
  /\ sqe = None => tdbl = sqTail
  /\ sqe # None => /\ pc \in {"idle", "callback"}
                   /\ tdbl = sqe /\ sqTail = Wrap(sqe + 1)

\* Going round the CQ: the doorbell, the head, at most one entry ahead of it, and
\* the device's tail.
CqInOrder ==
  IF pc \in {"complete", "callback"}
    THEN cqe = hdbl /\ cqHead = Wrap(hdbl + 1) /\ hdbl # devTail
    ELSE cqe = None /\ cqHead = hdbl

RingsInOrder == HeadsInOrder /\ SqInOrder /\ CqInOrder

\* The tag of an entry tells whether it has been posted and not yet taken.  Ahead
\* of the head a fresh one has the current phase, behind it, a lap later, the
\* inverse.
FreshTag(e) == IF cqHead <= e THEN phase ELSE ~phase

TagsInOrder ==
  /\ \A e \in Index : cqes[e].p = FreshTag(e) <=> e \in Span(cqHead, devTail)
  /\ devPhase = FreshTag(devTail)

\* When the device has nothing to do but to fetch, the last head it reported, or
\* the driver has seen, is its head.
HeadReported ==
  executing = {} =>
    IF Posted = {} THEN sqHead = devHead
    ELSE \A e \in Posted : Wrap(e + 1) = devTail => cqes[e].sqhd = devHead

\* What will be fetched is whole.
QueuedWhole ==
  \A s \in Queued \ {sqe} :
    /\ sqes[s].nlb
    /\ sqes[s].req \notin ZeroRequests => lists[sqes[s].cid] = sqes[s].req

\* Whoever left the CQ non-empty outside the handler's loop knows of an interrupt.
InterruptKept ==
  /\ edgeTriggered /\ pc \in {"idle", "return"} /\ cqHead # devTail => irqPending
  /\ ~edgeTriggered /\ pc = "idle" => ~irqMasked

IInv ==
  /\ TypeOK
  /\ CommandsAccountedFor
  /\ RingsInOrder
  /\ TagsInOrder
  /\ HeadReported
  /\ QueuedWhole
  /\ DeviceSeesWholeCommands
  /\ InterruptKept
  /\ RefusedHasWaker

-----------------------------------------------------------------------------

\* The queue pair is a RequestService: exactly-once execution and exactly-once
\* callbacks with the right status.
Service == INSTANCE RequestService WITH Capacity <- Size

ImplementsService == Service!Spec

\* Every accepted request gets its callback.
IssuedIsAnswered ==
  \A r \in Requests : request[r] = "issued" ~> request[r] \in Status

\* Every refused request is given another try.
RefusedIsRetried ==
  \A r \in Requests : request[r] = "refused" ~> (retry \/ request[r] # "refused")

=============================================================================
