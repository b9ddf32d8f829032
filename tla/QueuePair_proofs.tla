--------------------------- MODULE QueuePair_proofs ---------------------------
(***************************************************************************)
(* What QueuePair's invariants rest on, for every ring size, every set of  *)
(* requests and both kinds of interrupt.                                   *)
(***************************************************************************)
EXTENDS QueuePair, FiniteSetTheorems, TLAPS

(* An index below the size of the ring is its own remainder.               *)
LEMMA SmallRemainder ==
  ASSUME NEW i \in Int, NEW n \in Int, 0 <= i, i < n
  PROVE  i % n = i
  OBVIOUS

(* n is a multiple of itself.                                              *)
LEMMA FullRemainder ==
  ASSUME NEW n \in Int, 0 < n
  PROVE  n % n = 0
  OBVIOUS

(* The range of l4_uint16_t is not empty.                                  *)
LEMMA Bits16Nat == Bits16 \in Nat /\ 0 < Bits16
BY DEF Bits16

(* A 16-bit counter stays one when it is decremented.                      *)
LEMMA Decrement ==
  ASSUME NEW n \in Nat
  PROVE  (n - 1) % Bits16 \in Nat /\ (n - 1) % Bits16 < Bits16
BY DEF Bits16

(* The index after the last one is 0 (Queue::wrap_around).                 *)
LEMMA WrapNext ==
  ASSUME NEW i \in Index
  PROVE  /\ Wrap(i + 1) = IF i = Size - 1 THEN 0 ELSE i + 1
         /\ Wrap(i + 1) \in Index
<1>1. Size \in Int /\ Size >= 2 /\ i \in Int /\ 0 <= i /\ i < Size
  BY SizeAssumption DEF Index
<1>2. CASE i = Size - 1
  <2>1. i + 1 = Size
    BY <1>1, <1>2
  <2>2. Wrap(i + 1) = 0
    BY <1>1, <2>1, FullRemainder DEF Wrap
  <2>. QED BY <1>1, <1>2, <2>2 DEF Index
<1>3. CASE i # Size - 1
  <2>1. 0 <= i + 1 /\ i + 1 < Size
    BY <1>1, <1>3
  <2>2. Wrap(i + 1) = i + 1
    BY <1>1, <2>1, SmallRemainder DEF Wrap
  <2>. QED BY <1>1, <1>3, <2>1, <2>2 DEF Index
<1>. QED BY <1>2, <1>3

(* Different slots have different successors (Queue::wrap_around).         *)
LEMMA WrapInjective ==
  ASSUME NEW a \in Index, NEW b \in Index, Wrap(a + 1) = Wrap(b + 1)
  PROVE  a = b
BY WrapNext, SizeAssumption DEF Index

(* Updating a function at any point keeps its range.                       *)
LEMMA Update ==
  ASSUME NEW S, NEW T, NEW f \in [S -> T], NEW a, NEW b \in T
  PROVE  [f EXCEPT ![a] = b] \in [S -> T]
OBVIOUS

(* What forgotten slots hold has the type of the slots.                    *)
LEMMA DeadTyped ==
  /\ 0 \in Index
  /\ DeadSqe \in Sqe
  /\ \A p \in BOOLEAN : DeadCqe(p) \in Cqe
<1>1. 0 \in Index
  BY SizeAssumption DEF Index
<1>. QED BY <1>1 DEF DeadSqe, Sqe, DeadCqe, Cqe, Status

-----------------------------------------------------------------------------

(* Every variable has its type: indices stay below the ring's size, the    *)
(* 16-bit counter in its range, statuses and requests where they belong.   *)
LEMMA TypeInit == Init => TypeOK
<1>. SUFFICES ASSUME Init PROVE TypeOK
  OBVIOUS
<1>1. SqTypeOK
  BY DeadTyped, Bits16Nat DEF Init, SqTypeOK
<1>2. CqTypeOK
  BY DeadTyped DEF Init, CqTypeOK
<1>3. DriverTypeOK
  BY DEF Init, DriverTypeOK
<1>4. MemTypeOK
  BY DeadTyped DEF Init, MemTypeOK
<1>5. DeviceTypeOK
  BY DeadTyped DEF Init, DeviceTypeOK
<1>6. IrqTypeOK
  BY TriggersAssumption DEF Init, IrqTypeOK
<1>7. ClientTypeOK
  BY DEF Init, ClientTypeOK, Status
<1>. QED BY <1>1, <1>2, <1>3, <1>4, <1>5, <1>6, <1>7 DEF TypeOK

(* produce() keeps the types of what it changes.                           *)
LEMMA TypeProduce ==
  ASSUME SqTypeOK, NEW cid \in Index, NEW r \in Requests, Produce(cid, r)
  PROVE  SqTypeOK'
<1>1. sqTail' \in Index
  BY WrapNext DEF Produce, SqTypeOK
<1>2. inFlight' \in Nat /\ inFlight' < Bits16
  BY SizeAssumption, Bits16Nat DEF Produce, NoEntry, SqTypeOK
<1>. QED BY <1>1, <1>2 DEF Produce, SqTypeOK

(* Every step keeps the types.                                             *)
LEMMA TypeStep == TypeOK /\ [Next]_vars => TypeOK'
<1>. SUFFICES ASSUME TypeOK, [Next]_vars PROVE TypeOK'
  OBVIOUS
<1>. USE DEF TypeOK, sqVars, cqVars, driverVars, memVars, deviceVars, irqVars,
             clientVars
<1>1. ASSUME NEW r \in Requests, Refuse(r) PROVE TypeOK'
  BY <1>1
  DEF Refuse, SqTypeOK, CqTypeOK, DriverTypeOK, MemTypeOK, DeviceTypeOK,
      IrqTypeOK, ClientTypeOK
<1>2. ASSUME NEW r \in Requests, InoutData(r) PROVE TypeOK'
  <2>1. PICK cid \in Index :
          /\ Produce(cid, r)
          /\ sqes' = [sqes EXCEPT
                        ![sqTail] = [cid |-> cid, req |-> r, nlb |-> FALSE]]
    BY <1>2 DEF InoutData
  <2>2. SqTypeOK'
    BY <2>1, TypeProduce
  <2>3. MemTypeOK'
    <3>1. [cid |-> cid, req |-> r, nlb |-> FALSE] \in Sqe
      BY DEF Sqe
    <3>. QED BY <1>2, <2>1, <3>1 DEF InoutData, MemTypeOK
  <2>4. ClientTypeOK'
    BY <1>2 DEF InoutData, Accepted, ClientTypeOK
  <2>5. DriverTypeOK'
    BY <1>2 DEF InoutData, DriverTypeOK, SqTypeOK
  <2>6. CqTypeOK' /\ DeviceTypeOK' /\ IrqTypeOK'
    BY <1>2 DEF InoutData, CqTypeOK, DeviceTypeOK, IrqTypeOK
  <2>. QED BY <2>2, <2>3, <2>4, <2>5, <2>6
<1>3. ASSUME NEW r \in Requests, WriteZeroes(r) PROVE TypeOK'
  <2>1. PICK cid \in Index :
          /\ Produce(cid, r)
          /\ sqes' = [sqes EXCEPT
                        ![sqTail] = [cid |-> cid, req |-> r, nlb |-> TRUE]]
    BY <1>3 DEF WriteZeroes
  <2>2. SqTypeOK'
    BY <2>1, TypeProduce
  <2>3. MemTypeOK'
    <3>1. [cid |-> cid, req |-> r, nlb |-> TRUE] \in Sqe
      BY DEF Sqe
    <3>2. tdbl' \in Index
      BY <1>3, <2>2 DEF WriteZeroes, SqTypeOK
    <3>. QED BY <1>3, <2>1, <3>1, <3>2 DEF WriteZeroes, MemTypeOK
  <2>4. ClientTypeOK'
    BY <1>3 DEF WriteZeroes, Accepted, ClientTypeOK
  <2>5. DriverTypeOK' /\ CqTypeOK' /\ DeviceTypeOK' /\ IrqTypeOK'
    BY <1>3 DEF WriteZeroes, DriverTypeOK, CqTypeOK, DeviceTypeOK, IrqTypeOK
  <2>. QED BY <2>2, <2>3, <2>4, <2>5
<1>4. CASE ReadwriteSubmit
  <2>1. sqe \in Index /\ sqes[sqe] \in Sqe
    BY <1>4 DEF ReadwriteSubmit, DriverTypeOK, MemTypeOK
  <2>2. MemTypeOK'
    <3>1. [sqes[sqe] EXCEPT !.nlb = TRUE] \in Sqe
      BY <2>1 DEF Sqe
    <3>2. sqes' \in [Index -> Sqe]
      BY <1>4, <3>1 DEF ReadwriteSubmit, MemTypeOK
    <3>3. lists' \in [Index -> Requests \union {None}]
      BY <1>4, <2>1 DEF ReadwriteSubmit, MemTypeOK, Sqe
    <3>. QED BY <1>4, <3>2, <3>3 DEF ReadwriteSubmit, MemTypeOK, SqTypeOK
  <2>. QED BY <1>4, <2>2
       DEF ReadwriteSubmit, SqTypeOK, CqTypeOK, DriverTypeOK, DeviceTypeOK,
           IrqTypeOK, ClientTypeOK
<1>5. CASE HandleIrq
  <2>1. IrqTypeOK'
    BY <1>5, TriggersAssumption, Zenon DEF HandleIrq, IrqTypeOK
  <2>. QED BY <1>5, <2>1
       DEF HandleIrq, SqTypeOK, CqTypeOK, DriverTypeOK, MemTypeOK,
           DeviceTypeOK, ClientTypeOK
<1>6. CASE Consume
  <2>1. CqTypeOK' /\ DriverTypeOK'
    BY <1>6, WrapNext DEF Consume, CqTypeOK, DriverTypeOK
  <2>. QED BY <1>6, <2>1
       DEF Consume, SqTypeOK, MemTypeOK, DeviceTypeOK, IrqTypeOK, ClientTypeOK
<1>7. CASE NothingLeft
  BY <1>7
  DEF NothingLeft, SqTypeOK, CqTypeOK, DriverTypeOK, MemTypeOK, DeviceTypeOK,
      IrqTypeOK, ClientTypeOK
<1>8. CASE HandlerDone
  <2>1. IrqTypeOK'
    BY <1>8, Zenon DEF HandlerDone, IrqTypeOK
  <2>. QED BY <1>8, <2>1
       DEF HandlerDone, SqTypeOK, CqTypeOK, DriverTypeOK, MemTypeOK,
           DeviceTypeOK, ClientTypeOK
<1>9. CASE Complete
  <2>. DEFINE cid == cqes[cqe].cid
              r   == callbacks[cid]
  <2>1. sqHead' = cqes[cqe].sqhd /\ freeHint' = cid
    BY <1>9 DEF Complete
  <2>2. cqe \in Index /\ cqes[cqe] \in Cqe
    BY <1>9 DEF Complete, DriverTypeOK, MemTypeOK
  <2>3. cid \in Index /\ cqes[cqe].sqhd \in Index /\ cqes[cqe].sf \in Status
    BY <2>2 DEF Cqe
  <2>4. SqTypeOK'
    <3>1. inFlight' \in Nat /\ inFlight' < Bits16
      <4>1. inFlight' = (inFlight - 1) % Bits16
        BY <1>9 DEF Complete
      <4>2. inFlight \in Nat
        BY DEF SqTypeOK
      <4>. QED BY <4>1, <4>2, Decrement
    <3>2. callbacks' \in [Index -> Requests \union {None}]
      <4>1. callbacks' = [callbacks EXCEPT ![cid] = None]
        BY <1>9 DEF Complete
      <4>2. callbacks \in [Index -> Requests \union {None}]
        BY DEF SqTypeOK
      <4>. HIDE DEF cid
      <4>. QED BY <4>1, <4>2, Update
    <3>3. sqTail' = sqTail
      BY <1>9 DEF Complete
    <3>. QED BY <2>1, <2>3, <3>1, <3>2, <3>3 DEF SqTypeOK
  <2>5. MemTypeOK'
    <3>1. lists' \in [Index -> Requests \union {None}]
      <4>1. lists' = [lists EXCEPT ![cid] = None]
        BY <1>9 DEF Complete
      <4>. HIDE DEF cid
      <4>. QED BY <4>1, Update DEF MemTypeOK
    <3>. QED BY <1>9, <3>1 DEF Complete, MemTypeOK
  <2>6. ClientTypeOK'
    <3>1. request' \in [Requests -> {"new", "refused", "issued"} \union Status]
      <4>1. request' = [request EXCEPT ![r] = cqes[cqe].sf]
        BY <1>9 DEF Complete
      <4>. HIDE DEF r
      <4>. QED BY <2>3, <4>1, Update DEF ClientTypeOK
    <3>2. outcome' \in [Requests -> Status \union {None}]
      <4>1. outcome' = [outcome EXCEPT ![r] = None]
        BY <1>9 DEF Complete
      <4>. HIDE DEF r
      <4>. QED BY <4>1, Update DEF ClientTypeOK
    <3>3. retry' \in BOOLEAN
      BY <1>9 DEF Complete
    <3>. QED BY <3>1, <3>2, <3>3 DEF ClientTypeOK
  <2>. QED BY <1>9, <2>4, <2>5, <2>6
       DEF Complete, CqTypeOK, DriverTypeOK, DeviceTypeOK, IrqTypeOK
<1>10. CASE Acknowledge
  <2>1. MemTypeOK'
    <3>1. \A e \in Index : DeadCqe(cqes[e].p) \in Cqe
      BY DeadTyped DEF MemTypeOK, Cqe
    <3>2. cqes' \in [Index -> Cqe]
      BY <1>10, <3>1 DEF Acknowledge, MemTypeOK
    <3>. QED BY <1>10, <3>2 DEF Acknowledge, MemTypeOK, CqTypeOK
  <2>. QED BY <1>10, <2>1
       DEF Acknowledge, SqTypeOK, CqTypeOK, DriverTypeOK, DeviceTypeOK,
           IrqTypeOK, ClientTypeOK
<1>11. CASE DevFetch
  <2>1. DeviceTypeOK'
    BY <1>11, WrapNext DEF DevFetch, DeviceTypeOK, MemTypeOK
  <2>2. MemTypeOK'
    BY <1>11, DeadTyped DEF DevFetch, MemTypeOK
  <2>. QED BY <1>11, <2>1, <2>2
       DEF DevFetch, SqTypeOK, CqTypeOK, DriverTypeOK, IrqTypeOK, ClientTypeOK
<1>12. ASSUME NEW m \in executing, DevComplete(m) PROVE TypeOK'
  <2>1. PICK status \in Status :
          /\ cqes' = [cqes EXCEPT ![devTail] = [cid |-> m.cid, sqhd |-> devHead,
                                                p |-> devPhase, sf |-> status]]
          /\ outcome' = [outcome EXCEPT ![m.req] = status]
    BY <1>12 DEF DevComplete
  <2>2. MemTypeOK'
    <3>1. [cid |-> m.cid, sqhd |-> devHead, p |-> devPhase, sf |-> status] \in Cqe
      BY DEF DeviceTypeOK, Sqe, Cqe
    <3>. QED BY <1>12, <2>1, <3>1 DEF DevComplete, MemTypeOK
  <2>3. ClientTypeOK'
    BY <1>12, <2>1 DEF DevComplete, ClientTypeOK
  <2>4. DeviceTypeOK'
    BY <1>12, WrapNext DEF DevComplete, DeviceTypeOK
  <2>. QED BY <1>12, <2>2, <2>3, <2>4, TriggersAssumption
       DEF DevComplete, SqTypeOK, CqTypeOK, DriverTypeOK, IrqTypeOK
<1>13. CASE UNCHANGED vars
  BY <1>13
  DEF vars, SqTypeOK, CqTypeOK, DriverTypeOK, MemTypeOK, DeviceTypeOK,
      IrqTypeOK, ClientTypeOK
<1>. QED
  BY <1>1, <1>2, <1>3, <1>4, <1>5, <1>6, <1>7, <1>8, <1>9, <1>10, <1>11,
     <1>12, <1>13
  DEF Next, Issue, Driver, Handler, Device

(* Every variable always has its type.                                     *)
THEOREM TypeCorrect == Spec => []TypeOK
BY TypeInit, TypeStep, PTL DEF Spec

-----------------------------------------------------------------------------
(* Going round a ring.                                                     *)

(* A distance is a number below the size of the ring, zero only between    *)
(* equal slots.                                                            *)
LEMMA DistanceNat ==
  ASSUME NEW a \in Index, NEW b \in Index
  PROVE  /\ Distance(a, b) \in Nat
         /\ Distance(a, b) < Size
         /\ Distance(a, b) = 0 <=> a = b
BY SizeAssumption DEF Distance, Index

(* The next slot is one further, unless it is where one started.           *)
LEMMA DistanceNext ==
  ASSUME NEW a \in Index, NEW b \in Index, Wrap(b + 1) # a
  PROVE  Distance(a, Wrap(b + 1)) = Distance(a, b) + 1
BY WrapNext, SizeAssumption DEF Distance, Index

(* Starting from the next slot it is one less far.                         *)
LEMMA DistanceFromNext ==
  ASSUME NEW a \in Index, NEW b \in Index, a # b
  PROVE  Distance(Wrap(a + 1), b) = Distance(a, b) - 1
BY WrapNext, SizeAssumption DEF Distance, Index

(* Starting from a slot on the way.                                        *)
LEMMA DistanceFrom ==
  ASSUME NEW a \in Index, NEW b \in Index, NEW c \in Index,
         Distance(a, b) <= Distance(a, c)
  PROVE  Distance(b, c) = Distance(a, c) - Distance(a, b)
BY SizeAssumption DEF Distance, Index

(* Two slots equally far are the same.                                     *)
LEMMA DistanceInjective ==
  ASSUME NEW a \in Index, NEW b \in Index, NEW c \in Index,
         Distance(a, b) = Distance(a, c)
  PROVE  b = c
BY SizeAssumption DEF Distance, Index

(* Nothing lies between a slot and itself: an empty ring.                  *)
LEMMA SpanEmpty == \A a \in Index : Span(a, a) = {}
BY DistanceNat DEF Span

(* Filling the slot at the end of a span that does not reach its start.    *)
LEMMA SpanExtend ==
  ASSUME NEW a \in Index, NEW b \in Index, Wrap(b + 1) # a
  PROVE  /\ Span(a, Wrap(b + 1)) = Span(a, b) \union {b}
         /\ b \notin Span(a, b)
<1>1. Distance(a, Wrap(b + 1)) = Distance(a, b) + 1
  BY DistanceNext
<1>2. ASSUME NEW s \in Index
      PROVE  Distance(a, s) < Distance(a, b) + 1
               <=> Distance(a, s) < Distance(a, b) \/ s = b
  <2>1. Distance(a, s) \in Nat /\ Distance(a, b) \in Nat
    BY DistanceNat
  <2>2. Distance(a, s) = Distance(a, b) => s = b
    BY DistanceInjective
  <2>. QED BY <2>1, <2>2
<1>3. b \notin Span(a, b)
  BY DistanceNat DEF Span
<1>. QED BY <1>1, <1>2, <1>3 DEF Span

(* Emptying the slot at the start of a span that is not empty.             *)
LEMMA SpanShrink ==
  ASSUME NEW a \in Index, NEW b \in Index, a # b
  PROVE  /\ Span(Wrap(a + 1), b) = Span(a, b) \ {a}
         /\ a \in Span(a, b)
<1>1. Distance(Wrap(a + 1), b) = Distance(a, b) - 1
  BY DistanceFromNext
<1>2. a \in Span(a, b)
  BY DistanceNat DEF Span
<1>3. ASSUME NEW s \in Index
      PROVE  Distance(Wrap(a + 1), s) < Distance(a, b) - 1
               <=> Distance(a, s) < Distance(a, b) /\ s # a
  <2>1. CASE s = a
    <3>1. Distance(Wrap(a + 1), a) = Size - 1
      BY WrapNext, SizeAssumption DEF Distance, Index
    <3>. QED BY <2>1, <3>1, DistanceNat, SizeAssumption
  <2>2. CASE s # a
    <3>1. Distance(Wrap(a + 1), s) = Distance(a, s) - 1
      BY <2>2, DistanceFromNext
    <3>. QED BY <2>2, <3>1, DistanceNat
  <2>. QED BY <2>1, <2>2
<1>. QED BY <1>1, <1>2, <1>3 DEF Span

-----------------------------------------------------------------------------
(* Commands and their identifiers.                                         *)

(* The identifiers are finitely many, as many as the ring has slots.       *)
LEMMA OccupiedFinite ==
  IsFiniteSet(Occupied) /\ IsFiniteSet(Index) /\ Cardinality(Index) = Size
<1>1. IsFiniteSet(Index) /\ Cardinality(Index) = Size
  BY FS_Interval, SizeAssumption DEF Index
<1>2. Occupied \in SUBSET Index
  BY DEF Occupied
<1>. QED BY <1>1, <1>2, FS_Subset

(* An identifier whose callback is empty belongs to no command.            *)
LEMMA FreeId ==
  ASSUME IdsCovered, NEW cid \in Index, callbacks[cid] = None
  PROVE  /\ \A s \in Queued : sqes[s].cid # cid
         /\ \A m \in executing : m.cid # cid
         /\ \A e \in Posted : cqes[e].cid # cid
<1>1. cid \notin Occupied
  BY DEF Occupied
<1>. QED BY <1>1 DEF IdsCovered

(* Where produce() puts a command there is none.                           *)
LEMMA ProduceSlot ==
  ASSUME TypeOK, RingsInOrder, ~IsFull
  PROVE  /\ Wrap(sqTail + 1) # devHead
         /\ Wrap(sqTail + 1) # sqHead
         /\ sqTail \notin Queued
         /\ Span(devHead, Wrap(sqTail + 1)) = Queued \union {sqTail}
<1>1. sqHead \in Index /\ sqTail \in Index /\ devHead \in Index /\ tdbl \in Index
  BY DEF TypeOK, SqTypeOK, MemTypeOK, DeviceTypeOK
<1>2. Wrap(sqTail + 1) # sqHead
  BY DEF IsFull
<1>3. Distance(sqHead, Wrap(sqTail + 1)) = Distance(sqHead, sqTail) + 1
  BY <1>1, <1>2, DistanceNext
<1>4. Distance(sqHead, devHead) <= Distance(sqHead, sqTail)
  BY <1>1, DistanceNat DEF RingsInOrder, SqInOrder
<1>5. Wrap(sqTail + 1) # devHead
  BY <1>1, <1>3, <1>4, DistanceNat
<1>. QED BY <1>1, <1>2, <1>5, SpanExtend DEF Queued

(* A new command takes a free identifier and a free slot.                  *)
LEMMA CommandsProduce ==
  ASSUME TypeOK, RingsInOrder, CommandsAccountedFor,
         NEW r \in Requests, NEW cid \in Index, NEW nlb \in BOOLEAN,
         Produce(cid, r),
         sqes' = [sqes EXCEPT ![sqTail] = [cid |-> cid, req |-> r, nlb |-> nlb]],
         UNCHANGED <<cqHead, pc, cqe, cqes, devHead, devTail, executing>>
  PROVE  CommandsAccountedFor'
<1>. USE DEF CommandsAccountedFor
<1>1. /\ ~IsFull /\ callbacks[cid] = None
      /\ callbacks' = [callbacks EXCEPT ![cid] = r]
      /\ inFlight' = inFlight + 1
      /\ sqTail' = Wrap(sqTail + 1)
  BY DEF Produce, NoEntry, IsFirstFree
<1>2. /\ Queued' = Queued \union {sqTail} /\ sqTail \notin Queued
      /\ sqTail \in Index /\ Queued \subseteq Index
  BY <1>1, ProduceSlot DEF Queued, Span, TypeOK, SqTypeOK
<1>3. Posted' = Posted
  BY DEF Posted, FirstPosted
<1>4. /\ \A s \in Queued : sqes[s].cid # cid
      /\ \A m \in executing : m.cid # cid
      /\ \A e \in Posted : cqes[e].cid # cid
  BY <1>1, FreeId
<1>5. /\ \A s \in Queued : sqes'[s] = sqes[s]
      /\ sqes'[sqTail].cid = cid /\ sqes'[sqTail].req = r
  BY <1>2 DEF TypeOK, MemTypeOK
<1>6. /\ callbacks'[cid] = r
      /\ \A c \in Index \ {cid} : callbacks'[c] = callbacks[c]
  BY <1>1 DEF TypeOK, SqTypeOK
<1>7. CallbacksMatch'
  <2>1. \A s \in Queued : sqes[s].cid \in Index
    BY <1>2 DEF TypeOK, MemTypeOK, Sqe
  <2>2. \A m \in executing : m.cid \in Index
    BY DEF TypeOK, DeviceTypeOK, Sqe
  <2>. QED BY <1>2, <1>4, <1>5, <1>6, <2>1, <2>2 DEF CallbacksMatch
<1>8. IdsDistinct'
  BY <1>2, <1>3, <1>4, <1>5 DEF IdsDistinct
<1>9. Occupied' = Occupied \union {cid} /\ cid \notin Occupied
  BY <1>1, <1>6, NoneAssumption DEF Occupied
<1>10. IdsCovered'
  BY <1>2, <1>3, <1>5, <1>9 DEF IdsCovered
<1>11. (inFlight = Cardinality(Occupied))'
  BY <1>1, <1>9, OccupiedFinite, FS_AddElement
<1>. QED BY <1>7, <1>8, <1>10, <1>11

(* Steps that move no command: everything that counts stays as it is, but  *)
(* for the length in SQEs and the contents of acknowledged CQEs.           *)
LEMMA CommandsStay ==
  ASSUME CommandsAccountedFor,
         UNCHANGED <<sqTail, inFlight, callbacks, devHead, devTail, executing>>,
         FirstPosted' = FirstPosted,
         \A s \in Queued : sqes'[s].cid = sqes[s].cid /\ sqes'[s].req = sqes[s].req,
         \A e \in Posted : cqes'[e].cid = cqes[e].cid
  PROVE  CommandsAccountedFor'
<1>1. Queued' = Queued /\ Posted' = Posted /\ Occupied' = Occupied
  BY DEF Queued, Posted, Occupied
<1>2. CallbacksMatch'
  BY <1>1 DEF CommandsAccountedFor, CallbacksMatch
<1>3. IdsDistinct'
  BY <1>1 DEF CommandsAccountedFor, IdsDistinct
<1>4. IdsCovered'
  BY <1>1 DEF CommandsAccountedFor, IdsCovered
<1>. QED BY <1>1, <1>2, <1>3, <1>4 DEF CommandsAccountedFor

(* The entry the handler completes is posted.                              *)
LEMMA CompletedPosted ==
  ASSUME TypeOK, RingsInOrder, pc = "complete"
  PROVE  /\ cqe \in Posted /\ cqe \in Index
         /\ Span(cqHead, devTail) = Posted \ {cqe}
<1>1. cqe = hdbl /\ cqHead = Wrap(hdbl + 1) /\ hdbl # devTail
  BY DEF RingsInOrder, CqInOrder
<1>2. hdbl \in Index /\ devTail \in Index
  BY DEF TypeOK, MemTypeOK, DeviceTypeOK
<1>. QED BY <1>1, <1>2, SpanShrink DEF Posted, FirstPosted

(* Complete removes the command from the CQ and frees its identifier.      *)
LEMMA CommandsComplete ==
  ASSUME TypeOK, RingsInOrder, CommandsAccountedFor, Complete
  PROVE  CommandsAccountedFor'
<1>. DEFINE cid == cqes[cqe].cid
<1>. USE DEF CommandsAccountedFor
<1>1. /\ pc = "complete" /\ pc' = "callback"
      /\ callbacks' = [callbacks EXCEPT ![cid] = None]
      /\ inFlight' = (inFlight - 1) % Bits16
      /\ UNCHANGED <<sqTail, devHead, devTail, executing, sqes, cqes, cqHead>>
  BY DEF Complete, cqVars, deviceVars
<1>2. cqe \in Posted /\ cqe \in Index /\ Span(cqHead, devTail) = Posted \ {cqe}
  BY <1>1, CompletedPosted
<1>3. Queued' = Queued /\ Posted' = Posted \ {cqe}
  BY <1>1, <1>2 DEF Queued, Posted, FirstPosted
<1>4. cid \in Index /\ cid \in Occupied
  BY <1>2 DEF IdsCovered, TypeOK, MemTypeOK, Cqe
<1>5. /\ callbacks'[cid] = None
      /\ \A c \in Index \ {cid} : callbacks'[c] = callbacks[c]
  BY <1>1, <1>4 DEF TypeOK, SqTypeOK
<1>6. /\ \A s \in Queued : sqes[s].cid # cid /\ sqes[s].cid \in Index
      /\ \A m \in executing : m.cid # cid /\ m.cid \in Index
      /\ \A e \in Posted \ {cqe} : cqes[e].cid # cid
  BY <1>2 DEF IdsDistinct, Queued, Span, TypeOK, MemTypeOK, DeviceTypeOK, Sqe
<1>. HIDE DEF cid
<1>7. CallbacksMatch'
  BY <1>1, <1>3, <1>5, <1>6 DEF CallbacksMatch
<1>8. IdsDistinct'
  BY <1>1, <1>3 DEF IdsDistinct
<1>9. Occupied' = Occupied \ {cid}
  BY <1>5, NoneAssumption DEF Occupied
<1>10. IdsCovered'
  BY <1>1, <1>2, <1>3, <1>6, <1>9 DEF IdsCovered, cid
<1>11. (inFlight = Cardinality(Occupied))'
  <2>1. Cardinality(Occupied') = inFlight - 1
    BY <1>4, <1>9, OccupiedFinite, FS_RemoveElement
  <2>2. inFlight > 0
    BY <1>4, OccupiedFinite, FS_EmptySet DEF TypeOK, SqTypeOK
  <2>3. inFlight \in Nat /\ inFlight < Bits16
    BY DEF TypeOK, SqTypeOK
  <2>4. (inFlight - 1) % Bits16 = inFlight - 1
    BY <2>2, <2>3, SmallRemainder, Bits16Nat
  <2>. QED BY <1>1, <2>1, <2>4
<1>. QED BY <1>7, <1>8, <1>10, <1>11

(* What the device fetches is a command in the SQ.                         *)
LEMMA FetchedQueued ==
  ASSUME TypeOK, RingsInOrder, devHead # tdbl
  PROVE  /\ devHead \in Queued /\ devHead # sqTail
         /\ devHead \in Index
         /\ Span(Wrap(devHead + 1), sqTail) = Queued \ {devHead}
<1>1. sqHead \in Index /\ sqTail \in Index /\ devHead \in Index /\ tdbl \in Index
  BY DEF TypeOK, SqTypeOK, MemTypeOK, DeviceTypeOK
<1>2. devHead # sqTail
  <2>1. Distance(sqHead, devHead) # Distance(sqHead, tdbl)
    BY <1>1, DistanceInjective
  <2>2. Distance(sqHead, devHead) < Distance(sqHead, sqTail)
    BY <1>1, <2>1, DistanceNat DEF RingsInOrder, SqInOrder
  <2>. QED BY <1>1, <2>2, DistanceNat
<1>. QED BY <1>1, <1>2, SpanShrink DEF Queued

(* DevFetch moves a command from the SQ into the device.                   *)
LEMMA CommandsFetch ==
  ASSUME TypeOK, RingsInOrder, CommandsAccountedFor, DevFetch
  PROVE  CommandsAccountedFor'
<1>. DEFINE m == sqes[devHead]
<1>. USE DEF CommandsAccountedFor
<1>1. /\ devHead # tdbl /\ devHead' = Wrap(devHead + 1)
      /\ executing' = executing \union {m}
      /\ sqes' = [sqes EXCEPT ![devHead] = DeadSqe]
      /\ UNCHANGED <<sqTail, inFlight, callbacks, cqHead, pc, cqe, cqes, devTail>>
  BY DEF DevFetch, sqVars, cqVars, driverVars
<1>2. /\ devHead \in Queued /\ Queued' = Queued \ {devHead}
      /\ Posted' = Posted /\ Occupied' = Occupied
  BY <1>1, FetchedQueued DEF Queued, Posted, FirstPosted, Occupied
<1>3. \A s \in Queued \ {devHead} : sqes'[s] = sqes[s]
  BY <1>1 DEF TypeOK, MemTypeOK, Queued, Span
<1>4. CallbacksMatch'
  BY <1>1, <1>2, <1>3 DEF CallbacksMatch
<1>5. IdsDistinct'
  BY <1>1, <1>2, <1>3 DEF IdsDistinct
<1>6. IdsCovered'
  BY <1>1, <1>2, <1>3 DEF IdsCovered
<1>. QED BY <1>1, <1>2, <1>4, <1>5, <1>6

(* What the device posts does not reach the entries not yet taken.         *)
LEMMA PostedSlot ==
  ASSUME TypeOK, RingsInOrder, Wrap(devTail + 1) # hdbl
  PROVE  /\ devTail \notin Posted /\ devTail \in Index
         /\ Span(FirstPosted, Wrap(devTail + 1)) = Posted \union {devTail}
<1>1. hdbl \in Index /\ devTail \in Index /\ FirstPosted \in Index
  BY DEF TypeOK, MemTypeOK, DeviceTypeOK, CqTypeOK, DriverTypeOK, FirstPosted
<1>2. Wrap(devTail + 1) # FirstPosted
  <2>1. CASE pc = "callback"
    <3>1. FirstPosted = Wrap(hdbl + 1) /\ hdbl # devTail
      BY <2>1 DEF RingsInOrder, CqInOrder, FirstPosted
    <3>. QED BY <1>1, <3>1, WrapNext, SizeAssumption DEF Index
  <2>2. CASE pc # "callback"
    BY <2>2 DEF RingsInOrder, CqInOrder, FirstPosted
  <2>. QED BY <2>1, <2>2
<1>. QED BY <1>1, <1>2, SpanExtend DEF Posted

(* DevComplete moves a command from the device into the CQ.                *)
LEMMA CommandsDevComplete ==
  ASSUME TypeOK, RingsInOrder, CommandsAccountedFor,
         NEW m \in executing, DevComplete(m)
  PROVE  CommandsAccountedFor'
<1>. USE DEF CommandsAccountedFor
<1>1. /\ Wrap(devTail + 1) # hdbl /\ devTail' = Wrap(devTail + 1)
      /\ executing' = executing \ {m}
      /\ UNCHANGED <<sqTail, inFlight, callbacks, cqHead, pc, cqe, sqes, devHead>>
  BY DEF DevComplete, sqVars, cqVars, driverVars
<1>2. PICK status \in Status :
        cqes' = [cqes EXCEPT ![devTail] = [cid |-> m.cid, sqhd |-> devHead,
                                           p |-> devPhase, sf |-> status]]
  BY DEF DevComplete
<1>3. /\ devTail \notin Posted /\ Posted' = Posted \union {devTail}
      /\ Queued' = Queued /\ Occupied' = Occupied
  BY <1>1, PostedSlot DEF Queued, Posted, FirstPosted, Occupied
<1>4. /\ cqes'[devTail].cid = m.cid
      /\ \A e \in Posted : cqes'[e] = cqes[e]
  BY <1>2, <1>3 DEF TypeOK, MemTypeOK, DeviceTypeOK, Posted, Span
<1>5. CallbacksMatch'
  BY <1>1, <1>3 DEF CallbacksMatch
<1>6. IdsDistinct'
  BY <1>1, <1>3, <1>4 DEF IdsDistinct
<1>7. IdsCovered'
  BY <1>1, <1>3, <1>4 DEF IdsCovered
<1>. QED BY <1>1, <1>3, <1>5, <1>6, <1>7

-----------------------------------------------------------------------------
(* The order of the positions on the two rings.                            *)

\* Types of everything that is a position.
Positions ==
  /\ sqHead \in Index /\ sqTail \in Index /\ tdbl \in Index /\ devHead \in Index
  /\ hdbl \in Index /\ cqHead \in Index /\ devTail \in Index
  /\ FirstPosted \in Index /\ Posted \subseteq Index /\ Queued \subseteq Index
  /\ \A e \in Posted : cqes[e].sqhd \in Index

(* All the positions on the two rings are indices.                         *)
LEMMA PositionsTyped == TypeOK => Positions
BY DEF TypeOK, SqTypeOK, CqTypeOK, DriverTypeOK, MemTypeOK, DeviceTypeOK, Cqe,
       Positions, FirstPosted, Posted, Queued, Span

(* The reported heads do not notice a step that posts or takes nothing.    *)
LEMMA HeadsStay ==
  ASSUME HeadsInOrder, UNCHANGED <<sqHead, devHead, devTail>>,
         FirstPosted' = FirstPosted,
         \A e \in Posted : cqes'[e].sqhd = cqes[e].sqhd
  PROVE  HeadsInOrder'
<1>1. Posted' = Posted
  BY DEF Posted
<1>. QED BY <1>1 DEF HeadsInOrder

(* inout_data() up to the list keeps the order of the rings' positions.    *)
LEMMA RingsInoutData ==
  ASSUME TypeOK, RingsInOrder, NEW r \in Requests, InoutData(r)
  PROVE  RingsInOrder'
<1>. USE DEF RingsInOrder
<1>1. /\ sqe = None /\ ~IsFull /\ sqTail' = Wrap(sqTail + 1) /\ sqe' = sqTail
      /\ pc \in {"idle", "callback"}
      /\ UNCHANGED <<sqHead, cqHead, pc, cqe, cqes, tdbl, hdbl, devHead, devTail>>
  BY DEF InoutData, MayIssue, ClientRuns, Produce, NoEntry, cqVars, deviceVars
<1>2. HeadsInOrder'
  BY <1>1, HeadsStay DEF FirstPosted
<1>3. SqInOrder'
  <2>1. Positions /\ tdbl = sqTail /\ sqTail # None
    BY <1>1, PositionsTyped, NoneAssumption DEF SqInOrder, Positions, Index
  <2>2. Distance(sqHead, sqTail') = Distance(sqHead, sqTail) + 1
    BY <1>1, <2>1, DistanceNext DEF IsFull, Positions
  <2>3. Distance(sqHead, sqTail) \in Nat
    BY <2>1, DistanceNat DEF Positions
  <2>. QED BY <1>1, <2>1, <2>2, <2>3 DEF SqInOrder
<1>4. CqInOrder'
  BY <1>1 DEF CqInOrder
<1>. QED BY <1>2, <1>3, <1>4

(* write_zeroes() keeps the order of the rings' positions.                 *)
LEMMA RingsWriteZeroes ==
  ASSUME TypeOK, RingsInOrder, NEW r \in Requests, WriteZeroes(r)
  PROVE  RingsInOrder'
<1>. USE DEF RingsInOrder
<1>1. /\ sqe = None /\ ~IsFull /\ sqTail' = Wrap(sqTail + 1) /\ tdbl' = sqTail'
      /\ UNCHANGED <<sqHead, cqHead, pc, sqe, cqe, cqes, hdbl, devHead, devTail>>
  BY DEF WriteZeroes, MayIssue, ClientRuns, Produce, NoEntry, cqVars, driverVars,
         deviceVars
<1>2. HeadsInOrder'
  BY <1>1, HeadsStay DEF FirstPosted
<1>3. SqInOrder'
  <2>1. Positions /\ tdbl = sqTail
    BY <1>1, PositionsTyped DEF SqInOrder
  <2>2. Distance(sqHead, sqTail') = Distance(sqHead, sqTail) + 1
    BY <1>1, <2>1, DistanceNext DEF IsFull, Positions
  <2>3. Distance(sqHead, sqTail) \in Nat /\ Distance(sqHead, devHead) \in Nat
    BY <2>1, DistanceNat DEF Positions
  <2>. QED BY <1>1, <2>1, <2>2, <2>3 DEF SqInOrder
<1>4. CqInOrder'
  BY <1>1 DEF CqInOrder
<1>. QED BY <1>2, <1>3, <1>4

(* The tail doorbell (submit()) keeps the order of the rings' positions.   *)
LEMMA RingsReadwriteSubmit ==
  ASSUME TypeOK, RingsInOrder, ReadwriteSubmit
  PROVE  RingsInOrder'
<1>. USE DEF RingsInOrder
<1>1. /\ sqe # None /\ tdbl' = sqTail /\ sqe' = None
      /\ UNCHANGED <<sqHead, sqTail, cqHead, pc, cqe, cqes, hdbl, devHead, devTail>>
  BY DEF ReadwriteSubmit, sqVars, cqVars, deviceVars
<1>2. HeadsInOrder'
  BY <1>1, HeadsStay DEF FirstPosted
<1>3. SqInOrder'
  <2>1. Distance(sqHead, devHead) <= Distance(sqHead, sqTail)
    BY PositionsTyped, DistanceNat DEF SqInOrder, Positions
  <2>2. Distance(sqHead, sqTail) <= Distance(sqHead, sqTail)
    BY PositionsTyped, DistanceNat DEF Positions
  <2>. QED BY <1>1, <2>1, <2>2 DEF SqInOrder
<1>4. CqInOrder'
  BY <1>1 DEF CqInOrder
<1>. QED BY <1>2, <1>3, <1>4

(* consume() keeps the order of the rings' positions.                      *)
LEMMA RingsConsume ==
  ASSUME TypeOK, RingsInOrder, Consume, cqHead # devTail
  PROVE  RingsInOrder'
<1>. USE DEF RingsInOrder
<1>1. /\ pc = "consume" /\ pc' = "complete"
      /\ cqe' = cqHead /\ cqHead' = Wrap(cqHead + 1)
      /\ UNCHANGED <<sqHead, sqTail, sqe, cqes, tdbl, hdbl, devHead, devTail>>
  BY DEF Consume, sqVars, memVars, deviceVars
<1>2. HeadsInOrder'
  BY <1>1, HeadsStay DEF FirstPosted
<1>3. SqInOrder'
  BY <1>1 DEF SqInOrder
<1>4. CqInOrder'
  BY <1>1 DEF CqInOrder
<1>. QED BY <1>2, <1>3, <1>4

(* The head doorbell (Completion_queue::complete()) keeps the order, and   *)
(* the entry it gives back is none of those still to be looked at.         *)
LEMMA RingsAcknowledge ==
  ASSUME TypeOK, RingsInOrder, Acknowledge
  PROVE  RingsInOrder' /\ cqe \notin Posted /\ cqe \in Index
<1>. USE DEF RingsInOrder
<1>1. /\ pc = "callback" /\ pc' = "consume" /\ sqe = None
      /\ hdbl' = cqHead /\ cqe' = None
      /\ cqes' = [cqes EXCEPT ![cqe] = DeadCqe(cqes[cqe].p)]
      /\ UNCHANGED <<sqHead, sqTail, cqHead, sqe, tdbl, devHead, devTail>>
  BY DEF Acknowledge, sqVars, cqVars, deviceVars
<1>2. cqe \notin Posted /\ cqe \in Index
  <2>1. cqe = hdbl /\ hdbl # devTail /\ cqHead = Wrap(hdbl + 1)
    BY <1>1 DEF CqInOrder
  <2>2. Posted = Span(hdbl, devTail) \ {hdbl}
    BY <1>1, <2>1, PositionsTyped, SpanShrink DEF Posted, FirstPosted, Positions
  <2>. QED BY <2>1, <2>2, PositionsTyped DEF Positions
<1>3. HeadsInOrder'
  <2>1. \A e \in Posted : cqes'[e] = cqes[e]
    BY <1>1, <1>2, PositionsTyped DEF Positions, TypeOK, MemTypeOK
  <2>. QED BY <1>1, <2>1, HeadsStay DEF FirstPosted
<1>4. SqInOrder'
  BY <1>1 DEF SqInOrder
<1>5. CqInOrder'
  BY <1>1 DEF CqInOrder
<1>. QED BY <1>2, <1>3, <1>4, <1>5

(* Complete takes over the first of the reported heads.                    *)
LEMMA RingsComplete ==
  ASSUME TypeOK, RingsInOrder, Complete
  PROVE  RingsInOrder'
<1>. USE DEF RingsInOrder
<1>1. /\ pc = "complete" /\ pc' = "callback" /\ sqHead' = cqes[cqe].sqhd
      /\ UNCHANGED <<sqTail, cqHead, sqe, cqe, cqes, tdbl, hdbl, devHead, devTail>>
  BY DEF Complete, cqVars, deviceVars
<1>2. /\ cqe \in Posted /\ cqe \in Index /\ FirstPosted = cqe
      /\ Posted' = Posted \ {cqe} /\ FirstPosted' = cqHead
  BY <1>1, CompletedPosted DEF FirstPosted, Posted
<1>3. Positions /\ sqHead' \in Index
  BY <1>1, <1>2, PositionsTyped DEF Positions
<1>4. Distance(sqHead, sqHead') <= Distance(sqHead, devHead)
  BY <1>1, <1>2 DEF HeadsInOrder
<1>5. \A e \in Posted : Distance(sqHead, sqHead') <= Distance(sqHead, cqes[e].sqhd)
  <2>1. \A e \in Posted : Distance(cqe, cqe) <= Distance(cqe, e)
    BY <1>2, <1>3, DistanceNat DEF Positions
  <2>. QED BY <1>1, <1>2, <2>1 DEF HeadsInOrder
<1>6. ASSUME NEW a \in Index, Distance(sqHead, sqHead') <= Distance(sqHead, a)
      PROVE  Distance(sqHead', a) = Distance(sqHead, a) - Distance(sqHead, sqHead')
  BY <1>3, <1>6, DistanceFrom DEF Positions
<1>7. ASSUME NEW a \in Index PROVE Distance(sqHead, a) \in Nat
  BY <1>3, DistanceNat DEF Positions
<1>8. HeadsInOrder'
  <2>1. ASSUME NEW e \in Posted'
        PROVE  Distance(sqHead', cqes[e].sqhd) <= Distance(sqHead', devHead)
    <3>1. Distance(sqHead, cqes[e].sqhd) <= Distance(sqHead, devHead)
      BY <1>2 DEF HeadsInOrder
    <3>. QED BY <1>2, <1>3, <1>4, <1>5, <1>6, <1>7, <3>1 DEF Positions
  <2>2. ASSUME NEW e \in Posted', NEW f \in Posted',
               Distance(cqHead, e) <= Distance(cqHead, f)
        PROVE  Distance(sqHead', cqes[e].sqhd) <= Distance(sqHead', cqes[f].sqhd)
    <3>1. cqHead = Wrap(cqe + 1)
      BY <1>1 DEF CqInOrder
    <3>2. /\ Distance(cqHead, e) = Distance(cqe, e) - 1
          /\ Distance(cqHead, f) = Distance(cqe, f) - 1
          /\ Distance(cqe, e) \in Nat /\ Distance(cqe, f) \in Nat
      BY <1>2, <1>3, <3>1, DistanceFromNext, DistanceNat DEF Positions
    <3>3. Distance(sqHead, cqes[e].sqhd) <= Distance(sqHead, cqes[f].sqhd)
      BY <1>2, <2>2, <3>2 DEF HeadsInOrder
    <3>. QED BY <1>2, <1>3, <1>5, <1>6, <1>7, <3>3 DEF Positions
  <2>. QED BY <1>1, <1>2, <2>1, <2>2 DEF HeadsInOrder
<1>9. SqInOrder'
  <2>1. /\ Distance(sqHead, sqHead') <= Distance(sqHead, tdbl)
        /\ Distance(sqHead, sqHead') <= Distance(sqHead, sqTail)
    BY <1>3, <1>4, <1>7 DEF SqInOrder, Positions
  <2>2. /\ Distance(sqHead', devHead) <= Distance(sqHead', tdbl)
        /\ Distance(sqHead', tdbl) <= Distance(sqHead', sqTail)
    BY <1>3, <1>4, <1>6, <1>7, <2>1 DEF SqInOrder, Positions
  <2>. QED BY <1>1, <2>2 DEF SqInOrder
<1>10. CqInOrder'
  BY <1>1 DEF CqInOrder
<1>. QED BY <1>8, <1>9, <1>10

(* The device's fetch keeps the order of the rings' positions.             *)
LEMMA RingsFetch ==
  ASSUME TypeOK, RingsInOrder, DevFetch
  PROVE  RingsInOrder'
<1>. USE DEF RingsInOrder
<1>1. /\ devHead # tdbl /\ devHead' = Wrap(devHead + 1)
      /\ UNCHANGED <<sqHead, sqTail, cqHead, pc, sqe, cqe, cqes, tdbl, hdbl, devTail>>
  BY DEF DevFetch, sqVars, cqVars, driverVars
<1>2. Positions
  BY PositionsTyped
<1>3. Distance(sqHead, devHead) < Distance(sqHead, tdbl)
  <2>1. Distance(sqHead, devHead) # Distance(sqHead, tdbl)
    BY <1>1, <1>2, DistanceInjective DEF Positions
  <2>. QED BY <1>2, <2>1, DistanceNat DEF SqInOrder, Positions
<1>4. Distance(sqHead, devHead') = Distance(sqHead, devHead) + 1
  <2>1. Wrap(devHead + 1) # sqHead
    BY <1>2, <1>3, WrapNext, SizeAssumption DEF Positions, Distance, Index
  <2>. QED BY <1>1, <1>2, <2>1, DistanceNext DEF Positions
<1>5. /\ Distance(sqHead, devHead) \in Nat /\ Distance(sqHead, tdbl) \in Nat
      /\ \A e \in Posted : Distance(sqHead, cqes[e].sqhd) \in Nat
  BY <1>2, DistanceNat DEF Positions
<1>6. HeadsInOrder'
  <2>1. Posted' = Posted /\ FirstPosted' = FirstPosted
    BY <1>1 DEF Posted, FirstPosted
  <2>2. \A e \in Posted : Distance(sqHead, cqes[e].sqhd) <= Distance(sqHead, devHead')
    BY <1>4, <1>5 DEF HeadsInOrder
  <2>. QED BY <1>1, <2>1, <2>2 DEF HeadsInOrder
<1>7. SqInOrder'
  BY <1>1, <1>3, <1>4, <1>5 DEF SqInOrder
<1>8. CqInOrder'
  BY <1>1 DEF CqInOrder
<1>. QED BY <1>6, <1>7, <1>8

(* What is posted reports the device's head, no other one being further.   *)
LEMMA RingsDevComplete ==
  ASSUME TypeOK, RingsInOrder, NEW m \in executing, DevComplete(m)
  PROVE  RingsInOrder'
<1>. USE DEF RingsInOrder
<1>1. /\ Wrap(devTail + 1) # hdbl /\ devTail' = Wrap(devTail + 1)
      /\ UNCHANGED <<sqHead, sqTail, cqHead, pc, sqe, cqe, tdbl, hdbl, devHead>>
  BY DEF DevComplete, sqVars, cqVars, driverVars
<1>2. PICK status \in Status :
        cqes' = [cqes EXCEPT ![devTail] = [cid |-> m.cid, sqhd |-> devHead,
                                           p |-> devPhase, sf |-> status]]
  BY DEF DevComplete
<1>3. Positions
  BY PositionsTyped
<1>4. /\ devTail \notin Posted /\ Posted' = Posted \union {devTail}
      /\ FirstPosted' = FirstPosted
  BY <1>1, PostedSlot DEF Posted, FirstPosted
<1>5. /\ cqes'[devTail].sqhd = devHead
      /\ \A e \in Posted : cqes'[e] = cqes[e]
  BY <1>2, <1>3, <1>4 DEF TypeOK, MemTypeOK, Positions
<1>6. HeadsInOrder'
  <2>1. Distance(sqHead, devHead) <= Distance(sqHead, devHead)
    BY <1>3, DistanceNat DEF Positions
  <2>2. \A f \in Posted : ~(Distance(FirstPosted, devTail) <= Distance(FirstPosted, f))
    BY <1>3, DistanceNat DEF Posted, Span, Positions
  <2>3. \A e \in Posted' : Distance(sqHead, cqes'[e].sqhd) <= Distance(sqHead, devHead)
    BY <1>4, <1>5, <2>1 DEF HeadsInOrder
  <2>4. \A e, f \in Posted' :
          Distance(FirstPosted, e) <= Distance(FirstPosted, f)
            => Distance(sqHead, cqes'[e].sqhd) <= Distance(sqHead, cqes'[f].sqhd)
    BY <1>4, <1>5, <2>2, <2>3 DEF HeadsInOrder
  <2>. QED BY <1>1, <1>4, <2>3, <2>4 DEF HeadsInOrder
<1>7. SqInOrder'
  BY <1>1 DEF SqInOrder
<1>8. CqInOrder'
  BY <1>1 DEF CqInOrder
<1>. QED BY <1>6, <1>7, <1>8

-----------------------------------------------------------------------------
(* Phase tags.                                                             *)

(* The positions and tags of the CQ have their types.                      *)
LEMMA TagsTyped ==
  ASSUME TypeOK
  PROVE  /\ phase \in BOOLEAN /\ devPhase \in BOOLEAN
         /\ \A e \in Index : cqes[e].p \in BOOLEAN
         /\ \A e \in Index : FreshTag(e) \in BOOLEAN
<1>1. phase \in BOOLEAN /\ devPhase \in BOOLEAN
  BY DEF TypeOK, CqTypeOK, DeviceTypeOK
<1>2. \A e \in Index : cqes[e].p \in BOOLEAN
  BY DEF TypeOK, MemTypeOK, Cqe
<1>. QED BY <1>1, <1>2, Zenon DEF FreshTag

(* The entry at the head has the current tag if and only if it is posted.  *)
LEMMA TagAtHead ==
  ASSUME TypeOK, TagsInOrder
  PROVE  FreshIffPosted
<1>1. cqHead \in Index /\ devTail \in Index
  BY DEF TypeOK, CqTypeOK, DeviceTypeOK
<1>2. FreshTag(cqHead) = phase
  BY <1>1 DEF FreshTag, Index
<1>3. cqHead \in Span(cqHead, devTail) <=> cqHead # devTail
  BY <1>1, SpanEmpty, SpanShrink
<1>. QED BY <1>1, <1>2, <1>3 DEF TagsInOrder, FreshIffPosted

(* A step that touches neither the CQ's positions nor its tags keeps the   *)
(* meaning of the tags.                                                    *)
LEMMA TagsStay ==
  ASSUME TagsInOrder, UNCHANGED <<cqHead, phase, devTail, devPhase>>,
         \A e \in Index : cqes'[e].p = cqes[e].p
  PROVE  TagsInOrder'
BY DEF TagsInOrder, FreshTag

(* consume() inverts the expected tag exactly when the head wraps.         *)
LEMMA TagsConsume ==
  ASSUME TypeOK, TagsInOrder, Consume
  PROVE  TagsInOrder' /\ cqHead # devTail
<1>1. /\ cqes[cqHead].p = phase
      /\ cqHead' = Wrap(cqHead + 1)
      /\ phase' = IF cqHead' = 0 THEN ~phase ELSE phase
      /\ UNCHANGED <<cqes, devTail, devPhase>>
  BY DEF Consume, memVars, deviceVars
<1>2. cqHead \in Index /\ devTail \in Index
  BY DEF TypeOK, CqTypeOK, DeviceTypeOK
<1>3. cqHead # devTail
  BY <1>1, TagAtHead DEF FreshIffPosted
<1>4. Span(cqHead', devTail') = Span(cqHead, devTail) \ {cqHead}
      /\ cqHead \in Span(cqHead, devTail)
  BY <1>1, <1>2, <1>3, SpanShrink
<1>5. \A e \in Index :
        (FreshTag(e))' = IF e = cqHead THEN ~FreshTag(e) ELSE FreshTag(e)
  <2>1. CASE cqHead = Size - 1
    <3>1. cqHead' = 0 /\ phase' = ~phase
      BY <1>1, <1>2, <2>1, WrapNext
    <3>2. \A e \in Index : cqHead' <= e /\ (cqHead <= e <=> e = cqHead)
      BY <2>1, <3>1, SizeAssumption DEF Index
    <3>. QED BY <3>1, <3>2 DEF FreshTag
  <2>2. CASE cqHead # Size - 1
    <3>1. cqHead' = cqHead + 1 /\ phase' = phase
      BY <1>1, <1>2, <2>2, WrapNext DEF Index
    <3>2. \A e \in Index : cqHead' <= e <=> (cqHead <= e /\ e # cqHead)
      BY <1>2, <3>1, SizeAssumption DEF Index
    <3>3. cqHead <= cqHead
      BY <1>2, SizeAssumption DEF Index
    <3>. QED BY <3>1, <3>2, <3>3, TagsTyped DEF FreshTag
  <2>. QED BY <2>1, <2>2
<1>6. \A e \in Index : cqes'[e].p = (FreshTag(e))' <=> e \in Span(cqHead', devTail')
  <2>1. \A e \in Index : cqes[e].p \in BOOLEAN /\ FreshTag(e) \in BOOLEAN
    BY TagsTyped
  <2>. QED BY <1>1, <1>4, <1>5, <2>1 DEF TagsInOrder
<1>7. devPhase' = (FreshTag(devTail))'
  BY <1>1, <1>2, <1>3, <1>5 DEF TagsInOrder, FreshTag
<1>. QED BY <1>3, <1>6, <1>7 DEF TagsInOrder, FreshTag

(* The device writes the tag the driver will expect at that slot.          *)
LEMMA TagsDevComplete ==
  ASSUME TypeOK, RingsInOrder, TagsInOrder, NEW m \in executing, DevComplete(m)
  PROVE  TagsInOrder'
<1>1. /\ Wrap(devTail + 1) # hdbl /\ devTail' = Wrap(devTail + 1)
      /\ devPhase' = IF devTail' = 0 THEN ~devPhase ELSE devPhase
      /\ UNCHANGED <<cqHead, phase>>
  BY DEF DevComplete, cqVars
<1>2. PICK status \in Status :
        cqes' = [cqes EXCEPT ![devTail] = [cid |-> m.cid, sqhd |-> devHead,
                                           p |-> devPhase, sf |-> status]]
  BY DEF DevComplete
<1>3. cqHead \in Index /\ devTail \in Index /\ hdbl \in Index
  BY DEF TypeOK, CqTypeOK, DeviceTypeOK, MemTypeOK
<1>4. devTail' # cqHead
  <2>1. CASE cqHead = hdbl
    BY <1>1, <2>1
  <2>2. CASE cqHead = Wrap(hdbl + 1) /\ hdbl # devTail
    BY <1>1, <1>3, <2>2, WrapNext, SizeAssumption DEF Index
  <2>. QED BY <2>1, <2>2 DEF RingsInOrder, CqInOrder
<1>5. /\ Span(cqHead, devTail') = Span(cqHead, devTail) \union {devTail}
      /\ devTail \notin Span(cqHead, devTail)
  BY <1>1, <1>3, <1>4, SpanExtend
<1>6. \A e \in Index : cqes'[e].p = FreshTag(e) <=> e \in Span(cqHead, devTail')
  <2>1. cqes'[devTail].p = devPhase
    BY <1>2, <1>3 DEF TypeOK, MemTypeOK
  <2>2. \A e \in Index : e # devTail => cqes'[e] = cqes[e]
    BY <1>2 DEF TypeOK, MemTypeOK
  <2>. QED BY <1>3, <1>5, <2>1, <2>2 DEF TagsInOrder
<1>7. devPhase' = FreshTag(devTail')
  <2>1. devPhase = IF cqHead <= devTail THEN phase ELSE ~phase
    BY DEF TagsInOrder, FreshTag
  <2>2. CASE devTail = Size - 1
    <3>1. devTail' = 0 /\ cqHead <= devTail /\ ~(cqHead <= devTail')
      BY <1>1, <1>3, <1>4, <2>2, WrapNext, SizeAssumption DEF Index
    <3>. QED BY <1>1, <2>1, <3>1 DEF FreshTag
  <2>3. CASE devTail # Size - 1
    <3>1. devTail' # 0 /\ (cqHead <= devTail <=> cqHead <= devTail')
      BY <1>1, <1>3, <1>4, <2>3, WrapNext, SizeAssumption DEF Index
    <3>. QED BY <1>1, <2>1, <3>1 DEF FreshTag
  <2>. QED BY <2>2, <2>3
<1>. QED BY <1>1, <1>6, <1>7 DEF TagsInOrder, FreshTag

-----------------------------------------------------------------------------
(* The last head reported.                                                 *)

(* A step that touches neither the device nor the entries posted keeps     *)
(* what the last head reported means.                                      *)
LEMMA HeadStays ==
  ASSUME HeadReported, UNCHANGED <<sqHead, devHead, devTail, executing>>,
         FirstPosted' = FirstPosted,
         \A e \in Posted : cqes'[e].sqhd = cqes[e].sqhd
  PROVE  HeadReported'
<1>1. Posted' = Posted
  BY DEF Posted
<1>. QED BY <1>1 DEF HeadReported

(* complete() takes over the head that was reported.                       *)
LEMMA HeadComplete ==
  ASSUME TypeOK, RingsInOrder, HeadReported, Complete
  PROVE  HeadReported'
<1>1. /\ pc = "complete" /\ pc' = "callback" /\ sqHead' = cqes[cqe].sqhd
      /\ UNCHANGED <<cqHead, cqes, devHead, devTail, executing>>
  BY DEF Complete, cqVars, deviceVars
<1>2. /\ cqe \in Posted /\ cqe \in Index /\ Posted' = Posted \ {cqe}
      /\ Posted' = Span(cqHead, devTail) /\ cqHead = Wrap(cqe + 1)
  BY <1>1, CompletedPosted DEF FirstPosted, Posted, RingsInOrder, CqInOrder
<1>3. Posted' = {} => Wrap(cqe + 1) = devTail
  BY <1>2, PositionsTyped, SpanShrink DEF Positions
<1>. QED BY <1>1, <1>2, <1>3 DEF HeadReported

(* A completion reports the device's head of that moment.                  *)
LEMMA HeadDevComplete ==
  ASSUME TypeOK, RingsInOrder, HeadReported, NEW m \in executing, DevComplete(m)
  PROVE  HeadReported'
<1>1. /\ Wrap(devTail + 1) # hdbl /\ devTail' = Wrap(devTail + 1)
      /\ UNCHANGED <<sqHead, cqHead, pc, cqe, devHead>>
  BY DEF DevComplete, sqVars, cqVars, driverVars
<1>2. PICK status \in Status :
        cqes' = [cqes EXCEPT ![devTail] = [cid |-> m.cid, sqhd |-> devHead,
                                           p |-> devPhase, sf |-> status]]
  BY DEF DevComplete
<1>3. Positions
  BY PositionsTyped
<1>4. Posted' = Posted \union {devTail}
  BY <1>1, PostedSlot DEF Posted, FirstPosted
<1>5. cqes'[devTail].sqhd = devHead
  BY <1>2, <1>3 DEF TypeOK, MemTypeOK, Positions
<1>6. \A e \in Posted' : Wrap(e + 1) = Wrap(devTail + 1) => e = devTail
  BY <1>3, <1>4, WrapInjective DEF Positions
<1>. QED BY <1>1, <1>4, <1>5, <1>6 DEF HeadReported

-----------------------------------------------------------------------------
(* Commands the device sees are whole.                                     *)

(* A step that touches neither commands nor lists keeps the commands       *)
(* whole.                                                                  *)
LEMMA WholeStays ==
  ASSUME QueuedWhole, DeviceSeesWholeCommands,
         UNCHANGED <<sqTail, sqe, sqes, lists, devHead, executing>>
  PROVE  QueuedWhole' /\ DeviceSeesWholeCommands'
BY DEF QueuedWhole, DeviceSeesWholeCommands, Queued

(* A slot handed out by produce() is not yet one the device may fetch, and *)
(* its identifier is that of no other command.                             *)
LEMMA WholeProduce ==
  ASSUME TypeOK, RingsInOrder, QueuedWhole, sqe = None,
         NEW r \in Requests, NEW cid \in Index, NEW nlb \in BOOLEAN,
         Produce(cid, r),
         sqes' = [sqes EXCEPT ![sqTail] = [cid |-> cid, req |-> r, nlb |-> nlb]],
         sqe' = sqTail \/ (nlb /\ r \in ZeroRequests),
         UNCHANGED <<lists, devHead>>
  PROVE  QueuedWhole'
<1>1. ~IsFull /\ sqTail' = Wrap(sqTail + 1)
  BY DEF Produce, NoEntry
<1>2. /\ Queued' = Queued \union {sqTail} /\ sqTail \notin Queued
      /\ sqTail \in Index /\ Queued \subseteq Index
  BY <1>1, ProduceSlot, PositionsTyped DEF Queued, Positions
<1>3. /\ \A s \in Queued : sqes'[s] = sqes[s]
      /\ sqes'[sqTail].nlb = nlb /\ sqes'[sqTail].req = r
  BY <1>2 DEF TypeOK, MemTypeOK
<1>4. \A s \in Queued : s # sqe
  BY <1>2, NoneAssumption DEF Index
<1>. QED BY <1>2, <1>3, <1>4 DEF QueuedWhole

(* The command in preparation is in the SQ.                                *)
LEMMA PreparedQueued ==
  ASSUME TypeOK, RingsInOrder, sqe # None
  PROVE  sqe \in Queued /\ sqe \in Index
<1>1. Positions /\ sqe = tdbl /\ sqTail = Wrap(tdbl + 1)
  BY PositionsTyped DEF RingsInOrder, SqInOrder
<1>2. /\ Distance(devHead, tdbl) = Distance(sqHead, tdbl) - Distance(sqHead, devHead)
      /\ Distance(devHead, sqTail) = Distance(sqHead, sqTail) - Distance(sqHead, devHead)
  BY <1>1, DistanceFrom, DistanceNat DEF Positions, RingsInOrder, SqInOrder
<1>3. Distance(sqHead, tdbl) < Distance(sqHead, sqTail)
  <2>1. sqTail # tdbl
    BY <1>1, WrapNext, SizeAssumption DEF Positions, Index
  <2>2. Distance(sqHead, tdbl) # Distance(sqHead, sqTail)
    BY <1>1, <2>1, DistanceInjective DEF Positions
  <2>. QED BY <1>1, <2>2, DistanceNat DEF Positions, RingsInOrder, SqInOrder
<1>. QED BY <1>1, <1>2, <1>3, DistanceNat DEF Positions, Queued, Span

(* When readwrite_submit() rings the doorbell the command's list and       *)
(* length are written.                                                     *)
LEMMA WholeReadwriteSubmit ==
  ASSUME TypeOK, RingsInOrder, IdsDistinct, QueuedWhole, DeviceSeesWholeCommands,
         ReadwriteSubmit
  PROVE  QueuedWhole' /\ DeviceSeesWholeCommands'
<1>1. /\ sqe # None /\ sqe' = None
      /\ lists' = [lists EXCEPT ![sqes[sqe].cid] = sqes[sqe].req]
      /\ sqes' = [sqes EXCEPT ![sqe].nlb = TRUE]
      /\ UNCHANGED <<sqTail, devHead, executing>>
  BY DEF ReadwriteSubmit, sqVars, deviceVars
<1>2. sqe \in Queued /\ sqe \in Index /\ Queued' = Queued /\ Queued \subseteq Index
  BY <1>1, PreparedQueued, PositionsTyped DEF Queued, Positions
<1>3. /\ sqes'[sqe].nlb /\ sqes'[sqe].cid = sqes[sqe].cid
      /\ sqes'[sqe].req = sqes[sqe].req
      /\ \A s \in Queued \ {sqe} : sqes'[s] = sqes[s]
  BY <1>1, <1>2 DEF TypeOK, MemTypeOK, Sqe
<1>4. sqes[sqe].cid \in Index
  BY <1>2 DEF TypeOK, MemTypeOK, Sqe
<1>5. /\ lists'[sqes[sqe].cid] = sqes[sqe].req
      /\ \A c \in Index : c # sqes[sqe].cid => lists'[c] = lists[c]
  BY <1>1, <1>4 DEF TypeOK, MemTypeOK
<1>6. /\ \A s \in Queued \ {sqe} : sqes[s].cid # sqes[sqe].cid /\ sqes[s].cid \in Index
      /\ \A m \in executing : m.cid # sqes[sqe].cid /\ m.cid \in Index
  BY <1>2 DEF IdsDistinct, TypeOK, MemTypeOK, DeviceTypeOK, Sqe
<1>7. QueuedWhole'
  BY <1>2, <1>3, <1>5, <1>6 DEF QueuedWhole
<1>8. DeviceSeesWholeCommands'
  BY <1>1, <1>5, <1>6 DEF DeviceSeesWholeCommands
<1>. QED BY <1>7, <1>8

(* complete() gives back the list of the completed command and of no       *)
(* other.                                                                  *)
LEMMA WholeComplete ==
  ASSUME TypeOK, RingsInOrder, IdsDistinct, QueuedWhole, DeviceSeesWholeCommands,
         Complete
  PROVE  QueuedWhole' /\ DeviceSeesWholeCommands'
<1>1. /\ pc = "complete" /\ lists' = [lists EXCEPT ![cqes[cqe].cid] = None]
      /\ UNCHANGED <<sqTail, sqe, sqes, devHead, executing>>
  BY DEF Complete, deviceVars
<1>2. cqe \in Posted /\ cqe \in Index
  BY <1>1, CompletedPosted
<1>3. cqes[cqe].cid \in Index
  BY <1>2 DEF TypeOK, MemTypeOK, Cqe
<1>4. \A c \in Index : c # cqes[cqe].cid => lists'[c] = lists[c]
  BY <1>1, <1>3 DEF TypeOK, MemTypeOK
<1>5. /\ \A s \in Queued : sqes[s].cid # cqes[cqe].cid /\ sqes[s].cid \in Index
      /\ \A m \in executing : m.cid # cqes[cqe].cid /\ m.cid \in Index
  BY <1>2 DEF IdsDistinct, TypeOK, MemTypeOK, DeviceTypeOK, Sqe, Queued, Span
<1>6. QueuedWhole'
  BY <1>1, <1>4, <1>5 DEF QueuedWhole, Queued
<1>7. DeviceSeesWholeCommands'
  BY <1>1, <1>4, <1>5 DEF DeviceSeesWholeCommands
<1>. QED BY <1>6, <1>7

(* The device fetches only whole commands.                                 *)
LEMMA WholeFetch ==
  ASSUME TypeOK, RingsInOrder, QueuedWhole, DeviceSeesWholeCommands, DevFetch
  PROVE  QueuedWhole' /\ DeviceSeesWholeCommands'
<1>1. /\ devHead # tdbl /\ devHead' = Wrap(devHead + 1)
      /\ executing' = executing \union {sqes[devHead]}
      /\ sqes' = [sqes EXCEPT ![devHead] = DeadSqe]
      /\ UNCHANGED <<sqTail, sqe, lists>>
  BY DEF DevFetch, sqVars, driverVars
<1>2. devHead \in Queued /\ Queued' = Queued \ {devHead} /\ Queued \subseteq Index
  BY <1>1, FetchedQueued, PositionsTyped DEF Queued, Positions
<1>3. devHead # sqe
  BY <1>1, <1>2, NoneAssumption DEF RingsInOrder, SqInOrder, Index
<1>4. \A s \in Queued \ {devHead} : sqes'[s] = sqes[s]
  BY <1>1, <1>2 DEF TypeOK, MemTypeOK
<1>5. QueuedWhole'
  BY <1>1, <1>2, <1>4 DEF QueuedWhole
<1>6. DeviceSeesWholeCommands'
  BY <1>1, <1>2, <1>3 DEF QueuedWhole, DeviceSeesWholeCommands
<1>. QED BY <1>5, <1>6

-----------------------------------------------------------------------------
(* Nobody is forgotten.                                                    *)

(* There is room in the queue when no command is outstanding.              *)
LEMMA RoomWhenIdle ==
  ASSUME TypeOK, CommandsAccountedFor, RingsInOrder, HeadReported, Occupied = {}
  PROVE  ~NoEntry
<1>1. Positions
  BY PositionsTyped
<1>2. inFlight = 0
  BY FS_EmptySet DEF CommandsAccountedFor
<1>3. Queued = {} /\ executing = {} /\ Posted = {}
  BY DEF CommandsAccountedFor, IdsCovered
<1>4. devHead = sqTail
  BY <1>1, <1>3, SpanShrink DEF Queued, Positions
<1>5. sqHead = sqTail
  BY <1>3, <1>4 DEF HeadReported
<1>6. Wrap(sqTail + 1) # sqTail
  BY <1>1, WrapNext, SizeAssumption DEF Positions, Index
<1>. QED BY <1>2, <1>5, <1>6, SizeAssumption DEF NoEntry, IsFull

(* -L4_EBUSY is returned only while a command is outstanding (produce(),   *)
(* queue.h:216).                                                           *)
LEMMA WakerRefuse ==
  ASSUME TypeOK, CommandsAccountedFor, RingsInOrder, HeadReported, RefusedHasWaker,
         NEW r \in Requests, Refuse(r)
  PROVE  RefusedHasWaker'
<1>1. Occupied # {}
  BY RoomWhenIdle DEF Refuse
<1>2. Occupied' = Occupied
  BY DEF Refuse, sqVars, Occupied
<1>. QED BY <1>1, <1>2 DEF RefusedHasWaker

(* An accepted request is itself outstanding.                              *)
LEMMA WakerProduce ==
  ASSUME TypeOK, NEW r \in Requests, NEW cid \in Index, Produce(cid, r)
  PROVE  RefusedHasWaker'
<1>1. callbacks'[cid] = r
  BY DEF Produce, TypeOK, SqTypeOK
<1>. QED BY <1>1, NoneAssumption DEF RefusedHasWaker, Occupied

(* A completion tells the refused requests to try again.                   *)
LEMMA WakerComplete ==
  ASSUME TypeOK, Complete
  PROVE  RefusedHasWaker'
<1>. DEFINE r == callbacks[cqes[cqe].cid]
<1>1. /\ request' = [request EXCEPT ![r] = cqes[cqe].sf]
      /\ retry' = (\E q \in Requests : request[q] = "refused")
  BY DEF Complete
<1>2. cqes[cqe].sf # "refused"
  BY DEF Complete, TypeOK, DriverTypeOK, MemTypeOK, Cqe, Status
<1>. HIDE DEF r
<1>3. \A q \in Requests : request'[q] = "refused" => request[q] = "refused"
  BY <1>1, <1>2 DEF TypeOK, ClientTypeOK
<1>. QED BY <1>1, <1>3 DEF RefusedHasWaker

(* A step that refuses, accepts and completes nothing takes no waker away. *)
LEMMA WakerStays ==
  ASSUME RefusedHasWaker, UNCHANGED <<request, retry, callbacks>>
  PROVE  RefusedHasWaker'
BY DEF RefusedHasWaker, Occupied

-----------------------------------------------------------------------------
(* The invariant is inductive.                                             *)

(* The invariant holds of two freshly created queues.                      *)
LEMMA InvInit == Init => IInv
<1>. SUFFICES ASSUME Init PROVE IInv
  OBVIOUS
<1>. USE DEF Init
<1>1. TypeOK
  BY TypeInit
<1>2. Queued = {} /\ Posted = {} /\ executing = {} /\ FirstPosted = 0
  BY DeadTyped, SpanEmpty DEF Queued, Posted, FirstPosted
<1>3. Occupied = {}
  BY DEF Occupied
<1>4. CommandsAccountedFor
  BY <1>2, <1>3, FS_EmptySet
  DEF CommandsAccountedFor, CallbacksMatch, IdsDistinct, IdsCovered
<1>5. RingsInOrder
  BY <1>2, DeadTyped, DistanceNat DEF RingsInOrder, HeadsInOrder, SqInOrder, CqInOrder
<1>6. TagsInOrder
  <2>1. \A e \in Index : FreshTag(e) = TRUE /\ cqes[e].p = FALSE
    BY DEF FreshTag, Index, DeadCqe
  <2>. QED BY <2>1, DeadTyped, SpanEmpty DEF TagsInOrder
<1>7. HeadReported
  BY <1>2 DEF HeadReported
<1>8. QueuedWhole /\ DeviceSeesWholeCommands
  BY <1>2 DEF QueuedWhole, DeviceSeesWholeCommands
<1>9. InterruptKept
  BY DEF InterruptKept
<1>10. RefusedHasWaker
  BY DEF RefusedHasWaker
<1>. QED BY <1>1, <1>4, <1>5, <1>6, <1>7, <1>8, <1>9, <1>10 DEF IInv

(* Steps that move no command, no entry and no position.                   *)
LEMMA InvQuiet ==
  ASSUME IInv, TypeOK', UNCHANGED <<sqVars, cqVars, sqe, cqe, memVars, deviceVars>>,
         \/ pc' = pc
         \/ /\ {pc, pc'} \subseteq {"idle", "consume", "return"}
            /\ sqe = None
  PROVE  /\ CommandsAccountedFor' /\ RingsInOrder' /\ TagsInOrder' /\ HeadReported'
         /\ QueuedWhole' /\ DeviceSeesWholeCommands'
<1>. USE DEF IInv, sqVars, cqVars, memVars, deviceVars
<1>1. FirstPosted' = FirstPosted
  BY DEF FirstPosted
<1>2. CommandsAccountedFor'
  BY <1>1, CommandsStay
<1>3. HeadsInOrder'
  BY <1>1, HeadsStay DEF RingsInOrder
<1>4. SqInOrder' /\ CqInOrder'
  BY DEF RingsInOrder, SqInOrder, CqInOrder
<1>5. TagsInOrder'
  BY TagsStay
<1>6. HeadReported'
  BY <1>1, HeadStays
<1>7. QueuedWhole' /\ DeviceSeesWholeCommands'
  BY WholeStays
<1>. QED BY <1>2, <1>3, <1>4, <1>5, <1>6, <1>7 DEF RingsInOrder

(* Every step of the driver, the device and the clients keeps the          *)
(* invariant.                                                              *)
LEMMA InvStep == IInv /\ [Next]_vars => IInv'
<1>. SUFFICES ASSUME IInv, [Next]_vars PROVE IInv'
  OBVIOUS
<1>. USE DEF sqVars, cqVars, driverVars, memVars, deviceVars, irqVars, clientVars
<1>0. /\ TypeOK /\ TypeOK' /\ CommandsAccountedFor /\ RingsInOrder /\ TagsInOrder
      /\ HeadReported /\ QueuedWhole /\ DeviceSeesWholeCommands
      /\ InterruptKept /\ RefusedHasWaker
  BY TypeStep DEF IInv
<1>1. ASSUME NEW r \in Requests, Refuse(r) PROVE IInv'
  <2>1. InterruptKept'
    BY <1>0, <1>1 DEF Refuse, InterruptKept
  <2>2. RefusedHasWaker'
    BY <1>0, <1>1, WakerRefuse
  <2>. QED BY <1>0, <1>1, <2>1, <2>2, InvQuiet DEF Refuse, IInv
<1>2. ASSUME NEW r \in Requests, InoutData(r) PROVE IInv'
  <2>1. PICK cid \in Index :
          /\ Produce(cid, r)
          /\ sqes' = [sqes EXCEPT
                        ![sqTail] = [cid |-> cid, req |-> r, nlb |-> FALSE]]
    BY <1>2 DEF InoutData
  <2>2. /\ sqe = None /\ sqe' = sqTail
        /\ UNCHANGED <<cqHead, phase, pc, cqe, cqes, lists, devHead, devTail,
                       devPhase, executing, irqVars>>
    BY <1>2 DEF InoutData, MayIssue, ClientRuns
  <2>3. CommandsAccountedFor'
    BY <1>0, <2>1, <2>2, CommandsProduce
  <2>4. RingsInOrder'
    BY <1>0, <1>2, RingsInoutData
  <2>5. TagsInOrder'
    BY <1>0, <2>2, TagsStay
  <2>6. HeadReported'
    <3>1. sqHead' = sqHead
      BY <2>1 DEF Produce
    <3>. QED BY <1>0, <2>2, <3>1, HeadStays DEF FirstPosted
  <2>7. QueuedWhole'
    BY <1>0, <2>1, <2>2, WholeProduce
  <2>8. DeviceSeesWholeCommands'
    BY <1>0, <2>2 DEF DeviceSeesWholeCommands
  <2>9. InterruptKept'
    BY <1>0, <2>2 DEF InterruptKept
  <2>10. RefusedHasWaker'
    BY <1>0, <2>1, WakerProduce
  <2>. QED BY <1>0, <2>3, <2>4, <2>5, <2>6, <2>7, <2>8, <2>9, <2>10 DEF IInv
<1>3. ASSUME NEW r \in Requests, WriteZeroes(r) PROVE IInv'
  <2>1. PICK cid \in Index :
          /\ Produce(cid, r)
          /\ sqes' = [sqes EXCEPT
                        ![sqTail] = [cid |-> cid, req |-> r, nlb |-> TRUE]]
    BY <1>3 DEF WriteZeroes
  <2>2. /\ sqe = None /\ r \in ZeroRequests
        /\ UNCHANGED <<cqHead, phase, pc, cqe, cqes, lists, devHead, devTail,
                       devPhase, executing, irqVars>>
    BY <1>3 DEF WriteZeroes, MayIssue, ClientRuns
  <2>3. CommandsAccountedFor'
    BY <1>0, <2>1, <2>2, CommandsProduce
  <2>4. RingsInOrder'
    BY <1>0, <1>3, RingsWriteZeroes
  <2>5. TagsInOrder'
    BY <1>0, <2>2, TagsStay
  <2>6. HeadReported'
    <3>1. sqHead' = sqHead
      BY <2>1 DEF Produce
    <3>. QED BY <1>0, <2>2, <3>1, HeadStays DEF FirstPosted
  <2>7. QueuedWhole'
    BY <1>0, <2>1, <2>2, WholeProduce
  <2>8. DeviceSeesWholeCommands'
    BY <1>0, <2>2 DEF DeviceSeesWholeCommands
  <2>9. InterruptKept'
    BY <1>0, <2>2 DEF InterruptKept
  <2>10. RefusedHasWaker'
    BY <1>0, <2>1, WakerProduce
  <2>. QED BY <1>0, <2>3, <2>4, <2>5, <2>6, <2>7, <2>8, <2>9, <2>10 DEF IInv
<1>4. CASE ReadwriteSubmit
  <2>1. /\ sqe # None /\ sqes' = [sqes EXCEPT ![sqe].nlb = TRUE]
        /\ UNCHANGED <<sqVars, cqVars, pc, cqe, cqes, hdbl, deviceVars, irqVars,
                       clientVars>>
    BY <1>4 DEF ReadwriteSubmit
  <2>2. FirstPosted' = FirstPosted
    BY <2>1 DEF FirstPosted
  <2>3. CommandsAccountedFor'
    <3>1. \A s \in Queued : sqes'[s].cid = sqes[s].cid /\ sqes'[s].req = sqes[s].req
      BY <1>0, <2>1, PreparedQueued, PositionsTyped
      DEF Positions, TypeOK, MemTypeOK, Sqe
    <3>. QED BY <1>0, <2>1, <2>2, <3>1, CommandsStay
  <2>4. RingsInOrder'
    BY <1>0, <1>4, RingsReadwriteSubmit
  <2>5. TagsInOrder'
    BY <1>0, <2>1, TagsStay
  <2>6. HeadReported'
    BY <1>0, <2>1, <2>2, HeadStays
  <2>7. QueuedWhole' /\ DeviceSeesWholeCommands'
    BY <1>0, <1>4, WholeReadwriteSubmit DEF CommandsAccountedFor
  <2>8. InterruptKept'
    BY <1>0, <2>1 DEF InterruptKept
  <2>9. RefusedHasWaker'
    BY <1>0, <2>1, WakerStays
  <2>. QED BY <1>0, <2>3, <2>4, <2>5, <2>6, <2>7, <2>8, <2>9 DEF IInv
<1>5. CASE HandleIrq
  <2>1. InterruptKept'
    BY <1>5 DEF HandleIrq, InterruptKept
  <2>2. RefusedHasWaker'
    BY <1>0, <1>5, WakerStays DEF HandleIrq
  <2>. QED BY <1>0, <1>5, <2>1, <2>2, InvQuiet DEF HandleIrq, ClientRuns, IInv
<1>6. CASE Consume
  <2>1. /\ pc = "consume" /\ pc' = "complete" /\ cqe' = cqHead
        /\ UNCHANGED <<sqVars, sqe, memVars, deviceVars, irqVars, clientVars>>
    BY <1>6 DEF Consume
  <2>2. FirstPosted' = FirstPosted
    BY <2>1 DEF FirstPosted
  <2>3. TagsInOrder' /\ cqHead # devTail
    BY <1>0, <1>6, TagsConsume
  <2>4. RingsInOrder'
    BY <1>0, <1>6, <2>3, RingsConsume
  <2>5. CommandsAccountedFor'
    BY <1>0, <2>1, <2>2, CommandsStay
  <2>6. HeadReported'
    BY <1>0, <2>1, <2>2, HeadStays
  <2>7. QueuedWhole' /\ DeviceSeesWholeCommands'
    BY <1>0, <2>1, WholeStays
  <2>8. InterruptKept'
    BY <2>1 DEF InterruptKept
  <2>9. RefusedHasWaker'
    BY <1>0, <2>1, WakerStays
  <2>. QED BY <1>0, <2>3, <2>4, <2>5, <2>6, <2>7, <2>8, <2>9 DEF IInv
<1>7. CASE NothingLeft
  <2>1. cqHead = devTail
    BY <1>0, <1>7, TagAtHead DEF NothingLeft, FreshIffPosted
  <2>2. InterruptKept'
    BY <1>7, <2>1 DEF NothingLeft, InterruptKept
  <2>3. RefusedHasWaker'
    BY <1>0, <1>7, WakerStays DEF NothingLeft
  <2>4. sqe = None
    BY <1>0, <1>7 DEF NothingLeft, RingsInOrder, SqInOrder
  <2>. QED BY <1>0, <1>7, <2>2, <2>3, <2>4, InvQuiet DEF NothingLeft, IInv
<1>8. CASE HandlerDone
  <2>1. InterruptKept'
    BY <1>0, <1>8 DEF HandlerDone, InterruptKept
  <2>2. RefusedHasWaker'
    BY <1>0, <1>8, WakerStays DEF HandlerDone
  <2>3. sqe = None
    BY <1>0, <1>8 DEF HandlerDone, RingsInOrder, SqInOrder
  <2>. QED BY <1>0, <1>8, <2>1, <2>2, <2>3, InvQuiet DEF HandlerDone, IInv
<1>9. CASE Complete
  <2>1. /\ pc' = "callback"
        /\ UNCHANGED <<cqHead, phase, cqes, devTail, devPhase>>
    BY <1>9 DEF Complete
  <2>2. CommandsAccountedFor'
    BY <1>0, <1>9, CommandsComplete
  <2>3. RingsInOrder'
    BY <1>0, <1>9, RingsComplete
  <2>4. TagsInOrder'
    BY <1>0, <2>1, TagsStay
  <2>5. HeadReported'
    BY <1>0, <1>9, HeadComplete
  <2>6. QueuedWhole' /\ DeviceSeesWholeCommands'
    BY <1>0, <1>9, WholeComplete DEF CommandsAccountedFor
  <2>7. InterruptKept'
    BY <2>1 DEF InterruptKept
  <2>8. RefusedHasWaker'
    BY <1>0, <1>9, WakerComplete
  <2>. QED BY <1>0, <2>2, <2>3, <2>4, <2>5, <2>6, <2>7, <2>8 DEF IInv
<1>10. CASE Acknowledge
  <2>1. /\ pc = "callback" /\ pc' = "consume"
        /\ cqes' = [cqes EXCEPT ![cqe] = DeadCqe(cqes[cqe].p)]
        /\ UNCHANGED <<sqVars, cqVars, sqe, sqes, lists, tdbl, deviceVars, irqVars,
                       clientVars>>
    BY <1>10 DEF Acknowledge
  <2>2. FirstPosted' = FirstPosted
    BY <2>1 DEF FirstPosted
  <2>3. RingsInOrder' /\ cqe \notin Posted /\ cqe \in Index
    BY <1>0, <1>10, RingsAcknowledge
  <2>4. \A e \in Index : cqes'[e].p = cqes[e].p /\ (e # cqe => cqes'[e] = cqes[e])
    BY <1>0, <2>1, <2>3 DEF TypeOK, MemTypeOK, DeadCqe
  <2>5. \A e \in Posted : cqes'[e] = cqes[e]
    BY <1>0, <2>3, <2>4, PositionsTyped DEF Positions
  <2>6. CommandsAccountedFor'
    BY <1>0, <2>1, <2>2, <2>5, CommandsStay
  <2>7. TagsInOrder'
    BY <1>0, <2>1, <2>4, TagsStay
  <2>8. HeadReported'
    BY <1>0, <2>1, <2>2, <2>5, HeadStays
  <2>9. QueuedWhole' /\ DeviceSeesWholeCommands'
    BY <1>0, <2>1, WholeStays
  <2>10. InterruptKept'
    BY <2>1 DEF InterruptKept
  <2>11. RefusedHasWaker'
    BY <1>0, <2>1, WakerStays
  <2>. QED BY <1>0, <2>3, <2>6, <2>7, <2>8, <2>9, <2>10, <2>11 DEF IInv
<1>11. CASE DevFetch
  <2>1. UNCHANGED <<sqVars, cqVars, driverVars, cqes, lists, tdbl, hdbl, devTail,
                    devPhase, irqVars, clientVars>>
    BY <1>11 DEF DevFetch
  <2>2. CommandsAccountedFor'
    BY <1>0, <1>11, CommandsFetch
  <2>3. RingsInOrder'
    BY <1>0, <1>11, RingsFetch
  <2>4. TagsInOrder'
    BY <1>0, <2>1, TagsStay
  <2>5. HeadReported'
    BY <1>11 DEF DevFetch, HeadReported
  <2>6. QueuedWhole' /\ DeviceSeesWholeCommands'
    BY <1>0, <1>11, WholeFetch
  <2>7. InterruptKept'
    BY <1>0, <2>1 DEF InterruptKept
  <2>8. RefusedHasWaker'
    BY <1>0, <2>1, WakerStays
  <2>. QED BY <1>0, <2>2, <2>3, <2>4, <2>5, <2>6, <2>7, <2>8 DEF IInv
<1>12. ASSUME NEW m \in executing, DevComplete(m) PROVE IInv'
  <2>1. /\ executing' = executing \ {m} /\ irqPending' = edgeTriggered
        /\ UNCHANGED <<sqVars, cqVars, driverVars, sqes, lists, tdbl, hdbl, devHead,
                       edgeTriggered, irqMasked, request, retry>>
    BY <1>12 DEF DevComplete
  <2>2. CommandsAccountedFor'
    BY <1>0, <1>12, CommandsDevComplete
  <2>3. RingsInOrder'
    BY <1>0, <1>12, RingsDevComplete
  <2>4. TagsInOrder'
    BY <1>0, <1>12, TagsDevComplete
  <2>5. HeadReported'
    BY <1>0, <1>12, HeadDevComplete
  <2>6. QueuedWhole' /\ DeviceSeesWholeCommands'
    BY <1>0, <2>1 DEF QueuedWhole, DeviceSeesWholeCommands, Queued
  <2>7. InterruptKept'
    BY <1>0, <2>1 DEF InterruptKept
  <2>8. RefusedHasWaker'
    BY <1>0, <2>1, WakerStays
  <2>. QED BY <1>0, <2>2, <2>3, <2>4, <2>5, <2>6, <2>7, <2>8 DEF IInv
<1>13. CASE UNCHANGED vars
  <2>1. InterruptKept' /\ RefusedHasWaker'
    BY <1>0, <1>13, WakerStays DEF vars, InterruptKept
  <2>. QED BY <1>0, <1>13, <2>1, InvQuiet DEF vars, IInv
<1>. QED
  BY <1>1, <1>2, <1>3, <1>4, <1>5, <1>6, <1>7, <1>8, <1>9, <1>10, <1>11,
     <1>12, <1>13
  DEF Next, Issue, Driver, Handler, Device

(* In every reachable state, for every ring size and any requests: each    *)
(* identifier, callback and slot has its one place; going round both rings *)
(* heads, doorbells and tails come in their order; the phase tags tell     *)
(* fresh entries from old ones; the heads the controller has reported, and *)
(* the one the driver goes by, are never ahead of its own; and there is an *)
(* interrupt for what waits (queue.h:212-318).                             *)
THEOREM InvCorrect == Spec => []IInv
BY InvInit, InvStep, PTL DEF Spec

-----------------------------------------------------------------------------
(* What follows from it.                                                   *)

(* No command is lost, duplicated or confused with another one: the        *)
(* identifiers in the SQ, in the device and in the CQ are distinct, are    *)
(* those given away, and lead back to the right callback.                  *)
THEOREM AccountingCorrect == Spec => []CommandsAccountedFor
<1>. IInv => CommandsAccountedFor
  BY DEF IInv
<1>. QED BY InvCorrect, PTL

(* The device never executes a command whose length or list the driver has *)
(* not written, or whose list describes another request's buffers.         *)
THEOREM WholeCorrect == Spec => []DeviceSeesWholeCommands
<1>. IInv => DeviceSeesWholeCommands
  BY DEF IInv
<1>. QED BY InvCorrect, PTL

(* consume() takes exactly the entries that were posted, on every lap.     *)
THEOREM TagsCorrect == Spec => []FreshIffPosted
<1>. IInv => FreshIffPosted
  BY TagAtHead DEF IInv
<1>. QED BY InvCorrect, PTL

(* The search loop of produce() always finds a free identifier.            *)
THEOREM SearchCorrect == Spec => []SearchTerminates
<1>1. IInv => SearchTerminates
  <2>. SUFFICES ASSUME IInv, Occupied = Index, ~NoEntry PROVE FALSE
    BY DEF SearchTerminates
  <2>1. inFlight = Size
    BY OccupiedFinite DEF IInv, CommandsAccountedFor
  <2>. QED BY <2>1, SizeAssumption DEF NoEntry
<1>. QED BY <1>1, InvCorrect, PTL

(* -L4_EBUSY is never the last a client hears: a refused request has been  *)
(* told to try again or a completion that will tell it is outstanding.     *)
THEOREM WakerCorrect == Spec => []RefusedHasWaker
<1>. IInv => RefusedHasWaker
  BY DEF IInv
<1>. QED BY InvCorrect, PTL

(* No interrupt is lost, be it edge- or level-triggered.                   *)
THEOREM InterruptCorrect == Spec => []InterruptOnTheWay
<1>1. IInv => InterruptOnTheWay
  BY DEF IInv, InterruptKept, InterruptOnTheWay, Interrupt, RingsInOrder, CqInOrder
<1>. QED BY <1>1, InvCorrect, PTL

(* What NoCommandLost says of the command in slot s.                       *)
Kept(s) ==
  \/ s = devHead /\ devHead' # devHead
  \/ /\ s \in Queued'
     /\ sqes'[s].cid = sqes[s].cid /\ sqes'[s].req = sqes[s].req

(* produce() puts its command behind those the device has not fetched.     *)
LEMMA KeptProduce ==
  ASSUME TypeOK, RingsInOrder,
         NEW r \in Requests, NEW cid \in Index, NEW nlb \in BOOLEAN,
         Produce(cid, r),
         sqes' = [sqes EXCEPT ![sqTail] = [cid |-> cid, req |-> r, nlb |-> nlb]],
         UNCHANGED devHead
  PROVE  \A s \in Queued : Kept(s)
<1>1. ~IsFull /\ sqTail' = Wrap(sqTail + 1)
  BY DEF Produce, NoEntry
<1>2. /\ Queued' = Queued \union {sqTail} /\ sqTail \notin Queued
      /\ sqTail \in Index /\ Queued \subseteq Index
  BY <1>1, ProduceSlot, PositionsTyped DEF Queued, Positions
<1>3. \A s \in Queued : sqes'[s] = sqes[s]
  BY <1>2 DEF TypeOK, MemTypeOK
<1>. QED BY <1>2, <1>3 DEF Kept

(* No step takes a command out of the SQ or changes whose it is, but the   *)
(* device's fetching of the next one.                                      *)
LEMMA KeptStep ==
  ASSUME IInv, Next
  PROVE  \A s \in Queued : Kept(s)
<1>0. TypeOK /\ RingsInOrder /\ Queued \subseteq Index
  BY DEF IInv, Queued, Span
<1>. USE DEF sqVars, cqVars, driverVars, memVars, deviceVars, irqVars, clientVars
<1>1. ASSUME NEW r \in Requests, InoutData(r) PROVE \A s \in Queued : Kept(s)
  <2>1. UNCHANGED devHead
    BY <1>1 DEF InoutData
  <2>2. PICK cid \in Index :
          /\ Produce(cid, r)
          /\ sqes' = [sqes EXCEPT
                        ![sqTail] = [cid |-> cid, req |-> r, nlb |-> FALSE]]
    BY <1>1 DEF InoutData
  <2>. QED BY <1>0, <2>1, <2>2, KeptProduce
<1>2. ASSUME NEW r \in Requests, WriteZeroes(r) PROVE \A s \in Queued : Kept(s)
  <2>1. UNCHANGED devHead
    BY <1>2 DEF WriteZeroes
  <2>2. PICK cid \in Index :
          /\ Produce(cid, r)
          /\ sqes' = [sqes EXCEPT
                        ![sqTail] = [cid |-> cid, req |-> r, nlb |-> TRUE]]
    BY <1>2 DEF WriteZeroes
  <2>. QED BY <1>0, <2>1, <2>2, KeptProduce
<1>3. CASE ReadwriteSubmit
  <2>1. /\ sqe # None
        /\ sqes' = [sqes EXCEPT ![sqe].nlb = TRUE]
        /\ UNCHANGED <<sqTail, devHead>>
    BY <1>3 DEF ReadwriteSubmit
  <2>2. sqe \in Index /\ Queued' = Queued
    BY <1>0, <2>1, PreparedQueued DEF Queued
  <2>3. \A s \in Index : sqes'[s].cid = sqes[s].cid /\ sqes'[s].req = sqes[s].req
    BY <1>0, <2>1, <2>2 DEF TypeOK, MemTypeOK, Sqe
  <2>. QED BY <1>0, <2>2, <2>3 DEF Kept
<1>4. CASE DevFetch
  <2>1. /\ devHead # tdbl /\ devHead' = Wrap(devHead + 1)
        /\ sqes' = [sqes EXCEPT ![devHead] = DeadSqe]
        /\ UNCHANGED sqTail
    BY <1>4 DEF DevFetch
  <2>2. Queued' = Queued \ {devHead} /\ devHead \in Index
    BY <1>0, <2>1, FetchedQueued DEF Queued
  <2>3. devHead' # devHead
    BY <2>1, <2>2, WrapNext, SizeAssumption DEF Index
  <2>4. \A s \in Queued \ {devHead} : sqes'[s] = sqes[s]
    BY <1>0, <2>1 DEF TypeOK, MemTypeOK
  <2>. QED BY <2>2, <2>3, <2>4 DEF Kept
<1>5. CASE UNCHANGED <<sqTail, devHead, sqes>>
  BY <1>5 DEF Kept, Queued
<1>. QED
  BY <1>1, <1>2, <1>3, <1>4, <1>5
  DEF Next, Issue, Driver, Handler, Device, Refuse, HandleIrq, Consume, Complete,
      Acknowledge, NothingLeft, HandlerDone, DevComplete

(* is_full() never lets produce() overwrite a command the device has not   *)
(* fetched, although the head it looks at is that of the last completion   *)
(* (queue.h:212, 241).                                                     *)
THEOREM LossCorrect == Spec => NoCommandLost
<1>1. IInv /\ [Next]_vars => [\A s \in Queued : Kept(s)]_vars
  BY KeptStep
<1>2. Spec => [][\A s \in Queued : Kept(s)]_vars
  BY <1>1, InvCorrect, PTL DEF Spec
<1>. QED BY <1>2 DEF NoCommandLost, Kept

=============================================================================
