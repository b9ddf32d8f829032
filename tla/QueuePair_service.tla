-------------------------- MODULE QueuePair_service --------------------------
(***************************************************************************)
(* The queue pair implements RequestService: what the invariant of         *)
(* QueuePair_proofs says of command identifiers is here carried over to    *)
(* the requests of the clients and to the statuses they get.               *)
(***************************************************************************)
EXTENDS QueuePair_proofs

\* A request is outstanding exactly if a callback waits for it, and only one.
OwnersMatch ==
  /\ \A r \in Requests : request[r] = "issued" <=> \E c \in Index : callbacks[c] = r
  /\ \A c, d \in Index : callbacks[c] = callbacks[d] /\ callbacks[c] # None => c = d

\* The status in a posted entry is the one the device gave to this request; a
\* request that is not executed yet has none.
OutcomesKept ==
  /\ \A e \in Posted : outcome[callbacks[cqes[e].cid]] = cqes[e].sf
  /\ \A s \in Queued : outcome[sqes[s].req] = None
  /\ \A m \in executing : outcome[m.req] = None
  /\ \A r \in Requests : request[r] # "issued" => outcome[r] = None

(* The abstract module counts as this one does.                            *)
LEMMA ServiceCardinality ==
  Service!Cardinality(Service!Outstanding) = Cardinality(Service!Outstanding)
BY DEF Service!Cardinality, Cardinality, Service!IsFiniteSet, IsFiniteSet

(* A command, wherever it is, belongs to the request in its callback.      *)
LEMMA CommandsOwned ==
  ASSUME TypeOK, CommandsAccountedFor
  PROVE  /\ \A s \in Queued : /\ sqes[s].cid \in Index /\ sqes[s].req \in Requests
                              /\ callbacks[sqes[s].cid] = sqes[s].req
         /\ \A m \in executing : /\ m.cid \in Index /\ m.req \in Requests
                                 /\ callbacks[m.cid] = m.req
         /\ \A e \in Posted : /\ cqes[e].cid \in Index
                              /\ callbacks[cqes[e].cid] \in Requests
                              /\ cqes[e].sf \in Status
<1>1. /\ \A c \in Occupied : callbacks[c] \in Requests
      /\ \A c \in Occupied : c \in Index
  BY DEF Occupied, TypeOK, SqTypeOK
<1>2. /\ \A s \in Queued : sqes[s].cid \in Occupied
      /\ \A m \in executing : m.cid \in Occupied
      /\ \A e \in Posted : cqes[e].cid \in Occupied
  BY DEF CommandsAccountedFor, IdsCovered
<1>3. \A e \in Posted : cqes[e].sf \in Status
  BY PositionsTyped DEF Positions, TypeOK, MemTypeOK, Cqe
<1>4. /\ \A s \in Queued : callbacks[sqes[s].cid] = sqes[s].req
      /\ \A m \in executing : callbacks[m.cid] = m.req
  BY DEF CommandsAccountedFor, CallbacksMatch
<1>. QED BY <1>1, <1>2, <1>3, <1>4

(* There are no more requests outstanding than commands in flight, hence   *)
(* fewer than the ring has entries whenever produce() gives one away; and  *)
(* while none is outstanding there is an entry.                            *)
LEMMA OutstandingBounded ==
  ASSUME TypeOK, CommandsAccountedFor, OwnersMatch
  PROVE  /\ Cardinality(Service!Outstanding) \in Nat
         /\ Cardinality(Service!Outstanding) <= inFlight
         /\ Occupied # {} => Service!Outstanding # {}
<1>. DEFINE owner == [c \in Occupied |-> callbacks[c]]
<1>1. owner \in Surjection(Occupied, Service!Outstanding)
  <2>1. \A c \in Occupied : callbacks[c] \in Service!Outstanding
    BY DEF Occupied, TypeOK, SqTypeOK, OwnersMatch, Service!Outstanding
  <2>2. \A r \in Service!Outstanding : \E c \in Occupied : callbacks[c] = r
    BY NoneAssumption DEF Occupied, OwnersMatch, Service!Outstanding
  <2>. QED BY <2>1, <2>2 DEF Surjection
<1>2. /\ IsFiniteSet(Service!Outstanding)
      /\ Cardinality(Service!Outstanding) <= Cardinality(Occupied)
  BY <1>1, OccupiedFinite, FS_Surjection
<1>3. Occupied # {} => Service!Outstanding # {}
  BY DEF Occupied, TypeOK, SqTypeOK, OwnersMatch, Service!Outstanding
<1>. QED BY <1>2, <1>3, FS_CardinalityType DEF CommandsAccountedFor

(* A step that neither accepts nor answers a request, and moves no command *)
(* from one place to another.                                              *)
LEMMA ServiceStays ==
  ASSUME OwnersMatch, OutcomesKept,
         UNCHANGED <<callbacks, outcome, sqTail, devHead, devTail, executing>>,
         FirstPosted' = FirstPosted,
         \A s \in Queued : sqes'[s].req = sqes[s].req,
         \A e \in Posted : cqes'[e].cid = cqes[e].cid /\ cqes'[e].sf = cqes[e].sf,
         \A r \in Requests : request'[r] = "issued" <=> request[r] = "issued"
  PROVE  OwnersMatch' /\ OutcomesKept'
<1>1. Queued' = Queued /\ Posted' = Posted
  BY DEF Queued, Posted
<1>2. OwnersMatch'
  BY DEF OwnersMatch
<1>3. OutcomesKept'
  BY <1>1 DEF OutcomesKept
<1>. QED BY <1>2, <1>3

(* A request that is accepted gets an identifier of its own.               *)
LEMMA ServiceProduce ==
  ASSUME TypeOK, CommandsAccountedFor, RingsInOrder, OwnersMatch, OutcomesKept,
         NEW r \in Requests, NEW cid \in Index, NEW nlb \in BOOLEAN,
         request[r] # "issued", Produce(cid, r), Accepted(r),
         sqes' = [sqes EXCEPT ![sqTail] = [cid |-> cid, req |-> r, nlb |-> nlb]],
         UNCHANGED <<cqHead, pc, cqe, cqes, devHead, devTail, executing>>
  PROVE  OwnersMatch' /\ OutcomesKept' /\ Service!Accept(r)
<1>1. /\ ~IsFull /\ ~NoEntry /\ callbacks[cid] = None
      /\ callbacks' = [callbacks EXCEPT ![cid] = r]
      /\ sqTail' = Wrap(sqTail + 1)
      /\ request' = [request EXCEPT ![r] = "issued"]
      /\ outcome' = outcome
  BY DEF Produce, NoEntry, IsFirstFree, Accepted
<1>2. /\ sqTail \in Index /\ Queued \subseteq Index
      /\ callbacks \in [Index -> Requests \union {None}]
      /\ sqes \in [Index -> Sqe]
      /\ request \in [Requests -> {"new", "refused", "issued"} \union Status]
  BY PositionsTyped DEF Positions, TypeOK, SqTypeOK, MemTypeOK, ClientTypeOK
<1>3. \A c \in Index : callbacks'[c] = IF c = cid THEN r ELSE callbacks[c]
  BY <1>1, <1>2
<1>4. \A q \in Requests : request'[q] = IF q = r THEN "issued" ELSE request[q]
  BY <1>1, <1>2
<1>5. \A c \in Index : callbacks[c] # r
  BY DEF OwnersMatch
<1>6. OwnersMatch'
  <2>1. \A q \in Requests :
          request'[q] = "issued" <=> \E c \in Index : callbacks'[c] = q
    BY <1>1, <1>3, <1>4, NoneAssumption DEF OwnersMatch
  <2>2. \A c, d \in Index :
          callbacks'[c] = callbacks'[d] /\ callbacks'[c] # None => c = d
    BY <1>3, <1>5 DEF OwnersMatch
  <2>. QED BY <2>1, <2>2 DEF OwnersMatch
<1>7. OutcomesKept'
  <2>1. Queued' = Queued \union {sqTail} /\ sqTail \notin Queued
    BY <1>1, ProduceSlot DEF Queued
  <2>2. Posted' = Posted
    BY DEF Posted, FirstPosted
  <2>3. \A s \in Queued' : outcome'[sqes'[s].req] = None
    BY <1>1, <1>2, <2>1 DEF OutcomesKept
  <2>4. \A e \in Posted' : outcome'[callbacks'[cqes'[e].cid]] = cqes'[e].sf
    <3>1. \A e \in Posted : cqes[e].cid # cid /\ cqes[e].cid \in Index
      BY <1>1, FreeId, CommandsOwned DEF CommandsAccountedFor
    <3>. QED BY <1>1, <1>3, <2>2, <3>1 DEF OutcomesKept
  <2>5. \A q \in Requests : request'[q] # "issued" => outcome'[q] = None
    BY <1>1, <1>4 DEF OutcomesKept
  <2>6. \A m \in executing' : outcome'[m.req] = None
    BY <1>1 DEF OutcomesKept
  <2>. QED BY <2>3, <2>4, <2>5, <2>6 DEF OutcomesKept
<1>8. Cardinality(Service!Outstanding) < Size
  <2>1. inFlight < Size /\ inFlight \in Nat
    BY <1>1, SizeAssumption DEF NoEntry, TypeOK, SqTypeOK
  <2>. QED BY <2>1, OutstandingBounded, SizeAssumption
<1>. QED BY <1>1, <1>6, <1>7, <1>8, ServiceCardinality DEF Service!Accept

(* A refused request has another one before it.                            *)
LEMMA ServiceRefuse ==
  ASSUME IInv, OwnersMatch, OutcomesKept, NEW r \in Requests, Refuse(r)
  PROVE  OwnersMatch' /\ OutcomesKept' /\ Service!Refuse(r)
<1>1. /\ TypeOK /\ CommandsAccountedFor /\ RingsInOrder /\ HeadReported
  BY DEF IInv
<1>2. /\ NoEntry /\ request[r] # "issued"
      /\ request' = [request EXCEPT ![r] = "refused"]
      /\ UNCHANGED <<sqVars, cqVars, driverVars, memVars, deviceVars, outcome>>
  BY DEF Refuse, MayIssue
<1>3. OwnersMatch' /\ OutcomesKept'
  <2>1. request \in [Requests -> {"new", "refused", "issued"} \union Status]
    BY <1>1 DEF TypeOK, ClientTypeOK
  <2>2. \A q \in Requests : request'[q] = "issued" <=> request[q] = "issued"
    BY <1>2, <2>1
  <2>3. UNCHANGED <<callbacks, sqTail, devHead, devTail, executing, sqes, cqes>>
    BY <1>2 DEF sqVars, memVars, deviceVars
  <2>4. FirstPosted' = FirstPosted
    BY <1>2 DEF FirstPosted, cqVars, driverVars
  <2>. QED BY <1>2, <2>2, <2>3, <2>4, ServiceStays
<1>4. Service!Outstanding # {}
  BY <1>1, <1>2, RoomWhenIdle, OutstandingBounded
<1>. QED BY <1>2, <1>3, <1>4 DEF Service!Refuse

(* complete() gives the callback's request the status of its own command.  *)
LEMMA ServiceComplete ==
  ASSUME TypeOK, CommandsAccountedFor, RingsInOrder, OwnersMatch, OutcomesKept,
         Complete
  PROVE  /\ OwnersMatch' /\ OutcomesKept'
         /\ \E r \in Requests : Service!Answer(r)
<1>. DEFINE cid == cqes[cqe].cid
            r   == callbacks[cid]
<1>1. /\ pc = "complete" /\ pc' = "callback"
      /\ callbacks' = [callbacks EXCEPT ![cid] = None]
      /\ request' = [request EXCEPT ![r] = cqes[cqe].sf]
      /\ outcome' = [outcome EXCEPT ![r] = None]
      /\ UNCHANGED <<sqTail, devHead, devTail, executing, sqes, cqes, cqHead>>
  BY DEF Complete, cqVars, deviceVars
<1>2. /\ cqe \in Posted /\ Posted' = Posted \ {cqe}
      /\ Queued' = Queued
  BY <1>1, CompletedPosted DEF Posted, FirstPosted, Queued
<1>3. /\ cid \in Index /\ r \in Requests /\ cqes[cqe].sf \in Status
      /\ request[r] = "issued" /\ outcome[r] = cqes[cqe].sf
  BY <1>2, CommandsOwned DEF OwnersMatch, OutcomesKept
<1>. HIDE DEF cid, r
<1>4. /\ callbacks \in [Index -> Requests \union {None}]
      /\ request \in [Requests -> {"new", "refused", "issued"} \union Status]
      /\ outcome \in [Requests -> Status \union {None}]
  BY DEF TypeOK, SqTypeOK, ClientTypeOK
<1>5. \A c \in Index : callbacks'[c] = IF c = cid THEN None ELSE callbacks[c]
  BY <1>1, <1>3, <1>4
<1>6. /\ \A q \in Requests : request'[q] = IF q = r THEN cqes[cqe].sf ELSE request[q]
      /\ \A q \in Requests : outcome'[q] = IF q = r THEN None ELSE outcome[q]
  BY <1>1, <1>3, <1>4
<1>7. \A c \in Index : callbacks[c] = r <=> c = cid
  BY <1>3, NoneAssumption DEF OwnersMatch, r
<1>8. OwnersMatch'
  <2>1. cqes[cqe].sf # "issued"
    BY <1>3 DEF Status
  <2>2. \A q \in Requests :
          request'[q] = "issued" <=> \E c \in Index : callbacks'[c] = q
    BY <1>3, <1>5, <1>6, <1>7, <2>1, NoneAssumption DEF OwnersMatch
  <2>3. \A c, d \in Index :
          callbacks'[c] = callbacks'[d] /\ callbacks'[c] # None => c = d
    BY <1>5 DEF OwnersMatch
  <2>. QED BY <2>2, <2>3 DEF OwnersMatch
<1>9. OutcomesKept'
  <2>1. \A s \in Queued' : outcome'[sqes'[s].req] = None
    BY <1>1, <1>2, <1>6, CommandsOwned DEF OutcomesKept
  <2>2. \A m \in executing' : outcome'[m.req] = None
    BY <1>1, <1>6, CommandsOwned DEF OutcomesKept
  <2>3. \A q \in Requests : request'[q] # "issued" => outcome'[q] = None
    BY <1>6 DEF OutcomesKept
  <2>4. \A e \in Posted' : outcome'[callbacks'[cqes'[e].cid]] = cqes'[e].sf
    <3>1. \A e \in Posted \ {cqe} : cqes[e].cid # cid /\ cqes[e].cid \in Index
      BY <1>2, CommandsOwned DEF CommandsAccountedFor, IdsDistinct, cid
    <3>2. \A e \in Posted \ {cqe} : /\ callbacks'[cqes[e].cid] = callbacks[cqes[e].cid]
                                    /\ callbacks[cqes[e].cid] # r
                                    /\ callbacks[cqes[e].cid] \in Requests
      BY <1>5, <1>7, <3>1, CommandsOwned
    <3>. QED BY <1>1, <1>2, <1>6, <3>2 DEF OutcomesKept
  <2>. QED BY <2>1, <2>2, <2>3, <2>4 DEF OutcomesKept
<1>10. Service!Answer(r)
  BY <1>1, <1>3, StatusAssumption DEF Service!Answer
<1>. QED BY <1>3, <1>8, <1>9, <1>10

(* The command the device completes is executed for the first time.        *)
LEMMA ServiceDevComplete ==
  ASSUME TypeOK, CommandsAccountedFor, RingsInOrder, OwnersMatch, OutcomesKept,
         NEW m \in executing, DevComplete(m)
  PROVE  /\ OwnersMatch' /\ OutcomesKept'
         /\ m.req \in Requests /\ Service!Execute(m.req)
<1>1. /\ Wrap(devTail + 1) # hdbl
      /\ executing' = executing \ {m} /\ devTail' = Wrap(devTail + 1)
      /\ UNCHANGED <<callbacks, sqTail, devHead, sqes, cqHead, pc, cqe, request>>
  BY DEF DevComplete, sqVars, cqVars, driverVars
<1>2. PICK status \in Status :
        /\ cqes' = [cqes EXCEPT ![devTail] = [cid |-> m.cid, sqhd |-> devHead,
                                              p |-> devPhase, sf |-> status]]
        /\ outcome' = [outcome EXCEPT ![m.req] = status]
  BY DEF DevComplete
<1>3. /\ m.cid \in Index /\ m.req \in Requests /\ callbacks[m.cid] = m.req
      /\ outcome[m.req] = None /\ request[m.req] = "issued"
  BY CommandsOwned DEF OwnersMatch, OutcomesKept
<1>4. /\ Posted' = Posted \union {devTail} /\ devTail \notin Posted
      /\ devTail \in Index /\ Posted \subseteq Index /\ Queued' = Queued
  BY <1>1, PostedSlot, PositionsTyped DEF Posted, FirstPosted, Queued, Positions
<1>5. /\ cqes \in [Index -> Cqe]
      /\ outcome \in [Requests -> Status \union {None}]
  BY DEF TypeOK, MemTypeOK, ClientTypeOK
<1>6. \A q \in Requests : outcome'[q] = IF q = m.req THEN status ELSE outcome[q]
  BY <1>2, <1>3, <1>5
<1>7. \A c \in Index : callbacks[c] = m.req <=> c = m.cid
  BY <1>3, NoneAssumption DEF OwnersMatch
<1>8. OwnersMatch'
  BY <1>1 DEF OwnersMatch
<1>9. OutcomesKept'
  <2>1. \A s \in Queued' : outcome'[sqes'[s].req] = None
    <3>1. \A s \in Queued : sqes[s].req # m.req /\ sqes[s].req \in Requests
      BY <1>7, CommandsOwned DEF CommandsAccountedFor, IdsDistinct
    <3>. QED BY <1>1, <1>4, <1>6, <3>1 DEF OutcomesKept
  <2>2. \A n \in executing' : outcome'[n.req] = None
    <3>1. \A n \in executing \ {m} : n.req # m.req /\ n.req \in Requests
      BY <1>7, CommandsOwned DEF CommandsAccountedFor, IdsDistinct
    <3>. QED BY <1>1, <1>6, <3>1 DEF OutcomesKept
  <2>3. \A q \in Requests : request'[q] # "issued" => outcome'[q] = None
    BY <1>1, <1>3, <1>6 DEF OutcomesKept
  <2>4. \A e \in Posted' : outcome'[callbacks'[cqes'[e].cid]] = cqes'[e].sf
    <3>1. \A e \in Posted : /\ callbacks[cqes[e].cid] # m.req
                            /\ callbacks[cqes[e].cid] \in Requests
      BY <1>7, CommandsOwned DEF CommandsAccountedFor, IdsDistinct
    <3>2. \A e \in Posted : cqes'[e] = cqes[e]
      BY <1>2, <1>4, <1>5
    <3>3. cqes'[devTail].cid = m.cid /\ cqes'[devTail].sf = status
      BY <1>2, <1>4, <1>5
    <3>. QED BY <1>1, <1>3, <1>4, <1>6, <3>1, <3>2, <3>3 DEF OutcomesKept
  <2>. QED BY <2>1, <2>2, <2>3, <2>4 DEF OutcomesKept
<1>10. Service!Execute(m.req)
  BY <1>1, <1>2, <1>3 DEF Service!Execute, Service!Status, Status
<1>. QED BY <1>3, <1>8, <1>9, <1>10

(* Fetching takes a command from the ring to the device, as it is.         *)
LEMMA ServiceFetch ==
  ASSUME TypeOK, CommandsAccountedFor, RingsInOrder, OwnersMatch, OutcomesKept,
         DevFetch
  PROVE  OwnersMatch' /\ OutcomesKept'
<1>1. /\ devHead # tdbl /\ devHead' = Wrap(devHead + 1)
      /\ executing' = executing \union {sqes[devHead]}
      /\ sqes' = [sqes EXCEPT ![devHead] = DeadSqe]
      /\ UNCHANGED <<callbacks, sqTail, devTail, cqes, cqHead, pc, cqe, request,
                     outcome>>
  BY DEF DevFetch, sqVars, cqVars, driverVars, clientVars
<1>2. /\ devHead \in Queued /\ Queued' = Queued \ {devHead}
      /\ Queued \subseteq Index /\ Posted' = Posted
  BY <1>1, FetchedQueued, PositionsTyped DEF Queued, Posted, FirstPosted, Positions
<1>3. OwnersMatch'
  BY <1>1 DEF OwnersMatch
<1>4. OutcomesKept'
  <2>1. \A s \in Queued' : sqes'[s] = sqes[s]
    BY <1>1, <1>2 DEF TypeOK, MemTypeOK
  <2>. QED BY <1>1, <1>2, <2>1 DEF OutcomesKept
<1>. QED BY <1>3, <1>4

(* Every step keeps the owners and the outcomes, and is one of the abstract *)
(* service's or none.                                                      *)
LEMMA ServiceStep ==
  ASSUME IInv, OwnersMatch, OutcomesKept, [Next]_vars
  PROVE  OwnersMatch' /\ OutcomesKept' /\ [Service!Next]_(Service!vars)
<1>. USE DEF sqVars, cqVars, driverVars, memVars, deviceVars, irqVars, clientVars
<1>0. TypeOK /\ CommandsAccountedFor /\ RingsInOrder /\ TagsInOrder
  BY DEF IInv
<1>. DEFINE Goal == OwnersMatch' /\ OutcomesKept' /\ [Service!Next]_(Service!vars)
<1>1. ASSUME NEW r \in Requests, Refuse(r) PROVE Goal
  BY <1>1, ServiceRefuse DEF Service!Next
<1>2. ASSUME NEW r \in Requests, InoutData(r) PROVE Goal
  <2>1. PICK cid \in Index :
          /\ Produce(cid, r)
          /\ sqes' = [sqes EXCEPT
                        ![sqTail] = [cid |-> cid, req |-> r, nlb |-> FALSE]]
    BY <1>2 DEF InoutData
  <2>2. /\ request[r] # "issued" /\ Accepted(r)
        /\ UNCHANGED <<cqHead, pc, cqe, cqes, devHead, devTail, executing>>
    BY <1>2 DEF InoutData, MayIssue
  <2>3. OwnersMatch' /\ OutcomesKept' /\ Service!Accept(r)
    BY <1>0, <2>1, <2>2, ServiceProduce
  <2>. QED BY <2>3 DEF Service!Next
<1>3. ASSUME NEW r \in Requests, WriteZeroes(r) PROVE Goal
  <2>1. PICK cid \in Index :
          /\ Produce(cid, r)
          /\ sqes' = [sqes EXCEPT
                        ![sqTail] = [cid |-> cid, req |-> r, nlb |-> TRUE]]
    BY <1>3 DEF WriteZeroes
  <2>2. /\ request[r] # "issued" /\ Accepted(r)
        /\ UNCHANGED <<cqHead, pc, cqe, cqes, devHead, devTail, executing>>
    BY <1>3 DEF WriteZeroes, MayIssue
  <2>3. OwnersMatch' /\ OutcomesKept' /\ Service!Accept(r)
    BY <1>0, <2>1, <2>2, ServiceProduce
  <2>. QED BY <2>3 DEF Service!Next
<1>4. CASE ReadwriteSubmit
  <2>1. /\ sqe # None /\ sqes' = [sqes EXCEPT ![sqe].nlb = TRUE]
        /\ UNCHANGED <<sqVars, cqVars, pc, cqe, cqes, hdbl, deviceVars, irqVars,
                       clientVars>>
    BY <1>4 DEF ReadwriteSubmit
  <2>2. FirstPosted' = FirstPosted
    BY <2>1 DEF FirstPosted
  <2>3. \A s \in Queued : sqes'[s].req = sqes[s].req
    BY <1>0, <2>1, PreparedQueued, PositionsTyped
    DEF Positions, TypeOK, MemTypeOK, Sqe
  <2>. QED BY <2>1, <2>2, <2>3, ServiceStays DEF Service!vars
<1>5. CASE HandleIrq \/ NothingLeft \/ HandlerDone \/ UNCHANGED vars
  <2>1. UNCHANGED <<sqVars, cqVars, cqe, memVars, deviceVars, clientVars>>
    BY <1>5 DEF HandleIrq, NothingLeft, HandlerDone, vars
  <2>2. FirstPosted' = FirstPosted
    BY <1>5 DEF FirstPosted, HandleIrq, NothingLeft, HandlerDone, vars
  <2>. QED BY <2>1, <2>2, ServiceStays DEF Service!vars
<1>6. CASE Consume
  <2>1. /\ pc = "consume" /\ pc' = "complete" /\ cqe' = cqHead
        /\ UNCHANGED <<sqVars, memVars, deviceVars, clientVars>>
    BY <1>6 DEF Consume
  <2>2. FirstPosted' = FirstPosted
    BY <2>1 DEF FirstPosted
  <2>. QED BY <2>1, <2>2, ServiceStays DEF Service!vars
<1>7. CASE Acknowledge
  <2>1. /\ pc = "callback" /\ pc' = "consume"
        /\ cqes' = [cqes EXCEPT ![cqe] = DeadCqe(cqes[cqe].p)]
        /\ UNCHANGED <<sqVars, cqVars, sqes, deviceVars, clientVars>>
    BY <1>7 DEF Acknowledge
  <2>2. FirstPosted' = FirstPosted
    BY <2>1 DEF FirstPosted
  <2>3. cqe \notin Posted /\ Posted \subseteq Index
    BY <1>0, <1>7, RingsAcknowledge, PositionsTyped DEF Positions
  <2>4. \A e \in Posted : cqes'[e] = cqes[e]
    BY <1>0, <2>1, <2>3 DEF TypeOK, MemTypeOK
  <2>. QED BY <2>1, <2>2, <2>4, ServiceStays DEF Service!vars
<1>8. CASE Complete
  BY <1>0, <1>8, ServiceComplete DEF Service!Next
<1>9. CASE DevFetch
  <2>1. UNCHANGED clientVars
    BY <1>9 DEF DevFetch
  <2>. QED BY <1>0, <1>9, <2>1, ServiceFetch DEF Service!vars
<1>10. ASSUME NEW m \in executing, DevComplete(m) PROVE Goal
  BY <1>0, <1>10, ServiceDevComplete DEF Service!Next
<1>. QED
  BY <1>1, <1>2, <1>3, <1>4, <1>5, <1>6, <1>7, <1>8, <1>9, <1>10
  DEF Next, Issue, Driver, Handler, Device

(* Nobody has asked for anything of two new queues.                        *)
LEMMA ServiceInit == Init => OwnersMatch /\ OutcomesKept /\ Service!Init
<1>. SUFFICES ASSUME Init PROVE OwnersMatch /\ OutcomesKept /\ Service!Init
  OBVIOUS
<1>1. Posted = {} /\ Queued = {}
  BY DeadTyped, SpanEmpty DEF Init, Queued, Posted, FirstPosted
<1>2. OwnersMatch
  BY NoneAssumption DEF Init, OwnersMatch
<1>3. OutcomesKept
  BY <1>1 DEF Init, OutcomesKept
<1>4. Service!Init
  BY DEF Init, Service!Init
<1>. QED BY <1>2, <1>3, <1>4

(* Behind rings, tags, doorbells and interrupts, whatever their order, the *)
(* queue pair executes every accepted request once and runs its callback   *)
(* once, with its own status, and refuses only while others are under way. *)
THEOREM PromiseCorrect == Spec => ImplementsService
<1>1. IInv /\ OwnersMatch /\ OutcomesKept /\ [Next]_vars
        => OwnersMatch' /\ OutcomesKept' /\ [Service!Next]_(Service!vars)
  BY ServiceStep
<1>. QED BY <1>1, ServiceInit, InvCorrect, PTL DEF Spec, ImplementsService, Service!Spec

=============================================================================
