--------------------------- MODULE RequestService ---------------------------
(***************************************************************************)
(* What an I/O queue pair promises to the block-device layer above it,     *)
(* without rings, doorbells, command identifiers or interrupts.            *)
(*                                                                         *)
(* A request is accepted or refused.  A refusal (-L4_EBUSY) is only given  *)
(* while another request is outstanding, so that somebody will come back   *)
(* to the refused one.  An accepted request is executed by the device      *)
(* exactly once, and afterwards its callback runs exactly once, with the   *)
(* status the device gave to this very request.                            *)
(***************************************************************************)
EXTENDS Integers, FiniteSets

CONSTANTS
  Requests,   \* the client requests
  Capacity,   \* commands that can be outstanding at the same time
  None        \* "the device has not executed it"

VARIABLES
  request,    \* the client's view of each request
  outcome     \* the status the device gave to a request not yet answered

vars == <<request, outcome>>

Status == {"ok", "error"}

Outstanding == {r \in Requests : request[r] = "issued"}

TypeOK ==
  /\ request \in [Requests -> {"new", "refused", "issued"} \union Status]
  /\ outcome \in [Requests -> Status \union {None}]

Init ==
  /\ request = [r \in Requests |-> "new"]
  /\ outcome = [r \in Requests |-> None]

Accept(r) ==
  /\ request[r] # "issued"
  /\ Cardinality(Outstanding) < Capacity
  /\ request' = [request EXCEPT ![r] = "issued"]
  /\ UNCHANGED outcome

Refuse(r) ==
  /\ request[r] # "issued"
  /\ Outstanding # {}
  /\ request' = [request EXCEPT ![r] = "refused"]
  /\ UNCHANGED outcome

Execute(r) ==
  /\ request[r] = "issued"
  /\ outcome[r] = None
  /\ \E status \in Status : outcome' = [outcome EXCEPT ![r] = status]
  /\ UNCHANGED request

Answer(r) ==
  /\ request[r] = "issued"
  /\ outcome[r] # None
  /\ request' = [request EXCEPT ![r] = outcome[r]]
  /\ outcome' = [outcome EXCEPT ![r] = None]

Next == \E r \in Requests : Accept(r) \/ Refuse(r) \/ Execute(r) \/ Answer(r)

(* Every accepted request is executed and answered.                        *)
Fairness == \A r \in Requests : WF_vars(Execute(r)) /\ WF_vars(Answer(r))

Spec == Init /\ [][Next]_vars

FairSpec == Spec /\ Fairness

=============================================================================
