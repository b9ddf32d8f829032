--------------------------- MODULE CtlReset_proofs ---------------------------
(***************************************************************************)
(* The constructor takes a controller over, and writes the admin queue     *)
(* registers of disabled controllers only, however often the driver is     *)
(* started and wherever it ends, as long as no owner ends while it waits   *)
(* for the controller to become ready.                                     *)
(***************************************************************************)
EXTENDS CtlReset, TLAPS

(* What a controller says about itself: it is enabled and not ready only   *)
(* while the constructor polls it, and has no doorbells before it is ready. *)
Honest ==
  /\ en /\ ~rdy => pc = "WaitReady"
  /\ ~rdy => doorbell = 0

(* What the constructor has established at each place. *)
Progress ==
  /\ pc # "Running" => tail = 0
  /\ pc \in {"Start", "Disable", "WaitDisabled"} => written = 0
  /\ pc = "WaitDisabled" => ~en
  /\ pc \in {"Program", "Enable"} => ~en /\ ~rdy
  /\ pc = "Program" => /\ written < Len(AqRegs)
                       /\ \A r \in 1 .. written : aq[r] = instance
  /\ pc \in {"Enable", "WaitReady", "BusMaster", "Running"} =>
       aq = By(instance)
  /\ pc \in {"WaitReady", "BusMaster", "Running"} =>
       en /\ latched = By(instance)
  /\ pc \in {"BusMaster", "Running"} => rdy
  /\ pc = "WaitReady" => doorbell = 0
  /\ pc = "BusMaster" => doorbell = 0
  /\ pc = "Running" => master /\ doorbell = tail

IInv == TypeOK /\ Honest /\ Progress

(* The admin queue registers are five (ctl.cc:101-112). *)
LEMMA FiveRegs == Len(AqRegs) = 5
BY DEF AqRegs

(* In every initial state the invariant holds: the firmware's controller is *)
(* disabled or ready, and without doorbells if it is not ready.             *)
LEMMA InvInit ==
  ASSUME "WaitReady" \notin EndPoints
  PROVE  Init => IInv
BY FiveRegs, InstancesAssumption
   DEF Init, IInv, TypeOK, Honest, Progress, Queues, Owners, By, Places

(* Every step but the end of an instance that waits keeps the invariant.   *)
LEMMA InvStep ==
  ASSUME "WaitReady" \notin EndPoints, IInv, [Next]_vars
  PROVE  IInv'
<1> USE FiveRegs, InstancesAssumption DEF IInv, Places
<1>1. CASE ReadStatus
  BY <1>1 DEF ReadStatus, ReadyToReset, Goto, device, TypeOK, Honest, Progress
<1>2. CASE Disable
  BY <1>2 DEF Disable, WriteCc, Goto, TypeOK, Honest, Progress
<1>3. CASE Disabled
  BY <1>3 DEF Disabled, Goto, device, TypeOK, Honest, Progress
<1>4. CASE Program
  <2>1. written \in 0 .. 4 /\ written' = written + 1
    BY <1>4 DEF Program, TypeOK, Progress
  <2>2. aq \in Queues /\ instance \in Owners
    BY DEF TypeOK, Owners
  <2>3. aq' \in Queues
    BY <1>4, <2>1, <2>2 DEF Program, Queues
  <2>4. \A r \in 1 .. written' : aq'[r] = instance
    BY <1>4, <2>1, <2>2 DEF Program, Queues, Progress
  <2>5. pc' = "Enable" => aq' = By(instance)
    BY <1>4, <2>1, <2>3, <2>4 DEF Program, Queues, By
  <2>6. TypeOK'
    BY <1>4, <2>1, <2>3 DEF Program, TypeOK
  <2>7. pc' \in {"Program", "Enable"} /\ (pc' = "Program" => written' < 5)
    BY <1>4, <2>1 DEF Program
  <2> QED
    BY <1>4, <2>4, <2>5, <2>6, <2>7 DEF Program, Honest, Progress
<1>5. CASE Enable
  BY <1>5 DEF Enable, WriteCc, Goto, TypeOK, Honest, Progress
<1>6. CASE Ready
  BY <1>6 DEF Ready, Goto, device, TypeOK, Honest, Progress
<1>7. CASE EnableBusMaster
  BY <1>7 DEF EnableBusMaster, Goto, TypeOK, Honest, Progress
<1>8. CASE ConstructorThrows
  BY <1>8 DEF ConstructorThrows, device, TypeOK, Honest, Progress
<1>9. CASE SubmitAdmin
  BY <1>9 DEF SubmitAdmin, TypeOK, Honest, Progress
<1>10. CASE Restart
  BY <1>10 DEF Restart, device, TypeOK, Honest, Progress
<1>11. CASE DevReady
  BY <1>11 DEF DevReady, driver, TypeOK, Honest, Progress
<1>12. CASE DevDisabled
  BY <1>12 DEF DevDisabled, driver, TypeOK, Honest, Progress
<1>13. CASE UNCHANGED vars
  BY <1>13 DEF vars, driver, device, TypeOK, Honest, Progress
<1> QED
  BY <1>1, <1>2, <1>3, <1>4, <1>5, <1>6, <1>7, <1>8, <1>9, <1>10, <1>11,
     <1>12, <1>13 DEF Next, Construct, Device

(* The registers are written one after the other, whatever the instance    *)
(* finds and wherever an earlier one ended.                                *)
Writing ==
  /\ pc \in {"Start", "Disable", "WaitDisabled"} => written = 0
  /\ pc = "Program" => written < Len(AqRegs)

(* The types of all of the state, for any number of instances and any      *)
(* places at which they end: no instance writes more than the five admin   *)
(* queue registers (ctl.cc:101-112).                                       *)
THEOREM TypeCorrect == Spec => []TypeOK
<1> USE FiveRegs, InstancesAssumption DEF Places
<1>1. Init => TypeOK /\ Writing
  BY DEF Init, TypeOK, Writing, Queues, Owners, By
<1>2. ASSUME TypeOK, Writing, [Next]_vars PROVE TypeOK' /\ Writing'
  <2>1. CASE Program
    <3>1. written \in 0 .. 4 /\ written' = written + 1
      BY <1>2, <2>1 DEF Program, TypeOK, Writing
    <3>2. aq' \in Queues
      BY <1>2, <2>1, <3>1 DEF Program, Queues, Owners, TypeOK
    <3>3. pc' \in {"Program", "Enable"} /\ (pc' = "Program" => written' < 5)
      BY <2>1, <3>1 DEF Program
    <3>. QED BY <1>2, <2>1, <3>1, <3>2, <3>3 DEF Program, TypeOK, Writing
  <2>2. CASE Disable \/ Enable
    <3>1. en' \in BOOLEAN /\ latched' \in Queues
      BY <1>2, <2>2 DEF Disable, Enable, WriteCc, TypeOK
    <3>. QED BY <1>2, <2>2, <3>1 DEF Disable, Enable, WriteCc, Goto, TypeOK, Writing
  <2>5. CASE ReadStatus
    BY <1>2, <2>5 DEF ReadStatus, Goto, device, TypeOK, Writing
  <2>6. CASE Disabled
    BY <1>2, <2>6 DEF Disabled, Goto, device, TypeOK, Writing
  <2>7. CASE Ready
    BY <1>2, <2>7 DEF Ready, Goto, device, TypeOK, Writing
  <2>8. CASE EnableBusMaster
    BY <1>2, <2>8 DEF EnableBusMaster, Goto, TypeOK, Writing
  <2>3. CASE ConstructorThrows \/ Restart \/ SubmitAdmin
    BY <1>2, <2>3 DEF ConstructorThrows, Restart, SubmitAdmin, device, TypeOK, Writing
  <2>4. CASE Device \/ UNCHANGED vars
    BY <1>2, <2>4 DEF Device, DevReady, DevDisabled, vars, driver, device, TypeOK, Writing
  <2>. QED BY <1>2, <2>1, <2>2, <2>3, <2>4, <2>5, <2>6, <2>7, <2>8
          DEF Next, Construct
<1>. QED BY <1>1, <1>2, PTL DEF Spec

(* The invariant is inductive, for every number of instances.              *)
LEMMA InvCorrect ==
  ASSUME "WaitReady" \notin EndPoints
  PROVE  Spec => []IInv
<1>1. IInv /\ [Next]_vars => IInv'
  BY InvStep
<1> QED
  BY InvInit, <1>1, PTL DEF Spec

(* Whatever state earlier instances left the controller in, unless one of  *)
(* them ended between ctl.cc:130 and 133, the constructor returns with a   *)
(* controller that works on this instance's admin queues and agrees with   *)
(* it about the doorbell.                                                  *)
THEOREM TakenOverCorrect ==
  ASSUME "WaitReady" \notin EndPoints
  PROVE  Spec => []TakenOver
<1>1. IInv => TakenOver
  BY DEF IInv, Honest, Progress, TakenOver
<1> QED
  BY InvCorrect, <1>1, PTL

(* Under the same assumption AQA, ACQ and ASQ (ctl.cc:97-112) are written  *)
(* only while the controller is disabled and has said so.                  *)
THEOREM WrittenCorrect ==
  ASSUME "WaitReady" \notin EndPoints
  PROVE  Spec => WrittenWhileDisabled
<1>1. IInv /\ [Next]_vars => [aq' # aq => ~en /\ ~rdy]_vars
  <2> SUFFICES ASSUME IInv, Next, aq' # aq
               PROVE  ~en /\ ~rdy
    BY DEF vars
  <2>1. Program
    BY DEF Next, Construct, Device, ReadStatus, Disable, Disabled, WriteCc,
           Enable, Ready, EnableBusMaster, ConstructorThrows, SubmitAdmin,
           Restart, DevReady, DevDisabled, device
  <2> QED
    BY <2>1 DEF Program, IInv, Progress
<1> QED
  BY InvCorrect, <1>1, PTL DEF Spec, WrittenWhileDisabled
=============================================================================
