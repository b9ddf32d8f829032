------------------------------ MODULE CtlReset ------------------------------
(***************************************************************************)
(* The constructor of Ctl (src/server/src/ctl.cc): a controller is taken   *)
(* over in the state its last owner left it in, reset, given the addresses *)
(* of the admin queues of this driver and enabled.                         *)
(*                                                                         *)
(* The last owner is the firmware or an earlier instance of the driver,    *)
(* which may have ended anywhere.  Instance n of the driver writes n where *)
(* the code writes a value of its own; 0 stands for the firmware.  The     *)
(* controller is external: it latches the admin queue registers when CC.EN *)
(* goes from 0 to 1, is ready some time later, and forgets its doorbells   *)
(* some time after CC.EN has gone back to 0.                               *)
(***************************************************************************)
EXTENDS Naturals, Sequences

CONSTANTS
  Instances,     \* how many times the driver is started (a bound)
  EndPoints      \* the places at which an owner of the controller may end

(* The writes of ctl.cc:98-112, in their order. *)
AqRegs == <<"Aqa", "AcqLow", "AcqHigh", "AsqLow", "AsqHigh">>

Places == {"Start", "Disable", "WaitDisabled", "Program", "Enable",
           "WaitReady", "BusMaster", "Running", "Failed"}

ASSUME InstancesAssumption == Instances \in Nat \ {0}
ASSUME EndPointsAssumption == EndPoints \subseteq Places

VARIABLES
  pc,         \* where this instance of the driver is
  instance,   \* which instance it is
  written,    \* how many of AqRegs it has written
  tail,       \* Submission_queue::_tail of its admin queue
  en, rdy,    \* CC.EN and CSTS.RDY
  aq,         \* the admin queue registers: who wrote each of them last
  latched,    \* their values when the controller was last enabled
  doorbell,   \* the controller's tail of the admin submission queue
  master      \* PCI bus mastering

driver == <<pc, instance, written, tail>>
device == <<en, rdy, aq, latched, doorbell, master>>
vars == <<driver, device>>

Owners == 0 .. Instances
Queues == [1 .. Len(AqRegs) -> Owners]
By(n) == [r \in 1 .. Len(AqRegs) |-> n]

(* The firmware has left the controller alone, or enabled and used, or in   *)
(* the middle of a change, where an instance of the driver may leave it so. *)
Init ==
  /\ pc = "Start" /\ instance = 1 /\ written = 0 /\ tail = 0
  /\ en \in BOOLEAN /\ rdy \in BOOLEAN
  /\ en /\ ~rdy => "WaitReady" \in EndPoints
  /\ aq = By(0) /\ latched = By(0)
  /\ doorbell \in IF rdy THEN {0, 1} ELSE {0}
  /\ master \in BOOLEAN

(***************************************************************************)
(* The constructor.  Its trace and assertion messages are left out; the    *)
(* detection and enabling of MSIs (ctl.cc:65-75) is part of Interrupts.    *)
(***************************************************************************)
Goto(here, there) == pc = here /\ pc' = there

\* Mutant: the status is not looked at and no controller is reset.
MutantReadyToReset == FALSE

(* ctl.cc:80: only CSTS.RDY is looked at. *)
ReadyToReset == rdy

ReadStatus ==
  /\ Goto("Start", IF ReadyToReset THEN "Disable" ELSE "Program")
  /\ UNCHANGED <<instance, written, tail, device>>

(* A write of CC.  Enabling a controller that is enabled changes nothing. *)
WriteCc(value) ==
  /\ en' = value
  /\ latched' = IF value /\ ~en THEN aq ELSE latched
  /\ UNCHANGED <<rdy, aq, doorbell, master>>

\* Mutant: CC is written back without clearing EN.
MutantDisable ==
  /\ Goto("Disable", "WaitDisabled")
  /\ WriteCc(en)
  /\ UNCHANGED <<instance, written, tail>>

Disable ==
  /\ Goto("Disable", "WaitDisabled")
  /\ WriteCc(FALSE)
  /\ UNCHANGED <<instance, written, tail>>

\* Mutant: the loop of ctl.cc:90 is missing.
MutantDisabled ==
  /\ Goto("WaitDisabled", "Program")
  /\ UNCHANGED <<instance, written, tail, device>>

(* The polling loop of ctl.cc:90; the iterations that go on change nothing. *)
Disabled ==
  /\ Goto("WaitDisabled", "Program")
  /\ ~rdy
  /\ UNCHANGED <<instance, written, tail, device>>

\* Mutant: one write too many.
MutantProgram ==
  /\ pc = "Program"
  /\ written' = written + 1
  /\ aq' = [aq EXCEPT ![written'] = instance]
  /\ pc' = IF written = Len(AqRegs) THEN "Enable" ELSE pc
  /\ UNCHANGED <<instance, tail, en, rdy, latched, doorbell, master>>

Program ==
  /\ pc = "Program"
  /\ written' = written + 1
  /\ aq' = [aq EXCEPT ![written'] = instance]
  /\ pc' = IF written' = Len(AqRegs) THEN "Enable" ELSE pc
  /\ UNCHANGED <<instance, tail, en, rdy, latched, doorbell, master>>

Enable ==
  /\ Goto("Enable", "WaitReady")
  /\ WriteCc(TRUE)
  /\ UNCHANGED <<instance, written, tail>>

(* The polling loop of ctl.cc:133. *)
Ready ==
  /\ Goto("WaitReady", "BusMaster")
  /\ rdy
  /\ UNCHANGED <<instance, written, tail, device>>

EnableBusMaster ==
  /\ Goto("BusMaster", "Running")
  /\ master' = TRUE
  /\ UNCHANGED <<instance, written, tail, en, rdy, aq, latched, doorbell>>

(* chksys() throws: no NVM command set (ctl.cc:63), no memory for a queue   *)
(* (ctl.cc:104, 106), or a page size the controller does not have           *)
(* (ctl.cc:126).                                                            *)
ConstructorThrows ==
  /\ \/ pc = "Start"
     \/ pc = "Program" /\ written = 1
     \/ pc = "Enable"
  /\ pc' = "Failed"
  /\ UNCHANGED <<instance, written, tail, device>>

(* An admin command is submitted: Submission_queue::produce() and submit()  *)
(* on a ring of two entries.                                                *)
SubmitAdmin ==
  /\ pc = "Running"
  /\ tail' = 1 - tail
  /\ doorbell' = tail'
  /\ UNCHANGED <<pc, instance, written, en, rdy, aq, latched, master>>

(* The driver's process ends and is started again. *)
Restart ==
  /\ pc \in EndPoints
  /\ instance < Instances
  /\ instance' = instance + 1
  /\ pc' = "Start" /\ written' = 0 /\ tail' = 0
  /\ UNCHANGED device

(***************************************************************************)
(* The controller.                                                         *)
(***************************************************************************)
DevReady ==
  /\ en /\ ~rdy
  /\ rdy' = TRUE
  /\ UNCHANGED <<driver, en, aq, latched, doorbell, master>>

DevDisabled ==
  /\ ~en /\ rdy
  /\ rdy' = FALSE
  /\ doorbell' = 0
  /\ UNCHANGED <<driver, en, aq, latched, master>>

Construct ==
  \/ ReadStatus \/ Disable \/ Disabled \/ Program \/ Enable \/ Ready
  \/ EnableBusMaster

Device == DevReady \/ DevDisabled

Next ==
  \/ Construct \/ ConstructorThrows \/ SubmitAdmin \/ Restart
  \/ Device

Spec == Init /\ [][Next]_vars

(* The constructor runs until it returns or throws, and the controller sets *)
(* and clears CSTS.RDY as the specification asks it to.                     *)
LiveSpec == Spec /\ WF_vars(Construct) /\ WF_vars(Device)

(***************************************************************************)
(* Properties.                                                             *)
(***************************************************************************)

(* The types of the variables: the constructor writes each of the five     *)
(* admin queue registers once (ctl.cc:98-112).                             *)
TypeOK ==
  /\ pc \in Places
  /\ instance \in 1 .. Instances
  /\ written \in 0 .. Len(AqRegs)
  /\ tail \in {0, 1}
  /\ en \in BOOLEAN /\ rdy \in BOOLEAN
  /\ aq \in Queues /\ latched \in Queues
  /\ doorbell \in {0, 1}
  /\ master \in BOOLEAN

(* When the constructor has returned, the controller is enabled, fetches   *)
(* and posts through this instance's queues only, may reach memory, and    *)
(* agrees with _tail about the admin doorbell, whatever state its last     *)
(* owner left it in.  This is what "Start by resetting the controller,     *)
(* mostly to get the admin queue doorbell registers to a known state"      *)
(* (ctl.cc:77-78) is for.                                                  *)
TakenOver ==
  pc = "Running" =>
    /\ en /\ rdy /\ master
    /\ latched = By(instance)
    /\ doorbell = tail

(* The admin queue registers change only while the controller is disabled  *)
(* and has said so: the constructor polls CSTS.RDY (ctl.cc:90) before it   *)
(* writes AQA, ACQ and ASQ.  A controller may take them up at any time     *)
(* while it is enabled.                                                    *)
WrittenWhileDisabled ==
  [][aq' # aq => ~en /\ ~rdy]_vars

(* The constructor ends: neither polling loop (ctl.cc:90 and 133) waits    *)
(* for a state the controller was not told to go to.                       *)
ConstructorEnds ==
  <>[](pc \in {"Running", "Failed"})
=============================================================================
