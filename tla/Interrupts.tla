----------------------------- MODULE Interrupts -----------------------------
(***************************************************************************)
(* Interrupt vectors: the allocator of the ICU's MSIs shared by all        *)
(* controllers (icu.h), their registration by controllers and namespaces   *)
(* (Ctl::register_interrupt_handler, allocate_msi, free_msi) and the way   *)
(* from a completion queue to a handler: the queue's vector, local to the  *)
(* controller, the MSI-X table or the MSI message registers (pci.h), the   *)
(* ICU's MSI, and the object bound to it.                                  *)
(*                                                                         *)
(* Discovery says in which order namespaces come and go; here, any order   *)
(* in which one namespace of a controller is set up at a time.             *)
(***************************************************************************)
EXTENDS Integers, FiniteSets, Sequences

CONSTANTS
  Ctls,      \* the controllers there may be
  Machines,  \* the machines the driver may be started on, and its options
  None       \* a masked entry, an MSI nobody is bound to

\* A PCI capability and the number of vectors it offers.
Capability == [id : {"msi", "msix", "other"}, size : Nat \ {0}]

\* Bits of the allocator's bitmap: further MSIs of the ICU are never given out.
NumMsis == 2048

\* A machine: the ICU's MSIs that the allocator has a bit for (0 if the ICU has
\* none), the options --nomsi and --nomsix, the usable namespaces of each
\* controller (a bound), and the capability list of each controller there is.
IsMachine(m) ==
  /\ m.msis \in 0 .. NumMsis /\ m.namespaces \in Nat
  /\ m.use_msis \in BOOLEAN /\ m.use_msixs \in BOOLEAN
  /\ DOMAIN m.caps \subseteq Ctls
  /\ \A c \in DOMAIN m.caps : m.caps[c] \in Seq(Capability)

ASSUME CtlsAssumption == IsFiniteSet(Ctls)
ASSUME MachinesAssumption == \A m \in Machines : IsMachine(m)
ASSUME NoneAssumption == None \notin Int /\ None \notin Ctls \X Nat

VARIABLES
  machine,    \* the machine this is; it does not change
  allocated,  \* Icu: the bitmap of MSIs
  bound,      \* kernel: per MSI, the object bound to it
  reg,        \* per controller, how its handler is registered
  ctlMsi,     \* per controller, the MSI, if it has one
  ns,         \* per namespace, its life
  msi,        \* per namespace, Namespace::_msi
  vectors,    \* Pci_dev::_vectors: the MSI of each local vector, from 0
  table,      \* device: the MSI in each entry of the MSI-X table
  base,       \* device: the MSI in the MSI message registers
  iv          \* device: per namespace, the vector of its CQ

vars ==
  <<machine, allocated, bound, reg, ctlMsi, ns, msi, vectors, table, base, iv>>

Present == DOMAIN machine.caps
Msi     == 0 .. machine.msis - 1
Nsid    == 1 .. machine.namespaces

\* The objects interrupts are bound to: <<c, 0>> is the controller's, with
\* Ctl::handle_irq, <<c, n>> its namespace n's.
Objects == Present \X (0 .. machine.namespaces)
CtlOf(c) == <<c, 0>>

-----------------------------------------------------------------------------
(* PCI configuration (pci.h)                                               *)

\* Mutant: the list is left at the first capability that is none of the two.
MutantVectorsOf(c, id) ==
  LET caps == machine.caps[c]
      ofId == {k \in DOMAIN caps : caps[k].id = id /\
                 \A l \in 1 .. k : caps[l].id # "other"}
  IN  IF ofId = {} THEN 0 ELSE caps[CHOOSE k \in ofId : \A l \in ofId : l <= k].size

\* detect_msi_support() goes through the list of capabilities; msis_supported()
\* and msixs_supported() tell the number of vectors of the last one found.
VectorsOf(c, id) ==
  LET caps == machine.caps[c]
      ofId == {k \in DOMAIN caps : caps[k].id = id}
  IN  IF ofId = {} THEN 0 ELSE caps[CHOOSE k \in ofId : \A l \in ofId : l <= k].size

UsesMsix(c) == machine.use_msixs /\ VectorsOf(c, "msix") > 0
UsesMsi(c)  == machine.use_msis /\ VectorsOf(c, "msi") > 0

\* What the constructor has enabled in the device: all vectors of one kind.
Mode(c) ==
  IF machine.msis = 0 THEN "none"
  ELSE IF UsesMsix(c) THEN "msix" ELSE IF UsesMsi(c) THEN "msi" ELSE "none"

\* Ctl::msis_enabled()
MsisEnabled(c) == machine.msis > 0 /\ (UsesMsix(c) \/ UsesMsi(c))

\* The device's vectors
LocalVectors(c) == IF Mode(c) = "none" THEN 1 ELSE VectorsOf(c, Mode(c))
Entries(c)      == 0 .. LocalVectors(c) - 1

TypeOK ==
  /\ machine \in Machines
  /\ allocated \subseteq Msi
  /\ bound \in [Msi -> Objects \union {None}]
  /\ reg \in [Present -> {"none", "msi", "legacy", "thrown"}]
  /\ ctlMsi \in [Present -> Msi \union {0}]
  /\ ns \in [Present -> [Nsid -> {"none", "creating", "disk", "gone", "stuck"}]]
  /\ msi \in [Present -> [Nsid -> Msi \union {0}]]
  /\ \A c \in Present :
       /\ vectors[c] \in Seq(Msi \union {0})
       /\ table[c] \in [Entries(c) -> Msi \union {None}]
       /\ base[c] \in Msi \union {None}
       /\ iv[c] \in [Nsid -> Nat]

Init ==
  /\ machine \in Machines
  /\ allocated = {}
  /\ bound = [g \in Msi |-> None]
  /\ reg = [c \in Present |-> "none"] /\ ctlMsi = [c \in Present |-> 0]
  /\ ns = [c \in Present |-> [n \in Nsid |-> "none"]]
  /\ msi = [c \in Present |-> [n \in Nsid |-> 0]]
  /\ vectors = [c \in Present |-> <<>>]
  /\ table = [c \in Present |-> [l \in Entries(c) |-> None]]
  /\ base = [c \in Present |-> None]
  /\ iv = [c \in Present |-> [n \in Nsid |-> 0]]

-----------------------------------------------------------------------------
(* Allocation                                                              *)

\* Mutant: the limit is one too large.
MutantFree == (0 .. machine.msis) \ allocated

\* alloc_msi(): the lowest one that is free, below the limit and in the bitmap
Free == Msi \ allocated
LowestFree == CHOOSE g \in Free : \A h \in Free : g <= h

CanAllocate(c) == MsisEnabled(c) /\ Free # {}

\* Pci_dev::get_local_vector(): known, or the next one.  Vec is _vectors[c].
Known(vec, g) == \E l \in 1 .. Len(vec) : vec[l] = g

\* Mutant: a new one each time.
MutantWithVector(vec, g) == Append(vec, g)

WithVector(vec, g) == IF Known(vec, g) THEN vec ELSE Append(vec, g)

\* Mutant: always the latest vector.
MutantLocalVector(vec, g) == Len(vec) - 1

LocalVector(vec, g) == (CHOOSE l \in 1 .. Len(vec) : vec[l] = g) - 1

\* The vectors after enable_msi(), which asks for one in the MSI-X case only.
Enabled(c, g) ==
  IF Mode(c) = "msix" THEN WithVector(vectors[c], g) ELSE vectors[c]

\* Ctl::enable_msi(): the MSI-X table's entry, or the message registers.  What
\* is written beyond the end of the table has no effect on interrupts.
EnableMsi(c, g) ==
  /\ table' = IF Mode(c) = "msix" /\ LocalVector(Enabled(c, g), g) \in Entries(c)
                THEN [table EXCEPT ![c][LocalVector(Enabled(c, g), g)] = g]
                ELSE table
  /\ base' = IF Mode(c) = "msi" THEN [base EXCEPT ![c] = g] ELSE base

-----------------------------------------------------------------------------

\* register_interrupt_handler(), called in device_discovery()
RegisterInterruptHandler(c) ==
  /\ reg[c] = "none"
  /\ IF CanAllocate(c)
       THEN /\ allocated' = allocated \union {LowestFree}
            /\ bound' = [bound EXCEPT ![LowestFree] = CtlOf(c)]
            /\ reg' = [reg EXCEPT ![c] = "msi"]
            /\ ctlMsi' = [ctlMsi EXCEPT ![c] = LowestFree]
            /\ EnableMsi(c, LowestFree)
            /\ vectors' = [vectors EXCEPT ![c] = Enabled(c, LowestFree)]
       ELSE /\ reg' = [reg EXCEPT ![c] = "legacy"]
            /\ UNCHANGED <<allocated, bound, ctlMsi, vectors, table, base>>
  /\ UNCHANGED <<machine, ns, msi, iv>>

\* It throws, at bind() or after it, and the controller is deleted.  The MSI stays
\* allocated and, in the second case, bound to what is no longer there.
RegistrationThrows(c) ==
  /\ reg[c] = "none"
  /\ reg' = [reg EXCEPT ![c] = "thrown"]
  /\ IF CanAllocate(c)
       THEN /\ allocated' = allocated \union {LowestFree}
            /\ bound' \in {bound, [bound EXCEPT ![LowestFree] = CtlOf(c)]}
       ELSE UNCHANGED <<allocated, bound>>
  /\ UNCHANGED <<machine, ctlMsi, ns, msi, vectors, table, base, iv>>

\* All controllers are registered before the server loop runs the first callback,
\* and each sets up its namespaces one at a time.
MayInit(c, n) ==
  /\ \A d \in Present : reg[d] # "none"
  /\ reg[c] # "thrown"
  /\ ns[c][n] = "none"
  /\ \A k \in Nsid : ns[c][k] \notin {"creating", "stuck"}

\* create_iocq(): the vector of the CQ is the local one of the MSI.
CreateIocq(c, n, vec, g) ==
  /\ vectors' = [vectors EXCEPT ![c] = WithVector(vec, g)]
  /\ iv' = [iv EXCEPT ![c][n] = LocalVector(vectors'[c], g)]

\* Mutant: the MSI is used without enabling it in the device.
MutantAsyncLoopInit(c, n) ==
  /\ MayInit(c, n)
  /\ ns' = [ns EXCEPT ![c][n] = "creating"]
  /\ IF CanAllocate(c)
       THEN /\ allocated' = allocated \union {LowestFree}
            /\ bound' = [bound EXCEPT ![LowestFree] = <<c, n>>]
            /\ msi' = [msi EXCEPT ![c][n] = LowestFree]
            /\ CreateIocq(c, n, Enabled(c, LowestFree), LowestFree)
       ELSE /\ CreateIocq(c, n, vectors[c], 0)
            /\ UNCHANGED <<allocated, bound, msi>>
  /\ UNCHANGED <<machine, reg, ctlMsi, table, base>>

\* async_loop_init(): allocate_msi(), then create_iocq().  Without an MSI the
\* namespace uses "vector 0", which create_iocq() takes for the ICU's MSI 0.
AsyncLoopInit(c, n) ==
  /\ MayInit(c, n)
  /\ ns' = [ns EXCEPT ![c][n] = "creating"]
  /\ IF CanAllocate(c)
       THEN /\ allocated' = allocated \union {LowestFree}
            /\ bound' = [bound EXCEPT ![LowestFree] = <<c, n>>]
            /\ msi' = [msi EXCEPT ![c][n] = LowestFree]
            /\ EnableMsi(c, LowestFree)
            /\ CreateIocq(c, n, Enabled(c, LowestFree), LowestFree)
       ELSE /\ CreateIocq(c, n, vectors[c], 0)
            /\ UNCHANGED <<allocated, bound, msi, table, base>>
  /\ UNCHANGED <<machine, reg, ctlMsi>>

\* It throws, and the chain of the controller's namespaces ends.  The object, which
\* nobody owns, stays.  In allocate_msi() this loses the MSI, after bind() or
\* before it; in create_iocq(), for want of memory, the MSI is the object's.
AsyncLoopInitThrows(c, n) ==
  /\ MayInit(c, n)
  /\ ns' = [ns EXCEPT ![c][n] = "stuck"]
  /\ \/ /\ CanAllocate(c)
        /\ allocated' = allocated \union {LowestFree}
        /\ bound' \in {bound, [bound EXCEPT ![LowestFree] = <<c, n>>]}
        /\ UNCHANGED <<msi, vectors, table, base>>
     \/ /\ CanAllocate(c)
        /\ allocated' = allocated \union {LowestFree}
        /\ bound' = [bound EXCEPT ![LowestFree] = <<c, n>>]
        /\ msi' = [msi EXCEPT ![c][n] = LowestFree]
        /\ EnableMsi(c, LowestFree)
        /\ vectors' = [vectors EXCEPT ![c] = Enabled(c, LowestFree)]
     \/ /\ ~CanAllocate(c)
        /\ UNCHANGED <<allocated, bound, msi, vectors, table, base>>
  /\ UNCHANGED <<machine, reg, ctlMsi, iv>>

\* Both queues have been created.  (The device accepts no vector beyond its own.)
BecomeDisk(c, n) ==
  /\ ns[c][n] = "creating"
  /\ iv[c][n] \in Entries(c) \/ ~MsisEnabled(c)
  /\ ns' = [ns EXCEPT ![c][n] = "disk"]
  /\ UNCHANGED <<machine, allocated, bound, reg, ctlMsi, msi, vectors, table, base,
                 iv>>

\* Mutant: the default vector 0 is given back as well.
MutantSelfDestruct(c, n) ==
  /\ ns[c][n] = "creating"
  /\ ns' = [ns EXCEPT ![c][n] = "gone"]
  /\ allocated' = allocated \ {msi[c][n]}
  /\ bound' = [g \in Msi |-> IF g = msi[c][n] THEN None ELSE bound[g]]
  /\ UNCHANGED <<machine, reg, ctlMsi, msi, vectors, table, base, iv>>

\* Mutant: the MSI is given back but stays bound.
MutantFreeOnly(c, n) ==
  /\ ns[c][n] = "creating"
  /\ ns' = [ns EXCEPT ![c][n] = "gone"]
  /\ allocated' = IF msi[c][n] = 0 THEN allocated ELSE allocated \ {msi[c][n]}
  /\ UNCHANGED <<machine, bound, reg, ctlMsi, msi, vectors, table, base, iv>>

\* One of them has not: ~Namespace() and free_msi().
SelfDestruct(c, n) ==
  /\ ns[c][n] = "creating"
  /\ ns' = [ns EXCEPT ![c][n] = "gone"]
  /\ IF msi[c][n] = 0
       THEN UNCHANGED <<allocated, bound>>
       ELSE /\ allocated' = allocated \ {msi[c][n]}
            /\ bound' = [bound EXCEPT ![msi[c][n]] = None]
  /\ UNCHANGED <<machine, reg, ctlMsi, msi, vectors, table, base, iv>>

Next ==
  \E c \in Present :
    \/ RegisterInterruptHandler(c)
    \/ RegistrationThrows(c)
    \/ \E n \in Nsid :
         \/ AsyncLoopInit(c, n) \/ AsyncLoopInitThrows(c, n)
         \/ BecomeDisk(c, n) \/ SelfDestruct(c, n)

Spec == Init /\ [][Next]_vars

-----------------------------------------------------------------------------
(* The way of an interrupt.                                                *)

\* Plain MSI: the device replaces the low bits of the message data, which the
\* driver has cleared, by the local vector.  The kernel's data of consecutive
\* MSIs are taken to be consecutive and those of MSI 0 to be aligned.
MessageMsi(c, l) == (base[c] - (base[c] % LocalVectors(c))) + l

\* The object that receives an interrupt of c with local vector l.
Receiver(c, l) ==
  LET Bound(g) == IF g \in Msi THEN bound[g] ELSE None
  IN CASE Mode(c) = "none" -> CtlOf(c)
       [] Mode(c) = "msix" -> IF l \in Entries(c) THEN Bound(table[c][l]) ELSE None
       [] Mode(c) = "msi"  -> IF base[c] = None THEN None ELSE Bound(MessageMsi(c, l))

Registered == {c \in Present : reg[c] \in {"msi", "legacy"}}

\* A completion on the admin queue is looked at by the controller's handler.
AdminServed == \A c \in Registered : Receiver(c, 0) = CtlOf(c)

\* A completion of an I/O queue is looked at by the namespace's handler or the
\* controller's, which looks at all its namespaces.
DisksServed ==
  \A c \in Present, n \in Nsid :
    ns[c][n] = "disk" => Receiver(c, iv[c][n]) \in {<<c, n>>, CtlOf(c)}

QueuesServed == AdminServed /\ DisksServed

\* The MSIs owned: by a controller, by a namespace (0 stands for none).
CtlMsis == {<<c, ctlMsi[c]>> : c \in {d \in Present : reg[d] = "msi"}}
NsMsis  == {<<c, n, msi[c][n]>> : c \in Present, n \in Nsid}
LiveMsis ==
  {t \in NsMsis : ns[t[1]][t[2]] \in {"creating", "disk", "stuck"} /\ t[3] # 0}

OwnedMsis == {t[2] : t \in CtlMsis} \union {t[3] : t \in LiveMsis}

\* The objects at whose registration something threw, and an MSI may be lost.
Throwers ==
  {o \in Objects :
     /\ MsisEnabled(o[1])
     /\ IF o[2] = 0 THEN reg[o[1]] = "thrown"
                    ELSE ns[o[1]][o[2]] = "stuck" /\ msi[o[1]][o[2]] = 0}

\* No MSI has two owners; each owner's is allocated and bound to the owner.  What
\* is allocated without an owner was lost where something threw.  MSI 0,
\* which stands for "none" in free_msi(), is no namespace's.
MsisOwned ==
  /\ \A t \in CtlMsis : bound[t[2]] = CtlOf(t[1])
  /\ \A t \in LiveMsis : bound[t[3]] = <<t[1], t[2]>>
  /\ OwnedMsis \subseteq allocated
  /\ Cardinality(allocated \ OwnedMsis) <= Cardinality(Throwers)

Alive(object) ==
  IF object[2] = 0 THEN object[1] \in Registered
                   ELSE ns[object[1]][object[2]] \in {"creating", "disk", "stuck"}

\* Whatever vector a device raises, be it that of a CQ left behind by a namespace
\* that has been given up, no interrupt goes to an object that has been deleted.
ReceiversAlive ==
  \A c \in {d \in Present : MsisEnabled(d)}, l \in 0 .. machine.namespaces + 1 :
    Receiver(c, l) = None \/ Alive(Receiver(c, l))

\* As long as the MSI-X table has an entry for the controller and for each of its
\* namespaces, the local vectors, of which none is ever given back, stay within.
VectorsInTable ==
  \A c \in {d \in Present : Mode(d) = "msix"} :
    machine.namespaces < LocalVectors(c) => Len(vectors[c]) <= LocalVectors(c)

\* A namespace without an MSI uses "vector 0 and the same handler as the
\* controller uses for handling the admin queues" (ctl.cc:275).
FallbackShares ==
  \A c \in Present, n \in Nsid :
    ns[c][n] = "disk" /\ msi[c][n] = 0 => Receiver(c, iv[c][n]) = CtlOf(c)

\* A controller without an MSI can "use the legacy interrupt" (ctl.cc:199).
LegacyServed == \A c \in Present : reg[c] = "legacy" => Receiver(c, 0) = CtlOf(c)

\* Pci_dev::enable_msi() "can be called repeatedly" (pci.h:213): the interrupts of
\* the admin queue still reach the controller after another MSI has been enabled.
RepeatedlyEnabled ==
  \A c \in Present : reg[c] = "msi" /\ Mode(c) = "msi" => Receiver(c, 0) = CtlOf(c)

=============================================================================
