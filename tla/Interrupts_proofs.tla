-------------------------- MODULE Interrupts_proofs --------------------------
(***************************************************************************)
(* Theorems about Interrupts: who owns which MSI, where the local vectors  *)
(* end, that no interrupt finds a deleted object, and, where there are     *)
(* enough MSIs or one controller uses them, that each finds who serves it. *)
(***************************************************************************)
EXTENDS Interrupts, FiniteSetTheorems, WellFoundedInduction, TLAPS

\* TypeOK, and the variables of which it only gives the values are functions.
Typed ==
  /\ machine \in Machines
  /\ allocated \subseteq Msi
  /\ bound \in [Msi -> Objects \union {None}]
  /\ reg \in [Present -> {"none", "msi", "legacy", "thrown"}]
  /\ ctlMsi \in [Present -> Msi \union {0}]
  /\ ns \in [Present -> [Nsid -> {"none", "creating", "disk", "gone", "stuck"}]]
  /\ msi \in [Present -> [Nsid -> Msi \union {0}]]
  /\ vectors \in [Present -> Seq(Msi \union {0})]
  /\ table = [c \in Present |-> table[c]]
  /\ \A c \in Present : table[c] \in [Entries(c) -> Msi \union {None}]
  /\ base \in [Present -> Msi \union {None}]
  /\ iv \in [Present -> [Nsid -> Nat]]

\* MSI 0 is the first one given out, to a controller, and never given back.
FirstMsi ==
  \A c \in Present : reg[c] # "none" /\ MsisEnabled(c) => 0 \in allocated

\* A namespace has no MSI before it starts, and starts when all controllers have
\* been registered.
Fresh ==
  \A c \in Present, n \in Nsid :
    /\ ns[c][n] = "none" => msi[c][n] = 0
    /\ ns[c][n] # "none" => \A d \in Present : reg[d] # "none"

CtlOwns(c, g) == reg[c] = "msi" /\ ctlMsi[c] = g
NsOwns(c, n, g) ==
  ns[c][n] \in {"creating", "disk", "stuck"} /\ msi[c][n] = g /\ g # 0

\* Whoever has an MSI has it to himself.
Owners ==
  \A c \in Present, g \in Msi \union {0} :
    /\ CtlOwns(c, g) => bound[g] = CtlOf(c) /\ g \in allocated
    /\ \A n \in Nsid : NsOwns(c, n, g) => bound[g] = <<c, n>> /\ g \in allocated

Owned ==
  {g \in Msi : \E c \in Present :
                CtlOwns(c, g) \/ \E n \in Nsid : NsOwns(c, n, g)}

\* What nobody owns was lost where something threw.
LostCounted == Cardinality(allocated \ Owned) <= Cardinality(Throwers)

Started(c) == {n \in Nsid : ns[c][n] # "none"}

\* Every local vector is due to the controller or to one of its namespaces.
VectorsCounted ==
  \A c \in Present :
    Len(vectors[c]) <= (IF reg[c] = "none" THEN 0 ELSE 1) + Cardinality(Started(c))

\* What an MSI is bound to exists or has been left behind by an exception; who
\* has an MSI is bound to no other.
BoundOnce ==
  \A g \in Msi, c \in Present :
    /\ bound[g] = CtlOf(c) => reg[c] \in {"msi", "thrown"}
    /\ \A n \in Nsid :
         bound[g] = <<c, n>> =>
           /\ g # 0 /\ ns[c][n] \in {"creating", "disk", "stuck"}
           /\ ns[c][n] # "stuck" => g = msi[c][n]

\* No device has an MSI of a controller object that is gone.  While controllers
\* are being registered, devices have MSIs that are allocated.
TableAlive ==
  \A c \in Present : \A l \in Entries(c) :
    table[c][l] # None =>
      /\ \A d \in Present : bound[table[c][l]] = CtlOf(d) => reg[d] # "thrown"
      /\ (\E d \in Present : reg[d] = "none") => table[c][l] \in allocated

IInv ==
  /\ Typed /\ FirstMsi /\ Fresh /\ Owners /\ LostCounted /\ VectorsCounted
  /\ BoundOnce /\ TableAlive

-----------------------------------------------------------------------------

(* A set of natural numbers that is not empty has a smallest element.      *)
LEMMA Smallest ==
  ASSUME NEW S \in SUBSET Nat, S # {}
  PROVE  \E g \in S : \A h \in S : g <= h
<1>1. PICK g \in S : \A h \in S : ~ (<<h, g>> \in OpToRel(<, Nat))
  BY NatLessThanWellFounded, WFMin
<1>2. \A h \in S : ~ (h < g)
  BY <1>1 DEF OpToRel
<1>. QED BY <1>2

(* The number of MSIs.                                                     *)
LEMMA MsisNat ==
  ASSUME machine \in Machines
  PROVE  machine.msis \in Nat
<1>1. machine.msis \in 0 .. NumMsis
  BY MachinesAssumption DEF IsMachine
<1>2. \A k \in 0 .. NumMsis : k \in Nat
  BY DEF NumMsis
<1>. QED BY <1>1, <1>2

(* alloc_msi() gives out the lowest MSI that is free.                      *)
LEMMA Lowest ==
  ASSUME machine \in Machines, Free # {}
  PROVE  /\ LowestFree \in Msi /\ LowestFree \notin allocated
         /\ 0 \in Msi
         /\ 0 \notin allocated => LowestFree = 0
<1>1. machine.msis \in Nat
  BY MsisNat
<1>2. \E g \in Free : \A h \in Free : g <= h
  <2>1. Free \in SUBSET Nat
    BY <1>1 DEF Free, Msi
  <2>. QED BY <2>1, Smallest
<1>3. LowestFree \in Free /\ \A h \in Free : LowestFree <= h
  BY <1>2 DEF LowestFree
<1>4. 0 \in Msi
  BY <1>1 DEF Free, Msi
<1>5. 0 \notin allocated => LowestFree = 0
  BY <1>1, <1>3, <1>4 DEF Free, Msi
<1>. QED BY <1>3, <1>4, <1>5 DEF Free

(* Facts about the machine.                                                *)
LEMMA MachineFacts ==
  ASSUME machine \in Machines
  PROVE  /\ machine.msis \in Nat /\ machine.namespaces \in Nat
         /\ IsFiniteSet(Present) /\ Present \subseteq Ctls
         /\ IsFiniteSet(Nsid) /\ Cardinality(Nsid) = machine.namespaces
         /\ None \notin Objects /\ None \notin Msi
<1>1. /\ machine.msis \in Nat /\ machine.namespaces \in Nat
      /\ Present \subseteq Ctls
  BY MsisNat, MachinesAssumption DEF IsMachine, Present
<1>2. IsFiniteSet(Present)
  BY <1>1, CtlsAssumption, FS_Subset
<1>3. IsFiniteSet(Nsid) /\ Cardinality(Nsid) = machine.namespaces
  <2>. DEFINE n == machine.namespaces
  <2>1. n \in Nat
    BY <1>1
  <2>. HIDE DEF n
  <2>2. IsFiniteSet(1 .. n) /\ Cardinality(1 .. n) = n
    <3>1. /\ IsFiniteSet(1 .. n)
          /\ Cardinality(1 .. n) = IF 1 <= n THEN n - 1 + 1 ELSE 0
      BY <2>1, FS_Interval
    <3>. QED BY <2>1, <3>1
  <2>. QED BY <2>2 DEF n, Nsid
<1>4. None \notin Objects
  BY <1>1, NoneAssumption DEF Objects
<1>5. None \notin Msi
  BY <1>1, NoneAssumption DEF Msi
<1>. QED BY <1>1, <1>2, <1>3, <1>4, <1>5

(* A controller that uses MSIs has at least one vector of its kind.        *)
LEMMA TableSize ==
  ASSUME machine \in Machines, NEW c \in Present, Mode(c) # "none"
  PROVE  LocalVectors(c) \in Nat
<1>0. PICK id \in {"msi", "msix"} : id = Mode(c)
  BY DEF Mode
<1>. DEFINE caps == machine.caps[c]
            ofId == {k \in DOMAIN caps : caps[k].id = id}
<1>1. /\ caps \in Seq(Capability) /\ DOMAIN caps = 1 .. Len(caps)
      /\ Len(caps) \in Nat
  BY MachinesAssumption DEF IsMachine, Present
<1>2. VectorsOf(c, id) > 0
  BY <1>0 DEF Mode, UsesMsix, UsesMsi
<1>3. CASE ofId = {}
  BY <1>0, <1>2, <1>3 DEF VectorsOf, LocalVectors
<1>4. CASE ofId # {}
  <2>. DEFINE ofEnd == {Len(caps) - k : k \in ofId}
  <2>0. \A k \in ofId : k \in 1 .. Len(caps)
    BY <1>1
  <2>. HIDE DEF ofId
  <2>1. ofEnd \in SUBSET Nat /\ ofEnd # {}
    <3>1. \A k \in ofId : Len(caps) - k \in Nat
      BY <1>1, <2>0
    <3>. QED BY <1>4, <3>1
  <2>2. PICK e \in ofEnd : \A h \in ofEnd : e <= h
    BY <2>1, Smallest
  <2>3. PICK k \in ofId : e = Len(caps) - k
    BY <2>2
  <2>4. \A l \in ofId : l <= k
    <3>1. \A l \in ofId : e <= Len(caps) - l
      BY <2>2
    <3>. QED BY <1>1, <2>0, <2>3, <3>1
  <2>5. (CHOOSE j \in ofId : \A l \in ofId : l <= j) \in ofId
    BY <2>4
  <2>6. \A j \in ofId : caps[j].size \in Nat
    <3>1. \A j \in 1 .. Len(caps) : caps[j] \in Capability
      BY <1>1
    <3>. QED BY <2>0, <3>1 DEF Capability
  <2>. QED BY <1>0, <1>4, <2>5, <2>6 DEF LocalVectors, VectorsOf, ofId
<1>. QED BY <1>3, <1>4

(* Nothing changes the machine.                                            *)
LEMMA MachineStays ==
  ASSUME UNCHANGED machine
  PROVE  /\ Present' = Present /\ Msi' = Msi /\ Nsid' = Nsid /\ Objects' = Objects
         /\ \A c \in Present : /\ Mode(c)' = Mode(c) /\ Entries(c)' = Entries(c)
                               /\ MsisEnabled(c)' = MsisEnabled(c)
                               /\ LocalVectors(c)' = LocalVectors(c)
<1>1. /\ Present' = Present /\ Msi' = Msi /\ Nsid' = Nsid /\ Objects' = Objects
  BY DEF Present, Msi, Nsid, Objects
<1>2. ASSUME NEW c \in Present
      PROVE  /\ Mode(c)' = Mode(c) /\ MsisEnabled(c)' = MsisEnabled(c)
             /\ LocalVectors(c)' = LocalVectors(c)
  BY DEF Mode, MsisEnabled, UsesMsi, UsesMsix, LocalVectors, VectorsOf
<1>. QED BY <1>1, <1>2 DEF Entries

(* get_local_vector() knows every MSI it has been asked for, and adds one  *)
(* vector at most.                                                         *)
LEMMA Vectors ==
  ASSUME NEW S, NEW vec \in Seq(S), NEW g \in S
  PROVE  /\ WithVector(vec, g) \in Seq(S)
         /\ Len(WithVector(vec, g)) <= Len(vec) + 1
         /\ Len(vec) \in Nat
         /\ LocalVector(WithVector(vec, g), g) \in Nat
         /\ WithVector(WithVector(vec, g), g) = WithVector(vec, g)
<1>1. WithVector(vec, g) \in Seq(S) /\ Len(WithVector(vec, g)) <= Len(vec) + 1
  BY DEF WithVector
<1>2. Known(WithVector(vec, g), g)
  <2>1. CASE Known(vec, g)
    BY <2>1 DEF WithVector
  <2>2. CASE ~Known(vec, g)
    <3>1. Append(vec, g)[Len(vec) + 1] = g /\ Len(Append(vec, g)) = Len(vec) + 1
      OBVIOUS
    <3>2. Len(vec) + 1 \in 1 .. Len(vec) + 1
      OBVIOUS
    <3>. QED BY <2>2, <3>1, <3>2 DEF WithVector, Known
  <2>. QED BY <2>1, <2>2
<1>3. LocalVector(WithVector(vec, g), g) \in Nat
  BY <1>1, <1>2 DEF Known, LocalVector
<1>4. WithVector(WithVector(vec, g), g) = WithVector(vec, g)
  BY <1>2 DEF WithVector
<1>. QED BY <1>1, <1>3, <1>4

-----------------------------------------------------------------------------
(* Types.                                                                  *)

LEMMA TypedInit == Init => Typed
BY MachineFacts DEF Init, Typed

LEMMA TypedOK == Typed => TypeOK
BY DEF Typed, TypeOK

(* An MSI that is given out was free.                                      *)
LEMMA Allocated ==
  ASSUME Typed, NEW c \in Present, CanAllocate(c)
  PROVE  /\ LowestFree \in Msi /\ LowestFree \notin allocated
         /\ allocated \union {LowestFree} \subseteq Msi
         /\ 0 \in Msi /\ (0 \notin allocated => LowestFree = 0)
BY Lowest DEF Typed, CanAllocate

(* enable_msi() writes the MSI, into one entry of the table or nowhere.    *)
LEMMA Enabling ==
  ASSUME Typed, NEW c \in Present, NEW g \in Msi, EnableMsi(c, g)
  PROVE  /\ table' = [d \in Present |-> table'[d]]
         /\ \A d \in Present : table'[d] \in [Entries(d) -> Msi \union {None}]
         /\ \A d \in Present : \A l \in Entries(d) : table'[d][l] \in {table[d][l], g}
         /\ base' \in [Present -> Msi \union {None}]
<1>1. base' \in [Present -> Msi \union {None}]
  BY DEF EnableMsi, Typed
<1>. DEFINE i == LocalVector(Enabled(c, g), g)
<1>2. CASE table' = table
  BY <1>1, <1>2 DEF Typed
<1>3. CASE i \in Entries(c) /\ table' = [table EXCEPT ![c][i] = g]
  <2>. HIDE DEF i
  <2>1. table = [d \in Present |-> table[d]]
    BY DEF Typed
  <2>2. \A d \in Present : table[d] \in [Entries(d) -> Msi \union {None}]
    BY DEF Typed
  <2>3. /\ table' = [d \in Present |-> table'[d]]
        /\ \A d \in Present :
             table'[d] = IF d = c THEN [table[d] EXCEPT ![i] = g] ELSE table[d]
    BY <1>3, <2>1
  <2>4. \A d \in Present : table'[d] \in [Entries(d) -> Msi \union {None}]
    BY <1>3, <2>2, <2>3
  <2>5. \A d \in Present : \A l \in Entries(d) : table'[d][l] \in {table[d][l], g}
    BY <1>3, <2>2, <2>3
  <2>. QED BY <1>1, <2>3, <2>4, <2>5
<1>. QED BY <1>2, <1>3 DEF EnableMsi

(* An MSI enabled for a queue or for the controller takes one local vector *)
(* at most.                                                                *)
LEMMA EnabledVectors ==
  ASSUME Typed, NEW c \in Present, NEW g \in Msi \union {0}
  PROVE  /\ vectors[c] \in Seq(Msi \union {0}) /\ Len(vectors[c]) \in Nat
         /\ Enabled(c, g) \in Seq(Msi \union {0})
         /\ Len(Enabled(c, g)) <= Len(vectors[c]) + 1
         /\ Len(Enabled(c, g)) \in Nat
         /\ WithVector(Enabled(c, g), g) = WithVector(vectors[c], g)
         /\ WithVector(vectors[c], g) \in Seq(Msi \union {0})
         /\ Len(WithVector(vectors[c], g)) <= Len(vectors[c]) + 1
         /\ Len(WithVector(vectors[c], g)) \in Nat
         /\ LocalVector(WithVector(vectors[c], g), g) \in Nat
<1>1. vectors[c] \in Seq(Msi \union {0})
  BY DEF Typed
<1>2. /\ WithVector(vectors[c], g) \in Seq(Msi \union {0})
      /\ Len(WithVector(vectors[c], g)) <= Len(vectors[c]) + 1
      /\ Len(vectors[c]) \in Nat
      /\ LocalVector(WithVector(vectors[c], g), g) \in Nat
      /\ WithVector(WithVector(vectors[c], g), g) = WithVector(vectors[c], g)
  BY <1>1, Vectors
<1>3. Len(WithVector(vectors[c], g)) \in Nat
  BY <1>2
<1>4. Enabled(c, g) = WithVector(vectors[c], g) \/ Enabled(c, g) = vectors[c]
  BY DEF Enabled
<1>. QED BY <1>1, <1>2, <1>3, <1>4

(* The local vector of a namespace's CQ.                                   *)
LEMMA CreatedIocq ==
  ASSUME Typed, NEW c \in Present, NEW n \in Nsid, NEW g \in Msi \union {0},
         NEW vec, vec = vectors[c] \/ vec = Enabled(c, g), CreateIocq(c, n, vec, g)
  PROVE  /\ vectors' = [vectors EXCEPT ![c] = WithVector(vectors[c], g)]
         /\ vectors' \in [Present -> Seq(Msi \union {0})]
         /\ iv' \in [Present -> [Nsid -> Nat]]
<1>1. vectors' = [vectors EXCEPT ![c] = WithVector(vectors[c], g)]
  BY EnabledVectors DEF CreateIocq
<1>2. vectors' \in [Present -> Seq(Msi \union {0})]
  BY <1>1, EnabledVectors DEF Typed
<1>3. LocalVector(vectors'[c], g) \in Nat
  BY <1>1, EnabledVectors DEF Typed
<1>4. iv' \in [Present -> [Nsid -> Nat]]
  <2>. DEFINE l == LocalVector(vectors'[c], g)
  <2>1. iv' = [iv EXCEPT ![c][n] = l] /\ l \in Nat
    BY <1>3 DEF CreateIocq
  <2>. HIDE DEF l
  <2>. QED BY <2>1 DEF Typed
<1>. QED BY <1>1, <1>2, <1>4

(* Every step keeps the types.                                             *)
LEMMA TypedStep ==
  ASSUME Typed, Next
  PROVE  Typed'
<1>0. UNCHANGED machine
  BY DEF Next, RegisterInterruptHandler, RegistrationThrows, AsyncLoopInit,
         AsyncLoopInitThrows, BecomeDisk, SelfDestruct
<1>. DEFINE Values ==
       /\ allocated' \subseteq Msi
       /\ bound' \in [Msi -> Objects \union {None}]
       /\ reg' \in [Present -> {"none", "msi", "legacy", "thrown"}]
       /\ ctlMsi' \in [Present -> Msi \union {0}]
       /\ ns' \in [Present -> [Nsid -> {"none", "creating", "disk", "gone", "stuck"}]]
       /\ msi' \in [Present -> [Nsid -> Msi \union {0}]]
       /\ vectors' \in [Present -> Seq(Msi \union {0})]
       /\ table' = [c \in Present |-> table'[c]]
       /\ \A c \in Present : table'[c] \in [Entries(c) -> Msi \union {None}]
       /\ base' \in [Present -> Msi \union {None}]
       /\ iv' \in [Present -> [Nsid -> Nat]]
<1>1. SUFFICES Values
  BY <1>0, MachineStays DEF Typed
<1>2. \A c \in Present : CtlOf(c) \in Objects /\ \A n \in Nsid : <<c, n>> \in Objects
  BY MachineFacts DEF Typed, Objects, Nsid, CtlOf
<1>3. ASSUME NEW c \in Present, RegisterInterruptHandler(c) PROVE Values
  <2>1. CASE CanAllocate(c)
    <3>1. /\ allocated' = allocated \union {LowestFree}
          /\ bound' = [bound EXCEPT ![LowestFree] = CtlOf(c)]
          /\ reg' = [reg EXCEPT ![c] = "msi"]
          /\ ctlMsi' = [ctlMsi EXCEPT ![c] = LowestFree]
          /\ EnableMsi(c, LowestFree)
          /\ vectors' = [vectors EXCEPT ![c] = Enabled(c, LowestFree)]
          /\ UNCHANGED <<ns, msi, iv>>
      BY <1>3, <2>1 DEF RegisterInterruptHandler
    <3>2. LowestFree \in Msi /\ allocated' \subseteq Msi
      BY <2>1, <3>1, Allocated
    <3>3. bound' \in [Msi -> Objects \union {None}]
      BY <1>2, <3>1, <3>2 DEF Typed
    <3>4. /\ reg' \in [Present -> {"none", "msi", "legacy", "thrown"}]
          /\ ctlMsi' \in [Present -> Msi \union {0}]
      BY <3>1, <3>2 DEF Typed
    <3>5. vectors' \in [Present -> Seq(Msi \union {0})]
      BY <3>1, <3>2, EnabledVectors DEF Typed
    <3>6. /\ table' = [d \in Present |-> table'[d]]
          /\ \A d \in Present : table'[d] \in [Entries(d) -> Msi \union {None}]
          /\ base' \in [Present -> Msi \union {None}]
      BY <3>1, <3>2, Enabling
    <3>. QED BY <3>1, <3>2, <3>3, <3>4, <3>5, <3>6 DEF Typed
  <2>2. CASE ~CanAllocate(c)
    BY <1>3, <2>2 DEF RegisterInterruptHandler, Typed
  <2>. QED BY <2>1, <2>2
<1>4. ASSUME NEW c \in Present, RegistrationThrows(c) PROVE Values
  <2>1. CASE CanAllocate(c)
    BY <1>2, <1>4, <2>1, Allocated DEF RegistrationThrows, Typed
  <2>2. CASE ~CanAllocate(c)
    BY <1>4, <2>2 DEF RegistrationThrows, Typed
  <2>. QED BY <2>1, <2>2
<1>5. ASSUME NEW c \in Present, NEW n \in Nsid, AsyncLoopInit(c, n) PROVE Values
  <2>0. ns' = [ns EXCEPT ![c][n] = "creating"] /\ UNCHANGED <<reg, ctlMsi>>
    BY <1>5 DEF AsyncLoopInit
  <2>1. CASE CanAllocate(c)
    <3>1. /\ allocated' = allocated \union {LowestFree}
          /\ bound' = [bound EXCEPT ![LowestFree] = <<c, n>>]
          /\ msi' = [msi EXCEPT ![c][n] = LowestFree]
          /\ EnableMsi(c, LowestFree)
          /\ CreateIocq(c, n, Enabled(c, LowestFree), LowestFree)
      BY <1>5, <2>1 DEF AsyncLoopInit
    <3>2. LowestFree \in Msi /\ allocated \union {LowestFree} \subseteq Msi
      BY <2>1, Allocated
    <3>3. /\ vectors' \in [Present -> Seq(Msi \union {0})]
          /\ iv' \in [Present -> [Nsid -> Nat]]
      BY <3>1, <3>2, CreatedIocq
    <3>4. bound' \in [Msi -> Objects \union {None}]
      BY <1>2, <3>1, <3>2 DEF Typed
    <3>5. /\ ns' \in [Present -> [Nsid -> {"none", "creating", "disk", "gone", "stuck"}]]
          /\ msi' \in [Present -> [Nsid -> Msi \union {0}]]
      BY <2>0, <3>1, <3>2 DEF Typed
    <3>6. /\ table' = [d \in Present |-> table'[d]]
          /\ \A d \in Present : table'[d] \in [Entries(d) -> Msi \union {None}]
          /\ base' \in [Present -> Msi \union {None}]
      BY <3>1, <3>2, Enabling
    <3>. QED BY <2>0, <3>1, <3>2, <3>3, <3>4, <3>5, <3>6 DEF Typed
  <2>2. CASE ~CanAllocate(c)
    <3>1. /\ CreateIocq(c, n, vectors[c], 0)
          /\ UNCHANGED <<allocated, bound, msi, table, base>>
      BY <1>5, <2>2 DEF AsyncLoopInit
    <3>2. /\ vectors' \in [Present -> Seq(Msi \union {0})]
          /\ iv' \in [Present -> [Nsid -> Nat]]
      BY <3>1, CreatedIocq
    <3>. QED BY <2>0, <3>1, <3>2 DEF Typed
  <2>. QED BY <2>1, <2>2
<1>6. ASSUME NEW c \in Present, NEW n \in Nsid, AsyncLoopInitThrows(c, n) PROVE Values
  <2>0. ns' = [ns EXCEPT ![c][n] = "stuck"] /\ UNCHANGED <<reg, ctlMsi, iv>>
    BY <1>6 DEF AsyncLoopInitThrows
  <2>1. CASE /\ CanAllocate(c)
             /\ allocated' = allocated \union {LowestFree}
             /\ bound' \in {bound, [bound EXCEPT ![LowestFree] = <<c, n>>]}
             /\ UNCHANGED <<msi, vectors, table, base>>
    <3>1. LowestFree \in Msi /\ allocated' \subseteq Msi
      BY <2>1, Allocated
    <3>2. bound' \in [Msi -> Objects \union {None}]
      BY <1>2, <2>1, <3>1 DEF Typed
    <3>. QED BY <2>0, <2>1, <3>1, <3>2 DEF Typed
  <2>2. CASE /\ CanAllocate(c)
             /\ allocated' = allocated \union {LowestFree}
             /\ bound' = [bound EXCEPT ![LowestFree] = <<c, n>>]
             /\ msi' = [msi EXCEPT ![c][n] = LowestFree]
             /\ EnableMsi(c, LowestFree)
             /\ vectors' = [vectors EXCEPT ![c] = Enabled(c, LowestFree)]
    <3>1. LowestFree \in Msi /\ allocated' \subseteq Msi
      BY <2>2, Allocated
    <3>2. bound' \in [Msi -> Objects \union {None}]
      BY <1>2, <2>2, <3>1 DEF Typed
    <3>3. /\ ns' \in [Present -> [Nsid -> {"none", "creating", "disk", "gone", "stuck"}]]
          /\ msi' \in [Present -> [Nsid -> Msi \union {0}]]
      BY <2>0, <2>2, <3>1 DEF Typed
    <3>4. vectors' \in [Present -> Seq(Msi \union {0})]
      BY <2>2, <3>1, EnabledVectors DEF Typed
    <3>5. /\ table' = [d \in Present |-> table'[d]]
          /\ \A d \in Present : table'[d] \in [Entries(d) -> Msi \union {None}]
          /\ base' \in [Present -> Msi \union {None}]
      BY <2>2, <3>1, Enabling
    <3>. QED BY <2>0, <3>1, <3>2, <3>3, <3>4, <3>5 DEF Typed
  <2>3. CASE UNCHANGED <<allocated, bound, msi, vectors, table, base>>
    BY <2>0, <2>3 DEF Typed
  <2>. QED BY <1>6, <2>1, <2>2, <2>3 DEF AsyncLoopInitThrows
<1>7. ASSUME NEW c \in Present, NEW n \in Nsid, BecomeDisk(c, n) PROVE Values
  BY <1>7 DEF BecomeDisk, Typed
<1>8. ASSUME NEW c \in Present, NEW n \in Nsid, SelfDestruct(c, n) PROVE Values
  BY <1>8 DEF SelfDestruct, Typed
<1>. HIDE DEF Values
<1>. QED BY <1>3, <1>4, <1>5, <1>6, <1>7, <1>8 DEF Next

-----------------------------------------------------------------------------
(* Who has which MSI.                                                      *)

(* There are finitely many of everything.                                  *)
LEMMA Finite ==
  ASSUME machine \in Machines
  PROVE  /\ IsFiniteSet(Msi) /\ IsFiniteSet(Objects)
         /\ Throwers \subseteq Objects
<1>1. IsFiniteSet(Msi)
  <2>. DEFINE n == machine.msis
  <2>1. n \in Nat
    BY MachineFacts
  <2>. HIDE DEF n
  <2>2. IsFiniteSet(0 .. n - 1)
    BY <2>1, FS_Interval
  <2>. QED BY <2>2 DEF n, Msi
<1>2. IsFiniteSet(Objects)
  <2>. DEFINE n == machine.namespaces
  <2>1. n \in Nat
    BY MachineFacts
  <2>. HIDE DEF n
  <2>2. IsFiniteSet(0 .. n)
    BY <2>1, FS_Interval
  <2>3. IsFiniteSet(Present \X (0 .. n))
    BY <2>2, MachineFacts, FS_Product
  <2>. QED BY <2>3 DEF n, Objects
<1>. QED BY <1>1, <1>2 DEF Throwers

(* No MSI is lost.                                                         *)
LEMMA NoneLost ==
  ASSUME Typed, LostCounted, UNCHANGED machine,
         allocated' \ Owned' \subseteq allocated \ Owned, Throwers \subseteq Throwers'
  PROVE  LostCounted'
<1>1. /\ IsFiniteSet(allocated \ Owned)
      /\ IsFiniteSet(Throwers')
  <2>1. IsFiniteSet(Msi) /\ IsFiniteSet(Objects)
    BY Finite DEF Typed
  <2>2. Throwers' \subseteq Objects
    BY MachineStays DEF Throwers
  <2>. QED BY <2>1, <2>2, FS_Subset DEF Typed
<1>2. /\ Cardinality(allocated' \ Owned') <= Cardinality(allocated \ Owned)
      /\ Cardinality(Throwers) <= Cardinality(Throwers')
      /\ IsFiniteSet(allocated' \ Owned') /\ IsFiniteSet(Throwers)
  BY <1>1, FS_Subset
<1>. HIDE DEF Owned, Throwers
<1>3. /\ Cardinality(allocated' \ Owned') \in Nat
      /\ Cardinality(allocated \ Owned) \in Nat
      /\ Cardinality(Throwers) \in Nat /\ Cardinality(Throwers') \in Nat
  BY <1>1, <1>2, FS_CardinalityType
<1>. QED BY <1>2, <1>3 DEF LostCounted

(* One MSI is lost, at an object that has not been the place before.       *)
LEMMA OneLost ==
  ASSUME Typed, LostCounted, UNCHANGED machine, NEW g, NEW o,
         allocated' \ Owned' \subseteq (allocated \ Owned) \union {g},
         o \notin Throwers, Throwers \union {o} \subseteq Throwers'
  PROVE  LostCounted'
<1>1. /\ IsFiniteSet(allocated \ Owned)
      /\ IsFiniteSet(Throwers')
  <2>1. IsFiniteSet(Msi) /\ IsFiniteSet(Objects)
    BY Finite DEF Typed
  <2>2. Throwers' \subseteq Objects
    BY MachineStays DEF Throwers
  <2>. QED BY <2>1, <2>2, FS_Subset DEF Typed
<1>2. IsFiniteSet(Throwers)
  BY <1>1, FS_Subset
<1>3. /\ Cardinality(Throwers \union {o}) = Cardinality(Throwers) + 1
      /\ IsFiniteSet(Throwers \union {o})
  BY <1>2, FS_AddElement
<1>4. /\ IsFiniteSet((allocated \ Owned) \union {g})
      /\ Cardinality((allocated \ Owned) \union {g}) <= Cardinality(allocated \ Owned) + 1
  <2>1. IsFiniteSet((allocated \ Owned) \union {g})
    BY <1>1, FS_AddElement
  <2>2. CASE g \in allocated \ Owned
    <3>1. (allocated \ Owned) \union {g} = allocated \ Owned
      BY <2>2
    <3>2. Cardinality((allocated \ Owned) \union {g}) = Cardinality(allocated \ Owned)
      BY <3>1, Zenon
    <3>3. Cardinality(allocated \ Owned) \in Nat
      BY <1>1, FS_CardinalityType
    <3>. QED BY <2>1, <3>2, <3>3
  <2>3. CASE g \notin allocated \ Owned
    <3>1. Cardinality((allocated \ Owned) \union {g}) = Cardinality(allocated \ Owned) + 1
      BY <1>1, <2>3, FS_AddElement
    <3>2. Cardinality(allocated \ Owned) \in Nat
      BY <1>1, FS_CardinalityType
    <3>. QED BY <2>1, <3>1, <3>2
  <2>. QED BY <2>2, <2>3
<1>5. /\ Cardinality(allocated' \ Owned')
           <= Cardinality((allocated \ Owned) \union {g})
      /\ Cardinality(Throwers \union {o}) <= Cardinality(Throwers')
      /\ IsFiniteSet(allocated' \ Owned')
  BY <1>1, <1>4, FS_Subset
<1>6. /\ Cardinality(allocated' \ Owned') \in Nat
      /\ Cardinality(allocated \ Owned) \in Nat
      /\ Cardinality((allocated \ Owned) \union {g}) \in Nat
      /\ Cardinality(Throwers) \in Nat /\ Cardinality(Throwers') \in Nat
  BY <1>1, <1>2, <1>4, <1>5, FS_CardinalityType
<1>. QED BY <1>3, <1>4, <1>5, <1>6 DEF LostCounted

(* An MSI that is free has no owner, and binding it disturbs none.         *)
LEMMA FreeUnowned ==
  ASSUME Typed, Owners, NEW g \in Msi, g \notin allocated,
         NEW d \in Present, NEW h \in Msi \union {0}
  PROVE  /\ CtlOwns(d, h) => h # g
         /\ \A m \in Nsid : NsOwns(d, m, h) => h # g
BY DEF Owners

(* What is bound when another MSI is given out, or none.                   *)
LEMMA BoundStays ==
  ASSUME Typed, NEW g \in Msi, NEW o,
         bound' \in {bound, [bound EXCEPT ![g] = o]}
  PROVE  \A h \in Msi : h # g => bound'[h] = bound[h]
BY DEF Typed

(* register_interrupt_handler() makes the controller an owner.             *)
LEMMA OwnersRegister ==
  ASSUME IInv, NEW c \in Present, RegisterInterruptHandler(c)
  PROVE  Owners' /\ LostCounted'
<1>1. Typed /\ Owners /\ LostCounted /\ UNCHANGED machine
  BY DEF IInv, RegisterInterruptHandler
<1>2. Present' = Present /\ Nsid' = Nsid /\ Msi' = Msi
  BY <1>1, MachineStays
<1>3. reg[c] = "none" /\ UNCHANGED <<ns, msi>>
  BY DEF RegisterInterruptHandler
<1>4. Throwers \subseteq Throwers'
  <2>1. \A d \in Present : reg[d] = "thrown" => reg'[d] = "thrown"
    BY <1>1, <1>3 DEF RegisterInterruptHandler, Typed
  <2>2. \A o \in Objects : o[1] \in Present
    BY DEF Objects
  <2>. QED BY <1>1, <1>3, <2>1, <2>2, MachineStays DEF Throwers
<1>5. CASE CanAllocate(c)
  <2>0. PICK g \in Msi : g = LowestFree /\ g \notin allocated
    BY <1>1, <1>5, Allocated
  <2>1. /\ allocated' = allocated \union {g}
        /\ bound' = [bound EXCEPT ![g] = CtlOf(c)]
        /\ reg' = [reg EXCEPT ![c] = "msi"]
        /\ ctlMsi' = [ctlMsi EXCEPT ![c] = g]
    BY <1>5, <2>0 DEF RegisterInterruptHandler
  <2>3. \A d \in Present, h \in Msi \union {0} :
          /\ CtlOwns(d, h)' <=> CtlOwns(d, h) \/ (d = c /\ h = g)
          /\ \A m \in Nsid : NsOwns(d, m, h)' <=> NsOwns(d, m, h)
    <3>1. \A d \in Present : /\ reg'[d] = IF d = c THEN "msi" ELSE reg[d]
                             /\ ctlMsi'[d] = IF d = c THEN g ELSE ctlMsi[d]
      BY <1>1, <2>1 DEF Typed
    <3>2. ASSUME NEW d \in Present, NEW h \in Msi \union {0}
          PROVE  CtlOwns(d, h)' <=> CtlOwns(d, h) \/ (d = c /\ h = g)
      BY <1>3, <3>1 DEF CtlOwns
    <3>3. ASSUME NEW d \in Present, NEW h \in Msi \union {0}, NEW m \in Nsid
          PROVE  NsOwns(d, m, h)' <=> NsOwns(d, m, h)
      BY <1>3 DEF NsOwns
    <3>. QED BY <3>2, <3>3
  <2>4. bound'[g] = CtlOf(c) /\ \A h \in Msi : h # g => bound'[h] = bound[h]
    BY <1>1, <2>1, <2>0 DEF Typed
  <2>5. Owners'
    <3>1. \A d \in Present, h \in Msi \union {0} :
            CtlOwns(d, h)' => bound'[h] = CtlOf(d) /\ h \in allocated'
      BY <1>1, <2>1, <2>0, <2>3, <2>4, FreeUnowned DEF Owners, Typed
    <3>2. \A d \in Present, h \in Msi \union {0}, m \in Nsid :
            NsOwns(d, m, h)' => bound'[h] = <<d, m>> /\ h \in allocated'
      BY <1>1, <2>1, <2>0, <2>3, <2>4, FreeUnowned DEF Owners, Typed
    <3>. QED BY <1>2, <3>1, <3>2 DEF Owners
  <2>6. Owned \union {g} \subseteq Owned'
    <3>1. ASSUME NEW h \in Owned PROVE h \in Owned'
      <4>1. PICK d \in Present : CtlOwns(d, h) \/ \E n \in Nsid : NsOwns(d, n, h)
        BY DEF Owned
      <4>2. CtlOwns(d, h)' \/ \E n \in Nsid : NsOwns(d, n, h)'
        BY <2>3, <4>1 DEF Owned
      <4>. QED BY <1>2, <4>2 DEF Owned
    <3>2. g \in Owned'
      <4>1. CtlOwns(c, g)'
        BY <2>0, <2>3
      <4>. QED BY <1>2, <2>0, <4>1 DEF Owned
    <3>. QED BY <3>1, <3>2
  <2>. QED BY <1>1, <1>4, <2>1, <2>5, <2>6, NoneLost
<1>6. CASE ~CanAllocate(c)
  <2>1. reg' = [reg EXCEPT ![c] = "legacy"] /\ UNCHANGED <<allocated, bound, ctlMsi>>
    BY <1>6 DEF RegisterInterruptHandler
  <2>2. \A d \in Present, h \in Msi \union {0} :
          /\ CtlOwns(d, h)' <=> CtlOwns(d, h)
          /\ \A m \in Nsid : NsOwns(d, m, h)' <=> NsOwns(d, m, h)
    BY <1>1, <1>3, <2>1 DEF CtlOwns, NsOwns, Typed
  <2>3. Owners' /\ Owned \subseteq Owned'
    BY <1>1, <1>2, <2>1, <2>2 DEF Owners, Owned
  <2>. QED BY <1>1, <1>4, <2>1, <2>3, NoneLost
<1>. QED BY <1>5, <1>6

(* A registration that throws leaves an MSI without an owner.              *)
LEMMA OwnersThrow ==
  ASSUME IInv, NEW c \in Present, RegistrationThrows(c)
  PROVE  Owners' /\ LostCounted'
<1>1. Typed /\ Owners /\ LostCounted /\ UNCHANGED machine
  BY DEF IInv, RegistrationThrows
<1>2. Present' = Present /\ Nsid' = Nsid /\ Msi' = Msi
  BY <1>1, MachineStays
<1>3. /\ reg[c] = "none" /\ reg' = [reg EXCEPT ![c] = "thrown"]
      /\ UNCHANGED <<ns, msi, ctlMsi>>
  BY DEF RegistrationThrows
<1>4. \A d \in Present, h \in Msi \union {0} :
        /\ CtlOwns(d, h)' <=> CtlOwns(d, h)
        /\ \A m \in Nsid : NsOwns(d, m, h)' <=> NsOwns(d, m, h)
  BY <1>1, <1>3 DEF CtlOwns, NsOwns, Typed
<1>5. Owned' = Owned
  BY <1>2, <1>4 DEF Owned
<1>6. /\ \A d \in Present : reg[d] = "thrown" => reg'[d] = "thrown"
      /\ reg'[c] = "thrown" /\ \A o \in Objects : o[1] \in Present
  BY <1>1, <1>3 DEF Typed, Objects
<1>7. Throwers \subseteq Throwers'
  BY <1>1, <1>3, <1>6, MachineStays DEF Throwers
<1>8. CASE CanAllocate(c)
  <2>0. PICK g \in Msi : g = LowestFree /\ g \notin allocated
    BY <1>1, <1>8, Allocated
  <2>1. /\ allocated' = allocated \union {g}
        /\ bound' \in {bound, [bound EXCEPT ![g] = CtlOf(c)]}
    BY <1>8, <2>0 DEF RegistrationThrows
  <2>3. \A h \in Msi : h # g => bound'[h] = bound[h]
    BY <1>1, <2>1, <2>0, BoundStays
  <2>4. Owners'
    BY <1>1, <1>2, <1>4, <2>1, <2>0, <2>3, FreeUnowned DEF Owners, Typed
  <2>5. CtlOf(c) \in Throwers' /\ CtlOf(c) \notin Throwers
    <3>1. CtlOf(c) \in Objects /\ CtlOf(c)[1] = c /\ CtlOf(c)[2] = 0
      BY <1>1, MachineFacts DEF Typed, Objects, CtlOf
    <3>2. MsisEnabled(c)
      BY <1>8 DEF CanAllocate
    <3>. QED BY <1>1, <1>3, <1>6, <3>1, <3>2, MachineStays DEF Throwers
  <2>. QED BY <1>1, <1>5, <1>7, <2>1, <2>4, <2>5, OneLost
<1>9. CASE ~CanAllocate(c)
  <2>1. UNCHANGED <<allocated, bound>>
    BY <1>9 DEF RegistrationThrows
  <2>2. Owners'
    BY <1>1, <1>2, <1>4, <2>1 DEF Owners
  <2>. QED BY <1>1, <1>5, <1>7, <2>1, <2>2, NoneLost
<1>. QED BY <1>8, <1>9

(* A namespace that has been started owns the MSI it has been given, which *)
(* is not MSI 0; one that gets none, and has had none, owns none.          *)
LEMMA OwnersStart ==
  ASSUME IInv, UNCHANGED <<machine, reg, ctlMsi>>, NEW c \in Present, NEW n \in Nsid,
         NEW life \in {"creating", "stuck"}, ns[c][n] = "none",
         ns' = [ns EXCEPT ![c][n] = life],
         NEW g \in Msi, g \notin allocated, g # 0,
         allocated' = allocated \union {g},
         bound' = [bound EXCEPT ![g] = <<c, n>>],
         msi' = [msi EXCEPT ![c][n] = g]
  PROVE  Owners' /\ LostCounted'
<1>1. Typed /\ Owners /\ LostCounted
  BY DEF IInv
<1>2. Present' = Present /\ Nsid' = Nsid /\ Msi' = Msi /\ 0 \notin Nsid
  BY MachineStays DEF Nsid
<1>3. \A d \in Present, m \in Nsid :
        /\ ns'[d][m] = IF d = c /\ m = n THEN life ELSE ns[d][m]
        /\ msi'[d][m] = IF d = c /\ m = n THEN g ELSE msi[d][m]
  BY <1>1 DEF Typed
<1>4. /\ \A d \in Present, h \in Msi \union {0} : CtlOwns(d, h)' <=> CtlOwns(d, h)
      /\ \A d \in Present, h \in Msi \union {0}, m \in Nsid :
           NsOwns(d, m, h)' <=> NsOwns(d, m, h) \/ (d = c /\ m = n /\ h = g)
  BY <1>3 DEF CtlOwns, NsOwns
<1>5. bound'[g] = <<c, n>> /\ \A h \in Msi : h # g => bound'[h] = bound[h]
  BY <1>1 DEF Typed
<1>6. Owners'
  <2>1. \A d \in Present, h \in Msi \union {0} :
          CtlOwns(d, h)' => bound'[h] = CtlOf(d) /\ h \in allocated'
    BY <1>1, <1>4, <1>5, FreeUnowned DEF Owners, Typed
  <2>2. \A d \in Present, h \in Msi \union {0}, m \in Nsid :
          NsOwns(d, m, h)' => bound'[h] = <<d, m>> /\ h \in allocated'
    BY <1>1, <1>4, <1>5, FreeUnowned DEF Owners, Typed
  <2>. QED BY <1>2, <2>1, <2>2 DEF Owners
<1>7. Owned \union {g} \subseteq Owned'
  <2>1. ASSUME NEW h \in Owned PROVE h \in Owned'
    <3>1. PICK d \in Present : CtlOwns(d, h) \/ \E m \in Nsid : NsOwns(d, m, h)
      BY DEF Owned
    <3>2. CtlOwns(d, h)' \/ \E m \in Nsid : NsOwns(d, m, h)'
      BY <1>4, <3>1 DEF Owned
    <3>. QED BY <1>2, <3>2 DEF Owned
  <2>2. NsOwns(c, n, g)'
    BY <1>4
  <2>. QED BY <1>2, <2>1, <2>2 DEF Owned
<1>8. Throwers \subseteq Throwers'
  <2>1. ASSUME NEW o \in Throwers PROVE o \in Throwers'
    <3>1. /\ o[1] \in Present /\ (o[2] \in Nsid \/ o[2] = 0) /\ o \in Objects
          /\ MsisEnabled(o[1])
      BY <1>1, MachineFacts DEF Throwers, Objects, Nsid, Typed
    <3>2. CASE o[2] = 0
      BY <3>1, <3>2, MachineStays DEF Throwers
    <3>3. CASE o[2] # 0
      <4>1. ns[o[1]][o[2]] = "stuck" /\ msi[o[1]][o[2]] = 0
        BY <3>3 DEF Throwers
      <4>2. ns'[o[1]][o[2]] = "stuck" /\ msi'[o[1]][o[2]] = 0
        BY <1>3, <3>1, <3>3, <4>1
      <4>. QED BY <3>1, <3>3, <4>2, MachineStays DEF Throwers
    <3>. QED BY <3>2, <3>3
  <2>. QED BY <2>1
<1>. QED BY <1>1, <1>6, <1>7, <1>8, NoneLost

(* A namespace whose MSI stays as it was, none: nobody becomes an owner.   *)
LEMMA OwnersOf ==
  ASSUME IInv, UNCHANGED <<machine, reg, ctlMsi, msi>>, NEW c \in Present,
         NEW n \in Nsid, NEW life \in {"creating", "stuck"}, ns[c][n] = "none",
         ns' = [ns EXCEPT ![c][n] = life]
  PROVE  /\ \A d \in Present, h \in Msi \union {0} :
              /\ CtlOwns(d, h)' <=> CtlOwns(d, h)
              /\ \A m \in Nsid : NsOwns(d, m, h)' <=> NsOwns(d, m, h)
         /\ Owned' = Owned /\ Throwers \subseteq Throwers'
         /\ life = "stuck" /\ MsisEnabled(c) =>
              <<c, n>> \in Throwers' /\ <<c, n>> \notin Throwers
<1>1. Typed /\ msi[c][n] = 0
  BY DEF IInv, Fresh
<1>2. Present' = Present /\ Nsid' = Nsid /\ Msi' = Msi /\ Objects' = Objects
  BY MachineStays
<1>3. \A d \in Present, m \in Nsid :
        ns'[d][m] = IF d = c /\ m = n THEN life ELSE ns[d][m]
  BY <1>1 DEF Typed
<1>4. \A d \in Present, h \in Msi \union {0} :
        /\ CtlOwns(d, h)' <=> CtlOwns(d, h)
        /\ \A m \in Nsid : NsOwns(d, m, h)' <=> NsOwns(d, m, h)
  BY <1>1, <1>3 DEF CtlOwns, NsOwns
<1>5. Owned' = Owned
  BY <1>2, <1>4 DEF Owned
<1>6. \A o \in Objects : o[1] \in Present /\ (o[2] \in Nsid \/ o[2] = 0)
  BY <1>1, MachineFacts DEF Objects, Nsid, Typed
<1>7. Throwers \subseteq Throwers'
  <2>1. \A o \in Objects : o[2] # 0 /\ ns[o[1]][o[2]] = "stuck" => ns'[o[1]][o[2]] = "stuck"
    BY <1>3, <1>6
  <2>. QED BY <1>2, <1>6, <2>1, MachineStays DEF Throwers
<1>8. ASSUME life = "stuck", MsisEnabled(c)
      PROVE  <<c, n>> \in Throwers' /\ <<c, n>> \notin Throwers
  <2>1. <<c, n>> \in Objects /\ n # 0
    BY <1>1, MachineFacts DEF Objects, Nsid, Typed
  <2>2. ns'[c][n] = "stuck"
    BY <1>3, <1>8
  <2>. QED BY <1>1, <1>2, <1>8, <2>1, <2>2, MachineStays DEF Throwers
<1>. QED BY <1>4, <1>5, <1>7, <1>8

(* A namespace that is given an MSI has a controller that has registered,  *)
(* and MSI 0 has gone before.                                              *)
LEMMA NotTheFirst ==
  ASSUME IInv, NEW c \in Present, NEW n \in Nsid, MayInit(c, n), CanAllocate(c)
  PROVE  \E g \in Msi : g = LowestFree /\ g \notin allocated /\ g # 0
<1>1. 0 \in allocated
  BY DEF IInv, FirstMsi, MayInit, CanAllocate
<1>. QED BY <1>1, Allocated DEF IInv

(* async_loop_init() makes the namespace an owner, if there is an MSI.     *)
LEMMA OwnersAsyncLoopInit ==
  ASSUME IInv, NEW c \in Present, NEW n \in Nsid, AsyncLoopInit(c, n)
  PROVE  Owners' /\ LostCounted'
<1>1. /\ MayInit(c, n) /\ ns[c][n] = "none" /\ UNCHANGED <<machine, reg, ctlMsi>>
      /\ ns' = [ns EXCEPT ![c][n] = "creating"]
  BY DEF AsyncLoopInit, MayInit
<1>2. CASE CanAllocate(c)
  <2>1. PICK g \in Msi : g = LowestFree /\ g \notin allocated /\ g # 0
    BY <1>1, <1>2, NotTheFirst
  <2>2. /\ allocated' = allocated \union {g}
        /\ bound' = [bound EXCEPT ![g] = <<c, n>>]
        /\ msi' = [msi EXCEPT ![c][n] = g]
    BY <1>2, <2>1 DEF AsyncLoopInit
  <2>. QED BY <1>1, <2>1, <2>2, OwnersStart
<1>3. CASE ~CanAllocate(c)
  <2>1. UNCHANGED <<allocated, bound, msi>>
    BY <1>3 DEF AsyncLoopInit
  <2>2. /\ \A d \in Present, h \in Msi \union {0} :
             /\ CtlOwns(d, h)' <=> CtlOwns(d, h)
             /\ \A m \in Nsid : NsOwns(d, m, h)' <=> NsOwns(d, m, h)
        /\ Owned' = Owned /\ Throwers \subseteq Throwers'
    BY <1>1, <2>1, OwnersOf
  <2>3. Owners'
    BY <1>1, <2>1, <2>2, MachineStays DEF IInv, Owners
  <2>. QED BY <1>1, <2>1, <2>2, <2>3, NoneLost DEF IInv
<1>. QED BY <1>2, <1>3

(* Where it throws, the MSI is lost or the object's that nobody owns.      *)
LEMMA OwnersAsyncLoopInitThrows ==
  ASSUME IInv, NEW c \in Present, NEW n \in Nsid, AsyncLoopInitThrows(c, n)
  PROVE  Owners' /\ LostCounted'
<1>1. /\ MayInit(c, n) /\ ns[c][n] = "none" /\ UNCHANGED <<machine, reg, ctlMsi>>
      /\ ns' = [ns EXCEPT ![c][n] = "stuck"]
      /\ Typed /\ Owners /\ LostCounted
  BY DEF AsyncLoopInitThrows, MayInit, IInv
<1>2. ASSUME UNCHANGED msi
      PROVE  /\ \A d \in Present, h \in Msi \union {0} :
                  /\ CtlOwns(d, h)' <=> CtlOwns(d, h)
                  /\ \A m \in Nsid : NsOwns(d, m, h)' <=> NsOwns(d, m, h)
             /\ Owned' = Owned /\ Throwers \subseteq Throwers'
             /\ MsisEnabled(c) => <<c, n>> \in Throwers' /\ <<c, n>> \notin Throwers
  BY <1>1, <1>2, OwnersOf
<1>3. ASSUME CanAllocate(c), UNCHANGED msi,
             allocated' = allocated \union {LowestFree},
             bound' \in {bound, [bound EXCEPT ![LowestFree] = <<c, n>>]}
      PROVE  Owners' /\ LostCounted'
  <2>1. PICK g \in Msi : g = LowestFree /\ g \notin allocated
    BY <1>1, <1>3, NotTheFirst
  <2>2. \A h \in Msi : h # g => bound'[h] = bound[h]
    BY <1>1, <1>3, <2>1, BoundStays
  <2>3. Owners'
    <3>1. Present' = Present /\ Nsid' = Nsid /\ Msi' = Msi
      BY <1>1, MachineStays
    <3>2. allocated' = allocated \union {g}
      BY <1>3, <2>1
    <3>3. /\ \A d \in Present, h \in Msi \union {0} :
               /\ CtlOwns(d, h)' <=> CtlOwns(d, h)
               /\ \A m \in Nsid : NsOwns(d, m, h)' <=> NsOwns(d, m, h)
      BY <1>2, <1>3
    <3>. QED BY <1>1, <2>1, <2>2, <3>1, <3>2, <3>3, FreeUnowned DEF Owners, Typed
  <2>4. MsisEnabled(c)
    BY <1>3 DEF CanAllocate
  <2>. QED BY <1>1, <1>2, <1>3, <2>1, <2>3, <2>4, OneLost
<1>4. ASSUME CanAllocate(c),
             allocated' = allocated \union {LowestFree},
             bound' = [bound EXCEPT ![LowestFree] = <<c, n>>],
             msi' = [msi EXCEPT ![c][n] = LowestFree]
      PROVE  Owners' /\ LostCounted'
  <2>1. PICK g \in Msi : g = LowestFree /\ g \notin allocated /\ g # 0
    BY <1>1, <1>4, NotTheFirst
  <2>2. /\ allocated' = allocated \union {g}
        /\ bound' = [bound EXCEPT ![g] = <<c, n>>]
        /\ msi' = [msi EXCEPT ![c][n] = g]
    BY <1>4, <2>1
  <2>. QED BY <1>1, <2>1, <2>2, OwnersStart
<1>5. ASSUME UNCHANGED <<allocated, bound, msi>>
      PROVE  Owners' /\ LostCounted'
  <2>1. Owners'
    BY <1>1, <1>2, <1>5, MachineStays DEF Owners
  <2>. QED BY <1>1, <1>2, <1>5, <2>1, NoneLost
<1>. QED BY <1>3, <1>4, <1>5 DEF AsyncLoopInitThrows

(* A namespace that does not throw leaves nothing behind.                  *)
LEMMA ThrowersStay ==
  ASSUME Typed, UNCHANGED <<machine, reg, msi>>, NEW c \in Present, NEW n \in Nsid,
         ns[c][n] = "creating", NEW life \in {"disk", "gone"},
         ns' = [ns EXCEPT ![c][n] = life]
  PROVE  Throwers \subseteq Throwers'
<1>1. \A o \in Objects : o[1] \in Present /\ (o[2] \in Nsid \/ o[2] = 0)
  BY MachineFacts DEF Objects, Nsid, Typed
<1>2. \A d \in Present, m \in Nsid : ns[d][m] = "stuck" => ns'[d][m] = "stuck"
  BY DEF Typed
<1>3. \A o \in Objects : o[2] # 0 /\ ns[o[1]][o[2]] = "stuck" => ns'[o[1]][o[2]] = "stuck"
  BY <1>1, <1>2
<1>. QED BY <1>1, <1>3, MachineStays DEF Throwers

(* A disk keeps its MSI.                                                   *)
LEMMA OwnersBecomeDisk ==
  ASSUME IInv, NEW c \in Present, NEW n \in Nsid, BecomeDisk(c, n)
  PROVE  Owners' /\ LostCounted'
<1>1. /\ Typed /\ Owners /\ LostCounted /\ ns[c][n] = "creating"
      /\ ns' = [ns EXCEPT ![c][n] = "disk"]
      /\ UNCHANGED <<machine, allocated, bound, reg, ctlMsi, msi>>
  BY DEF BecomeDisk, IInv
<1>2. Present' = Present /\ Nsid' = Nsid /\ Msi' = Msi
  BY <1>1, MachineStays
<1>3. \A d \in Present, h \in Msi \union {0} :
        /\ CtlOwns(d, h)' <=> CtlOwns(d, h)
        /\ \A m \in Nsid : NsOwns(d, m, h)' <=> NsOwns(d, m, h)
  BY <1>1 DEF CtlOwns, NsOwns, Typed
<1>4. Owners' /\ Owned' = Owned
  BY <1>1, <1>2, <1>3 DEF Owners, Owned
<1>. QED BY <1>1, <1>4, ThrowersStay, NoneLost

(* free_msi() gives back the namespace's own MSI, and no other.            *)
LEMMA OwnersSelfDestruct ==
  ASSUME IInv, NEW c \in Present, NEW n \in Nsid, SelfDestruct(c, n)
  PROVE  Owners' /\ LostCounted'
<1>1. /\ Typed /\ Owners /\ LostCounted /\ ns[c][n] = "creating"
      /\ ns' = [ns EXCEPT ![c][n] = "gone"]
      /\ UNCHANGED <<machine, reg, ctlMsi, msi>>
  BY DEF SelfDestruct, IInv
<1>2. Present' = Present /\ Nsid' = Nsid /\ Msi' = Msi /\ 0 \notin Nsid
  BY <1>1, MachineStays DEF Nsid
<1>3. Throwers \subseteq Throwers'
  BY <1>1, ThrowersStay
<1>4. \A d \in Present, m \in Nsid :
        ns'[d][m] = IF d = c /\ m = n THEN "gone" ELSE ns[d][m]
  BY <1>1 DEF Typed
<1>5. /\ \A d \in Present, h \in Msi \union {0} : CtlOwns(d, h)' <=> CtlOwns(d, h)
      /\ \A d \in Present, h \in Msi \union {0}, m \in Nsid :
           NsOwns(d, m, h)' <=> NsOwns(d, m, h) /\ ~ (d = c /\ m = n)
  BY <1>1, <1>4 DEF CtlOwns, NsOwns
<1>6. CASE msi[c][n] = 0
  <2>1. UNCHANGED <<allocated, bound>>
    BY <1>6 DEF SelfDestruct
  <2>2. Owners'
    BY <1>1, <1>2, <1>5, <2>1 DEF Owners
  <2>3. \A h \in Msi : ~ NsOwns(c, n, h)
    BY <1>6 DEF NsOwns
  <2>4. Owned' = Owned
    BY <1>2, <1>5, <2>3 DEF Owned
  <2>. QED BY <1>1, <1>3, <2>1, <2>2, <2>4, NoneLost
<1>7. CASE msi[c][n] # 0
  <2>1. PICK g \in Msi : g = msi[c][n] /\ g # 0
    BY <1>1, <1>7 DEF Typed
  <2>2. allocated' = allocated \ {g} /\ bound' = [bound EXCEPT ![g] = None]
    BY <1>7, <2>1 DEF SelfDestruct
  <2>3. bound[g] = <<c, n>>
    BY <1>1, <2>1 DEF Owners, NsOwns
  <2>4. \A h \in Msi : h # g => bound'[h] = bound[h]
    BY <1>1, <2>2 DEF Typed
  <2>5. \A d \in Present, h \in Msi \union {0} :
          /\ CtlOwns(d, h) => h # g
          /\ \A m \in Nsid : NsOwns(d, m, h) /\ ~ (d = c /\ m = n) => h # g
    BY <1>1, <1>2, <2>3 DEF Owners, CtlOf
  <2>6. Owners'
    <3>1. \A d \in Present, h \in Msi \union {0} :
            CtlOwns(d, h)' => bound'[h] = CtlOf(d) /\ h \in allocated'
      BY <1>1, <1>5, <2>2, <2>4, <2>5 DEF Owners, Typed
    <3>2. \A d \in Present, h \in Msi \union {0}, m \in Nsid :
            NsOwns(d, m, h)' => bound'[h] = <<d, m>> /\ h \in allocated'
      BY <1>1, <1>5, <2>2, <2>4, <2>5 DEF Owners, Typed
    <3>. QED BY <1>2, <3>1, <3>2 DEF Owners
  <2>7. \A h \in Owned : h # g => h \in Owned'
    <3>1. ASSUME NEW h \in Owned, h # g PROVE h \in Owned'
      <4>1. PICK d \in Present : CtlOwns(d, h) \/ \E m \in Nsid : NsOwns(d, m, h)
        BY DEF Owned
      <4>2. \A m \in Nsid : NsOwns(d, m, h) => ~ (d = c /\ m = n)
        BY <2>1, <3>1 DEF NsOwns
      <4>3. CtlOwns(d, h)' \/ \E m \in Nsid : NsOwns(d, m, h)'
        BY <1>5, <4>1, <4>2 DEF Owned
      <4>. QED BY <1>2, <4>3 DEF Owned
    <3>. QED BY <3>1
  <2>. QED BY <1>1, <1>3, <2>2, <2>6, <2>7, NoneLost
<1>. QED BY <1>6, <1>7

-----------------------------------------------------------------------------
(* Local vectors, and what they lead to.                                   *)

(* A controller's local vectors when one of its namespaces is started.     *)
LEMMA StartedCount ==
  ASSUME Typed, NEW c \in Present, UNCHANGED machine
  PROVE  /\ Cardinality(Started(c)) \in Nat
         /\ Cardinality(Started(c)) <= machine.namespaces
         /\ \A n \in Nsid : n \notin Started(c) =>
              Cardinality(Started(c) \union {n}) = Cardinality(Started(c)) + 1
<1>1. IsFiniteSet(Nsid) /\ Cardinality(Nsid) = machine.namespaces
  BY MachineFacts DEF Typed
<1>2. Started(c) \subseteq Nsid
  BY DEF Started
<1>3. /\ IsFiniteSet(Started(c))
      /\ Cardinality(Started(c)) <= machine.namespaces
  BY <1>1, <1>2, FS_Subset
<1>4. Cardinality(Started(c)) \in Nat
  BY <1>3, FS_CardinalityType
<1>5. \A n \in Nsid : n \notin Started(c) =>
        Cardinality(Started(c) \union {n}) = Cardinality(Started(c)) + 1
  BY <1>3, FS_AddElement
<1>. QED BY <1>3, <1>4, <1>5

(* A registration accounts for one local vector of the controller.         *)
LEMMA CountRegister ==
  ASSUME Typed, VectorsCounted, UNCHANGED <<machine, ns>>, NEW c \in Present,
         reg[c] = "none", reg'[c] # "none",
         \A d \in Present : d # c => reg'[d] = reg[d] /\ vectors'[d] = vectors[d],
         Len(vectors'[c]) \in Nat, Len(vectors'[c]) <= Len(vectors[c]) + 1,
         Len(vectors[c]) \in Nat
  PROVE  VectorsCounted'
<1>1. Present' = Present /\ \A d \in Present : Started(d)' = Started(d)
  BY MachineStays DEF Started
<1>2. \A d \in Present : Cardinality(Started(d)) \in Nat
  BY StartedCount
<1>3. Len(vectors[c]) <= Cardinality(Started(c))
  BY <1>2 DEF VectorsCounted
<1>4. Len(vectors'[c]) <= 1 + Cardinality(Started(c))
  BY <1>2, <1>3
<1>5. \A d \in Present : d # c =>
        Len(vectors'[d]) <= (IF reg'[d] = "none" THEN 0 ELSE 1) + Cardinality(Started(d))
  BY DEF VectorsCounted
<1>. QED BY <1>1, <1>4, <1>5 DEF VectorsCounted

(* So does the start of a namespace.                                       *)
LEMMA CountStart ==
  ASSUME Typed, VectorsCounted, UNCHANGED <<machine, reg>>, NEW c \in Present,
         NEW n \in Nsid, NEW life \in {"creating", "stuck"}, ns[c][n] = "none",
         ns' = [ns EXCEPT ![c][n] = life],
         \A d \in Present : d # c => vectors'[d] = vectors[d],
         Len(vectors'[c]) \in Nat, Len(vectors'[c]) <= Len(vectors[c]) + 1,
         Len(vectors[c]) \in Nat
  PROVE  VectorsCounted'
<1>1. Present' = Present /\ Nsid' = Nsid
  BY MachineStays
<1>2. \A d \in Present, m \in Nsid :
        ns'[d][m] = IF d = c /\ m = n THEN life ELSE ns[d][m]
  BY DEF Typed
<1>3. /\ \A d \in Present : d # c => Started(d)' = Started(d)
      /\ Started(c)' = Started(c) \union {n} /\ n \notin Started(c)
  BY <1>1, <1>2 DEF Started
<1>4. /\ Cardinality(Started(c)) \in Nat
      /\ Cardinality(Started(c)') = Cardinality(Started(c)) + 1
  BY <1>3, StartedCount
<1>5. Len(vectors'[c]) <= (IF reg'[c] = "none" THEN 0 ELSE 1) + Cardinality(Started(c)')
  <2>1. Len(vectors[c]) <= (IF reg[c] = "none" THEN 0 ELSE 1) + Cardinality(Started(c))
    BY DEF VectorsCounted
  <2>. QED BY <1>4, <2>1
<1>6. \A d \in Present : d # c =>
        Len(vectors'[d]) <= (IF reg'[d] = "none" THEN 0 ELSE 1) + Cardinality(Started(d)')
  BY <1>3 DEF VectorsCounted
<1>. QED BY <1>1, <1>5, <1>6 DEF VectorsCounted

(* The end of one takes no vector back.                                    *)
LEMMA CountStays ==
  ASSUME Typed, VectorsCounted, UNCHANGED <<machine, reg, vectors>>,
         NEW c \in Present, NEW n \in Nsid, NEW life \in {"disk", "gone"},
         ns[c][n] = "creating", ns' = [ns EXCEPT ![c][n] = life]
  PROVE  VectorsCounted'
<1>1. Present' = Present /\ Nsid' = Nsid
  BY MachineStays
<1>2. \A d \in Present, m \in Nsid : ns'[d][m] = "none" <=> ns[d][m] = "none"
  BY DEF Typed
<1>3. \A d \in Present : Started(d)' = Started(d)
  BY <1>1, <1>2 DEF Started
<1>. QED BY <1>1, <1>3 DEF VectorsCounted

(* A namespace that is started is bound to the MSI it is given only.       *)
LEMMA BoundStart ==
  ASSUME Typed, BoundOnce, UNCHANGED <<machine, reg>>, NEW c \in Present,
         NEW n \in Nsid, NEW life \in {"creating", "stuck"}, ns[c][n] = "none",
         ns' = [ns EXCEPT ![c][n] = life],
         NEW g \in Msi \ {0}, bound' \in {bound, [bound EXCEPT ![g] = <<c, n>>]},
         \/ bound' = bound /\ UNCHANGED msi
         \/ life = "stuck" /\ UNCHANGED msi
         \/ msi' = [msi EXCEPT ![c][n] = g]
  PROVE  BoundOnce'
<1>1. Present' = Present /\ Nsid' = Nsid /\ Msi' = Msi /\ 0 \notin Nsid
  BY MachineStays DEF Nsid
<1>2. /\ \A d \in Present, m \in Nsid :
           ns'[d][m] = IF d = c /\ m = n THEN life ELSE ns[d][m]
      /\ \A d \in Present, m \in Nsid : ~ (d = c /\ m = n) => msi'[d][m] = msi[d][m]
  BY DEF Typed
<1>3. \A h \in Msi : bound'[h] = bound[h] \/ (h = g /\ bound'[h] = <<c, n>>)
  BY DEF Typed
<1>4. \A h \in Msi : bound[h] # <<c, n>>
  BY DEF BoundOnce
<1>5. ASSUME NEW h \in Msi, NEW d \in Present, bound'[h] = CtlOf(d)
      PROVE  reg'[d] \in {"msi", "thrown"}
  <2>1. bound[h] = CtlOf(d)
    BY <1>1, <1>3, <1>5 DEF CtlOf
  <2>. QED BY <2>1 DEF BoundOnce
<1>6. ASSUME NEW h \in Msi, NEW d \in Present, NEW m \in Nsid, bound'[h] = <<d, m>>
      PROVE  /\ h # 0 /\ ns'[d][m] \in {"creating", "disk", "stuck"}
             /\ ns'[d][m] # "stuck" => h = msi'[d][m]
  <2>1. CASE d = c /\ m = n
    <3>1. h = g /\ bound'[h] # bound[h]
      BY <1>3, <1>4, <1>6, <2>1
    <3>2. life = "stuck" \/ msi'[c][n] = g
      BY <3>1 DEF Typed
    <3>. QED BY <1>2, <2>1, <3>1, <3>2
  <2>2. CASE ~ (d = c /\ m = n)
    <3>1. bound[h] = <<d, m>>
      BY <1>3, <1>6, <2>2
    <3>. QED BY <1>2, <2>2, <3>1 DEF BoundOnce
  <2>. QED BY <2>1, <2>2
<1>. QED BY <1>1, <1>5, <1>6 DEF BoundOnce

(* After the controllers' registration no device gets an MSI of an object  *)
(* that has been left behind.                                              *)
LEMMA TableStarted ==
  ASSUME Typed, TableAlive, UNCHANGED <<machine, reg>>,
         \A d \in Present : reg[d] # "none", NEW g \in Msi,
         \A h \in Msi, d \in Present : bound'[h] = CtlOf(d) => bound[h] = CtlOf(d),
         \A d \in Present : \A l \in Entries(d) :
           \/ table'[d][l] = table[d][l]
           \/ table'[d][l] = g /\ \A e \in Present : bound'[g] # CtlOf(e)
  PROVE  TableAlive'
<1>1. /\ Present' = Present
      /\ \A d \in Present : Entries(d)' = Entries(d)
  BY MachineStays
<1>2. ASSUME NEW d \in Present, NEW l \in Entries(d), table'[d][l] # None,
             NEW e \in Present, bound'[table'[d][l]] = CtlOf(e)
      PROVE  reg'[e] # "thrown"
  <2>1. table'[d][l] = table[d][l]
    BY <1>2
  <2>2. table[d][l] \in Msi
    BY <1>2, <2>1 DEF Typed
  <2>3. bound[table[d][l]] = CtlOf(e)
    BY <1>2, <2>1, <2>2
  <2>. QED BY <1>2, <2>1, <2>3 DEF TableAlive
<1>. QED BY <1>1, <1>2 DEF TableAlive

-----------------------------------------------------------------------------
(* The invariant, action by action.                                        *)

LEMMA InvInit == Init => IInv
<1>. SUFFICES ASSUME Init PROVE IInv
  OBVIOUS
<1>1. Typed
  BY TypedInit
<1>2. FirstMsi /\ Fresh
  BY DEF Init, FirstMsi, Fresh
<1>3. Owners
  BY DEF Init, Owners, CtlOwns, NsOwns
<1>4. LostCounted
  <2>1. allocated \ Owned = {}
    BY DEF Init
  <2>2. Cardinality(Throwers) \in Nat
    <3>1. IsFiniteSet(0 .. machine.namespaces) /\ IsFiniteSet(Present)
      <4>1. machine.namespaces \in Int /\ 0 \in Int /\ IsFiniteSet(Present)
        BY <1>1, MachineFacts DEF Typed
      <4>. QED BY <4>1, FS_Interval
    <3>2. IsFiniteSet(Objects)
      BY <3>1, FS_Product DEF Objects
    <3>3. Throwers \subseteq Objects
      BY DEF Throwers
    <3>. QED BY <3>2, <3>3, FS_Subset, FS_CardinalityType
  <2>. QED BY <2>1, <2>2, FS_EmptySet DEF LostCounted
<1>5. VectorsCounted
  <2>1. \A c \in Present : vectors[c] = <<>> /\ reg[c] = "none" /\ Started(c) = {}
    BY DEF Init, Started
  <2>2. Cardinality({}) = 0
    BY FS_EmptySet
  <2>3. \A c \in Present : Cardinality(Started(c)) = 0
    BY <2>1, <2>2, Zenon
  <2>4. \A c \in Present : Len(vectors[c]) = 0
    BY <2>1
  <2>. QED BY <2>1, <2>3, <2>4 DEF VectorsCounted
<1>6. BoundOnce
  <2>1. None \notin Objects
    BY <1>1, MachineFacts DEF Typed
  <2>2. \A c \in Present : CtlOf(c) \in Objects /\ \A n \in Nsid : <<c, n>> \in Objects
    BY <1>1, MachineFacts DEF Typed, Objects, Nsid, CtlOf
  <2>3. \A g \in Msi : bound[g] = None
    BY DEF Init
  <2>. QED BY <2>1, <2>2, <2>3 DEF BoundOnce
<1>7. TableAlive
  BY DEF Init, TableAlive
<1>. QED BY <1>1, <1>2, <1>3, <1>4, <1>5, <1>6, <1>7 DEF IInv

(* A controller that is registered gets its own MSI into its own table.    *)
LEMMA InvRegister ==
  ASSUME IInv, NEW c \in Present, RegisterInterruptHandler(c)
  PROVE  FirstMsi' /\ Fresh' /\ VectorsCounted' /\ BoundOnce' /\ TableAlive'
<1>1. /\ Typed /\ FirstMsi /\ Fresh /\ VectorsCounted /\ BoundOnce /\ TableAlive
      /\ UNCHANGED <<machine, ns, msi, iv>> /\ reg[c] = "none"
  BY DEF IInv, RegisterInterruptHandler
<1>2. /\ Present' = Present /\ Nsid' = Nsid /\ Msi' = Msi /\ 0 \notin Nsid
      /\ \A d \in Present : Entries(d)' = Entries(d) /\ MsisEnabled(d)' = MsisEnabled(d)
  BY <1>1, MachineStays DEF Nsid
<1>3. CASE CanAllocate(c)
  <2>1. PICK g \in Msi : g = LowestFree /\ g \notin allocated /\ (0 \notin allocated => g = 0)
    BY <1>1, <1>3, Allocated
  <2>2. /\ allocated' = allocated \union {g}
        /\ bound' = [bound EXCEPT ![g] = CtlOf(c)]
        /\ reg' = [reg EXCEPT ![c] = "msi"]
        /\ EnableMsi(c, g)
        /\ vectors' = [vectors EXCEPT ![c] = Enabled(c, g)]
    BY <1>3, <2>1 DEF RegisterInterruptHandler
  <2>3. /\ \A d \in Present : reg'[d] = IF d = c THEN "msi" ELSE reg[d]
        /\ \A h \in Msi : bound'[h] = IF h = g THEN CtlOf(c) ELSE bound[h]
    BY <1>1, <2>2 DEF Typed
  <2>4. FirstMsi'
    BY <1>1, <1>2, <2>1, <2>2 DEF FirstMsi
  <2>5. Fresh'
    <3>1. \A d \in Present, n \in Nsid : ns[d][n] = "none" /\ msi[d][n] = 0
      BY <1>1 DEF Fresh
    <3>. QED BY <1>1, <1>2, <3>1 DEF Fresh
  <2>6. VectorsCounted'
    <3>1. /\ Len(vectors[c]) \in Nat /\ Len(Enabled(c, g)) \in Nat
          /\ Len(Enabled(c, g)) <= Len(vectors[c]) + 1
      BY <1>1, EnabledVectors
    <3>2. \A d \in Present :
            vectors'[d] = IF d = c THEN Enabled(c, g) ELSE vectors[d]
      BY <1>1, <2>2 DEF Typed
    <3>3. UNCHANGED <<machine, ns>>
      BY <1>1
    <3>. QED BY <1>1, <2>3, <3>1, <3>2, <3>3, CountRegister
  <2>7. BoundOnce'
    <3>1. \A h \in Msi, d \in Present : bound'[h] = CtlOf(d) => reg'[d] \in {"msi", "thrown"}
      BY <1>1, <2>3 DEF BoundOnce, CtlOf
    <3>2. \A h \in Msi, d \in Present, n \in Nsid :
            bound'[h] = <<d, n>> => bound[h] = <<d, n>>
      BY <1>2, <2>3 DEF CtlOf
    <3>. QED BY <1>1, <1>2, <3>1, <3>2 DEF BoundOnce
  <2>8. TableAlive'
    <3>1. \A d \in Present : \A l \in Entries(d) : table'[d][l] \in {table[d][l], g}
      BY <1>1, <2>2, Enabling
    <3>2. ASSUME NEW d \in Present, NEW l \in Entries(d), table'[d][l] # None
          PROVE  /\ \A e \in Present : bound'[table'[d][l]] = CtlOf(e) => reg'[e] # "thrown"
                 /\ table'[d][l] \in allocated'
      <4>1. CASE table'[d][l] = g
        BY <2>2, <2>3, <4>1 DEF CtlOf
      <4>2. CASE table'[d][l] = table[d][l] /\ table'[d][l] # g
        <5>1. table[d][l] \in Msi
          BY <1>1, <3>2, <4>2 DEF Typed
        <5>2. table[d][l] \in allocated
          BY <1>1, <3>2, <4>2 DEF TableAlive
        <5>. QED BY <1>1, <2>2, <2>3, <3>2, <4>2, <5>1, <5>2 DEF TableAlive
      <4>. QED BY <3>1, <4>1, <4>2
    <3>. QED BY <1>2, <3>2 DEF TableAlive
  <2>. QED BY <2>4, <2>5, <2>6, <2>7, <2>8
<1>4. CASE ~CanAllocate(c)
  <2>1. /\ reg' = [reg EXCEPT ![c] = "legacy"]
        /\ UNCHANGED <<allocated, bound, vectors, table>>
    BY <1>4 DEF RegisterInterruptHandler
  <2>2. \A d \in Present : reg'[d] = IF d = c THEN "legacy" ELSE reg[d]
    BY <1>1, <2>1 DEF Typed
  <2>3. FirstMsi'
    <3>1. ASSUME MsisEnabled(c) PROVE 0 \in allocated
      <4>1. machine.msis \in Nat \ {0}
        BY <1>1, <3>1, MachineFacts DEF Typed, MsisEnabled
      <4>. QED BY <1>4, <3>1, <4>1 DEF CanAllocate, Free, Msi
    <3>. QED BY <1>1, <1>2, <2>1, <2>2, <3>1 DEF FirstMsi
  <2>4. Fresh'
    <3>1. \A d \in Present, n \in Nsid : ns[d][n] = "none" /\ msi[d][n] = 0
      BY <1>1 DEF Fresh
    <3>. QED BY <1>1, <1>2, <3>1 DEF Fresh
  <2>5. VectorsCounted'
    <3>1. Len(vectors[c]) \in Nat
      BY <1>1, EnabledVectors
    <3>2. UNCHANGED <<machine, ns>>
      BY <1>1
    <3>. QED BY <1>1, <2>1, <2>2, <3>1, <3>2, CountRegister
  <2>6. BoundOnce'
    BY <1>1, <1>2, <2>1, <2>2 DEF BoundOnce
  <2>7. TableAlive'
    BY <1>1, <1>2, <2>1, <2>2 DEF TableAlive
  <2>. QED BY <2>3, <2>4, <2>5, <2>6, <2>7
<1>. QED BY <1>3, <1>4

(* One that is deleted is in no table.                                     *)
LEMMA InvRegistrationThrows ==
  ASSUME IInv, NEW c \in Present, RegistrationThrows(c)
  PROVE  FirstMsi' /\ Fresh' /\ VectorsCounted' /\ BoundOnce' /\ TableAlive'
<1>1. /\ Typed /\ FirstMsi /\ Fresh /\ VectorsCounted /\ BoundOnce /\ TableAlive
      /\ UNCHANGED <<machine, ns, msi, vectors, table>> /\ reg[c] = "none"
      /\ reg' = [reg EXCEPT ![c] = "thrown"]
  BY DEF IInv, RegistrationThrows
<1>2. /\ Present' = Present /\ Nsid' = Nsid /\ Msi' = Msi /\ 0 \notin Nsid
      /\ \A d \in Present : Entries(d)' = Entries(d) /\ MsisEnabled(d)' = MsisEnabled(d)
  BY <1>1, MachineStays DEF Nsid
<1>3. \A d \in Present : reg'[d] = IF d = c THEN "thrown" ELSE reg[d]
  BY <1>1 DEF Typed
<1>4. \/ ~CanAllocate(c) /\ UNCHANGED <<allocated, bound>>
      \/ CanAllocate(c) /\ \E g \in Msi :
           /\ g \notin allocated /\ (0 \notin allocated => g = 0)
           /\ allocated' = allocated \union {g}
           /\ \A h \in Msi : bound'[h] = bound[h] \/ (h = g /\ bound'[h] = CtlOf(c))
  <2>1. CASE CanAllocate(c)
    <3>1. PICK g \in Msi : g = LowestFree /\ g \notin allocated /\ (0 \notin allocated => g = 0)
      BY <1>1, <2>1, Allocated
    <3>2. /\ allocated' = allocated \union {g}
          /\ bound' \in {bound, [bound EXCEPT ![g] = CtlOf(c)]}
      BY <2>1, <3>1 DEF RegistrationThrows
    <3>3. \A h \in Msi : bound'[h] = bound[h] \/ (h = g /\ bound'[h] = CtlOf(c))
      BY <1>1, <3>2 DEF Typed
    <3>. QED BY <2>1, <3>1, <3>2, <3>3
  <2>. QED BY <2>1 DEF RegistrationThrows
<1>5. FirstMsi'
  <2>1. ASSUME MsisEnabled(c) PROVE 0 \in allocated'
    <3>1. CASE CanAllocate(c)
      BY <1>4, <3>1
    <3>2. CASE ~CanAllocate(c)
      <4>1. machine.msis \in Nat \ {0}
        BY <1>1, <2>1, MachineFacts DEF Typed, MsisEnabled
      <4>. QED BY <1>4, <2>1, <3>2, <4>1 DEF CanAllocate, Free, Msi
    <3>. QED BY <3>1, <3>2
  <2>2. allocated \subseteq allocated'
    BY <1>4
  <2>. QED BY <1>1, <1>2, <1>3, <2>1, <2>2 DEF FirstMsi
<1>6. Fresh'
  <2>1. \A d \in Present, n \in Nsid : ns[d][n] = "none" /\ msi[d][n] = 0
    BY <1>1 DEF Fresh
  <2>. QED BY <1>1, <1>2, <2>1 DEF Fresh
<1>7. VectorsCounted'
  <2>1. Len(vectors[c]) \in Nat
    BY <1>1, EnabledVectors
  <2>2. UNCHANGED <<machine, ns>>
    BY <1>1
  <2>. QED BY <1>1, <1>3, <2>1, <2>2, CountRegister
<1>8. BoundOnce'
  <2>1. \A h \in Msi, d \in Present : bound'[h] = CtlOf(d) => reg'[d] \in {"msi", "thrown"}
    BY <1>1, <1>3, <1>4 DEF BoundOnce, CtlOf
  <2>2. \A h \in Msi, d \in Present, n \in Nsid : bound'[h] = <<d, n>> => bound[h] = <<d, n>>
    BY <1>2, <1>4 DEF CtlOf
  <2>. QED BY <1>1, <1>2, <2>1, <2>2 DEF BoundOnce
<1>9. TableAlive'
  <2>1. ASSUME NEW d \in Present, NEW l \in Entries(d), table[d][l] # None
        PROVE  /\ \A e \in Present : bound'[table[d][l]] = CtlOf(e) => reg'[e] # "thrown"
               /\ table[d][l] \in allocated'
    <3>1. table[d][l] \in allocated /\ table[d][l] \in Msi
      BY <1>1, <2>1 DEF TableAlive, Typed
    <3>2. bound'[table[d][l]] = bound[table[d][l]]
      BY <1>4, <3>1
    <3>3. ASSUME NEW e \in Present, bound[table[d][l]] = CtlOf(e) PROVE reg'[e] # "thrown"
      <4>1. e # c
        BY <1>1, <3>1, <3>3 DEF BoundOnce
      <4>. QED BY <1>1, <1>3, <2>1, <3>3, <4>1 DEF TableAlive
    <3>. QED BY <1>4, <3>1, <3>2, <3>3
  <2>. QED BY <1>1, <1>2, <2>1 DEF TableAlive
<1>. QED BY <1>5, <1>6, <1>7, <1>8, <1>9

(* The parts that no step of a namespace can disturb but through what it   *)
(* gives out or back.                                                      *)
LEMMA FirstFreshStart ==
  ASSUME IInv, NEW c \in Present, NEW n \in Nsid, MayInit(c, n),
         UNCHANGED <<machine, reg>>, NEW life \in {"creating", "stuck"},
         ns' = [ns EXCEPT ![c][n] = life], allocated \subseteq allocated',
         \A d \in Present, m \in Nsid : ~ (d = c /\ m = n) => msi'[d][m] = msi[d][m]
  PROVE  FirstMsi' /\ Fresh'
<1>1. Present' = Present /\ Nsid' = Nsid
      /\ \A d \in Present : MsisEnabled(d)' = MsisEnabled(d)
  BY MachineStays
<1>2. FirstMsi'
  BY <1>1 DEF IInv, FirstMsi
<1>3. \A d \in Present, m \in Nsid :
        ns'[d][m] = IF d = c /\ m = n THEN life ELSE ns[d][m]
  BY DEF IInv, Typed
<1>4. \A d \in Present : reg[d] # "none"
  BY DEF MayInit
<1>. QED BY <1>1, <1>2, <1>3, <1>4 DEF IInv, Fresh

(* A namespace gets an MSI, or none.                                       *)
LEMMA InvAsyncLoopInit ==
  ASSUME IInv, NEW c \in Present, NEW n \in Nsid, AsyncLoopInit(c, n)
  PROVE  FirstMsi' /\ Fresh' /\ VectorsCounted' /\ BoundOnce' /\ TableAlive'
<1>1. /\ Typed /\ VectorsCounted /\ BoundOnce /\ TableAlive
      /\ UNCHANGED <<machine, reg>> /\ MayInit(c, n) /\ ns[c][n] = "none"
      /\ ns' = [ns EXCEPT ![c][n] = "creating"]
      /\ \A d \in Present : reg[d] # "none"
  BY DEF IInv, AsyncLoopInit, MayInit
<1>2. 0 \notin Nsid
  BY DEF Nsid
<1>3. ASSUME NEW g \in Msi \union {0}, vectors' = [vectors EXCEPT ![c] = WithVector(vectors[c], g)]
      PROVE  VectorsCounted'
  <2>1. /\ Len(vectors[c]) \in Nat /\ Len(WithVector(vectors[c], g)) \in Nat
        /\ Len(WithVector(vectors[c], g)) <= Len(vectors[c]) + 1
    BY <1>1, EnabledVectors
  <2>2. \A d \in Present :
          vectors'[d] = IF d = c THEN WithVector(vectors[c], g) ELSE vectors[d]
    BY <1>1, <1>3 DEF Typed
  <2>. QED BY <1>1, <2>1, <2>2, CountStart
<1>4. CASE CanAllocate(c)
  <2>1. PICK g \in Msi : g = LowestFree /\ g \notin allocated /\ g # 0
    BY <1>1, <1>4, NotTheFirst
  <2>2. /\ allocated' = allocated \union {g}
        /\ bound' = [bound EXCEPT ![g] = <<c, n>>]
        /\ msi' = [msi EXCEPT ![c][n] = g]
        /\ EnableMsi(c, g)
        /\ CreateIocq(c, n, Enabled(c, g), g)
    BY <1>4, <2>1 DEF AsyncLoopInit
  <2>3. FirstMsi' /\ Fresh'
    <3>1. \A d \in Present, m \in Nsid : ~ (d = c /\ m = n) => msi'[d][m] = msi[d][m]
      BY <1>1, <2>2 DEF Typed
    <3>. QED BY <1>1, <2>2, <3>1, FirstFreshStart
  <2>4. VectorsCounted'
    BY <1>1, <1>3, <2>2, CreatedIocq
  <2>5. BoundOnce'
    BY <1>1, <2>1, <2>2, BoundStart
  <2>6. TableAlive'
    <3>1. \A h \in Msi : bound'[h] = IF h = g THEN <<c, n>> ELSE bound[h]
      BY <1>1, <2>2 DEF Typed
    <3>2. /\ \A e \in Present : bound'[g] # CtlOf(e)
          /\ \A h \in Msi, d \in Present : bound'[h] = CtlOf(d) => bound[h] = CtlOf(d)
      BY <1>2, <3>1 DEF CtlOf
    <3>3. \A d \in Present : \A l \in Entries(d) : table'[d][l] \in {table[d][l], g}
      BY <1>1, <2>2, Enabling
    <3>. QED BY <1>1, <3>2, <3>3, TableStarted
  <2>. QED BY <2>3, <2>4, <2>5, <2>6
<1>5. CASE ~CanAllocate(c)
  <2>1. /\ CreateIocq(c, n, vectors[c], 0)
        /\ UNCHANGED <<allocated, bound, msi, table>>
    BY <1>5 DEF AsyncLoopInit
  <2>2. FirstMsi' /\ Fresh'
    BY <1>1, <2>1, FirstFreshStart
  <2>3. VectorsCounted'
    BY <1>1, <1>3, <2>1, CreatedIocq
  <2>4. BoundOnce'
    <3>1. \A d \in Present, m \in Nsid :
            /\ ns'[d][m] = IF d = c /\ m = n THEN "creating" ELSE ns[d][m]
      BY <1>1 DEF Typed
    <3>. QED BY <1>1, <2>1, <3>1, MachineStays DEF BoundOnce
  <2>5. TableAlive'
    BY <1>1, <2>1, MachineStays DEF TableAlive
  <2>. QED BY <2>2, <2>3, <2>4, <2>5
<1>. QED BY <1>4, <1>5

(* What is lost where it throws leads to no object that is gone.           *)
LEMMA InvAsyncLoopInitThrows ==
  ASSUME IInv, NEW c \in Present, NEW n \in Nsid, AsyncLoopInitThrows(c, n)
  PROVE  FirstMsi' /\ Fresh' /\ VectorsCounted' /\ BoundOnce' /\ TableAlive'
<1>1. /\ Typed /\ VectorsCounted /\ BoundOnce /\ TableAlive
      /\ UNCHANGED <<machine, reg>> /\ MayInit(c, n) /\ ns[c][n] = "none"
      /\ ns' = [ns EXCEPT ![c][n] = "stuck"]
      /\ \A d \in Present : reg[d] # "none"
  BY DEF IInv, AsyncLoopInitThrows, MayInit
<1>2. 0 \notin Nsid /\ Len(vectors[c]) \in Nat
  BY <1>1, EnabledVectors DEF Nsid
<1>3. ASSUME CanAllocate(c),
             allocated' = allocated \union {LowestFree},
             bound' \in {bound, [bound EXCEPT ![LowestFree] = <<c, n>>]},
             UNCHANGED <<msi, vectors, table>>
      PROVE  FirstMsi' /\ Fresh' /\ VectorsCounted' /\ BoundOnce' /\ TableAlive'
  <2>1. PICK g \in Msi : g = LowestFree /\ g \notin allocated /\ g # 0
    BY <1>1, <1>3, NotTheFirst
  <2>2. /\ allocated' = allocated \union {g}
        /\ bound' \in {bound, [bound EXCEPT ![g] = <<c, n>>]}
    BY <1>3, <2>1
  <2>3. FirstMsi' /\ Fresh'
    BY <1>1, <1>3, <2>2, FirstFreshStart
  <2>4. VectorsCounted'
    <3>1. Len(vectors'[c]) \in Nat /\ Len(vectors'[c]) <= Len(vectors[c]) + 1
      BY <1>2, <1>3
    <3>. QED BY <1>1, <1>2, <1>3, <3>1, CountStart
  <2>5. BoundOnce'
    BY <1>1, <1>3, <2>1, <2>2, BoundStart
  <2>6. TableAlive'
    <3>1. \A h \in Msi : bound'[h] = bound[h] \/ bound'[h] = <<c, n>>
      BY <1>1, <2>2 DEF Typed
    <3>2. \A h \in Msi, d \in Present : bound'[h] = CtlOf(d) => bound[h] = CtlOf(d)
      BY <1>2, <3>1 DEF CtlOf
    <3>. QED BY <1>1, <1>3, <3>2, TableStarted
  <2>. QED BY <2>3, <2>4, <2>5, <2>6
<1>4. ASSUME CanAllocate(c),
             allocated' = allocated \union {LowestFree},
             bound' = [bound EXCEPT ![LowestFree] = <<c, n>>],
             msi' = [msi EXCEPT ![c][n] = LowestFree],
             EnableMsi(c, LowestFree),
             vectors' = [vectors EXCEPT ![c] = Enabled(c, LowestFree)]
      PROVE  FirstMsi' /\ Fresh' /\ VectorsCounted' /\ BoundOnce' /\ TableAlive'
  <2>1. PICK g \in Msi : g = LowestFree /\ g \notin allocated /\ g # 0
    BY <1>1, <1>4, NotTheFirst
  <2>2. /\ allocated' = allocated \union {g}
        /\ bound' = [bound EXCEPT ![g] = <<c, n>>]
        /\ msi' = [msi EXCEPT ![c][n] = g]
        /\ EnableMsi(c, g)
        /\ vectors' = [vectors EXCEPT ![c] = Enabled(c, g)]
    BY <1>4, <2>1
  <2>3. FirstMsi' /\ Fresh'
    <3>1. \A d \in Present, m \in Nsid : ~ (d = c /\ m = n) => msi'[d][m] = msi[d][m]
      BY <1>1, <2>2 DEF Typed
    <3>. QED BY <1>1, <2>2, <3>1, FirstFreshStart
  <2>4. VectorsCounted'
    <3>1. Len(Enabled(c, g)) \in Nat /\ Len(Enabled(c, g)) <= Len(vectors[c]) + 1
      BY <1>1, EnabledVectors
    <3>2. \A d \in Present :
            vectors'[d] = IF d = c THEN Enabled(c, g) ELSE vectors[d]
      BY <1>1, <2>2 DEF Typed
    <3>. QED BY <1>1, <1>2, <3>1, <3>2, CountStart
  <2>5. BoundOnce'
    BY <1>1, <2>1, <2>2, BoundStart
  <2>6. TableAlive'
    <3>1. \A h \in Msi : bound'[h] = IF h = g THEN <<c, n>> ELSE bound[h]
      BY <1>1, <2>2 DEF Typed
    <3>2. /\ \A e \in Present : bound'[g] # CtlOf(e)
          /\ \A h \in Msi, d \in Present : bound'[h] = CtlOf(d) => bound[h] = CtlOf(d)
      BY <1>2, <3>1 DEF CtlOf
    <3>3. \A d \in Present : \A l \in Entries(d) : table'[d][l] \in {table[d][l], g}
      BY <1>1, <2>2, Enabling
    <3>. QED BY <1>1, <3>2, <3>3, TableStarted
  <2>. QED BY <2>3, <2>4, <2>5, <2>6
<1>5. ASSUME UNCHANGED <<allocated, bound, msi, vectors, table>>
      PROVE  FirstMsi' /\ Fresh' /\ VectorsCounted' /\ BoundOnce' /\ TableAlive'
  <2>1. FirstMsi' /\ Fresh'
    BY <1>1, <1>5, FirstFreshStart
  <2>2. VectorsCounted'
    <3>1. Len(vectors'[c]) \in Nat /\ Len(vectors'[c]) <= Len(vectors[c]) + 1
      BY <1>2, <1>5
    <3>. QED BY <1>1, <1>2, <1>5, <3>1, CountStart
  <2>3. BoundOnce'
    <3>1. \A d \in Present, m \in Nsid :
            ns'[d][m] = IF d = c /\ m = n THEN "stuck" ELSE ns[d][m]
      BY <1>1 DEF Typed
    <3>. QED BY <1>1, <1>5, <3>1, MachineStays DEF BoundOnce
  <2>4. TableAlive'
    BY <1>1, <1>5, MachineStays DEF TableAlive
  <2>. QED BY <2>1, <2>2, <2>3, <2>4
<1>. QED BY <1>3, <1>4, <1>5 DEF AsyncLoopInitThrows

(* A namespace that becomes a disk stays bound.                            *)
LEMMA InvBecomeDisk ==
  ASSUME IInv, NEW c \in Present, NEW n \in Nsid, BecomeDisk(c, n)
  PROVE  FirstMsi' /\ Fresh' /\ VectorsCounted' /\ BoundOnce' /\ TableAlive'
<1>1. /\ Typed /\ FirstMsi /\ Fresh /\ VectorsCounted /\ BoundOnce /\ TableAlive
      /\ ns[c][n] = "creating" /\ ns' = [ns EXCEPT ![c][n] = "disk"]
      /\ UNCHANGED <<machine, reg, vectors>>
      /\ UNCHANGED <<allocated, bound, msi, table>>
  BY DEF BecomeDisk, IInv
<1>2. /\ Present' = Present /\ Nsid' = Nsid /\ Msi' = Msi
      /\ \A d \in Present : Entries(d)' = Entries(d) /\ MsisEnabled(d)' = MsisEnabled(d)
  BY <1>1, MachineStays
<1>3. \A d \in Present, m \in Nsid :
        ns'[d][m] = IF d = c /\ m = n THEN "disk" ELSE ns[d][m]
  BY <1>1 DEF Typed
<1>4. FirstMsi' /\ Fresh'
  BY <1>1, <1>2, <1>3 DEF FirstMsi, Fresh
<1>5. VectorsCounted'
  BY <1>1, CountStays
<1>6. BoundOnce'
  BY <1>1, <1>2, <1>3 DEF BoundOnce
<1>7. TableAlive'
  BY <1>1, <1>2 DEF TableAlive
<1>. QED BY <1>4, <1>5, <1>6, <1>7

(* One that is deleted is bound to nothing any more.                       *)
LEMMA InvSelfDestruct ==
  ASSUME IInv, NEW c \in Present, NEW n \in Nsid, SelfDestruct(c, n)
  PROVE  FirstMsi' /\ Fresh' /\ VectorsCounted' /\ BoundOnce' /\ TableAlive'
<1>1. /\ Typed /\ FirstMsi /\ Fresh /\ VectorsCounted /\ BoundOnce /\ TableAlive
      /\ ns[c][n] = "creating" /\ ns' = [ns EXCEPT ![c][n] = "gone"]
      /\ UNCHANGED <<machine, reg, vectors>> /\ UNCHANGED <<msi, table>>
  BY DEF SelfDestruct, IInv
<1>2. /\ Present' = Present /\ Nsid' = Nsid /\ Msi' = Msi
      /\ \A d \in Present : Entries(d)' = Entries(d) /\ MsisEnabled(d)' = MsisEnabled(d)
  BY <1>1, MachineStays
<1>3. \A d \in Present, m \in Nsid :
        ns'[d][m] = IF d = c /\ m = n THEN "gone" ELSE ns[d][m]
  BY <1>1 DEF Typed
<1>4. \A d \in Present : reg[d] # "none"
  BY <1>1 DEF Fresh
<1>5. None \notin Objects /\ (\A d \in Present : CtlOf(d) \in Objects)
      /\ \A d \in Present, m \in Nsid : <<d, m>> \in Objects
  BY <1>1, MachineFacts DEF Typed, Objects, Nsid, CtlOf
<1>6. /\ 0 \in allocated => 0 \in allocated'
      /\ \A h \in Msi : bound'[h] = bound[h] \/ bound'[h] = None
      /\ msi[c][n] # 0 => bound'[msi[c][n]] = None
  <2>1. CASE msi[c][n] = 0
    BY <2>1 DEF SelfDestruct
  <2>2. CASE msi[c][n] # 0
    <3>1. /\ allocated' = allocated \ {msi[c][n]}
          /\ bound' = [bound EXCEPT ![msi[c][n]] = None] /\ msi[c][n] \in Msi
      BY <1>1, <2>2 DEF SelfDestruct, Typed
    <3>. QED BY <1>1, <2>2, <3>1 DEF Typed
  <2>. QED BY <2>1, <2>2
<1>7. FirstMsi'
  BY <1>1, <1>2, <1>6 DEF FirstMsi
<1>8. Fresh'
  BY <1>1, <1>2, <1>3 DEF Fresh
<1>9. VectorsCounted'
  BY <1>1, CountStays
<1>10. BoundOnce'
  <2>1. \A h \in Msi, d \in Present : bound'[h] = CtlOf(d) => bound[h] = CtlOf(d)
    BY <1>5, <1>6
  <2>2. \A h \in Msi, d \in Present, m \in Nsid : bound'[h] = <<d, m>> => bound[h] = <<d, m>>
    BY <1>5, <1>6
  <2>3. \A h \in Msi : bound'[h] # <<c, n>>
    <3>1. ASSUME NEW h \in Msi, bound'[h] = <<c, n>> PROVE FALSE
      <4>1. h # 0 /\ h = msi[c][n]
        BY <1>1, <2>2, <3>1 DEF BoundOnce
      <4>. QED BY <1>5, <1>6, <3>1, <4>1
    <3>. QED BY <3>1
  <2>. QED BY <1>1, <1>2, <1>3, <2>1, <2>2, <2>3 DEF BoundOnce
<1>11. TableAlive'
  <2>1. ASSUME NEW d \in Present, NEW l \in Entries(d), table[d][l] # None,
               NEW e \in Present, bound'[table[d][l]] = CtlOf(e)
        PROVE  reg[e] # "thrown"
    <3>1. table[d][l] \in Msi
      BY <1>1, <2>1 DEF Typed
    <3>2. bound[table[d][l]] = CtlOf(e)
      BY <1>5, <1>6, <2>1, <3>1
    <3>. QED BY <1>1, <2>1, <3>2 DEF TableAlive
  <2>. QED BY <1>1, <1>2, <1>4, <2>1 DEF TableAlive
<1>. QED BY <1>7, <1>8, <1>9, <1>10, <1>11

LEMMA InvStep == IInv /\ [Next]_vars => IInv'
<1>. SUFFICES ASSUME IInv, [Next]_vars PROVE IInv'
  OBVIOUS
<1>1. CASE Next
  <2>1. Typed'
    BY <1>1, TypedStep DEF IInv
  <2>2. PICK c \in Present :
          \/ RegisterInterruptHandler(c)
          \/ RegistrationThrows(c)
          \/ \E n \in Nsid :
               \/ AsyncLoopInit(c, n) \/ AsyncLoopInitThrows(c, n)
               \/ BecomeDisk(c, n) \/ SelfDestruct(c, n)
    BY <1>1 DEF Next
  <2>3. CASE RegisterInterruptHandler(c)
    BY <2>1, <2>3, OwnersRegister, InvRegister DEF IInv
  <2>4. CASE RegistrationThrows(c)
    BY <2>1, <2>4, OwnersThrow, InvRegistrationThrows DEF IInv
  <2>5. ASSUME NEW n \in Nsid, AsyncLoopInit(c, n) PROVE IInv'
    BY <2>1, <2>5, OwnersAsyncLoopInit, InvAsyncLoopInit DEF IInv
  <2>6. ASSUME NEW n \in Nsid, AsyncLoopInitThrows(c, n) PROVE IInv'
    BY <2>1, <2>6, OwnersAsyncLoopInitThrows, InvAsyncLoopInitThrows DEF IInv
  <2>7. ASSUME NEW n \in Nsid, BecomeDisk(c, n) PROVE IInv'
    BY <2>1, <2>7, OwnersBecomeDisk, InvBecomeDisk DEF IInv
  <2>8. ASSUME NEW n \in Nsid, SelfDestruct(c, n) PROVE IInv'
    BY <2>1, <2>8, OwnersSelfDestruct, InvSelfDestruct DEF IInv
  <2>. QED BY <2>2, <2>3, <2>4, <2>5, <2>6, <2>7, <2>8
<1>2. CASE UNCHANGED vars
  <2>1. /\ UNCHANGED <<machine, allocated, bound, reg, ctlMsi, ns, msi>>
        /\ UNCHANGED <<vectors, table, base, iv>>
    BY <1>2 DEF vars
  <2>2. /\ Present' = Present /\ Nsid' = Nsid /\ Msi' = Msi /\ Objects' = Objects
        /\ \A d \in Present : Entries(d)' = Entries(d) /\ MsisEnabled(d)' = MsisEnabled(d)
    BY <2>1, MachineStays
  <2>3. Typed'
    BY <2>1, <2>2 DEF IInv, Typed
  <2>4. FirstMsi' /\ Fresh' /\ BoundOnce' /\ TableAlive'
    BY <2>1, <2>2 DEF IInv, FirstMsi, Fresh, BoundOnce, TableAlive
  <2>5. Owners' /\ Owned' = Owned
    BY <2>1, <2>2 DEF IInv, Owners, Owned, CtlOwns, NsOwns
  <2>6. Throwers \subseteq Throwers'
    BY <2>1, MachineFacts, MachineStays DEF IInv, Typed, Throwers, Objects
  <2>7. LostCounted'
    BY <2>1, <2>5, <2>6, NoneLost DEF IInv
  <2>8. VectorsCounted'
    <3>1. \A d \in Present : Started(d)' = Started(d)
      BY <2>1, <2>2 DEF Started
    <3>. QED BY <2>1, <2>2, <3>1 DEF IInv, VectorsCounted
  <2>. QED BY <2>3, <2>4, <2>5, <2>7, <2>8 DEF IInv
<1>. QED BY <1>1, <1>2

LEMMA InvCorrect == Spec => []IInv
BY InvInit, InvStep, PTL DEF Spec

-----------------------------------------------------------------------------
(* The theorems.                                                           *)

(* Every variable keeps its type: an MSI given out is one of the ICU's, the *)
(* local vector of a queue a natural number.                               *)
THEOREM TypeCorrect == Spec => []TypeOK
<1>1. IInv => TypeOK
  BY TypedOK DEF IInv
<1>. QED BY <1>1, InvCorrect, PTL

(* Every MSI a controller or a namespace has is allocated, bound to it and *)
(* nobody else's; alloc_msi(), free_msi() and the exceptions in between    *)
(* lose one for each of those at most.                                     *)
THEOREM OwnedCorrect == Spec => []MsisOwned
<1>1. ASSUME IInv PROVE MsisOwned
  <2>1. /\ Typed /\ Owners /\ LostCounted
    BY <1>1 DEF IInv
  <2>2. \A c \in Present : reg[c] = "msi" => CtlOwns(c, ctlMsi[c])
    BY DEF CtlOwns
  <2>3. \A c \in Present : ctlMsi[c] \in Msi \union {0}
    BY <2>1 DEF Typed
  <2>4. \A t \in CtlMsis : /\ bound[t[2]] = CtlOf(t[1])
                           /\ t[2] \in allocated /\ CtlOwns(t[1], t[2]) /\ t[1] \in Present
    BY <2>1, <2>2, <2>3 DEF CtlMsis, Owners
  <2>5. \A t \in LiveMsis : /\ t[1] \in Present /\ t[2] \in Nsid
                            /\ t[3] \in Msi \union {0} /\ NsOwns(t[1], t[2], t[3])
    BY <2>1 DEF LiveMsis, NsMsis, NsOwns, Typed
  <2>6. \A t \in LiveMsis : bound[t[3]] = <<t[1], t[2]>> /\ t[3] \in allocated
    BY <2>1, <2>5 DEF Owners
  <2>7. OwnedMsis \subseteq allocated
    BY <2>4, <2>6 DEF OwnedMsis
  <2>8. OwnedMsis = Owned
    <3>1. OwnedMsis \subseteq Owned
      <4>1. \A t \in CtlMsis : t[2] \in Owned
        BY <2>1, <2>4 DEF Owned, Typed
      <4>2. \A t \in LiveMsis : t[3] \in Owned
        BY <2>1, <2>5, <2>6 DEF Owned, Typed
      <4>. QED BY <4>1, <4>2 DEF OwnedMsis
    <3>2. \A g \in Owned : g \in OwnedMsis
      <4>1. ASSUME NEW g \in Owned PROVE g \in OwnedMsis
        <5>1. PICK c \in Present : CtlOwns(c, g) \/ \E n \in Nsid : NsOwns(c, n, g)
          BY DEF Owned
        <5>2. CASE CtlOwns(c, g)
          <6>1. <<c, g>> \in CtlMsis
            BY <5>2 DEF CtlOwns, CtlMsis
          <6>. QED BY <6>1 DEF OwnedMsis
        <5>3. ASSUME NEW n \in Nsid, NsOwns(c, n, g) PROVE g \in OwnedMsis
          <6>1. <<c, n, g>> \in LiveMsis
            BY <5>3 DEF NsOwns, LiveMsis, NsMsis
          <6>. QED BY <6>1 DEF OwnedMsis
        <5>. QED BY <5>1, <5>2, <5>3
      <4>. QED BY <4>1
    <3>. QED BY <3>1, <3>2
  <2>. QED BY <2>1, <2>4, <2>6, <2>7, <2>8 DEF MsisOwned, LostCounted
<1>. QED BY <1>1, InvCorrect, PTL

(* However the namespaces of a controller come and go, its local vectors   *)
(* stay within an MSI-X table that has one entry for each of them and one  *)
(* for the controller.                                                     *)
THEOREM VectorsCorrect == Spec => []VectorsInTable
<1>1. ASSUME IInv PROVE VectorsInTable
  <2>1. Typed /\ VectorsCounted
    BY <1>1 DEF IInv
  <2>2. ASSUME NEW c \in Present, Mode(c) = "msix", machine.namespaces < LocalVectors(c)
        PROVE  Len(vectors[c]) <= LocalVectors(c)
    <3>1. LocalVectors(c) \in Nat /\ machine.namespaces \in Nat
      BY <2>1, <2>2, TableSize, MachineFacts DEF Typed
    <3>2. vectors[c] \in Seq(Msi \union {0}) /\ Len(vectors[c]) \in Nat
      BY <2>1 DEF Typed
    <3>3. /\ IsFiniteSet(Nsid) /\ Cardinality(Nsid) = machine.namespaces
          /\ Started(c) \subseteq Nsid
      BY <2>1, MachineFacts DEF Typed, Started
    <3>4. Cardinality(Started(c)) <= machine.namespaces /\ Cardinality(Started(c)) \in Nat
      BY <3>3, FS_Subset, FS_CardinalityType
    <3>5. Len(vectors[c]) <= 1 + Cardinality(Started(c))
      BY <2>1, <3>2, <3>4 DEF VectorsCounted
    <3>. QED BY <2>2, <3>1, <3>2, <3>4, <3>5
  <2>. QED BY <2>2 DEF VectorsInTable
<1>. QED BY <1>1, InvCorrect, PTL

-----------------------------------------------------------------------------
(* From a completion to its handler.                                       *)

\* The ICU has an MSI for each object that can ask for one.
Plenty == Cardinality({o \in Objects : MsisEnabled(o[1])}) <= machine.msis

\* No more than one controller uses MSIs.
Alone == \A c, d \in Present : MsisEnabled(c) /\ MsisEnabled(d) => c = d

\* Only controllers whose MSIs are enabled, and their namespaces, have any;
\* a controller whose registration has thrown starts no namespace, and one that
\* has not been registered has no local vectors.
HasMsi ==
  \A c \in Present :
    /\ reg[c] = "msi" => MsisEnabled(c)
    /\ reg[c] = "none" => vectors[c] = <<>>
    /\ \A n \in Nsid : /\ msi[c][n] # 0 => MsisEnabled(c)
                       /\ ns[c][n] # "none" => reg[c] # "thrown"

\* The controller's MSI has the first local vector, and no other.
CtlVector(c) ==
  reg[c] = "msi" /\ Mode(c) = "msix" =>
    /\ Len(vectors[c]) >= 1 /\ vectors[c][1] = ctlMsi[c] /\ table[c][0] = ctlMsi[c]
    /\ \A l \in 2 .. Len(vectors[c]) : vectors[c][l] # ctlMsi[c]

\* The CQ's vector is the local one of the namespace's MSI, and the MSI-X table
\* has the MSI there, if it has that entry, as it has for a disk.
NsVector(c, n) ==
  /\ ns[c][n] \in {"creating", "disk"} /\ msi[c][n] # 0 /\ Mode(c) = "msix" =>
       /\ iv[c][n] + 1 \in 1 .. Len(vectors[c])
       /\ vectors[c][iv[c][n] + 1] = msi[c][n]
       /\ iv[c][n] \in Entries(c) => table[c][iv[c][n]] = msi[c][n]
  /\ ns[c][n] = "disk" /\ MsisEnabled(c) => iv[c][n] \in Entries(c)

Vectored ==
  HasMsi /\ \A c \in Present : CtlVector(c) /\ \A n \in Nsid : NsVector(c, n)

\* A controller that is alone has MSI 0; every one that can has an MSI; and a
\* namespace goes without only where it shares its controller's vector.
Provided ==
  /\ Alone =>
       \A c \in Present : MsisEnabled(c) => /\ reg[c] = "none" => allocated = {}
                                            /\ reg[c] = "msi" => ctlMsi[c] = 0
  /\ Plenty \/ Alone =>
       \A c \in Present :
         /\ reg[c] = "legacy" => ~MsisEnabled(c)
         /\ \A n \in Nsid :
              ns[c][n] \in {"creating", "disk"} /\ msi[c][n] = 0 /\ Mode(c) = "msix" =>
                iv[c][n] = 0

(* A controller with MSI-X has an entry 0 in its table.                    *)
LEMMA FirstEntry ==
  ASSUME machine \in Machines, NEW c \in Present, Mode(c) = "msix"
  PROVE  0 \in Entries(c) /\ MsisEnabled(c)
<1>1. LocalVectors(c) \in Nat
  BY TableSize
<1>2. VectorsOf(c, "msix") > 0 /\ machine.msis # 0 /\ UsesMsix(c)
  BY DEF Mode, UsesMsix, UsesMsi
<1>3. LocalVectors(c) > 0
  BY <1>2 DEF LocalVectors
<1>4. machine.msis > 0
  BY <1>2, MachineFacts
<1>. QED BY <1>1, <1>2, <1>3, <1>4 DEF Entries, MsisEnabled

(* The vectors after one has been asked for, which may have been there.    *)
Appended(vec, g, new) ==
  /\ Len(vec) \in Nat /\ Len(new) \in Nat /\ Len(vec) <= Len(new)
  /\ \A l \in 1 .. Len(vec) : new[l] = vec[l]
  /\ \A l \in 1 .. Len(new) : l > Len(vec) => new[l] = g
  /\ LocalVector(new, g) + 1 \in 1 .. Len(new)
  /\ new[LocalVector(new, g) + 1] = g

(* get_local_vector() leaves the vectors there are where they are.         *)
LEMMA AppendedBy ==
  ASSUME NEW S, NEW vec \in Seq(S), NEW g \in S
  PROVE  Appended(vec, g, WithVector(vec, g))
<1>1. /\ WithVector(vec, g) \in Seq(S)
      /\ Len(vec) \in Nat /\ Len(WithVector(vec, g)) \in Nat
      /\ Len(vec) <= Len(WithVector(vec, g))
      /\ \A l \in 1 .. Len(vec) : WithVector(vec, g)[l] = vec[l]
      /\ \A l \in 1 .. Len(WithVector(vec, g)) :
           l > Len(vec) => WithVector(vec, g)[l] = g
      /\ \E l \in 1 .. Len(WithVector(vec, g)) : WithVector(vec, g)[l] = g
  <2>1. CASE Known(vec, g)
    BY <2>1 DEF WithVector, Known
  <2>2. CASE ~Known(vec, g)
    <3>1. WithVector(vec, g) = Append(vec, g)
      BY <2>2 DEF WithVector
    <3>2. /\ Append(vec, g) \in Seq(S) /\ Len(Append(vec, g)) = Len(vec) + 1
          /\ \A l \in 1 .. Len(vec) : Append(vec, g)[l] = vec[l]
          /\ Append(vec, g)[Len(vec) + 1] = g /\ Len(vec) \in Nat
      OBVIOUS
    <3>. QED BY <3>1, <3>2
  <2>. QED BY <2>1, <2>2
<1>2. PICK new : new = WithVector(vec, g)
  OBVIOUS
<1>3. PICK p : p = CHOOSE l \in 1 .. Len(new) : new[l] = g
  OBVIOUS
<1>4. p \in 1 .. Len(new) /\ new[p] = g
  BY <1>1, <1>2, <1>3
<1>5. LocalVector(new, g) = p - 1
  BY <1>3 DEF LocalVector
<1>6. LocalVector(new, g) + 1 = p
  BY <1>4, <1>5
<1>. QED BY <1>1, <1>2, <1>4, <1>6 DEF Appended

(* What a step does to the vectors and the table of d: all of it is about  *)
(* the MSI g.                                                              *)
Grown(d, g) ==
  /\ Len(vectors[d]) \in Nat /\ Len(vectors'[d]) \in Nat
  /\ Len(vectors[d]) <= Len(vectors'[d])
  /\ \A l \in 1 .. Len(vectors[d]) : vectors'[d][l] = vectors[d][l]
  /\ \A l \in 1 .. Len(vectors'[d]) : l > Len(vectors[d]) => vectors'[d][l] = g
  /\ \A l \in Entries(d) :
       table'[d][l] # table[d][l] =>
         l + 1 \in 1 .. Len(vectors'[d]) /\ vectors'[d][l + 1] = g

LEMMA NotGrown ==
  ASSUME Typed, NEW d \in Present, vectors'[d] = vectors[d], table'[d] = table[d],
         NEW g
  PROVE  Grown(d, g)
<1>1. vectors[d] \in Seq(Msi \union {0})
  BY DEF Typed
<1>2. Len(vectors[d]) \in Nat
  BY <1>1
<1>. QED BY <1>2 DEF Grown

(* Enabling an MSI                                                         *)
LEMMA GrownBy ==
  ASSUME Typed, NEW c \in Present, NEW g \in Msi, EnableMsi(c, g),
         \/ vectors' = [vectors EXCEPT ![c] = Enabled(c, g)]
         \/ vectors' = [vectors EXCEPT ![c] = WithVector(vectors[c], g)]
  PROVE  /\ \A d \in Present : Grown(d, g)
         /\ Mode(c) = "msix" =>
              \E l \in Nat :
                /\ l = LocalVector(vectors'[c], g)
                /\ l + 1 \in 1 .. Len(vectors'[c]) /\ vectors'[c][l + 1] = g
                /\ l \in Entries(c) => table'[c][l] = g
<1>1. vectors[c] \in Seq(Msi \union {0}) /\ g \in Msi \union {0}
  BY DEF Typed
<1>2. /\ vectors'[c] = Enabled(c, g) \/ vectors'[c] = WithVector(vectors[c], g)
      /\ \A d \in Present : d # c => vectors'[d] = vectors[d]
  BY DEF Typed
<1>3. PICK new : new = WithVector(vectors[c], g)
  OBVIOUS
<1>4. PICK i : i = LocalVector(new, g)
  OBVIOUS
<1>5. /\ Len(vectors[c]) \in Nat /\ Len(new) \in Nat /\ Len(vectors[c]) <= Len(new)
      /\ \A l \in 1 .. Len(vectors[c]) : new[l] = vectors[c][l]
      /\ \A l \in 1 .. Len(new) : l > Len(vectors[c]) => new[l] = g
      /\ i + 1 \in 1 .. Len(new) /\ new[i + 1] = g
  <2>1. Appended(vectors[c], g, new)
    BY <1>1, <1>3, AppendedBy
  <2>. QED BY <1>4, <2>1 DEF Appended
<1>6. CASE Mode(c) = "msix"
  <2>1. Enabled(c, g) = new /\ vectors'[c] = new
    BY <1>2, <1>3, <1>6 DEF Enabled
  <2>2. table' = IF i \in Entries(c) THEN [table EXCEPT ![c][i] = g] ELSE table
    BY <1>4, <1>6, <2>1 DEF EnableMsi
  <2>3. /\ table = [d \in Present |-> table[d]]
        /\ \A d \in Present : table[d] \in [Entries(d) -> Msi \union {None}]
    BY DEF Typed
  <2>4. \A d \in Present : d # c => table'[d] = table[d]
    BY <2>2, <2>3
  <2>5. /\ \A l \in Entries(c) : l # i => table'[c][l] = table[c][l]
        /\ i \in Entries(c) => table'[c][i] = g
    BY <2>2, <2>3
  <2>6. \A l \in Entries(c) :
          table'[c][l] # table[c][l] => l + 1 \in 1 .. Len(new) /\ new[l + 1] = g
    BY <1>5, <2>5
  <2>7. Grown(c, g)
    BY <1>5, <2>1, <2>6 DEF Grown
  <2>8. \A d \in Present : d # c => Grown(d, g)
    BY <1>2, <2>4, NotGrown
  <2>9. i \in Nat
    BY <1>1, <1>3, <1>4, Vectors
  <2>. QED BY <1>4, <1>5, <2>1, <2>5, <2>7, <2>8, <2>9
<1>7. CASE Mode(c) # "msix"
  <2>1. table' = table /\ (vectors'[c] = vectors[c] \/ vectors'[c] = new)
    BY <1>2, <1>3, <1>7 DEF EnableMsi, Enabled
  <2>2. Grown(c, g)
    BY <1>5, <2>1 DEF Grown
  <2>3. \A d \in Present : d # c => Grown(d, g)
    BY <1>2, <2>1, NotGrown
  <2>. QED BY <1>7, <2>2, <2>3
<1>. QED BY <1>6, <1>7

(* What is about another MSI leaves the controller's vector alone,         *)
LEMMA CtlVectorKept ==
  ASSUME Typed, UNCHANGED machine, NEW d \in Present, CtlVector(d),
         reg'[d] = reg[d], ctlMsi'[d] = ctlMsi[d], NEW g, Grown(d, g),
         reg[d] = "msi" /\ Mode(d) = "msix" => g # ctlMsi[d]
  PROVE  CtlVector(d)'
<1>1. Mode(d)' = Mode(d)
  BY MachineStays
<1>2. ASSUME reg[d] = "msi", Mode(d) = "msix"
      PROVE  /\ Len(vectors'[d]) >= 1 /\ vectors'[d][1] = ctlMsi'[d]
             /\ table'[d][0] = ctlMsi'[d]
             /\ \A l \in 2 .. Len(vectors'[d]) : vectors'[d][l] # ctlMsi'[d]
  <2>1. 0 \in Entries(d)
    BY <1>2, FirstEntry DEF Typed
  <2>2. /\ Len(vectors[d]) >= 1 /\ vectors[d][1] = ctlMsi[d] /\ table[d][0] = ctlMsi[d]
        /\ \A l \in 2 .. Len(vectors[d]) : vectors[d][l] # ctlMsi[d]
    BY <1>2 DEF CtlVector
  <2>3. Len(vectors'[d]) >= 1 /\ vectors'[d][1] = ctlMsi'[d]
    BY <2>2 DEF Grown
  <2>4. \A l \in 2 .. Len(vectors'[d]) : vectors'[d][l] # ctlMsi'[d]
    BY <1>2, <2>2 DEF Grown
  <2>5. table'[d][0] = table[d][0]
    BY <1>2, <2>1, <2>3 DEF Grown
  <2>. QED BY <2>2, <2>3, <2>4, <2>5
<1>. QED BY <1>1, <1>2 DEF CtlVector

(* and a namespace's.                                                      *)
LEMMA NsVectorKept ==
  ASSUME Typed, UNCHANGED machine, NEW d \in Present, NEW m \in Nsid, NsVector(d, m),
         ns'[d][m] = ns[d][m], msi'[d][m] = msi[d][m], iv'[d][m] = iv[d][m],
         NEW g, Grown(d, g),
         ns[d][m] \in {"creating", "disk"} /\ msi[d][m] # 0 => g # msi[d][m]
  PROVE  NsVector(d, m)'
<1>1. /\ Mode(d)' = Mode(d) /\ Entries(d)' = Entries(d)
      /\ MsisEnabled(d)' = MsisEnabled(d)
  BY MachineStays
<1>2. PICK i \in Nat : i = iv[d][m]
  BY DEF Typed
<1>3. ASSUME ns[d][m] \in {"creating", "disk"}, msi[d][m] # 0, Mode(d) = "msix"
      PROVE  /\ i + 1 \in 1 .. Len(vectors'[d])
             /\ vectors'[d][i + 1] = msi[d][m]
             /\ i \in Entries(d) => table'[d][i] = msi[d][m]
  <2>1. /\ i + 1 \in 1 .. Len(vectors[d]) /\ vectors[d][i + 1] = msi[d][m]
        /\ i \in Entries(d) => table[d][i] = msi[d][m]
    BY <1>2, <1>3 DEF NsVector
  <2>2. i + 1 \in 1 .. Len(vectors'[d]) /\ vectors'[d][i + 1] = msi[d][m]
    BY <2>1 DEF Grown
  <2>3. i \in Entries(d) => table'[d][i] = table[d][i]
    BY <1>3, <2>2 DEF Grown
  <2>. QED BY <2>1, <2>2, <2>3
<1>4. iv'[d][m] = i /\ (ns[d][m] = "disk" /\ MsisEnabled(d) => i \in Entries(d))
  BY <1>2 DEF NsVector
<1>. QED BY <1>1, <1>3, <1>4 DEF NsVector

(* Where there is an MSI for each object that can ask for one, there is    *)
(* one for an object that has not asked yet.                               *)
LEMMA OneLeft ==
  ASSUME IInv, HasMsi, Plenty, NEW c \in Present, NEW k \in 0 .. machine.namespaces,
         MsisEnabled(c), IF k = 0 THEN reg[c] = "none" ELSE ns[c][k] = "none"
  PROVE  Free # {}
<1> DEFINE Asking == {o \in Objects : MsisEnabled(o[1])}
           Having == {o \in Objects :
                        IF o[2] = 0 THEN reg[o[1]] = "msi"
                        ELSE ns[o[1]][o[2]] # "none" /\ msi[o[1]][o[2]] # 0}
           o == <<c, k>>
<1>1. /\ machine \in Machines /\ Typed /\ Owners /\ LostCounted /\ allocated \subseteq Msi
  BY DEF IInv, Typed
<1>2. \A p \in Objects :
        p[1] \in Present /\ p = <<p[1], p[2]>> /\ (p[2] # 0 => p[2] \in Nsid)
  BY <1>1, MachineFacts DEF Objects, Nsid
<1>3. IsFiniteSet(Msi) /\ IsFiniteSet(Objects)
  BY <1>1, Finite
<1>4. o \in Asking /\ o \notin Having /\ o \notin Throwers
  BY DEF Objects, Throwers
<1>5. Having \subseteq Asking /\ Throwers \subseteq Asking /\ Having \intersect Throwers = {}
  <2>1. Having \subseteq Asking
    BY <1>2 DEF HasMsi
  <2>2. Throwers \subseteq Asking
    BY DEF Throwers
  <2>3. Having \intersect Throwers = {}
    BY DEF Throwers
  <2>. QED BY <2>1, <2>2, <2>3
<1>6. /\ IsFiniteSet(Asking) /\ IsFiniteSet(Having) /\ IsFiniteSet(Throwers)
      /\ IsFiniteSet(allocated)
  <2>1. Asking \in SUBSET Objects /\ Having \in SUBSET Objects
    OBVIOUS
  <2>2. Throwers \in SUBSET Objects
    BY DEF Throwers
  <2>. QED BY <1>1, <1>3, <2>1, <2>2, FS_Subset
<1>7. IsFiniteSet(Owned) /\ Cardinality(Owned) <= Cardinality(Having)
  <2> DEFINE f == [g \in Owned |-> bound[g]]
  <2>1. ASSUME NEW g \in Owned PROVE f[g] \in Having
    <3>1. PICK d \in Present : CtlOwns(d, g) \/ \E n \in Nsid : NsOwns(d, n, g)
      BY DEF Owned
    <3>2. g \in Msi
      BY DEF Owned
    <3>3. CASE CtlOwns(d, g)
      <4>1. bound[g] = CtlOf(d) /\ reg[d] = "msi"
        BY <1>1, <3>2, <3>3 DEF Owners, CtlOwns
      <4>2. CtlOf(d) \in Objects /\ CtlOf(d)[1] = d /\ CtlOf(d)[2] = 0
        BY <1>1, MachineFacts DEF Objects, CtlOf
      <4>. QED BY <4>1, <4>2
    <3>4. ASSUME NEW n \in Nsid, NsOwns(d, n, g) PROVE f[g] \in Having
      <4>1. bound[g] = <<d, n>> /\ ns[d][n] # "none" /\ msi[d][n] # 0
        BY <1>1, <3>2, <3>4 DEF Owners, NsOwns
      <4>2. <<d, n>> \in Objects /\ n # 0
        BY <1>1, MachineFacts DEF Objects, Nsid
      <4>. QED BY <4>1, <4>2
    <3>. QED BY <3>1, <3>3, <3>4
  <2>2. ASSUME NEW g \in Owned, NEW h \in Owned, f[g] = f[h] PROVE g = h
    <3>1. PICK d \in Present : CtlOwns(d, g) \/ \E n \in Nsid : NsOwns(d, n, g)
      BY DEF Owned
    <3>2. PICK e \in Present : CtlOwns(e, h) \/ \E n \in Nsid : NsOwns(e, n, h)
      BY DEF Owned
    <3>3. g \in Msi /\ h \in Msi /\ bound[g] = bound[h] /\ 0 \notin Nsid
      BY <2>2 DEF Owned, Nsid
    <3>4. /\ CtlOwns(d, g) => bound[g] = <<d, 0>>
          /\ CtlOwns(e, h) => bound[h] = <<e, 0>>
          /\ \A n \in Nsid : /\ NsOwns(d, n, g) => bound[g] = <<d, n>>
                             /\ NsOwns(e, n, h) => bound[h] = <<e, n>>
      BY <1>1, <3>3 DEF Owners, CtlOf
    <3>5. CASE CtlOwns(d, g)
      <4>1. bound[h] = <<d, 0>>
        BY <3>3, <3>4, <3>5
      <4>2. CtlOwns(e, h) /\ e = d
        BY <3>2, <3>3, <3>4, <4>1
      <4>. QED BY <3>5, <4>2 DEF CtlOwns
    <3>6. ASSUME NEW n \in Nsid, NsOwns(d, n, g) PROVE g = h
      <4>1. bound[h] = <<d, n>>
        BY <3>3, <3>4, <3>6
      <4>2. NsOwns(e, n, h) /\ e = d
        BY <3>2, <3>3, <3>4, <4>1
      <4>. QED BY <3>6, <4>2 DEF NsOwns
    <3>. QED BY <3>1, <3>5, <3>6
  <2>3. f \in Injection(Owned, Having)
    BY <2>1, <2>2 DEF Injection, IsInjective
  <2> HIDE DEF f, Having
  <2>. QED BY <1>6, <2>3, FS_Injection
<1>8. Cardinality(Msi) = machine.msis
  <2>1. PICK m \in Nat : m = machine.msis
    BY <1>1, MachineFacts
  <2>2. Cardinality(0 .. m - 1) = IF 0 > m - 1 THEN 0 ELSE (m - 1) - 0 + 1
    BY FS_Interval
  <2>. QED BY <2>1, <2>2 DEF Msi
<1> HIDE DEF Asking, Having, o
<1>9. Cardinality(Having \union Throwers) = Cardinality(Having) + Cardinality(Throwers)
  <2>1. Cardinality(Having \intersect Throwers) = 0
    BY <1>5, FS_EmptySet
  <2>2. /\ Cardinality(Having) \in Nat /\ Cardinality(Throwers) \in Nat
    BY <1>6, FS_CardinalityType
  <2>3. Cardinality(Having \union Throwers)
          = Cardinality(Having) + Cardinality(Throwers)
              - Cardinality(Having \intersect Throwers)
    BY <1>6, FS_Union
  <2>. QED BY <2>1, <2>2, <2>3
<1>10. Cardinality(Having \union Throwers) <= Cardinality(Asking) - 1
  <2>1. /\ IsFiniteSet(Asking \ {o})
        /\ Cardinality(Asking \ {o}) = Cardinality(Asking) - 1
    BY <1>4, <1>6, FS_RemoveElement
  <2>2. Having \union Throwers \in SUBSET (Asking \ {o})
    BY <1>4, <1>5
  <2>. QED BY <2>1, <2>2, FS_Subset
<1>11. Cardinality(allocated) <= Cardinality(allocated \ Owned) + Cardinality(Owned)
  <2>1. /\ Cardinality(allocated \ Owned)
             = Cardinality(allocated) - Cardinality(allocated \intersect Owned)
        /\ IsFiniteSet(allocated \intersect Owned)
    BY <1>6, FS_Difference, FS_Intersection
  <2>2. allocated \intersect Owned \in SUBSET Owned
    OBVIOUS
  <2>3. Cardinality(allocated \intersect Owned) <= Cardinality(Owned)
    BY <1>7, <2>2, FS_Subset
  <2>4. /\ Cardinality(allocated) \in Nat /\ Cardinality(Owned) \in Nat
        /\ Cardinality(allocated \intersect Owned) \in Nat
    BY <1>6, <1>7, <2>1, FS_CardinalityType
  <2>. QED BY <2>1, <2>3, <2>4
<1>12. Cardinality(allocated) < machine.msis
  <2>1. Cardinality(allocated \ Owned) <= Cardinality(Throwers)
    BY <1>1 DEF LostCounted
  <2>2. Cardinality(Asking) <= machine.msis
    BY DEF Plenty, Asking
  <2>3. /\ Cardinality(allocated) \in Nat /\ Cardinality(Owned) \in Nat
        /\ Cardinality(Asking) \in Nat /\ Cardinality(Having) \in Nat
        /\ Cardinality(Throwers) \in Nat /\ machine.msis \in Nat
    BY <1>1, <1>6, <1>7, FS_CardinalityType, MachineFacts
  <2>4. IsFiniteSet(allocated \ Owned) /\ Cardinality(allocated \ Owned) \in Nat
    BY <1>6, FS_Difference, FS_CardinalityType
  <2>. QED BY <1>7, <1>9, <1>10, <1>11, <2>1, <2>2, <2>3, <2>4
<1>13. allocated # Msi
  <2>1. Cardinality(allocated) \in Nat /\ machine.msis \in Nat
    BY <1>1, <1>6, FS_CardinalityType, MachineFacts
  <2>. QED BY <1>8, <1>12, <2>1
<1>. QED BY <1>1, <1>13 DEF Free

(* Most steps leave the machine, and with it who may ask for MSIs.         *)
LEMMA WaysFrame ==
  ASSUME UNCHANGED machine
  PROVE  /\ Present' = Present /\ Nsid' = Nsid /\ Msi' = Msi
         /\ \A c \in Present : /\ Mode(c)' = Mode(c) /\ MsisEnabled(c)' = MsisEnabled(c)
                               /\ Entries(c)' = Entries(c)
         /\ Plenty' = Plenty /\ Alone' = Alone
<1>1. /\ Present' = Present /\ Nsid' = Nsid /\ Msi' = Msi /\ Objects' = Objects
      /\ \A c \in Present : /\ Mode(c)' = Mode(c) /\ MsisEnabled(c)' = MsisEnabled(c)
                            /\ Entries(c)' = Entries(c)
  BY MachineStays
<1>2. Alone' = Alone
  BY <1>1 DEF Alone
<1>3. {o \in Objects : MsisEnabled(o[1])}' = {o \in Objects : MsisEnabled(o[1])}
  <2>1. \A o \in Objects : o[1] \in Present
    BY DEF Objects
  <2>2. \A o \in Objects : MsisEnabled(o[1])' <=> MsisEnabled(o[1])
    BY <2>1 DEF MsisEnabled, UsesMsi, UsesMsix, VectorsOf
  <2>. QED BY <1>1, <2>2
<1>4. Plenty' = Plenty
  BY <1>3, Zenon DEF Plenty
<1>. QED BY <1>1, <1>2, <1>4

(* A controller that can have an MSI when it is registered gets one.       *)
LEMMA WaysRegister ==
  ASSUME IInv, Vectored, Provided, NEW c \in Present, RegisterInterruptHandler(c)
  PROVE  Vectored' /\ Provided'
<1>1. /\ Typed /\ HasMsi /\ reg[c] = "none" /\ vectors[c] = <<>>
      /\ \A d \in Present : CtlVector(d) /\ \A n \in Nsid : NsVector(d, n)
      /\ UNCHANGED <<machine, ns, msi, iv>>
  BY DEF RegisterInterruptHandler, IInv, Vectored, HasMsi
<1>2. /\ Present' = Present /\ Nsid' = Nsid /\ Msi' = Msi
      /\ \A d \in Present : /\ Mode(d)' = Mode(d) /\ MsisEnabled(d)' = MsisEnabled(d)
                            /\ Entries(d)' = Entries(d)
      /\ Plenty' = Plenty /\ Alone' = Alone
  BY <1>1, WaysFrame
<1>3. \A d \in Present, n \in Nsid : ns'[d][n] = "none"
  BY <1>1 DEF IInv, Fresh
<1>4. \A d \in Present, n \in Nsid : NsVector(d, n)'
  BY <1>2, <1>3 DEF NsVector
<1>5. CASE CanAllocate(c)
  <2>1. PICK g \in Msi : /\ g = LowestFree /\ g \notin allocated
                         /\ 0 \in Msi /\ (0 \notin allocated => g = 0)
    BY <1>1, <1>5, Allocated
  <2>2. /\ allocated' = allocated \union {g}
        /\ reg' = [reg EXCEPT ![c] = "msi"] /\ ctlMsi' = [ctlMsi EXCEPT ![c] = g]
        /\ EnableMsi(c, g) /\ vectors' = [vectors EXCEPT ![c] = Enabled(c, g)]
    BY <1>5, <2>1 DEF RegisterInterruptHandler
  <2>3. \A d \in Present :
          /\ reg'[d] = IF d = c THEN "msi" ELSE reg[d]
          /\ ctlMsi'[d] = IF d = c THEN g ELSE ctlMsi[d]
          /\ vectors'[d] = IF d = c THEN Enabled(c, g) ELSE vectors[d]
    BY <1>1, <2>2 DEF Typed
  <2>4. \A d \in Present : Grown(d, g)
    BY <1>1, <2>2, GrownBy
  <2>5. \A d \in Present : reg[d] = "msi" => g # ctlMsi[d]
    BY <2>1 DEF IInv, Owners, CtlOwns, Typed
  <2>6. MsisEnabled(c)
    BY <1>5 DEF CanAllocate
  <2>7. HasMsi'
    BY <1>1, <1>2, <1>3, <2>3, <2>6 DEF HasMsi
  <2>8. CtlVector(c)'
    <3>1. ASSUME Mode(c) = "msix"
          PROVE  /\ Len(vectors'[c]) = 1 /\ vectors'[c][1] = g /\ table'[c][0] = g
      <4>1. Enabled(c, g) = <<g>>
        BY <1>1, <3>1 DEF Enabled, WithVector, Known
      <4>2. vectors'[c] = <<g>> /\ 0 \in Entries(c)
        BY <1>1, <2>3, <3>1, <4>1, FirstEntry DEF Typed
      <4>3. PICK l \in Nat : /\ l + 1 \in 1 .. Len(vectors'[c])
                             /\ vectors'[c][l + 1] = g
                             /\ l \in Entries(c) => table'[c][l] = g
        BY <1>1, <2>2, <3>1, GrownBy
      <4>4. Len(vectors'[c]) = 1
        BY <4>2
      <4>. QED BY <4>2, <4>3, <4>4
    <3>. QED BY <1>2, <2>3, <3>1 DEF CtlVector
  <2>9. \A d \in Present : CtlVector(d)'
    <3>1. ASSUME NEW d \in Present, d # c PROVE CtlVector(d)'
      BY <1>1, <2>3, <2>4, <2>5, <3>1, CtlVectorKept
    <3>. QED BY <2>8, <3>1
  <2>10. Provided'
    <3>1. ASSUME Alone, NEW d \in Present, MsisEnabled(d)
          PROVE  /\ reg'[d] = "none" => allocated' = {}
                 /\ reg'[d] = "msi" => ctlMsi'[d] = 0
      <4>1. d = c
        BY <2>6, <3>1 DEF Alone
      <4>2. allocated = {}
        BY <1>1, <2>6, <3>1 DEF Provided
      <4>. QED BY <2>1, <2>3, <4>1, <4>2
    <3>2. ASSUME Plenty \/ Alone, NEW d \in Present, reg'[d] = "legacy"
          PROVE  ~MsisEnabled(d)
      BY <2>3, <3>2 DEF Provided
    <3>. QED BY <1>2, <1>3, <3>1, <3>2 DEF Provided
  <2>. QED BY <1>2, <1>4, <2>7, <2>9, <2>10 DEF Vectored
<1>6. CASE ~CanAllocate(c)
  <2>1. reg' = [reg EXCEPT ![c] = "legacy"]
        /\ UNCHANGED <<allocated, bound, ctlMsi, vectors, table, base>>
    BY <1>6 DEF RegisterInterruptHandler
  <2>2. \A d \in Present : reg'[d] = IF d = c THEN "legacy" ELSE reg[d]
    BY <1>1, <2>1 DEF Typed
  <2>3. HasMsi'
    BY <1>1, <1>2, <1>3, <2>1, <2>2 DEF HasMsi
  <2>4. \A d \in Present : CtlVector(d)'
    BY <1>1, <1>2, <2>1, <2>2 DEF CtlVector
  <2>5. Plenty \/ Alone => ~MsisEnabled(c)
    <3>1. ASSUME MsisEnabled(c), Plenty PROVE FALSE
      <4>1. 0 \in 0 .. machine.namespaces
        BY <1>1, MachineFacts DEF Typed
      <4>2. Free # {}
        BY <1>1, <3>1, <4>1, OneLeft
      <4>. QED BY <1>6, <3>1, <4>2 DEF CanAllocate
    <3>2. ASSUME MsisEnabled(c), Alone PROVE FALSE
      <4>1. allocated = {}
        BY <1>1, <3>2 DEF Provided
      <4>2. 0 \in Msi
        BY <1>1, <3>2, MachineFacts DEF MsisEnabled, Msi, Typed
      <4>. QED BY <1>6, <3>2, <4>1, <4>2 DEF CanAllocate, Free
    <3>. QED BY <3>1, <3>2
  <2>6. Provided'
    BY <1>2, <1>3, <2>1, <2>2, <2>5 DEF Provided
  <2>. QED BY <1>2, <1>4, <2>3, <2>4, <2>6 DEF Vectored
<1>. QED BY <1>5, <1>6

(* A controller whose registration throws has no part in it any more.      *)
LEMMA WaysThrow ==
  ASSUME IInv, Vectored, Provided, NEW c \in Present, RegistrationThrows(c)
  PROVE  Vectored' /\ Provided'
<1>1. /\ Typed /\ HasMsi /\ reg[c] = "none"
      /\ reg' = [reg EXCEPT ![c] = "thrown"]
      /\ UNCHANGED <<machine, ctlMsi, ns, msi, vectors, table, base, iv>>
      /\ ~MsisEnabled(c) => allocated' = allocated
  BY DEF RegistrationThrows, IInv, Vectored, CanAllocate
<1>2. /\ Present' = Present /\ Nsid' = Nsid /\ Msi' = Msi
      /\ \A d \in Present : /\ Mode(d)' = Mode(d) /\ MsisEnabled(d)' = MsisEnabled(d)
                            /\ Entries(d)' = Entries(d)
      /\ Plenty' = Plenty /\ Alone' = Alone
  BY <1>1, WaysFrame
<1>3. \A d \in Present, n \in Nsid : ns'[d][n] = "none"
  BY <1>1 DEF IInv, Fresh
<1>4. \A d \in Present, n \in Nsid : NsVector(d, n)'
  BY <1>2, <1>3 DEF NsVector
<1>5. \A d \in Present : reg'[d] = IF d = c THEN "thrown" ELSE reg[d]
  BY <1>1 DEF Typed
<1>6. HasMsi'
  BY <1>1, <1>2, <1>3, <1>5 DEF HasMsi
<1>7. \A d \in Present : CtlVector(d)'
  BY <1>1, <1>2, <1>5 DEF CtlVector, Vectored
<1>8. Provided'
  <2>1. ASSUME Alone, NEW d \in Present, MsisEnabled(d)
        PROVE  /\ reg'[d] = "none" => allocated' = {}
               /\ reg'[d] = "msi" => ctlMsi'[d] = 0
    BY <1>1, <1>5, <2>1 DEF Provided, Alone
  <2>2. ASSUME Plenty \/ Alone, NEW d \in Present, reg'[d] = "legacy"
        PROVE  ~MsisEnabled(d)
    BY <1>5, <2>2 DEF Provided
  <2>. QED BY <1>2, <1>3, <2>1, <2>2 DEF Provided
<1>. QED BY <1>2, <1>4, <1>6, <1>7, <1>8 DEF Vectored

(* get_local_vector(0) finds the vector of a controller that has MSI 0.    *)
LEMMA FirstVector ==
  ASSUME Typed, NEW c \in Present, CtlVector(c), reg[c] = "msi", Mode(c) = "msix",
         ctlMsi[c] = 0
  PROVE  WithVector(vectors[c], 0) = vectors[c] /\ LocalVector(vectors[c], 0) = 0
<1>1. vectors[c] \in Seq(Msi \union {0}) /\ Len(vectors[c]) \in Nat
  BY DEF Typed
<1>2. PICK vec : vec = vectors[c]
  OBVIOUS
<1>3. /\ Len(vec) \in Nat /\ Len(vec) >= 1 /\ vec[1] = 0
      /\ \A l \in 2 .. Len(vec) : vec[l] # 0
  BY <1>1, <1>2 DEF CtlVector
<1>4. 1 \in 1 .. Len(vec) /\ \A l \in 1 .. Len(vec) : vec[l] = 0 <=> l = 1
  BY <1>3
<1>5. WithVector(vec, 0) = vec
  BY <1>4 DEF WithVector, Known
<1>6. PICK p : p = CHOOSE l \in 1 .. Len(vec) : vec[l] = 0
  OBVIOUS
<1>7. p \in 1 .. Len(vec) /\ vec[p] = 0
  BY <1>4, <1>6
<1>8. p = 1
  BY <1>4, <1>7
<1>9. LocalVector(vec, 0) = 0
  BY <1>6, <1>8 DEF LocalVector
<1>. QED BY <1>2, <1>5, <1>9

(* The vectors of d have not changed, or by what is not in use already.    *)
Unused(d, g) ==
  \/ Grown(d, None)
  \/ /\ Grown(d, g)
     /\ reg[d] = "msi" /\ Mode(d) = "msix" => g # ctlMsi[d]
     /\ \A m \in Nsid :
          ns[d][m] \in {"creating", "disk"} /\ msi[d][m] # 0 => g # msi[d][m]

(* When namespaces start, controllers are through with it: what a step of  *)
(* theirs has to keep.                                                     *)
LEMMA WaysStart ==
  ASSUME IInv, Vectored, Provided, UNCHANGED <<machine, reg, ctlMsi>>,
         NEW c \in Present, NEW n \in Nsid, \A d \in Present : reg[d] # "none",
         reg[c] # "thrown",
         NEW life \in {"creating", "stuck"}, ns' = [ns EXCEPT ![c][n] = life],
         ns[c][n] = "none",
         \A d \in Present, m \in Nsid :
           ~ (d = c /\ m = n) => msi'[d][m] = msi[d][m] /\ iv'[d][m] = iv[d][m],
         msi'[c][n] # 0 => MsisEnabled(c),
         NEW g,
         \A d \in Present : Unused(d, g),
         life = "creating" /\ msi'[c][n] # 0 /\ Mode(c) = "msix" =>
           /\ iv'[c][n] + 1 \in 1 .. Len(vectors'[c])
           /\ vectors'[c][iv'[c][n] + 1] = msi'[c][n]
           /\ iv'[c][n] \in Entries(c) => table'[c][iv'[c][n]] = msi'[c][n],
         life = "creating" /\ msi'[c][n] = 0 /\ Mode(c) = "msix" /\ (Plenty \/ Alone) =>
           iv'[c][n] = 0
  PROVE  Vectored' /\ Provided'
<1>1. Typed /\ HasMsi /\ Fresh
  BY DEF IInv, Vectored
<1>2. /\ Present' = Present /\ Nsid' = Nsid /\ Msi' = Msi
      /\ \A d \in Present : /\ Mode(d)' = Mode(d) /\ MsisEnabled(d)' = MsisEnabled(d)
                            /\ Entries(d)' = Entries(d)
      /\ Plenty' = Plenty /\ Alone' = Alone
  BY WaysFrame
<1>3. \A d \in Present, m \in Nsid :
        ns'[d][m] = IF d = c /\ m = n THEN life ELSE ns[d][m]
  BY <1>1 DEF Typed
<1>4. HasMsi'
  <2>1. \A d \in Present, m \in Nsid : msi'[d][m] # 0 => MsisEnabled(d)
    BY <1>1 DEF HasMsi
  <2>2. \A d \in Present, m \in Nsid : ns'[d][m] # "none" => reg[d] # "thrown"
    BY <1>1, <1>3 DEF HasMsi
  <2>. QED BY <1>1, <1>2, <2>1, <2>2 DEF HasMsi
<1>5. \A d \in Present : CtlVector(d)'
  <2>1. ASSUME NEW d \in Present PROVE CtlVector(d)'
    <3>1. CtlVector(d) /\ ctlMsi[d] \in Int
      <4>1. ctlMsi[d] \in Msi \union {0} /\ machine.msis \in Nat
        BY <1>1, MachineFacts DEF Typed
      <4>. QED BY <4>1 DEF Vectored, Msi
    <3>2. CASE Grown(d, None)
      BY <1>1, <3>1, <3>2, NoneAssumption, CtlVectorKept
    <3>3. CASE Grown(d, g) /\ (reg[d] = "msi" /\ Mode(d) = "msix" => g # ctlMsi[d])
      BY <1>1, <3>1, <3>3, CtlVectorKept
    <3>. QED BY <3>2, <3>3 DEF Unused
  <2>. QED BY <2>1
<1>6. \A d \in Present, m \in Nsid : NsVector(d, m)'
  <2>1. ASSUME NEW d \in Present, NEW m \in Nsid, ~ (d = c /\ m = n)
        PROVE  NsVector(d, m)'
    <3>1. /\ NsVector(d, m) /\ msi[d][m] \in Int
          /\ ns'[d][m] = ns[d][m] /\ msi'[d][m] = msi[d][m] /\ iv'[d][m] = iv[d][m]
      <4>1. msi[d][m] \in Msi \union {0} /\ machine.msis \in Nat
        BY <1>1, MachineFacts DEF Typed
      <4>. QED BY <1>3, <2>1, <4>1 DEF Vectored, Msi
    <3>2. CASE Grown(d, None)
      BY <1>1, <3>1, <3>2, NoneAssumption, NsVectorKept
    <3>3. CASE /\ Grown(d, g)
               /\ ns[d][m] \in {"creating", "disk"} /\ msi[d][m] # 0 => g # msi[d][m]
      BY <1>1, <3>1, <3>3, NsVectorKept
    <3>. QED BY <3>2, <3>3 DEF Unused
  <2>2. NsVector(c, n)'
    <3>1. ns'[c][n] = life /\ life # "disk"
      BY <1>3
    <3>2. /\ Mode(c)' = Mode(c) /\ Entries(c)' = Entries(c)
      BY <1>2
    <3>. QED BY <3>1, <3>2 DEF NsVector
  <2>. QED BY <2>1, <2>2
<1>7. Provided'
  <2>1. ASSUME Alone, NEW d \in Present, MsisEnabled(d)
        PROVE  /\ reg'[d] = "none" => allocated' = {}
               /\ reg'[d] = "msi" => ctlMsi'[d] = 0
    BY <2>1 DEF Provided
  <2>2. ASSUME Plenty \/ Alone, NEW d \in Present, reg'[d] = "legacy"
        PROVE  ~MsisEnabled(d)
    BY <2>2 DEF Provided
  <2>3. ASSUME Plenty \/ Alone, NEW d \in Present, NEW m \in Nsid,
               ns'[d][m] \in {"creating", "disk"}, msi'[d][m] = 0, Mode(d) = "msix"
        PROVE  iv'[d][m] = 0
    BY <1>3, <2>3 DEF Provided
  <2>. QED BY <1>2, <2>1, <2>2, <2>3 DEF Provided
<1>. QED BY <1>2, <1>4, <1>5, <1>6, <1>7 DEF Vectored

(* An MSI that is given out is neither a controller's nor a namespace's.   *)
LEMMA NobodysMsi ==
  ASSUME Typed, Owners, NEW g \in Msi, g \notin allocated, NEW d \in Present
  PROVE  /\ reg[d] = "msi" => g # ctlMsi[d]
         /\ \A m \in Nsid :
              ns[d][m] \in {"creating", "disk"} /\ msi[d][m] # 0 => g # msi[d][m]
<1>1. /\ ctlMsi[d] \in Msi \union {0}
      /\ \A m \in Nsid : msi[d][m] \in Msi \union {0}
  BY DEF Typed
<1>2. reg[d] = "msi" => g # ctlMsi[d]
  <2>1. CtlOwns(d, ctlMsi[d]) => ctlMsi[d] # g
    BY <1>1, FreeUnowned
  <2>. QED BY <2>1 DEF CtlOwns
<1>3. ASSUME NEW m \in Nsid, ns[d][m] \in {"creating", "disk"}, msi[d][m] # 0
      PROVE  g # msi[d][m]
  <2>1. NsOwns(d, m, msi[d][m]) => msi[d][m] # g
    BY <1>1, FreeUnowned
  <2>. QED BY <1>3, <2>1 DEF NsOwns
<1>. QED BY <1>2, <1>3

(* async_loop_init(): with an MSI of its own, ...                          *)
LEMMA WaysOwnMsi ==
  ASSUME IInv, Vectored, Provided, NEW c \in Present, NEW n \in Nsid,
         AsyncLoopInit(c, n), CanAllocate(c)
  PROVE  Vectored' /\ Provided'
<1>1. /\ Typed /\ Owners /\ ns[c][n] = "none" /\ MayInit(c, n)
      /\ \A d \in Present : reg[d] # "none"
      /\ reg[c] # "thrown" /\ ns' = [ns EXCEPT ![c][n] = "creating"]
      /\ UNCHANGED <<machine, reg, ctlMsi>>
  BY DEF IInv, AsyncLoopInit, MayInit
<1>2. PICK g \in Msi : g = LowestFree /\ g \notin allocated /\ g # 0
  BY <1>1, NotTheFirst
<1>3. /\ msi' = [msi EXCEPT ![c][n] = g]
      /\ EnableMsi(c, g) /\ CreateIocq(c, n, Enabled(c, g), g)
  BY <1>2 DEF AsyncLoopInit
<1>4. /\ vectors' = [vectors EXCEPT ![c] = WithVector(vectors[c], g)]
      /\ iv' = [iv EXCEPT ![c][n] = LocalVector(vectors'[c], g)]
  BY <1>1, <1>2, <1>3, CreatedIocq DEF CreateIocq
<1>5. \A d \in Present : Grown(d, g)
  BY <1>1, <1>3, <1>4, GrownBy
<1>6. /\ \A d \in Present, m \in Nsid :
           ~ (d = c /\ m = n) => msi'[d][m] = msi[d][m] /\ iv'[d][m] = iv[d][m]
      /\ msi'[c][n] = g /\ iv'[c][n] = LocalVector(vectors'[c], g)
  BY <1>1, <1>3, <1>4 DEF Typed
<1>7. MsisEnabled(c)
  BY DEF CanAllocate
<1>8. \A d \in Present : Unused(d, g)
  BY <1>1, <1>2, <1>5, NobodysMsi DEF Unused
<1>9. Mode(c) = "msix" =>
        /\ iv'[c][n] + 1 \in 1 .. Len(vectors'[c])
        /\ vectors'[c][iv'[c][n] + 1] = msi'[c][n]
        /\ iv'[c][n] \in Entries(c) => table'[c][iv'[c][n]] = msi'[c][n]
  <2>1. ASSUME Mode(c) = "msix"
        PROVE  \E l \in Nat : /\ l = LocalVector(vectors'[c], g)
                              /\ l + 1 \in 1 .. Len(vectors'[c])
                              /\ vectors'[c][l + 1] = g
                              /\ l \in Entries(c) => table'[c][l] = g
    BY <1>1, <1>3, <1>4, <2>1, GrownBy
  <2>. QED BY <1>6, <2>1
<1>10. msi'[c][n] # 0
  BY <1>2, <1>6
<1>11. \A d \in Present, m \in Nsid :
         ~ (d = c /\ m = n) => msi'[d][m] = msi[d][m] /\ iv'[d][m] = iv[d][m]
  BY <1>6
<1>. QED BY <1>1, <1>7, <1>8, <1>9, <1>10, <1>11, WaysStart

(* ... or with MSI 0, which is the controller's if it is the only one.     *)
LEMMA WaysVector0 ==
  ASSUME IInv, Vectored, Provided, NEW c \in Present, NEW n \in Nsid,
         AsyncLoopInit(c, n), ~CanAllocate(c)
  PROVE  Vectored' /\ Provided'
<1>1. /\ Typed /\ HasMsi /\ CtlVector(c) /\ ns[c][n] = "none"
      /\ msi[c][n] = 0 /\ \A d \in Present : reg[d] # "none"
      /\ reg[c] # "thrown" /\ ns' = [ns EXCEPT ![c][n] = "creating"]
      /\ UNCHANGED <<machine, reg, ctlMsi, table, msi>>
      /\ CreateIocq(c, n, vectors[c], 0)
  BY DEF IInv, Fresh, Vectored, AsyncLoopInit, MayInit
<1>2. /\ vectors' = [vectors EXCEPT ![c] = WithVector(vectors[c], 0)]
      /\ iv' = [iv EXCEPT ![c][n] = LocalVector(vectors'[c], 0)]
  BY <1>1 DEF CreateIocq
<1>3. /\ \A d \in Present : d # c => vectors'[d] = vectors[d]
      /\ vectors'[c] = WithVector(vectors[c], 0)
      /\ \A d \in Present, m \in Nsid : ~ (d = c /\ m = n) => iv'[d][m] = iv[d][m]
      /\ iv'[c][n] = LocalVector(vectors'[c], 0)
  BY <1>1, <1>2 DEF Typed
<1>4. \A d \in Present : d # c => Grown(d, None)
  BY <1>1, <1>3, NotGrown
<1>5. CASE reg[c] = "msi" /\ Mode(c) = "msix" /\ ctlMsi[c] = 0
  <2>1. vectors'[c] = vectors[c] /\ iv'[c][n] = 0
    BY <1>1, <1>3, <1>5, FirstVector
  <2>2. Grown(c, None)
    BY <1>1, <2>1, NotGrown
  <2>3. \A d \in Present : Unused(d, None)
    BY <1>4, <2>2 DEF Unused
  <2>. QED BY <1>1, <1>3, <2>1, <2>3, WaysStart
<1>6. CASE ~ (reg[c] = "msi" /\ Mode(c) = "msix" /\ ctlMsi[c] = 0)
  <2>1. Grown(c, 0)
    <3>1. vectors[c] \in Seq(Msi \union {0}) /\ 0 \in Msi \union {0}
      BY <1>1 DEF Typed
    <3>2. Appended(vectors[c], 0, vectors'[c])
      BY <1>3, <3>1, AppendedBy
    <3>. QED BY <1>1, <3>2 DEF Appended, Grown
  <2>2. ~ (Mode(c) = "msix" /\ (Plenty \/ Alone))
    <3>1. ASSUME Mode(c) = "msix" PROVE MsisEnabled(c) /\ Free = {}
      BY <1>1, <3>1, FirstEntry DEF CanAllocate, Typed
    <3>2. ASSUME Mode(c) = "msix", Plenty PROVE FALSE
      <4>1. n \in 0 .. machine.namespaces /\ n # 0
        BY <1>1, MachineFacts DEF Typed, Nsid
      <4>. QED BY <1>1, <3>1, <3>2, <4>1, OneLeft
    <3>3. ASSUME Mode(c) = "msix", Alone PROVE FALSE
      <4>1. reg[c] \in {"none", "msi", "legacy", "thrown"}
        BY <1>1 DEF Typed
      <4>2. reg[c] # "legacy" /\ (reg[c] = "msi" => ctlMsi[c] = 0)
        BY <3>1, <3>3 DEF Provided
      <4>. QED BY <1>1, <1>6, <3>3, <4>1, <4>2
    <3>. QED BY <3>2, <3>3
  <2>3. \A d \in Present : Unused(d, 0)
    BY <1>4, <1>6, <2>1 DEF Unused
  <2>. QED BY <1>1, <1>3, <2>2, <2>3, WaysStart
<1>. QED BY <1>5, <1>6

(* It throws: what may have been enabled is in nobody's way.               *)
LEMMA WaysStuck ==
  ASSUME IInv, Vectored, Provided, NEW c \in Present, NEW n \in Nsid,
         AsyncLoopInitThrows(c, n)
  PROVE  Vectored' /\ Provided'
<1>1. /\ Typed /\ Owners /\ ns[c][n] = "none" /\ msi[c][n] = 0 /\ MayInit(c, n)
      /\ \A d \in Present : reg[d] # "none"
      /\ reg[c] # "thrown" /\ ns' = [ns EXCEPT ![c][n] = "stuck"]
      /\ UNCHANGED <<machine, reg, ctlMsi, iv>>
  BY DEF IInv, Fresh, AsyncLoopInitThrows, MayInit
<1>2. CASE UNCHANGED <<msi, vectors, table>>
  <2>1. \A d \in Present : Unused(d, None)
    BY <1>1, <1>2, NotGrown DEF Unused
  <2>. QED BY <1>1, <1>2, <2>1, WaysStart
<1>3. CASE /\ CanAllocate(c)
           /\ msi' = [msi EXCEPT ![c][n] = LowestFree]
           /\ EnableMsi(c, LowestFree)
           /\ vectors' = [vectors EXCEPT ![c] = Enabled(c, LowestFree)]
  <2>1. PICK g \in Msi : g = LowestFree /\ g \notin allocated /\ g # 0
    BY <1>1, <1>3, NotTheFirst
  <2>2. \A d \in Present : Grown(d, g)
    BY <1>1, <1>3, <2>1, GrownBy
  <2>3. \A d \in Present : Unused(d, g)
    BY <1>1, <2>1, <2>2, NobodysMsi DEF Unused
  <2>4. \A d \in Present, m \in Nsid :
          ~ (d = c /\ m = n) => msi'[d][m] = msi[d][m] /\ iv'[d][m] = iv[d][m]
    BY <1>1, <1>3 DEF Typed
  <2>5. MsisEnabled(c)
    BY <1>3 DEF CanAllocate
  <2>. QED BY <1>1, <2>3, <2>4, <2>5, WaysStart
<1>. QED BY <1>2, <1>3 DEF AsyncLoopInitThrows

(* Namespaces that are ready, or given up: no MSI comes or moves.          *)
LEMMA WaysEnd ==
  ASSUME IInv, Vectored, Provided, NEW c \in Present, NEW n \in Nsid,
         BecomeDisk(c, n) \/ SelfDestruct(c, n)
  PROVE  Vectored' /\ Provided'
<1>1. PICK life \in {"disk", "gone"} :
        /\ ns' = [ns EXCEPT ![c][n] = life]
        /\ life = "disk" => iv[c][n] \in Entries(c) \/ ~MsisEnabled(c)
  BY DEF BecomeDisk, SelfDestruct
<1>2. /\ Typed /\ HasMsi /\ Fresh /\ ns[c][n] = "creating"
      /\ UNCHANGED <<machine, reg, ctlMsi, msi, vectors, table, iv>>
  BY DEF IInv, Vectored, BecomeDisk, SelfDestruct
<1>3. /\ Present' = Present /\ Nsid' = Nsid /\ Msi' = Msi
      /\ \A d \in Present : /\ Mode(d)' = Mode(d) /\ MsisEnabled(d)' = MsisEnabled(d)
                            /\ Entries(d)' = Entries(d)
      /\ Plenty' = Plenty /\ Alone' = Alone
  BY <1>2, WaysFrame
<1>4. \A d \in Present, m \in Nsid :
        ns'[d][m] = IF d = c /\ m = n THEN life ELSE ns[d][m]
  BY <1>1, <1>2 DEF Typed
<1>5. \A d \in Present : reg[d] # "none"
  BY <1>2 DEF Fresh
<1>6. HasMsi'
  <2>1. \A d \in Present, m \in Nsid : ns'[d][m] # "none" => reg[d] # "thrown"
    BY <1>2, <1>4 DEF HasMsi
  <2>. QED BY <1>2, <1>3, <2>1 DEF HasMsi
<1>7. \A d \in Present : CtlVector(d)'
  BY <1>2, <1>3 DEF Vectored, CtlVector
<1>8. \A d \in Present, m \in Nsid : NsVector(d, m)'
  <2>1. ASSUME NEW d \in Present, NEW m \in Nsid, ~ (d = c /\ m = n)
        PROVE  NsVector(d, m)'
    <3>1. NsVector(d, m) /\ ns'[d][m] = ns[d][m]
      BY <1>4, <2>1 DEF Vectored
    <3>. QED BY <1>2, <1>3, <3>1 DEF NsVector
  <2>2. NsVector(c, n)'
    <3>1. NsVector(c, n) /\ ns'[c][n] = life
      BY <1>4 DEF Vectored
    <3>. QED BY <1>1, <1>2, <1>3, <3>1 DEF NsVector
  <2>. QED BY <2>1, <2>2
<1>9. Provided'
  <2>1. ASSUME Alone, NEW d \in Present, MsisEnabled(d)
        PROVE  /\ reg'[d] = "none" => allocated' = {}
               /\ reg'[d] = "msi" => ctlMsi'[d] = 0
    BY <1>2, <1>5, <2>1 DEF Provided
  <2>2. ASSUME Plenty \/ Alone, NEW d \in Present, reg'[d] = "legacy"
        PROVE  ~MsisEnabled(d)
    BY <1>2, <2>2 DEF Provided
  <2>3. ASSUME Plenty \/ Alone, NEW d \in Present, NEW m \in Nsid,
               ns'[d][m] \in {"creating", "disk"}, msi'[d][m] = 0, Mode(d) = "msix"
        PROVE  iv'[d][m] = 0
    BY <1>2, <1>4, <2>3 DEF Provided
  <2>. QED BY <1>3, <2>1, <2>2, <2>3 DEF Provided
<1>. QED BY <1>3, <1>6, <1>7, <1>8, <1>9 DEF Vectored

LEMMA WaysInit == Init => Vectored /\ Provided
BY DEF Init, Vectored, HasMsi, CtlVector, NsVector, Provided

LEMMA WaysStep ==
  ASSUME IInv, Vectored, Provided, [Next]_vars
  PROVE  Vectored' /\ Provided'
<1>1. CASE Next
  <2>1. PICK c \in Present :
          \/ RegisterInterruptHandler(c)
          \/ RegistrationThrows(c)
          \/ \E n \in Nsid :
               \/ AsyncLoopInit(c, n) \/ AsyncLoopInitThrows(c, n)
               \/ BecomeDisk(c, n) \/ SelfDestruct(c, n)
    BY <1>1 DEF Next
  <2>2. CASE RegisterInterruptHandler(c)
    BY <2>2, WaysRegister
  <2>3. CASE RegistrationThrows(c)
    BY <2>3, WaysThrow
  <2>4. ASSUME NEW n \in Nsid, AsyncLoopInit(c, n)
        PROVE  Vectored' /\ Provided'
    BY <2>4, WaysOwnMsi, WaysVector0
  <2>5. ASSUME NEW n \in Nsid, AsyncLoopInitThrows(c, n)
        PROVE  Vectored' /\ Provided'
    BY <2>5, WaysStuck
  <2>6. ASSUME NEW n \in Nsid, BecomeDisk(c, n) \/ SelfDestruct(c, n)
        PROVE  Vectored' /\ Provided'
    BY <2>6, WaysEnd
  <2>. QED BY <2>1, <2>2, <2>3, <2>4, <2>5, <2>6
<1>2. CASE UNCHANGED vars
  <2>1. UNCHANGED <<machine, allocated, reg, ctlMsi, ns, msi, vectors, table, iv>>
    BY <1>2 DEF vars
  <2>2. /\ Present' = Present /\ Nsid' = Nsid /\ Msi' = Msi
        /\ \A d \in Present : /\ Mode(d)' = Mode(d) /\ MsisEnabled(d)' = MsisEnabled(d)
                              /\ Entries(d)' = Entries(d)
        /\ Plenty' = Plenty /\ Alone' = Alone
    BY <2>1, WaysFrame
  <2>3. \A d \in Present : CtlVector(d)' /\ \A m \in Nsid : NsVector(d, m)'
    BY <2>1, <2>2 DEF Vectored, CtlVector, NsVector
  <2>4. HasMsi' /\ Provided'
    BY <2>1, <2>2 DEF Vectored, HasMsi, Provided
  <2>. QED BY <2>2, <2>3, <2>4 DEF Vectored
<1>. QED BY <1>1, <1>2

LEMMA WaysCorrect == Spec => [](Vectored /\ Provided)
<1>1. IInv /\ Vectored /\ Provided /\ [Next]_vars => (Vectored /\ Provided)'
  BY WaysStep
<1>. QED BY <1>1, WaysInit, InvCorrect, PTL DEF Spec

(* The controller's vector leads to its handler.                           *)
LEMMA Vector0 ==
  ASSUME IInv, Vectored, Provided, NEW c \in Present, reg[c] = "msi", Mode(c) = "msix"
  PROVE  Receiver(c, 0) = CtlOf(c)
<1>1. /\ Typed /\ Owners /\ HasMsi /\ CtlVector(c)
  BY DEF IInv, Vectored
<1>2. MsisEnabled(c) /\ 0 \in Entries(c)
  BY <1>1, FirstEntry DEF Typed
<1>3. PICK g \in Msi : g = ctlMsi[c]
  BY <1>1, <1>2, MachineFacts DEF Typed, MsisEnabled, Msi
<1>4. table[c][0] = g /\ bound[g] = CtlOf(c)
  BY <1>1, <1>3 DEF CtlVector, Owners, CtlOwns
<1>. QED BY <1>2, <1>3, <1>4 DEF Receiver

(* A namespace's vector leads to its handler, or to its controller's.      *)
LEMMA DiskVector ==
  ASSUME IInv, Vectored, Provided, Plenty \/ Alone, NEW c \in Present,
         Mode(c) # "msi", NEW n \in Nsid, ns[c][n] = "disk"
  PROVE  Receiver(c, iv[c][n]) = IF msi[c][n] = 0 THEN CtlOf(c) ELSE <<c, n>>
<1>1. Typed /\ Owners /\ Fresh /\ HasMsi /\ NsVector(c, n)
  BY DEF IInv, Vectored
<1>2. CASE Mode(c) = "msix"
  <2>1. PICK l \in Entries(c) : l = iv[c][n]
    BY <1>1, <1>2, FirstEntry DEF Typed, NsVector
  <2>2. CASE msi[c][n] = 0
    <3>1. MsisEnabled(c) /\ iv[c][n] = 0
      BY <1>1, <1>2, <2>2, FirstEntry DEF Typed, Provided
    <3>2. reg[c] = "msi"
      BY <1>1, <3>1 DEF Typed, Fresh, HasMsi, Provided
    <3>. QED BY <1>2, <2>2, <3>1, <3>2, Vector0
  <2>3. CASE msi[c][n] # 0
    <3>1. PICK g \in Msi : g = msi[c][n]
      BY <1>1, <2>3 DEF Typed
    <3>2. table[c][l] = g
      BY <1>1, <1>2, <2>1, <2>3, <3>1 DEF NsVector
    <3>3. bound[g] = <<c, n>>
      BY <1>1, <2>3, <3>1 DEF Owners, NsOwns
    <3>. QED BY <1>2, <2>1, <2>3, <3>1, <3>2, <3>3 DEF Receiver
  <2>. QED BY <2>2, <2>3
<1>3. CASE Mode(c) = "none"
  <2>1. ~MsisEnabled(c)
    BY <1>3 DEF Mode, MsisEnabled
  <2>2. msi[c][n] = 0
    BY <1>1, <2>1 DEF HasMsi
  <2>. QED BY <1>3, <2>2 DEF Receiver
<1>. QED BY <1>2, <1>3 DEF Mode

-----------------------------------------------------------------------------
(* Plain MSI.                                                              *)

\* A plain MSI reaches its neighbours as well: machines where that does no harm.
\* The only one to use MSIs has as many messages as there are MSIs, and no more
\* than one namespace, whose local vector is the controller's.
Harmless ==
  \A c \in Present :
    Mode(c) = "msi" =>
      Alone /\ machine.msis <= LocalVectors(c) /\ machine.namespaces <= 1

\* The message registers of c are written when it has been registered; its local
\* vectors are left to its namespaces.
Message(c) ==
  Mode(c) = "msi" =>
    /\ base[c] # None => reg[c] \notin {"none", "thrown"}
    /\ reg[c] = "msi" => base[c] # None
    /\ machine.namespaces <= 1 =>
         \A n \in Nsid : /\ ns[c][n] = "none" => vectors[c] = <<>>
                         /\ ns[c][n] \in {"creating", "disk"} => iv[c][n] = 0

Messages ==
  /\ \A c \in Present : Message(c)
  /\ \A c \in Present, g \in Msi : bound[g] = CtlOf(c) => MsisEnabled(c)

LEMMA MessageKept ==
  ASSUME UNCHANGED machine, NEW d \in Present, Message(d), reg'[d] = reg[d],
         base'[d] = base[d], vectors'[d] = vectors[d],
         \A n \in Nsid : ns'[d][n] = ns[d][n] /\ iv'[d][n] = iv[d][n]
  PROVE  Message(d)'
BY MachineStays DEF Message

LEMMA MessagesInit == Init => Messages
<1> SUFFICES ASSUME Init PROVE Messages
  OBVIOUS
<1>1. machine \in Machines
  BY DEF Init
<1>2. \A c \in Present : Message(c)
  BY DEF Init, Message
<1>3. ASSUME NEW c \in Present, NEW g \in Msi PROVE bound[g] # CtlOf(c)
  <2>1. CtlOf(c) \in Objects
    BY <1>1, MachineFacts DEF CtlOf, Objects
  <2>. QED BY <1>1, <2>1, MachineFacts DEF Init
<1>. QED BY <1>2, <1>3 DEF Messages

(* register_interrupt_handler() enables, or throws before it does.         *)
LEMMA MessagesRegister ==
  ASSUME IInv, Messages, NEW c \in Present,
         RegisterInterruptHandler(c) \/ RegistrationThrows(c)
  PROVE  Messages'
<1>1. /\ Typed /\ reg[c] = "none" /\ UNCHANGED <<machine, ns, msi, iv>>
      /\ \A d \in Present : Message(d)
      /\ \A d \in Present, g \in Msi : bound[g] = CtlOf(d) => MsisEnabled(d)
  BY DEF IInv, Messages, RegisterInterruptHandler, RegistrationThrows
<1>2. /\ Present' = Present /\ Nsid' = Nsid /\ Msi' = Msi
      /\ \A d \in Present : Mode(d)' = Mode(d) /\ MsisEnabled(d)' = MsisEnabled(d)
  BY <1>1, MachineStays
<1>3. \A d \in Present :
        d # c => reg'[d] = reg[d] /\ base'[d] = base[d] /\ vectors'[d] = vectors[d]
  BY <1>1 DEF RegisterInterruptHandler, RegistrationThrows, EnableMsi, Typed
<1>4. \A d \in Present : d # c => Message(d)'
  BY <1>1, <1>3, MessageKept
<1>5. ASSUME Mode(c) = "msi" PROVE vectors'[c] = vectors[c]
  BY <1>1, <1>5 DEF RegisterInterruptHandler, RegistrationThrows, Enabled, Typed
<1>6. \A n \in Nsid : ns[c][n] = "none"
  BY <1>1 DEF IInv, Fresh
<1>7. ASSUME Mode(c) = "msi"
      PROVE  /\ base'[c] # None => reg'[c] \notin {"none", "thrown"}
             /\ reg'[c] = "msi" => base'[c] # None
  <2>1. base[c] = None
    BY <1>1, <1>7 DEF Message
  <2>2. CASE RegisterInterruptHandler(c) /\ CanAllocate(c)
    <3>1. LowestFree \in Msi /\ None \notin Msi
      BY <1>1, <2>2, Allocated, MachineFacts DEF Typed
    <3>2. reg'[c] = "msi" /\ base'[c] = LowestFree
      BY <1>1, <1>7, <2>2 DEF RegisterInterruptHandler, EnableMsi, Typed
    <3>. QED BY <3>1, <3>2
  <2>3. CASE RegisterInterruptHandler(c) /\ ~CanAllocate(c)
    <3>1. reg'[c] = "legacy" /\ base'[c] = None
      BY <1>1, <2>1, <2>3 DEF RegisterInterruptHandler, Typed
    <3>. QED BY <3>1
  <2>4. CASE RegistrationThrows(c)
    <3>1. reg'[c] = "thrown" /\ base'[c] = None
      BY <1>1, <2>1, <2>4 DEF RegistrationThrows, Typed
    <3>. QED BY <3>1
  <2>. QED BY <2>2, <2>3, <2>4
<1>8. Message(c)'
  BY <1>1, <1>2, <1>5, <1>6, <1>7 DEF Message
<1>9. ASSUME NEW d \in Present, NEW g \in Msi, bound'[g] = CtlOf(d)
      PROVE  MsisEnabled(d)
  <2>1. CASE bound'[g] = bound[g]
    BY <1>1, <1>9, <2>1
  <2>2. CASE bound'[g] # bound[g]
    <3>1. MsisEnabled(c) /\ bound'[g] = CtlOf(c)
      BY <1>1, <2>2 DEF RegisterInterruptHandler, RegistrationThrows, CanAllocate, Typed
    <3>. QED BY <1>9, <3>1 DEF CtlOf
  <2>. QED BY <2>1, <2>2
<1>. QED BY <1>2, <1>4, <1>8, <1>9 DEF Messages

(* The first local vector is 0, whatever MSI it is asked for.              *)
LEMMA FirstLocal ==
  ASSUME NEW g
  PROVE  LocalVector(WithVector(<<>>, g), g) = 0
<1>1. WithVector(<<>>, g) = <<g>>
  BY DEF WithVector, Known
<1>2. PICK p : p = CHOOSE l \in 1 .. Len(<<g>>) : <<g>>[l] = g
  OBVIOUS
<1>3. p = 1
  BY <1>2
<1>. QED BY <1>1, <1>2, <1>3 DEF LocalVector

(* A namespace starts when its controller has been registered, and the     *)
(* first local vector goes to the first to ask for one.                    *)
LEMMA MessagesStart ==
  ASSUME IInv, Messages, NEW c \in Present, NEW n \in Nsid,
         AsyncLoopInit(c, n) \/ AsyncLoopInitThrows(c, n)
  PROVE  Messages'
<1>1. /\ Typed /\ MayInit(c, n) /\ UNCHANGED <<machine, reg>>
      /\ reg[c] \notin {"none", "thrown"}
      /\ ns[c][n] = "none" /\ ns' \in {[ns EXCEPT ![c][n] = "creating"],
                                       [ns EXCEPT ![c][n] = "stuck"]}
      /\ \A d \in Present : Message(d)
      /\ \A d \in Present, g \in Msi : bound[g] = CtlOf(d) => MsisEnabled(d)
  BY DEF IInv, Messages, AsyncLoopInit, AsyncLoopInitThrows, MayInit
<1>2. /\ Present' = Present /\ Nsid' = Nsid /\ Msi' = Msi
      /\ \A d \in Present : Mode(d)' = Mode(d) /\ MsisEnabled(d)' = MsisEnabled(d)
  BY <1>1, MachineStays
<1>3. ASSUME NEW d \in Present, d # c
      PROVE  /\ base'[d] = base[d] /\ vectors'[d] = vectors[d]
             /\ \A m \in Nsid : ns'[d][m] = ns[d][m] /\ iv'[d][m] = iv[d][m]
  BY <1>1, <1>3 DEF AsyncLoopInit, AsyncLoopInitThrows, EnableMsi, CreateIocq, Typed
<1>4. \A d \in Present : d # c => Message(d)'
  BY <1>1, <1>3, MessageKept
<1>5. base'[c] = None => base[c] = None
  <2>1. CASE base' = base
    BY <2>1
  <2>2. CASE CanAllocate(c) /\ EnableMsi(c, LowestFree)
    <3>1. LowestFree \in Msi /\ None \notin Msi
      BY <1>1, <2>2, Allocated, MachineFacts DEF Typed
    <3>. QED BY <1>1, <2>2, <3>1 DEF EnableMsi, Typed
  <2>. QED BY <2>1, <2>2 DEF AsyncLoopInit, AsyncLoopInitThrows
<1>6. ASSUME Mode(c) = "msi", machine.namespaces <= 1, NEW m \in Nsid
      PROVE  /\ ns'[c][m] # "none"
             /\ ns'[c][m] \in {"creating", "disk"} => iv'[c][m] = 0
  <2>1. m = n
    BY <1>1, <1>6, MachineFacts DEF Typed, Nsid
  <2>2. ns'[c][n] # "none" /\ ns'[c][n] # "disk"
    BY <1>1 DEF Typed
  <2>3. CASE AsyncLoopInit(c, n)
    <3>1. vectors[c] = <<>>
      BY <1>1, <1>6 DEF Message
    <3>2. PICK g : CreateIocq(c, n, vectors[c], g)
      BY <1>6, <2>3 DEF AsyncLoopInit, Enabled
    <3>3. vectors'[c] = WithVector(<<>>, g) /\ iv'[c][n] = LocalVector(vectors'[c], g)
      BY <1>1, <3>1, <3>2 DEF CreateIocq, Typed
    <3>4. iv'[c][n] = 0
      BY <3>3, FirstLocal
    <3>. QED BY <2>1, <2>2, <3>4
  <2>4. CASE AsyncLoopInitThrows(c, n)
    <3>1. ns'[c][n] = "stuck"
      BY <1>1, <2>4 DEF AsyncLoopInitThrows, Typed
    <3>. QED BY <2>1, <3>1
  <2>. QED BY <2>3, <2>4
<1>7. Message(c)'
  BY <1>1, <1>2, <1>5, <1>6 DEF Message
<1>8. ASSUME NEW d \in Present, NEW g \in Msi, bound'[g] = CtlOf(d)
      PROVE  MsisEnabled(d)
  <2>1. n # 0
    BY <1>1, MachineFacts DEF Nsid, Typed
  <2>2. bound'[g] \in {bound[g], <<c, n>>}
    BY <1>1 DEF AsyncLoopInit, AsyncLoopInitThrows, Typed
  <2>. QED BY <1>1, <1>8, <2>1, <2>2 DEF CtlOf
<1>. QED BY <1>2, <1>4, <1>7, <1>8 DEF Messages

(* What is given back is bound to nobody.                                  *)
LEMMA MessagesEnd ==
  ASSUME IInv, Messages, NEW c \in Present, NEW n \in Nsid,
         BecomeDisk(c, n) \/ SelfDestruct(c, n)
  PROVE  Messages'
<1>1. PICK life \in {"disk", "gone"} : ns' = [ns EXCEPT ![c][n] = life]
  BY DEF BecomeDisk, SelfDestruct
<1>2. /\ Typed /\ ns[c][n] = "creating" /\ UNCHANGED <<machine, reg, base, vectors, iv>>
      /\ \A d \in Present : Message(d)
      /\ \A d \in Present, g \in Msi : bound[g] = CtlOf(d) => MsisEnabled(d)
  BY DEF IInv, Messages, BecomeDisk, SelfDestruct
<1>3. /\ Present' = Present /\ Nsid' = Nsid /\ Msi' = Msi
      /\ \A d \in Present : Mode(d)' = Mode(d) /\ MsisEnabled(d)' = MsisEnabled(d)
  BY <1>2, MachineStays
<1>4. \A d \in Present, m \in Nsid :
        ns'[d][m] = IF d = c /\ m = n THEN life ELSE ns[d][m]
  BY <1>1, <1>2 DEF Typed
<1>5. \A d \in Present : Message(d)'
  BY <1>2, <1>3, <1>4 DEF Message
<1>6. ASSUME NEW d \in Present, NEW g \in Msi, bound'[g] = CtlOf(d)
      PROVE  MsisEnabled(d)
  <2>1. bound'[g] \in {bound[g], None}
    BY <1>2 DEF BecomeDisk, SelfDestruct, Typed
  <2>2. CtlOf(d) # None
    BY <1>2, MachineFacts DEF CtlOf, Objects, Typed
  <2>. QED BY <1>2, <1>6, <2>1, <2>2
<1>. QED BY <1>3, <1>5, <1>6 DEF Messages

LEMMA MessagesCorrect == Spec => []Messages
<1>1. ASSUME IInv, Messages, [Next]_vars PROVE Messages'
  <2>1. CASE Next
    BY <1>1, <2>1, MessagesRegister, MessagesStart, MessagesEnd DEF Next
  <2>2. CASE UNCHANGED vars
    <3>1. UNCHANGED <<machine, bound, reg, base, vectors, ns, iv>>
      BY <2>2 DEF vars
    <3>2. \A d \in Present : Message(d)'
      BY <1>1, <3>1, MessageKept DEF Messages
    <3>. QED BY <1>1, <3>1, <3>2, MachineStays DEF Messages
  <2>. QED BY <1>1, <2>1, <2>2
<1>2. IInv /\ Messages /\ [Next]_vars => Messages'
  BY <1>1
<1>. QED BY <1>2, MessagesInit, InvCorrect, PTL DEF Spec

(* Where a plain MSI does no harm, the first of the device's vectors leads *)
(* to the controller's handler, whichever MSI has been enabled last.       *)
LEMMA Message0 ==
  ASSUME IInv, Provided, Messages, Harmless, NEW c \in Present, reg[c] = "msi",
         Mode(c) = "msi"
  PROVE  Receiver(c, 0) = CtlOf(c)
<1>1. Typed /\ Owners /\ Message(c) /\ Alone /\ machine.msis <= LocalVectors(c)
  BY DEF IInv, Messages, Harmless
<1>2. machine.msis \in Nat /\ machine.msis > 0 /\ MsisEnabled(c)
  BY <1>1, MachineFacts DEF Typed, Mode, MsisEnabled
<1>3. PICK size \in Nat : size = LocalVectors(c)
  BY <1>1, TableSize DEF Typed
<1>4. PICK g \in Msi : g = base[c]
  BY <1>1 DEF Message, Typed
<1>5. g \in Nat /\ g < size /\ size > 0
  BY <1>1, <1>2, <1>3, <1>4 DEF Msi
<1>6. MessageMsi(c, 0) = 0
  <2>1. g % size = g
    BY <1>5
  <2>. QED BY <1>3, <1>4, <1>5, <2>1 DEF MessageMsi
<1>7. 0 \in Msi /\ base[c] # None
  BY <1>1, <1>2, <1>4, MachineFacts DEF Msi, Typed
<1>8. bound[0] = CtlOf(c)
  BY <1>1, <1>2 DEF Provided, Owners, CtlOwns
<1>. QED BY <1>6, <1>7, <1>8 DEF Receiver

(* Interrupts of the admin queue                                           *)
LEMMA AdminVector ==
  ASSUME IInv, Vectored, Provided, Messages, Plenty \/ Alone, Harmless,
         NEW c \in Present, reg[c] \in {"msi", "legacy"}
  PROVE  Receiver(c, 0) = CtlOf(c)
<1>1. CASE Mode(c) = "none"
  BY <1>1 DEF Receiver
<1>2. CASE Mode(c) # "none"
  <2>1. MsisEnabled(c)
    BY <1>2, MachineFacts DEF Mode, MsisEnabled, IInv, Typed
  <2>2. reg[c] = "msi"
    BY <2>1 DEF Provided
  <2>. QED BY <1>2, <2>2, Vector0, Message0 DEF Mode
<1>. QED BY <1>1, <1>2

(* Interrupts of an I/O queue: whose handler, in which case                *)
LEMMA IoVector ==
  ASSUME IInv, Vectored, Provided, Messages, Plenty \/ Alone, Harmless,
         NEW c \in Present, NEW n \in Nsid, ns[c][n] = "disk"
  PROVE  Receiver(c, iv[c][n]) =
           IF Mode(c) = "msi" \/ msi[c][n] = 0 THEN CtlOf(c) ELSE <<c, n>>
<1>1. CASE Mode(c) # "msi"
  BY <1>1, DiskVector
<1>2. CASE Mode(c) = "msi"
  <2>1. iv[c][n] = 0
    BY <1>2 DEF Messages, Message, Harmless
  <2>2. reg[c] \in {"msi", "legacy"}
    BY DEF IInv, Typed, Fresh, Vectored, HasMsi
  <2>. QED BY <1>2, <2>1, <2>2, AdminVector
<1>. QED BY <1>1, <1>2

-----------------------------------------------------------------------------
(* Where interrupts go: the theorems.                                      *)

(* No interrupt, whatever vector the device raises, is dispatched to the   *)
(* handler of an object that is gone, though no entry of an MSI-X table is *)
(* ever taken back and plain MSIs reach their neighbours: unless a device  *)
(* does use plain MSI, another controller uses MSIs as well, and something *)
(* has thrown at a registration (main.cc deletes the controller then).     *)
THEOREM AliveCorrect ==
  Spec => []((\A c \in Present : Mode(c) # "msi") \/ Alone
               \/ (\A c \in Present : reg[c] # "thrown") => ReceiversAlive)
<1>1. ASSUME IInv, NEW c \in Present, MsisEnabled(c),
             NEW l \in 0 .. machine.namespaces + 1, Receiver(c, l) # None
      PROVE  \E g \in Msi : /\ Receiver(c, l) = bound[g]
                            /\ Mode(c) = "msix" => \E k \in Entries(c) : g = table[c][k]
  <2>1. Typed
    BY <1>1 DEF IInv
  <2>2. Mode(c) \in {"msi", "msix"}
    BY <1>1, <2>1, MachineFacts DEF Mode, MsisEnabled, Typed
  <2>3. CASE Mode(c) = "msix"
    BY <1>1, <2>1, <2>3 DEF Receiver, Typed
  <2>4. CASE Mode(c) = "msi"
    BY <1>1, <2>4 DEF Receiver
  <2>. QED BY <2>2, <2>3, <2>4
<1>2. ASSUME IInv, NEW g \in Msi, bound[g] # None,
             \A d \in Present : bound[g] = CtlOf(d) => reg[d] # "thrown"
      PROVE  Alive(bound[g])
  <2>1. Typed /\ BoundOnce
    BY <1>2 DEF IInv
  <2>2. PICK d \in Present, k \in 0 .. machine.namespaces : bound[g] = <<d, k>>
    BY <1>2, <2>1 DEF Typed, Objects
  <2>3. CASE k = 0
    <3>1. bound[g] = CtlOf(d)
      BY <2>2, <2>3 DEF CtlOf
    <3>2. reg[d] = "msi"
      BY <1>2, <2>1, <3>1 DEF BoundOnce
    <3>. QED BY <2>2, <2>3, <3>2 DEF Alive, Registered
  <2>4. CASE k # 0
    <3>1. k \in Nsid
      BY <2>1, <2>4, MachineFacts DEF Nsid, Typed
    <3>2. ns[d][k] \in {"creating", "disk", "stuck"}
      BY <2>1, <2>2, <3>1 DEF BoundOnce
    <3>. QED BY <2>2, <2>4, <3>2 DEF Alive
  <2>. QED BY <2>3, <2>4
<1>3. ASSUME IInv, Messages,
             \/ \A c \in Present : Mode(c) # "msi"
             \/ Alone
             \/ \A c \in Present : reg[c] # "thrown"
      PROVE  ReceiversAlive
  <2>1. Typed /\ TableAlive
    BY <1>3 DEF IInv
  <2>2. ASSUME NEW c \in Present, MsisEnabled(c), NEW l \in 0 .. machine.namespaces + 1,
               Receiver(c, l) # None
        PROVE  Alive(Receiver(c, l))
    <3>1. PICK g \in Msi :
            /\ Receiver(c, l) = bound[g]
            /\ Mode(c) = "msix" => \E k \in Entries(c) : g = table[c][k]
      BY <1>1, <1>3, <2>2
    <3>2. Mode(c) \in {"msi", "msix"} /\ g # None
      BY <2>1, <2>2, MachineFacts DEF Mode, MsisEnabled, Typed
    <3>3. ASSUME NEW d \in Present, bound[g] = CtlOf(d) PROVE reg[d] # "thrown"
      <4>1. CASE \A e \in Present : reg[e] # "thrown"
        BY <4>1
      <4>2. CASE Mode(c) = "msix"
        <5>1. PICK k \in Entries(c) : table[c][k] = g
          BY <3>1, <4>2
        <5>. QED BY <2>1, <3>2, <3>3, <5>1 DEF TableAlive
      <4>3. CASE Mode(c) = "msi" /\ Alone
        <5>1. MsisEnabled(d) /\ Message(c)
          BY <1>3, <3>3 DEF Messages
        <5>2. d = c
          BY <2>2, <4>3, <5>1 DEF Alone
        <5>3. base[c] # None
          BY <2>2, <4>3 DEF Receiver
        <5>. QED BY <4>3, <5>1, <5>2, <5>3 DEF Message
      <4>. QED BY <1>3, <3>2, <4>1, <4>2, <4>3
    <3>. QED BY <1>2, <1>3, <2>2, <3>1, <3>3
  <2>. QED BY <2>2 DEF ReceiversAlive
<1>4. IInv /\ Messages =>
        ((\A c \in Present : Mode(c) # "msi") \/ Alone
           \/ (\A c \in Present : reg[c] # "thrown") => ReceiversAlive)
  BY <1>3
<1>. QED BY <1>4, InvCorrect, MessagesCorrect, PTL

(* The interrupt of every queue, through vector, table or message, and MSI, *)
(* finds who looks at it, where the ICU has an MSI for every object that    *)
(* asks for one or a single controller uses them, and plain MSI, if any, is *)
(* that controller's, for one namespace at most and every MSI of the ICU.   *)
THEOREM ServedCorrect == Spec => []((Plenty \/ Alone) /\ Harmless => QueuesServed)
<1>1. ASSUME IInv, Vectored, Provided, Messages, Plenty \/ Alone, Harmless
      PROVE  QueuesServed
  <2>1. AdminServed
    BY <1>1, AdminVector DEF AdminServed, Registered
  <2>2. DisksServed
    <3>1. ASSUME NEW c \in Present, NEW n \in Nsid, ns[c][n] = "disk"
          PROVE  Receiver(c, iv[c][n]) \in {<<c, n>>, CtlOf(c)}
      BY <1>1, <3>1, IoVector
    <3>. QED BY <3>1 DEF DisksServed
  <2>. QED BY <2>1, <2>2 DEF QueuesServed
<1>2. IInv /\ Vectored /\ Provided /\ Messages =>
        ((Plenty \/ Alone) /\ Harmless => QueuesServed)
  BY <1>1
<1>. QED BY <1>2, InvCorrect, WaysCorrect, MessagesCorrect, PTL

(* There as well, a namespace that has got no MSI of its own is served by  *)
(* its controller's handler, whose loop polls every namespace.             *)
THEOREM FallbackCorrect == Spec => []((Plenty \/ Alone) /\ Harmless => FallbackShares)
<1>1. ASSUME IInv, Vectored, Provided, Messages, Plenty \/ Alone, Harmless
      PROVE  FallbackShares
  <2>1. ASSUME NEW c \in Present, NEW n \in Nsid, ns[c][n] = "disk", msi[c][n] = 0
        PROVE  Receiver(c, iv[c][n]) = CtlOf(c)
    BY <1>1, <2>1, IoVector
  <2>. QED BY <2>1 DEF FallbackShares
<1>2. IInv /\ Vectored /\ Provided /\ Messages =>
        ((Plenty \/ Alone) /\ Harmless => FallbackShares)
  BY <1>1
<1>. QED BY <1>2, InvCorrect, WaysCorrect, MessagesCorrect, PTL

=============================================================================
