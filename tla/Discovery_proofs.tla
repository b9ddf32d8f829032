-------------------------- MODULE Discovery_proofs --------------------------
(***************************************************************************)
(* The scan for devices, for any number of controllers, namespaces and     *)
(* outcomes of their commands: the references to the scan are counted, the *)
(* admin queues have room, nothing dangles, and the service is opened when *)
(* all is there, as DeviceScan promises.                                   *)
(***************************************************************************)
EXTENDS Discovery, FiniteSetTheorems, TLAPS

-----------------------------------------------------------------------------
(* The invariant.                                                          *)

(* A controller has one command at a time, none before it has been come to *)
(* and after its chain has thrown none that is ever completed.             *)
OneCommand(c) ==
  /\ \A m, k \in admin[c] : m = k
  /\ c \in unscanned => admin[c] = {} /\ c \notin thrown
  /\ \A m \in admin[c] : c \in thrown => m.status = "pending" /\ m.op # "identify"

(* Up to its identification there is nothing to a controller.              *)
Untouched(c) ==
  /\ nss[c] = {} /\ objects[c] = {} /\ devCq[c] = {} /\ devSq[c] = {}
  /\ asked[c] = {}

Fresh(c) ==
  /\ c \in unscanned => Untouched(c) /\ nn[c] = 0
  /\ \A m \in admin[c] :
       m.op = "identify" => Untouched(c) /\ (m.status # "ok" => nn[c] = 0)

(* How far the chain has come: the namespace it is at, those before it.    *)
Reached(c, m) ==
  /\ m.status = "unusable" => m.op = "identify_namespace"
  /\ m.op # "identify" =>
       /\ m.nsid \in Nsid
       /\ nss[c] \subseteq 1 .. m.nsid - 1
       /\ 1 .. m.nsid - 1 \subseteq asked[c]
  /\ m.op = "identify_namespace" =>
       /\ m.status # "pending" => m.nsid \in asked[c]
       /\ m.nsid <= nn[c] \/ (m.nsid = 1 /\ nn[c] = 0)
       /\ m.status = "ok" => m.nsid <= nn[c]
  /\ m.op \in {"create_iocq", "create_iosq"} =>
       /\ m.nsid \in asked[c] /\ m.nsid <= nn[c] /\ m.nsid \in objects[c]
  /\ m.op = "create_iosq" \/ (m.op = "create_iocq" /\ m.status = "ok") =>
       m.nsid \in devCq[c]
  /\ m.op = "create_iosq" /\ m.status = "ok" => m.nsid \in devSq[c]

(* When it is over, all namespaces have been asked about; the queues in    *)
(* use are those of the disks and of the namespace about to become one.    *)
Queues(c) ==
  /\ admin[c] = {} /\ c \notin thrown => AllAsked(c)
  /\ nss[c] \subseteq devSq[c] \intersect objects[c]
  /\ devSq[c] \subseteq devCq[c] \intersect (objects[c] \union Lost(c))
  /\ c \notin thrown => Lost(c) = {}
  /\ c \notin thrown => \A n \in devSq[c] \ nss[c] :
       \E m \in admin[c] : m.op = "create_iosq" /\ m.status = "ok" /\ m.nsid = n

Chain(c) ==
  /\ OneCommand(c) /\ Fresh(c) /\ Queues(c)
  /\ \A m \in admin[c] : Reached(c, m)

(* Partitions are read of disks, never of lost ones; the end is announced  *)
(* with the last drop.                                                     *)
Counted ==
  /\ RefsCounted
  /\ scanning \subseteq AllDisks /\ lost \intersect AllDisks = {}
  /\ announced = IF devices_in_scan = 0 THEN 1 ELSE 0

IInv == TypeOK /\ Counted /\ \A c \in Ctls : Chain(c)

-----------------------------------------------------------------------------
(* Counting.                                                               *)

(* A number below the modulus is its own remainder.                        *)
LEMMA SmallRemainder ==
  ASSUME NEW i \in Int, NEW n \in Int, 0 <= i, i < n
  PROVE  i % n = i
  OBVIOUS

(* n + 1 does not wrap for the NSID of a namespace (ctl.cc:367).           *)
LEMMA SmallNsid ==
  ASSUME NEW n \in 0 .. MaxNn
  PROVE  (n + 1) % NsidEnd = n + 1
<1>1. MaxNn \in Nat /\ NsidEnd \in Nat /\ MaxNn < NsidEnd - 1
  BY NnAssumption
<1>2. n + 1 \in Int /\ 0 <= n + 1 /\ n + 1 < NsidEnd
  BY <1>1
<1>. QED BY <1>1, <1>2, SmallRemainder

(* There are fewer references than an `unsigned' can count.                *)
LEMMA Bound ==
  ASSUME NEW chains \in SUBSET Ctls, NEW disks \in SUBSET Disks
  PROVE  /\ IsFiniteSet(chains) /\ Cardinality(chains) \in Nat
         /\ IsFiniteSet(disks) /\ Cardinality(disks) \in Nat
         /\ 1 + Cardinality(chains) + Cardinality(disks) < Bits32
<1>1. IsFiniteSet(Ctls) /\ Cardinality(Ctls) \in Nat
  BY CtlsAssumption, FS_CardinalityType
<1>2. MaxNn \in Nat /\ 1 + Cardinality(Ctls) * (MaxNn + 1) < Bits32 /\ Bits32 \in Nat
  BY NnAssumption
<1>3. IsFiniteSet(Nsid) /\ Cardinality(Nsid) = MaxNn
  BY <1>2, FS_Interval DEF Nsid
<1>4. IsFiniteSet(Disks) /\ Cardinality(Disks) = Cardinality(Ctls) * MaxNn
  BY <1>1, <1>3, FS_Product DEF Disks
<1>5. /\ IsFiniteSet(chains) /\ Cardinality(chains) <= Cardinality(Ctls)
      /\ IsFiniteSet(disks) /\ Cardinality(disks) <= Cardinality(Disks)
  BY <1>1, <1>4, FS_Subset
<1>6. Cardinality(chains) \in Nat /\ Cardinality(disks) \in Nat
  BY <1>5, FS_CardinalityType
<1>7. Cardinality(Ctls) * (MaxNn + 1) = Cardinality(Ctls) * MaxNn + Cardinality(Ctls)
  BY <1>1, <1>2
<1>8. Cardinality(Ctls) * MaxNn \in Nat
  BY <1>1, <1>2
<1>. QED BY <1>1, <1>2, <1>4, <1>5, <1>6, <1>7, <1>8

(* device_scan_finished() announces the end if it drops the last reference. *)
LEMMA Drops ==
  ASSUME NEW refs \in Nat, NEW drops \in 0 .. 2, drops <= refs, refs < Bits32,
         announced = 0, refs # 0, Scan(refs, drops)
  PROVE  /\ devices_in_scan' = refs - drops
         /\ announced' = IF devices_in_scan' = 0 THEN 1 ELSE 0
<1> DEFINE ends == {i \in 1 .. drops : (refs - i) % Bits32 = 0}
<1>1. Bits32 \in Nat
  BY NnAssumption
<1>2. \A i \in 0 .. drops : (refs - i) % Bits32 = refs - i
  <2> SUFFICES ASSUME NEW i \in 0 .. drops PROVE (refs - i) % Bits32 = refs - i
    OBVIOUS
  <2>1. refs - i \in Int /\ 0 <= refs - i /\ refs - i < Bits32
    BY <1>1
  <2>. QED BY <1>1, <2>1, SmallRemainder
<1>3. devices_in_scan' = refs - drops
  BY <1>2 DEF Scan
<1>4. announced' = 0 + Cardinality(ends)
  BY DEF Scan
<1>5. CASE drops = refs
  <2>1. ends = {drops}
    BY <1>2, <1>5
  <2>2. Cardinality(ends) = 1
    BY <2>1, FS_Singleton
  <2>. QED BY <1>3, <1>4, <1>5, <2>2
<1>6. CASE drops # refs
  <2>1. ends = {}
    BY <1>2, <1>6
  <2>2. Cardinality(ends) = 0
    BY <2>1, FS_EmptySet
  <2>. QED BY <1>3, <1>4, <1>6, <2>2
<1>. QED BY <1>5, <1>6

-----------------------------------------------------------------------------
(* Steps of one controller.                                                *)

(* What does not touch a controller keeps what is said of it.              *)
LEMMA Frame ==
  ASSUME NEW c \in Ctls, Chain(c), admin'[c] = admin[c], nn'[c] = nn[c],
         nss'[c] = nss[c], objects'[c] = objects[c], asked'[c] = asked[c],
         devCq'[c] = devCq[c], devSq'[c] = devSq[c],
         c \in unscanned' <=> c \in unscanned, c \in thrown' <=> c \in thrown,
         \A n : <<c, n>> \in lost' <=> <<c, n>> \in lost
  PROVE  Chain(c)'
<1>1. OneCommand(c)' /\ Fresh(c)'
  BY DEF Chain, OneCommand, Fresh, Untouched
<1>2. Queues(c)'
  BY DEF Chain, Queues, AllAsked, Lost
<1>3. \A m \in admin'[c] : Reached(c, m)'
  BY DEF Chain, Reached
<1>. QED BY <1>1, <1>2, <1>3 DEF Chain

(* A callback's command is the only one, and the next ones take its place. *)
LEMMA Issued ==
  ASSUME TypeOK, NEW c \in Ctls, Chain(c), NEW m \in admin[c], m.status # "pending",
         NEW commands \in SUBSET Command, Issue(c, m, commands)
  PROVE  /\ admin[c] = {m} /\ m \in Command /\ c \notin unscanned /\ c \notin thrown
         /\ admin' \in [Ctls -> SUBSET Command]
         /\ admin'[c] = commands
         /\ \A d \in Ctls \ {c} : admin'[d] = admin[d]
<1>1. admin[c] = {m} /\ c \notin unscanned /\ c \notin thrown
  BY DEF Chain, OneCommand
<1>2. admin \in [Ctls -> SUBSET Command]
  BY DEF TypeOK
<1>3. (admin[c] \ {m}) \union commands = commands
  BY <1>1
<1>. QED BY <1>1, <1>2, <1>3 DEF Issue

(* What a pending command is.                                              *)
LEMMA PendingType ==
  ASSUME NEW op \in Operations, NEW n \in 0 .. MaxNn + 1
  PROVE  /\ Pending(op, n) \in Command
         /\ Pending(op, n).op = op /\ Pending(op, n).nsid = n
         /\ Pending(op, n).status = "pending"
BY DEF Pending, Command, Statuses

(* A chain that has not ended is a reference, one that ends drops it.      *)
LEMMA ChainsOf ==
  ASSUME NEW c \in Ctls, admin[c] # {}, c \notin thrown, thrown' = thrown,
         \A d \in Ctls \ {c} : admin'[d] = admin[d]
  PROVE  /\ c \in Chains
         /\ Chains' = IF admin'[c] = {} THEN Chains \ {c} ELSE Chains
BY DEF Chains

(* Nothing that counts has changed.                                        *)
LEMMA CountKept ==
  ASSUME TypeOK, Counted, Chains' = Chains, UNCHANGED <<loop, scanVars, scanning, lost>>,
         nss' = nss
  PROVE  Counted' /\ devices_in_scan' \in 0 .. Bits32 - 1 /\ announced' \in Nat
<1>1. AllDisks' = AllDisks
  BY DEF AllDisks
<1>2. LoopRefs' = LoopRefs /\ PartitionScans' = PartitionScans
  BY DEF LoopRefs, PartitionScans
<1>. QED BY <1>1, <1>2 DEF Counted, RefsCounted, TypeOK, scanVars

(* done_cb() drops the chain's reference, and announces the end if it was  *)
(* the last one.                                                           *)
LEMMA CountDrop ==
  ASSUME TypeOK, Counted, NEW c \in Chains, Chains' = Chains \ {c},
         UNCHANGED <<loop, scanning, lost, nss>>, Scan(devices_in_scan, 1)
  PROVE  Counted' /\ devices_in_scan' \in 0 .. Bits32 - 1 /\ announced' \in Nat
<1>1. Chains \subseteq Ctls /\ PartitionScans \subseteq Disks /\ Bits32 \in Nat
  BY NnAssumption DEF Chains, TypeOK, PartitionScans
<1>2. /\ IsFiniteSet(Chains) /\ Cardinality(Chains) \in Nat
      /\ Cardinality(PartitionScans) \in Nat
  BY <1>1, Bound
<1>3. Cardinality(Chains') = Cardinality(Chains) - 1
  BY <1>2, FS_RemoveElement
<1>4. Cardinality(Chains) # 0
  BY <1>2, FS_EmptySet
<1>5. LoopRefs \in Nat /\ LoopRefs' = LoopRefs
  BY DEF LoopRefs
<1>6. devices_in_scan \in Nat /\ 1 <= devices_in_scan /\ devices_in_scan < Bits32
  BY <1>1, <1>2, <1>4, <1>5 DEF Counted, RefsCounted, TypeOK
<1>7. /\ devices_in_scan' = devices_in_scan - 1
      /\ announced' = IF devices_in_scan' = 0 THEN 1 ELSE 0
  BY <1>6, Drops DEF Counted
<1>8. AllDisks' = AllDisks /\ PartitionScans' = PartitionScans
  BY DEF AllDisks, PartitionScans
<1>. QED BY <1>1, <1>2, <1>3, <1>5, <1>6, <1>7, <1>8 DEF Counted, RefsCounted

(* device_scan_finished() not called: the counter stays as it is.          *)
LEMMA CountNone ==
  ASSUME TypeOK, Counted, NEW c \in Chains, Scan(devices_in_scan, 0)
  PROVE  UNCHANGED scanVars
<1>1. Chains \subseteq Ctls /\ PartitionScans \subseteq Disks /\ Bits32 \in Nat
  BY NnAssumption DEF Chains, TypeOK, PartitionScans
<1>2. /\ IsFiniteSet(Chains) /\ Cardinality(Chains) \in Nat
      /\ Cardinality(PartitionScans) \in Nat
  BY <1>1, Bound
<1>3. Cardinality(Chains) # 0
  BY <1>2, FS_EmptySet
<1>4. devices_in_scan \in Nat /\ devices_in_scan # 0 /\ devices_in_scan < Bits32
  BY <1>1, <1>2, <1>3 DEF Counted, RefsCounted, TypeOK, LoopRefs
<1>5. devices_in_scan' = devices_in_scan - 0 /\ announced' = announced
  BY <1>4, Drops DEF Counted
<1>. QED BY <1>4, <1>5 DEF scanVars

(* There is room to count another scan of partitions.                      *)
LEMMA CountMore ==
  ASSUME TypeOK, Counted, NEW c \in Chains, NEW n \in Nsid, n \notin nss[c], Lost(c) = {}
  PROVE  /\ c \in Ctls /\ Bits32 \in Nat /\ IsFiniteSet(Chains)
         /\ Cardinality(Chains) \in Nat /\ Cardinality(PartitionScans) \in Nat
         /\ Cardinality(PartitionScans \union {<<c, n>>}) = Cardinality(PartitionScans) + 1
         /\ LoopRefs \in 0 .. 1
         /\ devices_in_scan \in Nat /\ 1 <= devices_in_scan /\ announced = 0
         /\ devices_in_scan + 1 < Bits32
<1> DEFINE more == PartitionScans \union {<<c, n>>}
<1>1. /\ c \in Ctls /\ Chains \subseteq Ctls /\ Bits32 \in Nat
      /\ PartitionScans \subseteq Disks /\ more \subseteq Disks
  BY NnAssumption DEF Chains, TypeOK, Disks, PartitionScans
<1>2. /\ IsFiniteSet(Chains) /\ Cardinality(Chains) \in Nat
      /\ IsFiniteSet(PartitionScans) /\ Cardinality(PartitionScans) \in Nat
      /\ 1 + Cardinality(Chains) + Cardinality(more) < Bits32
  BY <1>1, Bound
<1>3. <<c, n>> \notin PartitionScans
  BY DEF Counted, AllDisks, Lost, PartitionScans
<1>4. Cardinality(more) = Cardinality(PartitionScans) + 1
  BY <1>2, <1>3, FS_AddElement
<1>5. LoopRefs \in 0 .. 1
  BY DEF LoopRefs
<1>6. Cardinality(Chains) # 0
  BY <1>2, FS_EmptySet
<1>7. /\ devices_in_scan \in Nat /\ 1 <= devices_in_scan /\ announced = 0
      /\ devices_in_scan = LoopRefs + Cardinality(Chains) + Cardinality(PartitionScans)
  BY <1>1, <1>2, <1>5, <1>6 DEF Counted, RefsCounted, TypeOK
<1>8. devices_in_scan + 1 < Bits32
  BY <1>1, <1>2, <1>4, <1>5, <1>7
<1>. QED BY <1>1, <1>2, <1>4, <1>5, <1>7, <1>8

(* The reference of a lost disk stays: it is taken, and nobody drops it    *)
(* (main.cc:522).                                                          *)
LEMMA CountLost ==
  ASSUME TypeOK, Counted, NEW c \in Chains, NEW n \in Nsid, n \notin nss[c], Lost(c) = {},
         Chains' = Chains, lost' = lost \union {<<c, n>>},
         UNCHANGED <<loop, nss, scanning>>, Scan(devices_in_scan + 1, 0)
  PROVE  /\ Counted' /\ devices_in_scan' \in 0 .. Bits32 - 1 /\ announced' \in Nat
         /\ lost' \subseteq Disks
<1>1. /\ devices_in_scan \in Nat /\ announced = 0 /\ devices_in_scan + 1 < Bits32
      /\ Bits32 \in Nat /\ c \in Ctls /\ LoopRefs \in 0 .. 1
      /\ Cardinality(Chains) \in Nat /\ Cardinality(PartitionScans) \in Nat
  BY CountMore
<1>2. /\ devices_in_scan' = devices_in_scan + 1 - 0
      /\ announced' = IF devices_in_scan' = 0 THEN 1 ELSE 0
  BY <1>1, Drops
<1>3. PartitionScans' = PartitionScans \union {<<c, n>>}
  BY DEF PartitionScans
<1>4. Cardinality(PartitionScans') = Cardinality(PartitionScans) + 1
  BY <1>3, CountMore
<1>5. LoopRefs' = LoopRefs /\ AllDisks' = AllDisks
  BY DEF LoopRefs, AllDisks
<1>6. /\ scanning' \subseteq AllDisks' /\ lost' \intersect AllDisks' = {}
      /\ lost' \subseteq Disks
  BY <1>1, <1>5 DEF Counted, AllDisks, Disks, TypeOK
<1>. QED BY <1>1, <1>2, <1>4, <1>5, <1>6 DEF Counted, RefsCounted

(* A new disk is a reference until its partitions have been read; it is    *)
(* taken before the chain drops its own (main.cc:522, ns.cc:88).           *)
LEMMA CountDisk ==
  ASSUME TypeOK, Counted, NEW c \in Chains, NEW n \in Nsid, n \notin nss[c], Lost(c) = {},
         NEW last \in 0 .. 1, NEW sync \in BOOLEAN,
         Chains' = IF last = 1 THEN Chains \ {c} ELSE Chains, loop' = loop,
         nss' = [nss EXCEPT ![c] = @ \union {n}], lost' = lost,
         scanning' = IF sync THEN scanning ELSE scanning \union {<<c, n>>},
         Scan(devices_in_scan + 1, last + IF sync THEN 1 ELSE 0)
  PROVE  /\ Counted' /\ devices_in_scan' \in 0 .. Bits32 - 1 /\ announced' \in Nat
         /\ scanning' \subseteq Disks
<1> DEFINE drops == last + IF sync THEN 1 ELSE 0
<1>1. /\ c \in Ctls /\ Bits32 \in Nat /\ scanning' \subseteq Disks
  <2>1. c \in Ctls /\ Bits32 \in Nat
    BY CountMore
  <2>. QED BY <2>1 DEF TypeOK, Disks
<1>2. /\ IsFiniteSet(Chains) /\ Cardinality(Chains) \in Nat
      /\ Cardinality(PartitionScans) \in Nat
      /\ Cardinality(PartitionScans \union {<<c, n>>}) = Cardinality(PartitionScans) + 1
      /\ devices_in_scan + 1 < Bits32
  BY CountMore
<1>3. LoopRefs \in 0 .. 1 /\ LoopRefs' = LoopRefs
  BY CountMore DEF LoopRefs
<1>4. /\ devices_in_scan \in Nat /\ 1 <= devices_in_scan /\ announced = 0
      /\ devices_in_scan = LoopRefs + Cardinality(Chains) + Cardinality(PartitionScans)
  BY CountMore DEF Counted, RefsCounted
<1>5. drops \in 0 .. 2 /\ drops <= devices_in_scan + 1
  BY <1>4
<1>6. /\ devices_in_scan' = devices_in_scan + 1 - drops
      /\ announced' = IF devices_in_scan' = 0 THEN 1 ELSE 0
  BY <1>2, <1>4, <1>5, Drops
<1>7. Cardinality(Chains') = Cardinality(Chains) - last
  <2>1. Cardinality(Chains \ {c}) = Cardinality(Chains) - 1
    BY <1>2, FS_RemoveElement
  <2>. QED BY <1>2, <2>1
<1>8. Cardinality(PartitionScans') = Cardinality(PartitionScans) + IF sync THEN 0 ELSE 1
  <2>1. PartitionScans' = IF sync THEN PartitionScans
                                  ELSE PartitionScans \union {<<c, n>>}
    BY DEF PartitionScans
  <2>. QED BY <1>2, <2>1
<1>9. devices_in_scan' = LoopRefs' + Cardinality(Chains') + Cardinality(PartitionScans')
  <2>1. CASE sync
    BY <1>2, <1>3, <1>4, <1>6, <1>7, <1>8, <2>1
  <2>2. CASE ~sync
    BY <1>2, <1>3, <1>4, <1>6, <1>7, <1>8, <2>2
  <2>. QED BY <2>1, <2>2
<1>10. scanning' \subseteq AllDisks' /\ lost' \intersect AllDisks' = {}
  <2>1. /\ nss'[c] = nss[c] \union {n}
        /\ \A d \in Ctls : nss[d] \subseteq nss'[d]
    BY <1>1 DEF TypeOK
  <2>2. AllDisks \subseteq AllDisks' /\ <<c, n>> \in AllDisks'
    BY <1>1, <2>1 DEF AllDisks, Disks
  <2>3. AllDisks' = AllDisks \union {<<c, n>>}
    BY <1>1 DEF AllDisks, Disks, TypeOK
  <2>. QED BY <2>2, <2>3 DEF Counted, Lost
<1>11. devices_in_scan' \in 0 .. Bits32 - 1
  BY <1>1, <1>2, <1>4, <1>5, <1>6
<1>. QED BY <1>1, <1>6, <1>9, <1>10, <1>11 DEF Counted, RefsCounted

-----------------------------------------------------------------------------
(* The callbacks.                                                          *)

(* On to the next namespace, or done_cb() (ctl.cc:367, 423, ns.cc:53).     *)
LEMMA ContinueStep ==
  ASSUME IInv, NEW c \in Ctls, NEW m \in admin[c], Callback(c, m),
         m.op \in {"identify_namespace", "create_iocq"}, Continue(c, m),
         UNCHANGED <<loopVars, nss, scanning, thrown, lost, deviceVars>>,
         objects' \in [Ctls -> SUBSET Nsid], devSq[c] \subseteq objects'[c],
         \A d \in Ctls \ {c} : objects'[d] = objects[d]
  PROVE  IInv'
<1> USE DEF IInv, loopVars, deviceVars
<1>1. TypeOK /\ Counted /\ Chain(c) /\ MaxNn \in Nat
  BY NnAssumption
<1>2. /\ m.nsid \in 1 .. MaxNn /\ nss[c] \subseteq 1 .. m.nsid - 1
      /\ 1 .. m.nsid \subseteq asked[c]
  BY <1>1 DEF Chain, Reached, Callback, Nsid
<1>3. (m.nsid + 1) % NsidEnd = m.nsid + 1
  BY <1>1, <1>2, SmallNsid
<1>4. devSq[c] \subseteq nss[c]
  BY <1>1 DEF Chain, OneCommand, Queues, Callback
<1>5. \A d \in Ctls \ {c} : admin'[d] = admin[d]
  BY <1>1 DEF TypeOK, Continue, Issue
<1>6. \A d \in Ctls \ {c} : Chain(d)'
  BY <1>5, Frame
<1>7. nn[c] \in 0 .. MaxNn /\ nn' = nn /\ nss' = nss /\ asked' = asked
  BY <1>1 DEF TypeOK
<1>8. CASE m.nsid + 1 <= nn[c]
  <2> DEFINE next == Pending("identify_namespace", m.nsid + 1)
  <2>1. Issue(c, m, {next}) /\ UNCHANGED scanVars
    BY <1>3, <1>8 DEF Continue, MoreNamespaces, NextIdentify
  <2>2. /\ next \in Command /\ next.op = "identify_namespace"
        /\ next.nsid = m.nsid + 1 /\ next.status = "pending"
    BY <1>1, <1>2, PendingType DEF Operations
  <2>3. /\ c \notin unscanned /\ c \notin thrown /\ admin'[c] = {next}
        /\ admin' \in [Ctls -> SUBSET Command]
    BY <1>1, <2>1, <2>2, Issued DEF Callback
  <2>4. Counted' /\ devices_in_scan' \in 0 .. Bits32 - 1 /\ announced' \in Nat
    BY <1>1, <1>5, <2>1, <2>3, ChainsOf, CountKept
  <2>5. TypeOK'
    BY <1>1, <2>3, <2>4 DEF TypeOK
  <2>6. OneCommand(c)' /\ Fresh(c)'
    BY <2>2, <2>3 DEF OneCommand, Fresh
  <2>7. Queues(c)'
    BY <1>1, <1>4, <2>3 DEF Chain, Queues, Lost
  <2>8. \A k \in admin'[c] : Reached(c, k)'
    <3> SUFFICES ASSUME NEW k \in admin'[c] PROVE Reached(c, k)'
      OBVIOUS
    <3>1. /\ k.op = "identify_namespace" /\ k.status = "pending"
          /\ k.nsid = m.nsid + 1
      BY <2>2, <2>3
    <3>2. k.nsid \in Nsid /\ k.nsid <= nn'[c]
      BY <1>1, <1>2, <1>7, <1>8, <3>1 DEF Nsid
    <3>3. k.nsid - 1 = m.nsid
      BY <1>2, <3>1
    <3>4. nss'[c] \subseteq 1 .. k.nsid - 1 /\ 1 .. k.nsid - 1 \subseteq asked'[c]
      BY <1>2, <1>7, <3>3
    <3>. QED BY <3>1, <3>2, <3>4 DEF Reached
  <2>9. Chain(c)'
    BY <2>6, <2>7, <2>8 DEF Chain
  <2>. QED BY <1>6, <2>4, <2>5, <2>9
<1>9. CASE ~(m.nsid + 1 <= nn[c])
  <2>1. Issue(c, m, {}) /\ Scan(devices_in_scan, 1)
    BY <1>3, <1>9 DEF Continue, MoreNamespaces
  <2>2. /\ c \notin unscanned /\ c \notin thrown /\ admin'[c] = {}
        /\ admin' \in [Ctls -> SUBSET Command]
    BY <1>1, <2>1, Issued DEF Callback
  <2>3. Counted' /\ devices_in_scan' \in 0 .. Bits32 - 1 /\ announced' \in Nat
    BY <1>1, <1>5, <2>1, <2>2, ChainsOf, CountDrop
  <2>4. TypeOK'
    BY <1>1, <2>2, <2>3 DEF TypeOK
  <2>5. AllAsked(c)'
    BY <1>1, <1>2, <1>7, <1>9 DEF AllAsked
  <2>6. OneCommand(c)' /\ Fresh(c)' /\ Queues(c)'
    BY <1>1, <1>4, <2>2, <2>5 DEF Chain, OneCommand, Fresh, Queues, Lost
  <2>7. Chain(c)'
    BY <2>2, <2>6 DEF Chain
  <2>. QED BY <1>6, <2>3, <2>4, <2>7
<1>. QED BY <1>8, <1>9

(* The first namespace is asked about, or there is none (ctl.cc:484).      *)
LEMMA IdentifyStep ==
  ASSUME IInv, NEW c \in Ctls, NEW m \in admin[c], IdentifyDone(c, m)
  PROVE  IInv'
<1> USE DEF IInv, loopVars, deviceVars
<1>1. TypeOK /\ Counted /\ Chain(c) /\ MaxNn \in Nat /\ MaxNn > 0
  BY NnAssumption
<1>2. m.op = "identify" /\ nn' = nn /\ nss' = nss /\ asked' = asked
  BY DEF IdentifyDone
<1>3. Untouched(c) /\ Untouched(c)' /\ (m.status # "ok" => nn[c] = 0)
  BY <1>1, <1>2 DEF Chain, Fresh, Untouched, IdentifyDone
<1>4. \A d \in Ctls \ {c} : admin'[d] = admin[d]
  BY <1>1 DEF TypeOK, IdentifyDone, Issue
<1>5. \A d \in Ctls \ {c} : Chain(d)'
  BY <1>4, Frame DEF IdentifyDone
<1>6. CASE m.status = "fail" /\ Issue(c, m, {}) /\ Scan(devices_in_scan, 1)
  <2>1. /\ c \notin unscanned /\ c \notin thrown /\ admin'[c] = {}
        /\ admin' \in [Ctls -> SUBSET Command]
    BY <1>1, <1>6, Issued DEF IdentifyDone, Callback
  <2>2. Counted' /\ devices_in_scan' \in 0 .. Bits32 - 1 /\ announced' \in Nat
    BY <1>1, <1>4, <1>6, <2>1, ChainsOf, CountDrop DEF IdentifyDone
  <2>3. TypeOK'
    BY <1>1, <2>1, <2>2 DEF TypeOK, IdentifyDone
  <2>4. AllAsked(c)'
    BY <1>2, <1>3, <1>6 DEF AllAsked
  <2>5. OneCommand(c)' /\ Fresh(c)' /\ Queues(c)'
    BY <1>1, <1>3, <2>1, <2>4 DEF Chain, OneCommand, Fresh, Queues, Untouched, IdentifyDone, Lost
  <2>6. Chain(c)'
    BY <2>1, <2>5 DEF Chain
  <2>. QED BY <1>5, <2>2, <2>3, <2>6
<1>7. CASE /\ m.status = "ok" /\ UNCHANGED scanVars
           /\ Issue(c, m, {Pending("identify_namespace", 1)})
  <2> DEFINE next == Pending("identify_namespace", 1)
  <2>1. /\ next \in Command /\ next.op = "identify_namespace"
        /\ next.nsid = 1 /\ next.status = "pending"
    BY <1>1, PendingType DEF Operations
  <2>2. /\ c \notin unscanned /\ c \notin thrown /\ admin'[c] = {next}
        /\ admin' \in [Ctls -> SUBSET Command]
    BY <1>1, <1>7, <2>1, Issued DEF IdentifyDone, Callback
  <2>3. Counted' /\ devices_in_scan' \in 0 .. Bits32 - 1 /\ announced' \in Nat
    BY <1>1, <1>2, <1>4, <1>7, <2>2, ChainsOf, CountKept DEF IdentifyDone
  <2>4. TypeOK'
    BY <1>1, <2>2, <2>3 DEF TypeOK, IdentifyDone
  <2>5. OneCommand(c)' /\ Fresh(c)' /\ Queues(c)'
    BY <1>1, <1>3, <2>1, <2>2 DEF Chain, OneCommand, Fresh, Queues, Untouched, IdentifyDone, Lost
  <2>6. nn'[c] \in Nat
    BY <1>1, <1>2 DEF TypeOK
  <2>7. Reached(c, next)'
    BY <1>1, <1>3, <2>1, <2>6 DEF Reached, Untouched, Nsid
  <2>8. Chain(c)'
    BY <2>2, <2>5, <2>7 DEF Chain
  <2>. QED BY <1>5, <2>3, <2>4, <2>8
<1>. QED BY <1>6, <1>7 DEF IdentifyDone

(* The chain stays at its namespace with the next command (ctl.cc:410,     *)
(* ns.cc:63); an exception may stop it there (ctl.cc:419).                 *)
LEMMA StayStep ==
  ASSUME IInv, NEW c \in Ctls, NEW m \in admin[c],
         m.status = "ok", NEW op \in {"create_iocq", "create_iosq"},
         Issue(c, m, {Pending(op, m.nsid)}),
         \/ m.op = "identify_namespace" /\ op = "create_iocq"
         \/ m.op = "create_iocq" /\ op = "create_iosq" /\ m.nsid \in devCq[c],
         objects' = [objects EXCEPT ![c] = @ \union {m.nsid}],
         thrown' \in {thrown, thrown \union {c}},
         UNCHANGED <<loopVars, scanVars, nss, scanning, lost, deviceVars>>
  PROVE  IInv'
<1> USE DEF IInv, loopVars, deviceVars
<1> DEFINE next == Pending(op, m.nsid)
<1>1. TypeOK /\ Counted /\ Chain(c) /\ MaxNn \in Nat
  BY NnAssumption
<1>2. /\ m.nsid \in Nsid /\ m.nsid \in 0 .. MaxNn + 1 /\ m.nsid <= nn[c]
      /\ nss[c] \subseteq 1 .. m.nsid - 1
      /\ 1 .. m.nsid - 1 \subseteq asked[c] /\ m.nsid \in asked[c]
  BY <1>1 DEF Chain, Reached, Nsid
<1>3. /\ next \in Command /\ next.op = op
      /\ next.nsid = m.nsid /\ next.status = "pending"
  BY <1>2, PendingType DEF Operations
<1>4. /\ c \notin unscanned /\ c \notin thrown /\ admin'[c] = {next}
      /\ admin' \in [Ctls -> SUBSET Command]
      /\ \A d \in Ctls \ {c} : admin'[d] = admin[d]
  BY <1>1, <1>3, Issued
<1>5. /\ objects' \in [Ctls -> SUBSET Nsid]
      /\ objects'[c] = objects[c] \union {m.nsid}
      /\ \A d \in Ctls \ {c} : objects'[d] = objects[d]
  BY <1>1, <1>2 DEF TypeOK
<1>6. \A d \in Ctls \ {c} : Chain(d)'
  BY <1>4, <1>5, Frame
<1>7. Counted' /\ devices_in_scan' \in 0 .. Bits32 - 1 /\ announced' \in Nat
  <2>1. Chains' = Chains
    BY <1>4 DEF Chains
  <2>. QED BY <1>1, <2>1, CountKept
<1>8. TypeOK'
  BY <1>1, <1>4, <1>5, <1>7 DEF TypeOK
<1>9. devSq[c] \subseteq nss[c]
  BY <1>1 DEF Chain, OneCommand, Queues
<1>10. OneCommand(c)' /\ Fresh(c)'
  BY <1>3, <1>4 DEF OneCommand, Fresh
<1>11. Queues(c)'
  BY <1>1, <1>4, <1>5, <1>9 DEF Chain, Queues, Lost
<1>12. Reached(c, next)'
  BY <1>2, <1>3, <1>5 DEF Reached
<1>13. Chain(c)'
  BY <1>4, <1>10, <1>11, <1>12 DEF Chain
<1>. QED BY <1>6, <1>7, <1>8, <1>13

(* A namespace has been identified (ctl.cc:361).                           *)
LEMMA IdentifyNamespaceStep ==
  ASSUME IInv, NEW c \in Ctls, NEW m \in admin[c], IdentifyNamespaceDone(c, m)
  PROVE  IInv'
<1>1. CASE m.status # "ok"
  <2>1. Callback(c, m) /\ Continue(c, m) /\ objects' = objects
    BY <1>1 DEF IdentifyNamespaceDone
  <2>2. objects \in [Ctls -> SUBSET Nsid] /\ devSq[c] \subseteq objects[c]
    BY <2>1 DEF IInv, TypeOK, Chain, OneCommand, Queues, Callback
  <2>. QED BY <2>1, <2>2, ContinueStep DEF IdentifyNamespaceDone
<1>2. CASE m.status = "ok"
  BY <1>2, StayStep DEF IdentifyNamespaceDone
<1>. QED BY <1>1, <1>2

(* The completion queue of a namespace has been created, or not (ns.cc:45). *)
LEMMA CreateIocqStep ==
  ASSUME IInv, NEW c \in Ctls, NEW m \in admin[c], CreateIocqDone(c, m)
  PROVE  IInv'
<1>1. /\ objects \in [Ctls -> SUBSET Nsid] /\ m.nsid \in objects[c]
      /\ m.nsid \in 1 .. MaxNn /\ MaxNn \in Nat
  BY NnAssumption DEF IInv, TypeOK, Chain, Reached, CreateIocqDone, Nsid
<1>2. /\ devSq[c] \subseteq objects[c] /\ devSq[c] \subseteq nss[c]
      /\ nss[c] \subseteq 1 .. m.nsid - 1
  BY DEF IInv, Chain, OneCommand, Queues, Reached, CreateIocqDone, Callback
<1>3. CASE m.status # "ok"
  <2>1. /\ Callback(c, m) /\ Continue(c, m)
        /\ objects' = [objects EXCEPT ![c] = @ \ {m.nsid}]
    BY <1>3 DEF CreateIocqDone
  <2>2. /\ objects' \in [Ctls -> SUBSET Nsid] /\ objects'[c] = objects[c] \ {m.nsid}
        /\ \A d \in Ctls \ {c} : objects'[d] = objects[d]
    BY <1>1, <2>1
  <2>3. m.nsid \notin devSq[c]
    BY <1>1, <1>2
  <2>4. devSq[c] \subseteq objects'[c]
    BY <1>2, <2>2, <2>3
  <2>. QED BY <2>1, <2>2, <2>4, ContinueStep DEF CreateIocqDone
<1>4. CASE m.status = "ok"
  <2>1. objects' = [objects EXCEPT ![c] = @ \union {m.nsid}]
    BY <1>1, <1>4 DEF CreateIocqDone
  <2>2. m.nsid \in devCq[c]
    BY <1>4 DEF IInv, Chain, Reached, CreateIocqDone
  <2>. QED BY <1>4, <2>1, <2>2, StayStep DEF CreateIocqDone
<1>. QED BY <1>3, <1>4

(* The submission queue of a namespace has been created, or not: the next  *)
(* namespace is asked about, and this one is a disk or given up (ns.cc:65). *)
LEMMA CreateIosqStep ==
  ASSUME IInv, NEW c \in Ctls, NEW m \in admin[c], CreateIosqDone(c, m)
  PROVE  IInv'
<1> USE DEF IInv, loopVars, deviceVars
<1> DEFINE n == m.nsid
           more == n + 1 <= nn[c]
           last == IF more THEN 0 ELSE 1
           next == Pending("identify_namespace", n + 1)
           commands == IF more THEN {next} ELSE {}
<1>1. /\ TypeOK /\ Counted /\ Chain(c) /\ MaxNn \in Nat
      /\ admin[c] = {m} /\ m.op = "create_iosq" /\ m.status # "pending"
      /\ Lost(c) = {} /\ Lost(c)' = {}
  BY NnAssumption DEF Chain, OneCommand, CreateIosqDone, Callback, Queues, Lost
<1>2. /\ n \in Nsid /\ n \in 1 .. MaxNn /\ n <= nn[c] /\ nn[c] \in 0 .. MaxNn
      /\ nss[c] \subseteq 1 .. n - 1 /\ 1 .. n - 1 \subseteq asked[c]
      /\ n \in asked[c] /\ n \in objects[c] /\ n \in devCq[c]
  BY <1>1 DEF TypeOK, Chain, Reached, Nsid
<1>3. n \notin nss[c] /\ 1 .. n \subseteq asked[c]
  BY <1>2
<1>4. (n + 1) % NsidEnd = n + 1 /\ LastDrop(c, m) = last
  BY <1>1, <1>2, SmallNsid DEF LastDrop
<1>5. /\ next \in Command /\ next.op = "identify_namespace"
      /\ next.nsid = n + 1 /\ next.status = "pending"
  BY <1>1, <1>2, PendingType DEF Operations
<1>6. Issue(c, m, commands)
  BY <1>4 DEF CreateIosqDone, MoreNamespaces, NextIdentify
<1>7. /\ c \notin unscanned /\ c \notin thrown /\ admin'[c] = commands
      /\ admin' \in [Ctls -> SUBSET Command]
      /\ \A d \in Ctls \ {c} : admin'[d] = admin[d]
  BY <1>1, <1>5, <1>6, Issued
<1>8. UNCHANGED <<unscanned, loop, thrown, lost, nn, asked, devCq, devSq>>
  BY DEF CreateIosqDone
<1>9. c \in Chains /\ Chains' = IF last = 1 THEN Chains \ {c} ELSE Chains
  BY <1>1, <1>7, <1>8, ChainsOf
<1>10. OneCommand(c)' /\ Fresh(c)'
  BY <1>5, <1>7, <1>8 DEF OneCommand, Fresh
<1>11. ~more => AllAsked(c)'
  BY <1>2, <1>3, <1>8 DEF AllAsked
<1>12. ASSUME nss'[c] \subseteq nss[c] \union {n} PROVE \A k \in commands : Reached(c, k)'
  <2> SUFFICES ASSUME more PROVE Reached(c, next)'
    OBVIOUS
  <2>1. next.nsid \in Nsid /\ next.nsid <= nn'[c] /\ next.nsid - 1 = n
    BY <1>1, <1>2, <1>5, <1>8 DEF Nsid
  <2>2. nss'[c] \subseteq 1 .. n /\ 1 .. n \subseteq asked'[c]
    BY <1>2, <1>3, <1>8, <1>12
  <2>. QED BY <1>5, <2>1, <2>2 DEF Reached
<1>13. CASE /\ m.status = "fail" /\ UNCHANGED <<nss, scanning>>
            /\ objects' = [objects EXCEPT ![c] = @ \ {n}]
            /\ Scan(devices_in_scan, last)
  <2>1. Counted' /\ devices_in_scan' \in 0 .. Bits32 - 1 /\ announced' \in Nat
    <3>1. CASE more
      <4>1. UNCHANGED scanVars
        BY <1>1, <1>9, <1>13, <3>1, CountNone
      <4>. QED BY <1>1, <1>8, <1>9, <1>13, <3>1, <4>1, CountKept
    <3>2. CASE ~more
      BY <1>1, <1>8, <1>9, <1>13, <3>2, CountDrop
    <3>. QED BY <3>1, <3>2
  <2>2. /\ objects' \in [Ctls -> SUBSET Nsid] /\ objects'[c] = objects[c] \ {n}
        /\ \A d \in Ctls \ {c} : objects'[d] = objects[d]
    BY <1>1, <1>13 DEF TypeOK
  <2>3. TypeOK'
    BY <1>1, <1>7, <1>8, <1>13, <2>1, <2>2 DEF TypeOK
  <2>4. devSq[c] \subseteq nss[c]
    BY <1>1, <1>7, <1>13 DEF Chain, Queues
  <2>5. devSq'[c] \subseteq devCq'[c] \intersect objects'[c]
    BY <1>1, <1>3, <1>8, <2>2, <2>4 DEF Chain, Queues
  <2>6. Queues(c)'
    BY <1>1, <1>7, <1>8, <1>11, <1>13, <2>4, <2>5 DEF Chain, Queues
  <2>7. Chain(c)'
    BY <1>7, <1>10, <1>12, <1>13, <2>6 DEF Chain
  <2>8. \A d \in Ctls \ {c} : Chain(d)'
    BY <1>7, <1>8, <1>13, <2>2, Frame
  <2>. QED BY <2>1, <2>3, <2>7, <2>8
<1>14. CASE m.status = "ok" /\ BecomeDisk(c, m) /\ objects' = objects
  <2>1. PICK sync \in BOOLEAN :
          /\ scanning' = IF sync THEN scanning ELSE scanning \union {<<c, n>>}
          /\ Scan(devices_in_scan + 1, last + IF sync THEN 1 ELSE 0)
    BY <1>4, <1>14 DEF BecomeDisk
  <2>2. nss' = [nss EXCEPT ![c] = @ \union {n}]
    BY <1>14 DEF BecomeDisk
  <2>3. /\ Counted' /\ devices_in_scan' \in 0 .. Bits32 - 1 /\ announced' \in Nat
        /\ scanning' \subseteq Disks
    <3>1. last \in 0 .. 1 /\ loop' = loop
      BY <1>8
    <3>. HIDE DEF last
    <3>. QED BY <1>1, <1>2, <1>3, <1>8, <1>9, <2>1, <2>2, <3>1, CountDisk
  <2>4. /\ nss' \in [Ctls -> SUBSET Nsid] /\ nss'[c] = nss[c] \union {n}
        /\ \A d \in Ctls \ {c} : nss'[d] = nss[d]
    BY <1>1, <1>2, <2>2 DEF TypeOK
  <2>5. TypeOK'
    BY <1>1, <1>7, <1>8, <1>14, <2>3, <2>4 DEF TypeOK
  <2>6. Queues(c)'
    <3>1. n \in devSq[c]
      BY <1>1, <1>14 DEF Chain, Reached
    <3>2. devSq[c] = nss[c] \union {n}
      BY <1>1, <1>7, <3>1 DEF Chain, Queues
    <3>. QED BY <1>1, <1>2, <1>7, <1>8, <1>11, <1>14, <2>4, <3>2 DEF Chain, Queues
  <2>7. Chain(c)'
    BY <1>7, <1>10, <1>12, <2>4, <2>6 DEF Chain
  <2>8. \A d \in Ctls \ {c} : Chain(d)'
    BY <1>7, <1>8, <1>14, <2>4, Frame
  <2>. QED BY <2>3, <2>5, <2>7, <2>8
<1>. QED BY <1>4, <1>13, <1>14 DEF CreateIosqDone

(* A callback throws before it has issued a command: its chain stays a     *)
(* reference that nobody drops.                                            *)
LEMMA ThrowsAtOnceStep ==
  ASSUME IInv, NEW c \in Ctls, NEW m \in admin[c], CallbackThrows(c, m),
         ThrowsAtOnce(c, m)
  PROVE  IInv'
<1> USE DEF IInv, loopVars, deviceVars
<1>1. /\ TypeOK /\ Counted /\ Chain(c) /\ m.status # "pending"
      /\ UNCHANGED <<unscanned, loop, scanVars, nss, scanning, lost>>
      /\ UNCHANGED <<nn, asked, devCq, devSq>>
      /\ thrown' = thrown \union {c}
  BY DEF CallbackThrows, Callback, ThrowsAtOnce
<1>2. /\ admin[c] = {m} /\ c \notin unscanned /\ admin'[c] = {}
      /\ admin' \in [Ctls -> SUBSET Command]
      /\ \A d \in Ctls \ {c} : admin'[d] = admin[d]
  BY <1>1, Issued DEF ThrowsAtOnce
<1>3. /\ objects' \in [Ctls -> SUBSET Nsid] /\ objects[c] \subseteq objects'[c]
      /\ \A d \in Ctls \ {c} : objects'[d] = objects[d]
  <2>1. objects \in [Ctls -> SUBSET Nsid]
    BY <1>1 DEF TypeOK
  <2>2. CASE objects' = objects
    BY <2>1, <2>2
  <2>3. CASE /\ m.op = "identify_namespace"
             /\ objects' = [objects EXCEPT ![c] = @ \union {m.nsid}]
    <3>1. m.nsid \in Nsid
      BY <1>1, <2>3 DEF Chain, Reached
    <3>. QED BY <2>1, <2>3, <3>1
  <2>. QED BY <2>2, <2>3 DEF ThrowsAtOnce
<1>4. Chains' = Chains
  BY <1>1, <1>2 DEF Chains
<1>5. Counted' /\ devices_in_scan' \in 0 .. Bits32 - 1 /\ announced' \in Nat
  BY <1>1, <1>4, CountKept
<1>6. TypeOK'
  BY <1>1, <1>2, <1>3, <1>5 DEF TypeOK
<1>7. Chain(c)'
  BY <1>1, <1>2, <1>3 DEF Chain, OneCommand, Fresh, Queues, Lost
<1>8. \A d \in Ctls \ {c} : Chain(d)'
  BY <1>1, <1>2, <1>3, Frame
<1>. QED BY <1>5, <1>6, <1>7, <1>8

(* ns_cb() throws: the namespace is lost, with its reference (main.cc:522). *)
LEMMA ThrowsAtDiskStep ==
  ASSUME IInv, NEW c \in Ctls, NEW m \in admin[c], CallbackThrows(c, m),
         ThrowsAtDisk(c, m)
  PROVE  IInv'
<1> USE DEF IInv, loopVars, deviceVars
<1> DEFINE n == m.nsid
           more == n + 1 <= nn[c]
           next == Pending("identify_namespace", n + 1)
           commands == IF more THEN {next} ELSE {}
<1>1. /\ TypeOK /\ Counted /\ Chain(c) /\ MaxNn \in Nat
      /\ m.op = "create_iosq" /\ m.status # "pending"
      /\ admin[c] = {m} /\ c \notin thrown /\ Lost(c) = {}
  BY NnAssumption DEF Chain, OneCommand, Queues, CallbackThrows, Callback, ThrowsAtDisk
<1>2. /\ n \in Nsid /\ n \in 1 .. MaxNn /\ n <= nn[c] /\ nn[c] \in 0 .. MaxNn
      /\ nss[c] \subseteq 1 .. n - 1 /\ 1 .. n - 1 \subseteq asked[c] /\ n \in asked[c]
  BY <1>1 DEF TypeOK, Chain, Reached, Nsid
<1>3. n \notin nss[c] /\ nss[c] \subseteq 1 .. n /\ 1 .. n \subseteq asked[c]
  BY <1>2
<1>4. (n + 1) % NsidEnd = n + 1
  BY <1>1, <1>2, SmallNsid
<1>5. /\ next \in Command /\ next.op = "identify_namespace"
      /\ next.nsid = n + 1 /\ next.status = "pending"
  BY <1>1, <1>2, PendingType DEF Operations
<1>6. Issue(c, m, commands)
  BY <1>4 DEF ThrowsAtDisk, MoreNamespaces, NextIdentify
<1>7. /\ c \notin unscanned /\ admin'[c] = commands
      /\ admin' \in [Ctls -> SUBSET Command]
      /\ \A d \in Ctls \ {c} : admin'[d] = admin[d]
  BY <1>1, <1>5, <1>6, Issued
<1>8. /\ UNCHANGED <<unscanned, loop, nss, scanning, nn, asked, devCq, devSq>>
      /\ thrown' = thrown \union {c} /\ lost' = lost \union {<<c, n>>}
      /\ objects' = [objects EXCEPT ![c] = @ \ {n}]
      /\ Scan(devices_in_scan + 1, 0)
  BY DEF CallbackThrows, ThrowsAtDisk
<1>9. c \in Chains /\ Chains' = Chains
  BY <1>1, <1>7, <1>8 DEF Chains
<1>10. /\ Counted' /\ devices_in_scan' \in 0 .. Bits32 - 1 /\ announced' \in Nat
       /\ lost' \subseteq Disks
  <2> HIDE DEF n
  <2>. QED BY <1>1, <1>2, <1>3, <1>8, <1>9, CountLost
<1>11. /\ objects' \in [Ctls -> SUBSET Nsid] /\ objects'[c] = objects[c] \ {n}
       /\ \A d \in Ctls \ {c} : objects'[d] = objects[d]
  BY <1>1, <1>8 DEF TypeOK
<1>12. TypeOK'
  BY <1>1, <1>7, <1>8, <1>10, <1>11 DEF TypeOK
<1>13. OneCommand(c)' /\ Fresh(c)'
  BY <1>5, <1>7, <1>8 DEF OneCommand, Fresh
<1>14. Lost(c)' = {n}
  BY <1>1, <1>2, <1>8 DEF Lost
<1>15. Queues(c)'
  BY <1>1, <1>3, <1>8, <1>11, <1>14 DEF Chain, Queues
<1>16. \A k \in commands : Reached(c, k)'
  <2> SUFFICES ASSUME more PROVE Reached(c, next)'
    OBVIOUS
  <2>1. next.nsid \in Nsid /\ next.nsid <= nn'[c] /\ next.nsid - 1 = n
    BY <1>1, <1>2, <1>5, <1>8 DEF Nsid
  <2>. QED BY <1>3, <1>5, <1>8, <2>1 DEF Reached
<1>17. Chain(c)'
  BY <1>7, <1>13, <1>15, <1>16 DEF Chain
<1>18. \A d \in Ctls \ {c} : Chain(d)'
  BY <1>7, <1>8, <1>11, Frame
<1>. QED BY <1>10, <1>12, <1>17, <1>18

(* A callback throws, wherever it does.                                    *)
LEMMA ThrowsStep ==
  ASSUME IInv, NEW c \in Ctls, NEW m \in admin[c], CallbackThrows(c, m)
  PROVE  IInv'
<1>1. CASE ThrowsAtUnmap(c, m)
  BY <1>1, StayStep DEF CallbackThrows, ThrowsAtUnmap
<1>. QED BY <1>1, ThrowsAtOnceStep, ThrowsAtDiskStep DEF CallbackThrows

(* The device answers the only command of a controller.                    *)
LEMMA Answered ==
  ASSUME IInv, NEW c \in Ctls, NEW m \in admin[c], m.status = "pending",
         c \notin thrown, NEW status \in Statuses, Reply(c, m, status),
         UNCHANGED <<unscanned, loop, scanVars, objects, nss, scanning, thrown, lost>>,
         nn' \in [Ctls -> 0 .. MaxNn], asked' \in [Ctls -> SUBSET (1 .. MaxNn + 1)],
         devCq' \in [Ctls -> SUBSET Nsid], devSq' \in [Ctls -> SUBSET Nsid],
         \A d \in Ctls \ {c} : /\ nn'[d] = nn[d] /\ asked'[d] = asked[d]
                               /\ devCq'[d] = devCq[d] /\ devSq'[d] = devSq[d],
         m.op = "identify" => Untouched(c)' /\ (status # "ok" => nn'[c] = 0),
         Reached(c, [m EXCEPT !.status = status])',
         nss[c] \subseteq devSq'[c], devSq'[c] \subseteq devCq'[c] \intersect objects[c],
         \A n \in devSq'[c] \ nss[c] :
           m.op = "create_iosq" /\ status = "ok" /\ m.nsid = n
  PROVE  IInv'
<1> USE DEF IInv, scanVars
<1> DEFINE reply == [m EXCEPT !.status = status]
<1>1. /\ TypeOK /\ Counted /\ Chain(c) /\ admin[c] = {m}
      /\ c \notin unscanned /\ Lost(c) = {} /\ Lost(c)' = {}
  BY DEF Chain, OneCommand, Queues, Lost
<1>2. /\ reply \in Command /\ reply.op = m.op
      /\ reply.nsid = m.nsid /\ reply.status = status
  BY <1>1 DEF TypeOK, Command
<1>3. /\ admin' \in [Ctls -> SUBSET Command] /\ admin'[c] = {reply}
      /\ \A d \in Ctls \ {c} : admin'[d] = admin[d]
  <2>1. (admin[c] \ {m}) \union {reply} = {reply}
    BY <1>1
  <2>2. admin' = [admin EXCEPT ![c] = (@ \ {m}) \union {reply}]
    BY DEF Reply
  <2>. QED BY <1>1, <1>2, <2>1, <2>2 DEF TypeOK
<1>4. Chains' = Chains
  BY <1>1, <1>3 DEF Chains
<1>5. Counted' /\ devices_in_scan' \in 0 .. Bits32 - 1 /\ announced' \in Nat
  BY <1>1, <1>4, CountKept
<1>6. TypeOK'
  BY <1>1, <1>3, <1>5 DEF TypeOK
<1>7. OneCommand(c)' /\ Fresh(c)'
  BY <1>1, <1>2, <1>3 DEF OneCommand, Fresh
<1>8. Queues(c)'
  BY <1>1, <1>2, <1>3 DEF Queues
<1>9. Chain(c)'
  BY <1>3, <1>7, <1>8 DEF Chain
<1>10. \A d \in Ctls \ {c} : Chain(d)'
  BY <1>3, Frame
<1>. QED BY <1>5, <1>6, <1>9, <1>10

(* What a device executes but cannot complete leaves the chain where it is. *)
LEMMA Unanswered ==
  ASSUME IInv, NEW c \in Ctls, c \in thrown,
         UNCHANGED <<unscanned, loop, scanVars, objects, nss, scanning, thrown, lost>>,
         UNCHANGED <<admin, nn>>, asked' \in [Ctls -> SUBSET (1 .. MaxNn + 1)],
         devCq' \in [Ctls -> SUBSET Nsid], devSq' \in [Ctls -> SUBSET Nsid],
         \A d \in Ctls \ {c} : /\ asked'[d] = asked[d]
                               /\ devCq'[d] = devCq[d] /\ devSq'[d] = devSq[d],
         asked[c] \subseteq asked'[c], devCq[c] \subseteq devCq'[c],
         devSq[c] \subseteq devSq'[c],
         devSq'[c] \subseteq devCq'[c] \intersect (objects[c] \union Lost(c))
  PROVE  IInv'
<1> USE DEF IInv, scanVars
<1>1. TypeOK /\ Counted /\ Chain(c) /\ c \notin unscanned
  BY DEF Chain, OneCommand
<1>2. Chains' = Chains
  BY DEF Chains
<1>3. Counted' /\ devices_in_scan' \in 0 .. Bits32 - 1 /\ announced' \in Nat
  BY <1>1, <1>2, CountKept
<1>4. TypeOK'
  BY <1>1, <1>3 DEF TypeOK
<1>5. OneCommand(c)' /\ Fresh(c)'
  BY <1>1 DEF Chain, OneCommand, Fresh
<1>6. Queues(c)'
  BY <1>1 DEF Chain, Queues, Lost
<1>7. \A m \in admin'[c] : Reached(c, m)'
  <2> SUFFICES ASSUME NEW m \in admin[c] PROVE Reached(c, m)'
    OBVIOUS
  <2>1. Reached(c, m) /\ m.status = "pending"
    BY <1>1 DEF Chain, OneCommand
  <2>. QED BY <2>1 DEF Reached
<1>8. Chain(c)'
  BY <1>5, <1>6, <1>7 DEF Chain
<1>9. \A d \in Ctls \ {c} : Chain(d)'
  BY Frame
<1>. QED BY <1>3, <1>4, <1>8, <1>9

(* A device whose completion queue is full.                                *)
LEMMA StalledStep ==
  ASSUME IInv, NEW c \in Ctls, NEW m \in admin[c], c \in thrown, DevAdmin(c, m)
  PROVE  IInv'
<1>1. /\ MaxNn \in Nat /\ m.op # "identify" /\ Reached(c, m) /\ UNCHANGED admin
      /\ UNCHANGED <<unscanned, loop, scanVars, objects, nss, scanning, thrown, lost>>
  BY NnAssumption DEF IInv, Chain, OneCommand, DevAdmin, DevIdentify, Reply, loopVars,
     DevIdentifyNamespace, DevCreateIocq, DevCreateIosq
<1>2. /\ asked \in [Ctls -> SUBSET (1 .. MaxNn + 1)]
      /\ devCq \in [Ctls -> SUBSET Nsid] /\ devSq \in [Ctls -> SUBSET Nsid]
  BY DEF IInv, TypeOK
<1>3. /\ devSq[c] \subseteq devCq[c] \intersect (objects[c] \union Lost(c))
  BY DEF IInv, Chain, Queues
<1>4. CASE DevIdentifyNamespace(c, m)
  <2>1. m.nsid \in 1 .. MaxNn
    BY <1>1, <1>4 DEF Reached, DevIdentifyNamespace, Nsid
  <2>2. /\ asked' \in [Ctls -> SUBSET (1 .. MaxNn + 1)] /\ asked[c] \subseteq asked'[c]
        /\ \A d \in Ctls \ {c} : asked'[d] = asked[d]
    BY <1>1, <1>2, <1>4, <2>1 DEF DevIdentifyNamespace
  <2>. QED BY <1>1, <1>2, <1>3, <1>4, <2>2, Unanswered DEF DevIdentifyNamespace
<1>5. CASE DevCreateIocq(c, m)
  <2>1. m.nsid \in Nsid
    BY <1>1, <1>5 DEF Reached, DevCreateIocq
  <2>2. /\ devCq' \in [Ctls -> SUBSET Nsid] /\ devCq[c] \subseteq devCq'[c]
        /\ \A d \in Ctls \ {c} : devCq'[d] = devCq[d]
    BY <1>2, <1>5, <2>1 DEF DevCreateIocq
  <2>. QED BY <1>1, <1>2, <1>3, <1>5, <2>2, Unanswered DEF DevCreateIocq
<1>6. CASE DevCreateIosq(c, m)
  <2>1. m.nsid \in Nsid /\ m.nsid \in devCq[c] \intersect objects[c]
    BY <1>1, <1>6 DEF Reached, DevCreateIosq
  <2>2. /\ devSq' \in [Ctls -> SUBSET Nsid]
        /\ devSq'[c] \in {devSq[c], devSq[c] \union {m.nsid}}
        /\ \A d \in Ctls \ {c} : devSq'[d] = devSq[d]
    BY <1>2, <1>6, <2>1 DEF DevCreateIosq
  <2>. QED BY <1>1, <1>2, <1>3, <1>6, <2>1, <2>2, Unanswered DEF DevCreateIosq
<1>. QED BY <1>1, <1>4, <1>5, <1>6 DEF DevAdmin, DevIdentify

(* The device's answer is true: "ok" to the creation of a queue means that *)
(* it is there, and to a namespace that it is one of nn (ctl.cc:367).      *)
LEMMA DeviceStep ==
  ASSUME IInv, NEW c \in Ctls, NEW m \in admin[c], DevAdmin(c, m)
  PROVE  IInv'
<1> SUFFICES ASSUME c \notin thrown PROVE IInv'
  BY StalledStep
<1>1. /\ TypeOK /\ Chain(c) /\ MaxNn \in Nat /\ m \in Command /\ m.status = "pending"
      /\ UNCHANGED <<unscanned, loop, scanVars, objects, nss, scanning, thrown, lost>>
  BY NnAssumption DEF IInv, TypeOK, DevAdmin, loopVars
<1>2. /\ nn \in [Ctls -> 0 .. MaxNn] /\ asked \in [Ctls -> SUBSET (1 .. MaxNn + 1)]
      /\ devCq \in [Ctls -> SUBSET Nsid] /\ devSq \in [Ctls -> SUBSET Nsid]
  BY <1>1 DEF TypeOK
<1>3. /\ Reached(c, m) /\ devSq[c] \subseteq nss[c] /\ nss[c] \subseteq devSq[c]
      /\ devSq[c] \subseteq devCq[c] \intersect objects[c]
  BY <1>1 DEF IInv, Chain, OneCommand, Queues
<1>4. \A status \in Statuses :
        LET reply == [m EXCEPT !.status = status]
        IN  reply.op = m.op /\ reply.nsid = m.nsid /\ reply.status = status
  BY <1>1 DEF Command
<1>5. CASE DevIdentify(c, m)
  <2>1. m.op = "identify" /\ Untouched(c) /\ nn[c] = 0
    BY <1>1, <1>5 DEF Chain, Fresh, DevIdentify
  <2>2. PICK status \in {"ok", "fail"} :
          /\ Reply(c, m, status) /\ nn' \in [Ctls -> 0 .. MaxNn]
          /\ status # "ok" => nn'[c] = 0
          /\ \A d \in Ctls \ {c} : nn'[d] = nn[d]
    BY <1>2, <1>5, <2>1 DEF DevIdentify
  <2>3. UNCHANGED <<asked, devCq, devSq>>
    BY <1>5 DEF DevIdentify
  <2>4. Reached(c, [m EXCEPT !.status = status])'
    BY <1>4, <2>1, <2>2 DEF Reached, Statuses
  <2>5. Untouched(c)'
    BY <1>1, <2>1, <2>3 DEF Untouched
  <2>. QED BY <1>1, <1>2, <1>3, <2>2, <2>3, <2>4, <2>5, Answered DEF Statuses
<1>6. CASE DevIdentifyNamespace(c, m)
  <2>1. m.op = "identify_namespace" /\ m.nsid \in 1 .. MaxNn
    BY <1>3, <1>6 DEF Reached, DevIdentifyNamespace, Nsid
  <2>2. PICK status \in {"ok", "unusable", "fail"} :
          (m.nsid > nn[c] => status = "fail") /\ Reply(c, m, status)
    BY <1>6 DEF DevIdentifyNamespace
  <2>3. UNCHANGED <<nn, devCq, devSq>>
    BY <1>6 DEF DevIdentifyNamespace
  <2>4. /\ asked' \in [Ctls -> SUBSET (1 .. MaxNn + 1)]
        /\ asked'[c] = asked[c] \union {m.nsid}
        /\ \A d \in Ctls \ {c} : asked'[d] = asked[d]
    BY <1>1, <1>2, <1>6, <2>1 DEF DevIdentifyNamespace
  <2>5. nn[c] \in 0 .. MaxNn
    BY <1>2
  <2>6. Reached(c, [m EXCEPT !.status = status])'
    BY <1>1, <1>3, <1>4, <2>1, <2>2, <2>3, <2>4, <2>5 DEF Reached, Statuses
  <2>. QED BY <1>1, <1>2, <1>3, <2>1, <2>2, <2>3, <2>4, <2>6, Answered DEF Statuses
<1>7. CASE DevCreateIocq(c, m)
  <2>1. m.op = "create_iocq" /\ m.nsid \in Nsid
    BY <1>3, <1>7 DEF Reached, DevCreateIocq
  <2>2. PICK status \in {"ok", "fail"} :
          /\ Reply(c, m, status) /\ devCq' \in [Ctls -> SUBSET Nsid]
          /\ devCq[c] \subseteq devCq'[c] /\ (status = "ok" => m.nsid \in devCq'[c])
          /\ \A d \in Ctls \ {c} : devCq'[d] = devCq[d]
    BY <1>2, <1>7, <2>1 DEF DevCreateIocq
  <2>3. UNCHANGED <<nn, asked, devSq>>
    BY <1>7 DEF DevCreateIocq
  <2>4. Reached(c, [m EXCEPT !.status = status])'
    BY <1>1, <1>3, <1>4, <2>1, <2>2, <2>3 DEF Reached, Statuses
  <2>. QED BY <1>1, <1>2, <1>3, <2>1, <2>2, <2>3, <2>4, Answered DEF Statuses
<1>8. CASE DevCreateIosq(c, m)
  <2>1. m.op = "create_iosq" /\ m.nsid \in Nsid /\ m.nsid \in devCq[c] \intersect objects[c]
    BY <1>3, <1>8 DEF Reached, DevCreateIosq
  <2>2. PICK status \in {"ok", "fail"} :
          /\ Reply(c, m, status) /\ devSq' \in [Ctls -> SUBSET Nsid]
          /\ devSq'[c] = IF status = "ok" THEN devSq[c] \union {m.nsid} ELSE devSq[c]
          /\ \A d \in Ctls \ {c} : devSq'[d] = devSq[d]
    BY <1>2, <1>8, <2>1 DEF DevCreateIosq
  <2>3. UNCHANGED <<nn, asked, devCq>>
    BY <1>8 DEF DevCreateIosq
  <2>4. Reached(c, [m EXCEPT !.status = status])'
    BY <1>1, <1>3, <1>4, <2>1, <2>2, <2>3 DEF Reached, Statuses
  <2>5. \A n \in devSq'[c] \ nss[c] : status = "ok" /\ m.nsid = n
    BY <1>3, <2>2
  <2>6. /\ nss[c] \subseteq devSq'[c]
        /\ devSq'[c] \subseteq devCq'[c] \intersect objects[c]
    BY <1>3, <2>1, <2>2, <2>3
  <2>. QED BY <1>1, <1>2, <2>1, <2>2, <2>3, <2>4, <2>5, <2>6, Answered DEF Statuses
<1>. QED BY <1>5, <1>6, <1>7, <1>8 DEF DevAdmin

-----------------------------------------------------------------------------
(* device_discovery() and libblock-device.                                 *)

(* The identification of a controller is a reference (main.cc:513).        *)
LEMMA CountChain ==
  ASSUME TypeOK, Counted, loop = "running", loop' # "finished", NEW c \in Ctls \ Chains,
         Chains' = Chains \union {c}, UNCHANGED <<nss, scanning, lost>>,
         Scan(devices_in_scan + 1, 0)
  PROVE  Counted' /\ devices_in_scan' \in 0 .. Bits32 - 1 /\ announced' \in Nat
<1>1. /\ Chains' \subseteq Ctls /\ PartitionScans \subseteq Disks /\ Bits32 \in Nat
      /\ Chains \subseteq Ctls
  BY NnAssumption DEF Chains, TypeOK, PartitionScans
<1>2. /\ IsFiniteSet(Chains) /\ Cardinality(Chains) \in Nat
      /\ Cardinality(PartitionScans) \in Nat
      /\ 1 + Cardinality(Chains') + Cardinality(PartitionScans) < Bits32
  BY <1>1, Bound
<1>3. Cardinality(Chains') = Cardinality(Chains) + 1
  BY <1>2, FS_AddElement
<1>4. devices_in_scan = 1 + Cardinality(Chains) + Cardinality(PartitionScans)
  BY DEF Counted, RefsCounted, LoopRefs
<1>5. /\ devices_in_scan + 1 \in Nat /\ devices_in_scan + 1 < Bits32
      /\ devices_in_scan + 1 # 0 /\ announced = 0
  BY <1>1, <1>2, <1>3, <1>4 DEF Counted
<1>6. /\ devices_in_scan' = devices_in_scan + 1 - 0
      /\ announced' = IF devices_in_scan' = 0 THEN 1 ELSE 0
  BY <1>5, Drops
<1>7. LoopRefs' = 1 /\ AllDisks' = AllDisks /\ PartitionScans' = PartitionScans
  BY DEF LoopRefs, AllDisks, PartitionScans
<1>8. Counted'
  BY <1>1, <1>2, <1>3, <1>4, <1>5, <1>6, <1>7 DEF Counted, RefsCounted
<1>. QED BY <1>1, <1>5, <1>6, <1>8

(* A controller is come to, and its identification starts or it is passed  *)
(* over.                                                                   *)
LEMMA DiscoverStep ==
  ASSUME IInv, NEW c \in Ctls, Discover(c)
  PROVE  IInv'
<1> USE DEF IInv, loopVars, deviceVars
<1>1. /\ TypeOK /\ Counted /\ Chain(c)
      /\ c \in unscanned /\ unscanned' = unscanned \ {c} /\ loop = "running"
      /\ UNCHANGED <<loop, objects, nss, scanning, thrown, lost, nn, asked, devCq, devSq>>
  BY DEF Discover
<1>2. /\ admin[c] = {} /\ c \notin thrown /\ Untouched(c) /\ nn[c] = 0
      /\ c \notin Chains /\ AllAsked(c) /\ Lost(c) = {} /\ Lost(c)' = {}
  BY <1>1 DEF Chain, OneCommand, Fresh, Queues, Chains, Lost
<1>3. CASE UNCHANGED <<scanVars, admin>>
  <2>1. Chains' = Chains
    BY <1>1, <1>3 DEF Chains
  <2>2. Counted' /\ devices_in_scan' \in 0 .. Bits32 - 1 /\ announced' \in Nat
    BY <1>1, <1>3, <2>1, CountKept
  <2>3. TypeOK'
    BY <1>1, <1>3, <2>2 DEF TypeOK
  <2>4. Chain(c)'
    BY <1>1, <1>2, <1>3 DEF Chain, OneCommand, Fresh, Queues, Untouched, AllAsked
  <2>5. \A d \in Ctls \ {c} : Chain(d)'
    BY <1>1, <1>3, Frame
  <2>. QED BY <2>2, <2>3, <2>4, <2>5
<1>4. CASE /\ Scan(devices_in_scan + 1, 0)
           /\ admin' = [admin EXCEPT ![c] = {Pending("identify", 0)}]
  <2> DEFINE first == Pending("identify", 0)
  <2>1. MaxNn \in Nat /\ 0 \in 0 .. MaxNn + 1
    BY NnAssumption
  <2>2. /\ first \in Command /\ first.op = "identify" /\ first.status = "pending"
    BY <2>1, PendingType DEF Operations
  <2>3. /\ admin' \in [Ctls -> SUBSET Command] /\ admin'[c] = {first}
        /\ \A d \in Ctls \ {c} : admin'[d] = admin[d]
    BY <1>1, <1>4, <2>2 DEF TypeOK
  <2>4. Chains' = Chains \union {c}
    BY <1>1, <1>2, <2>3 DEF Chains
  <2>5. Counted' /\ devices_in_scan' \in 0 .. Bits32 - 1 /\ announced' \in Nat
    BY <1>1, <1>2, <1>4, <2>4, CountChain
  <2>6. TypeOK'
    BY <1>1, <2>3, <2>5 DEF TypeOK
  <2>7. OneCommand(c)' /\ Fresh(c)'
    BY <1>1, <1>2, <2>2, <2>3 DEF OneCommand, Fresh, Untouched
  <2>8. Queues(c)' /\ Reached(c, first)'
    BY <1>1, <1>2, <2>2, <2>3 DEF Queues, Untouched, Reached
  <2>9. Chain(c)'
    BY <2>3, <2>7, <2>8 DEF Chain
  <2>10. \A d \in Ctls \ {c} : Chain(d)'
    BY <1>1, <2>3, Frame
  <2>. QED BY <2>5, <2>6, <2>9, <2>10
<1>. QED BY <1>3, <1>4 DEF Discover

(* An exception ends the program during the loop (main.cc:483, 516).       *)
LEMMA AbortStep ==
  ASSUME IInv, NEW c \in Ctls, DiscoveryAborts(c)
  PROVE  IInv'
<1> USE DEF IInv, deviceVars
<1>1. /\ TypeOK /\ Counted /\ Chain(c)
      /\ c \in unscanned /\ unscanned' = unscanned \ {c}
      /\ loop = "running" /\ loop' = "aborted"
      /\ UNCHANGED <<admin, objects, nss, scanning, lost, nn, asked, devCq, devSq>>
      /\ \/ UNCHANGED <<scanVars, thrown>>
         \/ Scan(devices_in_scan + 1, 0) /\ thrown' = thrown \union {c}
  BY DEF DiscoveryAborts
<1>2. /\ admin[c] = {} /\ c \notin thrown /\ Untouched(c) /\ nn[c] = 0
      /\ c \notin Chains /\ AllAsked(c) /\ Lost(c) = {} /\ Lost(c)' = {}
  BY <1>1 DEF Chain, OneCommand, Fresh, Queues, Chains, Lost
<1>3. Counted' /\ devices_in_scan' \in 0 .. Bits32 - 1 /\ announced' \in Nat
  <2>1. CASE UNCHANGED <<scanVars, thrown>>
    <3>1. /\ LoopRefs' = LoopRefs /\ Chains' = Chains /\ AllDisks' = AllDisks
          /\ PartitionScans' = PartitionScans
      BY <1>1, <2>1 DEF LoopRefs, Chains, AllDisks, PartitionScans
    <3>. QED BY <1>1, <2>1, <3>1 DEF Counted, RefsCounted, TypeOK, scanVars
  <2>2. CASE Scan(devices_in_scan + 1, 0) /\ thrown' = thrown \union {c}
    <3>1. Chains' = Chains \union {c}
      BY <1>1, <2>2 DEF Chains
    <3>. QED BY <1>1, <1>2, <2>2, <3>1, CountChain
  <2>. QED BY <1>1, <2>1, <2>2
<1>4. TypeOK'
  BY <1>1, <1>3 DEF TypeOK
<1>5. Chain(c)'
  BY <1>1, <1>2 DEF Chain, OneCommand, Fresh, Queues, Untouched, AllAsked
<1>6. \A d \in Ctls \ {c} : Chain(d)'
  BY <1>1, Frame
<1>. QED BY <1>3, <1>4, <1>5, <1>6

(* The loop over the bus drops its reference (main.cc:533).                *)
LEMMA LoopStep ==
  ASSUME IInv, LoopFinished
  PROVE  IInv'
<1> USE DEF IInv, deviceVars
<1>1. /\ TypeOK /\ Counted /\ Bits32 \in Nat
      /\ loop = "running" /\ loop' = "finished" /\ Scan(devices_in_scan, 1)
      /\ UNCHANGED <<unscanned, admin, objects, nss, scanning, thrown, lost>>
      /\ UNCHANGED <<nn, asked, devCq, devSq>>
  BY NnAssumption DEF LoopFinished
<1>2. Chains \subseteq Ctls /\ PartitionScans \subseteq Disks
  BY <1>1 DEF Chains, TypeOK, PartitionScans
<1>3. Cardinality(Chains) \in Nat /\ Cardinality(PartitionScans) \in Nat
  BY <1>2, Bound
<1>4. /\ devices_in_scan \in Nat /\ devices_in_scan < Bits32 /\ 1 <= devices_in_scan
      /\ devices_in_scan = 1 + Cardinality(Chains) + Cardinality(PartitionScans)
  BY <1>1, <1>3 DEF Counted, RefsCounted, LoopRefs, TypeOK
<1>5. /\ devices_in_scan' = devices_in_scan - 1
      /\ announced' = IF devices_in_scan' = 0 THEN 1 ELSE 0
  BY <1>1, <1>4, Drops DEF Counted
<1>6. /\ LoopRefs' = 0 /\ Chains' = Chains /\ AllDisks' = AllDisks
      /\ PartitionScans' = PartitionScans
  BY <1>1 DEF LoopRefs, Chains, AllDisks, PartitionScans
<1>7. Counted'
  BY <1>1, <1>3, <1>4, <1>5, <1>6 DEF Counted, RefsCounted
<1>8. devices_in_scan' \in 0 .. Bits32 - 1 /\ announced' \in Nat
  BY <1>1, <1>4, <1>5
<1>9. TypeOK'
  BY <1>1, <1>8 DEF TypeOK
<1>10. \A d \in Ctls : Chain(d)'
  BY <1>1, Frame
<1>. QED BY <1>7, <1>9, <1>10

(* The scan of a disk's partitions drops its reference (main.cc:526).      *)
LEMMA PartitionStep ==
  ASSUME IInv, NEW d \in scanning, PartitionScanDone(d)
  PROVE  IInv'
<1> USE DEF IInv, loopVars, deviceVars
<1>1. /\ TypeOK /\ Counted /\ Bits32 \in Nat
      /\ scanning' = scanning \ {d} /\ Scan(devices_in_scan, 1)
      /\ UNCHANGED <<unscanned, loop, admin, objects, nss, thrown, lost>>
      /\ UNCHANGED <<nn, asked, devCq, devSq>>
  BY NnAssumption DEF PartitionScanDone
<1>2. Chains \subseteq Ctls /\ PartitionScans \subseteq Disks
  BY <1>1 DEF Chains, TypeOK, PartitionScans
<1>3. /\ Cardinality(Chains) \in Nat
      /\ IsFiniteSet(PartitionScans) /\ Cardinality(PartitionScans) \in Nat
  BY <1>2, Bound
<1>4. /\ Cardinality(PartitionScans') = Cardinality(PartitionScans) - 1
      /\ Cardinality(PartitionScans) # 0
  <2>1. d \in PartitionScans /\ PartitionScans' = PartitionScans \ {d}
    BY <1>1 DEF Counted, PartitionScans
  <2>. QED BY <1>3, <2>1, FS_RemoveElement, FS_EmptySet
<1>5. LoopRefs \in Nat /\ LoopRefs' = LoopRefs
  BY <1>1 DEF LoopRefs
<1>6. /\ devices_in_scan \in Nat /\ devices_in_scan < Bits32 /\ 1 <= devices_in_scan
      /\ devices_in_scan = LoopRefs + Cardinality(Chains) + Cardinality(PartitionScans)
  BY <1>1, <1>3, <1>4, <1>5 DEF Counted, RefsCounted, TypeOK
<1>7. /\ devices_in_scan' = devices_in_scan - 1
      /\ announced' = IF devices_in_scan' = 0 THEN 1 ELSE 0
  BY <1>1, <1>6, Drops DEF Counted
<1>8. Chains' = Chains /\ AllDisks' = AllDisks
  BY <1>1 DEF Chains, AllDisks
<1>9. Counted'
  BY <1>1, <1>3, <1>4, <1>5, <1>6, <1>7, <1>8 DEF Counted, RefsCounted
<1>10. devices_in_scan' \in 0 .. Bits32 - 1 /\ announced' \in Nat
  BY <1>1, <1>6, <1>7
<1>11. TypeOK'
  BY <1>1, <1>10 DEF TypeOK
<1>12. \A c \in Ctls : Chain(c)'
  BY <1>1, Frame
<1>. QED BY <1>9, <1>11, <1>12

-----------------------------------------------------------------------------
(* The theorems.                                                           *)

(* The loop's reference is there before any device is looked at.           *)
LEMMA InvInit == Init => IInv
<1> SUFFICES ASSUME Init PROVE IInv
  OBVIOUS
<1> USE DEF Init
<1>1. MaxNn \in Nat /\ Bits32 \in Nat /\ 1 < Bits32
  <2>1. Cardinality(Ctls) \in Nat
    BY CtlsAssumption, FS_CardinalityType
  <2>. QED BY <2>1, NnAssumption
<1>2. TypeOK
  BY <1>1 DEF TypeOK
<1>3. Chains = {} /\ PartitionScans = {} /\ LoopRefs = 1
  BY DEF Chains, LoopRefs, PartitionScans
<1>4. Counted
  BY <1>3, FS_EmptySet DEF Counted, RefsCounted
<1>5. \A c \in Ctls : Chain(c)
  BY <1>1 DEF Chain, OneCommand, Fresh, Untouched, Queues, AllAsked, Lost
<1>. QED BY <1>2, <1>4, <1>5 DEF IInv

(* Every step of the scan keeps it.                                        *)
LEMMA InvStep == IInv /\ [Next]_vars => IInv'
<1> SUFFICES ASSUME IInv, [Next]_vars PROVE IInv'
  OBVIOUS
<1>1. CASE UNCHANGED vars
  <2>1. \A c \in Ctls : Chain(c)'
    BY <1>1, Frame DEF IInv, vars, loopVars, deviceVars
  <2>. QED BY <1>1, <2>1 DEF IInv, TypeOK, Counted, RefsCounted, LoopRefs, Chains,
                             PartitionScans, AllDisks, vars, loopVars, scanVars, deviceVars
<1>2. ASSUME NEW c \in Ctls, NEW m \in admin[c], HandleAdmin(c, m) PROVE IInv'
  BY <1>2, IdentifyStep, IdentifyNamespaceStep, CreateIocqStep, CreateIosqStep,
     ThrowsStep DEF HandleAdmin
<1>. QED BY <1>1, <1>2, DiscoverStep, AbortStep, LoopStep, DeviceStep, PartitionStep DEF Next

(* The invariant holds throughout the scan.                                *)
LEMMA Invariant == Spec => []IInv
BY InvInit, InvStep, PTL DEF Spec

(* The types of all of the scan's state: the counter never wraps, and no   *)
(* namespace is asked about but those reported, and the first.             *)
THEOREM TypeCorrect == Spec => []TypeOK
<1>1. IInv => TypeOK
  BY DEF IInv
<1>. QED BY <1>1, Invariant, PTL

(* The two-entry admin queue always has room, for any number of namespaces *)
(* (ctl.cc:355).                                                           *)
THEOREM RoomCorrect == Spec => []AdminRoom
<1>1. ASSUME IInv, NEW c \in Ctls PROVE Cardinality(admin[c]) <= 1
  <2>1. CASE admin[c] = {}
    BY <2>1, FS_EmptySet
  <2>2. CASE admin[c] # {}
    <3>1. PICK m \in admin[c] : admin[c] = {m}
      BY <1>1, <2>2 DEF IInv, Chain, OneCommand
    <3>2. Cardinality({m}) = 1
      BY FS_Singleton
    <3>. QED BY <3>1, <3>2
  <2>. QED BY <2>1, <2>2
<1>2. IInv => AdminRoom
  BY <1>1 DEF AdminRoom
<1>. QED BY <1>2, Invariant, PTL

(* The references to the scan are counted exactly (main.cc:428).           *)
THEOREM CountCorrect == Spec => []RefsCounted
<1>1. IInv => RefsCounted
  BY DEF IInv, Counted
<1>. QED BY <1>1, Invariant, PTL

(* No callback and no disk refers to a namespace that is gone (ns.cc:58).  *)
THEOREM DanglingCorrect == Spec => []NothingDangles
<1>1. ASSUME IInv, NEW c \in Ctls, NEW m \in admin[c],
             m.op \in {"create_iocq", "create_iosq"}
      PROVE  m.nsid \in objects[c] \ nss[c]
  <2>1. /\ m.nsid \in objects[c] /\ m.nsid \in 1 .. MaxNn /\ MaxNn \in Nat
        /\ nss[c] \subseteq 1 .. m.nsid - 1
    BY <1>1, NnAssumption DEF IInv, Chain, Reached, Nsid
  <2>. QED BY <2>1
<1>2. IInv => NothingDangles
  BY <1>1 DEF NothingDangles, IInv, Chain, Queues
<1>. QED BY <1>2, Invariant, PTL

(* Once the end has been announced nothing is under way any more.          *)
LEMMA AllOver ==
  IInv /\ announced # 0 =>
    /\ announced = 1 /\ loop = "finished" /\ Chains = {} /\ PartitionScans = {}
    /\ scanning = {}
<1> SUFFICES ASSUME IInv, announced # 0
             PROVE  /\ announced = 1 /\ loop = "finished" /\ Chains = {}
                    /\ PartitionScans = {} /\ scanning = {}
  OBVIOUS
<1>1. Chains \subseteq Ctls /\ PartitionScans \subseteq Disks
  BY DEF IInv, TypeOK, Chains, PartitionScans
<1>2. /\ IsFiniteSet(Chains) /\ Cardinality(Chains) \in Nat
      /\ IsFiniteSet(PartitionScans) /\ Cardinality(PartitionScans) \in Nat
  BY <1>1, Bound
<1>3. /\ announced = 1 /\ devices_in_scan = 0 /\ LoopRefs \in Nat
      /\ LoopRefs + Cardinality(Chains) + Cardinality(PartitionScans) = 0
  BY DEF IInv, Counted, RefsCounted, LoopRefs
<1>4. LoopRefs = 0 /\ Cardinality(Chains) = 0 /\ Cardinality(PartitionScans) = 0
  BY <1>2, <1>3
<1>5. Chains = {} /\ PartitionScans = {} /\ scanning = {}
  BY <1>2, <1>4, FS_EmptySet DEF PartitionScans
<1>6. loop = "finished"
  BY <1>4 DEF IInv, TypeOK, LoopRefs
<1>. QED BY <1>3, <1>5, <1>6

(* The service is opened once, and when all is there (main.cc:431).        *)
THEOREM ServedCorrect == Spec => []ServedWhenComplete
<1>1. IInv => announced <= 1
  BY DEF IInv, Counted
<1>2. ASSUME IInv, announced = 1, NEW c \in Ctls PROVE AllAsked(c) /\ devSq[c] = nss[c]
  <2>1. Chains = {}
    BY <1>2, AllOver
  <2>2. admin[c] = {} /\ c \notin thrown
    BY <2>1 DEF Chains
  <2>3. Queues(c)
    BY <1>2 DEF IInv, Chain
  <2>4. AllAsked(c)
    BY <2>2, <2>3 DEF Queues
  <2>5. nss[c] \subseteq devSq[c] /\ devSq[c] \ nss[c] = {}
    BY <2>2, <2>3 DEF Queues
  <2>. QED BY <2>4, <2>5
<1>3. IInv => ServedWhenComplete
  BY <1>1, <1>2, AllOver DEF ServedWhenComplete
<1>. QED BY <1>3, Invariant, PTL

-----------------------------------------------------------------------------
(* DeviceScan.                                                             *)

(* No disk is lost, and the partitions of a disk are read once.            *)
LEMMA Grows ==
  ASSUME IInv, Next
  PROVE  AllDisks \subseteq AllDisks' /\ scanning' \intersect AllDisks \subseteq scanning
<1>1. CASE UNCHANGED nss /\ scanning' \subseteq scanning
  BY <1>1 DEF AllDisks
<1>2. ASSUME NEW c \in Ctls, NEW m \in admin[c], HandleAdmin(c, m)
      PROVE  AllDisks \subseteq AllDisks' /\ scanning' \intersect AllDisks \subseteq scanning
  <2>1. CASE CreateIosqDone(c, m) /\ m.status = "ok"
    <3>1. BecomeDisk(c, m) /\ m.op = "create_iosq"
      BY <2>1 DEF CreateIosqDone
    <3>2. scanning' \subseteq scanning \union {<<c, m.nsid>>}
      BY <3>1 DEF BecomeDisk
    <3>3. \A d \in Ctls : nss[d] \subseteq nss'[d]
      BY <3>1 DEF BecomeDisk, IInv, TypeOK
    <3>4. m.nsid \in 1 .. MaxNn /\ MaxNn \in Nat /\ nss[c] \subseteq 1 .. m.nsid - 1
      BY <3>1, NnAssumption DEF IInv, Chain, Reached, Nsid
    <3>5. m.nsid \notin nss[c]
      BY <3>4
    <3>6. AllDisks \subseteq AllDisks'
      BY <3>3 DEF AllDisks, Disks
    <3>7. <<c, m.nsid>> \notin AllDisks
      BY <3>5 DEF AllDisks
    <3>. QED BY <3>2, <3>6, <3>7
  <2>2. CASE ~(CreateIosqDone(c, m) /\ m.status = "ok")
    BY <1>1, <1>2, <2>2 DEF HandleAdmin, IdentifyDone, IdentifyNamespaceDone,
       CreateIocqDone, CreateIosqDone, CallbackThrows
  <2>. QED BY <2>1, <2>2
<1>. QED BY <1>1, <1>2 DEF Next, Discover, DiscoveryAborts, LoopFinished, DevAdmin,
         PartitionScanDone

(* What is announced is final: nothing happens any more.                   *)
LEMMA Final ==
  ASSUME IInv, announced # 0, Next
  PROVE  FALSE
<1>1. loop = "finished" /\ Chains = {} /\ scanning = {}
  BY AllOver
<1>2. \A c \in Ctls : admin[c] = {}
  BY <1>1 DEF Chains
<1>. QED BY <1>1, <1>2 DEF Next, Discover, DiscoveryAborts, LoopFinished

(* Before that, a step explores; the end comes with the last partitions.   *)
LEMMA Explores ==
  ASSUME IInv, (announced # 0 => announced = 1 /\ scanning = {})', announced = 0, Next
  PROVE  Promise!Explore
<1> DEFINE complete == AllDisks \ scanning = AllDisks
<1>1. /\ AllDisks \subseteq AllDisks' /\ AllDisks' \subseteq Disks
      /\ scanning' \intersect AllDisks \subseteq scanning
  BY Grows DEF AllDisks
<1>2. AllDisks \ scanning \subseteq AllDisks' \ scanning'
  BY <1>1
<1>3. ~(announced > 0) /\ ((announced > 0)' => complete')
  OBVIOUS
<1>4. (announced > 0)' \in BOOLEAN /\ complete' \in BOOLEAN
  OBVIOUS
<1>5. (announced > 0)' \in {FALSE, complete'}
  BY <1>3, <1>4, Zenon
<1>. QED BY <1>1, <1>2, <1>3, <1>5, Zenon DEF Promise!Explore

(* The scan keeps DeviceScan's promise: the service appears once, with all *)
(* the disks and partitions there will ever be (main.cc:431).              *)
THEOREM PromiseCorrect == Spec => ImplementsDeviceScan
<1>1. Init => Promise!Init
  <2> SUFFICES ASSUME Init PROVE Promise!Init
    OBVIOUS
  <2>1. AllDisks = {}
    BY DEF Init, AllDisks, Disks
  <2>. QED BY <2>1 DEF Init, Promise!Init
<1>2. IInv => (announced # 0 => announced = 1 /\ scanning = {})
  BY AllOver
<1>3. ASSUME IInv, (announced # 0 => announced = 1 /\ scanning = {})', [Next]_vars
      PROVE  [Promise!Explore]_Promise!vars
  <2>1. CASE UNCHANGED vars
    BY <2>1 DEF vars, scanVars, AllDisks, Promise!vars
  <2>2. CASE Next
    BY <1>3, <2>2, Final, Explores
  <2>. QED BY <1>3, <2>1, <2>2
<1>. QED BY <1>1, <1>2, <1>3, Invariant, PTL DEF Spec, ImplementsDeviceScan, Promise!Spec

=============================================================================
