------------------------------ MODULE Discovery ------------------------------
(***************************************************************************)
(* The scan for devices: device_discovery() in main.cc walks over the      *)
(* controllers, and for each of them starts a chain of commands on its     *)
(* admin queue.  The callback of a command issues the next one:            *)
(*                                                                         *)
(*    Identify Controller, then for every namespace                        *)
(*    Identify Namespace, Create I/O CQ, Create I/O SQ                     *)
(*                                                                         *)
(* (Ctl::identify, Ctl::identify_namespace, Namespace::async_loop_init).   *)
(* The chains of several controllers and the scans for partitions of the   *)
(* disks already found run interleaved.  One counter, devices_in_scan,     *)
(* tells when all of it is over and the service can be opened.             *)
(*                                                                         *)
(* The rings of the admin queue are those of QueuePair with Size = 2.      *)
(***************************************************************************)
EXTENDS Integers, FiniteSets

CONSTANTS
  Ctls,    \* the NVMe controllers on the virtual bus
  MaxNn,   \* bound: the largest number of namespaces a controller reports (NN)
  NsidEnd, \* one more than the largest NSID there is room for in an l4_uint32_t
  Bits32,  \* one more than the largest `unsigned'
  Dstrd    \* the controllers' doorbell stride, CAP.DSTRD

ASSUME CtlsAssumption == IsFiniteSet(Ctls)
\* No namespace has the broadcast identifier 2^32 - 1, the last there is room for,
\* and there are not as many as to overflow the counter.
ASSUME NnAssumption ==
  /\ MaxNn \in Nat /\ MaxNn > 0 /\ NsidEnd \in Nat /\ Bits32 \in Nat
  /\ MaxNn < NsidEnd - 1
  /\ 1 + Cardinality(Ctls) * (MaxNn + 1) < Bits32

ASSUME DstrdAssumption == Dstrd \in 0 .. 15

VARIABLES
  unscanned,        \* controllers device_discovery() has not come to
  loop,             \* device_discovery(): "running", "finished" or "aborted"
  devices_in_scan,  \* references to the scan (an unsigned int)
  announced,        \* how often the end of the scan has been announced
  admin,            \* per controller, the admin commands without a callback yet
  nn,               \* per controller, what it reported as NN
  objects,          \* per controller, the Namespace objects that exist
  nss,              \* per controller, those in _nss: the disks
  scanning,         \* disks whose partition tables are being read
  thrown,           \* controllers whose chain an exception has stopped
  lost,             \* disks to be that an exception in ns_cb() has deleted
  asked,            \* per controller, the namespaces it was asked about
  devCq, devSq      \* per controller, the I/O queues it has created

loopVars == <<unscanned, loop>>
scanVars == <<devices_in_scan, announced>>
deviceVars == <<nn, asked, devCq, devSq>>

vars ==
  <<loopVars, scanVars, admin, objects, nss, scanning, thrown, lost, deviceVars>>

Nsid  == 1 .. MaxNn
Disks == Ctls \X Nsid

Operations == {"identify", "identify_namespace", "create_iocq", "create_iosq"}
Statuses   == {"pending", "ok", "unusable", "fail"}

\* A command with its namespace (0: none) and what the device said to it;
\* "unusable" is a namespace that is not active or not supported.
Command == [op : Operations, nsid : 0 .. MaxNn + 1, status : Statuses]

Pending(op, n) == [op |-> op, nsid |-> n, status |-> "pending"]

TypeOK ==
  /\ unscanned \subseteq Ctls
  /\ loop \in {"running", "finished", "aborted"}
  /\ devices_in_scan \in 0 .. Bits32 - 1
  /\ announced \in Nat
  /\ admin \in [Ctls -> SUBSET Command]
  /\ nn \in [Ctls -> 0 .. MaxNn]
  /\ objects \in [Ctls -> SUBSET Nsid] /\ nss \in [Ctls -> SUBSET Nsid]
  /\ scanning \subseteq Disks
  /\ thrown \subseteq Ctls /\ lost \subseteq Disks
  /\ asked \in [Ctls -> SUBSET (1 .. MaxNn + 1)]
  /\ devCq \in [Ctls -> SUBSET Nsid] /\ devSq \in [Ctls -> SUBSET Nsid]

\* device_discovery() holds a reference of its own while its loop runs.
Init ==
  /\ unscanned = Ctls /\ loop = "running"
  /\ devices_in_scan = 1 /\ announced = 0
  /\ admin = [c \in Ctls |-> {}]
  /\ nn = [c \in Ctls |-> 0]
  /\ objects = [c \in Ctls |-> {}] /\ nss = [c \in Ctls |-> {}]
  /\ scanning = {} /\ thrown = {} /\ lost = {}
  /\ asked = [c \in Ctls |-> {}]
  /\ devCq = [c \in Ctls |-> {}] /\ devSq = [c \in Ctls |-> {}]

\* `refs' references less `drops' calls of device_scan_finished(): each drops one
\* and announces the end when none is left.
Scan(refs, drops) ==
  /\ devices_in_scan' = (refs - drops) % Bits32
  /\ announced' =
       announced + Cardinality({i \in 1 .. drops : (refs - i) % Bits32 = 0})

-----------------------------------------------------------------------------
(* The registers (queue.h)                                                 *)

\* Bytes of the register window: Iomem rounds what Ctl asks for up to a page.
WindowSize == 2 * 4096

\* The doorbells of the queues with identifier y
Tdbl(y) == 4096 + 2 * y * 4 * 2 ^ Dstrd
Hdbl(y) == 4096 + (2 * y + 1) * 4 * 2 ^ Dstrd

-----------------------------------------------------------------------------
(* device_discovery()                                                      *)

\* Mutant: no reference is taken for the identification.
MutantDiscover(c) ==
  /\ loop = "running" /\ c \in unscanned
  /\ unscanned' = unscanned \ {c}
  /\ \/ UNCHANGED admin
     \/ admin' = [admin EXCEPT ![c] = {Pending("identify", 0)}]
  /\ UNCHANGED <<loop, scanVars, objects, nss, scanning, thrown, lost, deviceVars>>

\* A controller is constructed and its interrupt registered, or this throws and
\* the loop goes on; then its identification starts with a reference of its own.
Discover(c) ==
  /\ loop = "running" /\ c \in unscanned
  /\ unscanned' = unscanned \ {c}
  /\ \/ UNCHANGED <<scanVars, admin>>
     \/ /\ Scan(devices_in_scan + 1, 0)
        /\ admin' = [admin EXCEPT ![c] = {Pending("identify", 0)}]
  /\ UNCHANGED <<loop, objects, nss, scanning, thrown, lost, deviceVars>>

\* get_resource() or identify() throws outside of the `try': the exception leaves
\* main() and the program ends.
DiscoveryAborts(c) ==
  /\ loop = "running" /\ c \in unscanned
  /\ loop' = "aborted"
  /\ unscanned' = unscanned \ {c}
  /\ \/ UNCHANGED <<scanVars, thrown>>
     \/ Scan(devices_in_scan + 1, 0) /\ thrown' = thrown \union {c}
  /\ UNCHANGED <<admin, objects, nss, scanning, lost, deviceVars>>

\* The loop's reference is dropped; main() enters the server loop.
LoopFinished ==
  /\ loop = "running" /\ unscanned = {}
  /\ loop' = "finished"
  /\ Scan(devices_in_scan, 1)
  /\ UNCHANGED <<unscanned, admin, objects, nss, scanning, thrown, lost, deviceVars>>

-----------------------------------------------------------------------------
(* The admin commands' callbacks, run by Ctl::handle_irq.                  *)

\* The server loop runs the callback of m, which has been completed.
Callback(c, m) ==
  /\ loop = "finished"
  /\ m \in admin[c]
  /\ m.status # "pending"

\* The chain's next commands, m being over.
Issue(c, m, commands) ==
  admin' = [admin EXCEPT ![c] = (@ \ {m}) \union commands]

\* Mutant: one namespace too many.
MutantMoreNamespaces(c, n) == n <= nn[c] + 1

\* n + 1 <= nn, in 32 bits
MoreNamespaces(c, n) == (n + 1) % NsidEnd <= nn[c]

NextIdentify(n) == Pending("identify_namespace", (n + 1) % NsidEnd)

\* Mutant: a chain that ends with a failure forgets to say so.
MutantContinue(c, m) ==
  /\ IF MoreNamespaces(c, m.nsid)
       THEN Issue(c, m, {NextIdentify(m.nsid)})
       ELSE Issue(c, m, {})
  /\ UNCHANGED scanVars

\* On to the next namespace, or done_cb().
Continue(c, m) ==
  IF MoreNamespaces(c, m.nsid)
    THEN Issue(c, m, {NextIdentify(m.nsid)}) /\ UNCHANGED scanVars
    ELSE Issue(c, m, {}) /\ Scan(devices_in_scan, 1)

IdentifyDone(c, m) ==
  /\ Callback(c, m) /\ m.op = "identify"
  /\ \/ /\ m.status = "fail"
        /\ Issue(c, m, {})
        /\ Scan(devices_in_scan, 1)
     \/ /\ m.status = "ok"
        /\ Issue(c, m, {Pending("identify_namespace", 1)})
        /\ UNCHANGED scanVars
  /\ UNCHANGED <<loopVars, objects, nss, scanning, thrown, lost, deviceVars>>

\* Mutant: a loop over the namespaces that does not wait for the callbacks.
MutantIdentifyNamespaceDone(c, m) ==
  /\ Callback(c, m) /\ m.op = "identify_namespace"
  /\ \/ /\ m.status \in {"fail", "unusable"}
        /\ Continue(c, m)
        /\ UNCHANGED objects
     \/ /\ m.status = "ok"
        /\ objects' = [objects EXCEPT ![c] = @ \union {m.nsid}]
        /\ Issue(c, m, {Pending("create_iocq", m.nsid)} \union
                         IF MoreNamespaces(c, m.nsid)
                           THEN {NextIdentify(m.nsid)} ELSE {})
        /\ UNCHANGED scanVars
  /\ UNCHANGED <<loopVars, nss, scanning, thrown, lost, deviceVars>>

\* A usable namespace gets an object that looks after itself from here on.
IdentifyNamespaceDone(c, m) ==
  /\ Callback(c, m) /\ m.op = "identify_namespace"
  /\ \/ /\ m.status \in {"fail", "unusable"}
        /\ Continue(c, m)
        /\ UNCHANGED objects
     \/ /\ m.status = "ok"
        /\ objects' = [objects EXCEPT ![c] = @ \union {m.nsid}]
        /\ Issue(c, m, {Pending("create_iocq", m.nsid)})
        /\ UNCHANGED scanVars
  /\ UNCHANGED <<loopVars, nss, scanning, thrown, lost, deviceVars>>

\* Mutant: after a failure the SQ is created nevertheless.
MutantCreateIocqDone(c, m) ==
  /\ Callback(c, m) /\ m.op = "create_iocq"
  /\ Issue(c, m, {Pending("create_iosq", m.nsid)})
  /\ objects' = IF m.status = "fail"
                  THEN [objects EXCEPT ![c] = @ \ {m.nsid}] ELSE objects
  /\ UNCHANGED <<scanVars, loopVars, nss, scanning, thrown, lost, deviceVars>>

CreateIocqDone(c, m) ==
  /\ Callback(c, m) /\ m.op = "create_iocq"
  /\ \/ /\ m.status = "fail"
        /\ Continue(c, m)
        /\ objects' = [objects EXCEPT ![c] = @ \ {m.nsid}]
     \/ /\ m.status = "ok"
        /\ Issue(c, m, {Pending("create_iosq", m.nsid)})
        /\ UNCHANGED <<scanVars, objects>>
  /\ UNCHANGED <<loopVars, nss, scanning, thrown, lost, deviceVars>>

\* done_cb() after the last namespace
LastDrop(c, m) == IF m.nsid = nn[c] THEN 1 ELSE 0

\* Mutant: no reference is taken for the scan of the partitions.
MutantBecomeDisk(c, m) ==
  /\ nss' = [nss EXCEPT ![c] = @ \union {m.nsid}]
  /\ scanning' = scanning \union {<<c, m.nsid>>}
  /\ Scan(devices_in_scan, LastDrop(c, m))

\* The namespace becomes a disk: ns_cb() takes a reference for the scan of its
\* partitions, which may fail at once (sync) or call back later.
BecomeDisk(c, m) ==
  /\ nss' = [nss EXCEPT ![c] = @ \union {m.nsid}]
  /\ \E sync \in BOOLEAN :
       /\ scanning' = IF sync THEN scanning ELSE scanning \union {<<c, m.nsid>>}
       /\ Scan(devices_in_scan + 1, LastDrop(c, m) + IF sync THEN 1 ELSE 0)

\* The next namespace is asked about first, then this one becomes a disk or is
\* given up.
CreateIosqDone(c, m) ==
  /\ Callback(c, m) /\ m.op = "create_iosq"
  /\ Issue(c, m, IF MoreNamespaces(c, m.nsid) THEN {NextIdentify(m.nsid)} ELSE {})
  /\ \/ /\ m.status = "fail"
        /\ objects' = [objects EXCEPT ![c] = @ \ {m.nsid}]
        /\ Scan(devices_in_scan, LastDrop(c, m))
        /\ UNCHANGED <<nss, scanning>>
     \/ /\ m.status = "ok"
        /\ BecomeDisk(c, m)
        /\ UNCHANGED objects
  /\ UNCHANGED <<loopVars, thrown, lost, deviceVars>>

\* The callback throws where it allocates the next buffer or queue or gives back a
\* buffer (chkcap(), chksys()), before the next command is issued.
ThrowsAtOnce(c, m) ==
  /\ \/ m.status = "ok" /\ m.op # "create_iosq"
     \/ m.status = "unusable"
     \/ m.op # "identify" /\ MoreNamespaces(c, m.nsid)
  /\ Issue(c, m, {})
  /\ objects' \in
       {objects} \union
       IF m.op = "identify_namespace" /\ m.status = "ok"
         THEN {[objects EXCEPT ![c] = @ \union {m.nsid}]} ELSE {}
  /\ UNCHANGED <<scanVars, lost>>

\* in->unmap() throws when the creation of the queues has begun.
ThrowsAtUnmap(c, m) ==
  /\ m.op = "identify_namespace" /\ m.status = "ok"
  /\ Issue(c, m, {Pending("create_iocq", m.nsid)})
  /\ objects' = [objects EXCEPT ![c] = @ \union {m.nsid}]
  /\ UNCHANGED <<scanVars, lost>>

\* ns_cb() throws in add_disk(): the namespace, which ns_cb() owns, is deleted, the
\* reference for its partitions stays, and done_cb() is not called.
ThrowsAtDisk(c, m) ==
  /\ m.op = "create_iosq" /\ m.status = "ok"
  /\ Issue(c, m, IF MoreNamespaces(c, m.nsid) THEN {NextIdentify(m.nsid)} ELSE {})
  /\ objects' = [objects EXCEPT ![c] = @ \ {m.nsid}]
  /\ lost' = lost \union {<<c, m.nsid>>}
  /\ Scan(devices_in_scan + 1, 0)

\* The exception leaves handle_irq() before complete(): the completion queue, of
\* two entries, stays full for good.
CallbackThrows(c, m) ==
  /\ Callback(c, m)
  /\ ThrowsAtOnce(c, m) \/ ThrowsAtUnmap(c, m) \/ ThrowsAtDisk(c, m)
  /\ thrown' = thrown \union {c}
  /\ UNCHANGED <<loopVars, nss, scanning, deviceVars>>

\* libblock-device has read a partition table, or could not.
PartitionScanDone(d) ==
  /\ loop = "finished"
  /\ d \in scanning
  /\ scanning' = scanning \ {d}
  /\ Scan(devices_in_scan, 1)
  /\ UNCHANGED <<loopVars, admin, objects, nss, thrown, lost, deviceVars>>

-----------------------------------------------------------------------------
(* The controllers.                                                        *)

\* What a controller has executed it completes if the completion queue has room.
Reply(c, m, status) ==
  IF c \in thrown
    THEN UNCHANGED admin
    ELSE admin' = [admin EXCEPT
                     ![c] = (@ \ {m}) \union {[m EXCEPT !.status = status]}]

DevIdentify(c, m) ==
  /\ m.op = "identify"
  /\ \/ Reply(c, m, "fail") /\ UNCHANGED nn
     \/ Reply(c, m, "ok") /\ \E k \in 0 .. MaxNn : nn' = [nn EXCEPT ![c] = k]
  /\ UNCHANGED <<asked, devCq, devSq>>

\* A namespace beyond NN is an invalid one.
DevIdentifyNamespace(c, m) ==
  /\ m.op = "identify_namespace"
  /\ \E status \in {"ok", "unusable", "fail"} :
       /\ m.nsid > nn[c] => status = "fail"
       /\ Reply(c, m, status)
  /\ asked' = [asked EXCEPT ![c] = @ \union {m.nsid}]
  /\ UNCHANGED <<nn, devCq, devSq>>

DevCreateIocq(c, m) ==
  /\ m.op = "create_iocq"
  /\ \/ Reply(c, m, "fail") /\ UNCHANGED devCq
     \/ Reply(c, m, "ok") /\ devCq' = [devCq EXCEPT ![c] = @ \union {m.nsid}]
  /\ UNCHANGED <<nn, asked, devSq>>

\* An SQ needs its CQ.
DevCreateIosq(c, m) ==
  /\ m.op = "create_iosq"
  /\ \/ Reply(c, m, "fail") /\ UNCHANGED devSq
     \/ /\ m.nsid \in devCq[c]
        /\ Reply(c, m, "ok") /\ devSq' = [devSq EXCEPT ![c] = @ \union {m.nsid}]
  /\ UNCHANGED <<nn, asked, devCq>>

DevAdmin(c, m) ==
  /\ m \in admin[c] /\ m.status = "pending"
  /\ \/ DevIdentify(c, m) \/ DevIdentifyNamespace(c, m)
     \/ DevCreateIocq(c, m) \/ DevCreateIosq(c, m)
  /\ UNCHANGED <<loopVars, scanVars, objects, nss, scanning, thrown, lost>>

-----------------------------------------------------------------------------

HandleAdmin(c, m) ==
  \/ IdentifyDone(c, m) \/ IdentifyNamespaceDone(c, m)
  \/ CreateIocqDone(c, m) \/ CreateIosqDone(c, m)
  \/ CallbackThrows(c, m)

Next ==
  \/ \E c \in Ctls : Discover(c) \/ DiscoveryAborts(c)
  \/ LoopFinished
  \/ \E c \in Ctls : \E m \in admin[c] : HandleAdmin(c, m) \/ DevAdmin(c, m)
  \/ \E d \in scanning : PartitionScanDone(d)

\* The loop over the bus ends, devices answer, handlers run, and the scan of a
\* partition table ends.
Fairness ==
  /\ WF_vars(LoopFinished \/ \E c \in Ctls : Discover(c))
  /\ \A c \in Ctls :
       WF_vars(\E m \in admin[c] : HandleAdmin(c, m) \/ DevAdmin(c, m))
  /\ \A d \in Disks : WF_vars(PartitionScanDone(d))

Spec == Init /\ [][Next]_vars

FairSpec == Spec /\ Fairness

-----------------------------------------------------------------------------

\* At most one admin command is outstanding: produce() on the two-entry admin
\* queue, whose result nobody looks at, always has an entry (ctl.cc:355).
AdminRoom == \A c \in Ctls : Cardinality(admin[c]) <= 1

\* What refers to the scan: the loop, the chains (one that an exception has stopped
\* for good) and the partition scans (that of a lost disk for good).
Chains == {c \in Ctls : admin[c] # {}} \union thrown

PartitionScans == scanning \union lost

LoopRefs == IF loop = "finished" THEN 0 ELSE 1

\* Along every path through the callbacks, done_cb() and the callback of
\* add_disk() drop every reference exactly once, and none that is not there.
RefsCounted ==
  devices_in_scan =
    LoopRefs + Cardinality(Chains) + Cardinality(PartitionScans)

\* A controller has been asked about all the namespaces it reported.
AllAsked(c) == 1 .. nn[c] \subseteq asked[c]

\* When the service is opened, which happens once, nothing is under way, every
\* namespace has been asked about, and those with queues are disks.
ServedWhenComplete ==
  /\ announced <= 1
  /\ announced = 1 =>
       /\ loop = "finished" /\ Chains = {} /\ PartitionScans = {}
       /\ \A c \in Ctls : AllAsked(c) /\ devSq[c] = nss[c]

Lost(c) == {n \in Nsid : <<c, n>> \in lost}

\* No callback refers to a Namespace object that is gone, and neither does the
\* list of disks; an SQ the device serves has its CQ and belongs to an object,
\* unless an exception in ns_cb() has deleted that.
NothingDangles ==
  \A c \in Ctls :
    /\ \A m \in admin[c] :
         m.op \in {"create_iocq", "create_iosq"} => m.nsid \in objects[c] \ nss[c]
    /\ nss[c] \subseteq objects[c]
    /\ devSq[c] \subseteq devCq[c] \intersect (objects[c] \union Lost(c))

\* Using the NSID as the queues' identifier "only works for namespace identifiers
\* below the 64K limit" (ns.h:77); for those, the doorbells lie in the window.
DoorbellsMapped ==
  \A c \in Ctls : \A n \in nss[c] :
    n < 65536 => Tdbl(n) + 4 <= WindowSize /\ Hdbl(n) + 4 <= WindowSize

\* The scan keeps what DeviceScan promises to clients.
AllDisks == {d \in Disks : d[2] \in nss[d[1]]}

Promise == INSTANCE DeviceScan WITH
  disks <- AllDisks, explored <- AllDisks \ scanning, served <- announced > 0

ImplementsDeviceScan == Promise!Spec

\* The service is opened eventually, unless there has been an exception.
ScanFinishes == <>(announced > 0 \/ thrown # {} \/ loop = "aborted")

=============================================================================
