------------------------------- MODULE Clients -------------------------------
(***************************************************************************)
(* The clients: those of the command line, which get their device while    *)
(* the scan goes on, and those that connect later through Blk_mgr's        *)
(* factory (op_create), until their gate is deleted.  And what becomes of  *)
(* the memory of their requests: Nvme_device and Part_device map it for    *)
(* DMA, all of a client's dataspace for good or the memory of each request *)
(* until it is answered, as the client's device says (_dma_map_all).       *)
(*                                                                         *)
(* The scan is DeviceScan, which Discovery implements; the life of a       *)
(* request in the driver's queues is QueuePair.  What is said of           *)
(* libblock-device: it gives a device to one client at a time, connects    *)
(* static clients once the partitions of a disk have been read, and does   *)
(* not destroy a client that has requests under way.                       *)
(***************************************************************************)
EXTENDS CommandLine

CONSTANTS
  Disks,      \* the disks there may be
  Parts,      \* bound: the partitions there may be on each
  Dynamic,    \* clients that connect through the factory
  MaxStatic,  \* bound: as many static clients as the command line has room for
  Requests    \* bound: requests a client may have under way

ASSUME DevicesAssumption == Devices = Disks \X ({0} \union Parts)
ASSUME PartsAssumption == 0 \notin Parts
ASSUME StaticAssumption == MaxStatic \in Nat /\ 2 * MaxStatic >= MaxArgs

VARIABLES
  disks, explored, served,  \* the scan's
  parts,      \* per disk, its partitions
  device,     \* per client, the device it is connected to
  map_all,    \* per client, the mode it has asked for
  closing,    \* clients whose gate has been deleted
  told,       \* per dynamic client, the last result of op_create()
  _dma_map_all,  \* per device, Base_device::_dma_map_all
  whole,      \* clients whose dataspace is mapped as a whole
  single,     \* requests <<k, r>> whose memory is mapped for themselves
  request     \* per client and request, how far it is

scanVars    == <<disks, explored, served, parts>>
sessionVars == <<device, map_all, closing, told, _dma_map_all>>
dmaVars     == <<whole, single, request>>
vars        == <<argVars, scanVars, sessionVars, dmaVars>>

Static  == 1 .. MaxStatic
Clients == Static \union Dynamic

ASSUME DynamicAssumption == Static \intersect Dynamic = {}

Results == {"none", "ok", "EINVAL", "ENODEV", "EAGAIN", "EBUSY"}

\* "refused" requests wait for another try, "flushing" ones for their errand.
TypeOK ==
  /\ phase \in {"args", "running", "failed"} /\ Len(statics) <= MaxStatic
  /\ disks \subseteq Disks /\ explored \subseteq disks /\ served \in BOOLEAN
  /\ parts \in [Disks -> SUBSET Parts]
  /\ device \in [Clients -> Devices \union {None}]
  /\ map_all \in [Clients -> BOOLEAN]
  /\ closing \subseteq {k \in Dynamic : device[k] # None}
  /\ told \in [Dynamic -> [result : Results, device : Devices \union {None}]]
  /\ _dma_map_all \in [Devices -> BOOLEAN]
  /\ whole \subseteq Clients /\ single \subseteq Clients \X Requests
  /\ request \in
       [Clients -> [Requests -> {"none", "refused", "issued", "flushing"}]]

Scan == INSTANCE DeviceScan

Init ==
  /\ ArgsInit
  /\ Scan!Init
  /\ parts \in [Disks -> SUBSET Parts]
  /\ device = [k \in Clients |-> None]
  /\ map_all = [k \in Clients |-> TRUE]
  /\ closing = {}
  /\ told = [k \in Dynamic |-> [result |-> "none", device |-> None]]
  /\ _dma_map_all = [d \in Devices |-> FALSE]
  /\ whole = {} /\ single = {}
  /\ request = [k \in Clients |-> [r \in Requests |-> "none"]]

-----------------------------------------------------------------------------
(* Connections                                                             *)

\* The devices the manager knows, the partitions of explored disks among them
DevicesOf(known) ==
  {d \in Devices : d[1] \in known /\ d[2] \in {0} \union parts[d[1]]}

Taken(d) == \E k \in Clients : device[k] = d

\* Mutant: the mode is only ever switched on.
MutantSetDmaMapAll(new, mode) ==
  _dma_map_all' = [d \in Devices |->
    (\E k \in new : device'[k] = d /\ mode[k]) \/ _dma_map_all[d]]

\* The callback given to add_static_client() and create_dynamic_client(), run for
\* each new client with its device: the mode is kept in the device.
SetDmaMapAll(new, mode) ==
  _dma_map_all' = [d \in Devices |->
    IF \E k \in new : device'[k] = d
      THEN \E k \in new : device'[k] = d /\ mode[k] ELSE _dma_map_all[d]]

\* The first static client of a device of the disks explored gets it.
ConnectStatic ==
  LET first(n) == /\ n <= Len(statics) /\ device[n] = None
                  /\ statics[n].device \in DevicesOf(explored')
                  /\ ~Taken(statics[n].device)
                  /\ \A l \in 1 .. n - 1 : statics[l].device # statics[n].device
      new == {n \in Static : first(n)}
  IN  /\ device' = [k \in Clients |->
            IF k \in new THEN statics[k].device ELSE device[k]]
      /\ map_all' = [k \in Clients |->
            IF k \in new THEN statics[k].map_all ELSE map_all[k]]
      /\ SetDmaMapAll(new, map_all')

\* Mutant: the hardware is set up before the command line has been read.
MutantScanStep ==
  /\ phase # "failed"
  /\ Scan!Explore
  /\ ConnectStatic
  /\ UNCHANGED <<argVars, parts, closing, told, dmaVars>>

\* The scan goes on, and with it the static clients get their devices.
ScanStep ==
  /\ phase = "running"
  /\ Scan!Explore
  /\ ConnectStatic
  /\ UNCHANGED <<argVars, parts, closing, told, dmaVars>>

\* The factory's answer: parameters that are wrong or name no device, then
\* create_dynamic_client()'s.  op_create() would turn "no such device" into
\* -L4_EAGAIN during the scan, but is not called before its end (Open).
Answer(d) ==
  IF d = None THEN "EINVAL"
  ELSE IF d \notin DevicesOf(explored) THEN IF ~served THEN "EAGAIN" ELSE "ENODEV"
  ELSE IF Taken(d) THEN "EBUSY" ELSE "ok"

\* "svr" is registered by device_scan_finished(); before, no call gets here.
Open == phase = "running" /\ served

OpCreate(k, d, mode) ==
  /\ Open
  /\ k \in Dynamic /\ device[k] = None
  /\ told' = [told EXCEPT ![k] = [result |-> Answer(d), device |-> d]]
  /\ IF Answer(d) = "ok"
       THEN /\ device' = [device EXCEPT ![k] = d]
            /\ map_all' = [map_all EXCEPT ![k] = mode]
            /\ SetDmaMapAll({k}, map_all')
       ELSE UNCHANGED <<device, map_all, _dma_map_all>>
  /\ UNCHANGED <<argVars, scanVars, closing, dmaVars>>

\* A dynamic client drops its capability, and the kernel deletes the gate.
Close(k) ==
  /\ k \in Dynamic /\ device[k] # None
  /\ closing' = closing \union {k}
  /\ UNCHANGED <<argVars, scanVars, device, map_all, told, _dma_map_all, dmaVars>>

\* Mutant: clients that are gone stay in the list of those to be destroyed.
MutantCheckClients ==
  LET gone == {k \in closing : \A r \in Requests : request[k][r] = "none"}
  IN  /\ gone # {}
      /\ device' = [k \in Clients |-> IF k \in gone THEN None ELSE device[k]]
      /\ whole' = whole \ gone
      /\ UNCHANGED <<argVars, scanVars, map_all, closing, told, _dma_map_all, single,
                     request>>

\* Deletion_irq::handle_irq(): check_clients() destroys clients whose gate is
\* gone, and their dataspaces with the mapping of the whole.  The interrupt comes
\* once per deleted gate; a client that is busy then goes later, or never: when
\* that happens is libblock-device's part, and here at any time.
CheckClients ==
  LET gone == {k \in closing : \A r \in Requests : request[k][r] = "none"}
  IN  /\ gone # {}
      /\ device' = [k \in Clients |-> IF k \in gone THEN None ELSE device[k]]
      /\ closing' = closing \ gone
      /\ whole' = whole \ gone
      /\ UNCHANGED <<argVars, scanVars, map_all, told, _dma_map_all, single, request>>

-----------------------------------------------------------------------------
(* Requests                                                                *)

Move(k, r, from, to) ==
  /\ request[k][r] = from
  /\ request' = [request EXCEPT ![k][r] = to]

\* Mutant: a partition goes by the flag of its disk.
MutantMapsAll(d) == _dma_map_all[<<d[1], 0>>]

\* dma_map() and dma_unmap(): a partition uses its own flag and its disk's functions.
MapsAll(d) == _dma_map_all[d]

DmaMap(k, r) ==
  IF MapsAll(device[k]) THEN whole' = whole \union {k} /\ UNCHANGED single
                        ELSE single' = single \union {<<k, r>>} /\ UNCHANGED whole

\* Mutant: what dma_map_single() has mapped stays.
MutantDmaUnmap(k, r) == UNCHANGED <<whole, single>>

\* dma_unmap_all() leaves it to the end of the client.
DmaUnmap(k, r) ==
  /\ UNCHANGED whole
  /\ single' = IF MapsAll(device[k]) THEN single ELSE single \ {<<k, r>>}

\* A request is mapped (or answered with an error) and inout_data() takes it, or
\* refuses it with -L4_EBUSY.
InoutRequest(k, r) ==
  /\ device[k] # None /\ k \notin closing
  /\ \E to \in {"issued", "refused"} : Move(k, r, "none", to)
  /\ DmaMap(k, r)
  /\ UNCHANGED <<argVars, scanVars, sessionVars>>

\* A request that was refused is tried again and taken.
Retry(k, r) ==
  /\ Move(k, r, "refused", "issued")
  /\ UNCHANGED <<argVars, scanVars, sessionVars, whole, single>>

\* The callback of inout_data(): the client is answered, the memory unmapped.
InoutDone(k, r) ==
  /\ Move(k, r, "issued", "none")
  /\ DmaUnmap(k, r)
  /\ UNCHANGED <<argVars, scanVars, sessionVars>>

\* flush() has nothing to do, but "the callback must not be run before this
\* function has returned": an errand of the server does it.
Flush(k, r) ==
  /\ device[k] # None /\ k \notin closing
  /\ Move(k, r, "none", "flushing")
  /\ UNCHANGED <<argVars, scanVars, sessionVars, whole, single>>

FlushErrand(k, r) ==
  /\ Move(k, r, "flushing", "none")
  /\ UNCHANGED <<argVars, scanVars, sessionVars, whole, single>>

-----------------------------------------------------------------------------

Next ==
  \/ ParseArgs /\ UNCHANGED <<scanVars, sessionVars, dmaVars>>
  \/ ScanStep
  \/ \E k \in Dynamic :
       \/ \E d \in Devices \union {None}, mode \in BOOLEAN : OpCreate(k, d, mode)
       \/ Close(k)
  \/ CheckClients
  \/ \E k \in Clients, r \in Requests :
       \/ InoutRequest(k, r) \/ Retry(k, r) \/ InoutDone(k, r)
       \/ Flush(k, r) \/ FlushErrand(k, r)

Spec == Init /\ [][Next]_vars

-----------------------------------------------------------------------------

\* "No such device" is final: no device that a client was refused with -L4_ENODEV
\* is found later, since "svr" is registered after the last namespace has been
\* added and the last partition table read (device_scan_finished()).
RefusedForGood ==
  \A k \in Dynamic :
    told[k].result = "ENODEV" => told[k].device \notin DevicesOf(explored)

\* "A static configuration is given priority over dynamically connecting clients"
\* (usage.md:21): no dynamic client has a device that one is configured for, and
\* when the service opens, each device that exists has its static client.
StaticFirst ==
  \A n \in 1 .. Len(statics) :
    /\ \A k \in Dynamic : device[k] # statics[n].device
    /\ served /\ statics[n].device \in DevicesOf(explored) =>
         \E l \in 1 .. n : device[l] = statics[n].device

UnderWay(k) == {r \in Requests : request[k][r] \in {"issued", "refused"}}

\* The controller can reach the memory of every request it works on, and of a
\* client that asked for mappings per request nothing else, ever; a client's
\* mapping as a whole ends with the client, and no mapping is lost.
MappingsExact ==
  \A k \in Clients :
    LET own == {r \in Requests : <<k, r>> \in single}
    IN  IF device[k] # None /\ map_all[k]
          THEN own = {} /\ (UnderWay(k) # {} => k \in whole)
          ELSE own = UnderWay(k) /\ k \notin whole

=============================================================================
