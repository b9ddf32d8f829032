# TLA+ models and proofs of the NVMe driver

The driver (`src/server/src`) is a user-level server of L4Re. It looks for NVMe
controllers on a virtual bus, sets each of them up, finds its namespaces, creates
one pair of I/O queues per namespace and offers the namespaces as block devices to
clients, through the library libblock-device, which is not part of the repository.
One thread runs everything: the scan, the interrupt handlers and the clients'
requests. The controllers run concurrently and share memory and registers with it.

This directory models the driver against its devices, checks the models with TLC
and proves what matters most with TLAPS. `PROJECT.json` is the index: the runs,
which lines each definition stands for, the hazards and the properties about them,
and a slip in the code that each property would find (the definitions `Mutant...`).

    tlc -config queue_edge.cfg MCQueuePair.tla      (a run; see PROJECT.json)
    tlapm QueuePair_proofs.tla                      (the proofs of a module)

## 1. The system

### Components

| component | state | operations |
|---|---|---|
| **I/O queue pair** (`queue.h`, `ns.cc`, `ns.h`) | two rings in shared memory; `_tail`, `_head`, `_in_flight`, `_free_hint`, `_callbacks`; `_head`, `_p`; the doorbells | `produce`, `submit`, `complete`; `consume`, `complete`; `handle_irq` |
| **Block device interface** (`nvme_device.cc`, `.h`) | none of its own: the command being prepared, its SGL or PRP list | `inout_data`, `discard`, `flush`, `max_size`, `max_segments`, `dma_map`, `dma_unmap` |
| **Controller construction** (`ctl.cc` 41-143) | the controller's registers, the admin queues | the constructor: reset, admin queues, enabling |
| **Device discovery** (`main.cc` 425-536, `ctl.cc` 346-496, `ns.cc` 36-95) | `devices_in_scan`, `_ctls`, `_nss`, the commands on the admin queues | `device_discovery`, `identify`, `identify_namespace`, `async_loop_init`, `device_scan_finished` |
| **Interrupt vectors** (`icu.h`, `ctl.cc` 163-322, `pci.h`) | the bitmap of MSIs, `_vectors`, the MSI-X table, the message registers | `register_interrupt_handler`, `allocate_msi`, `free_msi`, `create_iocq`, `enable_msi`, `enable_msix` |
| **DMA mapping of requests** (`nvme_device.h` 22-81, 168-220) | `_dma_map_all`, mappings in the DMA space | `set_dma_map_all`, `dma_map`, `dma_unmap` |
| **DMA buffers** (`inout_buffer.h`) | one mapping each | constructor, destructor |
| **Clients and factory** (`main.cc` 81-237) | `_scan_in_progress`, the clients (in libblock-device) | `op_create`, `check_clients` |
| **Command line** (`main.cc` 239-423) | the options gathered for a client, `trusted_dataspaces` | `parse_args`, `add_client` |
| **PCI capabilities** (`pci.h`), **register windows** (`iomem.h`), **power management** | set once at start | |

### How they interact

- *Calls and callbacks.* `produce()` stores a callback under a command identifier;
  `handle_irq()` finds it again from the completion and runs it. The callback of an
  admin command issues the next admin command; the callback of an I/O command answers
  a request, and may issue the next one from within the handler.
- *Shared memory and doorbells.* Driver and controller tell each other by the tail
  and head doorbells, the phase tags and the `sqhd` of completions what is whose.
- *Interrupts.* A completion raises the vector of its queue; the MSI-X table, or the
  message registers, lead to an MSI of the ICU, and that to the object bound to it.
- *A counter.* `devices_in_scan` joins the scans of all controllers and partition
  tables; the last one opens the service.
- *Refusals.* A full ring is told to libblock-device as `-L4_EBUSY`; it tries again
  after the next completion.

### What is hard, and what makes the components correct

- The controller takes and posts commands between any two steps of the driver, out
  of order, over many laps of rings whose indices, identifiers and phase tags go out of
  step with each other. *Correct*: every accepted request is executed and answered exactly
  once with its own status; nothing is overwritten before it is read or read
  before it is whole; no completion waits for an interrupt that does not come; no
  refused request waits for a completion that does not come.
- The chains of admin commands fail at any command, end themselves inside their own
  callbacks, throw, and interleave with each other and with partition scans. *Correct*: the
  service opens once, after everything, and only then.
- MSIs are given out, given back and reused, are fewer than the queues, and have a name
  in three places (ICU, controller, device). *Correct*: every queue's interrupt ends in a
  handler that looks at this queue, and none in a deleted object.
- A controller is found in the state somebody else left it in. *Correct*: after the
  constructor it uses this driver's queues and no others.
- The number of pages of a transfer is worked out in two places, and the limits told to
  libblock-device in a third. *Correct*: the controller finds exactly the pages of the data,
  and is asked for all of what the client asked for and for no more than it can take.
- Clients come before, while and after their disks are found, share disks by partitions and
  follow each other on a device that remembers the mode of the last. *Correct*: nobody is
  turned away for good from what is found later, static clients have their devices first, and
  memory is mapped for DMA exactly as long as the client's mode says.

`PROJECT.json`, "hazards", has the complete list with the lines.

## 2. The modules

| module | models | composed with / abstract specification |
|---|---|---|
| `RequestService` | what a queue pair promises to libblock-device | abstract |
| `QueuePair` | both rings, handler, issuing operations, controller, interrupt, retry | implements `RequestService` |
| `QueuePair_proofs` | | theorems about `QueuePair` |
| `QueuePair_service` | | proof that `QueuePair` implements `RequestService` |
| `DeviceScan` | what the scan promises to clients | abstract |
| `Discovery` | scan of the bus, admin command chains, reference count | implements `DeviceScan` |
| `Discovery_proofs` | | theorems about `Discovery`, proof that it implements `DeviceScan` |
| `Interrupts` | MSIs, local vectors, MSI-X tables, handlers, for all controllers together | |
| `Interrupts_proofs` | | theorems about `Interrupts` |
| `Transfers` | limits, SGLs, PRP entries and lists, NLB of one request, and how a controller reads PRPs | |
| `Transfers_proofs` | | theorems about `Transfers` |
| `CommandLine` | `parse_args` and `add_client` | extended by `Clients` |
| `Clients` | static and dynamic clients, DMA mappings, requests and flushes | on the command line of `CommandLine` and the scan of `DeviceScan`, which `Discovery` implements |
| `Clients_proofs` | | theorems about `Clients` |
| `Clients_options` | | theorem about `CommandLine`, as `Clients` extends it |
| `CtlReset` | the constructor of `Ctl`, after an owner that ended anywhere | |
| `CtlReset_proofs` | | theorems about `CtlReset` |
| `MCQueuePair`, `MCInterrupts`, `MCTransfers`, `MCClients` | instances for TLC: symmetry, the machines, the kinds of controllers, the devices | |

### QueuePair

The driver's thread is at `pc`: in the server loop ("idle"), or in `handle_irq`
("consume", "complete", "callback", "return"); `sqe` is the slot of a command that
`inout_data()` has taken with `produce()` and not yet submitted. `InoutData` is the
first half of `inout_data()` and `ReadwriteSubmit` the second; between them the
controller may do anything, but no other request and no handler runs. Requests are issued
from "idle" and from "callback": the latter are the requests a callback issues from
within the handler. `WriteZeroes` is `discard()`, and is prepared and submitted at once, with no
list to fill. `Refuse` is the `-L4_EBUSY`. The handler is one action per call:
`Consume`, `Complete` (with the callback's answer), `Acknowledge`, and `NothingLeft`,
`HandlerDone` at its end.

The lists of SGL entries and PRPs are one variable, `lists`: for each identifier, the
live request it describes. Only the length of the command (`nlb`) and that list are
written after `produce()`, so these are what an SQE may lack; the
remaining fields stand for the request. A slot nobody may look at any more is
set to `DeadSqe` or `DeadCqe`: the code leaves the old contents there, and the
model forgets them (but for the phase tag, which is looked at) to keep states
equal that cannot be told apart. This is not a loss: that a dead slot is never used is what
`CommandsAccountedFor` and `FreshIffPosted` say.

External: the controller (`DevFetch`, in order; `DevComplete`, in any order, with any status, if the CQ
has room), the kernel's interrupts (an edge is latched; a level is masked on
delivery and unmasked by `HandlerDone`, as in `Ctl::handle_irq`), and
libblock-device: it does not issue a request again while it is outstanding, keeps
refused ones, and is notified by a completion to try them again. That such a try is
taken is not shown, nor is it so in general: others may be issued first, and fill the ring again.

The callbacks of `inout_data()` and `discard()` return: an exception that leaves the handler in the
middle is in `Discovery`, where it ends a chain, and not here.

Whether the interrupt is an MSI (`edgeTriggered`, the code's `_irq_trigger_type`) is found out
at start and then stays: `Triggers` says what it may be found to be.

The admin queue is the same code with `Size` = 2.

### Discovery

One action per callback (`IdentifyDone`, `IdentifyNamespaceDone`, `CreateIocqDone`,
`CreateIosqDone`), each the whole of the lambda with the calls it makes: the
next command of the chain, the namespace's deletion or its becoming a disk, the references
taken and dropped. `CallbackThrows` is the callback that ends with an exception, at one of
three places: before the next command is issued (`ThrowsAtOnce`: the buffers and
queues that are allocated, `chksys()`), behind it in `in->unmap()` (`ThrowsAtUnmap`), and in `add_disk()`,
called by `ns_cb()` with a reference taken already (`ThrowsAtDisk`: the namespace is deleted, and
`lost`). L4Re's server loop is taken to catch it. The exception leaves `handle_irq()` before the entry of
the CQ is given back; with its two entries the CQ is full from then on, so the controller
executes a command that was issued before, but never completes it (`Reply`): no chain goes on after an
exception. What throws in the loop of `device_discovery()` outside of its `try` (`get_resource()`,
`identify()`) leaves `main()` (`DiscoveryAborts`). `admin[c]` is what is on the admin
queue, so that a second command shows (`AdminRoom`). The parsing of the Identify data is the
controller's choice between "ok" and "unusable". `n + 1` wraps at the end of the NSID's
type (`NsidEnd`), and the counter at the end of its own (`Bits32`); the run `discovery` has
the largest NN that leaves the broadcast identifier, the last there is room for, aside.
`WindowSize`, `Tdbl` and `Hdbl` are the registers attached and the doorbells in them, in bytes,
with the stride `Dstrd`.

### Interrupts

All controllers share the ICU's bitmap (`allocated`). `vectors[c]` is the map
`_vectors` in the order of its local numbers. A namespace's life is that of `Discovery`,
reduced to "creating", "disk", "gone" and "stuck" (an exception has ended the chain), one at a time per
controller. `Receiver` follows
an interrupt from the device's vector to the object bound; for plain MSIs the device
puts the vector into the low bits of the data, which the kernel is taken to give
out consecutively and aligned. A `machine` is a choice of the controllers with their lists of PCI
capabilities, the number of the ICU's MSIs, the options `--nomsi` and `--nomsix`, and, as a
bound, the namespaces; `VectorsOf` is the walk over the list. The allocator's bitmap has 2048 bits
(`NumMsis`), whatever the ICU has; `msis` is the smaller number.

### CtlReset

One action per access to the controller's registers. The value an instance of the driver
writes is its own number, so the properties can tell whose queues are in use. The
controller latches the queue registers when CC.EN goes from 0 to 1, and forgets its doorbells
when it has been disabled. `Restart` ends an instance at any of the places `EndPoints`.

### Transfers

One request at a time, from the limits the library is told (`MaxSegments`, `MaxSize`) over
what it may therefore ask for (`Requests`) to the command. With SGLs: `PrepareSgl` (the loop
that counts) and `DescribeBlock`, one per descriptor. Without: `PreparePrp`, which is
`readwrite_prepare_prp()` and what follows it, and `Link` and `Entry`, one per turn of the
loop; `SlotOf` is the way a controller reads a PRP list. `ReadwriteSubmit` writes NLB;
`Discard` is Write Zeroes. Pages, lists and limits are small numbers in the same
proportions: constants stand for 4096, 512, 65536 and 4 MiB.

That a block has at least one sector and at most `max_size()`, and a request at most
`max_segments()` blocks, is libblock-device's part. MDTS is used by the driver
in pages of the smallest size the controller supports; that this is `L4_PAGESIZE`
is what the driver runs with (CC.MPS is 0) and what `PageSize` says.

### CommandLine and Clients

`CommandLine` takes one option per action, from any command line of up to `MaxArgs` options;
at `--client` and at the end `AddClient` hands over what has been gathered. `ParseArgs` ends in
"running" or "failed".

`Clients` goes on from there. `ScanStep` is any step of `DeviceScan`, with what
libblock-device does in it: static clients whose devices are there get them, and the callback
that was given to `add_static_client()` sets the device's DMA mode (`SetDmaMapAll`). `OpCreate`
is a call of the factory, with its answer; it comes only when "svr" is registered (`Open`),
so that the `-L4_EAGAIN` of `Answer` (`main.cc:181`) is never given: `scan_finished()` comes first
(`main.cc:431-432`), and `RefusedForGood` rests on that order.
`Close` and `CheckClients` are the end of a client; the code looks for clients to be destroyed when the deletion
of a gate interrupts it, the model at any time after the deletion, since what libblock-device
does with a client that is busy then is not in the repository. `DmaMap` and `DmaUnmap` go by the
device's flag, at the time of the call; `InoutRequest`, `Retry`, `InoutDone` are the life of a request as
`QueuePair` shows it, `Flush` and `FlushErrand` the two halves of `flush()`. No liveness is claimed here.

What is assumed of libblock-device is at the head of the module: a device has one client at a time; static
clients are connected when the partitions of a disk have been read; a client with requests
under way is not destroyed. The trusted dataspaces are one flag, handed over with each
static client (`trusted_only`): `--register-ds` counts for the clients whose options end behind it
(`OptionsScoped`; finding 6).

## 3. The runs

| run | question | bounds |
|---|---|---|
| `queue_edge` | are commands, completions, identifiers, interrupts and refusals kept, with MSIs; is `RequestService` implemented? | ring of 3; 3 reads/writes, 1 Write Zeroes |
| `queue_live` | is the proofs' invariant right; is every request answered, every refused one tried again; with MSIs and without? | ring of 2; 2 reads/writes, 1 Write Zeroes |
| `discovery` | is the service opened, once and with everything there? | 2 controllers, up to 3 namespaces each |
| `irq_mixed` | do interrupts arrive, and only at living objects, while MSIs change hands; do the local vectors stay in the table; does sharing the controller's vector work? | 7 machines: up to 3 controllers, 2 or 3 namespaces each, up to 6 MSIs |
| `transfers` | does the controller find the data, all of it and nothing else, and accept the command? | 4-byte pages, lists of 3 pages of 4 entries, SGLs of 2; 40 kinds of controllers |
| `clients` | do static and dynamic clients get what is theirs, and are their mappings kept? | 1 disk, 1 partition, 5 options, 2 dynamic clients, 1 request each |
| `reset` | is a controller taken over, whoever had it? | 4 instances |
| `irq_fallback`, `irq_legacy`, `irq_plain`, `reset_starting`, `discovery_doorbells` | findings, see below | |

Why the bounds are enough:

- *Queue pair.* All indices are modulo the size, and the number of requests is not below the
  number of commands the ring takes: rings fill, refuse and wrap. Requests are issued
  again and again, so laps are unbounded. With three entries (`queue_edge`) identifiers,
  SQ slots and CQ slots take every relative position. Sizes beyond are the
  proofs' part. Symmetry permutes requests of one kind, in the run without liveness only.
- *Discovery.* Three namespaces give a first, an inner and a last one; two controllers, the
  loop and the partition scans drop the last reference in every order.
- *Interrupts.* Fewer MSIs than users, as many, and reuse after a namespace that was given up, across
  controllers of different kinds.
- *Transfers.* All start offsets of a page, all sizes, no entry, one entry, one list page, two and three;
  sectors smaller than a page, as large and larger; each limit is the binding one for some controller.
- *Clients.* Five options are two clients with a device each and one option more before, between or behind them, or one with everything; a disk and its partition have
  flags and clients of their own, and two clients of the factory follow each other on a device or
  compete for it. Command lines are all there are of that length.
- *Reset.* An instance can be affected by the one before it and by the one before that through
  an unfinished disabling; four instances leave a margin.

Fairness. The server loop goes on (`WF(Driver)`: the thread runs handlers it has been
woken for; a request under preparation is finished). The controller fetches what it has been
told of (`WF`), and starves no command; since posting is disabled again and
again by a full CQ, this is strong fairness for each request's command. Clients owe
nothing. In `Discovery` controllers answer, handlers run, partition scans end. In
`CtlReset` the constructor goes on and the controller sets and clears CSTS.RDY when told. The
code has no timeouts: a controller that does not answer stops the request, and a constructor that polls
stops the driver.

`CHECK_DEADLOCK FALSE` is said where the system really ends: a scan is over, a
transfer submitted, all namespaces set up, the last instance failed.

## 4. Findings

Each of the first five is a run with "expect": "violation"; the property states what a comment in the code says.

1. `irq_fallback`. A namespace without an MSI is to "use vector 0 and the same handler as
   the controller" (`ctl.cc:274-276`). `create_iocq()` passes the 0 to
   `get_local_vector()`, which takes it for the ICU's MSI 0 (`ctl.cc:264`). A controller that
   does not own that MSI gets a new local vector whose MSI-X entry is never
   programmed: the namespace's completions are not noticed.
2. `irq_legacy`. A controller without an MSI is to "use the legacy interrupt"
   (`ctl.cc:199`), but its constructor has enabled MSI-X, and the device does not
   use its line any more.
3. `irq_plain`. `enable_msi()` "can be called repeatedly" (`pci.h:213`), but there is one set of
   message registers, and a namespace's MSI takes it from the controller's.
4. `reset_starting`. "Start by resetting the controller" (`ctl.cc:77`) happens only if
   CSTS.RDY is set. A controller that is enabled and not yet ready, as the firmware or an instance of
   the driver that ended there leaves it, is not reset and keeps the queues of its earlier owner.
5. `discovery_doorbells`. Using the NSID for the queues' identifiers "only works for namespace identifiers below
   the 64K limit" (`ns.h:75-78`). The limit is lower: `ctl.cc:49` attaches two pages of registers,
   which hold the doorbells of 512 queues with the smallest stride and of fewer with a larger one. The
   run has a stride of 1 KiB and two namespaces.
6. `clients` (`OptionsScoped`, which holds). With `--register-ds`, "it is not possible to communicate to the driver via dataspaces other
   than the registered ones" (`usage.md:149-151`). `add_client()` (`main.cc:274`) asks whether any is registered
   when a client's options end: one that is followed by another `--client` before the first
   `--register-ds` may use any dataspace. `OptionsScoped` says what holds instead.

The passing run `irq_mixed` stays outside of the first three (its machines have enough MSIs, or a single
controller that uses them, and plain MSI only where a single namespace has a message for every MSI), `reset` outside of the fourth (no
owner, firmware or instance, ends between enabling the controller and its becoming ready, `ctl.cc:130` and `133`; the constant `EndPoints` says so), and `discovery` has the
smallest stride.

## 5. The proofs

All theorems are about the specifications the runs check, for every value of the constants
that meets the assumptions named. Each is an invariant, or follows from one by a step
that needs no further state: an inductive invariant `IInv`, with `InvInit` (`Init => IInv`)
and `InvStep` (`IInv /\ [Next]_vars => IInv'`), above one lemma per action.

### Queue pair

`QueuePair_proofs`, for every ring size below 2^16, every set of requests and any
kinds of interrupt:

| theorem | property |
|---|---|
| `TypeCorrect` | `TypeOK` |
| `InvCorrect` | `IInv`, the inductive invariant |
| `AccountingCorrect` | `CommandsAccountedFor`: identifiers, callbacks, rings and `_in_flight` agree |
| `WholeCorrect` | `DeviceSeesWholeCommands` |
| `TagsCorrect` | `FreshIffPosted` |
| `SearchCorrect` | `SearchTerminates` |
| `WakerCorrect` | `RefusedHasWaker` |
| `InterruptCorrect` | `InterruptOnTheWay` |
| `LossCorrect` | `NoCommandLost`, an action property, from the same invariant |
| `PromiseCorrect` (`QueuePair_service`) | `ImplementsService`: every step is one of `RequestService`, or none |

The assumptions are those of the module: `2 <= Size < 2^16`, which all uses of the
constructors satisfy, and that `None` is no request and no status. None of the properties is
inductive: that the command fetched is
whole depends on the doorbell being behind the tail; that `is_full()` protects what
has not been fetched depends on the head in every posted completion lying between the driver's
head and the controller's, in the order of posting; that a tag is fresh exactly if posted depends
on both sides' laps. `IInv` conjoins the following:

- `CommandsAccountedFor`: every identifier given away is held by exactly one command, which
  is queued, executing or posted, and its callback is that command's;
- `RingsInOrder`: going round the SQ from the driver's head come the heads in posted
  completions, the controller's head, the doorbell and the tail; round the CQ, the
  doorbell, the driver's head and the controller's tail;
- `TagsInOrder`: which entries of the CQ carry which tag;
- `HeadReported`: with nothing executing, the last head reported is the controller's, so that a driver that has seen all completions
  does not take an empty ring for a full one;
- `QueuedWhole`, `DeviceSeesWholeCommands`: what has been, or will be, fetched is whole;
- `InterruptKept`, `RefusedHasWaker`.

Below it are lemmas about `Wrap`,
`Distance` and `Span`, the arithmetic of going round a ring. TLC checks `IInv` in
`queue_live`.

The refinement maps the request of every identifier to its state, and has to say whose
command the controller completes and whose callback the handler runs. `QueuePair_service`
adds two invariants to `IInv`: `OwnersMatch`, the command in a ring is the one of
the callback stored under its identifier, and `OutcomesKept`, the status in a posted
completion is the one the request was executed with.

### Discovery

`Discovery_proofs`, for any controllers, any number of namespaces below the end of the NSID's
type, and any outcome of each command:

| theorem | property |
|---|---|
| `TypeCorrect` | `TypeOK` |
| `RoomCorrect` | `AdminRoom`: the admin queue of two entries is never asked for a second |
| `CountCorrect` | `RefsCounted`: `devices_in_scan` is the number of references there are |
| `DanglingCorrect` | `NothingDangles` |
| `ServedCorrect` | `ServedWhenComplete` |
| `PromiseCorrect` | `ImplementsDeviceScan` |

The assumptions: there are finitely many controllers (`CtlsAssumption`), and NN is below `NsidEnd - 1`, so that `n + 1` (`ctl.cc:367`) does not wrap (what happens with NN = 2^32 - 1, which
is the broadcast identifier, is not covered), with room for the count of references in 32 bits (`NnAssumption`). The invariant: a
chain has one command under way or has ended (`OneCommand`, `Chain`), the namespaces before its position
have been asked about and those behind it are fresh (`Reached`, `Fresh`), a namespace's queues are those of its life
(`Queues`), and the counter is the cardinality of the set of references (`Counted`). The last one bounds the
counter: the references that an exception leaves behind are in the set for good. Without it `devices_in_scan` could wrap to zero and open the service, and without `OneCommand` a
reference could be dropped twice.

### Interrupts

`Interrupts_proofs`, for any set of machines as `IsMachine` says, that is for any number of controllers, capability lists,
MSIs and namespaces:

| theorem | property |
|---|---|
| `TypeCorrect` | `TypeOK` |
| `OwnedCorrect` | `MsisOwned` |
| `VectorsCorrect` | `VectorsInTable` |
| `AliveCorrect` | `ReceiversAlive`, where no device uses plain MSI, one controller uses MSIs, or no registration has thrown |
| `ServedCorrect` | `QueuesServed`, where there are enough MSIs or one controller that uses them, and plain MSI is `Harmless` |
| `FallbackCorrect` | `FallbackShares`, on the same machines |

`MsisOwned` depends on MSI 0: `free_msi()` takes 0 for "none", which is right because the lowest
MSI is the first one given out, to a controller, and never given back (`FirstMsi`), and
controllers come before namespaces (`Fresh`). `Owners` says that whoever has an MSI has it to himself,
`LostCounted` that each one lost is due to an object at whose registration something threw, and
`VectorsCounted` that each local vector is due to the controller or a namespace that has been started.
For `AliveCorrect`, entries of the table outlive the namespaces they were
written for: `BoundOnce` says that the object an MSI is bound to exists or was left behind
when it threw, and `TableAlive` that the MSI of a controller that was deleted, which stays bound, is in
no table. A plain MSI reaches the neighbours of the one enabled as well, and so what another controller
left bound when it was deleted; the only one to use MSIs, when it throws, has not written its message
registers yet (`Message`).

`ServedCorrect` and `FallbackCorrect` are about the whole way of an interrupt, and need what is known of
vectors and tables, `Vectored`: the controller's MSI has the first local vector and no other
(`CtlVector`), and a namespace's CQ has the local vector of its MSI, where the table has that MSI,
too (`NsVector`). Vectors are found by MSI, so this depends on `Owners`: what a later
`enable_msi()` writes is at an MSI that was free, hence at a vector of nobody's. `Provided` says who goes
without an MSI. With `Plenty`, the ICU has an MSI for each controller that uses them and for each of its
namespaces; then there always is one left for who asks (lemma `OneLeft`, by counting: who has one, or
lost one, is not the one that asks). With `Alone`, one controller uses MSIs and has MSI 0, so that the 0
that `create_iocq()` takes for an MSI is this controller's. One of the two is needed:
findings 1 and 2 are machines with neither.

With plain MSI, the device's vector is added to the MSI enabled last, modulo the number of
messages, so that who else has an MSI matters. `Harmless` is the condition: whoever
uses plain MSI is the only one to use MSIs, has as many messages as the ICU has MSIs (finding 3 is a machine
with fewer), and one namespace at most. Then vector 0 always leads to MSI 0, the controller's, and the first to ask
for a local vector, the namespace, gets 0 (`Messages`), since a controller with plain MSI
takes none. A second namespace would get 1, which leads to the handler of
the first: with four messages, three MSIs and two namespaces TLC finds `QueuesServed` violated.

All machines of `irq_mixed` meet the hypotheses of these three theorems: `Block` is `Harmless`, and so is the one
with MSI-X disabled.

### Data pointers and limits

`Transfers_proofs`, for any size of a page, number and size of list pages, number of SGL entries, and any
limits, controllers and requests that keep to what the library is told:

| theorem | property |
|---|---|
| `InvariantCorrect`, `TypeCorrect` | the invariant, `TypeOK` |
| `FindsPagesCorrect` | `DeviceFindsPages`: the controller, following the links, finds the pages of the data, in order |
| `SufficesCorrect` | `ListSuffices`: the lists have room for it |
| `DescribedCorrect` | `RequestDescribed`: all of what was asked for, and nothing that wraps |
| `MdtsCorrect` | `WithinMdts` |

The assumptions: a list page has at least two entries, the sizes are not zero, and the largest request fits
in 32 bits (`LimitsAssumption`); what libblock-device may ask for is `Requests`. The loop goes by
bytes left and the controller by entries, so the invariant ties the two: after `i` slots, what remains
lies between two multiples of the page size (`Unfinished`), which says how many pages remain without a
division of what starts inside a page. `PageOf(s)` is the page that slot `s` stands for, one less per
link before it, and `Linking(s)` says where links are: in the last slot of a list page with more than
one page of data to come. That the code, which looks at `remains`, decides likewise is what
`Unfinished` gives; `Filled` then says what is in each slot. The way of
the controller, `SlotOf`, is a recursive function, of which the proof needs its one step (lemma
by lemma, below `FindsPagesCorrect`); sums of segments are recursive functions too. The
existence of both is shown by well-founded induction on sets of numbers, which needs no operator as
a parameter.

### Clients

`Clients_proofs`, for any sets of devices, partitions, clients and requests, and any command line of up to
`MaxArgs` options:

| theorem | property |
|---|---|
| `TypeCorrect` | `TypeOK` |
| `RefusedCorrect` | `RefusedForGood` |
| `StaticCorrect` | `StaticFirst` |
| `MappingsCorrect` | `MappingsExact` |

The assumptions name the sets: devices are disks and their partitions, the factory's clients are none of the static ones, and
there are as many places for static clients as a command line of `MaxArgs` options can fill
(`StaticAssumption`; the code's vector has no limit). The invariant: the options handed over fit in the command line and precede the scan (`Args`), devices that are
there have gone to the first static client that asked for them (`Firsts`), a client is connected to one
device and a device with one client (`Connected`, `Unconnected`), requests are those of connected
clients (`Idle`), refusals came when the scan was over (`Refused`), and mappings are those of the mode (`Exact`).
That no request is mapped when `set_dma_map_all()` changes a device's mode depends on
`Idle` and on static clients being connected before the factory opens.

`Clients_options` proves `OptionsCorrect`: `OptionsScoped`, about the history of a command line that
has been read. Its invariant, `Gathering`, says the same of the part read so far: what is
gathered is what the options since the latest `--client` say, the last of several of a kind, or the
default, and each earlier `--client` has been handed over, in its place, as its own options
describe it, bound to the trusted dataspaces if one was registered before the next (`Registered`, `Bound`). `Says` and `LastPlace` speak of places in the command line, `Count` of the number
of the client; the steps need that one more option changes at most what it says itself, and that
`AddClient` starts the next client from the defaults.

### Controller construction

`CtlReset_proofs` proves `TakenOverCorrect` and `WrittenCorrect`, for any number of
instances, from the assumption that no owner ends in "WaitReady", neither the firmware nor an instance: exactly
what finding 4 shows to be needed. The invariant says that a controller
is enabled and not ready only while it is being waited for (`Honest`) and
what the constructor has established at each place (`Progress`). `TypeCorrect` holds wherever instances
end: the index into the admin queue registers stays below their number (`Writing`).

### Only model-checked

The liveness properties, which, under fairness, are out of the prover's reach, as `ENABLED` is. All
invariants and action properties of the passing runs are theorems.

## 6. What is not modelled

- The internals of libblock-device, L4Re and the kernel, which are not in the repository; their
  visible behaviour is external in the modules.
- Text: the numbers and names in options and in `op_create()`'s parameters, BARs,
  register fields and the Identify data. Their decoding is sequential and stateless; the outcomes are
  constants or choices.
- `Inout_buffer`: its constructor allocates, attaches and maps in a row or throws, its destructor undoes it; the
  exceptions are in `Discovery` and `CtlReset`. That `Dma_space::map()` may map less than it was asked for and
  `dma_map_single()` (`nvme_device.h:182`) does not look at the size it answers is a hazard without a property: whether it
  ever does is not to be seen in the repository.
- An exception that leaves `handle_irq()` in the middle of I/O completions, or before a masked
  interrupt is unmasked (`ctl.cc:157`): `Discovery` shows what becomes of the scan, no module what becomes of the
  interrupt. `std::bad_alloc`, which the driver does not catch, ends the program.
- Power management and the errand server, which the driver registers at start and which add no
  state of its own.
- Memory ordering: the doorbell write is taken to follow the writes to the ring, which the code
  leaves to `volatile` and uncached mappings.

## 7. Plan

There: the core (`RequestService`, `QueuePair`), the scan (`DeviceScan`, `Discovery`), what connects
them (`Interrupts`), data pointers and limits (`Transfers`), construction (`CtlReset`), the life of a
client from its option on the command line to its last mapping (`CommandLine`, `Clients`), the two
refinements with their proofs, and proofs of the invariants of all of them.

Left: the mapping of queues and of `Inout_buffer`, if the kernel's side of `Dma_space::map()` is ever to be had.
