------------------------------ MODULE Transfers ------------------------------
(***************************************************************************)
(* How a request of libblock-device becomes one command: the limits the    *)
(* driver tells the library (Nvme_device::max_size, max_segments), the     *)
(* SGL or the PRPs that say where the data is, the number of logical       *)
(* blocks, and the size the client is told in the end (inout_data,         *)
(* readwrite_prepare_prp, readwrite_submit); and Write Zeroes (discard).   *)
(*                                                                         *)
(* PRPs are filled in by two functions, which decide independently how     *)
(* many pages there are; the list may go over several pages chained by     *)
(* their last entries.  Against them stands the way a controller reads it. *)
(***************************************************************************)
EXTENDS Integers, Sequences, FiniteSetsExt

CONSTANTS
  PageSize,        \* L4_PAGESIZE, also the memory page size of the controller
  EntriesPerPage,  \* Prp_list_entries_per_page
  ListPages,       \* Prp_list_pages
  Sgls,            \* Ioq_sgls
  MaxBytes,        \* the 4 MiB of max_size()
  NlbLimit,        \* 65536, one more than the largest NLB
  Bits32,          \* 2^32, one more than the largest length of a descriptor
  Controllers,     \* kinds of controllers and namespaces: SGLs, MDTS, sector size
  MaxAddr          \* bound: the largest DMA address at which data starts

ASSUME PageSizeAssumption == PageSize \in Nat /\ PageSize > 0
ASSUME EntriesAssumption == EntriesPerPage \in Nat /\ EntriesPerPage > 1
ASSUME ListPagesAssumption == ListPages \in Nat /\ ListPages > 0
ASSUME LimitsAssumption ==
  /\ Sgls \in Nat \ {0} /\ NlbLimit \in Nat \ {0}
  /\ MaxBytes \in Nat /\ Bits32 \in Nat /\ MaxBytes < Bits32
ASSUME ControllersAssumption ==
  Controllers \subseteq [sgl : BOOLEAN, mdts : Nat, lba_sz : Nat \ {0}]
ASSUME MaxAddrAssumption == MaxAddr \in Nat

\* Prp_list_entries, Prp_data_entries
ListEntries == ListPages * EntriesPerPage
DataEntries == 2 + ListEntries - ListPages

\* l4_trunc_page()
Trunc(a) == a - (a % PageSize)

\* What an entry is: unused, the address of a page of data, or a page of the list.
Unused      == <<"unused", 0>>
DataPage(a) == <<"data", a>>
ListPage(k) == <<"list", k>>

VARIABLES
  ctl,      \* the controller and the namespace's sector size; constant
  op,       \* "inout" or "zeroes"; constant
  blocks,   \* the request: the sectors of each block of the chain; constant
  dmaAddr,  \* the first block's DMA address; constant
  pc,       \* "request", "sgl", "prp", "submitted" or "refused"
  sz,       \* the size the client is told when the command has succeeded
  nlb,      \* the command's NLB
  sglLen,   \* the number of descriptors in the command's SGL segment
  sgls,     \* the descriptors of the command's cid
  prp2,     \* the command's second entry (the first is dmaAddr)
  prps,     \* the list of the command's cid
  paddr, remains, i, p   \* inout_data()'s variables

request == <<ctl, op, blocks, dmaAddr>>
vars == <<request, pc, sz, nlb, sglLen, sgls, prp2, prps, paddr, remains, i, p>>

-----------------------------------------------------------------------------
(* What the library is told, and what it therefore asks for.               *)

\* Nvme_device::max_segments()
MaxSegments(c) == IF c.sgl THEN Sgls ELSE 1

\* The controller's limit for a command: the page size, shifted left by MDTS, where
\* MDTS = 0 stands for none.
Mdts(c) ==
  LET Shifted[n \in 0 .. c.mdts] == IF n = 0 THEN PageSize ELSE 2 * Shifted[n - 1]
  IN  IF c.mdts = 0 THEN {} ELSE {Shifted[c.mdts]}

\* Mutant: one block may take up all of the controller's limit.
MutantMaxSize(c) ==
  LET own == IF c.sgl THEN {MaxBytes} ELSE {(DataEntries - 1) * PageSize}
  IN  Min(own \union Mdts(c) \union {(NlbLimit * c.lba_sz) \div MaxSegments(c)})

\* Mutant: NLB may take any value.
MutantNoNlbLimit(c) ==
  IF c.sgl THEN Min({MaxBytes} \union {limit \div Sgls : limit \in Mdts(c)})
           ELSE Min({(DataEntries - 1) * PageSize} \union Mdts(c))

\* Nvme_device::max_size(): the size of a block, so that all blocks of a request
\* together keep to MDTS and to what NLB can express, and a block without SGLs,
\* which may start inside a page, to the PRPs there are.
MaxSize(c) ==
  LET own == IF c.sgl
               THEN {MaxBytes} \union {limit \div Sgls : limit \in Mdts(c)}
               ELSE {(DataEntries - 1) * PageSize} \union Mdts(c)
  IN  Min(own \union {(NlbLimit * c.lba_sz) \div MaxSegments(c)})

\* The library passes on chains of up to max_segments() blocks, each of one sector
\* at least and of max_size() at most, and ranges to zero of any length.
Requests(c) ==
  {<<"inout", chain>> : chain \in
     UNION {[1 .. k -> 1 .. MaxSize(c) \div c.lba_sz] : k \in 1 .. MaxSegments(c)}}
  \union {<<"zeroes", <<n>>>> : n \in 0 .. NlbLimit + 1}

-----------------------------------------------------------------------------

Slots == 0 .. ListEntries - 1

Descriptor == [block : 0 .. Sgls, len : 0 .. Bits32 - 1]

TypeOK ==
  /\ ctl \in Controllers /\ <<op, blocks>> \in Requests(ctl)
  /\ dmaAddr \in 0 .. MaxAddr
  /\ pc \in {"request", "sgl", "prp", "submitted", "refused"}
  /\ sz \in Nat /\ nlb \in 0 .. NlbLimit - 1 /\ sglLen \in 0 .. Sgls
  /\ sgls \in [1 .. Sgls -> Descriptor]
  /\ prp2 \in {"unused", "data", "list"} \X Nat
  /\ prps \in [Slots -> {"unused", "data", "list"} \X Nat]
  /\ paddr \in Nat /\ remains \in Nat /\ p \in Nat
  /\ i \in 0 .. ListEntries + Sgls

Init ==
  /\ ctl \in Controllers
  /\ \E r \in Requests(ctl) : op = r[1] /\ blocks = r[2]
  /\ dmaAddr \in IF op = "inout" /\ ~ctl.sgl THEN 0 .. MaxAddr ELSE {0}
  /\ pc = "request"
  /\ sz = 0 /\ nlb = 0 /\ sglLen = 0
  /\ sgls = [k \in 1 .. Sgls |-> [block |-> 0, len |-> 0]]
  /\ prp2 = Unused
  /\ prps = [s \in Slots |-> Unused]
  /\ paddr = 0 /\ remains = 0 /\ i = 0 /\ p = 0

-----------------------------------------------------------------------------
(* inout_data() with SGLs                                                  *)

\* The sectors of the first k blocks of the chain
Sectors[k \in 0 .. Len(blocks)] == IF k = 0 THEN 0 ELSE Sectors[k - 1] + blocks[k]

\* Determine the request's size; the loop ends with the descriptors.
PrepareSgl ==
  LET counted == Min({Len(blocks), Sgls})
  IN  /\ pc = "request" /\ op = "inout" /\ ctl.sgl
      /\ pc' = "sgl"
      /\ sglLen' = counted
      /\ sz' = Sectors[counted] * ctl.lba_sz
      /\ UNCHANGED <<request, nlb, sgls, prp2, prps, paddr, remains, i, p>>

\* Construct the SGL, whose descriptors have lengths of 32 bits.
DescribeBlock ==
  /\ pc = "sgl" /\ i < sglLen
  /\ i' = i + 1
  /\ sgls' = [sgls EXCEPT ![i'] =
       [block |-> i', len |-> (blocks[i'] * ctl.lba_sz) % Bits32]]
  /\ UNCHANGED <<request, pc, sz, nlb, sglLen, prp2, prps, paddr, remains, p>>

-----------------------------------------------------------------------------
(* inout_data() without                                                    *)

\* What is written is capped at max_size().
Bytes == Min({blocks[1], MaxSize(ctl) \div ctl.lba_sz}) * ctl.lba_sz

\* Mutant: two pages are taken for two PRP entries wherever they start.
MutantSecondEntry ==
  IF Bytes <= PageSize THEN Unused
  ELSE IF Bytes > 2 * PageSize THEN ListPage(0)
  ELSE DataPage(Trunc(dmaAddr + Bytes - 1))

\* readwrite_prepare_prp(): the last page decides.
SecondEntry ==
  LET last == Trunc(dmaAddr + Bytes - 1)
  IN  IF Trunc(dmaAddr) = last THEN Unused
      ELSE IF Trunc(dmaAddr) # last - PageSize THEN ListPage(0)
      ELSE DataPage(last)

\* What is left for the list, `first' bytes being in the first page: nothing, if
\* it fits into the command's second entry.
Remaining(first) == IF Bytes <= first + PageSize THEN 0 ELSE Bytes - first

PreparePrp ==
  /\ pc = "request" /\ op = "inout" /\ ~ctl.sgl
  /\ pc' = "prp"
  /\ sz' = Bytes
  /\ prp2' = SecondEntry
  /\ paddr' = Trunc(dmaAddr + PageSize)
  /\ remains' = Remaining(paddr' - dmaAddr)
  /\ UNCHANGED <<request, nlb, sglLen, sgls, prps, i, p>>

Filling == pc = "prp" /\ remains # 0 /\ i < ListEntries

\* Mutant: the last entry of a page is a link even when it is the last of all.
MutantIsLink == i % EntriesPerPage = EntriesPerPage - 1

\* The last entry of a page, and not the last of all
IsLink == i % EntriesPerPage = EntriesPerPage - 1 /\ remains > PageSize

Link ==
  /\ Filling /\ IsLink
  /\ p' = p + 1
  /\ prps' = [prps EXCEPT ![i] = ListPage(p + 1)]
  /\ i' = i + 1
  /\ UNCHANGED <<request, pc, sz, nlb, sglLen, sgls, prp2, paddr, remains>>

\* Mutant: what remains is taken to be whole pages.
MutantEntry ==
  /\ Filling /\ ~IsLink
  /\ prps' = [prps EXCEPT ![i] = DataPage(paddr)]
  /\ paddr' = paddr + PageSize
  /\ remains' = remains - PageSize
  /\ i' = i + 1
  /\ UNCHANGED <<request, pc, sz, nlb, sglLen, sgls, prp2, p>>

Entry ==
  /\ Filling /\ ~IsLink
  /\ prps' = [prps EXCEPT ![i] = DataPage(paddr)]
  /\ paddr' = paddr + PageSize
  /\ remains' = IF remains < PageSize THEN 0 ELSE remains - PageSize
  /\ i' = i + 1
  /\ UNCHANGED <<request, pc, sz, nlb, sglLen, sgls, prp2, p>>

\* readwrite_submit(), with NLB one less than the sectors, in 16 bits
ReadwriteSubmit ==
  /\ (pc = "sgl" /\ i = sglLen) \/ (pc = "prp" /\ ~Filling)
  /\ pc' = "submitted"
  /\ nlb' = (sz \div ctl.lba_sz - 1) % NlbLimit
  /\ UNCHANGED <<request, sz, sglLen, sgls, prp2, prps, paddr, remains, i, p>>

-----------------------------------------------------------------------------

\* Mutant: the range is passed on as it is.
MutantDiscard ==
  /\ pc = "request" /\ op = "zeroes"
  /\ nlb' = (blocks[1] - 1) % NlbLimit /\ pc' = "submitted"
  /\ UNCHANGED <<request, sz, sglLen, sgls, prp2, prps, paddr, remains, i, p>>

\* discard(): a range NLB cannot express is refused.
Discard ==
  /\ pc = "request" /\ op = "zeroes"
  /\ IF blocks[1] = 0 \/ blocks[1] > NlbLimit
       THEN pc' = "refused" /\ UNCHANGED nlb
       ELSE nlb' = (blocks[1] - 1) % NlbLimit /\ pc' = "submitted"
  /\ UNCHANGED <<request, sz, sglLen, sgls, prp2, prps, paddr, remains, i, p>>

Next ==
  \/ PrepareSgl \/ DescribeBlock
  \/ PreparePrp \/ Link \/ Entry
  \/ ReadwriteSubmit \/ Discard

Spec == Init /\ [][Next]_vars

-----------------------------------------------------------------------------
(* How a controller reads the PRPs of a command of sz bytes at dmaAddr.    *)

PrpsSubmitted == pc = "submitted" /\ op = "inout" /\ ~ctl.sgl

\* The k-th page of the data, and how many there are
Page(k) == Trunc(dmaAddr) + k * PageSize
Pages   == (Trunc(dmaAddr + sz - 1) - Trunc(dmaAddr)) \div PageSize + 1

\* The slot of the list that the controller takes for the k-th page: the next one,
\* but when that is the last of a list page and more than one page of data is to
\* come, it holds the address of the list page to go on with.
SlotOf[k \in 1 .. Pages - 1] ==
  IF k = 1 THEN 0
  ELSE LET next == SlotOf[k - 1] + 1
       IN  IF next % EntriesPerPage = EntriesPerPage - 1 /\ k < Pages - 1
             THEN prps[next][2] * EntriesPerPage
             ELSE next

\* The controller finds exactly the pages of the data, in order, and never reads
\* an entry that the driver has not written for this request.
DeviceFindsPages ==
  PrpsSubmitted =>
    CASE Pages = 1 -> prp2 = Unused
      [] Pages = 2 -> prp2 = DataPage(Page(1))
      [] OTHER     ->
           /\ prp2 = ListPage(0)
           /\ \A k \in 1 .. Pages - 1 :
                SlotOf[k] \in Slots /\ prps[SlotOf[k]] = DataPage(Page(k))

\* The list always has room: the loop does not end for want of entries, and no
\* entry is used that the transfer does not need (the l4_assert after the loop).
ListSuffices ==
  PrpsSubmitted =>
    /\ remains = 0
    /\ Pages <= 2 => i = 0
    /\ Pages > 2 => i = (Pages - 1) + p

\* The bytes the client asked for
Requested == Sectors[Len(blocks)] * ctl.lba_sz

\* The controller is asked for exactly what the client asked for: NLB, which does
\* not wrap, the size the client is told, and the blocks the SGL describes; and
\* a range to zero is neither cut short nor made longer.
RequestDescribed ==
  pc = "submitted" =>
    /\ (nlb + 1) * ctl.lba_sz = Requested
    /\ op = "inout" => sz = Requested
    /\ op = "inout" /\ ctl.sgl =>
         /\ sglLen = Len(blocks)
         /\ \A k \in 1 .. sglLen :
              sgls[k] = [block |-> k, len |-> blocks[k] * ctl.lba_sz]

\* No read or write is larger than the controller accepts.
WithinMdts ==
  pc = "submitted" /\ op = "inout" => \A limit \in Mdts(ctl) : Requested <= limit

=============================================================================
