-------------------------- MODULE Transfers_proofs --------------------------
(***************************************************************************)
(* Proofs about Transfers.  The bytes of a transfer that starts inside a   *)
(* page are never divided here: what the loop of inout_data() has left to  *)
(* do is held between two multiples of the page size, and whatever the     *)
(* code decides by looking at bytes is shown to be a decision about pages. *)
(***************************************************************************)
EXTENDS Transfers, WellFoundedInduction, TLAPS

-----------------------------------------------------------------------------
(* The invariant                                                           *)

\* The largest number of sectors of a block
BlockLimit == MaxSize(ctl) \div ctl.lba_sz

\* The page of the data that slot s of the list stands for, counted from the first
\* page of the transfer: one page further per slot, but for the links before s.
PageOf(s) == s - (s \div EntriesPerPage) + 1

\* Whether slot s is a link.
Linking(s) == s % EntriesPerPage = EntriesPerPage - 1 /\ PageOf(s) < Pages - 1

\* A request with SGLs: all of its blocks are counted, and those done described.
SglInv ==
  pc \in {"sgl", "submitted"} /\ op = "inout" /\ ctl.sgl =>
    /\ sglLen = Len(blocks) /\ i <= sglLen
    /\ sz = Sectors[Len(blocks)] * ctl.lba_sz
    /\ pc = "submitted" => i = sglLen
    /\ \A k \in 1 .. i : sgls[k] = [block |-> k, len |-> blocks[k] * ctl.lba_sz]

UsingPrps == pc \in {"prp", "submitted"} /\ op = "inout" /\ ~ctl.sgl

\* While there is something left for the list: what is left are the pages that
\* the slots before i do not stand for, and the last entry of a list page has been
\* made a link only for the sake of more than one page.
Unfinished ==
  /\ Pages > 2
  /\ p = i \div EntriesPerPage
  /\ PageSize * (Pages - 2 - (i - p)) < remains
  /\ remains <= PageSize * (Pages - 1 - (i - p))
  /\ paddr = Page(i - p + 1)
  /\ i > 0 /\ i % EntriesPerPage = 0 => remains > PageSize

\* And afterwards: the last slot written stands for the last page.
Finished ==
  IF Pages <= 2 THEN i = 0 /\ p = 0
                ELSE i > 0 /\ p = (i - 1) \div EntriesPerPage /\ i - p = Pages - 1

\* The part of the list that has been filled in
Filled == \A s \in 0 .. i - 1 :
  prps[s] = IF Linking(s) THEN ListPage((s \div EntriesPerPage) + 1)
                          ELSE DataPage(Page(PageOf(s)))

PrpInv ==
  UsingPrps =>
    /\ sz = Bytes /\ prp2 = SecondEntry
    /\ i <= ListEntries
    /\ IF remains > 0 THEN Unfinished ELSE Finished
    /\ Filled

\* What each state of a request leaves untouched, and what submitting it says.
ProgressInv ==
  /\ pc = "request" => i = 0 /\ p = 0
  /\ pc = "sgl" => op = "inout" /\ ctl.sgl
  /\ pc = "prp" => op = "inout" /\ ~ctl.sgl
  /\ pc = "submitted" /\ op = "inout" => nlb = (sz \div ctl.lba_sz - 1) % NlbLimit
  /\ pc = "submitted" /\ op = "inout" /\ ~ctl.sgl => ~(remains # 0 /\ i < ListEntries)
  /\ pc = "submitted" /\ op = "zeroes" =>
       blocks[1] \in 1 .. NlbLimit /\ nlb = (blocks[1] - 1) % NlbLimit

IInv == TypeOK /\ ProgressInv /\ SglInv /\ PrpInv

-----------------------------------------------------------------------------
(* Numbers                                                                 *)

\* A nonempty set of naturals has a smallest member: the form in which the proofs
\* below use induction.
LEMMA Smallest ==
  ASSUME NEW S \in SUBSET Nat, S # {}
  PROVE  \E n \in S : \A m \in S : n <= m
<1>1. PICK n \in S : \A m \in S : ~ (<<m, n>> \in OpToRel(<, Nat))
  BY NatLessThanWellFounded, WFMin
<1>2. \A m \in S : ~ (m < n)
  BY <1>1 DEF OpToRel
<1>3. QED BY <1>2

\* What Min() chooses
LEMMA MinChosen ==
  ASSUME NEW S \in SUBSET Nat, S # {}
  PROVE  Min(S) \in S /\ \A y \in S : Min(S) <= y
BY Smallest DEF Min

\* Division and remainder belong together,
LEMMA Division ==
  ASSUME NEW a \in Int, NEW n \in Nat, n > 0
  PROVE  /\ a \div n \in Int /\ a % n \in Int
         /\ a = n * (a \div n) + (a % n)
         /\ 0 <= a % n /\ a % n < n
         /\ a >= 0 => a \div n >= 0
OBVIOUS

\* products keep the order of their second factors,
LEMMA ProductsInOrder ==
  ASSUME NEW n \in Nat, n > 0, NEW x \in Int, NEW y \in Int
  PROVE  /\ n * x \in Int
         /\ x < y => n * x + n <= n * y
         /\ x <= y => n * x <= n * y
         /\ n * x < n * y => x < y
         /\ n * x <= n * y => x <= y
OBVIOUS

\* and there is but one quotient and one remainder.
LEMMA DivisionUnique ==
  ASSUME NEW a \in Int, NEW n \in Nat, n > 0, NEW q \in Int, NEW r \in Int,
         a = n * q + r, 0 <= r, r < n
  PROVE  a \div n = q /\ a % n = r
<1> DEFINE d == a \div n
           m == a % n
<1>1. d \in Int /\ m \in Int /\ a = n * d + m /\ 0 <= m /\ m < n
  BY Division
<1> HIDE DEF d, m
<1>2. ~(d < q)
  <2>1. d < q => n * d + n <= n * q
    BY <1>1, ProductsInOrder
  <2>2. n * d \in Int /\ n * q \in Int
    BY <1>1, ProductsInOrder
  <2>3. QED BY <2>1, <2>2, <1>1
<1>3. ~(q < d)
  <2>1. q < d => n * q + n <= n * d
    BY <1>1, ProductsInOrder
  <2>2. n * d \in Int /\ n * q \in Int
    BY <1>1, ProductsInOrder
  <2>3. QED BY <2>1, <2>2, <1>1
<1>4. d = q
  BY <1>1, <1>2, <1>3
<1>5. m = r
  <2>1. n * d = n * q /\ n * q \in Int
    BY <1>4, ProductsInOrder
  <2>2. QED BY <2>1, <1>1
<1>6. QED BY <1>4, <1>5 DEF d, m

\* From one number to the next, only the remainder grows, until it starts again.
LEMMA NextDivision ==
  ASSUME NEW a \in Nat, NEW n \in Nat, n > 0
  PROVE  IF a % n = n - 1
         THEN (a + 1) \div n = a \div n + 1 /\ (a + 1) % n = 0
         ELSE (a + 1) \div n = a \div n /\ (a + 1) % n = (a % n) + 1
<1> DEFINE d == a \div n
           m == a % n
<1>1. d \in Int /\ m \in Int /\ a = n * d + m /\ 0 <= m /\ m < n
  BY Division
<1> HIDE DEF d, m
<1>2. n * d \in Int /\ n * (d + 1) = n * d + n
  BY <1>1
<1>3. CASE m = n - 1
  <2>1. a + 1 = n * (d + 1) + 0
    BY <1>1, <1>2, <1>3
  <2>2. (a + 1) \div n = d + 1 /\ (a + 1) % n = 0
    BY <2>1, <1>1, DivisionUnique
  <2>3. QED BY <2>2, <1>3 DEF d, m
<1>4. CASE m # n - 1
  <2>1. a + 1 = n * d + (m + 1) /\ 0 <= m + 1 /\ m + 1 < n
    BY <1>1, <1>2, <1>4
  <2>2. (a + 1) \div n = d /\ (a + 1) % n = m + 1
    BY <2>1, <1>1, DivisionUnique
  <2>3. QED BY <2>2, <1>4 DEF d, m
<1>5. QED BY <1>3, <1>4

\* Adding the divisor
LEMMA DivisionShifted ==
  ASSUME NEW a \in Nat, NEW n \in Nat, n > 0
  PROVE  (a + n) % n = a % n
<1> DEFINE d == a \div n
           m == a % n
<1>1. d \in Int /\ m \in Int /\ a = n * d + m /\ 0 <= m /\ m < n
  BY Division
<1> HIDE DEF d, m
<1>2. a + n = n * (d + 1) + m
  BY <1>1
<1>3. (a + n) % n = m
  BY <1>1, <1>2, DivisionUnique
<1>4. QED BY <1>3 DEF m

\* The recursive functions of the model, a sum and a shift, have the form: given at
\* 0, and by multiplying and adding from one number to the next.
Recurs(f, N, a0, factor, added) ==
  /\ f \in [0 .. N -> Nat] /\ f[0] = a0
  /\ \A n \in 1 .. N : f[n] = factor * f[n - 1] + added[n]

\* There are such functions up to any number,
LEMMA Recursion ==
  ASSUME NEW N \in Nat, NEW a0 \in Nat, NEW factor \in Nat,
         NEW added \in [1 .. N -> Nat]
  PROVE  \E f : Recurs(f, N, a0, factor, added)
<1> DEFINE Upto(m) == \E f : Recurs(f, m, a0, factor, added)
           Missing == {m \in 0 .. N : ~Upto(m)}
<1>1. ASSUME Missing # {} PROVE FALSE
  <2> HIDE DEF Upto
  <2>1. Missing \in SUBSET Nat
    OBVIOUS
  <2>2. PICK m \in Missing : \A l \in Missing : m <= l
    BY <1>1, <2>1, Smallest
  <2>3. m \in 0 .. N /\ ~Upto(m)
    OBVIOUS
  <2>4. Upto(0)
    <3>1. PICK f : f = [n \in 0 .. 0 |-> a0]
      OBVIOUS
    <3>2. f \in [0 .. 0 -> Nat] /\ f[0] = a0
      BY <3>1
    <3>3. \A n \in 1 .. 0 : f[n] = factor * f[n - 1] + added[n]
      OBVIOUS
    <3>4. QED BY <3>2, <3>3 DEF Upto, Recurs
  <2>5. m # 0
    BY <2>3, <2>4
  <2>6. m - 1 \in 0 .. N /\ m - 1 \notin Missing
    BY <2>2, <2>3, <2>5
  <2>7. PICK g \in [0 .. m - 1 -> Nat] :
          g[0] = a0 /\ \A n \in 1 .. m - 1 : g[n] = factor * g[n - 1] + added[n]
    BY <2>6 DEF Upto, Recurs
  <2>8. PICK f : f = [n \in 0 .. m |-> IF n = m THEN factor * g[m - 1] + added[m] ELSE g[n]]
    OBVIOUS
  <2>9. f \in [0 .. m -> Nat]
    <3>1. m \in 1 .. N /\ g[m - 1] \in Nat
      BY <2>3, <2>5, <2>7
    <3>2. added[m] \in Nat
      BY <3>1
    <3>3. \A v, w \in Nat : factor * v + w \in Nat
      OBVIOUS
    <3>4. factor * g[m - 1] + added[m] \in Nat
      BY <3>1, <3>2, <3>3
    <3>5. \A n \in 0 .. m : n # m => g[n] \in Nat
      BY <2>3, <2>7
    <3>6. QED BY <2>8, <3>4, <3>5
  <2>10. f[0] = a0
    BY <2>3, <2>5, <2>7, <2>8
  <2>11. ASSUME NEW n \in 1 .. m PROVE f[n] = factor * f[n - 1] + added[n]
    <3>1. n \in 0 .. m /\ n - 1 \in 0 .. m /\ n - 1 # m
      BY <2>3
    <3>2. f[n - 1] = g[n - 1]
      BY <2>8, <3>1
    <3>3. CASE n = m
      BY <2>8, <3>1, <3>2, <3>3
    <3>4. CASE n # m
      <4>1. n \in 1 .. m - 1
        BY <2>3, <3>4
      <4>2. f[n] = g[n]
        BY <2>8, <3>1, <3>4
      <4>3. QED BY <2>7, <3>2, <4>1, <4>2
    <3>5. QED BY <3>3, <3>4
  <2>12. QED BY <2>3, <2>9, <2>10, <2>11 DEF Upto, Recurs
<1>2. Upto(N)
  <2> HIDE DEF Upto
  <2>1. N \notin Missing
    <3> HIDE DEF Missing
    <3>1. QED BY <1>1
  <2>2. N \in 0 .. N
    OBVIOUS
  <2>3. QED BY <2>1, <2>2
<1>3. QED BY <1>2

\* and what TLA+ chooses when it reads the definition of a shift is one of them,
LEMMA Shifts ==
  ASSUME NEW N \in Nat, NEW a0 \in Nat
  PROVE  (CHOOSE f : f = [n \in 0 .. N |-> IF n = 0 THEN a0 ELSE 2 * f[n - 1]])[N] \in Nat
<1> DEFINE Body(f) == [n \in 0 .. N |-> IF n = 0 THEN a0 ELSE 2 * f[n - 1]]
           chosen == CHOOSE f : f = Body(f)
<1>1. PICK none \in [1 .. N -> Nat] : \A n \in 1 .. N : none[n] = 0
  <2>1. [n \in 1 .. N |-> 0] \in [1 .. N -> Nat]
    OBVIOUS
  <2>2. QED BY <2>1
<1>2. PICK f : Recurs(f, N, a0, 2, none)
  BY Recursion
<1>3. \A n \in 1 .. N : f[n] = 2 * f[n - 1]
  <2>1. \A n \in 1 .. N : f[n - 1] \in Nat
    BY <1>2 DEF Recurs
  <2>2. QED BY <1>1, <1>2, <2>1 DEF Recurs
<1>4. f = Body(f)
  BY <1>2, <1>3 DEF Recurs
<1>5. chosen = Body(chosen)
  BY <1>4
<1> HIDE DEF chosen
<1>6. \A n \in 0 .. N : chosen[n] \in Nat
  <2> DEFINE Bad == {n \in 0 .. N : chosen[n] \notin Nat}
  <2>1. ASSUME Bad # {} PROVE FALSE
    <3>1. Bad \in SUBSET Nat
      OBVIOUS
    <3>2. PICK n \in Bad : \A l \in Bad : n <= l
      BY <2>1, <3>1, Smallest
    <3>3. n # 0
      BY <1>5
    <3>4. n - 1 \in 0 .. N /\ n - 1 \notin Bad
      BY <3>2, <3>3
    <3>5. chosen[n] = 2 * chosen[n - 1]
      BY <1>5, <3>3
    <3>6. QED BY <3>2, <3>4, <3>5
  <2>2. QED BY <2>1
<1>7. QED BY <1>6 DEF chosen

\* and so is what it chooses for the definition of a sum.
Sum(N, w) == CHOOSE f : f = [n \in 0 .. N |-> IF n = 0 THEN 0 ELSE f[n - 1] + w[n]]

LEMMA Sums ==
  ASSUME NEW N \in Nat, NEW w \in [1 .. N -> Nat]
  PROVE  /\ Sum(N, w) \in [0 .. N -> Nat] /\ Sum(N, w)[0] = 0
         /\ \A n \in 1 .. N : Sum(N, w)[n] = Sum(N, w)[n - 1] + w[n]
<1> DEFINE Body(f) == [n \in 0 .. N |-> IF n = 0 THEN 0 ELSE f[n - 1] + w[n]]
           chosen == Sum(N, w)
<1>1. PICK f : Recurs(f, N, 0, 1, w)
  BY Recursion
<1>2. \A n \in 1 .. N : f[n] = f[n - 1] + w[n]
  <2>1. \A n \in 1 .. N : f[n - 1] \in Nat
    BY <1>1 DEF Recurs
  <2>2. QED BY <1>1, <2>1 DEF Recurs
<1>3. f = Body(f)
  BY <1>1, <1>2 DEF Recurs
<1>4. chosen = Body(chosen)
  BY <1>3 DEF Sum
<1> HIDE DEF chosen
<1>5. \A n \in 0 .. N : chosen[n] \in Nat
  <2> DEFINE Bad == {n \in 0 .. N : chosen[n] \notin Nat}
  <2>1. ASSUME Bad # {} PROVE FALSE
    <3>1. Bad \in SUBSET Nat
      OBVIOUS
    <3>2. PICK n \in Bad : \A l \in Bad : n <= l
      BY <2>1, <3>1, Smallest
    <3>3. n # 0
      BY <1>4
    <3>4. n - 1 \in 0 .. N /\ n - 1 \notin Bad
      BY <3>2, <3>3
    <3>5. chosen[n] = chosen[n - 1] + w[n]
      BY <1>4, <3>3
    <3>6. chosen[n - 1] \in Nat /\ w[n] \in Nat
      BY <3>3, <3>4
    <3>7. QED BY <3>2, <3>5, <3>6
  <2>2. QED BY <2>1
<1>6. chosen \in [0 .. N -> Nat] /\ chosen[0] = 0
  BY <1>4, <1>5
<1>7. \A n \in 1 .. N : chosen[n] = chosen[n - 1] + w[n]
  BY <1>4
<1>8. QED BY <1>6, <1>7 DEF chosen

-----------------------------------------------------------------------------
(* What the library is told                                                *)

\* MDTS is a number of bytes.
LEMMA MdtsType ==
  ASSUME NEW c \in Controllers
  PROVE  Mdts(c) \in SUBSET Nat
<1>1. c.mdts \in Nat /\ PageSize \in Nat
  BY ControllersAssumption, PageSizeAssumption
<1>2. QED BY <1>1, Shifts DEF Mdts

\* max_size() keeps to each of its limits.
LEMMA MaxSizeLimits ==
  ASSUME NEW c \in Controllers
  PROVE  /\ MaxSize(c) \in Nat
         /\ MaxSize(c) <= (NlbLimit * c.lba_sz) \div MaxSegments(c)
         /\ c.sgl => /\ MaxSize(c) <= MaxBytes
                     /\ \A limit \in Mdts(c) : MaxSize(c) <= limit \div Sgls
         /\ ~c.sgl => /\ MaxSize(c) <= (DataEntries - 1) * PageSize
                      /\ \A limit \in Mdts(c) : MaxSize(c) <= limit
<1>1. /\ c.lba_sz \in Nat /\ MaxSegments(c) \in Nat /\ MaxSegments(c) > 0
      /\ NlbLimit \in Nat /\ MaxBytes \in Nat /\ Sgls \in Nat /\ Sgls > 0
  BY ControllersAssumption, LimitsAssumption DEF MaxSegments
<1>2. Mdts(c) \in SUBSET Nat
  BY MdtsType
<1>3. (NlbLimit * c.lba_sz) \div MaxSegments(c) \in Nat
  <2>1. \A v, w \in Nat : v * w \in Nat
    OBVIOUS
  <2>2. NlbLimit * c.lba_sz \in Nat
    BY <1>1, <2>1
  <2>3. QED BY <1>1, <2>2, Division
<1>4. \A limit \in Mdts(c) : limit \div Sgls \in Nat
  BY <1>1, <1>2, Division
<1>5. (DataEntries - 1) * PageSize \in Nat
  <2>1. ListPages \in Nat /\ EntriesPerPage - 1 \in Nat /\ PageSize \in Nat
    BY EntriesAssumption, ListPagesAssumption, PageSizeAssumption
  <2>2. \A v, w \in Nat : v * w \in Nat
    OBVIOUS
  <2>3. DataEntries - 1 = 1 + ListPages * (EntriesPerPage - 1)
    BY EntriesAssumption, ListPagesAssumption DEF DataEntries, ListEntries
  <2>4. ListPages * (EntriesPerPage - 1) \in Nat
    BY <2>1, <2>2
  <2>5. 1 + ListPages * (EntriesPerPage - 1) \in Nat
    BY <2>4
  <2>6. QED BY <2>1, <2>2, <2>3, <2>5
<1>6. PICK last : last = (NlbLimit * c.lba_sz) \div MaxSegments(c)
  OBVIOUS
<1>7. CASE c.sgl
  <2>1. PICK all : all = {MaxBytes} \union {limit \div Sgls : limit \in Mdts(c)} \union {last}
    OBVIOUS
  <2>2. all \in SUBSET Nat /\ all # {}
    BY <1>1, <1>3, <1>4, <1>6, <2>1
  <2>3. MaxSize(c) = Min(all)
    BY <1>6, <1>7, <2>1 DEF MaxSize
  <2>4. Min(all) \in all /\ \A y \in all : Min(all) <= y
    BY <2>2, MinChosen
  <2>5. /\ last \in all /\ MaxBytes \in all
        /\ \A limit \in Mdts(c) : limit \div Sgls \in all
    BY <2>1
  <2>6. QED BY <1>6, <1>7, <2>2, <2>3, <2>4, <2>5
<1>8. CASE ~c.sgl
  <2>1. PICK all : all = {(DataEntries - 1) * PageSize} \union Mdts(c) \union {last}
    OBVIOUS
  <2>2. all \in SUBSET Nat /\ all # {}
    BY <1>2, <1>3, <1>5, <1>6, <2>1
  <2>3. MaxSize(c) = Min(all)
    BY <1>6, <1>8, <2>1 DEF MaxSize
  <2>4. Min(all) \in all /\ \A y \in all : Min(all) <= y
    BY <2>2, MinChosen
  <2>5. /\ last \in all /\ (DataEntries - 1) * PageSize \in all
        /\ \A limit \in Mdts(c) : limit \in all
    BY <2>1
  <2>6. QED BY <1>6, <1>8, <2>2, <2>3, <2>4, <2>5
<1>9. QED BY <1>7, <1>8

\* A request for data has as many blocks as there may be segments, none of them
\* empty and none larger than max_size(); one to zero is a single range.
LEMMA RequestShape ==
  ASSUME ctl \in Controllers, <<op, blocks>> \in Requests(ctl)
  PROVE  /\ op \in {"inout", "zeroes"}
         /\ op = "inout" => /\ Len(blocks) \in 1 .. MaxSegments(ctl)
                            /\ blocks \in [1 .. Len(blocks) -> 1 .. BlockLimit]
         /\ op = "zeroes" => Len(blocks) = 1 /\ blocks[1] \in 0 .. NlbLimit + 1
                             /\ blocks \in [1 .. 1 -> Nat]
<1>1. MaxSegments(ctl) \in Nat /\ NlbLimit \in Nat
  BY ControllersAssumption, LimitsAssumption DEF MaxSegments
<1>2. CASE \E k \in 1 .. MaxSegments(ctl) :
             op = "inout" /\ blocks \in [1 .. k -> 1 .. BlockLimit]
  <2>1. PICK k \in 1 .. MaxSegments(ctl) :
          op = "inout" /\ blocks \in [1 .. k -> 1 .. BlockLimit]
    BY <1>2
  <2>2. Len(blocks) = k
    BY <1>1, <2>1
  <2>3. QED BY <1>1, <2>1, <2>2
<1>3. CASE \E n \in 0 .. NlbLimit + 1 : op = "zeroes" /\ blocks = <<n>>
  <2>1. PICK n \in 0 .. NlbLimit + 1 : op = "zeroes" /\ blocks = <<n>>
    BY <1>3
  <2>2. n \in Nat
    BY <1>1
  <2>3. QED BY <2>1, <2>2
<1>4. QED BY <1>2, <1>3 DEF Requests, BlockLimit

\* A sum of numbers from 1 to M
LEMMA SumBounds ==
  ASSUME NEW N \in Nat, NEW M \in Nat, NEW w \in [1 .. N -> 1 .. M]
  PROVE  \A k \in 0 .. N : Sum(N, w)[k] \in Nat /\ k <= Sum(N, w)[k] /\ Sum(N, w)[k] <= M * k
<1>1. w \in [1 .. N -> Nat]
  OBVIOUS
<1>2. PICK s : s = Sum(N, w)
  OBVIOUS
<1>3. s \in [0 .. N -> Nat] /\ s[0] = 0 /\ \A n \in 1 .. N : s[n] = s[n - 1] + w[n]
  BY <1>1, <1>2, Sums
<1> DEFINE Bad == {k \in 0 .. N : ~(k <= s[k] /\ s[k] <= M * k)}
<1>4. ASSUME Bad # {} PROVE FALSE
  <2>1. Bad \in SUBSET Nat
    OBVIOUS
  <2>2. PICK k \in Bad : \A l \in Bad : k <= l
    BY <1>4, <2>1, Smallest
  <2>3. k # 0
    <3>1. M * 0 = 0
      OBVIOUS
    <3>2. QED BY <1>3, <3>1
  <2>4. k - 1 \in 0 .. N /\ k - 1 \notin Bad
    BY <2>2, <2>3
  <2>5. k - 1 <= s[k - 1] /\ s[k - 1] <= M * (k - 1) /\ s[k - 1] \in Nat
    BY <1>3, <2>4
  <2>6. w[k] \in 1 .. M /\ s[k] = s[k - 1] + w[k]
    BY <1>3, <2>3
  <2>7. M * (k - 1) + M = M * k /\ M * k \in Nat /\ M * (k - 1) \in Int
    OBVIOUS
  <2>8. QED BY <2>5, <2>6, <2>7
<1>5. QED BY <1>2, <1>3, <1>4

\* No more than n of at most `segments' blocks, each of M sectors of `lba' bytes
LEMMA Spread ==
  ASSUME NEW lba \in Nat, NEW M \in Nat, NEW n \in Nat, NEW segments \in Nat,
         NEW S \in Nat, NEW size \in Nat,
         S <= M * n, n <= segments, lba * M <= size
  PROVE  lba * S <= segments * size
<1>1. \A x, y, z \in Nat : y <= z => x * y <= x * z
  OBVIOUS
<1>2. M * n \in Nat /\ M * segments \in Nat /\ lba * M \in Nat /\ lba * S \in Nat
  OBVIOUS
<1>3. S <= M * segments
  <2>1. M * n <= M * segments
    BY <1>1
  <2>2. QED BY <1>2, <2>1
<1>4. lba * S <= lba * (M * segments)
  BY <1>1, <1>2, <1>3
<1>5. lba * (M * segments) = segments * (lba * M)
  OBVIOUS
<1>6. segments * (lba * M) <= segments * size
  BY <1>1, <1>2
<1>7. segments * size \in Nat /\ segments * (lba * M) \in Nat
  BY <1>2
<1>8. QED BY <1>2, <1>4, <1>5, <1>6, <1>7

\* The controller, its sector size and the request, from what is constant
Given == ctl \in Controllers /\ <<op, blocks>> \in Requests(ctl)

\* All blocks of a request together are what a command can express and what the
\* controller takes.
LEMMA Asked ==
  ASSUME Given, op = "inout"
  PROVE  /\ Sectors \in [0 .. Len(blocks) -> Nat]
         /\ Sectors[Len(blocks)] \in 1 .. NlbLimit
         /\ Requested \in Nat
         /\ \A limit \in Mdts(ctl) : Requested <= limit
<1> DEFINE n == Len(blocks)
           lba == ctl.lba_sz
           size == MaxSize(ctl)
           segments == MaxSegments(ctl)
           S == Sectors[Len(blocks)]
<1>1. ctl \in Controllers
  BY DEF Given
<1>2. /\ lba \in Nat /\ lba > 0 /\ segments \in Nat /\ segments > 0
      /\ NlbLimit \in Nat /\ Sgls \in Nat /\ Sgls > 0
  BY <1>1, ControllersAssumption, LimitsAssumption DEF MaxSegments
<1>3. n \in 1 .. segments /\ blocks \in [1 .. n -> 1 .. BlockLimit]
  BY RequestShape DEF Given
<1>4. size \in Nat
  BY <1>1, MaxSizeLimits
<1>5. BlockLimit \in Nat /\ lba * BlockLimit <= size
  <2>1. /\ BlockLimit \in Int /\ BlockLimit >= 0
        /\ size % lba \in Int /\ 0 <= size % lba /\ size = lba * BlockLimit + (size % lba)
    BY <1>2, <1>4, Division DEF BlockLimit
  <2>2. lba * BlockLimit \in Int
    BY <1>2, <2>1
  <2>3. QED BY <2>1, <2>2, <1>4
<1>6. Sectors = Sum(n, blocks)
  BY DEF Sectors, Sum
<1>7. Sectors \in [0 .. n -> Nat]
  <2>1. n \in Nat /\ blocks \in [1 .. n -> Nat]
    BY <1>2, <1>3, <1>5
  <2>2. QED BY <1>6, <2>1, Sums
<1>8. S \in Nat /\ n <= S /\ S <= BlockLimit * n
  <2>1. n \in Nat /\ n \in 0 .. n
    BY <1>2, <1>3
  <2>2. QED BY <1>3, <1>5, <1>6, <2>1, SumBounds
<1>9. n \in Nat /\ 1 <= n /\ n <= segments
  BY <1>2, <1>3
<1>10. lba * S \in Nat /\ S * lba = lba * S /\ Requested = S * lba
  BY <1>2, <1>8 DEF Requested
<1> HIDE DEF n, lba, size, segments, S
<1>11. lba * S <= segments * size
  BY <1>2, <1>4, <1>5, <1>8, <1>9, Spread
<1>12. \A x, y \in Nat : x <= y => segments * x <= segments * y
  BY <1>2
<1>13. segments * size \in Nat
  BY <1>2, <1>4
<1>14. S <= NlbLimit
  <2>1. size <= (NlbLimit * lba) \div segments
    BY <1>1, MaxSizeLimits DEF size, lba, segments
  <2>2. NlbLimit * lba \in Nat /\ lba * NlbLimit = NlbLimit * lba
    BY <1>2
  <2>3. PICK total \in Nat : total = NlbLimit * lba
    BY <2>2
  <2>4. PICK q \in Nat : q = total \div segments /\ segments * q <= total
    <3>1. /\ total \div segments \in Int /\ total \div segments >= 0
          /\ total % segments \in Int /\ 0 <= total % segments
          /\ total = segments * (total \div segments) + (total % segments)
      BY <1>2, Division
    <3>2. segments * (total \div segments) \in Int
      BY <1>2, <3>1
    <3>3. QED BY <3>1, <3>2
  <2>5. segments * size <= segments * q /\ segments * q \in Nat
    BY <1>2, <1>4, <1>12, <2>1, <2>3, <2>4
  <2>6. lba * S <= lba * NlbLimit
    BY <1>10, <1>11, <1>13, <2>2, <2>3, <2>4, <2>5
  <2>7. QED BY <1>2, <1>8, <2>6, ProductsInOrder
<1>15. ASSUME NEW limit \in Mdts(ctl) PROVE Requested <= limit
  <2>1. limit \in Nat
    BY <1>1, MdtsType
  <2>2. segments * size <= limit
    <3>1. CASE ctl.sgl
      <4>1. size <= limit \div Sgls /\ segments = Sgls
        BY <1>1, <3>1, MaxSizeLimits DEF size, segments, MaxSegments
      <4>2. PICK q \in Nat : q = limit \div segments /\ segments * q <= limit
        <5>1. /\ limit \div segments \in Int /\ limit \div segments >= 0
              /\ limit % segments \in Int /\ 0 <= limit % segments
              /\ limit = segments * (limit \div segments) + (limit % segments)
          BY <1>2, <2>1, Division
        <5>2. segments * (limit \div segments) \in Int
          BY <1>2, <5>1
        <5>3. QED BY <2>1, <5>1, <5>2
      <4>3. segments * size <= segments * q /\ segments * q \in Nat
        BY <1>2, <1>4, <1>12, <4>1, <4>2
      <4>4. QED BY <1>13, <2>1, <4>2, <4>3
    <3>2. CASE ~ctl.sgl
      <4>1. size <= limit /\ segments = 1
        BY <1>1, <3>2, MaxSizeLimits DEF size, segments, MaxSegments
      <4>2. QED BY <1>4, <4>1
    <3>3. QED BY <3>1, <3>2
  <2>3. QED BY <1>10, <1>11, <1>13, <2>1, <2>2
<1>16. S \in 1 .. NlbLimit
  BY <1>2, <1>8, <1>9, <1>14
<1>17. QED BY <1>7, <1>10, <1>15, <1>16 DEF n, S

\* No block is longer than max_size().
LEMMA BlockBytes ==
  ASSUME Given, op = "inout", NEW k \in 1 .. Len(blocks)
  PROVE  /\ blocks[k] \in 1 .. BlockLimit
         /\ blocks[k] * ctl.lba_sz \in Nat
         /\ 1 <= blocks[k] * ctl.lba_sz
         /\ blocks[k] * ctl.lba_sz <= MaxSize(ctl)
<1> DEFINE lba == ctl.lba_sz
           size == MaxSize(ctl)
<1>1. lba \in Nat /\ lba > 0 /\ size \in Nat
  BY ControllersAssumption, MaxSizeLimits DEF Given
<1>2. BlockLimit \in Nat /\ lba * BlockLimit <= size
  <2>0. BlockLimit = size \div lba
    BY DEF BlockLimit
  <2> HIDE DEF lba, size
  <2>1. /\ BlockLimit \in Int /\ BlockLimit >= 0
        /\ size % lba \in Int /\ 0 <= size % lba /\ size = lba * BlockLimit + (size % lba)
    BY <1>1, <2>0, Division
  <2>2. PICK limit \in Nat, rest \in Nat :
          limit = BlockLimit /\ size = lba * limit + rest
    BY <2>1
  <2>3. lba * limit \in Int
    BY <1>1
  <2>4. lba * limit <= size
    BY <1>1, <2>2, <2>3
  <2>5. QED BY <2>2, <2>4
<1>3. blocks[k] \in 1 .. BlockLimit
  BY RequestShape DEF Given
<1> HIDE DEF lba, size
<1>4. \A x, y, z \in Nat : y <= z => x * y <= x * z
  OBVIOUS
<1>5. PICK b \in Nat : b = blocks[k] /\ 1 <= b /\ b <= BlockLimit
  BY <1>2, <1>3
<1>6. lba * b \in Nat /\ lba * 1 <= lba * b /\ lba * b <= lba * BlockLimit
      /\ lba * BlockLimit \in Nat /\ b * lba = lba * b
  BY <1>1, <1>2, <1>4, <1>5
<1>7. b * lba <= size /\ 1 <= b * lba
  BY <1>1, <1>2, <1>6
<1>8. QED BY <1>3, <1>5, <1>6, <1>7 DEF lba, size

\* A descriptor's length does not wrap.
LEMMA LengthFits ==
  ASSUME Given, op = "inout", ctl.sgl, NEW k \in 1 .. Len(blocks)
  PROVE  (blocks[k] * ctl.lba_sz) % Bits32 = blocks[k] * ctl.lba_sz
<1>1. PICK len \in Nat : len = blocks[k] * ctl.lba_sz /\ len <= MaxSize(ctl)
  BY BlockBytes
<1>2. MaxSize(ctl) \in Nat /\ MaxSize(ctl) <= MaxBytes
  BY MaxSizeLimits DEF Given
<1>3. Bits32 \in Nat /\ MaxBytes \in Nat /\ MaxBytes < Bits32
  BY LimitsAssumption
<1>4. len = Bits32 * 0 + len /\ 0 <= len /\ len < Bits32 /\ Bits32 > 0
  BY <1>1, <1>2, <1>3
<1>5. len % Bits32 = len
  <2>1. len \in Int /\ 0 \in Int
    BY <1>1
  <2>2. QED BY <1>3, <1>4, <2>1, DivisionUnique
<1>6. QED BY <1>1, <1>5

\* Without SGLs, a request is one block, and the cap changes nothing.
LEMMA PrpBytes ==
  ASSUME Given, op = "inout", ~ctl.sgl
  PROVE  /\ Bytes = Requested
         /\ Bytes \in Nat /\ 1 <= Bytes /\ Bytes <= (DataEntries - 1) * PageSize
<1>1. Len(blocks) = 1
  BY RequestShape DEF Given, MaxSegments
<1>2. /\ blocks[1] \in 1 .. BlockLimit /\ blocks[1] * ctl.lba_sz \in Nat
      /\ 1 <= blocks[1] * ctl.lba_sz /\ blocks[1] * ctl.lba_sz <= MaxSize(ctl)
  <2>1. 1 \in 1 .. Len(blocks)
    BY <1>1
  <2>2. QED BY <2>1, BlockBytes
<1>3. BlockLimit \in Nat
  <2>1. ctl.lba_sz \in Nat /\ ctl.lba_sz > 0 /\ MaxSize(ctl) \in Nat
    BY ControllersAssumption, MaxSizeLimits DEF Given
  <2>2. QED BY <2>1, Division DEF BlockLimit
<1>4. Min({blocks[1], BlockLimit}) = blocks[1]
  <2>1. PICK b \in Nat : b = blocks[1] /\ b <= BlockLimit
    BY <1>2, <1>3
  <2>2. {b, BlockLimit} \in SUBSET Nat /\ {b, BlockLimit} # {}
    BY <1>3
  <2>3. Min({b, BlockLimit}) \in {b, BlockLimit} /\ Min({b, BlockLimit}) <= b
    BY <2>2, MinChosen
  <2>4. QED BY <1>3, <2>1, <2>3
<1>5. Bytes = blocks[1] * ctl.lba_sz
  BY <1>4 DEF Bytes, BlockLimit
<1>6. Sectors[1] = blocks[1]
  <2>1. PICK n \in Nat : n = 1 /\ n - 1 = 0 /\ blocks \in [1 .. n -> Nat]
    BY <1>1, <1>3, RequestShape DEF Given
  <2>2. Sectors = Sum(n, blocks)
    BY <1>1, <2>1 DEF Sectors, Sum
  <2>3. Sum(n, blocks)[0] = 0 /\ Sum(n, blocks)[n] = Sum(n, blocks)[n - 1] + blocks[n]
    <3>1. n \in 1 .. n
      BY <2>1
    <3>2. /\ Sum(n, blocks)[0] = 0
          /\ \A k \in 1 .. n : Sum(n, blocks)[k] = Sum(n, blocks)[k - 1] + blocks[k]
      <4>1. n \in Nat /\ blocks \in [1 .. n -> Nat]
        BY <2>1
      <4>2. QED BY <4>1, Sums
    <3>3. QED BY <3>1, <3>2
  <2>4. Sectors[1] = 0 + blocks[1]
    BY <2>1, <2>2, <2>3
  <2>5. QED BY <1>2, <1>3, <2>4
<1>7. Bytes = Requested
  BY <1>1, <1>5, <1>6 DEF Requested
<1>8. MaxSize(ctl) \in Nat /\ MaxSize(ctl) <= (DataEntries - 1) * PageSize
  BY MaxSizeLimits DEF Given
<1>9. (DataEntries - 1) * PageSize \in Int
  BY PageSizeAssumption, EntriesAssumption, ListPagesAssumption
     DEF DataEntries, ListEntries
<1>10. QED BY <1>2, <1>5, <1>7, <1>8, <1>9

-----------------------------------------------------------------------------
(* Pages of a transfer                                                     *)

\* How often a page begins in the transfer of `size' bytes from `addr'
Crossings(addr, size) == (Trunc(addr + size - 1) - Trunc(addr)) \div PageSize

\* The start of a page
LEMMA TruncFacts ==
  ASSUME NEW a \in Nat
  PROVE  /\ Trunc(a) \in Nat /\ a % PageSize \in Nat /\ a % PageSize < PageSize
         /\ Trunc(a) + (a % PageSize) = a
         /\ Trunc(a) = PageSize * (a \div PageSize) /\ a \div PageSize \in Nat
         /\ Trunc(a + PageSize) = Trunc(a) + PageSize
<1>1. PageSize \in Nat /\ PageSize > 0
  BY PageSizeAssumption
<1>2. /\ a \div PageSize \in Int /\ a \div PageSize >= 0
      /\ a % PageSize \in Int /\ 0 <= a % PageSize /\ a % PageSize < PageSize
      /\ a = PageSize * (a \div PageSize) + (a % PageSize)
  BY <1>1, Division
<1>3. PageSize * (a \div PageSize) \in Nat
  <2>1. \A v, w \in Nat : v * w \in Nat
    OBVIOUS
  <2>2. QED BY <1>1, <1>2, <2>1
<1>4. Trunc(a) = PageSize * (a \div PageSize)
  BY <1>2, <1>3 DEF Trunc
<1>5. (a + PageSize) % PageSize = a % PageSize
  BY <1>1, DivisionShifted
<1>6. Trunc(a + PageSize) = Trunc(a) + PageSize
  BY <1>1, <1>2, <1>5 DEF Trunc
<1>7. QED BY <1>2, <1>3, <1>4, <1>6

\* A transfer of at least one byte: the bytes that do not fit into its first page
\* reach into as many pages as there are crossings.
LEMMA CrossingsCounted ==
  ASSUME NEW addr \in Nat, NEW size \in Nat, size >= 1
  PROVE  /\ Crossings(addr, size) \in Nat
         /\ Trunc(addr + size - 1) = Trunc(addr) + PageSize * Crossings(addr, size)
         /\ PageSize * (Crossings(addr, size) - 1) < (addr % PageSize) + size - PageSize
         /\ (addr % PageSize) + size - PageSize <= PageSize * Crossings(addr, size)
<1>1. PageSize \in Nat /\ PageSize > 0
  BY PageSizeAssumption
<1>2. PICK last \in Nat : last = addr + size - 1
  OBVIOUS
<1>3. PICK a \in Nat, t \in Nat, o \in Nat :
        /\ t = Trunc(addr) /\ o = addr % PageSize /\ o < PageSize
        /\ t + o = addr /\ t = PageSize * a
  BY TruncFacts
<1>4. PICK b \in Nat, u \in Nat, r \in Nat :
        u = Trunc(last) /\ r < PageSize /\ u + r = last /\ u = PageSize * b
  BY <1>2, TruncFacts
<1>5. a <= b
  <2>1. PageSize * a < PageSize * (b + 1)
    <3>1. PageSize * (b + 1) = u + PageSize
      BY <1>1, <1>4
    <3>2. QED BY <1>1, <1>2, <1>3, <1>4, <3>1
  <2>2. a < b + 1
    BY <1>1, <2>1, ProductsInOrder
  <2>3. QED BY <2>2
<1>6. u - t = PageSize * (b - a) + 0 /\ b - a \in Nat
  BY <1>1, <1>3, <1>4, <1>5
<1>7. (u - t) \div PageSize = b - a
  <2>1. u - t \in Int /\ 0 \in Int /\ 0 < PageSize /\ 0 <= 0 /\ b - a \in Int
    BY <1>1, <1>3, <1>4
  <2>2. QED BY <1>1, <1>6, <2>1, DivisionUnique
<1>8. Crossings(addr, size) = b - a
  BY <1>2, <1>3, <1>4, <1>7 DEF Crossings
<1>9. PICK N \in Nat : N = b - a
  BY <1>5
<1>10. PICK m \in Nat : m = PageSize * N /\ u = t + m /\ PageSize * (N - 1) = m - PageSize
  BY <1>1, <1>3, <1>4, <1>6, <1>9
<1>11. m - PageSize < o + size - PageSize /\ o + size - PageSize <= m
  BY <1>1, <1>2, <1>3, <1>4, <1>10
<1>12. QED BY <1>2, <1>3, <1>4, <1>8, <1>9, <1>10, <1>11

\* The list has room for what max_size() allows: a data entry for each page but the
\* first two, and one more.
LEMMA CrossingsBounded ==
  ASSUME NEW addr \in Nat, NEW size \in Nat, size >= 1,
         size <= (DataEntries - 1) * PageSize
  PROVE  Crossings(addr, size) <= ListPages * (EntriesPerPage - 1) + 1
<1>1. PageSize \in Nat /\ PageSize > 0
  BY PageSizeAssumption
<1>2. PICK room \in Nat : room = ListPages * (EntriesPerPage - 1)
  BY ListPagesAssumption, EntriesAssumption
<1>3. DataEntries - 1 = room + 1
  BY <1>2, ListPagesAssumption, EntriesAssumption DEF DataEntries, ListEntries
<1>4. PICK N \in Nat, o \in Nat :
        /\ N = Crossings(addr, size) /\ o = addr % PageSize /\ o < PageSize
        /\ PageSize * (N - 1) < o + size - PageSize
  BY CrossingsCounted, TruncFacts
<1>5. PageSize * (N - 1) < PageSize * (room + 1)
  <2>1. size <= PageSize * (room + 1) /\ PageSize * (room + 1) \in Nat
    BY <1>1, <1>3
  <2>2. PageSize * (N - 1) \in Int
    BY <1>1
  <2>3. QED BY <1>1, <1>4, <2>1, <2>2
<1>6. N - 1 < room + 1
  BY <1>1, <1>5, ProductsInOrder
<1>7. QED BY <1>2, <1>4, <1>6

-----------------------------------------------------------------------------
(* Types                                                                   *)

\* What the two sides compute of a request has the types it is kept under.
LEMMA PrpTypes ==
  ASSUME TypeOK, op = "inout", ~ctl.sgl
  PROVE  /\ Bytes \in Nat
         /\ SecondEntry \in {"unused", "data", "list"} \X Nat
         /\ Trunc(dmaAddr + PageSize) \in Nat
         /\ Remaining(Trunc(dmaAddr + PageSize) - dmaAddr) \in Nat
<1>1. Bytes \in Nat /\ 1 <= Bytes
  BY PrpBytes DEF TypeOK, Given
<1>2. dmaAddr \in Nat /\ PageSize \in Nat
  BY MaxAddrAssumption, PageSizeAssumption DEF TypeOK
<1>3. dmaAddr + Bytes - 1 \in Nat /\ dmaAddr + PageSize \in Nat
  BY <1>1, <1>2
<1>4. Trunc(dmaAddr + Bytes - 1) \in Nat /\ Trunc(dmaAddr + PageSize) \in Nat
  BY <1>3, TruncFacts
<1>5. SecondEntry \in {"unused", "data", "list"} \X Nat
  BY <1>4 DEF SecondEntry, Unused, DataPage, ListPage
<1>6. Remaining(Trunc(dmaAddr + PageSize) - dmaAddr) \in Nat
  BY <1>1, <1>2, <1>4 DEF Remaining
<1>7. QED BY <1>1, <1>4, <1>5, <1>6

\* NLB is 16 bits wide.
LEMMA NlbTypes ==
  ASSUME NEW v \in Int
  PROVE  v % NlbLimit \in 0 .. NlbLimit - 1
<1>1. NlbLimit \in Nat /\ NlbLimit > 0
  BY LimitsAssumption
<1>2. QED BY <1>1, Division

LEMMA InitTypes == Init => TypeOK
<1> SUFFICES ASSUME Init PROVE TypeOK
  OBVIOUS
<1>1. <<op, blocks>> \in Requests(ctl)
  BY DEF Init, Requests
<1>2. dmaAddr \in 0 .. MaxAddr
  BY MaxAddrAssumption DEF Init
<1>3. ListEntries \in Nat /\ Sgls \in Nat /\ NlbLimit \in Nat /\ NlbLimit > 0
      /\ Bits32 \in Nat /\ Bits32 > 0
  BY ListPagesAssumption, EntriesAssumption, LimitsAssumption DEF ListEntries
<1>4. sgls \in [1 .. Sgls -> Descriptor]
  BY <1>3 DEF Init, Descriptor
<1>5. prps \in [Slots -> {"unused", "data", "list"} \X Nat] /\ prp2 \in {"unused", "data", "list"} \X Nat
  BY DEF Init, Unused
<1>6. QED BY <1>1, <1>2, <1>3, <1>4, <1>5 DEF Init, TypeOK

\* The type invariant leans on the others where a block's length is looked up: only
\* blocks of the request are.
LEMMA NextTypes == IInv /\ [Next]_vars => TypeOK'
<1> SUFFICES ASSUME TypeOK, ProgressInv, SglInv, [Next]_vars PROVE TypeOK'
  BY DEF IInv
<1>1. /\ ListEntries \in Nat /\ Sgls \in Nat /\ Sgls > 0 /\ PageSize \in Nat
      /\ Bits32 \in Nat /\ Bits32 > 0
  BY ListPagesAssumption, EntriesAssumption, LimitsAssumption, PageSizeAssumption
     DEF ListEntries
<1>2. Given /\ ctl.lba_sz \in Nat /\ ctl.lba_sz > 0
  BY ControllersAssumption DEF TypeOK, Given
<1>3. CASE PrepareSgl
  <2>1. op = "inout" /\ ctl.sgl
    BY <1>3 DEF PrepareSgl
  <2>2. Len(blocks) \in 1 .. Sgls
    BY <1>2, <2>1, RequestShape DEF Given, MaxSegments
  <2>3. Min({Len(blocks), Sgls}) \in 0 .. Sgls /\ Min({Len(blocks), Sgls}) <= Len(blocks)
    <3>1. {Len(blocks), Sgls} \in SUBSET Nat /\ {Len(blocks), Sgls} # {}
      BY <1>1, <2>2
    <3>2. /\ Min({Len(blocks), Sgls}) \in {Len(blocks), Sgls}
          /\ Min({Len(blocks), Sgls}) <= Len(blocks)
      BY <3>1, MinChosen
    <3>3. QED BY <1>1, <2>2, <3>2
  <2>4. Sectors[Min({Len(blocks), Sgls})] \in Nat
    <3>1. Sectors \in [0 .. Len(blocks) -> Nat]
      BY <1>2, <2>1, Asked
    <3>2. Min({Len(blocks), Sgls}) \in 0 .. Len(blocks)
      BY <1>1, <2>2, <2>3
    <3>3. QED BY <3>1, <3>2
  <2>5. \A v, w \in Nat : v * w \in Nat
    OBVIOUS
  <2>6. sz' \in Nat /\ sglLen' \in 0 .. Sgls
    BY <1>2, <1>3, <2>3, <2>4, <2>5 DEF PrepareSgl
  <2>7. QED BY <1>3, <2>6 DEF PrepareSgl, TypeOK, request
<1>4. CASE DescribeBlock
  <2>1. i \in Nat /\ i' = i + 1 /\ i' \in 1 .. Sgls /\ i' \in 0 .. ListEntries + Sgls
    BY <1>1, <1>4 DEF DescribeBlock, TypeOK
  <2>2. sgls' \in [1 .. Sgls -> Descriptor]
    <3>1. op = "inout" /\ ctl.sgl
      BY <1>4 DEF DescribeBlock, ProgressInv
    <3>2. PICK k \in 1 .. Len(blocks) : k = i'
      <4>1. Len(blocks) \in Nat /\ i < Len(blocks)
        BY <1>2, <1>4, <3>1, RequestShape DEF DescribeBlock, SglInv, Given, MaxSegments
      <4>2. QED BY <2>1, <4>1
    <3>3. PICK len \in Nat : len = blocks[k] * ctl.lba_sz
      BY <1>2, <3>1, BlockBytes
    <3>4. len % Bits32 \in 0 .. Bits32 - 1
      BY <1>1, <3>3, Division
    <3>5. [block |-> k, len |-> len % Bits32] \in Descriptor
      BY <2>1, <3>2, <3>4 DEF Descriptor
    <3>6. sgls' = [sgls EXCEPT ![k] = [block |-> k, len |-> len % Bits32]]
      BY <1>4, <3>2, <3>3 DEF DescribeBlock
    <3>7. QED BY <3>5, <3>6 DEF TypeOK
  <2>3. QED BY <1>4, <2>1, <2>2 DEF DescribeBlock, TypeOK, request
<1>5. CASE PreparePrp
  <2>1. op = "inout" /\ ~ctl.sgl
    BY <1>5 DEF PreparePrp
  <2>2. sz' \in Nat /\ prp2' \in {"unused", "data", "list"} \X Nat /\ paddr' \in Nat
        /\ remains' \in Nat
    BY <1>5, <2>1, PrpTypes DEF PreparePrp
  <2>3. QED BY <1>5, <2>2 DEF PreparePrp, TypeOK, request
<1>6. CASE Link
  <2>1. p' \in Nat /\ i' \in 0 .. ListEntries + Sgls
    BY <1>1, <1>6 DEF Link, Filling, TypeOK
  <2>2. ListPage(p + 1) \in {"unused", "data", "list"} \X Nat
    BY DEF TypeOK, ListPage
  <2>3. prps' \in [Slots -> {"unused", "data", "list"} \X Nat]
    BY <1>6, <2>2 DEF Link, TypeOK
  <2>4. QED BY <1>6, <2>1, <2>3 DEF Link, TypeOK, request
<1>7. CASE Entry
  <2>1. paddr' \in Nat /\ remains' \in Nat /\ i' \in 0 .. ListEntries + Sgls
    BY <1>1, <1>7 DEF Entry, Filling, TypeOK
  <2>2. DataPage(paddr) \in {"unused", "data", "list"} \X Nat
    BY DEF TypeOK, DataPage
  <2>3. prps' \in [Slots -> {"unused", "data", "list"} \X Nat]
    BY <1>7, <2>2 DEF Entry, TypeOK
  <2>4. QED BY <1>7, <2>1, <2>3 DEF Entry, TypeOK, request
<1>8. CASE ReadwriteSubmit
  <2>1. sz \div ctl.lba_sz - 1 \in Int
    BY <1>2, Division DEF TypeOK
  <2>2. nlb' \in 0 .. NlbLimit - 1
    BY <1>8, <2>1, NlbTypes DEF ReadwriteSubmit
  <2>3. QED BY <1>8, <2>2 DEF ReadwriteSubmit, TypeOK, request
<1>9. CASE Discard
  <2>1. blocks[1] - 1 \in Int
    BY <1>2, <1>9, RequestShape DEF Discard, Given
  <2>2. nlb' \in 0 .. NlbLimit - 1
    BY <1>9, <2>1, NlbTypes DEF Discard, TypeOK
  <2>3. QED BY <1>9, <2>2 DEF Discard, TypeOK, request
<1>10. CASE UNCHANGED vars
  BY <1>10 DEF vars, request, TypeOK
<1>11. QED BY <1>3, <1>4, <1>5, <1>6, <1>7, <1>8, <1>9, <1>10 DEF Next

-----------------------------------------------------------------------------
(* Requests with SGLs, and what every request goes through                 *)

LEMMA InitInv == Init => ProgressInv /\ SglInv /\ PrpInv
BY DEF Init, ProgressInv, SglInv, PrpInv, UsingPrps

LEMMA NextProgress == IInv /\ [Next]_vars => ProgressInv'
<1> SUFFICES ASSUME TypeOK, ProgressInv, [Next]_vars PROVE ProgressInv'
  BY DEF IInv
<1>1. CASE PrepareSgl
  BY <1>1 DEF PrepareSgl, ProgressInv, request
<1>2. CASE DescribeBlock
  BY <1>2 DEF DescribeBlock, ProgressInv, request
<1>3. CASE PreparePrp
  BY <1>3 DEF PreparePrp, ProgressInv, request
<1>4. CASE Link
  BY <1>4 DEF Link, Filling, ProgressInv, request
<1>5. CASE Entry
  BY <1>5 DEF Entry, Filling, ProgressInv, request
<1>6. CASE ReadwriteSubmit
  <2>1. op = "inout" /\ (~ctl.sgl => pc = "prp" /\ ~(remains # 0 /\ i < ListEntries))
    BY <1>6 DEF ReadwriteSubmit, ProgressInv, Filling
  <2>2. QED BY <1>6, <2>1 DEF ReadwriteSubmit, ProgressInv, request
<1>7. CASE Discard
  <2>1. op = "zeroes" /\ blocks[1] \in 0 .. NlbLimit + 1 /\ NlbLimit \in Nat
    BY <1>7, RequestShape, LimitsAssumption DEF Discard, TypeOK
  <2>2. ASSUME blocks[1] = 0 \/ blocks[1] > NlbLimit PROVE pc' = "refused"
    BY <1>7, <2>2 DEF Discard
  <2>3. ASSUME ~(blocks[1] = 0 \/ blocks[1] > NlbLimit)
        PROVE  /\ pc' = "submitted" /\ blocks[1] \in 1 .. NlbLimit
               /\ nlb' = (blocks[1] - 1) % NlbLimit
    BY <1>7, <2>1, <2>3 DEF Discard
  <2>4. UNCHANGED <<request, i, p>>
    BY <1>7 DEF Discard
  <2>5. QED BY <2>1, <2>2, <2>3, <2>4 DEF ProgressInv, request
<1>8. CASE UNCHANGED vars
  BY <1>8 DEF vars, request, ProgressInv
<1>9. QED BY <1>1, <1>2, <1>3, <1>4, <1>5, <1>6, <1>7, <1>8 DEF Next

\* The sum of the sectors depends on the request alone.
LEMMA SectorsKept == UNCHANGED request => Sectors' = Sectors
<1> SUFFICES ASSUME UNCHANGED request PROVE Sectors' = Sectors
  OBVIOUS
<1>1. blocks' = blocks
  BY DEF request
<1>2. Sectors = Sum(Len(blocks), blocks) /\ Sectors' = Sum(Len(blocks'), blocks')
  BY DEF Sectors, Sum
<1>3. QED BY <1>1, <1>2

LEMMA NextSgl == IInv /\ [Next]_vars => SglInv'
<1> SUFFICES ASSUME TypeOK, ProgressInv, SglInv, [Next]_vars PROVE SglInv'
  BY DEF IInv
<1>1. Given
  BY DEF TypeOK, Given
<1>2. UNCHANGED request
  BY DEF Next, PrepareSgl, DescribeBlock, PreparePrp, Link, Entry, ReadwriteSubmit,
         Discard, vars
<1>3. Sectors' = Sectors /\ op' = op /\ ctl' = ctl /\ blocks' = blocks
  BY <1>2, SectorsKept DEF request
<1>4. CASE PrepareSgl
  <2>1. op = "inout" /\ ctl.sgl /\ i = 0
    BY <1>4 DEF PrepareSgl, ProgressInv
  <2>2. Len(blocks) \in 1 .. Sgls /\ Sgls \in Nat
    BY <1>1, <2>1, RequestShape, LimitsAssumption DEF Given, MaxSegments
  <2>3. Min({Len(blocks), Sgls}) = Len(blocks)
    <3>1. PICK n \in Nat : n = Len(blocks) /\ n <= Sgls
      BY <2>2
    <3>2. {n, Sgls} \in SUBSET Nat /\ {n, Sgls} # {}
      BY <2>2
    <3>3. Min({n, Sgls}) \in {n, Sgls} /\ Min({n, Sgls}) <= n
      BY <3>2, MinChosen
    <3>4. QED BY <2>2, <3>1, <3>3
  <2>4. /\ sglLen' = Len(blocks) /\ sz' = Sectors[Len(blocks)] * ctl.lba_sz
        /\ i' = 0 /\ pc' = "sgl"
    BY <1>4, <2>1, <2>3 DEF PrepareSgl
  <2>5. \A k \in 1 .. 0 : FALSE
    OBVIOUS
  <2>6. QED BY <1>3, <2>2, <2>4, <2>5 DEF SglInv
<1>5. CASE DescribeBlock
  <2>1. /\ op = "inout" /\ ctl.sgl /\ pc = "sgl" /\ pc' = "sgl"
        /\ sglLen' = sglLen /\ sz' = sz /\ i' = i + 1 /\ i < sglLen
    BY <1>5 DEF DescribeBlock, ProgressInv
  <2>2. /\ sglLen = Len(blocks) /\ sglLen \in 0 .. Sgls /\ i \in Nat /\ Sgls \in Nat
        /\ sz = Sectors[Len(blocks)] * ctl.lba_sz
        /\ \A k \in 1 .. i : sgls[k] = [block |-> k, len |-> blocks[k] * ctl.lba_sz]
    BY <2>1, LimitsAssumption DEF SglInv, TypeOK
  <2>3. PICK n \in 1 .. Len(blocks) : n = i' /\ n \in 1 .. Sgls
    BY <2>1, <2>2
  <2>4. sgls' = [sgls EXCEPT ![n] = [block |-> n, len |-> blocks[n] * ctl.lba_sz]]
    <3>1. (blocks[n] * ctl.lba_sz) % Bits32 = blocks[n] * ctl.lba_sz
      BY <1>1, <2>1, LengthFits
    <3>2. QED BY <1>5, <2>3, <3>1 DEF DescribeBlock
  <2>5. ASSUME NEW k \in 1 .. i'
        PROVE  sgls'[k] = [block |-> k, len |-> blocks[k] * ctl.lba_sz]
    <3>1. CASE k = n
      BY <2>3, <2>4, <3>1 DEF TypeOK
    <3>2. CASE k # n
      <4>1. k \in 1 .. i /\ k \in 1 .. Sgls
        BY <2>1, <2>2, <2>3, <3>2
      <4>2. sgls'[k] = sgls[k]
        BY <2>4, <3>2, <4>1 DEF TypeOK
      <4>3. QED BY <2>2, <4>1, <4>2
    <3>3. QED BY <3>1, <3>2
  <2>6. i' <= sglLen'
    BY <2>1, <2>2
  <2>7. QED BY <1>3, <2>1, <2>2, <2>5, <2>6 DEF SglInv
<1>6. CASE ReadwriteSubmit
  <2>1. CASE op = "inout" /\ ctl.sgl
    <3>1. pc = "sgl" /\ i = sglLen
      BY <1>6, <2>1 DEF ReadwriteSubmit, ProgressInv
    <3>2. QED BY <1>3, <1>6, <2>1, <3>1 DEF ReadwriteSubmit, SglInv
  <2>2. CASE ~(op = "inout" /\ ctl.sgl)
    BY <1>3, <2>2 DEF SglInv
  <2>3. QED BY <2>1, <2>2
<1>7. CASE PreparePrp \/ Link \/ Entry \/ Discard
  <2>1. ~(op = "inout" /\ ctl.sgl)
    BY <1>7 DEF PreparePrp, Link, Entry, Filling, Discard, ProgressInv
  <2>2. QED BY <1>3, <2>1 DEF SglInv
<1>8. CASE UNCHANGED vars
  BY <1>3, <1>8 DEF vars, SglInv
<1>9. QED BY <1>4, <1>5, <1>6, <1>7, <1>8 DEF Next

-----------------------------------------------------------------------------
(* Requests without                                                        *)

\* Bytes that reach into their n-th page, and not further
LEMMA BytesToPages ==
  ASSUME NEW n \in Int, NEW r \in Int, PageSize * (n - 1) < r, r <= PageSize * n
  PROVE  r > PageSize <=> n > 1
<1>1. PageSize \in Nat /\ PageSize > 0
  BY PageSizeAssumption
<1>2. PICK u \in Int, v \in Int : u = PageSize * (n - 1) /\ v = PageSize * n
  BY <1>1
<1>3. PageSize * 1 = PageSize
  BY <1>1
<1>4. ASSUME r > PageSize PROVE n > 1
  <2>1. PageSize * 1 < PageSize * n
    BY <1>1, <1>2, <1>3, <1>4
  <2>2. 1 \in Int /\ n \in Int
    OBVIOUS
  <2>3. QED BY <1>1, <2>1, <2>2, ProductsInOrder
<1>5. ASSUME n > 1 PROVE r > PageSize
  <2>1. 1 <= n - 1 /\ n - 1 \in Int /\ 1 \in Int
    BY <1>5
  <2>2. PageSize * 1 <= PageSize * (n - 1)
    BY <1>1, <2>1, ProductsInOrder
  <2>3. QED BY <1>1, <1>2, <1>3, <2>2
<1>6. QED BY <1>4, <1>5

\* The slots of the list, and which page each stands for
LEMMA SlotFacts ==
  ASSUME NEW s \in Nat
  PROVE  /\ s \div EntriesPerPage \in Nat /\ s \div EntriesPerPage <= s
         /\ PageOf(s) \in Nat /\ PageOf(s) >= 1
         /\ IF s % EntriesPerPage = EntriesPerPage - 1
            THEN /\ (s + 1) \div EntriesPerPage = s \div EntriesPerPage + 1
                 /\ (s + 1) % EntriesPerPage = 0
                 /\ PageOf(s + 1) = PageOf(s)
            ELSE /\ (s + 1) \div EntriesPerPage = s \div EntriesPerPage
                 /\ (s + 1) % EntriesPerPage # 0
                 /\ PageOf(s + 1) = PageOf(s) + 1
<1>1. EntriesPerPage \in Nat /\ EntriesPerPage > 1
  BY EntriesAssumption
<1>2. PICK q \in Nat, r \in Nat :
        /\ q = s \div EntriesPerPage /\ r = s % EntriesPerPage
        /\ s = EntriesPerPage * q + r
  BY <1>1, Division
<1>3. q <= s
  <2>1. q <= EntriesPerPage * q /\ EntriesPerPage * q \in Nat
    BY <1>1
  <2>2. QED BY <1>2, <2>1
<1>4. IF r = EntriesPerPage - 1
      THEN /\ (s + 1) \div EntriesPerPage = q + 1
           /\ (s + 1) % EntriesPerPage = 0
      ELSE /\ (s + 1) \div EntriesPerPage = q
           /\ (s + 1) % EntriesPerPage = r + 1
  BY <1>1, <1>2, NextDivision
<1>5. QED BY <1>2, <1>3, <1>4 DEF PageOf

\* The first of them
LEMMA FirstSlot ==
  0 \div EntriesPerPage = 0 /\ 0 % EntriesPerPage = 0 /\ PageOf(0) = 1
<1>1. EntriesPerPage \in Nat /\ EntriesPerPage > 1
  BY EntriesAssumption
<1>2. 0 = EntriesPerPage * 0 + 0 /\ 0 \in Int
  BY <1>1
<1>3. 0 \div EntriesPerPage = 0 /\ 0 % EntriesPerPage = 0
  BY <1>1, <1>2, DivisionUnique
<1>4. QED BY <1>3 DEF PageOf

\* What the transfer's pages are to the loop
LEMMA PrpPages ==
  ASSUME TypeOK, PrpInv, UsingPrps
  PROVE  /\ Pages \in Nat /\ Pages >= 1 /\ Pages = Crossings(dmaAddr, Bytes) + 1
         /\ Pages - 1 <= ListPages * (EntriesPerPage - 1) + 1
         /\ i \in Nat /\ p \in Nat /\ remains \in Nat /\ dmaAddr \in Nat
<1>1. Given /\ op = "inout" /\ ~ctl.sgl /\ dmaAddr \in Nat /\ sz = Bytes
  BY MaxAddrAssumption DEF TypeOK, Given, UsingPrps, PrpInv
<1>2. Bytes \in Nat /\ 1 <= Bytes /\ Bytes <= (DataEntries - 1) * PageSize
  BY <1>1, PrpBytes
<1>3. Pages = Crossings(dmaAddr, Bytes) + 1
  BY <1>1 DEF Pages, Crossings
<1>4. PICK N \in Nat : N = Crossings(dmaAddr, Bytes)
  BY <1>1, <1>2, CrossingsCounted
<1>5. Crossings(dmaAddr, Bytes) <= ListPages * (EntriesPerPage - 1) + 1
  BY <1>1, <1>2, CrossingsBounded
<1>6. i \in Nat /\ p \in Nat /\ remains \in Nat
  BY ListPagesAssumption, EntriesAssumption, LimitsAssumption DEF TypeOK, ListEntries
<1>7. QED BY <1>1, <1>3, <1>4, <1>5, <1>6

\* Before the loop
LEMMA PreparePrpInv == TypeOK /\ ProgressInv /\ PreparePrp => PrpInv'
<1> SUFFICES ASSUME TypeOK, ProgressInv, PreparePrp PROVE PrpInv'
  OBVIOUS
<1>1. /\ op = "inout" /\ ~ctl.sgl /\ i = 0 /\ p = 0 /\ i' = 0 /\ p' = 0
      /\ UNCHANGED <<ctl, op, blocks, dmaAddr>>
  BY DEF PreparePrp, ProgressInv, request
<1>2. Given /\ dmaAddr \in Nat /\ PageSize \in Nat /\ PageSize > 0
  BY MaxAddrAssumption, PageSizeAssumption DEF TypeOK, Given
<1>3. Bytes \in Nat /\ 1 <= Bytes
  BY <1>1, <1>2, PrpBytes
<1>4. Bytes' = Bytes /\ SecondEntry' = SecondEntry
  BY <1>1 DEF Bytes, SecondEntry
<1>5. Pages' = Crossings(dmaAddr, Bytes) + 1
  BY <1>1 DEF PreparePrp, Pages, Crossings
<1>6. PICK N \in Nat, o \in Nat, t \in Nat :
        /\ N = Crossings(dmaAddr, Bytes) /\ o = dmaAddr % PageSize /\ t = Trunc(dmaAddr)
        /\ t + o = dmaAddr /\ Trunc(dmaAddr + PageSize) = t + PageSize
        /\ PageSize * (N - 1) < o + Bytes - PageSize
        /\ o + Bytes - PageSize <= PageSize * N
  <2>1. PICK N \in Nat :
          /\ N = Crossings(dmaAddr, Bytes)
          /\ PageSize * (N - 1) < (dmaAddr % PageSize) + Bytes - PageSize
          /\ (dmaAddr % PageSize) + Bytes - PageSize <= PageSize * N
    BY <1>2, <1>3, CrossingsCounted
  <2>2. PICK o \in Nat, t \in Nat :
          /\ o = dmaAddr % PageSize /\ t = Trunc(dmaAddr)
          /\ t + o = dmaAddr /\ Trunc(dmaAddr + PageSize) = t + PageSize
    <3>1. Trunc(dmaAddr) \in Nat /\ dmaAddr % PageSize \in Nat
      BY <1>2, TruncFacts
    <3>2. Trunc(dmaAddr) + (dmaAddr % PageSize) = dmaAddr
      BY <1>2, TruncFacts
    <3>3. Trunc(dmaAddr + PageSize) = Trunc(dmaAddr) + PageSize
      BY <1>2, TruncFacts
    <3>4. QED BY <3>1, <3>2, <3>3
  <2>3. QED BY <2>1, <2>2
<1>7. PICK r \in Int : r = o + Bytes - PageSize
  BY <1>2, <1>3
<1>8. remains' = IF r <= PageSize THEN 0 ELSE r
  <2>1. paddr' - dmaAddr = PageSize - o
    BY <1>2, <1>6 DEF PreparePrp
  <2>2. remains' = Remaining(PageSize - o)
    BY <2>1 DEF PreparePrp
  <2>3. Bytes <= (PageSize - o) + PageSize <=> r <= PageSize
    BY <1>2, <1>3, <1>6, <1>7
  <2>4. Bytes - (PageSize - o) = r
    BY <1>2, <1>3, <1>6, <1>7
  <2>5. QED BY <2>2, <2>3, <2>4 DEF Remaining
<1>9. r > PageSize <=> N > 1
  BY <1>6, <1>7, BytesToPages
<1>10. paddr' = Page(1)'
  BY <1>1, <1>2, <1>6 DEF PreparePrp, Page
<1>11. IF remains' > 0 THEN Unfinished' ELSE Finished'
  <2>1. CASE N > 1
    <3>1. remains' = r /\ remains' > 0 /\ Pages' > 2 /\ Pages' - 2 - (i' - p') = N - 1
          /\ Pages' - 1 - (i' - p') = N /\ i' - p' + 1 = 1
      BY <1>1, <1>2, <1>5, <1>6, <1>7, <1>8, <1>9, <2>1
    <3>2. p' = i' \div EntriesPerPage
      BY <1>1, FirstSlot
    <3>3. QED BY <1>1, <1>6, <1>7, <1>10, <3>1, <3>2 DEF Unfinished
  <2>2. CASE ~(N > 1)
    <3>1. remains' = 0 /\ Pages' <= 2
      BY <1>2, <1>5, <1>6, <1>7, <1>8, <1>9, <2>2
    <3>2. QED BY <1>1, <3>1 DEF Finished
  <2>3. QED BY <2>1, <2>2
<1>12. Filled'
  BY <1>1 DEF Filled
<1>13. sz' = Bytes' /\ prp2' = SecondEntry' /\ i' <= ListEntries
  BY <1>1, <1>4, ListPagesAssumption, EntriesAssumption DEF PreparePrp, ListEntries
<1>14. QED BY <1>11, <1>12, <1>13 DEF PrpInv

\* One more slot is filled in.
LEMMA FilledNext ==
  ASSUME Filled, i \in Nat, prps \in [Slots -> {"unused", "data", "list"} \X Nat],
         i \in Slots, UNCHANGED <<request, sz>>, i' = i + 1, NEW entry,
         prps' = [prps EXCEPT ![i] = entry],
         entry = IF Linking(i) THEN ListPage((i \div EntriesPerPage) + 1)
                               ELSE DataPage(Page(PageOf(i)))
  PROVE  Filled'
<1>1. UNCHANGED <<dmaAddr, sz>>
  BY DEF request
<1>2. ASSUME NEW s \in Nat
      PROVE  Linking(s)' = Linking(s) /\ Page(PageOf(s))' = Page(PageOf(s))
  <2>1. Pages' = Pages /\ PageOf(s)' = PageOf(s) /\ (\A k : Page(k)' = Page(k))
    BY <1>1 DEF Pages, PageOf, Page
  <2>2. QED BY <2>1 DEF Linking
<1>3. ListEntries \in Nat
  BY ListPagesAssumption, EntriesAssumption DEF ListEntries
<1>4. ASSUME NEW s \in 0 .. i' - 1
      PROVE  prps'[s] = IF Linking(s)' THEN ListPage((s \div EntriesPerPage) + 1)
                                       ELSE DataPage(Page(PageOf(s))')
  <2>1. s \in Nat /\ s \in Slots
    BY <1>3 DEF Slots
  <2>2. CASE s = i
    <3>1. prps'[s] = entry
      BY <2>2
    <3>2. entry = IF Linking(s) THEN ListPage((s \div EntriesPerPage) + 1)
                                ELSE DataPage(Page(PageOf(s)))
      BY <2>2
    <3>3. Linking(s)' = Linking(s) /\ Page(PageOf(s))' = Page(PageOf(s))
      BY <1>2, <2>1
    <3>4. QED BY <3>1, <3>2, <3>3
  <2>3. CASE s # i
    <3>1. s \in 0 .. i - 1
      BY <2>3
    <3>2. prps'[s] = prps[s]
      BY <2>1, <2>3
    <3>3. prps[s] = IF Linking(s) THEN ListPage((s \div EntriesPerPage) + 1)
                                  ELSE DataPage(Page(PageOf(s)))
      BY <3>1 DEF Filled
    <3>4. QED BY <1>2, <2>1, <3>2, <3>3
  <2>4. QED BY <2>2, <2>3
<1>5. QED BY <1>4 DEF Filled, ListPage, DataPage

\* A link is made when the slot that becomes it is a link to the reader, too.
LEMMA LinkInv == TypeOK /\ ProgressInv /\ PrpInv /\ Link => PrpInv'
<1> SUFFICES ASSUME TypeOK, ProgressInv, PrpInv, Link PROVE PrpInv'
  OBVIOUS
<1>1. UsingPrps /\ i < ListEntries /\ remains # 0 /\ IsLink
  BY DEF Link, Filling, ProgressInv, UsingPrps
<1>2. UNCHANGED <<request, pc, sz, prp2, paddr, remains>> /\ i' = i + 1 /\ p' = p + 1
  BY DEF Link
<1>3. i \in Nat /\ p \in Nat /\ remains \in Nat /\ dmaAddr \in Nat /\ Pages \in Nat /\ Pages >= 1
  BY <1>1, PrpPages
<1>4. Unfinished /\ Filled /\ sz = Bytes /\ prp2 = SecondEntry
  BY <1>1, <1>3 DEF PrpInv
<1>5. PICK N \in Nat, d \in Int : N = Pages - 1 /\ d = i - p
  BY <1>3
<1>6. Pages' = Pages /\ Bytes' = Bytes /\ SecondEntry' = SecondEntry /\ Page(d + 1)' = Page(d + 1)
  BY <1>2 DEF request, Pages, Bytes, SecondEntry, Page
<1>7. /\ p = i \div EntriesPerPage /\ PageOf(i) = d + 1
      /\ i % EntriesPerPage = EntriesPerPage - 1 /\ remains > PageSize
      /\ PageSize * ((N - d) - 1) < remains /\ remains <= PageSize * (N - d)
      /\ paddr = Page(d + 1)
  <2>1. p = i \div EntriesPerPage /\ i % EntriesPerPage = EntriesPerPage - 1
        /\ remains > PageSize /\ paddr = Page(d + 1)
    BY <1>1, <1>4, <1>5 DEF Unfinished, IsLink
  <2>2. PageOf(i) = d + 1
    BY <1>3, <1>5, <2>1 DEF PageOf
  <2>3. Pages - 2 - (i - p) = (N - d) - 1 /\ Pages - 1 - (i - p) = N - d
    BY <1>3, <1>5
  <2>4. QED BY <1>4, <2>1, <2>2, <2>3 DEF Unfinished
<1>8. N - d > 1
  BY <1>3, <1>5, <1>7, BytesToPages
<1>9. Linking(i)
  BY <1>5, <1>7, <1>8 DEF Linking
<1>10. (i + 1) \div EntriesPerPage = p + 1
  BY <1>3, <1>7, SlotFacts
<1>11. Filled'
  <2>1. i \in Slots
    BY <1>1, <1>3, ListPagesAssumption, EntriesAssumption DEF Slots, ListEntries
  <2>2. prps' = [prps EXCEPT ![i] = ListPage((i \div EntriesPerPage) + 1)]
    BY <1>7 DEF Link
  <2>3. QED BY <1>2, <1>3, <1>4, <1>9, <2>1, <2>2, FilledNext DEF TypeOK
<1>12. Unfinished'
  <2>1. i' - p' = d /\ p' = i' \div EntriesPerPage
    BY <1>2, <1>3, <1>5, <1>10
  <2>2. Pages' > 2
    BY <1>4, <1>6 DEF Unfinished
  <2>3. Pages' - 2 - (i' - p') = (N - d) - 1 /\ Pages' - 1 - (i' - p') = N - d
    BY <1>3, <1>5, <1>6, <2>1
  <2>4. paddr' = Page(i - p + 1)'
    BY <1>2, <1>6, <1>7, <2>1
  <2>5. QED BY <1>2, <1>7, <2>1, <2>2, <2>3, <2>4 DEF Unfinished
<1>13. i' <= ListEntries
  BY <1>1, <1>2, <1>3, ListPagesAssumption, EntriesAssumption DEF ListEntries
<1>14. sz' = Bytes' /\ prp2' = SecondEntry' /\ remains' > 0
  BY <1>1, <1>2, <1>3, <1>4, <1>6
<1>15. QED BY <1>11, <1>12, <1>13, <1>14 DEF PrpInv

\* An entry is made for the page whose turn it is.
LEMMA EntryInv == TypeOK /\ ProgressInv /\ PrpInv /\ Entry => PrpInv'
<1> SUFFICES ASSUME TypeOK, ProgressInv, PrpInv, Entry PROVE PrpInv'
  OBVIOUS
<1>1. UsingPrps /\ i < ListEntries /\ remains # 0 /\ ~IsLink
  BY DEF Entry, Filling, ProgressInv, UsingPrps
<1>2. /\ UNCHANGED <<request, pc, sz, prp2, p>> /\ i' = i + 1
      /\ paddr' = paddr + PageSize
      /\ remains' = IF remains < PageSize THEN 0 ELSE remains - PageSize
  BY DEF Entry
<1>3. i \in Nat /\ p \in Nat /\ remains \in Nat /\ dmaAddr \in Nat /\ Pages \in Nat /\ Pages >= 1
      /\ PageSize \in Nat /\ PageSize > 0
  BY <1>1, PrpPages, PageSizeAssumption
<1>4. Unfinished /\ Filled /\ sz = Bytes /\ prp2 = SecondEntry
  BY <1>1, <1>3 DEF PrpInv
<1>5. PICK N \in Nat, d \in Int : N = Pages - 1 /\ d = i - p
  BY <1>3
<1>6. Pages' = Pages /\ Bytes' = Bytes /\ SecondEntry' = SecondEntry /\ Page(d + 2)' = Page(d + 2)
  BY <1>2 DEF request, Pages, Bytes, SecondEntry, Page
<1>7. /\ p = i \div EntriesPerPage /\ PageOf(i) = d + 1
      /\ i % EntriesPerPage # EntriesPerPage - 1 \/ remains <= PageSize
      /\ PageSize * ((N - d) - 1) < remains /\ remains <= PageSize * (N - d)
      /\ paddr = Page(d + 1)
  <2>1. p = i \div EntriesPerPage /\ paddr = Page(d + 1)
        /\ (i % EntriesPerPage # EntriesPerPage - 1 \/ ~(remains > PageSize))
    BY <1>1, <1>4, <1>5 DEF Unfinished, IsLink
  <2>2. PageOf(i) = d + 1
    BY <1>3, <1>5, <2>1 DEF PageOf
  <2>3. Pages - 2 - (i - p) = (N - d) - 1 /\ Pages - 1 - (i - p) = N - d
    BY <1>3, <1>5
  <2>4. QED BY <1>3, <1>4, <2>1, <2>2, <2>3 DEF Unfinished
<1>8. remains > PageSize <=> N - d > 1
  BY <1>3, <1>5, <1>7, BytesToPages
<1>9. ~Linking(i)
  BY <1>3, <1>5, <1>7, <1>8 DEF Linking
<1>10. Filled'
  <2>1. i \in Slots
    BY <1>1, <1>3, ListPagesAssumption, EntriesAssumption DEF Slots, ListEntries
  <2>2. prps' = [prps EXCEPT ![i] = DataPage(Page(PageOf(i)))]
    BY <1>7 DEF Entry
  <2>3. QED BY <1>2, <1>3, <1>4, <1>9, <2>1, <2>2, FilledNext DEF TypeOK
<1>11. IF remains' > 0 THEN Unfinished' ELSE Finished'
  <2>1. CASE remains > PageSize
    <3>1. /\ i % EntriesPerPage # EntriesPerPage - 1
          /\ i' - p' = d + 1 /\ remains' = remains - PageSize /\ remains' > 0
      BY <1>2, <1>3, <1>5, <1>7, <2>1
    <3>2. p' = i' \div EntriesPerPage /\ i' % EntriesPerPage # 0
      BY <1>2, <1>3, <1>7, <3>1, SlotFacts
    <3>3. Pages' > 2
      BY <1>4, <1>6 DEF Unfinished
    <3>4. Pages' - 2 - (i' - p') = (N - d) - 2 /\ Pages' - 1 - (i' - p') = (N - d) - 1
      BY <1>3, <1>5, <1>6, <3>1
    <3>5. PageSize * ((N - d) - 2) < remains' /\ remains' <= PageSize * ((N - d) - 1)
      <4>1. /\ PageSize * ((N - d) - 2) = PageSize * ((N - d) - 1) - PageSize
            /\ PageSize * ((N - d) - 1) = PageSize * (N - d) - PageSize
            /\ PageSize * (N - d) \in Int
        BY <1>3, <1>5
      <4>2. QED BY <1>3, <1>7, <3>1, <4>1
    <3>6. paddr' = Page(d + 2)
      <4>1. Trunc(dmaAddr) \in Nat
        BY <1>3, TruncFacts
      <4>2. QED BY <1>2, <1>3, <1>5, <1>7, <4>1 DEF Page
    <3>7. paddr' = Page(i - p + 1)'
      <4>1. i' - p' + 1 = d + 2
        BY <1>5, <3>1
      <4>2. QED BY <1>6, <3>6, <4>1
    <3>8. Unfinished'
      BY <3>2, <3>3, <3>4, <3>5, <3>7 DEF Unfinished
    <3>9. QED BY <3>1, <3>8
  <2>2. CASE ~(remains > PageSize)
    <3>1. remains' = 0
      BY <1>2, <1>3, <2>2
    <3>2. N - d = 1
      <4>1. N - d > 0
        <5>1. PageSize * 0 < PageSize * (N - d)
          <6>1. PageSize * (N - d) \in Int /\ PageSize * 0 = 0
            BY <1>3, <1>5
          <6>2. QED BY <1>1, <1>3, <1>7, <6>1
        <5>2. 0 \in Int /\ N - d \in Int
          BY <1>5
        <5>3. QED BY <1>3, <5>1, <5>2, ProductsInOrder
      <4>2. QED BY <1>5, <1>8, <2>2, <4>1
    <3>3. i' > 0 /\ p' = (i' - 1) \div EntriesPerPage /\ i' - p' = Pages' - 1 /\ ~(Pages' <= 2)
      <4>1. i' - 1 = i
        BY <1>2, <1>3
      <4>2. i' - p' = Pages' - 1
        BY <1>2, <1>3, <1>5, <1>6, <3>2
      <4>3. ~(Pages' <= 2)
        BY <1>3, <1>4, <1>6 DEF Unfinished
      <4>4. QED BY <1>2, <1>3, <1>7, <4>1, <4>2, <4>3
    <3>4. QED BY <3>1, <3>3 DEF Finished
  <2>3. QED BY <2>1, <2>2
<1>12. i' <= ListEntries
  BY <1>1, <1>2, <1>3, ListPagesAssumption, EntriesAssumption DEF ListEntries
<1>13. sz' = Bytes' /\ prp2' = SecondEntry'
  BY <1>2, <1>4, <1>6
<1>14. QED BY <1>10, <1>11, <1>12, <1>13 DEF PrpInv

LEMMA NextPrp == IInv /\ [Next]_vars => PrpInv'
<1> SUFFICES ASSUME TypeOK, ProgressInv, PrpInv, [Next]_vars PROVE PrpInv'
  BY DEF IInv
<1>1. CASE PreparePrp
  BY <1>1, PreparePrpInv
<1>2. CASE Link
  BY <1>2, LinkInv
<1>3. CASE Entry
  BY <1>3, EntryInv
<1>4. CASE ReadwriteSubmit \/ UNCHANGED vars
  <2>1. UNCHANGED <<request, sz, sglLen, sgls, prp2, prps, paddr, remains, i, p>>
    BY <1>4 DEF ReadwriteSubmit, vars
  <2>2. UsingPrps' => UsingPrps
    BY <1>4, <2>1 DEF UsingPrps, ReadwriteSubmit, ProgressInv, vars, request
  <2>3. Pages' = Pages /\ Bytes' = Bytes /\ SecondEntry' = SecondEntry
        /\ (\A k : Page(k)' = Page(k)) /\ (\A s : PageOf(s)' = PageOf(s))
    BY <2>1 DEF request, Pages, Bytes, SecondEntry, Page, PageOf
  <2>4. \A s : Linking(s)' = Linking(s)
    BY <2>3 DEF Linking
  <2>5. Filled => Filled'
    BY <2>1, <2>3, <2>4 DEF Filled, ListPage, DataPage
  <2>6. (Unfinished => Unfinished') /\ (Finished => Finished')
    BY <2>1, <2>3 DEF Unfinished, Finished
  <2>7. QED BY <2>1, <2>2, <2>3, <2>5, <2>6 DEF PrpInv
<1>5. CASE PrepareSgl \/ DescribeBlock \/ Discard
  <2>1. ~UsingPrps'
    BY <1>5 DEF PrepareSgl, DescribeBlock, Discard, ProgressInv, UsingPrps, request
  <2>2. QED BY <2>1 DEF PrpInv
<1>6. QED BY <1>1, <1>2, <1>3, <1>4, <1>5 DEF Next

-----------------------------------------------------------------------------
(* What the invariant is for                                               *)

THEOREM InvariantCorrect == Spec => []IInv
<1>1. Init => IInv
  BY InitTypes, InitInv DEF IInv
<1>2. IInv /\ [Next]_vars => IInv'
  BY NextTypes, NextProgress, NextSgl, NextPrp DEF IInv
<1>3. QED BY <1>1, <1>2, PTL DEF Spec

\* Whatever the page size, the limits and the controller, what inout_data() and
\* discard() keep of a request has the type it is declared with: a count of bytes
\* never goes below zero, a length or NLB never out of its bits.
THEOREM TypeCorrect == Spec => []TypeOK
<1>1. IInv => TypeOK
  BY DEF IInv
<1>2. QED BY <1>1, InvariantCorrect, PTL

\* When the loop of inout_data() ends, all of the transfer is in the list.
LEMMA NothingRemains ==
  ASSUME IInv, PrpsSubmitted
  PROVE  remains = 0 /\ Finished
<1>1. UsingPrps /\ ~(remains # 0 /\ i < ListEntries)
  BY DEF IInv, PrpsSubmitted, UsingPrps, ProgressInv
<1>2. /\ Pages \in Nat /\ Pages - 1 <= ListPages * (EntriesPerPage - 1) + 1
      /\ i \in Nat /\ p \in Nat /\ remains \in Nat
  BY <1>1, PrpPages DEF IInv
<1>3. i <= ListEntries /\ IF remains > 0 THEN Unfinished ELSE Finished
  BY <1>1 DEF IInv, PrpInv
<1>4. PICK E \in Nat, L \in Nat : E = EntriesPerPage /\ E > 1 /\ L = ListPages /\ L > 0
  BY EntriesAssumption, ListPagesAssumption
<1>5. PICK all \in Nat : /\ all = E * L + 0 /\ all = ListEntries
                         /\ ListPages * (EntriesPerPage - 1) = all - L
  BY <1>4 DEF ListEntries
<1>6. ASSUME remains > 0 PROVE FALSE
  <2>1. i = all
    BY <1>1, <1>2, <1>3, <1>5, <1>6
  <2>2. i \div EntriesPerPage = L /\ i % EntriesPerPage = 0
    <3>1. all \in Int /\ L \in Int /\ 0 \in Int /\ 0 <= 0 /\ 0 < E /\ E > 0
      BY <1>4
    <3>2. all \div E = L /\ all % E = 0
      BY <1>4, <1>5, <3>1, DivisionUnique
    <3>3. QED BY <1>4, <2>1, <3>2
  <2>3. i > 0
    BY <1>4, <1>5, <2>1
  <2>4. p = L /\ remains > PageSize
    BY <1>3, <1>6, <2>2, <2>3 DEF Unfinished
  <2>5. PICK n \in Int : n = Pages - 1 - (i - p)
    BY <1>2
  <2>6. n > 1
    <3>1. Pages - 2 - (i - p) = n - 1
      BY <1>2, <2>5
    <3>2. PageSize * (n - 1) < remains /\ remains <= PageSize * n
      BY <1>3, <1>6, <2>5, <3>1 DEF Unfinished
    <3>3. QED BY <1>2, <2>4, <3>2, BytesToPages
  <2>7. QED BY <1>2, <1>5, <2>1, <2>4, <2>5, <2>6
<1>7. QED BY <1>2, <1>3, <1>6

\* For every size and start of a transfer that max_size() allows, the list has as
\* many entries as there are pages to go into it, links included, and no more are
\* used: the assertion after the loop holds.
THEOREM SufficesCorrect == Spec => []ListSuffices
<1>1. IInv => ListSuffices
  <2> SUFFICES ASSUME IInv, PrpsSubmitted
               PROVE  remains = 0 /\ (Pages <= 2 => i = 0) /\ (Pages > 2 => i = (Pages - 1) + p)
    BY DEF ListSuffices
  <2>1. remains = 0 /\ Finished
    BY NothingRemains
  <2>2. Pages \in Nat /\ i \in Nat /\ p \in Nat
    BY PrpPages DEF IInv, PrpsSubmitted, UsingPrps
  <2>3. QED BY <2>1, <2>2 DEF Finished
<1>2. QED BY <1>1, InvariantCorrect, PTL

\* A number of sectors that NLB expresses is what NLB expresses.
LEMMA NlbExact ==
  ASSUME NEW S \in 1 .. NlbLimit
  PROVE  ((S - 1) % NlbLimit) + 1 = S
<1>1. NlbLimit \in Nat /\ NlbLimit > 0 /\ S \in Nat
  BY LimitsAssumption
<1>2. S - 1 = NlbLimit * 0 + (S - 1) /\ 0 <= S - 1 /\ S - 1 < NlbLimit
  BY <1>1
<1>3. S - 1 \in Int /\ 0 \in Int
  BY <1>1
<1>4. (S - 1) % NlbLimit = S - 1
  BY <1>1, <1>2, <1>3, DivisionUnique
<1>5. QED BY <1>1, <1>4

\* What is submitted is what was asked for: NLB does not wrap, the size reported is
\* the size requested, each descriptor has the length of its block, and a range to
\* zero that NLB cannot express is not submitted.
THEOREM DescribedCorrect == Spec => []RequestDescribed
<1>1. IInv => RequestDescribed
  <2> SUFFICES ASSUME IInv, pc = "submitted"
               PROVE  /\ (nlb + 1) * ctl.lba_sz = Requested
                      /\ op = "inout" => sz = Requested
                      /\ op = "inout" /\ ctl.sgl =>
                           /\ sglLen = Len(blocks)
                           /\ \A k \in 1 .. sglLen :
                                sgls[k] = [block |-> k, len |-> blocks[k] * ctl.lba_sz]
    BY DEF RequestDescribed
  <2>1. Given /\ ctl.lba_sz \in Nat /\ ctl.lba_sz > 0
    BY ControllersAssumption DEF IInv, TypeOK, Given
  <2>2. op \in {"inout", "zeroes"}
    BY <2>1, RequestShape DEF Given
  <2>3. CASE op = "inout"
    <3>1. PICK S \in 1 .. NlbLimit : S = Sectors[Len(blocks)]
      BY <2>1, <2>3, Asked
    <3>2. S \in Nat /\ Requested = S * ctl.lba_sz
      BY <3>1, LimitsAssumption DEF Requested
    <3>3. sz = Requested
      <4>1. CASE ctl.sgl
        BY <2>3, <4>1 DEF IInv, SglInv, Requested
      <4>2. CASE ~ctl.sgl
        BY <2>1, <2>3, <4>2, PrpBytes DEF IInv, PrpInv, UsingPrps
      <4>3. QED BY <4>1, <4>2
    <3>4. sz \div ctl.lba_sz = S
      <4>1. PICK l \in Nat : l = ctl.lba_sz /\ l > 0
        BY <2>1
      <4>2. PICK bytes \in Int : bytes = l * S + 0 /\ bytes = sz
        BY <3>2, <3>3, <4>1
      <4>3. S \in Int /\ 0 \in Int /\ 0 <= 0 /\ 0 < l
        BY <3>2, <4>1
      <4>4. bytes \div l = S
        BY <4>1, <4>2, <4>3, DivisionUnique
      <4>5. QED BY <4>1, <4>2, <4>4
    <3>5. nlb + 1 = S
      <4>1. nlb = (S - 1) % NlbLimit
        BY <2>3, <3>4 DEF IInv, ProgressInv
      <4>2. QED BY <4>1, NlbExact
    <3>6. ctl.sgl => /\ sglLen = Len(blocks)
                     /\ \A k \in 1 .. sglLen :
                          sgls[k] = [block |-> k, len |-> blocks[k] * ctl.lba_sz]
      BY <2>3 DEF IInv, SglInv
    <3>7. QED BY <3>2, <3>3, <3>5, <3>6
  <2>4. CASE op = "zeroes"
    <3>1. PICK S \in 1 .. NlbLimit : S = blocks[1] /\ nlb = (S - 1) % NlbLimit
      BY <2>4 DEF IInv, ProgressInv
    <3>2. PICK n \in Nat : n = 1 /\ n - 1 = 0 /\ n = Len(blocks) /\ blocks \in [1 .. n -> Nat]
      BY <2>1, <2>4, RequestShape DEF Given
    <3>3. /\ Sum(n, blocks)[0] = 0
          /\ \A k \in 1 .. n : Sum(n, blocks)[k] = Sum(n, blocks)[k - 1] + blocks[k]
      BY <3>2, Sums
    <3>4. Sectors = Sum(n, blocks) /\ n \in 1 .. n
      <4>1. Sectors = Sum(Len(blocks), blocks)
        BY DEF Sectors, Sum
      <4>2. n \in 1 .. n
        BY <3>2
      <4>3. QED BY <3>2, <4>1, <4>2
    <3>5. Sectors[n] = Sectors[n - 1] + blocks[n] /\ Sectors[0] = 0
      BY <3>3, <3>4
    <3>6. Sectors[Len(blocks)] = S
      <4>1. S \in Nat
        BY <3>1, LimitsAssumption
      <4>2. Sectors[n] = 0 + S
        BY <3>1, <3>2, <3>5
      <4>3. QED BY <3>2, <4>1, <4>2
    <3>7. nlb + 1 = S
      BY <3>1, NlbExact
    <3>8. QED BY <2>4, <3>6, <3>7 DEF Requested
  <2>5. QED BY <2>2, <2>3, <2>4
<1>2. QED BY <1>1, InvariantCorrect, PTL

\* Nothing that is read or written in one command exceeds what the controller says
\* it takes, for any MDTS and any number of segments.
THEOREM MdtsCorrect == Spec => []WithinMdts
<1>1. IInv => WithinMdts
  <2> SUFFICES ASSUME IInv, op = "inout" PROVE \A limit \in Mdts(ctl) : Requested <= limit
    BY DEF WithinMdts
  <2>1. Given
    BY DEF IInv, TypeOK, Given
  <2>2. QED BY <2>1, Asked
<1>2. QED BY <1>1, InvariantCorrect, PTL

-----------------------------------------------------------------------------
(* The controller follows the list                                         *)

\* The slot the controller takes for the k-th page after slot s
SlotAfter(s, k) ==
  IF (s + 1) % EntriesPerPage = EntriesPerPage - 1 /\ k < Pages - 1
    THEN prps[s + 1][2] * EntriesPerPage
    ELSE s + 1

\* Reading on up to the m-th page
Reads(g, m) == g = [k \in 1 .. m |-> IF k = 1 THEN 0 ELSE SlotAfter(g[k - 1], k)]

\* A slot that holds the k-th page
Holds(s, k) == s \in 0 .. i - 1 /\ PageOf(s) = k /\ ~Linking(s)

\* A list that is complete: its last slot stands for the last page.
Complete == /\ Filled /\ i \in Nat /\ i > 0 /\ Pages \in Nat /\ Pages > 2
            /\ PageOf(i - 1) = Pages - 1

\* Coming from the slot of one page, the controller gets to the slot of the next,
\* across a link if the driver has made one.
LEMMA ReaderFollows ==
  ASSUME Complete, NEW k \in 2 .. Pages - 1, NEW s, Holds(s, k - 1)
  PROVE  Holds(SlotAfter(s, k), k)
<1>1. PICK E \in Nat : E = EntriesPerPage /\ E > 1
  BY EntriesAssumption
<1>2. PICK N \in Nat : N = Pages - 1 /\ k \in 2 .. N /\ PageOf(i - 1) = N
  BY DEF Complete
<1>3. i \in Nat /\ s \in 0 .. i - 1 /\ s \in Nat /\ k \in Nat /\ PageOf(s) = k - 1 /\ ~Linking(s)
  BY DEF Holds, Complete
<1>4. s % E # E - 1
  BY <1>1, <1>2, <1>3 DEF Linking
<1>5. PICK next \in Nat : next = s + 1 /\ PageOf(next) = k
  BY <1>1, <1>3, <1>4, SlotFacts
<1>6. next \in 0 .. i - 1
  <2>1. PageOf(i - 1) # PageOf(s)
    BY <1>2, <1>3
  <2>2. s # i - 1
    BY <2>1
  <2>3. QED BY <1>3, <1>5, <2>2
<1>7. CASE next % E = E - 1 /\ k < N
  <2>1. Linking(next)
    BY <1>1, <1>2, <1>5, <1>7 DEF Linking
  <2>2. PICK q \in Nat : q = next \div E /\ next + 1 = (q + 1) * E
    <3>1. PICK q \in Int : q = next \div E /\ q >= 0 /\ next = E * q + (next % E)
      BY <1>1, Division
    <3>2. (q + 1) * E = E * q + E
      BY <1>1
    <3>3. E * q \in Int
      BY <1>1
    <3>4. QED BY <1>1, <1>7, <3>1, <3>2, <3>3
  <2>3. prps[next] = ListPage(q + 1)
    BY <1>1, <1>6, <2>1, <2>2 DEF Complete, Filled
  <2>4. SlotAfter(s, k) = next + 1
    <3>1. prps[next][2] = q + 1
      BY <2>3 DEF ListPage
    <3>2. SlotAfter(s, k) = prps[next][2] * E
      BY <1>1, <1>2, <1>5, <1>7 DEF SlotAfter
    <3>3. QED BY <2>2, <3>1, <3>2
  <2>5. PageOf(next + 1) = k /\ (next + 1) % E = 0
    BY <1>1, <1>5, <1>7, SlotFacts
  <2>6. next + 1 \in 0 .. i - 1
    <3>1. PageOf(i - 1) # PageOf(next)
      BY <1>2, <1>5, <1>7
    <3>2. next # i - 1
      BY <3>1
    <3>3. QED BY <1>3, <1>6, <3>2
  <2>7. ~Linking(next + 1)
    BY <1>1, <2>5 DEF Linking
  <2>8. QED BY <2>4, <2>5, <2>6, <2>7 DEF Holds
<1>8. CASE ~(next % E = E - 1 /\ k < N)
  <2>1. SlotAfter(s, k) = next
    BY <1>1, <1>2, <1>5, <1>8 DEF SlotAfter
  <2>2. ~Linking(next)
    BY <1>1, <1>2, <1>5, <1>8 DEF Linking
  <2>3. QED BY <1>5, <1>6, <2>1, <2>2 DEF Holds
<1>9. QED BY <1>7, <1>8

\* So every slot it takes holds its page, however far it reads,
LEMMA ReaderFinds ==
  ASSUME Complete, NEW m \in 1 .. Pages - 1, NEW g, Reads(g, m)
  PROVE  \A k \in 1 .. m : Holds(g[k], k)
<1> DEFINE Bad == {k \in 1 .. m : ~Holds(g[k], k)}
<1>1. Pages \in Nat /\ m \in Nat
  BY DEF Complete
<1>2. Holds(0, 1)
  <2>1. 0 \in 0 .. i - 1
    BY DEF Complete
  <2>2. ~Linking(0)
    BY FirstSlot, EntriesAssumption DEF Linking
  <2>3. QED BY <2>1, <2>2, FirstSlot DEF Holds
<1>3. ASSUME Bad # {} PROVE FALSE
  <2>1. Bad \in SUBSET Nat
    BY <1>1
  <2>2. PICK k \in Bad : \A l \in Bad : k <= l
    BY <1>3, <2>1, Smallest
  <2>3. k \in 1 .. m /\ ~Holds(g[k], k)
    OBVIOUS
  <2>4. g[k] = IF k = 1 THEN 0 ELSE SlotAfter(g[k - 1], k)
    BY <2>3 DEF Reads
  <2>5. k # 1
    BY <1>2, <2>3, <2>4
  <2>6. k - 1 \in 1 .. m /\ k - 1 \notin Bad
    BY <1>1, <2>2, <2>3, <2>5
  <2>7. Holds(g[k - 1], k - 1)
    BY <2>6
  <2>8. k \in 2 .. Pages - 1
    BY <1>1, <2>3, <2>5
  <2>9. Holds(SlotAfter(g[k - 1], k), k)
    BY <2>7, <2>8, ReaderFollows
  <2>10. QED BY <2>3, <2>4, <2>5, <2>9
<1>4. QED BY <1>3

\* and reading on is always possible.
LEMMA ReaderReads ==
  ASSUME Complete, NEW m \in 1 .. Pages - 1
  PROVE  \E g : Reads(g, m)
<1> DEFINE Stuck == {n \in 1 .. Pages - 1 : ~\E g : Reads(g, n)}
<1>1. Pages \in Nat
  BY DEF Complete
<1>2. ASSUME Stuck # {} PROVE FALSE
  <2>1. Stuck \in SUBSET Nat
    BY <1>1
  <2>2. PICK n \in Stuck : \A l \in Stuck : n <= l
    BY <1>2, <2>1, Smallest
  <2>3. n \in 1 .. Pages - 1 /\ ~\E g : Reads(g, n)
    OBVIOUS
  <2>4. n # 1
    <3>1. PICK g : g = [k \in 1 .. 1 |-> 0]
      OBVIOUS
    <3>2. Reads(g, 1)
      <4>1. \A k \in 1 .. 1 : k = 1
        OBVIOUS
      <4>2. [k \in 1 .. 1 |-> IF k = 1 THEN 0 ELSE SlotAfter(g[k - 1], k)] = [k \in 1 .. 1 |-> 0]
        BY <4>1, Zenon
      <4>3. QED BY <3>1, <4>2 DEF Reads
    <3>3. QED BY <2>3, <3>2
  <2>5. n - 1 \in 1 .. Pages - 1 /\ n - 1 \notin Stuck
    BY <1>1, <2>2, <2>3, <2>4
  <2>6. PICK g : Reads(g, n - 1)
    BY <2>5
  <2>7. PICK h : h = [k \in 1 .. n |-> IF k = n THEN SlotAfter(g[n - 1], n) ELSE g[k]]
    OBVIOUS
  <2>8. ASSUME NEW k \in 1 .. n
        PROVE  h[k] = IF k = 1 THEN 0 ELSE SlotAfter(h[k - 1], k)
    <3>1. n \in Nat /\ k \in Nat
      BY <1>1, <2>3
    <3>2. CASE k = n
      <4>1. n - 1 \in 1 .. n /\ n - 1 # n
        BY <2>4, <2>3, <3>1
      <4>2. h[n - 1] = g[n - 1] /\ h[n] = SlotAfter(g[n - 1], n)
        BY <2>7, <3>2, <4>1
      <4>3. QED BY <2>4, <3>2, <4>2
    <3>3. CASE k # n
      <4>1. k \in 1 .. n - 1
        BY <3>1, <3>3
      <4>2. g[k] = IF k = 1 THEN 0 ELSE SlotAfter(g[k - 1], k)
        BY <2>6, <4>1 DEF Reads
      <4>3. h[k] = g[k]
        BY <2>7, <3>3
      <4>4. CASE k = 1
        BY <4>2, <4>3, <4>4
      <4>5. CASE k # 1
        <5>1. k - 1 \in 1 .. n /\ k - 1 # n
          BY <3>1, <4>1, <4>5
        <5>2. h[k - 1] = g[k - 1]
          BY <2>7, <5>1
        <5>3. QED BY <4>2, <4>3, <4>5, <5>2
      <4>6. QED BY <4>4, <4>5
    <3>4. QED BY <3>2, <3>3
  <2>9. Reads(h, n)
    <3>1. h = [k \in 1 .. n |-> h[k]]
      BY <2>7
    <3>2. [k \in 1 .. n |-> h[k]] = [k \in 1 .. n |-> IF k = 1 THEN 0 ELSE SlotAfter(h[k - 1], k)]
      BY <2>8, Zenon
    <3>3. QED BY <3>1, <3>2 DEF Reads
  <2>10. QED BY <2>3, <2>9
<1>3. m \notin Stuck
  <2> HIDE DEF Stuck
  <2>1. QED BY <1>2
<1>4. QED BY <1>3

\* The controller finds exactly the pages of the data: for every page size, every
\* length of the list and of its pages, every request that max_size() lets through
\* and every address it may start at, what inout_data() writes and what
\* readwrite_prepare_prp() decides about the second entry fit together and are
\* read back as the pages of the transfer, in order.
THEOREM FindsPagesCorrect == Spec => []DeviceFindsPages
<1>1. IInv => DeviceFindsPages
  <2> SUFFICES ASSUME IInv, PrpsSubmitted
               PROVE  /\ Pages = 1 => prp2 = Unused
                      /\ Pages = 2 => prp2 = DataPage(Page(1))
                      /\ Pages # 1 /\ Pages # 2 =>
                           /\ prp2 = ListPage(0)
                           /\ \A k \in 1 .. Pages - 1 :
                                SlotOf[k] \in Slots /\ prps[SlotOf[k]] = DataPage(Page(k))
    BY DEF DeviceFindsPages
  <2>1. UsingPrps /\ Finished
    BY NothingRemains DEF PrpsSubmitted, UsingPrps
  <2>2. /\ Pages \in Nat /\ Pages >= 1 /\ Pages = Crossings(dmaAddr, Bytes) + 1
        /\ i \in Nat /\ p \in Nat /\ dmaAddr \in Nat
    BY <2>1, PrpPages DEF IInv
  <2>3. prp2 = SecondEntry /\ Filled /\ i <= ListEntries
    BY <2>1 DEF IInv, PrpInv
  <2>4. PICK N \in Nat, t \in Nat, last \in Nat :
          /\ N = Pages - 1 /\ t = Trunc(dmaAddr) /\ last = Trunc(dmaAddr + Bytes - 1)
          /\ last = t + PageSize * N
    <3>1. Bytes \in Nat /\ 1 <= Bytes
      BY PrpBytes DEF IInv, TypeOK, Given, PrpsSubmitted
    <3>2. Trunc(dmaAddr + Bytes - 1) = Trunc(dmaAddr) + PageSize * Crossings(dmaAddr, Bytes)
      BY <2>2, <3>1, CrossingsCounted
    <3>3. dmaAddr + Bytes - 1 \in Nat
      BY <2>2, <3>1
    <3>4. Trunc(dmaAddr) \in Nat /\ Trunc(dmaAddr + Bytes - 1) \in Nat
      BY <2>2, <3>3, TruncFacts
    <3>5. Pages - 1 \in Nat /\ Pages - 1 = Crossings(dmaAddr, Bytes)
      <4>1. Crossings(dmaAddr, Bytes) \in Nat
        BY <2>2, <3>1, CrossingsCounted
      <4>2. QED BY <2>2, <4>1
    <3>6. QED BY <3>2, <3>4, <3>5
  <2>5. PageSize \in Nat /\ PageSize > 0
    BY PageSizeAssumption
  <2>6. PICK span \in Int : span = PageSize * N /\ last = t + span
    BY <2>4, <2>5
  <2>7. (span = 0 <=> N = 0) /\ (span = PageSize <=> N = 1)
    <3>1. N = 0 => span = 0
      BY <2>5, <2>6
    <3>2. N = 1 => span = PageSize
      BY <2>5, <2>6
    <3>3. N > 1 => span > PageSize
      <4>1. ASSUME N > 1 PROVE PageSize * 1 + PageSize <= PageSize * N
        BY <2>5, <4>1, ProductsInOrder
      <4>2. PageSize * 1 = PageSize
        BY <2>5
      <4>3. QED BY <2>5, <2>6, <4>1, <4>2
    <3>4. N = 0 \/ N = 1 \/ N > 1
      OBVIOUS
    <3>5. CASE N = 0
      BY <2>5, <3>1, <3>5
    <3>6. CASE N = 1
      BY <2>5, <3>2, <3>6
    <3>7. CASE N > 1
      BY <2>4, <2>5, <2>6, <3>3, <3>7
    <3>8. QED BY <3>4, <3>5, <3>6, <3>7
  <2>8. Pages = 1 => prp2 = Unused
    BY <2>2, <2>3, <2>4, <2>6, <2>7 DEF SecondEntry
  <2>9. Pages = 2 => prp2 = DataPage(Page(1))
    <3> SUFFICES ASSUME Pages = 2 PROVE prp2 = DataPage(Page(1))
      OBVIOUS
    <3>1. N = 1 /\ span = PageSize
      BY <2>4, <2>7
    <3>2. t # last /\ t = last - PageSize
      BY <2>4, <2>5, <2>6, <3>1
    <3>3. SecondEntry = DataPage(last)
      BY <2>4, <3>2 DEF SecondEntry
    <3>4. Page(1) = last
      BY <2>4, <2>5, <2>6, <3>1 DEF Page
    <3>5. QED BY <2>3, <3>3, <3>4
  <2>10. ASSUME Pages # 1, Pages # 2
         PROVE  /\ prp2 = ListPage(0)
                /\ \A k \in 1 .. Pages - 1 :
                     SlotOf[k] \in Slots /\ prps[SlotOf[k]] = DataPage(Page(k))
    <3>1. N > 1 /\ Pages > 2
      BY <2>2, <2>4, <2>10
    <3>2. t # last /\ t # last - PageSize
      BY <2>4, <2>5, <2>6, <2>7, <3>1
    <3>3. prp2 = ListPage(0)
      BY <2>3, <2>4, <3>2 DEF SecondEntry
    <3>4. Complete
      <4>1. i > 0 /\ p = (i - 1) \div EntriesPerPage /\ i - p = Pages - 1
        BY <2>1, <2>2, <3>1 DEF Finished
      <4>2. PageOf(i - 1) = Pages - 1
        BY <2>2, <4>1 DEF PageOf
      <4>3. QED BY <2>2, <2>3, <3>1, <4>1, <4>2 DEF Complete
    <3>5. Reads(SlotOf, N)
      <4>1. N \in 1 .. Pages - 1
        BY <2>2, <2>4, <3>1
      <4>2. \E g : Reads(g, N)
        BY <3>4, <4>1, ReaderReads
      <4>3. \E g : g = [k \in 1 .. N |-> IF k = 1 THEN 0 ELSE SlotAfter(g[k - 1], k)]
        BY <4>2 DEF Reads
      <4>4. SlotOf = CHOOSE g :
              g = [k \in 1 .. N |-> IF k = 1 THEN 0 ELSE SlotAfter(g[k - 1], k)]
        BY <2>4 DEF SlotOf, SlotAfter
      <4>5. QED BY <4>3, <4>4 DEF Reads
    <3>6. ASSUME NEW k \in 1 .. Pages - 1
          PROVE  SlotOf[k] \in Slots /\ prps[SlotOf[k]] = DataPage(Page(k))
      <4>1. N \in 1 .. Pages - 1 /\ k \in 1 .. N
        BY <2>2, <2>4, <3>1
      <4>2. PICK s : s = SlotOf[k] /\ Holds(s, k)
        BY <3>4, <3>5, <4>1, ReaderFinds
      <4>3. s \in 0 .. i - 1 /\ s \in Slots
        BY <2>2, <2>3, <4>2, ListPagesAssumption, EntriesAssumption
           DEF Holds, Slots, ListEntries
      <4>4. prps[s] = DataPage(Page(k))
        BY <2>3, <4>2, <4>3 DEF Filled, Holds
      <4>5. QED BY <4>2, <4>3, <4>4
    <3>7. QED BY <3>3, <3>6
  <2>11. QED BY <2>8, <2>9, <2>10
<1>2. QED BY <1>1, InvariantCorrect, PTL

=============================================================================
