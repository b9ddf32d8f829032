--------------------------- MODULE Clients_options ---------------------------
(***************************************************************************)
(* The command line, read one option at a time, and what is said of it as  *)
(* a whole when the server starts: each --client with the options behind   *)
(* it makes one static client, and with no other options.                  *)
(***************************************************************************)
EXTENDS Clients_proofs, FiniteSetTheorems

-----------------------------------------------------------------------------
(* The invariant                                                           *)

Named(j) == j \in 1 .. Len(argv) /\ argv[j].opt = "client"

(* How many clients have been named up to place j                          *)
Count(j) == Cardinality({l \in 1 .. j : argv[l].opt = "client"})

(* The place before n of the last of some options in the scope of the      *)
(* --client at j                                                           *)
LastPlace(k, j, n, opts_) ==
  /\ k \in Scope(j) /\ k < n /\ argv[k].opt \in opts_
  /\ \A l \in Scope(j) : l < n /\ argv[l].opt \in opts_ => l <= k

(* What the options before n say last, or the default if they say nothing  *)
Says(j, n, opts_, default, a) ==
  \/ a = default /\ \A l \in Scope(j) : l < n => argv[l].opt \notin opts_
  \/ \E k \in Scope(j) : LastPlace(k, j, n, opts_) /\ a = argv[k]

Device == {"device"}
Mode   == {"dma-map-all", "dma-map-per-req"}
MapAll == Opt("dma-map-all", None)

(* A client as the options of the --client at j describe it                *)
Describes(client, j, n) ==
  \E a, b \in Options \union {Opt("", None)} :
    /\ Says(j, n, Device, Opt("", None), a) /\ client.device = a.arg
    /\ Says(j, n, Mode, MapAll, b) /\ client.map_all = (b = MapAll)

(* The --client at j has none behind it before n.                          *)
Latest(j, n) == \A l \in j + 1 .. n - 1 : argv[l].opt # "client"

(* A dataspace is registered before n; one is, before the --client behind  *)
(* that at j.                                                              *)
Registered(n) == \E k \in 1 .. n - 1 : argv[k].opt = "register-ds"
Bound(j)      == \E k \in Seen(j) : argv[k].opt = "register-ds"

(* What is gathered belongs to the latest --client; all those before it    *)
(* have been handed over, in order, as they are described.                 *)
Gathering ==
  phase = "args" =>
    /\ trusted = Registered(optind)
    /\ Len(statics) = IF opts.cap = None THEN 0 ELSE Count(optind - 1) - 1
    /\ opts.cap = None => \A j \in 1 .. optind - 1 : argv[j].opt # "client"
    /\ opts.cap # None =>
         \E j \in 1 .. optind - 1 :
           /\ Named(j) /\ Latest(j, optind) /\ argv[j].arg = opts.cap
           /\ Describes(opts, j, optind)
    /\ \A j \in 1 .. optind - 1 :
         Named(j) /\ ~Latest(j, optind) =>
           /\ Count(j) \in 1 .. Len(statics)
           /\ Describes(statics[Count(j)], j, optind)
           /\ statics[Count(j)].device # None /\ argv[j].arg \in Caps
           /\ statics[Count(j)].trusted_only = Bound(j)

-----------------------------------------------------------------------------
(* What the options say                                                    *)

(* Whatever is said of the command line is said of the state after a step, *)
(* too, as long as the step leaves it alone.                               *)
LEMMA SaidAgain ==
  ASSUME argv' = argv, NEW j, NEW n
  PROVE  /\ Named(j)' <=> Named(j)
         /\ Latest(j, n)' <=> Latest(j, n)
         /\ Count(j)' = Count(j)
         /\ \A client : Describes(client, j, n)' <=> Describes(client, j, n)
         /\ Registered(n)' = Registered(n) /\ Bound(j)' = Bound(j)
<1>1. Scope(j)' = Scope(j)
  BY DEF Scope
<1>2. \A k, o : LastPlace(k, j, n, o)' <=> LastPlace(k, j, n, o)
  BY <1>1 DEF LastPlace
<1>3. \A o, d, a : Says(j, n, o, d, a)' <=> Says(j, n, o, d, a)
  BY <1>1, <1>2 DEF Says
<1>4. \A client : Describes(client, j, n)' <=> Describes(client, j, n)
  BY <1>3 DEF Describes, Mode, MapAll
<1>5. Count(j)' = Count(j)
  BY DEF Count
<1>6. (Named(j)' <=> Named(j)) /\ (Latest(j, n)' <=> Latest(j, n))
  BY DEF Named, Latest
<1>7. Registered(n)' = Registered(n) /\ Bound(j)' = Bound(j)
  BY DEF Registered, Bound, Seen
<1>. QED BY <1>4, <1>5, <1>6, <1>7

(* The scope of a --client has no other --client, and ends at the next.    *)
LEMMA ScopeType ==
  ASSUME ArgsType, NEW j \in 1 .. Len(argv)
  PROVE  /\ Scope(j) \subseteq j + 1 .. Len(argv)
         /\ \A n \in j + 1 .. Len(argv) :
              n \in Scope(j) <=> Latest(j, n) /\ argv[n].opt # "client"
<1>1. Len(argv) \in Nat
  BY DEF ArgsType
<1>. QED BY <1>1 DEF Scope, Latest

(* An option out of the scope, or another one, says nothing.               *)
LEMMA SaysStill ==
  ASSUME ArgsType, NEW j \in 1 .. Len(argv), NEW n \in j + 1 .. Len(argv),
         NEW o, NEW default, NEW a, Says(j, n, o, default, a),
         n \notin Scope(j) \/ argv[n].opt \notin o
  PROVE  Says(j, n + 1, o, default, a)
<1>1. Len(argv) \in Nat /\ Scope(j) \subseteq j + 1 .. Len(argv)
  BY ScopeType DEF ArgsType
<1>2. \A l \in Scope(j) : l < n + 1 /\ argv[l].opt \in o => l < n
  BY <1>1
<1>3. CASE a = default /\ \A l \in Scope(j) : l < n => argv[l].opt \notin o
  BY <1>2, <1>3 DEF Says
<1>4. CASE \E k \in Scope(j) : LastPlace(k, j, n, o) /\ a = argv[k]
  <2>1. PICK k \in Scope(j) : LastPlace(k, j, n, o) /\ a = argv[k]
    BY <1>4
  <2>2. LastPlace(k, j, n + 1, o)
    BY <1>1, <1>2, <2>1 DEF LastPlace
  <2>. QED BY <2>1, <2>2 DEF Says
<1>. QED BY <1>3, <1>4 DEF Says

(* An option in the scope is the last so far.                              *)
LEMMA SaysNow ==
  ASSUME ArgsType, NEW j \in 1 .. Len(argv), NEW n \in Scope(j), NEW o,
         NEW default, argv[n].opt \in o
  PROVE  Says(j, n + 1, o, default, argv[n])
<1>1. Len(argv) \in Nat /\ Scope(j) \subseteq j + 1 .. Len(argv)
  BY ScopeType DEF ArgsType
<1>2. LastPlace(n, j, n + 1, o)
  BY <1>1 DEF LastPlace
<1>. QED BY <1>2 DEF Says

(* Nothing is said right behind a --client.                                *)
LEMMA SaysNothing ==
  ASSUME ArgsType, NEW j \in 1 .. Len(argv), NEW o, NEW default
  PROVE  Says(j, j + 1, o, default, default)
<1>1. Scope(j) \subseteq j + 1 .. Len(argv)
  BY ScopeType
<1>2. \A l \in Scope(j) : ~(l < j + 1)
  BY <1>1 DEF ArgsType
<1>. QED BY <1>2 DEF Says

(* What all of the options say is what the property goes by.               *)
LEMMA SaysAll ==
  ASSUME ArgsType, NEW j \in 1 .. Len(argv), NEW o, NEW default, NEW a,
         Says(j, Len(argv) + 1, o, default, a)
  PROVE  LastArg(j, o, default) = a
<1>1. Len(argv) \in Nat /\ Scope(j) \subseteq j + 1 .. Len(argv)
  BY ScopeType DEF ArgsType
<1> DEFINE those == {k \in Scope(j) : argv[k].opt \in o}
<1>2. \A l \in Scope(j) : l < Len(argv) + 1 /\ l \in Int
  BY <1>1
<1>3. LastArg(j, o, default) =
        IF those = {} THEN default
        ELSE argv[CHOOSE k \in those : \A l \in those : l <= k]
  BY DEF LastArg
<1>4. CASE a = default
           /\ \A l \in Scope(j) : l < Len(argv) + 1 => argv[l].opt \notin o
  <2>1. those = {}
    BY <1>2, <1>4
  <2>. QED BY <1>3, <1>4, <2>1
<1>5. CASE \E k \in Scope(j) : LastPlace(k, j, Len(argv) + 1, o) /\ a = argv[k]
  <2>1. PICK k \in Scope(j) : LastPlace(k, j, Len(argv) + 1, o) /\ a = argv[k]
    BY <1>5
  <2>2. k \in those /\ \A l \in those : l <= k
    BY <1>2, <2>1 DEF LastPlace
  <2>3. \A x \in those : x \in Int
    BY <1>2
  <2> HIDE DEF those
  <2>4. PICK m : m = CHOOSE x \in those : \A l \in those : l <= x
    OBVIOUS
  <2>5. m \in those /\ \A l \in those : l <= m
    BY <2>2, <2>4
  <2>6. m = k
    BY <2>2, <2>3, <2>5
  <2>. QED BY <1>3, <2>1, <2>2, <2>4, <2>6
<1>. QED BY <1>4, <1>5 DEF Says

-----------------------------------------------------------------------------
(* What describes a client                                                 *)

(* An option that says nothing changes no description.                     *)
LEMMA DescribesStill ==
  ASSUME ArgsType, NEW j \in 1 .. Len(argv), NEW n \in j + 1 .. Len(argv),
         NEW client, Describes(client, j, n),
         n \notin Scope(j) \/ argv[n].opt \notin Device \union Mode
  PROVE  Describes(client, j, n + 1)
<1>1. PICK a, b \in Options \union {Opt("", None)} :
        /\ Says(j, n, Device, Opt("", None), a) /\ client.device = a.arg
        /\ Says(j, n, Mode, MapAll, b) /\ client.map_all = (b = MapAll)
  BY DEF Describes
<1>2. Says(j, n + 1, Device, Opt("", None), a)
  BY <1>1, SaysStill
<1>3. Says(j, n + 1, Mode, MapAll, b)
  BY <1>1, SaysStill
<1>. QED BY <1>1, <1>2, <1>3 DEF Describes

(* Only --dma-map-all asks for the mode of that name.                      *)
LEMMA ModeOption ==
  ASSUME NEW a \in Options, a.opt \in Mode
  PROVE  a.opt = "dma-map-all" <=> a = MapAll
<1>1. CASE a \in {Opt("client", name) : name \in Names}
  <2>1. PICK name \in Names : a = Opt("client", name)
    BY <1>1
  <2>. QED BY <2>1 DEF Opt, Mode
<1>2. CASE a \in {Opt("device", d) : d \in Devices \union {None}}
  <2>1. PICK d \in Devices \union {None} : a = Opt("device", d)
    BY <1>2
  <2>. QED BY <2>1 DEF Opt, Mode
<1>3. CASE a \in {Opt(o, None) : o \in {"dma-map-all", "dma-map-per-req",
                                       "register-ds", "wrong"}}
  <2>1. PICK o : a = Opt(o, None)
    BY <1>3
  <2>2. a.opt = o
    BY <2>1 DEF Opt
  <2>3. MapAll.opt = "dma-map-all"
    BY DEF MapAll, Opt
  <2>4. CASE o = "dma-map-all"
    BY <2>1, <2>2, <2>4 DEF MapAll
  <2>5. CASE o # "dma-map-all"
    BY <2>2, <2>3, <2>5
  <2>. QED BY <2>4, <2>5
<1>. QED BY <1>1, <1>2, <1>3 DEF Options

(* --device and the options for the DMA mode (main.cc:366, 379, 382)       *)
LEMMA DescribesNow ==
  ASSUME ArgsType, NEW j \in 1 .. Len(argv), NEW n \in Scope(j),
         NEW client, NEW changed, Describes(client, j, n),
         \/ /\ argv[n].opt = "device" /\ changed.device = argv[n].arg
            /\ changed.map_all = client.map_all
         \/ /\ argv[n].opt \in Mode /\ changed.device = client.device
            /\ changed.map_all = (argv[n].opt = "dma-map-all")
  PROVE  Describes(changed, j, n + 1)
<1>1. /\ Len(argv) \in Nat /\ n \in j + 1 .. Len(argv)
      /\ n \in 1 .. Len(argv) /\ argv[n] \in Options
  BY ScopeType DEF ArgsType
<1>2. PICK a, b \in Options \union {Opt("", None)} :
        /\ Says(j, n, Device, Opt("", None), a) /\ client.device = a.arg
        /\ Says(j, n, Mode, MapAll, b) /\ client.map_all = (b = MapAll)
  BY DEF Describes
<1>3. CASE /\ argv[n].opt = "device" /\ changed.device = argv[n].arg
           /\ changed.map_all = client.map_all
  <2>1. Says(j, n + 1, Device, Opt("", None), argv[n])
    <3>1. argv[n].opt \in Device
      BY <1>3 DEF Device
    <3>. QED BY <3>1, SaysNow
  <2>2. argv[n].opt \notin Mode
    BY <1>3 DEF Mode
  <2>3. Says(j, n + 1, Mode, MapAll, b)
    BY <1>1, <1>2, <2>2, SaysStill
  <2>4. changed.map_all = (b = MapAll) /\ changed.device = argv[n].arg
    BY <1>2, <1>3
  <2>. QED BY <1>1, <1>2, <2>1, <2>3, <2>4 DEF Describes
<1>4. CASE /\ argv[n].opt \in Mode /\ changed.device = client.device
           /\ changed.map_all = (argv[n].opt = "dma-map-all")
  <2>1. Says(j, n + 1, Mode, MapAll, argv[n])
    BY <1>4, SaysNow
  <2>2. argv[n].opt \notin Device
    BY <1>4 DEF Mode, Device
  <2>3. Says(j, n + 1, Device, Opt("", None), a)
    BY <1>1, <1>2, <2>2, SaysStill
  <2>4. (argv[n].opt = "dma-map-all") <=> (argv[n] = MapAll)
    BY <1>1, <1>4, ModeOption
  <2>5. changed.map_all = (argv[n] = MapAll)
    BY <1>4, <2>4
  <2>. QED BY <1>1, <1>2, <1>4, <2>1, <2>3, <2>5 DEF Describes
<1>. QED BY <1>3, <1>4

(* A client that nothing has been said of (main.cc:117)                    *)
LEMMA DescribesNew ==
  ASSUME ArgsType, NEW j \in 1 .. Len(argv), NEW client,
         client.device = None, client.map_all = TRUE
  PROVE  Describes(client, j, j + 1)
<1>1. /\ Says(j, j + 1, Device, Opt("", None), Opt("", None))
      /\ Says(j, j + 1, Mode, MapAll, MapAll)
  BY SaysNothing
<1>2. MapAll \in Options /\ Opt("", None).arg = None
  BY DEF MapAll, Options, Opt
<1>3. client.map_all = (MapAll = MapAll)
  OBVIOUS
<1>. QED BY <1>1, <1>2, <1>3 DEF Describes

(* Only the device and the mode of a client are described.                 *)
LEMMA DescribesSame ==
  ASSUME NEW client, NEW other, NEW j, NEW n, Describes(client, j, n),
         other.device = client.device, other.map_all = client.map_all
  PROVE  Describes(other, j, n)
BY DEF Describes

-----------------------------------------------------------------------------
(* How many clients there are                                              *)

(* The clients up to any place are finitely many.                          *)
LEMMA CountType ==
  ASSUME NEW j \in Int
  PROVE  IsFiniteSet({l \in 1 .. j : argv[l].opt = "client"}) /\ Count(j) \in Nat
<1>1. IsFiniteSet(1 .. j)
  BY FS_Interval
<1>2. {l \in 1 .. j : argv[l].opt = "client"} \in SUBSET (1 .. j)
  OBVIOUS
<1>3. IsFiniteSet({l \in 1 .. j : argv[l].opt = "client"})
  BY <1>1, <1>2, FS_Subset
<1>. QED BY <1>3, FS_CardinalityType DEF Count

(* Each --client is one more.                                              *)
LEMMA CountStep ==
  ASSUME NEW n \in Nat \ {0}
  PROVE  Count(n) = IF argv[n].opt = "client" THEN Count(n - 1) + 1 ELSE Count(n - 1)
<1> DEFINE C(k) == {l \in 1 .. k : argv[l].opt = "client"}
<1>1. CASE argv[n].opt = "client"
  <2>1. C(n) = C(n - 1) \union {n} /\ n \notin C(n - 1)
    BY <1>1
  <2>2. IsFiniteSet(C(n - 1))
    BY CountType
  <2>3. Cardinality(C(n - 1) \union {n}) = Cardinality(C(n - 1)) + 1
    BY <2>1, <2>2, FS_AddElement
  <2>. QED BY <1>1, <2>1, <2>3 DEF Count
<1>2. CASE argv[n].opt # "client"
  <2>1. C(n) = C(n - 1)
    BY <1>2
  <2>. QED BY <1>2, <2>1 DEF Count
<1>. QED BY <1>1, <1>2

(* Without a --client, there is none to count.                             *)
LEMMA CountNone ==
  ASSUME NEW n \in Nat, \A l \in 1 .. n : argv[l].opt # "client"
  PROVE  Count(n) = 0
<1>1. {l \in 1 .. n : argv[l].opt = "client"} = {}
  OBVIOUS
<1>. QED BY <1>1, FS_EmptySet DEF Count

(* The latest --client is the last that is counted.                        *)
LEMMA CountLatest ==
  ASSUME NEW n \in Nat, NEW j \in 1 .. n, Latest(j, n + 1)
  PROVE  Count(j) = Count(n)
<1>1. {l \in 1 .. j : argv[l].opt = "client"} = {l \in 1 .. n : argv[l].opt = "client"}
  <2>1. \A l \in 1 .. n : argv[l].opt = "client" => l \in 1 .. j
    BY DEF Latest
  <2>. QED BY <2>1
<1>. QED BY <1>1 DEF Count

-----------------------------------------------------------------------------
(* The options, one by one                                                 *)

(* What add_client() does is what the next --client and the end of the     *)
(* command line have in common (main.cc:289): all clients up to here have  *)
(* been handed over, as they are described.                                *)
HandedOver(list, n) ==
  /\ Len(list) = Count(n - 1)
  /\ \A j \in 1 .. n - 1 :
       Named(j) =>
         /\ Count(j) \in 1 .. Len(list)
         /\ Describes(list[Count(j)], j, n)
         /\ list[Count(j)].device # None /\ argv[j].arg \in Caps
         /\ list[Count(j)].trusted_only = Bound(j)

LEMMA AddedDescribed ==
  ASSUME Args, Gathering, phase = "args", Addable(opts), AddClient(opts),
         optind <= Len(argv) => argv[optind].opt = "client"
  PROVE  HandedOver(statics', optind)
<1> DEFINE n == optind
<1>1. /\ ArgsType /\ statics \in Seq(StaticClient) /\ Len(statics) \in Nat
      /\ n \in Nat \ {0} /\ n <= Len(argv) + 1 /\ Len(argv) \in Nat
  BY DEF Args, ArgsType, Budget
<1>2. CASE opts.cap = None
  <2>1. statics' = statics /\ Len(statics) = 0
    BY <1>2 DEF AddClient, Gathering
  <2>2. \A j \in 1 .. n - 1 : argv[j].opt # "client"
    BY <1>2 DEF Gathering
  <2>3. Count(n - 1) = 0
    BY <1>1, <2>2, CountNone
  <2>. QED BY <2>1, <2>2, <2>3 DEF HandedOver, Named
<1>3. CASE opts.cap # None
  <2>1. PICK new : new = [device |-> opts.device, map_all |-> opts.map_all,
                          trusted_only |-> trusted]
    OBVIOUS
  <2>2. new \in StaticClient /\ new.device = opts.device /\ new.map_all = opts.map_all
        /\ new.device # None /\ opts.cap \in Caps /\ new.trusted_only = trusted
    BY <1>1, <1>3, <2>1 DEF ArgsType, StaticClient, Addable
  <2>3. statics' = Append(statics, new)
    BY <1>3, <2>1 DEF AddClient
  <2>4. /\ Len(statics') = Len(statics) + 1
        /\ \A l \in 1 .. Len(statics) : statics'[l] = statics[l]
        /\ statics'[Len(statics) + 1] = new
    BY <1>1, <2>2, <2>3
  <2>5. PICK last \in 1 .. n - 1 :
          /\ Named(last) /\ Latest(last, n) /\ argv[last].arg = opts.cap
          /\ Describes(opts, last, n)
    BY <1>3 DEF Gathering
  <2>6. Count(n - 1) \in Nat /\ Len(statics) = Count(n - 1) - 1
    <3>1. n - 1 \in Int
      BY <1>1
    <3>2. Count(n - 1) \in Nat
      BY <3>1, CountType
    <3>. QED BY <1>3, <3>2 DEF Gathering
  <2>7. ASSUME NEW j \in 1 .. n - 1, Named(j)
        PROVE  /\ Count(j) \in 1 .. Len(statics')
               /\ Describes(statics'[Count(j)], j, n)
               /\ statics'[Count(j)].device # None /\ argv[j].arg \in Caps
               /\ statics'[Count(j)].trusted_only = Bound(j)
    <3>1. CASE Latest(j, n)
      <4>1. j = last
        BY <1>1, <2>5, <2>7, <3>1 DEF Named, Latest
      <4>2. n - 1 \in Nat /\ (n - 1) + 1 = n /\ j \in 1 .. (n - 1)
        BY <1>1
      <4>3. Count(j) = Count(n - 1)
        BY <3>1, <4>2, CountLatest
      <4>4. statics'[Count(j)] = new /\ Count(j) \in 1 .. Len(statics')
        BY <1>1, <2>4, <2>6, <4>3
      <4>5. Describes(new, j, n)
        BY <2>2, <2>5, <4>1, DescribesSame
      <4>6. Bound(j) = Registered(n)
        <5>1. Seen(j) = 1 .. n - 1
          BY <1>1, <3>1 DEF Seen, Latest
        <5>. QED BY <5>1 DEF Bound, Registered
      <4>7. new.trusted_only = Bound(j)
        BY <2>2, <4>6 DEF Gathering
      <4>. QED BY <2>2, <2>5, <4>1, <4>4, <4>5, <4>7
    <3>2. CASE ~Latest(j, n)
      <4>1. /\ Count(j) \in 1 .. Len(statics)
            /\ Describes(statics[Count(j)], j, n)
            /\ statics[Count(j)].device # None /\ argv[j].arg \in Caps
            /\ statics[Count(j)].trusted_only = Bound(j)
        BY <2>7, <3>2 DEF Gathering
      <4>. QED BY <1>1, <2>4, <4>1
    <3>. QED BY <3>1, <3>2
  <2>. QED BY <1>1, <2>4, <2>6, <2>7 DEF HandedOver
<1>. QED BY <1>2, <1>3

(* Each --register-ds is remembered.                                       *)
LEMMA RegisteredStep ==
  ASSUME NEW n \in Nat \ {0}
  PROVE  Registered(n + 1) = (Registered(n) \/ argv[n].opt = "register-ds")
<1>1. 1 .. (n + 1) - 1 = (1 .. n - 1) \union {n}
  OBVIOUS
<1>. QED BY <1>1 DEF Registered

(* --client (main.cc:352)                                                  *)
LEMMA ClientGathers ==
  ASSUME Args, Gathering, phase = "args", OptClient, Addable(opts)
  PROVE  Gathering'
<1>1. /\ ArgsType /\ optind \in 1 .. Len(argv) /\ Len(argv) \in Nat
      /\ argv[optind] \in Options /\ argv[optind].opt = "client"
  BY DEF Args, ArgsType, OptClient, Parsing
<1>2. PICK n \in 1 .. Len(argv) : n = optind
  BY <1>1
<1>3. /\ AddClient(opts) /\ argv' = argv /\ optind' = n + 1
      /\ opts' = [NoClient EXCEPT !.cap = argv[n].arg]
  BY <1>2 DEF OptClient
<1>4. HandedOver(statics', n)
  BY <1>1, <1>2, <1>3, AddedDescribed
<1>5. /\ opts'.cap = argv[n].arg /\ opts'.cap # None
      /\ opts'.device = None /\ opts'.map_all = TRUE
  BY <1>1, <1>2, <1>3, OptionType, CapsAssumption DEF NoClient
<1>6. Count(n) = Count(n - 1) + 1 /\ Count(n - 1) \in Nat
  <2>1. n \in Nat \ {0} /\ n - 1 \in Int /\ argv[n].opt = "client"
    BY <1>1, <1>2
  <2>. QED BY <2>1, CountStep, CountType
<1>7. Named(n) /\ Latest(n, n + 1) /\ Describes(opts', n, n + 1)
  <2>1. Describes(opts', n, n + 1)
    BY <1>1, <1>5, DescribesNew
  <2>. QED BY <1>1, <1>2, <2>1 DEF Named, Latest
<1>8. Len(statics') = Count(n)' - 1
  <2>1. Count(n)' = Count(n)
    BY <1>3, SaidAgain
  <2>. QED BY <1>4, <1>6, <2>1 DEF HandedOver
<1>9. Named(n)' /\ Latest(n, n + 1)' /\ argv'[n].arg = opts'.cap
      /\ Describes(opts', n, n + 1)
  BY <1>3, <1>5, <1>7, SaidAgain
<1>10. ASSUME NEW j \in 1 .. n, Named(j)', ~Latest(j, n + 1)'
       PROVE  /\ Count(j)' \in 1 .. Len(statics')
              /\ Describes(statics'[Count(j)], j, n + 1)
              /\ statics'[Count(j)].device # None /\ argv'[j].arg \in Caps
              /\ statics'[Count(j)].trusted_only = Bound(j)
  <2>1. Count(j)' = Count(j) /\ Named(j) /\ ~Latest(j, n + 1)
    BY <1>3, <1>10, SaidAgain
  <2>2. j \in 1 .. n - 1
    <3>1. j # n
      BY <1>7, <2>1
    <3>. QED BY <3>1
  <2>3. /\ Count(j) \in 1 .. Len(statics')
        /\ Describes(statics'[Count(j)], j, n)
        /\ statics'[Count(j)].device # None /\ argv[j].arg \in Caps
        /\ statics'[Count(j)].trusted_only = Bound(j)
    BY <1>4, <2>1, <2>2 DEF HandedOver
  <2>4. n \notin Scope(j) /\ j \in 1 .. Len(argv) /\ n \in j + 1 .. Len(argv)
    <3>1. j \in 1 .. Len(argv) /\ n \in j + 1 .. Len(argv)
      BY <1>1, <2>2
    <3>. QED BY <1>1, <1>2, <3>1, ScopeType
  <2>5. Describes(statics'[Count(j)], j, n + 1)
    BY <1>1, <2>3, <2>4, DescribesStill
  <2>. QED BY <1>3, <2>1, <2>3, <2>5
<1>11. optind' - 1 = n
  BY <1>3
<1>12. trusted' = Registered(n + 1)
  <2>1. trusted' = trusted /\ trusted = Registered(n)
    BY <1>2 DEF OptClient, Gathering
  <2>2. n \in Nat \ {0} /\ ~(argv[n].opt = "register-ds")
    BY <1>1, <1>2
  <2>3. Registered(n) = (Registered(n) \/ argv[n].opt = "register-ds")
    BY <2>2 DEF Registered
  <2>. QED BY <2>1, <2>2, <2>3, RegisteredStep
<1>. QED BY <1>3, <1>5, <1>8, <1>9, <1>10, <1>11, <1>12, SaidAgain DEF Gathering

(* Any other option belongs to the latest --client, if anything does.      *)
LEMMA OthersGather ==
  ASSUME Args, Gathering, phase = "args", NEW n \in 1 .. Len(argv), n = optind,
         argv[n].opt # "client", opts'.cap = opts.cap, optind' = n + 1,
         UNCHANGED <<argv, statics>>,
         trusted' = (trusted \/ argv[n].opt = "register-ds"),
         \A j \in 1 .. n - 1 :
           n \in Scope(j) /\ Describes(opts, j, n) => Describes(opts', j, n + 1)
  PROVE  Gathering'
<1>1. ArgsType /\ Len(argv) \in Nat /\ statics \in Seq(StaticClient)
  BY DEF Args, ArgsType
<1>2. Count(n) = Count(n - 1) /\ Count(n - 1) \in Nat
  <2>1. n \in Nat \ {0} /\ n - 1 \in Int
    BY <1>1
  <2>. QED BY <2>1, CountStep, CountType
<1>3. \A j \in 1 .. n : Named(j) => j \in 1 .. n - 1
  BY <1>1 DEF Named
<1>4. \A j \in 1 .. n - 1 : Latest(j, n + 1) <=> Latest(j, n)
  <2>1. \A j \in 1 .. n - 1 : j + 1 .. n = (j + 1 .. n - 1) \union {n}
    OBVIOUS
  <2>. QED BY <1>1, <2>1 DEF Latest
<1>5. \A j \in 1 .. n - 1 :
        j \in 1 .. Len(argv) /\ n \in j + 1 .. Len(argv)
        /\ (n \in Scope(j) <=> Latest(j, n))
  <2>1. \A j \in 1 .. n - 1 : j \in 1 .. Len(argv) /\ n \in j + 1 .. Len(argv)
    BY <1>1
  <2>. QED BY <1>1, <2>1, ScopeType
<1>6. Len(statics') = IF opts'.cap = None THEN 0 ELSE Count(n)' - 1
  <2>1. Count(n)' = Count(n)
    BY SaidAgain
  <2>. QED BY <1>2, <2>1 DEF Gathering
<1>7. ASSUME opts'.cap = None PROVE \A j \in 1 .. n : argv'[j].opt # "client"
  BY <1>7 DEF Gathering
<1>8. ASSUME opts'.cap # None
      PROVE  \E j \in 1 .. n :
               /\ Named(j)' /\ Latest(j, n + 1)' /\ argv'[j].arg = opts'.cap
               /\ Describes(opts', j, n + 1)
  <2>1. PICK j \in 1 .. n - 1 :
          /\ Named(j) /\ Latest(j, n) /\ argv[j].arg = opts.cap
          /\ Describes(opts, j, n)
    BY <1>8 DEF Gathering
  <2>2. Describes(opts', j, n + 1) /\ Latest(j, n + 1)
    BY <1>4, <1>5, <2>1
  <2>3. j \in 1 .. n /\ Named(j)' /\ Latest(j, n + 1)'
    BY <2>1, <2>2, SaidAgain
  <2>. QED BY <2>1, <2>2, <2>3
<1>9. ASSUME NEW j \in 1 .. n, Named(j)', ~Latest(j, n + 1)'
      PROVE  /\ Count(j)' \in 1 .. Len(statics')
             /\ Describes(statics'[Count(j)], j, n + 1)
             /\ statics'[Count(j)].device # None /\ argv'[j].arg \in Caps
             /\ statics'[Count(j)].trusted_only = Bound(j)
  <2>1. Count(j)' = Count(j) /\ Named(j) /\ ~Latest(j, n + 1)
    BY <1>9, SaidAgain
  <2>2. j \in 1 .. n - 1 /\ ~Latest(j, n)
    BY <1>3, <1>4, <2>1
  <2>3. /\ Count(j) \in 1 .. Len(statics)
        /\ Describes(statics[Count(j)], j, n)
        /\ statics[Count(j)].device # None /\ argv[j].arg \in Caps
        /\ statics[Count(j)].trusted_only = Bound(j)
    BY <2>1, <2>2 DEF Gathering
  <2>4. Describes(statics[Count(j)], j, n + 1)
    BY <1>1, <1>5, <2>2, <2>3, DescribesStill
  <2>. QED BY <2>1, <2>3, <2>4
<1>10. optind' - 1 = n
  OBVIOUS
<1>11. trusted' = Registered(n + 1)
  <2>1. trusted = Registered(n) /\ n \in Nat \ {0}
    BY DEF Gathering
  <2>. QED BY <2>1, RegisteredStep
<1>. QED BY <1>6, <1>7, <1>8, <1>9, <1>10, <1>11, SaidAgain DEF Gathering

(* What is gathered stays what the options describe, until they have all   *)
(* been read.                                                              *)
LEMMA GatherStep ==
  ASSUME Args, Gathering, ParseArgs
  PROVE  Gathering'
<1>1. phase = "args"
  BY ArgsStep
<1>2. ArgsType /\ Len(argv) \in Nat
  BY DEF Args, ArgsType
<1>3. CASE Fail \/ ParseEnd
  BY <1>3 DEF Fail, ParseEnd, Gathering
<1>4. CASE OptClient /\ Addable(opts)
  BY <1>1, <1>4, ClientGathers
<1>5. CASE OptForClient
  <2>1. optind \in 1 .. Len(argv) /\ argv[optind] \in Options
    BY <1>2, <1>5 DEF OptForClient, Parsing, ArgsType
  <2>2. PICK n \in 1 .. Len(argv) : n = optind
    BY <2>1
  <2>3. optind' = n + 1 /\ UNCHANGED <<argv, trusted, statics, phase>>
    BY <1>5, <2>2 DEF OptForClient
  <2>4. \/ /\ argv[n].opt = "device" /\ opts'.device = argv[n].arg
           /\ opts'.map_all = opts.map_all
        \/ /\ argv[n].opt \in Mode /\ opts'.device = opts.device
           /\ opts'.map_all = (argv[n].opt = "dma-map-all")
    BY <1>2, <1>5, <2>2 DEF OptForClient, Mode, ArgsType
  <2>5. opts'.cap = opts.cap
    BY <1>2, <1>5 DEF OptForClient, ArgsType
  <2>6. argv[n].opt # "client" /\ argv[n].opt # "register-ds"
    BY <2>4 DEF Mode
  <2>7. ASSUME NEW j \in 1 .. n - 1, n \in Scope(j), Describes(opts, j, n)
        PROVE  Describes(opts', j, n + 1)
    <3>1. j \in 1 .. Len(argv)
      BY <1>2
    <3>. QED BY <1>2, <2>4, <2>7, <3>1, DescribesNow
  <2>8. trusted' = (trusted \/ argv[n].opt = "register-ds")
    <3>1. trusted \in BOOLEAN /\ trusted' = trusted
      BY <1>2, <2>3 DEF ArgsType
    <3>. QED BY <2>6, <3>1
  <2>. QED BY <1>1, <2>2, <2>3, <2>5, <2>6, <2>7, <2>8, OthersGather
<1>6. CASE OptRegisterDs
  <2>1. PICK n \in 1 .. Len(argv) : n = optind
    BY <1>2, <1>6 DEF OptRegisterDs, Parsing, ArgsType
  <2>2. /\ argv[n].opt = "register-ds" /\ optind' = n + 1
        /\ UNCHANGED <<argv, opts, statics, phase>>
    BY <1>6, <2>1 DEF OptRegisterDs
  <2>3. argv[n].opt # "client" /\ argv[n].opt \notin Device \union Mode
    BY <2>2 DEF Device, Mode
  <2>4. ASSUME NEW j \in 1 .. n - 1, Describes(opts, j, n)
        PROVE  Describes(opts, j, n + 1)
    <3>1. j \in 1 .. Len(argv) /\ n \in j + 1 .. Len(argv)
      BY <1>2
    <3>. QED BY <1>2, <2>3, <2>4, <3>1, DescribesStill
  <2>5. opts' = opts
    BY <2>2
  <2>6. trusted' = (trusted \/ argv[n].opt = "register-ds")
    <3>1. trusted' = TRUE
      BY <1>6 DEF OptRegisterDs
    <3>. QED BY <2>2, <3>1
  <2>. QED BY <1>1, <2>1, <2>2, <2>3, <2>4, <2>5, <2>6, OthersGather
<1>. QED BY <1>3, <1>4, <1>5, <1>6 DEF ParseArgs, OptClient, OptWrong

(* Reading the options one by one does what they mean as a whole.          *)
LEMMA StartStep ==
  ASSUME Args, Gathering, ParseArgs, phase = "args", phase' = "running"
  PROVE  LET places == {j \in DOMAIN argv : argv[j].opt = "client"}
         IN  /\ Len(statics') = Cardinality(places)
             /\ \A j \in places :
                  LET client == statics'[Cardinality({l \in places : l <= j})]
                      mode   == {"dma-map-all", "dma-map-per-req"}
                      map    == Opt("dma-map-all", None)
                  IN  /\ client.device = LastArg(j, {"device"}, Opt("", None)).arg
                      /\ client.device # None /\ argv[j].arg \in Caps
                      /\ client.map_all = (LastArg(j, mode, map) = map)
                      /\ client.trusted_only =
                           \E k \in Seen(j) : argv[k].opt = "register-ds"
<1> DEFINE places == {j \in DOMAIN argv : argv[j].opt = "client"}
<1>1. ArgsType /\ Len(argv) \in Nat /\ DOMAIN argv = 1 .. Len(argv)
  BY DEF Args, ArgsType
<1>2. AddClient(opts) /\ Addable(opts) /\ optind = Len(argv) + 1
  <2>1. ~Fail /\ phase' # phase
    BY DEF Fail
  <2>2. ParseEnd
    BY <2>1 DEF ParseArgs, OptClient, OptForClient, OptRegisterDs, OptWrong
  <2>3. optind \in Nat /\ optind <= Len(argv) + 1
    BY DEF Args, ArgsType, Budget
  <2>. QED BY <1>1, <2>1, <2>2, <2>3 DEF ParseEnd
<1>3. HandedOver(statics', Len(argv) + 1)
  BY <1>1, <1>2, AddedDescribed
<1>4. Len(statics') = Cardinality(places)
  <2>1. (Len(argv) + 1) - 1 = Len(argv)
    BY <1>1
  <2>. QED BY <1>1, <1>3, <2>1 DEF HandedOver, Count
<1>5. ASSUME NEW j \in places
      PROVE  LET client == statics'[Cardinality({l \in places : l <= j})]
             IN  /\ client.device = LastArg(j, Device, Opt("", None)).arg
                 /\ client.device # None /\ argv[j].arg \in Caps
                 /\ client.map_all = (LastArg(j, Mode, MapAll) = MapAll)
                 /\ client.trusted_only = Bound(j)
  <2>1. j \in 1 .. Len(argv) /\ Named(j) /\ j \in 1 .. (Len(argv) + 1) - 1
    BY <1>1 DEF Named
  <2>2. Cardinality({l \in places : l <= j}) = Count(j)
    <3>1. {l \in places : l <= j} = {l \in 1 .. j : argv[l].opt = "client"}
      BY <1>1, <2>1
    <3>. QED BY <3>1 DEF Count
  <2>3. PICK client : client = statics'[Count(j)]
    OBVIOUS
  <2>4. /\ Describes(client, j, Len(argv) + 1)
        /\ client.device # None /\ argv[j].arg \in Caps
        /\ client.trusted_only = Bound(j)
    BY <1>3, <2>1, <2>3 DEF HandedOver
  <2>5. PICK a, b \in Options \union {Opt("", None)} :
          /\ Says(j, Len(argv) + 1, Device, Opt("", None), a) /\ client.device = a.arg
          /\ Says(j, Len(argv) + 1, Mode, MapAll, b) /\ client.map_all = (b = MapAll)
    BY <2>4 DEF Describes
  <2>6. LastArg(j, Device, Opt("", None)) = a /\ LastArg(j, Mode, MapAll) = b
    BY <1>1, <2>1, <2>5, SaysAll
  <2>. QED BY <2>2, <2>3, <2>4, <2>5, <2>6
<1>. QED BY <1>4, <1>5 DEF Device, Mode, MapAll, Bound

(* Only parse_args() touches the command line and what comes of it.        *)
LEMMA ArgsFrame ==
  ASSUME Next, ~ParseArgs
  PROVE  UNCHANGED argVars
BY DEF Next, ScanStep, OpCreate, Close, CheckClients, InoutRequest, Retry, InoutDone,
       Flush, FlushErrand

(* The invariant holds whatever the command line is.                       *)
LEMMA Gathers == Spec => []Gathering
<1>1. Init => Gathering
  <2>1. ASSUME Init PROVE Gathering
    <3>1. optind = 1 /\ opts = NoClient /\ statics = <<>> /\ Len(statics) = 0
      BY <2>1 DEF Init, ArgsInit
    <3>2. trusted = Registered(optind)
      <4>1. ~Registered(optind)
        BY <3>1 DEF Registered
      <4>2. Registered(optind) = FALSE
        BY <4>1 DEF Registered
      <4>. QED BY <2>1, <4>2 DEF Init, ArgsInit
    <3>. QED BY <3>1, <3>2 DEF Gathering, NoClient
  <2>. QED BY <2>1
<1>2. ASSUME IInv, Gathering, [Next]_vars PROVE Gathering'
  <2>1. CASE ParseArgs
    BY <1>2, <2>1, GatherStep DEF IInv
  <2>2. CASE UNCHANGED argVars
    BY <1>2, <2>2, SaidAgain DEF argVars, Gathering
  <2>. QED BY <1>2, <2>1, <2>2, ArgsFrame DEF vars
<1>. QED BY <1>1, <1>2, Invariant, PTL DEF Spec

-----------------------------------------------------------------------------
(* The theorem                                                             *)

(* When the server starts, each --client of the command line is one static *)
(* client, with the device and the DMA mode that the options between it    *)
(* and the next --client give last, and bound to the trusted dataspaces if *)
(* one is registered before the next --client, for every command line      *)
(* (main.cc:274, 352, 417, usage.md:99).                                   *)
THEOREM OptionsCorrect == Spec => OptionsScoped
<1> DEFINE Started ==
      phase = "args" /\ phase' = "running" =>
       LET places == {j \in DOMAIN argv : argv[j].opt = "client"}
       IN  /\ Len(statics') = Cardinality(places)
           /\ \A j \in places :
                LET client == statics'[Cardinality({l \in places : l <= j})]
                    mode   == {"dma-map-all", "dma-map-per-req"}
                    map    == Opt("dma-map-all", None)
                IN  /\ client.device = LastArg(j, {"device"}, Opt("", None)).arg
                    /\ client.device # None /\ argv[j].arg \in Caps
                    /\ client.map_all = (LastArg(j, mode, map) = map)
                    /\ client.trusted_only =
                         \E k \in Seen(j) : argv[k].opt = "register-ds"
<1>1. ASSUME IInv, Gathering, [Next]_vars PROVE [Started]_argVars
  <2>1. CASE ParseArgs
    BY <1>1, <2>1, StartStep DEF IInv
  <2>2. CASE UNCHANGED argVars
    BY <2>2
  <2>. QED BY <1>1, <2>1, <2>2, ArgsFrame DEF vars
<1>. QED BY <1>1, Invariant, Gathers, PTL DEF Spec, OptionsScoped

=============================================================================
