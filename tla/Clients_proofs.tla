--------------------------- MODULE Clients_proofs ---------------------------
(***************************************************************************)
(* The clients, for any devices, any command line, any clients and any     *)
(* number of requests: what a client may be refused for good, who gets a   *)
(* device, and which memory is mapped for DMA and until when.              *)
(***************************************************************************)
EXTENDS Clients, TLAPS

-----------------------------------------------------------------------------
(* The invariant: the command line.                                        *)

StaticClient == [device : Devices, map_all : BOOLEAN, trusted_only : BOOLEAN]

ArgsType ==
  /\ argv \in Seq(Options) /\ Len(argv) <= MaxArgs
  /\ optind \in Nat \ {0}
  /\ opts \in [cap : Names \union {None}, device : Devices \union {None},
               map_all : BOOLEAN]
  /\ trusted \in BOOLEAN
  /\ statics \in Seq(StaticClient)
  /\ phase \in {"args", "running", "failed"}

(* A static client takes two options, so there is room for all of them.    *)
Gathered ==
  (IF opts.cap # None THEN 1 ELSE 0) + (IF opts.device # None THEN 1 ELSE 0)

Budget ==
  IF phase = "args"
    THEN optind <= Len(argv) + 1 /\ 2 * Len(statics) + Gathered <= optind - 1
    ELSE 2 * Len(statics) <= MaxArgs

(* The static client that comes first among those with its device          *)
First(l) == \A j \in 1 .. l - 1 : statics[j].device # statics[l].device

Firsts ==
  \A n \in 1 .. Len(statics) :
    \E l \in 1 .. n : statics[l].device = statics[n].device /\ First(l)

Args == ArgsType /\ Budget /\ Firsts

-----------------------------------------------------------------------------
(* The invariant: the clients.                                             *)

(* Nothing happens before the server runs, or if it never does.            *)
Idle ==
  phase # "running" => ~served /\ \A k \in Clients : device[k] = None

(* A client's device is an explored one and the client's alone, and keeps  *)
(* the client's mode.                                                      *)
Connected(k) ==
  device[k] # None =>
    /\ device[k] \in DevicesOf(explored)
    /\ \A l \in Clients : device[l] = device[k] => l = k
    /\ _dma_map_all[device[k]] = map_all[k]
    /\ k \in Static =>
         k <= Len(statics) /\ device[k] = statics[k].device /\ First(k)
    /\ k \in Dynamic => served

(* A client without a device has no request.                               *)
Unconnected(k) ==
  device[k] = None => \A r \in Requests : request[k][r] = "none"

(* What was not there when the service was open will not come.             *)
Refused ==
  \A k \in Dynamic : told[k].result = "ENODEV" => served

IInv ==
  /\ TypeOK /\ Args /\ Idle /\ Refused
  /\ \A k \in Clients : Connected(k) /\ Unconnected(k)
  /\ RefusedForGood /\ StaticFirst /\ MappingsExact

-----------------------------------------------------------------------------
(* The command line.                                                       *)

(* What an option is.                                                      *)
LEMMA OptionType ==
  ASSUME NEW a \in Options
  PROVE  /\ a.opt = "client" => a.arg \in Names
         /\ a.opt = "device" => a.arg \in Devices \union {None}
BY DEF Options, Opt

(* add_client() appends a client that has a device, or nothing.            *)
LEMMA Added ==
  ASSUME Args, phase = "args", Addable(opts), AddClient(opts)
  PROVE  /\ statics' \in Seq(StaticClient) /\ Firsts'
         /\ 2 * Len(statics') <= 2 * Len(statics) + Gathered
<1>1. statics \in Seq(StaticClient) /\ Len(statics) \in Nat /\ Firsts
  BY DEF Args, ArgsType
<1>2. CASE opts.cap = None
  BY <1>1, <1>2 DEF AddClient, Firsts, First, Gathered
<1>3. CASE opts.cap # None
  <2> DEFINE new == [device |-> opts.device, map_all |-> opts.map_all,
                     trusted_only |-> trusted]
  <2>1. new \in StaticClient /\ Gathered = 2
    BY <1>3 DEF Args, ArgsType, StaticClient, Addable, Gathered
  <2>2. statics' = Append(statics, new)
    BY <1>3 DEF AddClient
  <2>3. /\ statics' \in Seq(StaticClient) /\ Len(statics') = Len(statics) + 1
        /\ \A n \in 1 .. Len(statics) : statics'[n] = statics[n]
        /\ statics'[Len(statics) + 1] = new
    BY <1>1, <2>1, <2>2
  <2>4. ASSUME NEW l \in 1 .. Len(statics), First(l) PROVE First(l)'
    BY <1>1, <2>3, <2>4 DEF First
  <2>5. ASSUME NEW n \in 1 .. Len(statics)'
        PROVE  \E l \in 1 .. n : statics'[l].device = statics'[n].device /\ First(l)'
    <3>1. CASE n \in 1 .. Len(statics)
      <4>1. PICK l \in 1 .. n : statics[l].device = statics[n].device /\ First(l)
        BY <1>1, <3>1 DEF Firsts
      <4>2. l \in 1 .. Len(statics)
        BY <1>1, <3>1
      <4>. QED BY <2>3, <2>4, <3>1, <4>1, <4>2
    <3>2. CASE n = Len(statics) + 1
      <4>1. CASE \E j \in 1 .. Len(statics) : statics[j].device = new.device
        <5>1. PICK j \in 1 .. Len(statics) : statics[j].device = new.device
          BY <4>1
        <5>2. PICK l \in 1 .. j : statics[l].device = statics[j].device /\ First(l)
          BY <1>1, <5>1 DEF Firsts
        <5>3. l \in 1 .. Len(statics) /\ l \in 1 .. n
          BY <1>1, <3>2, <5>1
        <5>. QED BY <2>3, <2>4, <3>2, <5>1, <5>2, <5>3
      <4>2. CASE \A j \in 1 .. Len(statics) : statics[j].device # new.device
        <5>1. First(n)'
          BY <1>1, <2>3, <3>2, <4>2 DEF First
        <5>. QED BY <1>1, <3>2, <5>1
      <4>. QED BY <4>1, <4>2
    <3>. QED BY <1>1, <2>3, <2>5, <3>1, <3>2
  <2>6. Firsts'
    BY <2>5 DEF Firsts
  <2>. QED BY <1>1, <2>1, <2>3, <2>6
<1>. QED BY <1>2, <1>3

(* There is always room for the static clients (main.cc:352, 417).         *)
LEMMA ArgsStep ==
  ASSUME Args, ParseArgs
  PROVE  /\ Args' /\ Len(statics') <= MaxStatic /\ phase = "args"
         /\ phase' # "args" => phase' \in {"running", "failed"}
<1>1. /\ argv \in Seq(Options) /\ Len(argv) \in Nat /\ Len(argv) <= MaxArgs
      /\ optind \in Nat \ {0} /\ statics \in Seq(StaticClient) /\ Len(statics) \in Nat
      /\ MaxArgs \in Nat /\ MaxStatic \in Nat /\ 2 * MaxStatic >= MaxArgs
      /\ None \notin Names \union Devices
  BY CapsAssumption, MaxArgsAssumption, StaticAssumption DEF Args, ArgsType
<1>2. phase = "args"
  BY DEF ParseArgs, OptClient, OptForClient, OptRegisterDs, OptWrong, ParseEnd, Parsing
<1>3. /\ optind <= Len(argv) + 1 /\ 2 * Len(statics) + Gathered <= optind - 1
      /\ Gathered \in 0 .. 2 /\ Firsts
  BY <1>2 DEF Args, Budget, Gathered
<1>4. Parsing => argv[optind] \in Options /\ optind <= Len(argv)
  BY <1>1 DEF Parsing
<1>5. CASE Fail
  <2>1. /\ phase' = "failed" /\ argv' = <<>> /\ statics' = statics
        /\ UNCHANGED <<optind, opts, trusted>>
    BY <1>5 DEF Fail
  <2>2. Args'
    BY <1>1, <1>3, <2>1 DEF Args, ArgsType, Budget, Firsts, First
  <2>. QED BY <1>1, <1>2, <1>3, <2>1, <2>2
<1>6. CASE OptClient /\ Addable(opts)
  <2>1. /\ AddClient(opts) /\ argv[optind].arg \in Names /\ optind <= Len(argv)
        /\ opts' = [NoClient EXCEPT !.cap = argv[optind].arg]
        /\ optind' = optind + 1 /\ UNCHANGED <<argv, trusted, phase>>
    BY <1>4, <1>6, OptionType DEF OptClient
  <2>2. /\ statics' \in Seq(StaticClient) /\ Firsts'
        /\ 2 * Len(statics') <= 2 * Len(statics) + Gathered
    BY <1>2, <1>6, <2>1, Added
  <2>3. /\ opts' \in [cap : Names \union {None}, device : Devices \union {None},
                      map_all : BOOLEAN]
        /\ opts'.device = None
    BY <2>1 DEF NoClient
  <2>4. Gathered' <= 1 /\ Gathered' \in Nat /\ Len(statics') \in Nat
    BY <2>2, <2>3 DEF Gathered
  <2>5. ArgsType'
    BY <1>1, <2>1, <2>2, <2>3 DEF ArgsType, Args
  <2>6. PICK now \in Nat : now = Len(statics') /\ 2 * now <= optind - 1
    <3>1. PICK now \in Nat, before \in Nat, given \in 0 .. 2 :
            now = Len(statics') /\ before = Len(statics) /\ given = Gathered
      BY <1>1, <1>3, <2>4
    <3>2. 2 * now <= 2 * before + given /\ 2 * before + given <= optind - 1
      BY <1>3, <2>2, <3>1
    <3>. QED BY <1>1, <3>1, <3>2
  <2>7. PICK place \in Nat : place = optind /\ optind' = place + 1
    BY <1>1, <2>1
  <2>8. Budget'
    <3>1. phase' = "args" /\ Len(argv') = Len(argv) /\ optind' <= Len(argv') + 1
      BY <1>1, <1>2, <2>1
    <3>2. 2 * Len(statics') + Gathered' <= optind' - 1
      BY <2>4, <2>6, <2>7
    <3>. QED BY <3>1, <3>2 DEF Budget
  <2>9. Len(statics') <= MaxStatic
    <3>1. optind - 1 <= MaxArgs
      BY <1>1, <2>1
    <3>. QED BY <1>1, <2>6, <3>1
  <2>. QED BY <1>2, <2>1, <2>2, <2>5, <2>8, <2>9 DEF Args
<1>7. CASE OptForClient
  <2>1. /\ optind <= Len(argv) /\ argv[optind] \in Options
        /\ optind' = optind + 1 /\ UNCHANGED <<argv, trusted, statics, phase>>
    BY <1>4, <1>7 DEF OptForClient
  <2>2. /\ opts' \in [cap : Names \union {None}, device : Devices \union {None},
                      map_all : BOOLEAN]
        /\ opts'.cap = opts.cap
    BY <1>7, <2>1, OptionType DEF OptForClient, Args, ArgsType
  <2>3. Gathered' <= Gathered + 1 /\ Gathered' \in Nat
    <3>1. opts'.device = opts.device \/ opts.device = None \/ opts'.device # None
      BY <1>1, <1>7, <2>1, OptionType DEF OptForClient, Args, ArgsType
    <3>. QED BY <2>2, <3>1 DEF Gathered
  <2>4. ArgsType' /\ Budget' /\ Firsts'
    BY <1>1, <1>2, <1>3, <2>1, <2>2, <2>3 DEF ArgsType, Args, Budget, Firsts, First
  <2>. QED BY <1>1, <1>2, <1>3, <2>1, <2>4 DEF Args
<1>8. CASE OptRegisterDs
  <2>1. /\ optind <= Len(argv) /\ trusted' = TRUE
        /\ optind' = optind + 1 /\ UNCHANGED <<argv, opts, statics, phase>>
    BY <1>4, <1>8 DEF OptRegisterDs
  <2>2. ArgsType' /\ Budget' /\ Firsts'
    BY <1>1, <1>2, <1>3, <2>1 DEF ArgsType, Args, Budget, Gathered, Firsts, First
  <2>. QED BY <1>1, <1>2, <1>3, <2>1, <2>2 DEF Args
<1>9. CASE ParseEnd /\ Addable(opts)
  <2>1. /\ AddClient(opts) /\ phase' = "running" /\ argv' = <<>> /\ optind' = 1
        /\ opts' = NoClient /\ trusted' = trusted
    BY <1>9 DEF ParseEnd
  <2>2. /\ statics' \in Seq(StaticClient) /\ Firsts'
        /\ 2 * Len(statics') <= 2 * Len(statics) + Gathered
    BY <1>2, <1>9, <2>1, Added
  <2>3. NoClient \in [cap : Names \union {None}, device : Devices \union {None},
                      map_all : BOOLEAN]
    BY DEF NoClient
  <2>4. Len(statics') \in Nat
    BY <2>2
  <2>5. ArgsType' /\ Budget'
    BY <1>1, <1>3, <2>1, <2>2, <2>3, <2>4 DEF ArgsType, Args, Budget
  <2>. QED BY <1>1, <1>2, <1>3, <2>1, <2>2, <2>4, <2>5 DEF Args
<1>. QED BY <1>5, <1>6, <1>7, <1>8, <1>9 DEF ParseArgs, OptClient, OptWrong, ParseEnd

-----------------------------------------------------------------------------
(* The clients.                                                            *)

(* Nobody has asked for anything while the command line is read.           *)
LEMMA ParseStep ==
  ASSUME IInv, ParseArgs, UNCHANGED <<scanVars, sessionVars, dmaVars>>
  PROVE  IInv'
<1> USE DEF scanVars, sessionVars, dmaVars
<1>1. /\ Args' /\ Len(statics') <= MaxStatic
      /\ phase' \in {"args", "running", "failed"}
  BY ArgsStep DEF IInv, Args, ArgsType
<1>2. ~served /\ \A k \in Clients : device[k] = None
  BY ArgsStep DEF IInv, Idle
<1>3. statics' \in Seq(StaticClient) /\ None \notin Devices
  BY <1>1, CapsAssumption DEF Args, ArgsType
<1>4. TypeOK'
  BY <1>1 DEF IInv, TypeOK
<1>5. Idle' /\ Refused' /\ RefusedForGood' /\ MappingsExact'
  BY <1>2 DEF IInv, Idle, Refused, RefusedForGood, DevicesOf, MappingsExact, UnderWay
<1>6. \A k \in Clients : Connected(k)' /\ Unconnected(k)'
  BY <1>2 DEF IInv, Connected, Unconnected
<1>7. StaticFirst'
  <2>1. \A n \in 1 .. Len(statics') : statics'[n].device \in Devices
    <3>1. \A n \in 1 .. Len(statics') : statics'[n] \in StaticClient
      BY <1>3
    <3>. QED BY <3>1 DEF StaticClient
  <2>. QED BY <1>2, <1>3, <2>1 DEF StaticFirst, Clients
<1>. QED BY <1>1, <1>4, <1>5, <1>6, <1>7 DEF IInv

(* A request changes nothing but itself and its mappings.                  *)
LEMMA RequestFrame ==
  ASSUME IInv, UNCHANGED <<argVars, scanVars, sessionVars>>
  PROVE  /\ Args' /\ Idle' /\ Refused' /\ RefusedForGood' /\ StaticFirst'
         /\ \A k \in Clients : Connected(k)'
<1> USE DEF argVars, scanVars, sessionVars
<1>1. Args'
  BY DEF IInv, Args, ArgsType, Budget, Gathered, Firsts, First
<1>2. Idle' /\ Refused' /\ RefusedForGood' /\ StaticFirst'
  BY DEF IInv, Idle, Refused, RefusedForGood, StaticFirst, DevicesOf
<1>3. \A k \in Clients : Connected(k)'
  BY DEF IInv, Connected, DevicesOf, First
<1>. QED BY <1>1, <1>2, <1>3

(* What is mapped for a client is what its mode and its requests say       *)
(* (nvme_device.h:63, main.cc:89).                                         *)
Exact(k) ==
  LET own == {r \in Requests : <<k, r>> \in single}
  IN  IF device[k] # None /\ map_all[k]
        THEN own = {} /\ (UnderWay(k) # {} => k \in whole)
        ELSE own = UnderWay(k) /\ k \notin whole

(* One request moves: the others' states are as before.                    *)
LEMMA Moved ==
  ASSUME TypeOK, NEW k \in Clients, NEW r \in Requests,
         NEW from \in {"none", "refused", "issued", "flushing"},
         NEW to \in {"none", "refused", "issued", "flushing"}, Move(k, r, from, to)
  PROVE  /\ request[k][r] = from /\ request'[k][r] = to
         /\ \A s \in Requests \ {r} : request'[k][s] = request[k][s]
         /\ \A l \in Clients \ {k} : request'[l] = request[l]
         /\ request' \in
              [Clients -> [Requests -> {"none", "refused", "issued", "flushing"}]]
BY DEF TypeOK, Move

(* A request that is not "none" has a client with a device and its mode.   *)
LEMMA ModeKept ==
  ASSUME IInv, NEW k \in Clients, device[k] # None
  PROVE  MapsAll(device[k]) = map_all[k] /\ map_all[k] \in BOOLEAN
BY DEF IInv, Connected, MapsAll, TypeOK

(* Mapping, retrying, unmapping and flushing keep the mappings exact       *)
(* (nvme_device.h:63, 207).                                                *)
LEMMA RequestStep ==
  ASSUME IInv, NEW k \in Clients, NEW r \in Requests,
         \/ InoutRequest(k, r) \/ Retry(k, r) \/ InoutDone(k, r)
         \/ Flush(k, r) \/ FlushErrand(k, r)
  PROVE  IInv'
<1> USE DEF Unconnected
<1>1. /\ TypeOK /\ Unconnected(k) /\ \A l \in Clients : Exact(l)
  BY DEF IInv, MappingsExact, Exact
<1>2. UNCHANGED <<argVars, scanVars, sessionVars>> /\ device' = device /\ map_all' = map_all
  BY DEF InoutRequest, Retry, InoutDone, Flush, FlushErrand, sessionVars
<1>3. PICK from \in {"none", "refused", "issued", "flushing"},
           to \in {"none", "refused", "issued", "flushing"} : Move(k, r, from, to)
  BY DEF InoutRequest, Retry, InoutDone, Flush, FlushErrand
<1>4. /\ request[k][r] = from /\ request'[k][r] = to
      /\ \A s \in Requests \ {r} : request'[k][s] = request[k][s]
      /\ \A l \in Clients \ {k} : request'[l] = request[l]
      /\ request' \in
           [Clients -> [Requests -> {"none", "refused", "issued", "flushing"}]]
  BY <1>1, <1>3, Moved
<1>5. device[k] # None
  BY <1>1, <1>4 DEF InoutRequest, Retry, InoutDone, Flush, FlushErrand, Move
<1>6. MapsAll(device[k]) = map_all[k] /\ map_all[k] \in BOOLEAN
  BY <1>5, ModeKept
<1>7. /\ whole' \subseteq Clients /\ single' \subseteq Clients \X Requests
      /\ \A l \in Clients \ {k} : l \in whole' <=> l \in whole
      /\ \A l \in Clients \ {k}, s \in Requests : <<l, s>> \in single' <=> <<l, s>> \in single
  BY <1>1 DEF TypeOK, InoutRequest, Retry, InoutDone, Flush, FlushErrand, DmaMap, DmaUnmap
<1>8. \A l \in Clients \ {k} : Exact(l)'
  BY <1>1, <1>2, <1>4, <1>7 DEF Exact, UnderWay
<1>9. Exact(k)'
  <2>1. CASE InoutRequest(k, r)
    <3>1. from = "none" /\ to \in {"issued", "refused"}
      BY <1>4, <2>1 DEF InoutRequest, Move
    <3>2. UnderWay(k)' = UnderWay(k) \union {r}
      BY <1>4, <3>1 DEF UnderWay
    <3>3. CASE map_all[k]
      <4>1. k \in whole' /\ single' = single
        BY <1>6, <2>1, <3>3 DEF InoutRequest, DmaMap
      <4>. QED BY <1>1, <1>2, <1>5, <3>3, <4>1 DEF Exact
    <3>4. CASE ~map_all[k]
      <4>1. whole' = whole /\ single' = single \union {<<k, r>>}
        BY <1>6, <2>1, <3>4 DEF InoutRequest, DmaMap
      <4>. QED BY <1>1, <1>2, <3>2, <3>4, <4>1 DEF Exact
    <3>. QED BY <3>3, <3>4
  <2>2. CASE Retry(k, r)
    <3>1. UnderWay(k)' = UnderWay(k)
      BY <1>4, <2>2 DEF UnderWay, Retry, Move
    <3>. QED BY <1>1, <1>2, <2>2, <3>1 DEF Exact, Retry
  <2>3. CASE InoutDone(k, r)
    <3>1. from = "issued" /\ to = "none"
      BY <1>4, <2>3 DEF InoutDone, Move
    <3>2. UnderWay(k)' = UnderWay(k) \ {r} /\ r \in UnderWay(k)
      BY <1>4, <3>1 DEF UnderWay
    <3>3. CASE map_all[k]
      <4>1. whole' = whole /\ single' = single
        BY <1>6, <2>3, <3>3 DEF InoutDone, DmaUnmap
      <4>. QED BY <1>1, <1>2, <1>5, <3>2, <3>3, <4>1 DEF Exact
    <3>4. CASE ~map_all[k]
      <4>1. whole' = whole /\ single' = single \ {<<k, r>>}
        BY <1>6, <2>3, <3>4 DEF InoutDone, DmaUnmap
      <4>. QED BY <1>1, <1>2, <3>2, <3>4, <4>1 DEF Exact
    <3>. QED BY <3>3, <3>4
  <2>4. CASE Flush(k, r) \/ FlushErrand(k, r)
    <3>1. UnderWay(k)' = UnderWay(k)
      BY <1>4, <2>4 DEF UnderWay, Flush, FlushErrand, Move
    <3>. QED BY <1>1, <1>2, <2>4, <3>1 DEF Exact, Flush, FlushErrand
  <2>. QED BY <2>1, <2>2, <2>3, <2>4
<1>10. MappingsExact'
  BY <1>8, <1>9 DEF MappingsExact, Exact
<1>11. \A l \in Clients : Unconnected(l)'
  BY <1>2, <1>4, <1>5 DEF IInv
<1>12. TypeOK'
  BY <1>1, <1>2, <1>4, <1>7 DEF TypeOK, argVars, scanVars, sessionVars
<1>. QED BY <1>2, <1>10, <1>11, <1>12, RequestFrame DEF IInv

(* A gate is deleted; the client goes later, in check_clients().           *)
LEMMA CloseStep ==
  ASSUME IInv, NEW k \in Dynamic, Close(k)
  PROVE  IInv'
<1> USE DEF argVars, scanVars, dmaVars
<1>1. UNCHANGED <<argVars, scanVars, device, map_all, told, _dma_map_all, dmaVars>>
  BY DEF Close
<1>2. TypeOK'
  BY DEF IInv, TypeOK, Close
<1>3. Args'
  BY <1>1 DEF IInv, Args, ArgsType, Budget, Gathered, Firsts, First
<1>4. Idle' /\ Refused' /\ RefusedForGood' /\ StaticFirst' /\ MappingsExact'
  BY <1>1 DEF IInv, Idle, Refused, RefusedForGood, StaticFirst, MappingsExact,
              UnderWay, DevicesOf
<1>5. \A l \in Clients : Connected(l)' /\ Unconnected(l)'
  BY <1>1 DEF IInv, Connected, Unconnected, DevicesOf, First
<1>. QED BY <1>2, <1>3, <1>4, <1>5 DEF IInv

(* A client without requests takes its device and its mapping with it      *)
(* (main.cc:89).                                                           *)
LEMMA CheckStep ==
  ASSUME IInv, CheckClients
  PROVE  IInv'
<1> USE DEF argVars, scanVars
<1> DEFINE gone == {k \in closing : \A r \in Requests : request[k][r] = "none"}
<1>1. /\ device' = [k \in Clients |-> IF k \in gone THEN None ELSE device[k]]
      /\ closing' = closing \ gone /\ whole' = whole \ gone
      /\ UNCHANGED <<argVars, scanVars, map_all, told, _dma_map_all, single, request>>
  BY DEF CheckClients
<1>2. /\ TypeOK /\ gone \subseteq Dynamic /\ gone \subseteq Clients
      /\ gone \intersect Static = {} /\ None \notin Devices
  BY DynamicAssumption, CapsAssumption DEF IInv, TypeOK, Clients
<1>3. \A k \in Clients : device'[k] = IF k \in gone THEN None ELSE device[k]
  BY <1>1
<1>4. TypeOK'
  <2>1. device' \in [Clients -> Devices \union {None}]
    BY <1>1, <1>2 DEF TypeOK
  <2>2. closing' \subseteq {k \in Dynamic : device'[k] # None}
    BY <1>1, <1>2, <1>3 DEF TypeOK, Clients
  <2>. QED BY <1>1, <1>2, <2>1, <2>2 DEF TypeOK
<1>5. Args'
  BY <1>1 DEF IInv, Args, ArgsType, Budget, Gathered, Firsts, First
<1>6. Idle' /\ Refused' /\ RefusedForGood'
  BY <1>1, <1>3 DEF IInv, Idle, Refused, RefusedForGood, DevicesOf
<1>7. \A k \in Clients : Connected(k)' /\ Unconnected(k)'
  <2> SUFFICES ASSUME NEW k \in Clients PROVE Connected(k)' /\ Unconnected(k)'
    OBVIOUS
  <2>1. Connected(k) /\ Unconnected(k)
    BY DEF IInv
  <2>. QED BY <1>1, <1>3, <2>1 DEF Connected, Unconnected, DevicesOf, First
<1>8. StaticFirst'
  <2> SUFFICES ASSUME NEW n \in 1 .. Len(statics)
               PROVE  /\ \A k \in Dynamic : device'[k] # statics[n].device
                      /\ served /\ statics[n].device \in DevicesOf(explored) =>
                           \E l \in 1 .. n : device'[l] = statics[n].device
    BY <1>1 DEF StaticFirst, DevicesOf
  <2>1. statics[n].device \in Devices
    <3>1. statics[n] \in StaticClient
      BY DEF IInv, Args, ArgsType
    <3>. QED BY <3>1 DEF StaticClient
  <2>2. \A k \in Dynamic : device'[k] # statics[n].device
    BY <1>2, <1>3, <2>1 DEF IInv, StaticFirst, Clients
  <2>3. ASSUME served, statics[n].device \in DevicesOf(explored)
        PROVE  \E l \in 1 .. n : device'[l] = statics[n].device
    <3>1. PICK l \in 1 .. n : device[l] = statics[n].device
      BY <2>3 DEF IInv, StaticFirst
    <3>2. Len(statics) \in Nat /\ Len(statics) <= MaxStatic /\ MaxStatic \in Nat
      BY <1>2, StaticAssumption DEF TypeOK, IInv, Args, ArgsType
    <3>3. l \in Static
      BY <3>2 DEF Static
    <3>. QED BY <1>2, <1>3, <3>1, <3>3 DEF Clients
  <2>. QED BY <2>2, <2>3
<1>9. MappingsExact'
  <2>1. \A k \in Clients : Exact(k)
    BY DEF IInv, MappingsExact, Exact
  <2>2. \A k \in gone : UnderWay(k) = {}
    BY <1>2 DEF UnderWay
  <2>3. \A k \in Clients : Exact(k)'
    BY <1>1, <1>2, <1>3, <2>1, <2>2 DEF Exact, UnderWay
  <2>. QED BY <2>3 DEF MappingsExact, Exact
<1>. QED BY <1>4, <1>5, <1>6, <1>7, <1>8, <1>9 DEF IInv

(* The devices of the static clients, and where those clients are.         *)
LEMMA StaticType ==
  ASSUME IInv, NEW n \in 1 .. Len(statics)
  PROVE  /\ statics[n] \in StaticClient /\ statics[n].device \in Devices
         /\ Len(statics) \in Nat /\ 1 .. n \subseteq Static /\ n \in Static
<1>1. statics[n] \in StaticClient /\ Len(statics) \in Nat /\ Len(statics) <= MaxStatic
  BY DEF IInv, Args, ArgsType, TypeOK
<1>2. MaxStatic \in Nat
  BY StaticAssumption
<1>. QED BY <1>1, <1>2 DEF Static, StaticClient

(* op_create(): a device that is there and free, or a refusal (main.cc:108). *)
LEMMA OpCreateStep ==
  ASSUME IInv, NEW k \in Dynamic, NEW d \in Devices \union {None}, NEW mode \in BOOLEAN,
         OpCreate(k, d, mode)
  PROVE  IInv'
<1> USE DEF argVars, scanVars, dmaVars
<1>1. /\ TypeOK /\ served /\ phase = "running" /\ device[k] = None
      /\ k \in Clients /\ k \notin Static /\ None \notin Devices
      /\ told' = [told EXCEPT ![k] = [result |-> Answer(d), device |-> d]]
      /\ UNCHANGED <<argVars, scanVars, closing, dmaVars>>
  BY DynamicAssumption, CapsAssumption DEF IInv, OpCreate, Open, Clients
<1>2. Args'
  BY <1>1 DEF IInv, Args, ArgsType, Budget, Gathered, Firsts, First
<1>3. Idle' /\ Refused'
  BY <1>1 DEF IInv, Idle, Refused
<1>4. /\ told' \in [Dynamic -> [result : Results, device : Devices \union {None}]]
      /\ told'[k].result = Answer(d) /\ told'[k].device = d
      /\ \A l \in Dynamic \ {k} : told'[l] = told[l]
  BY <1>1 DEF TypeOK, Answer, Results
<1>5. RefusedForGood'
  BY <1>1, <1>4 DEF IInv, RefusedForGood, Answer, DevicesOf
<1>6. \A l \in Clients : Connected(l) /\ Unconnected(l) /\ Exact(l)
  BY DEF IInv, MappingsExact, Exact
<1>7. CASE Answer(d) # "ok"
  <2>1. UNCHANGED <<device, map_all, _dma_map_all>>
    BY <1>7 DEF OpCreate
  <2>2. TypeOK'
    BY <1>1, <1>4, <2>1 DEF TypeOK
  <2>3. StaticFirst' /\ MappingsExact'
    BY <1>1, <2>1 DEF IInv, StaticFirst, DevicesOf, MappingsExact, UnderWay
  <2>4. \A l \in Clients : Connected(l)' /\ Unconnected(l)'
    BY <1>1, <1>6, <2>1 DEF Connected, Unconnected, DevicesOf, First
  <2>. QED BY <1>2, <1>3, <1>5, <2>2, <2>3, <2>4 DEF IInv
<1>8. CASE Answer(d) = "ok"
  <2>1. /\ device' = [device EXCEPT ![k] = d] /\ map_all' = [map_all EXCEPT ![k] = mode]
        /\ SetDmaMapAll({k}, map_all')
    BY <1>8 DEF OpCreate
  <2>2. d \in Devices /\ d \in DevicesOf(explored) /\ ~Taken(d)
    BY <1>8 DEF Answer
  <2>3. /\ device' \in [Clients -> Devices \union {None}]
        /\ map_all' \in [Clients -> BOOLEAN]
        /\ device'[k] = d /\ map_all'[k] = mode
        /\ \A l \in Clients \ {k} : device'[l] = device[l] /\ map_all'[l] = map_all[l]
    BY <1>1, <2>1 DEF TypeOK
  <2>4. /\ _dma_map_all' \in [Devices -> BOOLEAN]
        /\ _dma_map_all'[d] = mode
        /\ \A e \in Devices \ {d} : _dma_map_all'[e] = _dma_map_all[e]
    BY <1>1, <2>1, <2>2, <2>3 DEF SetDmaMapAll, TypeOK
  <2>5. closing \subseteq {l \in Dynamic : device'[l] # None}
    BY <1>1, <2>2, <2>3 DEF TypeOK, Clients
  <2>6. TypeOK'
    BY <1>1, <1>4, <2>3, <2>4, <2>5 DEF TypeOK
  <2>7. \A l \in Clients : Connected(l)'
    <3>1. Connected(k)'
      BY <1>1, <2>2, <2>3, <2>4 DEF Connected, Taken, DevicesOf
    <3>2. ASSUME NEW l \in Clients \ {k}, device[l] # None PROVE Connected(l)'
      <4>1. device[l] # d /\ device[l] \in Devices
        BY <1>1, <2>2, <3>2 DEF Taken, TypeOK
      <4>2. Connected(l)
        BY <1>6
      <4>. QED BY <1>1, <2>3, <2>4, <3>2, <4>1, <4>2 DEF Connected, DevicesOf, First
    <3>3. ASSUME NEW l \in Clients \ {k}, device[l] = None PROVE Connected(l)'
      BY <2>3, <3>3 DEF Connected
    <3>. QED BY <3>1, <3>2, <3>3
  <2>8. \A l \in Clients : Unconnected(l)'
    BY <1>1, <1>6, <2>2, <2>3 DEF Unconnected
  <2>9. StaticFirst'
    <3> SUFFICES ASSUME NEW n \in 1 .. Len(statics)
                 PROVE  /\ \A l \in Dynamic : device'[l] # statics[n].device
                        /\ statics[n].device \in DevicesOf(explored) =>
                             \E l \in 1 .. n : device'[l] = statics[n].device
      BY <1>1 DEF StaticFirst, DevicesOf
    <3>1. 1 .. n \subseteq Clients \ {k} /\ n \in Static
      BY <1>1, StaticType DEF Clients
    <3>2. statics[n].device \in DevicesOf(explored) =>
            \E l \in 1 .. n : device[l] = statics[n].device
      BY <1>1 DEF IInv, StaticFirst
    <3>3. d # statics[n].device
      BY <2>2, <3>1, <3>2 DEF Taken
    <3>4. \A l \in Dynamic : device[l] # statics[n].device
      BY DEF IInv, StaticFirst
    <3>. QED BY <2>3, <3>1, <3>2, <3>3, <3>4 DEF Clients
  <2>10. MappingsExact'
    <3>1. Exact(k)'
      <4>1. UnderWay(k) = {} /\ UnderWay(k)' = {}
        BY <1>1, <1>6 DEF Unconnected, UnderWay
      <4>. QED BY <1>1, <1>6, <4>1 DEF Exact
    <3>2. \A l \in Clients \ {k} : Exact(l)'
      BY <1>1, <1>6, <2>3 DEF Exact, UnderWay
    <3>. QED BY <3>1, <3>2 DEF MappingsExact, Exact
  <2>. QED BY <1>2, <1>3, <1>5, <2>6, <2>7, <2>8, <2>9, <2>10 DEF IInv
<1>. QED BY <1>7, <1>8

(* The static clients of the devices found get them, before any other      *)
(* client can ask for one (main.cc:431).                                   *)
LEMMA ScanStepKeeps ==
  ASSUME IInv, ScanStep
  PROVE  IInv'
<1> USE DEF argVars, dmaVars
<1> DEFINE first(n) == /\ n <= Len(statics) /\ device[n] = None
                       /\ statics[n].device \in DevicesOf(explored')
                       /\ ~Taken(statics[n].device)
                       /\ \A l \in 1 .. n - 1 : statics[l].device # statics[n].device
           new == {n \in Static : first(n)}
<1>1. /\ TypeOK /\ phase = "running" /\ ~served /\ None \notin Devices
      /\ disks' \subseteq Disks /\ explored' \subseteq disks' /\ served' \in BOOLEAN
      /\ explored \subseteq explored' /\ parts' = parts
      /\ UNCHANGED <<argVars, closing, told, dmaVars>>
  BY CapsAssumption DEF IInv, ScanStep, Scan!Explore
<1>2. /\ device' = [k \in Clients |-> IF k \in new THEN statics[k].device ELSE device[k]]
      /\ map_all' = [k \in Clients |-> IF k \in new THEN statics[k].map_all ELSE map_all[k]]
      /\ SetDmaMapAll(new, map_all')
  BY DEF ScanStep, ConnectStatic
<1>3. MaxStatic \in Nat /\ Len(statics) \in Nat /\ Static \intersect Dynamic = {}
      /\ new \subseteq Static /\ Static \subseteq Int /\ new \subseteq Clients
  BY StaticAssumption, DynamicAssumption DEF IInv, Args, ArgsType, Static, Clients
<1>4. \A k \in Clients : Connected(k) /\ Unconnected(k) /\ Exact(k)
  BY DEF IInv, MappingsExact, Exact
<1>5. \A k \in Dynamic : k \in Clients /\ device[k] = None /\ k \notin new
  BY <1>1, <1>3, <1>4 DEF Connected, Clients
<1>6. \A k \in new : /\ k \in 1 .. Len(statics) /\ device[k] = None /\ First(k)
                     /\ statics[k].device \in DevicesOf(explored')
                     /\ statics[k].device \in Devices /\ statics[k].map_all \in BOOLEAN
                     /\ \A l \in Clients : device[l] # statics[k].device
  <2> SUFFICES ASSUME NEW k \in new
               PROVE  /\ k \in 1 .. Len(statics) /\ device[k] = None /\ First(k)
                      /\ statics[k].device \in DevicesOf(explored')
                      /\ statics[k].device \in Devices /\ statics[k].map_all \in BOOLEAN
                      /\ \A l \in Clients : device[l] # statics[k].device
    OBVIOUS
  <2>1. k \in 1 .. Len(statics)
    BY <1>3 DEF Static
  <2>2. statics[k] \in StaticClient
    BY <2>1, StaticType
  <2>. QED BY <2>1, <2>2 DEF First, Taken, StaticClient
<1>7. \A k \in Clients :
        /\ k \in new => device'[k] = statics[k].device /\ map_all'[k] = statics[k].map_all
        /\ k \notin new => device'[k] = device[k] /\ map_all'[k] = map_all[k]
  BY <1>2
<1>8. /\ device' \in [Clients -> Devices \union {None}]
      /\ map_all' \in [Clients -> BOOLEAN]
  BY <1>1, <1>2, <1>6 DEF TypeOK
<1> HIDE DEF new
<1>9. \A k, l \in new : statics[k].device = statics[l].device => k = l
  <2> SUFFICES ASSUME NEW k \in new, NEW l \in new, statics[k].device = statics[l].device
               PROVE  ~(k < l)
    BY <1>3
  <2>1. k \in Int /\ l \in Int /\ 1 <= k
    BY <1>3, <1>6
  <2>2. \A j \in 1 .. l - 1 : statics[j].device # statics[l].device
    BY <1>6 DEF First
  <2>. QED BY <2>1, <2>2
<1>10. /\ _dma_map_all' \in [Devices -> BOOLEAN]
       /\ \A k \in new : _dma_map_all'[device'[k]] = map_all'[k]
       /\ \A d \in Devices : (\A k \in new : device'[k] # d) =>
            _dma_map_all'[d] = _dma_map_all[d]
  <2>1. _dma_map_all' = [d \in Devices |->
          IF \E k \in new : device'[k] = d
            THEN \E k \in new : device'[k] = d /\ map_all'[k] ELSE _dma_map_all[d]]
    BY <1>2 DEF SetDmaMapAll
  <2>2. _dma_map_all \in [Devices -> BOOLEAN]
    BY <1>1 DEF TypeOK
  <2>3. _dma_map_all' \in [Devices -> BOOLEAN]
    BY <2>1, <2>2
  <2>4. ASSUME NEW k \in new PROVE _dma_map_all'[device'[k]] = map_all'[k]
    <3>1. k \in Clients /\ device'[k] \in Devices /\ map_all'[k] \in BOOLEAN
      BY <1>3, <1>6, <1>7, <1>8
    <3>2. \A l \in new : device'[l] = device'[k] => l = k
      BY <1>3, <1>7, <1>9
    <3>3. _dma_map_all'[device'[k]] =
            (\E l \in new : device'[l] = device'[k] /\ map_all'[l])
      BY <2>1, <3>1
    <3>4. (\E l \in new : device'[l] = device'[k] /\ map_all'[l]) <=> map_all'[k]
      BY <3>2
    <3>. QED BY <3>1, <3>3, <3>4
  <2>. QED BY <2>1, <2>3, <2>4
<1>11. TypeOK'
  BY <1>1, <1>5, <1>7, <1>8, <1>10 DEF TypeOK
<1>12. Args'
  BY <1>1 DEF IInv, Args, ArgsType, Budget, Gathered, Firsts, First
<1>13. Idle' /\ Refused' /\ RefusedForGood'
  BY <1>1 DEF IInv, Idle, Refused, RefusedForGood
<1>14. \A k \in Clients : Connected(k)'
  <2>1. \A d \in DevicesOf(explored) : d \in DevicesOf(explored)'
    BY <1>1 DEF DevicesOf
  <2>2. ASSUME NEW k \in new PROVE Connected(k)'
    <3>1. device'[k] = statics[k].device /\ map_all'[k] = statics[k].map_all
      BY <1>3, <1>7
    <3>2. device'[k] \in DevicesOf(explored)' /\ k <= Len(statics) /\ First(k)
      BY <1>1, <1>6, <3>1 DEF DevicesOf
    <3>3. \A l \in Clients : device'[l] = device'[k] => l = k
      BY <1>6, <1>7, <1>9, <3>1
    <3>4. First(k)' /\ statics' = statics
      BY <1>1, <3>2 DEF First
    <3>5. k \notin Dynamic
      BY <1>5
    <3>. QED BY <1>10, <3>1, <3>2, <3>3, <3>4, <3>5 DEF Connected
  <2>3. ASSUME NEW k \in Clients, k \notin new, device[k] # None PROVE Connected(k)'
    <3>1. /\ device'[k] = device[k] /\ map_all'[k] = map_all[k] /\ Connected(k)
          /\ device[k] \in Devices
      BY <1>1, <1>4, <1>7, <2>3 DEF TypeOK
    <3>2. \A l \in new : device'[l] # device[k]
      BY <1>3, <1>6, <1>7, <2>3
    <3>3. _dma_map_all'[device'[k]] = _dma_map_all[device[k]]
      BY <1>10, <3>1, <3>2
    <3>4. \A l \in Clients : device'[l] = device'[k] => l = k
      BY <1>7, <2>3, <3>1, <3>2 DEF Connected
    <3>5. k \notin Dynamic
      BY <1>5, <2>3
    <3>6. First(k) => First(k)'
      BY <1>1 DEF First
    <3>. QED BY <1>1, <2>1, <2>3, <3>1, <3>3, <3>4, <3>5, <3>6 DEF Connected
  <2>4. ASSUME NEW k \in Clients, k \notin new, device[k] = None PROVE Connected(k)'
    BY <1>7, <2>4 DEF Connected
  <2>. QED BY <1>3, <2>2, <2>3, <2>4
<1>15. \A k \in Clients : Unconnected(k)'
  BY <1>1, <1>4, <1>6, <1>7 DEF Unconnected
<1>16. StaticFirst'
  <2> SUFFICES ASSUME NEW n \in 1 .. Len(statics)
               PROVE  /\ \A k \in Dynamic : device'[k] # statics[n].device
                      /\ statics[n].device \in DevicesOf(explored') =>
                           \E l \in 1 .. n : device'[l] = statics[n].device
    BY <1>1 DEF StaticFirst, DevicesOf
  <2>1. /\ statics[n].device \in Devices /\ 1 .. n \subseteq Static
        /\ 1 .. n \subseteq Clients /\ n \in Int
    BY <1>3, StaticType DEF Clients
  <2>2. \A k \in Dynamic : device'[k] # statics[n].device
    BY <1>1, <1>5, <1>7, <2>1
  <2>3. ASSUME statics[n].device \in DevicesOf(explored')
        PROVE  \E l \in 1 .. n : device'[l] = statics[n].device
    <3>1. PICK l \in 1 .. n : statics[l].device = statics[n].device /\ First(l)
      BY DEF IInv, Args, Firsts
    <3>2. l \in Static /\ l \in Clients /\ l \in Int /\ l <= Len(statics)
      BY <1>3, <2>1
    <3>3. CASE Taken(statics[n].device)
      <4>1. PICK k \in Clients : device[k] = statics[n].device
        BY <3>3 DEF Taken
      <4>2. /\ k \in Static /\ k \in Int /\ k \notin new
            /\ k <= Len(statics) /\ device[k] = statics[k].device /\ First(k)
        BY <1>1, <1>3, <1>4, <1>5, <1>6, <2>1, <4>1 DEF Connected, Clients
      <4>3. k >= 1 /\ n \in 1 .. Len(statics)
        BY <4>2 DEF Static
      <4>4. k <= n
        <5> SUFFICES ASSUME ~(k <= n) PROVE FALSE
          OBVIOUS
        <5>1. n \in 1 .. k - 1
          BY <1>3, <4>2
        <5>. QED BY <4>1, <4>2, <5>1 DEF First
      <4>. QED BY <1>7, <4>1, <4>2, <4>3, <4>4
    <3>4. CASE ~Taken(statics[n].device)
      <4>1. device[l] = None
        <5>1. device[l] # None => device[l] = statics[l].device
          BY <1>4, <3>2 DEF Connected
        <5>. QED BY <3>1, <3>2, <3>4, <5>1 DEF Taken
      <4>2. l \in new
        BY <2>3, <3>1, <3>2, <3>4, <4>1 DEF new, First
      <4>. QED BY <1>7, <3>1, <3>2, <4>2
    <3>. QED BY <3>3, <3>4
  <2>. QED BY <2>2, <2>3
<1>17. MappingsExact'
  <2>1. \A k \in Clients : UnderWay(k)' = UnderWay(k)
    BY <1>1 DEF UnderWay
  <2>2. \A k \in new : UnderWay(k) = {}
    BY <1>3, <1>4, <1>6 DEF Unconnected, UnderWay
  <2>3. \A k \in Clients : Exact(k)'
    BY <1>1, <1>4, <1>6, <1>7, <2>1, <2>2 DEF Exact
  <2>. QED BY <2>3 DEF MappingsExact, Exact
<1>. QED BY <1>11, <1>12, <1>13, <1>14, <1>15, <1>16, <1>17 DEF IInv

-----------------------------------------------------------------------------
(* The theorems.                                                           *)

(* No option has been read, nothing has been found, nobody is connected.   *)
LEMMA InvInit == Init => IInv
<1> SUFFICES ASSUME Init PROVE IInv
  OBVIOUS
<1> USE DEF Init, ArgsInit, Scan!Init
<1>1. MaxArgs \in Nat /\ MaxStatic \in Nat /\ 2 * MaxStatic >= MaxArgs
  BY MaxArgsAssumption, StaticAssumption
<1>2. argv \in Seq(Options) /\ Len(argv) <= MaxArgs /\ Len(argv) \in Nat
  <2>1. PICK n \in 0 .. MaxArgs : argv \in [1 .. n -> Options]
    OBVIOUS
  <2>2. n \in Nat /\ n <= MaxArgs
    BY <1>1
  <2>3. Len(argv) = n /\ argv \in Seq(Options)
    BY <2>1, <2>2
  <2>. QED BY <2>2, <2>3
<1>3. statics \in Seq(StaticClient) /\ Len(statics) = 0
  OBVIOUS
<1>4. optind = 1 /\ opts = NoClient /\ trusted = FALSE /\ phase = "args"
  OBVIOUS
<1>5. Gathered = 0
  BY DEF Gathered, NoClient
<1>6. Args
  <2>1. NoClient \in [cap : Names \union {None}, device : Devices \union {None},
                      map_all : BOOLEAN]
    BY DEF NoClient
  <2>. HIDE DEF Init, ArgsInit
  <2>2. ArgsType
    <3>1. trusted \in BOOLEAN /\ phase \in {"args", "running", "failed"}
      BY <1>4
    <3>2. optind \in Nat \ {0}
      BY <1>4
    <3>. QED BY <1>2, <1>3, <1>4, <2>1, <3>1, <3>2 DEF ArgsType
  <2>3. Budget /\ Firsts
    BY <1>2, <1>3, <1>5, <1>4 DEF Budget, Firsts
  <2>. QED BY <2>2, <2>3 DEF Args
<1>7. TypeOK
  <2>1. told \in [Dynamic -> [result : Results, device : Devices \union {None}]]
    BY DEF Results
  <2>2. /\ device \in [Clients -> Devices \union {None}]
        /\ map_all \in [Clients -> BOOLEAN] /\ _dma_map_all \in [Devices -> BOOLEAN]
    OBVIOUS
  <2>3. request \in
          [Clients -> [Requests -> {"none", "refused", "issued", "flushing"}]]
    OBVIOUS
  <2>4. closing \subseteq {k \in Dynamic : device[k] # None} /\ whole \subseteq Clients
        /\ single \subseteq Clients \X Requests
    OBVIOUS
  <2>5. /\ disks \subseteq Disks /\ explored \subseteq disks /\ served \in BOOLEAN
        /\ parts \in [Disks -> SUBSET Parts]
    OBVIOUS
  <2>. HIDE DEF Init, ArgsInit, Scan!Init
  <2>. QED BY <1>1, <1>3, <1>4, <2>1, <2>2, <2>3, <2>4, <2>5 DEF TypeOK
<1>8. \A k \in Clients : Connected(k) /\ Unconnected(k)
  BY DEF Connected, Unconnected
<1>9. Idle /\ Refused /\ RefusedForGood /\ StaticFirst /\ MappingsExact
  BY <1>3 DEF Idle, Refused, RefusedForGood, StaticFirst, MappingsExact, UnderWay
<1>. QED BY <1>6, <1>7, <1>8, <1>9 DEF IInv

(* Every step keeps it.                                                    *)
LEMMA InvStep == IInv /\ [Next]_vars => IInv'
<1> SUFFICES ASSUME IInv, [Next]_vars PROVE IInv'
  OBVIOUS
<1>1. CASE UNCHANGED vars
  <2> USE <1>1 DEF vars, argVars, scanVars, sessionVars, dmaVars
  <2>1. TypeOK'
    BY DEF IInv, TypeOK
  <2>2. Args'
    BY DEF IInv, Args, ArgsType, Budget, Gathered, Firsts, First
  <2>3. Idle' /\ Refused' /\ RefusedForGood' /\ StaticFirst' /\ MappingsExact'
    BY DEF IInv, Idle, Refused, RefusedForGood, StaticFirst, MappingsExact,
           UnderWay, DevicesOf
  <2>4. \A k \in Clients : Connected(k)' /\ Unconnected(k)'
    BY DEF IInv, Connected, Unconnected, DevicesOf, First
  <2>. QED BY <2>1, <2>2, <2>3, <2>4 DEF IInv
<1>. QED BY <1>1, ParseStep, ScanStepKeeps, OpCreateStep, CloseStep, CheckStep,
            RequestStep DEF Next

(* The invariant holds whatever the clients do.                            *)
LEMMA Invariant == Spec => []IInv
BY InvInit, InvStep, PTL DEF Spec

(* The types of all of the state; the command line never names more static *)
(* clients than there is room for.                                         *)
THEOREM TypeCorrect == Spec => []TypeOK
<1>1. IInv => TypeOK
  BY DEF IInv
<1>. QED BY <1>1, Invariant, PTL

(* "No such device" is final, for any disks, partitions and clients        *)
(* (main.cc:181).                                                          *)
THEOREM RefusedCorrect == Spec => []RefusedForGood
<1>1. IInv => RefusedForGood
  BY DEF IInv
<1>. QED BY <1>1, Invariant, PTL

(* Static clients get their devices before any other does, for every       *)
(* command line (main.cc:431).                                             *)
THEOREM StaticCorrect == Spec => []StaticFirst
<1>1. IInv => StaticFirst
  BY DEF IInv
<1>. QED BY <1>1, Invariant, PTL

(* What is mapped for DMA is what the requests under way and the client's  *)
(* mode call for, for any requests of any clients (nvme_device.h:63, 207). *)
THEOREM MappingsCorrect == Spec => []MappingsExact
<1>1. IInv => MappingsExact
  BY DEF IInv
<1>. QED BY <1>1, Invariant, PTL

=============================================================================
