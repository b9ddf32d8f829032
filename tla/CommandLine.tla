---------------------------- MODULE CommandLine ----------------------------
(***************************************************************************)
(* The command line: parse_args() takes the options one after the other    *)
(* and, where one --client ends and the next begins, hands what it has     *)
(* gathered to Client_opts::add_client().  A mistake ends the program.     *)
(*                                                                         *)
(* An option that sets a switch of Ctl (--nosgl, --nomsi, --nomsix) has no *)
(* effect on the clients; Interrupts and Transfers have it as a parameter. *)
(***************************************************************************)
EXTENDS Integers, Sequences, FiniteSets

CONSTANTS
  Devices,   \* devices that can be named
  Names,     \* names that can follow --client
  Caps,      \* those of them the driver has a capability of
  MaxArgs,   \* bound: the longest command line
  None       \* no name, and the name of a device that is none

ASSUME CapsAssumption == Caps \subseteq Names /\ None \notin Names \union Devices
ASSUME MaxArgsAssumption == MaxArgs \in Nat

VARIABLES
  argv,     \* the options; <<>> when parse_args() has returned
  optind,   \* the next one
  opts,     \* Client_opts: what has been gathered for a client
  trusted,  \* whether trusted_dataspaces holds any
  statics,  \* the static clients the manager has been told of, in order
  phase     \* "args", "running" (the server) or "failed" (EXIT_FAILURE)

argVars == <<argv, optind, opts, trusted, statics, phase>>

Opt(o, a) == [opt |-> o, arg |-> a]

\* "wrong" is an option that does not exist, or one with a wrong argument.
Options ==
  {Opt("client", name) : name \in Names}
  \union {Opt("device", d) : d \in Devices \union {None}}
  \union {Opt(o, None) : o \in {"dma-map-all", "dma-map-per-req", "register-ds",
                                "wrong"}}

\* Client_opts as it is constructed
NoClient == [cap |-> None, device |-> None, map_all |-> TRUE]

ArgsInit ==
  /\ argv \in UNION {[1 .. n -> Options] : n \in 0 .. MaxArgs}
  /\ optind = 1
  /\ opts = NoClient
  /\ trusted = FALSE
  /\ statics = <<>>
  /\ phase = "args"

Fail ==
  /\ phase' = "failed" /\ argv' = <<>>
  /\ UNCHANGED <<optind, opts, trusted, statics>>

\* add_client(): without a client there is nothing to add; a client needs a device
\* and a capability.
Addable(o) == o.cap = None \/ (o.device # None /\ o.cap \in Caps)

\* What the client may use for DMA is decided here, too.
AddClient(o) ==
  statics' = IF o.cap = None THEN statics
             ELSE Append(statics, [device |-> o.device, map_all |-> o.map_all,
                                   trusted_only |-> trusted])

Parsing == phase = "args" /\ optind <= Len(argv)

\* Mutant: the options gathered for one client are there for the next.
MutantOptClient ==
  LET a == argv[optind]
  IN  /\ Parsing /\ a.opt = "client"
      /\ IF Addable(opts)
           THEN /\ AddClient(opts)
                /\ opts' = [opts EXCEPT !.cap = a.arg]
                /\ optind' = optind + 1
                /\ UNCHANGED <<argv, trusted, phase>>
           ELSE Fail

OptClient ==
  LET a == argv[optind]
  IN  /\ Parsing /\ a.opt = "client"
      /\ IF Addable(opts)
           THEN /\ AddClient(opts)
                /\ opts' = [NoClient EXCEPT !.cap = a.arg]
                /\ optind' = optind + 1
                /\ UNCHANGED <<argv, trusted, phase>>
           ELSE Fail

\* An option that goes to opts (--ds-max and --readonly, which do likewise, are left
\* out)
OptForClient ==
  LET a == argv[optind]
  IN  /\ Parsing
      /\ \/ /\ a.opt = "device" /\ a.arg # None
            /\ opts' = [opts EXCEPT !.device = a.arg]
         \/ /\ a.opt \in {"dma-map-all", "dma-map-per-req"}
            /\ opts' = [opts EXCEPT !.map_all = (a.opt = "dma-map-all")]
      /\ optind' = optind + 1
      /\ UNCHANGED <<argv, trusted, statics, phase>>

OptRegisterDs ==
  /\ Parsing /\ argv[optind].opt = "register-ds"
  /\ trusted' = TRUE
  /\ optind' = optind + 1
  /\ UNCHANGED <<argv, opts, statics, phase>>

OptWrong ==
  /\ Parsing
  /\ argv[optind] \in {Opt("wrong", None), Opt("device", None)}
  /\ Fail

\* The last client is added, and the server starts.
ParseEnd ==
  /\ phase = "args" /\ optind > Len(argv)
  /\ IF Addable(opts)
       THEN /\ AddClient(opts)
            /\ phase' = "running" /\ argv' = <<>>
            /\ optind' = 1 /\ opts' = NoClient
            /\ UNCHANGED trusted
       ELSE Fail

ParseArgs ==
  OptClient \/ OptForClient \/ OptRegisterDs \/ OptWrong \/ ParseEnd

-----------------------------------------------------------------------------

\* The places of the options that stand in the scope of the --client at j: behind
\* it and before the next one.
Scope(j) ==
  {k \in j + 1 .. Len(argv) : \A l \in j + 1 .. k : argv[l].opt # "client"}

\* What add_client() has seen of the command line when it hands over the client of
\* the --client at j: all that stands before the next one.
Seen(j) == {k \in 1 .. Len(argv) : \A l \in j + 1 .. k : argv[l].opt # "client"}

LastArg(j, opts_, default) ==
  LET those == {k \in Scope(j) : argv[k].opt \in opts_}
  IN  IF those = {} THEN default
      ELSE argv[CHOOSE k \in those : \A l \in those : l <= k]

\* The server starts with exactly the clients of the command line, each with the
\* device and the DMA mode given "for the client specified in the preceding
\* `client' option" (usage.md:99), whatever stands before it or after it, and
\* bound to the trusted dataspaces if one is registered before the next --client
\* (not, as usage.md:149 has it, if any is registered: main.cc:274).
OptionsScoped ==
  [][phase = "args" /\ phase' = "running" =>
       LET places == {j \in DOMAIN argv : argv[j].opt = "client"}
       IN  /\ Len(statics') = Cardinality(places)
           /\ \A j \in places :
                LET client == statics'[Cardinality({l \in places : l <= j})]
                    mode   == {"dma-map-all", "dma-map-per-req"}
                    map    == Opt("dma-map-all", None)
                IN  /\ client.device = LastArg(j, {"device"}, Opt("", None)).arg
                    /\ client.device # None /\ argv[j].arg \in Caps
                    /\ client.map_all = (LastArg(j, mode, map) = map)
                    /\ client.trusted_only =
                         \E k \in Seen(j) : argv[k].opt = "register-ds"]_argVars

=============================================================================
