---------------------------- MODULE CommandLine ----------------------------
(***************************************************************************)
(* The command line and the configuration: getopt of misc/hev-compat.h     *)
(* (the Windows build's; elsewhere it is the C library's, which the same   *)
(* properties describe), parse_args of hev-main.c with everything it       *)
(* calls, and hev-fsh-config.c.  A word is a sequence of characters.       *)
(*                                                                         *)
(* A case is a command line together with what its user means by it, if it *)
(* is of a documented form: the properties compare the configuration with  *)
(* that meaning.                                                           *)
(***************************************************************************)
EXTENDS CommandForms

CONSTANT Cases      \* families of command lines: a tuple of sets of [argv, form]

NoForm == [kind |-> "none"]

ASSUME CasesAssumption ==
    \A n \in DOMAIN Cases : \A c \in Cases[n] : c.argv \in Seq(Seq(Char))

ASSUME FormsAssumption ==
    \A n \in DOMAIN Cases : \A c \in Cases[n] :
        c.form.kind # "none" => OfForm(c.argv, c.form)

VARIABLES
    phase,      \* where parse_args is
    argv,       \* the words after argv[0]; permuted by the first getopt call
    given,      \* the words as the user gave them
    form,       \* what the user means (history)
    optind, pos,\* getopt's
    on,         \* options seen
    optarg,     \* their arguments; the last one of each counts
    list,       \* the rest of the -w or -b text
    cfg,        \* the configuration
    lost        \* an address list node could not be allocated (history)

argVars == <<argv, given, form>>
optVars == <<optind, pos, on, optarg>>
vars == <<parserVars, phase, argVars, optVars, list, cfg, lost>>

(* hev_fsh_config_new.                                                      *)
NewConfig ==
    [mode |-> "NONE", server_address |-> NULL, server_port |-> <<"6339">>,
     token |-> NULL, user |-> NULL, crypto |-> FALSE,
     local_address |-> <<"127.0.0.1">>, local_port |-> 0,
     remote_address |-> NULL, remote_port |-> 0, addr_list |-> <<>>]

Init ==
    /\ ParserInit
    /\ \E n \in DOMAIN Cases : \E c \in Cases[n] :
          given = c.argv /\ argv = c.argv /\ form = c.form
    /\ phase = "permute" /\ optind = 1 /\ pos = 2
    /\ on = {} /\ optarg = [o \in WithArg |-> NULL]
    /\ list = <<>> /\ cfg = NewConfig /\ lost = FALSE

(* Every failure of parse_args: main shows the help and returns.            *)
Usage == phase' = "usage"

-----------------------------------------------------------------------------
(* getopt.                                                                  *)

(* The words a with those numbered in P in front, both parts in order.      *)
Place(a, P, n) ==
    LET UpTo(S) == Cardinality({m \in S : m <= n})
    IN  IF n \in P THEN UpTo(P) ELSE Cardinality(P) + UpTo((1..Len(a)) \ P)
InFront(a, P) ==
    [n \in 1..Len(a) |-> a[CHOOSE m \in 1..Len(a) : Place(a, P, m) = n]]

(* What the first pass of getopt_permute takes each word for; it stops at   *)
(* the end of the options, "--".                                            *)
KindAfter(prev, w) ==
    IF prev = "end" THEN "end"
    ELSE IF prev = "needs" THEN "argument"
    ELSE IF ~IsOption(w) THEN "rest"
    ELSE IF w = Dashes THEN "end"
    ELSE IF w[2] \in WithArg /\ Len(w) = 2 THEN "needs"
    ELSE "option"
WordKinds(a) ==
    LET kind[n \in 0..Len(a)] ==
            IF n = 0 THEN "rest" ELSE KindAfter(kind[n - 1], a[n])
    IN  kind

(* Mutant: an option's argument stays where it is.                          *)
PermuteNoArg(a) == InFront(a, {n \in 1..Len(a) : IsOption(a[n])})

(* getopt_permute: the options, each with its argument, then the rest.      *)
Permute(a) ==
    InFront(a, {n \in 1..Len(a) :
                   WordKinds(a)[n] \in {"option", "needs", "argument"}})

GetoptPermute ==
    /\ phase = "permute"
    /\ argv' = Permute(argv)
    /\ phase' = "getopt"
    /\ UNCHANGED <<parserVars, given, form, optVars, list, cfg, lost>>

Word == argv[optind]

(* Mutant: the word that ends the options is always skipped.                *)
GetoptEndSkips ==
    /\ phase = "getopt"
    /\ optind <= Len(argv) => ~IsOption(Word) \/ Word = Dashes
    /\ phase' = "operands"
    /\ optind' = optind + 1
    /\ UNCHANGED <<parserVars, argVars, pos, on, optarg, list, cfg, lost>>

(* No option is left; "--" is skipped.                                      *)
GetoptEnd ==
    /\ phase = "getopt"
    /\ optind <= Len(argv) => ~IsOption(Word) \/ Word = Dashes
    /\ phase' = "operands"
    /\ optind' = IF optind <= Len(argv) /\ Word = Dashes THEN optind + 1 ELSE optind
    /\ UNCHANGED <<parserVars, argVars, pos, on, optarg, list, cfg, lost>>

(* The next character of the word, and the case of parse_args's switch.     *)
GetoptNext ==
    /\ phase = "getopt"
    /\ optind <= Len(argv) /\ IsOption(Word) /\ Word # Dashes
    /\ LET c    == Word[pos]
           last == pos = Len(Word) IN
       \/ c \notin OptString /\ Usage /\ UNCHANGED optVars
       \/ /\ c \in Flags
          /\ on' = on \cup {c}
          /\ optind' = IF last THEN optind + 1 ELSE optind
          /\ pos' = IF last THEN 2 ELSE pos + 1
          /\ UNCHANGED <<phase, optarg>>
       \/ /\ c \in WithArg
          /\ IF last /\ optind = Len(argv)
             THEN Usage /\ UNCHANGED optVars
             ELSE /\ on' = on \cup {c}
                  /\ optarg' = [optarg EXCEPT ![c] =
                         IF last THEN argv[optind + 1]
                         ELSE SubSeq(Word, pos + 1, Len(Word))]
                  /\ optind' = IF last THEN optind + 2 ELSE optind + 1
                  /\ pos' = 2
                  /\ UNCHANGED phase
    /\ UNCHANGED <<parserVars, argVars, list, cfg, lost>>

-----------------------------------------------------------------------------
(* parse_server and parse_client.                                           *)

T(n) == IF optind + n <= Len(argv) THEN argv[optind + n] ELSE NULL
Forward   == "f" \in on
Port      == "p" \in on
Sock      == "x" \in on
PairFirst == ~Forward /\ (Port \/ Sock)

(* The text of the server's address: t1, or t2 behind the connector's pair. *)
Operands ==
    /\ phase = "operands"
    /\ LET sa == IF "s" \notin on /\ PairFirst THEN T(1) ELSE T(0) IN
       \/ /\ sa = NULL /\ "s" \in on
          /\ cfg' = [cfg EXCEPT !.mode = "SERVER", !.server_address = <<"0.0.0.0">>]
          /\ phase' = "key" /\ UNCHANGED parserVars
       \/ sa = NULL /\ "s" \notin on /\ Usage /\ UNCHANGED <<cfg, parserVars>>
       \/ sa # NULL /\ Call("addr", sa) /\ phase' = "server" /\ UNCHANGED cfg
    /\ UNCHANGED <<argVars, optVars, list, lost>>

(* The C string of pointer n, or d for a null pointer.                      *)
Str(n, d) == IF ps[n] = 0 THEN d ELSE CStr(ps[n])

(* Mutant: a missing address stays missing.                                 *)
SetModeOnly(c, m) == [c EXCEPT !.mode = m]

(* hev_fsh_config_set_mode gives a missing address its default.             *)
SetMode(c, m) ==
    [c EXCEPT !.mode = m,
              !.server_address = IF @ # NULL THEN @
                  ELSE IF m = "SERVER" THEN <<"0.0.0.0">> ELSE <<"127.0.0.1">>]

Node(t, a, p, act) == [type |-> t, addr |-> a, port |-> p, action |-> act]

(* hev_fsh_config_addr_list_add pushes a node, or has no memory for it;     *)
(* there are at most two nodes, the later one in front.                     *)
Adds(l, nodes) ==
    {new \o l : new \in {<<>>, nodes} \cup {<<n>> : n \in ToSet(nodes)}}

(* atoi.  "1" is the only digit: the number of leading digits stands for    *)
(* the value.                                                               *)
Atoi(t) ==
    LET n == {m \in 0..Len(t) : \A q \in 1..m : t[q] = "1"}
    IN  CHOOSE m \in n : \A q \in n : q <= m

(* parse_server and parse_client with the parsed address, up to the next    *)
(* text that has to be parsed.                                              *)
ServerParsed ==
    /\ phase = "server" /\ ret # "run"
    /\ LET c == [cfg EXCEPT !.server_address = Str(ADDR, NULL),
                            !.server_port = Str(PORT, @)]
           d == [c EXCEPT !.token = Str(TOKEN, NULL)] IN
       \/ ret = "error" /\ Usage /\ UNCHANGED <<cfg, parserVars, list, lost>>
       \/ /\ ret = "ok" /\ "s" \in on
          /\ cfg' = SetMode(c, "SERVER") /\ phase' = "key"
          /\ UNCHANGED <<parserVars, list, lost>>
       \/ /\ ret = "ok" /\ "s" \notin on /\ Forward /\ Port
          /\ LET deny == optarg["w"] # NULL
                 both == deny /\ optarg["b"] # NULL
                 node == Node(0, NULL, 0, IF deny THEN 0 ELSE 1)
             IN  IF both THEN Usage /\ UNCHANGED <<cfg, list, lost>>
                 ELSE /\ cfg' \in {[d EXCEPT !.addr_list = l] : l \in Adds(<<>>, <<node>>)}
                      /\ lost' = (cfg'.addr_list = <<>>)
                      /\ list' = IF deny THEN optarg["w"] ELSE
                                 IF optarg["b"] # NULL THEN optarg["b"] ELSE <<>>
                      /\ phase' = "list"
          /\ UNCHANGED parserVars
       \/ /\ ret = "ok" /\ "s" \notin on /\ Forward /\ ~Port
          /\ cfg' = IF Sock THEN SetMode(d, "FORWARDER_SOCK")
                    ELSE SetMode([d EXCEPT !.user = optarg["u"]], "FORWARDER_TERM")
          /\ phase' = "key"
          /\ UNCHANGED <<parserVars, list, lost>>
       \/ /\ ret = "ok" /\ "s" \notin on /\ ~Forward /\ d.token = NULL
          /\ Usage /\ UNCHANGED <<cfg, parserVars, list, lost>>
       \/ /\ ret = "ok" /\ "s" \notin on /\ ~Forward /\ d.token # NULL
          /\ UNCHANGED <<list, lost>>
          /\ \/ /\ ~Port /\ ~Sock
                /\ cfg' = SetMode(d, "CONNECTOR_TERM") /\ phase' = "key"
                /\ UNCHANGED parserVars
             \/ Port /\ cfg' = d /\ Call("pair", T(0)) /\ phase' = "pair"
             \/ /\ ~Port /\ Sock /\ ":" \in ToSet(T(0))
                /\ cfg' = d /\ Call("addr", T(0)) /\ phase' = "local"
             \/ /\ ~Port /\ Sock /\ ":" \notin ToSet(T(0))
                /\ cfg' = SetMode([d EXCEPT !.local_port = Atoi(T(0))], "CONNECTOR_SOCK")
                /\ phase' = "key" /\ UNCHANGED parserVars
    /\ UNCHANGED <<argVars, optVars>>

(* Mutant: three fields are taken for an address, a port and an address.    *)
SetPairSwapped(c) ==
    IF ps[3] # 0 /\ ps[4] # 0
    THEN [c EXCEPT !.local_address = Str(1, NULL), !.local_port = Atoi(Str(2, NULL)),
                   !.remote_address = Str(3, NULL), !.remote_port = Atoi(Str(4, NULL))]
    ELSE IF ps[3] # 0
    THEN [c EXCEPT !.local_address = Str(1, NULL), !.local_port = Atoi(Str(2, NULL)),
                   !.remote_address = Str(3, NULL)]
    ELSE [c EXCEPT !.remote_address = Str(1, NULL), !.remote_port = Atoi(Str(2, NULL))]

(* What parse_set_addr_pair sets for two, three and four fields.            *)
SetPair(c) ==
    IF ps[3] # 0 /\ ps[4] # 0
    THEN [c EXCEPT !.local_address = Str(1, NULL), !.local_port = Atoi(Str(2, NULL)),
                   !.remote_address = Str(3, NULL), !.remote_port = Atoi(Str(4, NULL))]
    ELSE IF ps[3] # 0
    THEN [c EXCEPT !.local_port = Atoi(Str(1, NULL)),
                   !.remote_address = Str(2, NULL), !.remote_port = Atoi(Str(3, NULL))]
    ELSE [c EXCEPT !.remote_address = Str(1, NULL), !.remote_port = Atoi(Str(2, NULL))]

PairParsed ==
    /\ phase = "pair" /\ ret # "run"
    /\ IF ret = "error" \/ ps[1] = 0 \/ ps[2] = 0
       THEN Usage /\ UNCHANGED cfg
       ELSE cfg' = SetMode(SetPair(cfg), "CONNECTOR_PORT") /\ phase' = "key"
    /\ UNCHANGED <<parserVars, argVars, optVars, list, lost>>

(* parse_set_addr with a colon in the text.                                 *)
LocalParsed ==
    /\ phase = "local" /\ ret # "run"
    /\ IF ret = "error" \/ ps[ADDR] = 0 \/ ps[PORT] = 0
       THEN Usage /\ UNCHANGED cfg
       ELSE /\ cfg' = SetMode([cfg EXCEPT !.local_address = Str(ADDR, NULL),
                                          !.local_port = Atoi(Str(PORT, NULL))],
                              "CONNECTOR_SOCK")
            /\ phase' = "key"
    /\ UNCHANGED <<parserVars, argVars, optVars, list, lost>>

-----------------------------------------------------------------------------
(* The address list of a port forwarder.  inet_pton (external) knows one    *)
(* IPv4 address, "4", one IPv6 address, "6", and the IPv6 form "m" of "4".  *)

(* parse_set_addr_list: the next element, or the end of the text.           *)
ListNext ==
    /\ phase = "list"
    /\ \/ /\ list = <<>>
          /\ cfg' = SetMode(cfg, "FORWARDER_PORT") /\ phase' = "key"
          /\ UNCHANGED <<parserVars, list>>
       \/ /\ list # <<>> /\ Head(list) = ","
          /\ list' = Tail(list) /\ UNCHANGED <<parserVars, phase, cfg>>
       \/ /\ list # <<>> /\ Head(list) # ","
          /\ Call("addr", list) /\ phase' = "element" /\ UNCHANGED <<list, cfg>>
    /\ UNCHANGED <<argVars, optVars, lost>>

(* Mutant: the IPv6 form of an IPv4 address is not added.                   *)
NodesFamily(a, p, act) ==
    CASE a = <<"4">> -> <<Node(4, "4", p, act)>>
      [] a = <<"6">> -> <<Node(6, "6", p, act)>>
      [] a = <<"m">> -> <<Node(6, "m", p, act)>>
      [] OTHER -> <<>>

(* set_addr_list: an address is added in both families where it has both,   *)
(* the later one in front.                                                  *)
Nodes(a, p, act) ==
    CASE a = <<"4">> -> <<Node(6, "m", p, act), Node(4, "4", p, act)>>
      [] a = <<"6">> -> <<Node(6, "6", p, act)>>
      [] a = <<"m">> -> <<Node(4, "4", p, act), Node(6, "m", p, act)>>
      [] OTHER -> <<>>

(* The text is skipped up to the next comma or the end.                     *)
FromComma(t) ==
    LET ends == {m \in 1..(Len(t) + 1) : m > Len(t) \/ t[m] = ","}
    IN  SubSeq(t, CHOOSE m \in ends : \A q \in ends : m <= q, Len(t))

ListElement ==
    /\ phase = "element" /\ ret # "run"
    /\ LET new == Nodes(Str(ADDR, NULL), Atoi(Str(PORT, NULL)),
                        IF optarg["w"] # NULL THEN 1 ELSE 0) IN
       IF ret = "error" \/ ps[ADDR] = 0 \/ ps[PORT] = 0 \/ new = <<>>
       THEN Usage /\ UNCHANGED <<list, cfg, lost>>
       ELSE /\ cfg' \in {[cfg EXCEPT !.addr_list = l] : l \in Adds(cfg.addr_list, new)}
            /\ lost' = (lost \/ Len(cfg'.addr_list) < Len(cfg.addr_list) + Len(new))
            /\ list' = FromComma(list)
            /\ phase' = "list"
    /\ UNCHANGED <<parserVars, argVars, optVars>>

(* parse_key, then the log options: the end of parse_args.                  *)
Key ==
    /\ phase = "key"
    /\ \/ optarg["k"] = NULL /\ phase' = "done" /\ UNCHANGED cfg
       \/ /\ optarg["k"] # NULL
          /\ \/ phase' = "done" /\ cfg' = [cfg EXCEPT !.crypto = TRUE]
             \/ Usage /\ UNCHANGED cfg
    /\ UNCHANGED <<parserVars, argVars, optVars, list, lost>>

Parse ==
    /\ ParserStep
    /\ UNCHANGED <<phase, argVars, optVars, list, cfg, lost>>

Next ==
    \/ GetoptPermute \/ GetoptEnd \/ GetoptNext \/ Operands
    \/ Parse \/ ServerParsed \/ PairParsed \/ LocalParsed
    \/ ListNext \/ ListElement \/ Key

Spec == Init /\ [][Next]_vars /\ WF_vars(Next)

(* hev_fsh_config_addr_list_contains: the first node that matches decides.  *)
Matches(n, t, a, p) == n.type = 0 \/ (n.type = t /\ n.port = p /\ n.addr = a)
AddrListContains(t, a, p) ==
    LET l == cfg.addr_list
        m == {n \in 1..Len(l) : Matches(l[n], t, a, p)}
    IN  IF m = {} THEN 0 ELSE l[CHOOSE n \in m : \A q \in m : n <= q].action

-----------------------------------------------------------------------------
(* Properties.                                                              *)

(* Type invariant of the command line.                                      *)
TypeOK ==
    /\ ParserTypeOK
    /\ phase \in {"permute", "getopt", "operands", "server", "pair", "local",
                  "list", "element", "key", "done", "usage"}
    /\ Len(argv) = Len(given)
    /\ optind \in 1..(Len(argv) + 1)
    /\ pos = 2 \/ (optind <= Len(argv) /\ pos \in 2..Len(Word))
    /\ on \subseteq OptString
    /\ \A o \in WithArg : optarg[o] # NULL <=> o \in on
    /\ cfg.mode \in {"NONE", "SERVER", "FORWARDER_TERM", "FORWARDER_PORT",
                     "FORWARDER_SOCK", "CONNECTOR_TERM", "CONNECTOR_PORT",
                     "CONNECTOR_SOCK"}
    /\ lost \in BOOLEAN

(* "Move the non-options behind the options, like the GNU getopt does."     *)
(* For plain words the two passes of getopt_permute and the calls of getopt *)
(* after it find the options, arguments and operands that GNU getopt finds. *)
PermuteLikeGNU ==
    phase = "operands" /\ PlainWords(given) =>
        LET g == GnuScan(given) IN
        /\ on = g.on /\ optarg = g.arg
        /\ SubSeq(argv, optind, Len(argv)) = g.operands

(* A documented command line is accepted and means what the help text says: *)
(* address, port (6339 by default) and token of the server go to the right  *)
(* fields, through both parsers and their in-place cuts, and so do the      *)
(* local and remote ends.                                                   *)
FormsUnderstood ==
    phase \in {"done", "usage"} /\ form.kind # "none" =>
        /\ phase = "done" /\ cfg.mode = form.kind
        /\ cfg.server_address = form.host
        /\ cfg.server_port = form.port
        /\ cfg.token = form.token
        /\ form.kind \in {"CONNECTOR_PORT", "CONNECTOR_SOCK"} =>
              /\ cfg.local_address = form.laddr /\ cfg.local_port = form.lport
              /\ cfg.remote_address = form.raddr /\ cfg.remote_port = form.rport

(* A configuration that parse_args accepts can be used: it has a mode and   *)
(* an address, a connector has a token, a port connector a remote end.      *)
AcceptedIsUsable ==
    phase = "done" =>
        /\ cfg.mode # "NONE" /\ cfg.server_address # NULL
        /\ cfg.mode \in {"CONNECTOR_TERM", "CONNECTOR_PORT", "CONNECTOR_SOCK"}
              => cfg.token # NULL
        /\ cfg.mode = "CONNECTOR_PORT" => cfg.remote_address # NULL

Requests == {<<4, "4">>, <<4, "5">>, <<6, "6">>, <<6, "m">>, <<6, "7">>}

(* The endpoint is named by the user's list.                                *)
Listed(t, a, p) ==
    \E n \in 1..Len(form.list) :
        /\ form.list[n].port = p
        /\ form.list[n].addr \in (IF a \in {"4", "m"} THEN {<<"4">>, <<"m">>} ELSE {<<a>>})

(* The forwarder serves exactly what the user's list says, for an IPv4      *)
(* endpoint in either of its forms: with -w the listed endpoints, with -b   *)
(* all others, without a list everything.  A list node that could not be    *)
(* allocated never lets a white list serve more.                            *)
ListDecides ==
    phase = "done" /\ form.kind = "FORWARDER_PORT" =>
        \A r \in Requests, p \in 1..2 :
            LET served == AddrListContains(r[1], r[2], p) = 1
                listed == Listed(r[1], r[2], p) IN
            /\ form.sense = "w" => (served => listed) /\ (~lost => (listed => served))
            /\ form.sense = "b" => (~lost => (served <=> ~listed))
            /\ form.sense = "" => (~lost => served)

(* The help text and the README document these options.                     *)
Documented == {"4", "6", "k", "t", "l", "c", "v", "U", "s", "a", "f", "u", "p",
               "w", "b", "x"}

(* Every documented option is accepted by getopt.                           *)
DocumentedAccepted ==
    phase = "usage" /\ fn = "none" /\ optind <= Len(argv) /\ IsOption(Word)
        => Word[pos] \notin Documented \/ Word[pos] \in WithArg
=============================================================================
