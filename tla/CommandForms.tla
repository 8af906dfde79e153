---------------------------- MODULE CommandForms ----------------------------
(***************************************************************************)
(* What a user may write: the options, how GNU getopt reads a command      *)
(* line, and the forms that the help text documents, with their meaning.   *)
(* This is what CommandLine is compared with; only the option string and   *)
(* what counts as an option are taken from the code.                       *)
(***************************************************************************)
EXTENDS AddrParser, SequencesExt

NULL  == <<"NULL">>                  \* the null pointer, which is no word
Char  == STRING \ {NUL, "NULL"}

(* "46k:t:vsfpxl:u:w:b:a:c:" *)
WithArg == {"k", "t", "l", "u", "w", "b", "a", "c"}
Flags   == {"4", "6", "v", "s", "f", "p", "x"}
OptString == WithArg \cup Flags

Dashes == <<"-", "-">>
IsOption(w) == Len(w) > 1 /\ w[1] = "-"

(* What GNU getopt finds in the words a, scanned from left to right: the    *)
(* options, their arguments and the operands.                               *)
GnuStart ==
    [on |-> {}, arg |-> [o \in WithArg |-> NULL], operands |-> <<>>,
     want |-> {}, stop |-> FALSE]
ArgAt(w) == {n \in 2..Len(w) : w[n] \in WithArg}
GnuWord(acc, w) ==
    IF acc.stop THEN [acc EXCEPT !.operands = Append(@, w)]
    ELSE IF acc.want # {}
    THEN [acc EXCEPT !.want = {}, !.on = @ \cup acc.want,
             !.arg = [o \in WithArg |-> IF o \in acc.want THEN w ELSE @[o]]]
    ELSE IF ~IsOption(w) THEN [acc EXCEPT !.operands = Append(@, w)]
    ELSE IF w = Dashes THEN [acc EXCEPT !.stop = TRUE]
    ELSE IF ArgAt(w) = {}
    THEN [acc EXCEPT !.on = @ \cup {w[n] : n \in 2..Len(w)}]
    ELSE LET n == CHOOSE q \in ArgAt(w) : \A m \in ArgAt(w) : q <= m
             flags == acc.on \cup {w[m] : m \in 2..(n - 1)}
         IN  IF n = Len(w)
             THEN [acc EXCEPT !.on = flags, !.want = {w[n]}]
             ELSE [acc EXCEPT !.on = flags \cup {w[n]},
                      !.arg = [@ EXCEPT ![w[n]] = SubSeq(w, n + 1, Len(w))]]
GnuScans(a) ==
    LET scan[n \in 0..Len(a)] ==
            IF n = 0 THEN GnuStart ELSE GnuWord(scan[n - 1], a[n])
    IN  scan
GnuScan(a) == GnuScans(a)[Len(a)]

(* No "--", no cluster in which an option with an argument follows another  *)
(* option, and no option without its argument.                              *)
PlainWords(a) ==
    /\ \A n \in 1..Len(a) :
          /\ a[n] # Dashes
          /\ IsOption(a[n]) => \A m \in 3..Len(a[n]) :
                 a[n][m] \in WithArg => a[n][2] \in WithArg
    /\ GnuScan(a).want = {}

(* The documented forms.  An address with colons is written in brackets;    *)
(* "1" is the only digit, and a port is the number of its digits.           *)
Plain == Char \ Separators
Host(h) == h # <<>> /\ h \in Seq(Plain \cup {":"})
Writings(h) ==
    {<<"[">> \o h \o <<"]">>} \cup IF h \in Seq(Plain) THEN {h} ELSE {}
Digits(n) == [k \in 1..n |-> "1"]
Part(c, t) == IF t = NULL THEN <<>> ELSE <<c>> \o t
Lo == <<"127.0.0.1">>

(* ADDR[:PORT][/TOKEN].                                                     *)
AddrText(x, h, p, t) ==
    /\ Host(h) /\ {p, t} \subseteq Seq(Plain) \cup {NULL}
    /\ \E w \in Writings(h) : x = w \o Part(":", p) \o Part("/", t)

(* A server ignores the token.                                              *)
ServerText(x, f) ==
    \E p \in {NULL, f.port}, t \in {NULL} \cup {SubSeq(x, n, Len(x)) : n \in 1..(Len(x) + 1)} :
        /\ AddrText(x, f.host, p, t)
        /\ f.port = IF p = NULL THEN <<"6339">> ELSE p
        /\ f.token = IF f.kind = "SERVER" THEN NULL ELSE t

(* [[LOCAL_ADDR:]LOCAL_PORT:]REMOTE_ADDR:REMOTE_PORT.                       *)
PairText(x, f) ==
    /\ Host(f.raddr) /\ f.rport \in Nat \ {0}
    /\ \E w \in Writings(f.raddr) :
          LET r == w \o <<":">> \o Digits(f.rport) IN
          \/ x = r /\ f.laddr = Lo /\ f.lport = 0
          \/ /\ f.lport \in Nat \ {0}
             /\ \/ f.laddr = Lo /\ x = Digits(f.lport) \o <<":">> \o r
                \/ /\ Host(f.laddr)
                   /\ \E v \in Writings(f.laddr) :
                         x = v \o <<":">> \o Digits(f.lport) \o <<":">> \o r

(* [LOCAL_ADDR:]LOCAL_PORT.                                                 *)
LocalText(x, f) ==
    /\ f.lport \in Nat \ {0} /\ f.raddr = NULL /\ f.rport = 0
    /\ \/ x = Digits(f.lport) /\ f.laddr = Lo
       \/ AddrText(x, f.laddr, Digits(f.lport), NULL)

(* ADDR:PORT,... with the elements l; st is where they start.               *)
Items == [addr : {<<"4">>, <<"6">>, <<"m">>}, port : Nat]
ListText(x, l) ==
    /\ l \in Seq(Items)
    /\ l = <<>> => x = <<>>
    /\ l # <<>> => \E st \in [1..Len(l) -> 1..Len(x)] :
          /\ st[1] = 1
          /\ \A k \in 1..Len(l) : \E w \in Writings(l[k].addr) :
                SubSeq(x, st[k], Len(x)) = w \o <<":">> \o Digits(l[k].port) \o
                    IF k = Len(l) THEN <<>>
                    ELSE <<",">> \o SubSeq(x, st[k + 1], Len(x))

(* The options that choose a mode, in the help text.                        *)
ModeOptions(kind) ==
    CASE kind = "SERVER"         -> {"s"}
      [] kind = "FORWARDER_TERM" -> {"f"}
      [] kind = "FORWARDER_PORT" -> {"f", "p"}
      [] kind = "FORWARDER_SOCK" -> {"f", "x"}
      [] kind = "CONNECTOR_TERM" -> {}
      [] kind = "CONNECTOR_PORT" -> {"p"}
      [] kind = "CONNECTOR_SOCK" -> {"x"}

(* The words a are a command line of the documented form f, in any order    *)
(* that GNU getopt allows.  There is no key, which may not be readable.     *)
OfForm(a, f) ==
    LET g == GnuScan(a)
        o == g.operands IN
    /\ PlainWords(a) /\ g.on \subseteq OptString \ {"k"}
    /\ f.kind \in {"SERVER", "FORWARDER_TERM", "FORWARDER_PORT", "FORWARDER_SOCK",
                   "CONNECTOR_TERM", "CONNECTOR_PORT", "CONNECTOR_SOCK"}
    /\ g.on \cap {"s", "f", "p", "x"} = ModeOptions(f.kind)
    /\ IF f.kind = "SERVER" /\ o = <<>>
       THEN f.host = <<"0.0.0.0">> /\ f.port = <<"6339">> /\ f.token = NULL
       ELSE o # <<>> /\ ServerText(Last(o), f)
    /\ f.kind \in {"CONNECTOR_TERM", "CONNECTOR_PORT", "CONNECTOR_SOCK"} => f.token # NULL
    /\ Len(o) <= IF f.kind \in {"CONNECTOR_PORT", "CONNECTOR_SOCK"} THEN 2 ELSE 1
    /\ f.kind = "CONNECTOR_PORT" => Len(o) = 2 /\ PairText(o[1], f)
    /\ f.kind = "CONNECTOR_SOCK" => Len(o) = 2 /\ LocalText(o[1], f)
    /\ f.kind = "FORWARDER_PORT" =>
          /\ f.sense \in {"", "w", "b"}
          /\ g.on \cap {"w", "b"} = {f.sense} \ {""}
          /\ IF f.sense = "" THEN f.list = <<>> ELSE ListText(g.arg[f.sense], f.list)
=============================================================================
