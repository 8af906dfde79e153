-------------------------- MODULE MCCommandLine --------------------------
(* Command lines for TLC: all short texts for each parser, all short word  *)
(* sequences for getopt, and the documented forms with their meanings.     *)
EXTENDS CommandLine, TLC

W(c) == <<"-", c>>
Case(a, f) == [argv |-> a, form |-> f]
AddrChar == {"h", ":", "/", "[", "]", ","}

(* All texts of n characters: for parse_addr, alone and as the local end of *)
(* a socks connector, for parse_addr_pair and for the address list.         *)
AddrTexts(n)  == {Case(<<W("f"), t>>, NoForm) : t \in [1..n -> AddrChar]}
LocalTexts(n) == {Case(<<W("x"), t, <<"h", "/", "t">>>>, NoForm) :
                     t \in [1..n -> AddrChar]}
PairTexts(n)  == {Case(<<W("p"), t, <<"h", "/", "t">>>>, NoForm) :
                     t \in [1..n -> {"h", ":", "[", "]"}]}
ListTexts(n)  == {Case(<<W("f"), W("p"), W("b"), t, <<"h">>>>, NoForm) :
                     t \in [1..n -> {"4", ":", "1", ","}]}

(* All sequences of n words for getopt, and every option by itself.         *)
AnyWords(n) ==
    {Case(a, NoForm) : a \in [1..n -> {W("f"), W("p"), W("w"), W("k"),
        <<"-", "f", "p">>, <<"-", "f", "k">>, <<"-", "k", "h">>, <<"-">>, Dashes,
        W("s"), <<"h", "/", "t">>, <<"4", ":", "1">>}]}
OneOption ==
    {Case(<<W(o), <<"h", "/", "t">>>>, NoForm) : o \in Documented \cup {"z"}}

(* A host as it is written: an address with colons needs brackets.          *)
Hosts == {<<"h">>, <<"h", "h">>, <<"6", ":", "6">>, <<":", ":">>}
Written(a) == IF ":" \in ToSet(a) THEN <<"[">> \o a \o <<"]">> ELSE a

Servers ==
    {[text |-> Written(a) \o q \o t, host |-> a,
      port |-> IF q = <<>> THEN <<"6339">> ELSE Tail(q),
      token |-> IF t = <<>> THEN NULL ELSE Tail(t)] :
        a \in Hosts, q \in {<<>>, <<":", "1">>, <<":", "1", "1">>},
        t \in {<<>>, <<"/", "t">>, <<"/", "t", "t">>}}

Form(k, v, la, lp, ra, rp, l, sn) ==
    [kind |-> k, host |-> v.host, port |-> v.port, token |-> v.token,
     laddr |-> la, lport |-> lp, raddr |-> ra, rport |-> rp,
     list |-> l, sense |-> sn]

Ends ==
    LET Field == {<<"a">>, <<":", "a">>} IN
    {[text |-> Written(r) \o <<":", "1">>, la |-> Lo, lp |-> 0, ra |-> r, rp |-> 1] :
        r \in Field}
    \cup {[text |-> <<"1", "1", ":">> \o Written(r) \o <<":", "1">>,
           la |-> Lo, lp |-> 2, ra |-> r, rp |-> 1] : r \in Field}
    \cup {[text |-> Written(q) \o <<":", "1", "1", ":">> \o Written(r) \o <<":", "1">>,
           la |-> q, lp |-> 2, ra |-> r, rp |-> 1] : q \in Field, r \in Field}

Locals ==
    {[text |-> <<"1", "1">>, la |-> Lo, lp |-> 2]}
    \cup {[text |-> Written(q) \o <<":", "1">>, la |-> q, lp |-> 1] :
             q \in {<<"a">>, <<":", "a">>}}

SmallItems == [addr : {<<"4">>, <<"6">>, <<"m">>}, port : {1, 2}]
ItemText(e) == <<"[">> \o e.addr \o <<"]", ":">>
               \o (IF e.port = 1 THEN <<"1">> ELSE <<"1", "1">>)
WrittenList(l) ==
    CASE Len(l) = 1 -> ItemText(l[1])
      [] Len(l) = 2 -> ItemText(l[1]) \o <<",">> \o ItemText(l[2])

Documents ==
    UNION {
      {Case(<<W("s"), v.text>>, Form("SERVER", [v EXCEPT !.token = NULL],
            Lo, 0, NULL, 0, <<>>, "")),
       Case(<<W("f"), v.text>>, Form("FORWARDER_TERM", v, Lo, 0, NULL, 0, <<>>, "")),
       Case(<<v.text, W("f"), W("x")>>,
            Form("FORWARDER_SOCK", v, Lo, 0, NULL, 0, <<>>, "")),
       Case(<<W("f"), v.text, W("p")>>,
            Form("FORWARDER_PORT", v, Lo, 0, NULL, 0, <<>>, ""))}
      \cup (IF v.token = NULL THEN {} ELSE
         {Case(<<v.text>>, Form("CONNECTOR_TERM", v, Lo, 0, NULL, 0, <<>>, ""))}
         \cup {Case(<<W("p"), e.text, v.text>>,
                    Form("CONNECTOR_PORT", v, e.la, e.lp, e.ra, e.rp, <<>>, "")) :
                  e \in Ends}
         \cup {Case(<<W("x"), e.text, v.text>>,
                    Form("CONNECTOR_SOCK", v, e.la, e.lp, NULL, 0, <<>>, "")) :
                  e \in Locals}) : v \in Servers}
    \cup {Case(<<W("f"), W("p"), W(o), WrittenList(l), <<"h">>>>,
               Form("FORWARDER_PORT", [host |-> <<"h">>, port |-> <<"6339">>,
                    token |-> NULL], Lo, 0, NULL, 0, l, o)) :
             o \in {"w", "b"}, l \in SeqOf(SmallItems, 2) \ {<<>>}}

(* Pairs with more fields than ps has room for.                             *)
LongPairs ==
    {Case(<<W("p"), t, <<"h", "/", "t">>>>, NoForm) :
        t \in {<<"h", ":", "h", ":", "h", ":", "h", ":">> \o x :
                  x \in SeqOf({"h", ":", "[", "]"}, 4)}}

AllCases ==
    <<Documents, LongPairs, OneOption>>
    \o [n \in 1..6 |-> AddrTexts(n - 1)] \o [n \in 1..5 |-> LocalTexts(n - 1)]
    \o [n \in 1..6 |-> PairTexts(n - 1)] \o [n \in 1..6 |-> ListTexts(n - 1)]
    \o [n \in 1..5 |-> AnyWords(n - 1)]
OptionCases == <<OneOption>>
=============================================================================
