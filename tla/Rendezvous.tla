---------------------------- MODULE Rendezvous ----------------------------
(***************************************************************************)
(* What the fsh server promises its clients, without its mechanism: a      *)
(* token names at most one forwarder, the latest that logged in with it; a *)
(* connector may ask only while the forwarder of some token is there, and  *)
(* then waits under a key; one accepting connection is joined to one       *)
(* waiting connector with the same key, once, and for as long as the       *)
(* connector stays.                                                        *)
(*                                                                         *)
(* FshSession implements this specification when its sends do not block.   *)
(***************************************************************************)
CONSTANTS Session, Token, None

VARIABLES
    reg,    \* the pairs <<token, forwarder>>
    wait,   \* the pairs <<key, waiting connector>>
    peer,   \* the accepting connection each connector is joined to
    gone    \* the connections that ended or were handed over

vars == <<reg, wait, peer, gone>>

Init ==
    /\ reg = {} /\ wait = {} /\ gone = {}
    /\ peer = [s \in Session |-> None]

Without(s, pairs) == {p \in pairs : p[2] # s}
Unnamed(k) == {p \in reg : p[1] # k}

(* A connection that is still there and has taken no role.                  *)
Fresh(s) ==
    /\ s \notin gone
    /\ reg = Without(s, reg) /\ wait = Without(s, wait)
    /\ peer[s] = None

(* s becomes the forwarder of k, in the place of an earlier one.            *)
Register(s, k) ==
    /\ Fresh(s)
    /\ reg' = Unnamed(k) \cup {<<k, s>>}
    /\ UNCHANGED <<wait, peer, gone>>

(* s ends; when it died logging in for k, the earlier forwarder of k has    *)
(* lost its name already.                                                   *)
Leave(s, names) ==
    /\ s \notin gone
    /\ reg' = Without(s, names)
    /\ wait' = Without(s, wait)
    /\ peer' = [peer EXCEPT ![s] = None]
    /\ gone' = gone \cup {s}

(* c asks for a forwarder and waits under key k: the forwarder's token, or  *)
(* a key made for c alone.                                                  *)
Ask(c, k) ==
    /\ Fresh(c)
    /\ reg # {}
    /\ k = c \/ \E p \in reg : p[1] = k
    /\ wait' = wait \cup {<<k, c>>}
    /\ UNCHANGED <<reg, peer, gone>>

(* Connection a is joined to connector c.                                   *)
Match(c, a, k) ==
    /\ <<k, c>> \in wait
    /\ a \notin gone /\ wait = Without(a, wait) /\ peer[a] = None
    /\ wait' = Without(c, wait)
    /\ peer' = [peer EXCEPT ![c] = a]
    /\ gone' = gone \cup {a}
    /\ reg' = Without(a, reg)

Next ==
    \E s \in Session :
        \/ \E k \in Token : Register(s, k) \/ Leave(s, Unnamed(k)) \/ Ask(s, k)
        \/ Leave(s, reg)
        \/ \E a \in Session, k \in Token : Match(s, a, k)

Spec == Init /\ [][Next]_vars

=============================================================================
