----------------------------- MODULE EndToEnd -----------------------------
(***************************************************************************)
(* The whole system: the server of FshSession with the client processes    *)
(* that use it, a forwarder with its keep-alive and accept tasks and the   *)
(* connectors, and the byte streams between them.                          *)
(*                                                                         *)
(* A connection is called s on both of its ends.  c2s[s] and s2c[s] are    *)
(* the bytes in flight, as a sequence of units; each recv of the code      *)
(* takes one unit (MSG_WAITALL with the size of a structure).  Server      *)
(* steps are the actions of FshSession with SendMayBlock = FALSE, joined   *)
(* with what they take from and put on the streams.  As on the server, a   *)
(* client task's step is what it does between two calls that may block.    *)
(*                                                                         *)
(* The tasks of the forwarder's process share descriptors: tab is the      *)
(* kernel's table, base and fd the numbers the tasks hold.  A number is    *)
(* closed and used by whoever holds it, whatever it names by then: hit are *)
(* the connections that somebody else wrote to or read from.               *)
(*                                                                         *)
(* Faults: a connection breaks (the server notices or not), a connect, an  *)
(* accept or a send fails, a timer fires before the answer that would have *)
(* come.  used counts them; what follows from a stale number is no fault.  *)
(***************************************************************************)
EXTENDS FshSession, Sequences, FiniteSets

CONSTANTS
    Config,     \* configurations: a token or None, and whether there is a key
    MaxFaults,  \* bound: faults
    MaxLoad,    \* bound: faults, connections of the forward task, connectors
    MaxStale    \* bound: uses of a number that names something else by now

ASSUME EndToEndAssumption ==
    /\ Config \subseteq (ClientToken \cup {None}) \X BOOLEAN
    /\ MaxFaults \in Nat /\ MaxLoad \in Nat /\ MaxStale \in Nat
    /\ ~SendMayBlock /\ ~UseTokens

VARIABLES
    c2s, s2c,   \* units in flight, per connection
    cend,       \* the client's end: "none", "open", "closed"
    role,       \* whose connection it is: "none", "fwd", "acc", "con"
    cpc,        \* the blocking call of the accept or connect task
    ctok,       \* the token it sends
    rx,         \* the IV it decrypts with
    info,       \* the peer whose info message or data it has read
    fpc, fconn, \* the forward task's blocking call and its connection
    ftok,       \* self->token
    fwlock,     \* self->wlock: "free", or the task that has it
    base,       \* base->fd
    fd,         \* the number that a task holds for its connection
    tab,        \* the connection that is open under a number
    hit,        \* connections that a stale number was used on (history)
    cfgtok,     \* the configured token, or None
    crypto,     \* a key is configured on both sides
    used,       \* faults so far
    stale,      \* uses of a stale number so far
    due         \* connectors started while the forwarder is ready, and not
                \* served since, without a fault in between (history)

chanVars == <<c2s, s2c>>
taskVars == <<cend, role, cpc, ctok, rx, info>>
fwdVars  == <<fpc, fconn, ftok, fwlock>>
fdVars   == <<base, fd, tab>>
cfgVars  == <<cfgtok, crypto>>
histVars == <<used, stale, due>>
clientVars == <<taskVars, fwdVars, fdVars, cfgVars>>
evars == <<vars, chanVars, clientVars, hit, histVars>>

Hdr(cmd, v) == [unit |-> "hdr", cmd |-> cmd, val |-> v]
Tok(k)      == [unit |-> "tok", cmd |-> "", val |-> k]
Iv(s)       == [unit |-> "iv", cmd |-> "", val |-> s]
Data(s)     == [unit |-> "data", cmd |-> "", val |-> s]   \* the shell's output
Info(s)     == [unit |-> "info", cmd |-> "", val |-> s]
Msg(cmd, k) == [unit |-> "msg", cmd |-> cmd, val |-> k]   \* header and token

EInit ==
    /\ Init
    /\ c2s = [s \in Session |-> <<>>] /\ s2c = [s \in Session |-> <<>>]
    /\ cend = [s \in Session |-> "none"] /\ role = [s \in Session |-> "none"]
    /\ cpc = [s \in Session |-> "none"] /\ ctok = [s \in Session |-> None]
    /\ rx = [s \in Session |-> None] /\ info = [s \in Session |-> None]
    /\ fpc = "connect" /\ fconn = None /\ ftok = None /\ fwlock = "free"
    /\ base = None /\ fd = [s \in Session |-> None] /\ tab = [s \in Session |-> None]
    /\ \E c \in Config : cfgtok = c[1] /\ crypto = c[2]
    /\ hit = {} /\ used = 0 /\ stale = 0 /\ due = {}

Load == used + Cardinality({s \in Session : role[s] = "fwd"})
             + 2 * Cardinality({s \in Session : role[s] = "con"})

(* A fault, or damage that a stale number does: nothing is owed to          *)
(* connectors any more.                                                     *)
Spend ==
    /\ used < MaxFaults /\ Load < MaxLoad
    /\ used' = used + 1 /\ due' = {} /\ UNCHANGED stale
Follow == stale < MaxStale /\ stale' = stale + 1 /\ due' = {} /\ UNCHANGED used
Damage == due' = {} /\ UNCHANGED <<used, stale>>
NoLoss == UNCHANGED histVars

(* The names of connections are arbitrary: a new one gets a fixed unused    *)
(* name.                                                                    *)
Unused == {s \in Session : role[s] = "none"}
New    == CHOOSE s \in Session : s \in Unused

-----------------------------------------------------------------------------
(* The streams.                                                             *)

Arrived(s, m) == c2s[s] # <<>> /\ Head(c2s[s]) = m
Take(s)       == [c2s EXCEPT ![s] = Tail(@)]

(* What the server sends to a client that is gone is lost.                  *)
Deliver(s, m) ==
    s2c' = IF cend[s] = "open" THEN [s2c EXCEPT ![s] = Append(@, m)] ELSE s2c

(* The client reads end of file.                                            *)
Eof(s) == s2c[s] = <<>> /\ pc[s] # "idle" /\ s \notin open

(* It waits for what somebody else has taken, or read as something else.    *)
Starved(s) == s2c[s] = <<>> /\ s \in hit

(* What a client sends is lost once the server has closed, and so is what   *)
(* the server has not read by then.                                         *)
SendUnits(s, us) ==
    c2s' = IF s \in open \/ pc[s] = "idle" THEN [c2s EXCEPT ![s] = @ \o us] ELSE c2s
Discard ==
    c2s' = [s \in Session |-> IF s \in open \ open' THEN <<>> ELSE c2s[s]]

(* What somebody takes for a token is none that is in use: those are random.*)
Noise == ClientToken \ {cfgtok}

(* The client's end of the connections X closes, or breaks.                 *)
Hangup(X) ==
    LET Y == {x \in X : cend[x] = "open"} IN
    /\ cend' = [s \in Session |-> IF s \in Y THEN "closed" ELSE cend[s]]
    /\ s2c' = [s \in Session |-> IF s \in Y THEN <<>> ELSE s2c[s]]

-----------------------------------------------------------------------------
(* Descriptors of the forwarder's process.                                  *)

HeldFds == ({base} \cup {fd[s] : s \in Session}) \ {None}

(* socket(2): the lowest free number may be one that nobody holds any more, *)
(* or one that was closed and is still held.                                *)
Numbers(s) == {s} \cup {n \in HeldFds : tab[n] = None}

OpenFd(s, n) == tab' = [tab EXCEPT ![n] = s] /\ fd' = [fd EXCEPT ![s] = n]

Named(N) == {tab[n] : n \in N \ {None}} \ {None}

(* close(2) of the numbers N, whatever they name.                           *)
CloseFds(N) ==
    /\ tab' = [n \in Session |-> IF n \in N THEN None ELSE tab[n]]
    /\ Hangup(Named(N))

(* The task that works on s holds a number that names s.                    *)
Mine(s) == IF role[s] = "acc" THEN tab[fd[s]] = s ELSE TRUE

-----------------------------------------------------------------------------
(* The server.                                                              *)

SrvAccept(s) ==
    /\ cend[s] # "none"
    /\ \/ AcceptClient(s) /\ NoLoss
       \/ AcceptDrop(s) /\ Spend
    /\ UNCHANGED <<chanVars, clientVars, hit>>

(* login: the TOKEN reply, or its send fails.                               *)
SrvLogin(s) ==
    /\ \/ Arrived(s, Hdr("LOGIN", 1)) /\ RecvLoginV1(s)
       \/ /\ pc[s] = "loginTok" /\ c2s[s] # <<>> /\ Head(c2s[s]).unit = "tok"
          /\ RecvLoginToken(s, Head(c2s[s]).val)
    /\ IF pc'[s] = "freed" THEN Spend /\ UNCHANGED s2c
       ELSE NoLoss /\ Deliver(s, Msg("TOKEN", token'[s]))
    /\ c2s' = Take(s)
    /\ UNCHANGED <<clientVars, hit>>

(* A header that is followed by a token.                                    *)
SrvHeader(s) ==
    /\ \/ Arrived(s, Hdr("LOGIN", 3)) /\ RecvLogin(s, 3)
       \/ Arrived(s, Hdr("CONNECT", 1)) /\ RecvConnect(s)
       \/ Arrived(s, Hdr("ACCEPT", 1)) /\ RecvAccept(s)
    /\ c2s' = Take(s)
    /\ UNCHANGED <<s2c, clientVars, hit, histVars>>

(* connect: the forwarder is told, or no forwarder has the token, or the    *)
(* send fails.                                                              *)
SrvConnect(s) ==
    /\ pc[s] = "connTok" /\ c2s[s] # <<>> /\ Head(c2s[s]).unit = "tok"
    /\ LET k == Head(c2s[s]).val IN
       /\ RecvConnectToken(s, k)
       /\ CASE pc'[s] = "waitAccept" -> NoLoss /\ \E f \in Find("FORWARD", k) :
                                            Deliver(f, Msg("CONNECT", token'[s]))
            [] pc'[s] = "penalty" -> NoLoss /\ UNCHANGED s2c
            [] pc'[s] = "freed" -> Spend /\ UNCHANGED s2c
    /\ c2s' = Take(s)
    /\ UNCHANGED <<clientVars, hit>>

SrvAcceptToken(s) ==
    /\ pc[s] = "accTok" /\ c2s[s] # <<>> /\ Head(c2s[s]).unit = "tok"
    /\ RecvAcceptToken(s, Head(c2s[s]).val)
    /\ c2s' = Take(s)
    /\ UNCHANGED <<s2c, clientVars, hit, histVars>>

(* The echo of a keep-alive changes nothing in the session.                 *)
SrvKeepAlive(s) ==
    /\ pc[s] = "hdr" /\ Arrived(s, Hdr("KEEP_ALIVE", 2))
    /\ Deliver(s, Msg("KEEP_ALIVE", None))
    /\ c2s' = Take(s)
    /\ UNCHANGED <<vars, clientVars, hit, histVars>>

(* A receive ends without its unit: the client closed or is lost, the       *)
(* session was evicted, or the connection fails.                            *)
SrvRecvFail(s) ==
    /\ RecvFail(s)
    /\ \/ timeout[s] = 0 /\ NoLoss
       \/ cend[s] = "closed" /\ c2s[s] = <<>> /\ NoLoss
       \/ Spend
    /\ Discard
    /\ UNCHANGED <<s2c, clientVars, hit>>

(* An accept with token k is on its way to the server.                      *)
Coming(k) ==
    \/ \E f \in Session : \E n \in 1..Len(s2c[f]) :
           s2c[f][n] = Msg("CONNECT", k)
    \/ \E a \in Session : role[a] = "acc" /\ ctok[a] = k /\ cpc[a] # "end"

(* A connector's wait ends because of an accept, or times out; a timeout    *)
(* while the accept is on its way is a fault.                               *)
SrvStartSplice(s) ==
    /\ StartSplice(s)
    /\ IF remote_fd[s] = None /\ Coming(token[s]) THEN Spend ELSE NoLoss
    /\ UNCHANGED <<chanVars, clientVars, hit>>

SpliceFds(s) == {client_fd[s], sfd[s]} \ {None}

(* hev_task_io_splice (external) moves a unit from x to y.                  *)
SrvSplice(s, x, y) ==
    /\ pc[s] = "splice" /\ x # y /\ c2s[x] # <<>>
    /\ Deliver(y, Head(c2s[x]))
    /\ c2s' = Take(x)
    /\ hit' = IF x \in hit THEN hit \cup {y} ELSE hit
    /\ UNCHANGED <<vars, clientVars, histVars>>

(* The splice ends: it has no second descriptor, a client closed and what   *)
(* it sent has been passed on, or a fault.                                  *)
SrvEndSplice(s) ==
    /\ EndSplice(s)
    /\ \/ sfd[s] = None /\ NoLoss
       \/ (\E x \in SpliceFds(s) : cend[x] # "open" /\ c2s[x] = <<>>) /\ NoLoss
       \/ Spend
    /\ Discard
    /\ UNCHANGED <<s2c, clientVars, hit>>

(* Penalties, and the acceptor whose connector is gone.                     *)
SrvTimer(s) ==
    /\ PenaltyEnd(s) \/ AcceptTimeout(s) \/ AcceptWake(s)
    /\ Discard
    /\ UNCHANGED <<s2c, clientVars, hit, histVars>>

(* The next unit is not what the server's handler reads where it stands.    *)
ServerMisreads(s) ==
    /\ pc[s] \in Receiving /\ c2s[s] # <<>>
    /\ LET m == Head(c2s[s]) IN
       IF pc[s] # "hdr" THEN m.unit # "tok"
       ELSE m.unit # "hdr" \/ (m.cmd \in {"LOGIN", "CONNECT"} /\ type[s] # "NULL")

(* A unit that is not for the place where it is read: no header the server  *)
(* knows, or bytes that some other one begins with, or a token that nobody  *)
(* uses.                                                                    *)
SrvMisread(s) ==
    /\ ServerMisreads(s)
    /\ \/ BadCommand(s)
       \/ /\ Head(c2s[s]).unit # "hdr"
          /\ RecvLoginV1(s) \/ RecvLogin(s, 3) \/ RecvConnect(s) \/ RecvAccept(s)
       \/ \E k \in Noise : \/ RecvLoginToken(s, k) \/ RecvConnectToken(s, k)
                          \/ RecvAcceptToken(s, k)
    /\ IF type[s] = "NULL" /\ type'[s] = "FORWARD"
       THEN Deliver(s, Msg("TOKEN", token'[s])) ELSE UNCHANGED s2c
    /\ c2s' = Take(s)
    /\ UNCHANGED <<clientVars, hit, histVars>>

Server(s) ==
    \/ SrvAccept(s) \/ SrvLogin(s) \/ SrvHeader(s) \/ SrvConnect(s)
    \/ SrvAcceptToken(s)
    \/ SrvStartSplice(s) \/ (\E x, y \in SpliceFds(s) : SrvSplice(s, x, y))
    \/ SrvEndSplice(s) \/ SrvTimer(s) \/ SrvRecvFail(s) \/ SrvMisread(s)

-----------------------------------------------------------------------------
(* The forward task and the keep-alive task.                                *)

(* hev_fsh_client_base_connect makes its socket ...                         *)
FwdSocket ==
    /\ fpc = "connect" /\ Unused # {} /\ Load < MaxLoad
    /\ fpc' = "connecting" /\ fconn' = New
    /\ role' = [role EXCEPT ![New] = "fwd"]
    /\ \E n \in Numbers(New) : OpenFd(New, n)
    /\ UNCHANGED <<vars, chanVars, cend, cpc, ctok, rx, info, ftok, fwlock, base,
                   cfgVars, hit, histVars>>

(* ... and stores it in base->fd once it is connected.                      *)
FwdConnected ==
    /\ fpc = "connecting" /\ tab[fd[fconn]] = fconn
    /\ fpc' = "login"
    /\ base' = fd[fconn] /\ fd' = [fd EXCEPT ![fconn] = None]
    /\ cend' = [cend EXCEPT ![fconn] = "open"]
    /\ UNCHANGED <<vars, chanVars, role, cpc, ctok, rx, info, fconn, ftok, fwlock,
                   tab, cfgVars, hit, histVars>>

(* The label restart: base->fd is closed, whatever it names, and kept.      *)
Restart(N) ==
    /\ fpc' = "sleep"
    /\ fwlock' = IF fwlock = "fwd" THEN "free" ELSE fwlock
    /\ CloseFds(N \cup {base})

(* The lookup, the socket or the connect fails (also because somebody else  *)
(* closed its number): base->fd is left as it was.                          *)
FwdNoConnect ==
    /\ \/ fpc = "connect" /\ Restart({}) /\ UNCHANGED fd
       \/ /\ fpc = "connecting" /\ Restart({fd[fconn]})
          /\ fd' = [fd EXCEPT ![fconn] = None]
    /\ \/ Spend
       \/ Named({base}) \ {fconn} # {} /\ Damage
       \/ fpc = "connecting" /\ tab[fd[fconn]] # fconn /\ Damage
    /\ UNCHANGED <<vars, c2s, role, cpc, ctok, rx, info, fconn, ftok, base, cfgVars,
                   hit>>

(* A send on the forward task's number: it goes to whatever that names.     *)
FwdSend(us) ==
    LET X == Named({base}) IN
    /\ IF X = {} THEN UNCHANGED c2s ELSE \E x \in X : SendUnits(x, us)
    /\ hit' = hit \cup (X \ {fconn})
    /\ IF X = {fconn} THEN NoLoss ELSE Damage
    /\ UNCHANGED s2c

(* Mutant: the lock is free between header and token.                       *)
FwdLoginUnlocks ==
    /\ fpc = "login" /\ fwlock = "free"
    /\ FwdSend(<<Hdr("LOGIN", IF cfgtok = None THEN 1 ELSE 3)>>)
    /\ IF cfgtok = None THEN fpc' = "token" /\ UNCHANGED ftok
       ELSE fpc' = "logintok" /\ ftok' = cfgtok
    /\ UNCHANGED <<vars, taskVars, fconn, fwlock, fdVars, cfgVars>>

(* write_login with the lock: version 1, or version 3 and the configured    *)
(* token.  It is free in between, but nobody can run before it is taken     *)
(* again, and a task that waits for it looks again when it runs.            *)
FwdLogin ==
    /\ fpc = "login" /\ fwlock = "free"
    /\ FwdSend(<<Hdr("LOGIN", IF cfgtok = None THEN 1 ELSE 3)>>)
    /\ IF cfgtok = None THEN fpc' = "token" /\ UNCHANGED <<ftok, fwlock>>
       ELSE fpc' = "logintok" /\ ftok' = cfgtok /\ fwlock' = "fwd"
    /\ UNCHANGED <<vars, taskVars, fconn, fdVars, cfgVars>>

FwdLoginToken ==
    /\ fpc = "logintok" /\ fpc' = "token"
    /\ FwdSend(<<Tok(cfgtok)>>)
    /\ fwlock' = "free"
    /\ UNCHANGED <<vars, taskVars, fconn, ftok, fdVars, cfgVars>>

(* A message is read that came on the forward task's own connection.        *)
FwdReads(label) == fpc = label /\ tab[base] = fconn /\ s2c[fconn] # <<>>

(* read_token.                                                              *)
FwdToken ==
    /\ FwdReads("token")
    /\ LET m == Head(s2c[fconn]) IN
       IF m.cmd = "TOKEN"
       THEN fpc' = "dispatch" /\ ftok' = m.val
            /\ s2c' = [s2c EXCEPT ![fconn] = Tail(@)] /\ UNCHANGED <<cend, fwlock, tab>>
       ELSE Restart({}) /\ UNCHANGED ftok
    /\ UNCHANGED <<vars, c2s, role, cpc, ctok, rx, info, fconn, base, fd, cfgVars,
                   hit, histVars>>

(* An accept task is started with token k.                                  *)
StartAccept(k) ==
    /\ Unused # {}
    /\ role' = [role EXCEPT ![New] = "acc"]
    /\ cpc' = [cpc EXCEPT ![New] = "start"]
    /\ ctok' = [ctok EXCEPT ![New] = k]

(* Mutant: a keep-alive falls through to the accept.                        *)
FwdDispatchAll ==
    /\ FwdReads("dispatch")
    /\ StartAccept(Head(s2c[fconn]).val)
    /\ s2c' = [s2c EXCEPT ![fconn] = Tail(@)]
    /\ UNCHANGED <<vars, c2s, cend, rx, info, fwdVars, fdVars, cfgVars, hit, histVars>>

(* dispatch: a CONNECT message starts an accept task, a keep-alive is       *)
(* skipped, anything else ends the connection.                              *)
FwdDispatch ==
    /\ FwdReads("dispatch")
    /\ LET m == Head(s2c[fconn]) IN
       IF m.cmd \in {"CONNECT", "KEEP_ALIVE"}
       THEN /\ s2c' = [s2c EXCEPT ![fconn] = Tail(@)]
            /\ IF m.cmd = "CONNECT" THEN StartAccept(m.val)
                                    ELSE UNCHANGED <<role, cpc, ctok>>
            /\ UNCHANGED <<cend, fpc, fwlock, tab>>
       ELSE Restart({}) /\ UNCHANGED <<role, cpc, ctok>>
    /\ UNCHANGED <<vars, c2s, rx, info, fconn, ftok, base, fd, cfgVars, hit, histVars>>

(* End of file, or the connection breaks: the server notices at once, or    *)
(* when its own timeout ends.  If somebody else closed the number, nothing  *)
(* wakes the task before its timeout.                                       *)
FwdLost ==
    /\ fpc \in {"logintok", "token", "dispatch"} \/ (fpc = "login" /\ fwlock = "free")
    /\ \/ tab[base] = fconn /\ (Eof(fconn) \/ Starved(fconn)) /\ NoLoss
       \/ tab[base] # fconn /\ Damage
       \/ Spend
    /\ Restart({})
    /\ UNCHANGED <<vars, c2s, role, cpc, ctok, rx, info, fconn, ftok, base, fd,
                   cfgVars, hit>>

FwdWake ==
    /\ fpc = "sleep"
    /\ fpc' = "connect"
    /\ UNCHANGED <<vars, chanVars, taskVars, fconn, ftok, fwlock, fdVars, cfgVars,
                   hit, histVars>>

(* The keep-alive timer: a message on base->fd (one in flight at a time).   *)
(* A forward task that waits for the lock gets it before the timer fires    *)
(* again.                                                                   *)
OwnBase == fpc \in {"logintok", "token", "dispatch"} /\ tab[base] = fconn
KeepAlive ==
    /\ OwnBase /\ fwlock = "free" /\ pc[fconn] # "freed"
    /\ \A n \in 1..Len(c2s[fconn]) : c2s[fconn][n].cmd # "KEEP_ALIVE"
    /\ \A n \in 1..Len(s2c[fconn]) : s2c[fconn][n].cmd # "KEEP_ALIVE"
    /\ SendUnits(fconn, <<Hdr("KEEP_ALIVE", 2)>>)
    /\ UNCHANGED <<vars, s2c, clientVars, hit, histVars>>

(* While base->fd is stale the message goes into whatever it names: an      *)
(* accept task's connection, or the one the forward task has just made,     *)
(* before its LOGIN, if the kernel has connected it before the task runs    *)
(* again.                                                                   *)
KeepAliveStale ==
    /\ fpc # "login" /\ ~OwnBase /\ fwlock = "free"
    /\ \E x \in Named({base}) :
          SendUnits(x, <<Hdr("KEEP_ALIVE", 2)>>) /\ hit' = hit \cup ({x} \ {fconn})
    /\ Follow
    /\ UNCHANGED <<vars, s2c, clientVars>>

(* A socket that still connects wakes the task that connects it, and only   *)
(* that one: the send waits, with the lock, for its timeout.                *)
KeepAliveStuck ==
    /\ fpc # "login" /\ ~OwnBase /\ fwlock = "free"
    /\ \E x \in Named({base}) : cend[x] = "none"
    /\ fwlock' = "kalive"
    /\ UNCHANGED <<vars, chanVars, taskVars, fpc, fconn, ftok, fdVars, cfgVars,
                   hit, histVars>>

(* Mutant: the send has no timeout.                                         *)
KeepAliveNeverGivesUp ==
    /\ fwlock = "kalive" /\ fpc = "none" /\ fwlock' = "free"
    /\ UNCHANGED <<vars, chanVars, taskVars, fpc, fconn, ftok, fdVars, cfgVars,
                   hit, histVars>>

KeepAliveGivesUp ==
    /\ fwlock = "kalive" /\ fwlock' = "free"
    /\ UNCHANGED <<vars, chanVars, taskVars, fpc, fconn, ftok, fdVars, cfgVars,
                   hit, histVars>>

-----------------------------------------------------------------------------
(* Accept tasks and connectors.                                             *)

(* Mutant: each side waits for the other's IV first.                        *)
IvUnitsLater(s) == <<>>

(* hev_fsh_client_base_encrypt sends its IV first; without a key it does    *)
(* nothing.                                                                 *)
IvUnits(s) == IF crypto THEN <<Iv(s)>> ELSE <<>>

(* send_accept: hev_fsh_client_base_connect makes a socket, or fails ...    *)
AccSocket(s) ==
    /\ role[s] = "acc" /\ cpc[s] = "start"
    /\ \/ /\ cpc' = [cpc EXCEPT ![s] = "connect"] /\ NoLoss
          /\ \E n \in Numbers(s) : OpenFd(s, n)
       \/ cpc' = [cpc EXCEPT ![s] = "end"] /\ Spend /\ UNCHANGED <<fd, tab>>
    /\ UNCHANGED <<vars, chanVars, cend, role, ctok, rx, info, fwdVars, base,
                   cfgVars, hit>>

(* ... and connects it; then ACCEPT with its token, and the first half of   *)
(* the key exchange.                                                        *)
AccConnected(s) ==
    /\ cpc[s] = "connect" /\ Mine(s)
    /\ cend' = [cend EXCEPT ![s] = "open"]
    /\ cpc' = [cpc EXCEPT ![s] = IF crypto THEN "iv" ELSE "info"]
    /\ SendUnits(s, <<Hdr("ACCEPT", 1), Tok(ctok[s])>> \o IvUnits(s))
    /\ UNCHANGED <<vars, s2c, role, ctok, rx, info, fwdVars, fdVars, cfgVars, hit,
                   histVars>>

Ready == fpc = "dispatch" /\ fconn \in open /\ type[fconn] = "FORWARD"

(* The LOGIN of an earlier connection is not on its way any more: it would  *)
(* evict the present one.  Nor is anything on a connection that was hit.    *)
Settled ==
    \A s \in Session :
        role[s] = "fwd" \/ s \in hit =>
            \/ cend[s] = "none" \/ pc[s] = "freed"
            \/ s \notin hit /\ type[s] \in {"FORWARD", "CLOSED"}

(* A connector is started with the forwarder's token: the configured one,   *)
(* at any time, or the one the forwarder was given.  Without a key the info *)
(* message follows at once.                                                 *)
ConStart ==
    LET n == New
        k == IF cfgtok # None THEN cfgtok ELSE ftok IN
    /\ Unused # {} /\ k # None /\ Load + 1 < MaxLoad
    /\ role' = [role EXCEPT ![n] = "con"]
    /\ cend' = [cend EXCEPT ![n] = "open"]
    /\ cpc' = [cpc EXCEPT ![n] = IF crypto THEN "iv" ELSE "splice"]
    /\ ctok' = [ctok EXCEPT ![n] = k]
    /\ SendUnits(n, <<Hdr("CONNECT", 1), Tok(k)>> \o IvUnits(n)
                    \o (IF crypto THEN <<>> ELSE <<Info(n)>>))
    /\ due' = IF Ready /\ Settled THEN due \cup {n} ELSE due
    /\ UNCHANGED <<vars, s2c, rx, info, fwdVars, fdVars, cfgVars, hit, used, stale>>

(* What the first unit of q carries, if it is of the expected kind.         *)
Val(unit, q, old) == IF Head(q).unit = unit THEN Head(q).val ELSE old

(* Mutant: the received IV is not the one that is installed.                *)
RecvIvOwn(s) ==
    /\ cpc[s] = "iv" /\ Mine(s) /\ s2c[s] # <<>>
    /\ rx' = [rx EXCEPT ![s] = s]
    /\ s2c' = [s2c EXCEPT ![s] = Tail(@)]
    /\ IF role[s] = "acc"
       THEN cpc' = [cpc EXCEPT ![s] = "info"] /\ UNCHANGED c2s
       ELSE cpc' = [cpc EXCEPT ![s] = "splice"] /\ SendUnits(s, <<Info(s)>>)
    /\ UNCHANGED <<vars, cend, role, ctok, info, fwdVars, fdVars, cfgVars, hit,
                   histVars>>

(* The peer's IV arrives; a connector then sends its info message.          *)
RecvIv(s) ==
    /\ cpc[s] = "iv" /\ Mine(s) /\ s2c[s] # <<>>
    /\ rx' = [rx EXCEPT ![s] = Val("iv", s2c[s], @)]
    /\ s2c' = [s2c EXCEPT ![s] = Tail(@)]
    /\ IF role[s] = "acc"
       THEN cpc' = [cpc EXCEPT ![s] = "info"] /\ UNCHANGED c2s
       ELSE cpc' = [cpc EXCEPT ![s] = "splice"] /\ SendUnits(s, <<Info(s)>>)
    /\ UNCHANGED <<vars, cend, role, ctok, info, fwdVars, fdVars, cfgVars, hit,
                   histVars>>

(* An accept task reads the info message and starts to splice: its side has *)
(* something to say.                                                        *)
RecvInfo(s) ==
    /\ cpc[s] = "info" /\ Mine(s) /\ s2c[s] # <<>>
    /\ info' = [info EXCEPT ![s] = Val("info", s2c[s], @)]
    /\ s2c' = [s2c EXCEPT ![s] = Tail(@)]
    /\ cpc' = [cpc EXCEPT ![s] = "splice"]
    /\ SendUnits(s, <<Data(s)>>)
    /\ UNCHANGED <<vars, cend, role, ctok, rx, fwdVars, fdVars, cfgVars, hit,
                   histVars>>

(* A connector passes what it gets on to its user.                          *)
RecvData(s) ==
    /\ cpc[s] = "splice" /\ Mine(s) /\ s2c[s] # <<>>
    /\ info' = [info EXCEPT ![s] = Val("data", s2c[s], @)]
    /\ s2c' = [s2c EXCEPT ![s] = Tail(@)]
    /\ due' = due \ {s}
    /\ UNCHANGED <<vars, c2s, cend, role, cpc, ctok, rx, fwdVars, fdVars, cfgVars,
                   hit, used, stale>>

(* An accept task whose number names another connection by now is woken by  *)
(* its local end, and its splice reads from that connection or writes to it.*)
SpliceStale(s) ==
    /\ cpc[s] = "splice" /\ ~Mine(s)
    /\ \E x \in Named({fd[s]}) :
          /\ \/ SendUnits(x, <<Data(s)>>) /\ UNCHANGED s2c
             \/ /\ s2c[x] # <<>> /\ s2c' = [s2c EXCEPT ![x] = Tail(@)]
                /\ UNCHANGED c2s
          /\ hit' = hit \cup {x}
    /\ Follow
    /\ UNCHANGED <<vars, clientVars>>

(* A task ends and closes: at end of file, when the shell or the user ends  *)
(* the session, or when its connection fails; on its timeout when somebody  *)
(* else closed its number, which it then closes once more.                  *)
TaskEnd(s) ==
    /\ cpc[s] \in {"connect", "iv", "info", "splice"}
    /\ \/ /\ Mine(s) /\ cpc[s] # "connect"
          /\ Eof(s) \/ (cpc[s] = "splice" /\ info[s] # None) \/ Starved(s)
          /\ NoLoss
       \/ ~Mine(s) /\ (IF Named({fd[s]}) = {} THEN NoLoss ELSE Damage)
       \/ Spend
    /\ cpc' = [cpc EXCEPT ![s] = "end"]
    /\ fd' = [fd EXCEPT ![s] = None]
    /\ IF role[s] = "acc" THEN CloseFds({fd[s]})
                          ELSE Hangup({s}) /\ UNCHANGED tab
    /\ UNCHANGED <<vars, c2s, role, ctok, rx, info, fwdVars, base, cfgVars, hit>>

Forwarder ==
    \/ FwdSocket \/ FwdConnected \/ FwdLogin \/ FwdLoginToken \/ FwdNoConnect
    \/ FwdToken \/ FwdDispatch \/ FwdLost \/ FwdWake
Client(s) ==
    \/ AccSocket(s) \/ AccConnected(s)
    \/ RecvIv(s) \/ RecvInfo(s) \/ RecvData(s) \/ TaskEnd(s)

(* What nobody waits for.                                                   *)
Stray ==
    \/ KeepAlive \/ KeepAliveStale \/ KeepAliveStuck
    \/ \E s \in Session : SpliceStale(s)

ENext ==
    \/ \E s \in Session : Server(s) \/ SrvKeepAlive(s) \/ Client(s)
    \/ Forwarder \/ KeepAliveGivesUp \/ ConStart \/ Stray

(* Tasks that can run do run and timers fire: some step is taken as long as *)
(* one is possible, keep-alives and the forward task (which reads their     *)
(* echoes) apart.  Weaker than fairness for every task, and enough, since   *)
(* only keep-alives can go on forever.  Users start connectors when they    *)
(* like; the keep-alive timer is not needed.                                *)
ESpec ==
    /\ EInit /\ [][ENext]_evars
    /\ WF_evars((\E s \in Session : Server(s) \/ Client(s)) /\ used' = used)
    /\ WF_evars(KeepAliveGivesUp)
    /\ WF_evars(\E s \in Session : SrvKeepAlive(s))
    /\ WF_evars(Forwarder /\ used' = used)

-----------------------------------------------------------------------------
(* Properties.                                                              *)

(* Type invariant of the clients and the streams; an accept task has the    *)
(* token of a CONNECT message.                                              *)
ETypeOK ==
    /\ cend \in [Session -> {"none", "open", "closed"}]
    /\ role \in [Session -> {"none", "fwd", "acc", "con"}]
    /\ cpc \in [Session -> {"none", "start", "connect", "iv", "info", "splice", "end"}]
    /\ ctok \in [Session -> Token \cup {None}]
    /\ rx \in [Session -> Session \cup {None}]
    /\ info \in [Session -> Session \cup {None}]
    /\ fpc \in {"connect", "connecting", "login", "logintok", "token", "dispatch",
                "sleep"}
    /\ fconn \in Session \cup {None} /\ ftok \in Token \cup {None}
    /\ fwlock \in {"free", "fwd", "kalive"}
    /\ base \in Session \cup {None}
    /\ fd \in [Session -> Session \cup {None}] /\ tab \in [Session -> Session \cup {None}]
    /\ used \in 0..MaxFaults /\ stale \in 0..MaxStale
    /\ hit \subseteq Session /\ due \subseteq Session
    /\ \A s \in Session : role[s] = "acc" => ctok[s] \in Token

(* The next unit is not what the client task reads where it stands.         *)
ClientMisreads(s) ==
    /\ cend[s] = "open" /\ s2c[s] # <<>>
    /\ LET m == Head(s2c[s]) IN
       IF role[s] = "fwd"
       THEN \/ fpc = "token" /\ m.cmd # "TOKEN"
            \/ fpc = "dispatch" /\ m.cmd \notin {"CONNECT", "KEEP_ALIVE"}
       ELSE m.unit # CASE cpc[s] = "iv" -> "iv" [] cpc[s] = "info" -> "info"
                       [] cpc[s] = "splice" -> "data"

(* Whatever breaks, neither the server nor a client ever reads a unit that  *)
(* it does not expect, so no message is cut, swallowed or taken for         *)
(* another.  A stale number harms only the connections it was used on and   *)
(* those the server passed their bytes to (hit), with one exception: the    *)
(* forward task reads the echo of a keep-alive that went out while it was   *)
(* still connecting.                                                        *)
Aligned ==
    \A s \in Session \ hit :
        /\ ~ServerMisreads(s)
        /\ ClientMisreads(s) => fpc = "token" /\ Head(s2c[s]).cmd = "KEEP_ALIVE"

(* The two ends of a connection through the server have each other's IV,    *)
(* and an accept task serves the connector whose IV it decrypts with, which *)
(* in turn gets its data from that task only, unless a stale number was     *)
(* used on one of the two.                                                  *)
KeysAgree ==
    \A a, c \in Session \ hit :
        /\ rx[a] = c /\ rx[c] # None => rx[c] = a
        /\ info[a] = c => /\ crypto => rx[a] = c
                          /\ {role[a], role[c]} = {"acc", "con"}
                          /\ info[c] \in {a, None}

(* The bound on connections shows: the forward task needs one more.         *)
Exhausted ==
    \/ fpc = "connect" /\ (Unused = {} \/ Load >= MaxLoad)
    \/ /\ fpc = "dispatch" /\ s2c[fconn] # <<>>
       /\ Head(s2c[fconn]).cmd = "CONNECT" /\ Unused = {}

(* A connector that is started while the forwarder is ready, and no LOGIN   *)
(* of an earlier connection of it is still to be read, is served, also      *)
(* after earlier failures: it gets data from an accept task that read its   *)
(* info message, unless something else fails (or no connection is left).    *)
Served == []<>(due = {} \/ Exhausted)

(* After any failures the forwarder is registered again, under its own      *)
(* connection, although the server may still hold an earlier session for it *)
(* and the keep-alive task the write lock, and whatever a stale number hit  *)
(* (as long as there are connections left).                                 *)
Recovers == []<>(Ready \/ Exhausted)
=============================================================================
