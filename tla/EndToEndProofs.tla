-------------------------- MODULE EndToEndProofs --------------------------
(***************************************************************************)
(* The streams between the server and its clients, for any number of       *)
(* connections and faults: both ends read what the other one wrote, and    *)
(* the two ends of a joined connection have each other's keys, until       *)
(* somebody writes or reads under a number that names another's connection *)
(* (hit).  Numbers that are closed for somebody else are covered.          *)
(*                                                                         *)
(* BInv holds whatever happens: the invariant of the sessions (IInv of     *)
(* FshSession) and which tokens can be on their way.  CInv adds what is in *)
(* flight: per connection, where its task and its session stand and what   *)
(* is still to be read of its request (Local); for the forward task, that  *)
(* nothing but CONNECTs and echoes follow the answer to its login (ToFwd); *)
(* and that there is a pairing P of the tasks such that one without a peer *)
(* has read nothing (Single), and what one of a pair has sent and the      *)
(* other not read, wherever it is on its way through the server, is what   *)
(* the reader's place calls for (Linked, Flow).                            *)
(*                                                                         *)
(* A step touches one connection or the two of a pair; Same and the lemmas *)
(* on frames say that the others keep what holds of them.                  *)
(***************************************************************************)
EXTENDS EndToEnd, FshSessionProofs, SequenceTheorems

KA   == Hdr("KEEP_ALIVE", 2)
Unit == [unit : {"hdr", "tok", "msg"},
         cmd : {"", "LOGIN", "CONNECT", "ACCEPT", "TOKEN", "KEEP_ALIVE"},
         val : Token \cup {None} \cup {1, 2, 3}]
        \cup [unit : {"iv", "data", "info"}, cmd : {""}, val : Session]

StreamInv == c2s \in [Session -> Seq(Unit)] /\ s2c \in [Session -> Seq(Unit)]

-----------------------------------------------------------------------------
(* What holds whatever happens.                                             *)

(* A unit the clients can have sent: its token is known to somebody, and    *)
(* only a connector sends CONNECT, first of all.                            *)
SentUp(x, n, u) ==
    /\ u.unit # "msg" /\ u.cmd # "TOKEN"
    /\ u.unit = "tok" => u.val \in Sendable
    /\ u.cmd = "CONNECT" => n = 1 /\ (pc[x] \in {"idle", "hdr"} \/ x \notin open)

(* A unit the server can have sent, or passed on.                           *)
SentDown(u) == u.cmd \in {"TOKEN", "CONNECT"} => u.val \in Sendable

UnitsOf(x) ==
    /\ \A n \in 1..Len(c2s[x]) : SentUp(x, n, c2s[x][n])
    /\ \A n \in 1..Len(s2c[x]) : SentDown(s2c[x][n])

(* The forward task has a connection.                                       *)
LoggingIn == {"login", "logintok", "token", "dispatch"}

FlightInv ==
    /\ \A x \in Session : UnitsOf(x)
    /\ \A x \in Session :
          /\ role[x] = "acc" => ctok[x] \in Sendable
          /\ role[x] = "none" => cend[x] = "none" /\ c2s[x] = <<>>
          /\ cend[x] = "none" => pc[x] = "idle"
          /\ cpc[x] # "none" => role[x] \in {"acc", "con"}
          /\ cpc[x] \in {"start", "connect"} => role[x] = "acc"
          /\ sfd[x] # None => sfd[x] = remote_fd[x]
    /\ \A n \in Session : tab[n] # None => role[tab[n]] \in {"fwd", "acc"}
    /\ fconn # None => role[fconn] = "fwd"
    /\ fpc \in LoggingIn \cup {"connecting"} => fconn # None
    /\ ftok \in Sendable \cup {None} /\ cfgtok \in ClientToken \cup {None}
    /\ crypto \in BOOLEAN
    /\ fpc = "logintok" => cfgtok # None

BInv == IInv /\ ETypeOK /\ StreamInv /\ FlightInv

-----------------------------------------------------------------------------
(* Who is where.                                                            *)

(* Where a client's task and its end of the connection can be.              *)
TaskAt(s) ==
    /\ role[s] = "none" => cend[s] = "none" /\ cpc[s] = "none" /\ c2s[s] = <<>>
    /\ role[s] = "fwd" => cpc[s] = "none"
    /\ role[s] = "con" => /\ cpc[s] \in {"iv", "splice", "end"}
                          /\ cend[s] = IF cpc[s] = "end" THEN "closed" ELSE "open"
    /\ role[s] = "acc" => /\ cpc[s] \in {"start", "connect", "iv", "info", "splice", "end"}
                          /\ cpc[s] \in {"start", "connect"} => cend[s] = "none"
                          /\ cpc[s] \in {"iv", "info", "splice"} => cend[s] # "none"
                          /\ cpc[s] = "end" => cend[s] # "open"
                          /\ cend[s] = "none" => c2s[s] = <<>>
    /\ cend[s] = "none" => pc[s] = "idle"
    /\ cend[s] # "open" => s2c[s] = <<>>

(* The forward task has at most one open connection, and it is open as long *)
(* as base->fd names it.                                                    *)
FwdInv ==
    /\ fpc \in LoggingIn => /\ base # None /\ cend[fconn] # "none"
                            /\ cend[fconn] = "open" <=> tab[base] = fconn
    /\ fpc = "connecting" => cend[fconn] = "none" /\ fd[fconn] # None
    /\ \A s \in Session : role[s] = "fwd" /\ cend[s] = "open" =>
           s = fconn /\ fpc \in LoggingIn
    /\ fwlock = "fwd" <=> fpc = "logintok"

(* The number that names an open connection is the one its task holds, and  *)
(* the number of a new connection is not in use.                            *)
FdAt(s) ==
    /\ \A n \in Session : tab[n] = s =>
           \/ role[s] = "acc" /\ cpc[s] # "start" /\ fd[s] = n
           \/ s = fconn /\ fpc = "connecting" /\ fd[s] = n
           \/ s = fconn /\ fpc \in LoggingIn /\ base = n
    /\ role[s] = "acc" /\ cend[s] = "open" => tab[fd[s]] = s
    /\ role[s] = "acc" /\ cpc[s] \in {"connect", "iv", "info", "splice"} => fd[s] # None
    /\ role[s] = "none" \/ (role[s] = "acc" /\ cpc[s] = "start") =>
           tab[s] = None /\ base # s /\ \A x \in Session : fd[x] # s

(* Each session of the server does what its client is there for.            *)
RoleOf(s) ==
    /\ role[s] = "fwd" => /\ pc[s] \in {"idle", "hdr", "loginTok", "freed"}
                          /\ type[s] \in {"NULL", "FORWARD", "CLOSED"}
    /\ role[s] = "con" => /\ pc[s] \in {"idle", "hdr", "connTok", "penalty",
                                        "waitAccept", "splice", "freed"}
                          /\ type[s] \in {"NULL", "CONNECT", "SPLICE"}
    /\ role[s] = "acc" => /\ pc[s] \in {"idle", "hdr", "accTok", "waitConnect", "freed"}
                          /\ type[s] = "NULL"

-----------------------------------------------------------------------------
(* What is in flight.                                                       *)

IsTok(u)     == u.unit = "tok" /\ u.val \in Sendable
KAFrom(q, m) == \A n \in m..Len(q) : q[n] = KA

(* The bytes on s's stream to the server will still be read.                *)
Carries(s) == pc[s] = "idle" \/ s \in open

(* A forwarder's login at p, as far as it has been sent, with keep-alives   *)
(* behind it.                                                               *)
LoginAt(q, p) ==
    \/ p = Len(q) + 1
    \/ p <= Len(q) /\ q[p] = Hdr("LOGIN", 1) /\ KAFrom(q, p + 1)
    \/ p = Len(q) /\ q[p] = Hdr("LOGIN", 3)
    \/ /\ p + 1 <= Len(q) /\ q[p] = Hdr("LOGIN", 3) /\ IsTok(q[p + 1])
       /\ KAFrom(q, p + 2)

(* Keep-alives that went out before the login, and the login.               *)
LoginIn(q) == \E p \in 1..Len(q) + 1 :
                 LoginAt(q, p) /\ \A n \in 1..p - 1 : q[n] = KA

(* How far the forward task is with sending the login of s; "old" also when *)
(* it will not send any more of it.                                         *)
Stage(s) ==
    IF s # fconn \/ fpc \in {"connect", "sleep"} THEN "old"
    ELSE IF fpc \in {"connecting", "login"} THEN "before"
    ELSE IF tab[base] # fconn THEN "old"
    ELSE IF fpc = "logintok" THEN "half" ELSE "full"

(* The server has the header of a version 3 login, and no token follows.    *)
Half(s) ==
    \/ pc[s] = "loginTok" /\ c2s[s] = <<>>
    \/ /\ pc[s] \in {"idle", "hdr"} /\ c2s[s] # <<>>
       /\ c2s[s][Len(c2s[s])] = Hdr("LOGIN", 3)

(* From a forwarder to the server.                                          *)
FromFwd(s) ==
    role[s] = "fwd" /\ Carries(s) =>
        /\ pc[s] \in {"idle", "hdr"} /\ type[s] = "NULL" => LoginIn(c2s[s])
        /\ pc[s] = "loginTok" =>
              c2s[s] = <<>> \/ (IsTok(c2s[s][1]) /\ KAFrom(c2s[s], 2))
        /\ type[s] # "NULL" => KAFrom(c2s[s], 1)
        /\ Stage(s) = "before" => /\ pc[s] \in {"idle", "hdr"} /\ type[s] = "NULL"
                                  /\ KAFrom(c2s[s], 1)
        /\ Stage(s) = "half" => Half(s)
        /\ Stage(s) = "full" => ~Half(s)

(* From the server to the forwarder: nothing but the echo of a keep-alive   *)
(* that went out before comes before the answer to its login.               *)
Asks(u)      == u.cmd = "CONNECT"
Echo(u)      == u.cmd = "KEEP_ALIVE"
Later(q, m)  == \A n \in m..Len(q) : Asks(q[n]) \/ Echo(q[n])
LoggedIn(s)  == pc[s] = "freed" \/ type[s] # "NULL"
Answered(q)  == 1 <= Len(q) /\ q[1].cmd = "TOKEN" /\ Later(q, 2)
ToFwd ==
    fpc \in LoggingIn /\ cend[fconn] = "open" =>
    /\ fpc = "dispatch" => LoggedIn(fconn) /\ Later(s2c[fconn], 1)
    /\ fpc = "token" =>
          \/ s2c[fconn] = <<>> /\ type[fconn] = "NULL"
          \/ LoggedIn(fconn) /\ Answered(s2c[fconn])
          \/ 1 <= Len(s2c[fconn]) /\ Echo(s2c[fconn][1])
    /\ fpc \in {"login", "logintok"} =>
          type[fconn] = "NULL" /\ \A n \in 1..Len(s2c[fconn]) : Echo(s2c[fconn][n])

(* The first m units of s's stream are the request, then come its IV or,    *)
(* without a key, a connector's info message, and nothing else as long as   *)
(* the task has read nothing.                                               *)
OpensAt(s, q, m) ==
    /\ crypto => m + 1 <= Len(q) /\ q[m + 1] = Iv(s)
    /\ role[s] = "con" \/ crypto => Len(q) = m + 1
    /\ role[s] = "con" /\ ~crypto => q[m + 1] = Info(s)
    /\ role[s] = "acc" /\ ~crypto => Len(q) = m

FromTask(s) ==
    role[s] \in {"acc", "con"} /\ cend[s] # "none" /\ Carries(s) =>
        /\ pc[s] \in {"idle", "hdr"} =>
              /\ 2 <= Len(c2s[s]) /\ IsTok(c2s[s][2]) /\ OpensAt(s, c2s[s], 2)
              /\ c2s[s][1] = Hdr(IF role[s] = "con" THEN "CONNECT" ELSE "ACCEPT", 1)
        /\ pc[s] \in {"connTok", "accTok"} =>
              1 <= Len(c2s[s]) /\ IsTok(c2s[s][1]) /\ OpensAt(s, c2s[s], 1)
        /\ pc[s] \notin {"idle", "hdr", "connTok", "accTok"} => OpensAt(s, c2s[s], 0)

(* What y may find as the n-th unit from x, where it stands.                *)
Chat(x, u) == u = Data(x)
Fits(y, x, n, u) ==
    \/ cpc[y] = "iv" /\ n = 1 /\ u = Iv(x)
    \/ role[y] = "con" /\ (cpc[y] = "iv" => n # 1) /\ Chat(x, u)
    \/ /\ role[y] = "acc" /\ u = Info(x)
       /\ (cpc[y] = "iv" /\ n = 2) \/ (cpc[y] = "info" /\ n = 1)
Reads(y, x, q) == \A n \in 1..Len(q) : Fits(y, x, n, q[n])

Joined(x, y) == remote_fd[x] = y \/ remote_fd[y] = x

(* A task that has no peer yet has read nothing.                            *)
Single(y) ==
    /\ rx[y] = None /\ info[y] = None
    /\ role[y] # "fwd" => s2c[y] = <<>>
    /\ role[y] \in {"con", "acc"} /\ cend[y] = "open" =>
          cpc[y] = IF crypto THEN "iv" ELSE IF role[y] = "con" THEN "splice" ELSE "info"
    /\ FromTask(y)

(* What x has sent and y has not read, as long as the two are joined; once  *)
(* they are not, a part of it.                                              *)
Flow(y, x) ==
    LET w == s2c[y] \o c2s[x] IN
    /\ Reads(y, x, w)
    /\ cpc[y] = "iv" => 1 <= Len(w)
    /\ role[x] = "con" /\ cpc[x] = "iv" =>
          cpc[y] # "splice" /\ Len(w) <= (IF cpc[y] = "iv" THEN 1 ELSE 0)

Linked(P, y) ==
    LET x == P[y] IN
    /\ P[x] = y /\ x # y
    /\ \/ role[y] = "con" /\ role[x] = "acc"
       \/ role[y] = "acc" /\ role[x] = "con"
    /\ rx[y] \in {None, x} /\ info[y] \in {None, x}
    /\ pc[y] # "idle" /\ (Live(y) => role[y] = "con")
    /\ Joined(x, y) \/ (x \notin open /\ y \notin open)
    /\ cend[y] = "open" => Reads(y, x, s2c[y])
    /\ cend[y] = "open" /\ Joined(x, y) => Flow(y, x)

Keyed(y) ==
    /\ crypto /\ (cpc[y] \in {"info", "splice"} \/ info[y] # None) => rx[y] # None
    /\ cpc[y] = "iv" => crypto

(* P gives each task the one it has been joined to.                         *)
LinkAt(P, y) ==
    /\ P[y] = None => Single(y)
    /\ P[y] # None => Linked(P, y)
    /\ remote_fd[y] # None => P[y] = remote_fd[y]

Peering == [Session -> Session \cup {None}]
Links(P) == \A y \in Session : LinkAt(P, y)

TaskInv == \A s \in Session : TaskAt(s)
FdsInv  == \A s \in Session : FdAt(s)
RoleInv == \A s \in Session : RoleOf(s)
FromInv == \A s \in Session : FromFwd(s)
KeyInv  == \A s \in Session : Keyed(s)
LinkInv == \E P \in Peering : Links(P)

CInv ==
    /\ TaskInv /\ FwdInv /\ FdsInv /\ RoleInv /\ FromInv /\ ToFwd /\ KeyInv
    /\ LinkInv

EInv == BInv /\ CInv

(* The inductive invariant.                                                 *)
FInv == BInv /\ (hit = {} => CInv)

-----------------------------------------------------------------------------
(* Units and sequences.                                                     *)

(* The fields of the units, and that they are units.                        *)
LEMMA Units ==
    /\ \A c, v : Hdr(c, v).unit = "hdr" /\ Hdr(c, v).cmd = c /\ Hdr(c, v).val = v
    /\ \A k : Tok(k).unit = "tok" /\ Tok(k).cmd = "" /\ Tok(k).val = k
    /\ \A x : Iv(x).unit = "iv" /\ Iv(x).cmd = "" /\ Iv(x).val = x
    /\ \A x : Data(x).unit = "data" /\ Data(x).cmd = "" /\ Data(x).val = x
    /\ \A x : Info(x).unit = "info" /\ Info(x).cmd = "" /\ Info(x).val = x
    /\ \A c, k : Msg(c, k).unit = "msg" /\ Msg(c, k).cmd = c /\ Msg(c, k).val = k
    /\ KA.unit = "hdr" /\ KA.cmd = "KEEP_ALIVE" /\ KA.val = 2
    BY DEF Hdr, Tok, Iv, Data, Info, Msg, KA

(* Requests and keep-alives are told apart by their commands.               *)
LEMMA Headers ==
    /\ Hdr("LOGIN", 1) # Hdr("LOGIN", 3)
    /\ \A v : Hdr("LOGIN", v).cmd = "LOGIN"
    /\ Hdr("CONNECT", 1).cmd = "CONNECT" /\ Hdr("ACCEPT", 1).cmd = "ACCEPT"
    /\ KA.cmd = "KEEP_ALIVE"
<1>1. Hdr("LOGIN", 1).val # Hdr("LOGIN", 3).val
    BY DEF Hdr
<1>2. Hdr("LOGIN", 1) # Hdr("LOGIN", 3)
    BY <1>1
<1> QED
    BY <1>2, Units

(* What the two ends send are units.                                        *)
LEMMA AreUnits ==
    /\ \A c \in {"LOGIN", "CONNECT", "ACCEPT"}, v \in {1, 3} : Hdr(c, v) \in Unit
    /\ \A k \in Token \cup {None} : Tok(k) \in Unit
    /\ \A x \in Session : Iv(x) \in Unit /\ Data(x) \in Unit /\ Info(x) \in Unit
    /\ \A c \in {"TOKEN", "CONNECT", "KEEP_ALIVE"}, k \in Token \cup {None} :
           Msg(c, k) \in Unit
    /\ KA \in Unit
    BY DEF Hdr, Tok, Iv, Data, Info, Msg, KA, Unit

(* The rest of a sequence, by index.                                        *)
LEMMA TailIs ==
    ASSUME NEW S, NEW q \in Seq(S), q # <<>>
    PROVE  /\ Tail(q) \in Seq(S) /\ Len(Tail(q)) = Len(q) - 1
           /\ \A n \in 1..Len(q) - 1 : Tail(q)[n] = q[n + 1]
           /\ Head(q) = q[1] /\ q[1] \in S /\ 1 <= Len(q) /\ Len(q) \in Nat
    BY HeadTailProperties, EmptySeq, LenProperties, ElementOfSeq

(* A concatenation, by index.                                               *)
LEMMA CatIs ==
    ASSUME NEW S, NEW u \in Seq(S), NEW v \in Seq(S)
    PROVE  /\ u \o v \in Seq(S) /\ Len(u \o v) = Len(u) + Len(v)
           /\ Len(u) \in Nat /\ Len(v) \in Nat
           /\ \A n \in 1..Len(u) : (u \o v)[n] = u[n]
           /\ \A n \in 1..Len(v) : (u \o v)[Len(u) + n] = v[n]
           /\ \A n \in Len(u) + 1..Len(u) + Len(v) : (u \o v)[n] = v[n - Len(u)]
    BY ConcatProperties, LenProperties

(* A sequence with one more element, by index.                              *)
LEMMA AppendIs ==
    ASSUME NEW S, NEW u \in Seq(S), NEW m \in S
    PROVE  /\ Append(u, m) \in Seq(S) /\ Len(Append(u, m)) = Len(u) + 1
           /\ Len(u) \in Nat
           /\ \A n \in 1..Len(u) : Append(u, m)[n] = u[n]
           /\ Append(u, m)[Len(u) + 1] = m
    BY AppendProperties, LenProperties

(* Moving a unit from one half of a path to the other, and reading one.     *)
LEMMA PassKeeps ==
    ASSUME NEW S, NEW u \in Seq(S), NEW v \in Seq(S), v # <<>>
    PROVE  Append(u, Head(v)) \o Tail(v) = u \o v
<1> DEFINE l == Append(u, Head(v)) \o Tail(v)
           r == u \o v
<1>1. Tail(v) \in Seq(S) /\ Len(Tail(v)) = Len(v) - 1 /\ Head(v) = v[1] /\ v[1] \in S
      /\ 1 <= Len(v) /\ Len(v) \in Nat /\ \A n \in 1..Len(v) - 1 : Tail(v)[n] = v[n + 1]
    BY TailIs
<1>2. /\ Append(u, Head(v)) \in Seq(S) /\ Len(Append(u, Head(v))) = Len(u) + 1
      /\ Len(u) \in Nat
      /\ \A n \in 1..Len(u) : Append(u, Head(v))[n] = u[n]
      /\ Append(u, Head(v))[Len(u) + 1] = v[1]
    BY <1>1, AppendIs
<1>3. /\ l \in Seq(S) /\ Len(l) = Len(u) + Len(v)
      /\ \A n \in 1..Len(u) + 1 : l[n] = Append(u, Head(v))[n]
      /\ \A n \in Len(u) + 2..Len(u) + Len(v) : l[n] = Tail(v)[n - (Len(u) + 1)]
    <2> DEFINE a == Append(u, Head(v))
               b == Tail(v)
    <2>1. a \in Seq(S) /\ b \in Seq(S) /\ Len(a) = Len(u) + 1 /\ Len(b) = Len(v) - 1
        BY <1>1, <1>2
    <2> HIDE DEF a, b
    <2>2. /\ a \o b \in Seq(S) /\ Len(a \o b) = Len(u) + Len(v)
          /\ \A n \in 1..Len(u) + 1 : (a \o b)[n] = a[n]
          /\ \A n \in Len(u) + 2..Len(u) + Len(v) : (a \o b)[n] = b[n - (Len(u) + 1)]
        <3>1. /\ a \o b \in Seq(S) /\ Len(a \o b) = Len(a) + Len(b)
              /\ \A n \in 1..Len(a) : (a \o b)[n] = a[n]
              /\ \A n \in Len(a) + 1..Len(a) + Len(b) : (a \o b)[n] = b[n - Len(a)]
            BY <2>1, CatIs
        <3> QED
            BY <2>1, <3>1, <1>1, <1>2
    <2> QED
        BY <2>2 DEF a, b
<1>4. /\ r \in Seq(S) /\ Len(r) = Len(u) + Len(v)
      /\ \A n \in 1..Len(u) : r[n] = u[n]
      /\ \A n \in Len(u) + 1..Len(u) + Len(v) : r[n] = v[n - Len(u)]
    BY CatIs
<1> HIDE DEF l, r
<1>5. ASSUME NEW n \in 1..Len(l) PROVE l[n] = r[n]
    <2>1. CASE n \in 1..Len(u)
        <3>1. n \in 1..Len(u) + 1
            BY <1>2, <2>1
        <3> QED
            BY <1>2, <1>3, <1>4, <2>1, <3>1
    <2>2. CASE n = Len(u) + 1
        BY <1>1, <1>2, <1>3, <1>4, <2>2
    <2>3. CASE n \in Len(u) + 2..Len(u) + Len(v)
        <3>1. n - (Len(u) + 1) \in 1..Len(v) - 1 /\ (n - (Len(u) + 1)) + 1 = n - Len(u)
            BY <1>1, <1>2, <2>3
        <3> QED
            BY <1>1, <1>3, <1>4, <2>3, <3>1
    <2> QED
        BY <1>1, <1>2, <1>3, <2>1, <2>2, <2>3
<1>6. l = r
    BY <1>3, <1>4, <1>5, SeqEqual
<1> QED
    BY <1>6 DEF l, r

(* Reading the first unit of u takes it off the whole path.                 *)
LEMMA ReadIs ==
    ASSUME NEW S, NEW u \in Seq(S), NEW v \in Seq(S), u # <<>>
    PROVE  /\ Len(Tail(u) \o v) = Len(u \o v) - 1
           /\ \A n \in 1..Len(u \o v) - 1 : (Tail(u) \o v)[n] = (u \o v)[n + 1]
           /\ Head(u) = (u \o v)[1] /\ 1 <= Len(u \o v)
<1> DEFINE t == Tail(u)
           l == t \o v
           r == u \o v
<1>1. t \in Seq(S) /\ Len(t) = Len(u) - 1 /\ Head(u) = u[1]
      /\ 1 <= Len(u) /\ Len(u) \in Nat /\ \A n \in 1..Len(u) - 1 : t[n] = u[n + 1]
    BY TailIs
<1> HIDE DEF t
<1>2. /\ Len(l) = Len(t) + Len(v) /\ Len(v) \in Nat
      /\ \A n \in 1..Len(t) : l[n] = t[n]
      /\ \A n \in Len(t) + 1..Len(t) + Len(v) : l[n] = v[n - Len(t)]
    <2>1. t \in Seq(S)
        BY <1>1
    <2> QED
        BY <2>1, CatIs
<1>3. /\ Len(r) = Len(u) + Len(v)
      /\ \A n \in 1..Len(u) : r[n] = u[n]
      /\ \A n \in Len(u) + 1..Len(u) + Len(v) : r[n] = v[n - Len(u)]
    BY CatIs
<1> HIDE DEF l, r
<1>4. ASSUME NEW n \in 1..Len(r) - 1 PROVE l[n] = r[n + 1]
    <2>1. CASE n \in 1..Len(t)
        BY <1>1, <1>2, <1>3, <2>1
    <2>2. CASE n \in Len(t) + 1..Len(t) + Len(v)
        <3>1. n + 1 \in Len(u) + 1..Len(u) + Len(v) /\ (n + 1) - Len(u) = n - Len(t)
            BY <1>1, <1>2, <2>2
        <3> QED
            BY <1>2, <1>3, <2>2, <3>1
    <2> QED
        BY <1>1, <1>2, <1>3, <2>1, <2>2
<1>5. Len(l) = Len(r) - 1 /\ Head(u) = r[1] /\ 1 <= Len(r)
    BY <1>1, <1>2, <1>3
<1> QED
    BY <1>4, <1>5 DEF l, r, t

-----------------------------------------------------------------------------
(* What holds whatever happens: tokens and types.                           *)

(* The server takes a unit off one stream.                                  *)
LEMMA TakeIs ==
    ASSUME StreamInv, NEW s \in Session, c2s[s] # <<>>, c2s' = Take(s)
    PROVE  /\ c2s' \in [Session -> Seq(Unit)] /\ c2s'[s] = Tail(c2s[s])
           /\ \A y \in Session : y # s => c2s'[y] = c2s[y]
<1>1. Tail(c2s[s]) \in Seq(Unit)
    BY HeadTailProperties DEF StreamInv
<1> QED
    BY <1>1 DEF Take, StreamInv

(* The server puts a unit on one stream, if its client is there.            *)
LEMMA DeliverIs ==
    ASSUME StreamInv, NEW s \in Session, NEW m \in Unit, Deliver(s, m)
    PROVE  /\ s2c' \in [Session -> Seq(Unit)]
           /\ s2c'[s] = IF cend[s] = "open" THEN Append(s2c[s], m) ELSE s2c[s]
           /\ \A y \in Session : y # s => s2c'[y] = s2c[y]
<1>1. Append(s2c[s], m) \in Seq(Unit)
    BY AppendProperties DEF StreamInv
<1> QED
    BY <1>1 DEF Deliver, StreamInv

(* What was not read is lost with the descriptors that the step closes.     *)
LEMMA DiscardIs ==
    ASSUME StreamInv, Discard
    PROVE  /\ c2s' \in [Session -> Seq(Unit)]
           /\ \A y \in Session : (y \in open' <=> y \in open) => c2s'[y] = c2s[y]
<1>1. <<>> \in Seq(Unit)
    BY EmptySeq
<1> QED
    BY <1>1 DEF Discard, StreamInv

(* Short sequences, by index.                                               *)
LEMMA Lists ==
    ASSUME NEW a \in Unit, NEW b \in Unit, NEW c \in Unit
    PROVE  /\ <<a>> \in Seq(Unit) /\ Len(<<a>>) = 1 /\ <<a>>[1] = a
           /\ <<a, b>> \in Seq(Unit) /\ Len(<<a, b>>) = 2
           /\ <<a, b>>[1] = a /\ <<a, b>>[2] = b
           /\ <<a, b>> \o <<c>> \in Seq(Unit) /\ Len(<<a, b>> \o <<c>>) = 3
           /\ (<<a, b>> \o <<c>>)[1] = a /\ (<<a, b>> \o <<c>>)[2] = b
           /\ (<<a, b>> \o <<c>>)[3] = c
<1>1. <<a>> \in Seq(Unit) /\ Len(<<a>>) = 1 /\ <<a>>[1] = a
    OBVIOUS
<1>2. <<a, b>> \in Seq(Unit) /\ Len(<<a, b>>) = 2 /\ <<a, b>>[1] = a /\ <<a, b>>[2] = b
    OBVIOUS
<1>3. <<c>> \in Seq(Unit) /\ Len(<<c>>) = 1 /\ <<c>>[1] = c
    OBVIOUS
<1> DEFINE u == <<a, b>>
           v == <<c>>
<1>4. u \in Seq(Unit) /\ v \in Seq(Unit) /\ Len(u) = 2 /\ Len(v) = 1
      /\ u[1] = a /\ u[2] = b /\ v[1] = c
    BY <1>2, <1>3
<1> HIDE DEF u, v
<1>5. u \o v \in Seq(Unit) /\ Len(u \o v) = 3
      /\ (u \o v)[1] = a /\ (u \o v)[2] = b /\ (u \o v)[3] = c
    <2>1. /\ u \o v \in Seq(Unit) /\ Len(u \o v) = Len(u) + Len(v)
          /\ \A n \in 1..Len(u) : (u \o v)[n] = u[n]
          /\ \A n \in 1..Len(v) : (u \o v)[Len(u) + n] = v[n]
        <3>1. u \in Seq(Unit) /\ v \in Seq(Unit)
            BY <1>4
        <3> QED
            BY <3>1, CatIs
    <2> QED
        BY <1>4, <2>1
<1> QED
    BY <1>1, <1>2, <1>5 DEF u, v

(* A client puts units on its stream, if the server still reads it.         *)
LEMMA SendIs ==
    ASSUME StreamInv, NEW s \in Session, NEW us \in Seq(Unit), SendUnits(s, us)
    PROVE  /\ c2s' \in [Session -> Seq(Unit)]
           /\ c2s'[s] = IF Carries(s) THEN c2s[s] \o us ELSE c2s[s]
           /\ \A y \in Session : y # s => c2s'[y] = c2s[y]
<1>1. c2s[s] \o us \in Seq(Unit)
    BY ConcatProperties DEF StreamInv
<1> QED
    BY <1>1 DEF SendUnits, StreamInv, Carries

(* Tokens stay known.                                                       *)
LEMMA TokensKept ==
    ASSUME issued \subseteq issued'
    PROVE  \A k \in Sendable : k \in Sendable'
    BY DEF Sendable

LEMMA TokensAre ==
    ASSUME TypeOK
    PROVE  Sendable \subseteq Token /\ None \notin Sendable
    BY SessionAssumption DEF TypeOK, Sendable, Token

(* The server may still read the first unit of x as a header, or none.      *)
Early(x) == pc[x] \in {"idle", "hdr"} \/ x \notin open

(* What a step may do to x's stream to the server: nothing, lose it, take   *)
(* its first unit, or put units on it that are no CONNECT.                  *)
UpOk(u) ==
    /\ u.unit # "msg" /\ u.cmd \notin {"TOKEN", "CONNECT"}
    /\ u.unit = "tok" => u.val \in Sendable
UpStep(x) ==
    \/ c2s'[x] = c2s[x] /\ (Early(x) => Early(x)')
    \/ c2s'[x] = <<>>
    \/ c2s[x] # <<>> /\ c2s'[x] = Tail(c2s[x])
    \/ /\ Early(x) => Early(x)'
       /\ \E us \in Seq(Unit) : /\ c2s'[x] = c2s[x] \o us
                                /\ \A n \in 1..Len(us) : UpOk(us[n])

(* The same for its stream to the client.                                   *)
DownStep(x) ==
    \/ s2c'[x] = s2c[x] \/ s2c'[x] = <<>>
    \/ s2c[x] # <<>> /\ s2c'[x] = Tail(s2c[x])
    \/ \E m \in Unit : s2c'[x] = Append(s2c[x], m) /\ SentDown(m)'

LEMMA UpKept ==
    ASSUME StreamInv, NEW x \in Session, UnitsOf(x), UpStep(x), issued \subseteq issued'
    PROVE  (\A n \in 1..Len(c2s[x]) : SentUp(x, n, c2s[x][n]))'
<1>0. PICK q : q = c2s[x]
    OBVIOUS
<1>1. q \in Seq(Unit) /\ Len(q) \in Nat /\ \A n \in 1..Len(q) : SentUp(x, n, q[n])
    BY <1>0, LenProperties DEF StreamInv, UnitsOf
<1>2. \A n, u : SentUp(x, n, u) /\ (u.cmd = "CONNECT" => Early(x)') => SentUp(x, n, u)'
    BY TokensKept DEF SentUp, Early
<1>3. \A n, u : UpOk(u) => SentUp(x, n, u)'
    BY TokensKept DEF SentUp, UpOk
<1>4. CASE c2s'[x] = q /\ (Early(x) => Early(x)')
    BY <1>1, <1>2, <1>4 DEF SentUp, Early
<1>5. CASE c2s'[x] = <<>>
    BY <1>5, EmptySeq
<1>6. CASE q # <<>> /\ c2s'[x] = Tail(q)
    <2>1. /\ Len(Tail(q)) = Len(q) - 1
          /\ \A n \in 1..Len(q) - 1 : Tail(q)[n] = q[n + 1]
        BY <1>1, <1>6, TailIs
    <2> SUFFICES ASSUME NEW n \in 1..Len(q) - 1 PROVE SentUp(x, n, q[n + 1])'
        BY <1>6, <2>1
    <2>2. SentUp(x, n + 1, q[n + 1]) /\ n + 1 # 1
        BY <1>1
    <2>3. SentUp(x, n, q[n + 1])
        BY <2>2 DEF SentUp
    <2> QED
        BY <1>2, <2>2, <2>3 DEF SentUp
<1>7. ASSUME NEW us \in Seq(Unit), c2s'[x] = q \o us, \A n \in 1..Len(us) : UpOk(us[n]),
             Early(x) => Early(x)'
      PROVE  (\A n \in 1..Len(c2s[x]) : SentUp(x, n, c2s[x][n]))'
    <2>1. /\ Len(q \o us) = Len(q) + Len(us) /\ Len(us) \in Nat
          /\ \A n \in 1..Len(q) : (q \o us)[n] = q[n]
          /\ \A n \in Len(q) + 1..Len(q) + Len(us) : (q \o us)[n] = us[n - Len(q)]
        BY <1>1, CatIs
    <2> SUFFICES ASSUME NEW n \in 1..Len(q) + Len(us) PROVE SentUp(x, n, (q \o us)[n])'
        BY <1>7, <2>1
    <2>2. CASE n \in 1..Len(q)
        <3>1. SentUp(x, n, q[n]) /\ (q \o us)[n] = q[n]
            BY <1>1, <2>1, <2>2
        <3> QED
            BY <1>2, <1>7, <3>1 DEF SentUp, Early
    <2>3. CASE n \in Len(q) + 1..Len(q) + Len(us)
        <3>1. n - Len(q) \in 1..Len(us) /\ (q \o us)[n] = us[n - Len(q)]
            BY <1>1, <2>1, <2>3
        <3> QED
            BY <1>3, <1>7, <3>1
    <2> QED
        BY <1>1, <2>1, <2>2, <2>3
<1> QED
    BY <1>0, <1>4, <1>5, <1>6, <1>7 DEF UpStep

LEMMA DownKept ==
    ASSUME StreamInv, NEW x \in Session, UnitsOf(x), DownStep(x), issued \subseteq issued'
    PROVE  (\A n \in 1..Len(s2c[x]) : SentDown(s2c[x][n]))'
<1>0. PICK q : q = s2c[x]
    OBVIOUS
<1>1. q \in Seq(Unit) /\ Len(q) \in Nat /\ \A n \in 1..Len(q) : SentDown(q[n])
    BY <1>0, LenProperties DEF StreamInv, UnitsOf
<1>2. \A u : SentDown(u) => SentDown(u)'
    BY TokensKept DEF SentDown
<1>3. CASE s2c'[x] = q
    BY <1>1, <1>2, <1>3
<1>4. CASE s2c'[x] = <<>>
    BY <1>4, EmptySeq
<1>5. CASE q # <<>> /\ s2c'[x] = Tail(q)
    <2>1. /\ Len(Tail(q)) = Len(q) - 1
          /\ \A n \in 1..Len(q) - 1 : Tail(q)[n] = q[n + 1]
        BY <1>1, <1>5, TailIs
    <2> QED
        BY <1>1, <1>2, <1>5, <2>1
<1>6. ASSUME NEW m \in Unit, s2c'[x] = Append(q, m), SentDown(m)'
      PROVE  (\A n \in 1..Len(s2c[x]) : SentDown(s2c[x][n]))'
    <2>1. /\ Len(Append(q, m)) = Len(q) + 1
          /\ \A n \in 1..Len(q) : Append(q, m)[n] = q[n]
          /\ Append(q, m)[Len(q) + 1] = m
        BY <1>1, AppendIs
    <2>2. ASSUME NEW n \in 1..Len(q) + 1 PROVE SentDown(Append(q, m)[n])'
        <3>1. n \in 1..Len(q) \/ n = Len(q) + 1
            BY <1>1
        <3> QED
            BY <1>1, <1>2, <1>6, <2>1, <3>1
    <2> QED
        BY <1>6, <2>1, <2>2
<1> QED
    BY <1>0, <1>3, <1>4, <1>5, <1>6 DEF DownStep

(* Steps of these kinds keep what is said of the units.                     *)
LEMMA UnitsKept ==
    ASSUME BInv, issued \subseteq issued', \A x \in Session : UpStep(x) /\ DownStep(x)
    PROVE  \A x \in Session : UnitsOf(x)'
    BY UpKept, DownKept DEF BInv, FlightInv, UnitsOf

(* A step of session s leaves the others' labels and descriptors alone, but *)
(* for a connector that gets its peer before it looks for it.               *)
OthersKept(s) ==
    \A y \in Session \ {s} :
        /\ pc'[y] = pc[y] /\ (y \in open' => y \in open) /\ sfd'[y] = sfd[y]
        /\ remote_fd'[y] = remote_fd[y] \/ sfd[y] = None

SfdInv == \A x \in Session : sfd[x] # None => sfd[x] = remote_fd[x]

LEMMA KeptByClose ==
    ASSUME IInv, NEW s \in Session, NEW E, Close(s, E)
    PROVE  OthersKept(s) /\ sfd'[s] = None /\ pc'[s] = "freed"
    BY DEF Close, ClearLocals, OthersKept, IInv, TypeOK

LEMMA KeptByPair ==
    ASSUME IInv, SfdInv, NEW s \in Session, NEW k, NEW c \in Find("CONNECT", k), Pair(s, c, k)
    PROVE  OthersKept(s) /\ sfd' = sfd /\ pc'[s] = "freed"
<1>1. c \in Session /\ type[c] = "CONNECT"
    BY DEF Find, IInv, RegistryConsistent
<1>2. remote_fd[c] = None /\ sfd[c] = None
    BY <1>1 DEF IInv, FdInv, SfdInv
<1> QED
    BY <1>1, <1>2 DEF Pair, OthersKept, IInv, TypeOK

(* The same for every step of a session, when sends do not block.           *)
LEMMA StepKept ==
    ASSUME IInv, SfdInv, NEW s \in Session, SessionStep(s)
    PROVE  /\ OthersKept(s) /\ (sfd'[s] # None => sfd'[s] = remote_fd'[s])
           /\ issued \subseteq issued'
           /\ pc[s] = "idle" => AcceptClient(s) \/ AcceptDrop(s)
<1> USE EndToEndAssumption DEF OthersKept
<1>1. CASE AcceptClient(s) \/ AcceptDrop(s)
    BY <1>1 DEF AcceptClient, AcceptDrop, ioVars, locVars, IInv, TypeOK, SfdInv
<1>2. ASSUME NEW E, Close(s, E), issued \subseteq issued', pc[s] # "idle"
      PROVE  /\ OthersKept(s) /\ (sfd'[s] # None => sfd'[s] = remote_fd'[s])
             /\ issued \subseteq issued'
             /\ pc[s] = "idle" => AcceptClient(s) \/ AcceptDrop(s)
    BY <1>2, KeptByClose
<1>3. CASE RecvFail(s) \/ BadCommand(s) \/ PenaltyEnd(s) \/ EndSplice(s) \/ AcceptTimeout(s)
    BY <1>2, <1>3 DEF RecvFail, BadCommand, PenaltyEnd, EndSplice, AcceptTimeout, Receiving
<1>4. CASE GetLock(s) \/ EndSend(s)
    BY <1>4 DEF GetLock, EndSend, IInv, SendInv
<1>5. ASSUME NEW v, NEW k, Login(s, v, k), issued \subseteq issued', pc[s] # "idle"
      PROVE  /\ OthersKept(s) /\ (sfd'[s] # None => sfd'[s] = remote_fd'[s])
             /\ issued \subseteq issued'
             /\ pc[s] = "idle" => AcceptClient(s) \/ AcceptDrop(s)
    <2>1. PICK E : LoginOk(s, v, k, E) \/ Close(s, E)
        BY <1>5 DEF Login, BeginSend
    <2>2. CASE LoginOk(s, v, k, E)
        BY <1>5, <2>2 DEF LoginOk, ClearLocals, ioVars, IInv, TypeOK
    <2> QED
        BY <1>2, <1>5, <2>1, <2>2
<1>6. CASE RecvLoginV1(s)
    BY <1>5, <1>6 DEF RecvLoginV1
<1>7. CASE \E v \in {2, 3} : RecvLogin(s, v)
    BY <1>7 DEF RecvLogin, RecvBody, ioVars, locVars, IInv, TypeOK, SfdInv
<1>8. CASE \E k \in Sendable \cup {None} : RecvLoginToken(s, k)
    <2>1. PICK k : RecvLoginToken(s, k)
        BY <1>8
    <2>2. issued \subseteq issued' /\ pc[s] # "idle"
        BY <2>1 DEF RecvLoginToken
    <2>3. \E j : Login(s, ver[s], j)
        BY <2>1 DEF RecvLoginToken
    <2> QED
        BY <1>5, <2>2, <2>3
<1>9. CASE RecvConnect(s) \/ RecvAccept(s)
    BY <1>9 DEF RecvConnect, RecvAccept, RecvBody, ioVars, IInv, TypeOK, SfdInv
<1>10. CASE \E k \in Sendable : RecvConnectToken(s, k)
    <2>1. PICK k : RecvConnectToken(s, k)
        BY <1>10
    <2>2. issued \subseteq issued' /\ pc[s] # "idle"
        BY <2>1 DEF RecvConnectToken
    <2>3. CASE UNCHANGED <<idVars, ioVars, locVars>> /\ pc' = [pc EXCEPT ![s] = "penalty"]
        BY <2>2, <2>3 DEF ioVars, locVars, IInv, TypeOK, SfdInv
    <2>4. CASE \E j : ConnectOk(s, j)
        BY <2>2, <2>4 DEF ConnectOk, ClearLocals, ioVars, IInv, TypeOK
    <2>5. CASE Close(s, {})
        BY <1>2, <2>2, <2>5
    <2> QED
        BY <2>1, <2>3, <2>4, <2>5 DEF RecvConnectToken, BeginSend
<1>11. CASE StartSplice(s)
    BY <1>11 DEF StartSplice, ioVars, IInv, TypeOK
<1>12. CASE (\E k \in Sendable : RecvAcceptToken(s, k)) \/ AcceptWake(s)
    <2>1. issued' = issued /\ pc[s] \in {"accTok", "waitConnect"}
        BY <1>12 DEF RecvAcceptToken, AcceptWake
    <2>2. CASE Close(s, {})
        BY <1>2, <2>1, <2>2
    <2>3. CASE \E k : \E c \in Find("CONNECT", k) : Pair(s, c, k)
        <3>0. PICK k : \E c \in Find("CONNECT", k) : Pair(s, c, k)
            BY <2>3
        <3>1. PICK c \in Find("CONNECT", k) : Pair(s, c, k)
            BY <3>0
        <3>2. sfd[s] = None
            BY <2>1 DEF SfdInv, IInv, FdInv, RoleAtLabel
        <3> QED
            BY <2>1, <3>1, <3>2, KeptByPair
    <2>4. CASE UNCHANGED ioVars /\ pc' = [pc EXCEPT ![s] = "waitConnect"] /\ sfd' = sfd
        BY <2>1, <2>4 DEF ioVars, IInv, TypeOK, SfdInv
    <2> QED
        BY <1>12, <2>2, <2>3, <2>4 DEF RecvAcceptToken, AcceptWake
<1>13. CASE RecvKeepAlive(s)
    BY <1>2, <1>13 DEF RecvKeepAlive, BeginSend
<1> QED
    BY <1>1, <1>3, <1>4, <1>6, <1>7, <1>8, <1>9, <1>10, <1>11, <1>12, <1>13 DEF SessionStep

(* What is left to show of a step of the server.                            *)
LEMMA ServerTypes ==
    ASSUME BInv, UNCHANGED clientVars, NoLoss \/ Spend, hit' \in SUBSET Session,
           issued \subseteq issued', SfdInv',
           \A x \in Session : cend[x] = "none" => pc'[x] = "idle",
           \A x \in Session : c2s[x] = <<>> => c2s'[x] = <<>>,
           \A x \in Session : UpStep(x) /\ DownStep(x), StreamInv'
    PROVE  ETypeOK' /\ FlightInv'
<1> USE DEF BInv, clientVars, taskVars, fwdVars, fdVars, cfgVars
<1>1. used' \in 0..MaxFaults /\ stale' \in 0..MaxStale /\ due' \in SUBSET Session
    BY EndToEndAssumption DEF ETypeOK, NoLoss, Spend, histVars
<1>2. ETypeOK'
    BY <1>1 DEF ETypeOK
<1>3. \A x \in Session : UnitsOf(x)'
    BY UnitsKept
<1> QED
    BY <1>2, <1>3, TokensKept DEF FlightInv, SfdInv

LEMMA StepTypes ==
    ASSUME BInv, NEW s \in Session, SessionStep(s), UNCHANGED clientVars,
           NoLoss \/ Spend, hit' = hit, StreamInv', \A x \in Session : DownStep(x),
           \A y \in Session \ {s} : c2s'[y] \in {c2s[y], <<>>},
           \/ c2s'[s] = <<>> \/ (c2s[s] # <<>> /\ c2s'[s] = Tail(c2s[s]))
           \/ c2s'[s] = c2s[s] /\ (Early(s) => Early(s)'),
           pc[s] = "idle" => cend[s] # "none"
    PROVE  ETypeOK' /\ FlightInv'
<1>1. SfdInv /\ IInv /\ hit' \in SUBSET Session
    BY DEF BInv, FlightInv, SfdInv, ETypeOK
<1>2. /\ OthersKept(s) /\ (sfd'[s] # None => sfd'[s] = remote_fd'[s])
      /\ issued \subseteq issued'
    BY <1>1, StepKept
<1>3. SfdInv'
    BY <1>1, <1>2 DEF SfdInv, OthersKept
<1>4. \A x \in Session : cend[x] = "none" => pc'[x] = "idle"
    BY <1>2 DEF OthersKept, BInv, FlightInv
<1>5. \A y \in Session \ {s} : Early(y) => Early(y)'
    BY <1>2 DEF OthersKept, Early
<1>6. \A x \in Session : UpStep(x)
    BY <1>5 DEF UpStep
<1>7. \A x \in Session : c2s[x] = <<>> => c2s'[x] = <<>>
    OBVIOUS
<1> QED
    BY <1>1, <1>2, <1>3, <1>4, <1>6, <1>7, ServerTypes

(* Every step of the server with its clients is one of a session.           *)
LEMMA TokenHead ==
    ASSUME BInv, NEW s \in Session, c2s[s] # <<>>, Head(c2s[s]).unit = "tok"
    PROVE  Head(c2s[s]).val \in Sendable
<1>1. Head(c2s[s]) = c2s[s][1] /\ 1 \in 1..Len(c2s[s])
    BY TailIs DEF BInv, StreamInv
<1>2. SentUp(s, 1, c2s[s][1])
    BY <1>1 DEF BInv, FlightInv, UnitsOf
<1> QED
    BY <1>1, <1>2 DEF SentUp

LEMMA ServerIsStep ==
    ASSUME BInv, NEW s \in Session, Server(s)
    PROVE  SessionStep(s) \/ (UNCHANGED vars /\ \E x, y \in SpliceFds(s) : SrvSplice(s, x, y))
<1>1. CASE SrvAccept(s)
    BY <1>1 DEF SrvAccept, SessionStep
<1>2. CASE SrvLogin(s)
    BY <1>2, TokenHead DEF SrvLogin, SessionStep
<1>3. CASE SrvHeader(s)
    BY <1>3 DEF SrvHeader, SessionStep
<1>4. CASE SrvConnect(s)
    BY <1>4, TokenHead DEF SrvConnect, SessionStep
<1>5. CASE SrvAcceptToken(s)
    BY <1>5, TokenHead DEF SrvAcceptToken, SessionStep
<1>6. CASE SrvStartSplice(s) \/ SrvEndSplice(s) \/ SrvTimer(s) \/ SrvRecvFail(s)
    BY <1>6 DEF SrvStartSplice, SrvEndSplice, SrvTimer, SrvRecvFail, SessionStep
<1>7. CASE SrvMisread(s)
    <2>1. \A k \in Noise : k \in Sendable
        BY DEF Noise, Sendable
    <2> QED
        BY <1>7, <2>1 DEF SrvMisread, SessionStep
<1>8. CASE \E x, y \in SpliceFds(s) : SrvSplice(s, x, y)
    BY <1>8 DEF SrvSplice
<1> QED
    BY <1>1, <1>2, <1>3, <1>4, <1>5, <1>6, <1>7, <1>8 DEF Server

(* What login and connect send.                                             *)
LEMMA TokenSent ==
    ASSUME BInv, NEW s \in Session, NEW v, NEW k, Login(s, v, k), pc'[s] # "freed",
           k \in Sendable'
    PROVE  token'[s] \in Sendable'
<1>1. \E E : LoginOk(s, v, k, E) \/ Close(s, E)
    BY EndToEndAssumption DEF Login, BeginSend
<1>2. \E E : LoginOk(s, v, k, E)
    BY <1>1, KeptByClose DEF BInv
<1> QED
    BY <1>2 DEF LoginOk, BInv, IInv, TypeOK

LEMMA LoginSends ==
    ASSUME BInv, NEW s \in Session, NEW k \in Sendable, pc'[s] # "freed",
           RecvLoginV1(s) \/ RecvLoginToken(s, k)
    PROVE  token'[s] \in Sendable'
<1>1. k \in Sendable' /\ (s \in issued' => s \in Sendable') /\ k # None
    BY TokensAre DEF RecvLoginV1, RecvLoginToken, Sendable, BInv, IInv
<1>2. CASE RecvLoginV1(s)
    BY <1>1, <1>2, TokenSent DEF RecvLoginV1
<1>3. CASE RecvLoginToken(s, k)
    BY <1>1, <1>3, TokenSent DEF RecvLoginToken
<1> QED
    BY <1>2, <1>3

LEMMA ConnectSends ==
    ASSUME BInv, NEW s \in Session, NEW k \in Sendable, pc'[s] = "waitAccept",
           RecvConnectToken(s, k)
    PROVE  token'[s] \in Sendable'
<1>1. pc'[s] # "penalty" /\ pc \in [Session -> Label] /\ token \in [Session -> Token \cup {None}]
    BY DEF BInv, IInv, TypeOK
<1>2. ~(pc' = [pc EXCEPT ![s] = "penalty"]) /\ ~Close(s, {})
    BY <1>1 DEF Close
<1>3. PICK f : LET key == IF is_temp_token[f] THEN s ELSE k IN
                 /\ issued' = IF is_temp_token[f] THEN issued \cup {s} ELSE issued
                 /\ ConnectOk(s, key)
    BY <1>2, EndToEndAssumption DEF RecvConnectToken, BeginSend
<1>4. token'[s] = IF is_temp_token[f] THEN s ELSE k
    BY <1>1, <1>3 DEF ConnectOk
<1> QED
    BY <1>3, <1>4 DEF Sendable

(* A message with a known token, or an echo, may be delivered.              *)
LEMMA Delivers ==
    ASSUME BInv, NEW f \in Session, NEW m \in Unit, SentDown(m)', Deliver(f, m)
    PROVE  s2c' \in [Session -> Seq(Unit)] /\ \A x \in Session : DownStep(x)
<1>1. /\ s2c' \in [Session -> Seq(Unit)]
      /\ s2c'[f] = IF cend[f] = "open" THEN Append(s2c[f], m) ELSE s2c[f]
      /\ \A y \in Session : y # f => s2c'[y] = s2c[y]
    BY DeliverIs DEF BInv
<1> QED
    BY <1>1 DEF DownStep

LEMMA DeliversToken ==
    ASSUME BInv, TypeOK', NEW f \in Session, NEW c \in {"TOKEN", "CONNECT"}, NEW k,
           k \in Sendable', Deliver(f, Msg(c, k))
    PROVE  s2c' \in [Session -> Seq(Unit)] /\ \A x \in Session : DownStep(x)
<1>1. k \in Token
    BY SessionAssumption DEF TypeOK, Sendable, Token
<1>2. Msg(c, k) \in Unit
    BY <1>1, AreUnits
<1>3. SentDown(Msg(c, k))'
    BY Units DEF SentDown, Msg
<1> QED
    BY <1>2, <1>3, Delivers

(* The steps of the server keep types and tokens.                           *)
LEMMA SrvAcceptTypes ==
    ASSUME BInv, NEW s \in Session, SrvAccept(s)
    PROVE  ETypeOK' /\ StreamInv' /\ FlightInv'
<1>1. SessionStep(s) /\ UNCHANGED <<c2s, s2c, clientVars, hit>> /\ (NoLoss \/ Spend)
      /\ cend[s] # "none"
    BY DEF SrvAccept, SessionStep, chanVars
<1>2. StreamInv' /\ \A x \in Session : DownStep(x)
    BY <1>1 DEF BInv, StreamInv, DownStep
<1>3. Early(s)'
    <2>1. pc[s] = "idle" /\ (pc'[s] = "hdr" \/ open' = open)
        BY DEF SrvAccept, AcceptClient, AcceptDrop, ioVars, BInv, IInv, TypeOK
    <2>2. s \notin open
        BY <2>1, SessionAssumption DEF BInv, IInv, FdInv, Live
    <2> QED
        BY <2>1, <2>2 DEF Early
<1> QED
    BY <1>1, <1>2, <1>3, StepTypes

(* A unit is taken, and a message with a known token may be sent.           *)
LEMMA TakeTypes ==
    ASSUME BInv, NEW s \in Session, SessionStep(s), UNCHANGED clientVars, NoLoss \/ Spend,
           hit' = hit, c2s[s] # <<>>, c2s' = Take(s), pc[s] # "idle",
           \/ s2c' = s2c
           \/ \E f \in Session, c \in {"TOKEN", "CONNECT"}, k \in Sendable' : Deliver(f, Msg(c, k))
    PROVE  ETypeOK' /\ StreamInv' /\ FlightInv'
<1>1. TypeOK'
    BY NextInv DEF BInv, Next, IInv
<1>2. /\ c2s' \in [Session -> Seq(Unit)] /\ c2s'[s] = Tail(c2s[s])
      /\ \A y \in Session : y # s => c2s'[y] = c2s[y]
    BY TakeIs DEF BInv
<1>3. s2c' \in [Session -> Seq(Unit)] /\ \A x \in Session : DownStep(x)
    <2>1. CASE s2c' = s2c
        BY <2>1 DEF BInv, StreamInv, DownStep
    <2>2. ASSUME NEW f \in Session, NEW c \in {"TOKEN", "CONNECT"}, NEW k, k \in Sendable',
                 Deliver(f, Msg(c, k))
          PROVE  s2c' \in [Session -> Seq(Unit)] /\ \A x \in Session : DownStep(x)
        BY <1>1, <2>2, DeliversToken
    <2> QED
        BY <2>1, <2>2
<1>4. StreamInv'
    BY <1>2, <1>3 DEF StreamInv
<1> QED
    BY <1>2, <1>3, <1>4, StepTypes

LEMMA SrvLoginTypes ==
    ASSUME BInv, NEW s \in Session, SrvLogin(s)
    PROVE  ETypeOK' /\ StreamInv' /\ FlightInv'
<1>1. SessionStep(s)
    BY TokenHead DEF SrvLogin, SessionStep
<1>2. c2s[s] # <<>> /\ c2s' = Take(s) /\ UNCHANGED <<clientVars, hit>> /\ (NoLoss \/ Spend)
      /\ pc[s] # "idle"
    BY DEF SrvLogin, Arrived, RecvLoginV1
<1>3. s2c' = s2c \/ \E f \in Session, c \in {"TOKEN", "CONNECT"}, k \in Sendable' :
                        Deliver(f, Msg(c, k))
    <2>1. CASE pc'[s] = "freed"
        BY <2>1 DEF SrvLogin
    <2>2. CASE pc'[s] # "freed"
        <3>1. Deliver(s, Msg("TOKEN", token'[s]))
            BY <2>2 DEF SrvLogin
        <3>2. CASE RecvLoginV1(s)
            <4>1. s \in issued' /\ issued \subseteq issued'
                BY <3>2 DEF RecvLoginV1
            <4>2. s \in Sendable' /\ Login(s, 1, s)
                BY <3>2, <4>1 DEF Sendable, RecvLoginV1
            <4> QED
                BY <2>2, <3>1, <4>2, TokenSent
        <3>3. CASE RecvLoginToken(s, Head(c2s[s]).val) /\ Head(c2s[s]).unit = "tok"
            BY <1>2, <2>2, <3>1, <3>3, TokenHead, LoginSends
        <3> QED
            BY <3>2, <3>3 DEF SrvLogin
    <2> QED
        BY <2>1, <2>2
<1> QED
    BY <1>1, <1>2, <1>3, TakeTypes

LEMMA SrvConnectTypes ==
    ASSUME BInv, NEW s \in Session, SrvConnect(s)
    PROVE  ETypeOK' /\ StreamInv' /\ FlightInv'
<1>1. SessionStep(s)
    BY TokenHead DEF SrvConnect, SessionStep
<1>2. PICK k \in Sendable :
         /\ RecvConnectToken(s, k)
         /\ CASE pc'[s] = "waitAccept" -> NoLoss /\ \E f \in Find("FORWARD", k) :
                                              Deliver(f, Msg("CONNECT", token'[s]))
              [] pc'[s] = "penalty" -> NoLoss /\ UNCHANGED s2c
              [] pc'[s] = "freed" -> Spend /\ UNCHANGED s2c
    BY TokenHead DEF SrvConnect
<1>3. c2s[s] # <<>> /\ c2s' = Take(s) /\ UNCHANGED <<clientVars, hit>> /\ pc[s] # "idle"
    BY DEF SrvConnect
<1>4. pc'[s] \in {"waitAccept", "penalty", "freed"}
    BY <1>2, EndToEndAssumption DEF RecvConnectToken, BeginSend, ConnectOk, Close, BInv, IInv, TypeOK
<1>5. NoLoss \/ Spend
    BY <1>2, <1>4
<1>6. s2c' = s2c \/ \E f \in Session, c \in {"TOKEN", "CONNECT"}, j \in Sendable' :
                        Deliver(f, Msg(c, j))
    <2>1. CASE pc'[s] # "waitAccept"
        BY <1>2, <1>4, <2>1
    <2>2. CASE pc'[s] = "waitAccept"
        <3>1. PICK f \in Find("FORWARD", k) : Deliver(f, Msg("CONNECT", token'[s]))
            BY <1>2, <2>2
        <3>2. token'[s] \in Sendable' /\ f \in Session
            BY <1>2, <2>2, ConnectSends DEF Find
        <3> QED
            BY <3>1, <3>2
    <2> QED
        BY <2>1, <2>2
<1> QED
    BY <1>1, <1>3, <1>5, <1>6, TakeTypes

LEMMA SrvReadTypes ==
    ASSUME BInv, NEW s \in Session, SrvHeader(s) \/ SrvAcceptToken(s)
    PROVE  ETypeOK' /\ StreamInv' /\ FlightInv'
<1>1. SessionStep(s)
    BY ServerIsStep, TokenHead DEF SrvHeader, SrvAcceptToken, SessionStep
<1>2. /\ c2s[s] # <<>> /\ c2s' = Take(s) /\ UNCHANGED <<s2c, clientVars, hit>> /\ NoLoss
      /\ pc[s] # "idle"
    BY DEF SrvHeader, SrvAcceptToken, Arrived, RecvLogin, RecvConnect, RecvAccept, NoLoss
<1> QED
    BY <1>1, <1>2, TakeTypes

LEMMA SrvMisreadTypes ==
    ASSUME BInv, NEW s \in Session, SrvMisread(s)
    PROVE  ETypeOK' /\ StreamInv' /\ FlightInv'
<1>0. \A k \in Noise : k \in Sendable
    BY DEF Noise, Sendable
<1>1. SessionStep(s)
    BY <1>0 DEF SrvMisread, SessionStep
<1>2. /\ c2s[s] # <<>> /\ c2s' = Take(s) /\ UNCHANGED <<clientVars, hit>> /\ NoLoss
      /\ pc[s] # "idle"
    BY DEF SrvMisread, ServerMisreads, NoLoss, Receiving
<1>3. s2c' = s2c \/ \E f \in Session, c \in {"TOKEN", "CONNECT"}, k \in Sendable' :
                        Deliver(f, Msg(c, k))
    <2>1. CASE ~(type[s] = "NULL" /\ type'[s] = "FORWARD")
        BY <2>1 DEF SrvMisread
    <2>2. CASE type[s] = "NULL" /\ type'[s] = "FORWARD"
        <3>1. Deliver(s, Msg("TOKEN", token'[s]))
            BY <2>2 DEF SrvMisread
        <3>2. CASE RecvLoginV1(s)
            <4>1. s \in issued' /\ issued \subseteq issued'
                BY <3>2 DEF RecvLoginV1
            <4>2. s \in Sendable' /\ Login(s, 1, s)
                BY <3>2, <4>1 DEF Sendable, RecvLoginV1
            <4>3. pc'[s] # "freed"
                <5>1. TypeOK' /\ RoleAtLabel'
                    BY <1>1, NextInv DEF BInv, Next, IInv
                <5> QED
                    BY <2>2, <5>1 DEF RoleAtLabel
            <4> QED
                BY <3>1, <4>2, <4>3, TokenSent
        <3>3. ASSUME NEW k \in Noise, RecvLoginToken(s, k)
              PROVE  token'[s] \in Sendable'
            <4>1. pc'[s] # "freed"
                <5>1. TypeOK' /\ RoleAtLabel'
                    BY <1>1, NextInv DEF BInv, Next, IInv
                <5> QED
                    BY <2>2, <5>1 DEF RoleAtLabel
            <4> QED
                BY <1>0, <3>3, <4>1, LoginSends
        <3>4. CASE BadCommand(s) \/ RecvLogin(s, 3) \/ RecvConnect(s) \/ RecvAccept(s)
                   \/ \E k \in Noise : RecvConnectToken(s, k) \/ RecvAcceptToken(s, k)
            <4>1. type'[s] # "FORWARD"
                <5> USE DEF BInv, IInv, TypeOK
                <5>1. CASE Close(s, {})
                    BY <5>1 DEF Close, Upd
                <5>2. CASE UNCHANGED regVars
                    BY <2>2, <5>2 DEF regVars
                <5>3. CASE \E k : ConnectOk(s, k)
                    BY <5>3 DEF ConnectOk
                <5>4. CASE \E c, k : Pair(s, c, k)
                    BY <5>4 DEF Pair
                <5>5. CASE BadCommand(s) \/ RecvLogin(s, 3) \/ RecvConnect(s) \/ RecvAccept(s)
                    BY <5>1, <5>2, <5>5 DEF BadCommand, RecvLogin, RecvConnect, RecvAccept, RecvBody
                <5>6. CASE \E k \in Noise : RecvConnectToken(s, k)
                    BY <5>1, <5>2, <5>3, <5>6, EndToEndAssumption DEF RecvConnectToken, BeginSend
                <5>7. CASE \E k \in Noise : RecvAcceptToken(s, k)
                    BY <5>1, <5>2, <5>4, <5>7 DEF RecvAcceptToken
                <5> QED
                    BY <3>4, <5>5, <5>6, <5>7
            <4> QED
                BY <2>2, <4>1
        <3> QED
            BY <3>1, <3>2, <3>3, <3>4 DEF SrvMisread
    <2> QED
        BY <2>1, <2>2
<1> QED
    BY <1>1, <1>2, <1>3, TakeTypes

LEMMA SrvCloseTypes ==
    ASSUME BInv, NEW s \in Session, SrvRecvFail(s) \/ SrvEndSplice(s) \/ SrvTimer(s)
    PROVE  ETypeOK' /\ StreamInv' /\ FlightInv'
<1>1. SessionStep(s)
    BY DEF SrvRecvFail, SrvEndSplice, SrvTimer, SessionStep
<1>2. UNCHANGED <<s2c, clientVars, hit>> /\ (NoLoss \/ Spend) /\ Discard
    BY DEF SrvRecvFail, SrvEndSplice, SrvTimer, NoLoss
<1>3. c2s' \in [Session -> Seq(Unit)] /\ StreamInv' /\ \A x \in Session : DownStep(x)
    BY <1>2, DiscardIs DEF BInv, StreamInv, DownStep
<1>4. pc[s] # "idle"
    BY DEF SrvRecvFail, SrvEndSplice, SrvTimer, RecvFail, EndSplice, PenaltyEnd,
           AcceptTimeout, AcceptWake, Receiving
<1>5. \A y \in Session : c2s'[y] = IF y \in open \ open' THEN <<>> ELSE c2s[y]
    BY <1>2 DEF Discard
<1>6. c2s'[s] = <<>> \/ (c2s'[s] = c2s[s] /\ (Early(s) => Early(s)'))
    <2>1. CASE Close(s, {})
        <3>1. client_fd[s] = s /\ s \in open
            BY <1>4, SessionAssumption, <1>1, <2>1 DEF BInv, IInv, FdInv, Live, SrvRecvFail,
               SrvEndSplice, SrvTimer, RecvFail, EndSplice, PenaltyEnd, AcceptTimeout,
               AcceptWake, Receiving
        <3>2. s \notin open'
            BY <2>1, <3>1 DEF Close
        <3> QED
            BY <1>5, <3>1, <3>2
    <2>2. CASE AcceptWake(s)
        <3>1. pc[s] = "waitConnect" /\ s \in open
            BY <2>2 DEF AcceptWake, BInv, IInv, FdInv, Live
        <3> QED
            BY <1>5, <3>1 DEF Early
    <2> QED
        BY <2>1, <2>2 DEF SrvRecvFail, SrvEndSplice, SrvTimer, RecvFail, EndSplice,
           PenaltyEnd, AcceptTimeout
<1> QED
    BY <1>1, <1>2, <1>3, <1>4, <1>5, <1>6, StepTypes

LEMMA SrvStartSpliceTypes ==
    ASSUME BInv, NEW s \in Session, SrvStartSplice(s)
    PROVE  ETypeOK' /\ StreamInv' /\ FlightInv'
<1>1. SessionStep(s) /\ UNCHANGED <<c2s, s2c, clientVars, hit>> /\ (NoLoss \/ Spend)
      /\ pc[s] = "waitAccept"
    BY DEF SrvStartSplice, SessionStep, StartSplice, chanVars
<1>2. StreamInv' /\ \A x \in Session : DownStep(x)
    BY <1>1 DEF BInv, StreamInv, DownStep
<1>3. ~Early(s)
    BY <1>1 DEF BInv, IInv, FdInv, Live, Early
<1> QED
    BY <1>1, <1>2, <1>3, StepTypes

(* A unit is moved within the server; a CONNECT never is.                   *)
LEMMA MoveTypes ==
    ASSUME BInv, UNCHANGED <<vars, clientVars, histVars>>, hit' \in SUBSET Session,
           NEW x \in Session, NEW y \in Session, c2s[x] # <<>>, c2s' = Take(x),
           NEW m \in Unit, SentDown(m), Deliver(y, m)
    PROVE  ETypeOK' /\ StreamInv' /\ FlightInv'
<1>1. /\ c2s' \in [Session -> Seq(Unit)] /\ c2s'[x] = Tail(c2s[x])
      /\ \A z \in Session : z # x => c2s'[z] = c2s[z]
    BY TakeIs DEF BInv
<1>2. UNCHANGED <<pc, open, issued, sfd, remote_fd>>
    BY DEF vars, ioVars, locVars
<1>3. SentDown(m)'
    BY <1>2 DEF SentDown, Sendable
<1>4. s2c' \in [Session -> Seq(Unit)] /\ \A z \in Session : DownStep(z)
    BY <1>3, Delivers
<1>5. StreamInv'
    BY <1>1, <1>4 DEF StreamInv
<1>6. \A z \in Session : UpStep(z)
    BY <1>1, <1>2 DEF UpStep, Early
<1>7. SfdInv' /\ (NoLoss \/ Spend) /\ issued \subseteq issued'
    BY <1>2 DEF SfdInv, BInv, FlightInv, NoLoss
<1>8. \A z \in Session : cend[z] = "none" => pc'[z] = "idle"
    BY <1>2 DEF BInv, FlightInv
<1> QED
    BY <1>1, <1>4, <1>5, <1>6, <1>7, <1>8, ServerTypes

LEMMA SrvKeepAliveTypes ==
    ASSUME BInv, NEW s \in Session, SrvKeepAlive(s)
    PROVE  ETypeOK' /\ StreamInv' /\ FlightInv'
<1>1. Msg("KEEP_ALIVE", None) \in Unit /\ SentDown(Msg("KEEP_ALIVE", None))
    BY AreUnits, Units DEF SentDown
<1> QED
    BY <1>1, MoveTypes DEF SrvKeepAlive, Arrived, BInv, ETypeOK

LEMMA SrvSpliceTypes ==
    ASSUME BInv, NEW s \in Session, NEW x \in SpliceFds(s), NEW y \in SpliceFds(s),
           SrvSplice(s, x, y)
    PROVE  ETypeOK' /\ StreamInv' /\ FlightInv'
<1>1. pc[s] = "splice" /\ c2s[x] # <<>> /\ Deliver(y, Head(c2s[x]))
    BY DEF SrvSplice
<1>2. \A z \in SpliceFds(s) : z \in Session /\ z \in open /\ pc[z] \in {"splice", "freed"}
    <2>1. client_fd[s] = s /\ s \in open
        BY <1>1 DEF BInv, IInv, FdInv, Live
    <2>2. sfd[s] # None => sfd[s] = remote_fd[s]
        BY DEF BInv, FlightInv
    <2>3. remote_fd[s] # None => remote_fd[s] \in open /\ pc[remote_fd[s]] = "freed"
                                 /\ remote_fd[s] \in Session
        BY DEF BInv, IInv, FdInv, TypeOK
    <2> QED
        BY <1>1, <2>1, <2>2, <2>3 DEF SpliceFds
<1>3. /\ x \in Session /\ y \in Session /\ Head(c2s[x]) = c2s[x][1] /\ c2s[x][1] \in Unit
      /\ 1 \in 1..Len(c2s[x])
    BY <1>1, <1>2, TailIs DEF BInv, StreamInv
<1>4. SentUp(x, 1, Head(c2s[x]))
    BY <1>3 DEF BInv, FlightInv, UnitsOf
<1>5. SentDown(Head(c2s[x]))
    BY <1>2, <1>3, <1>4 DEF SentUp, SentDown
<1>6. hit' \in SUBSET Session
    BY <1>3 DEF SrvSplice, BInv, ETypeOK
<1>7. UNCHANGED <<vars, clientVars, histVars>> /\ c2s' = Take(x)
    BY DEF SrvSplice
<1> QED
    BY <1>1, <1>3, <1>5, <1>6, <1>7, MoveTypes

(* Together.                                                                *)
LEMMA ServerKeepsTypes ==
    ASSUME BInv, NEW s \in Session, Server(s) \/ SrvKeepAlive(s)
    PROVE  ETypeOK' /\ StreamInv' /\ FlightInv'
    BY SrvAcceptTypes, SrvLoginTypes, SrvConnectTypes, SrvReadTypes, SrvMisreadTypes,
       SrvCloseTypes, SrvStartSpliceTypes, SrvSpliceTypes, SrvKeepAliveTypes DEF Server

(* What is left to show of a step of a client.                              *)
LEMMA ClientRest ==
    ASSUME BInv, UNCHANGED <<vars, cfgVars>>, \A x \in Session : UnitsOf(x)',
           \A x \in Session : \/ role'[x] = role[x] /\ ctok'[x] = ctok[x]
                              \/ role[x] = "none" /\ (role'[x] = "acc" => ctok'[x] \in Sendable),
           \A x \in Session : role'[x] = "none" => cend'[x] = "none" /\ c2s'[x] = <<>>,
           \A x \in Session : cend'[x] = "none" => cend[x] = "none",
           \A x \in Session : /\ cpc'[x] # "none" => role'[x] \in {"acc", "con"}
                              /\ cpc'[x] \in {"start", "connect"} => role'[x] = "acc",
           \A n \in Session : tab'[n] # None =>
               tab'[n] \in Session /\ (tab'[n] = tab[n] \/ role'[tab'[n]] \in {"fwd", "acc"}),
           fconn' = fconn \/ role'[fconn'] = "fwd",
           fpc' \in LoggingIn \cup {"connecting"} => fconn' # None,
           fpc' = "logintok" => cfgtok # None,
           ftok' \in Sendable \cup {None}
    PROVE  FlightInv'
<1>1. UNCHANGED <<pc, open, issued, sfd, remote_fd>>
    BY DEF vars, ioVars, locVars
<1>2. \A x \in Session : UnitsOf(x)'
    BY <1>1, UnitsKept
<1>3. Sendable' = Sendable
    BY <1>1 DEF Sendable
<1>4. \A x \in Session : role[x] # "none" => role'[x] = role[x]
    OBVIOUS
<1>5. \A n \in Session : tab'[n] # None => role'[tab'[n]] \in {"fwd", "acc"}
    BY <1>4 DEF BInv, FlightInv
<1>6. fconn' # None => role'[fconn'] = "fwd"
    <2>1. fconn # None => role'[fconn] = "fwd"
        BY <1>4 DEF BInv, FlightInv, ETypeOK
    <2> QED
        BY <2>1
<1>7. \A x \in Session : role'[x] = "acc" => ctok'[x] \in Sendable
    BY DEF BInv, FlightInv
<1>8. crypto' = crypto /\ cfgtok' = cfgtok
    BY DEF cfgVars
<1> QED
    BY <1>1, <1>3, <1>5, <1>6, <1>7, <1>8 DEF BInv, FlightInv

LEMMA ClientFlight ==
    ASSUME BInv, UNCHANGED <<vars, cfgVars>>, \A x \in Session : UpStep(x) /\ DownStep(x),
           \A x \in Session : \/ role'[x] = role[x] /\ ctok'[x] = ctok[x]
                              \/ role[x] = "none" /\ (role'[x] = "acc" => ctok'[x] \in Sendable),
           \A x \in Session : role'[x] = "none" => cend'[x] = "none" /\ c2s'[x] = <<>>,
           \A x \in Session : cend'[x] = "none" => cend[x] = "none",
           \A x \in Session : /\ cpc'[x] # "none" => role'[x] \in {"acc", "con"}
                              /\ cpc'[x] \in {"start", "connect"} => role'[x] = "acc",
           \A n \in Session : tab'[n] # None =>
               tab'[n] \in Session /\ (tab'[n] = tab[n] \/ role'[tab'[n]] \in {"fwd", "acc"}),
           fconn' = fconn \/ role'[fconn'] = "fwd",
           fpc' \in LoggingIn \cup {"connecting"} => fconn' # None,
           fpc' = "logintok" => cfgtok # None,
           ftok' \in Sendable \cup {None}
    PROVE  FlightInv'
<1>1. issued \subseteq issued'
    BY DEF vars
<1>2. \A x \in Session : UnitsOf(x)'
    BY <1>1, UnitsKept
<1> QED
    BY <1>2, ClientRest

(* What the counters allow.                                                 *)
LEMMA HistTypes ==
    ASSUME ETypeOK, NoLoss \/ Spend \/ Follow \/ Damage
    PROVE  used' \in 0..MaxFaults /\ stale' \in 0..MaxStale /\ due' \in SUBSET Session
    BY EndToEndAssumption DEF ETypeOK, NoLoss, Spend, Follow, Damage, histVars

(* Units that are no CONNECT are sent on one connection.                    *)
LEMMA SendTypes ==
    ASSUME BInv, UNCHANGED vars, NEW x \in Session, NEW us \in Seq(Unit),
           \A n \in 1..Len(us) : UpOk(us[n]), SendUnits(x, us), role[x] # "none"
    PROVE  /\ c2s' \in [Session -> Seq(Unit)] /\ \A y \in Session : UpStep(y)
           /\ \A y \in Session : role[y] = "none" => c2s'[y] = <<>>
<1>1. UNCHANGED <<pc, open>>
    BY DEF vars, ioVars
<1>2. /\ c2s' \in [Session -> Seq(Unit)]
      /\ c2s'[x] = c2s[x] \/ c2s'[x] = c2s[x] \o us
      /\ \A y \in Session : y # x => c2s'[y] = c2s[y]
    BY SendIs DEF BInv
<1>3. \A y \in Session : Early(y)' = Early(y)
    BY <1>1 DEF Early
<1> QED
    BY <1>2, <1>3 DEF UpStep, BInv, FlightInv

LEMMA NoSend ==
    ASSUME BInv, UNCHANGED <<vars, c2s>>
    PROVE  /\ c2s' \in [Session -> Seq(Unit)] /\ \A y \in Session : UpStep(y)
           /\ \A y \in Session : role[y] = "none" => c2s'[y] = <<>>
<1>1. UNCHANGED <<pc, open>>
    BY DEF vars, ioVars
<1> QED
    BY <1>1 DEF UpStep, Early, BInv, FlightInv, StreamInv

(* The units of the clients.                                                *)
LEMMA OneUnit ==
    ASSUME NEW u \in Unit, UpOk(u)
    PROVE  <<u>> \in Seq(Unit) /\ \A n \in 1..Len(<<u>>) : UpOk(<<u>>[n])
<1>1. <<u>> \in Seq(Unit) /\ Len(<<u>>) = 1 /\ <<u>>[1] = u
    OBVIOUS
<1> QED
    BY <1>1

LEMMA ClientUnits ==
    ASSUME BInv
    PROVE  /\ UpOk(KA) /\ KA \in Unit /\ UpOk(Hdr("ACCEPT", 1)) /\ Hdr("ACCEPT", 1) \in Unit
           /\ \A v \in {1, 3} : UpOk(Hdr("LOGIN", v)) /\ Hdr("LOGIN", v) \in Unit
           /\ \A k \in Sendable : UpOk(Tok(k)) /\ Tok(k) \in Unit
           /\ \A x \in Session : /\ UpOk(Iv(x)) /\ UpOk(Data(x)) /\ UpOk(Info(x))
                                 /\ Iv(x) \in Unit /\ Data(x) \in Unit /\ Info(x) \in Unit
<1>1. Sendable \subseteq Token
    BY TokensAre DEF BInv, IInv
<1>2. \A k \in Sendable : UpOk(Tok(k)) /\ Tok(k) \in Unit
    BY <1>1, Units, AreUnits DEF UpOk
<1>3. \A x \in Session : /\ UpOk(Iv(x)) /\ UpOk(Data(x)) /\ UpOk(Info(x))
                          /\ Iv(x) \in Unit /\ Data(x) \in Unit /\ Info(x) \in Unit
    BY Units, AreUnits DEF UpOk
<1>4. \A c \in {"LOGIN", "ACCEPT", "KEEP_ALIVE"}, v \in {1, 2, 3} : UpOk(Hdr(c, v))
    BY DEF UpOk, Hdr
<1>5. UpOk(KA) /\ KA \in Unit /\ UpOk(Hdr("ACCEPT", 1)) /\ Hdr("ACCEPT", 1) \in Unit
    BY <1>4, AreUnits DEF KA
<1>6. \A v \in {1, 3} : UpOk(Hdr("LOGIN", v)) /\ Hdr("LOGIN", v) \in Unit
    BY <1>4, AreUnits
<1> QED
    BY <1>2, <1>3, <1>5, <1>6

(* Nothing but the streams changes, and one connection gets units.          *)
LEMMA OnlySends ==
    ASSUME BInv, UNCHANGED <<vars, s2c, clientVars>>, hit' \in SUBSET Session,
           NoLoss \/ Spend \/ Follow \/ Damage,
           NEW x \in Session, NEW u \in Unit, UpOk(u), SendUnits(x, <<u>>), role[x] # "none"
    PROVE  ETypeOK' /\ StreamInv' /\ FlightInv'
<1> USE DEF clientVars, taskVars, fwdVars, fdVars
<1>1. /\ c2s' \in [Session -> Seq(Unit)] /\ \A y \in Session : UpStep(y)
      /\ \A y \in Session : role[y] = "none" => c2s'[y] = <<>>
    <2>1. <<u>> \in Seq(Unit) /\ \A n \in 1..Len(<<u>>) : UpOk(<<u>>[n])
        BY OneUnit
    <2> QED
        BY <2>1, SendTypes
<1>2. StreamInv' /\ \A y \in Session : DownStep(y)
    BY <1>1 DEF StreamInv, BInv, DownStep
<1>3. ETypeOK'
    BY HistTypes DEF BInv, ETypeOK
<1>4. FlightInv'
    BY <1>1, <1>2, ClientFlight DEF BInv, FlightInv, ETypeOK
<1> QED
    BY <1>2, <1>3, <1>4

(* A number names a connection of the forwarder's process.                  *)
LEMMA NamedAre ==
    ASSUME BInv, NEW N
    PROVE  \A x \in Named(N) : N \subseteq Session \cup {None} =>
              x \in Session /\ role[x] \in {"fwd", "acc"}
    BY DEF Named, BInv, ETypeOK, FlightInv

LEMMA KeepAliveTypes ==
    ASSUME BInv, KeepAlive \/ KeepAliveStale
    PROVE  ETypeOK' /\ StreamInv' /\ FlightInv'
<1>1. base \in Session \cup {None} /\ hit \in SUBSET Session /\ UpOk(KA) /\ KA \in Unit
    BY ClientUnits DEF BInv, ETypeOK
<1>2. CASE KeepAlive
    <2>1. fconn \in Session /\ role[fconn] = "fwd"
        <3>1. fconn # None
            BY <1>2 DEF KeepAlive, OwnBase, BInv, FlightInv, LoggingIn
        <3> QED
            BY <3>1 DEF BInv, ETypeOK, FlightInv
    <2> QED
        BY <1>1, <1>2, <2>1, OnlySends DEF KeepAlive, KA, NoLoss
<1>3. CASE KeepAliveStale
    <2>1. PICK x \in Named({base}) :
             SendUnits(x, <<KA>>) /\ hit' = hit \cup ({x} \ {fconn})
        BY <1>3 DEF KeepAliveStale, KA
    <2>2. x \in Session /\ role[x] \in {"fwd", "acc"}
        BY <1>1, NamedAre
    <2> QED
        BY <1>1, <1>3, <2>1, <2>2, OnlySends DEF KeepAliveStale
<1> QED
    BY <1>2, <1>3

(* Closing a client's end, and numbers.                                     *)
LEMMA HangupIs ==
    ASSUME StreamInv, ETypeOK, NEW X, Hangup(X)
    PROVE  /\ cend' \in [Session -> {"none", "open", "closed"}]
           /\ s2c' \in [Session -> Seq(Unit)]
           /\ \A y \in Session : y \in X /\ cend[y] = "open" =>
                 cend'[y] = "closed" /\ s2c'[y] = <<>>
           /\ \A y \in Session : ~(y \in X /\ cend[y] = "open") =>
                 cend'[y] = cend[y] /\ s2c'[y] = s2c[y]
<1>1. <<>> \in Seq(Unit)
    BY EmptySeq
<1> QED
    BY <1>1 DEF Hangup, StreamInv, ETypeOK

LEMMA HangupTypes ==
    ASSUME StreamInv, ETypeOK, NEW X, Hangup(X)
    PROVE  /\ \A y \in Session : DownStep(y)
           /\ \A y \in Session : cend'[y] = "none" <=> cend[y] = "none"
    BY HangupIs DEF DownStep

LEMMA CloseFdsIs ==
    ASSUME ETypeOK, NEW N, CloseFds(N)
    PROVE  /\ tab' \in [Session -> Session \cup {None}] /\ Hangup(Named(N))
           /\ \A n \in Session : tab'[n] = IF n \in N THEN None ELSE tab[n]
    BY DEF CloseFds, ETypeOK

LEMMA NewName ==
    ASSUME Unused # {}
    PROVE  New \in Session /\ role[New] = "none"
    BY DEF New, Unused

LEMMA NumbersAre ==
    ASSUME ETypeOK, NEW s \in Session
    PROVE  Numbers(s) \subseteq Session
    BY DEF Numbers, HeldFds, ETypeOK

(* The forward task's steps that send nothing.                              *)
LEMMA FwdMoveTypes ==
    ASSUME BInv, FwdSocket \/ FwdConnected \/ FwdWake \/ KeepAliveStuck \/ KeepAliveGivesUp
    PROVE  ETypeOK' /\ StreamInv' /\ FlightInv'
<1>1. UNCHANGED <<vars, c2s, s2c, cfgVars, ftok, ctok>> /\ NoLoss /\ hit' = hit
    BY DEF FwdSocket, FwdConnected, FwdWake, KeepAliveStuck, KeepAliveGivesUp, chanVars,
           NoLoss, taskVars
<1>2. /\ c2s' \in [Session -> Seq(Unit)] /\ \A y \in Session : UpStep(y)
      /\ \A y \in Session : role[y] = "none" => c2s'[y] = <<>>
    BY <1>1, NoSend
<1>3. StreamInv' /\ \A y \in Session : DownStep(y)
    BY <1>1, <1>2 DEF StreamInv, BInv, DownStep
<1>4. CASE FwdSocket
    <2>1. PICK n : n = New
        OBVIOUS
    <2>2. n \in Session /\ role[n] = "none" /\ role' = [role EXCEPT ![n] = "fwd"]
          /\ fconn' = n /\ UNCHANGED <<cend, cpc, rx, info, fwlock, base>> /\ fpc' = "connecting"
        BY <1>4, <2>1, NewName DEF FwdSocket
    <2>3. PICK m \in Session : tab' = [tab EXCEPT ![m] = n] /\ fd' = [fd EXCEPT ![n] = m]
        BY <1>4, <2>1, <2>2, NumbersAre DEF FwdSocket, OpenFd, BInv
    <2>4. ETypeOK'
        BY <1>1, <2>2, <2>3, HistTypes DEF BInv, ETypeOK, NoLoss
    <2>5. FlightInv'
        BY <1>1, <1>2, <1>3, <2>2, <2>3, SessionAssumption, ClientFlight DEF BInv, FlightInv, ETypeOK
    <2> QED
        BY <1>3, <2>4, <2>5
<1>5. CASE FwdConnected
    <2>1. fconn \in Session /\ role[fconn] = "fwd"
        BY <1>5 DEF FwdConnected, BInv, FlightInv, LoggingIn, ETypeOK
    <2>2. ETypeOK'
        BY <1>1, <1>5, <2>1, HistTypes DEF FwdConnected, BInv, ETypeOK, NoLoss
    <2>3. FlightInv'
        BY <1>1, <1>2, <1>3, <1>5, <2>1, ClientFlight
           DEF FwdConnected, BInv, FlightInv, ETypeOK, LoggingIn
    <2> QED
        BY <1>3, <2>2, <2>3
<1>6. CASE FwdWake \/ KeepAliveStuck \/ KeepAliveGivesUp
    <2>1. UNCHANGED <<cend, role, cpc, rx, info, base, fd, tab, fconn>>
          /\ fpc' \in {fpc, "connect"} /\ fwlock' \in {fwlock, "kalive", "free"}
        BY <1>6 DEF FwdWake, KeepAliveStuck, KeepAliveGivesUp, taskVars, fdVars
    <2>2. ETypeOK'
        BY <1>1, <2>1, HistTypes DEF BInv, ETypeOK, NoLoss
    <2>3. FlightInv'
        BY <1>1, <1>2, <1>3, <2>1, ClientFlight DEF BInv, FlightInv, ETypeOK, LoggingIn
    <2> QED
        BY <1>3, <2>2, <2>3
<1> QED
    BY <1>4, <1>5, <1>6

(* Its sends.                                                               *)
LEMMA FwdSendTypes ==
    ASSUME BInv, UNCHANGED <<vars, taskVars, fdVars, cfgVars, fconn>>,
           NEW u \in Unit, UpOk(u), FwdSend(<<u>>),
           fpc' \in LoggingIn, fpc \in LoggingIn, ftok' \in Sendable \cup {None},
           fwlock' \in {"free", "fwd", "kalive"}, fpc' = "logintok" => cfgtok # None
    PROVE  ETypeOK' /\ StreamInv' /\ FlightInv'
<1>1. s2c' = s2c /\ (NoLoss \/ Damage) /\ base \in Session \cup {None}
    BY DEF FwdSend, BInv, ETypeOK
<1>2. \A x \in Named({base}) : x \in Session /\ role[x] \in {"fwd", "acc"}
    BY <1>1, NamedAre
<1>3. /\ c2s' \in [Session -> Seq(Unit)] /\ \A y \in Session : UpStep(y)
      /\ \A y \in Session : role[y] = "none" => c2s'[y] = <<>>
    <2>1. CASE c2s' = c2s
        BY <2>1, NoSend
    <2>2. CASE \E x \in Named({base}) : SendUnits(x, <<u>>)
        <3>1. <<u>> \in Seq(Unit) /\ \A n \in 1..Len(<<u>>) : UpOk(<<u>>[n])
            BY OneUnit
        <3>2. PICK x \in Session : SendUnits(x, <<u>>) /\ role[x] # "none"
            BY <1>2, <2>2
        <3> QED
            BY <3>1, <3>2, SendTypes
    <2> QED
        BY <2>1, <2>2 DEF FwdSend
<1>4. StreamInv' /\ \A y \in Session : DownStep(y)
    BY <1>1, <1>3 DEF StreamInv, BInv, DownStep
<1>5. hit' \in SUBSET Session
    BY <1>2 DEF FwdSend, BInv, ETypeOK
<1>6. ftok' \in Token \cup {None}
    BY TokensAre DEF BInv, IInv
<1>7. ETypeOK'
    BY <1>1, <1>5, <1>6, HistTypes DEF BInv, ETypeOK, taskVars, fdVars, LoggingIn
<1>8. FlightInv'
    BY <1>1, <1>3, <1>4, ClientFlight DEF BInv, FlightInv, ETypeOK, taskVars, fdVars
<1> QED
    BY <1>4, <1>7, <1>8

LEMMA FwdLoginTypes ==
    ASSUME BInv, FwdLogin \/ FwdLoginToken
    PROVE  ETypeOK' /\ StreamInv' /\ FlightInv'
<1>1. cfgtok \in ClientToken \cup {None} /\ ftok \in Sendable \cup {None}
      /\ (cfgtok # None => cfgtok \in Sendable)
    BY DEF BInv, FlightInv, Sendable
<1>2. CASE FwdLogin
    <2>1. PICK v \in {1, 3} : FwdSend(<<Hdr("LOGIN", v)>>)
        BY <1>2 DEF FwdLogin
    <2>2. UpOk(Hdr("LOGIN", v)) /\ Hdr("LOGIN", v) \in Unit
        BY ClientUnits
    <2>3. /\ fpc' \in LoggingIn /\ fpc \in LoggingIn /\ ftok' \in Sendable \cup {None}
          /\ fwlock' \in {"free", "fwd", "kalive"} /\ (fpc' = "logintok" => cfgtok # None)
          /\ UNCHANGED <<vars, taskVars, fdVars, cfgVars, fconn>>
        BY <1>1, <1>2 DEF FwdLogin, LoggingIn
    <2> QED
        BY <2>1, <2>2, <2>3, FwdSendTypes
<1>3. CASE FwdLoginToken
    <2>1. cfgtok # None
        BY <1>3 DEF FwdLoginToken, BInv, FlightInv
    <2>2. UpOk(Tok(cfgtok)) /\ Tok(cfgtok) \in Unit
        BY <1>1, <2>1, ClientUnits
    <2>3. /\ fpc' \in LoggingIn /\ fpc \in LoggingIn /\ ftok' \in Sendable \cup {None}
          /\ fwlock' \in {"free", "fwd", "kalive"} /\ (fpc' = "logintok" => cfgtok # None)
          /\ UNCHANGED <<vars, taskVars, fdVars, cfgVars, fconn>> /\ FwdSend(<<Tok(cfgtok)>>)
        BY <1>1, <1>3, <2>1 DEF FwdLoginToken, LoggingIn
    <2>4. PICK u : u = Tok(cfgtok)
        OBVIOUS
    <2> QED
        BY <2>2, <2>3, <2>4, FwdSendTypes
<1> QED
    BY <1>2, <1>3

(* The forward task starts again.                                           *)
LEMMA RestartTypes ==
    ASSUME BInv, UNCHANGED <<vars, c2s, role, cpc, ctok, rx, info, fconn, ftok, base, cfgVars, hit>>,
           fd' \in [Session -> Session \cup {None}],
           NoLoss \/ Spend \/ Follow \/ Damage, NEW N, Restart(N)
    PROVE  ETypeOK' /\ StreamInv' /\ FlightInv'
<1>1. fpc' = "sleep" /\ fwlock' \in {"free", "fwd", "kalive"} /\ CloseFds(N \cup {base})
    BY DEF Restart, BInv, ETypeOK
<1>2. PICK M : M = N \cup {base}
    OBVIOUS
<1>3. /\ tab' \in [Session -> Session \cup {None}] /\ Hangup(Named(M))
      /\ \A n \in Session : tab'[n] = IF n \in M THEN None ELSE tab[n]
    BY <1>1, <1>2, CloseFdsIs DEF BInv
<1>4. PICK X : X = Named(M)
    OBVIOUS
<1>5. /\ cend' \in [Session -> {"none", "open", "closed"}]
      /\ s2c' \in [Session -> Seq(Unit)]
    BY <1>3, <1>4, HangupIs DEF BInv
<1>6. /\ \A y \in Session : DownStep(y)
      /\ \A y \in Session : cend'[y] = "none" <=> cend[y] = "none"
    BY <1>3, <1>4, HangupTypes DEF BInv
<1>7. /\ c2s' \in [Session -> Seq(Unit)] /\ \A y \in Session : UpStep(y)
      /\ \A y \in Session : role[y] = "none" => c2s'[y] = <<>>
    BY NoSend
<1>8. ETypeOK'
    BY <1>1, <1>3, <1>5, HistTypes DEF BInv, ETypeOK
<1>9. FlightInv'
    BY <1>1, <1>3, <1>6, <1>7, ClientFlight DEF BInv, FlightInv, ETypeOK, LoggingIn
<1> QED
    BY <1>5, <1>7, <1>8, <1>9 DEF StreamInv

LEMMA FwdLostTypes ==
    ASSUME BInv, FwdNoConnect \/ FwdLost
    PROVE  ETypeOK' /\ StreamInv' /\ FlightInv'
<1>1. UNCHANGED <<vars, c2s, role, cpc, ctok, rx, info, fconn, ftok, base, cfgVars, hit>>
      /\ (NoLoss \/ Spend \/ Follow \/ Damage)
    BY DEF FwdNoConnect, FwdLost
<1>2. (\E N : Restart(N)) /\ fd' \in [Session -> Session \cup {None}]
    BY DEF FwdNoConnect, FwdLost, BInv, ETypeOK
<1> QED
    BY <1>1, <1>2, RestartTypes

(* The forward task, or a task, has read a unit.                            *)
LEMMA ReadTypes ==
    ASSUME BInv, NEW x \in Session, s2c[x] # <<>>, s2c' = [s2c EXCEPT ![x] = Tail(@)]
    PROVE  /\ s2c' \in [Session -> Seq(Unit)] /\ \A y \in Session : DownStep(y)
           /\ Head(s2c[x]) \in Unit /\ SentDown(Head(s2c[x]))
<1>1. /\ Tail(s2c[x]) \in Seq(Unit) /\ Head(s2c[x]) = s2c[x][1] /\ s2c[x][1] \in Unit
      /\ 1 \in 1..Len(s2c[x]) /\ s2c \in [Session -> Seq(Unit)]
    BY TailIs DEF BInv, StreamInv
<1>2. SentDown(s2c[x][1])
    BY <1>1 DEF BInv, FlightInv, UnitsOf
<1> QED
    BY <1>1, <1>2 DEF DownStep

LEMMA FwdReadTypes ==
    ASSUME BInv, FwdToken \/ FwdDispatch
    PROVE  ETypeOK' /\ StreamInv' /\ FlightInv'
<1>1. /\ fconn \in Session /\ s2c[fconn] # <<>> /\ NoLoss /\ hit' = hit
      /\ UNCHANGED <<vars, c2s, rx, info, fconn, base, fd, cfgVars>>
    BY DEF FwdToken, FwdDispatch, FwdReads, BInv, FlightInv, LoggingIn, ETypeOK, NoLoss
<1>2. CASE Restart({}) /\ UNCHANGED <<role, cpc, ctok, ftok>>
    BY <1>1, <1>2, RestartTypes DEF BInv, ETypeOK
<1>3. CASE s2c' = [s2c EXCEPT ![fconn] = Tail(@)]
    <2>1. /\ s2c' \in [Session -> Seq(Unit)] /\ \A y \in Session : DownStep(y)
          /\ Head(s2c[fconn]) \in Unit /\ SentDown(Head(s2c[fconn]))
        BY <1>1, <1>3, ReadTypes
    <2>2. /\ c2s' \in [Session -> Seq(Unit)] /\ \A y \in Session : UpStep(y)
          /\ \A y \in Session : role[y] = "none" => c2s'[y] = <<>>
        BY <1>1, NoSend
    <2>3. StreamInv'
        BY <2>1, <2>2 DEF StreamInv
    <2>4. Sendable \subseteq Token
        BY TokensAre DEF BInv, IInv
    <2>5. CASE /\ Head(s2c[fconn]).cmd = "TOKEN" /\ fpc' = "dispatch"
               /\ ftok' = Head(s2c[fconn]).val
               /\ UNCHANGED <<cend, fwlock, tab, role, cpc, ctok>>
        <3>1. ftok' \in Sendable
            BY <2>1, <2>5 DEF SentDown
        <3>2. ETypeOK'
            BY <1>1, <2>4, <2>5, <3>1, HistTypes DEF BInv, ETypeOK, NoLoss
        <3>3. FlightInv'
            BY <1>1, <2>1, <2>2, <2>5, <3>1, SessionAssumption, ClientFlight DEF BInv, FlightInv, ETypeOK
        <3> QED
            BY <2>3, <3>2, <3>3
    <2>6. CASE UNCHANGED <<cend, fpc, fwlock, tab, ftok, role, cpc, ctok>>
        <3>2. ETypeOK'
            BY <1>1, <2>6, HistTypes DEF BInv, ETypeOK, NoLoss
        <3>3. FlightInv'
            BY <1>1, <2>1, <2>2, <2>6, ClientFlight DEF BInv, FlightInv, ETypeOK
        <3> QED
            BY <2>3, <3>2, <3>3
    <2>7. CASE /\ Head(s2c[fconn]).cmd = "CONNECT" /\ StartAccept(Head(s2c[fconn]).val)
               /\ UNCHANGED <<cend, fpc, fwlock, tab, ftok>>
        <3>1. PICK n : n = New
            OBVIOUS
        <3>2. PICK k : k = Head(s2c[fconn]).val
            OBVIOUS
        <3>3. k \in Sendable
            BY <2>1, <2>7, <3>2 DEF SentDown
        <3>4. /\ n \in Session /\ role[n] = "none" /\ role' = [role EXCEPT ![n] = "acc"]
              /\ cpc' = [cpc EXCEPT ![n] = "start"] /\ ctok' = [ctok EXCEPT ![n] = k]
            BY <2>7, <3>1, <3>2, NewName DEF StartAccept
        <3>5. ETypeOK'
            BY <1>1, <2>4, <2>7, <3>3, <3>4, HistTypes DEF BInv, ETypeOK, NoLoss
        <3>6. FlightInv'
            BY <1>1, <2>1, <2>2, <2>7, <3>3, <3>4, ClientFlight DEF BInv, FlightInv, ETypeOK
        <3> QED
            BY <2>3, <3>5, <3>6
    <2> QED
        BY <1>3, <2>5, <2>6, <2>7, <1>2 DEF FwdToken, FwdDispatch
<1> QED
    BY <1>2, <1>3 DEF FwdToken, FwdDispatch

(* The tasks.                                                               *)
LEMMA AccSocketTypes ==
    ASSUME BInv, NEW s \in Session, AccSocket(s)
    PROVE  ETypeOK' /\ StreamInv' /\ FlightInv'
<1>1. /\ UNCHANGED <<vars, c2s, s2c, cend, role, ctok, rx, info, fpc, fconn, ftok, fwlock,
                     base, cfgVars, hit>>
      /\ NoLoss \/ Spend
      /\ role[s] = "acc"
    BY DEF AccSocket, chanVars, fwdVars
<1>2. /\ c2s' \in [Session -> Seq(Unit)] /\ \A y \in Session : UpStep(y)
      /\ \A y \in Session : role[y] = "none" => c2s'[y] = <<>>
    BY <1>1, NoSend
<1>3. StreamInv' /\ \A y \in Session : DownStep(y)
    BY <1>1, <1>2 DEF StreamInv, BInv, DownStep
<1>4. PICK l \in {"connect", "end"} : cpc' = [cpc EXCEPT ![s] = l]
    BY DEF AccSocket
<1>5. \/ UNCHANGED <<tab, fd>>
      \/ \E m \in Session : tab' = [tab EXCEPT ![m] = s] /\ fd' = [fd EXCEPT ![s] = m]
    BY NumbersAre DEF AccSocket, OpenFd, BInv
<1>6. ETypeOK'
    BY <1>1, <1>4, <1>5, HistTypes DEF BInv, ETypeOK
<1>7. FlightInv'
    BY <1>1, <1>2, <1>3, <1>4, <1>5, ClientFlight DEF BInv, FlightInv, ETypeOK
<1> QED
    BY <1>3, <1>6, <1>7

(* A request is sent, with an IV if there is a key.                         *)
LEMMA Requests ==
    ASSUME BInv, NEW s \in Session, NEW a \in Unit, NEW k \in Sendable, NEW us,
           us = <<a, Tok(k)>> \o IvUnits(s)
    PROVE  /\ us \in Seq(Unit) /\ us[1] = a
           /\ \A n \in 1..Len(us) : n = 1 \/ UpOk(us[n])
<1>1. Tok(k) \in Unit /\ UpOk(Tok(k)) /\ Iv(s) \in Unit /\ UpOk(Iv(s))
    BY ClientUnits
<1>2. PICK b : b = Tok(k)
    OBVIOUS
<1>3. PICK c : c = Iv(s)
    OBVIOUS
<1>4. /\ <<a, b>> \in Seq(Unit) /\ Len(<<a, b>>) = 2
      /\ <<a, b>>[1] = a /\ <<a, b>>[2] = b
      /\ <<a, b>> \o <<c>> \in Seq(Unit) /\ Len(<<a, b>> \o <<c>>) = 3
      /\ (<<a, b>> \o <<c>>)[1] = a /\ (<<a, b>> \o <<c>>)[2] = b
      /\ (<<a, b>> \o <<c>>)[3] = c
    BY <1>1, <1>2, <1>3, Lists
<1>5. CASE crypto
    <2>1. us = <<a, b>> \o <<c>>
        BY <1>2, <1>3, <1>5 DEF IvUnits
    <2>2. us \in Seq(Unit) /\ Len(us) = 3 /\ us[1] = a /\ us[2] = b /\ us[3] = c
        BY <1>4, <2>1
    <2>3. UpOk(us[2]) /\ UpOk(us[3])
        BY <1>1, <1>2, <1>3, <2>2
    <2>4. \A n \in 1..3 : n = 1 \/ n = 2 \/ n = 3
        OBVIOUS
    <2> QED
        BY <2>2, <2>3, <2>4
<1>6. CASE ~crypto
    <2>1. us = <<a, b>> \o <<>>
        BY <1>2, <1>6 DEF IvUnits
    <2>2. us = <<a, b>>
        BY <1>4, <2>1, ConcatEmptySeq
    <2>3. us \in Seq(Unit) /\ Len(us) = 2 /\ us[1] = a /\ us[2] = b
        BY <1>4, <2>2
    <2>4. UpOk(us[2])
        BY <1>1, <1>2, <2>3
    <2>5. \A n \in 1..2 : n = 1 \/ n = 2
        OBVIOUS
    <2> QED
        BY <2>3, <2>4, <2>5
<1> QED
    BY <1>5, <1>6

LEMMA AccConnectedTypes ==
    ASSUME BInv, NEW s \in Session, AccConnected(s)
    PROVE  ETypeOK' /\ StreamInv' /\ FlightInv'
<1>1. /\ UNCHANGED <<vars, s2c, role, ctok, rx, info, fpc, fconn, ftok, fwlock,
                     base, fd, tab, cfgVars, hit>>
      /\ NoLoss /\ role[s] = "acc" /\ ctok[s] \in Sendable
      /\ cend' = [cend EXCEPT ![s] = "open"]
    BY DEF AccConnected, fwdVars, fdVars, NoLoss, BInv, FlightInv
<1>2. PICK us : us = <<Hdr("ACCEPT", 1), Tok(ctok[s])>> \o IvUnits(s)
    OBVIOUS
<1>3. Hdr("ACCEPT", 1) \in Unit /\ UpOk(Hdr("ACCEPT", 1))
    BY ClientUnits
<1>4. us \in Seq(Unit) /\ \A n \in 1..Len(us) : UpOk(us[n])
    <2>1. PICK k : k = ctok[s]
        OBVIOUS
    <2>2. PICK a : a = Hdr("ACCEPT", 1)
        OBVIOUS
    <2>3. /\ us \in Seq(Unit) /\ us[1] = a
          /\ \A n \in 1..Len(us) : n = 1 \/ UpOk(us[n])
        <3>1. k \in Sendable /\ a \in Unit /\ us = <<a, Tok(k)>> \o IvUnits(s)
            BY <1>1, <1>2, <1>3, <2>1, <2>2
        <3> QED
            BY <3>1, Requests
    <2> QED
        BY <1>3, <2>2, <2>3
<1>5. /\ c2s' \in [Session -> Seq(Unit)] /\ \A y \in Session : UpStep(y)
      /\ \A y \in Session : role[y] = "none" => c2s'[y] = <<>>
    BY <1>1, <1>2, <1>4, SendTypes DEF AccConnected
<1>6. StreamInv' /\ \A y \in Session : DownStep(y)
    BY <1>1, <1>5 DEF StreamInv, BInv, DownStep
<1>7. PICK l \in {"iv", "info"} : cpc' = [cpc EXCEPT ![s] = l]
    BY DEF AccConnected
<1>8. ETypeOK'
    BY <1>1, <1>7, HistTypes DEF BInv, ETypeOK, NoLoss
<1>9. FlightInv'
    BY <1>1, <1>5, <1>6, <1>7, ClientFlight DEF BInv, FlightInv, ETypeOK
<1> QED
    BY <1>6, <1>8, <1>9

(* A task reads a unit, and may send one.                                   *)
LEMMA TaskReadTypes ==
    ASSUME BInv, NEW s \in Session, RecvIv(s) \/ RecvInfo(s) \/ RecvData(s)
    PROVE  ETypeOK' /\ StreamInv' /\ FlightInv'
<1>1. /\ UNCHANGED <<vars, cend, role, ctok, fpc, fconn, ftok, fwlock,
                     base, fd, tab, cfgVars, hit, used, stale>>
      /\ s2c[s] # <<>> /\ s2c' = [s2c EXCEPT ![s] = Tail(@)] /\ due' \in SUBSET Session
      /\ cpc[s] # "none"
    BY DEF RecvIv, RecvInfo, RecvData, fwdVars, fdVars, histVars, BInv, ETypeOK
<1>2. role[s] # "none" /\ role[s] \in {"acc", "con"}
    BY <1>1 DEF BInv, FlightInv
<1>3. /\ s2c' \in [Session -> Seq(Unit)] /\ \A y \in Session : DownStep(y)
      /\ Head(s2c[s]) \in Unit
    BY <1>1, ReadTypes
<1>4. /\ c2s' \in [Session -> Seq(Unit)] /\ \A y \in Session : UpStep(y)
      /\ \A y \in Session : role[y] = "none" => c2s'[y] = <<>>
    <2>1. CASE c2s' = c2s
        BY <1>1, <2>1, NoSend
    <2>2. CASE \E u \in {Info(s), Data(s)} : SendUnits(s, <<u>>)
        <3>1. PICK u \in {Info(s), Data(s)} : SendUnits(s, <<u>>)
            BY <2>2
        <3>2. u \in Unit /\ UpOk(u)
            BY ClientUnits
        <3>3. <<u>> \in Seq(Unit) /\ \A n \in 1..Len(<<u>>) : UpOk(<<u>>[n])
            BY <3>2, OneUnit
        <3> QED
            BY <1>1, <1>2, <3>1, <3>3, SendTypes
    <2> QED
        BY <2>1, <2>2 DEF RecvIv, RecvInfo, RecvData
<1>5. StreamInv'
    BY <1>3, <1>4 DEF StreamInv
<1>6. PICK l \in {"info", "splice", cpc[s]} : cpc' = [cpc EXCEPT ![s] = l] /\ (l = cpc[s] \/ l # "connect")
    BY DEF RecvIv, RecvInfo, RecvData, BInv, ETypeOK
<1>7. \A o \in Session \cup {None}, u \in {"iv", "info", "data"} :
          Val(u, s2c[s], o) \in Session \cup {None}
    BY <1>3 DEF Val, Unit
<1>8. rx' \in [Session -> Session \cup {None}] /\ info' \in [Session -> Session \cup {None}]
    BY <1>7 DEF RecvIv, RecvInfo, RecvData, BInv, ETypeOK
<1>9. ETypeOK'
    BY <1>1, <1>6, <1>8, HistTypes DEF BInv, ETypeOK
<1>10. cpc'[s] \in {"info", "splice"} /\ \A y \in Session : y # s => cpc'[y] = cpc[y]
    BY DEF RecvIv, RecvInfo, RecvData, BInv, ETypeOK
<1>11. FlightInv'
    BY <1>1, <1>2, <1>3, <1>4, <1>10, ClientFlight DEF BInv, FlightInv, ETypeOK
<1> QED
    BY <1>5, <1>9, <1>11

LEMMA SpliceStaleTypes ==
    ASSUME BInv, NEW s \in Session, SpliceStale(s)
    PROVE  ETypeOK' /\ StreamInv' /\ FlightInv'
<1>1. PICK x \in Named({fd[s]}) :
         /\ \/ SendUnits(x, <<Data(s)>>) /\ UNCHANGED s2c
            \/ /\ s2c[x] # <<>> /\ s2c' = [s2c EXCEPT ![x] = Tail(@)]
               /\ UNCHANGED c2s
         /\ hit' = hit \cup {x}
    BY DEF SpliceStale
<1>2. UNCHANGED <<vars, clientVars>> /\ Follow
    BY DEF SpliceStale
<1>3. x \in Session /\ role[x] \in {"fwd", "acc"}
    <2>1. {fd[s]} \subseteq Session \cup {None}
        BY DEF BInv, ETypeOK
    <2> QED
        BY <2>1, NamedAre
<1>4. hit' \in SUBSET Session /\ Data(s) \in Unit /\ UpOk(Data(s))
    BY <1>1, <1>3, ClientUnits DEF BInv, ETypeOK
<1>5. CASE SendUnits(x, <<Data(s)>>) /\ UNCHANGED s2c
    BY <1>2, <1>3, <1>4, <1>5, OnlySends
<1>6. CASE s2c[x] # <<>> /\ s2c' = [s2c EXCEPT ![x] = Tail(@)] /\ UNCHANGED c2s
    <2> USE DEF clientVars, taskVars, fwdVars, fdVars
    <2>1. s2c' \in [Session -> Seq(Unit)] /\ \A y \in Session : DownStep(y)
        BY <1>3, <1>6, ReadTypes
    <2>2. /\ c2s' \in [Session -> Seq(Unit)] /\ \A y \in Session : UpStep(y)
          /\ \A y \in Session : role[y] = "none" => c2s'[y] = <<>>
        BY <1>2, <1>6, NoSend
    <2>3. StreamInv'
        BY <2>1, <2>2 DEF StreamInv
    <2>4. ETypeOK'
        BY <1>2, <1>4, HistTypes DEF BInv, ETypeOK
    <2>5. FlightInv'
        BY <1>2, <2>1, <2>2, ClientFlight DEF BInv, FlightInv, ETypeOK
    <2> QED
        BY <2>3, <2>4, <2>5
<1> QED
    BY <1>1, <1>5, <1>6


LEMMA TaskEndTypes ==
    ASSUME BInv, NEW s \in Session, TaskEnd(s)
    PROVE  ETypeOK' /\ StreamInv' /\ FlightInv'
<1>1. /\ UNCHANGED <<vars, c2s, role, ctok, rx, info, fpc, fconn, ftok, fwlock, base,
                     cfgVars, hit>>
      /\ NoLoss \/ Spend \/ Follow \/ Damage
      /\ cpc' = [cpc EXCEPT ![s] = "end"] /\ fd' = [fd EXCEPT ![s] = None]
      /\ cpc[s] # "none"
    BY DEF TaskEnd, fwdVars
<1>2. /\ tab' \in [Session -> Session \cup {None}]
      /\ \A n \in Session : tab'[n] \in {tab[n], None}
      /\ \E X : Hangup(X)
    <2>1. CASE role[s] = "acc"
        <3>1. PICK N : N = {fd[s]}
            OBVIOUS
        <3>2. CloseFds(N)
            BY <2>1, <3>1 DEF TaskEnd
        <3> QED
            BY <3>2, CloseFdsIs DEF BInv
    <2>2. CASE role[s] # "acc"
        BY <2>2 DEF TaskEnd, BInv, ETypeOK
    <2> QED
        BY <2>1, <2>2
<1>3. PICK X : Hangup(X)
    BY <1>2
<1>4. cend' \in [Session -> {"none", "open", "closed"}] /\ s2c' \in [Session -> Seq(Unit)]
    BY <1>3, HangupIs DEF BInv
<1>5. /\ \A y \in Session : DownStep(y)
      /\ \A y \in Session : cend'[y] = "none" <=> cend[y] = "none"
    BY <1>3, HangupTypes DEF BInv
<1>6. /\ c2s' \in [Session -> Seq(Unit)] /\ \A y \in Session : UpStep(y)
      /\ \A y \in Session : role[y] = "none" => c2s'[y] = <<>>
    BY <1>1, NoSend
<1>7. ETypeOK'
    BY <1>1, <1>2, <1>4, HistTypes DEF BInv, ETypeOK
<1>8. FlightInv'
    BY <1>1, <1>2, <1>5, <1>6, ClientFlight DEF BInv, FlightInv, ETypeOK
<1> QED
    BY <1>4, <1>6, <1>7, <1>8 DEF StreamInv

(* A connector's first units.                                               *)
LEMMA ConRequest ==
    ASSUME BInv, NEW s \in Session, NEW k \in Sendable, NEW us,
           us = <<Hdr("CONNECT", 1), Tok(k)>> \o IvUnits(s)
                \o (IF crypto THEN <<>> ELSE <<Info(s)>>)
    PROVE  /\ us \in Seq(Unit) /\ Len(us) = 3 /\ us[1] = Hdr("CONNECT", 1)
           /\ us[2] = Tok(k) /\ us[3] = IF crypto THEN Iv(s) ELSE Info(s)
<1>1. Tok(k) \in Unit /\ Iv(s) \in Unit /\ Info(s) \in Unit /\ Hdr("CONNECT", 1) \in Unit
    BY ClientUnits, AreUnits
<1>2. PICK a, b, c : a = Hdr("CONNECT", 1) /\ b = Tok(k) /\ c = IF crypto THEN Iv(s) ELSE Info(s)
    OBVIOUS
<1>3. a \in Unit /\ b \in Unit /\ c \in Unit
    BY <1>1, <1>2
<1>4. /\ <<a, b>> \in Seq(Unit)
      /\ <<a, b>> \o <<c>> \in Seq(Unit) /\ Len(<<a, b>> \o <<c>>) = 3
      /\ (<<a, b>> \o <<c>>)[1] = a /\ (<<a, b>> \o <<c>>)[2] = b
      /\ (<<a, b>> \o <<c>>)[3] = c
    BY <1>3, Lists
<1>5. us = <<a, b>> \o <<c>>
    <2>1. CASE crypto
        <3>1. us = (<<a, b>> \o <<c>>) \o <<>>
            BY <1>2, <2>1 DEF IvUnits
        <3>2. PICK v \in Seq(Unit) : v = <<a, b>> \o <<c>>
            BY <1>4
        <3>3. v \o <<>> = v
            BY <3>2, ConcatEmptySeq
        <3> QED
            BY <3>1, <3>2, <3>3
    <2>2. CASE ~crypto
        <3>1. us = (<<a, b>> \o <<>>) \o <<c>>
            BY <1>2, <2>2 DEF IvUnits
        <3>2. PICK v \in Seq(Unit) : v = <<a, b>>
            BY <1>4
        <3>3. v \o <<>> = v
            BY <3>2, ConcatEmptySeq
        <3> QED
            BY <3>1, <3>2, <3>3
    <2> QED
        BY <2>1, <2>2
<1> QED
    BY <1>2, <1>4, <1>5

LEMMA ConStartTypes ==
    ASSUME BInv, ConStart
    PROVE  ETypeOK' /\ StreamInv' /\ FlightInv'
<1>1. PICK n : n = New
    OBVIOUS
<1>2. PICK k : k = IF cfgtok # None THEN cfgtok ELSE ftok
    OBVIOUS
<1>3. PICK us : us = <<Hdr("CONNECT", 1), Tok(k)>> \o IvUnits(n)
                     \o (IF crypto THEN <<>> ELSE <<Info(n)>>)
    OBVIOUS
<1>4. /\ n \in Session /\ role[n] = "none" /\ k \in Sendable
      /\ role' = [role EXCEPT ![n] = "con"] /\ cend' = [cend EXCEPT ![n] = "open"]
      /\ ctok' = [ctok EXCEPT ![n] = k] /\ SendUnits(n, us)
      /\ due' \in {due, due \cup {n}}
      /\ UNCHANGED <<vars, s2c, rx, info, fpc, fconn, ftok, fwlock, base, fd, tab, cfgVars,
                     hit, used, stale>>
    BY <1>1, <1>2, <1>3, NewName DEF ConStart, fwdVars, fdVars, BInv, FlightInv, Sendable
<1>5. /\ us \in Seq(Unit) /\ Len(us) = 3 /\ us[1] = Hdr("CONNECT", 1)
      /\ us[2] = Tok(k) /\ us[3] = IF crypto THEN Iv(n) ELSE Info(n)
    BY <1>3, <1>4, ConRequest
<1>6. UpOk(us[2]) /\ UpOk(us[3])
    BY <1>4, <1>5, ClientUnits
<1>7. c2s[n] = <<>> /\ pc[n] = "idle" /\ Carries(n) /\ c2s \in [Session -> Seq(Unit)]
    BY <1>4 DEF BInv, FlightInv, Carries, StreamInv
<1>8. /\ c2s' \in [Session -> Seq(Unit)] /\ c2s'[n] = us
      /\ \A y \in Session : y # n => c2s'[y] = c2s[y]
    <2>1. /\ c2s' \in [Session -> Seq(Unit)] /\ c2s'[n] = c2s[n] \o us
          /\ \A y \in Session : y # n => c2s'[y] = c2s[y]
        BY <1>4, <1>5, <1>7, SendIs DEF BInv
    <2> QED
        BY <1>5, <1>7, <2>1, ConcatEmptySeq
<1>9. UNCHANGED <<pc, open, issued>>
    BY <1>4 DEF vars, ioVars
<1>10. \A x \in Session : UnitsOf(x)'
    <2>1. ASSUME NEW x \in Session, x # n PROVE UnitsOf(x)'
        <3>1. UpStep(x) /\ DownStep(x)
            BY <1>4, <1>8, <1>9, <2>1 DEF UpStep, DownStep, Early
        <3>2. UnitsOf(x) /\ StreamInv
            BY DEF BInv, FlightInv
        <3> QED
            BY <1>9, <3>1, <3>2, UpKept, DownKept DEF UnitsOf
    <2>2. UnitsOf(n)'
        <3>1. \A m \in 1..3 : m = 1 \/ m = 2 \/ m = 3
            OBVIOUS
        <3>2. SentUp(n, 2, us[2])' /\ SentUp(n, 3, us[3])'
            BY <1>6, <1>9, TokensKept DEF SentUp, UpOk
        <3>3. SentUp(n, 1, us[1])'
            <4>1. us[1].unit = "hdr" /\ us[1].cmd = "CONNECT"
                BY <1>5 DEF Hdr
            <4>2. pc'[n] = "idle"
                BY <1>7, <1>9
            <4> QED
                BY <4>1, <4>2 DEF SentUp
        <3>4. (\A m \in 1..Len(c2s[n]) : SentUp(n, m, c2s[n][m]))'
            BY <1>5, <1>8, <3>1, <3>2, <3>3
        <3>5. DownStep(n)
            BY <1>4 DEF DownStep
        <3>6. UnitsOf(n) /\ StreamInv
            BY <1>4 DEF BInv, FlightInv
        <3> QED
            BY <1>4, <1>9, <3>4, <3>5, <3>6, DownKept DEF UnitsOf
    <2> QED
        BY <2>1, <2>2
<1>11. PICK l \in {"iv", "splice"} : cpc' = [cpc EXCEPT ![n] = l]
    BY <1>1 DEF ConStart
<1>12. k \in Token
    BY <1>4, TokensAre DEF BInv, IInv
<1>13. ETypeOK'
    BY <1>4, <1>11, <1>12 DEF BInv, ETypeOK
<1>14. StreamInv'
    BY <1>4, <1>8 DEF StreamInv, BInv
<1>15. FlightInv'
    <2>1. /\ role \in [Session -> {"none", "fwd", "acc", "con"}]
          /\ cpc \in [Session -> {"none", "start", "connect", "iv", "info", "splice", "end"}]
          /\ ctok \in [Session -> Token \cup {None}] /\ cend \in [Session -> {"none", "open", "closed"}]
          /\ tab \in [Session -> Session \cup {None}]
        BY DEF BInv, ETypeOK
    <2>2. \A x \in Session : x # n => /\ role'[x] = role[x] /\ ctok'[x] = ctok[x]
                                      /\ cend'[x] = cend[x] /\ cpc'[x] = cpc[x]
        BY <1>4, <1>11, <2>1
    <2>3. role'[n] = "con" /\ cend'[n] = "open" /\ cpc'[n] = l
        BY <1>4, <1>11, <2>1
    <2>4. \A x \in Session : \/ role'[x] = role[x] /\ ctok'[x] = ctok[x]
                             \/ role[x] = "none" /\ (role'[x] = "acc" => ctok'[x] \in Sendable)
        BY <1>4, <2>2, <2>3
    <2>5. \A x \in Session : role'[x] = "none" => cend'[x] = "none" /\ c2s'[x] = <<>>
        BY <1>8, <2>2, <2>3 DEF BInv, FlightInv
    <2>6. \A x \in Session : cend'[x] = "none" => cend[x] = "none"
        BY <2>2, <2>3
    <2>7. \A x \in Session : /\ cpc'[x] # "none" => role'[x] \in {"acc", "con"}
                             /\ cpc'[x] \in {"start", "connect"} => role'[x] = "acc"
        BY <2>2, <2>3 DEF BInv, FlightInv
    <2>8. \A m \in Session : tab'[m] # None =>
               tab'[m] \in Session /\ (tab'[m] = tab[m] \/ role'[tab'[m]] \in {"fwd", "acc"})
        BY <1>4, <2>1
    <2>9. /\ fconn' = fconn /\ (fpc' \in LoggingIn \cup {"connecting"} => fconn' # None)
          /\ (fpc' = "logintok" => cfgtok # None) /\ ftok' \in Sendable \cup {None}
        BY <1>4 DEF BInv, FlightInv
    <2> QED
        BY <1>4, <1>10, <2>4, <2>5, <2>6, <2>7, <2>8, <2>9, ClientRest
<1> QED
    BY <1>13, <1>14, <1>15

(* Every step is one of the sessions, or leaves them alone.                 *)
LEMMA ServerSteps ==
    ASSUME BInv, [ENext]_evars
    PROVE  [Next]_vars
<1>1. CASE \E s \in Session : Server(s) \/ SrvKeepAlive(s)
    <2>1. PICK s \in Session : Server(s) \/ SrvKeepAlive(s)
        BY <1>1
    <2>2. SessionStep(s) \/ UNCHANGED vars
        BY <2>1, ServerIsStep DEF SrvKeepAlive
    <2> QED
        BY <2>2 DEF Next
<1>2. CASE ~\E s \in Session : Server(s) \/ SrvKeepAlive(s)
    <2>1. UNCHANGED vars
        BY <1>2 DEF ENext, evars, Client, Forwarder, Stray, KeepAliveGivesUp, ConStart,
           FwdSocket, FwdConnected, FwdLogin, FwdLoginToken, FwdNoConnect, FwdToken,
           FwdDispatch, FwdLost, FwdWake, AccSocket, AccConnected, RecvIv, RecvInfo,
           RecvData, TaskEnd, KeepAlive, KeepAliveStale, KeepAliveStuck, SpliceStale
    <2> QED
        BY <2>1
<1> QED
    BY <1>1, <1>2

(* Whatever happens, types and tokens are as they should.                   *)
LEMMA BInvNext ==
    ASSUME BInv, [ENext]_evars
    PROVE  BInv'
<1>1. IInv'
    BY ServerSteps, NextInv DEF BInv
<1>2. ETypeOK' /\ StreamInv' /\ FlightInv'
    <2>1. CASE UNCHANGED evars
        <3>1. UNCHANGED <<pc, open, issued, sfd, remote_fd>>
            BY <2>1 DEF evars, vars, ioVars, locVars
        <3> USE <2>1 DEF evars, chanVars, clientVars, taskVars, fwdVars, fdVars, cfgVars, histVars
        <3>2. ETypeOK' /\ StreamInv'
            BY DEF BInv, ETypeOK, StreamInv
        <3>3. FlightInv'
            BY <3>1 DEF BInv, FlightInv, UnitsOf, SentUp, SentDown, Sendable
        <3> QED
            BY <3>2, <3>3
    <2>2. CASE ENext
        BY <2>2, ServerKeepsTypes, KeepAliveTypes, FwdMoveTypes, FwdLoginTypes, FwdLostTypes,
           FwdReadTypes, AccSocketTypes, AccConnectedTypes, TaskReadTypes, SpliceStaleTypes,
           TaskEndTypes, ConStartTypes DEF ENext, Client, Forwarder, Stray
    <2> QED
        BY <2>1, <2>2
<1> QED
    BY <1>1, <1>2 DEF BInv

LEMMA BInvInit ==
    ASSUME EInit
    PROVE  BInv
<1>1. IInv
    BY InitInv DEF EInit
<1>2. /\ c2s = [s \in Session |-> <<>>] /\ s2c = [s \in Session |-> <<>>]
      /\ pc = [s \in Session |-> "idle"] /\ sfd = [s \in Session |-> None]
    BY DEF EInit, Init
<1>3. StreamInv
    BY <1>2, EmptySeq DEF StreamInv
<1>4. cfgtok \in ClientToken \cup {None} /\ crypto \in BOOLEAN
    <2>1. PICK c \in Config : cfgtok = c[1] /\ crypto = c[2]
        BY DEF EInit
    <2> QED
        BY <2>1, EndToEndAssumption
<1>5. ETypeOK
    BY EndToEndAssumption, SessionAssumption DEF EInit, ETypeOK
<1>6. \A x \in Session : UnitsOf(x)
    BY <1>2 DEF UnitsOf
<1>7. FlightInv
    BY <1>2, <1>4, <1>6, SessionAssumption DEF EInit, FlightInv, LoggingIn
<1> QED
    BY <1>1, <1>3, <1>5, <1>7 DEF BInv
-----------------------------------------------------------------------------
(* Frames: sessions that a step does not touch.                             *)

(* The client's end of y is as it was, but for what a forwarder is sent, or *)
(* its number is closed by somebody else.                                   *)
EndKept(y) ==
    \/ /\ cend'[y] = cend[y]
       /\ s2c'[y] = s2c[y] \/ (role[y] = "fwd" /\ cend[y] = "open")
    \/ /\ role[y] # "con" /\ cend[y] = "open" /\ cend'[y] = "closed"
       /\ s2c'[y] = <<>>

(* The step leaves connection y alone, on both ends, but for an eviction,   *)
(* the end of a connector's wait, and what EndKept allows.                  *)
Same(y) ==
    /\ role'[y] = role[y] /\ cpc'[y] = cpc[y] /\ EndKept(y)
    /\ ctok'[y] = ctok[y] /\ rx'[y] = rx[y] /\ info'[y] = info[y]
    /\ c2s'[y] = c2s[y] /\ Stage(y)' \in {Stage(y), "old"}
    /\ pc'[y] = pc[y] \/ (pc[y] = "waitAccept" /\ pc'[y] = "splice")
    /\ remote_fd'[y] = remote_fd[y] /\ sfd'[y] \in {sfd[y], remote_fd[y]}
    /\ y \in open' <=> y \in open
    /\ type'[y] = type[y] \/ (type[y] = "FORWARD" /\ type'[y] = "CLOSED")

Mono == crypto' = crypto /\ issued \subseteq issued'

Local(y) == TaskAt(y) /\ RoleOf(y) /\ FromFwd(y) /\ Keyed(y)

(* What a stream holds of a login does not depend on the rest.              *)
LEMMA LoginKept ==
    ASSUME Mono, NEW q, LoginIn(q)
    PROVE  LoginIn(q)'
<1>1. \A k \in Sendable : k \in Sendable'
    BY DEF Mono, Sendable
<1>2. ASSUME NEW p, LoginAt(q, p) PROVE LoginAt(q, p)'
    BY <1>1, <1>2 DEF LoginAt, IsTok, KAFrom, KA, Hdr
<1> QED
    BY <1>2 DEF LoginIn, KA, Hdr

(* The invariants of one connection survive a step that leaves it alone.    *)
LEMMA SameLocal ==
    ASSUME NEW y, Same(y), Mono, Local(y)
    PROVE  Local(y)'
<1> USE DEF Same, EndKept, Mono, Local
<1>1. \A k \in Sendable : k \in Sendable'
    BY DEF Sendable
<1>2. TaskAt(y)'
    BY DEF TaskAt
<1>3. RoleOf(y)'
    BY DEF RoleOf
<1>4. FromFwd(y)'
    <2> DEFINE q == c2s[y]
    <2>1. c2s'[y] = q /\ Half(y)' = Half(y) /\ (Carries(y)' => Carries(y))
        BY DEF Half, Carries, Hdr
    <2>2. LoginIn(q) => LoginIn(q)'
        BY LoginKept
    <2>3. IsTok(q[1]) /\ KAFrom(q, 2) => IsTok(q[1])' /\ KAFrom(q, 2)'
        BY <1>1 DEF IsTok, KAFrom, KA, Hdr
    <2>4. KAFrom(q, 1) => KAFrom(q, 1)'
        BY DEF KAFrom, KA, Hdr
    <2> QED
        BY <2>1, <2>2, <2>3, <2>4 DEF FromFwd
<1>5. Keyed(y)'
    BY DEF Keyed
<1> QED
    BY <1>2, <1>3, <1>4, <1>5

(* So does what holds of a task without a peer.                             *)
LEMMA SameSingle ==
    ASSUME NEW y, Same(y), Mono, Single(y)
    PROVE  Single(y)'
<1> USE DEF Same, EndKept, Mono
<1>1. \A k \in Sendable : k \in Sendable'
    BY DEF Sendable
<1>2. ASSUME NEW m, OpensAt(y, c2s[y], m) PROVE OpensAt(y, c2s[y], m)'
    BY <1>2 DEF OpensAt, Iv, Info
<1>3. FromTask(y)'
    BY <1>1, <1>2 DEF Single, FromTask, Carries, IsTok, Hdr
<1> QED
    BY <1>3 DEF Single

(* So does what holds of two joined tasks, if neither is touched.           *)
LEMMA SameLinked ==
    ASSUME NEW P, NEW y, Same(y), Same(P[y]), Mono, Linked(P, y)
    PROVE  Linked(P, y)'
<1> USE DEF Same, EndKept, Mono
<1>1. ASSUME NEW q, NEW x, Reads(y, x, q) PROVE Reads(y, x, q)'
    BY <1>1 DEF Reads, Fits, Chat, Iv, Info, Data
<1>2. ASSUME Flow(y, P[y]), cend'[y] = "open" PROVE Flow(y, P[y])'
    <2>1. s2c'[y] = s2c[y] /\ c2s'[P[y]] = c2s[P[y]]
        BY <1>2 DEF Linked
    <2> QED
        BY <1>1, <1>2, <2>1 DEF Flow
<1> QED
    BY <1>1, <1>2 DEF Linked, Joined, Live

(* The invariants of single connections need to be shown only for the       *)
(* connections T that a step touches.                                       *)
LEMMA TouchInv ==
    ASSUME EInv, Mono, NEW T \in SUBSET Session,
           \A y \in Session \ T : Same(y), \A y \in T : Local(y)'
    PROVE  TaskInv' /\ RoleInv' /\ FromInv' /\ KeyInv'
<1>1. \A y \in Session : Local(y)
    BY DEF EInv, CInv, Local, TaskInv, RoleInv, FromInv, KeyInv
<1>2. \A y \in Session : Local(y)'
    BY <1>1, SameLocal
<1> QED
    BY <1>2 DEF Local, TaskInv, RoleInv, FromInv, KeyInv

(* A step may join what it touches anew, Q instead of P.                    *)
LEMMA LinksSwitch ==
    ASSUME NEW P \in Peering, NEW Q \in Peering, Links(P), Mono, NEW T \in SUBSET Session,
           \A y \in Session \ T : Same(y) /\ P[y] \notin T /\ Q[y] = P[y],
           \A y \in T : LinkAt(Q, y)'
    PROVE  Links(Q)'
<1> SUFFICES ASSUME NEW y \in Session \ T PROVE LinkAt(Q, y)'
    BY DEF Links
<1>1. LinkAt(P, y) /\ Same(y) /\ (P[y] # None => Same(P[y]) /\ P[y] \in Session \ T)
    BY DEF Links, Peering
<1>2. P[y] = None => Single(y)'
    BY <1>1, SameSingle DEF LinkAt
<1>3. P[y] # None => Linked(P, y)'
    BY <1>1, SameLinked DEF LinkAt
<1>4. P[y] # None => Linked(Q, y)'
    BY <1>1, <1>3 DEF Linked
<1>5. remote_fd'[y] = remote_fd[y]
    BY <1>1 DEF Same
<1> QED
    BY <1>1, <1>2, <1>4, <1>5 DEF LinkAt

(* The same with P as it is.                                                *)
LEMMA LinksFrame ==
    ASSUME NEW P \in Peering, Links(P), Mono, NEW T \in SUBSET Session,
           \A y \in Session \ T : Same(y) /\ P[y] \notin T,
           \A y \in T : LinkAt(P, y)'
    PROVE  Links(P)'
    BY LinksSwitch

(* s has not been joined to anybody.                                        *)
Alone(s) == \A P \in Peering : Links(P) => P[s] = None

(* A session that has just been accepted, a forwarder, and a live session   *)
(* without a second descriptor are not joined.                              *)
LEMMA WhoIsAlone ==
    ASSUME EInv, NEW s \in Session,
           \/ pc[s] = "idle" \/ role[s] \notin {"con", "acc"}
           \/ Live(s) /\ remote_fd[s] = None
    PROVE  Alone(s)
<1> SUFFICES ASSUME NEW P \in Peering, Links(P), P[s] # None PROVE FALSE
    BY DEF Alone
<1> DEFINE x == P[s]
<1>1. x \in Session /\ Linked(P, s)
    BY DEF Links, LinkAt, Peering
<1>2. Live(s) /\ remote_fd[s] = None
    BY <1>1 DEF Linked
<1>3. s \in open
    BY <1>2 DEF EInv, BInv, IInv, FdInv
<1>4. remote_fd[s] = x \/ remote_fd[x] = s
    BY <1>1, <1>3 DEF Linked, Joined
<1>5. pc[s] = "freed"
    BY <1>1, <1>2, <1>4, SessionAssumption DEF EInv, BInv, IInv, FdInv
<1> QED
    BY <1>2, <1>5 DEF Live

(* A step that touches one connection, which is not joined.                 *)
LEMMA OneTouch ==
    ASSUME EInv, Mono, NEW s \in Session, \A y \in Session \ {s} : Same(y),
           Alone(s), Local(s)', Single(s)', remote_fd'[s] = None
    PROVE  TaskInv' /\ RoleInv' /\ FromInv' /\ KeyInv' /\ LinkInv'
<1>1. PICK P \in Peering : Links(P)
    BY DEF EInv, CInv, LinkInv
<1>2. P[s] = None
    BY <1>1 DEF Alone
<1>3. \A y \in Session \ {s} : P[y] # s
    BY <1>1, <1>2, SessionAssumption DEF Links, LinkAt, Linked
<1>4. LinkAt(P, s)'
    BY <1>2 DEF LinkAt
<1> DEFINE T == {s}
<1>5. /\ T \in SUBSET Session
      /\ \A y \in Session \ T : Same(y) /\ P[y] \notin T
      /\ \A y \in T : LinkAt(P, y)'
      /\ \A y \in T : Local(y)'
    BY <1>3, <1>4
<1> HIDE DEF T
<1>6. Links(P)'
    BY <1>1, <1>5, LinksFrame
<1>7. LinkInv'
    BY <1>6 DEF LinkInv, Peering
<1> QED
    BY <1>5, <1>7, TouchInv

-----------------------------------------------------------------------------
(* The server.                                                              *)

(* What a step of the server leaves to show.                                *)
Rest == TaskInv /\ RoleInv /\ FromInv /\ KeyInv /\ LinkInv

(* The clients' own state does not change in a step of the server.          *)
LEMMA ServerFrame ==
    ASSUME EInv, UNCHANGED clientVars, issued \subseteq issued'
    PROVE  FwdInv' /\ FdsInv' /\ Mono
<1> USE DEF EInv, CInv, clientVars, taskVars, fwdVars, fdVars, cfgVars
<1>1. FwdInv'
    BY DEF FwdInv
<1>2. FdsInv'
    BY DEF FdsInv, FdAt
<1> QED
    BY <1>1, <1>2 DEF Mono

(* How far the forward task is with its login, is its own matter.           *)
LEMMA StageKept ==
    ASSUME UNCHANGED <<fpc, fconn, tab, base>>
    PROVE  \A y : Stage(y)' = Stage(y)
    BY DEF Stage

(* The forward task's side of a step in which its connection gets nothing.  *)
LEMMA ToFwdFrame ==
    ASSUME EInv, UNCHANGED <<fpc, fconn, cend>>,
           fpc \in LoggingIn /\ cend[fconn] = "open" =>
               /\ s2c'[fconn] = s2c[fconn] /\ (LoggedIn(fconn) => LoggedIn(fconn)')
               /\ type[fconn] = "NULL" => type'[fconn] = "NULL"
    PROVE  ToFwd'
<1>1. \A q, m : Later(q, m) => Later(q, m)'
    BY DEF Later, Asks, Echo
<1>2. \A q : Answered(q) => Answered(q)'
    BY <1>1 DEF Answered
<1> QED
    BY <1>1, <1>2 DEF EInv, CInv, ToFwd, Echo

(* A login that was answered stays answered.                                *)
LEMMA SameLogged ==
    ASSUME NEW y, Same(y)
    PROVE  /\ LoggedIn(y) => LoggedIn(y)'
           /\ type[y] = "NULL" => type'[y] = "NULL"
    BY DEF Same, LoggedIn

(* The end of a session, with the eviction of the old forwarders in E,      *)
(* session by session (hev_fsh_session_close_session).                      *)
LEMMA CloseIs ==
    ASSUME IInv, NEW s \in Session, Live(s), NEW E, Evictable(s, E), Close(s, E)
    PROVE  /\ pc'[s] = "freed" /\ type'[s] = "NULL" /\ remote_fd'[s] = None
           /\ sfd'[s] = None /\ s \notin open' /\ remote_fd[s] \notin open'
           /\ \A y \in Session \ {s} :
                 /\ pc'[y] = pc[y] /\ remote_fd'[y] = remote_fd[y] /\ sfd'[y] = sfd[y]
                 /\ type'[y] = type[y] \/ (type[y] = "FORWARD" /\ type'[y] = "CLOSED")
                 /\ y # remote_fd[s] => (y \in open' <=> y \in open)
<1>1. client_fd[s] = s
    BY DEF IInv, FdInv
<1>2. \A f \in E : type[f] = "FORWARD"
    BY DEF Evictable, IInv, RegistryConsistent
<1>3. \A y \in Session : type'[y] = IF y = s THEN "NULL" ELSE IF y \in E THEN "CLOSED" ELSE type[y]
    BY DEF Close, Upd, IInv, TypeOK
<1>4. open' = open \ {s, remote_fd[s]}
    BY <1>1 DEF Close
<1> QED
    BY <1>2, <1>3, <1>4 DEF Close, ClearLocals, IInv, TypeOK

(* The end of a session, and of the connection that was joined to it.       *)
LEMMA CloseRest ==
    ASSUME EInv, NEW s \in Session, Live(s), NEW E, Evictable(s, E), Close(s, E), Mono,
           UNCHANGED <<clientVars, s2c>>,
           \A y \in Session : y # s /\ y # remote_fd[s] => c2s'[y] = c2s[y]
    PROVE  Rest' /\ ToFwd'
<1> USE DEF clientVars, taskVars, fwdVars, fdVars, cfgVars
<1> DEFINE x == remote_fd[s]
           T == {s, x} \ {None}
<1>1. /\ pc'[s] = "freed" /\ type'[s] = "NULL" /\ remote_fd'[s] = None
      /\ sfd'[s] = None /\ s \notin open' /\ x \notin open'
      /\ \A y \in Session \ {s} :
            /\ pc'[y] = pc[y] /\ remote_fd'[y] = remote_fd[y] /\ sfd'[y] = sfd[y]
            /\ type'[y] = type[y] \/ (type[y] = "FORWARD" /\ type'[y] = "CLOSED")
            /\ y # x => (y \in open' <=> y \in open)
    BY CloseIs DEF EInv, BInv
<1>2. x # None => x \in Session /\ x # s /\ pc[x] = "freed" /\ remote_fd[x] = None
    BY DEF EInv, BInv, IInv, FdInv, TypeOK, Live
<1>3. \A y \in Session \ T : Same(y)
    BY <1>1, StageKept, SessionAssumption DEF Same, EndKept
<1>4. T \in SUBSET Session /\ s \in T
    BY <1>2, SessionAssumption
<1>5. pc[s] # "idle" /\ (x # None => pc[x] # "idle")
    BY <1>2 DEF Live
<1>6. \A y \in T : pc[y] # "idle" /\ pc'[y] = "freed" /\ y \notin open' /\ remote_fd'[y] = None
                   /\ sfd'[y] \in {None, sfd[y]} /\ (x = y => sfd'[y] = sfd[y] /\ remote_fd[y] = None)
    BY <1>1, <1>2, <1>5, SessionAssumption
<1>7. ASSUME NEW y \in T PROVE Local(y)'
    <2>1. TaskAt(y) /\ RoleOf(y) /\ Keyed(y)
        BY <1>4 DEF EInv, BInv, CInv, TaskInv, RoleInv, KeyInv
    <2>2. TaskAt(y)'
        BY <1>6, <2>1 DEF TaskAt, Mono, Sendable
    <2>3. RoleOf(y)'
        BY <1>1, <1>2, <1>6, <2>1 DEF RoleOf
    <2>4. FromFwd(y)'
        BY <1>6 DEF FromFwd, Carries
    <2>5. Keyed(y)'
        BY <2>1 DEF Keyed, Mono
    <2> QED
        BY <2>2, <2>3, <2>4, <2>5 DEF Local
<1>8. PICK P \in Peering : Links(P)
    BY DEF EInv, BInv, CInv, LinkInv
<1>9. P[s] = x /\ (x # None => P[x] = s)
    <2>1. CASE x = None
        BY <1>8, <2>1, WhoIsAlone DEF Alone
    <2>2. CASE x # None
        BY <1>2, <1>8, <2>2, SessionAssumption DEF Links, LinkAt, Linked
    <2> QED
        BY <2>1, <2>2
<1>10. \A y \in Session \ T : P[y] \notin T
    BY <1>2, <1>4, <1>8, <1>9, SessionAssumption DEF Links, LinkAt, Linked
<1>11. ASSUME NEW y \in T PROVE LinkAt(P, y)'
    <2>1. y \in Session /\ LinkAt(P, y)
        BY <1>4, <1>8 DEF Links
    <2>2. CASE P[y] = None
        <3>1. Single(y)
            BY <2>1, <2>2 DEF LinkAt
        <3>2. FromTask(y)'
            BY <1>6 DEF FromTask, Carries
        <3>3. Single(y)'
            BY <3>1, <3>2 DEF Single, Mono
        <3> QED
            BY <1>6, <2>2, <3>3 DEF LinkAt
    <2>3. CASE P[y] # None
        <3>1. Linked(P, y) /\ P[y] \in T
            BY <1>2, <1>4, <1>9, <2>1, <2>3, SessionAssumption DEF LinkAt
        <3>2. Reads(y, P[y], s2c[y]) => Reads(y, P[y], s2c[y])'
            BY DEF Reads, Fits, Chat, KA, Hdr, Iv, Info, Data, Mono
        <3>3. ~Joined(P[y], y)' /\ P[y] \notin open' /\ y \notin open' /\ ~Live(y)'
            BY <1>2, <1>4, <1>6, <3>1, SessionAssumption DEF Joined, Live
        <3>4. pc'[y] # "idle"
            BY <1>6
        <3>5. Linked(P, y)'
            BY <3>1, <3>2, <3>3, <3>4 DEF Linked
        <3> QED
            BY <1>6, <2>3, <3>5 DEF LinkAt
    <2> QED
        BY <2>2, <2>3
<1> HIDE DEF T
<1>12. TaskInv' /\ RoleInv' /\ FromInv' /\ KeyInv'
    BY <1>3, <1>4, <1>7, TouchInv
<1>13. Links(P)'
    BY <1>3, <1>4, <1>8, <1>10, <1>11, LinksFrame
<1>14. LinkInv'
    BY <1>13 DEF LinkInv, Peering
<1>15. ToFwd'
    <2>1. ASSUME NEW f \in Session
          PROVE  /\ s2c'[f] = s2c[f] /\ (LoggedIn(f) => LoggedIn(f)')
                 /\ type[f] = "NULL" => type'[f] = "NULL"
        BY <1>1 DEF LoggedIn
    <2>2. fpc \in LoggingIn => fconn \in Session
        BY DEF EInv, BInv, CInv, FlightInv, ETypeOK
    <2> QED
        BY <2>1, <2>2, ToFwdFrame
<1> QED
    BY <1>12, <1>14, <1>15 DEF Rest

(* What the server's step does to the other sessions.                       *)
SrvSame(y) ==
    /\ pc'[y] = pc[y] /\ sfd'[y] = sfd[y] /\ remote_fd'[y] = remote_fd[y]
    /\ y \in open' <=> y \in open
    /\ type'[y] = type[y] \/ (type[y] = "FORWARD" /\ type'[y] = "CLOSED")
    /\ c2s'[y] = c2s[y]
    /\ s2c'[y] = s2c[y] \/ (role[y] = "fwd" /\ cend[y] = "open")

(* A step of the server for a session that is not joined: only that         *)
(* session's own stream and label are left to show.                         *)
LEMMA OneStep ==
    ASSUME EInv, Mono, UNCHANGED clientVars, NEW s \in Session, cend[s] # "none",
           Alone(s), pc'[s] # "idle", remote_fd'[s] = None, sfd'[s] = None,
           \A y \in Session \ {s} : SrvSame(y),
           s2c'[s] = s2c[s] \/ (role[s] = "fwd" /\ cend[s] = "open"),
           RoleOf(s)', FromFwd(s)', FromTask(s)'
    PROVE  Rest'
<1> USE DEF clientVars, taskVars, fwdVars, fdVars, cfgVars
<1>1. \A y \in Session \ {s} : Same(y)
    BY StageKept DEF Same, SrvSame, EndKept
<1>2. TaskAt(s) /\ Keyed(s) /\ Single(s)
    BY DEF EInv, BInv, CInv, TaskInv, KeyInv, LinkInv, Alone, Links, LinkAt
<1>3. TaskAt(s)'
    BY <1>2 DEF TaskAt, Mono, Sendable
<1>4. Keyed(s)'
    BY <1>2 DEF Keyed, Mono
<1>5. Single(s)'
    BY <1>2 DEF Single, Mono
<1>6. Local(s)'
    BY <1>3, <1>4 DEF Local
<1> QED
    BY <1>1, <1>5, <1>6, OneTouch DEF Rest

(* Requests, without what has been read of them.                            *)
LEMMA KATail ==
    ASSUME NEW q \in Seq(Unit), q # <<>>, NEW m \in Nat, 1 <= m, KAFrom(q, m + 1)
    PROVE  KAFrom(Tail(q), m)
<1>1. /\ Len(Tail(q)) = Len(q) - 1 /\ Len(q) \in Nat
      /\ \A n \in 1..Len(q) - 1 : Tail(q)[n] = q[n + 1]
    BY TailIs
<1> SUFFICES ASSUME NEW n \in m..Len(q) - 1 PROVE Tail(q)[n] = KA
    BY <1>1 DEF KAFrom
<1>2. n + 1 \in m + 1..Len(q) /\ n \in 1..Len(q) - 1
    BY <1>1
<1> QED
    BY <1>1, <1>2 DEF KAFrom

(* A request without its first unit.                                        *)
LEMMA OpensTail ==
    ASSUME NEW s \in Session, NEW q \in Seq(Unit), q # <<>>, NEW m \in Nat,
           OpensAt(s, q, m + 1), crypto \in BOOLEAN, role[s] \in {"acc", "con"}
    PROVE  OpensAt(s, Tail(q), m)
<1> DEFINE t == Tail(q)
<1>1. /\ Len(t) = Len(q) - 1 /\ Len(q) \in Nat
      /\ \A n \in 1..Len(q) - 1 : t[n] = q[n + 1]
    BY TailIs
<1> HIDE DEF t
<1>2. \A n \in 1..Len(t) : n + 1 \in 1..Len(q) /\ t[n] = q[n + 1]
    BY <1>1
<1>3. crypto => m + 1 <= Len(t) /\ t[m + 1] = Iv(s)
    BY <1>1, <1>2 DEF OpensAt
<1>4. /\ role[s] = "con" \/ crypto => Len(t) = m + 1
      /\ role[s] = "acc" /\ ~crypto => Len(t) = m
    BY <1>1 DEF OpensAt
<1>5. role[s] = "con" /\ ~crypto => t[m + 1] = Info(s)
    BY <1>1, <1>2, <1>4 DEF OpensAt
<1>6. OpensAt(s, t, m)
    BY <1>3, <1>4, <1>5 DEF OpensAt
<1> QED
    BY <1>6 DEF t

(* What is said of the units in flight is never invalidated by new tokens.  *)
LEMMA Mono1 ==
    ASSUME Mono
    PROVE  /\ \A u : IsTok(u) => IsTok(u)'
           /\ \A q, m : KAFrom(q, m) => KAFrom(q, m)'
           /\ \A q : LoginIn(q) => LoginIn(q)'
           /\ \A y, q, m : role'[y] = role[y] /\ OpensAt(y, q, m) => OpensAt(y, q, m)'
<1>1. \A k \in Sendable : k \in Sendable'
    BY DEF Mono, Sendable
<1>2. \A u : IsTok(u) => IsTok(u)'
    BY <1>1 DEF IsTok
<1>3. \A q, m : KAFrom(q, m) => KAFrom(q, m)'
    BY DEF KAFrom, KA, Hdr
<1>4. \A q : LoginIn(q) => LoginIn(q)'
    BY LoginKept
<1>5. ASSUME NEW y, NEW q, NEW m, role'[y] = role[y], OpensAt(y, q, m)
      PROVE  OpensAt(y, q, m)'
    BY <1>5 DEF OpensAt, Mono, Iv, Info
<1> QED
    BY <1>2, <1>3, <1>4, <1>5

(* A session that reads has a client, and no peer.                          *)
LEMMA Reading ==
    ASSUME EInv, NEW s \in Session, pc[s] \in Receiving
    PROVE  /\ Live(s) /\ s \in open /\ Carries(s) /\ remote_fd[s] = None
           /\ Alone(s) /\ cend[s] # "none" /\ role[s] \in {"fwd", "acc", "con"}
           /\ FromFwd(s) /\ FromTask(s) /\ TaskAt(s) /\ RoleOf(s) /\ sfd[s] = None
           /\ c2s[s] \in Seq(Unit) /\ crypto \in BOOLEAN
<1>1. Live(s) /\ pc[s] # "idle" /\ type[s] # "SPLICE"
    BY DEF Live, Receiving, EInv, BInv, IInv, RoleAtLabel
<1>2. s \in open /\ Carries(s) /\ remote_fd[s] = None
    BY <1>1 DEF EInv, BInv, IInv, FdInv, Carries
<1>3. Alone(s)
    BY <1>1, <1>2, WhoIsAlone
<1>4. FromFwd(s) /\ TaskAt(s) /\ RoleOf(s) /\ Single(s)
    BY <1>3 DEF EInv, BInv, CInv, TaskInv, RoleInv, FromInv, LinkInv, Alone, Links, LinkAt
<1>5. cend[s] # "none" /\ role[s] \in {"fwd", "acc", "con"}
    BY <1>1, <1>4 DEF TaskAt, EInv, BInv, CInv, ETypeOK
<1>6. sfd[s] = None
    BY <1>2 DEF EInv, BInv, FlightInv
<1>7. c2s[s] \in Seq(Unit) /\ crypto \in BOOLEAN
    BY DEF EInv, BInv, FlightInv, StreamInv
<1> QED
    BY <1>1, <1>2, <1>3, <1>4, <1>5, <1>6, <1>7 DEF Single

(* The server accepts a connection, or drops it.                            *)
LEMMA SrvAcceptInv ==
    ASSUME EInv, NEW s \in Session, SrvAccept(s)
    PROVE  CInv'
<1> USE DEF SrvAccept, chanVars
<1>1. FwdInv' /\ FdsInv' /\ Mono
    BY ServerFrame DEF AcceptClient, AcceptDrop
<1>3. /\ pc[s] = "idle" /\ pc'[s] \in {"hdr", "freed"} /\ (pc'[s] = "hdr" => s \in open')
      /\ (pc'[s] = "freed" => open' = open)
      /\ UNCHANGED <<type, remote_fd, sfd>>
      /\ \A y \in Session \ {s} : pc'[y] = pc[y] /\ (y \in open' <=> y \in open)
    BY DEF AcceptClient, AcceptDrop, regVars, locVars, ioVars, EInv, BInv, IInv, TypeOK
<1>4. /\ s \notin open /\ remote_fd[s] = None /\ type[s] = "NULL"
    <2>1. ~Live(s) /\ pc[s] # "freed"
        BY <1>3 DEF Live
    <2>2. s \notin open
        BY <2>1, SessionAssumption DEF EInv, BInv, IInv, FdInv
    <2> QED
        BY <1>3, <2>1, <2>2 DEF EInv, BInv, IInv, FdInv, RoleAtLabel
<1>5. Alone(s)
    BY <1>3, WhoIsAlone
<1>6. FromFwd(s) /\ TaskAt(s) /\ RoleOf(s) /\ Single(s)
    BY <1>5 DEF EInv, BInv, CInv, TaskInv, RoleInv, FromInv, LinkInv, Alone, Links, LinkAt
<1>7. RoleOf(s)'
    BY <1>3, <1>4, <1>6 DEF RoleOf, clientVars, taskVars
<1>8. FromFwd(s)'
    <2>1. Stage(s)' = Stage(s) /\ UNCHANGED <<role, c2s>>
        BY StageKept DEF clientVars, taskVars, fwdVars, fdVars
    <2>2. Carries(s) /\ (Carries(s)' => pc'[s] = "hdr") /\ UNCHANGED type
        BY <1>3, <1>4 DEF Carries
    <2>3. pc'[s] = "hdr" => (Half(s)' <=> Half(s))
        BY <1>3, <2>1 DEF Half, Hdr
    <2>4. /\ (LoginIn(c2s[s]) => LoginIn(c2s[s])')
          /\ (KAFrom(c2s[s], 1) => KAFrom(c2s[s], 1)')
        BY <1>1, <2>1, Mono1
    <2> QED
        BY <1>3, <1>4, <1>6, <2>1, <2>2, <2>3, <2>4 DEF FromFwd
<1>9. FromTask(s)'
    <2>1. FromTask(s)
        BY <1>6 DEF Single
    <2> QED
        BY <1>1, <1>3, <1>4, <2>1, Mono1 DEF FromTask, Carries, clientVars, taskVars, Mono, Hdr
<1>10. Rest'
    <2>1. \A y \in Session \ {s} : SrvSame(y)
        BY <1>3 DEF SrvSame
    <2>2. sfd'[s] = None
        BY <1>3, <1>4 DEF EInv, BInv, FlightInv
    <2> QED
        BY <1>1, <1>3, <1>4, <1>5, <1>7, <1>8, <1>9, <2>1, <2>2, OneStep
           DEF clientVars
<1>11. ToFwd'
    <2>1. ASSUME NEW f \in Session
          PROVE  /\ s2c'[f] = s2c[f] /\ (LoggedIn(f) => LoggedIn(f)')
                 /\ type[f] = "NULL" => type'[f] = "NULL"
        BY <1>3 DEF LoggedIn
    <2>2. fpc \in LoggingIn => fconn \in Session
        BY DEF EInv, BInv, CInv, FlightInv, ETypeOK
    <2> QED
        BY <1>1, <2>1, <2>2, ToFwdFrame DEF clientVars, fwdVars, taskVars
<1> QED
    BY <1>1, <1>10, <1>11 DEF CInv, Rest

(* The end of a stream without its first unit.                              *)
LEMMA LastTail ==
    ASSUME NEW q \in Seq(Unit), q # <<>>
    PROVE  /\ Tail(q) # <<>> => Tail(q)[Len(Tail(q))] = q[Len(q)]
           /\ Tail(q) = <<>> => Len(q) = 1
<1> DEFINE t == Tail(q)
<1>1. /\ t \in Seq(Unit) /\ Len(t) = Len(q) - 1 /\ Len(q) \in Nat /\ 1 <= Len(q)
      /\ \A n \in 1..Len(q) - 1 : t[n] = q[n + 1]
    BY TailIs
<1>2. t = <<>> <=> Len(t) = 0
    BY <1>1, EmptySeq
<1> HIDE DEF t
<1>3. t # <<>> => t[Len(t)] = q[Len(q)]
    <2> SUFFICES ASSUME t # <<>> PROVE t[Len(t)] = q[Len(q)]
        OBVIOUS
    <2>1. Len(t) \in 1..Len(q) - 1 /\ Len(t) + 1 = Len(q)
        BY <1>1, <1>2
    <2> QED
        BY <1>1, <2>1
<1>4. t = <<>> => Len(q) = 1
    BY <1>1, <1>2
<1> QED
    BY <1>3, <1>4 DEF t

(* A forwarder's first units, by the first of them.                         *)
LEMMA LoginTail ==
    ASSUME NEW q \in Seq(Unit), q # <<>>, LoginIn(q)
    PROVE  \/ q[1] = KA /\ LoginIn(Tail(q))
           \/ q[1] = Hdr("LOGIN", 1) /\ KAFrom(Tail(q), 1)
           \/ q[1] = Hdr("LOGIN", 3) /\ Tail(q) = <<>>
           \/ /\ q[1] = Hdr("LOGIN", 3) /\ 1 <= Len(Tail(q)) /\ IsTok(Tail(q)[1])
              /\ KAFrom(Tail(q), 2)
<1> DEFINE t == Tail(q)
<1>1. /\ t \in Seq(Unit) /\ Len(t) = Len(q) - 1 /\ Len(q) \in Nat /\ 1 <= Len(q)
      /\ \A n \in 1..Len(q) - 1 : t[n] = q[n + 1]
    BY TailIs
<1>2. \A m \in Nat : 1 <= m /\ KAFrom(q, m + 1) => KAFrom(t, m)
    BY KATail
<1>3. t = <<>> <=> Len(t) = 0
    BY <1>1, EmptySeq
<1> HIDE DEF t
<1>4. PICK p \in 1..Len(q) + 1 : LoginAt(q, p) /\ \A n \in 1..p - 1 : q[n] = KA
    BY DEF LoginIn
<1>5. CASE p = 1
    <2>1. KAFrom(q, 2) => KAFrom(t, 1)
        BY <1>2
    <2>2. KAFrom(q, 3) => KAFrom(t, 2)
        BY <1>2
    <2>3. 2 <= Len(q) => t[1] = q[2] /\ 1 <= Len(t)
        BY <1>1
    <2>4. Len(q) = 1 => t = <<>>
        BY <1>1, <1>3
    <2>5. \/ q[1] = Hdr("LOGIN", 1) /\ KAFrom(q, 2)
          \/ 1 = Len(q) /\ q[1] = Hdr("LOGIN", 3)
          \/ 2 <= Len(q) /\ q[1] = Hdr("LOGIN", 3) /\ IsTok(q[2]) /\ KAFrom(q, 3)
        BY <1>1, <1>4, <1>5 DEF LoginAt
    <2> QED
        BY <2>1, <2>2, <2>3, <2>4, <2>5 DEF t
<1>6. CASE p # 1
    <2>1. p - 1 \in 1..Len(t) + 1 /\ p \in 2..Len(q) + 1 /\ p - 1 \in Nat
        BY <1>1, <1>6
    <2>2. q[1] = KA
        BY <1>4, <2>1
    <2>3. \A n \in 1..(p - 1) - 1 : t[n] = KA
        <3> SUFFICES ASSUME NEW n \in 1..(p - 1) - 1 PROVE t[n] = KA
            OBVIOUS
        <3>1. n \in 1..Len(q) - 1 /\ n + 1 \in 1..p - 1
            BY <1>1, <2>1
        <3> QED
            BY <1>1, <1>4, <3>1
    <2>4. LoginAt(t, p - 1)
        <3>1. KAFrom(q, p + 1) => KAFrom(t, p)
            BY <1>2, <2>1
        <3>2. KAFrom(q, p + 2) => KAFrom(t, p + 1)
            <4>1. p + 1 \in Nat /\ 1 <= p + 1 /\ (p + 1) + 1 = p + 2
                BY <2>1
            <4> QED
                BY <1>2, <4>1
        <3>3. p <= Len(q) => t[p - 1] = q[p] /\ p - 1 <= Len(t)
            <4> SUFFICES ASSUME p <= Len(q) PROVE t[p - 1] = q[p] /\ p - 1 <= Len(t)
                OBVIOUS
            <4>1. p - 1 \in 1..Len(q) - 1 /\ (p - 1) + 1 = p
                BY <1>1, <2>1
            <4> QED
                BY <1>1, <4>1
        <3>4. p + 1 <= Len(q) => t[p] = q[p + 1] /\ p <= Len(t)
            <4> SUFFICES ASSUME p + 1 <= Len(q) PROVE t[p] = q[p + 1] /\ p <= Len(t)
                OBVIOUS
            <4>1. p \in 1..Len(q) - 1
                BY <1>1, <2>1
            <4> QED
                BY <1>1, <4>1
        <3>5. (p - 1) + 1 = p /\ (p - 1) + 2 = p + 1
            BY <2>1
        <3>6. CASE p = Len(q) + 1
            <4>1. p - 1 = Len(t) + 1
                BY <1>1, <3>6
            <4> QED
                BY <4>1 DEF LoginAt
        <3>7. CASE p <= Len(q) /\ q[p] = Hdr("LOGIN", 1) /\ KAFrom(q, p + 1)
            BY <3>1, <3>3, <3>5, <3>7 DEF LoginAt
        <3>8. CASE p = Len(q) /\ q[p] = Hdr("LOGIN", 3)
            <4>1. p - 1 = Len(t) /\ t[p - 1] = Hdr("LOGIN", 3)
                BY <1>1, <3>3, <3>8
            <4> QED
                BY <4>1 DEF LoginAt
        <3>9. CASE p + 1 <= Len(q) /\ q[p] = Hdr("LOGIN", 3) /\ IsTok(q[p + 1]) /\ KAFrom(q, p + 2)
            <4>1. p <= Len(q)
                BY <1>1, <2>1, <3>9
            <4>2. (p - 1) + 1 <= Len(t) /\ t[p - 1] = Hdr("LOGIN", 3) /\ IsTok(t[(p - 1) + 1])
                  /\ KAFrom(t, (p - 1) + 2)
                BY <3>2, <3>3, <3>4, <3>5, <3>9, <4>1
            <4> QED
                BY <4>2 DEF LoginAt
        <3> QED
            BY <1>4, <3>6, <3>7, <3>8, <3>9 DEF LoginAt
    <2>5. LoginIn(t)
        BY <2>1, <2>3, <2>4 DEF LoginIn
    <2> QED
        BY <2>2, <2>5 DEF t
<1> QED
    BY <1>5, <1>6

(* What the server reads next, and what is left behind it.                  *)
LEMMA NextUnit ==
    ASSUME EInv, NEW s \in Session, pc[s] \in Receiving, c2s[s] # <<>>
    PROVE  LET q == c2s[s]
               t == Tail(c2s[s]) IN
           /\ Head(q) = q[1]
           /\ pc[s] = "hdr" /\ role[s] = "fwd" /\ type[s] = "NULL" =>
                 \/ q[1] = KA /\ LoginIn(t)
                 \/ q[1] = Hdr("LOGIN", 1) /\ KAFrom(t, 1)
                 \/ q[1] = Hdr("LOGIN", 3) /\ t = <<>>
                 \/ q[1] = Hdr("LOGIN", 3) /\ 1 <= Len(t) /\ IsTok(t[1]) /\ KAFrom(t, 2)
           /\ pc[s] = "hdr" /\ role[s] = "fwd" /\ type[s] # "NULL" =>
                 q[1] = KA /\ KAFrom(t, 1)
           /\ pc[s] = "hdr" /\ role[s] # "fwd" =>
                 /\ q[1] = Hdr(IF role[s] = "con" THEN "CONNECT" ELSE "ACCEPT", 1)
                 /\ 1 <= Len(t) /\ IsTok(t[1]) /\ OpensAt(s, t, 1)
           /\ pc[s] = "loginTok" =>
                 role[s] = "fwd" /\ IsTok(q[1]) /\ KAFrom(t, 1)
           /\ pc[s] \in {"connTok", "accTok"} => IsTok(q[1]) /\ OpensAt(s, t, 0)
           /\ pc[s] = "connTok" => role[s] = "con"
           /\ pc[s] = "accTok" => role[s] = "acc"
<1> DEFINE q == c2s[s]
           t == Tail(q)
<1>0. /\ Carries(s) /\ cend[s] # "none" /\ role[s] \in {"fwd", "acc", "con"}
      /\ FromFwd(s) /\ FromTask(s) /\ RoleOf(s)
      /\ q \in Seq(Unit) /\ crypto \in BOOLEAN
    BY Reading
<1>1. /\ t \in Seq(Unit) /\ Len(t) = Len(q) - 1 /\ Head(q) = q[1]
      /\ 1 <= Len(q) /\ Len(q) \in Nat
      /\ \A n \in 1..Len(q) - 1 : t[n] = q[n + 1]
    BY <1>0, TailIs
<1>2. \A m \in Nat : 1 <= m /\ KAFrom(q, m + 1) => KAFrom(t, m)
    BY <1>0, KATail
<1>3. KAFrom(q, 1) => q[1] = KA /\ KAFrom(t, 1)
    <2>1. KAFrom(q, 1) => q[1] = KA /\ KAFrom(q, 2)
        BY <1>1 DEF KAFrom
    <2>2. KAFrom(q, 2) => KAFrom(t, 1)
        BY <1>2
    <2> QED
        BY <2>1, <2>2
<1>4. role[s] # "fwd" => \A m \in Nat : OpensAt(s, q, m + 1) => OpensAt(s, t, m)
    BY <1>0, OpensTail
<1>5. LoginIn(q) =>
         \/ q[1] = KA /\ LoginIn(t)
         \/ q[1] = Hdr("LOGIN", 1) /\ KAFrom(t, 1)
         \/ q[1] = Hdr("LOGIN", 3) /\ t = <<>>
         \/ q[1] = Hdr("LOGIN", 3) /\ 1 <= Len(t) /\ IsTok(t[1]) /\ KAFrom(t, 2)
    BY <1>0, LoginTail
<1> HIDE DEF t
<1>7. role[s] = "fwd" =>
        /\ pc[s] = "hdr" /\ type[s] = "NULL" => LoginIn(q)
        /\ pc[s] = "loginTok" => IsTok(q[1]) /\ KAFrom(q, 2)
        /\ type[s] # "NULL" => KAFrom(q, 1)
    BY <1>0 DEF FromFwd
<1>8. role[s] # "fwd" =>
        /\ pc[s] = "hdr" =>
              /\ 2 <= Len(q) /\ IsTok(q[2]) /\ OpensAt(s, q, 2)
              /\ q[1] = Hdr(IF role[s] = "con" THEN "CONNECT" ELSE "ACCEPT", 1)
        /\ pc[s] \in {"connTok", "accTok"} => IsTok(q[1]) /\ OpensAt(s, q, 1)
    BY <1>0 DEF FromTask
<1>9. /\ pc[s] = "loginTok" => role[s] = "fwd"
      /\ pc[s] = "connTok" => role[s] = "con"
      /\ pc[s] = "accTok" => role[s] = "acc"
    BY <1>0 DEF RoleOf
<1>10. role[s] # "fwd" => (OpensAt(s, q, 2) => OpensAt(s, t, 1)) /\ (OpensAt(s, q, 1) => OpensAt(s, t, 0))
    BY <1>4
<1>11. KAFrom(q, 2) => KAFrom(t, 1)
    BY <1>2
<1>12. 2 <= Len(q) => t[1] = q[2] /\ 1 <= Len(t)
    BY <1>1
<1> HIDE DEF q
<1>13. role[s] = "fwd" =>
         /\ pc[s] = "hdr" /\ type[s] = "NULL" =>
                 \/ q[1] = KA /\ LoginIn(t)
                 \/ q[1] = Hdr("LOGIN", 1) /\ KAFrom(t, 1)
                 \/ q[1] = Hdr("LOGIN", 3) /\ t = <<>>
                 \/ q[1] = Hdr("LOGIN", 3) /\ 1 <= Len(t) /\ IsTok(t[1]) /\ KAFrom(t, 2)
         /\ pc[s] = "hdr" /\ type[s] # "NULL" => q[1] = KA /\ KAFrom(t, 1)
         /\ pc[s] = "loginTok" => IsTok(q[1]) /\ KAFrom(t, 1)
    BY <1>3, <1>5, <1>7, <1>11
<1>14. role[s] # "fwd" =>
        /\ pc[s] = "hdr" =>
                 /\ q[1] = Hdr(IF role[s] = "con" THEN "CONNECT" ELSE "ACCEPT", 1)
                 /\ 1 <= Len(t) /\ IsTok(t[1]) /\ OpensAt(s, t, 1)
        /\ pc[s] \in {"connTok", "accTok"} => IsTok(q[1]) /\ OpensAt(s, t, 0)
    BY <1>8, <1>10, <1>12
<1>15. Head(q) = q[1]
    BY <1>1
<1> QED
    BY <1>9, <1>13, <1>14, <1>15 DEF q, t

(* Keep-alives are not the end of a login.                                  *)
LEMMA LastKA ==
    ASSUME NEW t \in Seq(Unit), KAFrom(t, 1) \/ (t # <<>> /\ IsTok(t[1]) /\ KAFrom(t, 2))
    PROVE  t # <<>> => t[Len(t)] # Hdr("LOGIN", 3)
<1> SUFFICES ASSUME t # <<>> PROVE t[Len(t)] # Hdr("LOGIN", 3)
    OBVIOUS
<1>1. Len(t) \in Nat /\ 1 <= Len(t)
    BY TailIs
<1>2. Hdr("LOGIN", 3).unit = "hdr" /\ Hdr("LOGIN", 3).cmd = "LOGIN" /\ KA.cmd = "KEEP_ALIVE"
    BY DEF Hdr, KA
<1>3. \/ t[Len(t)] = KA \/ (Len(t) = 1 /\ IsTok(t[1]))
    BY <1>1 DEF KAFrom
<1> QED
    BY <1>2, <1>3 DEF IsTok

(* What the server takes off a forwarder's stream, against how far the      *)
(* forward task is with its login.                                          *)
LEMMA StageTail ==
    ASSUME EInv, NEW s \in Session, role[s] = "fwd", pc[s] \in Receiving, c2s[s] # <<>>,
           c2s'[s] = Tail(c2s[s]), UNCHANGED <<fpc, fconn, tab, base>>,
           \/ /\ pc[s] = "hdr" /\ c2s[s][1] = KA /\ pc'[s] = "hdr" /\ type'[s] = type[s]
           \/ /\ pc[s] = "hdr" /\ c2s[s][1] = Hdr("LOGIN", 3) /\ type[s] = "NULL"
              /\ pc'[s] = "loginTok"
           \/ /\ \/ pc[s] = "hdr" /\ c2s[s][1] = Hdr("LOGIN", 1) /\ type[s] = "NULL"
                 \/ pc[s] = "loginTok"
              /\ Stage(s) \notin {"before", "half"} => pc'[s] = "hdr"
    PROVE  /\ Stage(s)' = "before" => /\ pc'[s] = "hdr" /\ type'[s] = "NULL"
                                      /\ KAFrom(Tail(c2s[s]), 1)
           /\ Stage(s)' = "half" => Half(s)'
           /\ Stage(s)' = "full" => ~Half(s)'
           /\ pc[s] = "loginTok" \/ c2s[s][1] = Hdr("LOGIN", 1) =>
                 Stage(s) \notin {"before", "half"}
<1>0. PICK q, t : q = c2s[s] /\ t = Tail(c2s[s])
    OBVIOUS
<1>1. FromFwd(s) /\ Carries(s) /\ q \in Seq(Unit) /\ q # <<>>
    BY <1>0, Reading
<1>2. /\ t \in Seq(Unit) /\ Len(q) \in Nat /\ 1 <= Len(q)
      /\ t # <<>> => t[Len(t)] = q[Len(q)]
      /\ t = <<>> => Len(q) = 1
    BY <1>0, <1>1, LastTail, TailIs
<1>3. /\ pc[s] = "hdr" /\ type[s] = "NULL" =>
                 \/ q[1] = KA
                 \/ q[1] = Hdr("LOGIN", 1) /\ KAFrom(t, 1)
                 \/ q[1] = Hdr("LOGIN", 3) /\ t = <<>>
                 \/ q[1] = Hdr("LOGIN", 3) /\ t # <<>> /\ IsTok(t[1]) /\ KAFrom(t, 2)
      /\ pc[s] = "loginTok" => KAFrom(t, 1)
    <2>1. 1 <= Len(t) => t # <<>>
        BY <1>2, EmptySeq
    <2> QED
        BY <1>0, <2>1, NextUnit
<1>4. Stage(s)' = Stage(s)
    BY StageKept
<1>5. KA # Hdr("LOGIN", 3) /\ KA # Hdr("LOGIN", 1) /\ Hdr("LOGIN", 1) # Hdr("LOGIN", 3)
    BY Headers
<1>6. /\ Half(s) <=> \/ pc[s] = "loginTok" /\ q = <<>>
                     \/ pc[s] = "hdr" /\ q[Len(q)] = Hdr("LOGIN", 3)
      /\ pc'[s] = "hdr" => (Half(s)' <=> t # <<>> /\ t[Len(t)] = Hdr("LOGIN", 3))
      /\ pc'[s] = "loginTok" => (Half(s)' <=> t = <<>>)
    <2>1. pc[s] # "idle" /\ c2s'[s] = t
        BY <1>0 DEF Receiving
    <2>2. Half(s) <=> \/ pc[s] = "loginTok" /\ q = <<>>
                      \/ pc[s] = "hdr" /\ q[Len(q)] = Hdr("LOGIN", 3)
        BY <1>0, <1>1, <2>1 DEF Half
    <2>3. Half(s)' <=> \/ pc'[s] = "loginTok" /\ t = <<>>
                       \/ pc'[s] \in {"idle", "hdr"} /\ t # <<>> /\ t[Len(t)] = Hdr("LOGIN", 3)
        BY <2>1 DEF Half, Hdr
    <2> QED
        BY <2>2, <2>3
<1>7. /\ Stage(s) = "before" => pc[s] = "hdr" /\ type[s] = "NULL" /\ KAFrom(q, 1)
      /\ Stage(s) = "half" => Half(s)
      /\ Stage(s) = "full" => ~Half(s)
    BY <1>0, <1>1 DEF FromFwd, Receiving
<1>8. KAFrom(q, 1) => q[1] = KA /\ KAFrom(t, 1)
    <2>1. KAFrom(q, 1) => q[1] = KA /\ KAFrom(q, 1 + 1)
        BY <1>2 DEF KAFrom
    <2>2. KAFrom(q, 1 + 1) => KAFrom(t, 1)
        BY <1>0, <1>1, KATail
    <2> QED
        BY <2>1, <2>2
<1>9. CASE pc[s] = "hdr" /\ q[1] = KA /\ pc'[s] = "hdr" /\ type'[s] = type[s]
    <2>1. Half(s)' <=> Half(s)
        BY <1>2, <1>5, <1>6, <1>9
    <2> QED
        BY <1>0, <1>4, <1>5, <1>7, <1>8, <1>9, <2>1
<1>10. CASE pc[s] = "hdr" /\ q[1] = Hdr("LOGIN", 3) /\ type[s] = "NULL" /\ pc'[s] = "loginTok"
    <2>1. Half(s)' <=> Half(s)
        <3>1. CASE t = <<>>
            BY <1>2, <1>6, <1>10, <3>1
        <3>2. CASE t # <<>>
            <4>1. IsTok(t[1]) /\ KAFrom(t, 2)
                BY <1>3, <1>5, <1>10, <3>2
            <4>2. t[Len(t)] # Hdr("LOGIN", 3)
                BY <1>2, <3>2, <4>1, LastKA
            <4> QED
                BY <1>2, <1>6, <1>10, <3>2, <4>2
        <3> QED
            BY <3>1, <3>2
    <2> QED
        BY <1>0, <1>4, <1>5, <1>7, <1>8, <1>10, <2>1
<1>11. CASE /\ \/ pc[s] = "hdr" /\ q[1] = Hdr("LOGIN", 1) /\ type[s] = "NULL"
               \/ pc[s] = "loginTok"
            /\ Stage(s) \notin {"before", "half"} => pc'[s] = "hdr"
    <2>1. KAFrom(t, 1)
        BY <1>3, <1>5, <1>11
    <2>2. t # <<>> => t[Len(t)] # Hdr("LOGIN", 3)
        BY <1>2, <2>1, LastKA
    <2>3. ~Half(s)
        <3>1. CASE pc[s] = "loginTok"
            BY <1>1, <1>6, <3>1
        <3>2. CASE pc[s] = "hdr" /\ q[1] = Hdr("LOGIN", 1)
            BY <1>2, <1>5, <1>6, <2>2, <3>2
        <3> QED
            BY <1>11, <3>1, <3>2
    <2>4. Stage(s) \notin {"before", "half"}
        BY <1>5, <1>7, <1>8, <1>11, <2>3
    <2>5. pc'[s] = "hdr" => ~Half(s)'
        BY <1>6, <2>2
    <2> QED
        BY <1>4, <1>11, <2>4, <2>5
<1> QED
    BY <1>0, <1>9, <1>10, <1>11

(* The forward task's side of a step that sends it m.                       *)
LEMMA ToFwdGets ==
    ASSUME EInv, UNCHANGED <<fpc, fconn, cend>>, fpc \in LoggingIn,
           NEW m \in Unit, s2c'[fconn] = Append(s2c[fconn], m),
           LoggedIn(fconn) => LoggedIn(fconn)', cend[fconn] = "open",
           \/ /\ m.cmd = "TOKEN" /\ fpc \in {"token", "dispatch"}
              /\ ~LoggedIn(fconn) /\ LoggedIn(fconn)'
           \/ /\ Asks(m) \/ Echo(m)
              /\ type[fconn] = "NULL" => Echo(m) /\ type'[fconn] = "NULL"
    PROVE  ToFwd'
<1>0. PICK q : q = s2c[fconn]
    OBVIOUS
<1>1. fconn \in Session /\ q \in Seq(Unit)
    BY <1>0 DEF EInv, BInv, FlightInv, ETypeOK, StreamInv
<1>5. PICK r : r = Append(q, m)
    OBVIOUS
<1>2. /\ Len(r) = Len(q) + 1 /\ Len(q) \in Nat
      /\ \A n \in 1..Len(q) : r[n] = q[n]
      /\ r[Len(q) + 1] = m
    BY <1>1, <1>5, AppendIs
<1>4. ASSUME NEW k \in {1, 2}, Later(q, k), Asks(m) \/ Echo(m)
      PROVE  Later(r, k)'
    <2> SUFFICES ASSUME NEW n \in k..Len(r) PROVE Asks(r[n]) \/ Echo(r[n])
        BY DEF Later, Asks, Echo
    <2>1. CASE n = Len(q) + 1
        BY <1>2, <1>4, <2>1
    <2>2. CASE n \in k..Len(q)
        BY <1>2, <1>4, <2>2 DEF Later
    <2> QED
        BY <1>2, <2>1, <2>2
<1>8. s2c'[fconn] = r
    BY <1>0, <1>5
<1>3. ToFwd /\ fpc' = fpc /\ fconn' = fconn
    BY DEF EInv, CInv
<1>6. CASE fpc = "dispatch"
    <2>1. LoggedIn(fconn) /\ Later(q, 1)
        BY <1>0, <1>3, <1>6 DEF ToFwd
    <2>2. Later(r, 1)'
        BY <1>4, <2>1
    <2> QED
        BY <1>8, <1>3, <1>6, <2>1, <2>2 DEF ToFwd
<1>7. CASE fpc = "token"
    <2> SUFFICES \/ LoggedIn(fconn)' /\ Answered(r)'
                 \/ 1 <= Len(r) /\ Echo(r[1])
        BY <1>8, <1>3, <1>7 DEF ToFwd, Echo
    <2>1. CASE q = <<>> /\ type[fconn] = "NULL"
        <3>1. Len(q) = 0
            BY <2>1, EmptySeq
        <3>2. r[1] = m /\ Len(r) = 1
            BY <1>2, <3>1
        <3>3. Later(r, 2)'
            BY <3>2 DEF Later
        <3>4. m.cmd = "TOKEN" => Answered(r)'
            BY <3>2, <3>3 DEF Answered
        <3> QED
            BY <2>1, <3>2, <3>4
    <2>2. CASE LoggedIn(fconn) /\ Answered(q)
        <3>1. Later(r, 2)'
            BY <1>4, <2>2 DEF Answered
        <3>2. r[1] = q[1] /\ 1 <= Len(r)
            BY <1>2, <2>2 DEF Answered
        <3>3. Answered(r)'
            BY <2>2, <3>1, <3>2 DEF Answered
        <3> QED
            BY <2>2, <3>3
    <2>3. CASE 1 <= Len(q) /\ Echo(q[1])
        BY <1>2, <2>3
    <2> QED
        BY <1>0, <1>3, <1>7, <2>1, <2>2, <2>3 DEF ToFwd
<1>9. CASE fpc \in {"login", "logintok"}
    <2>1. type[fconn] = "NULL" /\ \A n \in 1..Len(q) : Echo(q[n])
        BY <1>0, <1>3, <1>9 DEF ToFwd
    <2>2. Echo(m) /\ type'[fconn] = "NULL"
        BY <1>9, <2>1
    <2>3. \A n \in 1..Len(r) : Echo(r[n])
        <3> SUFFICES ASSUME NEW n \in 1..Len(r) PROVE Echo(r[n])
            OBVIOUS
        <3>1. n \in 1..Len(q) \/ n = Len(q) + 1
            BY <1>2
        <3> QED
            BY <1>2, <2>1, <2>2, <3>1
    <2> QED
        BY <1>8, <1>3, <1>9, <2>2, <2>3 DEF ToFwd, Echo
<1> QED
    BY <1>6, <1>7, <1>9 DEF LoggingIn

(* The server reads a header that a token follows.                          *)
LEMMA SrvHeaderInv ==
    ASSUME EInv, NEW s \in Session, SrvHeader(s)
    PROVE  CInv'
<1> DEFINE q == c2s[s]
           t == Tail(c2s[s])
<1>1. /\ pc[s] = "hdr" /\ c2s[s] # <<>> /\ c2s' = Take(s)
      /\ UNCHANGED <<s2c, clientVars, type, remote_fd, sfd, open, issued>>
      /\ \/ Head(q) = Hdr("LOGIN", 3) /\ pc' = [pc EXCEPT ![s] = "loginTok"] /\ type[s] = "NULL"
         \/ Head(q) = Hdr("CONNECT", 1) /\ pc' = [pc EXCEPT ![s] = "connTok"] /\ type[s] = "NULL"
         \/ Head(q) = Hdr("ACCEPT", 1) /\ pc' = [pc EXCEPT ![s] = "accTok"]
    BY DEF SrvHeader, Arrived, RecvLogin, RecvConnect, RecvAccept, RecvBody, regVars,
       ioVars, locVars
<1>2. FwdInv' /\ FdsInv' /\ Mono
    BY <1>1, ServerFrame DEF NoLoss
<1>3. /\ c2s' \in [Session -> Seq(Unit)] /\ c2s'[s] = t
      /\ \A y \in Session : y # s => c2s'[y] = c2s[y]
    BY <1>1, TakeIs DEF EInv, BInv, CInv
<1>5. /\ Live(s) /\ s \in open /\ Carries(s) /\ remote_fd[s] = None
      /\ Alone(s) /\ cend[s] # "none" /\ role[s] \in {"fwd", "acc", "con"}
      /\ RoleOf(s) /\ sfd[s] = None
    BY <1>1, Reading DEF Receiving
<1>6. /\ Head(q) = q[1]
      /\ role[s] = "fwd" /\ type[s] = "NULL" =>
                 \/ q[1] = KA
                 \/ q[1] = Hdr("LOGIN", 1)
                 \/ q[1] = Hdr("LOGIN", 3) /\ t = <<>>
                 \/ q[1] = Hdr("LOGIN", 3) /\ IsTok(t[1]) /\ KAFrom(t, 2)
      /\ role[s] = "fwd" /\ type[s] # "NULL" => q[1] = KA /\ KAFrom(t, 1)
      /\ role[s] # "fwd" =>
                 /\ q[1] = Hdr(IF role[s] = "con" THEN "CONNECT" ELSE "ACCEPT", 1)
                 /\ 1 <= Len(t) /\ IsTok(t[1]) /\ OpensAt(s, t, 1)
    BY <1>1, NextUnit DEF Receiving
<1> HIDE DEF q, t
<1>7. role[s] = "fwd" =>
          \/ q[1] = Hdr("LOGIN", 1)
          \/ q[1] = Hdr("LOGIN", 3) /\ (t = <<>> \/ (IsTok(t[1]) /\ KAFrom(t, 2)))
          \/ q[1] = KA
    BY <1>6
<1>15. /\ role[s] = "con" => q[1] = Hdr("CONNECT", 1)
       /\ role[s] = "acc" => q[1] = Hdr("ACCEPT", 1)
       /\ role[s] # "fwd" => 1 <= Len(t) /\ IsTok(t[1]) /\ OpensAt(s, t, 1)
    BY <1>6
<1>16. \/ q[1] = Hdr("LOGIN", 3) /\ pc'[s] = "loginTok" /\ type[s] = "NULL"
       \/ q[1] = Hdr("CONNECT", 1) /\ pc'[s] = "connTok" /\ type[s] = "NULL"
       \/ q[1] = Hdr("ACCEPT", 1) /\ pc'[s] = "accTok"
    <2>1. pc \in [Session -> Label] /\ Head(q) = q[1]
        BY <1>6 DEF EInv, BInv, IInv, TypeOK
    <2> QED
        BY <1>1, <2>1
<1>8. \/ /\ role[s] = "fwd" /\ pc'[s] = "loginTok" /\ type[s] = "NULL"
         /\ q[1] = Hdr("LOGIN", 3) /\ (t = <<>> \/ (IsTok(t[1]) /\ KAFrom(t, 2)))
      \/ /\ role[s] = "con" /\ pc'[s] = "connTok" /\ type[s] = "NULL"
         /\ 1 <= Len(t) /\ IsTok(t[1]) /\ OpensAt(s, t, 1)
      \/ /\ role[s] = "acc" /\ pc'[s] = "accTok"
         /\ 1 <= Len(t) /\ IsTok(t[1]) /\ OpensAt(s, t, 1)
    BY <1>5, <1>7, <1>15, <1>16, Headers
<1>17. \A y \in Session : y # s => pc'[y] = pc[y]
    BY <1>1 DEF EInv, BInv, IInv, TypeOK
<1>9. UNCHANGED <<role, cend, crypto>> /\ c2s'[s] = t
    BY <1>1, <1>3 DEF clientVars, taskVars, cfgVars
<1>10. RoleOf(s)'
    BY <1>1, <1>5, <1>8, <1>9 DEF RoleOf
<1>11. FromFwd(s)'
    <2> SUFFICES ASSUME role[s] = "fwd" PROVE FromFwd(s)'
        BY <1>9 DEF FromFwd
    <2>1. /\ Stage(s)' = "before" => FALSE
          /\ Stage(s)' = "half" => Half(s)'
          /\ Stage(s)' = "full" => ~Half(s)'
        <3>1. UNCHANGED <<fpc, fconn, tab, base>>
            BY <1>1 DEF clientVars, fwdVars, fdVars
        <3>2. c2s'[s] = Tail(c2s[s]) /\ c2s[s][1] = Hdr("LOGIN", 3)
            BY <1>8, <1>9 DEF q, t
        <3> QED
            BY <1>1, <1>8, <3>1, <3>2, StageTail DEF Receiving
    <2>2. pc'[s] = "loginTok" /\ type'[s] = "NULL" /\ c2s'[s] = t
        BY <1>1, <1>8, <1>9
    <2>3. PICK u : u = t
        OBVIOUS
    <2>4. u = <<>> \/ (IsTok(u[1]) /\ KAFrom(u, 2))
        BY <1>8, <2>3
    <2>5. u = <<>> \/ (IsTok(u[1])' /\ KAFrom(u, 2)')
        BY <1>2, <2>4, Mono1
    <2> QED
        BY <2>1, <2>2, <2>3, <2>5 DEF FromFwd
<1>12. FromTask(s)'
    BY <1>1, <1>2, <1>8, <1>9, Mono1 DEF FromTask
<1>13. Rest'
    <2>1. \A y \in Session \ {s} : SrvSame(y)
        BY <1>1, <1>3, <1>17 DEF SrvSame
    <2>2. pc'[s] # "idle" /\ UNCHANGED taskVars
        BY <1>1, <1>8 DEF clientVars
    <2> QED
        BY <1>1, <1>2, <1>5, <1>10, <1>11, <1>12, <2>1, <2>2, OneStep
<1>14. ToFwd'
    <2>1. ASSUME NEW f \in Session
          PROVE  /\ s2c'[f] = s2c[f] /\ (LoggedIn(f) => LoggedIn(f)')
                 /\ type[f] = "NULL" => type'[f] = "NULL"
        BY <1>1, <1>17 DEF LoggedIn
    <2>2. fpc \in LoggingIn => fconn \in Session
        BY DEF EInv, BInv, CInv, FlightInv, ETypeOK
    <2> QED
        BY <1>1, <1>2, <2>1, <2>2, ToFwdFrame DEF clientVars, fwdVars, taskVars
<1> QED
    BY <1>2, <1>13, <1>14 DEF CInv, Rest

(* The forward task's side of a step that sends m to connection f.          *)
LEMMA ToFwdSent ==
    ASSUME EInv, UNCHANGED <<fpc, fconn, cend>>,
           NEW f \in Session, NEW m \in Unit, Deliver(f, m),
           \A y \in Session : LoggedIn(y) => LoggedIn(y)',
           \A y \in Session : y # f /\ role[y] = "fwd" /\ type[y] = "NULL"
                                => type'[y] = "NULL",
           \/ /\ m.cmd = "TOKEN" /\ Stage(f) \notin {"before", "half"}
              /\ ~LoggedIn(f) /\ LoggedIn(f)'
           \/ /\ Asks(m) \/ Echo(m)
              /\ type[f] = "NULL" => Echo(m) /\ type'[f] = "NULL"
    PROVE  ToFwd'
<1>1. /\ s2c'[f] = IF cend[f] = "open" THEN Append(s2c[f], m) ELSE s2c[f]
      /\ \A y \in Session : y # f => s2c'[y] = s2c[y]
    BY DeliverIs DEF EInv, BInv
<1>2. fpc \in LoggingIn => fconn \in Session /\ role[fconn] = "fwd"
    BY DEF EInv, BInv, FlightInv, ETypeOK
<1>3. CASE fpc \in LoggingIn /\ cend[fconn] = "open" /\ fconn = f
    <2>1. s2c'[fconn] = Append(s2c[fconn], m)
        BY <1>1, <1>2, <1>3
    <2>2. LoggedIn(fconn) => LoggedIn(fconn)'
        <3>1. LoggedIn(fconn) => LoggedIn(f)
            BY <1>3
        <3>2. LoggedIn(f)' => LoggedIn(fconn)'
            BY <1>3 DEF LoggedIn
        <3> QED
            BY <3>1, <3>2
    <2>3. /\ LoggedIn(f) <=> LoggedIn(fconn)
          /\ LoggedIn(f)' <=> LoggedIn(fconn)'
        BY <1>3 DEF LoggedIn
    <2>4. Stage(f) \notin {"before", "half"} => fpc \in {"token", "dispatch"}
        BY <1>3 DEF Stage, LoggingIn, EInv, CInv, FwdInv
    <2> QED
        BY <1>3, <2>1, <2>2, <2>3, <2>4, ToFwdGets
<1>4. CASE ~(fpc \in LoggingIn /\ cend[fconn] = "open" /\ fconn = f)
    <2>1. fpc \in LoggingIn /\ cend[fconn] = "open" =>
              /\ s2c'[fconn] = s2c[fconn]
              /\ type[fconn] = "NULL" => type'[fconn] = "NULL"
        BY <1>1, <1>2, <1>4
    <2>2. fpc \in LoggingIn => (LoggedIn(fconn) => LoggedIn(fconn)')
        BY <1>2 DEF LoggedIn
    <2> QED
        BY <2>1, <2>2, ToFwdFrame
<1> QED
    BY <1>3, <1>4

(* The server echoes a keep-alive.                                          *)
LEMMA SrvKeepAliveInv ==
    ASSUME EInv, NEW s \in Session, SrvKeepAlive(s)
    PROVE  CInv'
<1> DEFINE q == c2s[s]
           t == Tail(c2s[s])
           m == Msg("KEEP_ALIVE", None)
<1>1. /\ pc[s] = "hdr" /\ c2s[s] # <<>> /\ Head(q) = KA /\ c2s' = Take(s)
      /\ Deliver(s, m) /\ UNCHANGED clientVars
      /\ UNCHANGED <<pc, type, remote_fd, sfd, open, issued>>
    BY DEF SrvKeepAlive, Arrived, KA, vars, regVars, ioVars, locVars
<1>2. FwdInv' /\ FdsInv' /\ Mono
    BY <1>1, ServerFrame DEF NoLoss
<1>3. /\ c2s' \in [Session -> Seq(Unit)] /\ c2s'[s] = t
      /\ \A y \in Session : y # s => c2s'[y] = c2s[y]
    BY <1>1, TakeIs DEF EInv, BInv, CInv
<1>4. m \in Unit /\ m.cmd = "KEEP_ALIVE"
    <2>1. m \in Unit
        BY AreUnits
    <2>2. m.cmd = "KEEP_ALIVE"
        BY DEF Msg
    <2> QED
        BY <2>1, <2>2
<1> HIDE DEF m
<1>5. /\ s2c' \in [Session -> Seq(Unit)]
      /\ s2c'[s] = IF cend[s] = "open" THEN Append(s2c[s], m) ELSE s2c[s]
      /\ \A y \in Session : y # s => s2c'[y] = s2c[y]
    BY <1>1, <1>4, DeliverIs DEF EInv, BInv, CInv
<1>7. /\ Live(s) /\ s \in open /\ Carries(s) /\ remote_fd[s] = None
      /\ Alone(s) /\ cend[s] # "none" /\ role[s] \in {"fwd", "acc", "con"}
      /\ RoleOf(s) /\ sfd[s] = None
    BY <1>1, Reading DEF Receiving
<1>8. /\ Head(q) = q[1]
      /\ role[s] = "fwd" /\ type[s] = "NULL" =>
                 \/ q[1] = Hdr("LOGIN", 1)
                 \/ q[1] = Hdr("LOGIN", 3)
                 \/ q[1] = KA /\ LoginIn(t)
      /\ role[s] = "fwd" /\ type[s] # "NULL" => q[1] = KA /\ KAFrom(t, 1)
      /\ role[s] = "con" => q[1] = Hdr("CONNECT", 1)
      /\ role[s] = "acc" => q[1] = Hdr("ACCEPT", 1)
    BY <1>1, NextUnit DEF Receiving
<1> HIDE DEF q, t
<1>9. /\ role[s] = "fwd"
      /\ type[s] = "NULL" => LoginIn(t)
      /\ type[s] # "NULL" => KAFrom(t, 1)
    BY <1>1, <1>7, <1>8, Headers
<1>10. UNCHANGED <<role, cend, crypto>> /\ c2s'[s] = t
    BY <1>1, <1>3 DEF clientVars, taskVars, cfgVars
<1>11. RoleOf(s)'
    BY <1>1, <1>7, <1>10 DEF RoleOf
<1>12. FromFwd(s)'
    <2>1. /\ Stage(s)' = "before" => pc'[s] = "hdr" /\ type'[s] = "NULL" /\ KAFrom(t, 1)
          /\ Stage(s)' = "half" => Half(s)'
          /\ Stage(s)' = "full" => ~Half(s)'
        <3>1. UNCHANGED <<fpc, fconn, tab, base>>
            BY <1>1 DEF clientVars, fwdVars, fdVars
        <3>2. c2s'[s] = Tail(c2s[s]) /\ c2s[s][1] = KA /\ t = Tail(c2s[s])
            BY <1>1, <1>8, <1>10 DEF q, t
        <3>3. pc'[s] = "hdr" /\ type'[s] = type[s] /\ c2s[s] # <<>> /\ pc[s] \in Receiving
            BY <1>1 DEF Receiving
        <3> QED
            BY <1>1, <1>9, <3>1, <3>2, <3>3, StageTail
    <2>2. pc'[s] = "hdr" /\ type'[s] = type[s] /\ c2s'[s] = t
        BY <1>1, <1>10
    <2>3. PICK u : u = t
        OBVIOUS
    <2>4. (LoginIn(u) => LoginIn(u)') /\ (KAFrom(u, 1) => KAFrom(u, 1)')
        BY <1>2, Mono1
    <2> QED
        BY <1>9, <2>1, <2>2, <2>3, <2>4 DEF FromFwd
<1>13. FromTask(s)'
    BY <1>9, <1>10 DEF FromTask
<1>14. Rest'
    <2>1. \A y \in Session \ {s} : SrvSame(y)
        BY <1>1, <1>3, <1>5 DEF SrvSame
    <2>2. pc'[s] # "idle" /\ UNCHANGED taskVars
        BY <1>1 DEF clientVars
    <2>3. s2c'[s] = s2c[s] \/ (role[s] = "fwd" /\ cend[s] = "open")
        BY <1>5, <1>9
    <2> QED
        BY <1>1, <1>2, <1>7, <1>11, <1>12, <1>13, <2>1, <2>2, <2>3, OneStep
<1>15. ToFwd'
    <2>1. UNCHANGED <<fpc, fconn, cend>>
        BY <1>1 DEF clientVars, fwdVars, taskVars
    <2>2. \A y \in Session : LoggedIn(y) => LoggedIn(y)'
        BY <1>1 DEF LoggedIn
    <2>3. Echo(m) /\ UNCHANGED type
        BY <1>1, <1>4 DEF Echo
    <2> QED
        BY <1>1, <1>4, <2>1, <2>2, <2>3, ToFwdSent
<1> QED
    BY <1>2, <1>14, <1>15 DEF CInv, Rest

(* The login, as a change of the session.                                   *)
LEMMA LoginIs ==
    ASSUME EInv, NEW s \in Session, type[s] = "NULL", NEW v, NEW k, Login(s, v, k)
    PROVE  \E E : Evictable(s, E) /\ (LoginOk(s, v, k, E) \/ Close(s, E))
<1>1. PICK E \in {{f} : f \in Find("FORWARD", k)}
                     \cup (IF Find("FORWARD", k) = {} THEN {{}} ELSE {}) :
          LoginOk(s, v, k, E) \/ Close(s, E)
    BY EndToEndAssumption DEF Login, BeginSend
<1>2. E \in SUBSET Session /\ \A f \in E : ntype[f] = "FORWARD"
    BY <1>1 DEF Find
<1>3. \A f \in E : type[f] = "FORWARD"
    BY <1>2 DEF EInv, BInv, IInv, RegistryConsistent
<1> QED
    BY <1>1, <1>2, <1>3 DEF Evictable

(* A login that is answered.                                                *)
LEMMA LoginOkIs ==
    ASSUME IInv, NEW s \in Session, type[s] = "NULL", NEW v, NEW k, NEW E,
           Evictable(s, E), LoginOk(s, v, k, E)
    PROVE  /\ pc'[s] = "hdr" /\ type'[s] = "FORWARD" /\ token'[s] = k /\ sfd'[s] = None
           /\ UNCHANGED <<open, remote_fd>>
           /\ \A y \in Session \ {s} :
                 /\ pc'[y] = pc[y] /\ sfd'[y] = sfd[y]
                 /\ type'[y] = type[y] \/ (type[y] = "FORWARD" /\ type'[y] = "CLOSED")
<1>1. \A f \in E : type[f] = "FORWARD"
    BY DEF Evictable, IInv, RegistryConsistent
<1>2. \A y \in Session : type'[y] = IF y = s THEN "FORWARD" ELSE IF y \in E THEN "CLOSED" ELSE type[y]
    BY DEF LoginOk, Upd, IInv, TypeOK
<1> QED
    BY <1>1, <1>2 DEF LoginOk, ClearLocals, ioVars, IInv, TypeOK

(* The server answers a login with TOKEN.                                   *)
LEMMA SrvLoginInv ==
    ASSUME EInv, NEW s \in Session, SrvLogin(s)
    PROVE  CInv'
<1> DEFINE q == c2s[s]
           t == Tail(c2s[s])
<1>1. /\ pc[s] \in {"hdr", "loginTok"} /\ type[s] = "NULL" /\ c2s[s] # <<>>
      /\ c2s' = Take(s) /\ UNCHANGED clientVars
      /\ pc[s] = "hdr" => Head(q) = Hdr("LOGIN", 1)
    BY DEF SrvLogin, Arrived, RecvLoginV1, RecvLoginToken, EInv, BInv, IInv, RoleAtLabel
<1>2. /\ Live(s) /\ s \in open /\ Carries(s) /\ remote_fd[s] = None
      /\ Alone(s) /\ cend[s] # "none" /\ role[s] \in {"fwd", "acc", "con"}
      /\ RoleOf(s) /\ sfd[s] = None
    BY <1>1, Reading DEF Receiving
<1>3. /\ Head(q) = q[1]
      /\ pc[s] = "hdr" /\ role[s] = "fwd" =>
                 \/ q[1] = Hdr("LOGIN", 1) /\ KAFrom(t, 1)
                 \/ q[1] = Hdr("LOGIN", 3)
                 \/ q[1] = KA
      /\ pc[s] = "hdr" /\ role[s] = "con" => q[1] = Hdr("CONNECT", 1)
      /\ pc[s] = "hdr" /\ role[s] = "acc" => q[1] = Hdr("ACCEPT", 1)
      /\ pc[s] = "loginTok" => role[s] = "fwd" /\ IsTok(q[1]) /\ KAFrom(t, 1)
    BY <1>1, NextUnit DEF Receiving
<1>4. role[s] = "fwd" /\ KAFrom(t, 1) /\ (pc[s] = "loginTok" => IsTok(Head(q)))
    <2> HIDE DEF q, t
    <2> QED
        BY <1>1, <1>2, <1>3, Headers
<1>5. PICK k : /\ k \in Sendable' /\ k \in Token /\ issued \subseteq issued'
               /\ \E v : Login(s, v, k)
    <2>1. CASE pc[s] = "hdr"
        <3>1. RecvLoginV1(s)
            BY <2>1 DEF SrvLogin
        <3> QED
            BY <3>1 DEF RecvLoginV1, Sendable, Token
    <2>2. CASE pc[s] = "loginTok"
        <3>1. RecvLoginToken(s, Head(q).val)
            BY <2>2 DEF SrvLogin, RecvLoginV1
        <3>2. Head(q).val \in Sendable /\ Head(q).val # None /\ issued \in SUBSET Session
            BY <1>4, <2>2, SessionAssumption DEF IsTok, Sendable, EInv, BInv, IInv, TypeOK
        <3> QED
            BY <3>1, <3>2 DEF RecvLoginToken, Sendable, Token
    <2> QED
        BY <1>1, <2>1, <2>2
<1>6. PICK v, E : Evictable(s, E) /\ (LoginOk(s, v, k, E) \/ Close(s, E))
    BY <1>1, <1>5, LoginIs
<1>7. /\ c2s' \in [Session -> Seq(Unit)] /\ c2s'[s] = t
      /\ \A y \in Session : y # s => c2s'[y] = c2s[y]
    BY <1>1, TakeIs DEF EInv, BInv, CInv
<1>8. IF pc'[s] = "freed" THEN Spend /\ UNCHANGED s2c
      ELSE NoLoss /\ Deliver(s, Msg("TOKEN", token'[s]))
    BY DEF SrvLogin
<1>9. FwdInv' /\ FdsInv' /\ Mono
    BY <1>1, <1>5, <1>8, ServerFrame
<1>10. UNCHANGED <<role, cend, crypto, fpc, fconn, taskVars>> /\ c2s'[s] = t
    BY <1>1, <1>7 DEF clientVars, taskVars, cfgVars, fwdVars
<1>11. CASE Close(s, E)
    <2>1. pc'[s] = "freed"
        BY <1>2, <1>6, <1>11, CloseIs DEF EInv, BInv
    <2>2. UNCHANGED s2c
        BY <1>8, <2>1
    <2>4. Rest' /\ ToFwd'
        BY <1>1, <1>2, <1>6, <1>7, <1>9, <1>11, <2>2, CloseRest
    <2> QED
        BY <1>9, <2>4 DEF CInv, Rest
<1>12. CASE LoginOk(s, v, k, E)
    <2>1. /\ pc'[s] = "hdr" /\ type'[s] = "FORWARD" /\ token'[s] = k /\ sfd'[s] = None
          /\ UNCHANGED <<open, remote_fd>>
          /\ \A y \in Session \ {s} :
                 /\ pc'[y] = pc[y] /\ sfd'[y] = sfd[y]
                 /\ type'[y] = type[y] \/ (type[y] = "FORWARD" /\ type'[y] = "CLOSED")
        BY <1>1, <1>6, <1>12, LoginOkIs DEF EInv, BInv
    <2>2. PICK m : m = Msg("TOKEN", k)
        OBVIOUS
    <2>3. Deliver(s, m)
        BY <1>8, <2>1, <2>2
    <2>4. m \in Unit
        BY <1>5, <2>2, AreUnits
    <2>5. m.cmd = "TOKEN" /\ m.val = k
        BY <2>2 DEF Msg
    <2>6. /\ s2c' \in [Session -> Seq(Unit)]
          /\ s2c'[s] = IF cend[s] = "open" THEN Append(s2c[s], m) ELSE s2c[s]
          /\ \A y \in Session : y # s => s2c'[y] = s2c[y]
        BY <2>3, <2>4, DeliverIs DEF EInv, BInv, CInv
    <2>8. RoleOf(s)'
        BY <1>4, <1>10, <2>1 DEF RoleOf
    <2>13. /\ Stage(s)' # "before" /\ Stage(s) \notin {"before", "half"}
           /\ Stage(s)' = "half" => Half(s)'
           /\ Stage(s)' = "full" => ~Half(s)'
        <3>1. UNCHANGED <<fpc, fconn, tab, base>>
            BY <1>1 DEF clientVars, fwdVars, fdVars
        <3>2. c2s'[s] = Tail(c2s[s]) /\ (pc[s] = "hdr" => c2s[s][1] = Hdr("LOGIN", 1))
            BY <1>1, <1>3, <1>10
        <3>3. pc'[s] = "hdr" /\ c2s[s] # <<>> /\ pc[s] \in Receiving
            BY <1>1, <2>1 DEF Receiving
        <3>4. Stage(s)' = Stage(s)
            BY <3>1, StageKept
        <3> QED
            BY <1>1, <1>4, <3>1, <3>2, <3>3, <3>4, StageTail
    <2>9. FromFwd(s)'
        <3>1. PICK u : u = t
            OBVIOUS
        <3>2. KAFrom(u, 1)'
            BY <1>4, <1>9, <3>1, Mono1
        <3>3. KAFrom(c2s[s], 1)'
            BY <1>10, <3>1, <3>2
        <3> QED
            BY <2>1, <2>13, <3>3 DEF FromFwd
    <2>10. FromTask(s)'
        BY <1>4, <1>10 DEF FromTask
    <2>11. Rest'
        <3>1. \A y \in Session \ {s} : SrvSame(y)
            BY <1>7, <2>1, <2>6 DEF SrvSame
        <3>2. pc'[s] # "idle" /\ remote_fd'[s] = None
            BY <1>2, <2>1
        <3>3. s2c'[s] = s2c[s] \/ (role[s] = "fwd" /\ cend[s] = "open")
            BY <1>4, <2>6
        <3> QED
            BY <1>1, <1>2, <1>9, <2>1, <2>8, <2>9, <2>10, <3>1, <3>2, <3>3, OneStep
    <2>12. ToFwd'
        <3>1. \A y \in Session : LoggedIn(y) => LoggedIn(y)'
            BY <1>1, <2>1 DEF LoggedIn
        <3>2. ~LoggedIn(s) /\ LoggedIn(s)'
            BY <1>1, <2>1 DEF LoggedIn
        <3>3. \A y \in Session : y # s /\ type[y] = "NULL" => type'[y] = "NULL"
            BY <2>1
        <3> QED
            BY <1>10, <2>3, <2>4, <2>5, <2>13, <3>1, <3>2, <3>3, ToFwdSent
    <2> QED
        BY <1>9, <2>11, <2>12 DEF CInv, Rest
<1> QED
    BY <1>6, <1>11, <1>12

(* A connect that is passed on to a forwarder.                              *)
LEMMA ConnectOkIs ==
    ASSUME IInv, NEW s \in Session, NEW k, ConnectOk(s, k)
    PROVE  /\ pc'[s] = "waitAccept" /\ type'[s] = "CONNECT" /\ token'[s] = k /\ sfd'[s] = None
           /\ UNCHANGED <<open, remote_fd>>
           /\ \A y \in Session \ {s} :
                 pc'[y] = pc[y] /\ sfd'[y] = sfd[y] /\ type'[y] = type[y]
    BY DEF ConnectOk, ClearLocals, ioVars, IInv, TypeOK

(* The step of a session with a task's connection that keeps it waiting: it *)
(* has read its token, and t is what follows.                               *)
LEMMA WaitRest ==
    ASSUME EInv, Mono, NEW s \in Session, pc[s] \in {"connTok", "accTok"},
           c2s[s] # <<>>, c2s' = Take(s), UNCHANGED <<clientVars, open, remote_fd>>,
           sfd'[s] = None, RoleOf(s)',
           pc'[s] \in {"penalty", "waitAccept", "waitConnect"},
           \A y \in Session \ {s} :
              /\ pc'[y] = pc[y] /\ sfd'[y] = sfd[y] /\ type'[y] = type[y]
              /\ s2c'[y] = s2c[y] \/ (role[y] = "fwd" /\ cend[y] = "open"),
           s2c'[s] = s2c[s]
    PROVE  Rest'
<1>1. /\ c2s'[s] = Tail(c2s[s])
      /\ \A y \in Session : y # s => c2s'[y] = c2s[y]
    BY TakeIs DEF EInv, BInv, CInv
<1>2. /\ Alone(s) /\ cend[s] # "none" /\ role[s] \in {"fwd", "acc", "con"}
      /\ remote_fd[s] = None
    BY Reading DEF Receiving
<1>3. OpensAt(s, Tail(c2s[s]), 0) /\ role[s] \in {"con", "acc"}
    BY NextUnit DEF Receiving
<1>4. FromFwd(s)'
    BY <1>3 DEF FromFwd, clientVars, taskVars
<1>5. FromTask(s)'
    <2>1. OpensAt(s, c2s[s], 0)'
        BY <1>1, <1>3, Mono1 DEF clientVars, taskVars
    <2> QED
        BY <2>1 DEF FromTask
<1>6. \A y \in Session \ {s} : SrvSame(y)
    BY <1>1 DEF SrvSame
<1>7. pc'[s] # "idle" /\ remote_fd'[s] = None
    BY <1>2
<1> QED
    BY <1>2, <1>4, <1>5, <1>6, <1>7, OneStep

(* The server reads a connector's token and tells the forwarder.            *)
LEMMA SrvConnectInv ==
    ASSUME EInv, NEW s \in Session, SrvConnect(s)
    PROVE  CInv'
<1> DEFINE q == c2s[s]
           k == Head(q).val
<1>1. /\ pc[s] = "connTok" /\ c2s[s] # <<>> /\ RecvConnectToken(s, k)
      /\ c2s' = Take(s) /\ UNCHANGED clientVars
    BY DEF SrvConnect
<1>2. /\ Live(s) /\ remote_fd[s] = None /\ RoleOf(s) /\ sfd[s] = None
      /\ type[s] = "NULL"
    BY <1>1, Reading DEF Receiving, EInv, BInv, IInv, RoleAtLabel
<1>3. role[s] = "con" /\ IsTok(Head(q))
    BY <1>1, NextUnit DEF Receiving
<1>4. k \in Sendable /\ k \in Token
    BY <1>3 DEF IsTok, Sendable, Token, EInv, BInv, IInv, TypeOK
<1> HIDE DEF k
<1>5. issued \subseteq issued'
    BY <1>1 DEF RecvConnectToken
<1>6. \/ /\ pc' = [pc EXCEPT ![s] = "penalty"]
         /\ UNCHANGED <<regVars, ioVars, locVars>>
      \/ Close(s, {})
      \/ \E key : key \in Sendable' /\ key \in Token /\ ConnectOk(s, key)
    BY <1>1, <1>4, EndToEndAssumption DEF RecvConnectToken, BeginSend, Sendable, Token
<1>7. /\ pc'[s] = "waitAccept" => NoLoss /\ \E f \in Find("FORWARD", k) :
                                            Deliver(f, Msg("CONNECT", token'[s]))
      /\ pc'[s] = "penalty" => NoLoss /\ UNCHANGED s2c
      /\ pc'[s] = "freed" => Spend /\ UNCHANGED s2c
    BY DEF SrvConnect, k
<1>8. /\ c2s' \in [Session -> Seq(Unit)]
      /\ \A y \in Session : y # s => c2s'[y] = c2s[y]
    BY <1>1, TakeIs DEF EInv, BInv, CInv
<1>9. UNCHANGED <<role, cend, crypto, fpc, fconn, taskVars>>
    BY <1>1 DEF clientVars, taskVars, cfgVars, fwdVars
<1>10. CASE Close(s, {})
    <2>1. pc'[s] = "freed" /\ Evictable(s, {})
        BY <1>2, <1>10, CloseIs DEF EInv, BInv, Evictable
    <2>2. UNCHANGED s2c /\ Spend
        BY <1>7, <2>1
    <2>3. FwdInv' /\ FdsInv' /\ Mono
        BY <1>1, <1>5, <2>2, ServerFrame
    <2>5. Rest' /\ ToFwd'
        BY <1>1, <1>2, <1>8, <1>10, <2>1, <2>2, <2>3, CloseRest
    <2> QED
        BY <2>3, <2>5 DEF CInv, Rest
<1>11. CASE pc' = [pc EXCEPT ![s] = "penalty"] /\ UNCHANGED <<regVars, ioVars, locVars>>
    <2>1. /\ pc'[s] = "penalty" /\ \A y \in Session \ {s} : pc'[y] = pc[y]
          /\ UNCHANGED <<type, remote_fd, open, sfd>>
        BY <1>11 DEF EInv, BInv, IInv, TypeOK, regVars, ioVars, locVars
    <2>2. UNCHANGED s2c /\ NoLoss
        BY <1>7, <2>1
    <2>3. FwdInv' /\ FdsInv' /\ Mono
        BY <1>1, <1>5, <2>2, ServerFrame
    <2>5. RoleOf(s)'
        BY <1>2, <1>3, <1>9, <2>1 DEF RoleOf
    <2>6. Rest'
        BY <1>1, <1>2, <1>9, <2>1, <2>2, <2>3, <2>5, WaitRest
    <2>7. ToFwd'
        <3>1. ASSUME NEW f \in Session
              PROVE  /\ s2c'[f] = s2c[f] /\ (LoggedIn(f) => LoggedIn(f)')
                     /\ type[f] = "NULL" => type'[f] = "NULL"
            BY <1>1, <2>1, <2>2 DEF LoggedIn
        <3>2. fpc \in LoggingIn => fconn \in Session
            BY DEF EInv, BInv, CInv, FlightInv, ETypeOK
        <3> QED
            BY <1>9, <2>3, <3>1, <3>2, ToFwdFrame
    <2> QED
        BY <2>3, <2>6, <2>7 DEF CInv, Rest
<1>12. ASSUME NEW key, key \in Sendable', key \in Token, ConnectOk(s, key) PROVE CInv'
    <2>1. /\ pc'[s] = "waitAccept" /\ type'[s] = "CONNECT" /\ token'[s] = key /\ sfd'[s] = None
          /\ UNCHANGED <<open, remote_fd>>
          /\ \A y \in Session \ {s} :
                 pc'[y] = pc[y] /\ sfd'[y] = sfd[y] /\ type'[y] = type[y]
        BY <1>12, ConnectOkIs DEF EInv, BInv
    <2>2. PICK f \in Find("FORWARD", k) : Deliver(f, Msg("CONNECT", key))
        BY <1>7, <2>1
    <2>3. PICK m : m = Msg("CONNECT", key)
        OBVIOUS
    <2>4. m \in Unit
        BY <1>12, <2>3, AreUnits
    <2>5. m.cmd = "CONNECT" /\ m.val = key
        BY <2>3 DEF Msg
    <2>6. f \in Session /\ type[f] = "FORWARD" /\ f # s
        BY <1>2, <2>2 DEF Find, EInv, BInv, IInv, RegistryConsistent
    <2>7. role[f] = "fwd"
        <3>1. RoleOf(f) /\ TaskAt(f) /\ role[f] \in {"none", "fwd", "acc", "con"}
            BY <2>6 DEF EInv, BInv, CInv, RoleInv, TaskInv, ETypeOK
        <3>2. pc[f] # "idle"
            BY <2>6 DEF EInv, BInv, IInv, RoleAtLabel
        <3> QED
            BY <2>6, <3>1, <3>2 DEF RoleOf, TaskAt
    <2>8. /\ s2c' \in [Session -> Seq(Unit)]
          /\ s2c'[f] = IF cend[f] = "open" THEN Append(s2c[f], m) ELSE s2c[f]
          /\ \A y \in Session : y # f => s2c'[y] = s2c[y]
        BY <2>2, <2>3, <2>4, <2>6, DeliverIs DEF EInv, BInv, CInv
    <2>9. FwdInv' /\ FdsInv' /\ Mono
        BY <1>1, <1>5, <1>7, <2>1, ServerFrame
    <2>11. RoleOf(s)'
        BY <1>3, <1>9, <2>1 DEF RoleOf
    <2>12. Rest'
        <3>1. \A y \in Session \ {s} :
                s2c'[y] = s2c[y] \/ (role[y] = "fwd" /\ cend[y] = "open")
            BY <2>7, <2>8
        <3>2. s2c'[s] = s2c[s]
            BY <2>6, <2>8
        <3> QED
            BY <1>1, <1>9, <2>1, <2>9, <2>11, <3>1, <3>2, WaitRest
    <2>13. ToFwd'
        <3>1. \A y \in Session : LoggedIn(y) => LoggedIn(y)'
            BY <2>1 DEF LoggedIn
        <3>2. Asks(m) /\ type[f] # "NULL" /\ Deliver(f, m)
            BY <2>2, <2>3, <2>5, <2>6 DEF Asks
        <3>3. \A y \in Session : y # f /\ role[y] = "fwd" /\ type[y] = "NULL"
                                   => type'[y] = "NULL"
            BY <1>3, <2>1
        <3> QED
            BY <1>9, <2>4, <2>6, <2>9, <3>1, <3>2, <3>3, ToFwdSent
    <2> QED
        BY <2>9, <2>12, <2>13 DEF CInv, Rest
<1> QED
    BY <1>6, <1>10, <1>11, <1>12

(* An accept that finds its connector hands its descriptor over.            *)
LEMMA PairIs ==
    ASSUME EInv, NEW s \in Session, pc[s] \in {"accTok", "waitConnect"},
           NEW k, NEW c \in Find("CONNECT", k), Pair(s, c, k)
    PROVE  /\ Live(s) /\ role[s] = "acc" /\ remote_fd[s] = None
           /\ c \in Session /\ c # s /\ role[c] = "con" /\ type[c] = "CONNECT"
           /\ Live(c) /\ remote_fd[c] = None
           /\ pc'[s] = "freed" /\ type'[s] = "NULL" /\ remote_fd'[s] = None
           /\ type'[c] = "SPLICE" /\ remote_fd'[c] = s /\ UNCHANGED <<sfd, open>>
           /\ \A y \in Session \ {s} : pc'[y] = pc[y]
           /\ \A y \in Session \ {s, c} :
                 remote_fd'[y] = remote_fd[y] /\ type'[y] = type[y]
<1>1. RoleOf(s) /\ TaskAt(s) /\ role[s] \in {"none", "fwd", "acc", "con"}
    BY DEF EInv, BInv, CInv, RoleInv, TaskInv, ETypeOK
<1>2. Live(s) /\ role[s] = "acc" /\ type[s] = "NULL"
    BY <1>1 DEF RoleOf, TaskAt, Live
<1>3. remote_fd[s] = None /\ client_fd[s] = s
    BY <1>2 DEF EInv, BInv, IInv, FdInv
<1>4. c \in Session /\ type[c] = "CONNECT" /\ Live(c) /\ remote_fd[c] = None
    BY DEF Find, EInv, BInv, IInv, RegistryConsistent, FdInv
<1>5. RoleOf(c) /\ TaskAt(c) /\ role[c] \in {"none", "fwd", "acc", "con"}
    BY <1>4 DEF EInv, BInv, CInv, RoleInv, TaskInv, ETypeOK
<1>6. role[c] = "con" /\ c # s
    BY <1>2, <1>4, <1>5 DEF RoleOf, TaskAt, Live
<1>7. /\ pc'[s] = "freed" /\ type'[s] = "NULL" /\ remote_fd'[s] = None
      /\ type'[c] = "SPLICE" /\ remote_fd'[c] = s
    BY <1>3, <1>4, <1>6 DEF Pair, EInv, BInv, IInv, TypeOK
<1>8. UNCHANGED <<sfd, open>>
    BY <1>3, SessionAssumption DEF Pair, EInv, BInv, IInv, TypeOK
<1>9. /\ \A y \in Session \ {s} : pc'[y] = pc[y]
      /\ \A y \in Session \ {s, c} : remote_fd'[y] = remote_fd[y] /\ type'[y] = type[y]
    BY DEF Pair, EInv, BInv, IInv, TypeOK
<1> QED
    BY <1>2, <1>3, <1>4, <1>6, <1>7, <1>8, <1>9

(* Two tasks that are joined find in front of them what the other one has   *)
(* sent by then: its IV or, without a key, the connector's info message.    *)
LEMMA FirstFlow ==
    ASSUME EInv, NEW y \in Session, NEW x \in Session, NEW q \in Seq(Unit),
           s2c[y] = <<>>, cend[y] = "open", Single(y), OpensAt(x, q, 0), Keyed(x),
           \/ role[y] = "con" /\ role[x] = "acc"
           \/ role[y] = "acc" /\ role[x] = "con"
    PROVE  /\ Reads(y, x, q) /\ (cpc[y] = "iv" => 1 <= Len(q))
           /\ role[x] = "con" /\ cpc[x] = "iv" =>
                 cpc[y] # "splice" /\ Len(q) <= (IF cpc[y] = "iv" THEN 1 ELSE 0)
<1>1. crypto \in BOOLEAN /\ Len(q) \in Nat
    BY LenProperties DEF EInv, BInv, FlightInv
<1>2. cpc[y] = IF crypto THEN "iv" ELSE IF role[y] = "con" THEN "splice" ELSE "info"
    BY DEF Single
<1>3. /\ crypto => 1 <= Len(q) /\ q[1] = Iv(x)
      /\ role[x] = "con" => Len(q) = 1
      /\ role[x] = "con" /\ ~crypto => q[1] = Info(x)
      /\ role[x] = "acc" => Len(q) = IF crypto THEN 1 ELSE 0
    BY <1>1 DEF OpensAt
<1>4. ASSUME NEW n \in 1..Len(q) PROVE Fits(y, x, n, q[n])
    <2>1. CASE crypto /\ n = 1
        BY <1>2, <1>3, <2>1 DEF Fits
    <2>0. Len(q) = 1 => n = 1
        OBVIOUS
    <2>4. role[x] = "con" => n = 1
        BY <1>3, <2>0
    <2>2. CASE role[x] = "con" /\ ~crypto
        <3>1. cpc[y] = "info" /\ n = 1 /\ q[n] = Info(x)
            BY <1>2, <1>3, <2>2, <2>4
        <3> QED
            BY <2>2, <3>1 DEF Fits
    <2>3. CASE role[x] = "acc" /\ ~(crypto /\ n = 1)
        BY <1>1, <1>3, <2>3
    <2> QED
        BY <1>1, <2>1, <2>2, <2>3, <2>4
<1>5. cpc[y] = "iv" => 1 <= Len(q)
    BY <1>2, <1>3
<1>6. role[x] = "con" /\ cpc[x] = "iv" =>
                 cpc[y] # "splice" /\ Len(q) <= (IF cpc[y] = "iv" THEN 1 ELSE 0)
    BY <1>1, <1>2, <1>3 DEF Keyed
<1> QED
    BY <1>4, <1>5, <1>6 DEF Reads

(* What a task may read depends on its own place only.                      *)
LEMMA SameReads ==
    ASSUME Mono, NEW y, role'[y] = role[y], cpc'[y] = cpc[y]
    PROVE  \A x, q : Reads(y, x, q) => Reads(y, x, q)'
<1> SUFFICES ASSUME NEW x, NEW q, Reads(y, x, q) PROVE Reads(y, x, q)'
    OBVIOUS
<1> QED
    BY DEF Reads, Fits, Chat, KA, Hdr, Iv, Info, Data, Mono

(* A connector and an acceptor are joined; q is what the acceptor sent      *)
(* behind its request.                                                      *)
LEMMA PairRest ==
    ASSUME EInv, Mono, NEW s \in Session, pc[s] \in {"accTok", "waitConnect"},
           NEW k, NEW c \in Find("CONNECT", k), Pair(s, c, k),
           UNCHANGED <<clientVars, s2c>>,
           \A y \in Session : y # s => c2s'[y] = c2s[y],
           NEW q \in Seq(Unit), c2s'[s] = q, OpensAt(s, q, 0)
    PROVE  Rest' /\ ToFwd'
<1> USE DEF clientVars, taskVars, fwdVars, fdVars, cfgVars
<1> DEFINE T == {s, c}
<1>1. /\ Live(s) /\ role[s] = "acc" /\ remote_fd[s] = None
      /\ c \in Session /\ c # s /\ role[c] = "con" /\ type[c] = "CONNECT"
      /\ Live(c) /\ remote_fd[c] = None
      /\ pc'[s] = "freed" /\ type'[s] = "NULL" /\ remote_fd'[s] = None
      /\ type'[c] = "SPLICE" /\ remote_fd'[c] = s /\ UNCHANGED <<sfd, open>>
      /\ \A y \in Session \ {s} : pc'[y] = pc[y]
      /\ \A y \in Session \ {s, c} :
            remote_fd'[y] = remote_fd[y] /\ type'[y] = type[y]
    BY PairIs
<1>2. Alone(s) /\ Alone(c)
    BY <1>1, WhoIsAlone
<1>3. PICK P \in Peering : Links(P)
    BY DEF EInv, BInv, CInv, LinkInv
<1>4. P[s] = None /\ P[c] = None /\ Single(s) /\ Single(c)
    BY <1>1, <1>2, <1>3 DEF Alone, Links, LinkAt
<1>5. /\ TaskAt(s) /\ RoleOf(s) /\ FromFwd(s) /\ Keyed(s)
      /\ TaskAt(c) /\ RoleOf(c) /\ FromFwd(c) /\ Keyed(c)
    BY <1>1 DEF EInv, BInv, CInv, TaskInv, RoleInv, FromInv, KeyInv
<1>6. cend[s] # "none" /\ cend[c] # "none" /\ pc[c] \notin {"idle", "hdr", "connTok", "accTok"}
    BY <1>1, <1>5 DEF TaskAt, Live, EInv, BInv, IInv, RoleAtLabel
<1>7. \A y \in Session \ T : Same(y)
    BY <1>1, StageKept DEF Same, EndKept
<1>8. Local(s)'
    <2>1. TaskAt(s)'
        BY <1>1, <1>5, <1>6 DEF TaskAt, Mono, Sendable
    <2>2. RoleOf(s)'
        BY <1>1, <1>5 DEF RoleOf
    <2>3. FromFwd(s)' /\ Keyed(s)'
        BY <1>1, <1>5 DEF FromFwd, Keyed, Mono
    <2> QED
        BY <2>1, <2>2, <2>3 DEF Local
<1>9. Local(c)'
    <2>1. TaskAt(c)'
        BY <1>1, <1>5, <1>6 DEF TaskAt, Mono, Sendable
    <2>2. RoleOf(c)'
        BY <1>1, <1>5 DEF RoleOf
    <2>3. FromFwd(c)' /\ Keyed(c)'
        BY <1>1, <1>5 DEF FromFwd, Keyed, Mono
    <2> QED
        BY <2>1, <2>2, <2>3 DEF Local
<1>10. s2c[s] = <<>> /\ s2c[c] = <<>>
    BY <1>1, <1>4 DEF Single
<1>11. OpensAt(c, c2s[c], 0) /\ c2s[c] \in Seq(Unit)
    <2>1. Carries(c)
        BY <1>1 DEF Carries, EInv, BInv, IInv, FdInv
    <2> QED
        BY <1>1, <1>4, <1>6, <2>1 DEF Single, FromTask, EInv, BInv, CInv, StreamInv
<1> DEFINE Q == [P EXCEPT ![s] = c, ![c] = s]
<1>12. Q \in Peering /\ Q[s] = c /\ Q[c] = s /\ \A y \in Session \ T : Q[y] = P[y]
    BY <1>1, <1>3 DEF Peering
<1> HIDE DEF Q
<1>13. \A y \in Session \ T : P[y] \notin T
    BY <1>1, <1>3, <1>4, SessionAssumption DEF Links, LinkAt, Linked
<1>14. ASSUME NEW y \in T, NEW x \in T, y # x, NEW u \in Seq(Unit), c2s'[x] = u,
              OpensAt(x, u, 0)
       PROVE  LinkAt(Q, y)'
    <2>1. /\ y \in Session /\ x \in Session /\ Q[y] = x /\ Q[x] = y /\ Joined(x, y)'
          /\ \/ role[y] = "con" /\ role[x] = "acc"
             \/ role[y] = "acc" /\ role[x] = "con"
          /\ Single(y) /\ Keyed(x) /\ s2c[y] = <<>> /\ s2c'[y] = <<>>
          /\ pc'[y] # "idle" /\ (Live(y)' => role[y] = "con")
          /\ x # None /\ (remote_fd'[y] # None => remote_fd'[y] = x)
        BY <1>1, <1>4, <1>5, <1>6, <1>10, <1>12, <1>14, SessionAssumption
           DEF Joined, Live
    <2>2. rx[y] = None /\ info[y] = None
        BY <2>1 DEF Single
    <2>3. s2c'[y] \o c2s'[x] = u
        BY <1>14, <2>1, ConcatEmptySeq
    <2>4. cend[y] = "open" => Reads(y, x, <<>>)' /\ Flow(y, x)'
        <3> SUFFICES ASSUME cend[y] = "open" PROVE Reads(y, x, <<>>)' /\ Flow(y, x)'
            OBVIOUS
        <3>1. /\ Reads(y, x, u) /\ (cpc[y] = "iv" => 1 <= Len(u))
              /\ role[x] = "con" /\ cpc[x] = "iv" =>
                   cpc[y] # "splice" /\ Len(u) <= (IF cpc[y] = "iv" THEN 1 ELSE 0)
            BY <1>14, <2>1, FirstFlow
        <3>2. Reads(y, x, u)'
            BY <3>1, SameReads
        <3>3. Reads(y, x, <<>>)'
            BY EmptySeq DEF Reads
        <3>4. Flow(y, x)'
            BY <2>3, <3>1, <3>2 DEF Flow
        <3> QED
            BY <3>3, <3>4
    <2>5. Linked(Q, y)'
        BY <1>14, <2>1, <2>2, <2>4 DEF Linked
    <2> QED
        BY <2>1, <2>5 DEF LinkAt
<1>15. LinkAt(Q, s)' /\ LinkAt(Q, c)'
    <2>1. PICK u : u = c2s[c]
        OBVIOUS
    <2>2. c2s'[c] = u /\ u \in Seq(Unit) /\ OpensAt(c, u, 0)
        BY <1>1, <1>11, <2>1
    <2>3. LinkAt(Q, s)'
        BY <1>1, <1>14, <2>2
    <2>4. LinkAt(Q, c)'
        BY <1>1, <1>14
    <2> QED
        BY <2>3, <2>4
<1>16. /\ \A y \in T : LinkAt(Q, y)'
       /\ \A y \in T : Local(y)'
       /\ T \in SUBSET Session
    BY <1>1, <1>8, <1>9, <1>15
<1> HIDE DEF T
<1>17. TaskInv' /\ RoleInv' /\ FromInv' /\ KeyInv'
    BY <1>7, <1>16, TouchInv
<1>18. Links(Q)'
    BY <1>3, <1>7, <1>12, <1>13, <1>16, LinksSwitch
<1>19. LinkInv'
    BY <1>12, <1>18 DEF LinkInv, Peering
<1>20. ToFwd'
    <2>1. fpc \in LoggingIn => fconn \in Session /\ role[fconn] = "fwd"
        BY DEF EInv, BInv, CInv, FlightInv, ETypeOK
    <2>2. ASSUME NEW f \in Session, role[f] = "fwd"
          PROVE  /\ s2c'[f] = s2c[f] /\ (LoggedIn(f) => LoggedIn(f)')
                 /\ type[f] = "NULL" => type'[f] = "NULL"
        BY <1>1, <2>2 DEF LoggedIn
    <2> QED
        BY <2>1, <2>2, ToFwdFrame
<1> QED
    BY <1>17, <1>19, <1>20 DEF Rest

(* The server reads an acceptor's token and joins the two connections, or   *)
(* makes it wait.                                                           *)
LEMMA SrvAcceptTokenInv ==
    ASSUME EInv, NEW s \in Session, SrvAcceptToken(s)
    PROVE  CInv'
<1> DEFINE k == Head(c2s[s]).val
<1>1. /\ pc[s] = "accTok" /\ c2s[s] # <<>> /\ RecvAcceptToken(s, k)
      /\ c2s' = Take(s) /\ UNCHANGED <<s2c, clientVars>>
    BY DEF SrvAcceptToken
<1> HIDE DEF k
<1>2. UNCHANGED <<role, taskVars, fpc, fconn>>
    BY <1>1 DEF clientVars, taskVars, fwdVars
<1>3. FwdInv' /\ FdsInv' /\ Mono
    BY <1>1, ServerFrame DEF NoLoss, RecvAcceptToken
<1>4. /\ c2s' \in [Session -> Seq(Unit)] /\ c2s'[s] = Tail(c2s[s])
      /\ \A y \in Session : y # s => c2s'[y] = c2s[y]
    BY <1>1, TakeIs DEF EInv, BInv, CInv
<1>6. Live(s) /\ remote_fd[s] = None /\ RoleOf(s) /\ sfd[s] = None
    BY <1>1, Reading DEF Receiving
<1>7. role[s] = "acc" /\ OpensAt(s, Tail(c2s[s]), 0)
    BY <1>1, NextUnit DEF Receiving
<1>8. CASE Close(s, {})
    <2>1. Rest' /\ ToFwd'
        BY <1>1, <1>2, <1>3, <1>4, <1>6, <1>8, CloseRest DEF Evictable
    <2> QED
        BY <1>3, <2>1 DEF CInv, Rest
<1>9. ASSUME NEW c \in Find("CONNECT", k), Pair(s, c, k) PROVE CInv'
    <2>1. PICK q : q = c2s'[s]
        OBVIOUS
    <2>2. q \in Seq(Unit) /\ OpensAt(s, q, 0)
        BY <1>4, <1>7, <2>1
    <2>3. Rest' /\ ToFwd'
        BY <1>1, <1>2, <1>3, <1>4, <1>9, <2>1, <2>2, PairRest
    <2> QED
        BY <1>3, <2>3 DEF CInv, Rest
<1>10. CASE /\ pc' = [pc EXCEPT ![s] = "waitConnect"]
            /\ UNCHANGED <<regVars, idVars, ioVars, ver, op, target, sfd>>
    <2>1. /\ pc'[s] = "waitConnect" /\ \A y \in Session \ {s} : pc'[y] = pc[y]
          /\ UNCHANGED <<type, remote_fd, open, sfd>>
        BY <1>10 DEF EInv, BInv, IInv, TypeOK, regVars, ioVars
    <2>2. RoleOf(s)'
        BY <1>2, <1>6, <1>7, <2>1 DEF RoleOf
    <2>3. Rest'
        BY <1>1, <1>2, <1>3, <1>6, <2>1, <2>2, WaitRest
    <2>4. ToFwd'
        <3>1. ASSUME NEW f \in Session
              PROVE  /\ s2c'[f] = s2c[f] /\ (LoggedIn(f) => LoggedIn(f)')
                     /\ type[f] = "NULL" => type'[f] = "NULL"
            BY <1>1, <2>1 DEF LoggedIn
        <3>2. fpc \in LoggingIn => fconn \in Session
            BY DEF EInv, BInv, CInv, FlightInv, ETypeOK
        <3> QED
            BY <1>2, <1>3, <3>1, <3>2, ToFwdFrame DEF taskVars
    <2> QED
        BY <1>3, <2>3, <2>4 DEF CInv, Rest
<1> QED
    BY <1>1, <1>8, <1>9, <1>10 DEF RecvAcceptToken

(* Steps of the server that end a session.                                  *)
LEMMA CloseStep ==
    ASSUME EInv, NEW s \in Session, Live(s), Close(s, {}), Discard,
           UNCHANGED <<s2c, clientVars, issued>>
    PROVE  CInv'
<1>1. FwdInv' /\ FdsInv' /\ Mono
    BY ServerFrame
<1>2. c2s' \in [Session -> Seq(Unit)]
      /\ \A y \in Session : (y \in open' <=> y \in open) => c2s'[y] = c2s[y]
    BY DiscardIs DEF EInv, BInv, CInv
<1>3. Evictable(s, {}) /\ UNCHANGED <<taskVars, fpc, fconn>>
    BY DEF Evictable, clientVars, fwdVars
<1>4. \A y \in Session : y # s /\ y # remote_fd[s] => c2s'[y] = c2s[y]
    BY <1>2, <1>3, CloseIs DEF EInv, BInv
<1>5. Rest' /\ ToFwd'
    BY <1>1, <1>3, <1>4, CloseRest
<1> QED
    BY <1>1, <1>5 DEF CInv, Rest

(* A penalty or a wait of the server ends.                                  *)
LEMMA SrvTimerInv ==
    ASSUME EInv, NEW s \in Session, SrvTimer(s)
    PROVE  CInv'
<1>1. Discard /\ UNCHANGED <<s2c, clientVars>>
    BY DEF SrvTimer
<1>2. CASE PenaltyEnd(s) \/ AcceptTimeout(s)
    <2>1. Live(s) /\ Close(s, {}) /\ UNCHANGED issued
        BY <1>2 DEF PenaltyEnd, AcceptTimeout, Live
    <2> QED
        BY <1>1, <2>1, CloseStep
<1>3. CASE AcceptWake(s)
    <2>1. PICK c \in Find("CONNECT", mt[s]) : Pair(s, c, mt[s])
        BY <1>3 DEF AcceptWake
    <2>2. pc[s] = "waitConnect" /\ UNCHANGED issued
        BY <1>3 DEF AcceptWake
    <2>3. open' = open /\ role[s] = "acc" /\ Live(s) /\ remote_fd[s] = None
        BY <2>1, <2>2, PairIs
    <2>4. FwdInv' /\ FdsInv' /\ Mono
        BY <1>1, <2>2, ServerFrame
    <2>5. /\ c2s' \in [Session -> Seq(Unit)]
          /\ \A y \in Session : c2s'[y] = c2s[y]
        BY <1>1, <2>3, DiscardIs DEF EInv, BInv, CInv
    <2>7. Alone(s) /\ s \in open
        BY <2>3, WhoIsAlone DEF EInv, BInv, IInv, FdInv
    <2>8. Single(s) /\ TaskAt(s)
        BY <2>7 DEF EInv, BInv, CInv, TaskInv, LinkInv, Alone, Links, LinkAt
    <2>9. PICK q : q = c2s'[s]
        OBVIOUS
    <2>10. q \in Seq(Unit) /\ OpensAt(s, q, 0)
        BY <2>2, <2>3, <2>5, <2>7, <2>8, <2>9 DEF Single, FromTask, Carries, TaskAt
    <2>11. Rest' /\ ToFwd'
        BY <1>1, <2>1, <2>2, <2>4, <2>5, <2>9, <2>10, PairRest
           DEF clientVars, fwdVars
    <2> QED
        BY <2>4, <2>11 DEF CInv, Rest
<1> QED
    BY <1>2, <1>3 DEF SrvTimer

(* A receive fails, or a splice ends.                                       *)
LEMMA SrvCloseInv ==
    ASSUME EInv, NEW s \in Session, SrvRecvFail(s) \/ SrvEndSplice(s)
    PROVE  CInv'
<1>1. /\ Live(s) /\ Close(s, {}) /\ Discard
      /\ UNCHANGED <<s2c, clientVars, issued>>
    BY DEF SrvRecvFail, SrvEndSplice, RecvFail, EndSplice, Live, Receiving
<1> QED
    BY <1>1, CloseStep

(* A step that leaves every connection alone.                               *)
LEMMA NoTouch ==
    ASSUME EInv, Mono, \A y \in Session : Same(y)
    PROVE  Rest'
<1> DEFINE T == {}
<1>1. /\ T \in SUBSET Session /\ \A y \in Session \ T : Same(y)
      /\ (\A y \in T : Local(y)') /\ \A P : \A y \in T : LinkAt(P, y)'
      /\ \A P : \A y \in Session \ T : P[y] \notin T
    OBVIOUS
<1> HIDE DEF T
<1>2. TaskInv' /\ RoleInv' /\ FromInv' /\ KeyInv'
    BY <1>1, TouchInv
<1>3. PICK P \in Peering : Links(P)
    BY DEF EInv, BInv, CInv, LinkInv
<1>4. Links(P)'
    BY <1>1, <1>3, LinksFrame
<1> QED
    BY <1>2, <1>4 DEF Rest, LinkInv, Peering

(* A connector's wait ends.                                                 *)
LEMMA SrvStartSpliceInv ==
    ASSUME EInv, NEW s \in Session, SrvStartSplice(s)
    PROVE  CInv'
<1>1. /\ pc[s] = "waitAccept" /\ pc'[s] = "splice" /\ sfd'[s] = remote_fd[s]
      /\ \A y \in Session \ {s} : pc'[y] = pc[y] /\ sfd'[y] = sfd[y]
      /\ UNCHANGED <<type, remote_fd, open, issued, chanVars, clientVars>>
      /\ NoLoss \/ Spend
    BY DEF SrvStartSplice, StartSplice, regVars, ioVars, EInv, BInv, IInv, TypeOK
<1>2. FwdInv' /\ FdsInv' /\ Mono
    BY <1>1, ServerFrame
<1>4. \A y \in Session : Same(y)
    BY <1>1, StageKept DEF Same, EndKept, chanVars, clientVars, taskVars, fwdVars, fdVars
<1>5. Rest'
    BY <1>2, <1>4, NoTouch
<1>9. ToFwd'
    <2>1. ASSUME NEW f \in Session
          PROVE  /\ s2c'[f] = s2c[f] /\ (LoggedIn(f) => LoggedIn(f)')
                 /\ type[f] = "NULL" => type'[f] = "NULL"
        BY <1>1 DEF LoggedIn, chanVars
    <2>2. fpc \in LoggingIn => fconn \in Session
        BY DEF EInv, BInv, CInv, FlightInv, ETypeOK
    <2>3. UNCHANGED <<fpc, fconn, cend>>
        BY <1>1 DEF clientVars, fwdVars, taskVars
    <2> QED
        BY <1>2, <2>1, <2>2, <2>3, ToFwdFrame
<1> QED
    BY <1>2, <1>5, <1>9 DEF CInv, Rest

(* The server moves a unit from one joined connection to the other.         *)
LEMMA SrvSpliceInv ==
    ASSUME EInv, NEW s \in Session, NEW x \in SpliceFds(s), NEW y \in SpliceFds(s),
           SrvSplice(s, x, y)
    PROVE  CInv'
<1> DEFINE T == {x, y}
           m == Head(c2s[x])
<1>1. /\ pc[s] = "splice" /\ x # y
      /\ c2s[x] # <<>> /\ Deliver(y, m) /\ c2s' = Take(x)
      /\ UNCHANGED <<clientVars, pc, type, remote_fd, sfd, open, issued>>
    BY DEF SrvSplice, vars, regVars, ioVars, locVars
<1>7. /\ client_fd[s] = s /\ sfd[s] = remote_fd[s] /\ sfd[s] \in Session
      /\ x \in Session /\ y \in Session /\ {x, y} = {s, sfd[s]}
    <2>1. client_fd[s] = s
        BY <1>1 DEF EInv, BInv, IInv, FdInv, Live
    <2>2. sfd[s] # None /\ {x, y} = {s, sfd[s]}
        BY <1>1, <2>1 DEF SpliceFds
    <2>3. sfd[s] = remote_fd[s] /\ sfd[s] \in Session
        BY <2>2 DEF EInv, BInv, FlightInv, IInv, TypeOK
    <2> QED
        BY <2>1, <2>2, <2>3
<1>2. FwdInv' /\ FdsInv' /\ Mono
    BY <1>1, ServerFrame DEF NoLoss
<1>3. c2s[x] \in Seq(Unit) /\ s2c[y] \in Seq(Unit) /\ m \in Unit
    BY <1>1, <1>7, TailIs DEF EInv, BInv, CInv, StreamInv
<1>4. /\ c2s' \in [Session -> Seq(Unit)] /\ c2s'[x] = Tail(c2s[x])
      /\ \A z \in Session : z # x => c2s'[z] = c2s[z]
    BY <1>1, <1>7, TakeIs DEF EInv, BInv, CInv
<1>5. /\ s2c' \in [Session -> Seq(Unit)]
      /\ s2c'[y] = IF cend[y] = "open" THEN Append(s2c[y], m) ELSE s2c[y]
      /\ \A z \in Session : z # y => s2c'[z] = s2c[z]
    BY <1>1, <1>3, <1>7, DeliverIs DEF EInv, BInv, CInv
<1>8. PICK P \in Peering : Links(P)
    BY DEF EInv, BInv, CInv, LinkInv
<1>9. P[x] = y /\ P[y] = x /\ Linked(P, x) /\ Linked(P, y) /\ Joined(x, y)
    <2>1. P[s] = sfd[s] /\ Linked(P, s) /\ P[sfd[s]] = s
        BY <1>7, <1>8, SessionAssumption DEF Links, LinkAt, Linked
    <2>2. P[x] = y /\ P[y] = x /\ Joined(x, y)
        BY <1>1, <1>7, <2>1 DEF Joined
    <2> QED
        BY <1>7, <1>8, <2>2, SessionAssumption DEF Links, LinkAt
<1>10. UNCHANGED <<role, cend, cpc, ctok, rx, info, crypto>>
    BY <1>1 DEF clientVars, taskVars, cfgVars
<1>11. \A z \in Session \ T : Same(z) /\ P[z] \notin T
    <2>1. \A z \in Session \ T : Same(z)
        BY <1>1, <1>4, <1>5, <1>10, StageKept DEF Same, EndKept, clientVars, fwdVars, fdVars
    <2>2. \A z \in Session \ T : P[z] \notin T
        BY <1>7, <1>8, <1>9, SessionAssumption DEF Links, LinkAt, Linked
    <2> QED
        BY <2>1, <2>2
<1>12. ASSUME NEW z \in T PROVE Local(z)'
    <2>1. TaskAt(z) /\ RoleOf(z) /\ Keyed(z) /\ role[z] \in {"con", "acc"}
          /\ pc[z] # "idle" /\ z \in Session
        BY <1>7, <1>9 DEF EInv, BInv, CInv, TaskInv, RoleInv, KeyInv, Linked
    <2>2. cend[z] # "open" => s2c'[z] = s2c[z]
        BY <1>5, <2>1
    <2>3. TaskAt(z)'
        BY <1>1, <1>10, <2>1, <2>2 DEF TaskAt, Sendable
    <2>4. RoleOf(z)' /\ Keyed(z)' /\ FromFwd(z)'
        BY <1>1, <1>10, <2>1 DEF RoleOf, Keyed, FromFwd
    <2> QED
        BY <2>3, <2>4 DEF Local
<1>13. \A z \in T : \A u, q : Reads(z, u, q) => Reads(z, u, q)'
    BY <1>2, <1>10, SameReads
<1>14. Linked(P, x)'
    <2>1. s2c'[x] = s2c[x] /\ c2s'[y] = c2s[y]
        BY <1>1, <1>4, <1>5, <1>7
    <2>2. Reads(x, y, s2c[x]) => Reads(x, y, s2c[x])'
        BY <1>13, <2>1
    <2>3. Flow(x, y) => Flow(x, y)'
        BY <1>10, <1>13, <2>1 DEF Flow
    <2> QED
        BY <1>1, <1>9, <1>10, <2>2, <2>3 DEF Linked, Joined, Live
<1>15. Linked(P, y)'
    <2>1. CASE cend[y] # "open"
        BY <1>1, <1>9, <1>10, <2>1 DEF Linked, Joined, Live
    <2>2. CASE cend[y] = "open"
        <3>1. PICK w : w = s2c[y] \o c2s[x]
            OBVIOUS
        <3>2. PICK v : v = s2c'[y]
            OBVIOUS
        <3>3. v = Append(s2c[y], m) /\ v \in Seq(Unit)
            BY <1>3, <1>5, <2>2, <3>2
        <3>4. s2c'[y] \o c2s'[x] = w
            <4>1. Append(s2c[y], Head(c2s[x])) \o Tail(c2s[x]) = s2c[y] \o c2s[x]
                BY <1>1, <1>3, PassKeeps
            <4> QED
                BY <1>4, <3>1, <3>2, <3>3, <4>1
        <3>5. Flow(y, x)
            BY <1>9, <2>2 DEF Linked, Joined
        <3>6. Reads(y, x, w)
            BY <3>1, <3>5 DEF Flow
        <3>7. Flow(y, x)'
            <4>1. Reads(y, x, w)'
                BY <1>13, <3>6
            <4> QED
                BY <1>10, <3>1, <3>4, <3>5, <4>1 DEF Flow
        <3>8. Reads(y, x, v)
            <4>1. Tail(c2s[x]) \in Seq(Unit)
                BY <1>1, <1>3, TailIs
            <4>2. w = v \o Tail(c2s[x])
                BY <1>4, <3>2, <3>4
            <4>3. /\ Len(v) \in Nat /\ Len(Tail(c2s[x])) \in Nat
                  /\ Len(w) = Len(v) + Len(Tail(c2s[x])) /\ \A n \in 1..Len(v) : w[n] = v[n]
                BY <3>3, <4>1, <4>2, CatIs
            <4>4. \A n \in 1..Len(v) : n \in 1..Len(w) /\ v[n] = w[n]
                BY <4>3
            <4> QED
                BY <3>6, <4>4 DEF Reads
        <3>9. Reads(y, x, v)'
            BY <1>13, <3>8
        <3>10. Reads(y, x, s2c[y])'
            BY <3>2, <3>9
        <3> QED
            BY <1>1, <1>9, <1>10, <3>7, <3>10 DEF Linked, Joined, Live
    <2> QED
        BY <2>1, <2>2
<1>16. ASSUME NEW z \in T PROVE LinkAt(P, z)'
    <2>1. LinkAt(P, z) /\ P[z] # None
        BY <1>7, <1>8, <1>9, SessionAssumption DEF Links
    <2>2. Linked(P, z)'
        BY <1>14, <1>15
    <2> QED
        BY <1>1, <2>1, <2>2 DEF LinkAt
<1>17. T \in SUBSET Session
    BY <1>7
<1> HIDE DEF T
<1>18. TaskInv' /\ RoleInv' /\ FromInv' /\ KeyInv'
    BY <1>2, <1>11, <1>12, <1>17, TouchInv
<1>19. Links(P)'
    BY <1>2, <1>8, <1>11, <1>16, <1>17, LinksFrame
<1>20. LinkInv'
    BY <1>19 DEF LinkInv, Peering
<1>21. ToFwd'
    <2>1. fpc \in LoggingIn => fconn \in Session /\ role[fconn] = "fwd"
        BY DEF EInv, BInv, CInv, FlightInv, ETypeOK
    <2>2. role[y] # "fwd"
        BY <1>9 DEF Linked
    <2>3. ASSUME NEW f \in Session, role[f] = "fwd"
          PROVE  /\ s2c'[f] = s2c[f] /\ (LoggedIn(f) => LoggedIn(f)')
                 /\ type[f] = "NULL" => type'[f] = "NULL"
        BY <1>1, <1>5, <2>2, <2>3 DEF LoggedIn
    <2>4. UNCHANGED <<fpc, fconn, cend>>
        BY <1>1 DEF clientVars, fwdVars, taskVars
    <2> QED
        BY <1>2, <2>1, <2>3, <2>4, ToFwdFrame
<1> QED
    BY <1>2, <1>18, <1>20, <1>21 DEF CInv

-----------------------------------------------------------------------------
(* The clients.                                                             *)

(* What a step of a client does to a connection that it leaves alone.       *)
ClSame(y) ==
    /\ role'[y] = role[y] /\ cpc'[y] = cpc[y] /\ EndKept(y)
    /\ ctok'[y] = ctok[y] /\ rx'[y] = rx[y] /\ info'[y] = info[y]
    /\ c2s'[y] = c2s[y] /\ Stage(y)' \in {Stage(y), "old"}

LEMMA ClIsSame ==
    ASSUME UNCHANGED vars, NEW y, ClSame(y)
    PROVE  Same(y)
    BY DEF Same, ClSame, vars, regVars, ioVars, locVars

(* A step of a client whose task has no peer.                               *)
LEMMA OneClient ==
    ASSUME EInv, Mono, UNCHANGED vars, NEW s \in Session, Alone(s),
           \A y \in Session \ {s} : ClSame(y),
           Local(s)', Single(s)'
    PROVE  Rest'
<1>1. \A y \in Session \ {s} : Same(y)
    BY ClIsSame
<1>2. remote_fd'[s] = None
    BY DEF EInv, CInv, LinkInv, Alone, Links, LinkAt, vars, ioVars
<1> QED
    BY <1>1, <1>2, OneTouch DEF Rest

(* A step of the clients that leaves all connections alone.                 *)
LEMMA NoClient ==
    ASSUME EInv, Mono, UNCHANGED vars, \A y \in Session : ClSame(y)
    PROVE  Rest'
    BY ClIsSame, NoTouch

(* The forward task gives its login up, or somebody closes its number.      *)
LEMMA StageLost ==
    ASSUME EInv, UNCHANGED <<fconn, base>>, fpc' = fpc \/ fpc' = "sleep",
           fpc \in LoggingIn => tab'[base] = tab[base] \/ tab'[base] = None
    PROVE  \A y : Stage(y)' \in {Stage(y), "old"}
<1>1. fpc \in LoggingIn => fconn \in Session
    BY DEF EInv, BInv, FlightInv, ETypeOK
<1> QED
    BY <1>1, SessionAssumption DEF Stage, LoggingIn, EInv, BInv, ETypeOK

(* Numbers stay with their tasks.                                           *)
LEMMA FdsKept ==
    ASSUME EInv, UNCHANGED <<role, cend, fpc, fconn, base, fd, tab>>,
           \A y \in Session : \/ cpc'[y] = cpc[y]
                              \/ {cpc[y], cpc'[y]} \subseteq {"iv", "info", "splice"},
           fwlock' = "fwd" <=> fwlock = "fwd"
    PROVE  FwdInv' /\ FdsInv'
<1>1. FwdInv'
    BY DEF EInv, CInv, FwdInv
<1>2. ASSUME NEW y \in Session PROVE FdAt(y)'
    <2>1. FdAt(y)
        BY DEF EInv, CInv, FdsInv
    <2>2. \/ cpc'[y] = cpc[y]
          \/ cpc[y] \in {"iv", "info", "splice"} /\ cpc'[y] \in {"iv", "info", "splice"}
        OBVIOUS
    <2> QED
        BY <2>1, <2>2 DEF FdAt
<1> QED
    BY <1>1, <1>2 DEF FdsInv

(* What the forward task has still to read, when a step of a client leaves  *)
(* it alone or closes it.                                                   *)
LEMMA ToFwdKept ==
    ASSUME EInv, UNCHANGED <<vars, fconn>>, fpc' = fpc \/ fpc' = "sleep",
           fpc \in LoggingIn => \/ cend'[fconn] # "open"
                                \/ cend'[fconn] = cend[fconn] /\ s2c'[fconn] = s2c[fconn]
    PROVE  ToFwd'
<1>1. \A q, m : Later(q, m) => Later(q, m)'
    BY DEF Later, Asks, Echo
<1>2. \A q : Answered(q) => Answered(q)'
    BY <1>1 DEF Answered
<1>3. UNCHANGED <<pc, type>>
    BY DEF vars, regVars
<1>4. CASE fpc' = "sleep"
    BY <1>4 DEF ToFwd, LoggingIn
<1>5. CASE fpc' = fpc
    BY <1>1, <1>2, <1>3, <1>5 DEF EInv, CInv, ToFwd, Echo, LoggedIn
<1> QED
    BY <1>4, <1>5

-----------------------------------------------------------------------------
(* Numbers are closed, whatever they name.                                  *)

(* The connections that a close hits are those of the forwarder's process.  *)
LEMMA ClosesEnds ==
    ASSUME EInv, NEW N, N \subseteq Session \cup {None}, CloseFds(N)
    PROVE  /\ \A y \in Session : EndKept(y)
           /\ \A n \in Session : tab'[n] = IF n \in N THEN None ELSE tab[n]
           /\ \A n \in N \cap Session : \A y \in Session :
                 tab[n] = y => cend'[y] # "open"
           /\ \A y \in Session : cend'[y] = cend[y] \/
                 (cend[y] = "open" /\ cend'[y] = "closed"
                    /\ \E n \in N \cap Session : tab[n] = y)
           /\ \A y \in Session : cend'[y] = "open" => s2c'[y] = s2c[y]
<1>1. /\ \A n \in Session : tab'[n] = IF n \in N THEN None ELSE tab[n]
      /\ Hangup(Named(N))
    BY CloseFdsIs DEF EInv, BInv
<1>2. /\ \A y \in Session : y \in Named(N) /\ cend[y] = "open" =>
                 cend'[y] = "closed" /\ s2c'[y] = <<>>
      /\ \A y \in Session : ~(y \in Named(N) /\ cend[y] = "open") =>
                 cend'[y] = cend[y] /\ s2c'[y] = s2c[y]
    BY <1>1, HangupIs DEF EInv, BInv
<1>3. \A y \in Named(N) : role[y] # "con" /\ \E n \in N \cap Session : tab[n] = y
    BY NamedAre DEF EInv, BInv, Named
<1>4. \A n \in N \cap Session : \A y \in Session : tab[n] = y => y \in Named(N)
    BY SessionAssumption DEF Named
<1> QED
    BY <1>1, <1>2, <1>3, <1>4 DEF EndKept

(* The step closes the numbers N; the forward task goes on, or sleeps and   *)
(* has closed its own; a task that drops its number has closed it.          *)
LEMMA ClosesFds ==
    ASSUME EInv, NEW N, N \subseteq Session \cup {None}, CloseFds(N),
           UNCHANGED <<role, fconn, base>>,
           \/ fpc' = fpc
           \/ /\ fpc' = "sleep" /\ base \in N
              /\ fpc = "connecting" => fd[fconn] \in N,
           fwlock' = "fwd" <=> fpc' = "logintok",
           \A y \in Session : cpc'[y] = cpc[y] \/ cpc'[y] = "end",
           \A y \in Session : \/ fd'[y] = fd[y]
                              \/ /\ fd'[y] = None /\ fd[y] \in N
                                 /\ role[y] = "acc" => cpc'[y] = "end"
                                 /\ y = fconn => fpc' = "sleep"
    PROVE  FwdInv' /\ FdsInv'
<1>1. /\ \A n \in Session : tab'[n] = IF n \in N THEN None ELSE tab[n]
      /\ \A n \in N \cap Session : \A y \in Session : tab[n] = y => cend'[y] # "open"
      /\ \A y \in Session : cend'[y] = cend[y] \/
                 (cend[y] = "open" /\ cend'[y] = "closed"
                    /\ \E n \in N \cap Session : tab[n] = y)
    BY ClosesEnds
<1>2. /\ base \in Session \cup {None} /\ tab \in [Session -> Session \cup {None}]
      /\ fd \in [Session -> Session \cup {None}]
      /\ fpc \in LoggingIn \cup {"connecting"} => fconn \in Session /\ role[fconn] = "fwd"
    BY DEF EInv, BInv, FlightInv, ETypeOK
<1>3. FwdInv /\ \A y \in Session : FdAt(y) /\ TaskAt(y)
    BY DEF EInv, CInv, FdsInv, TaskInv
<1>4. FwdInv'
    <2>1. ASSUME fpc' \in LoggingIn
          PROVE  base' # None /\ cend'[fconn'] # "none"
                 /\ (cend'[fconn'] = "open" <=> tab'[base'] = fconn')
        <3>1. fpc = fpc' /\ fconn' = fconn /\ base' = base /\ fconn \in Session
            BY <1>2, <2>1 DEF LoggingIn
        <3>2. /\ base \in Session /\ cend[fconn] # "none"
              /\ cend[fconn] = "open" <=> tab[base] = fconn
            BY <1>2, <1>3, <2>1, <3>1 DEF FwdInv
        <3>3. ASSUME NEW n \in Session, tab[n] = fconn PROVE base = n
            BY <1>2, <1>3, <2>1, <3>1, <3>3 DEF FdAt, LoggingIn
        <3>4. CASE base \in N
            BY <1>1, <3>1, <3>2, <3>4, SessionAssumption
        <3>5. CASE base \notin N
            <4>1. cend'[fconn] = cend[fconn]
                BY <1>1, <3>1, <3>3, <3>5
            <4>2. tab'[base] = tab[base]
                BY <1>1, <3>2, <3>5
            <4> QED
                BY <3>1, <3>2, <4>1, <4>2, SessionAssumption
        <3> QED
            BY <3>1, <3>2, <3>4, <3>5
    <2>2. ASSUME fpc' = "connecting" PROVE cend'[fconn'] = "none" /\ fd'[fconn'] # None
        <3>1. fpc = fpc' /\ fconn' = fconn /\ fconn \in Session
            BY <1>2, <2>2
        <3> QED
            BY <1>1, <1>3, <2>2, <3>1 DEF FwdInv
    <2>3. ASSUME NEW y \in Session, role'[y] = "fwd", cend'[y] = "open"
          PROVE  y = fconn' /\ fpc' \in LoggingIn
        <3>1. role[y] = "fwd" /\ cend[y] = "open"
            BY <1>1, <2>3
        <3>2. y = fconn /\ fpc \in LoggingIn /\ tab[base] = y /\ base # None
            BY <1>3, <3>1 DEF FwdInv
        <3>3. base \notin N
            BY <1>1, <1>2, <2>3, <3>2
        <3> QED
            BY <3>2, <3>3
    <2> QED
        BY <2>1, <2>2, <2>3 DEF FwdInv
<1>5. ASSUME NEW y \in Session PROVE FdAt(y)'
    <2>1. ASSUME NEW n \in Session, tab'[n] = y
          PROVE  \/ role'[y] = "acc" /\ cpc'[y] # "start" /\ fd'[y] = n
                 \/ y = fconn' /\ fpc' = "connecting" /\ fd'[y] = n
                 \/ y = fconn' /\ fpc' \in LoggingIn /\ base' = n
        <3>1. n \notin N /\ tab[n] = y
            BY <1>1, <2>1, SessionAssumption
        <3>2. \/ role[y] = "acc" /\ cpc[y] # "start" /\ fd[y] = n
              \/ y = fconn /\ fpc = "connecting" /\ fd[y] = n
              \/ y = fconn /\ fpc \in LoggingIn /\ base = n
            BY <1>3, <3>1 DEF FdAt
        <3>3. fd[y] = n => fd'[y] = n
            BY <3>1
        <3>4. cpc[y] # "start" => cpc'[y] # "start"
            OBVIOUS
        <3> QED
            BY <3>1, <3>2, <3>3, <3>4
    <2>2. ASSUME role'[y] = "acc", cend'[y] = "open" PROVE tab'[fd'[y]] = y
        <3>1. role[y] = "acc" /\ cend[y] = "open" /\ cpc[y] \in {"iv", "info", "splice"}
            BY <1>1, <1>3, <2>2 DEF TaskAt
        <3>2. fd[y] \in Session /\ tab[fd[y]] = y
            BY <1>2, <1>3, <3>1 DEF FdAt
        <3>3. fd[y] \notin N
            BY <1>1, <2>2, <3>2
        <3> QED
            BY <1>1, <3>2, <3>3
    <2>3. ASSUME role'[y] = "acc", cpc'[y] \in {"connect", "iv", "info", "splice"}
          PROVE  fd'[y] # None
        BY <1>3, <2>3 DEF FdAt
    <2>4. ASSUME role'[y] = "none" \/ (role'[y] = "acc" /\ cpc'[y] = "start")
          PROVE  tab'[y] = None /\ base' # y /\ \A x \in Session : fd'[x] # y
        <3>1. role[y] = "none" \/ (role[y] = "acc" /\ cpc[y] = "start")
            BY <2>4
        <3>2. tab[y] = None /\ base # y /\ \A x \in Session : fd[x] # y
            BY <1>3, <3>1 DEF FdAt
        <3> QED
            BY <1>1, <3>2, SessionAssumption
    <2> QED
        BY <2>1, <2>2, <2>3, <2>4 DEF FdAt
<1> QED
    BY <1>4, <1>5 DEF FdsInv

(* The forward task closes its numbers, and whatever they name.             *)
LEMMA RestartInv ==
    ASSUME EInv, NEW N, N \subseteq Session \cup {None}, Restart(N),
           fpc = "connecting" => fd[fconn] \in N \cup {base},
           UNCHANGED <<vars, c2s, role, cpc, ctok, rx, info, fconn, base, cfgVars>>,
           \A y \in Session : fd'[y] = fd[y] \/ (fd'[y] = None /\ fd[y] \in N /\ role[y] # "acc")
    PROVE  CInv'
<1>1. PICK M : M = N \cup {base}
    OBVIOUS
<1>2. CloseFds(M) /\ M \subseteq Session \cup {None} /\ base \in M /\ N \subseteq M
    BY <1>1 DEF Restart, EInv, BInv, ETypeOK
<1>3. fpc' = "sleep" /\ fwlock' # "fwd"
    BY DEF Restart
<1>4. FwdInv' /\ FdsInv'
    BY <1>1, <1>2, <1>3, ClosesFds
<1>5. Mono
    BY DEF Mono, vars, cfgVars
<1>6. /\ \A y \in Session : EndKept(y)
      /\ \A n \in Session : tab'[n] = IF n \in M THEN None ELSE tab[n]
    BY <1>2, ClosesEnds
<1>7. \A y : Stage(y)' \in {Stage(y), "old"}
    BY <1>3 DEF Stage
<1>8. \A y \in Session : ClSame(y)
    BY <1>6, <1>7 DEF ClSame
<1>9. Rest'
    BY <1>5, <1>8, NoClient
<1>10. ToFwd'
    BY <1>3 DEF ToFwd, LoggingIn
<1> QED
    BY <1>4, <1>9, <1>10 DEF CInv, Rest

LEMMA FwdNoConnectInv ==
    ASSUME EInv, FwdNoConnect
    PROVE  CInv'
<1>1. UNCHANGED <<vars, c2s, role, cpc, ctok, rx, info, fconn, base, cfgVars>>
    BY DEF FwdNoConnect
<1>2. CASE fpc = "connect" /\ Restart({}) /\ UNCHANGED fd
    BY <1>1, <1>2, RestartInv
<1>3. CASE /\ fpc = "connecting" /\ Restart({fd[fconn]})
           /\ fd' = [fd EXCEPT ![fconn] = None]
    <2>1. fconn \in Session /\ role[fconn] = "fwd" /\ fd \in [Session -> Session \cup {None}]
        BY <1>3 DEF EInv, BInv, FlightInv, ETypeOK
    <2>2. {fd[fconn]} \subseteq Session \cup {None}
        BY <2>1
    <2>3. \A y \in Session : \/ fd'[y] = fd[y]
                             \/ fd'[y] = None /\ fd[y] \in {fd[fconn]} /\ role[y] # "acc"
        BY <1>3, <2>1
    <2> QED
        BY <1>1, <1>3, <2>2, <2>3, RestartInv
<1> QED
    BY <1>2, <1>3 DEF FwdNoConnect

LEMMA FwdLostInv ==
    ASSUME EInv, FwdLost
    PROVE  CInv'
<1>1. /\ UNCHANGED <<vars, c2s, role, cpc, ctok, rx, info, fconn, base, fd, cfgVars>>
      /\ Restart({}) /\ fpc # "connecting"
    BY DEF FwdLost
<1> QED
    BY <1>1, RestartInv

(* The forward task tries again.                                            *)
LEMMA FwdWakeInv ==
    ASSUME EInv, FwdWake
    PROVE  CInv'
<1>1. /\ fpc = "sleep" /\ fpc' = "connect"
      /\ UNCHANGED <<vars, c2s, s2c, cend, role, cpc, ctok, rx, info, fconn, fwlock,
                     base, fd, tab, cfgVars>>
    BY DEF FwdWake, chanVars, taskVars, fdVars
<1>2. FwdInv'
    BY <1>1 DEF EInv, CInv, FwdInv, LoggingIn
<1>3. FdsInv'
    BY <1>1 DEF EInv, CInv, FdsInv, FdAt, LoggingIn
<1>4. Mono /\ \A y \in Session : ClSame(y)
    BY <1>1 DEF Mono, ClSame, EndKept, Stage, vars, cfgVars
<1>5. Rest'
    BY <1>1, <1>4, NoClient
<1>6. ToFwd'
    BY <1>1 DEF ToFwd, LoggingIn
<1> QED
    BY <1>2, <1>3, <1>5, <1>6 DEF CInv, Rest

-----------------------------------------------------------------------------
(* New connections.                                                         *)

(* A new connection is fresh on both ends, and nobody has its number.       *)
LEMMA NewIs ==
    ASSUME EInv, Unused # {}
    PROVE  /\ New \in Session /\ role[New] = "none" /\ cend[New] = "none"
           /\ cpc[New] = "none" /\ c2s[New] = <<>> /\ s2c[New] = <<>>
           /\ pc[New] = "idle" /\ type[New] = "NULL" /\ remote_fd[New] = None
           /\ sfd[New] = None /\ New # fconn
           /\ Carries(New) /\ Alone(New) /\ rx[New] = None /\ info[New] = None
           /\ tab[New] = None /\ base # New /\ \A x \in Session : fd[x] # New
           /\ \A n \in Session : tab[n] # New
<1>1. PICK n : n = New
    OBVIOUS
<1>2. n \in Session /\ role[n] = "none"
    BY <1>1 DEF New, Unused
<1>3. TaskAt(n) /\ RoleOf(n) /\ FdAt(n)
    BY <1>2 DEF EInv, CInv, TaskInv, RoleInv, FdsInv
<1>4. cend[n] = "none" /\ cpc[n] = "none" /\ c2s[n] = <<>> /\ s2c[n] = <<>> /\ pc[n] = "idle"
    BY <1>2, <1>3 DEF TaskAt
<1>5. type[n] = "NULL" /\ remote_fd[n] = None /\ Carries(n)
    BY <1>2, <1>4 DEF EInv, BInv, IInv, RoleAtLabel, FdInv, Live, Carries
<1>6. Alone(n)
    BY <1>2, <1>4, WhoIsAlone
<1>7. Single(n)
    BY <1>2, <1>6 DEF EInv, CInv, LinkInv, Alone, Links, LinkAt
<1>8. rx[n] = None /\ info[n] = None
    BY <1>7 DEF Single
<1>9. sfd[n] = None /\ n # fconn
    BY <1>2, <1>5, SessionAssumption DEF EInv, BInv, FlightInv
<1>10. /\ tab[n] = None /\ base # n /\ \A x \in Session : fd[x] # n
       /\ \A m \in Session : tab[m] # n
    <2>1. tab[n] = None /\ base # n /\ \A x \in Session : fd[x] # n
        BY <1>2, <1>3 DEF FdAt
    <2>2. \A m \in Session : tab[m] # n
        BY <1>2, SessionAssumption DEF EInv, BInv, FlightInv
    <2> QED
        BY <2>1, <2>2
<1> QED
    BY <1>1, <1>2, <1>4, <1>5, <1>6, <1>8, <1>9, <1>10

(* The number of a new socket names nothing, and whoever holds it has lost  *)
(* what it named.                                                           *)
LEMMA FreeNumber ==
    ASSUME EInv, NEW s \in Session, NEW n \in Numbers(s), tab[s] = None
    PROVE  n \in Session /\ tab[n] = None
<1>1. n \in Session
    BY NumbersAre DEF EInv, BInv
<1> QED
    BY <1>1 DEF Numbers

(* hev_fsh_client_base_connect makes a socket for s: the numbers of the     *)
(* others stay with them.                                                   *)
LEMMA OpensFd ==
    ASSUME EInv, NEW s \in Session, NEW n \in Numbers(s), OpenFd(s, n),
           cend[s] = "none", \A m \in Session : tab[m] # s,
           role[s] = "none" \/ (role[s] = "acc" /\ cpc[s] = "start"),
           UNCHANGED <<cend, base>>,
           \A y \in Session : y # s => role'[y] = role[y] /\ cpc'[y] = cpc[y],
           \/ /\ role'[s] = "acc" /\ cpc'[s] = "connect" /\ UNCHANGED <<fpc, fconn>>
           \/ /\ role'[s] = "fwd" /\ fpc = "connect" /\ fpc' = "connecting"
              /\ fconn' = s,
           UNCHANGED fwlock
    PROVE  FwdInv' /\ FdsInv'
<1>1. FwdInv /\ \A y \in Session : FdAt(y) /\ TaskAt(y)
    BY DEF EInv, CInv, FdsInv, TaskInv
<1>2. /\ tab \in [Session -> Session \cup {None}] /\ fd \in [Session -> Session \cup {None}]
      /\ base \in Session \cup {None}
      /\ fpc \in LoggingIn \cup {"connecting"} => fconn \in Session /\ role[fconn] = "fwd"
    BY DEF EInv, BInv, FlightInv, ETypeOK
<1>3. tab[s] = None /\ base # s /\ \A x \in Session : fd[x] # s
    BY <1>1 DEF FdAt
<1>4. n \in Session /\ tab[n] = None
    BY <1>3, FreeNumber
<1>5. /\ tab'[n] = s /\ fd'[s] = n
      /\ \A m \in Session : m # n => tab'[m] = tab[m]
      /\ \A y \in Session : y # s => fd'[y] = fd[y]
    BY <1>2, <1>4 DEF OpenFd
<1>6. fpc \in LoggingIn \cup {"connecting"} =>
         fconn # s /\ UNCHANGED <<fpc, fconn>> /\ role'[fconn] = "fwd"
    BY <1>2 DEF LoggingIn
<1>7. FwdInv'
    <2>1. ASSUME fpc' \in LoggingIn
          PROVE  base' # None /\ cend'[fconn'] # "none"
                 /\ (cend'[fconn'] = "open" <=> tab'[base'] = fconn')
        <3>1. fpc' = fpc /\ fpc \in LoggingIn
            BY <2>1 DEF LoggingIn
        <3>2. /\ base # None /\ cend[fconn] # "none" /\ fconn # s /\ fconn' = fconn
              /\ cend[fconn] = "open" <=> tab[base] = fconn
            BY <1>1, <1>6, <3>1 DEF FwdInv
        <3>3. tab'[base] = fconn <=> tab[base] = fconn
            BY <1>2, <1>4, <1>5, <3>1, <3>2, SessionAssumption
        <3> QED
            BY <3>2, <3>3
    <2>2. fpc' = "connecting" => cend'[fconn'] = "none" /\ fd'[fconn'] # None
        <3>1. CASE fpc = "connecting"
            BY <1>1, <1>2, <1>5, <1>6, <3>1 DEF FwdInv
        <3>2. CASE fpc # "connecting"
            BY <1>4, <1>5, <3>2, SessionAssumption
        <3> QED
            BY <3>1, <3>2
    <2>3. \A y \in Session : role'[y] = "fwd" /\ cend'[y] = "open" =>
              y = fconn' /\ fpc' \in LoggingIn
        BY <1>1 DEF FwdInv, LoggingIn
    <2> QED
        BY <1>1, <2>1, <2>2, <2>3 DEF FwdInv
<1>8. ASSUME NEW y \in Session PROVE FdAt(y)'
    <2>1. ASSUME NEW m \in Session, tab'[m] = y
          PROVE  \/ role'[y] = "acc" /\ cpc'[y] # "start" /\ fd'[y] = m
                 \/ y = fconn' /\ fpc' = "connecting" /\ fd'[y] = m
                 \/ y = fconn' /\ fpc' \in LoggingIn /\ base' = m
        <3>1. CASE m = n
            BY <1>5, <2>1, <3>1
        <3>2. CASE m # n
            <4>1. tab[m] = y /\ y # s
                BY <1>5, <2>1, <3>2
            <4>2. \/ role[y] = "acc" /\ cpc[y] # "start" /\ fd[y] = m
                  \/ y = fconn /\ fpc = "connecting" /\ fd[y] = m
                  \/ y = fconn /\ fpc \in LoggingIn /\ base = m
                BY <1>1, <4>1 DEF FdAt
            <4> QED
                BY <1>5, <1>6, <4>1, <4>2
        <3> QED
            BY <3>1, <3>2
    <2>2. role'[y] = "acc" /\ cend'[y] = "open" => tab'[fd'[y]] = y
        <3> SUFFICES ASSUME role'[y] = "acc", cend'[y] = "open" PROVE tab'[fd'[y]] = y
            OBVIOUS
        <3>1. y # s /\ role[y] = "acc" /\ cend[y] = "open" /\ fd'[y] = fd[y]
            BY <1>5
        <3>2. cpc[y] \in {"iv", "info", "splice"}
            BY <1>1, <3>1 DEF TaskAt
        <3>3. fd[y] \in Session /\ tab[fd[y]] = y
            BY <1>1, <1>2, <3>1, <3>2 DEF FdAt
        <3> QED
            BY <1>4, <1>5, <3>1, <3>3, SessionAssumption
    <2>3. role'[y] = "acc" /\ cpc'[y] \in {"connect", "iv", "info", "splice"} => fd'[y] # None
        BY <1>1, <1>4, <1>5, SessionAssumption DEF FdAt
    <2>4. role'[y] = "none" \/ (role'[y] = "acc" /\ cpc'[y] = "start") =>
             tab'[y] = None /\ base' # y /\ \A x \in Session : fd'[x] # y
        <3> SUFFICES ASSUME role'[y] = "none" \/ (role'[y] = "acc" /\ cpc'[y] = "start")
                     PROVE  tab'[y] = None /\ base' # y /\ \A x \in Session : fd'[x] # y
            OBVIOUS
        <3>1. y # s /\ tab[y] = None /\ base # y /\ \A x \in Session : fd[x] # y
            BY <1>1 DEF FdAt
        <3>2. n # y
            BY <3>1 DEF Numbers, HeldFds
        <3> QED
            BY <1>5, <3>1, <3>2
    <2> QED
        BY <2>1, <2>2, <2>3, <2>4 DEF FdAt
<1> QED
    BY <1>7, <1>8 DEF FdsInv

(* The forward task makes a socket.                                         *)
LEMMA FwdSocketInv ==
    ASSUME EInv, FwdSocket
    PROVE  CInv'
<1>1. PICK s : s = New
    OBVIOUS
<1>2. /\ fpc = "connect" /\ Unused # {} /\ fpc' = "connecting" /\ fconn' = s
      /\ role' = [role EXCEPT ![s] = "fwd"] /\ \E n \in Numbers(s) : OpenFd(s, n)
      /\ UNCHANGED <<vars, c2s, s2c, cend, cpc, ctok, rx, info, fwlock, base, cfgVars>>
    BY <1>1 DEF FwdSocket, chanVars
<1>3. /\ s \in Session /\ role[s] = "none" /\ cend[s] = "none"
      /\ cpc[s] = "none" /\ c2s[s] = <<>> /\ s2c[s] = <<>>
      /\ pc[s] = "idle" /\ type[s] = "NULL" /\ remote_fd[s] = None /\ sfd[s] = None
      /\ Carries(s) /\ Alone(s) /\ rx[s] = None /\ info[s] = None
      /\ \A m \in Session : tab[m] # s
    BY <1>1, <1>2, NewIs
<1>4. PICK n \in Numbers(s) : OpenFd(s, n)
    BY <1>2
<1>5. role'[s] = "fwd" /\ \A y \in Session : y # s => role'[y] = role[y]
    BY <1>2, <1>3 DEF EInv, BInv, ETypeOK
<1>6. FwdInv' /\ FdsInv'
    BY <1>2, <1>3, <1>4, <1>5, OpensFd
<1>7. UNCHANGED <<pc, type, open, remote_fd, sfd>> /\ Mono
    BY <1>2 DEF vars, regVars, ioVars, locVars, Mono, cfgVars
<1>8. Local(s)'
    <2>1. TaskAt(s)'
        BY <1>2, <1>3, <1>5, <1>7 DEF TaskAt
    <2>2. RoleOf(s)'
        BY <1>3, <1>5, <1>7 DEF RoleOf
    <2>3. FromFwd(s)'
        <3>1. PICK q : q = c2s'[s]
            OBVIOUS
        <3>2. q = <<>> /\ Len(q) = 0
            BY <1>2, <1>3, <3>1
        <3>3. KAFrom(q, 1)'
            BY <3>2 DEF KAFrom
        <3>4. LoginIn(q)'
            <4>1. LoginAt(q, 1)'
                BY <3>2 DEF LoginAt
            <4>2. 1 \in 1..Len(q) + 1 /\ \A m \in 1..1 - 1 : FALSE
                BY <3>2
            <4> QED
                BY <4>1, <4>2 DEF LoginIn
        <3>5. Stage(s)' = "before"
            BY <1>2 DEF Stage
        <3> QED
            BY <1>3, <1>7, <3>1, <3>3, <3>4, <3>5 DEF FromFwd
    <2>4. Keyed(s)'
        BY <1>2, <1>3 DEF Keyed
    <2> QED
        BY <2>1, <2>2, <2>3, <2>4 DEF Local
<1>9. Single(s)'
    BY <1>2, <1>3, <1>5 DEF Single, FromTask
<1>10. \A y \in Session \ {s} : ClSame(y)
    BY <1>2, <1>5 DEF ClSame, EndKept, Stage
<1>11. Rest'
    BY <1>2, <1>3, <1>7, <1>8, <1>9, <1>10, OneClient
<1>12. ToFwd'
    BY <1>2 DEF ToFwd, LoggingIn
<1> QED
    BY <1>6, <1>11, <1>12 DEF CInv, Rest

(* An accept task makes a socket, or fails to.                              *)
LEMMA AccSocketInv ==
    ASSUME EInv, NEW s \in Session, AccSocket(s)
    PROVE  CInv'
<1>1. /\ role[s] = "acc" /\ cpc[s] = "start"
      /\ UNCHANGED <<vars, c2s, s2c, cend, role, ctok, rx, info, fpc, fconn, fwlock,
                     base, cfgVars>>
      /\ \/ cpc' = [cpc EXCEPT ![s] = "connect"] /\ \E n \in Numbers(s) : OpenFd(s, n)
         \/ cpc' = [cpc EXCEPT ![s] = "end"] /\ UNCHANGED <<fd, tab>>
    BY DEF AccSocket, chanVars, fwdVars
<1>2. /\ cend[s] = "none" /\ c2s[s] = <<>> /\ s2c[s] = <<>> /\ pc[s] = "idle"
      /\ RoleOf(s) /\ Keyed(s) /\ FdAt(s)
    BY <1>1 DEF EInv, CInv, TaskInv, TaskAt, RoleInv, KeyInv, FdsInv
<1>3. Alone(s)
    BY <1>2, WhoIsAlone
<1>4. Single(s)
    BY <1>3 DEF EInv, CInv, LinkInv, Alone, Links, LinkAt
<1>5. cpc'[s] \in {"connect", "end"} /\ \A y \in Session : y # s => cpc'[y] = cpc[y]
    BY <1>1 DEF EInv, BInv, ETypeOK
<1>6. UNCHANGED <<pc, type, open, remote_fd, sfd, crypto>> /\ Mono
    BY <1>1 DEF vars, regVars, ioVars, locVars, Mono, cfgVars
<1>7. FwdInv' /\ FdsInv' /\ \A y \in Session : Stage(y)' = Stage(y)
    <2>1. CASE cpc' = [cpc EXCEPT ![s] = "connect"] /\ \E n \in Numbers(s) : OpenFd(s, n)
        <3>1. PICK n \in Numbers(s) : OpenFd(s, n)
            BY <2>1
        <3>2. cpc'[s] = "connect"
            BY <2>1 DEF EInv, BInv, ETypeOK
        <3>3. \A m \in Session : tab[m] # s
            <4>1. s # fconn \/ fpc \notin LoggingIn \cup {"connecting"}
                BY <1>1 DEF EInv, BInv, FlightInv, LoggingIn
            <4> QED
                BY <1>1, <1>2, <4>1 DEF FdAt
        <3>4. FwdInv' /\ FdsInv'
            BY <1>1, <1>2, <1>5, <3>1, <3>2, <3>3, OpensFd
        <3>5. n \in Session /\ tab[n] = None
            BY <1>1, <1>2, <3>1, FreeNumber DEF FdAt
        <3>6. fpc \in LoggingIn => (tab'[base] = fconn <=> tab[base] = fconn)
            <4> SUFFICES ASSUME fpc \in LoggingIn
                         PROVE  tab'[base] = fconn <=> tab[base] = fconn
                OBVIOUS
            <4>1. /\ fconn \in Session /\ role[fconn] = "fwd" /\ base \in Session
                  /\ tab \in [Session -> Session \cup {None}]
                BY DEF EInv, BInv, CInv, FlightInv, ETypeOK, FwdInv
            <4>2. tab' = [tab EXCEPT ![n] = s] /\ fconn # s
                BY <1>1, <3>1, <4>1 DEF OpenFd
            <4> QED
                BY <3>5, <4>1, <4>2, SessionAssumption
        <3>7. \A y \in Session : Stage(y)' = Stage(y)
            BY <1>1, <3>6 DEF Stage, LoggingIn, EInv, BInv, ETypeOK
        <3> QED
            BY <3>4, <3>7
    <2>2. CASE cpc' = [cpc EXCEPT ![s] = "end"] /\ UNCHANGED <<fd, tab>>
        <3>1. FwdInv'
            BY <1>1, <2>2 DEF EInv, CInv, FwdInv
        <3>2. ASSUME NEW y \in Session PROVE FdAt(y)'
            <4>1. FdAt(y) /\ (y = s => cpc'[y] = "end") /\ (y # s => cpc'[y] = cpc[y])
                BY <2>2 DEF EInv, BInv, CInv, ETypeOK, FdsInv
            <4> QED
                BY <1>1, <1>2, <2>2, <4>1 DEF FdAt
        <3>3. \A y \in Session : Stage(y)' = Stage(y)
            BY <1>1, <2>2, StageKept
        <3> QED
            BY <3>1, <3>2, <3>3 DEF FdsInv
    <2> QED
        BY <1>1, <2>1, <2>2
<1>8. Local(s)'
    <2>1. TaskAt(s)'
        BY <1>1, <1>2, <1>5, <1>6 DEF TaskAt
    <2>2. RoleOf(s)' /\ FromFwd(s)'
        BY <1>1, <1>2, <1>6 DEF RoleOf, FromFwd
    <2>3. Keyed(s)'
        BY <1>1, <1>4, <1>5, <1>6 DEF Keyed, Single
    <2> QED
        BY <2>1, <2>2, <2>3 DEF Local
<1>9. Single(s)'
    BY <1>1, <1>2, <1>4, <1>5, <1>6 DEF Single, FromTask
<1>10. \A y \in Session \ {s} : ClSame(y)
    BY <1>1, <1>5, <1>7 DEF ClSame, EndKept
<1>11. Rest'
    BY <1>1, <1>3, <1>6, <1>8, <1>9, <1>10, OneClient
<1>12. ToFwd'
    BY <1>1, ToFwdKept
<1> QED
    BY <1>7, <1>11, <1>12 DEF CInv, Rest

-----------------------------------------------------------------------------
(* The login.                                                               *)

(* A path with one more unit at its end, by index.                          *)
LEMMA GrowIs ==
    ASSUME NEW u \in Seq(Unit), NEW v \in Seq(Unit), NEW m \in Unit
    PROVE  /\ v \o <<m>> \in Seq(Unit) /\ Len(v \o <<m>>) = Len(v) + 1
           /\ \A n \in 1..Len(v) : (v \o <<m>>)[n] = v[n]
           /\ (v \o <<m>>)[Len(v) + 1] = m
           /\ Len(v) \in Nat /\ Len(u \o v) \in Nat
           /\ Len(u \o (v \o <<m>>)) = Len(u \o v) + 1
           /\ \A n \in 1..Len(u \o v) : (u \o (v \o <<m>>))[n] = (u \o v)[n]
           /\ (u \o (v \o <<m>>))[Len(u \o v) + 1] = m
<1>1. PICK b : b = <<m>>
    OBVIOUS
<1>2. b \in Seq(Unit) /\ Len(b) = 1 /\ b[1] = m
    BY <1>1, Lists
<1>3. PICK g, w : g = v \o b /\ w = u \o v
    OBVIOUS
<1>4. /\ g \in Seq(Unit) /\ Len(g) = Len(v) + 1 /\ Len(v) \in Nat
      /\ \A n \in 1..Len(v) : g[n] = v[n]
      /\ g[Len(v) + 1] = m
    <2>1. b \in Seq(Unit)
        BY <1>2
    <2>2. /\ v \o b \in Seq(Unit) /\ Len(v \o b) = Len(v) + Len(b) /\ Len(v) \in Nat
          /\ \A n \in 1..Len(v) : (v \o b)[n] = v[n]
          /\ \A n \in 1..Len(b) : (v \o b)[Len(v) + n] = b[n]
        BY <2>1, CatIs
    <2> QED
        BY <1>2, <1>3, <2>2
<1>5. /\ w \in Seq(Unit) /\ Len(w) = Len(u) + Len(v) /\ Len(u) \in Nat
      /\ \A n \in 1..Len(u) : w[n] = u[n]
      /\ \A n \in Len(u) + 1..Len(u) + Len(v) : w[n] = v[n - Len(u)]
    BY <1>3, CatIs
<1>6. PICK h : h = u \o g
    OBVIOUS
<1>7. /\ Len(h) = Len(u) + Len(g)
      /\ \A n \in 1..Len(u) : h[n] = u[n]
      /\ \A n \in Len(u) + 1..Len(u) + Len(g) : h[n] = g[n - Len(u)]
    <2>1. g \in Seq(Unit)
        BY <1>4
    <2> QED
        BY <1>6, <2>1, CatIs
<1>8. Len(h) = Len(w) + 1 /\ Len(w) \in Nat
    BY <1>4, <1>5, <1>7
<1>9. ASSUME NEW n \in 1..Len(w) PROVE h[n] = w[n]
    <2>1. CASE n \in 1..Len(u)
        BY <1>5, <1>7, <2>1
    <2>2. CASE n \in Len(u) + 1..Len(u) + Len(v)
        <3>1. n \in Len(u) + 1..Len(u) + Len(g) /\ n - Len(u) \in 1..Len(v)
            BY <1>4, <1>5, <2>2
        <3> QED
            BY <1>4, <1>5, <1>7, <2>2, <3>1
    <2> QED
        BY <1>4, <1>5, <2>1, <2>2
<1>10. h[Len(w) + 1] = m
    <2>1. Len(w) + 1 \in Len(u) + 1..Len(u) + Len(g) /\ (Len(w) + 1) - Len(u) = Len(v) + 1
        BY <1>4, <1>5
    <2> QED
        BY <1>4, <1>7, <2>1
<1> QED
    BY <1>1, <1>3, <1>4, <1>6, <1>8, <1>9, <1>10

(* The forward task is connected.                                           *)
LEMMA FwdConnectedInv ==
    ASSUME EInv, FwdConnected
    PROVE  CInv'
<1>1. PICK s, n : s = fconn /\ n = fd[fconn]
    OBVIOUS
<1>2. /\ fpc = "connecting" /\ tab[n] = s /\ fpc' = "login" /\ base' = n
      /\ fd' = [fd EXCEPT ![s] = None] /\ cend' = [cend EXCEPT ![s] = "open"]
      /\ UNCHANGED <<vars, c2s, s2c, role, cpc, ctok, rx, info, fconn, fwlock, tab,
                     cfgVars>>
    BY <1>1 DEF FwdConnected, chanVars
<1>3. /\ s \in Session /\ role[s] = "fwd" /\ fd \in [Session -> Session \cup {None}]
      /\ cend \in [Session -> {"none", "open", "closed"}]
    BY <1>1, <1>2 DEF EInv, BInv, FlightInv, ETypeOK
<1>4. /\ FwdInv /\ FdsInv /\ TaskAt(s) /\ RoleOf(s) /\ FromFwd(s) /\ Keyed(s) /\ FdAt(s)
    BY <1>3 DEF EInv, CInv, TaskInv, RoleInv, FromInv, KeyInv, FdsInv
<1>5. cend[s] = "none" /\ n # None /\ n \in Session
    BY <1>1, <1>2, <1>3, <1>4 DEF FwdInv
<1>6. /\ c2s[s] \in Seq(Unit) /\ s2c[s] = <<>> /\ pc[s] = "idle" /\ cpc[s] = "none"
      /\ type[s] = "NULL"
    BY <1>3, <1>4, <1>5 DEF EInv, BInv, StreamInv, TaskAt, IInv, RoleAtLabel, Live
<1>7. /\ cend'[s] = "open" /\ \A y \in Session : y # s => cend'[y] = cend[y]
      /\ fd'[s] = None /\ \A y \in Session : y # s => fd'[y] = fd[y]
    BY <1>2, <1>3
<1>8. FwdInv'
    <2>1. base' # None /\ cend'[fconn'] # "none" /\ cend'[fconn'] = "open"
          /\ tab'[base'] = fconn' /\ fwlock' # "fwd"
        BY <1>1, <1>2, <1>4, <1>5, <1>7 DEF FwdInv
    <2>2. \A y \in Session : role'[y] = "fwd" /\ cend'[y] = "open" => y = fconn'
        BY <1>1, <1>2, <1>4, <1>7 DEF FwdInv
    <2> QED
        BY <1>2, <2>1, <2>2 DEF FwdInv, LoggingIn
<1>9. ASSUME NEW y \in Session PROVE FdAt(y)'
    <2>1. FdAt(y) /\ TaskAt(y)
        BY DEF EInv, CInv, FdsInv, TaskInv
    <2>2. ASSUME NEW m \in Session, tab'[m] = y
          PROVE  \/ role'[y] = "acc" /\ cpc'[y] # "start" /\ fd'[y] = m
                 \/ y = fconn' /\ fpc' \in LoggingIn /\ base' = m
        <3>1. \/ role[y] = "acc" /\ cpc[y] # "start" /\ fd[y] = m
              \/ y = fconn /\ fpc = "connecting" /\ fd[y] = m
            BY <1>2, <2>1, <2>2 DEF FdAt, LoggingIn
        <3> QED
            BY <1>1, <1>2, <1>3, <1>7, <3>1 DEF LoggingIn
    <2>3. role'[y] = "acc" => y # s /\ fd'[y] = fd[y] /\ cend'[y] = cend[y]
        BY <1>2, <1>3, <1>7
    <2>4. role'[y] = "none" \/ (role'[y] = "acc" /\ cpc'[y] = "start") =>
             tab'[y] = None /\ base' # y /\ \A x \in Session : fd'[x] # y
        BY <1>1, <1>2, <1>3, <1>7, <2>1, SessionAssumption DEF FdAt
    <2> QED
        BY <1>2, <2>1, <2>2, <2>3, <2>4 DEF FdAt
<1>10. UNCHANGED <<pc, type, open, remote_fd, sfd, crypto>> /\ Mono
    BY <1>2 DEF vars, regVars, ioVars, locVars, Mono, cfgVars
<1>11. Alone(s)
    BY <1>3, WhoIsAlone
<1>12. Single(s)
    BY <1>3, <1>11 DEF EInv, CInv, LinkInv, Alone, Links, LinkAt
<1>13. \A y : Stage(y)' = Stage(y)
    BY <1>2 DEF Stage
<1>14. Local(s)'
    <2>1. TaskAt(s)'
        BY <1>2, <1>3, <1>6, <1>7, <1>10 DEF TaskAt
    <2>2. RoleOf(s)'
        BY <1>2, <1>4, <1>10 DEF RoleOf
    <2>3. FromFwd(s)'
        <3>1. PICK q : q = c2s[s]
            OBVIOUS
        <3>2. c2s'[s] = q /\ Stage(s) = "before" /\ Stage(s)' = "before" /\ Carries(s)
            BY <1>1, <1>2, <1>6, <1>13, <3>1 DEF Stage, Carries
        <3>3. LoginIn(q) /\ KAFrom(q, 1)
            BY <1>3, <1>4, <1>6, <3>1, <3>2 DEF FromFwd
        <3>4. LoginIn(q)' /\ KAFrom(q, 1)'
            BY <1>10, <3>3, Mono1
        <3> QED
            BY <1>6, <1>10, <3>2, <3>4 DEF FromFwd
    <2>4. Keyed(s)'
        BY <1>2, <1>4, <1>10 DEF Keyed
    <2> QED
        BY <2>1, <2>2, <2>3, <2>4 DEF Local
<1>15. Single(s)'
    BY <1>2, <1>3, <1>10, <1>12 DEF Single, FromTask
<1>16. \A y \in Session \ {s} : ClSame(y)
    BY <1>2, <1>7, <1>13 DEF ClSame, EndKept
<1>17. Rest'
    BY <1>2, <1>3, <1>10, <1>11, <1>14, <1>15, <1>16, OneClient
<1>18. ToFwd'
    <2>1. PICK q : q = s2c'[s]
        OBVIOUS
    <2>2. q = <<>> /\ Len(q) = 0 /\ type'[s] = "NULL" /\ fconn' = s
        BY <1>1, <1>2, <1>6, <1>10, <2>1
    <2>3. \A m \in 1..0 : FALSE
        OBVIOUS
    <2> QED
        BY <1>2, <2>1, <2>2, <2>3 DEF ToFwd
<1> QED
    BY <1>8, <1>9, <1>17, <1>18 DEF CInv, FdsInv, Rest

(* Keep-alives, then the login: with its header, with its token, and a      *)
(* keep-alive behind it.                                                    *)
LEMMA LoginSent ==
    ASSUME NEW q \in Seq(Unit), KAFrom(q, 1), NEW v \in {1, 3}
    PROVE  LET r == q \o <<Hdr("LOGIN", v)>> IN
           /\ LoginIn(r) /\ r # <<>> /\ r[Len(r)] = Hdr("LOGIN", v)
<1>1. PICK h, r : h = Hdr("LOGIN", v) /\ r = q \o <<h>>
    OBVIOUS
<1>2. h \in Unit
    BY <1>1, AreUnits
<1>3. /\ r \in Seq(Unit) /\ Len(r) = Len(q) + 1 /\ Len(q) \in Nat
      /\ \A n \in 1..Len(q) : r[n] = q[n]
      /\ r[Len(q) + 1] = h
    <2>1. <<>> \in Seq(Unit)
        BY EmptySeq
    <2> QED
        BY <1>1, <1>2, <2>1, GrowIs
<1>4. LoginAt(r, Len(q) + 1)
    <2>1. Len(q) + 1 = Len(r) /\ Len(q) + 1 <= Len(r) /\ \A n \in (Len(q) + 1) + 1..Len(r) : FALSE
        BY <1>3
    <2> QED
        BY <1>1, <1>3, <2>1 DEF LoginAt, KAFrom
<1>5. LoginIn(r)
    <2>1. Len(q) + 1 \in 1..Len(r) + 1 /\ (Len(q) + 1) - 1 = Len(q)
        BY <1>3
    <2>2. \A n \in 1..(Len(q) + 1) - 1 : r[n] = KA
        BY <1>3, <2>1 DEF KAFrom
    <2> QED
        BY <1>4, <2>1, <2>2 DEF LoginIn
<1>6. r # <<>> /\ r[Len(r)] = h
    BY <1>3, EmptySeq
<1> QED
    BY <1>1, <1>5, <1>6

LEMMA TokenFollows ==
    ASSUME NEW q \in Seq(Unit), LoginIn(q), q # <<>>, q[Len(q)] = Hdr("LOGIN", 3),
           NEW t \in Unit, IsTok(t)
    PROVE  LET r == q \o <<t>> IN LoginIn(r) /\ r[Len(r)] = t
<1>1. PICK r : r = q \o <<t>>
    OBVIOUS
<1>2. /\ r \in Seq(Unit) /\ Len(r) = Len(q) + 1 /\ Len(q) \in Nat
      /\ \A n \in 1..Len(q) : r[n] = q[n]
      /\ r[Len(q) + 1] = t
    <2>1. <<>> \in Seq(Unit)
        BY EmptySeq
    <2> QED
        BY <1>1, <2>1, GrowIs
<1>3. 1 <= Len(q)
    BY TailIs
<1>4. PICK p \in 1..Len(q) + 1 : LoginAt(q, p) /\ \A n \in 1..p - 1 : q[n] = KA
    BY DEF LoginIn
<1>5. /\ Hdr("LOGIN", 3).unit = "hdr" /\ Hdr("LOGIN", 3) # Hdr("LOGIN", 1)
      /\ Hdr("LOGIN", 3) # KA
    <2>1. Hdr("LOGIN", 3).unit = "hdr" /\ Hdr("LOGIN", 3).cmd = "LOGIN"
        BY DEF Hdr
    <2> QED
        BY <2>1, Headers
<1>6. p = Len(q)
    <2>1. CASE p = Len(q) + 1
        <3>1. Len(q) \in 1..p - 1
            BY <1>2, <1>3, <2>1
        <3> QED
            BY <1>4, <1>5, <3>1
    <2>2. CASE p <= Len(q) /\ q[p] = Hdr("LOGIN", 1) /\ KAFrom(q, p + 1)
        <3>1. p # Len(q)
            BY <1>5, <2>2
        <3>2. Len(q) \in p + 1..Len(q)
            BY <1>2, <2>2, <3>1
        <3> QED
            BY <1>5, <2>2, <3>2 DEF KAFrom
    <2>3. CASE /\ p + 1 <= Len(q) /\ q[p] = Hdr("LOGIN", 3) /\ IsTok(q[p + 1])
               /\ KAFrom(q, p + 2)
        <3>1. p + 1 # Len(q)
            BY <1>5, <2>3 DEF IsTok
        <3>2. Len(q) \in p + 2..Len(q)
            BY <1>2, <2>3, <3>1
        <3> QED
            BY <1>5, <2>3, <3>2 DEF KAFrom
    <2> QED
        BY <1>4, <2>1, <2>2, <2>3 DEF LoginAt
<1>7. LoginAt(r, p)
    <2>1. p + 1 = Len(r) /\ r[p] = Hdr("LOGIN", 3) /\ r[p + 1] = t
        BY <1>2, <1>3, <1>6
    <2>2. p + 1 <= Len(r) /\ \A n \in p + 2..Len(r) : FALSE
        BY <1>2, <1>6
    <2> QED
        BY <2>1, <2>2 DEF LoginAt, KAFrom
<1>8. LoginIn(r)
    <2>1. p \in 1..Len(r) + 1 /\ \A n \in 1..p - 1 : r[n] = KA
        BY <1>2, <1>3, <1>4, <1>6
    <2> QED
        BY <1>7, <2>1 DEF LoginIn
<1>9. r[Len(r)] = t
    BY <1>2
<1> QED
    BY <1>1, <1>8, <1>9

LEMMA KAGrows ==
    ASSUME NEW q \in Seq(Unit)
    PROVE  LET r == q \o <<KA>> IN
           /\ KAFrom(q, 1) => KAFrom(r, 1)
           /\ q # <<>> /\ IsTok(q[1]) /\ KAFrom(q, 2) => IsTok(r[1]) /\ KAFrom(r, 2)
           /\ LoginIn(q) /\ (q = <<>> \/ q[Len(q)] # Hdr("LOGIN", 3)) => LoginIn(r)
           /\ r # <<>> /\ r[Len(r)] = KA
<1>1. PICK r : r = q \o <<KA>>
    OBVIOUS
<1>2. KA \in Unit
    BY AreUnits
<1>3. /\ r \in Seq(Unit) /\ Len(r) = Len(q) + 1 /\ Len(q) \in Nat
      /\ \A n \in 1..Len(q) : r[n] = q[n]
      /\ r[Len(q) + 1] = KA
    <2>1. <<>> \in Seq(Unit)
        BY EmptySeq
    <2> QED
        BY <1>1, <1>2, <2>1, GrowIs
<1>4. ASSUME NEW m \in Nat, 1 <= m, KAFrom(q, m) PROVE KAFrom(r, m)
    <2> SUFFICES ASSUME NEW n \in m..Len(r) PROVE r[n] = KA
        BY DEF KAFrom
    <2>1. CASE n = Len(q) + 1
        BY <1>3, <2>1
    <2>2. CASE n # Len(q) + 1
        <3>1. n \in m..Len(q) /\ n \in 1..Len(q)
            BY <1>3, <1>4, <2>2
        <3> QED
            BY <1>3, <1>4, <3>1 DEF KAFrom
    <2> QED
        BY <2>1, <2>2
<1>5. q # <<>> => 1 <= Len(q) /\ r[1] = q[1]
    <2>1. q # <<>> => 1 <= Len(q)
        BY TailIs
    <2> QED
        BY <1>3, <2>1
<1>6. ASSUME LoginIn(q), q = <<>> \/ q[Len(q)] # Hdr("LOGIN", 3) PROVE LoginIn(r)
    <2>1. PICK p \in 1..Len(q) + 1 : LoginAt(q, p) /\ \A n \in 1..p - 1 : q[n] = KA
        BY <1>6 DEF LoginIn
    <2>2. CASE p = Len(q) + 1
        <3>1. \A n \in 1..Len(r) : r[n] = KA
            <4> SUFFICES ASSUME NEW n \in 1..Len(r) PROVE r[n] = KA
                OBVIOUS
            <4>1. CASE n = Len(q) + 1
                BY <1>3, <4>1
            <4>2. CASE n # Len(q) + 1
                <5>1. n \in 1..Len(q) /\ n \in 1..p - 1
                    BY <1>3, <2>2, <4>2
                <5> QED
                    BY <1>3, <2>1, <5>1
            <4> QED
                BY <4>1, <4>2
        <3>2. LoginAt(r, Len(r) + 1)
            BY DEF LoginAt
        <3>3. Len(r) + 1 \in 1..Len(r) + 1 /\ (Len(r) + 1) - 1 = Len(r)
            BY <1>3
        <3> QED
            BY <3>1, <3>2, <3>3 DEF LoginIn
    <2>3. CASE p <= Len(q)
        <3>1. /\ p \in 1..Len(r) + 1 /\ p \in Nat /\ 1 <= p /\ r[p] = q[p] /\ p <= Len(r)
              /\ \A n \in 1..p - 1 : r[n] = KA
            BY <1>3, <2>1, <2>3
        <3>2. p # Len(q) + 1
            BY <1>3, <2>3
        <3>3. CASE q[p] = Hdr("LOGIN", 1) /\ KAFrom(q, p + 1)
            <4>1. KAFrom(r, p + 1)
                BY <1>4, <3>1, <3>3
            <4>2. LoginAt(r, p)
                BY <3>1, <3>3, <4>1 DEF LoginAt
            <4> QED
                BY <3>1, <4>2 DEF LoginIn
        <3>4. CASE /\ p + 1 <= Len(q) /\ q[p] = Hdr("LOGIN", 3) /\ IsTok(q[p + 1])
                   /\ KAFrom(q, p + 2)
            <4>1. KAFrom(r, p + 2)
                BY <1>4, <3>1, <3>4
            <4>2. r[p + 1] = q[p + 1] /\ p + 1 <= Len(r)
                BY <1>3, <3>1, <3>4
            <4>3. LoginAt(r, p)
                BY <3>1, <3>4, <4>1, <4>2 DEF LoginAt
            <4> QED
                BY <3>1, <4>3 DEF LoginIn
        <3>5. ~(p = Len(q) /\ q[p] = Hdr("LOGIN", 3))
            <4>1. p = Len(q) => q # <<>>
                BY <3>1, EmptySeq
            <4> QED
                BY <1>6, <4>1
        <3> QED
            BY <2>1, <3>2, <3>3, <3>4, <3>5 DEF LoginAt
    <2> QED
        BY <1>3, <2>1, <2>2, <2>3
<1>7. r # <<>> /\ r[Len(r)] = KA
    BY <1>3, EmptySeq
<1> QED
    BY <1>1, <1>4, <1>5, <1>6, <1>7

(* A step of the forward task between its calls.                            *)
LEMMA FwdMoves ==
    ASSUME EInv, fpc \in LoggingIn, fpc' \in LoggingIn,
           UNCHANGED <<role, cend, cpc, fconn, base, fd, tab>>,
           fwlock' = "fwd" <=> fpc' = "logintok"
    PROVE  FwdInv' /\ FdsInv'
<1>1. FwdInv'
    BY DEF EInv, CInv, FwdInv, LoggingIn
<1>2. ASSUME NEW y \in Session PROVE FdAt(y)'
    <2>1. FdAt(y)
        BY DEF EInv, CInv, FdsInv
    <2> QED
        BY <2>1 DEF FdAt, LoggingIn
<1> QED
    BY <1>1, <1>2 DEF FdsInv

(* The connection of the forward task.                                      *)
LEMMA FwdConn ==
    ASSUME EInv, fpc \in LoggingIn
    PROVE  /\ fconn \in Session /\ role[fconn] = "fwd" /\ base \in Session
           /\ tab[base] \in Session \cup {None} /\ fconn # None
           /\ cend[fconn] = "open" <=> tab[base] = fconn
           /\ c2s[fconn] \in Seq(Unit) /\ s2c[fconn] \in Seq(Unit)
           /\ Alone(fconn) /\ Single(fconn) /\ TaskAt(fconn) /\ RoleOf(fconn)
           /\ FromFwd(fconn) /\ Keyed(fconn)
<1>1. /\ fconn \in Session /\ role[fconn] = "fwd" /\ base \in Session /\ fconn # None
      /\ tab[base] \in Session \cup {None}
      /\ c2s[fconn] \in Seq(Unit) /\ s2c[fconn] \in Seq(Unit)
    BY DEF EInv, BInv, CInv, FlightInv, ETypeOK, FwdInv, StreamInv
<1>2. cend[fconn] = "open" <=> tab[base] = fconn
    BY DEF EInv, CInv, FwdInv
<1>3. Alone(fconn)
    BY <1>1, WhoIsAlone
<1>4. Single(fconn)
    BY <1>1, <1>3 DEF EInv, CInv, LinkInv, Alone, Links, LinkAt
<1> QED
    BY <1>1, <1>2, <1>3, <1>4 DEF EInv, CInv, TaskInv, RoleInv, FromInv, KeyInv

(* A send on base->fd that hits nobody else.                                *)
LEMMA FwdSends ==
    ASSUME EInv, fpc \in LoggingIn, NEW us \in Seq(Unit), FwdSend(us), hit' = {}
    PROVE  \/ tab[base] = fconn /\ SendUnits(fconn, us)
           \/ tab[base] # fconn /\ UNCHANGED c2s
<1>1. PICK X : X = Named({base})
    OBVIOUS
<1>2. X = {tab[base]} \ {None} /\ fconn # None
    BY <1>1, FwdConn, SessionAssumption DEF Named
<1>3. X \subseteq {fconn}
    BY <1>1 DEF FwdSend
<1>4. CASE X = {}
    <2>1. tab[base] = None
        BY <1>2, <1>4
    <2>2. UNCHANGED c2s
        BY <1>1, <1>4 DEF FwdSend
    <2> QED
        BY <1>2, <2>1, <2>2
<1>5. CASE X # {}
    <2>1. tab[base] = fconn /\ X = {fconn}
        BY <1>2, <1>3, <1>5
    <2>2. \E x \in X : SendUnits(x, us)
        BY <1>1, <1>5 DEF FwdSend
    <2> QED
        BY <2>1, <2>2
<1> QED
    BY <1>4, <1>5

(* The forward task's own connection grows; nothing else changes but its    *)
(* label and lock.                                                          *)
LEMMA FwdGrows ==
    ASSUME EInv, NEW s \in Session, s = fconn, role[s] = "fwd", Mono,
           UNCHANGED <<vars, s2c, taskVars, fconn, fdVars>>,
           \A y \in Session : y # s => c2s'[y] = c2s[y], FromFwd(s)',
           role[s] = "fwd" /\ (cend[s] = "none" => UNCHANGED <<pc, fpc>>)
    PROVE  Rest'
<1> USE DEF taskVars, fdVars
<1>1. Alone(s)
    BY WhoIsAlone
<1>2. Single(s) /\ TaskAt(s) /\ RoleOf(s) /\ Keyed(s)
    BY <1>1 DEF EInv, CInv, LinkInv, Alone, Links, LinkAt, TaskInv, RoleInv, KeyInv
<1>3. UNCHANGED <<pc, type, open, remote_fd, sfd>> /\ crypto' = crypto
    BY DEF vars, regVars, ioVars, locVars, Mono
<1>4. TaskAt(s)' /\ RoleOf(s)' /\ Keyed(s)'
    BY <1>2, <1>3 DEF TaskAt, RoleOf, Keyed
<1>5. Single(s)'
    BY <1>2, <1>3 DEF Single, FromTask
<1>6. \A y \in Session \ {s} : ClSame(y)
    BY DEF ClSame, EndKept, Stage
<1> QED
    BY <1>1, <1>4, <1>5, <1>6, OneClient DEF Local

(* write_login: the header.                                                 *)
LEMMA FwdLoginInv ==
    ASSUME EInv, FwdLogin, hit' = {}
    PROVE  CInv'
<1>1. PICK s, v, h : s = fconn /\ v = (IF cfgtok = None THEN 1 ELSE 3) /\ h = Hdr("LOGIN", v)
    OBVIOUS
<1>2. /\ fpc = "login" /\ fwlock = "free" /\ FwdSend(<<h>>)
      /\ IF v = 1 THEN fpc' = "token" /\ fwlock' = "free"
         ELSE fpc' = "logintok" /\ fwlock' = "fwd"
      /\ UNCHANGED <<vars, s2c, taskVars, fconn, fdVars, cfgVars>>
    BY <1>1 DEF FwdLogin, FwdSend
<1>3. /\ s \in Session /\ role[s] = "fwd" /\ base \in Session /\ s # None
      /\ cend[s] = "open" <=> tab[base] = s
      /\ c2s[s] \in Seq(Unit) /\ s2c[s] \in Seq(Unit) /\ FromFwd(s)
    BY <1>1, <1>2, FwdConn DEF LoggingIn
<1>4. h \in Unit /\ <<h>> \in Seq(Unit) /\ v \in {1, 3}
    BY <1>1, AreUnits, Lists
<1>5. FwdInv' /\ FdsInv'
    BY <1>2, FwdMoves DEF LoggingIn, taskVars, fdVars
<1>6. UNCHANGED <<pc, type, open, remote_fd, sfd>> /\ Mono /\ cend' = cend
    BY <1>2 DEF vars, regVars, ioVars, locVars, Mono, cfgVars, taskVars
<1>7. Stage(s) = "before" /\ Stage(s)' = IF tab[base] # s THEN "old" ELSE IF v = 3 THEN "half" ELSE "full"
    BY <1>1, <1>2, <1>3, <1>4 DEF Stage, fdVars
<1>8. \/ tab[base] = s /\ SendUnits(s, <<h>>)
      \/ tab[base] # s /\ UNCHANGED c2s
    BY <1>1, <1>2, <1>4, FwdSends DEF LoggingIn
<1>9. CASE tab[base] # s /\ UNCHANGED c2s
    <2>1. \A y \in Session : ClSame(y)
        BY <1>1, <1>2, <1>7, <1>9 DEF ClSame, EndKept, Stage, taskVars, fdVars
    <2>2. Rest'
        BY <1>2, <1>6, <2>1, NoClient
    <2>3. ToFwd'
        BY <1>1, <1>2, <1>3, <1>6, <1>9 DEF ToFwd
    <2> QED
        BY <1>5, <2>2, <2>3 DEF CInv, Rest
<1>10. CASE tab[base] = s /\ SendUnits(s, <<h>>)
    <2>1. PICK q, r : q = c2s[s] /\ r = q \o <<h>>
        OBVIOUS
    <2>2. /\ c2s'[s] = (IF Carries(s) THEN r ELSE q)
          /\ \A y \in Session : y # s => c2s'[y] = c2s[y]
        BY <1>3, <1>4, <1>10, <2>1, SendIs DEF EInv, BInv
    <2>3. Carries(s)' = Carries(s)
        BY <1>6 DEF Carries
    <2>4. FromFwd(s)'
        <3>1. CASE ~Carries(s)
            BY <2>3, <3>1 DEF FromFwd
        <3>2. CASE Carries(s)
            <4>1. pc[s] \in {"idle", "hdr"} /\ type[s] = "NULL" /\ KAFrom(q, 1)
                BY <1>3, <1>7, <2>1, <3>2 DEF FromFwd
            <4>2. LoginIn(r) /\ r # <<>> /\ r[Len(r)] = Hdr("LOGIN", v)
                BY <1>1, <1>3, <1>4, <2>1, <4>1, LoginSent
            <4>3. LoginIn(r)' /\ c2s'[s] = r
                BY <1>6, <2>2, <3>2, <4>2, Mono1
            <4>4. v = 3 => Half(s)'
                <5>1. v = 3 => r[Len(r)] = Hdr("LOGIN", 3)'
                    BY <4>2 DEF Hdr
                <5> QED
                    BY <1>6, <4>1, <4>2, <4>3, <5>1 DEF Half
            <4>5. v = 1 => ~Half(s)'
                <5>1. v = 1 => r[Len(r)] # Hdr("LOGIN", 3)'
                    <6>1. Hdr("LOGIN", 3)' = Hdr("LOGIN", 3)
                        BY DEF Hdr
                    <6> QED
                        BY <4>2, <6>1, Headers
                <5> QED
                    BY <1>6, <4>1, <4>3, <5>1 DEF Half
            <4> QED
                BY <1>4, <1>6, <1>7, <1>10, <4>1, <4>3, <4>4, <4>5 DEF FromFwd
        <3> QED
            BY <3>1, <3>2
    <2>5. Rest'
        BY <1>1, <1>2, <1>3, <1>6, <1>10, <2>2, <2>4, FwdGrows
    <2>6. ToFwd'
        <3>1. PICK u : u = s2c[s]
            OBVIOUS
        <3>2. type[s] = "NULL" /\ \A n \in 1..Len(u) : Echo(u[n])
            BY <1>1, <1>2, <1>3, <1>10, <3>1 DEF EInv, CInv, ToFwd, LoggingIn
        <3>3. u = <<>> \/ (1 <= Len(u) /\ Echo(u[1]))
            <4>1. u # <<>> => 1 <= Len(u) /\ Len(u) \in Nat
                BY <1>3, <3>1, TailIs
            <4> QED
                BY <3>2, <4>1
        <3>4. s2c'[s] = u /\ type'[s] = "NULL" /\ fconn' = s /\ fpc' \in {"token", "logintok"}
            BY <1>1, <1>2, <1>6, <3>1, <3>2
        <3>5. \A n \in 1..Len(u) : Echo(u[n])'
            BY <3>2 DEF Echo
        <3>6. u = <<>> \/ (1 <= Len(u) /\ Echo(u[1])')
            BY <3>3 DEF Echo
        <3> QED
            BY <3>4, <3>5, <3>6 DEF ToFwd, Echo
    <2> QED
        BY <1>5, <2>5, <2>6 DEF CInv, Rest
<1> QED
    BY <1>8, <1>9, <1>10

(* ... and the token.                                                       *)
LEMMA FwdLoginTokenInv ==
    ASSUME EInv, FwdLoginToken, hit' = {}
    PROVE  CInv'
<1>1. PICK s, t : s = fconn /\ t = Tok(cfgtok)
    OBVIOUS
<1>2. /\ fpc = "logintok" /\ fpc' = "token" /\ FwdSend(<<t>>) /\ fwlock' = "free"
      /\ UNCHANGED <<vars, s2c, taskVars, fconn, fdVars, cfgVars>>
    BY <1>1 DEF FwdLoginToken, FwdSend
<1>3. /\ s \in Session /\ role[s] = "fwd" /\ base \in Session /\ s # None
      /\ cend[s] = "open" <=> tab[base] = s
      /\ c2s[s] \in Seq(Unit) /\ s2c[s] \in Seq(Unit) /\ FromFwd(s)
    BY <1>1, <1>2, FwdConn DEF LoggingIn
<1>4. t \in Unit /\ <<t>> \in Seq(Unit) /\ IsTok(t)
    <2>1. cfgtok \in ClientToken
        BY <1>2 DEF EInv, BInv, FlightInv
    <2>2. t \in Unit /\ IsTok(t)
        BY <1>1, <2>1, AreUnits, Units DEF Token, IsTok, Sendable
    <2> QED
        BY <2>2, Lists
<1>5. FwdInv' /\ FdsInv'
    BY <1>2, FwdMoves DEF LoggingIn, taskVars, fdVars
<1>6. UNCHANGED <<pc, type, open, remote_fd, sfd>> /\ Mono /\ cend' = cend
    BY <1>2 DEF vars, regVars, ioVars, locVars, Mono, cfgVars, taskVars
<1>7. /\ Stage(s) = IF tab[base] # s THEN "old" ELSE "half"
      /\ Stage(s)' = IF tab[base] # s THEN "old" ELSE "full"
    BY <1>1, <1>2, <1>3 DEF Stage, fdVars
<1>8. \/ tab[base] = s /\ SendUnits(s, <<t>>)
      \/ tab[base] # s /\ UNCHANGED c2s
    BY <1>1, <1>2, <1>4, FwdSends DEF LoggingIn
<1>9. CASE tab[base] # s /\ UNCHANGED c2s
    <2>1. \A y \in Session : ClSame(y)
        BY <1>1, <1>2, <1>7, <1>9 DEF ClSame, EndKept, Stage, taskVars, fdVars
    <2>2. Rest'
        BY <1>2, <1>6, <2>1, NoClient
    <2>3. ToFwd'
        BY <1>1, <1>2, <1>3, <1>6, <1>9 DEF ToFwd
    <2> QED
        BY <1>5, <2>2, <2>3 DEF CInv, Rest
<1>10. CASE tab[base] = s /\ SendUnits(s, <<t>>)
    <2>1. PICK q, r : q = c2s[s] /\ r = q \o <<t>>
        OBVIOUS
    <2>2. /\ c2s'[s] = (IF Carries(s) THEN r ELSE q)
          /\ \A y \in Session : y # s => c2s'[y] = c2s[y]
        BY <1>3, <1>4, <1>10, <2>1, SendIs DEF EInv, BInv
    <2>3. Carries(s)' = Carries(s)
        BY <1>6 DEF Carries
    <2>4. type[s] = "NULL" /\ \A n \in 1..Len(s2c[s]) : Echo(s2c[s][n])
        BY <1>1, <1>2, <1>3, <1>10 DEF EInv, CInv, ToFwd, LoggingIn
    <2>5. FromFwd(s)'
        <3>1. CASE ~Carries(s)
            BY <2>3, <3>1 DEF FromFwd
        <3>2. CASE Carries(s)
            <4>1. Half(s) /\ c2s'[s] = r
                BY <1>3, <1>7, <1>10, <2>2, <3>2 DEF FromFwd
            <4>2. Hdr("LOGIN", 3)' = Hdr("LOGIN", 3) /\ Hdr("LOGIN", 3).unit = "hdr"
                BY DEF Hdr
            <4>3. CASE pc[s] = "loginTok" /\ q = <<>>
                <5>1. r = <<t>>
                    BY <1>4, <2>1, <4>3, ConcatEmptySeq
                <5>2. Len(r) = 1 /\ r[1] = t /\ r # <<>>
                    <6>1. Len(<<t>>) = 1 /\ <<t>>[1] = t /\ <<t>> # <<>>
                        BY <1>4, Lists
                    <6> QED
                        BY <5>1, <6>1
                <5>3. IsTok(r[1]) /\ KAFrom(r, 2)
                    <6>1. \A n \in 2..1 : FALSE
                        OBVIOUS
                    <6> QED
                        BY <1>4, <5>2, <6>1 DEF KAFrom
                <5>4. IsTok(r[1])' /\ KAFrom(r, 2)'
                    BY <1>6, <5>3, Mono1
                <5>5. ~Half(s)'
                    BY <1>6, <4>1, <4>3, <5>2 DEF Half
                <5> QED
                    BY <1>6, <1>7, <1>10, <2>4, <4>1, <4>3, <5>4, <5>5 DEF FromFwd
            <4>4. CASE pc[s] \in {"idle", "hdr"} /\ q # <<>> /\ q[Len(q)] = Hdr("LOGIN", 3)
                <5>1. LoginIn(q)
                    BY <1>3, <2>1, <2>4, <3>2, <4>4 DEF FromFwd
                <5>2. LoginIn(r) /\ r[Len(r)] = t
                    BY <1>3, <1>4, <2>1, <4>4, <5>1, TokenFollows
                <5>3. LoginIn(r)'
                    BY <1>6, <5>2, Mono1
                <5>4. ~Half(s)'
                    BY <1>4, <1>6, <4>1, <4>2, <4>4, <5>2 DEF Half, IsTok
                <5> QED
                    BY <1>6, <1>7, <1>10, <2>4, <4>1, <4>4, <5>3, <5>4 DEF FromFwd
            <4> QED
                BY <2>1, <4>1, <4>3, <4>4 DEF Half
        <3> QED
            BY <3>1, <3>2
    <2>6. Rest'
        BY <1>1, <1>2, <1>3, <1>6, <1>10, <2>2, <2>5, FwdGrows
    <2>7. ToFwd'
        <3>1. PICK u : u = s2c[s]
            OBVIOUS
        <3>2. \A n \in 1..Len(u) : Echo(u[n])
            BY <2>4, <3>1
        <3>3. u = <<>> \/ (1 <= Len(u) /\ Echo(u[1]))
            <4>1. u # <<>> => 1 <= Len(u) /\ Len(u) \in Nat
                BY <1>3, <3>1, TailIs
            <4> QED
                BY <3>2, <4>1
        <3>4. s2c'[s] = u /\ type'[s] = "NULL" /\ fconn' = s /\ fpc' = "token"
            BY <1>1, <1>2, <1>6, <2>4, <3>1
        <3>6. u = <<>> \/ (1 <= Len(u) /\ Echo(u[1])')
            BY <3>3 DEF Echo
        <3> QED
            BY <3>4, <3>6 DEF ToFwd, Echo
    <2> QED
        BY <1>5, <2>6, <2>7 DEF CInv, Rest
<1> QED
    BY <1>8, <1>9, <1>10

-----------------------------------------------------------------------------
(* Keep-alives.                                                             *)

(* A keep-alive goes out on the forward task's own connection, before its   *)
(* login or after it.                                                       *)
LEMMA KASent ==
    ASSUME EInv, NEW s \in Session, s = fconn, role[s] = "fwd",
           Stage(s) \in {"before", "full"}, SendUnits(s, <<KA>>),
           UNCHANGED <<vars, s2c, clientVars>>
    PROVE  CInv'
<1> USE DEF clientVars, taskVars, fwdVars, fdVars, cfgVars
<1>1. FwdInv' /\ FdsInv'
    BY FdsKept
<1>2. UNCHANGED <<pc, type, open, remote_fd, sfd>> /\ Mono
    BY DEF vars, regVars, ioVars, locVars, Mono
<1>3. PICK q, r : q = c2s[s] /\ r = q \o <<KA>>
    OBVIOUS
<1>4. q \in Seq(Unit) /\ <<KA>> \in Seq(Unit) /\ FromFwd(s)
    BY <1>3, AreUnits, Lists DEF EInv, BInv, CInv, StreamInv, FromInv
<1>5. /\ c2s'[s] = (IF Carries(s) THEN r ELSE q)
      /\ \A y \in Session : y # s => c2s'[y] = c2s[y]
    BY <1>3, <1>4, SendIs DEF EInv, BInv
<1>6. Carries(s)' = Carries(s) /\ Stage(s)' = Stage(s)
    BY <1>2, StageKept DEF Carries
<1>7. FromFwd(s)'
    <2>1. CASE ~Carries(s)
        BY <1>6, <2>1 DEF FromFwd
    <2>2. CASE Carries(s)
        <3>1. c2s'[s] = r
            BY <1>5, <2>2
        <3>2. /\ KAFrom(q, 1) => KAFrom(r, 1)
              /\ q # <<>> /\ IsTok(q[1]) /\ KAFrom(q, 2) => IsTok(r[1]) /\ KAFrom(r, 2)
              /\ LoginIn(q) /\ (q = <<>> \/ q[Len(q)] # Hdr("LOGIN", 3)) => LoginIn(r)
              /\ r # <<>> /\ r[Len(r)] = KA
            BY <1>3, <1>4, KAGrows
        <3>3. pc[s] \in {"idle", "hdr"} => q = <<>> \/ q[Len(q)] # Hdr("LOGIN", 3)
            <4>1. CASE Stage(s) = "before"
                <5>1. KAFrom(q, 1)
                    BY <1>3, <1>4, <2>2, <4>1 DEF FromFwd
                <5> QED
                    BY <1>4, <5>1, LastKA
            <4>2. CASE Stage(s) = "full"
                BY <1>3, <1>4, <2>2, <4>2 DEF FromFwd, Half
            <4> QED
                BY <4>1, <4>2
        <3>4. pc[s] = "loginTok" => q # <<>>
            BY <1>3, <1>4, <2>2 DEF FromFwd, Half
        <3>5. /\ KAFrom(q, 1) => KAFrom(r, 1)'
              /\ q # <<>> /\ IsTok(q[1]) /\ KAFrom(q, 2) => IsTok(r[1])' /\ KAFrom(r, 2)'
              /\ LoginIn(q) /\ pc[s] \in {"idle", "hdr"} => LoginIn(r)'
            BY <1>2, <3>2, <3>3, Mono1
        <3>6. ~Half(s)'
            <4>1. r[Len(r)] # Hdr("LOGIN", 3)'
                <5>1. Hdr("LOGIN", 3)' = Hdr("LOGIN", 3)
                    BY DEF Hdr
                <5>2. Hdr("LOGIN", 3).cmd = "LOGIN" /\ KA.cmd = "KEEP_ALIVE"
                    BY DEF Hdr, KA
                <5> QED
                    BY <3>2, <5>1, <5>2
            <4> QED
                BY <3>1, <3>2, <4>1 DEF Half
        <3>7. /\ pc[s] \in {"idle", "hdr"} /\ type[s] = "NULL" => LoginIn(q)
              /\ pc[s] = "loginTok" => IsTok(q[1]) /\ KAFrom(q, 2)
              /\ type[s] # "NULL" => KAFrom(q, 1)
              /\ Stage(s) = "before" => /\ pc[s] \in {"idle", "hdr"} /\ type[s] = "NULL"
                                        /\ KAFrom(q, 1)
            BY <1>3, <1>4, <2>2, <3>4 DEF FromFwd
        <3>8. /\ pc'[s] \in {"idle", "hdr"} /\ type'[s] = "NULL" => LoginIn(r)'
              /\ pc'[s] = "loginTok" => IsTok(r[1])' /\ KAFrom(r, 2)'
              /\ type'[s] # "NULL" => KAFrom(r, 1)'
              /\ Stage(s)' = "before" => /\ pc'[s] \in {"idle", "hdr"} /\ type'[s] = "NULL"
                                         /\ KAFrom(r, 1)'
            BY <1>2, <1>6, <3>4, <3>5, <3>7
        <3>9. Stage(s)' # "half"
            BY <1>6
        <3> QED
            BY <3>1, <3>6, <3>8, <3>9 DEF FromFwd
    <2> QED
        BY <2>1, <2>2
<1>8. Rest'
    BY <1>2, <1>5, <1>7, FwdGrows
<1>9. ToFwd'
    BY ToFwdKept
<1> QED
    BY <1>1, <1>8, <1>9 DEF CInv, Rest

LEMMA KeepAliveInv ==
    ASSUME EInv, KeepAlive
    PROVE  CInv'
<1>1. /\ fpc \in {"logintok", "token", "dispatch"} /\ tab[base] = fconn /\ fwlock = "free"
      /\ SendUnits(fconn, <<KA>>) /\ UNCHANGED <<vars, s2c, clientVars>>
    BY DEF KeepAlive, OwnBase, KA
<1>2. fpc # "logintok"
    BY <1>1 DEF EInv, CInv, FwdInv
<1>3. fconn \in Session /\ role[fconn] = "fwd"
    BY <1>1, FwdConn DEF LoggingIn
<1>4. Stage(fconn) = "full"
    BY <1>1, <1>2 DEF Stage
<1> QED
    BY <1>1, <1>3, <1>4, KASent

(* One that hits nobody else while base->fd is stale goes out before the    *)
(* login.                                                                   *)
LEMMA KeepAliveStaleInv ==
    ASSUME EInv, KeepAliveStale, hit' = {}
    PROVE  CInv'
<1>1. PICK x \in Named({base}) : SendUnits(x, <<KA>>) /\ hit' = hit \cup ({x} \ {fconn})
    BY DEF KeepAliveStale, KA
<1>2. fpc # "login" /\ ~OwnBase /\ UNCHANGED <<vars, s2c, clientVars>>
    BY DEF KeepAliveStale
<1>3. x = fconn /\ x \in Session /\ base \in Session /\ tab[base] = x
    <2>1. base \in Session \cup {None}
        BY DEF EInv, BInv, ETypeOK
    <2>2. x = fconn
        BY <1>1
    <2>3. base # None /\ tab[base] = x
        BY <1>1 DEF Named
    <2>4. x \in Session
        BY <1>1, <2>1, NamedAre DEF EInv
    <2> QED
        BY <2>1, <2>2, <2>3, <2>4
<1>4. role[x] = "fwd" /\ FdAt(x)
    BY <1>3, SessionAssumption DEF EInv, BInv, CInv, FlightInv, FdsInv
<1>5. fpc = "connecting"
    BY <1>2, <1>3, <1>4 DEF FdAt, OwnBase, LoggingIn
<1>6. Stage(x) = "before"
    BY <1>3, <1>5 DEF Stage
<1> QED
    BY <1>1, <1>2, <1>3, <1>4, <1>6, KASent

(* The keep-alive task takes the lock and waits, or gives it back.          *)
LEMMA KeepAliveWaitsInv ==
    ASSUME EInv, KeepAliveStuck \/ KeepAliveGivesUp
    PROVE  CInv'
<1>1. /\ UNCHANGED <<vars, c2s, s2c, cend, role, cpc, ctok, rx, info, fpc, fconn, base,
                     fd, tab, cfgVars>>
      /\ fwlock # "fwd" /\ fwlock' # "fwd"
    BY DEF KeepAliveStuck, KeepAliveGivesUp, chanVars, taskVars, fdVars
<1>2. FwdInv' /\ FdsInv'
    BY <1>1, FdsKept
<1>3. Mono /\ \A y \in Session : ClSame(y)
    BY <1>1, StageKept DEF Mono, ClSame, EndKept, vars, cfgVars
<1>4. Rest'
    BY <1>1, <1>3, NoClient
<1>5. ToFwd'
    BY <1>1, ToFwdKept
<1> QED
    BY <1>2, <1>4, <1>5 DEF CInv, Rest

-----------------------------------------------------------------------------
(* The forward task reads.                                                  *)

(* What it reads next.                                                      *)
LEMMA FwdNextUnit ==
    ASSUME EInv, NEW l \in {"token", "dispatch"}, FwdReads(l)
    PROVE  /\ fconn \in Session /\ role[fconn] = "fwd" /\ cend[fconn] = "open"
           /\ fconn # None /\ Tail(s2c[fconn]) \in Seq(Unit)
           /\ l = "token" =>
                 \/ /\ LoggedIn(fconn) /\ Head(s2c[fconn]).cmd = "TOKEN"
                    /\ Later(Tail(s2c[fconn]), 1)
                 \/ Echo(Head(s2c[fconn]))
           /\ l = "dispatch" =>
                 /\ LoggedIn(fconn) /\ Later(Tail(s2c[fconn]), 1)
                 /\ Asks(Head(s2c[fconn])) \/ Echo(Head(s2c[fconn]))
<1>0. fpc = l /\ tab[base] = fconn /\ s2c[fconn] # <<>>
    BY DEF FwdReads
<1>1. /\ fconn \in Session /\ role[fconn] = "fwd" /\ cend[fconn] = "open"
      /\ fconn # None /\ s2c[fconn] \in Seq(Unit)
    BY <1>0, FwdConn DEF LoggingIn
<1>2. PICK q, t : q = s2c[fconn] /\ t = Tail(s2c[fconn])
    OBVIOUS
<1>3. /\ q \in Seq(Unit) /\ Len(q) \in Nat /\ 1 <= Len(q) /\ Head(q) = q[1]
      /\ Len(t) = Len(q) - 1 /\ \A n \in 1..Len(q) - 1 : t[n] = q[n + 1]
      /\ t \in Seq(Unit)
    <2>1. q \in Seq(Unit) /\ q # <<>>
        BY <1>0, <1>1, <1>2
    <2> QED
        BY <1>2, <2>1, TailIs
<1>4. ASSUME Later(q, 2) PROVE Later(t, 1)
    <2> SUFFICES ASSUME NEW n \in 1..Len(t) PROVE Asks(t[n]) \/ Echo(t[n])
        BY DEF Later
    <2>1. n + 1 \in 2..Len(q) /\ t[n] = q[n + 1]
        BY <1>3
    <2> QED
        BY <1>4, <2>1 DEF Later
<1>5. Later(q, 1) => Later(q, 2) /\ (Asks(q[1]) \/ Echo(q[1]))
    BY <1>3 DEF Later
<1>6. ToFwd
    BY DEF EInv, CInv
<1>7. CASE l = "token"
    <2>1. \/ LoggedIn(fconn) /\ Answered(q)
          \/ Echo(q[1])
        BY <1>0, <1>1, <1>2, <1>6, <1>7 DEF ToFwd, LoggingIn
    <2> QED
        BY <1>1, <1>2, <1>3, <1>4, <1>7, <2>1 DEF Answered
<1>8. CASE l = "dispatch"
    <2>1. LoggedIn(fconn) /\ Later(q, 1)
        BY <1>0, <1>1, <1>2, <1>6, <1>8 DEF ToFwd, LoggingIn
    <2> QED
        BY <1>1, <1>2, <1>3, <1>4, <1>5, <1>8, <2>1
<1> QED
    BY <1>7, <1>8

(* It has read a message: what follows.                                     *)
LEMMA ToFwdRead ==
    ASSUME EInv, NEW s \in Session, s = fconn, fconn' = s, fpc' = "dispatch",
           UNCHANGED vars, NEW t, s2c'[s] = t, Later(t, 1), LoggedIn(s)
    PROVE  ToFwd'
<1>1. Later(t, 1)'
    BY DEF Later, Asks, Echo
<1>2. LoggedIn(s)'
    BY DEF LoggedIn, vars, regVars
<1> QED
    BY <1>1, <1>2 DEF ToFwd, LoggedIn

(* read_token.                                                              *)
LEMMA FwdTokenInv ==
    ASSUME EInv, FwdToken
    PROVE  CInv'
<1>1. /\ FwdReads("token")
      /\ UNCHANGED <<vars, c2s, role, cpc, ctok, rx, info, fconn, base, fd, cfgVars>>
    BY DEF FwdToken
<1>2. CASE Head(s2c[fconn]).cmd # "TOKEN"
    <2>1. Restart({}) /\ fpc # "connecting"
        BY <1>1, <1>2 DEF FwdToken, FwdReads
    <2> QED
        BY <1>1, <2>1, RestartInv
<1>3. CASE Head(s2c[fconn]).cmd = "TOKEN"
    <2>1. PICK s, t : s = fconn /\ t = Tail(s2c[fconn])
        OBVIOUS
    <2>2. /\ fpc = "token" /\ fpc' = "dispatch"
          /\ s2c' = [s2c EXCEPT ![s] = t] /\ UNCHANGED <<cend, fwlock, tab>>
        BY <1>1, <1>3, <2>1 DEF FwdToken, FwdReads
    <2>3. /\ s \in Session /\ role[s] = "fwd" /\ cend[s] = "open" /\ t \in Seq(Unit)
          /\ LoggedIn(s) /\ Later(t, 1)
        <3>1. ~Echo(Head(s2c[fconn]))
            BY <1>3 DEF Echo
        <3> QED
            BY <1>1, <2>1, <3>1, FwdNextUnit
    <2>4. s2c'[s] = t /\ \A y \in Session : y # s => s2c'[y] = s2c[y]
        BY <2>2, <2>3 DEF EInv, BInv, StreamInv
    <2>5. FwdInv' /\ FdsInv'
        <3>1. fwlock' # "fwd" /\ fpc \in LoggingIn /\ fpc' \in LoggingIn
            BY <2>2 DEF EInv, CInv, FwdInv, LoggingIn
        <3> QED
            BY <1>1, <2>2, <3>1, FwdMoves
    <2>6. Mono /\ \A y \in Session : ClSame(y)
        BY <1>1, <2>2, <2>3, <2>4 DEF Mono, vars, cfgVars, ClSame, EndKept, Stage
    <2>7. Rest'
        BY <1>1, <2>6, NoClient
    <2>8. ToFwd'
        BY <1>1, <2>1, <2>2, <2>3, <2>4, ToFwdRead
    <2> QED
        BY <2>5, <2>7, <2>8 DEF CInv, Rest
<1> QED
    BY <1>2, <1>3

(* dispatch: an accept task is started.                                     *)
LEMMA FwdDispatchInv ==
    ASSUME EInv, FwdDispatch
    PROVE  CInv'
<1>1. /\ FwdReads("dispatch") /\ fpc = "dispatch"
      /\ UNCHANGED <<vars, c2s, rx, info, fconn, base, fd, cfgVars>>
    BY DEF FwdDispatch, FwdReads
<1>2. PICK f, t, m : f = fconn /\ t = Tail(s2c[fconn]) /\ m = Head(s2c[fconn])
    OBVIOUS
<1>3. /\ f \in Session /\ role[f] = "fwd" /\ cend[f] = "open" /\ t \in Seq(Unit)
      /\ LoggedIn(f) /\ Later(t, 1) /\ (Asks(m) \/ Echo(m))
    BY <1>1, <1>2, FwdNextUnit
<1>4. /\ s2c' = [s2c EXCEPT ![f] = t] /\ UNCHANGED <<cend, fpc, fwlock, tab>>
      /\ IF m.cmd = "CONNECT"
         THEN /\ Unused # {}
              /\ role' = [role EXCEPT ![New] = "acc"]
              /\ cpc' = [cpc EXCEPT ![New] = "start"]
              /\ ctok' = [ctok EXCEPT ![New] = m.val]
         ELSE UNCHANGED <<role, cpc, ctok>>
    <2>1. m.cmd \in {"CONNECT", "KEEP_ALIVE"}
        BY <1>3 DEF Asks, Echo
    <2> QED
        BY <1>2, <2>1 DEF FwdDispatch, StartAccept
<1>5. s2c'[f] = t /\ \A y \in Session : y # f => s2c'[y] = s2c[y]
    BY <1>3, <1>4 DEF EInv, BInv, StreamInv
<1>6. Mono /\ \A y : Stage(y)' = Stage(y)
    BY <1>1, <1>4, StageKept DEF Mono, vars, cfgVars
<1>7. ToFwd'
    BY <1>1, <1>2, <1>3, <1>4, <1>5, ToFwdRead
<1>8. CASE m.cmd # "CONNECT"
    <2>1. UNCHANGED <<role, cpc, ctok>>
        BY <1>4, <1>8
    <2>2. FwdInv' /\ FdsInv'
        BY <1>1, <1>4, <2>1, FdsKept
    <2>3. \A y \in Session : ClSame(y)
        BY <1>1, <1>3, <1>4, <1>5, <1>6, <2>1 DEF ClSame, EndKept
    <2>4. Rest'
        BY <1>1, <1>6, <2>3, NoClient
    <2> QED
        BY <1>7, <2>2, <2>4 DEF CInv, Rest
<1>9. CASE m.cmd = "CONNECT"
    <2>1. PICK s : s = New
        OBVIOUS
    <2>2. /\ Unused # {} /\ role' = [role EXCEPT ![s] = "acc"]
          /\ cpc' = [cpc EXCEPT ![s] = "start"] /\ ctok' = [ctok EXCEPT ![s] = m.val]
        BY <1>4, <1>9, <2>1
    <2>3. /\ s \in Session /\ role[s] = "none" /\ cend[s] = "none"
          /\ cpc[s] = "none" /\ c2s[s] = <<>> /\ s2c[s] = <<>>
          /\ pc[s] = "idle" /\ type[s] = "NULL" /\ remote_fd[s] = None /\ sfd[s] = None
          /\ Alone(s) /\ rx[s] = None /\ info[s] = None /\ s # f
          /\ tab[s] = None /\ base # s /\ \A x \in Session : fd[x] # s
          /\ \A n \in Session : tab[n] # s
        BY <1>3, <2>1, <2>2, NewIs
    <2>4. /\ role'[s] = "acc" /\ \A y \in Session : y # s => role'[y] = role[y]
          /\ cpc'[s] = "start" /\ \A y \in Session : y # s => cpc'[y] = cpc[y]
          /\ \A y \in Session : y # s => ctok'[y] = ctok[y]
        BY <2>2, <2>3 DEF EInv, BInv, ETypeOK
    <2>5. FwdInv'
        <3>1. \A y \in Session : role'[y] = "fwd" => role[y] = "fwd"
            BY <2>4
        <3> QED
            BY <1>1, <1>4, <3>1 DEF EInv, CInv, FwdInv
    <2>6. ASSUME NEW y \in Session PROVE FdAt(y)'
        <3>1. FdAt(y)
            BY DEF EInv, CInv, FdsInv
        <3>2. CASE y # s
            BY <1>1, <1>4, <2>4, <3>1, <3>2 DEF FdAt
        <3>3. CASE y = s
            BY <1>1, <1>4, <2>3, <2>4, <3>3 DEF FdAt
        <3> QED
            BY <3>2, <3>3
    <2>7. UNCHANGED <<pc, type, open, remote_fd, sfd, crypto, issued>>
        BY <1>1 DEF vars, regVars, ioVars, locVars, cfgVars
    <2>8. cend'[s] = "none" /\ c2s'[s] = <<>> /\ s2c'[s] = <<>> /\ rx'[s] = None /\ info'[s] = None
        BY <1>1, <1>4, <1>5, <2>3
    <2>9. Local(s)'
        <3>1. TaskAt(s)'
            BY <2>3, <2>4, <2>7, <2>8 DEF TaskAt
        <3>2. RoleOf(s)' /\ FromFwd(s)' /\ Keyed(s)'
            BY <2>3, <2>4, <2>7, <2>8 DEF RoleOf, FromFwd, Keyed
        <3> QED
            BY <3>1, <3>2 DEF Local
    <2>10. Single(s)'
        BY <2>4, <2>8 DEF Single, FromTask
    <2>11. \A y \in Session \ {s} : ClSame(y)
        BY <1>1, <1>3, <1>4, <1>5, <1>6, <2>4 DEF ClSame, EndKept
    <2>12. Rest'
        BY <1>1, <1>6, <2>3, <2>9, <2>10, <2>11, OneClient
    <2> QED
        BY <1>7, <2>5, <2>6, <2>12 DEF CInv, FdsInv, Rest
<1> QED
    BY <1>8, <1>9


-----------------------------------------------------------------------------
(* Accept tasks and connectors send their requests.                         *)

(* What an accept task sends.                                               *)
LEMMA AcceptIs ==
    ASSUME NEW s \in Session, NEW h \in Unit, NEW t \in Unit
    PROVE  LET a == <<h, t>> \o IvUnits(s) IN
           /\ a \in Seq(Unit) /\ a[1] = h /\ a[2] = t
           /\ crypto => Len(a) = 3 /\ a[3] = Iv(s)
           /\ ~crypto => Len(a) = 2
<1>1. PICK v : v = Iv(s)
    OBVIOUS
<1>2. v \in Unit
    BY <1>1, AreUnits
<1>3. PICK b, bv : b = <<h, t>> /\ bv = <<h, t>> \o <<v>>
    OBVIOUS
<1>4. /\ b \in Seq(Unit) /\ Len(b) = 2 /\ b[1] = h /\ b[2] = t
      /\ bv \in Seq(Unit) /\ Len(bv) = 3 /\ bv[1] = h /\ bv[2] = t /\ bv[3] = v
    BY <1>2, <1>3, Lists
<1>5. b \o <<>> = b
    BY <1>4, ConcatEmptySeq
<1>6. CASE crypto
    BY <1>1, <1>3, <1>4, <1>6 DEF IvUnits
<1>7. CASE ~crypto
    BY <1>3, <1>4, <1>5, <1>7 DEF IvUnits
<1> QED
    BY <1>6, <1>7

(* An accept task is connected.                                             *)
LEMMA AccConnectedInv ==
    ASSUME EInv, NEW s \in Session, AccConnected(s)
    PROVE  CInv'
<1>1. PICK us : us = <<Hdr("ACCEPT", 1), Tok(ctok[s])>> \o IvUnits(s)
    OBVIOUS
<1>2. /\ cpc[s] = "connect" /\ Mine(s) /\ cend' = [cend EXCEPT ![s] = "open"]
      /\ cpc' = [cpc EXCEPT ![s] = IF crypto THEN "iv" ELSE "info"]
      /\ SendUnits(s, us)
      /\ UNCHANGED <<vars, s2c, role, ctok, rx, info, fpc, fconn, fwlock, base, fd, tab, cfgVars>>
    BY <1>1 DEF AccConnected, fwdVars, fdVars
<1>3. /\ role[s] = "acc" /\ cend[s] = "none" /\ c2s[s] = <<>> /\ s2c[s] = <<>>
      /\ pc[s] = "idle" /\ ctok[s] \in Sendable /\ ctok[s] \in Token
      /\ tab[fd[s]] = s /\ crypto \in BOOLEAN
    <2>1. TaskAt(s) /\ role[s] = "acc" /\ ctok[s] \in Sendable /\ ctok[s] \in Token
          /\ crypto \in BOOLEAN
        BY <1>2 DEF EInv, BInv, CInv, FlightInv, TaskInv, ETypeOK
    <2> QED
        BY <1>2, <2>1 DEF TaskAt, Mine
<1>4. Alone(s) /\ Carries(s) /\ RoleOf(s) /\ Keyed(s) /\ FdAt(s)
    BY <1>3, WhoIsAlone DEF Carries, EInv, CInv, RoleInv, KeyInv, FdsInv
<1>5. Single(s)
    BY <1>4 DEF EInv, CInv, LinkInv, Alone, Links, LinkAt
<1>6. Mono
    BY <1>2 DEF Mono, cfgVars, vars
<1>8. /\ us \in Seq(Unit) /\ us[1] = Hdr("ACCEPT", 1) /\ us[2] = Tok(ctok[s])
      /\ crypto => Len(us) = 3 /\ us[3] = Iv(s)
      /\ ~crypto => Len(us) = 2
    <2>1. PICK h, t : h = Hdr("ACCEPT", 1) /\ t = Tok(ctok[s])
        OBVIOUS
    <2>2. h \in Unit /\ t \in Unit
        BY <1>3, <2>1, AreUnits
    <2>3. us = <<h, t>> \o IvUnits(s)
        BY <1>1, <2>1
    <2>4. /\ us \in Seq(Unit) /\ us[1] = h /\ us[2] = t
          /\ crypto => Len(us) = 3 /\ us[3] = Iv(s)
          /\ ~crypto => Len(us) = 2
        BY <2>2, <2>3, AcceptIs
    <2> QED
        BY <2>1, <2>4
<1>9. c2s'[s] = us /\ \A y \in Session : y # s => c2s'[y] = c2s[y]
    <2>1. <<>> \o us = us
        BY <1>8, ConcatEmptySeq
    <2> QED
        BY <1>2, <1>3, <1>4, <1>8, <2>1, SendIs DEF EInv, BInv
<1>10. /\ cend'[s] = "open" /\ \A y \in Session : y # s => cend'[y] = cend[y]
       /\ cpc'[s] = (IF crypto THEN "iv" ELSE "info")
       /\ \A y \in Session : y # s => cpc'[y] = cpc[y]
    BY <1>2 DEF EInv, BInv, ETypeOK
<1>11. fpc \in LoggingIn \cup {"connecting"} => fconn \in Session /\ fconn # s
    BY <1>3 DEF EInv, BInv, FlightInv, ETypeOK
<1>12. FwdInv'
    <2>1. fpc \in LoggingIn \cup {"connecting"} => cend'[fconn] = cend[fconn]
        BY <1>10, <1>11
    <2> QED
        BY <1>2, <1>3, <1>10, <2>1 DEF EInv, CInv, FwdInv
<1>13. FdsInv'
    <2>1. \A y \in Session : y # s => FdAt(y)'
        BY <1>2, <1>10 DEF EInv, CInv, FdsInv, FdAt
    <2>2. FdAt(s)'
        <3>1. cpc'[s] # "start"
            BY <1>10
        <3> QED
            BY <1>2, <1>3, <1>4, <3>1 DEF FdAt
    <2> QED
        BY <2>1, <2>2 DEF FdsInv
<1>16. UNCHANGED <<pc, type, open, remote_fd, sfd, crypto, issued>>
    BY <1>2 DEF vars, regVars, ioVars, locVars, cfgVars
<1>17. Local(s)'
    <2>1. TaskAt(s)'
        BY <1>2, <1>3, <1>10, <1>16 DEF TaskAt
    <2>2. RoleOf(s)'
        BY <1>2, <1>4, <1>16 DEF RoleOf
    <2>3. FromFwd(s)'
        BY <1>2, <1>3 DEF FromFwd
    <2>4. Keyed(s)'
        BY <1>2, <1>5, <1>10, <1>16 DEF Keyed, Single
    <2> QED
        BY <2>1, <2>2, <2>3, <2>4 DEF Local
<1>18. Single(s)'
    <2>1. IsTok(us[2])'
        <3>1. Tok(ctok[s]).unit = "tok" /\ Tok(ctok[s]).val = ctok[s]
            BY DEF Tok
        <3>2. IsTok(us[2])
            BY <1>3, <1>8, <3>1 DEF IsTok
        <3> QED
            BY <1>6, <3>2, Mono1
    <2>2. OpensAt(s, us, 2)
        <3>1. us[2 + 1] = us[3] /\ 2 + 1 = 3
            OBVIOUS
        <3> QED
            BY <1>3, <1>8, <3>1 DEF OpensAt
    <2>3. OpensAt(s, us, 2)'
        BY <1>2, <1>6, <2>2, Mono1
    <2>4. 2 <= Len(us) /\ us[1] = Hdr("ACCEPT", 1)' /\ role'[s] = "acc" /\ pc'[s] = "idle"
        BY <1>2, <1>3, <1>8, <1>16 DEF Hdr
    <2>5. FromTask(s)'
        BY <1>9, <2>1, <2>3, <2>4 DEF FromTask, Hdr
    <2> QED
        BY <1>2, <1>3, <1>5, <1>10, <1>16, <2>5 DEF Single
<1>19. Rest'
    <2>1. \A y \in Session \ {s} : ClSame(y)
        BY <1>2, <1>9, <1>10, StageKept DEF ClSame, EndKept
    <2> QED
        BY <1>2, <1>4, <1>6, <1>17, <1>18, <2>1, OneClient
<1>20. ToFwd'
    BY <1>2, <1>10, <1>11, ToFwdKept
<1> QED
    BY <1>12, <1>13, <1>19, <1>20 DEF CInv, Rest

(* A connector starts.                                                      *)
LEMMA ConStartInv ==
    ASSUME EInv, ConStart
    PROVE  CInv'
<1>1. PICK s, k : s = New /\ k = IF cfgtok # None THEN cfgtok ELSE ftok
    OBVIOUS
<1>2. PICK us : us = <<Hdr("CONNECT", 1), Tok(k)>> \o IvUnits(s)
                         \o (IF crypto THEN <<>> ELSE <<Info(s)>>)
    OBVIOUS
<1>3. /\ Unused # {} /\ k # None
      /\ role' = [role EXCEPT ![s] = "con"] /\ cend' = [cend EXCEPT ![s] = "open"]
      /\ cpc' = [cpc EXCEPT ![s] = IF crypto THEN "iv" ELSE "splice"]
      /\ ctok' = [ctok EXCEPT ![s] = k] /\ SendUnits(s, us)
      /\ UNCHANGED <<vars, s2c, rx, info, fpc, fconn, fwlock, base, fd, tab, cfgVars>>
    BY <1>1, <1>2 DEF ConStart, fwdVars, fdVars
<1>4. /\ s \in Session /\ role[s] = "none" /\ cend[s] = "none"
      /\ cpc[s] = "none" /\ c2s[s] = <<>> /\ s2c[s] = <<>> /\ s # fconn
      /\ pc[s] = "idle" /\ type[s] = "NULL" /\ remote_fd[s] = None /\ sfd[s] = None
      /\ Carries(s) /\ Alone(s) /\ rx[s] = None /\ info[s] = None
      /\ \A n \in Session : tab[n] # s
    BY <1>1, <1>3, NewIs
<1>5. k \in Sendable
    BY <1>1, <1>3 DEF EInv, BInv, FlightInv, Sendable
<1>6. Mono
    BY <1>3 DEF Mono, cfgVars, vars
<1>7. crypto \in BOOLEAN
    BY DEF EInv, BInv, FlightInv
<1>8. /\ us \in Seq(Unit) /\ us[1] = Hdr("CONNECT", 1) /\ us[2] = Tok(k) /\ Len(us) = 3
      /\ us[3] = IF crypto THEN Iv(s) ELSE Info(s)
    BY <1>2, <1>4, <1>5, ConRequest DEF EInv
<1>9. c2s'[s] = us /\ \A y \in Session : y # s => c2s'[y] = c2s[y]
    <2>1. <<>> \o us = us
        BY <1>8, ConcatEmptySeq
    <2> QED
        BY <1>3, <1>4, <1>8, <2>1, SendIs DEF EInv, BInv
<1>10. /\ role'[s] = "con" /\ \A y \in Session : y # s => role'[y] = role[y]
       /\ cend'[s] = "open" /\ \A y \in Session : y # s => cend'[y] = cend[y]
    BY <1>3, <1>4 DEF EInv, BInv, ETypeOK
<1>11. /\ cpc'[s] = IF crypto THEN "iv" ELSE "splice"
       /\ \A y \in Session : y # s => cpc'[y] = cpc[y] /\ ctok'[y] = ctok[y]
    BY <1>3, <1>4 DEF EInv, BInv, ETypeOK
<1>12. fpc \in LoggingIn \cup {"connecting"} => fconn \in Session /\ fconn # s
    BY <1>4 DEF EInv, BInv, FlightInv, ETypeOK
<1>13. FwdInv'
    <2>1. fpc \in LoggingIn \cup {"connecting"} => cend'[fconn] = cend[fconn]
        BY <1>10, <1>12
    <2> QED
        BY <1>3, <1>10, <2>1 DEF EInv, CInv, FwdInv
<1>14. FdsInv'
    <2>1. ASSUME NEW y \in Session, y # s PROVE FdAt(y)'
        <3>1. FdAt(y) /\ role'[y] = role[y] /\ cend'[y] = cend[y] /\ cpc'[y] = cpc[y]
            BY <1>10, <1>11, <2>1 DEF EInv, CInv, FdsInv
        <3> QED
            BY <1>3, <3>1 DEF FdAt
    <2>2. FdAt(s)'
        BY <1>3, <1>4, <1>10 DEF FdAt
    <2> QED
        BY <2>1, <2>2 DEF FdsInv
<1>16. UNCHANGED <<pc, type, open, remote_fd, sfd, crypto, issued>>
    BY <1>3 DEF vars, regVars, ioVars, locVars, cfgVars
<1>17. Local(s)'
    <2>1. TaskAt(s)'
        BY <1>3, <1>10, <1>11 DEF TaskAt
    <2>2. RoleOf(s)'
        BY <1>4, <1>10, <1>16 DEF RoleOf
    <2>3. FromFwd(s)'
        BY <1>10 DEF FromFwd
    <2>4. Keyed(s)'
        BY <1>3, <1>4, <1>11, <1>16 DEF Keyed
    <2> QED
        BY <2>1, <2>2, <2>3, <2>4 DEF Local
<1>18. Single(s)'
    <2>1. IsTok(us[2])'
        <3>1. Tok(k).unit = "tok" /\ Tok(k).val = k
            BY DEF Tok
        <3>2. IsTok(us[2])
            BY <1>5, <1>8, <3>1 DEF IsTok
        <3> QED
            BY <1>6, <3>2, Mono1
    <2>2. OpensAt(s, us, 2)'
        <3>1. us[2 + 1] = IF crypto THEN Iv(s)' ELSE Info(s)'
            <4>1. Iv(s)' = Iv(s) /\ Info(s)' = Info(s)
                BY DEF Iv, Info
            <4>2. us[2 + 1] = us[3]
                OBVIOUS
            <4> QED
                BY <1>8, <4>1, <4>2
        <3>2. Len(us) = 2 + 1 /\ role'[s] = "con" /\ crypto' = crypto
            BY <1>8, <1>10, <1>16
        <3> QED
            BY <1>7, <3>1, <3>2 DEF OpensAt
    <2>3. FromTask(s)'
        <3>1. c2s'[s] = us /\ 2 <= Len(us) /\ us[1] = Hdr("CONNECT", 1)' /\ role'[s] = "con"
              /\ pc'[s] = "idle"
            BY <1>4, <1>8, <1>9, <1>10, <1>16 DEF Hdr
        <3> QED
            BY <2>1, <2>2, <3>1 DEF FromTask, Hdr
    <2> QED
        BY <1>3, <1>4, <1>10, <1>11, <1>16, <2>3 DEF Single
<1>19. Rest'
    <2>1. \A y \in Session \ {s} : ClSame(y)
        BY <1>3, <1>9, <1>10, <1>11, StageKept DEF ClSame, EndKept
    <2> QED
        BY <1>3, <1>4, <1>6, <1>17, <1>18, <2>1, OneClient
<1>20. ToFwd'
    BY <1>3, <1>10, <1>12, ToFwdKept
<1> QED
    BY <1>13, <1>14, <1>19, <1>20 DEF CInv, Rest


(* s sends m to the task it is joined to, which may read it.                *)
LEMMA FlowGrows ==
    ASSUME EInv, Mono, NEW s \in Session, NEW x \in Session, NEW m \in Unit,
           UNCHANGED <<role>>, cpc'[x] = cpc[x], s2c'[x] = s2c[x],
           c2s'[s] = c2s[s] \o <<m>>,
           role[s] = "con" => cpc'[s] # "iv",
           Flow(x, s),
           NEW l, l = Len(s2c[x] \o c2s[s]) + 1, Fits(x, s, l, m)'
    PROVE  Flow(x, s)'
<1>1. PICK w, v : w = s2c[x] \o c2s[s] /\ v = s2c[x] \o (c2s[s] \o <<m>>)
    OBVIOUS
<1>2. /\ Len(w) \in Nat /\ Len(v) = Len(w) + 1 /\ v[Len(w) + 1] = m
      /\ \A n \in 1..Len(w) : v[n] = w[n]
    <2>1. PICK u, c : u = s2c[x] /\ c = c2s[s]
        OBVIOUS
    <2>2. u \in Seq(Unit) /\ c \in Seq(Unit)
        BY <2>1 DEF EInv, BInv, CInv, StreamInv
    <2>3. w = u \o c /\ v = u \o (c \o <<m>>)
        BY <1>1, <2>1
    <2>4. /\ Len(u \o c) \in Nat /\ Len(u \o (c \o <<m>>)) = Len(u \o c) + 1
          /\ \A n \in 1..Len(u \o c) : (u \o (c \o <<m>>))[n] = (u \o c)[n]
          /\ (u \o (c \o <<m>>))[Len(u \o c) + 1] = m
        BY <2>2, GrowIs
    <2> QED
        BY <2>3, <2>4
<1>3. Reads(x, s, w)
    BY <1>1 DEF Flow
<1>4. Reads(x, s, w)'
    BY <1>3, SameReads
<1>5. l = Len(w) + 1
    BY <1>1
<1>6. Reads(x, s, v)'
    <2> SUFFICES ASSUME NEW n \in 1..Len(v) PROVE Fits(x, s, n, v[n])'
        BY DEF Reads
    <2>1. CASE n = l
        BY <1>2, <1>5, <2>1
    <2>2. CASE n # l
        <3>0. n \in 1..Len(w) + 1 /\ n # Len(w) + 1
            BY <1>2, <1>5, <2>2
        <3>1. n \in 1..Len(w) /\ v[n] = w[n]
            BY <1>2, <3>0
        <3> QED
            BY <1>4, <3>1 DEF Reads
    <2> QED
        BY <2>1, <2>2
<1>7. (s2c[x] \o c2s[s] = v)'
    BY <1>1
<1>8. 1 <= Len(v)
    BY <1>2
<1> QED
    BY <1>6, <1>7, <1>8 DEF Flow

(* x's side of a step of s that sends nothing.                              *)
LEMMA FlowStays ==
    ASSUME Mono, NEW s \in Session, NEW x \in Session,
           UNCHANGED <<role>>, cpc'[x] = cpc[x], s2c'[x] = s2c[x],
           c2s'[s] = c2s[s], cpc'[s] = "iv" => cpc[s] = "iv", Flow(x, s)
    PROVE  Flow(x, s)'
<1>1. PICK w : w = s2c[x] \o c2s[s]
    OBVIOUS
<1>2. Reads(x, s, w)'
    BY <1>1, SameReads DEF Flow
<1>3. (s2c[x] \o c2s[s] = w)'
    BY <1>1
<1> QED
    BY <1>1, <1>2, <1>3 DEF Flow

(* The frame of such a step.                                                *)
LEMMA PairClient ==
    ASSUME EInv, Mono, UNCHANGED vars, NEW s \in Session, NEW P \in Peering, Links(P),
           P[s] # None, \A y \in Session \ {s} : ClSame(y),
           Local(s)', Linked(P, s)',
           LET x == P[s] IN cend'[x] = "open" /\ Joined(s, x) => Flow(x, s)'
    PROVE  Rest'
<1>1. PICK x : x = P[s]
    OBVIOUS
<1>2. x \in Session /\ x # s /\ P[x] = s /\ Linked(P, s) /\ Linked(P, x) /\ LinkAt(P, x) /\ LinkAt(P, s)
    BY <1>1, SessionAssumption DEF Links, LinkAt, Linked, Peering
<1>3. \A y \in Session \ {s} : Same(y)
    BY ClIsSame
<1>4. UNCHANGED <<pc, remote_fd, open>>
    BY DEF vars, regVars, ioVars
<1>5. ClSame(x)
    BY <1>2
<1>6. Linked(P, x)'
    <2>1. role[x] # "fwd" /\ role'[x] = role[x] /\ role'[s] = role[s]
        BY <1>1, <1>2, <1>5 DEF Linked, ClSame
    <2>2. /\ cpc'[x] = cpc[x] /\ rx'[x] = rx[x] /\ info'[x] = info[x]
          /\ cend'[x] = "open" => cend[x] = "open" /\ s2c'[x] = s2c[x]
        BY <1>5, <2>1 DEF ClSame, EndKept
    <2>3. cend'[x] = "open" => Reads(x, s, s2c[x])'
        <3> SUFFICES ASSUME cend'[x] = "open" PROVE Reads(x, s, s2c[x])'
            OBVIOUS
        <3>1. PICK q : q = s2c[x]
            OBVIOUS
        <3>2. Reads(x, s, q)
            BY <1>2, <2>2, <3>1 DEF Linked
        <3>3. Reads(x, s, q)'
            BY <2>1, <2>2, <3>2, SameReads
        <3> QED
            BY <2>2, <3>1, <3>3
    <2>4. cend'[x] = "open" /\ Joined(s, x) => Flow(x, s)'
        BY <1>1 DEF Flow
    <2> QED
        BY <1>2, <1>4, <2>1, <2>2, <2>3, <2>4 DEF Linked, Joined, Live
<1>7. Local(x)'
    <2>1. Local(x)
        BY <1>2 DEF EInv, BInv, CInv, Local, TaskInv, RoleInv, FromInv, KeyInv
    <2> QED
        BY <1>2, <1>3, <2>1, SameLocal
<1> DEFINE T == {s, x}
<1>8. /\ T \in SUBSET Session
      /\ \A y \in Session \ T : Same(y) /\ P[y] \notin T
      /\ \A y \in T : LinkAt(P, y)'
      /\ \A y \in T : Local(y)'
    <2>1. T \in SUBSET Session /\ \A y \in T : Local(y)'
        BY <1>2, <1>7
    <2>2. \A y \in Session \ T : Same(y)
        BY <1>3
    <2>3. \A y \in Session \ T : P[y] \notin T
        BY <1>1, <1>2, SessionAssumption DEF Links, LinkAt, Linked
    <2>4. LinkAt(P, s)' /\ LinkAt(P, x)'
        BY <1>2, <1>4, <1>6, SessionAssumption DEF LinkAt
    <2> QED
        BY <2>1, <2>2, <2>3, <2>4
<1> HIDE DEF T
<1>9. Links(P)'
    BY <1>8, LinksFrame
<1>10. LinkInv'
    BY <1>9 DEF LinkInv, Peering
<1> QED
    BY <1>8, <1>10, TouchInv DEF Rest
(* A task ends; its connection is closed, or was.                           *)
LEMMA Ends ==
    ASSUME EInv, Mono, UNCHANGED <<vars, c2s, role, ctok, rx, info>>, NEW s \in Session,
           role[s] \in {"con", "acc"}, role[s] = "con" => cend[s] = "open",
           cpc[s] # "none", cpc' = [cpc EXCEPT ![s] = "end"],
           \/ cend[s] = "open" /\ cend'[s] = "closed" /\ s2c'[s] = <<>>
           \/ cend[s] # "open" /\ cend'[s] = cend[s] /\ s2c'[s] = s2c[s],
           \A y \in Session : y # s => EndKept(y),
           \A y : Stage(y)' \in {Stage(y), "old"}
    PROVE  Rest'
<1>1. cpc'[s] = "end" /\ \A y \in Session : y # s => cpc'[y] = cpc[y]
    BY DEF EInv, BInv, ETypeOK
<1>2. UNCHANGED <<pc, type, open, remote_fd, sfd, issued>> /\ crypto' = crypto
    BY DEF vars, regVars, ioVars, locVars, Mono
<1>3. TaskAt(s) /\ RoleOf(s) /\ Keyed(s)
    BY DEF EInv, CInv, TaskInv, RoleInv, KeyInv
<1>4. cend'[s] # "open" /\ s2c'[s] = <<>> /\ (cend'[s] = "none" => cend[s] = "none")
    BY <1>3 DEF TaskAt
<1>5. Local(s)'
    <2>1. TaskAt(s)'
        BY <1>1, <1>2, <1>3, <1>4 DEF TaskAt
    <2>2. RoleOf(s)' /\ FromFwd(s)'
        BY <1>2, <1>3 DEF RoleOf, FromFwd
    <2>3. Keyed(s)'
        BY <1>1, <1>2, <1>3 DEF Keyed
    <2> QED
        BY <2>1, <2>2, <2>3 DEF Local
<1>6. \A y \in Session \ {s} : ClSame(y)
    BY <1>1 DEF ClSame
<1>7. PICK P \in Peering : Links(P)
    BY DEF EInv, CInv, LinkInv
<1>8. CASE P[s] # None
    <2>1. PICK x : x = P[s]
        OBVIOUS
    <2>2. x \in Session /\ x # s /\ P[x] = s /\ Linked(P, s) /\ Linked(P, x)
        BY <1>7, <1>8, <2>1, SessionAssumption DEF Links, LinkAt, Linked, Peering
    <2>3. Linked(P, s)'
        BY <1>2, <1>4, <2>2 DEF Linked, Joined, Live
    <2>4. cend'[x] = "open" /\ Joined(s, x) => Flow(x, s)'
        <3> SUFFICES ASSUME cend'[x] = "open", Joined(s, x) PROVE Flow(x, s)'
            OBVIOUS
        <3>1. role[x] # "fwd"
            BY <2>2 DEF Linked
        <3>2. cend[x] = "open" /\ s2c'[x] = s2c[x]
            BY <2>2, <3>1 DEF EndKept
        <3>3. Flow(x, s)
            BY <2>2, <3>2 DEF Linked
        <3>4. cpc'[x] = cpc[x] /\ c2s'[s] = c2s[s] /\ cpc'[s] # "iv"
            BY <1>1, <2>2
        <3> QED
            BY <2>2, <3>2, <3>3, <3>4, FlowStays
    <2>5. LET z == P[s] IN cend'[z] = "open" /\ Joined(s, z) => Flow(z, s)'
        BY <2>1, <2>4 DEF Flow
    <2> QED
        BY <1>5, <1>6, <1>7, <1>8, <2>3, <2>5, PairClient
<1>9. CASE P[s] = None
    <2>1. Single(s)
        BY <1>7, <1>9 DEF Links, LinkAt
    <2>2. FromTask(s)'
        <3>1. FromTask(s)
            BY <2>1 DEF Single
        <3> QED
            BY <1>2, <1>4, <3>1, Mono1 DEF FromTask, Carries, Hdr
    <2>3. Single(s)'
        BY <1>4, <2>1, <2>2 DEF Single
    <2>4. \A y \in Session \ {s} : Same(y) /\ P[y] # s
        <3>1. \A y \in Session \ {s} : Same(y)
            BY <1>6, ClIsSame
        <3>2. \A y \in Session \ {s} : P[y] # s
            BY <1>7, <1>9, SessionAssumption DEF Links, LinkAt, Linked
        <3> QED
            BY <3>1, <3>2
    <2>5. remote_fd'[s] = None
        BY <1>2, <1>7, <1>9 DEF Links, LinkAt
    <2> DEFINE T == {s}
    <2>6. /\ T \in SUBSET Session
          /\ \A y \in Session \ T : Same(y) /\ P[y] \notin T
          /\ \A y \in T : LinkAt(P, y)'
          /\ \A y \in T : Local(y)'
        BY <1>5, <1>9, <2>3, <2>4, <2>5 DEF LinkAt
    <2> HIDE DEF T
    <2>7. Links(P)'
        BY <1>7, <2>6, LinksFrame
    <2> QED
        BY <2>6, <2>7, TouchInv DEF Rest, LinkInv, Peering
<1> QED
    BY <1>8, <1>9

(* An accept task or a connector ends, and closes what its number names.    *)
LEMMA TaskEndInv ==
    ASSUME EInv, NEW s \in Session, TaskEnd(s)
    PROVE  CInv'
<1>1. /\ cpc[s] \in {"connect", "iv", "info", "splice"}
      /\ cpc' = [cpc EXCEPT ![s] = "end"] /\ fd' = [fd EXCEPT ![s] = None]
      /\ IF role[s] = "acc" THEN CloseFds({fd[s]})
                            ELSE Hangup({s}) /\ UNCHANGED tab
      /\ UNCHANGED <<vars, c2s, role, ctok, rx, info, fpc, fconn, ftok, fwlock, base, cfgVars>>
    BY DEF TaskEnd, fwdVars
<1>2. role[s] \in {"con", "acc"} /\ (role[s] = "con" => cend[s] = "open") /\ FdAt(s)
    <2>1. TaskAt(s) /\ role[s] \in {"none", "fwd", "acc", "con"} /\ FdAt(s)
        BY DEF EInv, BInv, CInv, TaskInv, ETypeOK, FdsInv
    <2> QED
        BY <1>1, <2>1 DEF TaskAt
<1>3. Mono
    BY <1>1 DEF Mono, vars, cfgVars
<1>4. /\ cpc'[s] = "end" /\ \A y \in Session : y # s => cpc'[y] = cpc[y]
      /\ fd'[s] = None /\ \A y \in Session : y # s => fd'[y] = fd[y]
    BY <1>1 DEF EInv, BInv, ETypeOK
<1>5. /\ fpc \in LoggingIn \cup {"connecting"} => fconn \in Session
      /\ s # fconn
    <2>1. /\ fpc \in LoggingIn \cup {"connecting"} => fconn \in Session
          /\ fconn # None => role[fconn] = "fwd"
        BY DEF EInv, BInv, FlightInv, ETypeOK
    <2> QED
        BY <1>2, <2>1, SessionAssumption
<1>6. CASE role[s] = "acc"
    <2>1. PICK n : n = fd[s]
        OBVIOUS
    <2>2. n \in Session
        BY <1>1, <1>2, <1>6, <2>1 DEF FdAt, EInv, BInv, ETypeOK
    <2>3. PICK N : N = {n}
        OBVIOUS
    <2>4. CloseFds(N) /\ N \subseteq Session \cup {None}
        BY <1>1, <1>6, <2>1, <2>2, <2>3
    <2>5. /\ \A y \in Session : EndKept(y)
          /\ \A m \in Session : tab'[m] = IF m \in N THEN None ELSE tab[m]
          /\ \A m \in N \cap Session : \A y \in Session :
                tab[m] = y => cend'[y] # "open"
          /\ \A y \in Session : cend'[y] = cend[y] \/
                (cend[y] = "open" /\ cend'[y] = "closed"
                   /\ \E m \in N \cap Session : tab[m] = y)
          /\ \A y \in Session : cend'[y] = "open" => s2c'[y] = s2c[y]
        BY <2>4, ClosesEnds
    <2>6. FwdInv' /\ FdsInv'
        <3>1. fwlock' = "fwd" <=> fpc' = "logintok"
            BY <1>1 DEF EInv, CInv, FwdInv
        <3>2. \A y \in Session : cpc'[y] = cpc[y] \/ cpc'[y] = "end"
            BY <1>4
        <3>3. \A y \in Session : \/ fd'[y] = fd[y]
                                 \/ /\ fd'[y] = None /\ fd[y] \in N
                                    /\ role[y] = "acc" => cpc'[y] = "end"
                                    /\ y = fconn => fpc' = "sleep"
            BY <1>4, <1>5, <2>1, <2>3
        <3> QED
            BY <1>1, <2>4, <3>1, <3>2, <3>3, ClosesFds
    <2>7. \A y : Stage(y)' \in {Stage(y), "old"}
        <3>1. fpc \in LoggingIn => base \in Session
            BY DEF EInv, BInv, CInv, FwdInv, ETypeOK
        <3>2. fpc \in LoggingIn => tab'[base] = tab[base] \/ tab'[base] = None
            BY <2>5, <3>1
        <3> QED
            BY <1>1, <3>2, StageLost
    <2>8. \/ cend[s] = "open" /\ cend'[s] = "closed" /\ s2c'[s] = <<>>
          \/ cend[s] # "open" /\ cend'[s] = cend[s] /\ s2c'[s] = s2c[s]
        <3>1. cend[s] = "open" => cend'[s] # "open"
            BY <1>2, <1>6, <2>1, <2>2, <2>3, <2>5 DEF FdAt
        <3> QED
            BY <1>6, <2>5, <3>1 DEF EndKept
    <2>9. Rest'
        BY <1>1, <1>2, <1>3, <2>5, <2>7, <2>8, Ends
    <2>10. ToFwd'
        BY <1>1, <1>5, <2>5, ToFwdKept
    <2> QED
        BY <2>6, <2>9, <2>10 DEF CInv, Rest
<1>7. CASE role[s] = "con"
    <2>1. PICK X : X = {s}
        OBVIOUS
    <2>2. /\ cend'[s] = "closed" /\ s2c'[s] = <<>>
          /\ \A y \in Session : y # s => cend'[y] = cend[y] /\ s2c'[y] = s2c[y]
        <3>1. Hangup(X) /\ StreamInv /\ ETypeOK
            BY <1>1, <1>7, <2>1 DEF EInv, BInv
        <3>2. /\ \A y \in Session : y \in X /\ cend[y] = "open" =>
                    cend'[y] = "closed" /\ s2c'[y] = <<>>
              /\ \A y \in Session : ~(y \in X /\ cend[y] = "open") =>
                    cend'[y] = cend[y] /\ s2c'[y] = s2c[y]
            BY <3>1, HangupIs
        <3> QED
            BY <1>2, <1>7, <2>1, <3>2
    <2>3. UNCHANGED tab
        BY <1>1, <1>7
    <2>4. FwdInv'
        <3>1. fpc \in LoggingIn \cup {"connecting"} =>
                 cend'[fconn] = cend[fconn] /\ fd'[fconn] = fd[fconn]
            BY <1>4, <1>5, <2>2
        <3> QED
            BY <1>1, <1>7, <2>2, <2>3, <3>1 DEF EInv, CInv, FwdInv
    <2>5. ASSUME NEW y \in Session PROVE FdAt(y)'
        <3>1. FdAt(y)
            BY DEF EInv, CInv, FdsInv
        <3>2. CASE y = s
            BY <1>1, <1>5, <1>7, <2>3, <3>1, <3>2 DEF FdAt
        <3>3. CASE y # s
            <4>1. (\A x \in Session : fd[x] # y) => \A x \in Session : fd'[x] # y
                BY <1>4, SessionAssumption
            <4>2. cpc'[y] = cpc[y] /\ cend'[y] = cend[y] /\ fd'[y] = fd[y]
                BY <1>4, <2>2, <3>3
            <4> QED
                BY <1>1, <2>3, <3>1, <4>1, <4>2 DEF FdAt
        <3> QED
            BY <3>2, <3>3
    <2>6. \A y : Stage(y)' \in {Stage(y), "old"}
        BY <1>1, <2>3, StageKept
    <2>7. Rest'
        BY <1>1, <1>2, <1>3, <1>7, <2>2, <2>6, Ends DEF EndKept
    <2>8. ToFwd'
        BY <1>1, <1>5, <2>2, ToFwdKept
    <2> QED
        BY <2>4, <2>5, <2>7, <2>8 DEF CInv, Rest, FdsInv
<1> QED
    BY <1>2, <1>6, <1>7

-----------------------------------------------------------------------------
(* The key exchange, the info message and the data.                         *)

(* A task that has something to read has a peer.                            *)
LEMMA ReaderIs ==
    ASSUME EInv, NEW s \in Session, cpc[s] \in {"iv", "info", "splice"}, s2c[s] # <<>>,
           NEW P \in Peering, Links(P), NEW x, x = P[s]
    PROVE  /\ role[s] \in {"con", "acc"} /\ cend[s] = "open"
           /\ x \in Session /\ x # s /\ x # None /\ P[x] = s
           /\ Linked(P, s) /\ Linked(P, x)
           /\ role[s] = "con" => role[x] = "acc"
           /\ role[s] = "acc" => role[x] = "con" /\ cpc[s] \in {"iv", "info", "splice"}
           /\ role[s] = "con" => cpc[s] \in {"iv", "splice"}
           /\ Reads(s, x, s2c[s]) /\ (Joined(s, x) => Flow(s, x))
           /\ cend[x] = "open" /\ Joined(s, x) => Flow(x, s)
           /\ cend[x] = "open" /\ role[x] = "acc" => cpc[x] \in {"iv", "info", "splice"}
<1>1. TaskAt(s) /\ role[s] \in {"none", "fwd", "acc", "con"}
    BY DEF EInv, BInv, CInv, TaskInv, ETypeOK
<1>2. role[s] \in {"con", "acc"} /\ cend[s] = "open" /\ (role[s] = "con" => cpc[s] \in {"iv", "splice"})
    BY <1>1 DEF TaskAt
<1>3. x # None
    BY <1>2 DEF Links, LinkAt, Single
<1>4. x \in Session /\ x # s /\ P[x] = s /\ Linked(P, s) /\ Linked(P, x)
    BY <1>3, SessionAssumption DEF Links, LinkAt, Linked, Peering
<1>5. TaskAt(x)
    BY <1>4 DEF EInv, BInv, CInv, TaskInv
<1>6. cend[x] = "open" /\ role[x] = "acc" => cpc[x] \in {"iv", "info", "splice"}
    BY <1>5 DEF TaskAt
<1>7. Reads(s, x, s2c[s]) /\ (Joined(s, x) => Flow(s, x))
    BY <1>2, <1>4 DEF Linked, Joined
<1>8. cend[x] = "open" /\ Joined(s, x) => Flow(x, s)
    BY <1>4 DEF Linked, Joined
<1> QED
    BY <1>2, <1>3, <1>4, <1>6, <1>7, <1>8 DEF Linked

(* What is left of a path when its first unit is read.                      *)
LEMMA PathTail ==
    ASSUME EInv, NEW s \in Session, NEW x \in Session, s2c[s] # <<>>
    PROVE  LET q == s2c[s]
               t == Tail(s2c[s])
               w == s2c[s] \o c2s[x]
               v == Tail(s2c[s]) \o c2s[x] IN
           /\ q \in Seq(Unit) /\ t \in Seq(Unit) /\ Len(q) \in Nat /\ Len(w) \in Nat
           /\ Head(q) = q[1] /\ 1 <= Len(q) /\ w[1] = q[1] /\ 1 <= Len(w)
           /\ Len(t) = Len(q) - 1 /\ \A n \in 1..Len(q) - 1 : t[n] = q[n + 1]
           /\ Len(v) = Len(w) - 1 /\ \A n \in 1..Len(w) - 1 : v[n] = w[n + 1]
<1>1. PICK q, c : q = s2c[s] /\ c = c2s[x]
    OBVIOUS
<1>2. q \in Seq(Unit) /\ c \in Seq(Unit) /\ q # <<>>
    BY <1>1 DEF EInv, BInv, CInv, StreamInv
<1>3. /\ Tail(q) \in Seq(Unit) /\ Len(Tail(q)) = Len(q) - 1
      /\ \A n \in 1..Len(q) - 1 : Tail(q)[n] = q[n + 1]
      /\ Head(q) = q[1] /\ 1 <= Len(q) /\ Len(q) \in Nat
    BY <1>2, TailIs
<1>4. /\ Len(Tail(q) \o c) = Len(q \o c) - 1
      /\ \A n \in 1..Len(q \o c) - 1 : (Tail(q) \o c)[n] = (q \o c)[n + 1]
      /\ Head(q) = (q \o c)[1] /\ 1 <= Len(q \o c)
    BY <1>2, ReadIs
<1>5. Len(q \o c) = Len(q) + Len(c) /\ Len(c) \in Nat
    BY <1>2, CatIs
<1>6. Len(q \o c) \in Nat
    BY <1>3, <1>5
<1> QED
    BY <1>1, <1>2, <1>3, <1>4, <1>6

(* A connector passes data on to its user.                                  *)
LEMMA RecvDataInv ==
    ASSUME EInv, NEW s \in Session, RecvData(s)
    PROVE  CInv'
<1>1. PICK P \in Peering : Links(P)
    BY DEF EInv, BInv, CInv, LinkInv
<1>2. PICK x, q, t, w, v :
          /\ x = P[s] /\ q = s2c[s] /\ t = Tail(s2c[s])
          /\ w = s2c[s] \o c2s[x] /\ v = Tail(s2c[s]) \o c2s[x]
    OBVIOUS
<1>3. /\ cpc[s] = "splice" /\ s2c[s] # <<>>
      /\ info' = [info EXCEPT ![s] = IF Head(q).unit = "data" THEN Head(q).val ELSE info[s]]
      /\ s2c' = [s2c EXCEPT ![s] = t]
      /\ UNCHANGED <<vars, c2s, cend, role, cpc, ctok, rx, fpc, fconn, fwlock, base, fd, tab, cfgVars>>
    BY <1>2 DEF RecvData, Val, fwdVars, fdVars
<1>4. /\ role[s] \in {"con", "acc"} /\ cend[s] = "open"
      /\ x \in Session /\ x # s /\ x # None /\ P[x] = s
      /\ Linked(P, s) /\ Linked(P, x)
      /\ role[s] = "con" => role[x] = "acc"
      /\ Reads(s, x, q) /\ (Joined(s, x) => Flow(s, x))
      /\ cend[x] = "open" /\ Joined(s, x) => Flow(x, s)
    BY <1>1, <1>2, <1>3, ReaderIs
<1>5. /\ q \in Seq(Unit) /\ t \in Seq(Unit) /\ Len(q) \in Nat /\ Len(w) \in Nat
      /\ Head(q) = q[1] /\ 1 <= Len(q) /\ w[1] = q[1] /\ 1 <= Len(w)
      /\ Len(t) = Len(q) - 1 /\ \A n \in 1..Len(q) - 1 : t[n] = q[n + 1]
      /\ Len(v) = Len(w) - 1 /\ \A n \in 1..Len(w) - 1 : v[n] = w[n + 1]
    BY <1>2, <1>3, <1>4, PathTail
<1>6. role[s] = "con" /\ role[x] = "acc" /\ Chat(x, q[1])
    <2>1. Fits(s, x, 1, q[1])
        BY <1>4, <1>5 DEF Reads
    <2> QED
        BY <1>3, <1>4, <2>1 DEF Fits
<1>7. info'[s] \in {info[s], x}
    <2>1. info'[s] = IF q[1].unit = "data" THEN q[1].val ELSE info[s]
        BY <1>3, <1>5 DEF EInv, BInv, CInv, ETypeOK
    <2>2. q[1].unit = "data" => q[1].val = x
        <3>1. Data(x).val = x /\ KA.unit = "hdr"
            BY DEF Data, KA, Hdr
        <3> QED
            BY <1>6, <3>1 DEF Chat
    <2> QED
        BY <2>1, <2>2
<1>8. /\ info' \in [Session -> Session \cup {None}]
      /\ \A y \in Session : y # s => info'[y] = info[y]
    <2>1. info \in [Session -> Session \cup {None}]
        BY DEF EInv, BInv, CInv, ETypeOK
    <2>2. info'[s] \in Session \cup {None}
        BY <1>4, <1>7, <2>1
    <2> QED
        BY <1>3, <2>1, <2>2
<1>9. /\ s2c' \in [Session -> Seq(Unit)] /\ s2c'[s] = t
      /\ \A y \in Session : y # s => s2c'[y] = s2c[y]
    BY <1>3, <1>5 DEF EInv, BInv, CInv, StreamInv
<1>11. FwdInv' /\ FdsInv' /\ ToFwd' /\ Mono
    <2>1. Mono
        BY <1>3 DEF Mono, vars, cfgVars
    <2>2. FwdInv' /\ FdsInv'
        <3>1. \A y \in Session : \/ cpc'[y] = cpc[y]
                                 \/ {cpc[y], cpc'[y]} \subseteq {"iv", "info", "splice"}
            BY <1>3
        <3> QED
            BY <1>3, <3>1, FdsKept
    <2>3. ToFwd'
        <3>1. fpc \in LoggingIn => fconn \in Session /\ fconn # s
            BY <1>4 DEF EInv, BInv, FlightInv, ETypeOK
        <3> QED
            BY <1>3, <3>1, <1>9, ToFwdKept
    <2> QED
        BY <2>1, <2>2, <2>3
<1>12. UNCHANGED <<pc, type, open, remote_fd, sfd, issued, crypto>>
    BY <1>3 DEF vars, regVars, ioVars, locVars, cfgVars
<1>13. Local(s)'
    <2>1. TaskAt(s) /\ RoleOf(s) /\ Keyed(s)
        BY DEF EInv, BInv, CInv, TaskInv, RoleInv, KeyInv
    <2>2. TaskAt(s)'
        BY <1>3, <1>4, <1>6, <1>12, <2>1 DEF TaskAt
    <2>3. RoleOf(s)' /\ FromFwd(s)'
        BY <1>3, <1>6, <1>12, <2>1 DEF RoleOf, FromFwd
    <2>4. Keyed(s)'
        BY <1>3, <1>12, <2>1 DEF Keyed
    <2> QED
        BY <2>2, <2>3, <2>4 DEF Local
<1>14. ASSUME NEW a, NEW b, Len(a) \in Nat, Len(b) = Len(a) - 1,
              \A n \in 1..Len(a) - 1 : b[n] = a[n + 1], Reads(s, x, a)
       PROVE  Reads(s, x, b)'
    <2> SUFFICES ASSUME NEW n \in 1..Len(b) PROVE Fits(s, x, n, b[n])'
        BY DEF Reads
    <2>1. n + 1 \in 1..Len(a) /\ b[n] = a[n + 1]
        BY <1>14
    <2>2. Fits(s, x, n + 1, a[n + 1])
        BY <1>14, <2>1 DEF Reads
    <2>3. Chat(x, a[n + 1])
        BY <1>3, <1>6, <2>2 DEF Fits
    <2>4. Chat(x, b[n])'
        BY <1>12, <2>1, <2>3 DEF Chat, KA, Hdr, Data
    <2> QED
        BY <1>3, <1>6, <2>4 DEF Fits
<1>15. Linked(P, s)'
    <2>1. Reads(s, x, t)'
        BY <1>4, <1>5, <1>14
    <2>2. Joined(s, x) => Flow(s, x)'
        <3>1. SUFFICES ASSUME Joined(s, x) PROVE Flow(s, x)'
            OBVIOUS
        <3>2. Reads(s, x, w)
            BY <1>2, <1>4, <3>1 DEF Flow
        <3>3. Reads(s, x, v)'
            BY <1>5, <1>14, <3>2
        <3>4. (s2c[s] \o c2s[x] = v)'
            BY <1>2, <1>3, <1>9
        <3> QED
            BY <1>3, <1>6, <3>3, <3>4 DEF Flow
    <2>3. Reads(s, P[s], s2c[s])' /\ (Joined(P[s], s) => Flow(s, P[s])')
        <3>1. Reads(s, P[s], s2c[s])'
            BY <1>2, <1>9, <2>1
        <3>2. Joined(P[s], s) => Flow(s, P[s])'
            BY <1>2, <2>2 DEF Joined
        <3> QED
            BY <3>1, <3>2
    <2> QED
        BY <1>2, <1>3, <1>4, <1>7, <1>12, <2>3 DEF Linked, Joined, Live
<1>16. cend[x] = "open" /\ Joined(s, x) => Flow(x, s)'
    BY <1>3, <1>4, <1>9, <1>11, FlowStays
<1>17. Rest'
    <2>1. LET z == P[s] IN cend'[z] = "open" /\ Joined(s, z) => Flow(z, s)'
        BY <1>2, <1>3, <1>16 DEF Flow
    <2>2. \A y \in Session \ {s} : ClSame(y)
        BY <1>3, <1>8, <1>9, StageKept DEF ClSame, EndKept
    <2>3. P[s] # None
        BY <1>2, <1>4
    <2> QED
        BY <1>1, <1>3, <1>11, <1>13, <1>15, <2>1, <2>2, <2>3, PairClient
<1> QED
    BY <1>11, <1>17 DEF CInv, Rest

(* An accept task reads the info message and has something to say.          *)
LEMMA RecvInfoInv ==
    ASSUME EInv, NEW s \in Session, RecvInfo(s)
    PROVE  CInv'
<1>1. PICK P \in Peering : Links(P)
    BY DEF EInv, BInv, CInv, LinkInv
<1>2. PICK x, q, t, w, v, d :
          /\ x = P[s] /\ q = s2c[s] /\ t = Tail(s2c[s])
          /\ w = s2c[s] \o c2s[x] /\ v = Tail(s2c[s]) \o c2s[x] /\ d = Data(s)
    OBVIOUS
<1>3. /\ cpc[s] = "info" /\ s2c[s] # <<>>
      /\ info' = [info EXCEPT ![s] = IF Head(q).unit = "info" THEN Head(q).val ELSE info[s]]
      /\ s2c' = [s2c EXCEPT ![s] = t] /\ cpc' = [cpc EXCEPT ![s] = "splice"]
      /\ SendUnits(s, <<d>>)
      /\ UNCHANGED <<vars, cend, role, ctok, rx, fpc, fconn, fwlock, base, fd, tab, cfgVars>>
    BY <1>2 DEF RecvInfo, Val, fwdVars, fdVars
<1>4. /\ role[s] = "acc" /\ role[x] = "con" /\ cend[s] = "open"
      /\ x \in Session /\ x # s /\ x # None /\ P[x] = s
      /\ Linked(P, s) /\ Linked(P, x)
      /\ Reads(s, x, q) /\ (Joined(s, x) => Flow(s, x))
      /\ cend[x] = "open" /\ Joined(s, x) => Flow(x, s)
    BY <1>1, <1>2, <1>3, ReaderIs
<1>5. /\ q \in Seq(Unit) /\ t \in Seq(Unit) /\ Len(q) \in Nat /\ Len(w) \in Nat
      /\ Head(q) = q[1] /\ 1 <= Len(q) /\ w[1] = q[1] /\ 1 <= Len(w)
      /\ Len(t) = Len(q) - 1 /\ Len(v) = Len(w) - 1
    BY <1>2, <1>3, <1>4, PathTail
<1>6. ASSUME NEW a, Reads(s, x, a) PROVE \A n \in 1..Len(a) : n = 1 /\ a[n] = Info(x)
    BY <1>3, <1>4, <1>6 DEF Reads, Fits
<1>7. info'[s] = x
    <2>1. q[1] = Info(x)
        BY <1>4, <1>5, <1>6
    <2>2. Info(x).val = x /\ Info(x).unit = "info"
        BY DEF Info
    <2> QED
        BY <1>3, <1>5, <2>1, <2>2 DEF EInv, BInv, CInv, ETypeOK
<1>8. Len(t) = 0
    <2>1. Len(q) \in 1..Len(q)
        BY <1>5
    <2>2. Len(q) = 1
        BY <1>4, <1>6, <2>1
    <2> QED
        BY <1>5, <2>2
<1>9. Joined(s, x) => Len(v) = 0 /\ cpc[x] # "iv"
    <2> SUFFICES ASSUME Joined(s, x) PROVE Len(v) = 0 /\ cpc[x] # "iv"
        OBVIOUS
    <2>1. /\ Reads(s, x, w)
          /\ cpc[x] = "iv" => Len(w) <= 0
        BY <1>2, <1>3, <1>4 DEF Flow
    <2>2. Len(w) \in 1..Len(w)
        BY <1>5
    <2>3. Len(w) = 1
        BY <1>6, <2>1, <2>2
    <2> QED
        BY <1>5, <2>1, <2>3
<1>10. /\ info' \in [Session -> Session \cup {None}]
       /\ \A y \in Session : y # s => info'[y] = info[y]
    <2>1. info \in [Session -> Session \cup {None}]
        BY DEF EInv, BInv, CInv, ETypeOK
    <2> QED
        BY <1>3, <1>4, <1>7, <2>1
<1>11. /\ s2c' \in [Session -> Seq(Unit)] /\ s2c'[s] = t
       /\ \A y \in Session : y # s => s2c'[y] = s2c[y]
    BY <1>3, <1>5 DEF EInv, BInv, CInv, StreamInv
<1>12. /\ cpc' \in [Session -> {"none", "start", "connect", "iv", "info", "splice", "end"}]
       /\ cpc'[s] = "splice" /\ \A y \in Session : y # s => cpc'[y] = cpc[y]
    BY <1>3 DEF EInv, BInv, CInv, ETypeOK
<1>13. d \in Unit
    BY <1>2, AreUnits
<1>14. /\ c2s' \in [Session -> Seq(Unit)]
       /\ c2s'[s] = IF Carries(s) THEN c2s[s] \o <<d>> ELSE c2s[s]
       /\ \A y \in Session : y # s => c2s'[y] = c2s[y]
    <2>1. PICK us : us = <<d>>
        OBVIOUS
    <2>2. us \in Seq(Unit)
        BY <1>13, <2>1
    <2> QED
        BY <1>3, <2>1, <2>2, SendIs DEF EInv, BInv, CInv
<1>16. FwdInv' /\ FdsInv' /\ ToFwd' /\ Mono
    <2>1. Mono
        BY <1>3 DEF Mono, vars, cfgVars
    <2>2. FwdInv' /\ FdsInv'
        <3>1. \A y \in Session : \/ cpc'[y] = cpc[y]
                                 \/ {cpc[y], cpc'[y]} \subseteq {"iv", "info", "splice"}
            BY <1>3, <1>12
        <3> QED
            BY <1>3, <3>1, FdsKept
    <2>3. ToFwd'
        <3>1. fpc \in LoggingIn => fconn \in Session /\ fconn # s
            BY <1>4 DEF EInv, BInv, FlightInv, ETypeOK
        <3> QED
            BY <1>3, <3>1, <1>11, ToFwdKept
    <2> QED
        BY <2>1, <2>2, <2>3
<1>17. UNCHANGED <<pc, type, open, remote_fd, sfd, issued, crypto>>
    BY <1>3 DEF vars, regVars, ioVars, locVars, cfgVars
<1>18. Local(s)'
    <2>1. TaskAt(s) /\ RoleOf(s) /\ Keyed(s)
        BY DEF EInv, BInv, CInv, TaskInv, RoleInv, KeyInv
    <2>2. TaskAt(s)'
        BY <1>3, <1>4, <1>12, <1>17, <2>1 DEF TaskAt, Sendable
    <2>3. RoleOf(s)' /\ FromFwd(s)'
        BY <1>3, <1>4, <1>17, <2>1 DEF RoleOf, FromFwd
    <2>4. Keyed(s)'
        BY <1>3, <1>12, <1>17, <2>1 DEF Keyed
    <2> QED
        BY <2>2, <2>3, <2>4 DEF Local
<1>19. Linked(P, s)'
    <2>1. Reads(s, x, t)'
        BY <1>8 DEF Reads
    <2>2. Joined(s, x) => Flow(s, x)'
        <3>1. SUFFICES ASSUME Joined(s, x) PROVE Flow(s, x)'
            OBVIOUS
        <3>2. (s2c[s] \o c2s[x] = v)'
            BY <1>2, <1>4, <1>11, <1>14
        <3>3. Len(v) = 0 /\ cpc'[x] # "iv" /\ cpc'[s] = "splice"
            BY <1>4, <1>9, <1>12, <3>1
        <3>4. Reads(s, x, v)'
            BY <3>3 DEF Reads
        <3> QED
            BY <3>2, <3>3, <3>4 DEF Flow
    <2>3. Reads(s, P[s], s2c[s])' /\ (Joined(P[s], s) => Flow(s, P[s])')
        <3>1. Reads(s, P[s], s2c[s])'
            BY <1>2, <1>11, <2>1
        <3>2. Joined(P[s], s) => Flow(s, P[s])'
            BY <1>2, <2>2 DEF Joined
        <3> QED
            BY <3>1, <3>2
    <2> QED
        BY <1>2, <1>3, <1>4, <1>7, <1>17, <2>3 DEF Linked, Joined, Live
<1>20. ASSUME cend[x] = "open", Joined(s, x) PROVE Flow(x, s)'
    <2>1. Flow(x, s)
        BY <1>4, <1>20
    <2>2. CASE ~Carries(s)
        BY <1>3, <1>4, <1>11, <1>12, <1>14, <1>16, <2>1, <2>2, FlowStays
    <2>3. CASE Carries(s)
        <3>1. PICK m : m = Len(s2c[x] \o c2s[s])
            OBVIOUS
        <3>2. PICK l : l = m + 1
            OBVIOUS
        <3>3. cpc[x] # "iv"
            BY <1>9, <1>20
        <3>4. Fits(x, s, l, d)'
            <4>1. cpc'[x] # "iv" /\ role'[x] = "con" /\ d = Data(s)'
                BY <1>2, <1>3, <1>4, <1>12, <3>3 DEF Data
            <4> QED
                BY <4>1 DEF Fits, Chat
        <3>5. c2s'[s] = c2s[s] \o <<d>> /\ UNCHANGED role /\ cpc'[x] = cpc[x] /\ s2c'[x] = s2c[x]
              /\ cpc'[s] # "iv"
            BY <1>3, <1>4, <1>11, <1>12, <1>14, <2>3
        <3> QED
            BY <1>4, <1>13, <1>16, <2>1, <3>1, <3>2, <3>4, <3>5, FlowGrows
    <2> QED
        BY <2>2, <2>3
<1>21. Rest'
    <2>1. LET z == P[s] IN cend'[z] = "open" /\ Joined(s, z) => Flow(z, s)'
        BY <1>2, <1>3, <1>20 DEF Flow
    <2>2. \A y \in Session \ {s} : ClSame(y)
        BY <1>3, <1>10, <1>11, <1>12, <1>14, StageKept DEF ClSame, EndKept
    <2>3. P[s] # None
        BY <1>2, <1>4
    <2> QED
        BY <1>1, <1>3, <1>16, <1>18, <1>19, <2>1, <2>2, <2>3, PairClient
<1> QED
    BY <1>16, <1>21 DEF CInv, Rest

(* The peer's IV arrives; a connector then sends its info message.          *)
LEMMA RecvIvInv ==
    ASSUME EInv, NEW s \in Session, RecvIv(s)
    PROVE  CInv'
<1>1. PICK P \in Peering : Links(P)
    BY DEF EInv, BInv, CInv, LinkInv
<1>2. PICK x, q, t, w, v, d :
          /\ x = P[s] /\ q = s2c[s] /\ t = Tail(s2c[s])
          /\ w = s2c[s] \o c2s[x] /\ v = Tail(s2c[s]) \o c2s[x] /\ d = Info(s)
    OBVIOUS
<1>3. /\ cpc[s] = "iv" /\ s2c[s] # <<>>
      /\ rx' = [rx EXCEPT ![s] = IF Head(q).unit = "iv" THEN Head(q).val ELSE rx[s]]
      /\ s2c' = [s2c EXCEPT ![s] = t]
      /\ IF role[s] = "acc"
         THEN cpc' = [cpc EXCEPT ![s] = "info"] /\ UNCHANGED c2s
         ELSE cpc' = [cpc EXCEPT ![s] = "splice"] /\ SendUnits(s, <<d>>)
      /\ UNCHANGED <<vars, cend, role, ctok, info, fpc, fconn, fwlock, base, fd, tab, cfgVars>>
    BY <1>2 DEF RecvIv, Val, fwdVars, fdVars
<1>4. /\ role[s] \in {"con", "acc"} /\ cend[s] = "open"
      /\ x \in Session /\ x # s /\ x # None /\ P[x] = s
      /\ Linked(P, s) /\ Linked(P, x)
      /\ role[s] = "con" => role[x] = "acc"
      /\ role[s] = "acc" => role[x] = "con"
      /\ Reads(s, x, q) /\ (Joined(s, x) => Flow(s, x))
      /\ cend[x] = "open" /\ Joined(s, x) => Flow(x, s)
      /\ cend[x] = "open" /\ role[x] = "acc" => cpc[x] \in {"iv", "info", "splice"}
    BY <1>1, <1>2, <1>3, ReaderIs
<1>5. /\ q \in Seq(Unit) /\ t \in Seq(Unit) /\ Len(q) \in Nat /\ Len(w) \in Nat
      /\ Head(q) = q[1] /\ 1 <= Len(q) /\ w[1] = q[1] /\ 1 <= Len(w)
      /\ Len(t) = Len(q) - 1 /\ \A n \in 1..Len(q) - 1 : t[n] = q[n + 1]
      /\ Len(v) = Len(w) - 1 /\ \A n \in 1..Len(w) - 1 : v[n] = w[n + 1]
    BY <1>2, <1>3, <1>4, PathTail
<1>6. rx'[s] = x
    <2>1. Fits(s, x, 1, q[1])
        BY <1>4, <1>5 DEF Reads
    <2>2. q[1] = Iv(x)
        BY <1>3, <2>1 DEF Fits
    <2>3. Iv(x).val = x /\ Iv(x).unit = "iv"
        BY DEF Iv
    <2> QED
        BY <1>3, <1>5, <2>2, <2>3 DEF EInv, BInv, CInv, ETypeOK
<1>7. /\ rx' \in [Session -> Session \cup {None}]
      /\ \A y \in Session : y # s => rx'[y] = rx[y]
    <2>1. rx \in [Session -> Session \cup {None}]
        BY DEF EInv, BInv, CInv, ETypeOK
    <2> QED
        BY <1>3, <1>4, <1>6, <2>1
<1>8. /\ s2c' \in [Session -> Seq(Unit)] /\ s2c'[s] = t
      /\ \A y \in Session : y # s => s2c'[y] = s2c[y]
    BY <1>3, <1>5 DEF EInv, BInv, CInv, StreamInv
<1>9. /\ cpc' \in [Session -> {"none", "start", "connect", "iv", "info", "splice", "end"}]
      /\ cpc'[s] = IF role[s] = "acc" THEN "info" ELSE "splice"
      /\ \A y \in Session : y # s => cpc'[y] = cpc[y]
    BY <1>3 DEF EInv, BInv, CInv, ETypeOK
<1>10. d \in Unit
    BY <1>2, AreUnits
<1>11. /\ c2s' \in [Session -> Seq(Unit)]
       /\ c2s'[s] = IF role[s] = "con" /\ Carries(s) THEN c2s[s] \o <<d>> ELSE c2s[s]
       /\ \A y \in Session : y # s => c2s'[y] = c2s[y]
    <2>1. CASE role[s] = "acc"
        BY <1>3, <2>1 DEF EInv, BInv, CInv, StreamInv
    <2>2. CASE role[s] = "con"
        <3>1. PICK us : us = <<d>>
            OBVIOUS
        <3>2. us \in Seq(Unit)
            BY <1>10, <3>1
        <3> QED
            BY <1>3, <2>2, <3>1, <3>2, SendIs DEF EInv, BInv, CInv
    <2> QED
        BY <1>4, <2>1, <2>2
<1>13. FwdInv' /\ FdsInv' /\ ToFwd' /\ Mono
    <2>1. Mono
        BY <1>3 DEF Mono, vars, cfgVars
    <2>2. FwdInv' /\ FdsInv'
        <3>1. \A y \in Session : \/ cpc'[y] = cpc[y]
                                 \/ {cpc[y], cpc'[y]} \subseteq {"iv", "info", "splice"}
            BY <1>3, <1>4, <1>9
        <3> QED
            BY <1>3, <3>1, FdsKept
    <2>3. ToFwd'
        <3>1. fpc \in LoggingIn => fconn \in Session /\ fconn # s
            BY <1>4 DEF EInv, BInv, FlightInv, ETypeOK
        <3> QED
            BY <1>3, <3>1, <1>8, ToFwdKept
    <2> QED
        BY <2>1, <2>2, <2>3
<1>14. UNCHANGED <<pc, type, open, remote_fd, sfd, issued, crypto>>
    BY <1>3 DEF vars, regVars, ioVars, locVars, cfgVars
<1>15. Local(s)'
    <2>1. TaskAt(s) /\ RoleOf(s)
        BY DEF EInv, BInv, CInv, TaskInv, RoleInv
    <2>2. TaskAt(s)'
        BY <1>3, <1>4, <1>9, <1>14, <2>1 DEF TaskAt, Sendable
    <2>3. RoleOf(s)' /\ FromFwd(s)'
        BY <1>3, <1>4, <1>14, <2>1 DEF RoleOf, FromFwd
    <2>4. Keyed(s)'
        BY <1>4, <1>6, <1>9 DEF Keyed
    <2> QED
        BY <2>2, <2>3, <2>4 DEF Local
<1>16. ASSUME NEW a, NEW b, Len(a) \in Nat, Len(b) = Len(a) - 1,
              \A n \in 1..Len(a) - 1 : b[n] = a[n + 1], Reads(s, x, a)
       PROVE  Reads(s, x, b)'
    <2> SUFFICES ASSUME NEW n \in 1..Len(b) PROVE Fits(s, x, n, b[n])'
        BY DEF Reads
    <2>1. n + 1 \in 1..Len(a) /\ b[n] = a[n + 1] /\ n + 1 # 1 /\ (n + 1 = 2 => n = 1)
        BY <1>16
    <2>2. Fits(s, x, n + 1, a[n + 1])
        BY <1>16, <2>1 DEF Reads
    <2>3. \/ role[s] = "con" /\ Chat(x, b[n])
          \/ role[s] = "acc" /\ b[n] = Info(x) /\ n = 1
        BY <1>3, <2>1, <2>2 DEF Fits
    <2>4. CASE role[s] = "con" /\ Chat(x, b[n])
        <3>1. Chat(x, b[n])'
            BY <1>14, <2>4 DEF Chat, KA, Hdr, Data
        <3> QED
            BY <1>3, <1>9, <2>4, <3>1 DEF Fits
    <2>5. CASE role[s] = "acc" /\ b[n] = Info(x) /\ n = 1
        <3>1. b[n] = Info(x)' /\ role'[s] = "acc" /\ cpc'[s] = "info"
            BY <1>3, <1>9, <2>5 DEF Info
        <3> QED
            BY <2>5, <3>1 DEF Fits
    <2> QED
        BY <2>3, <2>4, <2>5
<1>17. Linked(P, s)'
    <2>1. Reads(s, x, t)'
        BY <1>4, <1>5, <1>16
    <2>2. Joined(s, x) => Flow(s, x)'
        <3>1. SUFFICES ASSUME Joined(s, x) PROVE Flow(s, x)'
            OBVIOUS
        <3>2. /\ Reads(s, x, w)
              /\ role[x] = "con" /\ cpc[x] = "iv" => Len(w) <= 1
            BY <1>2, <1>3, <1>4, <3>1 DEF Flow
        <3>3. Reads(s, x, v)'
            BY <1>5, <1>16, <3>2
        <3>4. (s2c[s] \o c2s[x] = v)'
            BY <1>2, <1>4, <1>8, <1>11
        <3>5. cpc'[s] # "iv"
            BY <1>9
        <3>6. role'[x] = "con" /\ cpc'[x] = "iv" => cpc'[s] = "info" /\ Len(v) <= 0
            <4>1. SUFFICES ASSUME role[x] = "con", cpc[x] = "iv"
                           PROVE  cpc'[s] = "info" /\ Len(v) <= 0
                BY <1>3, <1>4, <1>9
            <4>2. role[s] = "acc"
                BY <1>4, <4>1
            <4> QED
                BY <1>5, <1>9, <3>2, <4>1, <4>2
        <3> QED
            BY <3>3, <3>4, <3>5, <3>6 DEF Flow
    <2>3. Reads(s, P[s], s2c[s])' /\ (Joined(P[s], s) => Flow(s, P[s])')
        <3>1. Reads(s, P[s], s2c[s])'
            BY <1>2, <1>8, <2>1
        <3>2. Joined(P[s], s) => Flow(s, P[s])'
            BY <1>2, <2>2 DEF Joined
        <3> QED
            BY <3>1, <3>2
    <2> QED
        BY <1>2, <1>3, <1>4, <1>6, <1>14, <2>3 DEF Linked, Joined, Live
<1>18. ASSUME cend[x] = "open", Joined(s, x) PROVE Flow(x, s)'
    <2>1. Flow(x, s)
        BY <1>4, <1>18
    <2>2. CASE ~(role[s] = "con" /\ Carries(s))
        <3>1. c2s'[s] = c2s[s]
            BY <1>11, <2>2
        <3> QED
            BY <1>3, <1>4, <1>8, <1>9, <1>13, <2>1, <3>1, FlowStays
    <2>3. CASE role[s] = "con" /\ Carries(s)
        <3>1. PICK m : m = Len(s2c[x] \o c2s[s])
            OBVIOUS
        <3>2. PICK l : l = m + 1
            OBVIOUS
        <3>3. m \in Nat
            BY <1>4, <3>1, CatIs DEF EInv, BInv, CInv, StreamInv
        <3>4. /\ cpc[x] = "iv" => 1 <= m
              /\ cpc[x] # "splice" /\ m <= (IF cpc[x] = "iv" THEN 1 ELSE 0)
            BY <1>3, <2>1, <2>3, <3>1 DEF Flow
        <3>5. (cpc[x] = "iv" /\ l = 2) \/ (cpc[x] = "info" /\ l = 1)
            <4>1. CASE cpc[x] = "iv"
                BY <3>2, <3>3, <3>4, <4>1
            <4>2. CASE cpc[x] = "info"
                BY <3>2, <3>3, <3>4, <4>2
            <4> QED
                BY <1>4, <1>18, <2>3, <3>4, <4>1, <4>2
        <3>6. Fits(x, s, l, d)'
            <4>1. cpc'[x] = cpc[x] /\ role'[x] = "acc" /\ d = Info(s)'
                BY <1>2, <1>3, <1>4, <1>9, <2>3 DEF Info
            <4> QED
                BY <3>5, <4>1 DEF Fits
        <3>7. c2s'[s] = c2s[s] \o <<d>> /\ UNCHANGED role /\ cpc'[x] = cpc[x] /\ s2c'[x] = s2c[x]
              /\ cpc'[s] # "iv"
            BY <1>3, <1>4, <1>8, <1>9, <1>11, <2>3
        <3> QED
            BY <1>4, <1>10, <1>13, <2>1, <3>1, <3>2, <3>6, <3>7, FlowGrows
    <2> QED
        BY <2>2, <2>3
<1>19. Rest'
    <2>1. LET z == P[s] IN cend'[z] = "open" /\ Joined(s, z) => Flow(z, s)'
        BY <1>2, <1>3, <1>18 DEF Flow
    <2>2. \A y \in Session \ {s} : ClSame(y)
        BY <1>3, <1>7, <1>8, <1>9, <1>11, StageKept DEF ClSame, EndKept
    <2>3. P[s] # None
        BY <1>2, <1>4
    <2> QED
        BY <1>1, <1>3, <1>13, <1>15, <1>17, <2>1, <2>2, <2>3, PairClient
<1> QED
    BY <1>13, <1>19 DEF CInv, Rest

-----------------------------------------------------------------------------
(* The invariant.                                                           *)

(* The server reads nothing that it does not expect.                        *)
LEMMA ServerReads ==
    ASSUME EInv, NEW s \in Session
    PROVE  ~ServerMisreads(s)
<1> SUFFICES ASSUME pc[s] \in Receiving, c2s[s] # <<>> PROVE ~ServerMisreads(s)
    BY DEF ServerMisreads
<1>1. PICK q : q = c2s[s]
    OBVIOUS
<1>2. /\ Head(q) = q[1]
      /\ pc[s] = "hdr" /\ role[s] = "fwd" /\ type[s] = "NULL" =>
            q[1] \in {Hdr("LOGIN", 1), Hdr("LOGIN", 3), KA}
      /\ pc[s] = "hdr" /\ role[s] = "fwd" /\ type[s] # "NULL" => q[1] = KA
      /\ pc[s] = "hdr" /\ role[s] # "fwd" =>
            q[1] = Hdr(IF role[s] = "con" THEN "CONNECT" ELSE "ACCEPT", 1)
      /\ pc[s] # "hdr" => IsTok(q[1])
    BY <1>1, NextUnit DEF Receiving
<1>3. role[s] \in {"fwd", "acc", "con"} /\ RoleOf(s)
    BY Reading
<1>4. role[s] = "con" /\ pc[s] = "hdr" => type[s] = "NULL"
    BY <1>3 DEF EInv, BInv, IInv, RoleAtLabel, RoleOf
<1>5. /\ \A c, n : Hdr(c, n).unit = "hdr" /\ Hdr(c, n).cmd = c
      /\ KA.unit = "hdr" /\ KA.cmd = "KEEP_ALIVE"
    BY DEF Hdr, KA
<1>6. CASE pc[s] # "hdr"
    BY <1>1, <1>2, <1>6 DEF ServerMisreads, IsTok
<1>7. CASE pc[s] = "hdr"
    <2>1. q[1].unit = "hdr"
        BY <1>2, <1>5, <1>7
    <2>2. q[1].cmd \in {"LOGIN", "CONNECT"} => type[s] = "NULL"
        BY <1>2, <1>3, <1>4, <1>5, <1>7
    <2> QED
        BY <1>1, <1>2, <1>7, <2>1, <2>2 DEF ServerMisreads
<1> QED
    BY <1>6, <1>7

(* No connection is in use at the start.                                    *)
LEMMA CInvInit ==
    ASSUME EInit
    PROVE  CInv
<1> USE DEF EInit
<1>1. \A s \in Session : /\ role[s] = "none" /\ cend[s] = "none" /\ cpc[s] = "none"
                         /\ c2s[s] = <<>> /\ s2c[s] = <<>> /\ rx[s] = None /\ info[s] = None
                         /\ pc[s] = "idle" /\ remote_fd[s] = None /\ sfd[s] = None
    BY DEF Init
<1>2. FwdInv
    BY <1>1 DEF FwdInv, LoggingIn
<1>3. FdsInv
    BY <1>1, SessionAssumption DEF FdsInv, FdAt
<1>4. TaskInv /\ RoleInv /\ FromInv /\ KeyInv
    BY <1>1 DEF TaskInv, RoleInv, FromInv, KeyInv, TaskAt, RoleOf, FromFwd, Keyed
<1>5. ToFwd
    BY DEF ToFwd, LoggingIn
<1>6. LinkInv
    <2>1. PICK P : P = [s \in Session |-> None]
        OBVIOUS
    <2>2. P \in Peering /\ \A s \in Session : P[s] = None
        BY <2>1 DEF Peering
    <2>3. \A s \in Session : Single(s)
        BY <1>1 DEF Single, FromTask
    <2>4. Links(P)
        BY <1>1, <2>2, <2>3 DEF Links, LinkAt
    <2> QED
        BY <2>2, <2>4 DEF LinkInv
<1> QED
    BY <1>2, <1>3, <1>4, <1>5, <1>6 DEF CInv

(* A connection that was hit stays so.                                      *)
LEMMA HitGrows ==
    ASSUME [ENext]_evars
    PROVE  hit \subseteq hit'
<1>1. CASE UNCHANGED evars
    BY <1>1 DEF evars
<1>2. ASSUME NEW s \in Session, Server(s) \/ SrvKeepAlive(s) PROVE hit \subseteq hit'
    BY <1>2 DEF Server, SrvKeepAlive, SrvAccept, SrvLogin, SrvHeader, SrvConnect,
       SrvAcceptToken, SrvStartSplice, SrvSplice, SrvEndSplice, SrvTimer, SrvRecvFail,
       SrvMisread
<1>3. ASSUME NEW s \in Session, Client(s) PROVE hit \subseteq hit'
    BY <1>3 DEF Client, AccSocket, AccConnected, RecvIv, RecvInfo, RecvData, TaskEnd
<1>4. ASSUME Forwarder PROVE hit \subseteq hit'
    BY <1>4 DEF Forwarder, FwdSocket, FwdConnected, FwdLogin, FwdLoginToken, FwdSend,
       FwdNoConnect, FwdToken, FwdDispatch, FwdLost, FwdWake
<1>5. ASSUME KeepAliveGivesUp \/ ConStart \/ Stray PROVE hit \subseteq hit'
    BY <1>5 DEF KeepAliveGivesUp, ConStart, Stray, KeepAlive, KeepAliveStale,
       KeepAliveStuck, SpliceStale
<1> QED
    BY <1>1, <1>2, <1>3, <1>4, <1>5 DEF ENext

(* Every step of the server, the forwarder and the tasks keeps it, unless a *)
(* stale number is used on a connection.                                    *)
LEMMA CInvNext ==
    ASSUME EInv, [ENext]_evars, hit' = {}
    PROVE  CInv'
<1>1. ASSUME NEW s \in Session, Server(s) \/ SrvKeepAlive(s) PROVE CInv'
    <2>1. CASE SrvAccept(s)
        BY <2>1, SrvAcceptInv
    <2>2. CASE SrvLogin(s)
        BY <2>2, SrvLoginInv
    <2>3. CASE SrvHeader(s)
        BY <2>3, SrvHeaderInv
    <2>4. CASE SrvConnect(s)
        BY <2>4, SrvConnectInv
    <2>5. CASE SrvAcceptToken(s)
        BY <2>5, SrvAcceptTokenInv
    <2>6. CASE SrvStartSplice(s)
        BY <2>6, SrvStartSpliceInv
    <2>7. ASSUME NEW x \in SpliceFds(s), NEW y \in SpliceFds(s), SrvSplice(s, x, y)
          PROVE  CInv'
        BY <2>7, SrvSpliceInv
    <2>8. CASE SrvEndSplice(s) \/ SrvRecvFail(s)
        BY <2>8, SrvCloseInv
    <2>9. CASE SrvTimer(s)
        BY <2>9, SrvTimerInv
    <2>10. CASE SrvKeepAlive(s)
        BY <2>10, SrvKeepAliveInv
    <2>11. CASE SrvMisread(s)
        BY <2>11, ServerReads DEF SrvMisread
    <2> QED
        BY <1>1, <2>1, <2>2, <2>3, <2>4, <2>5, <2>6, <2>7, <2>8, <2>9, <2>10, <2>11
        DEF Server
<1>2. ASSUME NEW s \in Session, Client(s) PROVE CInv'
    BY <1>2, AccSocketInv, AccConnectedInv, RecvIvInv, RecvInfoInv, RecvDataInv, TaskEndInv
    DEF Client
<1>3. ASSUME Forwarder PROVE CInv'
    BY <1>3, FwdSocketInv, FwdConnectedInv, FwdLoginInv, FwdLoginTokenInv, FwdNoConnectInv,
       FwdTokenInv, FwdDispatchInv, FwdLostInv, FwdWakeInv DEF Forwarder
<1>4. ASSUME KeepAliveGivesUp \/ ConStart \/ KeepAlive \/ KeepAliveStale \/ KeepAliveStuck
      PROVE  CInv'
    BY <1>4, ConStartInv, KeepAliveInv, KeepAliveStaleInv, KeepAliveWaitsInv
<1>5. ASSUME NEW s \in Session, SpliceStale(s) PROVE CInv'
    <2>1. hit' # {}
        BY <1>5 DEF SpliceStale
    <2> QED
        BY <2>1
<1>6. ASSUME UNCHANGED evars PROVE CInv'
    <2>1. UNCHANGED <<vars, clientVars, c2s, s2c>>
        BY <1>6 DEF evars, clientVars, chanVars
    <2>2. UNCHANGED <<role, cend, cpc, ctok, rx, info, fpc, fconn, base, fd, tab, fwlock>>
        BY <2>1 DEF clientVars, taskVars, fwdVars, fdVars
    <2>3. FwdInv' /\ FdsInv' /\ Mono
        BY <2>1, ServerFrame DEF vars
    <2>4. Rest'
        <3>1. \A y \in Session : ClSame(y)
            BY <2>1, <2>2, StageKept DEF ClSame, EndKept
        <3> QED
            BY <2>1, <2>3, <3>1, NoClient
    <2>5. ToFwd'
        BY <2>1, <2>2, ToFwdKept
    <2> QED
        BY <2>3, <2>4, <2>5 DEF CInv, Rest
<1> QED
    BY <1>1, <1>2, <1>3, <1>4, <1>5, <1>6 DEF ENext, Stray

(* As long as no stale number has been used on a connection, what is on the *)
(* streams, where both ends stand and who is joined to whom agree, for any  *)
(* number of connections, faults and connectors, and whatever numbers the   *)
(* tasks of the forwarder have closed for each other (client-forward.c,     *)
(* client-base.c).                                                          *)
THEOREM EndToEndInvariance == ESpec => []FInv
<1>1. EInit => FInv
    BY BInvInit, CInvInit DEF FInv
<1>2. FInv /\ [ENext]_evars => FInv'
    <2> SUFFICES ASSUME FInv, [ENext]_evars PROVE FInv'
        OBVIOUS
    <2>1. BInv'
        BY BInvNext DEF FInv
    <2>2. ASSUME hit' = {} PROVE CInv'
        <3>1. hit = {}
            BY <2>2, HitGrows
        <3>2. EInv
            BY <3>1 DEF FInv, EInv
        <3> QED
            BY <2>2, <3>2, CInvNext
    <2> QED
        BY <2>1, <2>2 DEF FInv
<1> QED
    BY <1>1, <1>2, PTL DEF ESpec

(* Type correctness of the clients and the streams, also where stale        *)
(* numbers do harm: in particular an accept task only ever has the token of *)
(* a CONNECT message (hev_fsh_client_forward_dispatch).                     *)
THEOREM EndToEndTypeCorrect == ESpec => []ETypeOK
<1>1. FInv => ETypeOK
    BY DEF FInv, BInv
<1> QED
    BY <1>1, EndToEndInvariance, PTL

(* The clients are an environment that the server's specification allows,   *)
(* whatever their stale numbers make the server read: every token they send *)
(* is configured or was issued, so all that is proved of the session layer  *)
(* holds with them.                                                         *)
THEOREM ServerWithClients == ESpec => Spec
<1>1. EInit => Init
    BY DEF EInit
<1>2. FInv /\ [ENext]_evars => [Next]_vars
    BY ServerSteps DEF FInv
<1> QED
    BY <1>1, <1>2, EndToEndInvariance, PTL DEF ESpec, Spec

(* Neither end reads a unit that it does not expect before a stale number   *)
(* is used on a connection, with the keep-alive that the forward task's own *)
(* new connection gets before its LOGIN as the only exception: a header is  *)
(* never taken for a token or data, whatever breaks                         *)
(* (hev_fsh_session_task_entry and what it calls, the clients' recvs).      *)
THEOREM StreamsAligned == ESpec => [](hit = {} => Aligned)
<1>1. ASSUME EInv, NEW s \in Session, ClientMisreads(s)
      PROVE  fpc = "token" /\ Head(s2c[s]).cmd = "KEEP_ALIVE"
    <2>1. cend[s] = "open" /\ s2c[s] # <<>>
        BY <1>1 DEF ClientMisreads
    <2>2. TaskAt(s) /\ role[s] \in {"none", "fwd", "acc", "con"}
        BY <1>1 DEF EInv, BInv, CInv, TaskInv, ETypeOK
    <2>3. CASE role[s] = "fwd"
        <3>1. s = fconn /\ fpc \in LoggingIn
            BY <1>1, <2>1, <2>3 DEF EInv, CInv, FwdInv
        <3>2. fpc \in {"token", "dispatch"}
            BY <1>1, <2>3, <3>1 DEF ClientMisreads
        <3>3. FwdReads(fpc)
            BY <1>1, <2>1, <3>1 DEF FwdReads, EInv, CInv, FwdInv
        <3>4. /\ fpc = "token" =>
                    \/ Head(s2c[s]).cmd = "TOKEN"
                    \/ Head(s2c[s]).cmd = "KEEP_ALIVE"
              /\ fpc = "dispatch" => Head(s2c[s]).cmd \in {"CONNECT", "KEEP_ALIVE"}
            BY <1>1, <3>1, <3>2, <3>3, FwdNextUnit DEF Asks, Echo
        <3> QED
            BY <1>1, <2>3, <3>1, <3>2, <3>4 DEF ClientMisreads
    <2>4. CASE role[s] # "fwd"
        <3>1. role[s] \in {"con", "acc"} /\ cpc[s] \in {"iv", "info", "splice"}
            BY <2>1, <2>2, <2>4 DEF TaskAt
        <3>2. PICK P \in Peering : Links(P)
            BY <1>1 DEF EInv, CInv, LinkInv
        <3>3. PICK x, q : x = P[s] /\ q = s2c[s]
            OBVIOUS
        <3>4. Reads(s, x, q)
            BY <1>1, <2>1, <3>1, <3>2, <3>3, ReaderIs
        <3>5. Head(q) = q[1] /\ 1 <= Len(q) /\ Len(q) \in Nat
            BY <1>1, <2>1, <3>3, TailIs DEF EInv, BInv, StreamInv
        <3>6. Fits(s, x, 1, q[1])
            BY <3>4, <3>5 DEF Reads
        <3>7. Iv(x).unit = "iv" /\ Info(x).unit = "info" /\ Data(x).unit = "data"
            BY DEF Iv, Info, Data
        <3>8. /\ cpc[s] = "iv" => q[1].unit = "iv"
              /\ cpc[s] = "info" => q[1].unit = "info"
              /\ cpc[s] = "splice" => q[1].unit = "data"
            <4>1. CASE cpc[s] = "iv"
                BY <3>6, <3>7, <4>1 DEF Fits
            <4>2. CASE cpc[s] = "info"
                <5>1. role[s] = "acc"
                    BY <2>2, <3>1, <4>2 DEF TaskAt
                <5> QED
                    BY <3>6, <3>7, <4>2, <5>1 DEF Fits
            <4>3. CASE cpc[s] = "splice"
                BY <3>6, <3>7, <4>3 DEF Fits, Chat
            <4> QED
                BY <3>1, <4>1, <4>2, <4>3
        <3>9. q[1].unit # (CASE cpc[s] = "iv" -> "iv" [] cpc[s] = "info" -> "info"
                             [] cpc[s] = "splice" -> "data")
            BY <1>1, <2>4, <3>3, <3>5 DEF ClientMisreads
        <3> QED
            BY <3>1, <3>8, <3>9
    <2> QED
        BY <2>3, <2>4
<1>2. FInv => (hit = {} => Aligned)
    BY <1>1, ServerReads DEF Aligned, FInv, EInv
<1> QED
    BY <1>2, EndToEndInvariance, PTL

(* As long as no stale number has been used on a connection, the two ends   *)
(* of one through the server decrypt with each other's IV, and an accept    *)
(* task serves the connector whose IV it has and no other, among any number *)
(* of pairs (hev_fsh_client_base_encrypt, hev_fsh_session_accept).          *)
THEOREM KeysAgreed == ESpec => [](hit = {} => KeysAgree)
<1>1. ASSUME EInv PROVE KeysAgree
    <2>1. PICK P \in Peering : Links(P)
        BY <1>1 DEF EInv, CInv, LinkInv
    <2>2. ASSUME NEW y \in Session, rx[y] # None \/ info[y] # None
          PROVE  /\ P[y] # None /\ Linked(P, y) /\ P[P[y]] = y
                 /\ rx[y] # None => rx[y] = P[y]
                 /\ info[y] # None => info[y] = P[y]
        BY <2>1, <2>2 DEF Links, LinkAt, Single, Linked
    <2>3. ASSUME NEW a \in Session, NEW c \in Session, rx[a] = c, c # None, rx[c] # None
          PROVE  rx[c] = a
        <3>1. P[a] = c /\ P[P[a]] = a
            BY <2>2, <2>3
        <3>2. rx[c] = P[c]
            BY <2>2, <2>3
        <3> QED
            BY <3>1, <3>2
    <2>4. ASSUME NEW a \in Session, NEW c \in Session, info[a] = c, c # None
          PROVE  /\ crypto => rx[a] = c
                 /\ {role[a], role[c]} = {"acc", "con"}
                 /\ info[c] \in {a, None}
        <3>1. P[a] = c /\ P[P[a]] = a /\ Linked(P, a) /\ (rx[a] # None => rx[a] = P[a])
            BY <2>2, <2>4
        <3>2. crypto => rx[a] = c
            BY <1>1, <2>4, <3>1 DEF EInv, CInv, KeyInv, Keyed
        <3>3. {role[a], role[c]} = {"acc", "con"}
            BY <3>1 DEF Linked
        <3>4. info[c] # None => info[c] = P[c]
            BY <2>2
        <3> QED
            BY <3>1, <3>2, <3>3, <3>4
    <2> QED
        BY <2>3, <2>4, SessionAssumption DEF KeysAgree
<1>2. FInv => (hit = {} => KeysAgree)
    BY <1>1 DEF FInv, EInv
<1> QED
    BY <1>2, EndToEndInvariance, PTL
=============================================================================
