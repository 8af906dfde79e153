---------------------------- MODULE FshSession ----------------------------
(***************************************************************************)
(* The fsh server's session layer: hev-fsh-session.c with the session      *)
(* manager (hev-fsh-session-manager.c), the accept loop of hev-fsh-server.c *)
(* and the i/o base object (hev-fsh-io.c).                                 *)
(*                                                                         *)
(* Every accepted connection gets a session and a cooperative task that    *)
(* runs without interruption from one blocking call to the next, so one    *)
(* action is what a task does between two blocking calls.  pc[s] names the *)
(* call task s sleeps in:                                                  *)
(*   idle       not accepted yet        hdr       recv of a message header *)
(*   loginTok   recv of LOGIN's token   connTok   recv of CONNECT's token  *)
(*   accTok     recv of ACCEPT's token  penalty   sleep_wait (1500)        *)
(*   lock       hev_task_mutex_lock     send      a send that is blocked   *)
(*   waitAccept "wait for accept" loop  splice    hev_task_io_splice       *)
(*   waitConnect "wait for connect" loop freed    destructed               *)
(*                                                                         *)
(* Clients are the environment: at any time a client may send any message, *)
(* stall until a timeout, or hang up.  Session s serves connection s, and  *)
(* the descriptor of that connection is called s too.  The token a session *)
(* generates (it generates at most one) is also called s: 122 random bits  *)
(* are taken to be unique, and a client can present a generated token only *)
(* after it was generated.  The all-zero token is None.                    *)
(***************************************************************************)
EXTENDS Naturals

CONSTANTS
    Session,        \* accepted connections, each used once
    ClientToken,    \* tokens chosen by clients
    None,           \* no session, no descriptor (-1), the zero token
    UseTokens,      \* the server was started with a tokens file (-a)
    SendMayBlock    \* a socket's send buffer can be full

ASSUME SessionAssumption ==
    /\ None \notin Session
    /\ None \notin ClientToken
    /\ ClientToken \cap Session = {}

ASSUME ModeAssumption == UseTokens \in BOOLEAN /\ SendMayBlock \in BOOLEAN

Token == ClientToken \cup Session

VARIABLES
    pc,             \* the blocking call the session's task sleeps in
    type,           \* self->type
    is_mgr,         \* self->is_mgr: the session must leave the tree on close
    is_temp_token,  \* self->is_temp_token
    token,          \* self->token
    timeout,        \* base.timeout: 1 as configured, 0 after an eviction
    client_fd,      \* self->client_fd
    remote_fd,      \* self->remote_fd
    wlock,          \* self->wlock: the task that holds it
    ntype, ntoken,  \* self->node: the key under which it sits in the tree
    ver, mt,        \* locals: header version, received token
    op, target,     \* locals: the operation that sends, the session it sends to
    sfd,            \* locals: the descriptor given to hev_task_io_splice
    open,           \* kernel: the open descriptors
    poll,           \* kernel: the task each descriptor's events wake
    allow,          \* the token manager's allow list
    issued          \* the generated tokens so far

ioVars  == <<client_fd, remote_fd, open, poll>>
regVars == <<type, is_mgr, timeout, ntype, ntoken>>
idVars  == <<is_temp_token, token>>
locVars == <<ver, mt, op, target, sfd>>
vars == <<pc, regVars, idVars, ioVars, wlock, locVars, allow, issued>>

Type    == {"NULL", "FORWARD", "CONNECT", "SPLICE", "CLOSED"}
RegType == {"FORWARD", "CONNECT", "SPLICE"}
Op      == {"none", "login", "connect", "kalive"}
Label   == {"idle", "hdr", "loginTok", "connTok", "accTok", "penalty", "lock",
            "send", "waitAccept", "splice", "waitConnect", "freed"}
Receiving == {"hdr", "loginTok", "connTok", "accTok"}

Live(s) == pc[s] \notin {"idle", "freed"}

Init ==
    /\ pc = [s \in Session |-> "idle"]
    /\ type = [s \in Session |-> "NULL"]
    /\ is_mgr = [s \in Session |-> FALSE]
    /\ is_temp_token = [s \in Session |-> FALSE]
    /\ token = [s \in Session |-> None]
    /\ timeout = [s \in Session |-> 1]
    /\ client_fd = [s \in Session |-> None]
    /\ remote_fd = [s \in Session |-> None]
    /\ wlock = [s \in Session |-> None]
    /\ ntype = [s \in Session |-> "NONE"]
    /\ ntoken = [s \in Session |-> None]
    /\ ver = [s \in Session |-> 0]
    /\ mt = [s \in Session |-> None]
    /\ op = [s \in Session |-> "none"]
    /\ target = [s \in Session |-> None]
    /\ sfd = [s \in Session |-> None]
    /\ open = {}
    /\ poll = [s \in Session |-> None]
    /\ allow \in SUBSET (IF UseTokens THEN ClientToken ELSE {})
    /\ issued = {}

-----------------------------------------------------------------------------
(* The registry and the end of a session.                                  *)

(* Mutant: the search compares types only.                                  *)
FindAnyToken(t, k) == {x \in Session : ntype[x] = t}

(* hev_fsh_session_manager_find: any node with the key; equal keys are      *)
(* allowed and which of them the search meets depends on the tree's shape.  *)
Find(t, k) == {x \in Session : ntype[x] = t /\ ntoken[x] = k}

(* f with the value v on E.                                                 *)
Upd(f, E, v) == [x \in Session |-> IF x \in E THEN v ELSE f[x]]

(* What a client can put in a message.                                      *)
Sendable == ClientToken \cup issued

(* The return of a handler with the locals out of scope.                    *)
ClearLocals(s) ==
    /\ ver' = [ver EXCEPT ![s] = 0]
    /\ mt' = [mt EXCEPT ![s] = None]
    /\ op' = [op EXCEPT ![s] = "none"]
    /\ target' = [target EXCEPT ![s] = None]
    /\ sfd' = [sfd EXCEPT ![s] = None]

(* hev_fsh_session_close_session and destruct, in the same step as the      *)
(* eviction of E (E is empty for every caller but login).  The fields of    *)
(* the freed object return to blank; its tree node is erased only when      *)
(* is_mgr says so.                                                          *)
Close(s, E) ==
    LET gone == E \cup (IF is_mgr[s] THEN {s} ELSE {})
        fds  == {client_fd[s], remote_fd[s]}
    IN  /\ pc' = [pc EXCEPT ![s] = "freed"]
        /\ ntype' = Upd(ntype, gone, "NONE")
        /\ ntoken' = Upd(ntoken, gone, None)
        /\ type' = [Upd(type, E, "CLOSED") EXCEPT ![s] = "NULL"]
        /\ is_mgr' = [Upd(is_mgr, E, FALSE) EXCEPT ![s] = FALSE]
        /\ timeout' = [Upd(timeout, E, 0) EXCEPT ![s] = 1]
        /\ is_temp_token' = [is_temp_token EXCEPT ![s] = FALSE]
        /\ token' = [token EXCEPT ![s] = None]
        /\ client_fd' = [client_fd EXCEPT ![s] = None]
        /\ remote_fd' = [remote_fd EXCEPT ![s] = None]
        /\ open' = open \ fds
        /\ poll' = Upd(poll, fds, None)
        /\ ClearLocals(s)

-----------------------------------------------------------------------------
(* The accept loop and the message loop.                                    *)

(* A connection is accepted, its session created and its task started.      *)
AcceptClient(s) ==
    /\ pc[s] = "idle"
    /\ pc' = [pc EXCEPT ![s] = "hdr"]
    /\ client_fd' = [client_fd EXCEPT ![s] = s]
    /\ open' = open \cup {s}
    /\ poll' = [poll EXCEPT ![s] = s]
    /\ UNCHANGED <<regVars, idVars, remote_fd, wlock, locVars, allow, issued>>

(* No memory for the session: the accepted descriptor is closed again.      *)
AcceptDrop(s) ==
    /\ pc[s] = "idle"
    /\ pc' = [pc EXCEPT ![s] = "freed"]
    /\ UNCHANGED <<regVars, idVars, ioVars, wlock, locVars, allow, issued>>

(* A receive fails: hang up, error, or the yielder's timeout.               *)
RecvFail(s) ==
    /\ pc[s] \in Receiving
    /\ Close(s, {})
    /\ UNCHANGED <<wlock, allow, issued>>

(* A header with a command that the server does not serve, or a LOGIN or    *)
(* CONNECT on a session that already has a role.                            *)
BadCommand(s) ==
    /\ pc[s] = "hdr"
    /\ Close(s, {})
    /\ UNCHANGED <<wlock, allow, issued>>

(* Start waiting for the token that follows the header.                     *)
RecvBody(s, label, v) ==
    /\ pc' = [pc EXCEPT ![s] = label]
    /\ ver' = [ver EXCEPT ![s] = v]
    /\ UNCHANGED <<regVars, idVars, ioVars, wlock, mt, op, target, sfd, allow,
                   issued>>

(* sleep_wait (1500): nothing wakes the task early for good.                *)
PenaltyEnd(s) ==
    /\ pc[s] = "penalty"
    /\ Close(s, {})
    /\ UNCHANGED <<wlock, allow, issued>>

-----------------------------------------------------------------------------
(* Sending.  With SendMayBlock every send passes through "send", where      *)
(* other tasks may run (a send that does not block is the case that none    *)
(* does); without it a send is part of the step that issues it.             *)

(* write_message/keep_alive up to the first yield: take t's lock and block  *)
(* in the send, or wait for the lock.                                       *)
BeginSend(s, t, o) ==
    /\ SendMayBlock
    /\ op' = [op EXCEPT ![s] = o]
    /\ target' = [target EXCEPT ![s] = t]
    /\ \/ /\ wlock[t] = None
          /\ wlock' = [wlock EXCEPT ![t] = s]
          /\ pc' = [pc EXCEPT ![s] = "send"]
       \/ /\ wlock[t] # None
          /\ pc' = [pc EXCEPT ![s] = "lock"]
          /\ UNCHANGED wlock

(* Mutant: the send starts without waiting for the lock.                    *)
GetLockAtOnce(s) ==
    /\ pc[s] = "lock"
    /\ wlock' = [wlock EXCEPT ![target[s]] = s]
    /\ pc' = [pc EXCEPT ![s] = "send"]
    /\ UNCHANGED <<regVars, idVars, ioVars, locVars, allow, issued>>

(* The mutex is handed over.  The lock word of a freed target is freed      *)
(* memory and may read as anything.                                         *)
GetLock(s) ==
    /\ pc[s] = "lock"
    /\ wlock[target[s]] = None \/ pc[target[s]] = "freed"
    /\ wlock' = [wlock EXCEPT ![target[s]] = s]
    /\ pc' = [pc EXCEPT ![s] = "send"]
    /\ UNCHANGED <<regVars, idVars, ioVars, locVars, allow, issued>>

(* Mutant: the earlier forwarder is marked CLOSED but stays in the tree and *)
(* keeps its timeout.                                                       *)
LoginOkHalfEvicts(s, v, k, E) ==
    /\ pc' = [pc EXCEPT ![s] = "hdr"]
    /\ type' = [Upd(type, E, "CLOSED") EXCEPT ![s] = "FORWARD"]
    /\ is_mgr' = [is_mgr EXCEPT ![s] = TRUE]
    /\ ntype' = [ntype EXCEPT ![s] = "FORWARD"]
    /\ ntoken' = [ntoken EXCEPT ![s] = k]
    /\ token' = [token EXCEPT ![s] = k]
    /\ is_temp_token' = [is_temp_token EXCEPT ![s] = (v = 3)]
    /\ ClearLocals(s)
    /\ UNCHANGED <<timeout, ioVars>>

(* Mutant: the session is inserted before its type is set.                  *)
LoginOkInsertFirst(s, v, k, E) ==
    /\ pc' = [pc EXCEPT ![s] = "hdr"]
    /\ type' = [Upd(type, E, "CLOSED") EXCEPT ![s] = "FORWARD"]
    /\ is_mgr' = [Upd(is_mgr, E, FALSE) EXCEPT ![s] = TRUE]
    /\ timeout' = Upd(timeout, E, 0)
    /\ ntype' = [Upd(ntype, E, "NONE") EXCEPT ![s] = type[s]]
    /\ ntoken' = [Upd(ntoken, E, None) EXCEPT ![s] = k]
    /\ token' = [token EXCEPT ![s] = k]
    /\ is_temp_token' = [is_temp_token EXCEPT ![s] = (v = 3)]
    /\ ClearLocals(s)
    /\ UNCHANGED ioVars

(* login after a successful TOKEN reply: register as a forwarder.           *)
LoginOk(s, v, k, E) ==
    /\ pc' = [pc EXCEPT ![s] = "hdr"]
    /\ type' = [Upd(type, E, "CLOSED") EXCEPT ![s] = "FORWARD"]
    /\ is_mgr' = [Upd(is_mgr, E, FALSE) EXCEPT ![s] = TRUE]
    /\ timeout' = Upd(timeout, E, 0)
    /\ ntype' = [Upd(ntype, E, "NONE") EXCEPT ![s] = "FORWARD"]
    /\ ntoken' = [Upd(ntoken, E, None) EXCEPT ![s] = k]
    /\ token' = [token EXCEPT ![s] = k]
    /\ is_temp_token' = [is_temp_token EXCEPT ![s] = (v = 3)]
    /\ ClearLocals(s)
    /\ UNCHANGED ioVars

(* Mutant: is_mgr is not set, so close_session leaves the node in the tree. *)
ConnectOkNoMgr(s, k) ==
    /\ pc' = [pc EXCEPT ![s] = "waitAccept"]
    /\ type' = [type EXCEPT ![s] = "CONNECT"]
    /\ ntype' = [ntype EXCEPT ![s] = "CONNECT"]
    /\ ntoken' = [ntoken EXCEPT ![s] = k]
    /\ token' = [token EXCEPT ![s] = k]
    /\ ClearLocals(s)
    /\ UNCHANGED <<is_mgr, timeout, is_temp_token, ioVars>>

(* connect after the forwarder was told: register as a connector and enter  *)
(* the wait of hev_fsh_session_splice.                                      *)
ConnectOk(s, k) ==
    /\ pc' = [pc EXCEPT ![s] = "waitAccept"]
    /\ type' = [type EXCEPT ![s] = "CONNECT"]
    /\ is_mgr' = [is_mgr EXCEPT ![s] = TRUE]
    /\ ntype' = [ntype EXCEPT ![s] = "CONNECT"]
    /\ ntoken' = [ntoken EXCEPT ![s] = k]
    /\ token' = [token EXCEPT ![s] = k]
    /\ ClearLocals(s)
    /\ UNCHANGED <<timeout, is_temp_token, ioVars>>

(* keep_alive after the echo: back to the message loop.                     *)
KeepAliveOk(s) ==
    /\ pc' = [pc EXCEPT ![s] = "hdr"]
    /\ ClearLocals(s)
    /\ UNCHANGED <<regVars, idVars, ioVars>>

(* The blocked send ends, the lock is released and the operation goes on or *)
(* the session is closed.                                                   *)
EndSend(s) ==
    /\ pc[s] = "send"
    /\ wlock' = [wlock EXCEPT ![target[s]] = None]
    /\ \/ op[s] = "login" /\ LoginOk(s, ver[s], token[s], {})
       \/ op[s] = "connect" /\ ConnectOk(s, mt[s])
       \/ op[s] = "kalive" /\ KeepAliveOk(s)
       \/ Close(s, {})
    /\ UNCHANGED <<allow, issued>>

-----------------------------------------------------------------------------
(* LOGIN.                                                                   *)

(* hev_fsh_session_login once the token is known: the allow list, then the  *)
(* eviction of a forwarder with the same token, then the TOKEN reply.       *)
Login(s, v, k) ==
    \/ /\ UseTokens /\ k \notin allow
       /\ pc' = [pc EXCEPT ![s] = "penalty"]
       /\ token' = [token EXCEPT ![s] = k]
       /\ UNCHANGED <<regVars, is_temp_token, ioVars, wlock, locVars>>
    \/ /\ UseTokens => k \in allow
       /\ \E E \in {{f} : f \in Find("FORWARD", k)}
                     \cup (IF Find("FORWARD", k) = {} THEN {{}} ELSE {}) :
            \/ ~SendMayBlock /\ LoginOk(s, v, k, E) /\ UNCHANGED wlock
            \/ ~SendMayBlock /\ Close(s, E) /\ UNCHANGED wlock
            \/ /\ BeginSend(s, s, "login")
               /\ type' = Upd(type, E, "CLOSED")
               /\ is_mgr' = Upd(is_mgr, E, FALSE)
               /\ timeout' = Upd(timeout, E, 0)
               /\ ntype' = Upd(ntype, E, "NONE")
               /\ ntoken' = Upd(ntoken, E, None)
               /\ token' = [token EXCEPT ![s] = k]
               /\ ver' = [ver EXCEPT ![s] = v]
               /\ UNCHANGED <<is_temp_token, ioVars, mt, sfd>>

(* Version 1 has no token: the server generates one.                        *)
RecvLoginV1(s) ==
    /\ pc[s] = "hdr" /\ type[s] = "NULL"
    /\ issued' = issued \cup {s}
    /\ Login(s, 1, s)
    /\ UNCHANGED allow

(* Mutant: the role is not tested.                                          *)
RecvLoginAnyRole(s, v) ==
    /\ pc[s] = "hdr"
    /\ RecvBody(s, "loginTok", v)

RecvLogin(s, v) ==
    /\ pc[s] = "hdr" /\ type[s] = "NULL"
    /\ RecvBody(s, "loginTok", v)

(* The client's token, or a generated one for the zero token.               *)
RecvLoginToken(s, k) ==
    /\ pc[s] = "loginTok"
    /\ IF k = None
       THEN issued' = issued \cup {s} /\ Login(s, ver[s], s)
       ELSE UNCHANGED issued /\ Login(s, ver[s], k)
    /\ UNCHANGED allow

-----------------------------------------------------------------------------
(* CONNECT.                                                                 *)

(* Mutant: the role is not tested.                                          *)
RecvConnectAnyRole(s) ==
    /\ pc[s] = "hdr"
    /\ RecvBody(s, "connTok", 0)

RecvConnect(s) ==
    /\ pc[s] = "hdr" /\ type[s] = "NULL"
    /\ RecvBody(s, "connTok", 0)

(* hev_fsh_session_connect with the token: no forwarder is a penalty; a     *)
(* forwarder with a temporary token is offered a fresh one.                 *)
RecvConnectToken(s, k) ==
    /\ pc[s] = "connTok"
    /\ \/ /\ Find("FORWARD", k) = {}
          /\ pc' = [pc EXCEPT ![s] = "penalty"]
          /\ UNCHANGED <<regVars, idVars, ioVars, wlock, locVars, issued>>
       \/ \E f \in Find("FORWARD", k) :
            LET key == IF is_temp_token[f] THEN s ELSE k IN
            /\ issued' = IF is_temp_token[f] THEN issued \cup {s} ELSE issued
            /\ \/ ~SendMayBlock /\ ConnectOk(s, key) /\ UNCHANGED wlock
               \/ ~SendMayBlock /\ Close(s, {}) /\ UNCHANGED wlock
               \/ /\ BeginSend(s, f, "connect")
                  /\ mt' = [mt EXCEPT ![s] = key]
                  /\ UNCHANGED <<regVars, idVars, ioVars, ver, sfd>>
    /\ UNCHANGED allow

(* hev_fsh_session_splice leaves its wait, woken by an accept or timed out, *)
(* and passes remote_fd by value.                                           *)
StartSplice(s) ==
    /\ pc[s] = "waitAccept"
    /\ pc' = [pc EXCEPT ![s] = "splice"]
    /\ sfd' = [sfd EXCEPT ![s] = remote_fd[s]]
    /\ UNCHANGED <<regVars, idVars, ioVars, wlock, ver, mt, op, target, allow,
                   issued>>

(* Both directions ended, or the splice timed out.                          *)
EndSplice(s) ==
    /\ pc[s] = "splice"
    /\ Close(s, {})
    /\ UNCHANGED <<wlock, allow, issued>>

-----------------------------------------------------------------------------
(* ACCEPT.                                                                  *)

(* No test of self->type: a forwarder's own session may send ACCEPT too.    *)
RecvAccept(s) ==
    /\ pc[s] = "hdr"
    /\ RecvBody(s, "accTok", 0)

(* Mutant: the handover stops after the descriptor is stored; the connector *)
(* keeps its key in the tree and the kernel wakes the old task.             *)
PairHalf(s, c, k) ==
    LET gone == IF is_mgr[s] THEN {s} ELSE {} IN
    /\ pc' = [pc EXCEPT ![s] = "freed"]
    /\ type' = [type EXCEPT ![c] = "SPLICE", ![s] = "NULL"]
    /\ ntype' = Upd(ntype, gone, "NONE")
    /\ ntoken' = Upd(ntoken, gone, None)
    /\ is_mgr' = [is_mgr EXCEPT ![s] = FALSE]
    /\ timeout' = [timeout EXCEPT ![s] = 1]
    /\ is_temp_token' = [is_temp_token EXCEPT ![s] = FALSE]
    /\ token' = [token EXCEPT ![s] = None]
    /\ remote_fd' = [remote_fd EXCEPT ![c] = client_fd[s], ![s] = None]
    /\ client_fd' = [client_fd EXCEPT ![s] = None]
    /\ mt' = [mt EXCEPT ![s] = k]
    /\ UNCHANGED <<open, poll, ver, op, target, sfd>>

(* The descriptor of acceptor s, which presented token k, moves to connector *)
(* c; s is closed without it.  mt[s] keeps k for PairedByToken to refer to.  *)
Pair(s, c, k) ==
    LET gone == IF is_mgr[s] THEN {s} ELSE {} IN
    /\ pc' = [pc EXCEPT ![s] = "freed"]
    /\ type' = [type EXCEPT ![c] = "SPLICE", ![s] = "NULL"]
    /\ ntype' = Upd([ntype EXCEPT ![c] = "SPLICE"], gone, "NONE")
    /\ ntoken' = Upd([ntoken EXCEPT ![c] = token[c]], gone, None)
    /\ is_mgr' = [is_mgr EXCEPT ![s] = FALSE]
    /\ timeout' = [timeout EXCEPT ![s] = 1]
    /\ is_temp_token' = [is_temp_token EXCEPT ![s] = FALSE]
    /\ token' = [token EXCEPT ![s] = None]
    /\ remote_fd' = [remote_fd EXCEPT ![c] = client_fd[s], ![s] = None]
    /\ client_fd' = [client_fd EXCEPT ![s] = None]
    /\ open' = open \ {remote_fd[s]}
    /\ poll' = [poll EXCEPT ![client_fd[s]] = c]
    /\ mt' = [mt EXCEPT ![s] = k]
    /\ UNCHANGED <<ver, op, target, sfd>>

(* hev_fsh_session_accept with the token, up to its first sleep.            *)
RecvAcceptToken(s, k) ==
    /\ pc[s] = "accTok"
    /\ \/ timeout[s] = 0 /\ Close(s, {})
       \/ timeout[s] # 0 /\ \E c \in Find("CONNECT", k) : Pair(s, c, k)
       \/ /\ timeout[s] # 0 /\ Find("CONNECT", k) = {}
          /\ pc' = [pc EXCEPT ![s] = "waitConnect"]
          /\ mt' = [mt EXCEPT ![s] = k]
          /\ UNCHANGED <<regVars, idVars, ioVars, ver, op, target, sfd>>
    /\ UNCHANGED <<wlock, allow, issued>>

(* The sleep ends early (an event on the acceptor's own descriptor, or the  *)
(* wakeup of an eviction) and the search is repeated.  A search that fails  *)
(* again changes nothing.                                                   *)
AcceptWake(s) ==
    /\ pc[s] = "waitConnect"
    /\ \E c \in Find("CONNECT", mt[s]) : Pair(s, c, mt[s])
    /\ UNCHANGED <<wlock, allow, issued>>

(* The sleep expires: the loop ends without another search.                 *)
AcceptTimeout(s) ==
    /\ pc[s] = "waitConnect"
    /\ Close(s, {})
    /\ UNCHANGED <<wlock, allow, issued>>

-----------------------------------------------------------------------------
(* KEEP_ALIVE: version 1 is ignored, later versions are echoed under the    *)
(* write lock.  Neither the first nor an echo that does not block changes    *)
(* the state.                                                               *)
RecvKeepAlive(s) ==
    /\ pc[s] = "hdr"
    /\ \/ ~SendMayBlock /\ Close(s, {}) /\ UNCHANGED wlock
       \/ /\ BeginSend(s, s, "kalive")
          /\ UNCHANGED <<regVars, idVars, ioVars, ver, mt, sfd>>
    /\ UNCHANGED <<allow, issued>>

(* The event task reloads the tokens file; sessions are not touched.        *)
ReloadTokens ==
    /\ UseTokens
    /\ allow' \in SUBSET ClientToken
    /\ UNCHANGED <<pc, regVars, idVars, ioVars, wlock, locVars, issued>>

-----------------------------------------------------------------------------
SessionStep(s) ==
    \/ AcceptClient(s) \/ AcceptDrop(s)
    \/ RecvFail(s) \/ BadCommand(s) \/ PenaltyEnd(s)
    \/ GetLock(s) \/ EndSend(s)
    \/ RecvLoginV1(s)
    \/ \E v \in {2, 3} : RecvLogin(s, v)
    \/ \E k \in Sendable \cup {None} : RecvLoginToken(s, k)
    \/ RecvConnect(s)
    \/ \E k \in Sendable : RecvConnectToken(s, k)
    \/ StartSplice(s) \/ EndSplice(s)
    \/ RecvAccept(s)
    \/ \E k \in Sendable : RecvAcceptToken(s, k)
    \/ AcceptWake(s) \/ AcceptTimeout(s)
    \/ RecvKeepAlive(s)

Next == (\E s \in Session : SessionStep(s)) \/ ReloadTokens

Spec == Init /\ [][Next]_vars

-----------------------------------------------------------------------------
(* Properties.                                                              *)

(* Type invariant of the session layer.                                     *)
TypeOK ==
    /\ pc \in [Session -> Label]
    /\ type \in [Session -> Type]
    /\ is_mgr \in [Session -> BOOLEAN]
    /\ is_temp_token \in [Session -> BOOLEAN]
    /\ token \in [Session -> Token \cup {None}]
    /\ timeout \in [Session -> {0, 1}]
    /\ client_fd \in [Session -> Session \cup {None}]
    /\ remote_fd \in [Session -> Session \cup {None}]
    /\ wlock \in [Session -> Session \cup {None}]
    /\ ntype \in [Session -> RegType \cup {"NONE"}]
    /\ ntoken \in [Session -> Token \cup {None}]
    /\ ver \in [Session -> 0..3]
    /\ mt \in [Session -> Token \cup {None}]
    /\ op \in [Session -> Op]
    /\ target \in [Session -> Session \cup {None}]
    /\ sfd \in [Session -> Session \cup {None}]
    /\ open \in SUBSET Session
    /\ poll \in [Session -> Session \cup {None}]
    /\ allow \in SUBSET ClientToken
    /\ issued \in SUBSET Session

(* The tree holds exactly the live sessions that close_session would erase  *)
(* (no dangling node, no double erase), each under the key its fields have  *)
(* now, so that a search finds it; and the sessions outside are those that  *)
(* have no role yet or were evicted.                                        *)
RegistryConsistent ==
    \A x \in Session :
        /\ is_mgr[x] <=> ntype[x] # "NONE"
        /\ is_mgr[x] <=> Live(x) /\ type[x] \in RegType
        /\ is_mgr[x] => ntype[x] = type[x] /\ ntoken[x] = token[x]

(* The descriptors session s will close.                                    *)
Held(s) == {client_fd[s], remote_fd[s]} \ {None}

(* Every open descriptor is held by exactly one session, in one field, and  *)
(* its events wake that session's task; nothing held is closed already.     *)
(* Across the handover in accept this excludes leaks, double closes and a   *)
(* splice that is never woken.                                              *)
FdOwnership ==
    /\ \A s \in Session :
          /\ Held(s) \subseteq open
          /\ \A f \in Held(s) : poll[f] = s
          /\ client_fd[s] = remote_fd[s] => client_fd[s] = None
    /\ \A f \in open : \E s \in Session : Live(s) /\ f \in Held(s)

(* While a session lives, a task in the middle of a frame on its connection *)
(* holds its write lock: frames of the keep-alive echo and of the connects  *)
(* that other tasks announce never interleave.                              *)
WireExclusive ==
    \A s, x \in Session :
        pc[s] = "send" /\ target[s] = x /\ Live(x) => wlock[x] = s

(* A connector is paired only with a descriptor whose client presented the  *)
(* connector's token in ACCEPT, and whose own session has ended.            *)
PairedByToken ==
    \A c \in Session :
        remote_fd[c] # None =>
            /\ type[c] = "SPLICE"
            /\ mt[remote_fd[c]] = token[c]
            /\ pc[remote_fd[c]] = "freed"

(* The server never has two forwarders under one token (a search would find *)
(* only one of them).  It holds when a TOKEN reply cannot block: login      *)
(* evicts before the reply and registers after it.                          *)
UniqueForwarder ==
    ~SendMayBlock =>
        \A x, y \in Session :
            /\ ntype[x] = "FORWARD" /\ ntype[y] = "FORWARD"
            /\ ntoken[x] = ntoken[y]
            => x = y

(* What one step may do to the role, the token and the peer of s.           *)
RoleStep(s) ==
    \/ pc'[s] = "freed"
    \/ /\ type'[s] # type[s] =>
             \/ type[s] = "NULL" /\ type'[s] \in {"FORWARD", "CONNECT"}
             \/ type[s] = "FORWARD" /\ type'[s] = "CLOSED"
             \/ type[s] = "CONNECT" /\ type'[s] = "SPLICE"
       /\ type[s] # "NULL" => token'[s] = token[s]
       /\ remote_fd[s] # None => remote_fd'[s] = remote_fd[s]

RolesStep == \A s \in Session : RoleStep(s)

(* A session's role only advances, NULL to FORWARD to CLOSED or NULL to     *)
(* CONNECT to SPLICE, and a registered session keeps its token: an evicted  *)
(* forwarder can neither log in again nor become a connector, and a paired  *)
(* connector keeps its peer until it ends.                                  *)
RoleOrder == [][RolesStep]_vars

-----------------------------------------------------------------------------
(* The inductive invariant behind the safety properties.                    *)

(* The role a session can have at each blocking call.                       *)
RoleAtLabel ==
    \A s \in Session :
        /\ pc[s] \in {"idle", "freed", "loginTok", "connTok", "penalty"}
               => type[s] = "NULL"
        /\ pc[s] \in {"hdr", "accTok", "waitConnect"}
               => type[s] \in {"NULL", "FORWARD", "CLOSED"}
        /\ pc[s] \in {"waitAccept", "splice"} => type[s] \in {"CONNECT", "SPLICE"}
        /\ pc[s] \in {"lock", "send"} =>
               \/ op[s] \in {"login", "connect"} /\ type[s] = "NULL"
               \/ op[s] = "kalive" /\ type[s] \in {"NULL", "FORWARD", "CLOSED"}

(* A live session holds its own descriptor; a descriptor that was handed    *)
(* over is known to the kernel as its new owner's.                          *)
FdInv ==
    /\ \A s \in Session : client_fd[s] = IF Live(s) THEN s ELSE None
    /\ \A s \in Session : Live(s) => s \in open /\ poll[s] = s
    /\ \A c \in Session : remote_fd[c] # None =>
          /\ Live(c) /\ type[c] = "SPLICE"
          /\ pc[remote_fd[c]] = "freed"
          /\ remote_fd[c] \in open /\ poll[remote_fd[c]] = c
    /\ \A f \in open : Live(f) \/ (poll[f] \in Session /\ remote_fd[poll[f]] = f)

(* A task that waits for a write lock, or sends, does so for a session that *)
(* exists or has existed, and nothing blocks when sends do not.             *)
SendInv ==
    \A s \in Session : pc[s] \in {"lock", "send"} =>
        SendMayBlock /\ target[s] \in Session /\ pc[target[s]] # "idle"

(* The conjunction is preserved by every step.                              *)
IInv ==
    /\ TypeOK /\ RegistryConsistent /\ RoleAtLabel /\ FdInv
    /\ PairedByToken /\ SendInv /\ WireExclusive /\ UniqueForwarder

-----------------------------------------------------------------------------
(* Fairness: timers fire and a woken task runs.  Nothing is assumed of a    *)
(* client; a receive must end only when the session's timeout is zero.      *)
Fairness ==
    \A s \in Session :
        /\ WF_vars(PenaltyEnd(s))
        /\ WF_vars(StartSplice(s))
        /\ WF_vars(AcceptTimeout(s))
        /\ WF_vars(timeout[s] = 0 /\ RecvFail(s))

FairSpec == Spec /\ Fairness

(* An evicted forwarder's session ends, whatever its client does: eviction  *)
(* zeroes the timeout and wakes the task, which is not in the tree any more *)
(* and would otherwise be unreachable.                                      *)
EvictedEnds == \A s \in Session : type[s] = "CLOSED" ~> pc[s] = "freed"

(* The comment "wait for accept" in hev_fsh_session_splice: a connector     *)
(* that was accepted is spliced to the descriptor it got.                   *)
AcceptedIsSpliced ==
    \A c \in Session :
        pc[c] = "splice" /\ remote_fd[c] # None => sfd[c] = remote_fd[c]

-----------------------------------------------------------------------------
(* The server implements Rendezvous: reg and wait are the two kinds of keys *)
(* in the tree, a connector's peer is the descriptor it was handed.         *)
R == INSTANCE Rendezvous WITH
        reg  <- {<<ntoken[x], x>> : x \in {y \in Session : ntype[y] = "FORWARD"}},
        wait <- {<<ntoken[x], x>> : x \in {y \in Session : ntype[y] = "CONNECT"}},
        peer <- remote_fd,
        gone <- {s \in Session : pc[s] = "freed"}

(* Seen through that mapping, every step of the server is a step the        *)
(* abstract rendezvous service allows, or is invisible to its clients.      *)
ImplementsRendezvous == R!Spec

=============================================================================
