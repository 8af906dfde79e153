----------------------------- MODULE FshClient -----------------------------
(***************************************************************************)
(* A client process in any of its modes.  A forwarder runs the forward task *)
(* and its keep-alive task (hev-fsh-client-forward.c), which start an       *)
(* accept task for every CONNECT message (hev-fsh-client-accept.c and its   *)
(* port, socks and terminal variants).  A connector runs a listen task      *)
(* (hev-fsh-client-listen.c) that starts a connect task for every local     *)
(* connection, or one connect task on the terminal or the standard streams  *)
(* (hev-fsh-client-connect.c and its variants).  All share the descriptor   *)
(* handling of hev-fsh-client-base.c.                                       *)
(*                                                                         *)
(* The model follows descriptors: who opened each number, which variables   *)
(* still name it, and who closes it.  Messages, encryption and splicing are *)
(* a success or a failure of the step that waits for them.  As in POSIX a   *)
(* new descriptor is the lowest free number, so a closed number is reused   *)
(* at once.  The standard streams are never closed and are left out.        *)
(***************************************************************************)
EXTENDS Integers

CONSTANTS
    Task,       \* accept or connect tasks, each started once
    MaxFd,      \* descriptors are 0 .. MaxFd - 1
    Modes       \* the modes the process may be started in

Forwarder == {"fterm", "fport", "fsock"}
Listener  == {"cport", "csock"}
Direct    == {"cterm", "cstdio"}    \* cstdio: a port connector on stdin/stdout

ASSUME ClientAssumption ==
    /\ MaxFd \in Nat \ {0}
    /\ Modes \subseteq Forwarder \cup Listener \cup Direct
    /\ "main" \notin Task /\ "free" \notin Task

Fd == 0 .. MaxFd - 1
NoFd == -1

VARIABLES
    mode,       \* the configured mode
    own,        \* kernel: who opened each descriptor that is open
    mpc,        \* the blocking call of the forward or listen task ("main")
    mnew,       \* its socket while hev_fsh_client_base_connect waits
    base_fd,    \* its object's base.fd
    reclosed,   \* history: a failed reconnect closed base.fd a second time
    apc,        \* the accept or connect tasks' blocking calls
    anew,       \* their sockets while connect waits
    afd,        \* their base.fd
    lfd,        \* their local socket or pty
    kalive      \* history: who had opened what the last keep-alive went to

mainVars == <<mpc, mnew, base_fd, reclosed>>
taskVars == <<apc, anew, afd, lfd>>
vars == <<mode, own, mainVars, taskVars, kalive>>

(* The first task of each mode; objects are made with base.fd = -1.         *)
Init ==
    /\ mode \in Modes
    /\ own = [n \in Fd |-> "free"]
    /\ mpc = IF mode \in Direct THEN "none" ELSE "start"
    /\ mnew = NoFd /\ base_fd = NoFd /\ reclosed = FALSE
    /\ \E first \in Task :
         apc = [a \in Task |-> IF mode \in Direct /\ a = first THEN "start" ELSE "idle"]
    /\ anew = [a \in Task |-> NoFd]
    /\ afd = [a \in Task |-> NoFd]
    /\ lfd = [a \in Task |-> NoFd]
    /\ kalive = "free"

Free == {n \in Fd : own[n] = "free"}
Lowest(n) == n \in Free /\ \A m \in Free : n =< m

(* hev_task_io_close on each member of fds, whoever opened it; -1 and a     *)
(* number that is not open are ignored by the kernel.                       *)
Closed(o, fds) == [n \in Fd |-> IF n \in fds THEN "free" ELSE o[n]]

-----------------------------------------------------------------------------
(* The forward task.                                                        *)

(* restart: base.fd is closed whatever it names and keeps its value.        *)
Restart(fds) ==
    /\ own' = Closed(own, fds \cup {base_fd})
    /\ mpc' = "sleep" /\ mnew' = NoFd
    /\ reclosed' = (reclosed \/ (mpc \in {"start", "connect"} /\ base_fd # NoFd))
    /\ UNCHANGED <<mode, base_fd, taskVars, kalive>>

(* The server's address is looked up and a socket opened, or neither.       *)
FwdSocket ==
    /\ mode \in Forwarder /\ mpc = "start"
    /\ \/ \E n \in Fd :
            /\ Lowest(n)
            /\ own' = [own EXCEPT ![n] = "main"]
            /\ mpc' = "connect" /\ mnew' = n
            /\ UNCHANGED <<mode, base_fd, reclosed, taskVars, kalive>>
       \/ Restart({})

(* The connect ends; only a success stores the descriptor.                  *)
FwdConnect ==
    /\ mpc = "connect"
    /\ \/ /\ base_fd' = mnew /\ mnew' = NoFd /\ mpc' = "login"
          /\ UNCHANGED <<mode, own, reclosed, taskVars, kalive>>
       \/ Restart({mnew})

(* write_login, then read_token.                                            *)
FwdLogin ==
    /\ mpc \in {"login", "token"}
    /\ \/ /\ mpc' = IF mpc = "login" THEN "token" ELSE "dispatch"
          /\ UNCHANGED <<mode, own, mnew, base_fd, reclosed, taskVars, kalive>>
       \/ Restart({})

(* dispatch: a CONNECT message starts an accept task.                       *)
FwdDispatch(a) ==
    /\ mpc = "dispatch" /\ apc[a] = "idle"
    /\ apc' = [apc EXCEPT ![a] = "start"]
    /\ UNCHANGED <<mode, own, mainVars, anew, afd, lfd, kalive>>

(* The connection ended or sent something else.                             *)
FwdLost == mpc = "dispatch" /\ Restart({})

(* Mutant: the descriptor is closed once more before the reconnect.         *)
FwdWakeCloses ==
    /\ mpc = "sleep" /\ mpc' = "start"
    /\ own' = Closed(own, {base_fd})
    /\ UNCHANGED <<mode, mnew, base_fd, reclosed, taskVars, kalive>>

FwdWake ==
    /\ mpc = "sleep" /\ mpc' = "start"
    /\ UNCHANGED <<mode, own, mnew, base_fd, reclosed, taskVars, kalive>>

(* The keep-alive task's timer: it sends on base.fd, whatever that names.   *)
KeepAlive ==
    /\ mode \in Forwarder
    /\ base_fd \in Fd /\ own[base_fd] # "free"
    /\ kalive' = own[base_fd]
    /\ UNCHANGED <<mode, own, mainVars, taskVars>>

-----------------------------------------------------------------------------
(* The listen task.                                                         *)

(* hev_fsh_client_base_listen; a failure closes what it opened and the      *)
(* listen object goes.                                                      *)
Listen ==
    /\ mode \in Listener /\ mpc = "start"
    /\ \/ \E n \in Fd :
            /\ Lowest(n)
            /\ own' = [own EXCEPT ![n] = "main"]
            /\ mpc' = "accept" /\ base_fd' = n
       \/ mpc' = "exit" /\ UNCHANGED <<own, base_fd>>
    /\ UNCHANGED <<mode, mnew, reclosed, taskVars, kalive>>

(* A local connection gets a connect task (without memory for one it is     *)
(* closed again, which changes nothing).                                    *)
ListenDispatch(a) ==
    /\ mpc = "accept" /\ apc[a] = "idle"
    /\ \E n \in Fd :
         /\ Lowest(n)
         /\ own' = [own EXCEPT ![n] = a]
         /\ lfd' = [lfd EXCEPT ![a] = n]
    /\ apc' = [apc EXCEPT ![a] = "start"]
    /\ UNCHANGED <<mode, mainVars, anew, afd, kalive>>

-----------------------------------------------------------------------------
(* What accept and connect tasks share.                                     *)

(* Mutant: the destructor does not close base.fd.                           *)
QuitLeaks(a, fds) ==
    /\ own' = Closed(own, fds)
    /\ apc' = [apc EXCEPT ![a] = "done"]
    /\ anew' = [anew EXCEPT ![a] = NoFd]
    /\ afd' = [afd EXCEPT ![a] = NoFd]
    /\ lfd' = [lfd EXCEPT ![a] = NoFd]
    /\ UNCHANGED <<mode, mainVars, kalive>>

(* The task closes fds and releases its object, whose destructor closes     *)
(* base.fd, and for a connect task the local socket it was given.           *)
Quit(a, fds) ==
    /\ own' = Closed(own, fds \cup {afd[a]}
                              \cup (IF mode \in Listener THEN {lfd[a]} ELSE {}))
    /\ apc' = [apc EXCEPT ![a] = "done"]
    /\ anew' = [anew EXCEPT ![a] = NoFd]
    /\ afd' = [afd EXCEPT ![a] = NoFd]
    /\ lfd' = [lfd EXCEPT ![a] = NoFd]
    /\ UNCHANGED <<mode, mainVars, kalive>>

TaskSocket(a) ==
    /\ apc[a] = "start"
    /\ \/ \E n \in Fd :
            /\ Lowest(n)
            /\ own' = [own EXCEPT ![n] = a]
            /\ anew' = [anew EXCEPT ![a] = n]
            /\ apc' = [apc EXCEPT ![a] = "connect"]
            /\ UNCHANGED <<mode, mainVars, afd, lfd, kalive>>
       \/ Quit(a, {})

(* Mutant: the task does not look at connect's result.                      *)
TaskConnectUnchecked(a) ==
    /\ apc[a] = "connect"
    /\ \/ afd' = [afd EXCEPT ![a] = anew[a]] /\ UNCHANGED own
       \/ own' = Closed(own, {anew[a]}) /\ UNCHANGED afd
    /\ anew' = [anew EXCEPT ![a] = NoFd]
    /\ apc' = [apc EXCEPT ![a] = "send"]
    /\ UNCHANGED <<mode, mainVars, lfd, kalive>>

TaskConnect(a) ==
    /\ apc[a] = "connect"
    /\ \/ /\ afd' = [afd EXCEPT ![a] = anew[a]]
          /\ anew' = [anew EXCEPT ![a] = NoFd]
          /\ apc' = [apc EXCEPT ![a] = "send"]
          /\ UNCHANGED <<mode, own, mainVars, lfd, kalive>>
       \/ Quit(a, {anew[a]})

-----------------------------------------------------------------------------
(* Connect tasks.                                                           *)

(* The CONNECT message and the key exchange, with what the mode adds to     *)
(* them, then the splice; a failure of any of it ends the task.             *)
ConnectSend(a) ==
    /\ apc[a] = "send"
    /\ \/ /\ apc' = [apc EXCEPT ![a] = "splice"]
          /\ UNCHANGED <<mode, own, mainVars, anew, afd, lfd, kalive>>
       \/ Quit(a, {})

(* The port data, and the local socket or the standard streams set up.      *)
ConnectPort(a) == mode \in {"cport", "cstdio"} /\ ConnectSend(a)

ConnectSock(a) == mode = "csock" /\ ConnectSend(a)

(* The terminal size, and the terminal in raw mode.                         *)
ConnectTerm(a) == mode = "cterm" /\ ConnectSend(a)

-----------------------------------------------------------------------------
(* Accept tasks.                                                            *)

(* The ACCEPT message and the key exchange.                                 *)
AcceptSend(a) ==
    /\ apc[a] = "send" /\ mode \in {"fterm", "fport"}
    /\ \/ /\ apc' = [apc EXCEPT ![a] = "info"]
          /\ UNCHANGED <<mode, own, mainVars, anew, afd, lfd, kalive>>
       \/ Quit(a, {})

(* The same in socks mode: the descriptor then belongs to the socks5 server *)
(* and base.fd is -1.                                                       *)
AcceptSock(a) ==
    /\ apc[a] = "send" /\ mode = "fsock"
    /\ \/ /\ apc' = [apc EXCEPT ![a] = "splice"]
          /\ lfd' = [lfd EXCEPT ![a] = afd[a]]
          /\ afd' = [afd EXCEPT ![a] = NoFd]
          /\ UNCHANGED <<mode, own, mainVars, anew, kalive>>
       \/ Quit(a, {})

(* The descriptor n becomes a's local end and a waits in label.             *)
OpenLocal(a, n, label) ==
    /\ Lowest(n)
    /\ own' = [own EXCEPT ![n] = a]
    /\ lfd' = [lfd EXCEPT ![a] = n]
    /\ apc' = [apc EXCEPT ![a] = label]
    /\ UNCHANGED <<mode, mainVars, anew, afd, kalive>>

(* The connector's port arrived: the address is refused, or the local       *)
(* socket is opened and connected.                                          *)
AcceptPort(a) ==
    /\ apc[a] = "info" /\ mode = "fport"
    /\ (\E n \in Fd : OpenLocal(a, n, "local")) \/ Quit(a, {})

(* The terminal size arrived: a shell on a new pty, or none.                *)
AcceptTerm(a) ==
    /\ apc[a] = "info" /\ mode = "fterm"
    /\ (\E n \in Fd : OpenLocal(a, n, "splice")) \/ Quit(a, {})

(* The connect to the local service ends.                                   *)
LocalConnect(a) ==
    /\ apc[a] = "local"
    /\ \/ /\ apc' = [apc EXCEPT ![a] = "splice"]
          /\ UNCHANGED <<mode, own, mainVars, anew, afd, lfd, kalive>>
       \/ Quit(a, {lfd[a]})

(* The splice or the socks5 session ends.                                   *)
TaskEnd(a) ==
    /\ apc[a] = "splice"
    /\ Quit(a, IF mode \in Forwarder THEN {lfd[a]} ELSE {})

-----------------------------------------------------------------------------
Main == FwdSocket \/ FwdConnect \/ FwdLogin \/ FwdLost \/ FwdWake \/ Listen

TaskStep(a) ==
    \/ TaskSocket(a) \/ TaskConnect(a)
    \/ ConnectPort(a) \/ ConnectSock(a) \/ ConnectTerm(a)
    \/ AcceptSend(a) \/ AcceptSock(a) \/ AcceptPort(a) \/ AcceptTerm(a)
    \/ LocalConnect(a) \/ TaskEnd(a)

Next ==
    \/ Main \/ KeepAlive
    \/ \E a \in Task : FwdDispatch(a) \/ ListenDispatch(a) \/ TaskStep(a)

Spec == Init /\ [][Next]_vars

-----------------------------------------------------------------------------
Owner == Task \cup {"main", "free"}

(* Type invariant of the client process.  Its last part: nobody gets to a   *)
(* call without the descriptor that the call works on, whatever failed on   *)
(* the way; -1 is never sent on, received from, spliced or handed over.     *)
TypeOK ==
    /\ mode \in Modes
    /\ own \in [Fd -> Owner]
    /\ mpc \in {"none", "start", "connect", "login", "token", "dispatch",
                "sleep", "accept", "exit"}
    /\ mnew \in Fd \cup {NoFd} /\ base_fd \in Fd \cup {NoFd}
    /\ reclosed \in BOOLEAN
    /\ apc \in [Task -> {"idle", "start", "connect", "send", "info", "local",
                         "splice", "done"}]
    /\ anew \in [Task -> Fd \cup {NoFd}]
    /\ afd \in [Task -> Fd \cup {NoFd}]
    /\ lfd \in [Task -> Fd \cup {NoFd}]
    /\ kalive \in Owner
    /\ mpc = "connect" => mnew # NoFd
    /\ mpc \in {"login", "token", "dispatch", "accept"} => base_fd # NoFd
    /\ \A a \in Task :
         /\ apc[a] = "connect" => anew[a] # NoFd
         /\ apc[a] \in {"send", "info", "local"} => afd[a] # NoFd
         /\ apc[a] = "splice" => afd[a] # NoFd \/ mode = "fsock"
         /\ apc[a] = "local" \/ (apc[a] = "splice" /\ mode \notin Direct) => lfd[a] # NoFd
         /\ apc[a] \in {"start", "connect", "send"} /\ mode \in Listener => lfd[a] # NoFd

(* No leak on any path through restarts, failures and quits, in any mode:   *)
(* whoever opened a descriptor that is open still has it in a variable that *)
(* its remaining steps close.                                               *)
NoLeak ==
    \A n \in Fd :
        /\ own[n] = "main" =>
             \/ mpc = "connect" /\ mnew = n
             \/ mpc \in {"login", "token", "dispatch", "accept"} /\ base_fd = n
        /\ \A a \in Task : own[n] = a => n \in {anew[a], afd[a], lfd[a]}

(* Every descriptor a task works with is still the one it opened, and is in *)
(* one of its variables only, so that nobody's close hits another task's    *)
(* connection -- as long as no reconnect of the forward task has failed.    *)
TaskOwnsFd ==
    ~reclosed => \A a \in Task :
        /\ \A n \in {anew[a], afd[a], lfd[a]} \cap Fd : own[n] = a
        /\ afd[a] # NoFd => afd[a] # lfd[a]

(* The comment in hev-fsh-client-sock-accept.c that the socks5 server owns  *)
(* the socket from there on: nobody else closes it or writes to it.         *)
SocksOwnsSocket ==
    \A a \in Task : mode = "fsock" /\ apc[a] = "splice" =>
        own[lfd[a]] = a /\ kalive # a

=============================================================================
