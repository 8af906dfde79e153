-------------------------- MODULE FshClientProofs --------------------------
(***************************************************************************)
(* Proofs about FshClient, for any number of accept or connect tasks, any   *)
(* size of the descriptor table and any set of modes.                       *)
(***************************************************************************)
EXTENDS FshClient, TLAPS

(* Which task runs in which mode.                                           *)
MainAtLabel ==
    /\ mpc \in {"connect", "login", "token", "dispatch", "sleep"} => mode \in Forwarder
    /\ mpc \in {"accept", "exit"} => mode \in Listener

(* Which of a task's variables may hold a descriptor at which of its calls: *)
(* a quit closes exactly the ones that may.                                 *)
VarsAtLabel ==
    \A a \in Task :
        /\ anew[a] # NoFd => apc[a] = "connect"
        /\ afd[a] # NoFd => apc[a] \in {"send", "info", "local", "splice"}
        /\ lfd[a] # NoFd =>
             \/ mode \in Forwarder /\ apc[a] \in {"local", "splice"}
             \/ mode \in Listener /\ apc[a] \in {"start", "connect", "send", "splice"}
        /\ apc[a] \in {"info", "local"} => mode \in Forwarder

(* Until a failed reconnect closes a number it no longer owns, main's       *)
(* descriptor is main's, and a task's local end is not its server socket.   *)
CleanInv ==
    ~reclosed =>
        /\ mpc = "connect" => mnew \in Fd /\ own[mnew] = "main"
        /\ mpc \in {"login", "token", "dispatch", "accept"} =>
             base_fd \in Fd /\ own[base_fd] = "main"
        /\ \A a \in Task : anew[a] # NoFd => anew[a] # lfd[a]

ClientInv ==
    TypeOK /\ NoLeak /\ TaskOwnsFd /\ MainAtLabel /\ VarsAtLabel /\ CleanInv

-----------------------------------------------------------------------------
(* The first task starts with nothing open.                                 *)
LEMMA ClientInit == Init => ClientInv
<1> SUFFICES ASSUME Init PROVE ClientInv
    OBVIOUS
<1> USE ClientAssumption DEF Init
<1>0. NoFd \notin Fd
    BY DEF Fd, NoFd
<1>1. reclosed \in BOOLEAN
    BY Zenon
<1>2. TypeOK
    BY <1>1 DEF TypeOK, Owner, Direct, Listener
<1>3. NoLeak
    BY DEF NoLeak
<1>4. TaskOwnsFd
    BY <1>0 DEF TaskOwnsFd
<1>5. MainAtLabel /\ CleanInv
    BY DEF MainAtLabel, CleanInv
<1>6. VarsAtLabel
    BY DEF VarsAtLabel
<1> QED
    BY <1>2, <1>3, <1>4, <1>5, <1>6 DEF ClientInv

(* -1 is no descriptor.                                                     *)
LEMMA NoFdIsNone == NoFd \notin Fd
    BY DEF Fd, NoFd

(* The lowest free descriptor is one that nobody has open.                  *)
LEMMA LowestFree ==
    ASSUME NEW n, Lowest(n) PROVE n \in Fd /\ own[n] = "free"
    BY DEF Lowest, Free

(* restart closes main's socket, or a number that base.fd still holds from  *)
(* an earlier connection, and then reclosed is set.                         *)
LEMMA RestartInv ==
    ASSUME ClientInv, NEW fds, Restart(fds), mode \in Forwarder,
           \/ mpc = "connect" /\ fds = {mnew}
           \/ mpc \in {"start", "login", "token", "dispatch"} /\ fds = {}
    PROVE  ClientInv'
<1> USE ClientAssumption DEF ClientInv, Restart, Closed, taskVars
<1>1. reclosed' \in BOOLEAN
    BY Zenon
<1>2. own' \in [Fd -> Owner] /\ \A n \in Fd : own'[n] \in {own[n], "free"}
    BY DEF TypeOK, Owner
<1>3. TypeOK'
    BY <1>1, <1>2 DEF TypeOK
<1>4. NoLeak'
    <2>1. \A n \in Fd : own'[n] # "main"
        BY DEF NoLeak
    <2> QED
        BY <1>2, <2>1 DEF NoLeak
<1>5. ASSUME ~reclosed', NEW n \in Fd, n \in fds \cup {base_fd}
      PROVE  own[n] = "main"
    <2>1. ~reclosed /\ ~(mpc \in {"start", "connect"} /\ base_fd # NoFd)
        BY <1>5, Zenon
    <2>2. NoFd \notin Fd
        BY DEF Fd, NoFd
    <2> QED
        BY <1>5, <2>1, <2>2 DEF CleanInv
<1>6. TaskOwnsFd'
    <2> SUFFICES ASSUME ~reclosed', NEW a \in Task
                 PROVE  /\ \A n \in {anew[a], afd[a], lfd[a]} \cap Fd : own'[n] = a
                        /\ afd[a] # NoFd => afd[a] # lfd[a]
        BY DEF TaskOwnsFd
    <2> QED
        BY <1>5 DEF TaskOwnsFd
<1>7. MainAtLabel' /\ VarsAtLabel' /\ CleanInv'
    BY DEF MainAtLabel, VarsAtLabel, CleanInv
<1> QED
    BY <1>3, <1>4, <1>6, <1>7

(* A task that quits closes every descriptor that it may still have, and    *)
(* none that is another's.                                                  *)
LEMMA QuitInv ==
    ASSUME ClientInv, NEW a \in Task, NEW fds, Quit(a, fds), apc[a] # "idle",
           fds \subseteq {anew[a], lfd[a]},
           anew[a] \in fds \cup {NoFd},
           lfd[a] \in fds \cup {NoFd} \/ mode \in Listener
    PROVE  ClientInv'
<1> USE ClientAssumption DEF ClientInv, Quit, Closed, mainVars
<1>1. /\ own' \in [Fd -> Owner]
      /\ \A n \in Fd : own'[n] \in {own[n], "free"} /\ own'[n] # a
    <2>1. NoFd \notin Fd
        BY DEF Fd, NoFd
    <2> QED
        BY <2>1 DEF TypeOK, Owner, NoLeak
<1>2. TypeOK'
    BY <1>1 DEF TypeOK
<1>3. NoLeak'
    BY <1>1 DEF NoLeak, TypeOK
<1>4. ASSUME ~reclosed, NEW n \in Fd, own[n] # a PROVE own'[n] = own[n]
    BY <1>4 DEF TaskOwnsFd
<1>5. TaskOwnsFd'
    <2> SUFFICES ASSUME ~reclosed, NEW b \in Task
                 PROVE  /\ \A n \in {anew'[b], afd'[b], lfd'[b]} \cap Fd : own'[n] = b
                        /\ afd'[b] # NoFd => afd'[b] # lfd'[b]
        BY DEF TaskOwnsFd
    <2>1. CASE b = a
        BY <2>1 DEF TypeOK, Fd, NoFd
    <2>2. CASE b # a
        BY <1>4, <2>2 DEF TaskOwnsFd, TypeOK
    <2> QED
        BY <2>1, <2>2
<1>6. MainAtLabel' /\ VarsAtLabel'
    BY DEF MainAtLabel, VarsAtLabel, TypeOK
<1>7. CleanInv'
    BY <1>4 DEF CleanInv, TypeOK
<1> QED
    BY <1>2, <1>3, <1>5, <1>6, <1>7

-----------------------------------------------------------------------------
(* The steps of the forward and listen tasks.                               *)
LEMMA MainInv == ASSUME ClientInv, Main PROVE ClientInv'
<1> USE ClientAssumption DEF ClientInv
<1>1. CASE FwdSocket
    <2>1. ASSUME NEW n \in Fd, Lowest(n),
                 own' = [own EXCEPT ![n] = "main"], mpc' = "connect", mnew' = n,
                 UNCHANGED <<mode, base_fd, reclosed, taskVars, kalive>>
          PROVE  ClientInv'
        <3> USE <1>1, <2>1 DEF FwdSocket, taskVars
        <3>1. own[n] = "free" /\ mpc = "start" /\ mode \in Forwarder
            BY LowestFree
        <3>2. TypeOK'
            BY <3>1, NoFdIsNone DEF TypeOK, Owner
        <3>3. NoLeak'
            BY <3>1 DEF NoLeak, TypeOK
        <3>4. TaskOwnsFd'
            BY <3>1 DEF TaskOwnsFd, TypeOK
        <3>5. MainAtLabel' /\ VarsAtLabel' /\ CleanInv'
            BY <3>1 DEF MainAtLabel, VarsAtLabel, CleanInv, TypeOK
        <3> QED
            BY <3>2, <3>3, <3>4, <3>5
    <2>2. CASE Restart({})
        BY <1>1, <2>2, RestartInv DEF FwdSocket
    <2> QED
        BY <1>1, <2>1, <2>2 DEF FwdSocket
<1>2. CASE FwdConnect
    <2>1. mode \in Forwarder
        BY <1>2 DEF FwdConnect, MainAtLabel
    <2>2. CASE Restart({mnew})
        BY <1>2, <2>1, <2>2, RestartInv DEF FwdConnect
    <2>3. CASE /\ base_fd' = mnew /\ mnew' = NoFd /\ mpc' = "login"
               /\ UNCHANGED <<mode, own, reclosed, taskVars, kalive>>
        <3> USE <1>2, <2>3 DEF FwdConnect, taskVars
        <3>1. TypeOK' /\ TaskOwnsFd'
            BY DEF TypeOK, TaskOwnsFd
        <3>2. NoLeak'
            BY DEF NoLeak
        <3>3. MainAtLabel' /\ VarsAtLabel' /\ CleanInv'
            BY <2>1 DEF MainAtLabel, VarsAtLabel, CleanInv
        <3> QED
            BY <3>1, <3>2, <3>3
    <2> QED
        BY <1>2, <2>2, <2>3 DEF FwdConnect
<1>3. CASE FwdLogin \/ FwdLost
    <2>1. mode \in Forwarder /\ mpc \in {"login", "token", "dispatch"}
        BY <1>3 DEF FwdLogin, FwdLost, MainAtLabel
    <2>2. CASE Restart({})
        BY <2>1, <2>2, RestartInv
    <2>3. CASE ~Restart({})
        <3>1. /\ mpc' \in {"token", "dispatch"}
              /\ UNCHANGED <<mode, own, mnew, base_fd, reclosed, taskVars, kalive>>
            BY <1>3, <2>3 DEF FwdLogin, FwdLost
        <3> QED
            BY <2>1, <3>1 DEF taskVars, TypeOK, NoLeak, TaskOwnsFd, MainAtLabel,
                              VarsAtLabel, CleanInv
    <2> QED
        BY <2>2, <2>3
<1>4. CASE FwdWake
    BY <1>4 DEF FwdWake, taskVars, TypeOK, NoLeak, TaskOwnsFd, MainAtLabel,
                VarsAtLabel, CleanInv
<1>5. CASE Listen
    <2> USE <1>5 DEF Listen, taskVars
    <2>1. ASSUME NEW n \in Fd, Lowest(n), own' = [own EXCEPT ![n] = "main"],
                 mpc' = "accept", base_fd' = n
          PROVE  ClientInv'
        <3> USE <2>1
        <3>1. own[n] = "free" /\ mpc = "start" /\ mode \in Listener
            BY LowestFree
        <3>2. TypeOK'
            BY <3>1, NoFdIsNone DEF TypeOK, Owner
        <3>3. NoLeak'
            BY <3>1 DEF NoLeak, TypeOK
        <3>4. TaskOwnsFd'
            BY <3>1 DEF TaskOwnsFd, TypeOK
        <3>5. MainAtLabel' /\ VarsAtLabel' /\ CleanInv'
            BY <3>1 DEF MainAtLabel, VarsAtLabel, CleanInv, TypeOK
        <3> QED
            BY <3>2, <3>3, <3>4, <3>5
    <2>2. CASE mpc' = "exit" /\ UNCHANGED <<own, base_fd>>
        BY <2>2 DEF TypeOK, NoLeak, TaskOwnsFd, MainAtLabel, VarsAtLabel, CleanInv
    <2> QED
        BY <2>1, <2>2
<1> QED
    BY <1>1, <1>2, <1>3, <1>4, <1>5 DEF Main

(* A task opens a descriptor that nobody has and puts it where its label    *)
(* says.                                                                    *)
LEMMA OpenInv ==
    ASSUME ClientInv, NEW a \in Task, NEW n \in Fd, Lowest(n), NEW label,
           own' = [own EXCEPT ![n] = a], apc' = [apc EXCEPT ![a] = label],
           UNCHANGED <<mode, mainVars, afd, kalive>>,
           \/ /\ apc[a] = "start" /\ label = "connect"
              /\ anew' = [anew EXCEPT ![a] = n] /\ lfd' = lfd
           \/ /\ lfd' = [lfd EXCEPT ![a] = n] /\ anew' = anew
              /\ \/ apc[a] = "idle" /\ label = "start" /\ mode \in Listener
                 \/ apc[a] = "info" /\ label \in {"local", "splice"}
    PROVE  ClientInv'
<1> USE ClientAssumption DEF ClientInv, mainVars
<1>1. own[n] = "free"
    BY LowestFree
<1>2. NoFd \notin Fd
    BY DEF Fd, NoFd
<1>3. anew[a] = NoFd /\ (lfd' # lfd => lfd[a] = NoFd)
    BY DEF VarsAtLabel, Forwarder, Listener
<1>4. TypeOK'
    BY <1>2 DEF TypeOK, Owner
<1>5. NoLeak'
    <2> SUFFICES ASSUME NEW m \in Fd, m # n
                 PROVE  /\ own[m] = "main" =>
                             \/ mpc = "connect" /\ mnew = m
                             \/ /\ mpc \in {"login", "token", "dispatch", "accept"}
                                /\ base_fd = m
                        /\ \A b \in Task :
                             own[m] = b => m \in {anew'[b], afd'[b], lfd'[b]}
        BY DEF NoLeak, TypeOK
    <2> QED
        BY <1>2, <1>3 DEF NoLeak, TypeOK
<1>6. ASSUME ~reclosed
      PROVE  \A b \in Task : n \notin {anew[b], afd[b], lfd[b]}
    BY <1>1, <1>6 DEF TaskOwnsFd
<1>7. TaskOwnsFd'
    <2> SUFFICES ASSUME ~reclosed, NEW b \in Task
                 PROVE  /\ \A m \in {anew'[b], afd'[b], lfd'[b]} \cap Fd : own'[m] = b
                        /\ afd'[b] # NoFd => afd'[b] # lfd'[b]
        BY DEF TaskOwnsFd
    <2>1. CASE b = a
        BY <1>6, <2>1 DEF TaskOwnsFd, TypeOK
    <2>2. CASE b # a
        BY <1>6, <2>2 DEF TaskOwnsFd, TypeOK
    <2> QED
        BY <2>1, <2>2
<1>8. MainAtLabel' /\ VarsAtLabel'
    BY DEF MainAtLabel, VarsAtLabel, TypeOK
<1>9. CleanInv'
    BY <1>1, <1>3, <1>6 DEF CleanInv, TypeOK
<1> QED
    BY <1>4, <1>5, <1>7, <1>8, <1>9

(* A task that passes to another call with what it has.                     *)
LEMMA LabelInv ==
    ASSUME ClientInv, NEW a \in Task, NEW label,
           apc' = [apc EXCEPT ![a] = label],
           UNCHANGED <<mode, own, mainVars, anew, afd, lfd, kalive>>,
           \/ apc[a] = "idle" /\ label = "start" /\ mode \notin Listener
           \/ apc[a] = "send" /\ label = "splice" /\ mode \notin Forwarder
           \/ apc[a] = "send" /\ label = "info" /\ mode \in Forwarder
           \/ apc[a] = "local" /\ label = "splice"
    PROVE  ClientInv'
<1> USE ClientAssumption DEF ClientInv, mainVars
<1>1. NoLeak' /\ TaskOwnsFd' /\ MainAtLabel' /\ CleanInv'
    BY DEF NoLeak, TaskOwnsFd, MainAtLabel, CleanInv
<1>2. VarsAtLabel'
    BY DEF VarsAtLabel, TypeOK, Forwarder, Listener
<1>3. TypeOK'
    BY DEF TypeOK, Forwarder, Listener, Direct
<1> QED
    BY <1>1, <1>2, <1>3

(* A task that moves its descriptor from one of its variables to another:   *)
(* a connect that succeeded, and the hand-over to the socks5 server.        *)
LEMMA MoveInv ==
    ASSUME ClientInv, NEW a \in Task, NEW label,
           apc' = [apc EXCEPT ![a] = label],
           UNCHANGED <<mode, own, mainVars, kalive>>,
           \/ /\ apc[a] = "connect" /\ label = "send"
              /\ afd' = [afd EXCEPT ![a] = anew[a]]
              /\ anew' = [anew EXCEPT ![a] = NoFd] /\ lfd' = lfd
           \/ /\ apc[a] = "send" /\ label = "splice" /\ mode = "fsock"
              /\ lfd' = [lfd EXCEPT ![a] = afd[a]]
              /\ afd' = [afd EXCEPT ![a] = NoFd] /\ anew' = anew
    PROVE  ClientInv'
<1> USE ClientAssumption DEF ClientInv, mainVars
<1>1. NoFd \notin Fd
    BY DEF Fd, NoFd
<1>2. \/ afd[a] = NoFd /\ afd'[a] = anew[a] /\ anew'[a] = NoFd /\ lfd'[a] = lfd[a]
      \/ /\ lfd[a] = NoFd /\ lfd'[a] = afd[a] /\ afd'[a] = NoFd /\ anew'[a] = anew[a]
    BY DEF VarsAtLabel, TypeOK, Forwarder, Listener
<1>3. \A b \in Task : b # a =>
        afd'[b] = afd[b] /\ anew'[b] = anew[b] /\ lfd'[b] = lfd[b] /\ apc'[b] = apc[b]
    BY DEF TypeOK
<1>4. TypeOK' /\ MainAtLabel'
    BY DEF TypeOK, MainAtLabel
<1>5. NoLeak'
    BY <1>1, <1>2, <1>3 DEF NoLeak
<1>6. TaskOwnsFd'
    <2> SUFFICES ASSUME ~reclosed, NEW b \in Task
                 PROVE  /\ \A n \in {anew'[b], afd'[b], lfd'[b]} \cap Fd : own[n] = b
                        /\ afd'[b] # NoFd => afd'[b] # lfd'[b]
        BY DEF TaskOwnsFd
    <2>1. CASE b = a
        BY <1>1, <1>2, <2>1 DEF TaskOwnsFd, CleanInv
    <2>2. CASE b # a
        BY <1>3, <2>2 DEF TaskOwnsFd
    <2> QED
        BY <2>1, <2>2
<1>7. VarsAtLabel'
    BY DEF VarsAtLabel, TypeOK, Forwarder, Listener
<1>8. CleanInv'
    BY <1>2, <1>3, <1>7 DEF CleanInv, VarsAtLabel, TypeOK
<1> QED
    BY <1>4, <1>5, <1>6, <1>7, <1>8

(* The steps of an accept or a connect task, and the ones that start it.    *)
LEMMA TaskInv ==
    ASSUME ClientInv, NEW a \in Task, FwdDispatch(a) \/ ListenDispatch(a) \/ TaskStep(a)
    PROVE  ClientInv'
<1>0. /\ anew[a] # NoFd => apc[a] = "connect"
      /\ lfd[a] # NoFd => mode \in Listener \/ apc[a] \in {"local", "splice"}
      /\ lfd[a] # NoFd => mode \in Listener \/ mode \in Forwarder
    BY DEF ClientInv, VarsAtLabel
<1>1. CASE FwdDispatch(a)
    BY <1>1, LabelInv DEF FwdDispatch, ClientInv, MainAtLabel, Forwarder, Listener
<1>2. CASE ListenDispatch(a)
    <2>1. mode \in Listener
        BY <1>2 DEF ListenDispatch, ClientInv, MainAtLabel
    <2> QED
        BY <1>2, <2>1, OpenInv DEF ListenDispatch
<1>3. CASE TaskSocket(a)
    <2>1. CASE Quit(a, {})
        BY <1>0, <1>3, <2>1, QuitInv DEF TaskSocket
    <2> QED
        BY <1>3, <2>1, OpenInv DEF TaskSocket
<1>4. CASE TaskConnect(a)
    <2>1. CASE Quit(a, {anew[a]})
        BY <1>0, <1>4, <2>1, QuitInv DEF TaskConnect
    <2> QED
        BY <1>4, <2>1, MoveInv DEF TaskConnect
<1>5. CASE ConnectPort(a) \/ ConnectSock(a) \/ ConnectTerm(a)
    <2>1. ConnectSend(a) /\ mode \notin Forwarder
        BY <1>5 DEF ConnectPort, ConnectSock, ConnectTerm, Forwarder
    <2>2. CASE Quit(a, {})
        BY <1>0, <2>1, <2>2, QuitInv DEF ConnectSend
    <2> QED
        BY <2>1, <2>2, LabelInv DEF ConnectSend
<1>6. CASE AcceptSend(a)
    <2>1. CASE Quit(a, {})
        BY <1>0, <1>6, <2>1, QuitInv DEF AcceptSend
    <2> QED
        BY <1>6, <2>1, LabelInv DEF AcceptSend, Forwarder
<1>7. CASE AcceptSock(a)
    <2>1. CASE Quit(a, {})
        BY <1>0, <1>7, <2>1, QuitInv DEF AcceptSock
    <2> QED
        BY <1>7, <2>1, MoveInv DEF AcceptSock
<1>8. CASE AcceptPort(a) \/ AcceptTerm(a)
    <2>1. CASE Quit(a, {})
        BY <1>0, <1>8, <2>1, QuitInv DEF AcceptPort, AcceptTerm
    <2>2. ASSUME NEW n \in Fd, NEW label \in {"local", "splice"}, OpenLocal(a, n, label)
          PROVE  ClientInv'
        BY <1>8, <2>2, OpenInv DEF AcceptPort, AcceptTerm, OpenLocal
    <2> QED
        BY <1>8, <2>1, <2>2 DEF AcceptPort, AcceptTerm
<1>9. CASE LocalConnect(a)
    <2>1. CASE Quit(a, {lfd[a]})
        BY <1>0, <1>9, <2>1, QuitInv DEF LocalConnect
    <2> QED
        BY <1>9, <2>1, LabelInv DEF LocalConnect
<1>10. CASE TaskEnd(a)
    <2>1. CASE mode \in Forwarder
        BY <1>0, <1>10, <2>1, QuitInv DEF TaskEnd
    <2>2. CASE mode \notin Forwarder
        BY <1>0, <1>10, <2>2, QuitInv DEF TaskEnd
    <2> QED
        BY <2>1, <2>2
<1> QED
    BY <1>1, <1>2, <1>3, <1>4, <1>5, <1>6, <1>7, <1>8, <1>9, <1>10 DEF TaskStep

(* Every step of the process keeps the invariant.                           *)
LEMMA ClientNext == ClientInv /\ [Next]_vars => ClientInv'
<1> SUFFICES ASSUME ClientInv, [Next]_vars PROVE ClientInv'
    OBVIOUS
<1>1. CASE Main
    BY <1>1, MainInv
<1>2. CASE KeepAlive
    BY <1>2 DEF KeepAlive, mainVars, taskVars, ClientInv, TypeOK, NoLeak,
                TaskOwnsFd, MainAtLabel, VarsAtLabel, CleanInv
<1>3. ASSUME NEW a \in Task, FwdDispatch(a) \/ ListenDispatch(a) \/ TaskStep(a)
      PROVE  ClientInv'
    BY <1>3, TaskInv
<1>4. CASE UNCHANGED vars
    BY <1>4 DEF vars, mainVars, taskVars, ClientInv, TypeOK, NoLeak, TaskOwnsFd,
                MainAtLabel, VarsAtLabel, CleanInv
<1> QED
    BY <1>1, <1>2, <1>3, <1>4 DEF Next

(* The variables of the client process keep their types.                    *)
THEOREM ClientTypeCorrect == Spec => []TypeOK
<1>1. ClientInv => TypeOK
    BY DEF ClientInv
<1> QED
    BY <1>1, ClientInit, ClientNext, PTL DEF Spec

(* No path through restarts, failures and quits leaks a descriptor, in any  *)
(* mode and even after a restart closed a number that was not its own.      *)
THEOREM ClientNeverLeaks == Spec => []NoLeak
<1>1. ClientInv => NoLeak
    BY DEF ClientInv
<1> QED
    BY <1>1, ClientInit, ClientNext, PTL DEF Spec

(* Until a reconnect of the forward task fails, every descriptor that a     *)
(* task works with is still the one it opened: nobody's close hit it.       *)
THEOREM ClientTasksOwnFds == Spec => []TaskOwnsFd
<1>1. ClientInv => TaskOwnsFd
    BY DEF ClientInv
<1> QED
    BY <1>1, ClientInit, ClientNext, PTL DEF Spec

=============================================================================
