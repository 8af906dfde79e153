--------------------------- MODULE BridgeProofs ---------------------------
(***************************************************************************)
(* Proofs about Bridge, for any number of bytes typed by the remote user.   *)
(***************************************************************************)
EXTENDS Bridge, SequenceTheorems, TLAPS

IsOpen(H)  == \A x \in H : h[x] = "open"
NotOpen(H) == \A x \in H : h[x] # "open"

(* The labels before, within and after hev_bridge_new.                      *)
StartLabel  == {"alloc", "pipe", "pty", "attr", "proc", "dup", "waiter", "closePty"}
BridgeLabel == {"reader", "writer", "unref"}

(* RefsCountUsers with a number for each possible user.                     *)
RefInv ==
    /\ refs = (IF tpc \in BridgeLabel THEN 1 ELSE 0)
              + (IF Running(rpc) THEN 1 ELSE 0) + (IF Running(wpc) THEN 1 ELSE 0)
    /\ mem["self"] = "live" <=> refs > 0
    /\ sv[2] = "open" <=> refs > 0

(* Threads are started once, and sv[0] is the task's until it closes it.    *)
ThreadInv ==
    /\ tpc \in StartLabel \cup {"raw", "bridge", "reader"} => rpc = "none"
    /\ tpc \in StartLabel \cup {"raw", "bridge", "reader", "writer"} =>
         wpc = "none" /\ "writer" \notin failed
    /\ tpc \in {"unref", "splice"} => "writer" \notin failed
    /\ sv[1] = "open" => tpc \in BridgeLabel \cup {"splice"}

(* A console or a pair of standard handles: the handles are not ours.       *)
ConsoleInv ==
    mode # "term" =>
        /\ apc = "none" /\ shell = "none" /\ mem["pp"] = "none"
        /\ \A x \in Handle \ {"con_in", "con_out"} : h[x] = "none"
        /\ h["con_in"] # "closed" /\ h["con_out"] # "closed"
        /\ Running(rpc) => h["con_in"] = "open"
        /\ Running(wpc) => h["con_out"] = "open"
        /\ misuse = {}
        /\ tpc \in BridgeLabel \cup {"raw", "bridge", "splice", "restore", "done"}
        /\ tpc \in {"raw", "restore"} => mode = "console"
        /\ con = "raw" => mode = "console" /\ tpc \notin {"raw", "done"}

(* The start of the shell: what is open at each of its calls.               *)
StartInv ==
    mode = "term" =>
        /\ h["con_in"] = "none" /\ h["con_out"] = "none" /\ con = "cooked"
        /\ tpc \notin {"raw", "restore"}
        /\ tpc \in StartLabel => apc = "none"
        /\ tpc \in {"alloc", "pipe", "pty", "attr", "proc"} =>
             shell = "none" /\ NotOpen({"proc"})
        /\ tpc = "alloc" => (\A x \in Handle : h[x] = "none") /\ mem["pp"] = "none"
        /\ tpc = "pipe" =>
             /\ NotOpen({"out_r", "out_w", "pty"})
             /\ h["in_r"] = h["in_w"] /\ h["in_r"] # "closed"
        /\ tpc = "pty" => IsOpen({"in_r", "in_w", "out_r", "out_w"}) /\ NotOpen({"pty"})
        /\ tpc \in {"attr", "proc"} =>
             IsOpen({"in_w", "out_r", "pty"}) /\ NotOpen({"in_r", "out_w"})
        /\ tpc \in {"dup", "waiter", "closePty"} =>
             IsOpen({"in_w", "out_r", "pty", "proc"}) /\ NotOpen({"in_r", "out_w"})
        /\ tpc = "closePty" => shell = "dead"
        /\ tpc = "done" /\ apc = "none" =>
             /\ NotOpen(Handle \ {"pty"}) /\ (h["pty"] = "open" => "attr" \in failed)
             /\ mem["pp"] # "live" /\ shell # "running"
             /\ rpc = "none" /\ wpc = "none"

(* The process handle's duplicate is the task's, the pseudo console and the *)
(* process handle the waiter's.                                             *)
ShellInv ==
    mode = "term" =>
        /\ tpc \in {"alloc", "pipe", "pty", "attr", "proc", "dup"} =>
             "dup" \notin failed /\ NotOpen({"dup"})
        /\ tpc \in BridgeLabel \cup {"waiter", "closePty", "bridge", "splice",
                                     "closeIo", "kill"} =>
             (h["dup"] = "open" <=> "dup" \notin failed)
        /\ tpc \in BridgeLabel \cup {"bridge", "splice", "closeIo", "kill"} =>
             apc # "none"
        /\ apc # "none" =>
             /\ NotOpen({"in_r", "out_w"})
             /\ tpc = "done" => NotOpen({"dup"})
        /\ apc \in {"wait", "closePty"} => IsOpen({"pty", "proc"})
        /\ apc \in {"closePty", "end"} => shell = "dead"
        /\ apc = "end" => NotOpen({"pty", "proc"}) /\ mem["pp"] # "live"

(* The bridge's ends of the pipes are open exactly as long as somebody uses *)
(* the bridge, unless the writer could not be started.                      *)
IoInv ==
    mode = "term" =>
        /\ tpc \in BridgeLabel \cup {"bridge"} => IsOpen({"in_w", "out_r"})
        /\ tpc = "closeIo" =>
             "writer" \in failed \/ (refs = 0 /\ IsOpen({"in_w", "out_r"}))
        /\ tpc \in {"splice", "kill"} \/ (tpc = "done" /\ apc # "none") =>
             IF "writer" \in failed \/ refs = 0
             THEN NotOpen({"in_w", "out_r"})
             ELSE IsOpen({"in_w", "out_r"})

(* The writer's buffer is empty when it receives, and last is the byte in   *)
(* front of what it receives next.                                          *)
DataInv ==
    /\ wpc \in {"none", "recv"} => wbuf = <<>>
    /\ wpc = "write" => wbuf # <<>>
    /\ last = IF got = 0 THEN "x" ELSE sent[got]

ControlInv ==
    RefInv /\ ThreadInv /\ ConsoleInv /\ StartInv /\ ShellInv /\ IoInv /\ HandlesOnce

BridgeInv == TypeOK /\ ControlInv /\ DataInv /\ LineFeedsTranslated

-----------------------------------------------------------------------------
(* Closing handles that are open is no misuse.                              *)
LEMMA CloseOpen ==
    ASSUME NEW H, CloseH(H), \A x \in H : h[x] = "open" PROVE misuse' = misuse
<1>1. {x \in H : h[x] # "open"} = {}
    OBVIOUS
<1> QED
    BY <1>1 DEF CloseH

(* A start of the shell that fails closes what it had opened, but for the   *)
(* pseudo console when it is not among H.                                   *)
LEMMA StartFailsControl ==
    ASSUME TypeOK, ControlInv, tpc \in {"pipe", "pty", "attr", "proc"},
           NEW H, StartFails(H),
           \/ tpc \in {"pipe", "pty"} /\ H = {} /\ failed' = failed
           \/ tpc \in {"attr", "proc"} /\ H = {"pty"} /\ failed' = failed
           \/ tpc = "attr" /\ H = {} /\ failed' = failed \cup {"attr"},
           UNCHANGED <<mode, rpc, wpc, apc, sv, shut, refs, shell, con, dataVars>>
    PROVE  ControlInv'
<1> USE DEF ControlInv, TypeOK, IsOpen, NotOpen, StartLabel, BridgeLabel, Running,
            StartFails
<1>1. mode = "term" /\ rpc = "none" /\ wpc = "none" /\ apc = "none" /\ refs = 0
    BY DEF ConsoleInv, ThreadInv, RefInv, StartInv
<1>2. RefInv' /\ ThreadInv' /\ ConsoleInv'
    BY <1>1 DEF RefInv, ThreadInv, ConsoleInv
<1>3. \A x \in Handle \ {"pty"} : h'[x] # "open"
    BY <1>1 DEF StartInv, ShellInv, CloseH, Handle
<1>4. /\ h'["pty"] = "open" => "attr" \in failed'
      /\ h'["con_in"] = "none" /\ h'["con_out"] = "none"
    BY <1>1 DEF StartInv, CloseH, Handle
<1>5. StartInv'
    BY <1>1, <1>3, <1>4 DEF StartInv
<1>6. ShellInv' /\ IoInv'
    BY <1>1, <1>3 DEF ShellInv, IoInv
<1>7. misuse' = misuse
    <2>1. \A x \in H : h[x] = "open"
        BY <1>1 DEF StartInv
    <2> QED
        BY <2>1, CloseOpen
<1>8. HandlesOnce'
    BY <1>7 DEF HandlesOnce
<1> QED
    BY <1>2, <1>5, <1>6, <1>8

(* The steps that start the shell, one after the other.                     *)
LEMMA StartControl ==
    ASSUME TypeOK, ControlInv,
           \/ Alloc \/ CreatePipes \/ CreatePty \/ AttrList \/ CreateShell
           \/ Duplicate \/ SpawnWaiter \/ ReleaseByHand
    PROVE  ControlInv'
<1>a. CASE CreatePipes /\ StartFails({})
    BY <1>a, StartFailsControl DEF CreatePipes
<1>b. CASE CreatePty /\ StartFails({})
    BY <1>b, StartFailsControl DEF CreatePty
<1>c. CASE AttrList /\ StartFails({}) /\ failed' = failed \cup {"attr"}
    BY <1>c, StartFailsControl DEF AttrList
<1>d. CASE AttrList /\ StartFails({"pty"}) /\ failed' = failed
    BY <1>d, StartFailsControl DEF AttrList
<1>e. CASE CreateShell /\ StartFails({"pty"}) /\ shell' = shell
    BY <1>e, StartFailsControl DEF CreateShell
<1> USE DEF ControlInv, TypeOK, IsOpen, NotOpen, StartLabel, BridgeLabel, Running,
            Handle, resVars
<1>0. mode = "term" /\ rpc = "none" /\ wpc = "none" /\ apc = "none" /\ refs = 0
    <2>1. tpc \in StartLabel
        BY DEF Alloc, CreatePipes, CreatePty, AttrList, CreateShell, Duplicate,
               SpawnWaiter, ReleaseByHand
    <2> QED
        BY <2>1 DEF ConsoleInv, ThreadInv, RefInv, StartInv
<1>1. CASE Alloc
    <2> USE <1>1 DEF Alloc
    <2>1. RefInv' /\ ThreadInv' /\ ConsoleInv'
        BY <1>0 DEF RefInv, ThreadInv, ConsoleInv
    <2>2. StartInv'
        BY <1>0 DEF StartInv
    <2>3. ShellInv' /\ IoInv'
        BY <1>0 DEF StartInv, ShellInv, IoInv
    <2>4. HandlesOnce'
        BY <1>0 DEF StartInv, ShellInv, HandlesOnce
    <2> QED
        BY <2>1, <2>2, <2>3, <2>4
<1>2. CASE CreatePipes
    <2> USE <1>2 DEF CreatePipes, OpenH
    <2> SUFFICES ASSUME ~(StartFails({})) PROVE ControlInv'
        BY <1>a
    <2>1. RefInv' /\ ThreadInv' /\ ConsoleInv'
        BY <1>0 DEF RefInv, ThreadInv, ConsoleInv
    <2>2. StartInv'
        BY <1>0 DEF StartInv
    <2>3. ShellInv' /\ IoInv'
        BY <1>0 DEF StartInv, ShellInv, IoInv
    <2>4. HandlesOnce'
        BY <1>0 DEF StartInv, ShellInv, HandlesOnce
    <2> QED
        BY <2>1, <2>2, <2>3, <2>4
<1>3. CASE CreatePty
    <2> USE <1>3 DEF CreatePty
    <2> SUFFICES ASSUME ~(StartFails({})) PROVE ControlInv'
        BY <1>b
    <2>1. RefInv' /\ ThreadInv' /\ ConsoleInv'
        BY <1>0 DEF RefInv, ThreadInv, ConsoleInv
    <2>2. StartInv'
        BY <1>0 DEF StartInv
    <2>3. ShellInv' /\ IoInv'
        BY <1>0 DEF StartInv, ShellInv, IoInv
    <2>4. HandlesOnce'
        BY <1>0 DEF StartInv, ShellInv, HandlesOnce
    <2> QED
        BY <2>1, <2>2, <2>3, <2>4
<1>4. CASE AttrList
    <2> USE <1>4 DEF AttrList
    <2> SUFFICES ASSUME ~(StartFails({}) /\ failed' = failed \cup {"attr"}),
                        ~(StartFails({"pty"}) /\ failed' = failed)
                 PROVE  ControlInv'
        BY <1>c, <1>d
    <2>1. RefInv' /\ ThreadInv' /\ ConsoleInv'
        BY <1>0 DEF RefInv, ThreadInv, ConsoleInv
    <2>2. StartInv'
        BY <1>0 DEF StartInv
    <2>3. ShellInv' /\ IoInv'
        BY <1>0 DEF StartInv, ShellInv, IoInv
    <2>4. HandlesOnce'
        BY <1>0 DEF StartInv, ShellInv, HandlesOnce
    <2> QED
        BY <2>1, <2>2, <2>3, <2>4
<1>5. CASE CreateShell
    <2> USE <1>5 DEF CreateShell, OpenH
    <2> SUFFICES ASSUME ~(StartFails({"pty"}) /\ shell' = shell) PROVE ControlInv'
        BY <1>e
    <2>1. RefInv' /\ ThreadInv' /\ ConsoleInv'
        BY <1>0 DEF RefInv, ThreadInv, ConsoleInv
    <2>2. StartInv'
        BY <1>0 DEF StartInv
    <2>3. ShellInv' /\ IoInv'
        BY <1>0 DEF StartInv, ShellInv, IoInv
    <2>4. HandlesOnce'
        BY <1>0 DEF StartInv, ShellInv, HandlesOnce
    <2> QED
        BY <2>1, <2>2, <2>3, <2>4
<1>6. CASE Duplicate
    <2> USE <1>6 DEF Duplicate, OpenH
    <2>1. RefInv' /\ ThreadInv' /\ ConsoleInv'
        BY <1>0 DEF RefInv, ThreadInv, ConsoleInv
    <2>2. StartInv'
        BY <1>0 DEF StartInv
    <2>3. ShellInv' /\ IoInv'
        BY <1>0 DEF StartInv, ShellInv, IoInv
    <2>4. HandlesOnce'
        BY <1>0 DEF StartInv, ShellInv, HandlesOnce
    <2> QED
        BY <2>1, <2>2, <2>3, <2>4
<1>7. CASE SpawnWaiter
    <2> USE <1>7 DEF SpawnWaiter
    <2>1. RefInv' /\ ThreadInv' /\ ConsoleInv'
        BY <1>0 DEF RefInv, ThreadInv, ConsoleInv
    <2>2. StartInv'
        BY <1>0 DEF StartInv
    <2>3. ShellInv' /\ IoInv'
        BY <1>0 DEF StartInv, ShellInv, IoInv
    <2>4. HandlesOnce'
        BY <1>0 DEF StartInv, ShellInv, HandlesOnce
    <2> QED
        BY <2>1, <2>2, <2>3, <2>4
<1>8. CASE ReleaseByHand
    <2> USE <1>8 DEF ReleaseByHand, CloseH
    <2>1. RefInv' /\ ThreadInv' /\ ConsoleInv'
        BY <1>0 DEF RefInv, ThreadInv, ConsoleInv
    <2>2. StartInv'
        BY <1>0 DEF StartInv, ShellInv
    <2>3. ShellInv' /\ IoInv'
        BY <1>0 DEF StartInv, ShellInv, IoInv
    <2>4. HandlesOnce'
        <3> HIDE DEF CloseH
        <3>1. misuse' = misuse
            BY <1>0, CloseOpen DEF StartInv, ShellInv
        <3> QED
            BY <3>1 DEF HandlesOnce
    <2> QED
        BY <2>1, <2>2, <2>3, <2>4
<1> QED
    BY <1>1, <1>2, <1>3, <1>4, <1>5, <1>6, <1>7, <1>8

(* While a thread uses the bridge its handle is open.                       *)
LEMMA IoOpen ==
    ASSUME TypeOK, ControlInv, refs > 0, "writer" \notin failed
    PROVE  /\ Running(rpc) \/ mode = "term" => h[In] = "open"
           /\ Running(wpc) \/ mode = "term" => h[Out] = "open"
           /\ In \in Handle /\ Out \in Handle
<1> USE DEF ControlInv, TypeOK, Handle
<1>1. CASE mode # "term"
    BY <1>1 DEF ConsoleInv, In, Out
<1>2. CASE mode = "term"
    <2>1. tpc \in BridgeLabel \cup {"splice", "kill"} \/ (tpc = "done" /\ apc # "none")
        BY <1>2 DEF IoInv, RefInv, ThreadInv, StartInv, StartLabel, BridgeLabel, Running
    <2> QED
        BY <1>2, <2>1 DEF IoInv, IsOpen, In, Out
<1> QED
    BY <1>1, <1>2

(* Steps that neither move the task nor touch what it owns.                 *)
LEMMA FrameControl ==
    ASSUME TypeOK, ControlInv,
           UNCHANGED <<mode, tpc, apc, h, sv, mem, refs, shell, con, failed>>,
           rpc' = rpc \/ (Running(rpc) /\ Running(rpc')),
           wpc' = wpc \/ (Running(wpc) /\ Running(wpc')),
           misuse' = misuse \/ (mode = "term" /\ "writer" \in failed)
    PROVE  ControlInv'
<1> USE DEF ControlInv, Running
<1>1. RefInv'
    BY DEF RefInv
<1>2. ThreadInv' /\ ConsoleInv' /\ HandlesOnce'
    BY DEF ThreadInv, ConsoleInv, HandlesOnce
<1>3. StartInv'
    BY DEF StartInv, IsOpen, NotOpen
<1>4. ShellInv' /\ IoInv'
    BY DEF ShellInv, IoInv, IsOpen, NotOpen
<1> QED
    BY <1>1, <1>2, <1>3, <1>4

(* The calls of the reader and the writer, of the splice and of the outside *)
(* world: a thread that runs has its handle open.                           *)
LEMMA CallControl ==
    ASSUME TypeOK, ControlInv,
           \/ SpliceRead \/ (\E c \in Byte : SpliceWrite(c))
           \/ ReaderRead \/ ReaderSend \/ ReaderShut
           \/ WriterRecv \/ WriterWrite \/ WriterShut \/ Produce \/ Consume
    PROVE  ControlInv'
<1>1. CASE SpliceRead \/ (\E c \in Byte : SpliceWrite(c)) \/ Produce \/ Consume
    BY <1>1, FrameControl
       DEF SpliceRead, SpliceWrite, Produce, Consume, thrVars, resVars
<1>2. CASE ReaderSend \/ ReaderShut
    BY <1>2, FrameControl DEF ReaderSend, ReaderShut, resVars, Running
<1>3. CASE WriterRecv \/ WriterShut
    BY <1>3, FrameControl DEF WriterRecv, WriterShut, resVars, Running
<1>4. CASE ReaderRead
    <2>1. refs > 0
        BY <1>4 DEF ReaderRead, ControlInv, RefInv, Running, TypeOK
    <2>2. misuse' = misuse \/ (mode = "term" /\ "writer" \in failed)
        <3>1. CASE mode # "term" \/ "writer" \notin failed
            <4>1. h[In] = "open"
                <5>1. Running(rpc)
                    BY <1>4 DEF ReaderRead, Running
                <5>2. CASE mode # "term"
                    BY <5>1, <5>2 DEF ControlInv, ConsoleInv, In
                <5>3. CASE mode = "term"
                    BY <2>1, <3>1, <5>1, <5>3, IoOpen
                <5> QED
                    BY <5>2, <5>3
            <4>2. {x \in {In} : h[x] # "open"} = {}
                BY <4>1
            <4> QED
                BY <1>4, <4>2 DEF ReaderRead
        <3> QED
            BY <3>1
    <2> QED
        BY <1>4, <2>2, FrameControl DEF ReaderRead, Running
<1>5. CASE WriterWrite
    <2>1. refs > 0
        BY <1>5 DEF WriterWrite, ControlInv, RefInv, Running, TypeOK
    <2>2. misuse' = misuse \/ (mode = "term" /\ "writer" \in failed)
        <3>1. CASE mode # "term" \/ "writer" \notin failed
            <4>1. h[Out] = "open"
                <5>1. Running(wpc)
                    BY <1>5 DEF WriterWrite, Running
                <5>2. CASE mode # "term"
                    BY <5>1, <5>2 DEF ControlInv, ConsoleInv, Out
                <5>3. CASE mode = "term"
                    BY <2>1, <3>1, <5>1, <5>3, IoOpen
                <5> QED
                    BY <5>2, <5>3
            <4>2. {x \in {Out} : h[x] # "open"} = {}
                BY <4>1
            <4> QED
                BY <1>5, <4>2 DEF WriterWrite
        <3> QED
            BY <3>1
    <2> QED
        BY <1>5, <2>2, FrameControl DEF WriterWrite, Running
<1> QED
    BY <1>1, <1>2, <1>3, <1>4, <1>5

(* hev_bridge_unref by any of the three users: the last one finds both      *)
(* handles open and closes them.                                            *)
LEMMA UnrefControl ==
    ASSUME TypeOK, ControlInv, Unref, UNCHANGED <<mode, apc, shell, con, failed>>,
           \/ tpc = "unref" /\ tpc' = "splice" /\ rpc' = rpc /\ wpc' = wpc
           \/ tpc' = tpc /\ rpc = "unref" /\ rpc' = "end" /\ wpc' = wpc
           \/ tpc' = tpc /\ rpc' = rpc /\ wpc = "unref" /\ wpc' = "end"
    PROVE  ControlInv'
<1> USE DEF ControlInv, TypeOK, Unref, BridgeLabel, StartLabel, Running
<1>1. RefInv'
    BY DEF RefInv
<1>2. refs > 0 /\ sv'[1] = sv[1] /\ mem'["pp"] = mem["pp"]
    BY DEF RefInv
<1>3. ThreadInv'
    BY <1>2 DEF ThreadInv
<1>4. /\ \A x \in Handle : h'[x] = IF refs = 1 /\ mode = "term" /\ x \in {"in_w", "out_r"}
                                    THEN "closed" ELSE h[x]
      /\ DOMAIN h' = Handle
    BY DEF CloseH, Own, In, Out, Handle
<1>5. CASE mode # "term"
    <2>1. h' = h /\ misuse' = misuse
        <3>1. refs = 1 => CloseH({})
            BY <1>5 DEF Own
        <3>2. CASE refs = 1
            BY <3>1, <3>2, <1>4, <1>5 DEF CloseH
        <3>3. CASE refs # 1
            BY <3>3
        <3> QED
            BY <3>2, <3>3
    <2>2. ConsoleInv'
        BY <1>2, <1>5, <2>1 DEF ConsoleInv
    <2>3. StartInv' /\ ShellInv' /\ IoInv'
        BY <1>5 DEF StartInv, ShellInv, IoInv
    <2>4. HandlesOnce'
        BY <2>1 DEF HandlesOnce
    <2> QED
        BY <1>1, <1>3, <2>2, <2>3, <2>4
<1>6. CASE mode = "term"
    <2>1. ConsoleInv'
        BY <1>6 DEF ConsoleInv
    <2>2. StartInv'
        BY <1>2, <1>4, <1>6 DEF StartInv, ThreadInv, IsOpen, NotOpen, Handle
    <2>3. ShellInv'
        BY <1>2, <1>4, <1>6 DEF ShellInv, IsOpen, NotOpen, Handle
    <2>4. IoInv'
        BY <1>2, <1>4, <1>6 DEF IoInv, RefInv, ThreadInv, IsOpen, NotOpen, Handle
    <2>5. HandlesOnce'
        <3> SUFFICES ASSUME "writer" \notin failed PROVE misuse' = misuse
            BY DEF HandlesOnce
        <3>1. h[In] = "open" /\ h[Out] = "open"
            BY <1>2, <1>6, IoOpen
        <3> QED
            BY <3>1, CloseOpen DEF Own
    <2> QED
        BY <1>1, <1>3, <2>1, <2>2, <2>3, <2>4, <2>5
<1> QED
    BY <1>5, <1>6

(* hev_bridge_new without the threads, and what its caller does before and  *)
(* after it.                                                                *)
LEMMA TaskControl ==
    ASSUME TypeOK, ControlInv,
           \/ ConsoleRaw \/ ConsoleRestore \/ BridgeNew \/ SpawnReader
           \/ EndSplice \/ CloseIo \/ Kill
    PROVE  ControlInv'
<1> USE DEF ControlInv, TypeOK, StartLabel, BridgeLabel, Running, resVars, AfterBridge
<1>1. CASE ConsoleRaw \/ ConsoleRestore
    <2>1. mode = "console"
        BY <1>1 DEF ConsoleRaw, ConsoleRestore, ConsoleInv, StartInv
    <2>2. RefInv' /\ ThreadInv' /\ ConsoleInv' /\ HandlesOnce'
        BY <1>1, <2>1
           DEF ConsoleRaw, ConsoleRestore, RefInv, ThreadInv, ConsoleInv, HandlesOnce
    <2>3. StartInv' /\ ShellInv' /\ IoInv'
        BY <1>1, <2>1 DEF ConsoleRaw, ConsoleRestore, StartInv, ShellInv, IoInv
    <2> QED
        BY <2>2, <2>3
<1>2. CASE BridgeNew \/ SpawnReader
    <2> USE <1>2 DEF BridgeNew, SpawnReader
    <2>1. mem'["pp"] = mem["pp"] /\ tpc' # "splice"
          /\ "writer" \notin failed /\ wpc = "none" /\ rpc = "none"
        BY DEF ThreadInv
    <2>2. RefInv'
        BY <2>1 DEF RefInv
    <2>3. ThreadInv'
        BY <2>1 DEF ThreadInv
    <2>4. ConsoleInv'
        <3>1. h[In] # "none" /\ mode # "term" => h["con_in"] = "open"
            BY DEF ConsoleInv, In, Handle
        <3> QED
            BY <2>1, <3>1 DEF ConsoleInv
    <2>5. StartInv'
        BY <2>1 DEF StartInv, ShellInv, IsOpen, NotOpen
    <2>6. ShellInv'
        BY <2>1 DEF ShellInv, IsOpen, NotOpen
    <2>7. IoInv'
        BY <2>1 DEF IoInv, RefInv, IsOpen, NotOpen
    <2>8. HandlesOnce'
        BY DEF HandlesOnce
    <2> QED
        BY <2>2, <2>3, <2>4, <2>5, <2>6, <2>7, <2>8
<1>3. CASE EndSplice
    <2> USE <1>3 DEF EndSplice
    <2>1. RefInv' /\ ThreadInv' /\ ConsoleInv' /\ HandlesOnce'
        BY DEF RefInv, ThreadInv, ConsoleInv, HandlesOnce
    <2>2. StartInv'
        BY DEF StartInv, ShellInv, IsOpen, NotOpen
    <2>3. ShellInv'
        BY DEF ShellInv, IsOpen, NotOpen
    <2>4. IoInv'
        BY DEF IoInv, IsOpen, NotOpen
    <2> QED
        BY <2>1, <2>2, <2>3, <2>4
<1>4. CASE CloseIo
    <2> USE <1>4 DEF CloseIo
    <2>1. mode = "term"
        BY DEF ConsoleInv
    <2>2. \A x \in Handle : h'[x] = IF x \in {"in_w", "out_r"} THEN "closed" ELSE h[x]
        BY DEF CloseH
    <2>3. RefInv' /\ ThreadInv' /\ ConsoleInv'
        BY <2>1 DEF RefInv, ThreadInv, ConsoleInv
    <2>4. StartInv' /\ ShellInv'
        BY <2>1, <2>2 DEF StartInv, ShellInv, IsOpen, NotOpen, Handle
    <2>5. IoInv'
        BY <2>1, <2>2 DEF IoInv, IsOpen, NotOpen, Handle
    <2>6. HandlesOnce'
        <3> SUFFICES ASSUME "writer" \notin failed PROVE misuse' = misuse
            BY DEF HandlesOnce
        <3> QED
            BY <2>1, CloseOpen DEF IoInv, IsOpen
    <2> QED
        BY <2>3, <2>4, <2>5, <2>6
<1>5. CASE Kill
    <2> USE <1>5 DEF Kill
    <2>1. mode = "term" /\ apc # "none"
        BY DEF ConsoleInv, ShellInv
    <2>2. /\ \A x \in Handle \ {"dup"} : h'[x] = h[x]
          /\ h'["dup"] # "open"
        BY <2>1 DEF CloseH, ShellInv, Handle
    <2>3. RefInv' /\ ThreadInv' /\ ConsoleInv'
        BY <2>1 DEF RefInv, ThreadInv, ConsoleInv
    <2>4. StartInv'
        BY <2>1, <2>2 DEF StartInv, Handle
    <2>5. ShellInv' /\ IoInv'
        BY <2>1, <2>2 DEF ShellInv, IoInv, IsOpen, NotOpen, Handle
    <2>6. misuse' = misuse
        BY <2>1, CloseOpen DEF ShellInv
    <2> QED
        BY <2>3, <2>4, <2>5, <2>6 DEF HandlesOnce
<1> QED
    BY <1>1, <1>2, <1>3, <1>4, <1>5

(* hev_bridge_spawn of the writer.  When it fails the reader is left with   *)
(* the last reference, or the task has it and closes the handles itself.    *)
LEMMA SpawnWriterControl == ASSUME TypeOK, ControlInv, SpawnWriter PROVE ControlInv'
<1> USE DEF ControlInv, TypeOK, StartLabel, BridgeLabel, Running, SpawnWriter, AfterBridge,
            resVars
<1>1. /\ \A x \in Handle \ {"in_w", "out_r"} : h'[x] = h[x]
      /\ mode # "term" => h' = h /\ misuse' = misuse
    <2>1. CASE UNCHANGED <<h, misuse>>
        BY <2>1
    <2>2. CASE mode = "term" /\ CloseH({In, Out})
        BY <2>2 DEF CloseH, In, Out, Handle
    <2>3. CASE mode # "term" /\ CloseH({})
        BY <2>3 DEF CloseH, Handle
    <2> QED
        BY <2>1, <2>2, <2>3 DEF Own
<1>2. /\ mem'["pp"] = mem["pp"] /\ wpc = "none" /\ "writer" \notin failed
      /\ UNCHANGED <<mode, rpc, apc, shell, con>>
      /\ mode = "term" => tpc' \in {"unref", "closeIo"}
      /\ mode # "term" => tpc' \in {"unref", "restore", "done"}
      /\ tpc' = "unref" => failed' = failed /\ h' = h
      /\ tpc' # "unref" => failed' = failed \cup {"writer"}
      /\ "dup" \in failed' <=> "dup" \in failed
    BY DEF ThreadInv
<1>3. RefInv'
    BY <1>2 DEF RefInv
<1>4. ThreadInv'
    BY DEF ThreadInv
<1>5. ConsoleInv'
    <2>1. h[Out] # "none" /\ mode # "term" => h["con_out"] = "open"
        BY DEF ConsoleInv, Out, Handle
    <2>2. mode # "term" /\ wpc' # "none" => h[Out] # "none" /\ h' = h
        BY <1>1, <1>2
    <2> QED
        BY <1>1, <1>2, <2>1, <2>2 DEF ConsoleInv
<1>6. StartInv'
    BY <1>1, <1>2 DEF StartInv, ShellInv, Handle
<1>7. ShellInv'
    <2> SUFFICES ASSUME mode = "term" PROVE ShellInv'
        BY <1>2 DEF ShellInv
    <2>1. \A x \in {"in_r", "out_w", "dup", "pty", "proc"} : h'[x] = h[x]
        BY <1>1 DEF Handle
    <2> QED
        BY <1>2, <2>1 DEF ShellInv, IsOpen, NotOpen
<1>8. IoInv'
    BY <1>2 DEF IoInv, IsOpen, NotOpen
<1>9. HandlesOnce'
    BY DEF HandlesOnce
<1> QED
    BY <1>3, <1>4, <1>5, <1>6, <1>7, <1>8, <1>9

(* The waiter and the shell.                                                *)
LEMMA WaiterControl ==
    ASSUME TypeOK, ControlInv, WaiterWait \/ WaiterRelease \/ ShellExit
    PROVE  ControlInv'
<1> USE DEF ControlInv, TypeOK, thrVars, resVars
<1>1. CASE WaiterWait \/ ShellExit
    <2> USE <1>1 DEF WaiterWait, ShellExit
    <2>1. RefInv' /\ ThreadInv' /\ ConsoleInv' /\ HandlesOnce'
        BY DEF RefInv, ThreadInv, ConsoleInv, HandlesOnce
    <2>2. StartInv'
        BY DEF StartInv, StartLabel, IsOpen, NotOpen
    <2>3. ShellInv' /\ IoInv'
        BY DEF ShellInv, IoInv, IsOpen, NotOpen
    <2> QED
        BY <2>1, <2>2, <2>3
<1>2. CASE WaiterRelease
    <2> USE <1>2 DEF WaiterRelease
    <2>1. mode = "term" /\ tpc \notin StartLabel
        BY DEF ConsoleInv, StartInv
    <2>2. \A x \in Handle : h'[x] = IF x \in {"pty", "proc"} THEN "closed" ELSE h[x]
        BY DEF CloseH
    <2>3. RefInv' /\ ThreadInv' /\ ConsoleInv'
        BY <2>1 DEF RefInv, ThreadInv, ConsoleInv
    <2>4. StartInv'
        BY <2>1, <2>2 DEF StartInv, StartLabel, Handle
    <2>5. ShellInv' /\ IoInv'
        BY <2>1, <2>2 DEF ShellInv, IoInv, IsOpen, NotOpen, Handle
    <2>6. misuse' = misuse
        BY <2>1, CloseOpen DEF ShellInv, IsOpen
    <2> QED
        BY <2>3, <2>4, <2>5, <2>6 DEF HandlesOnce
<1> QED
    BY <1>1, <1>2

-----------------------------------------------------------------------------
(* The data.  A part of the stream, and what the two conversions are: byte  *)
(* by byte, from the byte itself and the one in front of it.                *)
LEMMA PartOf ==
    ASSUME NEW q \in Seq(Byte), NEW k \in 1 .. Len(q) + 1, NEW n \in 0..Len(q)
    PROVE  /\ SubSeq(q, k, n) \in Seq(Byte)
           /\ Len(SubSeq(q, k, n)) = IF k =< n THEN n - k + 1 ELSE 0
           /\ \A i \in 1 .. n - k + 1 : SubSeq(q, k, n)[i] = q[k + i - 1]
<1>1. \A i \in k .. n : q[i] \in Byte
    BY LenProperties
<1>2. k \in Int /\ n \in Int
    BY LenProperties
<1> QED
    BY <1>1, <1>2, SubSeqProperties

LEMMA TranslatedIs ==
    ASSUME NEW q \in Seq(Byte)
    PROVE  /\ Translated(q) \in Seq(Byte) /\ Len(Translated(q)) = Len(q)
           /\ \A i \in 1..Len(q) : Translated(q)[i] =
                 IF q[i] = "LF" /\ ~(i > 1 /\ q[i - 1] = "CR") THEN "CR" ELSE q[i]
<1>1. Len(q) \in Nat /\ \A i \in 1..Len(q) : q[i] \in Byte
    BY LenProperties
<1>2. \A i \in 1..Len(q) :
        (IF q[i] = "LF" /\ ~(i > 1 /\ q[i - 1] = "CR") THEN "CR" ELSE q[i]) \in Byte
    BY <1>1 DEF Byte
<1> QED
    BY <1>1, <1>2 DEF Translated

LEMMA ConvertIs ==
    ASSUME NEW q \in Seq(Byte), NEW l
    PROVE  /\ Convert(q, l) \in Seq(Byte) /\ Len(Convert(q, l)) = Len(q)
           /\ \A i \in 1..Len(q) : Convert(q, l)[i] =
                 IF q[i] = "LF" /\ (IF i = 1 THEN l ELSE q[i - 1]) # "CR"
                 THEN "CR" ELSE q[i]
<1>1. Len(q) \in Nat /\ \A i \in 1..Len(q) : q[i] \in Byte
    BY LenProperties
<1>2. \A i \in 1..Len(q) :
        (IF q[i] = "LF" /\ (IF i = 1 THEN l ELSE q[i - 1]) # "CR" THEN "CR" ELSE q[i])
           \in Byte
    BY <1>1 DEF Byte
<1> QED
    BY <1>1, <1>2 DEF Convert

(* Two sequences put together, element by element.                          *)
LEMMA Joined ==
    ASSUME NEW f \in Seq(Byte), NEW c \in Seq(Byte), NEW w \in Seq(Byte),
           Len(w) = Len(f) + Len(c),
           \A i \in 1..Len(f) : w[i] = f[i],
           \A i \in 1..Len(c) : w[Len(f) + i] = c[i]
    PROVE  w = f \o c
<1>0. Len(f) \in Nat /\ Len(c) \in Nat /\ Len(w) \in Nat
    BY LenProperties
<1>1. /\ f \o c \in Seq(Byte) /\ Len(f \o c) = Len(f) + Len(c)
      /\ \A i \in 1 .. Len(f) + Len(c) :
            (f \o c)[i] = IF i <= Len(f) THEN f[i] ELSE c[i - Len(f)]
    BY ConcatProperties
<1>2. ASSUME NEW i \in 1..Len(w) PROVE w[i] = (f \o c)[i]
    <2>1. CASE i <= Len(f)
        BY <1>0, <1>1, <2>1
    <2>2. CASE i > Len(f)
        <3>1. i - Len(f) \in 1..Len(c) /\ Len(f) + (i - Len(f)) = i
            BY <1>0, <2>2
        <3>2. w[Len(f) + (i - Len(f))] = c[i - Len(f)]
            BY <3>1
        <3> QED
            BY <1>0, <1>1, <2>2, <3>1, <3>2
    <2> QED
        BY <1>0, <2>1, <2>2
<1> QED
    BY <1>1, <1>2, SeqEqual

(* Converting chunk by chunk, each with the last byte of the one before it, *)
(* is translating the whole: a CRLF that recv cuts in two stays a CRLF.     *)
LEMMA ConvertExtends ==
    ASSUME NEW f \in Seq(Byte), NEW c \in Seq(Byte), NEW w \in Seq(Byte),
           Len(w) = Len(f) + Len(c),
           \A i \in 1..Len(f) : w[i] = f[i],
           \A i \in 1..Len(c) : w[Len(f) + i] = c[i],
           NEW l \in Byte, l = IF Len(f) = 0 THEN "x" ELSE f[Len(f)]
    PROVE  Translated(w) = Translated(f) \o Convert(c, l)
<1> DEFINE tf == Translated(f)
           tc == Convert(c, l)
           tw == Translated(w)
<1>0. Len(f) \in Nat /\ Len(c) \in Nat /\ Len(w) \in Nat
    BY LenProperties
<1>1. /\ tw \in Seq(Byte) /\ Len(tw) = Len(w)
      /\ \A i \in 1..Len(w) : tw[i] =
            IF w[i] = "LF" /\ ~(i > 1 /\ w[i - 1] = "CR") THEN "CR" ELSE w[i]
    BY TranslatedIs
<1>2. /\ tf \in Seq(Byte) /\ Len(tf) = Len(f)
      /\ \A i \in 1..Len(f) : tf[i] =
            IF f[i] = "LF" /\ ~(i > 1 /\ f[i - 1] = "CR") THEN "CR" ELSE f[i]
    BY TranslatedIs
<1>3. /\ tc \in Seq(Byte) /\ Len(tc) = Len(c)
      /\ \A i \in 1..Len(c) : tc[i] =
            IF c[i] = "LF" /\ (IF i = 1 THEN l ELSE c[i - 1]) # "CR" THEN "CR" ELSE c[i]
    BY ConvertIs
<1> HIDE DEF tf, tc, tw
<1>4. ASSUME NEW i \in 1..Len(f) PROVE tw[i] = tf[i]
    <2>1. i \in 1..Len(w) /\ w[i] = f[i]
        BY <1>0
    <2>2. i > 1 => w[i - 1] = f[i - 1]
        <3> SUFFICES ASSUME i > 1 PROVE w[i - 1] = f[i - 1]
            OBVIOUS
        <3>1. i - 1 \in 1..Len(f)
            BY <1>0
        <3> QED
            BY <3>1
    <2>3. tw[i] = IF w[i] = "LF" /\ ~(i > 1 /\ w[i - 1] = "CR") THEN "CR" ELSE w[i]
        BY <1>1, <2>1
    <2>4. tf[i] = IF f[i] = "LF" /\ ~(i > 1 /\ f[i - 1] = "CR") THEN "CR" ELSE f[i]
        BY <1>2
    <2> QED
        BY <2>1, <2>2, <2>3, <2>4
<1>5. ASSUME NEW j \in 1..Len(c) PROVE tw[Len(f) + j] = tc[j]
    <2> DEFINE i == Len(f) + j
    <2>1. i \in 1..Len(w) /\ w[i] = c[j]
        BY <1>0
    <2>2. tw[i] = IF w[i] = "LF" /\ ~(i > 1 /\ w[i - 1] = "CR") THEN "CR" ELSE w[i]
        BY <1>1, <2>1
    <2>3. tc[j] = IF c[j] = "LF" /\ (IF j = 1 THEN l ELSE c[j - 1]) # "CR"
                  THEN "CR" ELSE c[j]
        BY <1>3
    <2>4. CASE j # 1
        <3>1. j - 1 \in 1..Len(c) /\ Len(f) + (j - 1) = i - 1 /\ i > 1
            BY <1>0, <2>4
        <3>2. w[i - 1] = c[j - 1]
            <4>1. w[Len(f) + (j - 1)] = c[j - 1]
                BY <3>1
            <4> QED
                BY <3>1, <4>1
        <3> HIDE DEF i
        <3> QED
            BY <2>1, <2>2, <2>3, <2>4, <3>1, <3>2
    <2>5. CASE j = 1 /\ Len(f) = 0
        <3>1. i = 1 /\ l = "x"
            BY <2>5
        <3> HIDE DEF i
        <3> QED
            BY <2>1, <2>2, <2>3, <2>5, <3>1
    <2>6. CASE j = 1 /\ Len(f) # 0
        <3>1. Len(f) \in 1..Len(f) /\ i - 1 = Len(f) /\ i > 1
            BY <1>0, <2>6
        <3>2. w[i - 1] = l
            <4>1. w[Len(f)] = f[Len(f)]
                BY <3>1
            <4>2. l = f[Len(f)]
                BY <2>6
            <4> QED
                BY <3>1, <4>1, <4>2
        <3> HIDE DEF i
        <3> QED
            BY <2>1, <2>2, <2>3, <2>6, <3>1, <3>2
    <2> QED
        BY <2>4, <2>5, <2>6
<1>6. tw = tf \o tc
    <2>1. Len(tw) = Len(tf) + Len(tc)
        BY <1>1, <1>2, <1>3
    <2>2. \A i \in 1..Len(tf) : tw[i] = tf[i]
        BY <1>2, <1>4
    <2>3. \A i \in 1..Len(tc) : tw[Len(tf) + i] = tc[i]
        BY <1>2, <1>3, <1>5
    <2>4. tw \in Seq(Byte) /\ tf \in Seq(Byte) /\ tc \in Seq(Byte)
        BY <1>1, <1>2, <1>3
    <2> QED
        BY <2>1, <2>2, <2>3, <2>4, Joined
<1> QED
    BY <1>6 DEF tf, tc, tw

(* A step that moves no byte to or from the writer's buffer.                *)
LEMMA DataFrame ==
    ASSUME TypeOK, DataInv, LineFeedsTranslated,
           UNCHANGED <<mode, sent, got, wbuf, last, written>>,
           \/ wpc' = wpc
           \/ wpc = "none" /\ wpc' = "recv"
           \/ wpc' \in {"shut", "unref", "end"}
    PROVE  DataInv' /\ LineFeedsTranslated'
<1>1. DataInv'
    BY DEF DataInv
<1>2. LineFeedsTranslated'
    BY DEF LineFeedsTranslated, Lf2cr, Translated
<1> QED
    BY <1>1, <1>2

(* The task sends a byte: what the writer has received is the same part.    *)
LEMMA SendData ==
    ASSUME TypeOK, DataInv, LineFeedsTranslated, NEW ch \in Byte, SpliceWrite(ch)
    PROVE  TypeOK' /\ DataInv' /\ LineFeedsTranslated'
<1> USE DEF SpliceWrite, thrVars, resVars
<1>1. /\ sent' \in Seq(Byte) /\ Len(sent') = Len(sent) + 1
      /\ \A i \in 1..Len(sent) : sent'[i] = sent[i]
      /\ Len(sent) \in Nat /\ MaxIn \in Nat /\ got \in 0..Len(sent)
    BY AppendProperties, LenProperties, MaxInAssumption DEF TypeOK
<1>2. TypeOK'
    BY <1>1 DEF TypeOK
<1>3. DataInv'
    <2>1. got # 0 => sent'[got] = sent[got]
        BY <1>1
    <2> QED
        BY <2>1 DEF DataInv
<1>4. SubSeq(sent', 1, got) = SubSeq(sent, 1, got)
    <2>1. /\ SubSeq(sent', 1, got) \in Seq(Byte) /\ SubSeq(sent, 1, got) \in Seq(Byte)
          /\ Len(SubSeq(sent', 1, got)) = got /\ Len(SubSeq(sent, 1, got)) = got
          /\ \A i \in 1..got : SubSeq(sent', 1, got)[i] = sent'[i]
          /\ \A i \in 1..got : SubSeq(sent, 1, got)[i] = sent[i]
        BY <1>1, PartOf DEF TypeOK
    <2>2. \A i \in 1..got : SubSeq(sent', 1, got)[i] = SubSeq(sent, 1, got)[i]
        BY <1>1, <2>1
    <2> QED
        BY <2>1, <2>2, SeqEqual
<1>5. LineFeedsTranslated'
    <2>1. UNCHANGED <<mode, got, wbuf, written>>
        OBVIOUS
    <2> HIDE DEF SpliceWrite, thrVars, resVars
    <2> QED
        BY <1>4, <2>1, Zenon DEF LineFeedsTranslated, Lf2cr, Translated
<1> QED
    BY <1>2, <1>3, <1>5

(* WriteFile moves the first byte of the buffer to the console.             *)
LEMMA WriteData ==
    ASSUME TypeOK, DataInv, LineFeedsTranslated, WriterWrite
    PROVE  TypeOK' /\ DataInv' /\ LineFeedsTranslated'
<1> USE DEF WriterWrite
<1>0. misuse' \subseteq Handle
    BY DEF TypeOK, Out, Handle
<1>1. CASE UNCHANGED <<inp, written, wbuf>> /\ wpc' = "shut"
    <2>1. TypeOK'
        BY <1>0, <1>1 DEF TypeOK
    <2> QED
        BY <1>1, <2>1, DataFrame
<1>2. CASE /\ inp' = 1 /\ written' = Append(written, Head(wbuf)) /\ wbuf' = Tail(wbuf)
           /\ wpc' = IF Len(wbuf) = 1 THEN "recv" ELSE "write"
    <2>1. wbuf \in Seq(Byte) /\ wbuf # <<>> /\ written \in Seq(Byte)
        BY DEF TypeOK, DataInv
    <2>2. /\ Head(wbuf) \in Byte /\ Tail(wbuf) \in Seq(Byte)
          /\ Len(Tail(wbuf)) = Len(wbuf) - 1 /\ Len(wbuf) \in Nat
        BY <2>1, HeadTailProperties, LenProperties
    <2>3. TypeOK'
        BY <1>0, <1>2, <2>1, <2>2, AppendProperties DEF TypeOK
    <2>4. DataInv'
        <3>1. Len(wbuf) = 1 <=> Tail(wbuf) = <<>>
            BY <2>2, EmptySeq
        <3> QED
            BY <1>2, <3>1 DEF DataInv
    <2>5. written' \o wbuf' = written \o wbuf
        <3>1. written' = written \o <<Head(wbuf)>>
            BY <1>2, <2>1, <2>2, AppendIsConcat
        <3>2. wbuf = <<Head(wbuf)>> \o Tail(wbuf)
            <4>1. 1 \in 1..Len(wbuf) /\ Len(wbuf) \in 1..Len(wbuf)
                BY <2>1, <2>2, EmptySeq
            <4>2. wbuf = <<wbuf[1]>> \o SubSeq(wbuf, 1 + 1, Len(wbuf))
                BY <2>1, <4>1, SubSeqFull, SubSeqRecursiveFirst
            <4>3. Tail(wbuf) = SubSeq(wbuf, 2, Len(wbuf))
                BY <2>1, TailIsSubSeq
            <4>4. Head(wbuf) = wbuf[1]
                BY <2>1
            <4> QED
                BY <4>2, <4>3, <4>4
        <3>3. <<Head(wbuf)>> \in Seq(Byte)
            BY <2>2
        <3> QED
            BY <1>2, <2>1, <2>2, <3>1, <3>2, <3>3, ConcatAssociative
    <2>6. LineFeedsTranslated'
        BY <2>5 DEF LineFeedsTranslated, Lf2cr, Translated
    <2> QED
        BY <2>3, <2>4, <2>6
<1> QED
    BY <1>1, <1>2

(* recv hands a part of the stream to the writer.                           *)
LEMMA RecvData ==
    ASSUME TypeOK, DataInv, LineFeedsTranslated, WriterRecv
    PROVE  TypeOK' /\ DataInv' /\ LineFeedsTranslated'
<1> USE DEF WriterRecv, resVars
<1>1. CASE wpc' = "shut" /\ UNCHANGED <<wbuf, last, got>>
    <2>1. TypeOK'
        BY <1>1 DEF TypeOK
    <2> QED
        BY <1>1, <2>1, DataFrame
<1>2. ASSUME NEW n \in got + 1 .. Len(sent), wpc' = "write", got' = n,
             wbuf' = IF Lf2cr THEN Convert(SubSeq(sent, got + 1, n), last)
                     ELSE SubSeq(sent, got + 1, n),
             last' = SubSeq(sent, got + 1, n)[Len(SubSeq(sent, got + 1, n))]
      PROVE  TypeOK' /\ DataInv' /\ LineFeedsTranslated'
    <2> DEFINE f == SubSeq(sent, 1, got)
               c == SubSeq(sent, got + 1, n)
               w == SubSeq(sent, 1, n)
    <2>1. /\ sent \in Seq(Byte) /\ Len(sent) \in Nat /\ got \in Nat /\ n \in Nat
          /\ got <= Len(sent) /\ got < n /\ n <= Len(sent)
        BY LenProperties DEF TypeOK
    <2>2. f \in Seq(Byte) /\ Len(f) = got /\ \A i \in 1..got : f[i] = sent[i]
        BY <2>1, PartOf
    <2>3. w \in Seq(Byte) /\ Len(w) = n /\ \A i \in 1..n : w[i] = sent[i]
        BY <2>1, PartOf
    <2>4. c \in Seq(Byte) /\ Len(c) = n - got /\ \A i \in 1 .. n - got : c[i] = sent[got + i]
        <3> DEFINE k == got + 1
        <3>1. k \in 1 .. Len(sent) + 1 /\ n \in 0..Len(sent) /\ k =< n /\ n - k + 1 = n - got
            BY <2>1
        <3>2. \A i \in 1 .. n - got : k + i - 1 = got + i
            BY <2>1
        <3>3. c = SubSeq(sent, k, n)
            OBVIOUS
        <3> HIDE DEF k, c
        <3>4. /\ c \in Seq(Byte) /\ Len(c) = n - k + 1
              /\ \A i \in 1 .. n - k + 1 : c[i] = sent[k + i - 1]
            BY <2>1, <3>1, <3>3, PartOf
        <3> QED
            BY <3>1, <3>2, <3>4
    <2> HIDE DEF f, c, w
    <2>5. last' = c[Len(c)] /\ wbuf' = IF Lf2cr THEN Convert(c, last) ELSE c
        BY <1>2 DEF c
    <2>6. wbuf' \in Seq(Byte) /\ Len(wbuf') = n - got /\ wbuf' # <<>>
        <3>1. wbuf' \in Seq(Byte) /\ Len(wbuf') = n - got
            BY <2>4, <2>5, ConvertIs
        <3> QED
            BY <2>1, <3>1, EmptySeq
    <2>7. last' = sent[n]
        <3>1. n - got \in 1 .. n - got /\ got + (n - got) = n
            BY <2>1
        <3> QED
            BY <2>4, <2>5, <3>1
    <2>8. TypeOK'
        <3>1. sent[n] \in Byte
            BY <2>1, ElementOfSeq
        <3>2. got' \in 0..Len(sent)
            BY <1>2, <2>1
        <3> QED
            BY <1>2, <2>6, <2>7, <3>1, <3>2 DEF TypeOK
    <2>9. DataInv'
        BY <1>2, <2>1, <2>6, <2>7 DEF DataInv
    <2>10. written \o wbuf = written /\ written \in Seq(Byte)
        BY ConcatEmptySeq DEF TypeOK, DataInv
    <2>11. /\ Len(w) = Len(f) + Len(c)
           /\ \A i \in 1..Len(f) : w[i] = f[i]
           /\ \A i \in 1..Len(c) : w[Len(f) + i] = c[i]
        <3>1. \A i \in 1..got : i \in 1..n
            BY <2>1
        <3>2. \A i \in 1 .. n - got : got + i \in 1..n
            BY <2>1
        <3>3. n = got + (n - got)
            BY <2>1
        <3> QED
            BY <2>2, <2>3, <2>4, <3>1, <3>2, <3>3
    <2>12. last = IF Len(f) = 0 THEN "x" ELSE f[Len(f)]
        <3>1. got # 0 => f[got] = sent[got]
            BY <2>1, <2>2
        <3> QED
            BY <2>2, <3>1 DEF DataInv
    <2>13. CASE Lf2cr
        <3>0. last \in Byte /\ f \in Seq(Byte) /\ c \in Seq(Byte) /\ w \in Seq(Byte)
            BY <2>2, <2>3, <2>4 DEF TypeOK
        <3>1. Translated(w) = Translated(f) \o Convert(c, last)
            BY <2>11, <2>12, <3>0, ConvertExtends
        <3>2. written = Translated(f)
            BY <2>10, <2>13 DEF LineFeedsTranslated, f
        <3> QED
            BY <1>2, <2>5, <2>8, <2>9, <2>13, <3>1, <3>2
               DEF LineFeedsTranslated, Lf2cr, w
    <2>14. CASE ~Lf2cr
        <3>1. w = f \o c
            BY <2>2, <2>3, <2>4, <2>11, Joined
        <3>2. written = f
            BY <2>10, <2>14 DEF LineFeedsTranslated, f
        <3> QED
            BY <1>2, <2>5, <2>8, <2>9, <2>14, <3>1, <3>2
               DEF LineFeedsTranslated, Lf2cr, w
    <2> QED
        BY <2>13, <2>14
<1> QED
    BY <1>1, <1>2

-----------------------------------------------------------------------------
(* The types of the handles and references, and of the labels.              *)
ResType ==
    /\ h \in [Handle -> {"none", "open", "closed"}] /\ misuse \subseteq Handle
    /\ sv \in [1..2 -> {"none", "open", "closed"}]
    /\ mem \in [{"self", "pp"} -> {"none", "live", "freed"}]
LabelType ==
    /\ tpc \in {"alloc", "pipe", "pty", "attr", "proc", "dup", "waiter",
                "closePty", "raw", "bridge", "reader", "writer", "unref",
                "splice", "restore", "closeIo", "kill", "done"}
    /\ rpc \in {"none", "read", "send", "shut", "unref", "end"}
    /\ wpc \in {"none", "recv", "write", "shut", "unref", "end"}
    /\ apc \in {"none", "wait", "closePty", "end"}

(* The steps that neither send, receive nor write.                          *)
Quiet == \/ Setup \/ Splice \/ Reader \/ WriterShut \/ WriterUnref \/ Waiter
         \/ Produce \/ Consume \/ ShellExit

LEMMA QuietRes == ASSUME ResType, mode \in {"term", "console", "stdio"}, Quiet PROVE ResType'
<1> USE DEF ResType, resVars
<1>1. ASSUME NEW H, H \subseteq Handle, CloseH(H)
      PROVE  h' \in [Handle -> {"none", "open", "closed"}] /\ misuse' \subseteq Handle
    BY <1>1 DEF CloseH
<1>2. ASSUME NEW H, OpenH(H) PROVE h' \in [Handle -> {"none", "open", "closed"}]
    BY <1>2 DEF OpenH
<1>3. ASSUME NEW H, H \subseteq {"pty"}, StartFails(H)
      PROVE  /\ h' \in [Handle -> {"none", "open", "closed"}] /\ misuse' \subseteq Handle
             /\ mem' \in [{"self", "pp"} -> {"none", "live", "freed"}]
    BY <1>1, <1>3 DEF StartFails, Handle
<1>4. (IF Own THEN {In, Out} ELSE {}) \subseteq Handle
    BY DEF In, Out, Handle
<1>5. CASE Setup
    <2>1. CASE Alloc
        BY <2>1 DEF Alloc
    <2>2. CASE CreatePipes
        BY <1>2, <1>3, <2>2 DEF CreatePipes
    <2>3. CASE CreatePty
        BY <1>3, <2>3 DEF CreatePty
    <2>4. CASE AttrList
        BY <1>3, <2>4 DEF AttrList
    <2>5. CASE CreateShell
        BY <1>2, <1>3, <2>5 DEF CreateShell
    <2>6. CASE Duplicate
        BY <1>2, <2>6 DEF Duplicate
    <2>7. CASE SpawnWaiter \/ ConsoleRaw \/ ConsoleRestore
        BY <2>7 DEF SpawnWaiter, ConsoleRaw, ConsoleRestore
    <2>8. CASE ReleaseByHand
        <3> DEFINE H == {"pty", "proc", "in_w", "out_r"}
                        \cup (IF "dup" \in failed THEN {} ELSE {"dup"})
        <3>1. H \subseteq Handle /\ CloseH(H)
            BY <2>8 DEF ReleaseByHand, Handle
        <3> QED
            BY <1>1, <2>8, <3>1 DEF ReleaseByHand
    <2>9. CASE BridgeNew \/ SpawnReader
        <3>1. \/ UNCHANGED <<sv, mem>>
              \/ sv' = <<"open", "open">> /\ mem' = [mem EXCEPT !["self"] = "live"]
              \/ sv' = <<"closed", "closed">> /\ mem' = [mem EXCEPT !["self"] = "freed"]
            BY <2>9 DEF BridgeNew, SpawnReader
        <3>2. UNCHANGED <<h, misuse>>
            BY <2>9 DEF BridgeNew, SpawnReader
        <3> QED
            BY <3>1, <3>2
    <2>10. CASE SpawnWriter
        <3>1. \/ UNCHANGED <<sv, mem, h, misuse>>
              \/ /\ sv' = <<"closed", "closed">> /\ mem' = [mem EXCEPT !["self"] = "freed"]
                 /\ CloseH(IF Own THEN {In, Out} ELSE {})
              \/ sv' = [sv EXCEPT ![1] = "closed"] /\ UNCHANGED <<mem, h, misuse>>
            BY <2>10 DEF SpawnWriter
        <3>2. CASE UNCHANGED <<sv, mem, h, misuse>>
            BY <3>2
        <3>3. CASE /\ sv' = <<"closed", "closed">> /\ mem' = [mem EXCEPT !["self"] = "freed"]
                   /\ CloseH(IF Own THEN {In, Out} ELSE {})
            BY <1>1, <1>4, <3>3
        <3>4. CASE sv' = [sv EXCEPT ![1] = "closed"] /\ UNCHANGED <<mem, h, misuse>>
            BY <3>4
        <3> QED
            BY <3>1, <3>2, <3>3, <3>4
    <2>11. CASE BridgeDone
        BY <1>1, <1>4, <2>11 DEF BridgeDone, Unref
    <2>12. CASE CloseIo
        BY <1>1, <2>12 DEF CloseIo, Handle
    <2>13. CASE Kill
        BY <1>1, <2>13 DEF Kill, Handle
    <2> QED
        BY <1>5, <2>1, <2>2, <2>3, <2>4, <2>5, <2>6, <2>7, <2>8, <2>9, <2>10, <2>11,
           <2>12, <2>13 DEF Setup
<1>6. CASE Splice
    BY <1>6 DEF Splice, SpliceRead, EndSplice
<1>7. CASE ReaderRead
    BY <1>7 DEF ReaderRead, In, Handle
<1>8. CASE ReaderSend \/ ReaderShut \/ WriterShut \/ WaiterWait
    BY <1>8 DEF ReaderSend, ReaderShut, WriterShut, WaiterWait
<1>9. CASE ReaderUnref \/ WriterUnref
    BY <1>1, <1>4, <1>9 DEF ReaderUnref, WriterUnref, Unref
<1>10. CASE WaiterRelease
    BY <1>1, <1>10 DEF WaiterRelease, Handle
<1>11. CASE Produce \/ Consume \/ ShellExit
    BY <1>11 DEF Produce, Consume, ShellExit
<1> QED
    BY <1>5, <1>6, <1>7, <1>8, <1>9, <1>10, <1>11 DEF Quiet, Reader, Waiter

LEMMA QuietLabel ==
    ASSUME LabelType, mode \in {"term", "console", "stdio"}, Quiet PROVE LabelType'
<1> USE DEF LabelType, thrVars, resVars, dataVars
<1>1. AfterBridge(TRUE) \/ AfterBridge(FALSE) =>
        tpc' \in {"kill", "closeIo", "restore", "done"}
    BY DEF AfterBridge
<1>2. CASE Setup
    <2>1. CASE Alloc \/ CreatePipes \/ CreatePty
        BY <2>1 DEF Alloc, CreatePipes, CreatePty, StartFails
    <2>2. CASE AttrList \/ CreateShell
        BY <2>2 DEF AttrList, CreateShell, StartFails
    <2>3. CASE Duplicate \/ SpawnWaiter
        BY <2>3 DEF Duplicate, SpawnWaiter
    <2>4. CASE ReleaseByHand
        BY <2>4 DEF ReleaseByHand, LastOutput
    <2>5. CASE ConsoleRaw \/ ConsoleRestore \/ CloseIo
        BY <2>5 DEF ConsoleRaw, ConsoleRestore, CloseIo
    <2>6. CASE BridgeNew \/ SpawnReader
        BY <1>1, <2>6 DEF BridgeNew, SpawnReader
    <2>7. CASE SpawnWriter
        BY <1>1, <2>7 DEF SpawnWriter
    <2>8. CASE BridgeDone
        BY <2>8 DEF BridgeDone
    <2>9. CASE Kill
        BY <2>9 DEF Kill
    <2> QED
        BY <1>2, <2>1, <2>2, <2>3, <2>4, <2>5, <2>6, <2>7, <2>8, <2>9 DEF Setup
<1>3. CASE Splice
    BY <1>1, <1>3 DEF Splice, SpliceRead, EndSplice
<1>4. CASE Reader
    BY <1>4 DEF Reader, ReaderRead, ReaderSend, ReaderShut, ReaderUnref
<1>5. CASE WriterShut \/ WriterUnref
    BY <1>5 DEF WriterShut, WriterUnref
<1>6. CASE Waiter
    BY <1>6 DEF Waiter, WaiterWait, WaiterRelease, LastOutput
<1>7. CASE Produce \/ Consume \/ ShellExit
    BY <1>7 DEF Produce, Consume, ShellExit
<1> QED
    BY <1>2, <1>3, <1>4, <1>5, <1>6, <1>7 DEF Quiet

(* What else they may change: no byte moves to, within or from the writer.  *)
LEMMA QuietData ==
    ASSUME ThreadInv, Quiet
    PROVE  /\ UNCHANGED <<mode, sent, got, wbuf, last, written>>
           /\ drop' = drop \/ drop' = TRUE
           /\ outp' = outp \/ outp' = 0 \/ outp' = 1
           /\ inp' = inp \/ inp' = 0
           /\ up' = up \/ up' = 0 \/ up' = 1
           /\ shell' = shell \/ shell' \in {"running", "dead"}
           /\ con' = con \/ con' \in {"cooked", "raw"}
           /\ shut' \subseteq shut \cup {"send", "recv"}
           /\ failed' \subseteq failed \cup {"attr", "dup", "waiter", "writer"}
           /\ \/ wpc' = wpc
              \/ wpc = "none" /\ wpc' = "recv"
              \/ wpc' \in {"shut", "unref", "end"}
<1> USE DEF thrVars, resVars, dataVars
<1>1. CASE Setup
    <2>1. CASE Alloc \/ CreatePipes \/ CreatePty \/ AttrList \/ CreateShell
        BY <2>1 DEF Alloc, CreatePipes, CreatePty, AttrList, CreateShell
    <2>2. CASE Duplicate \/ SpawnWaiter \/ ReleaseByHand \/ ConsoleRaw \/ ConsoleRestore
        BY <2>2 DEF Duplicate, SpawnWaiter, ReleaseByHand, LastOutput, ConsoleRaw,
                    ConsoleRestore
    <2>3. CASE BridgeNew \/ SpawnReader \/ BridgeDone \/ CloseIo \/ Kill
        BY <2>3 DEF BridgeNew, SpawnReader, BridgeDone, CloseIo, Kill
    <2>4. CASE SpawnWriter
        <3>1. UNCHANGED <<mode, sent, got, wbuf, last, written, drop, outp, inp, up, shell,
                          con>>
            BY <2>4 DEF SpawnWriter
        <3>2. wpc' = wpc \/ (wpc' = "recv" /\ tpc = "writer" /\ tpc' = "unref")
            BY <2>4 DEF SpawnWriter
        <3>3. shut' \subseteq shut \cup {"send", "recv"}
            BY <2>4 DEF SpawnWriter
        <3>4. failed' \subseteq failed \cup {"attr", "dup", "waiter", "writer"}
            BY <2>4 DEF SpawnWriter
        <3> QED
            BY <3>1, <3>2, <3>3, <3>4 DEF ThreadInv
    <2> QED
        BY <1>1, <2>1, <2>2, <2>3, <2>4 DEF Setup
<1>2. CASE Splice \/ Reader
    BY <1>2 DEF Splice, SpliceRead, EndSplice, Reader, ReaderRead, ReaderSend, ReaderShut,
                ReaderUnref
<1>3. CASE WriterShut \/ WriterUnref \/ Waiter
    BY <1>3 DEF WriterShut, WriterUnref, Waiter, WaiterWait, WaiterRelease, LastOutput
<1>4. CASE Produce \/ Consume \/ ShellExit
    BY <1>4 DEF Produce, Consume, ShellExit
<1> QED
    BY <1>1, <1>2, <1>3, <1>4 DEF Quiet

-----------------------------------------------------------------------------
(* BridgeInv holds initially and in every step.                             *)
LEMMA BridgeInit == Init => BridgeInv
<1> SUFFICES ASSUME Init PROVE BridgeInv
    OBVIOUS
<1>0. <<>> \in Seq(Byte) /\ Len(<<>>) = 0
    OBVIOUS
<1>1. tpc \in {"alloc", "raw", "bridge"} /\ (mode = "term" <=> tpc = "alloc")
      /\ (mode = "console" <=> tpc = "raw")
    BY DEF Init
<1>2. /\ h \in [Handle -> {"none", "open"}]
      /\ \A x \in Handle : mode = "term" \/ x \notin {"con_in", "con_out"} => h[x] = "none"
    <2>1. PICK G \in SUBSET {"con_in", "con_out"} :
              /\ mode = "term" => G = {}
              /\ h = [x \in Handle |-> IF x \in G THEN "open" ELSE "none"]
        BY DEF Init
    <2> QED
        BY <2>1
<1>3. TypeOK
    <2>1. drop \in BOOLEAN
        BY DEF Init
    <2>2. ResType /\ LabelType
        BY <1>1, <1>2 DEF Init, ResType, LabelType
    <2>3. sent \in Seq(Byte) /\ Len(sent) <= MaxIn /\ got \in 0..Len(sent)
          /\ wbuf \in Seq(Byte) /\ last \in Byte /\ written \in Seq(Byte)
        BY <1>0, MaxInAssumption DEF Init, Byte
    <2>4. /\ mode \in {"term", "console", "stdio"} /\ shut = {} /\ refs = 0
          /\ shell = "none" /\ con = "cooked" /\ outp = 0 /\ inp = 0 /\ up = 0
          /\ failed = {}
        BY DEF Init
    <2> QED
        BY <2>1, <2>2, <2>3, <2>4 DEF TypeOK, ResType, LabelType
<1>4. RefInv /\ ThreadInv /\ HandlesOnce
    BY <1>1 DEF Init, RefInv, ThreadInv, HandlesOnce, Running, StartLabel, BridgeLabel
<1>5. ConsoleInv
    BY <1>1, <1>2 DEF Init, ConsoleInv, BridgeLabel, Running, Handle
<1>6. StartInv /\ ShellInv /\ IoInv
    BY <1>1, <1>2
       DEF Init, StartInv, ShellInv, IoInv, IsOpen, NotOpen, StartLabel, BridgeLabel, Handle
<1>7. DataInv
    BY DEF Init, DataInv
<1>8. LineFeedsTranslated
    <2>1. SubSeq(sent, 1, got) = <<>> /\ written \o wbuf = <<>>
        BY <1>0, SubSeqEmpty, ConcatEmptySeq DEF Init
    <2>2. Translated(<<>>) = <<>>
        <3>1. Translated(<<>>) \in Seq(Byte) /\ Len(Translated(<<>>)) = 0
            BY <1>0, TranslatedIs
        <3> QED
            BY <3>1, EmptySeq
    <2> QED
        BY <2>1, <2>2 DEF LineFeedsTranslated
<1> QED
    BY <1>3, <1>4, <1>5, <1>6, <1>7, <1>8 DEF BridgeInv, ControlInv

LEMMA BridgeNext == BridgeInv /\ [Next]_vars => BridgeInv'
<1> SUFFICES ASSUME BridgeInv, [Next]_vars PROVE BridgeInv'
    OBVIOUS
<1>0. TypeOK /\ ControlInv /\ DataInv /\ LineFeedsTranslated /\ ThreadInv
    BY DEF BridgeInv, ControlInv
<1>1. CASE Quiet
    <2>1. ControlInv'
        <3>1. CASE ReaderUnref \/ WriterUnref \/ BridgeDone
            BY <1>0, <3>1, UnrefControl DEF ReaderUnref, WriterUnref, BridgeDone
        <3> QED
            BY <1>0, <1>1, <3>1, StartControl, TaskControl, SpawnWriterControl, CallControl,
               WaiterControl DEF Quiet, Setup, Splice, Reader, Waiter
    <2>2. RefInv'
        BY <2>1 DEF ControlInv
    <2>3. TypeOK'
        <3>1. ResType' /\ LabelType'
            BY <1>0, <1>1, QuietRes, QuietLabel DEF TypeOK, ResType, LabelType
        <3>2. refs' \in 0..3
            BY <2>2 DEF RefInv
        <3>3. drop' \in BOOLEAN
            BY <1>0, <1>1, QuietData, Zenon DEF TypeOK
        <3>4. /\ mode' \in {"term", "console", "stdio"}
              /\ sent' \in Seq(Byte) /\ Len(sent') <= MaxIn
              /\ got' \in 0..Len(sent')
              /\ wbuf' \in Seq(Byte) /\ last' \in Byte /\ written' \in Seq(Byte)
            BY <1>0, <1>1, QuietData DEF TypeOK
        <3>5. outp' \in 0..1 /\ inp' \in 0..1 /\ up' \in 0..1
            <4>1. outp \in 0..1 /\ inp \in 0..1 /\ up \in 0..1
                BY <1>0 DEF TypeOK
            <4>2. /\ outp' = outp \/ outp' = 0 \/ outp' = 1
                  /\ inp' = inp \/ inp' = 0
                  /\ up' = up \/ up' = 0 \/ up' = 1
                BY <1>0, <1>1, QuietData
            <4> QED
                BY <4>1, <4>2
        <3>6. shell' \in {"none", "running", "dead"} /\ con' \in {"cooked", "raw"}
            BY <1>0, <1>1, QuietData DEF TypeOK
        <3>7. shut' \subseteq {"send", "recv"}
              /\ failed' \subseteq {"attr", "dup", "waiter", "writer"}
            <4>1. shut \subseteq {"send", "recv"}
                  /\ failed \subseteq {"attr", "dup", "waiter", "writer"}
                BY <1>0 DEF TypeOK
            <4> QED
                BY <1>0, <1>1, <4>1, QuietData
        <3> QED
            BY <3>1, <3>2, <3>3, <3>4, <3>5, <3>6, <3>7 DEF TypeOK, ResType, LabelType
    <2>4. DataInv' /\ LineFeedsTranslated'
        BY <1>0, <1>1, QuietData, DataFrame
    <2> QED
        BY <2>1, <2>3, <2>4 DEF BridgeInv
<1>2. CASE (\E ch \in Byte : SpliceWrite(ch)) \/ WriterRecv \/ WriterWrite
    <2>1. ControlInv'
        BY <1>0, <1>2, CallControl
    <2>2. TypeOK' /\ DataInv' /\ LineFeedsTranslated'
        BY <1>0, <1>2, SendData, RecvData, WriteData
    <2> QED
        BY <2>1, <2>2 DEF BridgeInv
<1>3. CASE UNCHANGED vars
    <2> USE <1>3 DEF vars, thrVars, resVars, dataVars
    <2>1. TypeOK'
        BY <1>0 DEF TypeOK
    <2>2. ControlInv'
        BY <1>0, FrameControl
    <2>3. DataInv' /\ LineFeedsTranslated'
        BY <1>0, DataFrame
    <2> QED
        BY <2>1, <2>2, <2>3 DEF BridgeInv
<1> QED
    BY <1>1, <1>2, <1>3 DEF Next, Quiet, Writer

LEMMA BridgeInvariant == Spec => []BridgeInv
    BY BridgeInit, BridgeNext, PTL DEF Spec

(* The bridge and its users keep their types.                               *)
THEOREM BridgeTypeCorrect == Spec => []TypeOK
<1>1. BridgeInv => TypeOK
    BY DEF BridgeInv
<1> QED
    BY <1>1, BridgeInvariant, PTL

(* The reference count is the number of actors that use the bridge, and its *)
(* memory and descriptor live exactly as long as there is one.              *)
THEOREM BridgeCountsUsers == Spec => []RefsCountUsers
<1>1. BridgeInv => RefsCountUsers
    <2> SUFFICES ASSUME BridgeInv PROVE RefsCountUsers
        OBVIOUS
    <2>1. RefInv
        BY DEF BridgeInv, ControlInv
    <2>2. /\ "task" \in Users <=> tpc \in BridgeLabel
          /\ "reader" \in Users <=> Running(rpc)
          /\ "writer" \in Users <=> Running(wpc)
          /\ Users # {} <=> \/ "task" \in Users \/ "reader" \in Users
                            \/ "writer" \in Users
        BY DEF Users, BridgeLabel
    <2> HIDE DEF Users
    <2>3. refs > 0 <=> Users # {}
        BY <2>1, <2>2 DEF RefInv
    <2> QED
        BY <2>1, <2>2, <2>3 DEF RefInv, RefsCountUsers
<1> QED
    BY <1>1, BridgeInvariant, PTL

(* No handle is closed twice, or used when it is not open, by any of the    *)
(* four actors, as long as hev_bridge_new could start its writer.           *)
THEOREM BridgeClosesOnce == Spec => []HandlesOnce
<1>1. BridgeInv => HandlesOnce
    BY DEF BridgeInv, ControlInv
<1> QED
    BY <1>1, BridgeInvariant, PTL

(* Whichever of the four actors ends last, nothing is left open, allocated  *)
(* or running, and the console is as it was.                                *)
THEOREM BridgeEndsClean == Spec => []EndReleasesAll
<1>1. BridgeInv => EndReleasesAll
    <2> SUFFICES ASSUME BridgeInv, Ended PROVE AllReleased
        BY DEF EndReleasesAll
    <2> USE DEF BridgeInv, ControlInv, Ended
    <2>1. refs = 0 /\ sv[2] # "open" /\ mem["self"] # "live"
        BY DEF RefInv, Running, BridgeLabel
    <2>2. sv[1] # "open"
        BY DEF ThreadInv, BridgeLabel
    <2>3. CASE mode # "term"
        BY <2>1, <2>2, <2>3 DEF ConsoleInv, AllReleased, Handle, TypeOK
    <2>4. CASE mode = "term"
        <3>1. con = "cooked"
            BY <2>4 DEF StartInv
        <3>2. CASE apc = "none"
            BY <2>1, <2>2, <2>4, <3>1, <3>2 DEF StartInv, AllReleased, NotOpen
        <3>3. CASE apc = "end"
            <4>1. NotOpen({"in_r", "out_w", "dup", "pty", "proc", "in_w", "out_r"})
                BY <2>1, <2>4, <3>3 DEF ShellInv, IoInv, NotOpen
            <4>2. mem["pp"] # "live" /\ shell = "dead"
                BY <2>4, <3>3 DEF ShellInv
            <4>3. h["con_in"] = "none" /\ h["con_out"] = "none"
                BY <2>4 DEF StartInv
            <4> QED
                BY <2>1, <2>2, <2>4, <3>1, <4>1, <4>2, <4>3 DEF AllReleased, NotOpen, Handle
        <3> QED
            BY <3>2, <3>3 DEF TypeOK, Running
    <2> QED
        BY <2>3, <2>4
<1> QED
    BY <1>1, BridgeInvariant, PTL

(* However the stream is cut into reads and writes, the console receives    *)
(* the translation of the whole.                                            *)
THEOREM BridgeTranslates == Spec => []LineFeedsTranslated
<1>1. BridgeInv => LineFeedsTranslated
    BY DEF BridgeInv
<1> QED
    BY <1>1, BridgeInvariant, PTL

=============================================================================
