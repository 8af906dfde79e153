------------------------------ MODULE Bridge ------------------------------
(***************************************************************************)
(* The Windows bridge (misc/hev-bridge.c) and its users: the pseudo        *)
(* console of hev-fsh-client-term-accept.c ("term"), the console of        *)
(* hev-fsh-client-term-connect.c ("console") and the standard handles of   *)
(* hev-fsh-client-port-connect.c ("stdio").                                *)
(*                                                                         *)
(* Four actors run in parallel: the client's task, the bridge's reader and *)
(* writer threads and the thread that waits for the shell.  The shell, the *)
(* console host and the kernel are external.  A thread's action is what it *)
(* does between two calls that another actor can observe.                  *)
(***************************************************************************)
EXTENDS Naturals, Sequences

CONSTANT MaxIn      \* bytes the remote user types; bounds the model

ASSUME MaxInAssumption == MaxIn \in Nat

Handle == {"in_r", "in_w", "out_r", "out_w", "pty", "proc", "dup",
           "con_in", "con_out"}
Byte   == {"x", "CR", "LF"}

VARIABLES
    mode,       \* the user of the bridge
    tpc,        \* the task: the call it is about to make
    rpc, wpc,   \* hev_bridge_reader, hev_bridge_writer
    apc,        \* hev_pty_proc_waiter
    h,          \* handles: "none" (NULL), "open" or "closed"
    misuse,     \* handles that were used or closed when not open
    sv,         \* the socket pair: sv[0] is the task's, sv[1] the workers'
    shut,       \* directions of sv[1] that were shut down
    mem,        \* HevBridge and HevPtyProc: "none", "live" or "freed"
    refs,       \* self->refs
    shell,      \* the shell process
    con,        \* the console's mode
    outp, inp,  \* bytes in the pipes from and to the console (at most one)
    up,         \* bytes in the socket to the task (at most one)
    drop,       \* hev_bridge_reader's drop
    sent,       \* all bytes the task sent to the bridge
    got,        \* how many of them the writer has received
    wbuf, last, \* hev_bridge_writer's converted buffer and last
    written,    \* all bytes written to the console
    failed      \* the resource failures that matter to a property

thrVars  == <<tpc, rpc, wpc, apc>>
resVars  == <<h, misuse, sv, shut, mem, refs>>
dataVars == <<outp, inp, up, drop, sent, got, wbuf, last, written>>
vars == <<mode, thrVars, resVars, shell, con, dataVars, failed>>

Own   == mode = "term"                  \* HEV_BRIDGE_OWN
Drain == mode = "term"                  \* HEV_BRIDGE_DRAIN
Lf2cr == mode = "term"                  \* HEV_BRIDGE_LF2CR
In    == IF mode = "term" THEN "out_r" ELSE "con_in"
Out   == IF mode = "term" THEN "in_w" ELSE "con_out"

Init ==
    /\ mode \in {"term", "console", "stdio"}
    /\ tpc = CASE mode = "term" -> "alloc" [] mode = "console" -> "raw"
               [] OTHER -> "bridge"
    /\ rpc = "none" /\ wpc = "none" /\ apc = "none"
    /\ \E G \in SUBSET {"con_in", "con_out"} :
          /\ mode = "term" => G = {}
          /\ mode = "console" => G = {"con_in", "con_out"}
          /\ h = [x \in Handle |-> IF x \in G THEN "open" ELSE "none"]
    /\ misuse = {}
    /\ sv = <<"none", "none">> /\ shut = {}
    /\ mem = [x \in {"self", "pp"} |-> "none"] /\ refs = 0
    /\ shell = "none" /\ con = "cooked"
    /\ outp = 0 /\ inp = 0 /\ up = 0 /\ drop = FALSE
    /\ sent = <<>> /\ got = 0 /\ wbuf = <<>> /\ last = "x" /\ written = <<>>
    /\ failed = {}

-----------------------------------------------------------------------------
(* Handles and references.                                                  *)

(* CreatePipe, CreatePseudoConsole, CreateProcess, DuplicateHandle.         *)
OpenH(H) == h' = [x \in Handle |-> IF x \in H THEN "open" ELSE h[x]]

(* CloseHandle on each of H.                                                *)
CloseH(H) ==
    /\ h' = [x \in Handle |-> IF x \in H THEN "closed" ELSE h[x]]
    /\ misuse' = misuse \cup {x \in H : h[x] # "open"}

(* Mutant: the last reference does not close the descriptor.                *)
UnrefKeepsFd ==
    /\ refs' = refs - 1
    /\ IF refs = 1
       THEN /\ CloseH(IF Own THEN {In, Out} ELSE {})
            /\ mem' = [mem EXCEPT !["self"] = "freed"]
       ELSE UNCHANGED <<mem, h, misuse>>
    /\ UNCHANGED sv

(* Mutant: the handles are closed by whoever leaves first.                  *)
UnrefClosesEarly ==
    /\ refs' = refs - 1
    /\ CloseH(IF Own /\ refs < 3 THEN {In, Out} ELSE {})
    /\ IF refs = 1
       THEN sv' = [sv EXCEPT ![2] = "closed"] /\ mem' = [mem EXCEPT !["self"] = "freed"]
       ELSE UNCHANGED <<sv, mem>>

(* hev_bridge_unref: the last reference closes sv[1] and the owned handles. *)
Unref ==
    /\ refs' = refs - 1
    /\ IF refs = 1
       THEN /\ sv' = [sv EXCEPT ![2] = "closed"]
            /\ CloseH(IF Own THEN {In, Out} ELSE {})
            /\ mem' = [mem EXCEPT !["self"] = "freed"]
       ELSE UNCHANGED <<sv, mem, h, misuse>>

-----------------------------------------------------------------------------
(* hev_pty_proc_start.                                                      *)

(* calloc of pp and hev_task_call_new.                                      *)
Alloc ==
    /\ tpc = "alloc"
    /\ \/ tpc' = "pipe" /\ mem' = [mem EXCEPT !["pp"] = "live"]
       \/ tpc' = "done" /\ UNCHANGED mem
       \/ tpc' = "done" /\ mem' = [mem EXCEPT !["pp"] = "freed"]
    /\ UNCHANGED <<mode, rpc, wpc, apc, h, misuse, sv, shut, refs, shell, con,
                   dataVars, failed>>

(* The labels fail and fail_pty, then the caller frees pp.                  *)
StartFails(H) ==
    /\ tpc' = "done"
    /\ CloseH(H \cup {x \in {"in_r", "in_w", "out_r", "out_w"} : h[x] = "open"})
    /\ mem' = [mem EXCEPT !["pp"] = "freed"]

(* CreatePipe twice.                                                        *)
CreatePipes ==
    /\ tpc = "pipe"
    /\ \/ /\ h["in_r"] = "none"
          /\ OpenH({"in_r", "in_w"}) /\ UNCHANGED <<tpc, misuse, mem>>
       \/ /\ h["in_r"] = "open"
          /\ tpc' = "pty" /\ OpenH({"out_r", "out_w"}) /\ UNCHANGED <<misuse, mem>>
       \/ StartFails({})
    /\ UNCHANGED <<mode, rpc, wpc, apc, sv, shut, refs, shell, con, dataVars,
                   failed>>

(* CreatePseudoConsole; it duplicates its ends, ours are closed.            *)
CreatePty ==
    /\ tpc = "pty"
    /\ \/ /\ tpc' = "attr"
          /\ h' = [h EXCEPT !["pty"] = "open", !["in_r"] = "closed",
                            !["out_w"] = "closed"]
          /\ UNCHANGED <<misuse, mem>>
       \/ StartFails({})
    /\ UNCHANGED <<mode, rpc, wpc, apc, sv, shut, refs, shell, con, dataVars,
                   failed>>

(* The attribute list: a failed malloc leaves by the label fail, which does *)
(* not close the pseudo console; the later failures leave by fail_pty.      *)
AttrList ==
    /\ tpc = "attr"
    /\ \/ tpc' = "proc" /\ UNCHANGED <<h, misuse, mem, failed>>
       \/ StartFails({}) /\ failed' = failed \cup {"attr"}
       \/ StartFails({"pty"}) /\ UNCHANGED failed
    /\ UNCHANGED <<mode, rpc, wpc, apc, sv, shut, refs, shell, con, dataVars>>

(* CreateProcessW.                                                          *)
CreateShell ==
    /\ tpc = "proc"
    /\ \/ tpc' = "dup" /\ shell' = "running" /\ OpenH({"proc"})
          /\ UNCHANGED <<misuse, mem>>
       \/ StartFails({"pty"}) /\ UNCHANGED shell
    /\ UNCHANGED <<mode, rpc, wpc, apc, sv, shut, refs, con, dataVars, failed>>

-----------------------------------------------------------------------------
(* hev_fsh_client_term_accept_task_entry after the start of the shell.      *)

Duplicate ==
    /\ tpc = "dup"
    /\ tpc' = "waiter"
    /\ \/ OpenH({"dup"}) /\ UNCHANGED failed
       \/ UNCHANGED h /\ failed' = failed \cup {"dup"}
    /\ UNCHANGED <<mode, rpc, wpc, apc, misuse, sv, shut, mem, refs, shell, con,
                   dataVars>>

(* CreateThread of the waiter, or the release by hand up to its last wait,  *)
(* TerminateProcess and WaitForSingleObject.                                *)
SpawnWaiter ==
    /\ tpc = "waiter"
    /\ \/ tpc' = "bridge" /\ apc' = "wait" /\ UNCHANGED <<shell, failed>>
       \/ /\ tpc' = "closePty" /\ shell' = "dead"
          /\ failed' = failed \cup {"waiter"}
          /\ UNCHANGED apc
    /\ UNCHANGED <<mode, rpc, wpc, resVars, con, dataVars>>

(* ClosePseudoConsole returns when the console host has written its last    *)
(* output (external): it waits for room in the pipe unless the read end is  *)
(* closed.                                                                  *)
PtyMayClose == outp = 0 \/ h["out_r"] = "closed"

(* What the console host writes while it ends.                              *)
LastOutput == outp' \in (IF h["out_r"] = "open" THEN {outp, 1} ELSE {0})

(* The rest of the release by hand.                                         *)
ReleaseByHand ==
    /\ tpc = "closePty" /\ PtyMayClose
    /\ tpc' = "done"
    /\ LastOutput
    /\ CloseH({"pty", "proc", "in_w", "out_r"}
              \cup (IF "dup" \in failed THEN {} ELSE {"dup"}))
    /\ mem' = [mem EXCEPT !["pp"] = "freed"]
    /\ UNCHANGED <<mode, rpc, wpc, apc, sv, shut, refs, shell, con, inp,
                   up, drop, sent, got, wbuf, last, written, failed>>

(* Mutant: the pseudo console is not closed when the shell exits.           *)
WaiterKeepsPty ==
    /\ apc = "closePty" /\ PtyMayClose
    /\ apc' = "end"
    /\ LastOutput
    /\ CloseH({"proc"})
    /\ mem' = [mem EXCEPT !["pp"] = "freed"]
    /\ UNCHANGED <<mode, tpc, rpc, wpc, sv, shut, refs, shell, con, inp, up,
                   drop, sent, got, wbuf, last, written, failed>>

(* hev_pty_proc_waiter: the wait for the shell, then the release of pp.     *)
WaiterWait ==
    /\ apc = "wait" /\ shell = "dead"
    /\ apc' = "closePty"
    /\ UNCHANGED <<mode, tpc, rpc, wpc, resVars, shell, con, dataVars, failed>>

WaiterRelease ==
    /\ apc = "closePty" /\ PtyMayClose
    /\ apc' = "end"
    /\ LastOutput
    /\ CloseH({"pty", "proc"})
    /\ mem' = [mem EXCEPT !["pp"] = "freed"]
    /\ UNCHANGED <<mode, tpc, rpc, wpc, sv, shut, refs, shell, con, inp, up,
                   drop, sent, got, wbuf, last, written, failed>>

(* TerminateProcess and CloseHandle of the duplicate, if there is one.      *)
Kill ==
    /\ tpc = "kill"
    /\ tpc' = "done"
    /\ IF "dup" \in failed THEN UNCHANGED <<h, misuse, shell>>
       ELSE CloseH({"dup"}) /\ shell' = "dead"
    /\ UNCHANGED <<mode, rpc, wpc, apc, sv, shut, mem, refs, con, dataVars, failed>>

-----------------------------------------------------------------------------
(* hev_fsh_client_term_connect_task_entry (Windows).                        *)

(* console_raw: a failure leaves the console as it was.                     *)
ConsoleRaw ==
    /\ tpc = "raw"
    /\ \/ tpc' = "bridge" /\ con' = "raw"
       \/ tpc' = "done" /\ UNCHANGED con
    /\ UNCHANGED <<mode, rpc, wpc, apc, resVars, shell, dataVars, failed>>

(* What the task does next once the bridge failed or its splice ended.      *)
AfterBridge(ok) ==
    /\ tpc' = CASE mode = "term" /\ ok -> "kill"
                [] mode = "term" /\ ~ok -> "closeIo"
                [] mode = "console" -> "restore"
                [] mode = "stdio" -> "done"

ConsoleRestore ==
    /\ tpc = "restore"
    /\ tpc' = "done" /\ con' = "cooked"
    /\ UNCHANGED <<mode, rpc, wpc, apc, resVars, shell, dataVars, failed>>

(* pfd < 0: the caller closes the handles itself.                           *)
CloseIo ==
    /\ tpc = "closeIo"
    /\ tpc' = "kill"
    /\ CloseH({"in_w", "out_r"})
    /\ UNCHANGED <<mode, rpc, wpc, apc, sv, shut, mem, refs, shell, con, dataVars,
                   failed>>

-----------------------------------------------------------------------------
(* hev_bridge_new.                                                          *)

(* The socket pair, calloc and ioctlsocket; on failure both ends are closed *)
(* again.                                                                   *)
BridgeNew ==
    /\ tpc = "bridge"
    /\ \/ /\ tpc' = "reader"
          /\ sv' = <<"open", "open">>
          /\ mem' = [mem EXCEPT !["self"] = "live"] /\ refs' = 1
       \/ AfterBridge(FALSE) /\ UNCHANGED <<sv, mem, refs>>
    /\ UNCHANGED <<mode, rpc, wpc, apc, h, misuse, shut, shell, con, dataVars, failed>>

(* hev_bridge_spawn of the reader, or the label fail_free.  Without a       *)
(* standard handle (NULL) there is nothing to start.                        *)
SpawnReader ==
    /\ tpc = "reader"
    /\ \/ h[In] = "none" /\ tpc' = "writer" /\ UNCHANGED <<rpc, refs, sv, mem>>
       \/ /\ h[In] # "none"
          /\ tpc' = "writer" /\ rpc' = "read" /\ refs' = refs + 1
          /\ UNCHANGED <<sv, mem>>
       \/ /\ h[In] # "none" /\ AfterBridge(FALSE)
          /\ sv' = <<"closed", "closed">>
          /\ mem' = [mem EXCEPT !["self"] = "freed"] /\ refs' = 0
          /\ UNCHANGED rpc
    /\ UNCHANGED <<mode, wpc, apc, h, misuse, shut, shell, con, dataVars, failed>>

(* Mutant: the writer's thread gets no reference.                           *)
SpawnWriterNoRef ==
    /\ tpc = "writer"
    /\ tpc' = "unref" /\ wpc' = "recv"
    /\ UNCHANGED <<mode, rpc, apc, resVars, shell, con, dataVars, failed>>

(* hev_bridge_spawn of the writer, or the release that leaves a running     *)
(* reader the last reference.                                               *)
SpawnWriter ==
    /\ tpc = "writer"
    /\ \/ h[Out] = "none" /\ tpc' = "unref" /\ UNCHANGED <<wpc, resVars, failed>>
       \/ /\ h[Out] # "none"
          /\ tpc' = "unref" /\ wpc' = "recv" /\ refs' = refs + 1
          /\ UNCHANGED <<h, misuse, sv, shut, mem, failed>>
       \/ /\ h[Out] # "none" /\ AfterBridge(FALSE)
          /\ shut' = {"send", "recv"}
          /\ refs' = refs - 1
          /\ IF refs = 1
             THEN /\ sv' = <<"closed", "closed">>
                  /\ CloseH(IF Own THEN {In, Out} ELSE {})
                  /\ mem' = [mem EXCEPT !["self"] = "freed"]
             ELSE sv' = [sv EXCEPT ![1] = "closed"] /\ UNCHANGED <<h, misuse, mem>>
          /\ failed' = failed \cup {"writer"}
          /\ UNCHANGED wpc
    /\ UNCHANGED <<mode, rpc, apc, shell, con, dataVars>>

(* The creator's own reference is dropped and sv[0] returned.               *)
BridgeDone ==
    /\ tpc = "unref"
    /\ tpc' = "splice"
    /\ Unref
    /\ UNCHANGED <<mode, rpc, wpc, apc, shut, shell, con, dataVars, failed>>

-----------------------------------------------------------------------------
(* The task's splice between sv[0] and the server's socket (external).      *)

SpliceRead ==
    /\ tpc = "splice" /\ up = 1
    /\ up' = 0
    /\ UNCHANGED <<mode, thrVars, resVars, shell, con, outp, inp, drop, sent,
                   got, wbuf, last, written, failed>>

SpliceWrite(c) ==
    /\ tpc = "splice" /\ Len(sent) < MaxIn
    /\ "recv" \notin shut /\ sv[2] = "open"
    /\ sent' = Append(sent, c)
    /\ UNCHANGED <<mode, thrVars, resVars, shell, con, outp, inp, up, drop,
                   got, wbuf, last, written, failed>>

(* The splice ends (both directions ended, or the yielder's timeout) and    *)
(* sv[0] is closed.                                                         *)
EndSplice ==
    /\ tpc = "splice"
    /\ AfterBridge(TRUE)
    /\ sv' = [sv EXCEPT ![1] = "closed"]
    /\ UNCHANGED <<mode, rpc, wpc, apc, h, misuse, shut, mem, refs, shell, con,
                   dataVars, failed>>

-----------------------------------------------------------------------------
(* hev_bridge_reader.                                                       *)

(* The writing end of the handle that is read.                              *)
ReadEnds == mode = "term" /\ h["pty"] = "closed" /\ outp = 0

(* ReadFile returns a byte, or fails.  A console's or a file's read may     *)
(* fail at any time.                                                        *)
ReaderRead ==
    /\ rpc = "read"
    /\ misuse' = misuse \cup {x \in {In} : h[x] # "open"}
    /\ \/ h[In] = "open" /\ outp = 1 /\ outp' = 0
          /\ IF drop THEN UNCHANGED rpc ELSE rpc' = "send"
       \/ /\ h[In] # "open" \/ ReadEnds \/ mode # "term"
          /\ rpc' = "shut" /\ UNCHANGED outp
    /\ UNCHANGED <<mode, tpc, wpc, apc, h, sv, shut, mem, refs, shell, con, inp, up,
                   drop, sent, got, wbuf, last, written, failed>>

(* Mutant: a failed send ends the reader whatever the flags.                *)
ReaderSendNoDrain ==
    /\ rpc = "send"
    /\ \/ /\ sv[1] = "open" /\ "send" \notin shut /\ up = 0
          /\ up' = 1 /\ rpc' = "read" /\ UNCHANGED drop
       \/ /\ sv[1] = "closed" \/ "send" \in shut
          /\ UNCHANGED <<up, drop>> /\ rpc' = "shut"
    /\ UNCHANGED <<mode, tpc, wpc, apc, resVars, shell, con, outp, inp, sent, got,
                   wbuf, last, written, failed>>

(* send: blocks while the socket is full, fails once sv[0] is closed or     *)
(* sv[1] shut down; with DRAIN the rest of the input is then read and       *)
(* dropped.                                                                 *)
ReaderSend ==
    /\ rpc = "send"
    /\ \/ /\ sv[1] = "open" /\ "send" \notin shut /\ up = 0
          /\ up' = 1 /\ rpc' = "read" /\ UNCHANGED drop
       \/ /\ sv[1] = "closed" \/ "send" \in shut
          /\ UNCHANGED up
          /\ IF Drain THEN drop' = TRUE /\ rpc' = "read"
                      ELSE UNCHANGED drop /\ rpc' = "shut"
    /\ UNCHANGED <<mode, tpc, wpc, apc, resVars, shell, con, outp, inp, sent, got,
                   wbuf, last, written, failed>>

(* shutdown (SD_SEND).                                                      *)
ReaderShut ==
    /\ rpc = "shut"
    /\ rpc' = "unref"
    /\ shut' = shut \cup {"send"}
    /\ UNCHANGED <<mode, tpc, wpc, apc, h, misuse, sv, mem, refs, shell, con,
                   dataVars, failed>>

ReaderUnref ==
    /\ rpc = "unref"
    /\ rpc' = "end"
    /\ Unref
    /\ UNCHANGED <<mode, tpc, wpc, apc, shut, shell, con, dataVars, failed>>

-----------------------------------------------------------------------------
(* hev_bridge_writer.                                                       *)

(* Mutant: last starts again with every chunk.                              *)
ConvertChunk(b, l) ==
    [i \in 1..Len(b) |->
        IF b[i] = "LF" /\ (i = 1 \/ b[i - 1] # "CR") THEN "CR" ELSE b[i]]

(* The conversion of one chunk b, after a chunk that ended with l.          *)
Convert(b, l) ==
    [i \in 1..Len(b) |->
        IF b[i] = "LF" /\ (IF i = 1 THEN l ELSE b[i - 1]) # "CR"
        THEN "CR" ELSE b[i]]

(* recv returns any part of what is in the socket and the chunk is          *)
(* converted; at the end of the stream, sv[0] closed, the thread leaves.    *)
WriterRecv ==
    /\ wpc = "recv"
    /\ \/ \E n \in got + 1 .. Len(sent) :
            LET b == SubSeq(sent, got + 1, n) IN
            /\ wbuf' = IF Lf2cr THEN Convert(b, last) ELSE b
            /\ last' = b[Len(b)]
            /\ got' = n
            /\ wpc' = "write"
       \/ /\ sv[1] = "closed" /\ got = Len(sent)
          /\ wpc' = "shut"
          /\ UNCHANGED <<wbuf, last, got>>
    /\ UNCHANGED <<mode, tpc, rpc, apc, resVars, shell, con, outp, inp, up,
                   drop, sent, written, failed>>

(* WriteFile writes at least a byte: it blocks while the pipe is full, and  *)
(* fails once the console has closed its end.                               *)
WriterWrite ==
    /\ wpc = "write"
    /\ misuse' = misuse \cup {x \in {Out} : h[x] # "open"}
    /\ \/ /\ h[Out] = "open" /\ h["pty"] # "closed" /\ inp = 0
          /\ inp' = 1
          /\ written' = Append(written, Head(wbuf))
          /\ wbuf' = Tail(wbuf)
          /\ wpc' = IF Len(wbuf) = 1 THEN "recv" ELSE "write"
       \/ /\ h[Out] # "open" \/ h["pty"] = "closed" \/ mode # "term"
          /\ wpc' = "shut"
          /\ UNCHANGED <<inp, written, wbuf>>
    /\ UNCHANGED <<mode, tpc, rpc, apc, h, sv, shut, mem, refs, shell, con, outp,
                   up, drop, sent, got, last, failed>>

(* shutdown (SD_BOTH).                                                      *)
WriterShut ==
    /\ wpc = "shut"
    /\ wpc' = "unref"
    /\ shut' = {"send", "recv"}
    /\ UNCHANGED <<mode, tpc, rpc, apc, h, misuse, sv, mem, refs, shell, con,
                   dataVars, failed>>

WriterUnref ==
    /\ wpc = "unref"
    /\ wpc' = "end"
    /\ Unref
    /\ UNCHANGED <<mode, tpc, rpc, apc, shut, shell, con, dataVars, failed>>

-----------------------------------------------------------------------------
(* The shell, or the user of a console (external): output and input move,   *)
(* and the shell may exit by itself.                                        *)
Produce ==
    /\ outp = 0 /\ (mode = "term" => shell = "running")
    /\ outp' = 1
    /\ UNCHANGED <<mode, thrVars, resVars, shell, con, inp, up, drop, sent,
                   got, wbuf, last, written, failed>>

Consume ==
    /\ inp = 1 /\ (mode = "term" => h["pty"] = "open")
    /\ inp' = 0
    /\ UNCHANGED <<mode, thrVars, resVars, shell, con, outp, up, drop, sent,
                   got, wbuf, last, written, failed>>

ShellExit ==
    /\ shell = "running"
    /\ shell' = "dead"
    /\ UNCHANGED <<mode, thrVars, resVars, con, dataVars, failed>>

-----------------------------------------------------------------------------
Setup == \/ Alloc \/ CreatePipes \/ CreatePty \/ AttrList \/ CreateShell
         \/ Duplicate \/ SpawnWaiter \/ ReleaseByHand \/ ConsoleRaw
         \/ BridgeNew \/ SpawnReader \/ SpawnWriter \/ BridgeDone
         \/ ConsoleRestore \/ CloseIo \/ Kill
Splice == SpliceRead \/ EndSplice
Reader == ReaderRead \/ ReaderSend \/ ReaderShut \/ ReaderUnref
Writer == WriterRecv \/ WriterWrite \/ WriterShut \/ WriterUnref
Waiter == WaiterWait \/ WaiterRelease

Next ==
    \/ Setup \/ Splice \/ (\E c \in Byte : SpliceWrite(c))
    \/ Reader \/ Writer \/ Waiter
    \/ Produce \/ Consume \/ ShellExit

(* The task and the threads are scheduled; an idle splice ends by the       *)
(* yielder's timeout.  Nothing is assumed of the shell, of the user or of   *)
(* the console taking input.                                                *)
Fairness ==
    /\ WF_vars(Setup) /\ WF_vars(Splice)
    /\ WF_vars(Reader) /\ WF_vars(Writer) /\ WF_vars(Waiter)

Spec == Init /\ [][Next]_vars /\ Fairness

-----------------------------------------------------------------------------
(* Properties.                                                              *)

(* Type invariant of the bridge and its users.                              *)
TypeOK ==
    /\ mode \in {"term", "console", "stdio"}
    /\ tpc \in {"alloc", "pipe", "pty", "attr", "proc", "dup", "waiter",
                "closePty", "raw", "bridge", "reader", "writer", "unref",
                "splice", "restore", "closeIo", "kill", "done"}
    /\ rpc \in {"none", "read", "send", "shut", "unref", "end"}
    /\ wpc \in {"none", "recv", "write", "shut", "unref", "end"}
    /\ apc \in {"none", "wait", "closePty", "end"}
    /\ h \in [Handle -> {"none", "open", "closed"}]
    /\ misuse \subseteq Handle
    /\ sv \in [1..2 -> {"none", "open", "closed"}]
    /\ shut \subseteq {"send", "recv"}
    /\ mem \in [{"self", "pp"} -> {"none", "live", "freed"}]
    /\ refs \in 0..3
    /\ shell \in {"none", "running", "dead"} /\ con \in {"cooked", "raw"}
    /\ outp \in 0..1 /\ inp \in 0..1 /\ up \in 0..1
    /\ drop \in BOOLEAN
    /\ sent \in Seq(Byte) /\ Len(sent) <= MaxIn
    /\ got \in 0..Len(sent)
    /\ wbuf \in Seq(Byte) /\ last \in Byte /\ written \in Seq(Byte)
    /\ failed \subseteq {"attr", "dup", "waiter", "writer"}

Running(p) == p \notin {"none", "end"}

(* The actors that still use the HevBridge.                                 *)
Users == {x \in {"task", "reader", "writer"} :
            \/ x = "task" /\ tpc \in {"reader", "writer", "unref"}
            \/ x = "reader" /\ Running(rpc)
            \/ x = "writer" /\ Running(wpc)}

(* The reference count is the number of actors that still use the bridge:   *)
(* its memory is live as long as one of them runs, with its descriptor      *)
(* open, and the last one to leave, whichever it is, releases both.         *)
RefsCountUsers ==
    /\ refs = (IF "task" \in Users THEN 1 ELSE 0)
              + (IF "reader" \in Users THEN 1 ELSE 0)
              + (IF "writer" \in Users THEN 1 ELSE 0)
    /\ mem["self"] = "live" <=> Users # {}
    /\ sv[2] = "open" <=> Users # {}

(* No handle is closed twice, read or written after it was closed, by any   *)
(* of the four actors.  The exception is hev_bridge_new failing to start    *)
(* its writer: the reader's last reference and the caller both close.       *)
HandlesOnce == "writer" \notin failed => misuse = {}

(* When nobody runs any more every resource has been released and the       *)
(* console is as the user left it: the ends of the pipes, the pseudo        *)
(* console (unless the attribute list had no memory), the process handles,  *)
(* both sockets and both structures; handles that it was only lent are not. *)
Ended == tpc = "done" /\ ~Running(rpc) /\ ~Running(wpc) /\ ~Running(apc)
AllReleased ==
    /\ \A x \in Handle \ {"con_in", "con_out"} :
          h[x] = "open" => x = "pty" /\ "attr" \in failed
    /\ h["con_in"] # "closed" /\ h["con_out"] # "closed"
    /\ \A i \in 1..2 : sv[i] # "open"
    /\ \A x \in {"self", "pp"} : mem[x] # "live"
    /\ con = "cooked" /\ shell # "running"
EndReleasesAll == Ended => AllReleased

(* What the console must receive for the bytes b: a line feed that is not   *)
(* part of a CRLF becomes a carriage return.                                *)
Translated(b) ==
    [i \in 1..Len(b) |->
        IF b[i] = "LF" /\ ~(i > 1 /\ b[i - 1] = "CR") THEN "CR" ELSE b[i]]

(* However recv cuts the stream and WriteFile accepts it, the console       *)
(* receives the translation of what was sent, in order, and a console or a  *)
(* file the unchanged bytes.                                                *)
LineFeedsTranslated ==
    written \o wbuf =
        LET b == SubSeq(sent, 1, got) IN IF Lf2cr THEN Translated(b) ELSE b

(* Once the shell is dead, by itself or killed after the session, all is    *)
(* released, even if the console is full in both directions: its waiter     *)
(* needs the reader to drain the output, and the writer needs the waiter.   *)
(* Only when no waiter could be started may the task block.                 *)
ShellEndReleases ==
    shell = "dead" ~> (Ended /\ AllReleased) \/ "waiter" \in failed

=============================================================================
