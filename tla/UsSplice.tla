----------------------------- MODULE UsSplice -----------------------------
(***************************************************************************)
(* hev_task_io_us_splice (hev-task-io-us.c) with the two yielders it runs   *)
(* under: hev_fsh_io_yielder, and the terminal connector's yielder that     *)
(* hangs up when the server side has closed.                                *)
(*                                                                         *)
(* Direction "f" reads connection a and writes b, direction "b" the other   *)
(* way.  Bytes are counted, their order is that of the circular buffer.     *)
(* Every system call is a step, between any two of which the peers may      *)
(* send, close, reset or consume.  The kernel reports a change of either    *)
(* connection once (edge triggered) and keeps the report until the task     *)
(* sleeps (external).                                                       *)
(***************************************************************************)
EXTENDS Naturals

CONSTANTS
    MaxSent,    \* bound: bytes each side sends
    BufSize,    \* buf_size, the capacity of a circular buffer
    OutCap      \* the kernel's send buffer

ASSUME SpliceAssumption ==
    /\ MaxSent \in Nat
    /\ BufSize \in Nat \ {0} /\ OutCap \in Nat \ {0}

Dir == {"f", "b"}
Other(d) == IF d = "f" THEN "b" ELSE "f"

VARIABLES
    hangup,     \* the yielder is the terminal connector's
    sent,       \* bytes the source of each direction has sent
    inq,        \* bytes received by the kernel and not read yet
    eof,        \* the source has closed its side, or was reset
    buf,        \* bytes in splicer_f.buf, splicer_b.buf
    outq,       \* bytes written and not consumed by the sink yet
    got,        \* bytes the sink has consumed
    broken,     \* writes of this direction fail
    shut,       \* shutdown (fd_out, SHUT_WR) was called
    res,        \* res_f, res_b: 1 progress, 0 would block, 2 stands for -1
    event,      \* the kernel has an event for the sleeping task
    pc,         \* read/write of a direction, the decision, the sleep, the end
    how         \* how the loop was left

peerVars == <<hangup, sent, eof, got, broken>>
vars == <<hangup, sent, inq, eof, buf, outq, got, broken, shut, res, event, pc, how>>

(* res is -1: the direction is not served any more.                         *)
Ended == 2

Init ==
    /\ hangup \in BOOLEAN
    /\ sent = [d \in Dir |-> 0] /\ inq = [d \in Dir |-> 0]
    /\ eof = [d \in Dir |-> FALSE]
    /\ buf = [d \in Dir |-> 0] /\ outq = [d \in Dir |-> 0]
    /\ got = [d \in Dir |-> 0]
    /\ broken = [d \in Dir |-> FALSE] /\ shut = [d \in Dir |-> FALSE]
    /\ res = [d \in Dir |-> 1]
    /\ event = FALSE /\ pc = <<"read", "f">> /\ how = "none"

-----------------------------------------------------------------------------
(* The peers (external).                                                    *)

Send(d) ==
    /\ ~eof[d] /\ sent[d] < MaxSent
    /\ sent' = [sent EXCEPT ![d] = @ + 1]
    /\ inq' = [inq EXCEPT ![d] = @ + 1]
    /\ event' = TRUE
    /\ UNCHANGED <<hangup, eof, buf, outq, got, broken, shut, res, pc, how>>

CloseSide(d) ==
    /\ ~eof[d]
    /\ eof' = [eof EXCEPT ![d] = TRUE]
    /\ event' = TRUE
    /\ UNCHANGED <<hangup, sent, inq, buf, outq, got, broken, shut, res, pc, how>>

(* The sink takes a byte; a send buffer with room again is an event.        *)
Consume(d) ==
    /\ outq[d] > 0
    /\ outq' = [outq EXCEPT ![d] = @ - 1]
    /\ got' = [got EXCEPT ![d] = @ + 1]
    /\ event' = TRUE
    /\ UNCHANGED <<hangup, sent, inq, eof, buf, broken, shut, res, pc, how>>

(* The connection that d reads is reset: what it had not delivered is gone, *)
(* and writes to it fail.                                                   *)
Reset(d) ==
    /\ ~broken[Other(d)]
    /\ inq' = [inq EXCEPT ![d] = 0]
    /\ eof' = [eof EXCEPT ![d] = TRUE]
    /\ broken' = [broken EXCEPT ![Other(d)] = TRUE]
    /\ outq' = [outq EXCEPT ![Other(d)] = 0]
    /\ event' = TRUE
    /\ UNCHANGED <<hangup, sent, buf, got, shut, res, pc, how>>

-----------------------------------------------------------------------------
(* task_io_splice.                                                          *)

(* After a direction's call: the other one, then the decision.              *)
After(d) == IF d = "f" THEN <<"read", "b">> ELSE <<"decide", "f">>

(* The caller's guard: a direction that ended is skipped.                   *)
Skip(d) ==
    /\ pc = <<"read", d>> /\ res[d] = Ended
    /\ pc' = After(d)
    /\ UNCHANGED <<peerVars, inq, buf, outq, shut, res, event, how>>

(* Mutant: the free space of the buffer is not asked for.                   *)
ReadOverflows(d) ==
    /\ pc = <<"read", d>> /\ res[d] # Ended
    /\ inq' = [inq EXCEPT ![d] = 0]
    /\ buf' = [buf EXCEPT ![d] = @ + inq[d]]
    /\ res' = [res EXCEPT ![d] = IF inq[d] > 0 THEN 1 ELSE IF eof[d] THEN Ended ELSE 0]
    /\ pc' = <<"write", d>>
    /\ UNCHANGED <<peerVars, outq, shut, event, how>>

(* readv into the free space: some bytes, EAGAIN, end of file or an error;  *)
(* with a full buffer it is not called and res is 1.                        *)
Read(d) ==
    /\ pc = <<"read", d>> /\ res[d] # Ended
    /\ \/ /\ buf[d] = BufSize
          /\ res' = [res EXCEPT ![d] = 1]
          /\ UNCHANGED <<inq, buf>>
       \/ \E n \in 1 .. BufSize - buf[d] :
            /\ n =< inq[d] /\ (n = BufSize - buf[d] \/ n = inq[d])
            /\ inq' = [inq EXCEPT ![d] = @ - n]
            /\ buf' = [buf EXCEPT ![d] = @ + n]
            /\ res' = [res EXCEPT ![d] = 1]
       \/ /\ buf[d] < BufSize /\ inq[d] = 0
          /\ res' = [res EXCEPT ![d] = IF eof[d] THEN Ended ELSE 0]
          /\ UNCHANGED <<inq, buf>>
    /\ pc' = <<"write", d>>
    /\ UNCHANGED <<peerVars, outq, shut, event, how>>

(* Mutant: a read that ended stays ended although bytes were written.       *)
WriteKeepsEnd(d) ==
    /\ pc = <<"write", d>> /\ pc' = After(d)
    /\ \/ \E n \in 1 .. buf[d] :
            /\ ~broken[d] /\ outq[d] + n =< OutCap
            /\ n = buf[d] \/ outq[d] + n = OutCap
            /\ outq' = [outq EXCEPT ![d] = @ + n]
            /\ buf' = [buf EXCEPT ![d] = @ - n]
            /\ res' = [res EXCEPT ![d] = IF @ = Ended THEN Ended ELSE 1]
            /\ UNCHANGED shut
       \/ /\ buf[d] > 0 /\ (broken[d] \/ outq[d] = OutCap)
          /\ res' = [res EXCEPT ![d] = IF broken[d] THEN Ended ELSE 0]
          /\ UNCHANGED <<outq, buf, shut>>
       \/ /\ buf[d] = 0
          /\ shut' = [shut EXCEPT ![d] = @ \/ res[d] = Ended]
          /\ UNCHANGED <<outq, buf, res>>
    /\ UNCHANGED <<peerVars, inq, event, how>>

(* writev of what is buffered: some bytes, EAGAIN or an error, each of      *)
(* which replaces the reader's result; with nothing buffered an ended read  *)
(* becomes a shutdown of the output.                                        *)
Write(d) ==
    /\ pc = <<"write", d>> /\ pc' = After(d)
    /\ \/ \E n \in 1 .. buf[d] :
            /\ ~broken[d] /\ outq[d] + n =< OutCap
            /\ n = buf[d] \/ outq[d] + n = OutCap
            /\ outq' = [outq EXCEPT ![d] = @ + n]
            /\ buf' = [buf EXCEPT ![d] = @ - n]
            /\ res' = [res EXCEPT ![d] = 1]
            /\ UNCHANGED shut
       \/ /\ buf[d] > 0 /\ (broken[d] \/ outq[d] = OutCap)
          /\ res' = [res EXCEPT ![d] = IF broken[d] THEN Ended ELSE 0]
          /\ UNCHANGED <<outq, buf, shut>>
       \/ /\ buf[d] = 0
          /\ shut' = [shut EXCEPT ![d] = @ \/ res[d] = Ended]
          /\ UNCHANGED <<outq, buf, res>>
    /\ UNCHANGED <<peerVars, inq, event, how>>

-----------------------------------------------------------------------------
(* The loop of hev_task_io_us_splice.                                       *)

Leave(why) ==
    /\ pc' = <<"done", "f">> /\ how' = why
    /\ UNCHANGED <<peerVars, inq, buf, outq, shut, res, event>>

Goto(label) ==
    /\ pc' = <<label, "f">>
    /\ UNCHANGED <<peerVars, inq, buf, outq, shut, res, event, how>>

(* What the terminal's yielder peeks for: the server side has closed and    *)
(* all it sent was read.                                                    *)
PeerClosed == eof["f"] /\ inq["f"] = 0

(* Mutant: the task sleeps as soon as one direction would block.            *)
DecideEager ==
    /\ pc = <<"decide", "f">>
    /\ \/ (\A d \in Dir : res[d] = 1) /\ Goto("read")
       \/ (\E d \in Dir : res[d] = 0) /\ Goto("sleep")
       \/ (\A d \in Dir : res[d] # 0) /\ (\E d \in Dir : res[d] = Ended)
            /\ Leave("ended")

(* Progress is a plain yield; the task sleeps only when no direction made   *)
(* progress and one is left, and the terminal's yielder hangs up instead    *)
(* when the server side has closed.                                         *)
Decide ==
    /\ pc = <<"decide", "f">>
    /\ \/ (\E d \in Dir : res[d] = 1) /\ Goto("read")
       \/ /\ \A d \in Dir : res[d] # 1
          /\ \E d \in Dir : res[d] = 0
          /\ IF hangup /\ PeerClosed
             THEN Leave("hangup")
             ELSE Goto("sleep")
       \/ (\A d \in Dir : res[d] = Ended) /\ Leave("ended")

(* The event wakes the task ...                                             *)
Wake ==
    /\ pc = <<"sleep", "f">> /\ event
    /\ event' = FALSE /\ pc' = <<"read", "f">>
    /\ UNCHANGED <<peerVars, inq, buf, outq, shut, res, how>>

(* ... or the yielder's timeout ends the splice.                            *)
Timeout == pc = <<"sleep", "f">> /\ Leave("timeout")

Task ==
    \/ \E d \in Dir : Skip(d) \/ Read(d) \/ Write(d)
    \/ Decide \/ Wake

Peers == \E d \in Dir : Send(d) \/ CloseSide(d) \/ Consume(d) \/ Reset(d)

Next == Task \/ Timeout \/ Peers

Spec == Init /\ [][Next]_vars

-----------------------------------------------------------------------------
(* Type invariant of the splice.                                            *)
TypeOK ==
    /\ hangup \in BOOLEAN
    /\ sent \in [Dir -> 0..MaxSent] /\ inq \in [Dir -> 0..MaxSent]
    /\ got \in [Dir -> 0..MaxSent]
    /\ eof \in [Dir -> BOOLEAN] /\ broken \in [Dir -> BOOLEAN]
    /\ shut \in [Dir -> BOOLEAN]
    /\ buf \in [Dir -> 0..BufSize] /\ outq \in [Dir -> 0..OutCap]
    /\ res \in [Dir -> {0, 1, Ended}] /\ event \in BOOLEAN
    /\ pc \in {"read", "write", "decide", "sleep", "done"} \X Dir
    /\ how \in {"none", "ended", "timeout", "hangup"}

(* Neither connection was reset.                                            *)
NoReset == \A d \in Dir : ~broken[d]

(* An output is shut down only after all that its source sent was written:  *)
(* a half-close never overtakes data that is still buffered, and a splice   *)
(* that ends by itself has forwarded both streams whole.                    *)
Whole(d) == eof[d] /\ outq[d] + got[d] = sent[d]
NoTruncation ==
    NoReset =>
        /\ \A d \in Dir : shut[d] => Whole(d)
        /\ how = "ended" => \A d \in Dir : Whole(d) /\ shut[d]

(* A direction that can do nothing until a peer acts.                       *)
Blocked(d) ==
    \/ res[d] = Ended
    \/ buf[d] > 0 /\ outq[d] = OutCap /\ ~broken[d]
    \/ buf[d] = 0 /\ inq[d] = 0 /\ ~eof[d]

(* The task never sleeps on work: without an event to wake it, every        *)
(* direction is blocked.  An event that arrives while the calls are made is *)
(* not lost, and EAGAIN on one end never hides readiness of another.        *)
NoLostWakeup == pc[1] = "sleep" /\ ~event => \A d \in Dir : Blocked(d)

(* The comment on the terminal's yielder: it hangs up where the splice      *)
(* would only wait for a key any more, so the shell's output was forwarded. *)
HangupLosesNothing == how = "hangup" /\ NoReset => Whole("f")

(* The task runs when it is runnable, and the sinks take what they get.     *)
(* The timeout is not assumed away and the sources are not assumed to close. *)
FairSpec == Spec /\ WF_vars(Task) /\ \A d \in Dir : WF_vars(Consume(d))

(* A side that closes has its close passed on after its data, unless the    *)
(* splice ends first or a connection is reset.                              *)
ClosePassedOn ==
    \A d \in Dir : eof[d] ~> shut[d] \/ pc[1] = "done" \/ ~NoReset

=============================================================================
