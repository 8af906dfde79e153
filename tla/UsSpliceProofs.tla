-------------------------- MODULE UsSpliceProofs --------------------------
(***************************************************************************)
(* Proofs about UsSplice, for any number of bytes and any size of the       *)
(* circular buffers and of the kernel's send buffers.                       *)
(***************************************************************************)
EXTENDS UsSplice, TLAPS

(* Bytes are moved, never duplicated, and none is lost without a reset.     *)
Conserved ==
    \A d \in Dir :
        /\ inq[d] + buf[d] + outq[d] + got[d] =< sent[d]
        /\ NoReset => inq[d] + buf[d] + outq[d] + got[d] = sent[d]

(* A direction whose result is -1 has read its source to the end; outside   *)
(* its own call it has nothing buffered and its output is shut down.        *)
EndMeansDrained ==
    NoReset => \A d \in Dir :
        /\ res[d] = Ended =>
             /\ eof[d] /\ inq[d] = 0
             /\ pc = <<"write", d>> \/ (shut[d] /\ buf[d] = 0)
        /\ shut[d] => res[d] = Ended /\ pc # <<"write", d>>

(* What the label says of the loop.                                         *)
LoopInv ==
    /\ pc[1] \in {"decide", "sleep", "done"} => pc[2] = "f"
    /\ how = "ended" => pc[1] = "done" /\ \A d \in Dir : res[d] = Ended
    /\ pc[1] = "sleep" => \A d \in Dir : res[d] # 1

(* The call for direction d was made since the task last looked at event.   *)
Served(d) ==
    \/ pc[1] \in {"decide", "sleep"}
    \/ d = "f" /\ pc[2] = "b"

(* Without an event a read or a write that would block would still block.   *)
StillBlocked ==
    ~event => \A d \in Dir :
        /\ Served(d) /\ res[d] = 0 => Blocked(d)
        /\ pc = <<"write", d>> /\ res[d] = 0 => inq[d] = 0 /\ ~eof[d]

SpliceInv == TypeOK /\ Conserved /\ EndMeansDrained /\ LoopInv /\ StillBlocked

-----------------------------------------------------------------------------
(* The splice starts with empty buffers on two open connections.            *)
LEMMA SpliceInit == Init => SpliceInv
<1> SUFFICES ASSUME Init PROVE SpliceInv
    OBVIOUS
<1> USE SpliceAssumption DEF Init, Dir, Ended
<1>1. TypeOK
    <2>1. /\ hangup \in BOOLEAN /\ event \in BOOLEAN
          /\ eof \in [Dir -> BOOLEAN] /\ broken \in [Dir -> BOOLEAN]
          /\ shut \in [Dir -> BOOLEAN]
        BY Zenon
    <2> QED
        BY <2>1 DEF TypeOK
<1>2. Conserved
    BY DEF Conserved
<1>3. EndMeansDrained
    BY DEF EndMeansDrained
<1>4. LoopInv
    BY DEF LoopInv
<1>5. StillBlocked
    BY DEF StillBlocked, Served
<1> QED
    BY <1>1, <1>2, <1>3, <1>4, <1>5 DEF SpliceInv

(* A step of a peer leaves an event behind.  It adds to what a direction    *)
(* has to do only while its source is open, and a reset voids what is said  *)
(* of the data.                                                             *)
LEMMA PeersInv == ASSUME SpliceInv, Peers PROVE SpliceInv'
<1> USE SpliceAssumption DEF SpliceInv, Dir, Ended
<1>1. PICK d \in Dir : Send(d) \/ CloseSide(d) \/ Consume(d) \/ Reset(d)
    BY DEF Peers
<1>2. event' = TRUE /\ UNCHANGED <<hangup, buf, shut, res, pc, how>>
    BY <1>1 DEF Send, CloseSide, Consume, Reset
<1>3. LoopInv' /\ StillBlocked'
    BY <1>2 DEF LoopInv, StillBlocked
<1>4. CASE Send(d)
    <2>1. TypeOK'
        BY <1>2, <1>4 DEF TypeOK, Send, Conserved
    <2>2. Conserved'
        BY <1>4 DEF TypeOK, Send, Conserved, NoReset
    <2>3. EndMeansDrained'
        BY <1>2, <1>4 DEF TypeOK, Send, EndMeansDrained, NoReset
    <2> QED
        BY <1>3, <2>1, <2>2, <2>3
<1>5. CASE CloseSide(d)
    <2>1. TypeOK'
        BY <1>2, <1>5 DEF TypeOK, CloseSide
    <2>2. Conserved'
        BY <1>5 DEF TypeOK, CloseSide, Conserved, NoReset
    <2>3. EndMeansDrained'
        BY <1>2, <1>5 DEF TypeOK, CloseSide, EndMeansDrained, NoReset
    <2> QED
        BY <1>3, <2>1, <2>2, <2>3
<1>6. CASE Consume(d)
    <2>1. TypeOK'
        BY <1>2, <1>6 DEF TypeOK, Consume, Conserved
    <2>2. Conserved'
        BY <1>6 DEF TypeOK, Consume, Conserved, NoReset
    <2>3. EndMeansDrained'
        BY <1>2, <1>6 DEF TypeOK, Consume, EndMeansDrained, NoReset
    <2> QED
        BY <1>3, <2>1, <2>2, <2>3
<1>7. CASE Reset(d)
    <2>1. TypeOK'
        BY <1>2, <1>7 DEF TypeOK, Reset, Other
    <2>2. ~NoReset'
        BY <1>7 DEF TypeOK, Reset, NoReset, Other
    <2>3. Conserved'
        BY <1>7, <2>2 DEF TypeOK, Reset, Conserved, Other
    <2>4. EndMeansDrained'
        BY <2>2 DEF EndMeansDrained
    <2> QED
        BY <1>3, <2>1, <2>3, <2>4
<1> QED
    BY <1>1, <1>4, <1>5, <1>6, <1>7

(* readv: what leaves the kernel's queue enters the buffer, and a result of *)
(* -1 is taken only from a source that is closed and drained.               *)
LEMMA ReadInv == ASSUME SpliceInv, NEW d \in Dir, Read(d) PROVE SpliceInv'
<1> USE SpliceAssumption DEF SpliceInv, Ended
<1>1. /\ pc = <<"read", d>> /\ res[d] # Ended /\ pc' = <<"write", d>>
      /\ UNCHANGED <<hangup, sent, eof, got, broken, outq, shut, event, how>>
      /\ \A e \in Dir : e # d => inq'[e] = inq[e] /\ buf'[e] = buf[e] /\ res'[e] = res[e]
    BY DEF Read, peerVars, TypeOK
<1>2. /\ inq' \in [Dir -> 0..MaxSent] /\ buf' \in [Dir -> 0..BufSize]
      /\ inq'[d] + buf'[d] = inq[d] + buf[d]
    <2>1. CASE UNCHANGED <<inq, buf>>
        BY <2>1 DEF TypeOK
    <2>2. ASSUME NEW n \in 1 .. BufSize - buf[d], n =< inq[d],
                 inq' = [inq EXCEPT ![d] = @ - n], buf' = [buf EXCEPT ![d] = @ + n]
          PROVE  /\ inq' \in [Dir -> 0..MaxSent] /\ buf' \in [Dir -> 0..BufSize]
                 /\ inq'[d] + buf'[d] = inq[d] + buf[d]
        BY <2>2 DEF TypeOK
    <2> QED
        BY <2>1, <2>2 DEF Read
<1>3. res' \in [Dir -> {0, 1, Ended}]
    BY DEF Read, TypeOK
<1>4. /\ res'[d] = Ended => eof[d] /\ inq'[d] = 0
      /\ res'[d] = 0 => ~eof[d] /\ inq'[d] = 0
    BY DEF Read, TypeOK
<1>5. TypeOK'
    BY <1>1, <1>2, <1>3 DEF TypeOK
<1>6. Conserved'
    BY <1>1, <1>2 DEF Conserved, NoReset, TypeOK
<1>7. EndMeansDrained'
    BY <1>1, <1>4 DEF EndMeansDrained, NoReset
<1>8. LoopInv'
    BY <1>1 DEF LoopInv
<1>9. StillBlocked'
    BY <1>1, <1>4 DEF StillBlocked, Served, Blocked, Dir
<1> QED
    BY <1>5, <1>6, <1>7, <1>8, <1>9

(* writev: what leaves the buffer enters the send buffer.  Only a write     *)
(* with nothing left to write keeps the reader's -1 and shuts down the      *)
(* output; one that would block finds the send buffer full.                 *)
LEMMA WriteInv == ASSUME SpliceInv, NEW d \in Dir, Write(d) PROVE SpliceInv'
<1> USE SpliceAssumption DEF SpliceInv, Ended
<1>1. /\ pc = <<"write", d>> /\ pc' = After(d)
      /\ UNCHANGED <<hangup, sent, eof, got, broken, inq, event, how>>
      /\ \A e \in Dir : e # d => outq'[e] = outq[e] /\ buf'[e] = buf[e]
                                /\ res'[e] = res[e] /\ shut'[e] = shut[e]
    BY DEF Write, peerVars, TypeOK
<1>2. /\ outq' \in [Dir -> 0..OutCap] /\ buf' \in [Dir -> 0..BufSize]
      /\ outq'[d] + buf'[d] = outq[d] + buf[d]
    <2>1. CASE UNCHANGED <<outq, buf>>
        BY <2>1 DEF TypeOK
    <2>2. ASSUME NEW n \in 1 .. buf[d], outq[d] + n =< OutCap,
                 outq' = [outq EXCEPT ![d] = @ + n], buf' = [buf EXCEPT ![d] = @ - n]
          PROVE  /\ outq' \in [Dir -> 0..OutCap] /\ buf' \in [Dir -> 0..BufSize]
                 /\ outq'[d] + buf'[d] = outq[d] + buf[d]
        BY <2>2 DEF TypeOK
    <2> QED
        BY <2>1, <2>2 DEF Write
<1>3. res' \in [Dir -> {0, 1, Ended}]
    BY DEF Write, TypeOK
<1>4. shut' \in [Dir -> BOOLEAN]
    <2>1. CASE UNCHANGED shut
        BY <2>1 DEF TypeOK
    <2>2. CASE shut' = [shut EXCEPT ![d] = @ \/ res[d] = Ended]
        BY <2>2, Zenon DEF TypeOK
    <2> QED
        BY <2>1, <2>2 DEF Write
<1>5. \/ res'[d] = 1 /\ shut'[d] = shut[d]
      \/ /\ ~broken[d] /\ res'[d] = 0 /\ shut'[d] = shut[d]
         /\ buf'[d] > 0 /\ outq'[d] = OutCap
      \/ broken[d] /\ res'[d] = Ended /\ shut'[d] = shut[d]
      \/ /\ buf[d] = 0 /\ buf'[d] = 0 /\ res'[d] = res[d]
         /\ shut'[d] <=> shut[d] \/ res[d] = Ended
    BY DEF Write, TypeOK
<1>6. /\ d = "f" => pc' = <<"read", "b">>
      /\ d = "b" => pc' = <<"decide", "f">>
    BY <1>1 DEF After, Dir
<1>7. TypeOK'
    BY <1>1, <1>2, <1>3, <1>4, <1>6 DEF TypeOK, Dir
<1>8. Conserved'
    BY <1>1, <1>2 DEF Conserved, NoReset, TypeOK
<1>9. EndMeansDrained'
    <2> SUFFICES ASSUME NoReset, NEW e \in Dir
                 PROVE  /\ res'[e] = Ended =>
                             eof[e] /\ inq[e] = 0 /\ shut'[e] /\ buf'[e] = 0
                        /\ shut'[e] => res'[e] = Ended
        BY <1>1, <1>6 DEF EndMeansDrained, NoReset, Dir
    <2>1. CASE e # d
        BY <1>1, <2>1 DEF EndMeansDrained, Dir
    <2>2. CASE e = d
        BY <1>1, <1>5, <2>2 DEF EndMeansDrained, NoReset
    <2> QED
        BY <2>1, <2>2
<1>10. LoopInv'
    BY <1>1, <1>6 DEF LoopInv, Dir
<1>11. StillBlocked'
    <2> SUFFICES ASSUME ~event, NEW e \in Dir, Served(e)', res'[e] = 0
                 PROVE  Blocked(e)'
        BY <1>1, <1>6 DEF StillBlocked, Dir
    <2>1. CASE e # d
        BY <1>1, <1>6, <2>1 DEF StillBlocked, Served, Blocked, Dir
    <2>2. CASE e = d
        BY <1>1, <1>5, <2>2 DEF StillBlocked, Blocked
    <2> QED
        BY <2>1, <2>2
<1> QED
    BY <1>7, <1>8, <1>9, <1>10, <1>11

(* The loop around the calls moves no byte.                                 *)
LEMMA LoopStepInv ==
    ASSUME SpliceInv, (\E d \in Dir : Skip(d)) \/ Decide \/ Wake \/ Timeout
    PROVE  SpliceInv'
<1> USE SpliceAssumption DEF SpliceInv, Dir, Ended
<1>1. UNCHANGED <<hangup, sent, inq, eof, buf, outq, got, broken, shut, res>>
    BY DEF Skip, Decide, Wake, Timeout, Goto, Leave, peerVars
<1>2. Conserved'
    BY <1>1 DEF Conserved, NoReset
<1>3. TypeOK'
    <2>1. event' \in BOOLEAN
        BY Zenon DEF Skip, Decide, Wake, Timeout, Goto, Leave, TypeOK
    <2>2. pc' \in {"read", "write", "decide", "sleep", "done"} \X Dir
        BY DEF Skip, Decide, Wake, Timeout, Goto, Leave, After
    <2>3. how' \in {"none", "ended", "timeout", "hangup"}
        BY DEF Skip, Decide, Wake, Timeout, Goto, Leave, TypeOK
    <2> QED
        BY <1>1, <2>1, <2>2, <2>3 DEF TypeOK
<1>4. \A d \in Dir : pc # <<"write", d>> /\ pc' # <<"write", d>>
    BY DEF Skip, Decide, Wake, Timeout, Goto, Leave, TypeOK, After
<1>5. EndMeansDrained'
    BY <1>1, <1>4 DEF EndMeansDrained, NoReset
<1>6. LoopInv' /\ StillBlocked'
    <2>1. ASSUME NEW d \in Dir, Skip(d) PROVE LoopInv' /\ StillBlocked'
        BY <1>1, <1>4, <2>1
           DEF Skip, After, LoopInv, StillBlocked, Served, Blocked
    <2>2. CASE Decide
        BY <1>1, <1>4, <2>2
           DEF Decide, Goto, Leave, LoopInv, StillBlocked, Served, Blocked, TypeOK
    <2>3. CASE Wake
        BY <1>1, <1>4, <2>3 DEF Wake, LoopInv, StillBlocked, Served, Blocked
    <2>4. CASE Timeout
        BY <1>1, <1>4, <2>4
           DEF Timeout, Leave, LoopInv, StillBlocked, Served, Blocked
    <2> QED
        BY <2>1, <2>2, <2>3, <2>4
<1> QED
    BY <1>2, <1>3, <1>5, <1>6

(* Every step of the splice and of its peers keeps the invariant.           *)
LEMMA SpliceNext == SpliceInv /\ [Next]_vars => SpliceInv'
<1> SUFFICES ASSUME SpliceInv, [Next]_vars PROVE SpliceInv'
    OBVIOUS
<1>1. CASE Peers
    BY <1>1, PeersInv
<1>2. ASSUME NEW d \in Dir, Read(d) PROVE SpliceInv'
    BY <1>2, ReadInv
<1>3. ASSUME NEW d \in Dir, Write(d) PROVE SpliceInv'
    BY <1>3, WriteInv
<1>4. CASE (\E d \in Dir : Skip(d)) \/ Decide \/ Wake \/ Timeout
    BY <1>4, LoopStepInv
<1>5. CASE UNCHANGED vars
    BY <1>5 DEF vars, SpliceInv, TypeOK, Conserved, EndMeansDrained, LoopInv,
                StillBlocked, Served, Blocked, NoReset
<1> QED
    BY <1>1, <1>2, <1>3, <1>4, <1>5 DEF Next, Task

(* The variables keep their types; that a buffer never holds more than      *)
(* buf_size is what the free space asked for before readv gives.            *)
THEOREM SpliceTypeCorrect == Spec => []TypeOK
<1>1. SpliceInv => TypeOK
    BY DEF SpliceInv
<1> QED
    BY <1>1, SpliceInit, SpliceNext, PTL DEF Spec

(* Without a reset a half-close never overtakes buffered data, and a splice *)
(* that ends by itself has written both streams whole.                      *)
THEOREM SpliceForwardsWhole == Spec => []NoTruncation
<1>1. SpliceInv => NoTruncation
    BY DEF SpliceInv, NoTruncation, Whole, EndMeansDrained, Conserved, LoopInv,
           TypeOK
<1> QED
    BY <1>1, SpliceInit, SpliceNext, PTL DEF Spec

(* The task never sleeps on work that it could do and that no event is      *)
(* going to announce.                                                       *)
THEOREM SpliceLosesNoWakeup == Spec => []NoLostWakeup
<1>1. SpliceInv => NoLostWakeup
    BY DEF SpliceInv, NoLostWakeup, StillBlocked, Served, Blocked, LoopInv,
           TypeOK, Ended
<1> QED
    BY <1>1, SpliceInit, SpliceNext, PTL DEF Spec

=============================================================================
