------------------------- MODULE TokenReloadProofs -------------------------
(***************************************************************************)
(* Proofs about TokenReload, for any number of edits and any size of the    *)
(* pipe and of the event task's buffer.                                     *)
(***************************************************************************)
EXTENDS TokenReload, TLAPS

(* NoLostReload is not inductive by itself: it needs to know what a running *)
(* reload has loaded so far.  The list is cleared before the file is opened, *)
(* and then holds the tokens of the lines read, of one version; an          *)
(* announced version is the one that is read, or is requested again.        *)
Loaded == {snap} \X (1..line - 1 \ (Bad \cup lost))
Parsing ==
    /\ pc = "open" => tokens = {} /\ lost = {}
    /\ pc = "parse" /\ snap # NotWhole => tokens = Loaded /\ lost \subseteq 1..line - 1
    /\ pc = "parse" /\ content = "whole" /\ told = version => snap = version \/ pipe > 0

ReloadInv == TypeOK /\ NoLostReload /\ Parsing

(* The two Boolean variables keep their type.                               *)
Flags == sig \in BOOLEAN /\ instance \in BOOLEAN

(* Nothing was announced before the handlers were installed.                *)
LEMMA ReloadInit == Init => ReloadInv
<1> SUFFICES ASSUME Init PROVE ReloadInv
    OBVIOUS
<1>1. Flags
    BY Zenon DEF Init, Flags
<1>2. NoLostReload
    BY DEF Init, NoLostReload
<1>3. Parsing
    BY DEF Init, Parsing
<1> QED
    BY <1>1, <1>2, <1>3, ReloadAssumption DEF Init, Flags, ReloadInv, TypeOK, NotWhole

(* One step per action.  The pipe may drop a request only while it still    *)
(* holds an earlier one, and the event task empties it before it reads the  *)
(* file, never after.                                                       *)
LEMMA ReloadNext == ReloadInv /\ [Next]_vars => ReloadInv'
<1> SUFFICES ASSUME ReloadInv, [Next]_vars PROVE ReloadInv'
    OBVIOUS
<1> USE ReloadAssumption DEF ReloadInv, TypeOK, NoLostReload, NotWhole, Parsing,
            listVars
<1>1. CASE BeginEdit
    BY <1>1 DEF BeginEdit, Loaded
<1>2. CASE EndEdit
    BY <1>2 DEF EndEdit, Loaded
<1>3. CASE Signal
    BY <1>3 DEF Signal, Loaded, List
<1>4. CASE Deliver
    <2>1. Flags'
        BY <1>4, Zenon DEF Deliver, Flags
    <2>2. told' \in {told, version} /\ pipe' \in {pipe, pipe + 1} /\ pipe' =< PipeCap
        BY <1>4 DEF Deliver
    <2>3. told' # told => pipe' > 0
        BY <1>4 DEF Deliver
    <2> QED
        BY <1>4, <2>1, <2>2, <2>3 DEF Deliver, Flags, Loaded, List
<1>5. CASE Clear
    BY <1>5 DEF Clear
<1>6. CASE Open
    BY <1>6 DEF Open, AfterReload, Loaded
<1>7. CASE ParseLine
    <2>1. /\ tokens' \in {tokens, tokens \cup {<<snap, line>>}} /\ line \in 1..NLines
          /\ lost' \in {lost, lost \cup {line}}
          /\ UNCHANGED <<version, content, sig, told, pipe, instance, pc, snap>>
        BY <1>7 DEF ParseLine
    <2>2. snap # NotWhole => \A t \in tokens : t[1] = snap
        BY <1>7 DEF ParseLine, Loaded
    <2>3. TypeOK'
        <3>1. \A t, u \in tokens' : t[1] = u[1] \/ t[1] = NotWhole \/ u[1] = NotWhole
            BY <2>1, <2>2
        <3> QED
            BY <1>7, <2>1, <3>1 DEF ParseLine
    <2>4. NoLostReload'
        BY <1>7 DEF ParseLine
    <2>5. Parsing'
        <3> SUFFICES ASSUME snap # NotWhole
                     PROVE  tokens' = Loaded' /\ lost' \subseteq 1..line' - 1
            BY <1>7 DEF ParseLine
        <3>1. line' = line + 1 /\ line' - 1 = line /\ line \notin 1..line - 1
              /\ 1..line' - 1 = 1..line - 1 \cup {line}
            BY <1>7, <2>1 DEF ParseLine
        <3>2. lost \subseteq 1..line - 1 /\ tokens = Loaded /\ snap' = snap
            BY <1>7 DEF ParseLine
        <3>3. CASE line \in Bad /\ UNCHANGED <<tokens, lost>>
            BY <3>1, <3>2, <3>3 DEF Loaded
        <3>4. CASE line \notin Bad /\ lost' = lost \cup {line} /\ UNCHANGED tokens
            BY <3>1, <3>2, <3>4 DEF Loaded
        <3>5. CASE line \notin Bad /\ tokens' = tokens \cup {<<snap, line>>} /\ UNCHANGED lost
            BY <3>1, <3>2, <3>5 DEF Loaded
        <3> QED
            BY <1>7, <3>3, <3>4, <3>5 DEF ParseLine
    <2> QED
        BY <2>3, <2>4, <2>5
<1>8. CASE CloseFile
    <2>1. pc' \in {"wait", "return"}
        BY <1>8 DEF CloseFile, AfterReload
    <2>2. TypeOK' /\ Parsing'
        BY <1>8, <2>1 DEF CloseFile
    <2>3. snap # NotWhole => line = NLines + 1 /\ 1..line - 1 = 1..NLines
        BY <1>8 DEF CloseFile
    <2>4. snap = version => tokens = List(version)
        BY <1>8, <2>3 DEF CloseFile, Loaded, List
    <2>5. NoLostReload'
        BY <1>8, <2>4 DEF CloseFile, List
    <2> QED
        BY <2>2, <2>5
<1>9. CASE SetInstance
    BY <1>9 DEF SetInstance, List
<1>10. CASE Start
    BY <1>10 DEF Start, List
<1>11. CASE EventRead
    BY <1>11 DEF EventRead
<1>12. CASE UNCHANGED vars
    BY <1>12 DEF vars, Loaded, List
<1> QED
    BY <1>1, <1>2, <1>3, <1>4, <1>5, <1>6, <1>7, <1>8, <1>9, <1>10, <1>11, <1>12
       DEF Next, Server

(* The variables of the reload path keep their types, and the allow list    *)
(* never mixes the tokens of two versions of the file.                      *)
THEOREM ReloadTypeCorrect == Spec => []TypeOK
<1>1. ReloadInv => TypeOK
    BY DEF ReloadInv
<1> QED
    BY <1>1, ReloadInit, ReloadNext, PTL DEF Spec

(* A reload request that reached the server object is never lost.           *)
THEOREM ReloadNeverLost == Spec => []NoLostReload
<1>1. ReloadInv => NoLostReload
    BY DEF ReloadInv
<1> QED
    BY <1>1, ReloadInit, ReloadNext, PTL DEF Spec

=============================================================================
