---------------------------- MODULE TokenReload ----------------------------
(***************************************************************************)
(* Live updating of the tokens file: the start-up of main, the SIGUSR1      *)
(* handler (on Windows the reload thread), the pipe and the event task of   *)
(* hev-fsh-server.c, and hev_fsh_token_manager_reload.                      *)
(*                                                                         *)
(* The handler can run between any two steps of the server.  An operator    *)
(* edits the file, in place or by removing and recreating it, and signals   *)
(* when the edit is complete.  A token is named by the version of the file  *)
(* and the line it was read from; NotWhole is the version of what is read   *)
(* from half an edit.  The model starts when the handlers are installed.    *)
(***************************************************************************)
EXTENDS Integers

CONSTANTS
    MaxVersion,     \* bound: edits of the tokens file
    NLines,         \* bound: lines of the tokens file
    Bad,            \* the lines of it that are no token
    PipeCap,        \* bytes the pipe holds
    Batch           \* bytes the event task reads at once (16)

ASSUME ReloadAssumption ==
    /\ MaxVersion \in Nat
    /\ NLines \in Nat /\ Bad \subseteq 1..NLines
    /\ PipeCap \in Nat \ {0}
    /\ Batch \in Nat \ {0}

NotWhole == -1

VARIABLES
    version,    \* complete edits so far
    content,    \* what the path shows: a whole file, half an edit, nothing
    sig,        \* SIGUSR1 is pending (signals sent meanwhile merge)
    told,       \* version at the last signal that reached the server object
    pipe,       \* bytes in the pipe
    instance,   \* main's instance is assigned
    pc,         \* where the main thread, later the event task, is
    snap,       \* version of what the open file holds
    line,       \* the line getline reads next
    tokens,     \* the allow list
    lost        \* lines of this reload that no node could be allocated for

listVars == <<snap, line, tokens, lost>>
vars == <<version, content, sig, told, pipe, instance, pc, listVars>>

Init ==
    /\ version = 0 /\ content = "whole"
    /\ sig = FALSE /\ told = -1 /\ pipe = 0
    /\ instance = FALSE /\ pc = "clear"
    /\ snap = NotWhole /\ line = 1 /\ tokens = {} /\ lost = {}

-----------------------------------------------------------------------------
(* The operator (external).                                                 *)

(* A file that is edited in place changes under a reload that has it open,  *)
(* as far as that has not buffered it; one that is removed does not.        *)
BeginEdit ==
    /\ content = "whole" /\ version < MaxVersion
    /\ \/ content' = "partial" /\ snap' \in {snap, NotWhole}
       \/ content' = "absent" /\ UNCHANGED snap
    /\ UNCHANGED <<version, sig, told, pipe, instance, pc, line, tokens, lost>>

EndEdit ==
    /\ content # "whole"
    /\ content' = "whole" /\ version' = version + 1
    /\ UNCHANGED <<sig, told, pipe, instance, pc, listVars>>

Signal ==
    /\ content = "whole"
    /\ sig' = TRUE
    /\ UNCHANGED <<version, content, told, pipe, instance, pc, listVars>>

-----------------------------------------------------------------------------
(* Mutant: a request is written only while no reload runs.                  *)
DeliverWhenIdle ==
    /\ sig /\ sig' = FALSE
    /\ told' = IF instance THEN version ELSE told
    /\ pipe' = IF instance /\ pc = "wait" /\ pipe < PipeCap THEN pipe + 1 ELSE pipe
    /\ UNCHANGED <<version, content, instance, pc, listVars>>

(* signal_handler and hev_fsh_server_reload: ignored without an instance,   *)
(* else one byte into the pipe; a full pipe drops it (hev_task_io_nowait).  *)
Deliver ==
    /\ sig /\ sig' = FALSE
    /\ \/ ~instance /\ UNCHANGED <<told, pipe>>
       \/ /\ instance
          /\ told' = version
          /\ pipe' = IF pipe < PipeCap THEN pipe + 1 ELSE pipe
    /\ UNCHANGED <<version, content, instance, pc, listVars>>

(* hev_fsh_token_manager_reload, from the constructor and the event task.   *)
AfterReload == IF instance THEN "wait" ELSE "return"

(* Mutant: the old list is not cleared.                                     *)
ClearNothing ==
    /\ pc = "clear" /\ pc' = "open"
    /\ lost' = {}
    /\ UNCHANGED <<version, content, sig, told, pipe, instance, snap, line, tokens>>

Clear ==
    /\ pc = "clear" /\ pc' = "open"
    /\ tokens' = {} /\ lost' = {}
    /\ UNCHANGED <<version, content, sig, told, pipe, instance, snap, line>>

Open ==
    /\ pc = "open"
    /\ \/ /\ content = "absent"
          /\ pc' = AfterReload /\ UNCHANGED <<snap, line>>
       \/ /\ content # "absent"
          /\ pc' = "parse" /\ line' = 1
          /\ snap' = IF content = "whole" THEN version ELSE NotWhole
    /\ UNCHANGED <<version, content, sig, told, pipe, instance, tokens, lost>>

(* One line: it is no token, there is no memory for its node, or the token  *)
(* is inserted.  A line of half an edit may be anything.                    *)
ParseLine ==
    /\ pc = "parse" /\ line =< NLines
    /\ line' = line + 1
    /\ \/ /\ line \in Bad \/ snap = NotWhole
          /\ UNCHANGED <<tokens, lost>>
       \/ /\ line \notin Bad \/ snap = NotWhole
          /\ lost' = lost \cup {line} /\ UNCHANGED tokens
       \/ /\ line \notin Bad \/ snap = NotWhole
          /\ tokens' = tokens \cup {<<snap, line>>} /\ UNCHANGED lost
    /\ UNCHANGED <<version, content, sig, told, pipe, instance, pc, snap>>

(* Mutant: the requests that came in meanwhile are discarded.               *)
CloseAndDrain ==
    /\ pc = "parse"
    /\ line > NLines \/ snap = NotWhole
    /\ pc' = AfterReload /\ snap' = NotWhole
    /\ pipe' = 0
    /\ UNCHANGED <<version, content, sig, told, instance, line, tokens, lost>>

(* getline finds no more lines; half an edit may have any number of them.   *)
CloseFile ==
    /\ pc = "parse"
    /\ line > NLines \/ snap = NotWhole
    /\ pc' = AfterReload /\ snap' = NotWhole
    /\ UNCHANGED <<version, content, sig, told, pipe, instance, line, tokens, lost>>

(* main: the constructor returns and instance is assigned ...               *)
SetInstance ==
    /\ pc = "return" /\ pc' = "start"
    /\ instance' = TRUE
    /\ UNCHANGED <<version, content, sig, told, pipe, listVars>>

(* ... and the event task is started.                                       *)
Start ==
    /\ pc = "start" /\ pc' = "wait"
    /\ UNCHANGED <<version, content, sig, told, pipe, instance, listVars>>

(* The event task takes what the pipe has, up to its buffer, and reloads.   *)
EventRead ==
    /\ pc = "wait" /\ pipe > 0
    /\ pipe' = IF pipe > Batch THEN pipe - Batch ELSE 0
    /\ pc' = "clear"
    /\ UNCHANGED <<version, content, sig, told, instance, listVars>>

Server == Clear \/ Open \/ ParseLine \/ CloseFile \/ SetInstance \/ Start \/ EventRead

Next == BeginEdit \/ EndEdit \/ Signal \/ Deliver \/ Server

Spec == Init /\ [][Next]_vars

-----------------------------------------------------------------------------
(* Type invariant of the reload path.  Its last part: the allow list never  *)
(* mixes the tokens of two versions of the file, so a token that an edit    *)
(* took out is not accepted beside the ones it put in.                      *)
TypeOK ==
    /\ version \in 0..MaxVersion
    /\ content \in {"whole", "partial", "absent"}
    /\ content # "whole" => version < MaxVersion
    /\ sig \in BOOLEAN /\ instance \in BOOLEAN
    /\ told \in -1..MaxVersion /\ told =< version
    /\ pipe \in 0..PipeCap
    /\ pc \in {"clear", "open", "parse", "return", "start", "wait"}
    /\ snap \in -1..MaxVersion /\ line \in 1..NLines + 1
    /\ tokens \subseteq (-1..MaxVersion) \X (1..NLines) /\ lost \subseteq 1..NLines
    /\ \A t, u \in tokens : t[1] = u[1] \/ t[1] = NotWhole \/ u[1] = NotWhole

(* The list of version v: its tokens, but for those there was no memory for. *)
List(v) == {v} \X (1..NLines \ (Bad \cup lost))

(* No reload request that reached the server is lost, whatever the pipe     *)
(* dropped and however edits, signals and a running reload interleave: once *)
(* the latest complete edit was announced, its list is loaded, or a reload  *)
(* that will read it is still to come.                                      *)
NoLostReload ==
    content = "whole" /\ told = version =>
        \/ tokens = List(version)
        \/ pipe > 0
        \/ pc \in {"clear", "open"}
        \/ pc = "parse" /\ snap = version

(* The server's steps are taken (its task runs when the pipe is readable)   *)
(* and a pending signal is delivered; nothing is assumed of the operator.   *)
FairSpec == Spec /\ WF_vars(Server) /\ WF_vars(Deliver)

(* A signal for a complete edit, pending once the server object exists,     *)
(* gets that edit loaded unless the file is edited again.                   *)
UpdateTakesEffect ==
    \A v \in 0..MaxVersion :
        sig /\ instance /\ content = "whole" /\ version = v
            ~> tokens = List(v) \/ version # v \/ content # "whole"

=============================================================================
