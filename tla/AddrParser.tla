---------------------------- MODULE AddrParser ----------------------------
(***************************************************************************)
(* The two in-place parsers of hev-main.c: parse_addr for                  *)
(* ADDR[:PORT][/TOKEN] and parse_addr_pair for fields separated by colons. *)
(* Each walks a copy b of its argument character by character, overwrites  *)
(* separators with NUL and stores pointers into b.  A character is the     *)
(* string that names it; b ends with NUL; a pointer is an index of b, and  *)
(* 0 is the null pointer.  One action is one round of the loop.            *)
(***************************************************************************)
EXTENDS Naturals, Sequences

NUL == "NUL"

VARIABLES
    fn,     \* the parser that runs: "none", "addr" or "pair"
    b,      \* strdup (str)
    i,      \* the current character
    s,      \* the state of the state machine
    j,      \* parse_addr_pair's number of pointers
    ps,     \* parse_addr_pair's ps[4]; for parse_addr addr, port and token
    ret     \* "run", "ok", or "error" (b was freed)

parserVars == <<fn, b, i, s, j, ps, ret>>

ADDR  == 1
PORT  == 2
TOKEN == 3

NullPtrs == [n \in 1..4 |-> 0]

ParserInit ==
    /\ fn = "none" /\ b = <<NUL>> /\ i = 1 /\ s = 0 /\ j = 0
    /\ ps = NullPtrs /\ ret = "ok"

(* A call with the text str.                                                *)
Call(f, str) ==
    /\ fn' = f /\ b' = Append(str, NUL) /\ i' = 1 /\ s' = 0 /\ j' = 0
    /\ ps' = NullPtrs /\ ret' = "run"

(* The C string a pointer points to.                                        *)
CStr(p) ==
    LET end == CHOOSE n \in p..Len(b) :
                   b[n] = NUL /\ \A m \in p..(n - 1) : b[m] # NUL
    IN  SubSeq(b, p, end - 1)

-----------------------------------------------------------------------------
(* What a round can do.                                                     *)
Exit     == ret' = "ok" /\ UNCHANGED <<fn, b, i, s, j, ps>>
Error    == ret' = "error" /\ UNCHANGED <<fn, b, i, s, j, ps>>
Skip(st) == s' = st /\ i' = i + 1 /\ UNCHANGED <<fn, b, j, ps, ret>>
Stay(st) == s' = st /\ UNCHANGED <<fn, b, i, j, ps, ret>>
Cut      == b' = [b EXCEPT ![i] = NUL] /\ i' = i + 1

(* b[i++] = NUL, then *p = &b[i].                                           *)
CutAndPoint(p, st) ==
    /\ Cut /\ ps' = [ps EXCEPT ![p] = i + 1] /\ s' = st
    /\ UNCHANGED <<fn, j, ret>>

(* ps[j++] = p, for a pointer of parse_addr_pair.                           *)
Point(p) == ps' = [n \in DOMAIN ps \cup {j + 1} |-> IF n = j + 1 THEN p ELSE ps[n]]
            /\ j' = j + 1

Separators == {NUL, ",", ":", "/", "[", "]"}

(* parse_addr.  States: 0 start, 1 address, 2 port, 4 after "[", 5 inside   *)
(* the brackets, 6 after "]", 7 port after "]".                             *)
ParseAddr ==
    /\ fn = "addr" /\ ret = "run"
    /\ \/ b[i] = NUL /\ Exit
       \/ /\ b[i] = ","
          /\ b' = [b EXCEPT ![i] = NUL] /\ ret' = "ok"
          /\ UNCHANGED <<fn, i, s, j, ps>>
       \/ /\ b[i] = ":"
          /\ \/ s \in {0, 2, 7} /\ Error
             \/ s = 1 /\ CutAndPoint(PORT, 2)
             \/ s = 6 /\ CutAndPoint(PORT, 7)
             \/ s \in {4, 5} /\ Skip(5)
       \/ /\ b[i] = "/"
          /\ \/ s \in {0, 4, 5} /\ Error
             \/ s \in {1, 2, 6, 7} /\ CutAndPoint(TOKEN, s)
       \/ /\ b[i] = "["
          /\ \/ s # 0 /\ Error
             \/ /\ s = 0
                /\ i' = i + 1 /\ ps' = [ps EXCEPT ![ADDR] = i + 1] /\ s' = 4
                /\ UNCHANGED <<fn, b, j, ret>>
       \/ /\ b[i] = "]"
          /\ \/ s # 5 /\ Error
             \/ s = 5 /\ Cut /\ s' = 6 /\ UNCHANGED <<fn, j, ps, ret>>
       \/ /\ b[i] \notin Separators
          /\ \/ /\ s = 0
                /\ i' = i + 1 /\ ps' = [ps EXCEPT ![ADDR] = i] /\ s' = 1
                /\ UNCHANGED <<fn, b, j, ret>>
             \/ s = 4 /\ Stay(5)
             \/ s \notin {0, 4} /\ Skip(s)

(* Mutant: a fifth field starts like the others.                            *)
PairColonUnbounded ==
    /\ b[i] = ":"
    /\ \/ s = 0 /\ Error
       \/ s \in {1, 3} /\ Cut /\ s' = 0 /\ UNCHANGED <<fn, j, ps, ret>>
       \/ s = 2 /\ Skip(2)

(* The colon in parse_addr_pair: it starts a field unless ps is full.       *)
PairColon ==
    /\ b[i] = ":"
    /\ \/ s = 0 /\ Error
       \/ /\ s \in {1, 3}
          /\ Cut /\ s' = (IF j < 4 THEN 0 ELSE s)
          /\ UNCHANGED <<fn, j, ps, ret>>
       \/ s = 2 /\ Skip(2)

(* parse_addr_pair.  States: 0 start of a field, 1 field, 2 inside the      *)
(* brackets, 3 after "]".                                                   *)
ParseAddrPair ==
    /\ fn = "pair" /\ ret = "run"
    /\ \/ b[i] = NUL /\ Exit
       \/ PairColon
       \/ /\ b[i] = "["
          /\ \/ s # 0 /\ Error
             \/ s = 0 /\ i' = i + 1 /\ Point(i + 1) /\ s' = 2
                /\ UNCHANGED <<fn, b, ret>>
       \/ /\ b[i] = "]"
          /\ \/ s # 2 /\ Error
             \/ s = 2 /\ Cut /\ s' = 3 /\ UNCHANGED <<fn, j, ps, ret>>
       \/ /\ b[i] \notin {NUL, ":", "[", "]"}
          /\ \/ s = 0 /\ i' = i + 1 /\ Point(i) /\ s' = 1
                /\ UNCHANGED <<fn, b, ret>>
             \/ s # 0 /\ Skip(s)

ParserStep == ParseAddr \/ ParseAddrPair

-----------------------------------------------------------------------------
(* Type invariant of the parsers.                                           *)
ParserTypeOK ==
    /\ fn \in {"none", "addr", "pair"}
    /\ b \in Seq(STRING \cup {NUL}) /\ i \in Nat /\ s \in 0..7 /\ j \in Nat
    /\ ret \in {"run", "ok", "error"}

(* Neither parser leaves its buffer: the walk stops at the NUL that ends    *)
(* the copy, every pointer it stored points into the copy, and              *)
(* parse_addr_pair never stores a fifth one, whatever the text.             *)
BufferSafe ==
    /\ i \in 1..Len(b) /\ b[Len(b)] = NUL
    /\ j <= 4
    /\ ps \in [1..4 -> 0..Len(b)]
=============================================================================
