------------------------- MODULE CommandLineProofs -------------------------
(***************************************************************************)
(* For every command line: the types, the bounds of the two in-place       *)
(* parsers, that an accepted configuration can be used, that getopt with   *)
(* its permutation reads the words as GNU getopt does, that a command line *)
(* of a documented form is understood, and that a port forwarder serves    *)
(* what its list says.                                                     *)
(*                                                                         *)
(* The invariants, each resting on those before it: CommandInv (types and  *)
(* bounds), GnuInv (getopt against the scan of the given words), FormInv   *)
(* (which text is parsed, and what of the user's meaning is set already).  *)
(***************************************************************************)
EXTENDS CommandLine, FiniteSetTheorems, SequenceTheorems, TLAPS

-----------------------------------------------------------------------------
(* Operators.                                                               *)

(* A set of numbers that is not empty has a least member.                   *)
LEMMA Least ==
    ASSUME NEW S, S \subseteq Nat, S # {}
    PROVE  \E m \in S : \A q \in S : m <= q
<1> DEFINE R == OpToRel(<, Nat)
<1>1. \E x \in S : \A y \in S : ~ (<<y, x>> \in R)
  BY NatLessThanWellFounded, WFMin
<1>2. PICK x \in S : \A y \in S : ~ (<<y, x>> \in R)
  BY <1>1
<1>3. ASSUME NEW y \in S, y < x PROVE <<y, x>> \in R
  BY <1>3 DEF OpToRel
<1>4. \A y \in S : ~ (y < x)
  BY <1>2, <1>3
<1> QED BY <1>4

(* Moving some of the words to the front loses none and adds none: the      *)
(* places of the words are all different.                                   *)
LEMMA PlacesFilled ==
    ASSUME NEW C, NEW a \in Seq(C), NEW P \in SUBSET (1..Len(a))
    PROVE  /\ \A n \in 1..Len(a) : \E m \in 1..Len(a) : Place(a, P, m) = n
           /\ \A n \in 1..Len(a) : Place(a, P, n) \in 1..Len(a)
           /\ \A m, n \in 1..Len(a) : Place(a, P, m) = Place(a, P, n) => m = n
<1> DEFINE D == 1..Len(a)
           Q == D \ P
           UpTo(S, n) == {m \in S : m <= n}
           f == [n \in D |-> Place(a, P, n)]
<1>a. Len(a) \in Nat
  BY LenProperties
<1>0. IsFiniteSet(D) /\ Cardinality(D) = Len(a)
  BY <1>a, FS_Interval
<1>1. /\ IsFiniteSet(P) /\ IsFiniteSet(Q)
      /\ Cardinality(P) \in Nat /\ Cardinality(Q) \in Nat
      /\ Cardinality(P) + Cardinality(Q) = Len(a)
  <2>1. IsFiniteSet(P) /\ IsFiniteSet(Q)
    BY <1>0, FS_Subset
  <2>2. Cardinality(Q) = Cardinality(D) - Cardinality(D \cap P)
    BY <1>0, FS_Difference
  <2>3. D \cap P = P
    OBVIOUS
  <2>4. Cardinality(P) \in Nat /\ Cardinality(Q) \in Nat
    BY <2>1, FS_CardinalityType
  <2>5. Cardinality(Q) = Len(a) - Cardinality(P)
    BY <2>2, <2>3, <1>0
  <2> HIDE DEF Q
  <2> QED BY <2>1, <2>4, <2>5, <1>a
<1>2. ASSUME NEW S \in SUBSET D, IsFiniteSet(S), NEW n \in S
      PROVE  Cardinality(UpTo(S, n)) \in 1..Cardinality(S)
  <2>1. /\ UpTo(S, n) \subseteq S /\ n \in UpTo(S, n)
    BY <1>a
  <2>2. /\ IsFiniteSet(UpTo(S, n)) /\ Cardinality(UpTo(S, n)) <= Cardinality(S)
    BY <2>1, <1>2, FS_Subset
  <2>3. Cardinality(UpTo(S, n)) # 0
    BY <2>1, <2>2, FS_EmptySet
  <2> QED BY <2>2, <2>3, <1>2, FS_CardinalityType
<1>3. ASSUME NEW S \in SUBSET D, IsFiniteSet(S), NEW m \in S, NEW n \in S,
             Cardinality(UpTo(S, m)) = Cardinality(UpTo(S, n))
      PROVE  m = n
  <2>1. ASSUME NEW x \in S, NEW y \in S, x < y,
               Cardinality(UpTo(S, x)) = Cardinality(UpTo(S, y))
        PROVE  FALSE
    <3>0. S \subseteq Int
      BY <1>a
    <3>a. ASSUME NEW z \in S, z <= x PROVE z <= y
      BY <2>1, <3>0, <3>a
    <3>b. UpTo(S, y) \subseteq S /\ UpTo(S, x) \subseteq UpTo(S, y)
      BY <3>a
    <3>c. y \in Int /\ x \in Int
      BY <3>0
    <3>d. y <= y /\ ~ (y <= x)
      BY <2>1, <3>c
    <3>1. /\ UpTo(S, y) \subseteq S /\ UpTo(S, x) \subseteq UpTo(S, y)
          /\ y \in UpTo(S, y) /\ y \notin UpTo(S, x)
      BY <3>b, <3>d
    <3>2. IsFiniteSet(UpTo(S, y))
      BY <3>1, <1>3, FS_Subset
    <3>3. UpTo(S, x) = UpTo(S, y)
      BY <3>1, <3>2, <2>1, FS_Subset
    <3> QED BY <3>1, <3>3
  <2> QED BY <2>1, <1>3, <1>a
<1>4. \A n \in D : Place(a, P, n) =
          IF n \in P THEN Cardinality(UpTo(P, n))
          ELSE Cardinality(P) + Cardinality(UpTo(Q, n))
  BY DEF Place
<1> HIDE DEF UpTo
<1>5. ASSUME NEW n \in D PROVE Place(a, P, n) \in D
  <2>1. CASE n \in P
    BY <2>1, <1>1, <1>2, <1>4, <1>a
  <2>2. CASE n \in Q
    <3>1. Cardinality(UpTo(Q, n)) \in 1..Cardinality(Q)
      BY <2>2, <1>1, <1>2
    <3>2. Place(a, P, n) = Cardinality(P) + Cardinality(UpTo(Q, n))
      BY <2>2, <1>4
    <3> QED BY <3>1, <3>2, <1>1, <1>a
  <2> QED BY <2>1, <2>2
<1>6. ASSUME NEW m \in D, NEW n \in D, Place(a, P, m) = Place(a, P, n)
      PROVE  m = n
  <2>1. \A x \in P : Cardinality(UpTo(P, x)) \in 1..Cardinality(P)
    BY <1>1, <1>2
  <2>2. \A x \in Q : Cardinality(UpTo(Q, x)) \in 1..Cardinality(Q)
    BY <1>1, <1>2
  <2>a. ASSUME NEW x \in P, NEW y \in Q PROVE Place(a, P, x) # Place(a, P, y)
    <3>1. /\ Place(a, P, x) = Cardinality(UpTo(P, x))
          /\ Place(a, P, y) = Cardinality(P) + Cardinality(UpTo(Q, y))
      BY <1>4
    <3>2. /\ Cardinality(UpTo(P, x)) \in 1..Cardinality(P)
          /\ Cardinality(UpTo(Q, y)) \in 1..Cardinality(Q)
      BY <2>1, <2>2
    <3> QED BY <3>1, <3>2, <1>1
  <2>3. m \in P <=> n \in P
    BY <2>a, <1>6
  <2>4. CASE m \in P
    BY <2>3, <2>4, <1>1, <1>3, <1>4, <1>6
  <2>5. CASE m \in Q
    <3>1. Cardinality(UpTo(Q, m)) = Cardinality(UpTo(Q, n))
      <4>1. /\ Place(a, P, m) = Cardinality(P) + Cardinality(UpTo(Q, m))
            /\ Place(a, P, n) = Cardinality(P) + Cardinality(UpTo(Q, n))
        BY <2>3, <2>5, <1>4
      <4>2. /\ Cardinality(UpTo(Q, m)) \in 1..Cardinality(Q)
            /\ Cardinality(UpTo(Q, n)) \in 1..Cardinality(Q)
        BY <2>2, <2>3, <2>5
      <4> QED BY <4>1, <4>2, <1>1, <1>6
    <3> QED BY <3>1, <2>3, <2>5, <1>1, <1>3
  <2> QED BY <2>4, <2>5
<1>7. f \in Injection(D, D)
  BY <1>5, <1>6 DEF Injection, IsInjective
<1>8. f \in Surjection(D, D)
  BY <1>7, <1>0, FS_Injection
<1>9. \A n \in D : \E m \in D : Place(a, P, m) = n
  BY <1>8 DEF Surjection
<1> QED BY <1>5, <1>6, <1>9

(* The permuted words are as many, of the same characters.                  *)
LEMMA PermuteType ==
    ASSUME NEW C, NEW a \in Seq(C)
    PROVE  Permute(a) \in Seq(C) /\ Len(Permute(a)) = Len(a)
<1> DEFINE P == {n \in 1..Len(a) :
                    WordKinds(a)[n] \in {"option", "needs", "argument"}}
           From(n) == CHOOSE m \in 1..Len(a) : Place(a, P, m) = n
<1>1. \A n \in 1..Len(a) : \E m \in 1..Len(a) : Place(a, P, m) = n
  BY PlacesFilled
<1>2. \A n \in 1..Len(a) : From(n) \in 1..Len(a)
  BY <1>1
<1>3. Permute(a) = [n \in 1..Len(a) |-> a[From(n)]]
  BY DEF Permute, InFront
<1> HIDE DEF From
<1>4. \A n \in 1..Len(a) : a[From(n)] \in C
  BY <1>2, ElementOfSeq
<1> QED BY <1>3, <1>4, LenProperties, IsASeq

(* The null pointer is no word.                                             *)
LEMMA NullIsNoWord == \A w \in Seq(Char) : w # NULL
<1> SUFFICES ASSUME NEW w \in Seq(Char), w = NULL PROVE FALSE
  OBVIOUS
<1>1. Len(w) = 1 /\ w[1] = "NULL"
  BY DEF NULL
<1>2. w[1] \in Char
  BY <1>1, ElementOfSeq
<1> QED BY <1>1, <1>2 DEF Char

-----------------------------------------------------------------------------
(* The parsers.                                                             *)

(* The inductive invariant of a parser: at the start of a field            *)
(* parse_addr_pair has room for a pointer.                                  *)
BufferInv ==
    /\ fn \in {"none", "addr", "pair"} /\ ret \in {"run", "ok", "error"}
    /\ b \in Seq(Char \cup {NUL}) /\ s \in 0..7 /\ j \in Nat
    /\ BufferSafe
    /\ fn = "pair" /\ s = 0 => j < 4

(* strdup and the initial values.                                           *)
LEMMA CallSafe ==
    ASSUME NEW f \in {"addr", "pair"}, NEW str \in Seq(Char), Call(f, str)
    PROVE  BufferInv'
<1>1. str \in Seq(Char \cup {NUL}) /\ NUL \in Char \cup {NUL} /\ Len(str) \in Nat
  <2>1. Char \subseteq Char \cup {NUL}
    OBVIOUS
  <2> QED BY <2>1, LenProperties
<1>2. /\ b' \in Seq(Char \cup {NUL}) /\ Len(b') = Len(str) + 1
      /\ b'[Len(str) + 1] = NUL
  BY <1>1, AppendProperties DEF Call
<1>3. /\ fn' = f /\ i' = 1 /\ s' = 0 /\ j' = 0 /\ ret' = "run"
      /\ ps' = NullPtrs
  BY DEF Call
<1>4. ps' \in [1..4 -> 0..Len(b')]
  BY <1>1, <1>2, <1>3 DEF NullPtrs
<1> QED BY <1>1, <1>2, <1>3, <1>4 DEF BufferInv, BufferSafe

(* A round that cuts the text at the present character.                     *)
LEMMA CutSafe ==
    ASSUME BufferInv, b[i] # NUL
    PROVE  /\ i < Len(b) /\ i + 1 \in 1..Len(b)
           /\ LET c == [b EXCEPT ![i] = NUL] IN
              /\ c \in Seq(Char \cup {NUL}) /\ Len(c) = Len(b)
              /\ c[Len(b)] = NUL
<1>1. Len(b) \in Nat /\ i \in 1..Len(b) /\ b[Len(b)] = NUL
  BY LenProperties DEF BufferInv, BufferSafe
<1>2. i < Len(b)
  BY <1>1
<1>3. b \in Seq(Char \cup {NUL}) /\ NUL \in Char \cup {NUL}
  BY DEF BufferInv
<1> QED BY <1>1, <1>2, <1>3, ExceptSeq

(* A round of parse_addr stays in the buffer.                               *)
LEMMA ParseAddrSafe ==
    ASSUME BufferInv, ParseAddr
    PROVE  BufferInv'
<1> DEFINE Points == ps' = ps \/ \E p \in 1..3, q \in {i, i + 1} : ps' = [ps EXCEPT ![p] = q]
           Stays  == b' = b /\ i' = i /\ ps' = ps
           Walks  == /\ b[i] # NUL
                     /\ b' = b \/ b' = [b EXCEPT ![i] = NUL]
                     /\ i' = i \/ i' = i + 1
                     /\ Points
<1>0. /\ fn = "addr" /\ s \in 0..7 /\ ret = "run" /\ Len(b) \in Nat /\ i \in 1..Len(b)
      /\ b \in Seq(Char \cup {NUL}) /\ b[Len(b)] = NUL
      /\ ps \in [1..4 -> 0..Len(b)] /\ j \in Nat /\ j <= 4
  BY LenProperties DEF ParseAddr, BufferInv, BufferSafe
<1>1. /\ fn' = fn /\ j' = j /\ ret' \in {"run", "ok", "error"} /\ s' \in 0..7
      /\ Stays \/ Walks
  <2> USE DEF NUL
  <2>1. CASE b[i] = NUL
    BY <2>1, <1>0 DEF ParseAddr, Exit, Separators
  <2>2. CASE b[i] = ","
    BY <2>2, <1>0 DEF ParseAddr, Separators
  <2>3. CASE b[i] = ":"
    <3>1. \/ Error
          \/ CutAndPoint(PORT, 2) \/ CutAndPoint(PORT, 7) \/ Skip(5)
      BY <2>3 DEF ParseAddr, Separators
    <3> QED BY <3>1, <2>3, <1>0 DEF Error, CutAndPoint, Cut, Skip, PORT
  <2>4. CASE b[i] = "/"
    <3>1. Error \/ CutAndPoint(TOKEN, s)
      BY <2>4 DEF ParseAddr, Separators
    <3>2. CASE Error
      BY <3>2, <2>4, <1>0 DEF Error
    <3>3. CASE CutAndPoint(TOKEN, s)
      <4>1. ps' = [ps EXCEPT ![3] = i + 1] /\ s' = s
        BY <3>3 DEF CutAndPoint, TOKEN
      <4>2. Points
        BY <4>1
      <4> QED BY <4>1, <4>2, <3>3, <2>4, <1>0 DEF CutAndPoint, Cut
    <3> QED BY <3>1, <3>2, <3>3
  <2>5. CASE b[i] = "["
    BY <2>5, <1>0 DEF ParseAddr, Separators, Error, ADDR
  <2>6. CASE b[i] = "]"
    BY <2>6, <1>0 DEF ParseAddr, Separators, Error, Cut
  <2>7. CASE b[i] \notin Separators
    <3>0. b[i] # NUL
      BY <2>7 DEF Separators
    <3>1. \/ Stay(5) \/ Skip(s)
          \/ /\ i' = i + 1 /\ ps' = [ps EXCEPT ![1] = i] /\ s' = 1
             /\ UNCHANGED <<fn, b, j, ret>>
      BY <2>7 DEF ParseAddr, Separators, ADDR
    <3>2. CASE Stay(5) \/ Skip(s)
      BY <3>2, <3>0, <1>0 DEF Stay, Skip
    <3>3. CASE /\ i' = i + 1 /\ ps' = [ps EXCEPT ![1] = i] /\ s' = 1
               /\ UNCHANGED <<fn, b, j, ret>>
      BY <3>3, <3>0, <1>0
    <3> QED BY <3>1, <3>2, <3>3
  <2> QED BY <2>1, <2>2, <2>3, <2>4, <2>5, <2>6, <2>7 DEF Separators
<1>2. CASE Stays
  BY <1>0, <1>1, <1>2 DEF BufferInv, BufferSafe
<1>3. CASE Walks
  <2>1. /\ b' \in Seq(Char \cup {NUL}) /\ Len(b') = Len(b)
        /\ b'[Len(b)] = NUL
    BY <1>3, <1>0, CutSafe
  <2>2. i' \in 1..Len(b) /\ i + 1 \in 1..Len(b)
    BY <1>3, <1>0, CutSafe
  <2>3. ps' \in [1..4 -> 0..Len(b)]
    BY <1>3, <1>0, <2>2
  <2> QED BY <1>0, <1>1, <2>1, <2>2, <2>3 DEF BufferInv, BufferSafe
<1> QED BY <1>1, <1>2, <1>3

(* A round of parse_addr_pair stays in the buffer and in its array.         *)
LEMMA ParsePairSafe ==
    ASSUME BufferInv, ParseAddrPair
    PROVE  BufferInv'
<1>0. /\ fn = "pair" /\ fn' = fn /\ ret' \in {"run", "ok", "error"}
      /\ s' \in 0..7
  BY DEF ParseAddrPair, PairColon, BufferInv, Exit, Error, Cut, Skip
<1>1. CASE b' = b /\ i' = i /\ ps' = ps /\ j' = j /\ s' = s
  BY <1>0, <1>1 DEF BufferInv, BufferSafe
<1>2. CASE /\ b[i] # NUL
           /\ b' \in {b, [b EXCEPT ![i] = NUL]}
           /\ i' = i + 1
           /\ \/ ps' = ps /\ j' = j /\ (s' = 0 => s = 0 \/ j < 4)
              \/ s = 0 /\ s' # 0 /\ \E q \in {i, i + 1} : Point(q)
  <2>1. /\ b' \in Seq(Char \cup {NUL}) /\ Len(b') = Len(b)
        /\ b'[Len(b)] = NUL
    BY <1>2, CutSafe DEF BufferInv, BufferSafe
  <2>2. i' \in 1..Len(b) /\ i \in 1..Len(b)
    BY <1>2, CutSafe DEF BufferInv, BufferSafe
  <2>3. CASE ps' = ps /\ j' = j /\ (s' = 0 => s = 0 \/ j < 4)
    BY <1>0, <2>1, <2>2, <2>3 DEF BufferInv, BufferSafe
  <2>4. CASE s = 0 /\ s' # 0 /\ \E q \in {i, i + 1} : Point(q)
    <3>1. PICK q \in {i, i + 1} : Point(q)
      BY <2>4
    <3>2. j \in 0..3 /\ q \in 0..Len(b)
      BY <1>0, <1>2, <2>2, <2>4 DEF BufferInv
    <3>3. DOMAIN ps \cup {j + 1} = 1..4
      BY <3>2 DEF BufferInv, BufferSafe
    <3>4. ps' \in [1..4 -> 0..Len(b)] /\ j' \in 0..4
      BY <3>1, <3>2, <3>3 DEF Point, BufferInv, BufferSafe
    <3> QED BY <1>0, <2>1, <2>2, <2>4, <3>4 DEF BufferInv, BufferSafe
  <2> QED BY <1>2, <2>3, <2>4
<1>3. \/ b' = b /\ i' = i /\ ps' = ps /\ j' = j /\ s' = s
      \/ /\ b[i] # NUL
         /\ b' \in {b, [b EXCEPT ![i] = NUL]}
         /\ i' = i + 1
         /\ \/ ps' = ps /\ j' = j /\ (s' = 0 => s = 0 \/ j < 4)
            \/ s = 0 /\ s' # 0 /\ \E q \in {i, i + 1} : Point(q)
  BY DEF ParseAddrPair, PairColon, Exit, Error, Cut, Skip, NUL
<1> QED BY <1>1, <1>2, <1>3

(* The C string of a pointer into the buffer is a text, not the null        *)
(* pointer.                                                                 *)
LEMMA CStrIsText ==
    ASSUME BufferInv, NEW p \in 1..Len(b)
    PROVE  CStr(p) # NULL
<1> DEFINE N == {n \in p..Len(b) : b[n] = NUL}
           Ends(n) == b[n] = NUL /\ \A m \in p..(n - 1) : b[m] # NUL
<1>0. /\ Len(b) \in Nat /\ b \in Seq(Char \cup {NUL}) /\ b[Len(b)] = NUL
  BY LenProperties DEF BufferInv, BufferSafe
<1>1. PICK e \in N : \A q \in N : e <= q
  <2>1. N \subseteq Nat /\ Len(b) \in N
    BY <1>0
  <2> QED BY <2>1, Least
<1>2. e \in p..Len(b) /\ Ends(e)
  BY <1>0, <1>1
<1>3. PICK end : end \in p..Len(b) /\ CStr(p) = SubSeq(b, p, end - 1)
  <2> DEFINE z == CHOOSE n \in p..Len(b) : Ends(n)
  <2>1. z \in p..Len(b)
    BY <1>2
  <2>2. CStr(p) = SubSeq(b, p, z - 1)
    BY DEF CStr
  <2> QED BY <2>1, <2>2
<1>4. \A n \in p..(end - 1) : b[n] \in Char \cup {NUL}
  BY <1>0, <1>3, ElementOfSeq
<1>5. SubSeq(b, p, end - 1) \in Seq(Char \cup {NUL})
  BY <1>0, <1>3, <1>4, SubSeqProperties
<1>6. \A w \in Seq(Char \cup {NUL}) : w # NULL
  <2> SUFFICES ASSUME NEW w \in Seq(Char \cup {NUL}), w = NULL PROVE FALSE
    OBVIOUS
  <2>1. Len(w) = 1 /\ w[1] = "NULL"
    BY DEF NULL
  <2>2. w[1] \in Char \cup {NUL}
    BY <2>1, ElementOfSeq
  <2> QED BY <2>1, <2>2 DEF Char, NUL
<1> QED BY <1>3, <1>5, <1>6

-----------------------------------------------------------------------------
(* The inductive invariant.                                                 *)

Phases == {"permute", "getopt", "operands", "server", "pair", "local",
           "list", "element", "key", "done", "usage"}
Connectors == {"CONNECTOR_TERM", "CONNECTOR_PORT", "CONNECTOR_SOCK"}
Modes == {"NONE", "SERVER", "FORWARDER_TERM", "FORWARDER_PORT",
          "FORWARDER_SOCK"} \cup Connectors
Fields == {"mode", "server_address", "token", "remote_address"}

(* The words, and where getopt is in them.                                  *)
WordInv ==
    /\ phase \in Phases
    /\ argv \in Seq(Seq(Char)) /\ Len(argv) = Len(given)
    /\ optind \in 1..(Len(argv) + 1)
    /\ pos = 2 \/ (optind <= Len(argv) /\ pos \in 2..Len(Word))
    /\ phase = "permute" => pos = 2

(* The options found; the rest of an address list is a text.                *)
OptionInv ==
    /\ on \subseteq OptString
    /\ optarg \in [WithArg -> Seq(Char) \cup {NULL}]
    /\ \A o \in WithArg : optarg[o] # NULL <=> o \in on
    /\ list \in Seq(Char)

Usable(c) ==
    /\ c.mode # "NONE" /\ c.server_address # NULL
    /\ c.mode \in Connectors => c.token # NULL
    /\ c.mode = "CONNECTOR_PORT" => c.remote_address # NULL

(* The configuration: what a connector's later texts rely on was checked    *)
(* with the server's address.                                               *)
ConfigInv ==
    /\ Fields \subseteq DOMAIN cfg /\ cfg.mode \in Modes
    /\ phase = "server" /\ "s" \notin on /\ PairFirst => optind + 1 <= Len(argv)
    /\ phase \in {"pair", "local"} => cfg.token # NULL
    /\ phase \in {"key", "done"} => Usable(cfg)

CommandInv == BufferInv /\ WordInv /\ OptionInv /\ ConfigInv /\ lost \in BOOLEAN

(* hev_fsh_config_set_mode leaves an address, and the token and the remote  *)
(* end as they are.                                                         *)
LEMMA SetModeIs ==
    ASSUME NEW c, Fields \subseteq DOMAIN c, NEW m \in Modes
    PROVE  LET d == SetMode(c, m) IN
           /\ Fields \subseteq DOMAIN d /\ d.mode = m /\ d.server_address # NULL
           /\ d.token = c.token /\ d.remote_address = c.remote_address
<1>1. <<"0.0.0.0">> # NULL /\ <<"127.0.0.1">> # NULL
  BY DEF NULL
<1> QED BY <1>1 DEF SetMode, Fields

(* What parse_set_addr_pair leaves as it was, and that it sets a remote     *)
(* end.                                                                     *)
LEMMA SetPairIs ==
    ASSUME BufferInv, ps[1] # 0, ps[2] # 0,
           NEW c, Fields \subseteq DOMAIN c
    PROVE  LET d == SetPair(c) IN
           /\ Fields \subseteq DOMAIN d /\ d.token = c.token
           /\ d.remote_address # NULL
<1>0. \A n \in 1..4 : ps[n] # 0 => ps[n] \in 1..Len(b)
  BY LenProperties DEF BufferInv, BufferSafe
<1>1. \A n \in 1..4 : ps[n] # 0 => Str(n, NULL) # NULL
  BY <1>0, CStrIsText DEF Str
<1> QED BY <1>1 DEF SetPair, Fields

-----------------------------------------------------------------------------
(* The actions.                                                             *)

(* The inductive invariant holds before the first call of getopt.           *)
LEMMA CommandInit == Init => CommandInv
<1> SUFFICES ASSUME Init PROVE CommandInv
  OBVIOUS
<1>1. BufferInv
  <2>1. <<NUL>> \in Seq(Char \cup {NUL}) /\ Len(<<NUL>>) = 1 /\ <<NUL>>[1] = NUL
    OBVIOUS
  <2> QED BY <2>1 DEF Init, ParserInit, BufferInv, BufferSafe, NullPtrs
<1>2. WordInv
  <2>1. PICK n \in DOMAIN Cases : \E c \in Cases[n] : given = c.argv /\ argv = c.argv
    BY DEF Init
  <2>2. PICK c \in Cases[n] : given = c.argv /\ argv = c.argv
    BY <2>1
  <2>3. argv \in Seq(Seq(Char)) /\ argv = given
    BY <2>2, CasesAssumption
  <2>4. optind = 1 /\ pos = 2 /\ phase = "permute"
    BY DEF Init
  <2> QED BY <2>3, <2>4, LenProperties DEF WordInv, Phases
<1>3. OptionInv
  BY EmptySeq DEF Init, OptionInv
<1>4. ConfigInv
  BY DEF Init, ConfigInv, NewConfig, Fields, Modes
<1>5. lost \in BOOLEAN
  BY DEF Init
<1> QED BY <1>1, <1>2, <1>3, <1>4, <1>5 DEF CommandInv

(* getopt.                                                                  *)
LEMMA GetoptSafe ==
    ASSUME CommandInv, GetoptPermute \/ GetoptEnd \/ GetoptNext
    PROVE  CommandInv'
<1>0. UNCHANGED <<parserVars, list, cfg, lost, given>>
  BY DEF GetoptPermute, GetoptEnd, GetoptNext, argVars
<1>1. BufferInv' /\ lost' \in BOOLEAN
  BY <1>0 DEF CommandInv, BufferInv, BufferSafe, parserVars
<1>2. ConfigInv'
  <2>1. phase' \in {"getopt", "operands", "usage"}
    BY DEF GetoptPermute, GetoptEnd, GetoptNext, Usage
  <2> QED BY <1>0, <2>1 DEF CommandInv, ConfigInv, Fields
<1>3. CASE GetoptPermute
  <2>1. argv' \in Seq(Seq(Char)) /\ Len(argv') = Len(argv)
    BY <1>3, PermuteType DEF CommandInv, WordInv, GetoptPermute
  <2>2. pos = 2 /\ UNCHANGED <<optind, pos, on, optarg>> /\ phase' = "getopt"
    BY <1>3 DEF CommandInv, WordInv, GetoptPermute, optVars
  <2>3. WordInv'
    BY <1>0, <2>1, <2>2 DEF CommandInv, WordInv, Phases
  <2>4. OptionInv'
    BY <1>0, <2>2 DEF CommandInv, OptionInv
  <2> QED BY <1>1, <1>2, <2>3, <2>4 DEF CommandInv
<1>4. CASE GetoptEnd
  <2>1. UNCHANGED <<argv, pos, on, optarg>> /\ phase' = "operands"
    BY <1>4 DEF GetoptEnd, argVars
  <2>2. WordInv'
    <3>1. CASE optind <= Len(argv) /\ Word = Dashes
      <4>1. Len(Word) = 2
        BY <3>1 DEF Dashes
      <4>2. pos = 2 /\ optind' = optind + 1
        BY <1>4, <3>1, <4>1 DEF GetoptEnd, CommandInv, WordInv
      <4> QED BY <1>0, <2>1, <3>1, <4>2, LenProperties DEF CommandInv, WordInv, Phases
    <3>2. CASE ~(optind <= Len(argv) /\ Word = Dashes)
      <4>1. optind' = optind
        BY <1>4, <3>2 DEF GetoptEnd
      <4> QED BY <1>0, <2>1, <4>1 DEF CommandInv, WordInv, Phases, Word
    <3> QED BY <3>1, <3>2
  <2>3. OptionInv'
    BY <1>0, <2>1 DEF CommandInv, OptionInv
  <2> QED BY <1>1, <1>2, <2>2, <2>3 DEF CommandInv
<1>5. CASE GetoptNext
  <2> DEFINE c == Word[pos]
             last == pos = Len(Word)
             arg == IF last THEN argv[optind + 1] ELSE SubSeq(Word, pos + 1, Len(Word))
  <2>0. /\ optind \in 1..Len(argv) /\ Len(argv) \in Nat /\ Word \in Seq(Char)
        /\ Len(Word) \in Nat /\ pos \in 2..Len(Word) /\ argv' = argv
        /\ phase = "getopt"
    <3>1. argv \in Seq(Seq(Char)) /\ optind \in 1..(Len(argv) + 1) /\ optind <= Len(argv)
      BY <1>5 DEF GetoptNext, CommandInv, WordInv
    <3>2. optind \in 1..Len(argv) /\ Len(argv) \in Nat
      BY <3>1, LenProperties
    <3>3. Word \in Seq(Char) /\ Len(Word) \in Nat
      BY <3>1, <3>2, ElementOfSeq, LenProperties DEF Word
    <3>4. Len(Word) > 1 /\ argv' = argv /\ phase = "getopt"
      BY <1>5 DEF GetoptNext, IsOption, argVars
    <3> QED BY <3>2, <3>3, <3>4 DEF CommandInv, WordInv
  <2>1. CASE phase' = "usage" /\ UNCHANGED optVars
    <3>1. WordInv' /\ OptionInv'
      BY <1>0, <2>0, <2>1 DEF CommandInv, WordInv, OptionInv, optVars, Phases, Word
    <3> QED BY <1>1, <1>2, <3>1 DEF CommandInv
  <2>2. CASE /\ c \in Flags
             /\ on' = on \cup {c}
             /\ optind' = IF last THEN optind + 1 ELSE optind
             /\ pos' = IF last THEN 2 ELSE pos + 1
             /\ UNCHANGED <<phase, optarg>>
    <3>1. WordInv'
      BY <1>0, <2>0, <2>2 DEF CommandInv, WordInv, Phases, Word
    <3>2. c \notin WithArg /\ c \in OptString
      BY <2>2 DEF Flags, WithArg, OptString
    <3>3. OptionInv'
      BY <1>0, <2>2, <3>2 DEF CommandInv, OptionInv
    <3> QED BY <1>1, <1>2, <3>1, <3>3 DEF CommandInv
  <2>3. CASE /\ c \in WithArg /\ ~(last /\ optind = Len(argv))
             /\ on' = on \cup {c}
             /\ optarg' = [optarg EXCEPT ![c] = arg]
             /\ optind' = IF last THEN optind + 2 ELSE optind + 1
             /\ pos' = 2 /\ UNCHANGED phase
    <3>1. WordInv'
      BY <1>0, <2>0, <2>3 DEF CommandInv, WordInv, Phases
    <3>2. arg \in Seq(Char)
      <4>1. CASE last
        BY <2>0, <2>3, <4>1, ElementOfSeq DEF CommandInv, WordInv
      <4>2. CASE ~last
        <5>1. \A n \in (pos + 1)..Len(Word) : Word[n] \in Char
          BY <2>0, ElementOfSeq
        <5> QED BY <2>0, <4>2, <5>1, SubSeqProperties
      <4> QED BY <4>1, <4>2
    <3>3. arg # NULL
      BY <3>2, NullIsNoWord
    <3> HIDE DEF arg
    <3>4. OptionInv'
      BY <1>0, <2>3, <3>2, <3>3 DEF CommandInv, OptionInv, OptString
    <3> QED BY <1>1, <1>2, <3>1, <3>4 DEF CommandInv
  <2> QED BY <1>5, <2>1, <2>2, <2>3 DEF GetoptNext, Usage
<1> QED BY <1>3, <1>4, <1>5

(* A step of parse_args behind getopt keeps the words and the options; what *)
(* is left is the text handed to a parser, the list and the configuration.  *)
LEMMA BehindGetopt ==
    ASSUME CommandInv, UNCHANGED <<argVars, optVars>>,
           phase' \in Phases \ {"permute", "getopt"},
           list' \in Seq(Char), lost' \in BOOLEAN,
           BufferInv', ConfigInv'
    PROVE  CommandInv'
<1>1. WordInv'
  BY DEF CommandInv, WordInv, argVars, optVars, Word
<1>2. OptionInv'
  BY DEF CommandInv, OptionInv, optVars
<1> QED BY <1>1, <1>2 DEF CommandInv

(* A step of parse_args itself leaves the parsers alone.                    *)
LEMMA BufferStays ==
    ASSUME BufferInv, UNCHANGED parserVars PROVE BufferInv'
BY DEF BufferInv, BufferSafe, parserVars

(* The operands are words.                                                  *)
LEMMA OperandIsWord ==
    ASSUME WordInv, NEW n \in Nat
    PROVE  T(n) # NULL => T(n) \in Seq(Char) /\ optind + n <= Len(argv)
BY ElementOfSeq, LenProperties DEF WordInv, T

(* The text of the server's address is a word.                              *)
LEMMA OperandsSafe ==
    ASSUME CommandInv, Operands
    PROVE  CommandInv'
<1>0. /\ UNCHANGED <<argVars, optVars, list, lost>>
      /\ list' \in Seq(Char) /\ lost' \in BOOLEAN
  BY DEF Operands, CommandInv, OptionInv
<1> DEFINE sa == IF "s" \notin on /\ PairFirst THEN T(1) ELSE T(0)
<1>1. CASE /\ cfg' = [cfg EXCEPT !.mode = "SERVER", !.server_address = <<"0.0.0.0">>]
           /\ phase' = "key" /\ UNCHANGED parserVars
  <2>1. /\ Fields \subseteq DOMAIN cfg' /\ cfg'.mode = "SERVER"
        /\ cfg'.server_address = <<"0.0.0.0">>
    BY <1>1 DEF CommandInv, ConfigInv, Fields
  <2>2. <<"0.0.0.0">> # NULL
    BY DEF NULL
  <2>3. ConfigInv'
    BY <1>1, <2>1, <2>2 DEF ConfigInv, Usable, Modes, Connectors
  <2>4. BufferInv'
    BY <1>1, BufferStays DEF CommandInv
  <2> QED BY <1>0, <1>1, <2>3, <2>4, BehindGetopt DEF Phases
<1>2. CASE phase' = "usage" /\ UNCHANGED <<cfg, parserVars>>
  <2>1. ConfigInv'
    BY <1>2 DEF CommandInv, ConfigInv
  <2>2. BufferInv'
    BY <1>2, BufferStays DEF CommandInv
  <2> QED BY <1>0, <1>2, <2>1, <2>2, BehindGetopt DEF Phases
<1>3. CASE sa # NULL /\ Call("addr", sa) /\ phase' = "server" /\ UNCHANGED cfg
  <2>1. sa \in Seq(Char) /\ ("s" \notin on /\ PairFirst => optind + 1 <= Len(argv))
    BY <1>3, OperandIsWord DEF CommandInv
  <2>2. BufferInv'
    BY <1>3, <2>1, CallSafe
  <2>3. ConfigInv'
    BY <1>0, <1>3, <2>1 DEF CommandInv, ConfigInv, argVars, optVars,
       PairFirst, Forward, Port, Sock
  <2> QED BY <1>0, <1>3, <2>2, <2>3, BehindGetopt DEF Phases
<1> QED BY <1>1, <1>2, <1>3 DEF Operands, Usage

(* A round of a parser, seen from parse_args.                               *)
LEMMA ParseSafe ==
    ASSUME CommandInv, Parse
    PROVE  CommandInv'
<1>1. BufferInv'
  BY ParseAddrSafe, ParsePairSafe DEF Parse, ParserStep, CommandInv
<1>2. UNCHANGED <<phase, argVars, optVars, list, cfg, lost>>
  BY DEF Parse
<1>3. WordInv'
  BY <1>2 DEF CommandInv, WordInv, argVars, optVars, Word
<1>4. OptionInv'
  BY <1>2 DEF CommandInv, OptionInv, optVars
<1>5. ConfigInv'
  BY <1>2 DEF CommandInv, ConfigInv, argVars, optVars, PairFirst, Forward, Port, Sock
<1> QED BY <1>1, <1>2, <1>3, <1>4, <1>5 DEF CommandInv

(* A mode for a configuration that has what the mode needs.                 *)
LEMMA ModeMakesUsable ==
    ASSUME NEW c, Fields \subseteq DOMAIN c, NEW m \in Modes \ {"NONE"},
           m \in Connectors => c.token # NULL,
           m = "CONNECTOR_PORT" => c.remote_address # NULL,
           cfg' = SetMode(c, m), phase' = "key"
    PROVE  ConfigInv'
<1>1. /\ Fields \subseteq DOMAIN cfg' /\ cfg'.mode = m /\ cfg'.server_address # NULL
      /\ cfg'.token = c.token /\ cfg'.remote_address = c.remote_address
  BY SetModeIs
<1> QED BY <1>1 DEF ConfigInv, Usable

(* PairParsed, LocalParsed and Key.                                         *)
LEMMA TextsSafe ==
    ASSUME CommandInv, PairParsed \/ LocalParsed \/ Key
    PROVE  CommandInv'
<1>0. /\ UNCHANGED <<parserVars, argVars, optVars, list, lost>>
      /\ list' \in Seq(Char) /\ lost' \in BOOLEAN
      /\ phase' \in {"key", "usage", "done"}
  BY DEF PairParsed, LocalParsed, Key, Usage, CommandInv, OptionInv
<1>1. BufferInv'
  BY <1>0, BufferStays DEF CommandInv
<1>a. Fields \subseteq DOMAIN cfg /\ cfg.mode \in Modes
  BY DEF CommandInv, ConfigInv
<1>2. ConfigInv'
  <2>1. CASE phase' = "usage" /\ UNCHANGED cfg
    BY <2>1 DEF CommandInv, ConfigInv
  <2>2. CASE /\ phase = "pair" /\ ps[1] # 0 /\ ps[2] # 0
             /\ cfg' = SetMode(SetPair(cfg), "CONNECTOR_PORT") /\ phase' = "key"
    <3>1. /\ Fields \subseteq DOMAIN SetPair(cfg)
          /\ SetPair(cfg).token = cfg.token /\ SetPair(cfg).remote_address # NULL
      BY <1>a, <2>2, SetPairIs DEF CommandInv
    <3>2. cfg.token # NULL
      BY <2>2 DEF CommandInv, ConfigInv
    <3> QED BY <2>2, <3>1, <3>2, ModeMakesUsable DEF Modes, Connectors
  <2>3. CASE /\ phase = "local" /\ phase' = "key"
             /\ cfg' = SetMode([cfg EXCEPT !.local_address = Str(ADDR, NULL),
                                           !.local_port = Atoi(Str(PORT, NULL))],
                               "CONNECTOR_SOCK")
    <3> DEFINE c == [cfg EXCEPT !.local_address = Str(ADDR, NULL),
                                !.local_port = Atoi(Str(PORT, NULL))]
    <3>1. Fields \subseteq DOMAIN c /\ c.token = cfg.token
      BY <1>a DEF Fields
    <3>2. cfg.token # NULL
      BY <2>3 DEF CommandInv, ConfigInv
    <3> HIDE DEF c
    <3>3. cfg' = SetMode(c, "CONNECTOR_SOCK")
      BY <2>3 DEF c
    <3> QED BY <2>3, <3>1, <3>2, <3>3, ModeMakesUsable DEF Modes, Connectors
  <2>4. CASE Key /\ phase' = "done"
    <3>1. Usable(cfg)
      BY <2>4 DEF Key, CommandInv, ConfigInv
    <3>2. \A f \in Fields : cfg'[f] = cfg[f] /\ f \in DOMAIN cfg'
      BY <1>a, <2>4 DEF Key, Usage, Fields
    <3> QED BY <1>a, <2>4, <3>1, <3>2 DEF ConfigInv, Usable, Fields
  <2> QED BY <2>1, <2>2, <2>3, <2>4 DEF PairParsed, LocalParsed, Key, Usage
<1> QED BY <1>0, <1>1, <1>2, BehindGetopt DEF Phases

(* parse_server and parse_client with the parsed address.                   *)
LEMMA ServerParsedSafe ==
    ASSUME CommandInv, ServerParsed
    PROVE  CommandInv'
<1> DEFINE c == [cfg EXCEPT !.server_address = Str(ADDR, NULL),
                            !.server_port = Str(PORT, @)]
           d == [c EXCEPT !.token = Str(TOKEN, NULL)]
<1>0. UNCHANGED <<argVars, optVars>> /\ phase = "server"
  BY DEF ServerParsed
<1>a. Fields \subseteq DOMAIN cfg /\ cfg.mode \in Modes
  BY DEF CommandInv, ConfigInv
<1>c. Fields \subseteq DOMAIN c /\ c.mode = cfg.mode
  BY <1>a DEF Fields
<1>d. Fields \subseteq DOMAIN d /\ d.mode = cfg.mode
  <2> HIDE DEF c
  <2> QED BY <1>c DEF Fields
<1>l. list \in Seq(Char) /\ lost \in BOOLEAN
  BY DEF CommandInv, OptionInv
<1>1. CASE phase' = "usage" /\ UNCHANGED <<cfg, parserVars, list, lost>>
  <2>1. ConfigInv'
    BY <1>1 DEF CommandInv, ConfigInv
  <2>2. BufferInv'
    BY <1>1, BufferStays DEF CommandInv
  <2> QED BY <1>0, <1>1, <1>l, <2>1, <2>2, BehindGetopt DEF Phases
<1>2. CASE /\ cfg' = SetMode(c, "SERVER") /\ phase' = "key"
           /\ UNCHANGED <<parserVars, list, lost>>
  <2> HIDE DEF c
  <2>1. ConfigInv'
    BY <1>2, <1>c, ModeMakesUsable DEF Modes, Connectors
  <2>2. BufferInv'
    BY <1>2, BufferStays DEF CommandInv
  <2> QED BY <1>0, <1>2, <1>l, <2>1, <2>2, BehindGetopt DEF Phases
<1>3. CASE /\ \E l : cfg' = [d EXCEPT !.addr_list = l]
           /\ lost' = (cfg'.addr_list = <<>>)
           /\ list' = IF optarg["w"] # NULL THEN optarg["w"] ELSE
                      IF optarg["b"] # NULL THEN optarg["b"] ELSE <<>>
           /\ phase' = "list" /\ UNCHANGED parserVars
  <2> HIDE DEF d
  <2>1. Fields \subseteq DOMAIN cfg' /\ cfg'.mode = d.mode
    BY <1>3, <1>d DEF Fields
  <2>2. ConfigInv'
    BY <1>3, <1>a, <1>d, <2>1 DEF ConfigInv
  <2>3. BufferInv'
    BY <1>3, BufferStays DEF CommandInv
  <2>4. list' \in Seq(Char)
    <3>1. \A o \in {"w", "b"} : optarg[o] # NULL => optarg[o] \in Seq(Char)
      BY DEF CommandInv, OptionInv, WithArg
    <3> QED BY <1>3, <3>1, EmptySeq
  <2>5. lost' \in BOOLEAN
    BY <1>3
  <2> QED BY <1>0, <1>3, <2>2, <2>3, <2>4, <2>5, BehindGetopt DEF Phases
<1>4. CASE /\ \/ cfg' = SetMode(d, "FORWARDER_SOCK")
              \/ cfg' = SetMode([d EXCEPT !.user = optarg["u"]], "FORWARDER_TERM")
           /\ phase' = "key"
           /\ UNCHANGED <<parserVars, list, lost>>
  <2> DEFINE e == [d EXCEPT !.user = optarg["u"]]
  <2> HIDE DEF d
  <2>1. Fields \subseteq DOMAIN e
    BY <1>d DEF Fields
  <2> HIDE DEF e
  <2>2. cfg' = SetMode(d, "FORWARDER_SOCK") \/ cfg' = SetMode(e, "FORWARDER_TERM")
    BY <1>4 DEF e
  <2>3. ConfigInv'
    BY <1>4, <1>d, <2>1, <2>2, ModeMakesUsable DEF Modes, Connectors
  <2>4. BufferInv'
    BY <1>4, BufferStays DEF CommandInv
  <2> QED BY <1>0, <1>4, <1>l, <2>3, <2>4, BehindGetopt DEF Phases
<1>5. CASE /\ d.token # NULL /\ UNCHANGED <<list, lost>>
           /\ cfg' = SetMode(d, "CONNECTOR_TERM") /\ phase' = "key"
           /\ UNCHANGED parserVars
  <2> HIDE DEF d
  <2>1. ConfigInv'
    BY <1>5, <1>d, ModeMakesUsable DEF Modes, Connectors
  <2>2. BufferInv'
    BY <1>5, BufferStays DEF CommandInv
  <2> QED BY <1>0, <1>5, <1>l, <2>1, <2>2, BehindGetopt DEF Phases
<1>6. CASE /\ d.token # NULL /\ UNCHANGED <<list, lost>> /\ cfg' = d
           /\ "s" \notin on /\ PairFirst
           /\ \/ Call("pair", T(0)) /\ phase' = "pair"
              \/ Call("addr", T(0)) /\ phase' = "local"
  <2>1. T(0) \in Seq(Char)
    <3>1. optind + 1 <= Len(argv)
      BY <1>0, <1>6 DEF CommandInv, ConfigInv
    <3> QED BY <3>1, ElementOfSeq, LenProperties DEF CommandInv, WordInv, T
  <2>2. BufferInv'
    BY <1>6, <2>1, CallSafe
  <2> HIDE DEF d
  <2>3. ConfigInv'
    BY <1>6, <1>a, <1>d DEF ConfigInv
  <2> QED BY <1>0, <1>6, <1>l, <2>2, <2>3, BehindGetopt DEF Phases
<1>7. CASE /\ d.token # NULL /\ UNCHANGED <<list, lost>>
           /\ cfg' = SetMode([d EXCEPT !.local_port = Atoi(T(0))], "CONNECTOR_SOCK")
           /\ phase' = "key" /\ UNCHANGED parserVars
  <2> DEFINE e == [d EXCEPT !.local_port = Atoi(T(0))]
  <2> HIDE DEF d
  <2>1. Fields \subseteq DOMAIN e /\ e.token = d.token
    BY <1>d DEF Fields
  <2> HIDE DEF e
  <2>2. cfg' = SetMode(e, "CONNECTOR_SOCK")
    BY <1>7 DEF e
  <2>3. ConfigInv'
    BY <1>7, <2>1, <2>2, ModeMakesUsable DEF Modes, Connectors
  <2>4. BufferInv'
    BY <1>7, BufferStays DEF CommandInv
  <2> QED BY <1>0, <1>7, <1>l, <2>3, <2>4, BehindGetopt DEF Phases
<1> HIDE DEF c, d
<1> QED
  BY <1>1, <1>2, <1>3, <1>4, <1>5, <1>6, <1>7
  DEF ServerParsed, Usage, PairFirst, c, d

(* ListNext and ListElement.                                                *)
LEMMA ListSafe ==
    ASSUME CommandInv, ListNext \/ ListElement
    PROVE  CommandInv'
<1>0. UNCHANGED <<argVars, optVars>>
  BY DEF ListNext, ListElement
<1>a. Fields \subseteq DOMAIN cfg /\ cfg.mode \in Modes /\ list \in Seq(Char)
      /\ lost \in BOOLEAN
  BY DEF CommandInv, ConfigInv, OptionInv
<1>1. CASE ListNext /\ list = <<>>
  <2>1. /\ cfg' = SetMode(cfg, "FORWARDER_PORT") /\ phase' = "key"
        /\ UNCHANGED <<parserVars, list, lost>>
    BY <1>1 DEF ListNext
  <2>2. ConfigInv'
    BY <1>a, <2>1, ModeMakesUsable DEF Modes, Connectors
  <2>3. BufferInv'
    BY <2>1, BufferStays DEF CommandInv
  <2> QED BY <1>0, <1>a, <2>1, <2>2, <2>3, BehindGetopt DEF Phases
<1>2. CASE ListNext /\ list # <<>> /\ Head(list) = ","
  <2>1. /\ list' = Tail(list) /\ phase' = "list"
        /\ UNCHANGED <<parserVars, cfg, lost>>
    BY <1>2 DEF ListNext
  <2>2. list' \in Seq(Char)
    BY <1>2, <1>a, <2>1, HeadTailProperties
  <2>3. ConfigInv'
    BY <1>a, <2>1 DEF ConfigInv
  <2>4. BufferInv'
    BY <2>1, BufferStays DEF CommandInv
  <2> QED BY <1>0, <1>a, <2>1, <2>2, <2>3, <2>4, BehindGetopt DEF Phases
<1>3. CASE ListNext /\ list # <<>> /\ Head(list) # ","
  <2>1. Call("addr", list) /\ phase' = "element" /\ UNCHANGED <<list, cfg, lost>>
    BY <1>3 DEF ListNext
  <2>2. ConfigInv'
    BY <1>a, <2>1 DEF ConfigInv
  <2>3. BufferInv'
    BY <1>a, <2>1, CallSafe
  <2> QED BY <1>0, <1>a, <2>1, <2>2, <2>3, BehindGetopt DEF Phases
<1>4. CASE ListElement /\ phase' = "usage"
  <2>1. UNCHANGED <<parserVars, list, cfg, lost>>
    BY <1>4 DEF ListElement
  <2>2. ConfigInv'
    BY <1>4, <1>a, <2>1 DEF ConfigInv
  <2>3. BufferInv'
    BY <2>1, BufferStays DEF CommandInv
  <2> QED BY <1>0, <1>4, <1>a, <2>1, <2>2, <2>3, BehindGetopt DEF Phases
<1>5. CASE ListElement /\ phase' # "usage"
  <2>1. /\ \E l : cfg' = [cfg EXCEPT !.addr_list = l]
        /\ lost' \in BOOLEAN /\ list' = FromComma(list)
        /\ phase' = "list" /\ UNCHANGED parserVars
    BY <1>5, <1>a DEF ListElement, Usage
  <2>2. Fields \subseteq DOMAIN cfg' /\ cfg'.mode = cfg.mode
    BY <1>a, <2>1 DEF Fields
  <2>3. ConfigInv'
    BY <1>a, <2>1, <2>2 DEF ConfigInv
  <2>4. BufferInv'
    BY <2>1, BufferStays DEF CommandInv
  <2>5. list' \in Seq(Char)
    <3> DEFINE ends == {m \in 1..(Len(list) + 1) : m > Len(list) \/ list[m] = ","}
               e == CHOOSE m \in ends : \A q \in ends : m <= q
    <3>0. Len(list) \in Nat
      BY <1>a, LenProperties
    <3>a. /\ Len(list) + 1 \in 1..(Len(list) + 1) /\ Len(list) + 1 > Len(list)
          /\ 1..(Len(list) + 1) \subseteq Nat
      BY <3>0
    <3>1. ends \subseteq Nat /\ Len(list) + 1 \in ends
      BY <3>a, Zenon
    <3>2. e \in ends
      BY <3>1, Least
    <3>3. e \in 1..(Len(list) + 1) /\ FromComma(list) = SubSeq(list, e, Len(list))
      BY <3>2 DEF FromComma
    <3> HIDE DEF e
    <3>4. \A n \in e..Len(list) : list[n] \in Char
      BY <1>a, <3>0, <3>3, ElementOfSeq
    <3> QED BY <2>1, <3>0, <3>3, <3>4, SubSeqProperties
  <2> QED BY <1>0, <2>1, <2>3, <2>4, <2>5, BehindGetopt DEF Phases
<1> QED BY <1>1, <1>2, <1>3, <1>4, <1>5

-----------------------------------------------------------------------------
(* The theorems.                                                            *)

(* Every step keeps the inductive invariant.                                *)
LEMMA CommandNext == CommandInv /\ [Next]_vars => CommandInv'
<1> SUFFICES ASSUME CommandInv, [Next]_vars PROVE CommandInv'
  OBVIOUS
<1>1. CASE UNCHANGED vars
  <2>1. BufferInv'
    BY <1>1, BufferStays DEF CommandInv, vars
  <2>2. WordInv'
    BY <1>1 DEF CommandInv, WordInv, vars, argVars, optVars, Word
  <2>3. OptionInv'
    BY <1>1 DEF CommandInv, OptionInv, vars, optVars
  <2>4. ConfigInv'
    BY <1>1 DEF CommandInv, ConfigInv, vars, argVars, optVars, PairFirst, Forward,
       Port, Sock
  <2> QED BY <1>1, <2>1, <2>2, <2>3, <2>4 DEF CommandInv, vars
<1> QED
  BY <1>1, GetoptSafe, OperandsSafe, ParseSafe, ServerParsedSafe, TextsSafe, ListSafe
  DEF Next

(* The inductive invariant.                                                 *)
LEMMA CommandInvariant == Spec => []CommandInv
BY CommandInit, CommandNext, PTL DEF Spec

(* Type correctness of parse_args with getopt and the two parsers, for      *)
(* every command line: getopt's position stays inside the words, and an     *)
(* option that takes an argument is on exactly when it has one.             *)
THEOREM CommandTypeCorrect == Spec => []TypeOK
<1>1. CommandInv => TypeOK
  <2> SUFFICES ASSUME CommandInv PROVE TypeOK
    OBVIOUS
  <2>1. ParserTypeOK
    <3>1. b \in Seq(STRING \cup {NUL})
      <4>1. Char \cup {NUL} \subseteq STRING \cup {NUL}
        BY DEF Char
      <4> QED BY <4>1, SeqMonotonic DEF CommandInv, BufferInv
    <3> QED BY <3>1, LenProperties DEF ParserTypeOK, CommandInv, BufferInv, BufferSafe
  <2> QED BY <2>1 DEF TypeOK, CommandInv, WordInv, OptionInv, ConfigInv, Phases,
          Modes, Connectors
<1> QED BY <1>1, CommandInvariant, PTL

(* For every text, however long and wherever its separators are, neither    *)
(* parse_addr nor parse_addr_pair leaves its buffer or its array.           *)
THEOREM ParsersStayInBuffer == Spec => []BufferSafe
<1>1. CommandInv => BufferSafe
  BY DEF CommandInv, BufferInv
<1> QED BY <1>1, CommandInvariant, PTL

(* For every command line, a configuration that parse_args accepts has what *)
(* its mode needs.                                                          *)
THEOREM AcceptedCanBeUsed == Spec => []AcceptedIsUsable
<1>1. CommandInv => AcceptedIsUsable
  BY DEF CommandInv, ConfigInv, Usable, AcceptedIsUsable, Connectors
<1> QED BY <1>1, CommandInvariant, PTL

(* Induction over a range of numbers, for a set.                            *)
LEMMA Induct ==
    ASSUME NEW N \in Nat, NEW S, 0 \in S, \A n \in 0..(N - 1) : n \in S => n + 1 \in S
    PROVE  \A n \in 0..N : n \in S
<1> DEFINE B == {n \in 0..N : n \notin S}
<1> SUFFICES ASSUME B # {} PROVE FALSE
  OBVIOUS
<1>1. B \subseteq Nat
  OBVIOUS
<1>2. PICK m \in B : \A q \in B : m <= q
  BY <1>1, Least
<1>3. m # 0 /\ m \in 0..N /\ m - 1 \in 0..(N - 1)
  OBVIOUS
<1>4. m - 1 \in S
  BY <1>2, <1>3
<1>5. (m - 1) + 1 \in S
  BY <1>3, <1>4
<1> QED BY <1>3, <1>5

(* g starts with z, and F gives the next value.                             *)
Solves(g, N, z, F) == g[0] = z /\ \A n \in 1..N : g[n] = F[n][g[n - 1]]

(* A recursion over 0..N has a solution.                                    *)
LEMMA Recursion ==
    ASSUME NEW N \in Nat, NEW V, NEW z \in V, NEW F \in [1..N -> [V -> V]]
    PROVE  \E g \in [0..N -> V] : Solves(g, N, z, F)
<1> DEFINE Good(k, g) == Solves(g, k, z, F)
           S == {k \in 0..N : \E g \in [0..k -> V] : Good(k, g)}
<1>1. 0 \in S
  <2> DEFINE g == [n \in 0..0 |-> z]
  <2>1. g \in [0..0 -> V] /\ Good(0, g)
    BY DEF Solves
  <2>2. \E f \in [0..0 -> V] : Good(0, f)
    <3> HIDE DEF g, Good
    <3> QED BY <2>1
  <2>3. 0 \in 0..N
    OBVIOUS
  <2> HIDE DEF Good
  <2> QED BY <2>2, <2>3
<1>2. ASSUME NEW k \in 0..(N - 1), k \in S PROVE k + 1 \in S
  <2>1. PICK g \in [0..k -> V] : Good(k, g)
    BY <1>2
  <2>a. g[0] = z /\ \A n \in 1..k : g[n] = F[n][g[n - 1]]
    BY <2>1 DEF Solves
  <2> DEFINE h == [n \in 0..(k + 1) |-> IF n = k + 1 THEN F[k + 1][g[k]] ELSE g[n]]
  <2>2. F[k + 1][g[k]] \in V
    BY <2>1
  <2>3. h \in [0..(k + 1) -> V]
    BY <2>1, <2>2
  <2>4. Good(k + 1, h)
    <3>1. h[0] = z
      BY <2>a
    <3>2. ASSUME NEW n \in 1..(k + 1) PROVE h[n] = F[n][h[n - 1]]
      <4>1. CASE n = k + 1
        BY <4>1
      <4>2. CASE n # k + 1
        <5>1. n \in 1..k /\ n - 1 \in 0..k /\ n - 1 # k + 1
          BY <4>2
        <5>2. h[n] = g[n] /\ h[n - 1] = g[n - 1]
          BY <5>1
        <5> QED BY <2>a, <5>1, <5>2
      <4> QED BY <4>1, <4>2
    <3> QED BY <3>1, <3>2 DEF Solves
  <2> HIDE DEF h, Good
  <2>5. \E f \in [0..(k + 1) -> V] : Good(k + 1, f)
    BY <2>3, <2>4
  <2>6. k + 1 \in 0..N
    OBVIOUS
  <2> QED BY <2>5, <2>6
<1>3. N \in S
  <2> HIDE DEF S
  <2>1. \A n \in 0..N : n \in S
    BY <1>1, <1>2, Induct
  <2> QED BY <2>1
<1>4. \E g \in [0..N -> V] : Good(N, g)
  <2> HIDE DEF Good
  <2> QED BY <1>3
<1> QED BY <1>4

KindSet == {"rest", "needs", "argument", "option", "end"}

(* What WordKinds gives: the recursion.                                     *)
LEMMA WordKindsDef ==
    ASSUME NEW C, NEW a \in Seq(C)
    PROVE  LET K == WordKinds(a) IN
           /\ K \in [0..Len(a) -> KindSet] /\ K[0] = "rest"
           /\ \A n \in 1..Len(a) : K[n] = KindAfter(K[n - 1], a[n])
<1> DEFINE N == Len(a)
           F == [n \in 1..N |-> [k \in KindSet |-> KindAfter(k, a[n])]]
           Rec(g) == [n \in 0..N |-> IF n = 0 THEN "rest" ELSE KindAfter(g[n - 1], a[n])]
<1>0. N \in Nat
  BY LenProperties
<1>a. \A k, w : KindAfter(k, w) \in KindSet
  BY DEF KindAfter, KindSet
<1>1. F \in [1..N -> [KindSet -> KindSet]]
  BY <1>a
<1>2. "rest" \in KindSet
  BY DEF KindSet
<1>3. PICK g \in [0..N -> KindSet] : Solves(g, N, "rest", F)
  <2> HIDE DEF F, N
  <2>1. N \in Nat /\ F \in [1..N -> [KindSet -> KindSet]] /\ "rest" \in KindSet
    BY <1>0, <1>1, <1>2
  <2> QED BY <2>1, Recursion
<1>4. g = Rec(g)
  BY <1>0, <1>3 DEF Solves
<1>5. WordKinds(a) = CHOOSE f : f = Rec(f)
  BY DEF WordKinds
<1> DEFINE K == WordKinds(a)
<1>6. K = Rec(K)
  BY <1>4, <1>5
<1> HIDE DEF K
<1>7. \A n \in 0..N : K[n] = IF n = 0 THEN "rest" ELSE KindAfter(K[n - 1], a[n])
  BY <1>6
<1>8. K \in [0..N -> KindSet]
  <2>1. \A n \in 0..N : K[n] \in KindSet
    BY <1>7, <1>2, <1>a
  <2> QED BY <1>6, <2>1
<1> QED BY <1>0, <1>7, <1>8 DEF K

(* What a scan may find.                                                    *)
Found == [on : SUBSET (Char \cup WithArg), arg : [WithArg -> Seq(Char) \cup {NULL}],
          operands : Seq(Seq(Char)), want : SUBSET WithArg, stop : BOOLEAN]

(* The first option of a word that takes an argument.                       *)
LEMMA FirstArg ==
    ASSUME NEW w \in Seq(Char), ArgAt(w) # {}
    PROVE  LET n == CHOOSE q \in ArgAt(w) : \A m \in ArgAt(w) : q <= m IN
           /\ n \in 2..Len(w) /\ w[n] \in WithArg
           /\ \A m \in ArgAt(w) : n <= m
<1>1. ArgAt(w) \subseteq Nat
  BY LenProperties DEF ArgAt
<1>2. \E q \in ArgAt(w) : \A m \in ArgAt(w) : q <= m
  BY <1>1, Least
<1> DEFINE n == CHOOSE q \in ArgAt(w) : \A m \in ArgAt(w) : q <= m
<1>3. n \in ArgAt(w) /\ \A m \in ArgAt(w) : n <= m
  BY <1>2
<1> QED BY <1>3 DEF ArgAt

(* What the scan of a word leaves has the type of what it started from.     *)
LEMMA GnuWordType ==
    ASSUME NEW acc \in Found, NEW w \in Seq(Char)
    PROVE  GnuWord(acc, w) \in Found
<1>0. Len(w) \in Nat /\ \A n \in 1..Len(w) : w[n] \in Char
  BY LenProperties, ElementOfSeq
<1>1. Append(acc.operands, w) \in Seq(Seq(Char))
  BY AppendProperties DEF Found
<1>2. CASE acc.stop \/ acc.want # {} \/ ~IsOption(w) \/ w = Dashes
  BY <1>1, <1>2 DEF GnuWord, Found
<1>3. CASE ~(acc.stop \/ acc.want # {} \/ ~IsOption(w) \/ w = Dashes) /\ ArgAt(w) = {}
  <2>1. {w[n] : n \in 2..Len(w)} \subseteq Char
    BY <1>0
  <2>2. GnuWord(acc, w) = [acc EXCEPT !.on = @ \cup {w[n] : n \in 2..Len(w)}]
    BY <1>3 DEF GnuWord
  <2> QED BY <2>1, <2>2 DEF Found
<1>4. CASE ~(acc.stop \/ acc.want # {} \/ ~IsOption(w) \/ w = Dashes) /\ ArgAt(w) # {}
  <2> DEFINE n == CHOOSE q \in ArgAt(w) : \A m \in ArgAt(w) : q <= m
  <2>1. n \in 2..Len(w) /\ w[n] \in WithArg
    BY <1>4, FirstArg
  <2>2. SubSeq(w, n + 1, Len(w)) \in Seq(Char)
    <3> HIDE DEF n
    <3>1. \A m \in (n + 1)..Len(w) : w[m] \in Char
      BY <2>1, <1>0
    <3> QED BY <2>1, <1>0, <3>1, SubSeqProperties
  <2>3. GnuWord(acc, w) = IF n = Len(w)
             THEN [acc EXCEPT !.on = acc.on \cup {w[m] : m \in 2..(n - 1)}, !.want = {w[n]}]
             ELSE [acc EXCEPT !.on = (acc.on \cup {w[m] : m \in 2..(n - 1)}) \cup {w[n]},
                      !.arg = [@ EXCEPT ![w[n]] = SubSeq(w, n + 1, Len(w))]]
    BY <1>4 DEF GnuWord
  <2> HIDE DEF n
  <2>4. {w[m] : m \in 2..(n - 1)} \subseteq Char /\ w[n] \in Char
    BY <1>0, <2>1
  <2> DEFINE r == SubSeq(w, n + 1, Len(w))
             fl == {w[m] : m \in 2..(n - 1)}
  <2>5. CASE n = Len(w)
    <3>1. GnuWord(acc, w) = [acc EXCEPT !.on = acc.on \cup fl, !.want = {w[n]}]
      BY <2>3, <2>5
    <3> HIDE DEF fl
    <3>2. fl \subseteq Char
      BY <2>4 DEF fl
    <3> QED BY <2>1, <3>1, <3>2 DEF Found
  <2>6. CASE n # Len(w)
    <3> DEFINE ar == [acc.arg EXCEPT ![w[n]] = r]
               o2 == (acc.on \cup fl) \cup {w[n]}
    <3>1. GnuWord(acc, w) = [acc EXCEPT !.on = o2, !.arg = ar]
      BY <2>3, <2>6
    <3>2. o2 \subseteq Char \cup WithArg
      BY <2>4 DEF Found
    <3>3. ar \in [WithArg -> Seq(Char) \cup {NULL}]
      BY <2>1, <2>2 DEF Found
    <3> HIDE DEF ar, o2
    <3> QED BY <3>1, <3>2, <3>3 DEF Found
  <2> QED BY <2>5, <2>6
<1> QED BY <1>2, <1>3, <1>4

(* What GnuScans gives: the recursion.                                      *)
LEMMA GnuScansDef ==
    ASSUME NEW a \in Seq(Seq(Char))
    PROVE  LET G == GnuScans(a) IN
           /\ G \in [0..Len(a) -> Found] /\ G[0] = GnuStart
           /\ \A n \in 1..Len(a) : G[n] = GnuWord(G[n - 1], a[n])
<1> DEFINE N == Len(a)
           F == [n \in 1..N |-> [k \in Found |-> GnuWord(k, a[n])]]
           Rec(g) == [n \in 0..N |-> IF n = 0 THEN GnuStart ELSE GnuWord(g[n - 1], a[n])]
<1>0. N \in Nat /\ \A n \in 1..N : a[n] \in Seq(Char)
  BY LenProperties, ElementOfSeq
<1>1. F \in [1..N -> [Found -> Found]]
  BY <1>0, GnuWordType
<1>2. GnuStart \in Found
  BY EmptySeq DEF GnuStart, Found
<1>3. PICK g \in [0..N -> Found] : Solves(g, N, GnuStart, F)
  <2> HIDE DEF F, N
  <2>1. N \in Nat /\ F \in [1..N -> [Found -> Found]] /\ GnuStart \in Found
    BY <1>0, <1>1, <1>2
  <2> QED BY <2>1, Recursion
<1>b. \A n \in 1..N : n - 1 \in 0..N /\ g[n - 1] \in Found
  <2> HIDE DEF N, F
  <2> QED BY <1>0, <1>3
<1>c. \A n \in 1..N : F[n][g[n - 1]] = GnuWord(g[n - 1], a[n])
  BY <1>b
<1>4. g = Rec(g)
  <2> HIDE DEF F
  <2>1. \A n \in 0..N : g[n] = IF n = 0 THEN GnuStart ELSE GnuWord(g[n - 1], a[n])
    BY <1>0, <1>3, <1>c DEF Solves
  <2> QED BY <2>1
<1>5. GnuScans(a) = CHOOSE f : f = Rec(f)
  BY DEF GnuScans
<1> DEFINE G == GnuScans(a)
<1>6. G = Rec(G)
  BY <1>4, <1>5
<1> HIDE DEF G
<1>7. /\ G[0] = GnuStart
      /\ \A n \in 1..N : G[n] = GnuWord(G[n - 1], a[n])
  BY <1>0, <1>6
<1>8. \A n \in 0..N : G[n] \in Found
  <2> DEFINE S == {n \in 0..N : G[n] \in Found}
  <2>1. 0 \in S
    BY <1>0, <1>2, <1>7
  <2>2. ASSUME NEW n \in 0..(N - 1), n \in S PROVE n + 1 \in S
    <3>1. n + 1 \in 1..N /\ (n + 1) - 1 = n
      BY <1>0
    <3>2. G[n + 1] = GnuWord(G[n], a[n + 1])
      BY <1>7, <3>1
    <3>3. G[n + 1] \in Found
      BY <1>0, <2>2, <3>1, <3>2, GnuWordType
    <3> QED BY <3>1, <3>3
  <2> HIDE DEF S
  <2>3. \A n \in 0..N : n \in S
    BY <1>0, <2>1, <2>2, Induct
  <2> QED BY <2>3 DEF S
<1>9. G \in [0..N -> Found]
  BY <1>6, <1>8
<1> QED BY <1>7, <1>9 DEF G

(* The words that getopt_permute moves to the front.                        *)
Taken(a) == {n \in 1..Len(a) : WordKinds(a)[n] \in {"option", "needs", "argument"}}

(* How many of the first n words these are.                                 *)
Count(a, n) == Cardinality({m \in Taken(a) : m <= n})

(* How the number of words taken grows with the words.                      *)
LEMMA CountIs ==
    ASSUME NEW C, NEW a \in Seq(C)
    PROVE  /\ IsFiniteSet(Taken(a)) /\ Cardinality(Taken(a)) = Count(a, Len(a))
           /\ \A n \in 0..Len(a) : Count(a, n) \in 0..n
           /\ Count(a, 0) = 0
           /\ \A n \in 1..Len(a) :
                 Count(a, n) = Count(a, n - 1) + IF n \in Taken(a) THEN 1 ELSE 0
<1> DEFINE N == Len(a)
           P == Taken(a)
           U(n) == {m \in P : m <= n}
<1>0. N \in Nat
  BY LenProperties
<1>1. P \subseteq 1..N
  BY DEF Taken
<1> HIDE DEF P
<1>2. IsFiniteSet(P)
  <2>1. IsFiniteSet(1..N)
    BY <1>0, FS_Interval
  <2> QED BY <1>1, <2>1, FS_Subset
<1>a. \A z \in P : z \in Int /\ z >= 1 /\ z <= N
  BY <1>0, <1>1
<1>3. \A n \in 0..N : IsFiniteSet(U(n)) /\ U(n) \subseteq 1..n
  <2>1. \A n \in 0..N : U(n) \subseteq P
    OBVIOUS
  <2>2. \A n \in 0..N : U(n) \subseteq 1..n
    BY <1>0, <1>a
  <2> QED BY <1>2, <2>1, <2>2, FS_Subset
<1>4. \A n \in 0..N : Cardinality(U(n)) \in 0..n
  <2> SUFFICES ASSUME NEW n \in 0..N PROVE Cardinality(U(n)) \in 0..n
    OBVIOUS
  <2>1. IsFiniteSet(1..n) /\ Cardinality(1..n) = n
    BY FS_Interval
  <2>2. Cardinality(U(n)) <= n
    BY <1>3, <2>1, FS_Subset
  <2>3. Cardinality(U(n)) \in Nat
    BY <1>3, FS_CardinalityType
  <2> HIDE DEF U
  <2> QED BY <2>2, <2>3
<1>5. U(N) = P
  BY <1>a
<1>6. ASSUME NEW n \in 1..N
      PROVE  Cardinality(U(n)) = Cardinality(U(n - 1)) + IF n \in P THEN 1 ELSE 0
  <2>0. n - 1 \in 0..N /\ IsFiniteSet(U(n - 1)) /\ Cardinality(U(n - 1)) \in Nat
    BY <1>0, <1>3, FS_CardinalityType
  <2>1. CASE n \in P
    <3>1. U(n) = U(n - 1) \cup {n} /\ n \notin U(n - 1)
      <4>1. ASSUME NEW z \in P PROVE z <= n <=> z <= n - 1 \/ z = n
        BY <1>0, <1>a
      <4>2. ~(n <= n - 1) /\ n <= n
        BY <1>0
      <4> QED BY <2>1, <4>1, <4>2
    <3> HIDE DEF U
    <3>2. Cardinality(U(n)) = Cardinality(U(n - 1)) + 1
      BY <2>0, <3>1, FS_AddElement
    <3> QED BY <2>1, <3>2
  <2>2. CASE n \notin P
    <3>1. U(n) = U(n - 1)
      <4>1. ASSUME NEW z \in P PROVE z <= n <=> z <= n - 1
        BY <1>0, <1>a, <2>2
      <4> QED BY <4>1
    <3> HIDE DEF U
    <3> QED BY <2>0, <2>2, <3>1
  <2> QED BY <2>1, <2>2
<1>7. \A n : Count(a, n) = Cardinality(U(n))
  BY DEF Count, P
<1>8. Cardinality(U(0)) = 0
  <2>1. Cardinality(U(0)) \in 0..0
    BY <1>0, <1>4
  <2> HIDE DEF U
  <2> QED BY <2>1
<1> HIDE DEF U
<1> QED BY <1>2, <1>4, <1>5, <1>6, <1>7, <1>8, <1>0 DEF P

(* Count grows, and by a word that is taken at once.                        *)
LEMMA CountGrows ==
    ASSUME NEW C, NEW a \in Seq(C), NEW x \in 0..Len(a), NEW y \in x..Len(a)
    PROVE  /\ Count(a, x) <= Count(a, y)
           /\ x < y /\ y \in Taken(a) => Count(a, x) < Count(a, y)
<1> DEFINE N == Len(a)
           S == {d \in 0..(N - x) : Count(a, x) <= Count(a, x + d)}
<1>0. N \in Nat /\ N - x \in Nat
  BY LenProperties
<1>a. \A n \in 0..N : Count(a, n) \in Nat
  BY CountIs
<1>1. 0 \in S
  BY <1>0, <1>a
<1>2. ASSUME NEW d \in 0..((N - x) - 1), d \in S PROVE d + 1 \in S
  <2>1. x + (d + 1) \in 1..N /\ (x + (d + 1)) - 1 = x + d /\ x + d \in 0..N
    BY <1>0
  <2>2. Count(a, x + (d + 1)) >= Count(a, x + d)
    BY <1>a, <2>1, CountIs
  <2>3. Count(a, x + (d + 1)) \in Nat /\ Count(a, x + d) \in Nat /\ Count(a, x) \in Nat
    BY <1>a, <2>1
  <2>4. Count(a, x) <= Count(a, x + (d + 1))
    BY <1>2, <2>2, <2>3
  <2> QED BY <1>0, <2>4
<1>3. ASSUME NEW n \in x..N PROVE Count(a, x) <= Count(a, n)
  <2>1. n - x \in 0..(N - x) /\ x + (n - x) = n
    BY <1>0
  <2> HIDE DEF S
  <2>2. n - x \in S
    BY <1>0, <1>1, <1>2, <2>1, Induct
  <2>3. Count(a, x) <= Count(a, x + (n - x))
    BY <2>2 DEF S
  <2> QED BY <2>1, <2>3
<1>4. ASSUME x < y, y \in Taken(a) PROVE Count(a, x) < Count(a, y)
  <2>1. y - 1 \in x..N /\ y \in 1..N /\ y - 1 \in 0..N /\ y \in 0..N
    BY <1>0, <1>4
  <2>2. Count(a, y) = Count(a, y - 1) + 1
    BY <1>4, <2>1, CountIs
  <2>3. Count(a, x) <= Count(a, y - 1)
    BY <1>3, <2>1
  <2> QED BY <1>a, <2>1, <2>2, <2>3
<1> QED BY <1>3, <1>4

(* Where a word goes.                                                       *)
LEMMA PlaceIs ==
    ASSUME NEW C, NEW a \in Seq(C), NEW m \in 1..Len(a)
    PROVE  /\ Place(a, Taken(a), m) =
                 IF m \in Taken(a) THEN Count(a, m)
                 ELSE Count(a, Len(a)) + (m - Count(a, m))
           /\ Place(a, Taken(a), m) \in 1..Len(a)
           /\ Permute(a)[Place(a, Taken(a), m)] = a[m]
<1> DEFINE N == Len(a)
           P == Taken(a)
           Q == (1..N) \ P
           U == {k \in P : k <= m}
           R == {k \in Q : k <= m}
<1>0. N \in Nat /\ P \subseteq 1..N
  BY LenProperties DEF Taken
<1>1. Place(a, P, m) = IF m \in P THEN Count(a, m) ELSE Cardinality(P) + Cardinality(R)
  BY DEF Place, Count
<1>2. Cardinality(R) = m - Count(a, m)
  <2>1. IsFiniteSet(1..m) /\ Cardinality(1..m) = m
    BY FS_Interval
  <2>2. R = (1..m) \ U /\ (1..m) \cap U = U
    <3>1. \A z \in 1..N : z <= m <=> z \in 1..m
      BY <1>0
    <3>2. 1..m \subseteq 1..N
      BY <1>0
    <3> HIDE DEF P
    <3> QED BY <1>0, <3>1, <3>2
  <2>3. IsFiniteSet(U)
    <3>1. IsFiniteSet(P)
      BY CountIs
    <3>2. U \subseteq P
      OBVIOUS
    <3> QED BY <3>1, <3>2, FS_Subset
  <2> HIDE DEF R, U
  <2>4. Cardinality(R) = Cardinality(1..m) - Cardinality(U)
    <3>1. Cardinality((1..m) \ U) = Cardinality(1..m) - Cardinality((1..m) \cap U)
      BY <2>1, FS_Difference
    <3> QED BY <2>2, <3>1
  <2> QED BY <2>1, <2>4 DEF Count, U
<1>3. Cardinality(P) = Count(a, N)
  BY CountIs
<1>4. P \in SUBSET (1..N)
  BY <1>0
<1>5. /\ Place(a, P, m) \in 1..N
      /\ \A k, n \in 1..N : Place(a, P, k) = Place(a, P, n) => k = n
  <2> HIDE DEF P
  <2> QED BY <1>4, PlacesFilled
<1>6. Permute(a)[Place(a, P, m)] = a[m]
  <2> DEFINE q == Place(a, P, m)
             From == CHOOSE k \in 1..N : Place(a, P, k) = q
  <2>1. Permute(a) = InFront(a, P)
    BY DEF Permute, Taken
  <2>2. InFront(a, P)[q] = a[From]
    BY <1>5 DEF InFront
  <2>3. From = m
    BY <1>5
  <2> QED BY <2>1, <2>2, <2>3
<1> QED BY <1>1, <1>2, <1>3, <1>5, <1>6

PlainWord(w) ==
    /\ w # Dashes
    /\ IsOption(w) => \A m \in 3..Len(w) : w[m] \in WithArg => w[2] \in WithArg

(* What a plain word w makes of a scan that wants an argument for at most o.*)
WordAdds(acc, w, o, g) ==
    /\ g.stop = FALSE
    /\ acc.want # {} =>
          /\ g.on = acc.on \cup {o} /\ g.arg = [acc.arg EXCEPT ![o] = w]
          /\ g.operands = acc.operands /\ g.want = {}
    /\ acc.want = {} /\ ~IsOption(w) =>
          /\ g.on = acc.on /\ g.arg = acc.arg
          /\ g.operands = Append(acc.operands, w) /\ g.want = {}
    /\ acc.want = {} /\ IsOption(w) /\ w[2] \in WithArg /\ Len(w) = 2 =>
          /\ g.on = acc.on /\ g.arg = acc.arg
          /\ g.operands = acc.operands /\ g.want = {w[2]}
    /\ acc.want = {} /\ IsOption(w) /\ w[2] \in WithArg /\ Len(w) # 2 =>
          /\ g.on = acc.on \cup {w[2]}
          /\ g.arg = [acc.arg EXCEPT ![w[2]] = SubSeq(w, 3, Len(w))]
          /\ g.operands = acc.operands /\ g.want = {}
    /\ acc.want = {} /\ IsOption(w) /\ w[2] \notin WithArg =>
          /\ g.on = acc.on \cup {w[k] : k \in 2..Len(w)} /\ g.arg = acc.arg
          /\ g.operands = acc.operands /\ g.want = {}
          /\ \A k \in 2..Len(w) : w[k] \notin WithArg

(* The scan of a plain word, in terms of its first option.                  *)
LEMMA GnuWordIs ==
    ASSUME NEW acc \in Found, NEW w \in Seq(Char), ~acc.stop, PlainWord(w),
           NEW o \in WithArg, acc.want # {} => acc.want = {o}
    PROVE  WordAdds(acc, w, o, GnuWord(acc, w))
<1> DEFINE g == GnuWord(acc, w)
<1>0. Len(w) \in Nat /\ acc.arg \in [WithArg -> Seq(Char) \cup {NULL}]
      /\ DOMAIN acc = {"on", "arg", "operands", "want", "stop"} /\ acc.stop = FALSE
  BY LenProperties DEF Found
<1>d. /\ w # Dashes
      /\ IsOption(w) => \A m \in 3..Len(w) : w[m] \in WithArg => w[2] \in WithArg
  BY DEF PlainWord
<1>1. CASE acc.want # {}
  <2> DEFINE ar == [p \in WithArg |-> IF p \in acc.want THEN w ELSE acc.arg[p]]
  <2>1. g = [acc EXCEPT !.want = {}, !.on = @ \cup acc.want, !.arg = ar]
    BY <1>1 DEF GnuWord
  <2>2. ar = [acc.arg EXCEPT ![o] = w]
    BY <1>0, <1>1
  <2> HIDE DEF ar, g
  <2> QED BY <1>0, <1>1, <2>1, <2>2 DEF g, WordAdds
<1>2. CASE acc.want = {} /\ ~IsOption(w)
  BY <1>0, <1>2 DEF GnuWord, WordAdds
<1>3. CASE acc.want = {} /\ IsOption(w) /\ w[2] \in WithArg
  <2> DEFINE n == CHOOSE q \in ArgAt(w) : \A m \in ArgAt(w) : q <= m
             ar == [acc.arg EXCEPT ![w[2]] = SubSeq(w, 3, Len(w))]
  <2>1. Len(w) >= 2 /\ 2 \in ArgAt(w) /\ ArgAt(w) # {}
    BY <1>0, <1>3 DEF IsOption, ArgAt
  <2>2. n = 2
    <3>1. n \in 2..Len(w) /\ n <= 2
      BY <2>1, FirstArg
    <3> QED BY <3>1
  <2> DEFINE fl == acc.on \cup {w[m] : m \in 2..(n - 1)}
  <2>3. g = IF n = Len(w)
             THEN [acc EXCEPT !.on = fl, !.want = {w[n]}]
             ELSE [acc EXCEPT !.on = fl \cup {w[n]},
                      !.arg = [@ EXCEPT ![w[n]] = SubSeq(w, n + 1, Len(w))]]
    BY <1>3, <1>d, <2>1 DEF GnuWord
  <2> HIDE DEF n
  <2>4. fl = acc.on /\ n + 1 = 3
    BY <2>2
  <2> HIDE DEF fl
  <2>5. g = IF Len(w) = 2 THEN [acc EXCEPT !.on = acc.on, !.want = {w[2]}]
            ELSE [acc EXCEPT !.on = acc.on \cup {w[2]}, !.arg = ar]
    BY <2>2, <2>3, <2>4
  <2> HIDE DEF ar, g
  <2> QED BY <1>0, <1>3, <2>5 DEF g, ar, WordAdds
<1>4. CASE acc.want = {} /\ IsOption(w) /\ w[2] \notin WithArg
  <2>1. \A k \in 2..Len(w) : w[k] \notin WithArg
    BY <1>0, <1>4, <1>d
  <2>2. ArgAt(w) = {}
    BY <2>1 DEF ArgAt
  <2>3. g = [acc EXCEPT !.on = @ \cup {w[n] : n \in 2..Len(w)}]
    BY <1>4, <1>d, <2>2 DEF GnuWord
  <2> HIDE DEF g
  <2> QED BY <1>0, <1>4, <2>1, <2>3 DEF g, WordAdds
<1> QED BY <1>1, <1>2, <1>3, <1>4

(* The scan and getopt_permute take a word for the same thing.              *)
ScanAt(a, n) ==
    LET G == GnuScans(a)
        K == WordKinds(a) IN
    /\ ~G[n].stop /\ K[n] # "end"
    /\ G[n].want # {} <=> K[n] = "needs"
    /\ K[n] = "needs" => n > 0 /\ G[n].want = {a[n][2]} /\ a[n][2] \in WithArg

(* What word n adds, by its kind.                                           *)
ScanStep(a, n) ==
    LET G == GnuScans(a)
        K == WordKinds(a)
        w == a[n] IN
    /\ K[n] \in {"rest", "needs", "argument", "option"}
    /\ K[n] = "argument" <=> K[n - 1] = "needs"
    /\ K[n] = "argument" =>
          LET o == a[n - 1][2] IN
          /\ o \in WithArg
          /\ G[n].on = G[n - 1].on \cup {o} /\ G[n].arg = [G[n - 1].arg EXCEPT ![o] = w]
    /\ K[n] = "rest" =>
          ~IsOption(w) /\ G[n].on = G[n - 1].on /\ G[n].arg = G[n - 1].arg
    /\ K[n] = "needs" =>
          /\ IsOption(w) /\ Len(w) = 2 /\ w[2] \in WithArg
          /\ G[n].on = G[n - 1].on /\ G[n].arg = G[n - 1].arg
    /\ K[n] = "option" =>
          /\ IsOption(w)
          /\ \/ /\ w[2] \in WithArg /\ Len(w) # 2
                /\ G[n].on = G[n - 1].on \cup {w[2]}
                /\ G[n].arg = [G[n - 1].arg EXCEPT ![w[2]] = SubSeq(w, 3, Len(w))]
             \/ /\ \A k \in 2..Len(w) : w[k] \notin WithArg
                /\ G[n].on = G[n - 1].on \cup {w[k] : k \in 2..Len(w)}
                /\ G[n].arg = G[n - 1].arg
    /\ G[n].operands = IF K[n] = "rest" THEN Append(G[n - 1].operands, w)
                       ELSE G[n - 1].operands

(* One word: the kind that getopt_permute gives it is what the scan makes   *)
(* of it.                                                                   *)
LEMMA ScanStepIs ==
    ASSUME NEW a \in Seq(Seq(Char)), PlainWords(a), NEW n \in 1..Len(a), ScanAt(a, n - 1)
    PROVE  ScanAt(a, n) /\ ScanStep(a, n)
<1> DEFINE G == GnuScans(a)
           K == WordKinds(a)
           w == a[n]
           acc == G[n - 1]
<1>0. Len(a) \in Nat /\ n - 1 \in 0..Len(a) /\ n > 0 /\ w \in Seq(Char)
  BY LenProperties, ElementOfSeq
<1>1. /\ acc \in Found /\ G[n] = GnuWord(acc, w) /\ K[n] = KindAfter(K[n - 1], w)
      /\ K[n] \in KindSet
  <2>1. G \in [0..Len(a) -> Found] /\ G[n] = GnuWord(G[n - 1], a[n])
    BY GnuScansDef
  <2>2. K \in [0..Len(a) -> KindSet] /\ K[n] = KindAfter(K[n - 1], a[n])
    BY WordKindsDef
  <2> HIDE DEF G, K
  <2>3. n \in 0..Len(a)
    BY <1>0
  <2> QED BY <1>0, <2>1, <2>2, <2>3
<1>2. PlainWord(w)
  BY DEF PlainWords, PlainWord
<1>3. /\ ~acc.stop /\ K[n - 1] # "end" /\ (acc.want # {} <=> K[n - 1] = "needs")
      /\ K[n - 1] = "needs" => acc.want = {a[n - 1][2]} /\ a[n - 1][2] \in WithArg
  BY DEF ScanAt
<1> DEFINE o == IF K[n - 1] = "needs" THEN a[n - 1][2] ELSE "k"
<1>4. o \in WithArg /\ (acc.want # {} => acc.want = {o})
  BY <1>3 DEF WithArg
<1> HIDE DEF G, K, w, acc, o
<1>a. WordAdds(acc, w, o, G[n])
  BY <1>0, <1>1, <1>2, <1>3, <1>4, GnuWordIs
<1>b. w # Dashes
  BY <1>2 DEF PlainWord
<1>w. Len(w) \in Nat
  BY <1>0, LenProperties
<1>5. CASE K[n - 1] = "needs"
  <2>1. K[n] = "argument" /\ acc.want # {} /\ o = a[n - 1][2]
    BY <1>1, <1>3, <1>5 DEF KindAfter, o
  <2>2. /\ G[n].stop = FALSE /\ G[n].want = {} /\ G[n].operands = acc.operands
        /\ G[n].on = acc.on \cup {o} /\ G[n].arg = [acc.arg EXCEPT ![o] = w]
    BY <1>a, <2>1 DEF WordAdds
  <2> QED BY <1>4, <1>5, <2>1, <2>2 DEF ScanAt, ScanStep, G, K, w, acc
<1>6. CASE K[n - 1] # "needs" /\ ~IsOption(w)
  <2>1. K[n] = "rest" /\ acc.want = {}
    BY <1>1, <1>3, <1>6 DEF KindAfter
  <2>2. /\ G[n].stop = FALSE /\ G[n].want = {} /\ G[n].operands = Append(acc.operands, w)
        /\ G[n].on = acc.on /\ G[n].arg = acc.arg
    BY <1>a, <1>6, <2>1 DEF WordAdds
  <2> QED BY <1>6, <2>1, <2>2 DEF ScanAt, ScanStep, G, K, w, acc
<1>7. CASE K[n - 1] # "needs" /\ IsOption(w) /\ w[2] \in WithArg /\ Len(w) = 2
  <2>1. K[n] = "needs" /\ acc.want = {}
    BY <1>1, <1>b, <1>3, <1>7 DEF KindAfter
  <2>2. /\ G[n].stop = FALSE /\ G[n].want = {w[2]} /\ G[n].operands = acc.operands
        /\ G[n].on = acc.on /\ G[n].arg = acc.arg
    BY <1>a, <1>7, <2>1 DEF WordAdds
  <2> QED BY <1>0, <1>7, <2>1, <2>2 DEF ScanAt, ScanStep, G, K, w, acc
<1>8. CASE K[n - 1] # "needs" /\ IsOption(w) /\ w[2] \in WithArg /\ Len(w) # 2
  <2>1. K[n] = "option" /\ acc.want = {}
    BY <1>1, <1>b, <1>3, <1>8 DEF KindAfter
  <2>2. /\ G[n].stop = FALSE /\ G[n].want = {} /\ G[n].operands = acc.operands
        /\ G[n].on = acc.on \cup {w[2]}
        /\ G[n].arg = [acc.arg EXCEPT ![w[2]] = SubSeq(w, 3, Len(w))]
    BY <1>a, <1>8, <2>1 DEF WordAdds
  <2> QED BY <1>8, <2>1, <2>2 DEF ScanAt, ScanStep, G, K, w, acc
<1>9. CASE K[n - 1] # "needs" /\ IsOption(w) /\ w[2] \notin WithArg
  <2>1. K[n] = "option" /\ acc.want = {}
    BY <1>1, <1>b, <1>3, <1>9 DEF KindAfter
  <2>2. /\ G[n].stop = FALSE /\ G[n].want = {} /\ G[n].operands = acc.operands
        /\ G[n].on = acc.on \cup {w[k] : k \in 2..Len(w)} /\ G[n].arg = acc.arg
        /\ \A k \in 2..Len(w) : w[k] \notin WithArg
    BY <1>a, <1>9, <2>1 DEF WordAdds
  <2> QED BY <1>9, <2>1, <2>2 DEF ScanAt, ScanStep, G, K, w, acc
<1> QED BY <1>5, <1>6, <1>7, <1>8, <1>9

(* By induction, for all words.                                             *)
LEMMA ScanKinds ==
    ASSUME NEW a \in Seq(Seq(Char)), PlainWords(a)
    PROVE  /\ \A n \in 0..Len(a) : ScanAt(a, n)
           /\ \A n \in 1..Len(a) : ScanStep(a, n)
<1> DEFINE N == Len(a)
           S == {n \in 0..N : ScanAt(a, n)}
<1>0. N \in Nat
  BY LenProperties
<1>1. 0 \in S
  BY <1>0, GnuScansDef, WordKindsDef DEF ScanAt, GnuStart
<1>2. ASSUME NEW n \in 0..(N - 1), n \in S PROVE n + 1 \in S
  <2>1. n + 1 \in 1..N /\ (n + 1) - 1 = n
    BY <1>0
  <2>2. ScanAt(a, n + 1)
    BY <1>2, <2>1, ScanStepIs
  <2> QED BY <2>1, <2>2
<1> HIDE DEF S
<1>3. \A n \in 0..N : n \in S
  BY <1>0, <1>1, <1>2, Induct
<1>4. \A n \in 0..N : ScanAt(a, n)
  BY <1>3 DEF S
<1>5. ASSUME NEW n \in 1..N PROVE ScanStep(a, n)
  <2>1. n - 1 \in 0..N
    BY <1>0
  <2> QED BY <1>4, <2>1, ScanStepIs
<1> QED BY <1>4, <1>5

(* Words that stay behind change nothing but the operands.                  *)
LEMMA RestKeeps ==
    ASSUME NEW a \in Seq(Seq(Char)), PlainWords(a),
           NEW x \in 0..Len(a), NEW y \in x..Len(a), Count(a, x) = Count(a, y),
           GnuScans(a)[x].want = {}
    PROVE  /\ GnuScans(a)[y].on = GnuScans(a)[x].on
           /\ GnuScans(a)[y].arg = GnuScans(a)[x].arg
           /\ GnuScans(a)[y].want = {}
<1> DEFINE N == Len(a)
           G == GnuScans(a)
           Same(n) == G[n].on = G[x].on /\ G[n].arg = G[x].arg /\ G[n].want = {}
           S == {d \in 0..(y - x) : Same(x + d)}
<1>0. /\ N \in Nat /\ y - x \in Nat /\ x \in Nat /\ y \in Nat
      /\ x <= y /\ y <= N
  BY LenProperties
<1>1. 0 \in S
  BY <1>0
<1>2. ASSUME NEW d \in 0..((y - x) - 1), d \in S PROVE d + 1 \in S
  <2> DEFINE n == x + (d + 1)
  <2>1. /\ n \in 1..N /\ n - 1 = x + d /\ x + d \in 0..N /\ n \in x..N
        /\ n - 1 \in x..N /\ y \in n..N /\ n \in 0..N /\ n - 1 \in 0..N /\ y \in 0..N
    BY <1>0
  <2> HIDE DEF n
  <2>2. Count(a, x) <= Count(a, n - 1) /\ Count(a, n) <= Count(a, y)
    BY <2>1, CountGrows
  <2>3. Count(a, n) = Count(a, n - 1) + IF n \in Taken(a) THEN 1 ELSE 0
    BY <2>1, CountIs
  <2>a. \A z \in 0..N : Count(a, z) \in Nat
    BY CountIs
  <2>4. n \notin Taken(a)
    BY <2>1, <2>2, <2>3, <2>a
  <2>5. ScanStep(a, n) /\ ScanAt(a, n)
    BY <2>1, ScanKinds
  <2>6. WordKinds(a)[n] = "rest"
    BY <2>1, <2>4, <2>5 DEF Taken, ScanStep
  <2>7. G[n].on = G[n - 1].on /\ G[n].arg = G[n - 1].arg /\ G[n].want = {}
    BY <2>5, <2>6 DEF ScanStep, ScanAt
  <2>8. Same(n - 1)
    BY <1>2, <2>1
  <2>9. Same(n)
    BY <2>7, <2>8
  <2>b. d + 1 \in 0..(y - x)
    BY <1>0
  <2> QED BY <2>9, <2>b DEF n
<1>3. y - x \in S
  <2> HIDE DEF S
  <2>1. y - x \in 0..(y - x)
    BY <1>0
  <2> QED BY <1>0, <1>1, <1>2, <2>1, Induct
<1>4. x + (y - x) = y
  BY <1>0
<1> HIDE DEF Same
<1>5. Same(y)
  BY <1>3, <1>4
<1> QED BY <1>5 DEF Same

(* The options found only grow.                                             *)
LEMMA FoundGrows ==
    ASSUME NEW a \in Seq(Seq(Char)), PlainWords(a),
           NEW x \in 0..Len(a), NEW y \in x..Len(a)
    PROVE  GnuScans(a)[x].on \subseteq GnuScans(a)[y].on
<1> DEFINE N == Len(a)
           G == GnuScans(a)
           S == {d \in 0..(y - x) : G[x].on \subseteq G[x + d].on}
<1>0. /\ N \in Nat /\ y - x \in Nat /\ x \in Nat /\ y \in Nat
      /\ x <= y /\ y <= N
  BY LenProperties
<1>1. 0 \in S
  BY <1>0
<1>2. ASSUME NEW d \in 0..((y - x) - 1), d \in S PROVE d + 1 \in S
  <2> DEFINE n == x + (d + 1)
  <2>1. n \in 1..N /\ n - 1 = x + d
    BY <1>0
  <2> HIDE DEF n
  <2>2. G[n - 1].on \subseteq G[n].on
    <3>1. ScanStep(a, n)
      BY <2>1, ScanKinds
    <3> QED BY <3>1, Zenon DEF ScanStep
  <2>3. G[x].on \subseteq G[n - 1].on
    BY <1>2, <2>1
  <2>4. d + 1 \in 0..(y - x)
    BY <1>0
  <2>5. G[x].on \subseteq G[n].on
    BY <2>2, <2>3
  <2> QED BY <2>4, <2>5 DEF n
<1>3. y - x \in S
  <2> HIDE DEF S
  <2>1. y - x \in 0..(y - x)
    BY <1>0
  <2> QED BY <1>0, <1>1, <1>2, <2>1, Induct
<1>4. x + (y - x) = y
  BY <1>0
<1> QED BY <1>3, <1>4

(* As many words stay behind as are not taken.                              *)
LEMMA BehindGrows ==
    ASSUME NEW C, NEW a \in Seq(C), NEW x \in 0..Len(a), NEW y \in x..Len(a)
    PROVE  x - Count(a, x) <= y - Count(a, y)
<1> DEFINE N == Len(a)
           S == {d \in 0..(y - x) : x - Count(a, x) <= (x + d) - Count(a, x + d)}
<1>0. /\ N \in Nat /\ y - x \in Nat /\ x \in Nat /\ y \in Nat
      /\ x <= y /\ y <= N
  BY LenProperties
<1>a. \A n \in 0..N : Count(a, n) \in Nat
  BY CountIs
<1>1. 0 \in S
  BY <1>0, <1>a
<1>2. ASSUME NEW d \in 0..((y - x) - 1), d \in S PROVE d + 1 \in S
  <2> DEFINE n == x + (d + 1)
  <2>1. n \in 1..N /\ n - 1 = x + d /\ n - 1 \in 0..N /\ n \in 0..N
    BY <1>0
  <2> HIDE DEF n
  <2>2. Count(a, n) <= Count(a, n - 1) + 1
    BY <1>a, <2>1, CountIs
  <2>3. x - Count(a, x) <= (n - 1) - Count(a, n - 1)
    BY <1>2, <2>1
  <2>4. x - Count(a, x) <= n - Count(a, n)
    BY <1>0, <1>a, <2>1, <2>2, <2>3
  <2>5. d + 1 \in 0..(y - x)
    BY <1>0
  <2> QED BY <2>4, <2>5 DEF n
<1>3. y - x \in S
  <2> HIDE DEF S
  <2>1. y - x \in 0..(y - x)
    BY <1>0
  <2> QED BY <1>0, <1>1, <1>2, <2>1, Induct
<1>4. x + (y - x) = y
  BY <1>0
<1> QED BY <1>3, <1>4

(* The operands are the words that stay behind, in their order.             *)
LEMMA OperandsAre ==
    ASSUME NEW a \in Seq(Seq(Char)), PlainWords(a), NEW n \in 0..Len(a)
    PROVE  LET o == GnuScans(a)[n].operands IN
           /\ Len(o) = n - Count(a, n)
           /\ \A k \in (1..n) \ Taken(a) : o[k - Count(a, k)] = a[k]
<1> DEFINE N == Len(a)
           G == GnuScans(a)
           Good(z) == /\ Len(G[z].operands) = z - Count(a, z)
                      /\ \A k \in (1..z) \ Taken(a) : G[z].operands[k - Count(a, k)] = a[k]
           S == {z \in 0..N : Good(z)}
<1>0. N \in Nat
  BY LenProperties
<1>a. \A z \in 0..N : Count(a, z) \in 0..z
  BY CountIs
<1>1. 0 \in S
  <2>1. G[0].operands = <<>> /\ Count(a, 0) = 0
    BY GnuScansDef, CountIs DEF GnuStart
  <2>2. Good(0)
    BY <2>1
  <2> QED BY <1>0, <2>2
<1>2. ASSUME NEW d \in 0..(N - 1), d \in S PROVE d + 1 \in S
  <2> DEFINE z == d + 1
             o == G[d].operands
             p == G[z].operands
  <2>0. z \in 1..N /\ z - 1 = d /\ d \in 0..N /\ z \in 0..N
    BY <1>0
  <2>1. /\ Len(o) = d - Count(a, d)
        /\ \A k \in (1..d) \ Taken(a) : o[k - Count(a, k)] = a[k]
    BY <1>2
  <2>2. o \in Seq(Seq(Char)) /\ a[z] \in Seq(Char)
    BY <2>0, GnuScansDef, ElementOfSeq DEF Found
  <2>3. Count(a, z) = Count(a, d) + IF z \in Taken(a) THEN 1 ELSE 0
    BY <2>0, CountIs
  <2>4. z \in Taken(a) <=> WordKinds(a)[z] # "rest"
    BY <2>0, ScanKinds DEF ScanStep, Taken
  <2>5. p = IF z \in Taken(a) THEN o ELSE Append(o, a[z])
    <3>1. ScanStep(a, z)
      BY <2>0, ScanKinds
    <3>2. p = IF WordKinds(a)[z] = "rest" THEN Append(G[z - 1].operands, a[z])
              ELSE G[z - 1].operands
      BY <3>1 DEF ScanStep
    <3> QED BY <2>0, <2>4, <3>2
  <2>6. \A k \in (1..z) \ Taken(a) : k # z => k \in (1..d) \ Taken(a)
    BY <2>0
  <2>8. \A k \in (1..d) \ Taken(a) : k - Count(a, k) \in 1..(d - Count(a, d))
    <3> SUFFICES ASSUME NEW k \in (1..d) \ Taken(a)
                 PROVE  k - Count(a, k) \in 1..(d - Count(a, d))
      OBVIOUS
    <3>1. k \in 1..N /\ k - 1 \in 0..N /\ k \in 0..N
      BY <1>0, <2>0
    <3>2. Count(a, k) = Count(a, k - 1) /\ Count(a, k - 1) \in 0..(k - 1)
      BY <1>a, <3>1, CountIs
    <3>3. k - Count(a, k) <= d - Count(a, d)
      BY <2>0, <3>1, BehindGrows
    <3> QED BY <1>a, <2>0, <3>1, <3>2, <3>3
  <2>7. CASE z \in Taken(a)
    <3>1. p = o /\ Len(o) = z - Count(a, z)
      BY <1>a, <2>0, <2>1, <2>3, <2>5, <2>7
    <3>2. \A k \in (1..z) \ Taken(a) : p[k - Count(a, k)] = a[k]
      BY <2>1, <2>6, <2>7, <3>1
    <3>3. Good(z)
      BY <3>1, <3>2
    <3> QED BY <2>0, <3>3
  <2>9. CASE z \notin Taken(a)
    <3>1. /\ Len(p) = Len(o) + 1 /\ p[Len(o) + 1] = a[z]
          /\ \A q \in 1..Len(o) : p[q] = o[q]
      BY <2>2, <2>5, <2>9, AppendProperties
    <3>2. Len(p) = z - Count(a, z) /\ Len(o) + 1 = z - Count(a, z)
      BY <1>a, <2>0, <2>1, <2>3, <2>9, <3>1
    <3> HIDE DEF p, o
    <3>3. \A k \in (1..z) \ Taken(a) : p[k - Count(a, k)] = a[k]
      <4> SUFFICES ASSUME NEW k \in (1..z) \ Taken(a) PROVE p[k - Count(a, k)] = a[k]
        OBVIOUS
      <4>1. CASE k = z
        BY <3>1, <3>2, <4>1
      <4>2. CASE k # z
        <5>1. k \in (1..d) \ Taken(a)
          BY <2>6, <4>2
        <5>2. k - Count(a, k) \in 1..Len(o) /\ o[k - Count(a, k)] = a[k]
          BY <2>1, <2>8, <5>1
        <5> QED BY <3>1, <5>2
      <4> QED BY <4>1, <4>2
    <3>4. Good(z)
      BY <3>2, <3>3 DEF p
    <3> QED BY <2>0, <3>4
  <2> QED BY <2>7, <2>9
<1> HIDE DEF S
<1>3. n \in S
  BY <1>0, <1>1, <1>2, Induct
<1> QED BY <1>3 DEF S

(* The next word that getopt reads is the next one the scan takes for an    *)
(* option.                                                                  *)
LEMMA NextTaken ==
    ASSUME NEW a \in Seq(Seq(Char)), PlainWords(a), NEW x \in 0..Len(a),
           GnuScans(a)[x].want = {}, Count(a, x) < Count(a, Len(a))
    PROVE  \E m \in (x + 1)..Len(a) :
               /\ m \in Taken(a) /\ Count(a, m) = Count(a, x) + 1
               /\ Permute(a)[Count(a, m)] = a[m]
               /\ WordKinds(a)[m] \in {"option", "needs"}
               /\ GnuScans(a)[m - 1].on = GnuScans(a)[x].on
               /\ GnuScans(a)[m - 1].arg = GnuScans(a)[x].arg
<1> DEFINE N == Len(a)
           P == Taken(a)
           q == Count(a, x) + 1
<1>0. N \in Nat /\ x \in Nat /\ x <= N
  BY LenProperties
<1>a. \A n \in 0..N : Count(a, n) \in 0..n
  BY CountIs
<1>1. q \in 1..N /\ q <= Count(a, N)
  <2>1. Count(a, N) \in 0..N /\ Count(a, x) \in 0..x
    BY <1>0, <1>a
  <2> QED BY <1>0, <2>1
<1>2. PICK m \in 1..N : Place(a, P, m) = q
  <2>1. P \in SUBSET (1..N)
    BY DEF Taken
  <2> HIDE DEF P
  <2> QED BY <1>1, <2>1, PlacesFilled
<1>b. m - 1 \in 0..N /\ m \in 0..N
  BY <1>0
<1>c. Count(a, m) = Count(a, m - 1) + IF m \in P THEN 1 ELSE 0
  BY CountIs
<1>d. Count(a, m) \in 0..m /\ Count(a, m - 1) \in 0..(m - 1) /\ Count(a, x) \in 0..x
      /\ Count(a, N) \in 0..N
  BY <1>0, <1>a, <1>b
<1>3. m \in P /\ Count(a, m) = q
  <2>1. Place(a, P, m) = IF m \in P THEN Count(a, m) ELSE Count(a, N) + (m - Count(a, m))
    BY PlaceIs
  <2>2. CASE m \notin P
    <3>1. q = Count(a, N) + (m - Count(a, m)) /\ Count(a, m) = Count(a, m - 1)
      BY <1>2, <1>c, <1>d, <2>1, <2>2
    <3> QED BY <1>0, <1>1, <1>d, <3>1
  <2> QED BY <1>2, <2>1, <2>2
<1>4. m > x
  <2> SUFFICES ASSUME m <= x PROVE FALSE
    BY <1>0
  <2>1. x \in m..N
    BY <1>0
  <2>2. Count(a, m) <= Count(a, x)
    BY <1>b, <2>1, CountGrows
  <2> QED BY <1>3, <1>d, <2>2
<1>5. m - 1 \in x..N /\ m \in (x + 1)..N
  BY <1>0, <1>4
<1>6. Count(a, m - 1) = Count(a, x)
  BY <1>3, <1>c, <1>d
<1>7. /\ GnuScans(a)[m - 1].on = GnuScans(a)[x].on
      /\ GnuScans(a)[m - 1].arg = GnuScans(a)[x].arg
      /\ GnuScans(a)[m - 1].want = {}
  BY <1>5, <1>6, RestKeeps
<1>8. WordKinds(a)[m] \in {"option", "needs"}
  <2>1. ScanStep(a, m) /\ ScanAt(a, m - 1)
    BY <1>b, ScanKinds
  <2>2. WordKinds(a)[m] # "argument"
    BY <1>7, <2>1 DEF ScanStep, ScanAt
  <2> QED BY <1>3, <2>2 DEF Taken
<1>9. Permute(a)[Count(a, m)] = a[m]
  BY <1>2, <1>3, PlaceIs
<1> QED BY <1>3, <1>5, <1>7, <1>8, <1>9

(* Behind the options stand the operands.                                   *)
LEMMA BehindOptions ==
    ASSUME NEW a \in Seq(Seq(Char)), PlainWords(a)
    PROVE  /\ SubSeq(Permute(a), Count(a, Len(a)) + 1, Len(a)) = GnuScan(a).operands
           /\ \A n \in (Count(a, Len(a)) + 1)..Len(a) : ~IsOption(Permute(a)[n])
<1> DEFINE N == Len(a)
           P == Taken(a)
           p == Permute(a)
           c == Count(a, N)
           o == GnuScan(a).operands
           t == SubSeq(p, c + 1, N)
<1>0. N \in Nat /\ c \in 0..N
  BY LenProperties, CountIs
<1>1. p \in Seq(Seq(Char)) /\ Len(p) = N
  BY PermuteType
<1>2. /\ o \in Seq(Seq(Char)) /\ Len(o) = N - c
      /\ \A k \in (1..N) \ P : o[k - Count(a, k)] = a[k]
  <2>1. N \in 0..N
    BY <1>0
  <2>2. GnuScans(a)[N].operands \in Seq(Seq(Char))
    BY <2>1, GnuScansDef DEF Found
  <2> QED BY <2>1, <2>2, OperandsAre DEF GnuScan
<1>3. ASSUME NEW n \in (c + 1)..N
      PROVE  \E m \in (1..N) \ P : n = c + (m - Count(a, m)) /\ p[n] = a[m]
  <2>1. P \in SUBSET (1..N) /\ n \in 1..N
    BY <1>0 DEF Taken
  <2>2. PICK m \in 1..N : Place(a, P, m) = n
    <3> HIDE DEF P
    <3> QED BY <2>1, PlacesFilled
  <2>3. /\ n = IF m \in P THEN Count(a, m) ELSE c + (m - Count(a, m))
        /\ p[n] = a[m]
    BY <2>2, PlaceIs
  <2>4. m \notin P
    <3>1. N \in m..N /\ m \in 0..N
      BY <1>0
    <3>2. Count(a, m) <= c /\ Count(a, m) \in Nat
      BY <3>1, CountGrows, CountIs
    <3> QED BY <1>0, <2>3, <3>2
  <2> QED BY <2>3, <2>4
<1>4. ASSUME NEW n \in (c + 1)..N PROVE ~IsOption(p[n])
  <2>1. PICK m \in (1..N) \ P : p[n] = a[m]
    BY <1>3
  <2>2. ScanStep(a, m)
    BY ScanKinds
  <2>3. WordKinds(a)[m] = "rest"
    BY <2>2 DEF ScanStep, Taken
  <2> QED BY <2>1, <2>2, <2>3 DEF ScanStep
<1>5. t \in Seq(Seq(Char)) /\ Len(t) = N - c /\ \A q \in 1..(N - c) : t[q] = p[c + q]
  <2>1. \A n \in (c + 1)..N : p[n] \in Seq(Char)
    BY <1>0, <1>1, ElementOfSeq
  <2> HIDE DEF p, c, N
  <2>2. /\ t \in Seq(Seq(Char))
        /\ Len(t) = IF c + 1 <= N THEN N - (c + 1) + 1 ELSE 0
        /\ \A q \in 1..(N - (c + 1) + 1) : t[q] = p[(c + 1) + q - 1]
    BY <1>0, <1>1, <2>1, SubSeqProperties
  <2> QED BY <1>0, <2>2
<1>6. ASSUME NEW q \in 1..(N - c) PROVE t[q] = o[q]
  <2>1. c + q \in (c + 1)..N
    BY <1>0
  <2>2. PICK m \in (1..N) \ P : c + q = c + (m - Count(a, m)) /\ p[c + q] = a[m]
    BY <1>3, <2>1
  <2>3. m - Count(a, m) = q
    <3>1. m \in 0..N
      BY <1>0
    <3>2. Count(a, m) \in Nat
      BY <3>1, CountIs
    <3>3. m \in Int /\ q \in Int /\ c \in Int
      BY <1>0
    <3> DEFINE k == Count(a, m)
    <3>4. c + q = c + (m - k) /\ k \in Int
      BY <2>2, <3>2
    <3> HIDE DEF k, c
    <3>5. m - k = q
      BY <3>3, <3>4
    <3> QED BY <3>5 DEF k
  <2>4. o[m - Count(a, m)] = a[m]
    BY <1>2
  <2>5. t[q] = p[c + q]
    BY <1>5
  <2> HIDE DEF t, o, p, c, N
  <2> QED BY <2>2, <2>3, <2>4, <2>5
<1>7. t = o
  <2> HIDE DEF t, o
  <2> QED BY <1>2, <1>5, <1>6, SeqEqual
<1> QED BY <1>4, <1>7

-----------------------------------------------------------------------------
(* getopt on the permuted words, against the scan of the given ones: the    *)
(* scan has read x words, getopt those of them that are taken, and the      *)
(* first characters of the next one.                                        *)
ReadSoFar(x) ==
    LET g == GnuScans(given)[x] IN
    /\ optind = Count(given, x) + 1 /\ g.want = {}
    /\ optarg = g.arg /\ on = g.on \cup {Word[k] : k \in 2..(pos - 1)}
    /\ pos > 2 => /\ optind <= Count(given, Len(given))
                  /\ \A k \in 2..Len(Word) : Word[k] \notin WithArg

(* What getopt has found is what the scan has.                              *)
Agrees ==
    /\ on = GnuScan(given).on /\ optarg = GnuScan(given).arg
    /\ SubSeq(argv, optind, Len(argv)) = GnuScan(given).operands

GnuInv ==
    /\ given \in Seq(Seq(Char))
    /\ PlainWords(given) =>
        /\ phase = "permute" =>
              /\ argv = given /\ optind = 1 /\ pos = 2 /\ on = {}
              /\ optarg = [o \in WithArg |-> NULL]
        /\ phase = "getopt" => argv = Permute(given) /\ \E x \in 0..Len(given) : ReadSoFar(x)
        /\ phase \notin {"permute", "getopt", "usage"} => Agrees

(* A plain command line with known options never fails in getopt.           *)
KnownOptions == GnuScan(given).on \subseteq OptString

(* getopt has read nothing yet.                                             *)
LEMMA GnuInit == Init => GnuInv
<1> SUFFICES ASSUME Init PROVE GnuInv
  OBVIOUS
<1>1. PICK n \in DOMAIN Cases : \E c \in Cases[n] : given = c.argv /\ argv = c.argv
  BY DEF Init
<1>2. PICK c \in Cases[n] : given = c.argv /\ argv = c.argv
  BY <1>1
<1>3. given \in Seq(Seq(Char)) /\ argv = given
  BY <1>2, CasesAssumption
<1> QED BY <1>3 DEF Init, GnuInv

(* Before the first option nothing is read.                                 *)
LEMMA GnuPermute ==
    ASSUME GnuInv, GetoptPermute
    PROVE  GnuInv'
<1>0. /\ given' = given /\ argv' = Permute(argv) /\ phase = "permute" /\ phase' = "getopt"
      /\ UNCHANGED <<optind, pos, on, optarg>> /\ given \in Seq(Seq(Char))
  BY DEF GetoptPermute, optVars, GnuInv
<1>1. CASE PlainWords(given)
  <2>1. /\ argv = given /\ optind = 1 /\ pos = 2 /\ on = {}
        /\ optarg = [o \in WithArg |-> NULL]
    BY <1>0, <1>1 DEF GnuInv
  <2>2. GnuScans(given)[0] = GnuStart /\ Count(given, 0) = 0 /\ 0 \in 0..Len(given)
    BY <1>0, GnuScansDef, CountIs, LenProperties
  <2>3. {Word'[k] : k \in 2..(pos' - 1)} = {}
    BY <1>0, <2>1
  <2>4. ReadSoFar(0)'
    <3>1. GnuScans(given')[0] = GnuStart /\ Count(given', 0) = 0
      BY <1>0, <2>2
    <3>2. optind' = 1 /\ pos' = 2 /\ on' = {} /\ optarg' = [o \in WithArg |-> NULL]
      BY <1>0, <2>1
    <3>3. {Word[k] : k \in 2..(pos - 1)}' = {}
      BY <2>3
    <3> QED BY <3>1, <3>2, <3>3 DEF ReadSoFar, GnuStart
  <2>5. (\E x \in 0..Len(given) : ReadSoFar(x))'
    BY <1>0, <2>2, <2>4
  <2> QED BY <1>0, <2>1, <2>5 DEF GnuInv
<1> QED BY <1>0, <1>1 DEF GnuInv

(* The word that getopt reads next, as the scan takes it.                   *)
Reading(x, m) ==
    /\ m \in (x + 1)..Len(given) /\ m \in Taken(given)
    /\ Count(given, m) = Count(given, x) + 1
    /\ optind = Count(given, m) /\ Word = given[m]
    /\ ScanStep(given, m) /\ ScanAt(given, m)
    /\ WordKinds(given)[m] \in {"option", "needs"}
    /\ GnuScans(given)[m - 1].on = GnuScans(given)[x].on
    /\ GnuScans(given)[m - 1].arg = GnuScans(given)[x].arg

(* When getopt has an option to read, it is the next one of the scan.       *)
LEMMA NextIsReading ==
    ASSUME CommandInv, GnuInv, PlainWords(given), phase = "getopt",
           optind <= Len(argv), IsOption(Word),
           NEW x \in 0..Len(given), ReadSoFar(x)
    PROVE  \E m \in 1..Len(given) : Reading(x, m)
<1> DEFINE a == given
           N == Len(given)
<1>0. /\ a \in Seq(Seq(Char)) /\ argv = Permute(a) /\ Len(argv) = N /\ N \in Nat
      /\ optind = Count(a, x) + 1 /\ GnuScans(a)[x].want = {}
  BY LenProperties DEF GnuInv, CommandInv, WordInv, ReadSoFar
<1>1. Count(a, x) \in Nat /\ Count(a, N) \in Nat
  BY <1>0, CountIs
<1>2. Count(a, x) < Count(a, N)
  <2> SUFFICES ASSUME optind > Count(a, N) PROVE FALSE
    BY <1>0, <1>1
  <2>1. optind \in (Count(a, N) + 1)..N
    BY <1>0, <1>1
  <2>2. ~IsOption(argv[optind])
    BY <1>0, <2>1, BehindOptions
  <2> QED BY <2>2 DEF Word
<1>3. PICK m \in (x + 1)..N :
               /\ m \in Taken(a) /\ Count(a, m) = Count(a, x) + 1
               /\ Permute(a)[Count(a, m)] = a[m]
               /\ WordKinds(a)[m] \in {"option", "needs"}
               /\ GnuScans(a)[m - 1].on = GnuScans(a)[x].on
               /\ GnuScans(a)[m - 1].arg = GnuScans(a)[x].arg
  BY <1>0, <1>2, NextTaken
<1>4. m \in 1..N /\ m \in 0..N
  BY <1>0
<1>5. ScanStep(a, m) /\ ScanAt(a, m)
  BY <1>0, <1>4, ScanKinds
<1>6. Word = a[m]
  BY <1>0, <1>3 DEF Word
<1>7. Reading(x, m)
  BY <1>0, <1>3, <1>5, <1>6 DEF Reading
<1> QED BY <1>4, <1>7

(* An option whose argument is the next word.                               *)
LEMMA ArgumentNext ==
    ASSUME GnuInv, PlainWords(given), phase = "getopt", NEW x \in 0..Len(given),
           NEW m \in 1..Len(given), Reading(x, m), WordKinds(given)[m] = "needs"
    PROVE  /\ m + 1 \in 1..Len(given) /\ Count(given, m + 1) = optind + 1
           /\ optind + 1 \in 1..Len(given) /\ argv[optind + 1] = given[m + 1]
           /\ GnuScans(given)[m + 1].want = {}
           /\ GnuScans(given)[m + 1].on = GnuScans(given)[x].on \cup {given[m][2]}
           /\ GnuScans(given)[m + 1].arg =
                 [GnuScans(given)[x].arg EXCEPT ![given[m][2]] = given[m + 1]]
<1> DEFINE a == given
           N == Len(given)
           G == GnuScans(a)
           K == WordKinds(a)
<1>0. a \in Seq(Seq(Char)) /\ argv = Permute(a) /\ N \in Nat
  BY LenProperties DEF GnuInv
<1>1. m # N
  <2>1. ScanAt(a, N) /\ G[N].want = {}
    <3>1. N \in 0..N
      BY <1>0
    <3> QED BY <1>0, <3>1, ScanKinds DEF PlainWords, GnuScan
  <2>2. K[N] # "needs"
    BY <2>1 DEF ScanAt
  <2> QED BY <2>2
<1>2. m + 1 \in 1..N /\ (m + 1) - 1 = m /\ m + 1 \in 0..N
  BY <1>0, <1>1
<1>3. ScanStep(a, m + 1) /\ ScanAt(a, m + 1)
  BY <1>0, <1>2, ScanKinds
<1>4. K[m + 1] = "argument"
  BY <1>2, <1>3 DEF ScanStep
<1>5. m + 1 \in Taken(a)
  BY <1>2, <1>4 DEF Taken
<1>6. Count(a, m + 1) = Count(a, m) + 1
  BY <1>0, <1>2, <1>5, CountIs
<1>7. argv[Count(a, m + 1)] = a[m + 1] /\ Count(a, m + 1) \in 1..N
  BY <1>0, <1>2, <1>5, PlaceIs
<1>8. optind = Count(a, m) /\ ScanStep(a, m)
      /\ G[m - 1].on = G[x].on /\ G[m - 1].arg = G[x].arg
  BY DEF Reading
<1>9. G[m].on = G[x].on /\ G[m].arg = G[x].arg
  BY <1>8 DEF ScanStep
<1>10. /\ G[m + 1].on = G[m].on \cup {a[m][2]}
       /\ G[m + 1].arg = [G[m].arg EXCEPT ![a[m][2]] = a[m + 1]]
  BY <1>2, <1>3, <1>4 DEF ScanStep
<1>11. G[m + 1].want = {}
  BY <1>3, <1>4 DEF ScanAt
<1> QED BY <1>2, <1>6, <1>7, <1>8, <1>9, <1>10, <1>11

(* getopt reads a character: it fails only on an unknown option, and        *)
(* otherwise has read what the scan has.                                    *)
LEMMA GnuRead ==
    ASSUME CommandInv, GnuInv, PlainWords(given), GetoptNext
    PROVE  /\ phase' \in {"getopt", "usage"} /\ (KnownOptions => phase' = "getopt")
           /\ phase' = "getopt" => (\E x \in 0..Len(given) : ReadSoFar(x))'
<1> DEFINE a == given
           N == Len(given)
           G == GnuScans(a)
           K == WordKinds(a)
           w == Word
           c == Word[pos]
<1>0. /\ a \in Seq(Seq(Char)) /\ argv = Permute(a) /\ Len(argv) = N /\ N \in Nat
      /\ given' = given /\ argv' = argv /\ phase = "getopt"
      /\ optind <= N /\ IsOption(Word) /\ w \in Seq(Char) /\ Len(w) \in Nat
      /\ Len(w) > 1 /\ pos \in 2..Len(w) /\ optind \in Nat
  <2>1. /\ a \in Seq(Seq(Char)) /\ argv = Permute(a) /\ Len(argv) = N /\ N \in Nat
        /\ given' = given /\ argv' = argv /\ phase = "getopt"
        /\ optind <= N /\ IsOption(Word) /\ optind \in 1..N
    BY LenProperties DEF GnuInv, CommandInv, WordInv, GetoptNext, argVars
  <2>2. w \in Seq(Char) /\ Len(w) \in Nat
    BY <2>1, ElementOfSeq, LenProperties DEF Word, CommandInv, WordInv
  <2>3. Len(w) > 1
    BY <2>1 DEF IsOption
  <2>4. pos \in 2..Len(w)
    BY <2>1, <2>2, <2>3 DEF CommandInv, WordInv
  <2> QED BY <2>1, <2>2, <2>3, <2>4
<1>1. PICK x \in 0..N : ReadSoFar(x)
  BY <1>0 DEF GnuInv
<1>2. PICK m \in 1..N : Reading(x, m)
  BY <1>0, <1>1, NextIsReading
<1>3. /\ optind = Count(a, m) /\ w = a[m] /\ ScanStep(a, m) /\ ScanAt(a, m)
      /\ K[m] \in {"option", "needs"} /\ G[m - 1].on = G[x].on /\ G[m - 1].arg = G[x].arg
      /\ optarg = G[x].arg /\ on = G[x].on \cup {w[k] : k \in 2..(pos - 1)}
      /\ pos > 2 => \A k \in 2..Len(w) : w[k] \notin WithArg
      /\ optind <= Count(a, N)
  <2>1. m \in 0..N /\ N \in m..N
    BY <1>0
  <2>2. Count(a, m) <= Count(a, N)
    BY <1>0, <2>1, CountGrows
  <2> QED BY <1>1, <1>2, <2>2 DEF Reading, ReadSoFar
<1>p. m \in 0..N /\ m - 1 \in 0..N /\ N \in m..N
  BY <1>0
<1>k. KnownOptions => G[m].on \subseteq OptString
  BY <1>0, <1>p, FoundGrows DEF KnownOptions, GnuScan
<1>s. \/ c \notin OptString /\ phase' = "usage"
      \/ /\ c \in Flags
         /\ on' = on \cup {c}
         /\ optind' = IF pos = Len(w) THEN optind + 1 ELSE optind
         /\ pos' = IF pos = Len(w) THEN 2 ELSE pos + 1
         /\ phase' = phase /\ optarg' = optarg
      \/ /\ c \in WithArg
         /\ IF pos = Len(w) /\ optind = N THEN phase' = "usage"
            ELSE /\ on' = on \cup {c}
                 /\ optarg' = [optarg EXCEPT ![c] =
                        IF pos = Len(w) THEN argv[optind + 1]
                        ELSE SubSeq(w, pos + 1, Len(w))]
                 /\ optind' = IF pos = Len(w) THEN optind + 2 ELSE optind + 1
                 /\ pos' = 2 /\ phase' = phase
  BY <1>0 DEF GetoptNext, Usage
<1>f. WithArg \subseteq OptString /\ WithArg \cap Flags = {} /\ Flags \subseteq OptString
  BY DEF WithArg, OptString, Flags
<1>e. ASSUME NEW y \in 0..N, phase' = "getopt", optind' = Count(a, y) + 1, G[y].want = {},
             optarg' = G[y].arg, on' = G[y].on, pos' = 2
      PROVE  (\E z \in 0..Len(given) : ReadSoFar(z))'
  <2>1. {Word[k] : k \in 2..(pos - 1)}' = {}
    BY <1>e
  <2>2. ReadSoFar(y)'
    BY <1>0, <1>e, <2>1 DEF ReadSoFar
  <2> QED BY <1>0, <2>2
<1> HIDE DEF w, c
<1>4. CASE K[m] = "needs"
  <2>1. IsOption(w) /\ Len(w) = 2 /\ w[2] \in WithArg
    BY <1>3, <1>4 DEF ScanStep
  <2>2. pos = 2 /\ c = w[2]
    BY <1>0, <2>1 DEF c, w
  <2>3. {w[k] : k \in 2..(pos - 1)} = {}
    BY <2>2
  <2>4. on = G[x].on
    BY <1>3, <2>3
  <2>5. /\ m + 1 \in 1..N /\ Count(a, m + 1) = optind + 1
        /\ optind + 1 \in 1..N /\ argv[optind + 1] = a[m + 1]
        /\ G[m + 1].want = {}
        /\ G[m + 1].on = G[x].on \cup {a[m][2]}
        /\ G[m + 1].arg = [G[x].arg EXCEPT ![a[m][2]] = a[m + 1]]
    BY <1>0, <1>2, <1>4, ArgumentNext
  <2>6. optind # N /\ m + 1 \in 0..N
    BY <1>0, <2>5
  <2>7. /\ on' = on \cup {c} /\ optarg' = [optarg EXCEPT ![c] = argv[optind + 1]]
        /\ optind' = optind + 2 /\ pos' = 2 /\ phase' = "getopt"
    BY <1>0, <1>f, <1>s, <2>1, <2>2, <2>6
  <2>8. on' = G[m + 1].on /\ optarg' = G[m + 1].arg /\ optind' = Count(a, m + 1) + 1
    BY <1>0, <1>3, <2>2, <2>4, <2>5, <2>7
  <2>9. (\E z \in 0..Len(given) : ReadSoFar(z))'
    BY <1>e, <2>5, <2>6, <2>7, <2>8
  <2> QED BY <2>7, <2>9
<1>5. CASE K[m] = "option" /\ w[2] \in WithArg
  <2>0. 2 \in 2..Len(w)
    BY <1>0
  <2>1. /\ Len(w) # 2
        /\ G[m].on = G[m - 1].on \cup {w[2]}
        /\ G[m].arg = [G[m - 1].arg EXCEPT ![w[2]] = SubSeq(w, 3, Len(w))]
    BY <1>3, <1>5, <2>0 DEF ScanStep
  <2>2. pos = 2 /\ c = w[2]
    BY <1>0, <1>3, <1>5, <2>0 DEF c, w
  <2>3. {w[k] : k \in 2..(pos - 1)} = {}
    BY <2>2
  <2>4. on = G[x].on
    BY <1>3, <2>3
  <2>5. /\ on' = on \cup {c} /\ optarg' = [optarg EXCEPT ![c] = SubSeq(w, 3, Len(w))]
        /\ optind' = optind + 1 /\ pos' = 2 /\ phase' = "getopt"
    BY <1>0, <1>5, <1>f, <1>s, <2>1, <2>2
  <2>6. on' = G[m].on /\ optarg' = G[m].arg /\ optind' = Count(a, m) + 1
    BY <1>3, <2>1, <2>2, <2>4, <2>5
  <2>7. G[m].want = {}
    BY <1>3, <1>5 DEF ScanAt
  <2>8. (\E z \in 0..Len(given) : ReadSoFar(z))'
    BY <1>e, <1>p, <2>5, <2>6, <2>7
  <2> QED BY <2>5, <2>8
<1>6. CASE K[m] = "option" /\ w[2] \notin WithArg
  <2>1. /\ \A k \in 2..Len(w) : w[k] \notin WithArg
        /\ G[m].on = G[m - 1].on \cup {w[k] : k \in 2..Len(w)}
        /\ G[m].arg = G[m - 1].arg
    BY <1>3, <1>6 DEF ScanStep
  <2>2. c = w[pos] /\ c \notin WithArg /\ c \in G[m].on
    BY <1>0, <2>1 DEF c, w
  <2>3. KnownOptions => c \in OptString
    BY <1>k, <2>2
  <2>4. CASE phase' = "usage"
    BY <1>s, <1>0, <1>f, <2>2, <2>3, <2>4
  <2>5. CASE phase' # "usage"
    <3>1. /\ on' = on \cup {c}
          /\ optind' = IF pos = Len(w) THEN optind + 1 ELSE optind
          /\ pos' = IF pos = Len(w) THEN 2 ELSE pos + 1
          /\ phase' = "getopt" /\ optarg' = optarg
      BY <1>0, <1>f, <1>s, <2>2, <2>5
    <3>2. on' = G[x].on \cup {w[k] : k \in 2..pos}
      <4>1. ASSUME NEW k \in 2..pos PROVE k = pos \/ k \in 2..(pos - 1)
        BY <1>0
      <4>2. \A k \in 2..(pos - 1) : k \in 2..pos
        BY <1>0
      <4>3. pos \in 2..pos
        BY <1>0
      <4>4. {w[k] : k \in 2..pos} = {w[k] : k \in 2..(pos - 1)} \cup {c}
        BY <2>2, <4>1, <4>2, <4>3
      <4> QED BY <1>3, <3>1, <4>4
    <3>3. CASE pos = Len(w)
      <4>1. on' = G[m].on /\ optarg' = G[m].arg /\ optind' = Count(a, m) + 1 /\ pos' = 2
        BY <1>3, <2>1, <3>1, <3>2, <3>3
      <4>2. G[m].want = {}
        BY <1>3, <1>6 DEF ScanAt
      <4>3. (\E z \in 0..Len(given) : ReadSoFar(z))'
        BY <1>e, <1>p, <3>1, <4>1, <4>2
      <4> QED BY <3>1, <4>3
    <3>4. CASE pos # Len(w)
      <4>1. optind' = optind /\ pos' = pos + 1 /\ optarg' = optarg
        BY <3>1, <3>4
      <4>2. Word' = w
        BY <1>0, <4>1 DEF Word, w
      <4>3. pos' - 1 = pos
        BY <1>0, <4>1
      <4>4. {Word[k] : k \in 2..(pos - 1)}' = {w[k] : k \in 2..pos}
        BY <4>2, <4>3
      <4>5. ReadSoFar(x)'
        <5>1. /\ optind = Count(a, x) + 1 /\ G[x].want = {}
          BY <1>1 DEF ReadSoFar
        <5> QED BY <1>0, <1>3, <2>1, <3>2, <4>1, <4>2, <4>4, <5>1 DEF ReadSoFar
      <4>6. (\E z \in 0..Len(given) : ReadSoFar(z))'
        BY <1>0, <4>5
      <4> QED BY <3>1, <4>6
    <3> QED BY <3>3, <3>4
  <2> QED BY <2>4, <2>5
<1> QED BY <1>3, <1>4, <1>5, <1>6

(* getopt stops behind the options.                                         *)
LEMMA GnuStop ==
    ASSUME CommandInv, GnuInv, PlainWords(given), GetoptEnd
    PROVE  Agrees'
<1> DEFINE a == given
           N == Len(given)
           G == GnuScans(a)
<1>0. /\ a \in Seq(Seq(Char)) /\ argv = Permute(a) /\ Len(argv) = N /\ N \in Nat
      /\ given' = given /\ argv' = argv /\ phase = "getopt" /\ on' = on /\ optarg' = optarg
      /\ optind \in 1..(N + 1)
  BY LenProperties DEF GnuInv, CommandInv, WordInv, GetoptEnd, argVars
<1>1. PICK x \in 0..N : ReadSoFar(x)
  BY <1>0 DEF GnuInv
<1>2. Count(a, x) \in Nat /\ Count(a, N) \in 0..N /\ optind = Count(a, x) + 1
      /\ G[x].want = {} /\ optarg = G[x].arg
      /\ on = G[x].on \cup {Word[k] : k \in 2..(pos - 1)}
  <2>1. Count(a, x) \in Nat /\ Count(a, N) \in 0..N
    BY <1>0, CountIs
  <2> QED BY <1>1, <2>1 DEF ReadSoFar
<1>3. x \in 0..N /\ N \in x..N
  BY <1>0
<1>4. Count(a, x) = Count(a, N)
  <2>1. Count(a, x) <= Count(a, N)
    BY <1>0, <1>3, CountGrows
  <2> SUFFICES ASSUME Count(a, x) < Count(a, N) PROVE FALSE
    BY <1>2, <2>1
  <2>2. PICK m \in (x + 1)..N :
               /\ m \in Taken(a) /\ Count(a, m) = Count(a, x) + 1
               /\ Permute(a)[Count(a, m)] = a[m]
               /\ WordKinds(a)[m] \in {"option", "needs"}
    BY <1>0, <1>2, NextTaken
  <2>3. m \in 1..N
    BY <1>0
  <2>4. IsOption(a[m])
    BY <1>0, <2>2, <2>3, ScanKinds DEF ScanStep
  <2>5. Word = a[m] /\ optind <= N
    BY <1>0, <1>2, <2>2 DEF Word
  <2>6. Word # Dashes
    BY <2>3, <2>5 DEF PlainWords
  <2> QED BY <1>0, <2>4, <2>5, <2>6 DEF GetoptEnd
<1>5. G[N].on = G[x].on /\ G[N].arg = G[x].arg
  BY <1>0, <1>2, <1>3, <1>4, RestKeeps
<1>6. pos = 2
  <2>1. ~(pos > 2)
    BY <1>0, <1>1, <1>2, <1>4 DEF ReadSoFar
  <2>2. CASE optind <= Len(argv)
    <3>1. argv[optind] \in Seq(Char)
      BY <1>0, <2>2, ElementOfSeq DEF CommandInv, WordInv
    <3>2. Len(Word) \in Nat
      BY <3>1, LenProperties DEF Word
    <3> QED BY <2>1, <3>2 DEF CommandInv, WordInv
  <2> QED BY <2>2 DEF CommandInv, WordInv
<1>7. {Word[k] : k \in 2..(pos - 1)} = {}
  BY <1>6
<1>8. on' = GnuScan(a).on /\ optarg' = GnuScan(a).arg
  BY <1>0, <1>2, <1>5, <1>7 DEF GnuScan
<1>9. optind' = optind
  <2>1. CASE optind <= Len(argv)
    <3>1. PICK m \in 1..N : Place(a, Taken(a), m) = optind
      <4>1. Taken(a) \in SUBSET (1..N) /\ optind \in 1..N
        BY <1>0, <2>1 DEF Taken
      <4> QED BY <1>0, <4>1, PlacesFilled
    <3>2. Word = a[m]
      BY <1>0, <3>1, PlaceIs DEF Word
    <3>3. Word # Dashes
      BY <3>2 DEF PlainWords
    <3> QED BY <3>3 DEF GetoptEnd
  <2> QED BY <2>1 DEF GetoptEnd
<1>10. SubSeq(argv', optind', Len(argv')) = GnuScan(a).operands
  BY <1>0, <1>2, <1>4, <1>9, BehindOptions
<1> QED BY <1>0, <1>8, <1>10 DEF Agrees

(* Every step keeps the agreement of getopt with the scan.                  *)
LEMMA GnuNext == CommandInv /\ GnuInv /\ [Next]_vars => GnuInv'
<1> SUFFICES ASSUME CommandInv, GnuInv, [Next]_vars PROVE GnuInv'
  OBVIOUS
<1>1. CASE GetoptPermute
  BY <1>1, GnuPermute
<1>2. CASE GetoptNext
  <2>1. given' = given /\ argv' = argv /\ phase = "getopt" /\ phase' \in {"getopt", "usage"}
    BY <1>2 DEF GetoptNext, argVars, Usage
  <2> QED BY <1>2, <2>1, GnuRead DEF GnuInv
<1>3. CASE GetoptEnd
  <2>1. given' = given /\ phase' = "operands"
    BY <1>3 DEF GetoptEnd, argVars
  <2> QED BY <1>3, <2>1, GnuStop DEF GnuInv
<1>4. CASE UNCHANGED <<argVars, optVars>> /\ (phase' # phase => phase' \notin {"permute", "getopt"})
           /\ (phase' # phase => phase \notin {"permute", "getopt", "usage"})
  <2>1. UNCHANGED <<argv, given, optind, pos, on, optarg>>
    BY <1>4 DEF argVars, optVars
  <2>2. Word' = Word
    BY <2>1 DEF Word
  <2>3. \A x : ReadSoFar(x)' <=> ReadSoFar(x)
    BY <2>1, <2>2 DEF ReadSoFar
  <2>4. Agrees' <=> Agrees
    BY <2>1 DEF Agrees
  <2> QED BY <1>4, <2>1, <2>3, <2>4 DEF GnuInv
<1>5. CASE Operands \/ Parse \/ ServerParsed \/ PairParsed \/ LocalParsed
           \/ ListNext \/ ListElement \/ Key \/ UNCHANGED vars
  BY <1>4, <1>5 DEF Operands, Parse, ServerParsed, PairParsed, LocalParsed, ListNext,
     ListElement, Key, vars, Usage
<1> QED BY <1>1, <1>2, <1>3, <1>5 DEF Next

(* The agreement of getopt with the scan.                                   *)
LEMMA GnuInvariant == Spec => []GnuInv
BY GnuInit, GnuNext, CommandInvariant, PTL DEF Spec

(* For every plain command line, getopt_permute with the calls of getopt    *)
(* after it finds the options, arguments and operands that GNU getopt finds *)
(* in the words as they were given.                                         *)
THEOREM PermutesLikeGNU == Spec => []PermuteLikeGNU
<1>1. GnuInv => PermuteLikeGNU
  BY DEF GnuInv, Agrees, PermuteLikeGNU
<1> QED BY <1>1, GnuInvariant, PTL

-----------------------------------------------------------------------------
(* parse_addr on a documented text.                                         *)

(* Where the parts of an address text end: the host, written with br pairs  *)
(* of brackets, at e1, the port at e2 and the token at e3; a part that ends *)
(* where the one before it does is missing.                                 *)
Layout(y, br, e1, e2, e3) ==
    /\ Len(y) \in Nat
    /\ 1 + br + br <= e1 /\ e1 <= e2 /\ e2 <= e3 /\ e3 < Len(y)
    /\ \A k \in (br + 1)..(e1 - br) :
          y[k] \notin Separators \/ (br = 1 /\ y[k] = ":")
    /\ br = 1 => y[1] = "[" /\ y[e1] = "]"
    /\ e2 > e1 => y[e1 + 1] = ":"
    /\ \A k \in (e1 + 2)..e2 : y[k] \notin Separators
    /\ e3 > e2 => y[e2 + 1] = "/"
    /\ \A k \in (e2 + 2)..e3 : y[k] \notin Separators
    /\ y[e3 + 1] \in {NUL, ","}

(* The separators that parse_addr overwrites.                               *)
IsCut(br, e1, e2, e3, k) ==
    \/ br = 1 /\ k = e1
    \/ e2 > e1 /\ k = e1 + 1
    \/ e3 > e2 /\ k = e2 + 1

(* The states in which it reaches character n.                              *)
StatesAt(br, e1, e2, n) ==
    IF n = 1 THEN {0}
    ELSE IF br = 0 THEN (IF e2 > e1 /\ n > e1 + 1 THEN {2} ELSE {1})
    ELSE IF n = 2 THEN {4, 5}
    ELSE IF n <= e1 THEN {5}
    ELSE IF e2 > e1 /\ n > e1 + 1 THEN {7} ELSE {6}

PointersAt(br, e1, e2, e3, n) ==
    /\ ps[1] = IF n = 1 THEN 0 ELSE br + 1
    /\ ps[2] = IF e2 > e1 /\ n > e1 + 1 THEN e1 + 2 ELSE 0
    /\ ps[3] = IF e3 > e2 /\ n > e2 + 1 THEN e2 + 2 ELSE 0

(* parse_addr walks over the copy of y.                                     *)
AddrRun(y, br, e1, e2, e3) ==
    /\ fn = "addr" /\ Len(b) = Len(y) /\ i \in 1..(e3 + 1) /\ PointersAt(br, e1, e2, e3, i)
    /\ \/ /\ ret = "run" /\ s \in StatesAt(br, e1, e2, i)
          /\ \A k \in 1..Len(y) : b[k] = IF k < i /\ IsCut(br, e1, e2, e3, k) THEN NUL ELSE y[k]
       \/ /\ ret = "ok" /\ i = e3 + 1
          /\ \A k \in 1..Len(y) :
                b[k] = IF k = e3 + 1 \/ IsCut(br, e1, e2, e3, k) THEN NUL ELSE y[k]

(* A round that goes on to the next character.                              *)
LEMMA AddrGoesOn ==
    ASSUME NEW y, NEW br \in {0, 1}, NEW e1 \in Nat, NEW e2 \in Nat, NEW e3 \in Nat, BufferInv,
           Layout(y, br, e1, e2, e3), AddrRun(y, br, e1, e2, e3), ret = "run", i <= e3,
           i' = i + 1, s' \in StatesAt(br, e1, e2, i + 1), UNCHANGED <<fn, ret>>,
           b' = (IF IsCut(br, e1, e2, e3, i) THEN [b EXCEPT ![i] = NUL] ELSE b),
           PointersAt(br, e1, e2, e3, i)'
    PROVE  AddrRun(y, br, e1, e2, e3)'
<1>0. /\ b \in Seq(Char \cup {NUL}) /\ i \in Nat /\ i \in 1..Len(b) /\ Len(b) = Len(y)
      /\ e3 \in Nat /\ Len(y) \in Nat
      /\ \A k \in 1..Len(y) : b[k] = IF k < i /\ IsCut(br, e1, e2, e3, k) THEN NUL ELSE y[k]
  <2>1. b \in Seq(Char \cup {NUL}) /\ i \in 1..Len(b)
    BY DEF BufferInv, BufferSafe
  <2>2. Len(b) \in Nat
    BY <2>1, LenProperties
  <2>3. /\ Len(b) = Len(y)
        /\ \A k \in 1..Len(y) : b[k] = IF k < i /\ IsCut(br, e1, e2, e3, k) THEN NUL ELSE y[k]
    BY DEF AddrRun
  <2> QED BY <2>1, <2>2, <2>3
<1>1. Len(b') = Len(b)
  BY <1>0, ExceptSeq
<1>2. ASSUME NEW k \in 1..Len(y)
      PROVE  b'[k] = IF k < i + 1 /\ IsCut(br, e1, e2, e3, k) THEN NUL ELSE y[k]
  <2>1. CASE k = i
    <3>1. CASE IsCut(br, e1, e2, e3, i)
      BY <1>0, <2>1, <3>1, ExceptSeq
    <3>2. CASE ~IsCut(br, e1, e2, e3, i)
      BY <1>0, <2>1, <3>2
    <3> QED BY <3>1, <3>2
  <2>2. CASE k # i
    <3>1. b'[k] = b[k]
      BY <1>0, <2>2, ExceptSeq
    <3>2. k < i + 1 <=> k < i
      BY <1>0, <2>2
    <3> QED BY <1>0, <3>1, <3>2
  <2> QED BY <2>1, <2>2
<1>3. i' \in 1..(e3 + 1)
  BY <1>0
<1> QED BY <1>0, <1>1, <1>2, <1>3 DEF AddrRun

(* What parse_addr does with each kind of character.                        *)
LEMMA AddrCharacter ==
    ASSUME ParseAddr
    PROVE  /\ b[i] \notin Separators /\ s = 0 =>
                 /\ i' = i + 1 /\ ps' = [ps EXCEPT ![ADDR] = i] /\ s' = 1
                 /\ UNCHANGED <<fn, b, j, ret>>
           /\ b[i] \notin Separators /\ s = 4 => Stay(5)
           /\ b[i] \notin Separators /\ s # 0 /\ s # 4 => Skip(s)
           /\ b[i] = "[" /\ s = 0 =>
                 /\ i' = i + 1 /\ ps' = [ps EXCEPT ![ADDR] = i + 1] /\ s' = 4
                 /\ UNCHANGED <<fn, b, j, ret>>
           /\ b[i] = "]" /\ s = 5 => Cut /\ s' = 6 /\ UNCHANGED <<fn, j, ps, ret>>
           /\ b[i] = ":" /\ s \in {4, 5} => Skip(5)
           /\ b[i] = ":" /\ s = 1 => CutAndPoint(PORT, 2)
           /\ b[i] = ":" /\ s = 6 => CutAndPoint(PORT, 7)
           /\ b[i] = "/" /\ s \in {1, 2, 6, 7} => CutAndPoint(TOKEN, s)
           /\ b[i] = NUL => Exit
           /\ b[i] = "," => /\ b' = [b EXCEPT ![i] = NUL] /\ ret' = "ok"
                            /\ UNCHANGED <<fn, i, s, j, ps>>
<1> USE DEF NUL, Separators
<1>1. CASE b[i] \notin Separators
  <2>1. /\ b[i] # "[" /\ b[i] # "]" /\ b[i] # ":" /\ b[i] # "/" /\ b[i] # NUL
        /\ b[i] # ","
    BY <1>1
  <2>2. \/ /\ s = 0 /\ i' = i + 1 /\ ps' = [ps EXCEPT ![ADDR] = i] /\ s' = 1
           /\ UNCHANGED <<fn, b, j, ret>>
        \/ s = 4 /\ Stay(5)
        \/ s \notin {0, 4} /\ Skip(s)
    BY <2>1 DEF ParseAddr
  <2>3. s = 0 => /\ i' = i + 1 /\ ps' = [ps EXCEPT ![ADDR] = i] /\ s' = 1
                 /\ UNCHANGED <<fn, b, j, ret>>
    BY <2>2
  <2>4. s = 4 => Stay(5)
    BY <2>2
  <2>5. s # 0 /\ s # 4 => Skip(s)
    BY <2>2
  <2> QED BY <2>1, <2>3, <2>4, <2>5
<1>2. CASE b[i] = "["
  BY <1>2 DEF ParseAddr
<1>3. CASE b[i] = "]"
  BY <1>3 DEF ParseAddr
<1>4. CASE b[i] = ":"
  BY <1>4 DEF ParseAddr
<1>5. CASE b[i] = "/"
  BY <1>5 DEF ParseAddr
<1>6. CASE b[i] = NUL
  BY <1>6 DEF ParseAddr
<1>7. CASE b[i] = ","
  BY <1>7 DEF ParseAddr
<1> QED BY <1>1, <1>2, <1>3, <1>4, <1>5, <1>6, <1>7

(* A round of parse_addr on a text with this layout.                        *)
LEMMA AddrStep ==
    ASSUME NEW y, NEW br \in {0, 1}, NEW e1 \in Nat, NEW e2 \in Nat, NEW e3 \in Nat, BufferInv,
           Layout(y, br, e1, e2, e3), AddrRun(y, br, e1, e2, e3), ParseAddr
    PROVE  AddrRun(y, br, e1, e2, e3)'
<1> USE DEF ADDR, PORT, TOKEN
<1>b. b \in Seq(Char \cup {NUL}) /\ i \in 1..Len(b) /\ ps \in [1..4 -> 0..Len(b)]
  BY DEF BufferInv, BufferSafe
<1>l. Len(b) \in Nat /\ Len(y) = Len(b)
  BY <1>b, LenProperties DEF AddrRun
<1>r. ret = "run" /\ fn = "addr" /\ i \in 1..(e3 + 1)
  BY DEF ParseAddr, AddrRun
<1>s. s \in StatesAt(br, e1, e2, i)
  BY <1>r DEF AddrRun
<1>y. b[i] = y[i]
  <2>1. b[i] = IF i < i /\ IsCut(br, e1, e2, e3, i) THEN NUL ELSE y[i]
    BY <1>b, <1>l, <1>r DEF AddrRun
  <2> QED BY <1>b, <1>l, <2>1
<1>0. i \in Nat /\ i >= 1 /\ i <= e3 + 1
  BY <1>r
<1>o. 1 + br + br <= e1 /\ e1 <= e2 /\ e2 <= e3 /\ e3 < Len(y)
  BY DEF Layout
<1>a. PointersAt(br, e1, e2, e3, i)
  BY DEF AddrRun
<1>1. CASE i = 1 /\ br = 1
  <2>y. b[i] = "["
    BY <1>y, <1>0, <1>1 DEF Layout
  <2>1. s = 0
    BY <1>0, <1>s, <1>1 DEF StatesAt
  <2>2. i' = i + 1 /\ ps' = [ps EXCEPT ![1] = i + 1] /\ s' = 4 /\ UNCHANGED <<fn, b, j, ret>>
    BY <2>y, <2>1, AddrCharacter
  <2>3. ~IsCut(br, e1, e2, e3, i) /\ i <= e3
    BY <1>0, <1>o, <1>1 DEF IsCut
  <2>4. s' \in StatesAt(br, e1, e2, i + 1)
    BY <1>1, <2>2 DEF StatesAt
  <2>5. PointersAt(br, e1, e2, e3, i)'
    BY <1>0, <1>b, <1>o, <1>a, <1>1, <2>2 DEF PointersAt
  <2> QED BY <1>r, <2>2, <2>3, <2>4, <2>5, AddrGoesOn
<1>2. CASE i = 1 /\ br = 0
  <2>y. b[i] \notin Separators
    <3>1. i \in (br + 1)..(e1 - br)
      BY <1>0, <1>o, <1>2
    <3>2. y[i] \notin Separators \/ (br = 1 /\ y[i] = ":")
      BY <3>1 DEF Layout
    <3> QED BY <1>y, <1>2, <3>2
  <2>1. s = 0
    BY <1>0, <1>s, <1>o, <1>2 DEF StatesAt
  <2>2. i' = i + 1 /\ ps' = [ps EXCEPT ![1] = i] /\ s' = 1 /\ UNCHANGED <<fn, b, j, ret>>
    BY <2>y, <2>1, AddrCharacter
  <2>3. ~IsCut(br, e1, e2, e3, i) /\ i <= e3
    BY <1>0, <1>o, <1>2 DEF IsCut
  <2>4. s' \in StatesAt(br, e1, e2, i + 1)
    BY <1>0, <1>o, <1>2, <2>2 DEF StatesAt
  <2>5. PointersAt(br, e1, e2, e3, i)'
    BY <1>0, <1>b, <1>o, <1>a, <1>2, <2>2 DEF PointersAt
  <2> QED BY <1>r, <2>2, <2>3, <2>4, <2>5, AddrGoesOn
<1>3. CASE i # 1 /\ i <= e1 - br
  <2>0. i \in (br + 1)..(e1 - br) /\ i <= e3 /\ i >= 2
    BY <1>0, <1>o, <1>3
  <2>1. y[i] \notin Separators \/ (br = 1 /\ y[i] = ":")
    BY <2>0 DEF Layout
  <2>2. s = (IF br = 0 THEN 1 ELSE 5) \/ (br = 1 /\ i = 2 /\ s = 4)
    BY <1>0, <1>s, <1>o, <2>0, <1>3 DEF StatesAt
  <2>3. (Stay(5) /\ s = 4) \/ Skip(IF br = 0 THEN 1 ELSE 5)
    <3>1. CASE b[i] \notin Separators
      <4>1. CASE s = 4
        BY <3>1, <4>1, AddrCharacter
      <4>2. CASE s = (IF br = 0 THEN 1 ELSE 5)
        <5>1. s # 0 /\ s # 4
          BY <4>2
        <5> QED BY <3>1, <4>2, <5>1, AddrCharacter
      <4> QED BY <2>2, <4>1, <4>2
    <3>2. CASE br = 1 /\ b[i] = ":"
      BY <2>2, <3>2, AddrCharacter
    <3> QED BY <1>y, <2>1, <3>1, <3>2
  <2>4. CASE Stay(5) /\ s = 4
    <3>1. s' = 5 /\ UNCHANGED <<fn, b, i, j, ps, ret>> /\ i = 2 /\ br = 1
      BY <2>2, <2>4 DEF Stay
    <3>2. s' \in StatesAt(br, e1, e2, i)
      BY <3>1 DEF StatesAt
    <3>3. PointersAt(br, e1, e2, e3, i)'
      BY <1>a, <3>1 DEF PointersAt
    <3> QED BY <1>r, <3>1, <3>2, <3>3 DEF AddrRun
  <2>5. CASE Skip(IF br = 0 THEN 1 ELSE 5)
    <3>1. s' = (IF br = 0 THEN 1 ELSE 5) /\ i' = i + 1 /\ UNCHANGED <<fn, b, j, ps, ret>>
      BY <2>5 DEF Skip
    <3>2. s' \in StatesAt(br, e1, e2, i + 1)
      BY <1>0, <1>o, <1>3, <2>0, <3>1 DEF StatesAt
    <3>3. PointersAt(br, e1, e2, e3, i)'
      BY <1>0, <1>b, <1>o, <1>3, <2>0, <1>a, <3>1 DEF PointersAt
    <3>4. ~IsCut(br, e1, e2, e3, i)
      BY <1>0, <1>o, <1>3 DEF IsCut
    <3> QED BY <1>r, <2>0, <3>1, <3>2, <3>3, <3>4, AddrGoesOn
  <2> QED BY <2>3, <2>4, <2>5
<1>4. CASE br = 1 /\ i = e1
  <2>y. b[i] = "]"
    BY <1>y, <1>0, <1>o, <1>4 DEF Layout
  <2>1. s = 5
    BY <1>0, <1>s, <1>o, <1>4 DEF StatesAt
  <2>2. i' = i + 1 /\ b' = [b EXCEPT ![i] = NUL] /\ s' = 6 /\ UNCHANGED <<fn, j, ps, ret>>
    BY <2>y, <2>1, AddrCharacter DEF Cut
  <2>3. IsCut(br, e1, e2, e3, i) /\ i <= e3
    BY <1>0, <1>o, <1>4 DEF IsCut
  <2>4. s' \in StatesAt(br, e1, e2, i + 1)
    BY <1>0, <1>o, <1>4, <2>2 DEF StatesAt
  <2>5. PointersAt(br, e1, e2, e3, i)'
    BY <1>0, <1>b, <1>o, <1>a, <1>4, <2>2 DEF PointersAt
  <2> QED BY <1>r, <2>2, <2>3, <2>4, <2>5, AddrGoesOn
<1>5. CASE e2 > e1 /\ i = e1 + 1
  <2>y. b[i] = ":"
    BY <1>y, <1>0, <1>o, <1>5 DEF Layout
  <2>1. s = (IF br = 0 THEN 1 ELSE 6)
    BY <1>0, <1>s, <1>o, <1>5 DEF StatesAt
  <2>2. CutAndPoint(PORT, IF br = 0 THEN 2 ELSE 7)
    BY <2>y, <2>1, AddrCharacter
  <2>3. /\ i' = i + 1 /\ b' = [b EXCEPT ![i] = NUL] /\ s' = (IF br = 0 THEN 2 ELSE 7)
        /\ ps' = [ps EXCEPT ![2] = i + 1] /\ UNCHANGED <<fn, j, ret>>
    BY <2>2 DEF CutAndPoint, Cut
  <2>4. IsCut(br, e1, e2, e3, i) /\ i <= e3
    BY <1>0, <1>o, <1>5 DEF IsCut
  <2>5. s' \in StatesAt(br, e1, e2, i + 1)
    BY <1>0, <1>o, <1>5, <2>3 DEF StatesAt
  <2>6. PointersAt(br, e1, e2, e3, i)'
    BY <1>0, <1>b, <1>o, <1>a, <1>5, <2>3 DEF PointersAt
  <2> QED BY <1>r, <2>3, <2>4, <2>5, <2>6, AddrGoesOn
<1>6. CASE i >= e1 + 2 /\ i <= e2
  <2>y. b[i] \notin Separators
    <3>1. i \in (e1 + 2)..e2
      BY <1>0, <1>o, <1>6
    <3>2. y[i] \notin Separators
      BY <3>1 DEF Layout
    <3> QED BY <1>y, <3>2
  <2>1. s = (IF br = 0 THEN 2 ELSE 7)
    BY <1>0, <1>s, <1>o, <1>6 DEF StatesAt
  <2>2. s' = s /\ i' = i + 1 /\ UNCHANGED <<fn, b, j, ps, ret>>
    <3>1. s # 0 /\ s # 4
      BY <2>1
    <3> QED BY <2>y, <3>1, AddrCharacter DEF Skip
  <2>3. ~IsCut(br, e1, e2, e3, i) /\ i <= e3
    BY <1>0, <1>o, <1>6 DEF IsCut
  <2>4. s' \in StatesAt(br, e1, e2, i + 1)
    BY <1>0, <1>o, <1>6, <2>1, <2>2 DEF StatesAt
  <2>5. PointersAt(br, e1, e2, e3, i)'
    BY <1>0, <1>b, <1>o, <1>a, <1>6, <2>2 DEF PointersAt
  <2> QED BY <1>r, <2>2, <2>3, <2>4, <2>5, AddrGoesOn
<1>7. CASE e3 > e2 /\ i = e2 + 1
  <2>y. b[i] = "/"
    BY <1>y, <1>0, <1>o, <1>7 DEF Layout
  <2>1. s \in {1, 2, 6, 7}
    BY <1>0, <1>s, <1>o, <1>7 DEF StatesAt
  <2>2. CutAndPoint(TOKEN, s)
    BY <2>y, <2>1, AddrCharacter
  <2>3. /\ i' = i + 1 /\ b' = [b EXCEPT ![i] = NUL] /\ s' = s
        /\ ps' = [ps EXCEPT ![3] = i + 1] /\ UNCHANGED <<fn, j, ret>>
    BY <2>2 DEF CutAndPoint, Cut
  <2>4. IsCut(br, e1, e2, e3, i) /\ i <= e3
    BY <1>0, <1>o, <1>7 DEF IsCut
  <2>5. s' \in StatesAt(br, e1, e2, i + 1)
    BY <1>0, <1>o, <1>s, <1>7, <2>3 DEF StatesAt
  <2>6. PointersAt(br, e1, e2, e3, i)'
    BY <1>0, <1>b, <1>o, <1>a, <1>7, <2>3 DEF PointersAt
  <2> QED BY <1>r, <2>3, <2>4, <2>5, <2>6, AddrGoesOn
<1>8. CASE i >= e2 + 2 /\ i <= e3
  <2>y. b[i] \notin Separators
    <3>1. i \in (e2 + 2)..e3
      BY <1>0, <1>o, <1>8
    <3>2. y[i] \notin Separators
      BY <3>1 DEF Layout
    <3> QED BY <1>y, <3>2
  <2>1. s # 0 /\ s # 4
    BY <1>0, <1>s, <1>o, <1>8 DEF StatesAt
  <2>2. s' = s /\ i' = i + 1 /\ UNCHANGED <<fn, b, j, ps, ret>>
    BY <2>y, <2>1, AddrCharacter DEF Skip
  <2>3. ~IsCut(br, e1, e2, e3, i) /\ i <= e3
    BY <1>0, <1>o, <1>8 DEF IsCut
  <2>4. s' \in StatesAt(br, e1, e2, i + 1)
    BY <1>0, <1>o, <1>s, <1>8, <2>2 DEF StatesAt
  <2>5. PointersAt(br, e1, e2, e3, i)'
    BY <1>0, <1>b, <1>o, <1>a, <1>8, <2>2 DEF PointersAt
  <2> QED BY <1>r, <2>2, <2>3, <2>4, <2>5, AddrGoesOn
<1>9. CASE i = e3 + 1
  <2>1. y[i] \in {NUL, ","}
    BY <1>9 DEF Layout
  <2>2. /\ ret' = "ok" /\ UNCHANGED <<fn, i, s, j, ps>>
        /\ (b' = b /\ b[i] = NUL) \/ b' = [b EXCEPT ![i] = NUL]
    BY <1>y, <2>1, AddrCharacter DEF Exit
  <2>3. Len(b') = Len(y)
    BY <1>b, <1>l, <2>2, ExceptSeq
  <2>4. ASSUME NEW k \in 1..Len(y)
        PROVE  b'[k] = IF k = e3 + 1 \/ IsCut(br, e1, e2, e3, k) THEN NUL ELSE y[k]
    <3>1. b'[k] = IF k = i THEN NUL ELSE b[k]
      <4>1. CASE b' = b /\ b[i] = NUL
        BY <4>1
      <4>2. CASE b' = [b EXCEPT ![i] = NUL]
        <5>1. k \in 1..Len(b) /\ NUL \in Char \cup {NUL}
          BY <1>l
        <5> QED BY <1>b, <4>2, <5>1, ExceptSeq
      <4> QED BY <2>2, <4>1, <4>2
    <3>2. b[k] = IF k < i /\ IsCut(br, e1, e2, e3, k) THEN NUL ELSE y[k]
      BY <1>r DEF AddrRun
    <3>3. IsCut(br, e1, e2, e3, k) => k < i
      BY <1>0, <1>o, <1>9 DEF IsCut
    <3> QED BY <1>9, <3>1, <3>2, <3>3
  <2>5. PointersAt(br, e1, e2, e3, i)'
    BY <1>a, <2>2 DEF PointersAt
  <2> QED BY <1>r, <1>9, <2>2, <2>3, <2>4, <2>5 DEF AddrRun
<1>10. \/ i = 1 \/ (i # 1 /\ i <= e1 - br) \/ (br = 1 /\ i = e1)
       \/ (e2 > e1 /\ i = e1 + 1) \/ (i >= e1 + 2 /\ i <= e2)
       \/ (e3 > e2 /\ i = e2 + 1) \/ (i >= e2 + 2 /\ i <= e3) \/ i = e3 + 1
  BY <1>0, <1>o
<1> QED BY <1>0, <1>1, <1>2, <1>3, <1>4, <1>5, <1>6, <1>7, <1>8, <1>9, <1>10

(* The parts of the text y: host, port and token; NULL is a missing one.    *)
Texts(y, br, e1, e2, e3, h, p, t) ==
    /\ h \in Seq(Char) /\ Len(h) = e1 - br - br
    /\ \A k \in 1..Len(h) : y[br + k] = h[k]
    /\ p = NULL => e2 = e1
    /\ p # NULL => /\ p \in Seq(Char) /\ e2 = e1 + 1 + Len(p)
                   /\ \A k \in 1..Len(p) : y[e1 + 1 + k] = p[k]
    /\ t = NULL => e3 = e2
    /\ t # NULL => /\ t \in Seq(Char) /\ e3 = e2 + 1 + Len(t)
                   /\ \A k \in 1..Len(t) : y[e2 + 1 + k] = t[k]

(* parse_addr runs, or has run, on a text with these parts.                 *)
AddrRuns(y, br, e1, e2, e3, h, p, t) ==
    /\ Layout(y, br, e1, e2, e3) /\ Texts(y, br, e1, e2, e3, h, p, t)
    /\ AddrRun(y, br, e1, e2, e3)
AddrCall(h, p, t) ==
    \E y \in Seq(Char \cup {NUL}), br \in {0, 1}, e1 \in Nat, e2 \in Nat, e3 \in Nat :
        AddrRuns(y, br, e1, e2, e3, h, p, t)

(* The C string between a pointer and a NUL.                                *)
LEMMA CStrIs ==
    ASSUME BufferInv, NEW v \in Seq(Char), NEW q \in 1..Len(b),
           q + Len(v) <= Len(b), b[q + Len(v)] = NUL,
           \A k \in 1..Len(v) : b[q + k - 1] = v[k]
    PROVE  CStr(q) = v
<1> DEFINE Ends(n) == b[n] = NUL /\ \A m \in q..(n - 1) : b[m] # NUL
           e == q + Len(v)
           z == CHOOSE n \in q..Len(b) : Ends(n)
<1>0. Len(v) \in Nat /\ Len(b) \in Nat /\ b \in Seq(Char \cup {NUL})
  BY LenProperties DEF BufferInv
<1>1. e \in q..Len(b)
  BY <1>0
<1>2. ASSUME NEW m \in q..(e - 1) PROVE b[m] # NUL /\ b[m] = v[m - q + 1]
  <2>1. m - q + 1 \in 1..Len(v) /\ q + (m - q + 1) - 1 = m
    BY <1>0
  <2>2. b[m] = v[m - q + 1]
    BY <2>1
  <2>3. v[m - q + 1] \in Char
    BY <2>1, ElementOfSeq
  <2> QED BY <2>2, <2>3 DEF Char
<1>3. Ends(e)
  BY <1>2
<1>4. z \in q..Len(b) /\ Ends(z)
  <2> HIDE DEF e, Ends
  <2> QED BY <1>1, <1>3
<1>5. z = e
  <2>1. z \in Int /\ e \in Int /\ z >= q /\ e >= q
    <3> HIDE DEF z, e
    <3> QED BY <1>0, <1>1, <1>4
  <2>2. ~(z < e)
    <3> SUFFICES ASSUME z < e PROVE FALSE
      OBVIOUS
    <3>1. z \in q..(e - 1)
      BY <2>1, <1>0
    <3> QED BY <1>2, <1>4, <3>1
  <2>3. ~(e < z)
    <3> SUFFICES ASSUME e < z PROVE FALSE
      OBVIOUS
    <3>1. e \in q..(z - 1)
      BY <2>1, <1>0
    <3> QED BY <1>4, <3>1
  <2> QED BY <2>1, <2>2, <2>3
<1>6. CStr(q) = SubSeq(b, q, e - 1)
  <2>1. CStr(q) = SubSeq(b, q, z - 1)
    BY DEF CStr
  <2> QED BY <1>5, <2>1
<1> HIDE DEF e
<1>e. e = q + Len(v) /\ e \in Int /\ q \in Int
  BY <1>0 DEF e
<1>7. \A m \in q..(e - 1) : b[m] \in Char
  <2> SUFFICES ASSUME NEW m \in q..(e - 1) PROVE b[m] \in Char
    OBVIOUS
  <2>1. m - q + 1 \in 1..Len(v)
    BY <1>0, <1>e
  <2> QED BY <1>2, <2>1, ElementOfSeq
<1>8. /\ SubSeq(b, q, e - 1) \in Seq(Char)
      /\ Len(SubSeq(b, q, e - 1)) = IF q <= e - 1 THEN (e - 1) - q + 1 ELSE 0
      /\ \A k \in 1..((e - 1) - q + 1) : SubSeq(b, q, e - 1)[k] = b[q + k - 1]
  BY <1>e, <1>7, SubSeqProperties
<1>9. Len(SubSeq(b, q, e - 1)) = Len(v) /\ (e - 1) - q + 1 = Len(v)
  BY <1>0, <1>e, <1>8
<1> QED BY <1>6, <1>8, <1>9, SeqEqual

(* What parse_addr finds are the parts.                                     *)
LEMMA AddrResult ==
    ASSUME NEW h, NEW p, NEW t, BufferInv, AddrCall(h, p, t), ret # "run"
    PROVE  /\ ret = "ok" /\ ps[ADDR] # 0 /\ CStr(ps[ADDR]) = h
           /\ p = NULL => ps[PORT] = 0
           /\ p # NULL => ps[PORT] # 0 /\ CStr(ps[PORT]) = p
           /\ t = NULL => ps[TOKEN] = 0
           /\ t # NULL => ps[TOKEN] # 0 /\ CStr(ps[TOKEN]) = t
<1>1. PICK y \in Seq(Char \cup {NUL}), br \in {0, 1}, e1 \in Nat, e2 \in Nat, e3 \in Nat :
          AddrRuns(y, br, e1, e2, e3, h, p, t)
  BY DEF AddrCall
<1>2. Layout(y, br, e1, e2, e3) /\ Texts(y, br, e1, e2, e3, h, p, t) /\ AddrRun(y, br, e1, e2, e3)
  BY <1>1 DEF AddrRuns
<1>3. /\ ret = "ok" /\ i = e3 + 1 /\ PointersAt(br, e1, e2, e3, e3 + 1) /\ Len(b) = Len(y)
      /\ \A k \in 1..Len(y) :
            b[k] = IF k = e3 + 1 \/ IsCut(br, e1, e2, e3, k) THEN NUL ELSE y[k]
  BY <1>2 DEF AddrRun
<1>4. 1 + br + br <= e1 /\ e1 <= e2 /\ e2 <= e3 /\ e3 < Len(y) /\ Len(y) \in Nat
  BY <1>2 DEF Layout
<1>5. ps[1] = br + 1
  BY <1>3, <1>4 DEF PointersAt
<1>6. CStr(ps[1]) = h
  <2>1. h \in Seq(Char) /\ Len(h) = e1 - br - br /\ \A k \in 1..Len(h) : y[br + k] = h[k]
    BY <1>2 DEF Texts
  <2>2. br + 1 + Len(h) = e1 - br + 1 /\ e1 - br + 1 \in 1..Len(y) /\ br + 1 \in 1..Len(y)
    BY <1>4, <2>1
  <2>3. IsCut(br, e1, e2, e3, e1 - br + 1) \/ e1 - br + 1 = e3 + 1
    BY <1>4 DEF IsCut
  <2>4. b[br + 1 + Len(h)] = NUL
    BY <1>3, <2>2, <2>3
  <2>5. ASSUME NEW k \in 1..Len(h) PROVE b[(br + 1) + k - 1] = h[k]
    <3>1. br + k \in 1..Len(y) /\ (br + 1) + k - 1 = br + k
      BY <1>4, <2>1
    <3>2. ~IsCut(br, e1, e2, e3, br + k) /\ br + k # e3 + 1
      BY <1>4, <2>1 DEF IsCut
    <3> QED BY <1>3, <2>1, <3>1, <3>2
  <2>6. br + 1 \in 1..Len(b) /\ br + 1 + Len(h) <= Len(b)
    BY <1>3, <1>4, <2>2
  <2> QED BY <1>5, <2>1, <2>4, <2>5, <2>6, CStrIs
<1>7. ASSUME p = NULL PROVE ps[2] = 0
  BY <1>2, <1>3, <1>7 DEF Texts, PointersAt
<1>8. ASSUME p # NULL PROVE ps[2] # 0 /\ CStr(ps[2]) = p
  <2>1. p \in Seq(Char) /\ e2 = e1 + 1 + Len(p) /\ \A k \in 1..Len(p) : y[e1 + 1 + k] = p[k]
    BY <1>2, <1>8 DEF Texts
  <2>0. Len(p) \in Nat
    BY <2>1, LenProperties
  <2>2. ps[2] = e1 + 2 /\ e1 + 2 \in 1..Len(y)
    BY <1>3, <1>4, <2>0, <2>1 DEF PointersAt
  <2>3. e1 + 2 + Len(p) = e2 + 1 /\ e2 + 1 \in 1..Len(y)
    BY <1>4, <2>0, <2>1
  <2>4. IsCut(br, e1, e2, e3, e2 + 1) \/ e2 + 1 = e3 + 1
    BY <1>4 DEF IsCut
  <2>5. b[e1 + 2 + Len(p)] = NUL
    BY <1>3, <2>3, <2>4
  <2>6. ASSUME NEW k \in 1..Len(p) PROVE b[(e1 + 2) + k - 1] = p[k]
    <3>1. e1 + 1 + k \in 1..Len(y) /\ (e1 + 2) + k - 1 = e1 + 1 + k
      BY <1>4, <2>0, <2>1
    <3>2. ~IsCut(br, e1, e2, e3, e1 + 1 + k) /\ e1 + 1 + k # e3 + 1
      BY <1>4, <2>0, <2>1 DEF IsCut
    <3> QED BY <1>3, <2>1, <3>1, <3>2
  <2>7. e1 + 2 \in 1..Len(b) /\ e1 + 2 + Len(p) <= Len(b)
    BY <1>3, <1>4, <2>2, <2>3
  <2>8. CStr(e1 + 2) = p
    BY <2>1, <2>5, <2>6, <2>7, CStrIs
  <2>9. ps[2] # 0
    BY <2>2
  <2> QED BY <2>2, <2>8, <2>9
<1>9. ASSUME t = NULL PROVE ps[3] = 0
  BY <1>2, <1>3, <1>9 DEF Texts, PointersAt
<1>10. ASSUME t # NULL PROVE ps[3] # 0 /\ CStr(ps[3]) = t
  <2>1. t \in Seq(Char) /\ e3 = e2 + 1 + Len(t) /\ \A k \in 1..Len(t) : y[e2 + 1 + k] = t[k]
    BY <1>2, <1>10 DEF Texts
  <2>0. Len(t) \in Nat
    BY <2>1, LenProperties
  <2>2. ps[3] = e2 + 2 /\ e2 + 2 \in 1..Len(y)
    BY <1>3, <1>4, <2>0, <2>1 DEF PointersAt
  <2>3. e2 + 2 + Len(t) = e3 + 1 /\ e3 + 1 \in 1..Len(y)
    BY <1>4, <2>0, <2>1
  <2>5. b[e2 + 2 + Len(t)] = NUL
    BY <1>3, <2>3
  <2>6. ASSUME NEW k \in 1..Len(t) PROVE b[(e2 + 2) + k - 1] = t[k]
    <3>1. e2 + 1 + k \in 1..Len(y) /\ (e2 + 2) + k - 1 = e2 + 1 + k
      BY <1>4, <2>0, <2>1
    <3>2. ~IsCut(br, e1, e2, e3, e2 + 1 + k) /\ e2 + 1 + k # e3 + 1
      BY <1>4, <2>0, <2>1 DEF IsCut
    <3> QED BY <1>3, <2>1, <3>1, <3>2
  <2>7. e2 + 2 \in 1..Len(b) /\ e2 + 2 + Len(t) <= Len(b)
    BY <1>3, <1>4, <2>2, <2>3
  <2>8. CStr(e2 + 2) = t
    BY <2>1, <2>5, <2>6, <2>7, CStrIs
  <2>9. ps[3] # 0
    BY <2>2
  <2> QED BY <2>2, <2>8, <2>9
<1>11. ps[1] # 0
  BY <1>5
<1> QED BY <1>3, <1>6, <1>7, <1>8, <1>9, <1>10, <1>11 DEF ADDR, PORT, TOKEN

(* A round of parse_addr.                                                   *)
LEMMA AddrCallStep ==
    ASSUME NEW h, NEW p, NEW t, BufferInv, AddrCall(h, p, t), Parse
    PROVE  AddrCall(h, p, t)'
<1>1. PICK y \in Seq(Char \cup {NUL}), br \in {0, 1}, e1 \in Nat, e2 \in Nat, e3 \in Nat :
          AddrRuns(y, br, e1, e2, e3, h, p, t)
  BY DEF AddrCall
<1>2. Layout(y, br, e1, e2, e3) /\ Texts(y, br, e1, e2, e3, h, p, t) /\ AddrRun(y, br, e1, e2, e3)
  BY <1>1 DEF AddrRuns
<1>3. ParseAddr
  BY <1>2 DEF Parse, ParserStep, ParseAddrPair, AddrRun
<1>4. AddrRun(y, br, e1, e2, e3)'
  BY <1>2, <1>3, AddrStep
<1>5. AddrRuns(y, br, e1, e2, e3, h, p, t)'
  BY <1>2, <1>4 DEF AddrRuns
<1> QED BY <1>5 DEF AddrCall

(* A sequence whose elements are in D.                                      *)
LEMMA SeqOfElements ==
    ASSUME NEW S, NEW D, NEW v \in Seq(S), \A k \in 1..Len(v) : v[k] \in D
    PROVE  v \in Seq(D)
<1>1. Len(v) \in Nat /\ v \in [1..Len(v) -> S]
  BY LenProperties
<1>2. v \in [1..Len(v) -> D]
  BY <1>1
<1> QED BY <1>1, <1>2, SeqDef

(* What the texts are made of.                                              *)
Text == Char \cup Separators \cup {"1", "4", "6", "m"}

(* Characters of documented texts.                                          *)
LEMMA TextTypes ==
    /\ \A v \in Seq(Char) : v \in Seq(Text)
    /\ \A v \in Seq(Plain) : v \in Seq(Char)
    /\ \A v \in Seq(Plain \cup {":"}) : v \in Seq(Text)
    /\ \A c \in Separators : <<c>> \in Seq(Text) /\ Len(<<c>>) = 1 /\ <<c>>[1] = c
    /\ <<>> \in Seq(Text) /\ NUL \in Text
<1>1. Char \subseteq Text /\ Plain \subseteq Char /\ NUL \in Text
  BY DEF Text, Plain, Separators
<1>2. Plain \cup {":"} \subseteq Text
  BY <1>1 DEF Text, Separators
<1>3. ASSUME NEW c \in Separators PROVE <<c>> \in Seq(Text) /\ Len(<<c>>) = 1 /\ <<c>>[1] = c
  <2>1. c \in Text
    BY DEF Text
  <2> QED BY <2>1
<1> QED BY <1>1, <1>2, <1>3, SeqMonotonic, EmptySeq

(* The elements of two sequences in a row.                                  *)
LEMMA JoinedSeq ==
    ASSUME NEW S, NEW u \in Seq(S), NEW v \in Seq(S)
    PROVE  /\ u \o v \in Seq(S) /\ Len(u) \in Nat /\ Len(v) \in Nat
           /\ Len(u \o v) = Len(u) + Len(v)
           /\ \A k \in 1..Len(u) : (u \o v)[k] = u[k]
           /\ \A k \in 1..Len(v) : (u \o v)[Len(u) + k] = v[k]
<1> DEFINE c == u \o v
<1>0. Len(u) \in Nat /\ Len(v) \in Nat
  BY LenProperties
<1>1. /\ c \in Seq(S) /\ Len(c) = Len(u) + Len(v)
      /\ \A k \in 1..(Len(u) + Len(v)) : c[k] = IF k <= Len(u) THEN u[k] ELSE v[k - Len(u)]
  BY ConcatProperties
<1> HIDE DEF c
<1>2. ASSUME NEW k \in 1..Len(u) PROVE c[k] = u[k]
  <2>1. k \in 1..(Len(u) + Len(v)) /\ k <= Len(u)
    BY <1>0
  <2> QED BY <1>1, <2>1
<1>3. ASSUME NEW k \in 1..Len(v) PROVE c[Len(u) + k] = v[k]
  <2>1. Len(u) + k \in 1..(Len(u) + Len(v)) /\ ~(Len(u) + k <= Len(u))
        /\ Len(u) + k - Len(u) = k
    BY <1>0
  <2> QED BY <1>1, <2>1
<1> QED BY <1>0, <1>1, <1>2, <1>3 DEF c

(* The characters of two texts in a row.                                    *)
LEMMA Joined ==
    ASSUME NEW u \in Seq(Text), NEW v \in Seq(Text)
    PROVE  /\ u \o v \in Seq(Text) /\ Len(u) \in Nat /\ Len(v) \in Nat
           /\ Len(u \o v) = Len(u) + Len(v)
           /\ \A k \in 1..Len(u) : (u \o v)[k] = u[k]
           /\ \A k \in 1..Len(v) : (u \o v)[Len(u) + k] = v[k]
BY JoinedSeq

(* h as it is written, with br pairs of brackets.                           *)
WrittenAs(w, h, br) ==
    /\ w \in Seq(Text) /\ Len(w) = Len(h) + br + br
    /\ \A k \in 1..Len(h) : w[br + k] = h[k]
    /\ br = 1 => w[1] = "[" /\ w[Len(w)] = "]"
    /\ br = 0 => h \in Seq(Plain)

(* Both ways to write a host.                                               *)
LEMMA WritingIs ==
    ASSUME NEW h, Host(h), NEW w \in Writings(h)
    PROVE  \E br \in {0, 1} : WrittenAs(w, h, br)
<1>0. h \in Seq(Text) /\ Len(h) \in Nat
  BY TextTypes, LenProperties DEF Host
<1>1. CASE w = <<"[">> \o h \o <<"]">>
  <2> DEFINE a == <<"[">>
             z == <<"]">>
             u == a \o h
  <2>0. /\ a \in Seq(Text) /\ Len(a) = 1 /\ a[1] = "["
        /\ z \in Seq(Text) /\ Len(z) = 1 /\ z[1] = "]"
    BY TextTypes DEF Separators
  <2> HIDE DEF a, z
  <2>1. /\ u \in Seq(Text) /\ Len(u) = Len(a) + Len(h)
        /\ \A k \in 1..Len(a) : u[k] = a[k]
        /\ \A k \in 1..Len(h) : u[Len(a) + k] = h[k]
    BY <1>0, <2>0, Joined
  <2>2. w = u \o z
    BY <1>1 DEF a, z
  <2> HIDE DEF u
  <2>3. /\ u \o z \in Seq(Text) /\ Len(u \o z) = Len(u) + Len(z)
        /\ \A k \in 1..Len(u) : (u \o z)[k] = u[k]
        /\ \A k \in 1..Len(z) : (u \o z)[Len(u) + k] = z[k]
    BY <2>0, <2>1, Joined
  <2>n. Len(u) = 1 + Len(h) /\ Len(w) = Len(h) + 1 + 1 /\ Len(w) = Len(u) + 1
    BY <1>0, <2>0, <2>1, <2>2, <2>3
  <2>4. ASSUME NEW k \in 1..Len(h) PROVE w[1 + k] = h[k]
    <3>1. 1 + k \in 1..Len(u)
      BY <1>0, <2>n
    <3>2. u[1 + k] = h[k]
      BY <2>0, <2>1
    <3> QED BY <2>2, <2>3, <3>1, <3>2
  <2>5. w[1] = "["
    <3>1. 1 \in 1..Len(a) /\ 1 \in 1..Len(u)
      BY <1>0, <2>0, <2>n
    <3> QED BY <2>0, <2>1, <2>2, <2>3, <3>1
  <2>6. w[Len(w)] = "]"
    <3>1. 1 \in 1..Len(z)
      BY <2>0
    <3> QED BY <2>0, <2>2, <2>3, <2>n, <3>1
  <2>7. WrittenAs(w, h, 1)
    BY <2>2, <2>3, <2>4, <2>5, <2>6, <2>n DEF WrittenAs
  <2> QED BY <2>7
<1>2. CASE w = h /\ h \in Seq(Plain)
  <2>1. WrittenAs(w, h, 0)
    BY <1>0, <1>2 DEF WrittenAs
  <2> QED BY <2>1
<1> QED BY <1>1, <1>2 DEF Writings

(* An optional part behind its separator.                                   *)
LEMMA PartIs ==
    ASSUME NEW c \in Separators, NEW t \in Seq(Plain) \cup {NULL}
    PROVE  /\ Part(c, t) \in Seq(Text)
           /\ t = NULL => Part(c, t) = <<>> /\ Len(Part(c, t)) = 0
           /\ t # NULL => /\ t \in Seq(Char) /\ Len(t) \in Nat /\ Len(Part(c, t)) = 1 + Len(t)
                          /\ Part(c, t)[1] = c
                          /\ \A k \in 1..Len(t) : Part(c, t)[1 + k] = t[k] /\ t[k] \notin Separators
<1>1. CASE t = NULL
  BY <1>1, TextTypes, EmptySeq DEF Part
<1>2. CASE t # NULL
  <2>1. t \in Seq(Plain) /\ t \in Seq(Char) /\ t \in Seq(Text) /\ Len(t) \in Nat
    BY <1>2, TextTypes, LenProperties
  <2> DEFINE a == <<c>>
             r == Part(c, t)
  <2>2. a \in Seq(Text) /\ Len(a) = 1 /\ a[1] = c
    BY TextTypes
  <2>3. r = a \o t
    BY <1>2 DEF Part
  <2> HIDE DEF a, r
  <2>4. /\ a \o t \in Seq(Text) /\ Len(a \o t) = Len(a) + Len(t)
        /\ \A k \in 1..Len(a) : (a \o t)[k] = a[k]
        /\ \A k \in 1..Len(t) : (a \o t)[Len(a) + k] = t[k]
    BY <2>1, <2>2, Joined
  <2>5. ASSUME NEW k \in 1..Len(t) PROVE r[1 + k] = t[k] /\ t[k] \notin Separators
    <3>1. t[k] \in Plain
      BY <2>1, ElementOfSeq
    <3> QED BY <2>2, <2>3, <2>4, <3>1 DEF Plain
  <2>6. r[1] = c /\ Len(r) = 1 + Len(t) /\ r \in Seq(Text)
    <3>1. 1 \in 1..Len(a)
      BY <2>2
    <3> QED BY <2>2, <2>3, <2>4, <3>1
  <2> QED BY <1>2, <2>1, <2>5, <2>6 DEF r
<1> QED BY <1>1, <1>2

(* A text made of these parts, up to the end or a comma.                    *)
MadeOf(x, w, p, t, r) ==
    /\ x = w \o Part(":", p) \o Part("/", t) \o r
    /\ r = <<>> \/ r[1] = ","

LaidOut(y, h, p, t) ==
    \E br \in {0, 1}, e1 \in Nat, e2 \in Nat, e3 \in Nat :
        Layout(y, br, e1, e2, e3) /\ Texts(y, br, e1, e2, e3, h, p, t)

(* A documented text has a layout.                                          *)
LEMMA TextLaid ==
    ASSUME NEW x \in Seq(Char), NEW h, Host(h), NEW w \in Writings(h),
           NEW p \in Seq(Plain) \cup {NULL}, NEW t \in Seq(Plain) \cup {NULL},
           NEW r \in Seq(Char), MadeOf(x, w, p, t, r)
    PROVE  LaidOut(Append(x, NUL), h, p, t)
<1> DEFINE P == Part(":", p)
           Q == Part("/", t)
           A == w \o P
           B == A \o Q
           y == Append(x, NUL)
           e1 == Len(w)
           e2 == Len(w) + Len(P)
           e3 == Len(w) + Len(P) + Len(Q)
<1>1. PICK br \in {0, 1} : WrittenAs(w, h, br)
  BY WritingIs
<1>2. w \in Seq(Text) /\ r \in Seq(Text) /\ h \in Seq(Text) /\ h # <<>>
      /\ h \in Seq(Plain \cup {":"})
  BY <1>1, TextTypes DEF WrittenAs, Host
<1>3. /\ P \in Seq(Text)
      /\ p = NULL => Len(P) = 0
      /\ p # NULL => /\ p \in Seq(Char) /\ Len(p) \in Nat /\ Len(P) = 1 + Len(p) /\ P[1] = ":"
                     /\ \A k \in 1..Len(p) : P[1 + k] = p[k] /\ p[k] \notin Separators
  <2>1. ":" \in Separators
    BY DEF Separators
  <2> QED BY <2>1, PartIs
<1>4. /\ Q \in Seq(Text)
      /\ t = NULL => Len(Q) = 0
      /\ t # NULL => /\ t \in Seq(Char) /\ Len(t) \in Nat /\ Len(Q) = 1 + Len(t) /\ Q[1] = "/"
                     /\ \A k \in 1..Len(t) : Q[1 + k] = t[k] /\ t[k] \notin Separators
  <2>1. "/" \in Separators
    BY DEF Separators
  <2> QED BY <2>1, PartIs
<1>x. x = B \o r /\ (r = <<>> \/ r[1] = ",")
  BY DEF MadeOf
<1> HIDE DEF P, Q
<1>5. /\ A \in Seq(Text) /\ Len(w) \in Nat /\ Len(P) \in Nat /\ Len(A) = Len(w) + Len(P)
      /\ \A k \in 1..Len(w) : A[k] = w[k]
      /\ \A k \in 1..Len(P) : A[Len(w) + k] = P[k]
  BY <1>2, <1>3, Joined
<1> HIDE DEF A
<1>6. /\ B \in Seq(Text) /\ Len(Q) \in Nat /\ Len(B) = Len(A) + Len(Q)
      /\ \A k \in 1..Len(A) : B[k] = A[k]
      /\ \A k \in 1..Len(Q) : B[Len(A) + k] = Q[k]
  BY <1>4, <1>5, Joined
<1> HIDE DEF B
<1>7. /\ Len(r) \in Nat /\ Len(x) = Len(B) + Len(r)
      /\ \A k \in 1..Len(B) : x[k] = B[k]
      /\ \A k \in 1..Len(r) : x[Len(B) + k] = r[k]
  <2>1. /\ Len(r) \in Nat /\ Len(B \o r) = Len(B) + Len(r)
        /\ \A k \in 1..Len(B) : (B \o r)[k] = B[k]
        /\ \A k \in 1..Len(r) : (B \o r)[Len(B) + k] = r[k]
    BY <1>2, <1>6, Joined
  <2> QED BY <1>x, <2>1
<1>8. /\ Len(y) = Len(x) + 1 /\ \A k \in 1..Len(x) : y[k] = x[k]
      /\ y[Len(x) + 1] = NUL
  <2>1. x \in Seq(Text) /\ NUL \in Text
    BY TextTypes
  <2> QED BY <2>1, AppendProperties
<1> HIDE DEF y
<1>9. e1 \in Nat /\ e2 \in Nat /\ e3 \in Nat /\ e3 = Len(B) /\ e2 = Len(A) /\ Len(y) \in Nat
      /\ e1 <= e2 /\ e2 <= e3 /\ e3 < Len(y) /\ Len(x) = e3 + Len(r)
  <2>1. /\ Len(w) \in Nat /\ Len(P) \in Nat /\ Len(Q) \in Nat /\ Len(r) \in Nat
        /\ Len(A) = Len(w) + Len(P) /\ Len(B) = Len(A) + Len(Q)
        /\ Len(x) = Len(B) + Len(r) /\ Len(y) = Len(x) + 1
    BY <1>5, <1>6, <1>7, <1>8
  <2> QED BY <2>1
<1>n. /\ Len(w) \in Nat /\ Len(P) \in Nat /\ Len(Q) \in Nat /\ Len(r) \in Nat
      /\ e1 = Len(w) /\ e2 = e1 + Len(P) /\ e3 = e2 + Len(Q)
  BY <1>5, <1>6, <1>7
<1> HIDE DEF e1, e2, e3
<1>10. \A k \in 1..e1 : y[k] = w[k]
  <2> SUFFICES ASSUME NEW k \in 1..e1 PROVE y[k] = w[k]
    OBVIOUS
  <2>1. k \in 1..Len(A) /\ k \in 1..Len(B) /\ k \in 1..Len(x)
    BY <1>9, <1>n
  <2> QED BY <1>5, <1>6, <1>7, <1>8, <1>n, <2>1
<1>11. \A k \in 1..Len(P) : y[e1 + k] = P[k]
  <2> SUFFICES ASSUME NEW k \in 1..Len(P) PROVE y[e1 + k] = P[k]
    OBVIOUS
  <2>1. e1 + k \in 1..Len(A) /\ e1 + k \in 1..Len(B) /\ e1 + k \in 1..Len(x)
    BY <1>9, <1>n
  <2>2. A[e1 + k] = P[k]
    BY <1>5, <1>n
  <2> QED BY <1>6, <1>7, <1>8, <2>1, <2>2
<1>12. \A k \in 1..Len(Q) : y[e2 + k] = Q[k]
  <2> SUFFICES ASSUME NEW k \in 1..Len(Q) PROVE y[e2 + k] = Q[k]
    OBVIOUS
  <2>1. e2 + k \in 1..Len(B) /\ e2 + k \in 1..Len(x) /\ e2 = Len(A)
    BY <1>9, <1>n
  <2>2. B[e2 + k] = Q[k]
    BY <1>6, <2>1
  <2> QED BY <1>7, <1>8, <2>1, <2>2
<1>13. y[e3 + 1] \in {NUL, ","}
  <2>1. CASE r = <<>>
    <3>1. Len(r) = 0
      BY <2>1, EmptySeq
    <3>2. e3 + 1 = Len(x) + 1
      BY <1>9, <3>1
    <3> QED BY <1>8, <3>2
  <2>2. CASE r # <<>>
    <3>1. Len(r) \in Nat \ {0}
      BY <2>2, EmptySeq
    <3>2. 1 \in 1..Len(r) /\ e3 + 1 \in 1..Len(x)
      BY <1>9, <3>1
    <3>3. x[e3 + 1] = r[1]
      BY <1>7, <1>9, <3>2
    <3> QED BY <1>8, <1>x, <2>2, <3>2, <3>3
  <2> QED BY <2>1, <2>2
<1>w. /\ e1 = Len(h) + br + br /\ Len(h) \in Nat /\ Len(h) >= 1
      /\ \A k \in 1..Len(h) : w[br + k] = h[k]
      /\ br = 1 => w[1] = "[" /\ w[e1] = "]"
      /\ br = 0 => h \in Seq(Plain)
  BY <1>1, <1>2, EmptySeq DEF WrittenAs, e1
<1>m. /\ Len(h) \in Nat /\ Len(h) >= 1 /\ e1 = Len(h) + br + br
      /\ p = NULL => Len(P) = 0
      /\ p # NULL => Len(p) \in Nat /\ Len(P) = 1 + Len(p)
      /\ t = NULL => Len(Q) = 0
      /\ t # NULL => Len(t) \in Nat /\ Len(Q) = 1 + Len(t)
  BY <1>3, <1>4, <1>w
<1>q. /\ p # NULL => p \in Seq(Char)
      /\ t # NULL => t \in Seq(Char)
  BY <1>3, <1>4
<1>14. ASSUME NEW k \in 1..Len(h) PROVE y[br + k] = h[k]
  <2>1. br + k \in 1..e1
    BY <1>9, <1>m
  <2> QED BY <1>10, <1>w, <2>1
<1>15. Texts(y, br, e1, e2, e3, h, p, t)
  <2>1. Len(h) = e1 - br - br
    BY <1>9, <1>m
  <2>h. h \in Seq(Char)
    <3> SUFFICES ASSUME NEW k \in 1..Len(h) PROVE h[k] \in Char
      BY <1>2, SeqOfElements
    <3>1. br + k \in 1..Len(x)
      BY <1>9, <1>n, <1>m
    <3>2. x[br + k] \in Char
      BY <3>1, ElementOfSeq
    <3> QED BY <1>8, <1>14, <3>1, <3>2
  <2>2. ASSUME p # NULL, NEW k \in 1..Len(p) PROVE y[e1 + 1 + k] = p[k]
    <3>1. 1 + k \in 1..Len(P) /\ e1 + (1 + k) = e1 + 1 + k
      BY <1>9, <1>m, <2>2
    <3> QED BY <1>3, <1>11, <2>2, <3>1
  <2>3. ASSUME t # NULL, NEW k \in 1..Len(t) PROVE y[e2 + 1 + k] = t[k]
    <3>1. 1 + k \in 1..Len(Q) /\ e2 + (1 + k) = e2 + 1 + k
      BY <1>9, <1>m, <2>3
    <3> QED BY <1>4, <1>12, <2>3, <3>1
  <2>4. /\ p = NULL => e2 = e1
        /\ p # NULL => p \in Seq(Char) /\ e2 = e1 + 1 + Len(p)
    <3>1. CASE p = NULL
      BY <1>9, <1>n, <1>m, <3>1
    <3>2. CASE p # NULL
      <4>1. e2 = e1 + 1 + Len(p)
        <5>1. Len(p) \in Nat /\ Len(P) = 1 + Len(p)
          BY <1>m, <3>2
        <5>2. e2 = e1 + Len(P) /\ e1 \in Nat
          BY <1>9, <1>n
        <5> QED BY <5>1, <5>2
      <4> QED BY <1>q, <3>2, <4>1
    <3> QED BY <3>1, <3>2
  <2>5. /\ t = NULL => e3 = e2
        /\ t # NULL => t \in Seq(Char) /\ e3 = e2 + 1 + Len(t)
    <3>1. CASE t = NULL
      BY <1>9, <1>n, <1>m, <3>1
    <3>2. CASE t # NULL
      <4>1. e3 = e2 + 1 + Len(t)
        <5>1. Len(t) \in Nat /\ Len(Q) = 1 + Len(t)
          BY <1>m, <3>2
        <5>2. e3 = e2 + Len(Q) /\ e2 \in Nat
          BY <1>9, <1>n
        <5> QED BY <5>1, <5>2
      <4> QED BY <1>q, <3>2, <4>1
    <3> QED BY <3>1, <3>2
  <2> QED BY <1>14, <2>1, <2>h, <2>2, <2>3, <2>4, <2>5 DEF Texts
<1>16. Layout(y, br, e1, e2, e3)
  <2>1. 1 + br + br <= e1
    BY <1>m
  <2>2. ASSUME NEW k \in (br + 1)..(e1 - br)
        PROVE  y[k] \notin Separators \/ (br = 1 /\ y[k] = ":")
    <3>1. k - br \in 1..Len(h) /\ br + (k - br) = k
      BY <1>9, <1>m
    <3>2. y[k] = h[k - br]
      BY <1>14, <3>1
    <3>3. h[k - br] \in Plain \cup {":"}
      BY <1>2, <3>1, ElementOfSeq
    <3>4. br = 0 => h[k - br] \in Plain
      BY <1>w, <3>1, ElementOfSeq
    <3> QED BY <3>2, <3>3, <3>4 DEF Plain
  <2>3. br = 1 => y[1] = "[" /\ y[e1] = "]"
    <3>1. 1 \in 1..e1 /\ e1 \in 1..e1
      BY <1>9, <1>m
    <3> QED BY <1>10, <1>w, <3>1
  <2>4. e2 > e1 => y[e1 + 1] = ":"
    <3> SUFFICES ASSUME e2 > e1 PROVE y[e1 + 1] = ":"
      OBVIOUS
    <3>1. Len(P) # 0
      BY <1>9, <1>n
    <3>2. p # NULL
      BY <1>3, <3>1
    <3>3. 1 \in 1..Len(P)
      BY <1>m, <3>2
    <3> QED BY <1>3, <1>11, <3>2, <3>3
  <2>5. ASSUME NEW k \in (e1 + 2)..e2 PROVE y[k] \notin Separators
    <3>1. Len(P) # 0
      BY <1>9, <1>n
    <3>2. p # NULL
      BY <1>3, <3>1
    <3>3. k - e1 - 1 \in 1..Len(p) /\ 1 + (k - e1 - 1) \in 1..Len(P)
          /\ e1 + (1 + (k - e1 - 1)) = k
      BY <1>9, <1>n, <1>m, <3>2
    <3> QED BY <1>3, <1>11, <3>2, <3>3
  <2>6. e3 > e2 => y[e2 + 1] = "/"
    <3> SUFFICES ASSUME e3 > e2 PROVE y[e2 + 1] = "/"
      OBVIOUS
    <3>1. Len(Q) # 0
      BY <1>9, <1>n
    <3>2. t # NULL
      BY <1>4, <3>1
    <3>3. 1 \in 1..Len(Q)
      BY <1>m, <3>2
    <3> QED BY <1>4, <1>12, <3>2, <3>3
  <2>7. ASSUME NEW k \in (e2 + 2)..e3 PROVE y[k] \notin Separators
    <3>1. Len(Q) # 0
      BY <1>9, <1>n
    <3>2. t # NULL
      BY <1>4, <3>1
    <3>3. k - e2 - 1 \in 1..Len(t) /\ 1 + (k - e2 - 1) \in 1..Len(Q)
          /\ e2 + (1 + (k - e2 - 1)) = k
      BY <1>9, <1>n, <1>m, <3>2
    <3> QED BY <1>4, <1>12, <3>2, <3>3
  <2> QED BY <1>9, <1>13, <2>1, <2>2, <2>3, <2>4, <2>5, <2>6, <2>7 DEF Layout
<1> QED BY <1>9, <1>15, <1>16 DEF LaidOut, y

(* A call of parse_addr with a documented text.                             *)
LEMMA AddrCalled ==
    ASSUME NEW x \in Seq(Char), NEW h, Host(h), NEW w \in Writings(h),
           NEW p \in Seq(Plain) \cup {NULL}, NEW t \in Seq(Plain) \cup {NULL},
           NEW r \in Seq(Char), MadeOf(x, w, p, t, r), Call("addr", x)
    PROVE  AddrCall(h, p, t)'
<1> DEFINE y == Append(x, NUL)
<1>1. PICK br \in {0, 1}, e1 \in Nat, e2 \in Nat, e3 \in Nat :
          Layout(y, br, e1, e2, e3) /\ Texts(y, br, e1, e2, e3, h, p, t)
  <2>1. LaidOut(y, h, p, t)
    BY TextLaid
  <2> HIDE DEF y
  <2> QED BY <2>1 DEF LaidOut
<1>2. y \in Seq(Char \cup {NUL})
  <2>1. Char \subseteq Char \cup {NUL} /\ NUL \in Char \cup {NUL}
    OBVIOUS
  <2>2. x \in Seq(Char \cup {NUL})
    BY <2>1, SeqMonotonic
  <2> QED BY <2>1, <2>2, AppendProperties
<1>3. /\ fn' = "addr" /\ b' = y /\ i' = 1 /\ s' = 0 /\ ps' = NullPtrs /\ ret' = "run"
  BY DEF Call
<1> HIDE DEF y
<1>4. 1 + br + br <= e1 /\ e1 <= e2 /\ e2 <= e3
  BY <1>1 DEF Layout
<1>5. PointersAt(br, e1, e2, e3, i)'
  <2>1. ps'[1] = 0 /\ ps'[2] = 0 /\ ps'[3] = 0
    BY <1>3 DEF NullPtrs
  <2>2. ~(1 > e1 + 1) /\ ~(1 > e2 + 1)
    BY <1>4
  <2> QED BY <1>3, <2>1, <2>2 DEF PointersAt
<1>6. s' \in StatesAt(br, e1, e2, i')
  BY <1>3 DEF StatesAt
<1>7. \A k \in 1..Len(y) : b'[k] = IF k < i' /\ IsCut(br, e1, e2, e3, k) THEN NUL ELSE y[k]
  <2>1. \A k \in 1..Len(y) : ~(k < i')
    BY <1>3
  <2> QED BY <1>3, <2>1
<1>8. AddrRun(y, br, e1, e2, e3)'
  BY <1>3, <1>5, <1>6, <1>7 DEF AddrRun
<1>9. AddrRuns(y, br, e1, e2, e3, h, p, t)'
  BY <1>1, <1>8 DEF AddrRuns
<1> QED BY <1>2, <1>9 DEF AddrCall

(* A port of n digits.                                                      *)
LEMMA DigitsAre ==
    ASSUME NEW n \in Nat
    PROVE  /\ Digits(n) \in Seq(Text) /\ Len(Digits(n)) = n
           /\ \A k \in 1..n : Digits(n)[k] = "1"
<1>1. Digits(n) \in [1..n -> Text]
  BY DEF Digits, Text
<1>2. Digits(n) \in Seq(Text)
  BY <1>1, SeqDef
<1>3. DOMAIN Digits(n) = 1..n
  BY DEF Digits
<1>4. Len(Digits(n)) = n
  BY <1>3
<1> QED BY <1>2, <1>4 DEF Digits

(* atoi of the digits of a port.                                            *)
LEMMA AtoiDigits ==
    ASSUME NEW n \in Nat
    PROVE  Atoi(Digits(n)) = n
<1> DEFINE t == Digits(n)
           M == {m \in 0..Len(t) : \A q \in 1..m : t[q] = "1"}
           z == CHOOSE m \in M : \A q \in M : q <= m
<1>1. Len(t) = n /\ \A k \in 1..n : t[k] = "1"
  BY DigitsAre
<1> HIDE DEF t
<1>2. n \in M /\ M \subseteq 0..n
  BY <1>1
<1>3. \A q \in M : q <= n
  BY <1>2
<1> HIDE DEF M
<1>4. z \in M /\ \A q \in M : q <= z
  BY <1>2, <1>3
<1>5. z <= n /\ n <= z /\ z \in Int
  <2> HIDE DEF z
  <2> QED BY <1>2, <1>3, <1>4
<1>6. z = n
  <2> HIDE DEF z
  <2> QED BY <1>5
<1> QED BY <1>6 DEF Atoi, M, t

(* Texts in a row.                                                          *)
LEMMA Assoc ==
    ASSUME NEW u \in Seq(Text), NEW v \in Seq(Text), NEW z \in Seq(Text)
    PROVE  (u \o v) \o z = u \o (v \o z)
BY ConcatAssociative

ItemOf(x, w, n, r) ==
    /\ x = w \o <<":">> \o Digits(n) \o r
    /\ r = <<>> \/ r[1] = ","

(* The element of a list: host, port and rest.                              *)
LEMMA ItemText ==
    ASSUME NEW x \in Seq(Char), NEW h, Host(h), NEW w \in Writings(h), NEW n \in Nat,
           NEW r \in Seq(Char), ItemOf(x, w, n, r)
    PROVE  MadeOf(x, w, Digits(n), NULL, r) /\ Digits(n) \in Seq(Plain)
<1> DEFINE D == Digits(n)
           c == <<":">>
<1>1. w \in Seq(Text) /\ c \in Seq(Text) /\ D \in Seq(Text) /\ r \in Seq(Text)
  <2>1. PICK br \in {0, 1} : WrittenAs(w, h, br)
    BY WritingIs
  <2> QED BY <2>1, TextTypes, DigitsAre DEF WrittenAs, Separators
<1>2. D \in Seq(Plain)
  <2> DEFINE u == w \o c
             v == u \o D
  <2> HIDE DEF c, D
  <2>1. u \in Seq(Text) /\ Len(u) \in Nat
    BY <1>1, Joined
  <2>x. x = v \o r
    BY DEF ItemOf, c, D
  <2> HIDE DEF u
  <2>2. /\ v \in Seq(Text) /\ Len(D) \in Nat /\ Len(v) = Len(u) + Len(D)
        /\ \A k \in 1..Len(D) : v[Len(u) + k] = D[k]
    BY <1>1, <2>1, Joined
  <2> HIDE DEF v
  <2>3. /\ Len(r) \in Nat /\ Len(v \o r) = Len(v) + Len(r)
        /\ \A k \in 1..Len(v) : (v \o r)[k] = v[k]
    BY <1>1, <2>2, Joined
  <2> SUFFICES ASSUME NEW k \in 1..Len(D) PROVE D[k] \in Plain
    BY <1>1, SeqOfElements
  <2>4. Len(u) + k \in 1..Len(v) /\ Len(u) + k \in 1..Len(x)
    <3>1. Len(x) = Len(v) + Len(r) /\ Len(v) = Len(u) + Len(D) /\ Len(D) \in Nat
          /\ Len(r) \in Nat /\ Len(u) \in Nat
      BY <2>x, <2>1, <2>2, <2>3
    <3> HIDE DEF u
    <3>2. k \in Nat /\ k >= 1 /\ k <= Len(D)
      BY <3>1
    <3> QED BY <3>1, <3>2
  <2>5. x[Len(u) + k] = D[k]
    BY <2>x, <2>2, <2>3, <2>4
  <2>6. D[k] \in Char
    BY <2>4, <2>5, ElementOfSeq
  <2>7. D[k] = "1"
    BY DigitsAre DEF D
  <2> QED BY <2>6, <2>7 DEF Plain, Separators, NUL
<1>3. Part("/", NULL) = <<>>
  BY DEF Part
<1>4. Part(":", D) = c \o D
  <2>1. D \in Seq(Char)
    BY <1>2, TextTypes
  <2>2. D # NULL
    BY <2>1, NullIsNoWord
  <2> QED BY <2>2 DEF Part
<1> HIDE DEF c, D
<1>5. w \o (c \o D) = (w \o c) \o D /\ w \o (c \o D) \in Seq(Text)
  <2>1. c \o D \in Seq(Text)
    BY <1>1, Joined
  <2>2. w \o (c \o D) = (w \o c) \o D
    BY <1>1, Assoc
  <2>3. w \o (c \o D) \in Seq(Text)
    BY <1>1, <2>1, Joined
  <2> QED BY <2>2, <2>3
<1>6. (w \o (c \o D)) \o <<>> = w \o (c \o D)
  BY <1>5, ConcatEmptySeq
<1>7. x = (w \o Part(":", D)) \o Part("/", NULL) \o r
  BY <1>3, <1>4, <1>5, <1>6 DEF ItemOf, c, D
<1> QED BY <1>2, <1>7 DEF ItemOf, MadeOf, D

-----------------------------------------------------------------------------
(* parse_addr_pair on a documented text.                                    *)

(* The text x is n fields with colons between them: field k is the text     *)
(* v[k], written with br[k] pairs of brackets, from st[k] to en[k].         *)
Span(a, e, br, l) ==
    /\ a \in Nat /\ e \in Nat /\ br \in {0, 1} /\ l \in Nat
    /\ 1 <= a /\ 1 <= l /\ a + br + br + l = e + 1
FieldAt(x, a, e, br, t) ==
    /\ Span(a, e, br, Len(t)) /\ t \in Seq(Text) /\ e <= Len(x)
    /\ \A m \in 1..Len(t) :
          /\ x[a + br + m - 1] = t[m]
          /\ t[m] \notin Separators \/ (br = 1 /\ t[m] = ":")
    /\ br = 1 => x[a] = "[" /\ x[e] = "]"
SplitAt(x, n, st, en, br, v) ==
    /\ n \in 1..4 /\ Len(x) \in Nat /\ st[1] = 1 /\ en[n] = Len(x)
    /\ \A k \in 1..n : FieldAt(x, st[k], en[k], br[k], v[k])
    /\ \A k \in 1..(n - 1) : st[k + 1] = en[k] + 2 /\ x[en[k] + 1] = ":"
    /\ \A k1, k2 \in 1..n : k1 < k2 => en[k1] + 2 <= st[k2]

(* The pointers behind field k - 1 and, further on, behind the start of k.  *)
PairPointers(n, st, en, br, v, k) ==
    /\ \A q \in 1..(k - 1) : ps[q] = st[q] + br[q] /\ b[st[q] + br[q] + Len(v[q])] = NUL
    /\ i > st[k] => ps[k] = st[k] + br[k]
    /\ br[k] = 1 /\ i = en[k] + 1 => b[en[k]] = NUL
    /\ \A q \in 1..4 : q > k \/ (q = k /\ i = st[k]) => ps[q] = 0
    /\ j = IF i = st[k] THEN k - 1 ELSE k

(* No character of a field is overwritten.                                  *)
FieldsKept(n, st, br, v) ==
    \A q \in 1..n : \A m \in 1..Len(v[q]) : b[st[q] + br[q] + m - 1] = v[q][m]

PairState(st, en, br, k) ==
    IF i = st[k] THEN 0 ELSE IF br[k] = 0 THEN 1 ELSE IF i <= en[k] THEN 2 ELSE 3

(* parse_addr_pair is in field k.                                           *)
PairAt(x, n, st, en, br, v, k) ==
    /\ fn = "pair" /\ Len(b) = Len(x) + 1 /\ i \in Nat /\ st[k] <= i /\ i <= en[k] + 1
    /\ \A m \in i..Len(x) : b[m] = x[m]
    /\ FieldsKept(n, st, br, v)
    /\ PairPointers(n, st, en, br, v, k)
    /\ \/ ret = "run" /\ s = PairState(st, en, br, k)
       \/ ret = "ok" /\ k = n /\ i = Len(x) + 1

(* What parse_addr_pair does with each kind of character.                   *)
LEMMA PairCharacter ==
    ASSUME ParseAddrPair
    PROVE  /\ b[i] \notin Separators /\ s = 0 =>
                 /\ i' = i + 1 /\ Point(i) /\ s' = 1 /\ UNCHANGED <<fn, b, ret>>
           /\ b[i] \notin Separators /\ s # 0 => Skip(s)
           /\ b[i] = "[" /\ s = 0 =>
                 /\ i' = i + 1 /\ Point(i + 1) /\ s' = 2 /\ UNCHANGED <<fn, b, ret>>
           /\ b[i] = "]" /\ s = 2 => Cut /\ s' = 3 /\ UNCHANGED <<fn, j, ps, ret>>
           /\ b[i] = ":" /\ s = 2 => Skip(2)
           /\ b[i] = ":" /\ s \in {1, 3} =>
                 Cut /\ s' = (IF j < 4 THEN 0 ELSE s) /\ UNCHANGED <<fn, j, ps, ret>>
           /\ b[i] = NUL => Exit
<1> USE DEF NUL, Separators
<1>1. CASE b[i] \notin Separators
  <2>1. b[i] # "[" /\ b[i] # "]" /\ b[i] # ":" /\ b[i] # NUL
    BY <1>1
  <2>2. \/ s = 0 /\ i' = i + 1 /\ Point(i) /\ s' = 1 /\ UNCHANGED <<fn, b, ret>>
        \/ s # 0 /\ Skip(s)
    BY <2>1 DEF ParseAddrPair, PairColon
  <2> QED BY <2>1, <2>2
<1>2. CASE b[i] = "["
  BY <1>2 DEF ParseAddrPair, PairColon
<1>3. CASE b[i] = "]"
  BY <1>3 DEF ParseAddrPair, PairColon
<1>4. CASE b[i] = ":"
  BY <1>4 DEF ParseAddrPair, PairColon
<1>5. CASE b[i] = NUL
  BY <1>5 DEF ParseAddrPair, PairColon
<1> QED BY <1>1, <1>2, <1>3, <1>4, <1>5

(* Where the characters of a field of length l from a to e are.             *)
LEMMA CharPlace ==
    ASSUME NEW a, NEW e, NEW l, NEW br, NEW m \in 1..l, Span(a, e, br, l)
    PROVE  a + br + m - 1 \in Nat /\ a <= a + br + m - 1 /\ a + br + m - 1 + br <= e
BY DEF Span

(* Where its parts end.                                                     *)
LEMMA FieldSpan ==
    ASSUME NEW a, NEW e, NEW l, NEW br, Span(a, e, br, l)
    PROVE  /\ a \in Nat /\ e \in Nat /\ br \in {0, 1} /\ l \in Nat /\ 1 <= a /\ 1 <= l
           /\ a <= e /\ a + br + l = e + 1 - br /\ a + br <= e
           /\ br = 1 => a < e
BY DEF Span

(* Places in and behind a field.                                            *)
LEMMA FieldPlaces ==
    ASSUME NEW a, NEW e, NEW l, NEW br, Span(a, e, br, l), NEW p \in Nat, a <= p, p <= e + 1
    PROVE  /\ p = a \/ (p # a /\ p <= e - br) \/ (br = 1 /\ p = e) \/ p = e + 1
           /\ p # a /\ p <= e - br => p - a - br + 1 \in 1..l /\ a + br + (p - a - br + 1) - 1 = p
BY DEF Span

(* Where the fields are, as numbers.                                        *)
LEMMA FieldNumbers ==
    ASSUME NEW x, NEW n, NEW st, NEW en, NEW br, NEW v, SplitAt(x, n, st, en, br, v),
           NEW k \in 1..n
    PROVE  /\ Span(st[k], en[k], br[k], Len(v[k]))
           /\ n \in 1..4 /\ k \in 1..4 /\ Len(x) \in Nat /\ Len(v[k]) \in Nat
           /\ st[k] \in Nat /\ en[k] \in Nat /\ br[k] \in {0, 1} /\ v[k] \in Seq(Text)
           /\ 1 <= st[k] /\ 1 <= Len(v[k]) /\ st[k] <= en[k] /\ en[k] <= Len(x)
           /\ st[k] + br[k] + Len(v[k]) = en[k] + 1 - br[k] /\ st[k] + br[k] <= en[k]
           /\ br[k] = 1 => st[k] < en[k]
<1>1. FieldAt(x, st[k], en[k], br[k], v[k]) /\ n \in 1..4 /\ Len(x) \in Nat
  BY DEF SplitAt
<1>2. Span(st[k], en[k], br[k], Len(v[k])) /\ v[k] \in Seq(Text) /\ en[k] <= Len(x)
  BY <1>1 DEF FieldAt
<1>4. k \in 1..4
  BY <1>1
<1> QED BY <1>1, <1>2, <1>4, FieldSpan

(* A cut behind the text of field k leaves every text alone.                *)
LEMMA PairKept ==
    ASSUME NEW x, NEW n, NEW st, NEW en, NEW br, NEW v, SplitAt(x, n, st, en, br, v),
           NEW k \in 1..n, BufferInv, Len(b) = Len(x) + 1, FieldsKept(n, st, br, v),
           (i = en[k] /\ br[k] = 1) \/ i = en[k] + 1,
           b' = [b EXCEPT ![i] = NUL]
    PROVE  /\ FieldsKept(n, st, br, v)' /\ Len(b') = Len(b) /\ b'[i] = NUL
           /\ \A m \in 1..Len(b) : m # i => b'[m] = b[m]
<1>b. b \in Seq(Char \cup {NUL}) /\ i \in 1..Len(b) /\ NUL \in Char \cup {NUL} /\ Len(b) \in Nat
  BY LenProperties DEF BufferInv, BufferSafe
<1>1. Len(b') = Len(b) /\ b'[i] = NUL /\ \A m \in 1..Len(b) : m # i => b'[m] = b[m]
  BY <1>b, ExceptSeq
<1>2. ASSUME NEW q \in 1..n, NEW m \in 1..Len(v[q])
      PROVE  b'[st[q] + br[q] + m - 1] = v[q][m]
  <2>q. Span(st[q], en[q], br[q], Len(v[q]))
    BY FieldNumbers
  <2>o. (k < q => en[k] + 2 <= st[q]) /\ (q < k => en[q] + 2 <= st[k])
    BY DEF SplitAt
  <2> DEFINE p == st[q] + br[q] + m - 1
  <2>p. p \in Nat /\ st[q] <= p /\ p + br[q] <= en[q]
    BY <2>q, CharPlace
  <2>3. b[p] = v[q][m]
    BY DEF FieldsKept
  <2> HIDE DEF p
  <2>r. /\ st[q] \in Nat /\ en[q] \in Nat /\ br[q] \in {0, 1} /\ 1 <= st[q] /\ en[q] <= Len(x)
        /\ st[k] \in Nat /\ en[k] \in Nat /\ br[k] \in {0, 1} /\ st[k] <= en[k]
        /\ Len(x) \in Nat /\ q \in Nat /\ k \in Nat
    BY FieldNumbers
  <2>1. p \in 1..Len(b)
    BY <2>p, <2>r
  <2>2. p # i
    <3>1. CASE q = k
      BY <2>p, <2>r, <3>1
    <3>2. CASE q < k
      BY <2>p, <2>r, <2>o, <3>2
    <3>3. CASE k < q
      BY <2>p, <2>r, <2>o, <3>3
    <3> QED BY <2>r, <3>1, <3>2, <3>3
  <2> QED BY <1>1, <2>1, <2>2, <2>3 DEF p
<1>3. FieldsKept(n, st, br, v)'
  BY <1>2 DEF FieldsKept
<1> QED BY <1>1, <1>3

(* A step of parse_addr_pair in field k.                                    *)
LEMMA PairStep ==
    ASSUME NEW x, NEW n, NEW st, NEW en, NEW br, NEW v, SplitAt(x, n, st, en, br, v),
           NEW k \in 1..n, BufferInv, PairAt(x, n, st, en, br, v, k), ParseAddrPair
    PROVE  PairAt(x, n, st, en, br, v, k)' \/ (k < n /\ PairAt(x, n, st, en, br, v, k + 1)')
<1>b. /\ b \in Seq(Char \cup {NUL}) /\ i \in 1..Len(b) /\ ps \in [1..4 -> 0..Len(b)]
      /\ Len(b) \in Nat /\ b[Len(b)] = NUL
  BY LenProperties DEF BufferInv, BufferSafe
<1>n. /\ Span(st[k], en[k], br[k], Len(v[k])) /\ Len(v[k]) \in Nat /\ 1 <= Len(v[k])
      /\ n \in 1..4 /\ k \in 1..4 /\ Len(x) \in Nat
      /\ st[k] \in Nat /\ en[k] \in Nat /\ br[k] \in {0, 1} /\ 1 <= st[k]
      /\ st[k] <= en[k] /\ en[k] <= Len(x) /\ st[k] + br[k] <= en[k] /\ (br[k] = 1 => st[k] < en[k])
  BY FieldNumbers
<1>p. /\ fn = "pair" /\ Len(b) = Len(x) + 1 /\ i \in Nat /\ st[k] <= i /\ i <= en[k] + 1
      /\ \A m \in i..Len(x) : b[m] = x[m]
      /\ FieldsKept(n, st, br, v) /\ PairPointers(n, st, en, br, v, k)
      /\ ret = "run" /\ s = PairState(st, en, br, k)
  BY DEF PairAt, ParseAddrPair
<1>f. FieldAt(x, st[k], en[k], br[k], v[k])
  BY DEF SplitAt
<1>w. /\ i = st[k] \/ (i # st[k] /\ i <= en[k] - br[k]) \/ (br[k] = 1 /\ i = en[k]) \/ i = en[k] + 1
      /\ i # st[k] /\ i <= en[k] - br[k] =>
            /\ i - st[k] - br[k] + 1 \in 1..Len(v[k])
            /\ st[k] + br[k] + (i - st[k] - br[k] + 1) - 1 = i
  <2>1. i \in Nat /\ st[k] <= i /\ i <= en[k] + 1
    BY <1>p
  <2>2. Span(st[k], en[k], br[k], Len(v[k]))
    BY <1>n
  <2> QED BY <2>1, <2>2, FieldPlaces
<1>e. st[k] + br[k] + Len(v[k]) = en[k] + 1 - br[k]
  BY FieldNumbers
<1>m. /\ n \in 1..4 /\ k \in 1..4 /\ Len(x) \in Nat
      /\ st[k] \in Nat /\ en[k] \in Nat /\ br[k] \in {0, 1} /\ 1 <= st[k] /\ en[k] <= Len(x)
      /\ st[k] <= en[k] /\ st[k] + br[k] <= en[k] /\ (br[k] = 1 => st[k] < en[k])
      /\ i \in Nat /\ st[k] <= i /\ i <= en[k] + 1
  BY <1>n, <1>p
<1>j. j = IF i = st[k] THEN k - 1 ELSE k
  BY <1>p DEF PairPointers
<1>0. ASSUME b' = b, fn' = fn, i' = i + 1, i <= en[k], ret' = ret,
             s' = PairState(st, en, br, k)', PairPointers(n, st, en, br, v, k)'
      PROVE  PairAt(x, n, st, en, br, v, k)'
  <2>1. FieldsKept(n, st, br, v)'
    BY <1>p, <1>0 DEF FieldsKept
  <2>2. st[k] <= i' /\ i' <= en[k] + 1 /\ i' \in Nat
    BY <1>n, <1>p, <1>0
  <2>3. \A m \in i'..Len(x) : b'[m] = x[m]
    BY <1>n, <1>p, <1>0
  <2> QED BY <1>p, <1>0, <2>1, <2>2, <2>3 DEF PairAt
<1>q. ASSUME NEW q \in 1..(k - 1), b' = b \/ b' = [b EXCEPT ![i] = NUL]
      PROVE  /\ b[st[q] + br[q] + Len(v[q])] = NUL => b'[st[q] + br[q] + Len(v[q])] = NUL
             /\ q \in 1..4
  <2>1. q \in 1..n /\ q < k
    BY <1>n
  <2>2. /\ st[q] \in Nat /\ en[q] \in Nat /\ br[q] \in {0, 1} /\ q \in 1..4
        /\ 1 <= st[q] /\ en[q] <= Len(x) /\ st[q] <= en[q]
    BY <2>1, FieldNumbers
  <2>3. en[q] + 2 <= st[k]
    BY <2>1 DEF SplitAt
  <2>l. st[q] + br[q] + Len(v[q]) = en[q] + 1 - br[q]
    BY <2>1, FieldNumbers
  <2>m. /\ en[q] \in Nat /\ br[q] \in {0, 1} /\ 1 <= en[q] /\ en[q] <= Len(x) /\ Len(x) \in Nat
        /\ en[q] + 2 <= i
    <3>1. 1 <= en[q]
      BY <2>2
    <3>2. en[q] + 2 <= i
      BY <1>n, <1>p, <2>2, <2>3
    <3> QED BY <1>n, <2>2, <3>1, <3>2
  <2>4. st[q] + br[q] + Len(v[q]) \in 1..Len(b) /\ st[q] + br[q] + Len(v[q]) # i
    <3>1. en[q] + 1 - br[q] \in 1..(Len(x) + 1) /\ en[q] + 1 - br[q] # i
      BY <2>m
    <3> QED BY <1>p, <2>l, <3>1
  <2>5. b'[st[q] + br[q] + Len(v[q])] = b[st[q] + br[q] + Len(v[q])]
    <3>1. NUL \in Char \cup {NUL}
      OBVIOUS
    <3> QED BY <1>q, <1>b, <2>4, <3>1, ExceptSeq
  <2> QED BY <2>2, <2>5
<1>1. CASE i = st[k]
  <2>1. s = 0 /\ j = k - 1
    BY <1>1, <1>p, <1>j DEF PairState
  <2>2. /\ i' = i + 1 /\ Point(i + br[k]) /\ s' = br[k] + 1 /\ UNCHANGED <<fn, b, ret>>
    <3>x. b[i] = x[i]
      <4>1. i \in i..Len(x)
        BY <1>1, <1>m
      <4> QED BY <1>p, <4>1
    <3>1. CASE br[k] = 1
      <4>1. b[i] = "["
        BY <1>1, <1>f, <3>x, <3>1 DEF FieldAt
      <4> QED BY <2>1, <3>1, <4>1, PairCharacter
    <3>2. CASE br[k] = 0
      <4>1. 1 \in 1..Len(v[k]) /\ st[k] + br[k] + 1 - 1 = i
        BY <1>1, <1>n, <3>2
      <4>2. x[st[k] + br[k] + 1 - 1] = v[k][1] /\ v[k][1] \notin Separators
        BY <1>f, <3>2, <4>1 DEF FieldAt
      <4>3. b[i] \notin Separators
        BY <3>x, <4>1, <4>2
      <4>4. i + br[k] = i /\ br[k] + 1 = 1
        BY <1>p, <3>2
      <4> QED BY <2>1, <4>3, <4>4, PairCharacter
    <3> QED BY <1>n, <3>1, <3>2
  <2>3. ps' = [ps EXCEPT ![k] = i + br[k]] /\ j' = k
    <3>1. DOMAIN ps \cup {j + 1} = DOMAIN ps /\ j + 1 = k
      BY <1>b, <1>n, <2>1
    <3> QED BY <1>b, <1>n, <2>1, <2>2, <3>1 DEF Point
  <2>4. i <= en[k]
    BY <1>1, <1>n
  <2>5. s' = PairState(st, en, br, k)'
    <3>1. i' # st[k] /\ (br[k] = 1 => i' <= en[k])
      BY <1>1, <1>m, <2>2
    <3> QED BY <1>m, <2>2, <3>1 DEF PairState
  <2>6. PairPointers(n, st, en, br, v, k)'
    <3>1. ASSUME NEW q \in 1..(k - 1)
          PROVE  ps'[q] = st[q] + br[q] /\ b'[st[q] + br[q] + Len(v[q])] = NUL
      <4>1. q \in 1..4 /\ q # k
        BY <1>n
      <4>2. ps'[q] = ps[q]
        BY <1>b, <2>3, <4>1
      <4> QED BY <1>p, <2>2, <4>2 DEF PairPointers
    <3>2. ps'[k] = st[k] + br[k]
      BY <1>1, <1>b, <1>n, <2>3
    <3>3. ~(i' = st[k]) /\ ~(br[k] = 1 /\ i' = en[k] + 1)
      BY <1>1, <1>n, <2>2
    <3>4. ASSUME NEW q \in 1..4, q > k PROVE ps'[q] = 0
      <4>1. ps'[q] = ps[q]
        BY <1>b, <1>n, <2>3, <3>4
      <4> QED BY <1>p, <3>4, <4>1 DEF PairPointers
    <3> QED BY <2>3, <3>1, <3>2, <3>3, <3>4 DEF PairPointers
  <2>7. PairAt(x, n, st, en, br, v, k)'
    BY <1>0, <2>2, <2>4, <2>5, <2>6
  <2> QED BY <2>7
<1>2. CASE i # st[k] /\ i <= en[k] - br[k]
  <2>x. b[i] = x[i]
    BY <1>n, <1>p, <1>2
  <2>1. s = (IF br[k] = 0 THEN 1 ELSE 2)
    BY <1>n, <1>p, <1>2 DEF PairState
  <2>2. Skip(s)
    <3> DEFINE m == i - st[k] - br[k] + 1
    <3>1. m \in 1..Len(v[k]) /\ st[k] + br[k] + m - 1 = i
      BY <1>w, <1>2
    <3> HIDE DEF m
    <3>2. x[i] = v[k][m] /\ (v[k][m] \notin Separators \/ (br[k] = 1 /\ v[k][m] = ":"))
      BY <1>f, <3>1 DEF FieldAt
    <3>3. CASE b[i] \notin Separators
      <4>1. s # 0
        BY <2>1
      <4> QED BY <3>3, <4>1, PairCharacter
    <3>4. CASE br[k] = 1 /\ b[i] = ":"
      <4>1. s = 2
        BY <2>1, <3>4
      <4> QED BY <3>4, <4>1, PairCharacter
    <3> QED BY <2>x, <3>2, <3>3, <3>4
  <2>3. i' = i + 1 /\ s' = s /\ UNCHANGED <<fn, b, j, ps, ret>>
    BY <2>2 DEF Skip
  <2>4. s' = PairState(st, en, br, k)'
    BY <1>n, <1>p, <1>2, <2>1, <2>3 DEF PairState
  <2>5. PairPointers(n, st, en, br, v, k)'
    <3>1. i > st[k] /\ i' > st[k] /\ i' # st[k] /\ ~(br[k] = 1 /\ i' = en[k] + 1)
      BY <1>n, <1>p, <1>2, <2>3
    <3> QED BY <1>p, <2>3, <3>1 DEF PairPointers
  <2>6. i <= en[k]
    BY <1>n, <1>p, <1>2
  <2>7. PairAt(x, n, st, en, br, v, k)'
    BY <1>0, <2>3, <2>4, <2>5, <2>6
  <2> QED BY <2>7
<1>3. CASE br[k] = 1 /\ i = en[k]
  <2>x. b[i] = "]"
    <3>1. b[i] = x[i]
      BY <1>n, <1>p, <1>3
    <3> QED BY <1>f, <1>3, <3>1 DEF FieldAt
  <2>1. s = 2 /\ i # st[k]
    BY <1>n, <1>p, <1>3 DEF PairState
  <2>2. i' = i + 1 /\ b' = [b EXCEPT ![i] = NUL] /\ s' = 3 /\ UNCHANGED <<fn, j, ps, ret>>
    BY <2>x, <2>1, PairCharacter DEF Cut
  <2>3. /\ FieldsKept(n, st, br, v)' /\ Len(b') = Len(b) /\ b'[i] = NUL
        /\ \A m \in 1..Len(b) : m # i => b'[m] = b[m]
    BY <1>p, <1>3, <2>2, PairKept
  <2>4. i' \in Nat /\ st[k] <= i' /\ i' <= en[k] + 1 /\ i' = en[k] + 1 /\ i' # st[k]
    BY <1>n, <1>p, <1>3, <2>2
  <2>5. \A m \in i'..Len(x) : b'[m] = x[m]
    <3> SUFFICES ASSUME NEW m \in i'..Len(x) PROVE b'[m] = x[m]
      OBVIOUS
    <3>1. m \in 1..Len(b) /\ m # i /\ m \in i..Len(x)
      BY <1>n, <1>p, <2>2
    <3> QED BY <1>p, <2>3, <3>1
  <2>6. s' = PairState(st, en, br, k)'
    BY <1>n, <1>3, <2>2, <2>4 DEF PairState
  <2>7. PairPointers(n, st, en, br, v, k)'
    <3>1. ASSUME NEW q \in 1..(k - 1)
          PROVE  ps'[q] = st[q] + br[q] /\ b'[st[q] + br[q] + Len(v[q])] = NUL
      BY <1>p, <1>q, <2>2 DEF PairPointers
    <3>2. i > st[k] /\ i # st[k]
      BY <1>n, <1>p, <2>1
    <3>3. ps'[k] = st[k] + br[k] /\ j' = k /\ b'[en[k]] = NUL
      BY <1>p, <1>j, <1>3, <2>2, <2>3, <3>2 DEF PairPointers
    <3>4. \A q \in 1..4 : q > k => ps'[q] = 0
      BY <1>p, <2>2 DEF PairPointers
    <3> QED BY <2>4, <3>1, <3>3, <3>4 DEF PairPointers
  <2>8. PairAt(x, n, st, en, br, v, k)'
    BY <1>p, <2>2, <2>3, <2>4, <2>5, <2>6, <2>7 DEF PairAt
  <2> QED BY <2>8
<1>4. CASE i = en[k] + 1 /\ k < n
  <2>0. k \in 1..(n - 1) /\ k + 1 \in 1..n /\ k + 1 \in 1..4 /\ k < 4
    BY <1>n, <1>4
  <2>s. st[k + 1] = en[k] + 2 /\ x[en[k] + 1] = ":"
    BY <2>0 DEF SplitAt
  <2>k. /\ st[k + 1] \in Nat /\ en[k + 1] \in Nat
        /\ st[k + 1] <= en[k + 1] /\ en[k + 1] <= Len(x)
    BY <2>0, FieldNumbers
  <2>l. en[k] + 2 <= Len(x)
    BY <1>m, <2>s, <2>k
  <2>x. b[i] = ":"
    <3>1. i \in i..Len(x)
      BY <1>m, <1>4, <2>l
    <3> QED BY <1>p, <1>4, <2>s, <3>1
  <2>1. s \in {1, 3} /\ i # st[k]
    BY <1>n, <1>p, <1>4 DEF PairState
  <2>2. j = k
    BY <1>j, <2>1
  <2>3. i' = i + 1 /\ b' = [b EXCEPT ![i] = NUL] /\ s' = 0 /\ UNCHANGED <<fn, j, ps, ret>>
    BY <2>x, <2>0, <2>1, <2>2, PairCharacter DEF Cut
  <2>4. /\ FieldsKept(n, st, br, v)' /\ Len(b') = Len(b) /\ b'[i] = NUL
        /\ \A m \in 1..Len(b) : m # i => b'[m] = b[m]
    BY <1>p, <1>4, <2>3, PairKept
  <2>5. i' \in Nat /\ i' = st[k + 1] /\ st[k + 1] <= i' /\ i' <= en[k + 1] + 1
    BY <1>m, <1>4, <2>3, <2>s, <2>k, <2>l
  <2>6. \A m \in i'..Len(x) : b'[m] = x[m]
    <3> SUFFICES ASSUME NEW m \in i'..Len(x) PROVE b'[m] = x[m]
      OBVIOUS
    <3>1. m \in 1..Len(b) /\ m # i /\ m \in i..Len(x)
      BY <1>n, <1>p, <2>3
    <3> QED BY <1>p, <2>4, <3>1
  <2>7. s' = PairState(st, en, br, k + 1)'
    BY <2>3, <2>5 DEF PairState
  <2>8. PairPointers(n, st, en, br, v, k + 1)'
    <3>0. i > st[k] /\ ps[k] = st[k] + br[k]
      <4>1. i > st[k]
        BY <1>n, <1>p, <2>1
      <4> QED BY <1>p, <4>1 DEF PairPointers
    <3>e. b'[st[k] + br[k] + Len(v[k])] = NUL
      <4>1. CASE br[k] = 0
        <5>1. st[k] + br[k] + Len(v[k]) = en[k] + 1 - 0
          BY <1>e, <4>1
        <5>2. st[k] + br[k] + Len(v[k]) = i
          BY <1>m, <1>4, <5>1
        <5> QED BY <2>4, <5>2
      <4>2. CASE br[k] = 1
        <5>1. st[k] + br[k] + Len(v[k]) = en[k]
          <6>1. st[k] + br[k] + Len(v[k]) = en[k] + 1 - 1
            BY <1>e, <4>2
          <6> QED BY <1>m, <6>1
        <5>3. en[k] \in 1..Len(b) /\ en[k] # i
          BY <1>m, <1>p, <1>4
        <5>2. b[en[k]] = NUL
          BY <1>p, <1>4, <4>2 DEF PairPointers
        <5> QED BY <2>4, <5>1, <5>2, <5>3
      <4> QED BY <1>n, <4>1, <4>2
    <3>1. ASSUME NEW q \in 1..(k + 1 - 1)
          PROVE  ps'[q] = st[q] + br[q] /\ b'[st[q] + br[q] + Len(v[q])] = NUL
      <4>1. CASE q = k
        BY <2>3, <3>0, <3>e, <4>1
      <4>2. CASE q # k
        <5>1. q \in 1..(k - 1)
          BY <1>n, <4>2
        <5> QED BY <1>p, <1>q, <2>3, <5>1 DEF PairPointers
      <4> QED BY <4>1, <4>2
    <3>2. ~(i' > st[k + 1]) /\ ~(i' = en[k + 1] + 1)
      BY <2>5, <2>k, <2>l
    <3>3. ASSUME NEW q \in 1..4, q > k + 1 \/ q = k + 1 PROVE ps'[q] = 0
      <4>1. q > k
        BY <1>n, <3>3
      <4> QED BY <1>p, <2>3, <4>1 DEF PairPointers
    <3>4. j' = (k + 1) - 1
      BY <1>n, <2>2, <2>3
    <3> QED BY <2>5, <3>1, <3>2, <3>3, <3>4 DEF PairPointers
  <2>9. PairAt(x, n, st, en, br, v, k + 1)'
    BY <1>p, <2>3, <2>4, <2>5, <2>6, <2>7, <2>8 DEF PairAt
  <2> QED BY <1>4, <2>9
<1>5. CASE i = en[k] + 1 /\ k = n
  <2>1. i = Len(x) + 1 /\ b[i] = NUL
    BY <1>b, <1>p, <1>5 DEF SplitAt
  <2>2. ret' = "ok" /\ UNCHANGED <<fn, b, i, s, j, ps>>
    BY <2>1, PairCharacter DEF Exit
  <2>3. FieldsKept(n, st, br, v)' /\ PairPointers(n, st, en, br, v, k)'
    BY <1>p, <2>2 DEF FieldsKept, PairPointers
  <2>4. PairAt(x, n, st, en, br, v, k)'
    BY <1>5, <1>p, <2>1, <2>2, <2>3 DEF PairAt
  <2> QED BY <2>4
<1>6. \/ i = st[k] \/ (i # st[k] /\ i <= en[k] - br[k]) \/ (br[k] = 1 /\ i = en[k])
      \/ (i = en[k] + 1 /\ k < n) \/ (i = en[k] + 1 /\ k = n)
  BY <1>w, <1>n
<1> QED BY <1>1, <1>2, <1>3, <1>4, <1>5, <1>6

(* parse_addr_pair runs, or has run, on a text of the n fields v.           *)
SplitInto(x, n, v) == \E st, en, br : SplitAt(x, n, st, en, br, v)
PairRuns(x, n, st, en, br, v) ==
    SplitAt(x, n, st, en, br, v) /\ \E k \in 1..n : PairAt(x, n, st, en, br, v, k)
PairCall(n, v) ==
    \E x \in Seq(Char) : \E st, en, br : PairRuns(x, n, st, en, br, v)

(* A round of parse_addr_pair.                                              *)
LEMMA PairCallStep ==
    ASSUME NEW n, NEW v, BufferInv, PairCall(n, v), Parse
    PROVE  PairCall(n, v)'
<1>0. PICK x \in Seq(Char) : \E st, en, br : PairRuns(x, n, st, en, br, v)
  BY DEF PairCall
<1>1. PICK st, en, br : PairRuns(x, n, st, en, br, v)
  BY <1>0
<1>2. SplitAt(x, n, st, en, br, v)
  BY <1>1 DEF PairRuns
<1>3. PICK k \in 1..n : PairAt(x, n, st, en, br, v, k)
  BY <1>1 DEF PairRuns
<1>4. ParseAddrPair
  BY <1>3 DEF Parse, ParserStep, ParseAddr, PairAt
<1>5. PairAt(x, n, st, en, br, v, k)' \/ (k < n /\ PairAt(x, n, st, en, br, v, k + 1)')
  BY <1>2, <1>3, <1>4, PairStep
<1>6. k < n => k + 1 \in 1..n
  <2>1. n \in 1..4
    BY <1>2 DEF SplitAt
  <2> QED BY <2>1
<1>7. PairRuns(x, n, st, en, br, v)'
  BY <1>2, <1>5, <1>6 DEF PairRuns
<1> QED BY <1>7 DEF PairCall

(* What parse_addr_pair finds are the fields.                               *)
LEMMA PairResult ==
    ASSUME NEW n, NEW v, BufferInv, PairCall(n, v), ret # "run"
    PROVE  /\ ret = "ok" /\ n \in 1..4
           /\ \A q \in 1..n : ps[q] # 0 /\ CStr(ps[q]) = v[q]
           /\ \A q \in 1..4 : q > n => ps[q] = 0
<1>0. PICK x \in Seq(Char) : \E st, en, br : PairRuns(x, n, st, en, br, v)
  BY DEF PairCall
<1>1. PICK st, en, br : PairRuns(x, n, st, en, br, v)
  BY <1>0
<1>2. SplitAt(x, n, st, en, br, v)
  BY <1>1 DEF PairRuns
<1>3. PICK k \in 1..n : PairAt(x, n, st, en, br, v, k)
  BY <1>1 DEF PairRuns
<1>4. /\ ret = "ok" /\ k = n /\ i = Len(x) + 1 /\ Len(b) = Len(x) + 1
      /\ FieldsKept(n, st, br, v) /\ PairPointers(n, st, en, br, v, n)
  BY <1>3 DEF PairAt
<1>5. n \in 1..4 /\ Len(x) \in Nat /\ en[n] = Len(x) /\ n \in 1..n
  BY <1>2 DEF SplitAt
<1>n. /\ st[n] \in Nat /\ en[n] \in Nat /\ br[n] \in {0, 1} /\ 1 <= st[n] /\ st[n] <= en[n]
      /\ st[n] + br[n] + Len(v[n]) = en[n] + 1 - br[n]
  BY <1>2, <1>5, FieldNumbers
<1>b. b[Len(b)] = NUL
  BY DEF BufferInv, BufferSafe
<1>6. ASSUME NEW q \in 1..n PROVE ps[q] = st[q] + br[q] /\ b[st[q] + br[q] + Len(v[q])] = NUL
  <2>1. CASE q = n
    <3>1. i > st[n] /\ i = en[n] + 1
      BY <1>4, <1>5, <1>n
    <3>2. ps[n] = st[n] + br[n]
      BY <1>4, <3>1 DEF PairPointers
    <3>3. b[en[n] + 1 - br[n]] = NUL
      <4>1. CASE br[n] = 1
        <5>1. en[n] + 1 - br[n] = en[n]
          BY <1>n, <4>1
        <5> QED BY <1>4, <3>1, <4>1, <5>1 DEF PairPointers
      <4>2. CASE br[n] = 0
        <5>1. en[n] + 1 - br[n] = Len(b)
          BY <1>4, <1>5, <1>n, <4>2
        <5> QED BY <1>b, <5>1
      <4> QED BY <1>n, <4>1, <4>2
    <3> QED BY <1>n, <2>1, <3>2, <3>3
  <2>2. CASE q # n
    <3>1. q \in 1..(n - 1)
      BY <1>5, <2>2
    <3> QED BY <1>4, <3>1 DEF PairPointers
  <2> QED BY <2>1, <2>2
<1>7. ASSUME NEW q \in 1..n PROVE ps[q] # 0 /\ CStr(ps[q]) = v[q]
  <2> DEFINE p == st[q] + br[q]
             t == v[q]
             l == Len(v[q])
  <2>1. /\ Span(st[q], en[q], br[q], l) /\ st[q] \in Nat /\ en[q] \in Nat /\ br[q] \in {0, 1}
        /\ t \in Seq(Text) /\ 1 <= st[q] /\ en[q] <= Len(x) /\ l \in Nat
        /\ p + l = en[q] + 1 - br[q] /\ p <= en[q]
    BY <1>2, FieldNumbers
  <2>2. p \in Nat /\ p >= 1
    BY <2>1
  <2>p. ps[q] = p /\ b[p + l] = NUL
    BY <1>6
  <2>k. \A m \in 1..l : b[p + m - 1] = t[m]
    BY <1>4 DEF FieldsKept
  <2>x. \A m \in 1..l : x[p + m - 1] = t[m]
    <3>1. FieldAt(x, st[q], en[q], br[q], v[q])
      BY <1>2 DEF SplitAt
    <3> QED BY <3>1 DEF FieldAt
  <2>c. \A m \in 1..l : p + m - 1 \in Nat /\ p + m - 1 <= en[q] /\ 1 <= p + m - 1
    <3> SUFFICES ASSUME NEW m \in 1..l
                 PROVE  p + m - 1 \in Nat /\ p + m - 1 <= en[q] /\ 1 <= p + m - 1
      OBVIOUS
    <3>0. Span(st[q], en[q], br[q], l)
      BY <2>1
    <3> HIDE DEF l
    <3>1. p + m - 1 \in Nat /\ st[q] <= p + m - 1 /\ p + m - 1 + br[q] <= en[q]
      BY <3>0, CharPlace
    <3> HIDE DEF p
    <3> QED BY <2>1, <3>1
  <2> HIDE DEF p, l, t
  <2>3. t \in Seq(Char)
    <3> SUFFICES ASSUME NEW m \in 1..Len(t) PROVE t[m] \in Char
      BY <2>1, SeqOfElements
    <3>1. m \in 1..l
      BY DEF l, t
    <3>2. p + m - 1 \in 1..Len(x) /\ x[p + m - 1] = t[m]
      BY <1>5, <2>1, <2>x, <2>c, <3>1
    <3>3. x[p + m - 1] \in Char
      BY <3>2, ElementOfSeq
    <3> QED BY <3>2, <3>3
  <2>l. l = Len(t)
    BY DEF l, t
  <2>4. p \in 1..Len(b) /\ p + l <= Len(b)
    BY <1>4, <1>5, <2>1, <2>2
  <2>5. CStr(p) = t
    BY <2>3, <2>4, <2>p, <2>k, <2>l, CStrIs
  <2> QED BY <2>2, <2>p, <2>5 DEF t
<1>8. \A q \in 1..4 : q > n => ps[q] = 0
  BY <1>4 DEF PairPointers
<1> QED BY <1>4, <1>5, <1>7, <1>8

(* A call of parse_addr_pair.                                               *)
LEMMA PairCalled ==
    ASSUME NEW x \in Seq(Char), NEW n, NEW v, SplitInto(x, n, v), Call("pair", x)
    PROVE  PairCall(n, v)'
<1>1. PICK st, en, br : SplitAt(x, n, st, en, br, v)
  BY DEF SplitInto
<1> DEFINE y == Append(x, NUL)
<1>2. /\ fn' = "pair" /\ b' = y /\ i' = 1 /\ s' = 0 /\ j' = 0 /\ ps' = NullPtrs /\ ret' = "run"
  BY DEF Call
<1>3. /\ Len(y) = Len(x) + 1 /\ Len(x) \in Nat /\ \A k \in 1..Len(x) : y[k] = x[k]
  <2>1. x \in Seq(Text) /\ NUL \in Text
    BY TextTypes
  <2> QED BY <2>1, AppendProperties, LenProperties
<1> HIDE DEF y
<1>4. n \in 1..4 /\ st[1] = 1 /\ 1 \in 1..n
  BY <1>1 DEF SplitAt
<1>5. en[1] \in Nat /\ 1 <= en[1]
  BY <1>1, <1>4, FieldNumbers
<1>6. FieldsKept(n, st, br, v)'
  <2> SUFFICES ASSUME NEW q \in 1..n, NEW m \in 1..Len(v[q])
               PROVE  y[st[q] + br[q] + m - 1] = v[q][m]
    BY <1>2 DEF FieldsKept
  <2> DEFINE p == st[q] + br[q] + m - 1
  <2>1. Span(st[q], en[q], br[q], Len(v[q])) /\ st[q] \in Nat /\ en[q] \in Nat /\ 1 <= st[q]
        /\ en[q] <= Len(x) /\ br[q] \in {0, 1}
    BY <1>1, FieldNumbers
  <2>2. p \in Nat /\ st[q] <= p /\ p + br[q] <= en[q]
    BY <2>1, CharPlace
  <2>3. x[p] = v[q][m]
    <3>1. FieldAt(x, st[q], en[q], br[q], v[q])
      BY <1>1 DEF SplitAt
    <3> QED BY <3>1 DEF FieldAt
  <2> HIDE DEF p
  <2>4. p \in 1..Len(x)
    BY <1>3, <2>1, <2>2
  <2> QED BY <1>3, <2>3, <2>4 DEF p
<1>7. PairPointers(n, st, en, br, v, 1)'
  <2>1. \A q \in 1..4 : ps'[q] = 0
    BY <1>2 DEF NullPtrs
  <2> QED BY <1>2, <1>4, <1>5, <2>1 DEF PairPointers
<1>8. s' = PairState(st, en, br, 1)'
  BY <1>2, <1>4 DEF PairState
<1>9. PairAt(x, n, st, en, br, v, 1)'
  BY <1>2, <1>3, <1>4, <1>5, <1>6, <1>7, <1>8 DEF PairAt
<1>10. PairRuns(x, n, st, en, br, v)'
  BY <1>1, <1>4, <1>9 DEF PairRuns
<1> QED BY <1>10 DEF PairCall

(* The text w is h as a field.                                              *)
Written(w, h) == w \in Seq(Text) /\ \E br \in {0, 1} : FieldAt(w, 1, Len(w), br, h)

(* Fields stay where they are when text is added behind them.               *)
LEMMA FieldStays ==
    ASSUME NEW u, NEW x, Len(u) \in Nat, Len(x) \in Nat, Len(u) <= Len(x),
           \A p \in 1..Len(u) : x[p] = u[p],
           NEW a, NEW e, NEW br, NEW t, FieldAt(u, a, e, br, t)
    PROVE  FieldAt(x, a, e, br, t)
<1>1. Span(a, e, br, Len(t)) /\ t \in Seq(Text) /\ e <= Len(u)
  BY DEF FieldAt
<1>2. a \in Nat /\ e \in Nat /\ br \in {0, 1} /\ 1 <= a /\ a <= e
  BY <1>1, FieldSpan
<1>3. e <= Len(x)
  BY <1>1, <1>2
<1>4. ASSUME NEW m \in 1..Len(t)
      PROVE  /\ x[a + br + m - 1] = t[m]
             /\ t[m] \notin Separators \/ (br = 1 /\ t[m] = ":")
  <2> DEFINE p == a + br + m - 1
  <2>1. p \in Nat /\ a <= p /\ p + br <= e
    BY <1>1, CharPlace
  <2>2. u[p] = t[m] /\ (t[m] \notin Separators \/ (br = 1 /\ t[m] = ":"))
    BY DEF FieldAt
  <2> HIDE DEF p
  <2>3. p \in 1..Len(u)
    BY <1>1, <1>2, <2>1
  <2> QED BY <2>2, <2>3 DEF p
<1>5. br = 1 => x[a] = "[" /\ x[e] = "]"
  <2>1. a \in 1..Len(u) /\ e \in 1..Len(u)
    BY <1>1, <1>2
  <2> QED BY <2>1 DEF FieldAt
<1> QED BY <1>1, <1>3, <1>4, <1>5 DEF FieldAt

(* A field behind d characters.                                             *)
LEMMA FieldMoves ==
    ASSUME NEW w, NEW x, NEW d \in Nat, Len(w) \in Nat, Len(x) = d + Len(w),
           \A p \in 1..Len(w) : x[d + p] = w[p],
           NEW br, NEW t, FieldAt(w, 1, Len(w), br, t)
    PROVE  FieldAt(x, d + 1, d + Len(w), br, t)
<1>1. Span(1, Len(w), br, Len(t)) /\ t \in Seq(Text)
  BY DEF FieldAt
<1>2. br \in {0, 1} /\ Len(t) \in Nat /\ 1 <= Len(w)
  BY <1>1, FieldSpan
<1>3. Span(d + 1, d + Len(w), br, Len(t))
  BY <1>1 DEF Span
<1>4. ASSUME NEW m \in 1..Len(t)
      PROVE  /\ x[d + 1 + br + m - 1] = t[m]
             /\ t[m] \notin Separators \/ (br = 1 /\ t[m] = ":")
  <2> DEFINE p == 1 + br + m - 1
  <2>1. p \in Nat /\ 1 <= p /\ p + br <= Len(w)
    BY <1>1, CharPlace
  <2>2. w[p] = t[m] /\ (t[m] \notin Separators \/ (br = 1 /\ t[m] = ":"))
    BY DEF FieldAt
  <2>3. d + 1 + br + m - 1 = d + p
    BY <1>2
  <2> HIDE DEF p
  <2>4. p \in 1..Len(w)
    BY <1>2, <2>1
  <2> QED BY <2>2, <2>3, <2>4
<1>5. br = 1 => x[d + 1] = "[" /\ x[d + Len(w)] = "]"
  <2>1. 1 \in 1..Len(w) /\ Len(w) \in 1..Len(w)
    BY <1>2
  <2> QED BY <2>1 DEF FieldAt
<1>6. d + Len(w) <= Len(x)
  OBVIOUS
<1> QED BY <1>1, <1>3, <1>4, <1>5, <1>6 DEF FieldAt

(* One field.                                                               *)
LEMMA SplitOne ==
    ASSUME NEW w, NEW v, Written(w, v[1])
    PROVE  SplitInto(w, 1, v)
<1>1. PICK br \in {0, 1} : FieldAt(w, 1, Len(w), br, v[1])
  BY DEF Written
<1> DEFINE st == [k \in 1..4 |-> 1]
           en == [k \in 1..4 |-> Len(w)]
           bs == [k \in 1..4 |-> br]
<1>2. st[1] = 1 /\ en[1] = Len(w) /\ bs[1] = br
  OBVIOUS
<1>3. Len(w) \in Nat
  BY LenProperties DEF Written
<1> HIDE DEF st, en, bs
<1>4. \A k \in 1..1 : k = 1
  OBVIOUS
<1>5. 1..(1 - 1) = {} /\ 1 \in 1..4
  OBVIOUS
<1>6. \A k1, k2 \in 1..1 : ~(k1 < k2)
  OBVIOUS
<1>7. SplitAt(w, 1, st, en, bs, v)
  BY <1>1, <1>2, <1>3, <1>4, <1>5, <1>6 DEF SplitAt
<1> QED BY <1>7 DEF SplitInto

(* One more field.                                                          *)
LEMMA SplitMore ==
    ASSUME NEW u \in Seq(Text), NEW n \in 1..3, NEW v, SplitInto(u, n, v),
           NEW w, Written(w, v[n + 1])
    PROVE  /\ SplitInto(u \o <<":">> \o w, n + 1, v)
           /\ u \o <<":">> \o w \in Seq(Text)
<1>1. PICK st, en, bs : SplitAt(u, n, st, en, bs, v)
  BY DEF SplitInto
<1>2. PICK br \in {0, 1} : FieldAt(w, 1, Len(w), br, v[n + 1])
  BY DEF Written
<1> DEFINE c == <<":">>
           a == u \o c
           x == a \o w
<1>3. w \in Seq(Text) /\ c \in Seq(Text) /\ Len(c) = 1 /\ c[1] = ":"
  BY TextTypes DEF Written, Separators
<1> HIDE DEF c
<1>4. /\ a \in Seq(Text) /\ Len(u) \in Nat /\ Len(a) = Len(u) + Len(c)
      /\ \A k \in 1..Len(u) : a[k] = u[k]
      /\ \A k \in 1..Len(c) : a[Len(u) + k] = c[k]
  BY <1>3, Joined
<1> HIDE DEF a
<1>5. /\ x \in Seq(Text) /\ Len(w) \in Nat /\ Len(x) = Len(a) + Len(w)
      /\ \A k \in 1..Len(a) : x[k] = a[k]
      /\ \A k \in 1..Len(w) : x[Len(a) + k] = w[k]
  BY <1>3, <1>4, Joined
<1> HIDE DEF x
<1>6. Len(a) = Len(u) + 1 /\ Len(x) = Len(u) + 1 + Len(w) /\ Len(x) \in Nat /\ Len(u) <= Len(x)
      /\ Len(a) \in Nat
  BY <1>3, <1>4, <1>5
<1>7. \A k \in 1..Len(u) : x[k] = u[k]
  <2> SUFFICES ASSUME NEW k \in 1..Len(u) PROVE x[k] = u[k]
    OBVIOUS
  <2>1. k \in 1..Len(a)
    BY <1>4, <1>6
  <2> QED BY <1>4, <1>5, <2>1
<1>8. x[Len(u) + 1] = ":"
  <2>1. 1 \in 1..Len(c) /\ Len(u) + 1 \in 1..Len(a)
    BY <1>3, <1>4, <1>6
  <2> QED BY <1>3, <1>4, <1>5, <2>1
<1>9. FieldAt(x, Len(a) + 1, Len(a) + Len(w), br, v[n + 1])
  BY <1>2, <1>5, <1>6, FieldMoves
<1> DEFINE st1 == [k \in 1..4 |-> IF k <= n THEN st[k] ELSE Len(a) + 1]
           en1 == [k \in 1..4 |-> IF k <= n THEN en[k] ELSE Len(a) + Len(w)]
           bs1 == [k \in 1..4 |-> IF k <= n THEN bs[k] ELSE br]
<1>10. /\ n + 1 \in 1..4 /\ n \in 1..n
       /\ \A k \in 1..n : st1[k] = st[k] /\ en1[k] = en[k] /\ bs1[k] = bs[k]
       /\ st1[n + 1] = Len(a) + 1 /\ en1[n + 1] = Len(a) + Len(w) /\ bs1[n + 1] = br
       /\ \A k \in 1..(n + 1) : k \in 1..n \/ k = n + 1
  OBVIOUS
<1> HIDE DEF st1, en1, bs1
<1>11. SplitAt(x, n + 1, st1, en1, bs1, v)
  <2>1. st1[1] = 1 /\ en1[n + 1] = Len(x)
    <3>1. 1 \in 1..n /\ Len(a) + Len(w) = Len(x)
      BY <1>5
    <3> QED BY <1>1, <1>10, <3>1 DEF SplitAt
  <2>2. ASSUME NEW k \in 1..(n + 1) PROVE FieldAt(x, st1[k], en1[k], bs1[k], v[k])
    <3>1. CASE k \in 1..n
      <4>1. FieldAt(u, st[k], en[k], bs[k], v[k])
        BY <1>1, <3>1 DEF SplitAt
      <4>2. FieldAt(x, st[k], en[k], bs[k], v[k])
        BY <1>4, <1>6, <1>7, <4>1, FieldStays
      <4> QED BY <1>10, <3>1, <4>2
    <3>2. CASE k = n + 1
      BY <1>9, <1>10, <3>2
    <3> QED BY <1>10, <3>1, <3>2
  <2>e. en[n] = Len(u)
    BY <1>1 DEF SplitAt
  <2>3. ASSUME NEW k \in 1..(n + 1 - 1) PROVE st1[k + 1] = en1[k] + 2 /\ x[en1[k] + 1] = ":"
    <3>0. k \in 1..n
      OBVIOUS
    <3>1. CASE k = n
      <4>1. en1[k] = Len(u) /\ st1[k + 1] = Len(u) + 1 + 1
        BY <1>6, <1>10, <2>e, <3>1
      <4>2. Len(u) + 1 + 1 = Len(u) + 2
        BY <1>4
      <4> QED BY <1>8, <4>1, <4>2
    <3>2. CASE k # n
      <4>1. k \in 1..(n - 1) /\ k + 1 \in 1..n
        BY <3>0, <3>2
      <4>2. st[k + 1] = en[k] + 2 /\ u[en[k] + 1] = ":"
        BY <1>1, <4>1 DEF SplitAt
      <4>3. /\ en[k] \in Nat /\ st[k + 1] \in Nat /\ en[k + 1] \in Nat /\ st[k + 1] <= en[k + 1]
            /\ en[k + 1] <= Len(u)
        BY <1>1, <3>0, <4>1, FieldNumbers
      <4>4. en[k] + 1 \in 1..Len(u)
        <5>1. Len(u) \in Nat
          BY <1>4
        <5>2. en[k] + 2 <= en[k + 1]
          BY <4>2, <4>3
        <5> QED BY <4>3, <5>1, <5>2
      <4> QED BY <1>7, <1>10, <3>0, <4>1, <4>2, <4>4
    <3> QED BY <3>1, <3>2
  <2>4. ASSUME NEW k1 \in 1..(n + 1), NEW k2 \in 1..(n + 1), k1 < k2
        PROVE  en1[k1] + 2 <= st1[k2]
    <3>1. k1 \in 1..n
      BY <2>4
    <3>2. CASE k2 \in 1..n
      <4>1. en[k1] + 2 <= st[k2]
        BY <1>1, <2>4, <3>1, <3>2 DEF SplitAt
      <4> QED BY <1>10, <3>1, <3>2, <4>1
    <3>3. CASE k2 = n + 1
      <4>1. en[k1] \in Nat /\ en[k1] <= Len(u)
        BY <1>1, <3>1, FieldNumbers
      <4>2. en[k1] + 2 <= Len(a) + 1
        BY <1>4, <1>6, <4>1
      <4> QED BY <1>10, <3>1, <3>3, <4>2
    <3> QED BY <1>10, <3>2, <3>3
  <2> QED BY <1>6, <1>10, <2>1, <2>2, <2>3, <2>4 DEF SplitAt
<1>12. SplitInto(x, n + 1, v)
  BY <1>11 DEF SplitInto
<1> QED BY <1>5, <1>12 DEF x, a, c

(* How an address and a port are written.                                   *)
LEMMA HostWritten ==
    ASSUME NEW h, Host(h), NEW w \in Writings(h)
    PROVE  Written(w, h)
<1>1. PICK br \in {0, 1} : WrittenAs(w, h, br)
  BY WritingIs
<1>2. h \in Seq(Text) /\ h \in Seq(Plain \cup {":"}) /\ Len(h) \in Nat /\ Len(h) >= 1
  BY TextTypes, EmptySeq, LenProperties DEF Host
<1>3. /\ w \in Seq(Text) /\ Len(w) = Len(h) + br + br
      /\ \A k \in 1..Len(h) : w[br + k] = h[k]
      /\ br = 1 => w[1] = "[" /\ w[Len(w)] = "]"
      /\ br = 0 => h \in Seq(Plain)
  BY <1>1 DEF WrittenAs
<1>4. Span(1, Len(w), br, Len(h))
  <2>1. Len(w) = Len(h) + br + br
    BY <1>3
  <2> QED BY <1>2, <2>1 DEF Span
<1>5. ASSUME NEW m \in 1..Len(h)
      PROVE  w[1 + br + m - 1] = h[m] /\ (h[m] \notin Separators \/ (br = 1 /\ h[m] = ":"))
  <2>1. 1 + br + m - 1 = br + m
    OBVIOUS
  <2>2. h[m] \in Plain \cup {":"} /\ (br = 0 => h[m] \in Plain)
    BY <1>2, <1>3, ElementOfSeq
  <2> QED BY <1>3, <2>1, <2>2 DEF Plain
<1>6. Len(w) <= Len(w)
  BY <1>3, LenProperties
<1>7. FieldAt(w, 1, Len(w), br, h)
  BY <1>2, <1>3, <1>4, <1>5, <1>6 DEF FieldAt
<1> QED BY <1>3, <1>7 DEF Written

(* The digits of a port are written as they are.                            *)
LEMMA DigitsWritten ==
    ASSUME NEW n \in Nat \ {0}
    PROVE  Written(Digits(n), Digits(n))
<1> DEFINE D == Digits(n)
<1>1. D \in Seq(Text) /\ Len(D) = n /\ \A k \in 1..n : D[k] = "1"
  BY DigitsAre
<1> HIDE DEF D
<1>2. Span(1, n, 0, n)
  BY DEF Span
<1>3. ASSUME NEW m \in 1..Len(D) PROVE D[1 + 0 + m - 1] = D[m] /\ D[m] \notin Separators
  <2>1. 1 + 0 + m - 1 = m
    BY <1>1
  <2> QED BY <1>1, <2>1 DEF Separators, NUL
<1>4. FieldAt(D, 1, Len(D), 0, D)
  BY <1>1, <1>2, <1>3 DEF FieldAt
<1> QED BY <1>1, <1>4 DEF Written, D

(* A pair's remote end behind other fields.                                 *)
Regrouped(p, w, c, e) == p \o (w \o c \o e) = p \o w \o c \o e

(* The same text, taken from the left.                                      *)
LEMMA Regroup ==
    ASSUME NEW p \in Seq(Text), NEW w \in Seq(Text), NEW c \in Seq(Text), NEW e \in Seq(Text)
    PROVE  Regrouped(p, w, c, e)
<1>1. w \o c \in Seq(Text) /\ p \o w \in Seq(Text)
  BY Joined
<1>2. (p \o (w \o c)) \o e = p \o ((w \o c) \o e)
  BY <1>1, Assoc
<1>3. (p \o w) \o c = p \o (w \o c)
  BY Assoc
<1> QED BY <1>2, <1>3 DEF Regrouped

(* The fields v of a documented pair and what they mean.                    *)
PairMeans(n, v, f) ==
    /\ f.rport \in Nat \ {0}
    /\ \/ /\ n = 2 /\ v[1] = f.raddr /\ v[2] = Digits(f.rport)
          /\ f.laddr = Lo /\ f.lport = 0
       \/ /\ n = 3 /\ f.lport \in Nat \ {0} /\ f.laddr = Lo
          /\ v[1] = Digits(f.lport) /\ v[2] = f.raddr /\ v[3] = Digits(f.rport)
       \/ /\ n = 4 /\ f.lport \in Nat \ {0} /\ v[1] = f.laddr /\ v[2] = Digits(f.lport)
          /\ v[3] = f.raddr /\ v[4] = Digits(f.rport)

PairFields(x, f) == \E n, v : PairMeans(n, v, f) /\ SplitInto(x, n, v)

(* A documented pair consists of such fields.                               *)
LEMMA PairTextSplit ==
    ASSUME NEW x, NEW f, PairText(x, f)
    PROVE  PairFields(x, f)
<1> DEFINE c == <<":">>
           h == f.raddr
           g == f.laddr
           E == Digits(f.rport)
           D == Digits(f.lport)
<1>0. c \in Seq(Text)
  BY TextTypes DEF Separators
<1>1. Host(h) /\ f.rport \in Nat \ {0}
  BY DEF PairText
<1>2. PICK w \in Writings(h) :
          LET r == w \o <<":">> \o Digits(f.rport) IN
          \/ x = r /\ f.laddr = Lo /\ f.lport = 0
          \/ /\ f.lport \in Nat \ {0}
             /\ \/ f.laddr = Lo /\ x = Digits(f.lport) \o <<":">> \o r
                \/ /\ Host(f.laddr)
                   /\ \E v \in Writings(f.laddr) :
                         x = v \o <<":">> \o Digits(f.lport) \o <<":">> \o r
  BY DEF PairText
<1>3. Written(w, h) /\ Written(E, E) /\ w \in Seq(Text) /\ E \in Seq(Text)
  BY <1>1, HostWritten, DigitsWritten DEF Written
<1>4. ASSUME f.lport \in Nat \ {0} PROVE Written(D, D) /\ D \in Seq(Text)
  BY <1>4, DigitsWritten DEF Written
<1>5. \/ x = w \o c \o E /\ g = Lo /\ f.lport = 0
      \/ f.lport \in Nat \ {0} /\ g = Lo /\ x = D \o c \o (w \o c \o E)
      \/ /\ f.lport \in Nat \ {0} /\ Host(g)
         /\ \E z \in Writings(g) : x = z \o c \o D \o c \o (w \o c \o E)
  BY <1>2
<1>6. CASE x = w \o c \o E /\ g = Lo /\ f.lport = 0
  <2> DEFINE v == <<h, E>>
  <2>1. v[1] = h /\ v[2] = E
    OBVIOUS
  <2>2. PairMeans(2, v, f)
    BY <1>1, <1>6, <2>1 DEF PairMeans
  <2> HIDE DEF v, E
  <2>3. SplitInto(w, 1, v)
    BY <1>3, <2>1, SplitOne
  <2>4. 1 \in 1..3 /\ 1 + 1 = 2
    OBVIOUS
  <2>5. SplitInto(w \o c \o E, 2, v)
    BY <1>3, <2>1, <2>3, <2>4, SplitMore
  <2> QED BY <1>6, <2>2, <2>5 DEF PairFields
<1>7. CASE f.lport \in Nat \ {0} /\ g = Lo /\ x = D \o c \o (w \o c \o E)
  <2> DEFINE v == <<D, h, E>>
             u == D \o c \o w
  <2>1. v[1] = D /\ v[2] = h /\ v[3] = E
    OBVIOUS
  <2>2. PairMeans(3, v, f)
    BY <1>1, <1>7, <2>1 DEF PairMeans
  <2>d. Written(D, D) /\ D \in Seq(Text)
    BY <1>4, <1>7
  <2>x. x = D \o c \o (w \o c \o E)
    BY <1>7
  <2> HIDE DEF v, E, D
  <2>3. SplitInto(D, 1, v)
    BY <2>d, <2>1, SplitOne
  <2>4. 1 \in 1..3 /\ 1 + 1 = 2 /\ 2 \in 1..3 /\ 2 + 1 = 3
    OBVIOUS
  <2>5. SplitInto(u, 2, v) /\ u \in Seq(Text)
    BY <1>3, <2>d, <2>1, <2>3, <2>4, SplitMore
  <2>6. x = u \o c \o E
    <3>1. D \o c \in Seq(Text)
      BY <1>0, <2>d, Joined
    <3> DEFINE p == D \o c
    <3> HIDE DEF c, p
    <3>2. p \in Seq(Text) /\ c \in Seq(Text) /\ w \in Seq(Text) /\ E \in Seq(Text)
      BY <1>0, <1>3, <3>1 DEF p
    <3>3. Regrouped(p, w, c, E)
      BY <3>2, Regroup
    <3> QED BY <2>x, <3>3 DEF p, Regrouped
  <2> HIDE DEF u
  <2>7. SplitInto(u \o c \o E, 3, v)
    BY <1>3, <2>1, <2>4, <2>5, SplitMore
  <2> QED BY <2>2, <2>6, <2>7 DEF PairFields
<1>8. CASE /\ f.lport \in Nat \ {0} /\ Host(g)
           /\ \E z \in Writings(g) : x = z \o c \o D \o c \o (w \o c \o E)
  <2>0. PICK z \in Writings(g) : x = z \o c \o D \o c \o (w \o c \o E)
    BY <1>8
  <2> DEFINE v == <<g, D, h, E>>
             u == z \o c \o D
             o == u \o c \o w
  <2>1. v[1] = g /\ v[2] = D /\ v[3] = h /\ v[4] = E
    OBVIOUS
  <2>2. PairMeans(4, v, f)
    BY <1>1, <1>8, <2>1 DEF PairMeans
  <2>d. Written(D, D) /\ D \in Seq(Text) /\ Written(z, g) /\ z \in Seq(Text)
    BY <1>4, <1>8, HostWritten DEF Written
  <2> HIDE DEF v, E, D
  <2>3. SplitInto(z, 1, v)
    BY <2>d, <2>1, SplitOne
  <2>4. 1 \in 1..3 /\ 1 + 1 = 2 /\ 2 \in 1..3 /\ 2 + 1 = 3 /\ 3 \in 1..3 /\ 3 + 1 = 4
    OBVIOUS
  <2>5. SplitInto(u, 2, v) /\ u \in Seq(Text)
    BY <2>d, <2>1, <2>3, <2>4, SplitMore
  <2>x. x = u \o c \o (w \o c \o E)
    BY <2>0
  <2> HIDE DEF u
  <2>6. SplitInto(o, 3, v) /\ o \in Seq(Text)
    BY <1>3, <2>1, <2>4, <2>5, SplitMore
  <2>7. x = o \o c \o E
    <3>1. u \o c \in Seq(Text)
      BY <1>0, <2>5, Joined
    <3> DEFINE p == u \o c
    <3> HIDE DEF c, p
    <3>2. p \in Seq(Text) /\ c \in Seq(Text) /\ w \in Seq(Text) /\ E \in Seq(Text)
      BY <1>0, <1>3, <3>1 DEF p
    <3>3. Regrouped(p, w, c, E)
      BY <3>2, Regroup
    <3> QED BY <2>x, <3>3 DEF p, Regrouped
  <2> HIDE DEF o
  <2>8. SplitInto(o \o c \o E, 4, v)
    BY <1>3, <2>1, <2>4, <2>6, SplitMore
  <2> QED BY <2>2, <2>7, <2>8 DEF PairFields
<1> QED BY <1>5, <1>6, <1>7, <1>8

-----------------------------------------------------------------------------
(* A documented command line behind getopt.                                 *)

(* The options on are those of the documented mode.                         *)
OptionsMean ==
    /\ form.kind \in Modes \ {"NONE"}
    /\ "s" \in on <=> form.kind = "SERVER"
    /\ "f" \in on <=> form.kind \in {"FORWARDER_TERM", "FORWARDER_PORT", "FORWARDER_SOCK"}
    /\ "p" \in on <=> form.kind \in {"FORWARDER_PORT", "CONNECTOR_PORT"}
    /\ "x" \in on <=> form.kind \in {"FORWARDER_SOCK", "CONNECTOR_SOCK"}
    /\ "k" \notin on

(* Behind getopt the options on are those of the documented mode.           *)
LEMMA ModeOptionsMean ==
    ASSUME OfForm(given, form), Agrees
    PROVE  OptionsMean
<1> DEFINE M == {"s", "f", "p", "x"}
<1>1. /\ form.kind \in {"SERVER", "FORWARDER_TERM", "FORWARDER_PORT", "FORWARDER_SOCK",
                        "CONNECTOR_TERM", "CONNECTOR_PORT", "CONNECTOR_SOCK"}
      /\ on \cap M = ModeOptions(form.kind) /\ "k" \notin on
  BY DEF OfForm, Agrees
<1>2. \A o \in M : o \in on <=> o \in ModeOptions(form.kind)
  BY <1>1
<1>3. form.kind \in Modes \ {"NONE"}
  BY <1>1 DEF Modes, Connectors
<1>4. CASE form.kind = "SERVER"
  <2>1. ModeOptions(form.kind) = {"s"}
    BY <1>4 DEF ModeOptions
  <2> QED BY <1>1, <1>2, <1>3, <1>4, <2>1 DEF OptionsMean
<1>5. CASE form.kind = "FORWARDER_TERM"
  <2>1. ModeOptions(form.kind) = {"f"}
    BY <1>5 DEF ModeOptions
  <2> QED BY <1>1, <1>2, <1>3, <1>5, <2>1 DEF OptionsMean
<1>6. CASE form.kind = "FORWARDER_PORT"
  <2>1. ModeOptions(form.kind) = {"f", "p"}
    BY <1>6 DEF ModeOptions
  <2> QED BY <1>1, <1>2, <1>3, <1>6, <2>1 DEF OptionsMean
<1>7. CASE form.kind = "FORWARDER_SOCK"
  <2>1. ModeOptions(form.kind) = {"f", "x"}
    BY <1>7 DEF ModeOptions
  <2> QED BY <1>1, <1>2, <1>3, <1>7, <2>1 DEF OptionsMean
<1>8. CASE form.kind = "CONNECTOR_TERM"
  <2>1. ModeOptions(form.kind) = {}
    BY <1>8 DEF ModeOptions
  <2> QED BY <1>1, <1>2, <1>3, <1>8, <2>1 DEF OptionsMean
<1>9. CASE form.kind = "CONNECTOR_PORT"
  <2>1. ModeOptions(form.kind) = {"p"}
    BY <1>9 DEF ModeOptions
  <2> QED BY <1>1, <1>2, <1>3, <1>9, <2>1 DEF OptionsMean
<1>10. CASE form.kind = "CONNECTOR_SOCK"
  <2>1. ModeOptions(form.kind) = {"x"}
    BY <1>10 DEF ModeOptions
  <2> QED BY <1>1, <1>2, <1>3, <1>10, <2>1 DEF OptionsMean
<1> QED BY <1>1, <1>4, <1>5, <1>6, <1>7, <1>8, <1>9, <1>10

(* t1 and t2 are the operands.                                              *)
LEMMA OperandTexts ==
    ASSUME CommandInv, Agrees
    PROVE  LET o == GnuScan(given).operands IN
           /\ o \in Seq(Seq(Char)) /\ Len(o) \in Nat
           /\ \A n \in Nat : n < Len(o) => T(n) = o[n + 1] /\ o[n + 1] \in Seq(Char)
           /\ \A n \in Nat : n >= Len(o) => T(n) = NULL
<1> DEFINE o == GnuScan(given).operands
           m == optind
           N == Len(argv)
<1>1. o = SubSeq(argv, m, N) /\ argv \in Seq(Seq(Char)) /\ N \in Nat /\ m \in Nat
      /\ 1 <= m /\ m <= N + 1
  BY LenProperties DEF Agrees, CommandInv, WordInv
<1>2. \A k \in m..N : argv[k] \in Seq(Char)
  <2> SUFFICES ASSUME NEW k \in m..N PROVE argv[k] \in Seq(Char)
    OBVIOUS
  <2>1. k \in 1..N
    BY <1>1
  <2> QED BY <1>1, <2>1, ElementOfSeq
<1>3. /\ o \in Seq(Seq(Char)) /\ Len(o) = (IF m <= N THEN N - m + 1 ELSE 0)
      /\ \A k \in 1..(N - m + 1) : o[k] = argv[m + k - 1]
  BY <1>1, <1>2, SubSeqProperties
<1>4. Len(o) = N - m + 1 /\ Len(o) \in Nat
  BY <1>1, <1>3
<1> HIDE DEF o
<1>5. ASSUME NEW n \in Nat, n < Len(o) PROVE T(n) = o[n + 1] /\ o[n + 1] \in Seq(Char)
  <2>1. n + 1 \in 1..(N - m + 1) /\ m + (n + 1) - 1 = m + n /\ m + n <= N /\ m + n \in m..N
    BY <1>1, <1>4, <1>5
  <2>2. o[n + 1] = argv[m + n]
    BY <1>3, <2>1
  <2> QED BY <1>2, <2>1, <2>2 DEF T
<1>6. ASSUME NEW n \in Nat, n >= Len(o) PROVE T(n) = NULL
  <2>1. ~(m + n <= N)
    BY <1>1, <1>4, <1>6
  <2> QED BY <2>1 DEF T
<1> QED BY <1>3, <1>4, <1>5, <1>6 DEF o

(* The text that Operands hands to parse_addr.                              *)
ServerOperand == IF "s" \notin on /\ PairFirst THEN T(1) ELSE T(0)

(* It is the documented text of the server's address, or missing for a      *)
(* server.                                                                  *)
LEMMA ServerOperandIs ==
    ASSUME CommandInv, Agrees, OfForm(given, form)
    PROVE  \/ /\ form.kind = "SERVER" /\ ServerOperand = NULL
              /\ form.host = <<"0.0.0.0">> /\ form.port = <<"6339">> /\ form.token = NULL
           \/ ServerOperand \in Seq(Char) /\ ServerText(ServerOperand, form)
<1> DEFINE o == GnuScan(given).operands
<1>1. /\ o \in Seq(Seq(Char)) /\ Len(o) \in Nat
      /\ \A n \in Nat : n < Len(o) => T(n) = o[n + 1] /\ o[n + 1] \in Seq(Char)
      /\ \A n \in Nat : n >= Len(o) => T(n) = NULL
  BY OperandTexts
<1>2. OptionsMean
  BY ModeOptionsMean
<1>3. /\ IF form.kind = "SERVER" /\ o = <<>>
         THEN form.host = <<"0.0.0.0">> /\ form.port = <<"6339">> /\ form.token = NULL
         ELSE o # <<>> /\ ServerText(Last(o), form)
      /\ form.kind \in {"CONNECTOR_PORT", "CONNECTOR_SOCK"} => Len(o) = 2
      /\ form.kind \notin {"CONNECTOR_PORT", "CONNECTOR_SOCK"} => Len(o) <= 1
  BY DEF OfForm
<1> HIDE DEF o
<1>4. "s" \notin on /\ PairFirst <=> form.kind \in {"CONNECTOR_PORT", "CONNECTOR_SOCK"}
  BY <1>2 DEF OptionsMean, PairFirst, Forward, Port, Sock
<1>5. CASE form.kind = "SERVER" /\ o = <<>>
  <2>1. Len(o) = 0
    BY <1>5, EmptySeq
  <2>2. T(0) = NULL
    BY <1>1, <2>1
  <2> QED BY <1>3, <1>4, <1>5, <2>2 DEF ServerOperand
<1>6. CASE ~(form.kind = "SERVER" /\ o = <<>>)
  <2>1. o # <<>> /\ ServerText(Last(o), form)
    BY <1>3, <1>6
  <2>2. Len(o) # 0
    BY <1>1, <2>1, EmptySeq
  <2>l. Last(o) = o[Len(o)]
    BY DEF Last
  <2>3. CASE form.kind \in {"CONNECTOR_PORT", "CONNECTOR_SOCK"}
    <3>1. Len(o) = 2
      BY <1>3, <2>3
    <3>2. T(1) = o[1 + 1] /\ o[1 + 1] \in Seq(Char)
      BY <1>1, <3>1
    <3> QED BY <1>4, <2>1, <2>3, <2>l, <3>1, <3>2 DEF ServerOperand
  <2>4. CASE form.kind \notin {"CONNECTOR_PORT", "CONNECTOR_SOCK"}
    <3>1. Len(o) = 1
      <4>1. Len(o) <= 1 /\ Len(o) \in Nat
        BY <1>1, <1>3, <2>4
      <4> DEFINE L == Len(o)
      <4>2. L <= 1 /\ L \in Nat /\ L # 0
        BY <2>2, <4>1
      <4> HIDE DEF L
      <4>3. L = 1
        BY <4>2
      <4> QED BY <4>3 DEF L
    <3>2. T(0) = o[0 + 1] /\ o[0 + 1] \in Seq(Char)
      BY <1>1, <3>1
    <3> QED BY <1>4, <2>1, <2>4, <2>l, <3>1, <3>2 DEF ServerOperand
  <2> QED BY <2>3, <2>4
<1> QED BY <1>5, <1>6

(* The first operand of a connector with a pair.                            *)
LEMMA FirstOperandIs ==
    ASSUME CommandInv, Agrees, OfForm(given, form)
    PROVE  /\ form.kind = "CONNECTOR_PORT" => T(0) \in Seq(Char) /\ PairText(T(0), form)
           /\ form.kind = "CONNECTOR_SOCK" => T(0) \in Seq(Char) /\ LocalText(T(0), form)
<1> DEFINE o == GnuScan(given).operands
<1>1. \A n \in Nat : n < Len(o) => T(n) = o[n + 1] /\ o[n + 1] \in Seq(Char)
  BY OperandTexts
<1>2. /\ form.kind = "CONNECTOR_PORT" => Len(o) = 2 /\ PairText(o[1], form)
      /\ form.kind = "CONNECTOR_SOCK" => Len(o) = 2 /\ LocalText(o[1], form)
  BY DEF OfForm
<1> HIDE DEF o
<1>3. Len(o) = 2 => T(0) = o[1] /\ o[1] \in Seq(Char)
  <2> SUFFICES ASSUME Len(o) = 2 PROVE T(0) = o[1] /\ o[1] \in Seq(Char)
    OBVIOUS
  <2>1. T(0) = o[0 + 1] /\ o[0 + 1] \in Seq(Char)
    BY <1>1
  <2> QED BY <2>1
<1> QED BY <1>2, <1>3

(* What the parts of the server's text mean.                                *)
ServerMeans(p, t) ==
    /\ form.port = (IF p = NULL THEN <<"6339">> ELSE p)
    /\ form.token = (IF form.kind = "SERVER" THEN NULL ELSE t)
ServerCall == \E p, t : ServerMeans(p, t) /\ AddrCall(form.host, p, t)

(* ADDR[:PORT][/TOKEN] is handed to parse_addr.                             *)
LEMMA AddrTextCalled ==
    ASSUME NEW x \in Seq(Char), NEW h, NEW p, NEW t, AddrText(x, h, p, t), Call("addr", x)
    PROVE  AddrCall(h, p, t)'
<1>1. Host(h) /\ p \in Seq(Plain) \cup {NULL} /\ t \in Seq(Plain) \cup {NULL}
  BY DEF AddrText
<1>2. PICK w \in Writings(h) : x = w \o Part(":", p) \o Part("/", t)
  BY DEF AddrText
<1>3. <<>> \in Seq(Char)
  BY EmptySeq
<1>4. x \o <<>> = x
  BY ConcatEmptySeq
<1>5. MadeOf(x, w, p, t, <<>>)
  BY <1>2, <1>4 DEF MadeOf
<1> QED BY <1>1, <1>3, <1>5, AddrCalled

(* The documented text of the server's address is handed to parse_addr.     *)
LEMMA ServerCalled ==
    ASSUME NEW x \in Seq(Char), ServerText(x, form), Call("addr", x), form' = form
    PROVE  ServerCall'
<1>1. PICK p, t : /\ AddrText(x, form.host, p, t)
                  /\ form.port = (IF p = NULL THEN <<"6339">> ELSE p)
                  /\ form.token = (IF form.kind = "SERVER" THEN NULL ELSE t)
  BY DEF ServerText
<1>2. AddrCall(form.host, p, t)'
  <2>0. PICK h : h = form.host
    OBVIOUS
  <2>1. AddrText(x, h, p, t)
    BY <1>1, <2>0
  <2>2. form'.host = h
    BY <2>0
  <2>3. AddrCall(h, p, t)'
    BY <2>1, AddrTextCalled
  <2> QED BY <2>2, <2>3
<1>3. ServerMeans(p, t)'
  BY <1>1 DEF ServerMeans
<1> QED BY <1>2, <1>3 DEF ServerCall

-----------------------------------------------------------------------------
(* The text of an address list: R[k] is what is left of it behind k         *)
(* elements and the comma.                                                  *)
Behind(l, R, k) == IF k = Len(l) THEN <<>> ELSE <<",">> \o R[k]
RestIs(l, R, k) ==
    \E w \in Writings(l[k + 1].addr) : R[k] = w \o <<":">> \o Digits(l[k + 1].port) \o Behind(l, R, k + 1)
Rests(l, R) ==
    /\ l \in Seq(Items) /\ R \in [0..Len(l) -> Seq(Char)] /\ R[Len(l)] = <<>>
    /\ \A k \in 0..(Len(l) - 1) : RestIs(l, R, k)

(* The whole of a sequence.                                                 *)
LEMMA WholeText ==
    ASSUME NEW S, NEW x \in Seq(S)
    PROVE  SubSeq(x, 1, Len(x)) = x
<1>1. Len(x) \in Nat /\ \A k \in 1..Len(x) : x[k] \in S
  BY LenProperties, ElementOfSeq
<1>2. /\ SubSeq(x, 1, Len(x)) \in Seq(S)
      /\ Len(SubSeq(x, 1, Len(x))) = (IF 1 <= Len(x) THEN Len(x) - 1 + 1 ELSE 0)
      /\ \A k \in 1..(Len(x) - 1 + 1) : SubSeq(x, 1, Len(x))[k] = x[1 + k - 1]
  BY <1>1, SubSeqProperties
<1>3. Len(SubSeq(x, 1, Len(x))) = Len(x) /\ Len(x) - 1 + 1 = Len(x)
  BY <1>1, <1>2
<1>4. ASSUME NEW k \in 1..Len(x) PROVE SubSeq(x, 1, Len(x))[k] = x[k]
  <2>1. 1 + k - 1 = k
    BY <1>1
  <2> QED BY <1>2, <1>3, <2>1
<1> QED BY <1>2, <1>3, <1>4, SeqEqual

(* The rests of a documented list; the first is the whole text.             *)
LEMMA ListRests ==
    ASSUME NEW x \in Seq(Char), NEW l, ListText(x, l)
    PROVE  \E R : Rests(l, R) /\ R[0] = x
<1>0. l \in Seq(Items) /\ Len(l) \in Nat /\ Len(x) \in Nat
  BY LenProperties DEF ListText
<1>1. CASE l = <<>>
  <2> DEFINE R == [k \in 0..Len(l) |-> <<>>]
  <2>0. <<>> \in Seq(Char) /\ Len(l) = 0
    BY <1>1, EmptySeq
  <2>1. R \in [0..Len(l) -> Seq(Char)] /\ R[Len(l)] = <<>> /\ R[0] = <<>>
    BY <2>0
  <2>2. 0..(Len(l) - 1) = {}
    BY <2>0
  <2> HIDE DEF R
  <2>3. Rests(l, R)
    BY <1>0, <2>1, <2>2 DEF Rests
  <2>4. x = <<>>
    BY <1>1 DEF ListText
  <2> QED BY <2>1, <2>3, <2>4
<1>2. CASE l # <<>>
  <2>0. Len(l) >= 1
    BY <1>0, <1>2, EmptySeq
  <2>1. PICK st \in [1..Len(l) -> 1..Len(x)] :
          /\ st[1] = 1
          /\ \A k \in 1..Len(l) : \E w \in Writings(l[k].addr) :
                SubSeq(x, st[k], Len(x)) = w \o <<":">> \o Digits(l[k].port) \o
                    IF k = Len(l) THEN <<>>
                    ELSE <<",">> \o SubSeq(x, st[k + 1], Len(x))
    BY <1>2 DEF ListText
  <2> DEFINE R == [k \in 0..Len(l) |-> IF k = Len(l) THEN <<>> ELSE SubSeq(x, st[k + 1], Len(x))]
  <2>2. R[Len(l)] = <<>> /\ \A k \in 0..(Len(l) - 1) : R[k] = SubSeq(x, st[k + 1], Len(x))
    <3>1. Len(l) \in 0..Len(l) /\ \A k \in 0..(Len(l) - 1) : k \in 0..Len(l) /\ k # Len(l)
      BY <1>0
    <3> QED BY <3>1
  <2>3. \A k \in 0..(Len(l) - 1) : SubSeq(x, st[k + 1], Len(x)) \in Seq(Char)
    <3> SUFFICES ASSUME NEW k \in 0..(Len(l) - 1) PROVE SubSeq(x, st[k + 1], Len(x)) \in Seq(Char)
      OBVIOUS
    <3>0. k + 1 \in 1..Len(l)
      BY <1>0
    <3>1. st[k + 1] \in 1..Len(x)
      BY <3>0
    <3>2. \A m \in st[k + 1]..Len(x) : x[m] \in Char
      BY <1>0, <3>1, ElementOfSeq
    <3> QED BY <1>0, <3>1, <3>2, SubSeqProperties
  <2>4. R \in [0..Len(l) -> Seq(Char)]
    <3>1. <<>> \in Seq(Char)
      BY EmptySeq
    <3>2. \A k \in 0..Len(l) : k # Len(l) => k \in 0..(Len(l) - 1)
      BY <1>0
    <3> QED BY <2>3, <3>1, <3>2
  <2>5. R[0] = x
    <3>1. 0 \in 0..(Len(l) - 1) /\ 0 + 1 = 1
      BY <1>0, <2>0
    <3>2. R[0] = SubSeq(x, 1, Len(x))
      BY <2>1, <2>2, <3>1
    <3> QED BY <3>2, WholeText
  <2> HIDE DEF R
  <2>6. ASSUME NEW k \in 0..(Len(l) - 1) PROVE RestIs(l, R, k)
    <3>1. k + 1 \in 1..Len(l)
      BY <1>0
    <3>2. PICK w \in Writings(l[k + 1].addr) :
                SubSeq(x, st[k + 1], Len(x)) = w \o <<":">> \o Digits(l[k + 1].port) \o
                    IF k + 1 = Len(l) THEN <<>>
                    ELSE <<",">> \o SubSeq(x, st[k + 1 + 1], Len(x))
      BY <2>1, <3>1
    <3>3. Behind(l, R, k + 1) = IF k + 1 = Len(l) THEN <<>>
                    ELSE <<",">> \o SubSeq(x, st[k + 1 + 1], Len(x))
      <4>1. k + 1 # Len(l) => k + 1 \in 0..(Len(l) - 1)
        BY <1>0, <3>1
      <4> QED BY <2>2, <4>1 DEF Behind
    <3> QED BY <2>2, <3>2, <3>3 DEF RestIs
  <2>7. Rests(l, R)
    BY <1>0, <2>2, <2>4, <2>6 DEF Rests
  <2> QED BY <2>5, <2>7
<1> QED BY <1>1, <1>2

(* The address of an element can be written.                                *)
LEMMA ItemHost ==
    ASSUME NEW h \in {<<"4">>, <<"6">>, <<"m">>}, NEW w \in Writings(h), NEW n \in Nat,
           NEW r \in Seq(Text), NEW x \in Seq(Char), ItemOf(x, w, n, r)
    PROVE  Host(h) /\ r \in Seq(Char)
<1>h. h \in Seq(Text) /\ Len(h) = 1 /\ h[1] \in {"4", "6", "m"} /\ h # <<>>
  <2>1. {"4", "6", "m"} \subseteq Text
    BY DEF Text
  <2>2. CASE h = <<"4">>
    BY <2>1, <2>2
  <2>3. CASE h = <<"6">>
    BY <2>1, <2>3
  <2>4. CASE h = <<"m">>
    BY <2>1, <2>4
  <2> QED BY <2>2, <2>3, <2>4
<1> DEFINE a == <<"[">>
           z == <<"]">>
           c == <<":">>
           D == Digits(n)
           u == w \o c
           v == u \o D
<1>0. a \in Seq(Text) /\ Len(a) = 1 /\ z \in Seq(Text) /\ c \in Seq(Text) /\ D \in Seq(Text)
  BY TextTypes, DigitsAre DEF Separators
<1>w. w = a \o h \o z \/ (w = h /\ h \in Seq(Plain))
  BY DEF Writings
<1>x. x = v \o r
  BY DEF ItemOf
<1> HIDE DEF a, z, c, D
<1>1. a \o h \in Seq(Text) /\ a \o h \o z \in Seq(Text)
  <2>1. a \o h \in Seq(Text)
    BY <1>h, <1>0, Joined
  <2> QED BY <1>0, <2>1, Joined
<1>2. w \in Seq(Text)
  BY <1>h, <1>w, <1>1
<1>3. u \in Seq(Text) /\ Len(u) = Len(w) + Len(c) /\ Len(w) \in Nat /\ Len(c) \in Nat
      /\ \A k \in 1..Len(w) : u[k] = w[k]
  BY <1>0, <1>2, Joined
<1> HIDE DEF u
<1>4. v \in Seq(Text) /\ Len(v) = Len(u) + Len(D) /\ Len(u) \in Nat /\ Len(D) \in Nat
      /\ \A k \in 1..Len(u) : v[k] = u[k]
  BY <1>0, <1>3, Joined
<1> HIDE DEF v
<1>5. Len(v \o r) = Len(v) + Len(r) /\ Len(v) \in Nat /\ Len(r) \in Nat
      /\ (\A k \in 1..Len(v) : (v \o r)[k] = v[k])
      /\ (\A k \in 1..Len(r) : (v \o r)[Len(v) + k] = r[k])
  BY <1>4, Joined
<1>n. /\ Len(u) = Len(w) + Len(c) /\ Len(w) \in Nat /\ Len(c) \in Nat
      /\ Len(v) = Len(u) + Len(D) /\ Len(D) \in Nat /\ Len(r) \in Nat
      /\ Len(x) = Len(v) + Len(r) /\ Len(v) \in Nat
  BY <1>3, <1>4, <1>5, <1>x
<1>6. r \in Seq(Char)
  <2> SUFFICES ASSUME NEW k \in 1..Len(r) PROVE r[k] \in Char
    BY SeqOfElements
  <2>1. Len(v) + k \in 1..Len(x)
    BY <1>n
  <2>2. x[Len(v) + k] \in Char
    BY <2>1, ElementOfSeq
  <2> QED BY <1>5, <1>x, <2>2
<1>7. \A k \in 1..Len(w) : w[k] \in Char
  <2> SUFFICES ASSUME NEW k \in 1..Len(w) PROVE w[k] \in Char
    OBVIOUS
  <2>1. k \in 1..Len(u) /\ k \in 1..Len(v) /\ k \in 1..Len(x)
    BY <1>n
  <2>2. x[k] \in Char
    BY <2>1, ElementOfSeq
  <2> QED BY <1>3, <1>4, <1>5, <1>x, <2>1, <2>2
<1>8. h[1] \in Char
  <2>1. CASE w = h
    <3>1. 1 \in 1..Len(w)
      BY <1>h, <2>1
    <3> QED BY <1>7, <2>1, <3>1
  <2>2. CASE w = a \o h \o z
    <3>1. /\ Len(a \o h) = Len(a) + Len(h) /\ \A k \in 1..Len(h) : (a \o h)[Len(a) + k] = h[k]
      BY <1>h, <1>0, Joined
    <3>2. Len(a \o h) = 2 /\ (a \o h)[2] = h[1]
      <4>1. 1 \in 1..Len(h) /\ Len(a) + 1 = 2 /\ Len(a) + Len(h) = 2
        BY <1>h, <1>0
      <4> QED BY <3>1, <4>1
    <3> DEFINE y == a \o h
    <3>y. y \in Seq(Text) /\ Len(y) = 2 /\ y[2] = h[1]
      BY <1>1, <3>2
    <3> HIDE DEF y
    <3>3. /\ Len(y \o z) = Len(y) + Len(z) /\ Len(z) \in Nat
          /\ \A k \in 1..Len(y) : (y \o z)[k] = y[k]
      BY <1>0, <3>y, Joined
    <3>4. w = y \o z
      BY <2>2 DEF y
    <3>5. 2 \in 1..Len(y) /\ 2 \in 1..Len(w)
      BY <3>y, <3>3, <3>4
    <3>6. w[2] = h[1]
      BY <3>y, <3>3, <3>4, <3>5
    <3> QED BY <1>7, <3>5, <3>6
  <2> QED BY <1>w, <2>1, <2>2
<1>9. h \in Seq(Plain \cup {":"})
  <2>1. h[1] \in Plain
    BY <1>h, <1>8 DEF Plain, Separators, NUL
  <2>2. \A k \in 1..Len(h) : h[k] \in Plain \cup {":"}
    BY <1>h, <2>1
  <2> QED BY <1>h, <2>2, SeqOfElements
<1> QED BY <1>h, <1>6, <1>9 DEF Host

(* No comma in an element.                                                  *)
LEMMA NoComma ==
    ASSUME NEW w, NEW h, Written(w, h), NEW k \in 1..Len(w)
    PROVE  w[k] # ","
<1>1. PICK br \in {0, 1} : FieldAt(w, 1, Len(w), br, h)
  BY DEF Written
<1>2. Span(1, Len(w), br, Len(h)) /\ (br = 1 => w[1] = "[" /\ w[Len(w)] = "]")
      /\ \A m \in 1..Len(h) :
          /\ w[1 + br + m - 1] = h[m]
          /\ h[m] \notin Separators \/ (br = 1 /\ h[m] = ":")
  BY <1>1 DEF FieldAt
<1>3. Len(w) \in Nat /\ Len(h) \in Nat /\ 1 + br + br + Len(h) = Len(w) + 1
  BY <1>2 DEF Span
<1>4. CASE br = 1 /\ (k = 1 \/ k = Len(w))
  BY <1>2, <1>4
<1>5. CASE ~(br = 1 /\ (k = 1 \/ k = Len(w)))
  <2>1. k - br \in 1..Len(h) /\ 1 + br + (k - br) - 1 = k
    BY <1>3, <1>5
  <2>2. w[k] = h[k - br] /\ (h[k - br] \notin Separators \/ h[k - br] = ":")
    BY <1>2, <2>1
  <2> QED BY <2>2 DEF Separators
<1> QED BY <1>4, <1>5

(* An element up to its comma, and what FromComma skips to.                 *)
LEMMA CommaIs ==
    ASSUME NEW h, Host(h), NEW w \in Writings(h), NEW n \in Nat,
           NEW r \in Seq(Char), NEW x \in Seq(Char), ItemOf(x, w, n, r)
    PROVE  x # <<>> /\ Head(x) # "," /\ FromComma(x) = r
<1> DEFINE c == <<":">>
           D == Digits(n)
           u == w \o c
           v == u \o D
           e == Len(v) + 1
<1>0. Written(w, h) /\ w \in Seq(Text) /\ c \in Seq(Text) /\ Len(c) = 1 /\ c[1] = ":"
      /\ D \in Seq(Text) /\ r \in Seq(Text)
      /\ Len(D) = n /\ \A k \in 1..n : D[k] = "1"
  BY HostWritten, TextTypes, DigitsAre DEF Separators, Written
<1>x. x = v \o r /\ (r = <<>> \/ r[1] = ",")
  BY DEF ItemOf
<1>c. \A k \in 1..Len(w) : w[k] # ","
  BY <1>0, NoComma
<1> HIDE DEF c, D
<1>3. u \in Seq(Text) /\ Len(u) = Len(w) + Len(c) /\ Len(w) \in Nat /\ Len(c) \in Nat
      /\ (\A k \in 1..Len(w) : u[k] = w[k]) /\ (\A k \in 1..Len(c) : u[Len(w) + k] = c[k])
  BY <1>0, Joined
<1> HIDE DEF u
<1>4. v \in Seq(Text) /\ Len(v) = Len(u) + Len(D) /\ Len(u) \in Nat /\ Len(D) \in Nat
      /\ (\A k \in 1..Len(u) : v[k] = u[k]) /\ (\A k \in 1..Len(D) : v[Len(u) + k] = D[k])
  BY <1>0, <1>3, Joined
<1> HIDE DEF v
<1>5. Len(v \o r) = Len(v) + Len(r) /\ Len(v) \in Nat /\ Len(r) \in Nat
      /\ (\A k \in 1..Len(v) : (v \o r)[k] = v[k])
      /\ (\A k \in 1..Len(r) : (v \o r)[Len(v) + k] = r[k])
  BY <1>0, <1>4, Joined
<1>n. /\ Len(u) = Len(w) + 1 /\ Len(w) \in Nat /\ Len(u) \in Nat
      /\ Len(v) = Len(u) + Len(D) /\ Len(D) \in Nat /\ Len(r) \in Nat
      /\ Len(x) = Len(v) + Len(r) /\ Len(v) \in Nat
  BY <1>0, <1>3, <1>4, <1>5, <1>x
<1>6. ASSUME NEW k \in 1..Len(u) PROVE u[k] # ","
  <2>1. CASE k \in 1..Len(w)
    BY <1>c, <1>3, <2>1
  <2>2. CASE k = Len(w) + 1
    <3>1. 1 \in 1..Len(c)
      BY <1>0
    <3> QED BY <1>0, <1>3, <2>2, <3>1
  <2>3. k \in 1..Len(w) \/ k = Len(w) + 1
    BY <1>n
  <2> QED BY <2>1, <2>2, <2>3
<1>7. ASSUME NEW k \in 1..Len(v) PROVE v[k] # ","
  <2>1. CASE k \in 1..Len(u)
    BY <1>4, <1>6, <2>1
  <2>2. CASE k \notin 1..Len(u)
    <3>1. k - Len(u) \in 1..Len(D) /\ Len(u) + (k - Len(u)) = k
      BY <1>n, <2>2
    <3>2. D[k - Len(u)] = "1"
      BY <1>0, <3>1
    <3> QED BY <1>4, <3>1, <3>2
  <2> QED BY <2>1, <2>2
<1>8. \A k \in 1..Len(v) : x[k] # ","
  BY <1>5, <1>7, <1>x
<1>9. x # <<>> /\ Head(x) # ","
  <2>1. 1 \in 1..Len(v) /\ Len(x) # 0 /\ Len(x) \in Nat
    BY <1>n
  <2>2. x # <<>>
    BY <2>1, EmptySeq
  <2>3. Head(x) = x[1]
    BY <2>2, HeadTailProperties
  <2> QED BY <1>8, <2>1, <2>2, <2>3
<1> DEFINE L == Len(x)
           K == Len(v)
           R == Len(r)
<1>e. e \in Nat /\ L \in Nat /\ K \in Nat /\ R \in Nat /\ e = K + 1 /\ L = K + R
  BY <1>n
<1>y. (\A k \in 1..K : x[k] # ",") /\ \A k \in 1..R : x[K + k] = r[k]
  BY <1>5, <1>8, <1>x
<1>z. /\ Len(x) = L /\ Len(r) = R
  OBVIOUS
<1> HIDE DEF e, L, K, R
<1>f. e \in 1..(L + 1) /\ (R = 0 => e > L)
  BY <1>e
<1>10. e > L \/ x[e] = ","
  <2>1. CASE r = <<>>
    <3>1. R = 0
      BY <2>1, <1>z, EmptySeq
    <3> QED BY <1>f, <3>1
  <2>2. CASE r # <<>>
    <3>1. R # 0
      BY <2>2, <1>z, EmptySeq
    <3>2. 1 \in 1..R
      BY <1>e, <3>1
    <3> QED BY <1>x, <1>y, <1>e, <2>2, <3>2
  <2> QED BY <2>1, <2>2
<1>11. ASSUME NEW m \in 1..(L + 1), m > L \/ x[m] = "," PROVE e <= m
  <2> SUFFICES ASSUME m < e PROVE FALSE
    BY <1>e
  <2>1. m \in 1..K /\ ~(m > L)
    BY <1>e
  <2> QED BY <1>y, <1>11, <2>1
<1> DEFINE ends == {m \in 1..(L + 1) : m > L \/ x[m] = ","}
           y == CHOOSE m \in ends : \A q \in ends : m <= q
<1>s. ends \subseteq 1..(L + 1)
  OBVIOUS
<1>t. e \in ends
  BY <1>f, <1>10
<1>u. \A m \in ends : e <= m
  BY <1>11
<1>13. FromComma(x) = SubSeq(x, y, L)
  BY <1>z DEF FromComma
<1> HIDE DEF ends
<1>12. y = e
  <2>2. y \in ends /\ \A q \in ends : y <= q
    BY <1>t, <1>u
  <2> HIDE DEF y
  <2>3. y <= e /\ e <= y
    BY <1>t, <1>u, <2>2
  <2>4. y \in 1..(L + 1)
    BY <1>s, <2>2
  <2>5. y \in Nat
    BY <1>e, <2>4
  <2> QED BY <1>e, <2>3, <2>5
<1>14. SubSeq(x, e, L) = r
  <2> DEFINE q == SubSeq(x, e, L)
  <2>1. ASSUME NEW m \in e..L PROVE x[m] \in Char
    <3>1. m \in 1..L
      BY <1>e
    <3> QED BY <1>z, <3>1, ElementOfSeq
  <2>2. /\ q \in Seq(Char)
        /\ Len(q) = (IF e <= L THEN L - e + 1 ELSE 0)
        /\ \A k \in 1..(L - e + 1) : q[k] = x[e + k - 1]
    BY <1>e, <2>1, SubSeqProperties
  <2> HIDE DEF q
  <2>n. L - e + 1 = R /\ (IF e <= L THEN L - e + 1 ELSE 0) = R
    BY <1>e
  <2>4. Len(q) = R /\ \A k \in 1..R : q[k] = x[e + k - 1]
    BY <2>2, <2>n
  <2>5. ASSUME NEW k \in 1..R PROVE q[k] = r[k]
    <3>1. e + k - 1 = K + k
      BY <1>e
    <3> QED BY <1>y, <2>4, <3>1
  <2>6. q = r
    BY <1>z, <2>2, <2>4, <2>5, SeqEqual
  <2> QED BY <2>6 DEF q
<1> QED BY <1>9, <1>12, <1>13, <1>14

-----------------------------------------------------------------------------
(* The address list.                                                        *)

(* What a list node is, the action of the default node and of the others.   *)
ListNodes == [type : {0, 4, 6}, addr : {NULL, "4", "6", "m"}, port : Nat, action : {0, 1}]
DefaultAction == IF form.sense = "w" THEN 0 ELSE 1
ListedAction  == IF form.sense = "w" THEN 1 ELSE 0

(* The address families in which an element is served, and its nodes.       *)
Families(a) == IF a = <<"6">> THEN {<<6, "6">>} ELSE {<<4, "4">>, <<6, "m">>}
NodeOf(n, f, p) == n.type = f[1] /\ n.addr = f[2] /\ n.port = p
Names(e, n) == \E f \in Families(e.addr) : NodeOf(n, f, e.port)
Has(al, f, p) == \E q \in 1..Len(al) : NodeOf(al[q], f, p)

(* The list al behind k elements: the default node is the last one, the     *)
(* others are nodes of these elements, and none is missing unless one was   *)
(* lost.                                                                    *)
NodeIs(al, q, k) ==
    \/ al[q].type = 0 /\ q = Len(al) /\ al[q].action = DefaultAction
    \/ /\ al[q].type # 0 /\ al[q].action = ListedAction
       /\ \E m \in 1..k : Names(form.list[m], al[q])
Complete(al, k) ==
    /\ Len(al) >= 1 /\ al[Len(al)].type = 0
    /\ \A m \in 1..k : \A f \in Families(form.list[m].addr) : Has(al, f, form.list[m].port)
NodesAt(al, k) ==
    /\ al \in Seq(ListNodes)
    /\ \A q \in 1..Len(al) : NodeIs(al, q, k)
    /\ ~lost => Complete(al, k)

(* The nodes new pushed in front of l: some of them, or all.                *)
Pushed(y, l, new, u) ==
    /\ u \in Seq(ListNodes) /\ y = u \o l
    /\ \A q \in 1..Len(u) : \E z \in 1..Len(new) : u[q] = new[z]
    /\ Len(u) >= Len(new) => \A z \in 1..Len(new) : \E q \in 1..Len(u) : u[q] = new[z]

(* What hev_fsh_config_addr_list_add leaves.                                *)
LEMMA AddsPush ==
    ASSUME NEW l \in Seq(ListNodes), NEW new \in Seq(ListNodes), Len(new) \in {1, 2},
           NEW y \in Adds(l, new)
    PROVE  \E u : Pushed(y, l, new, u)
<1>1. PICK u \in {<<>>, new} \cup {<<n>> : n \in ToSet(new)} : y = u \o l
  BY DEF Adds
<1>2. CASE u = <<>>
  <2>1. u \in Seq(ListNodes) /\ Len(u) = 0 /\ 1..0 = {}
    BY <1>2, EmptySeq
  <2>2. ~(Len(u) >= Len(new))
    <3> DEFINE L == Len(new)
    <3>1. L \in {1, 2} /\ Len(u) = 0
      BY <2>1
    <3> HIDE DEF L
    <3>2. ~(0 >= L)
      BY <3>1
    <3> QED BY <3>1, <3>2 DEF L
  <2> QED BY <1>1, <2>1, <2>2 DEF Pushed
<1>3. CASE u = new
  BY <1>1, <1>3 DEF Pushed
<1>4. CASE \E n \in ToSet(new) : u = <<n>>
  <2>1. PICK z \in 1..Len(new) : u = <<new[z]>>
    BY <1>4 DEF ToSet
  <2> DEFINE e == new[z]
  <2>2. e \in ListNodes
    BY ElementOfSeq
  <2>e. e = new[z] /\ u = <<e>>
    BY <2>1
  <2> HIDE DEF e
  <2>3. u \in Seq(ListNodes) /\ Len(u) = 1 /\ u[1] = e
    BY <2>2, <2>e
  <2>4. \A q \in 1..Len(u) : u[q] = new[z]
    BY <2>3, <2>e
  <2>5. 1 \in 1..Len(u)
    BY <2>3
  <2>6. ASSUME Len(u) >= Len(new), NEW m \in 1..Len(new) PROVE u[1] = new[m]
    <3>1. m = z
      BY <2>3, <2>6
    <3> QED BY <2>3, <2>e, <3>1
  <2> QED BY <1>1, <2>3, <2>4, <2>5, <2>6 DEF Pushed
<1> QED BY <1>1, <1>2, <1>3, <1>4

(* The nodes of an element.                                                 *)
NodesOf(new, e) ==
    /\ new \in Seq(ListNodes) /\ Len(new) \in {1, 2}
    /\ \A z \in 1..Len(new) : /\ new[z].type # 0 /\ new[z].action = ListedAction
                              /\ Names(e, new[z])
    /\ \A f \in Families(e.addr) : \E z \in 1..Len(new) : NodeOf(new[z], f, e.port)

(* set_addr_list makes the nodes of an element.                             *)
LEMMA NodesAre ==
    ASSUME NEW e \in Items
    PROVE  NodesOf(Nodes(e.addr, e.port, ListedAction), e)
<1> DEFINE act == ListedAction
           p == e.port
           new == Nodes(e.addr, p, act)
           A == Node(4, "4", p, act)
           B == Node(6, "m", p, act)
           C == Node(6, "6", p, act)
<1>0. act \in {0, 1} /\ p \in Nat /\ e.addr \in {<<"4">>, <<"6">>, <<"m">>} /\ p = e.port
      /\ act = ListedAction
  BY DEF ListedAction, Items
<1> HIDE DEF act, p
<1>1. /\ A \in ListNodes /\ A.type = 4 /\ A.addr = "4" /\ A.port = p /\ A.action = act
      /\ B \in ListNodes /\ B.type = 6 /\ B.addr = "m" /\ B.port = p /\ B.action = act
      /\ C \in ListNodes /\ C.type = 6 /\ C.addr = "6" /\ C.port = p /\ C.action = act
  BY <1>0 DEF Node, ListNodes
<1>d. <<"4">> # <<"6">> /\ <<"4">> # <<"m">> /\ <<"6">> # <<"m">>
  OBVIOUS
<1>f. \A f : f = <<4, "4">> => f[1] = 4 /\ f[2] = "4"
  OBVIOUS
<1>g. \A f : f = <<6, "m">> => f[1] = 6 /\ f[2] = "m"
  OBVIOUS
<1>h. \A f : f = <<6, "6">> => f[1] = 6 /\ f[2] = "6"
  OBVIOUS
<1>2. CASE e.addr = <<"6">>
  <2>1. new = <<C>> /\ Families(e.addr) = {<<6, "6">>}
    BY <1>d, <1>2 DEF Nodes, Families
  <2> HIDE DEF A, B, C
  <2>2. new \in Seq(ListNodes) /\ Len(new) = 1 /\ new[1] = C
    BY <1>1, <2>1
  <2> HIDE DEF new
  <2>3. NodeOf(C, <<6, "6">>, p)
    BY <1>1 DEF NodeOf
  <2>4. Names(e, C)
    BY <1>0, <2>1, <2>3 DEF Names
  <2> QED BY <1>0, <1>1, <2>1, <2>2, <2>3, <2>4 DEF NodesOf, new
<1>3. CASE e.addr # <<"6">>
  <2>1. (new = <<B, A>> \/ new = <<A, B>>) /\ Families(e.addr) = {<<4, "4">>, <<6, "m">>}
    BY <1>0, <1>d, <1>3 DEF Nodes, Families
  <2> HIDE DEF A, B, C
  <2>2. /\ new \in Seq(ListNodes) /\ Len(new) = 2
        /\ (new[1] = A /\ new[2] = B) \/ (new[1] = B /\ new[2] = A)
    <3>0. A \in ListNodes /\ B \in ListNodes
      BY <1>1
    <3>1. CASE new = <<A, B>>
      BY <3>0, <3>1
    <3>2. CASE new = <<B, A>>
      BY <3>0, <3>2
    <3> QED BY <2>1, <3>1, <3>2
  <2> HIDE DEF new
  <2>3. NodeOf(A, <<4, "4">>, p) /\ NodeOf(B, <<6, "m">>, p)
    BY <1>1 DEF NodeOf
  <2>4. Names(e, A) /\ Names(e, B)
    BY <1>0, <2>1, <2>3 DEF Names
  <2>5. \A z \in 1..Len(new) : new[z] \in {A, B}
    BY <2>2
  <2>6. \A n \in {A, B} : \E z \in 1..Len(new) : new[z] = n
    <3>1. 1 \in 1..2 /\ 2 \in 1..2
      OBVIOUS
    <3> QED BY <2>2, <3>1
  <2>7. ASSUME NEW f \in Families(e.addr) PROVE \E z \in 1..Len(new) : NodeOf(new[z], f, e.port)
    <3>1. \E n \in {A, B} : NodeOf(n, f, p)
      BY <2>1, <2>3
    <3> QED BY <1>0, <2>6, <3>1
  <2>8. ASSUME NEW z \in 1..Len(new)
        PROVE  new[z].type # 0 /\ new[z].action = ListedAction /\ Names(e, new[z])
    BY <1>0, <1>1, <2>4, <2>5
  <2>9. NodesOf(new, e)
    BY <2>2, <2>7, <2>8 DEF NodesOf
  <2> QED BY <1>0, <2>9 DEF new
<1> QED BY <1>2, <1>3

(* Places in a list with new nodes in front.                                *)
LEMMA JoinedNodes ==
    ASSUME NEW u \in Seq(ListNodes), NEW v \in Seq(ListNodes)
    PROVE  /\ u \o v \in Seq(ListNodes) /\ Len(u) \in Nat /\ Len(v) \in Nat
           /\ Len(u \o v) = Len(u) + Len(v)
           /\ \A k \in 1..Len(u) : (u \o v)[k] = u[k]
           /\ \A k \in 1..Len(v) : (u \o v)[Len(u) + k] = v[k]
BY JoinedSeq

(* An element's nodes are pushed.                                           *)
LEMMA NodesPushed ==
    ASSUME NEW al, NEW y, NEW new, NEW u, NEW k \in Nat, NodesAt(al, k),
           Pushed(y, al, new, u), NodesOf(new, form.list[k + 1]), form' = form,
           lost \in BOOLEAN, lost' = (lost \/ Len(y) < Len(al) + Len(new))
    PROVE  NodesAt(y, k + 1)'
<1> DEFINE L == Len(al)
           U == Len(u)
           W == Len(new)
           e == form.list[k + 1]
<1>1. /\ al \in Seq(ListNodes) /\ \A q \in 1..L : NodeIs(al, q, k)
      /\ ~lost => Complete(al, k)
  BY DEF NodesAt
<1>2. /\ u \in Seq(ListNodes) /\ y = u \o al
      /\ \A q \in 1..U : \E z \in 1..W : u[q] = new[z]
      /\ U >= W => \A z \in 1..W : \E q \in 1..U : u[q] = new[z]
  BY DEF Pushed
<1>3. /\ W \in {1, 2}
      /\ \A z \in 1..W : /\ new[z].type # 0 /\ new[z].action = ListedAction
                         /\ Names(e, new[z])
      /\ \A f \in Families(e.addr) : \E z \in 1..W : NodeOf(new[z], f, e.port)
  BY DEF NodesOf
<1>4. /\ y \in Seq(ListNodes) /\ U \in Nat /\ L \in Nat /\ Len(y) = U + L
      /\ \A q \in 1..U : y[q] = u[q]
      /\ \A q \in 1..L : y[U + q] = al[q]
  BY <1>1, <1>2, JoinedNodes
<1>w. lost' = (lost \/ Len(y) < L + W)
  OBVIOUS
<1>e. e = form.list[k + 1]
  OBVIOUS
<1> HIDE DEF L, U, W, e
<1>k. k + 1 \in 1..(k + 1) /\ \A m \in 1..k : m \in 1..(k + 1)
  OBVIOUS
<1>m. \A m \in 1..(k + 1) : m = k + 1 \/ m \in 1..k
  OBVIOUS
<1>n. \A q \in 1..(U + L) : q \in 1..U \/ (q - U \in 1..L /\ U + (q - U) = q)
  BY <1>4
<1>o. (\A q \in 1..U : q \in 1..(U + L)) /\ (\A q \in 1..L : U + q \in 1..(U + L))
  BY <1>4
<1>5. ASSUME NEW q \in 1..Len(y) PROVE NodeIs(y, q, k + 1)
  <2>1. CASE q \in 1..U
    <3>1. PICK z \in 1..W : u[q] = new[z]
      BY <1>2, <2>1
    <3>2. y[q] = new[z]
      BY <1>4, <2>1, <3>1
    <3>3. y[q].type # 0 /\ y[q].action = ListedAction /\ Names(e, y[q])
      BY <1>3, <3>2
    <3> QED BY <1>k, <1>e, <3>3 DEF NodeIs
  <2>2. CASE q \notin 1..U
    <3>1. q - U \in 1..L /\ U + (q - U) = q
      BY <1>4, <1>n, <2>2
    <3>2. PICK r \in 1..L : U + r = q
      BY <3>1
    <3>3. y[q] = al[r] /\ NodeIs(al, r, k)
      BY <1>1, <1>4, <3>2
    <3>4. r = L => q = Len(y)
      BY <1>4, <3>2
    <3> QED BY <1>k, <3>3, <3>4 DEF NodeIs, L
  <2> QED BY <2>1, <2>2
<1>6. ASSUME ~lost' PROVE Complete(y, k + 1)
  <2>1. ~lost /\ ~(Len(y) < L + W)
    BY <1>6, <1>w
  <2>2. U >= W
    <3>1. W \in Nat
      BY <1>3
    <3> QED BY <1>4, <2>1, <3>1
  <2>3. L >= 1 /\ al[L].type = 0
    BY <1>1, <2>1 DEF Complete, L
  <2>4. \A m \in 1..k : \A f \in Families(form.list[m].addr) : Has(al, f, form.list[m].port)
    BY <1>1, <2>1 DEF Complete
  <2>5. Len(y) >= 1 /\ y[Len(y)].type = 0
    <3>1. L \in 1..L /\ U + L >= 1
      BY <1>4, <2>3
    <3> QED BY <1>4, <2>3, <3>1
  <2>6. ASSUME NEW f \in Families(e.addr) PROVE Has(y, f, e.port)
    <3>1. PICK z \in 1..W : NodeOf(new[z], f, e.port)
      BY <1>3
    <3>2. PICK q \in 1..U : u[q] = new[z]
      BY <1>2, <2>2
    <3>3. q \in 1..Len(y) /\ y[q] = new[z]
      BY <1>4, <1>o, <3>2
    <3> QED BY <3>1, <3>3 DEF Has
  <2>7. ASSUME NEW f, NEW p, Has(al, f, p) PROVE Has(y, f, p)
    <3>1. PICK q \in 1..L : NodeOf(al[q], f, p)
      BY <2>7 DEF Has, L
    <3>2. U + q \in 1..Len(y) /\ y[U + q] = al[q]
      BY <1>4, <1>o
    <3> QED BY <3>1, <3>2 DEF Has
  <2>8. ASSUME NEW m \in 1..(k + 1), NEW f \in Families(form.list[m].addr)
        PROVE  Has(y, f, form.list[m].port)
    <3>1. CASE m = k + 1
      BY <1>e, <2>6, <3>1
    <3>2. CASE m \in 1..k
      BY <2>4, <2>7, <3>2
    <3> QED BY <1>m, <3>1, <3>2
  <2> QED BY <2>5, <2>8 DEF Complete
<1>7. ASSUME NEW q \in 1..Len(y) PROVE NodeIs(y, q, k + 1)'
  BY <1>5 DEF NodeIs, DefaultAction, ListedAction
<1>8. ~lost' => Complete(y, k + 1)'
  BY <1>6 DEF Complete
<1> QED BY <1>4, <1>7, <1>8 DEF NodesAt

(* The default node is pushed first.                                        *)
LEMMA DefaultPushed ==
    ASSUME NEW y, y \in Adds(<<>>, <<Node(0, NULL, 0, DefaultAction)>>), form' = form,
           lost' = (y = <<>>)
    PROVE  NodesAt(y, 0)'
<1> DEFINE n == Node(0, NULL, 0, DefaultAction)
<1>1. n \in ListNodes /\ n.type = 0 /\ n.action = DefaultAction
  BY DEF ListNodes, Node, DefaultAction
<1>a. y \in Adds(<<>>, <<n>>) /\ DefaultAction' = DefaultAction
  BY DEF DefaultAction
<1> HIDE DEF n
<1>2. y = <<>> \/ y = <<n>>
  <2>1. PICK u \in {<<>>, <<n>>} \cup {<<m>> : m \in ToSet(<<n>>)} : y = u \o <<>>
    BY <1>a DEF Adds
  <2>2. u = <<>> \/ u = <<n>>
    <3>1. ToSet(<<n>>) = {n}
      <4>1. 1..Len(<<n>>) = {1} /\ <<n>>[1] = n
        OBVIOUS
      <4> QED BY <4>1 DEF ToSet
    <3> QED BY <3>1
  <2>3. u \in Seq(ListNodes)
    <3>1. <<>> \in Seq(ListNodes) /\ <<n>> \in Seq(ListNodes)
      BY <1>1
    <3> QED BY <2>2, <3>1
  <2>4. u \o <<>> = u
    BY <2>3, ConcatEmptySeq
  <2> QED BY <2>1, <2>2, <2>4
<1>e. 1..0 = {}
  OBVIOUS
<1>3. CASE y = <<>>
  <2>1. y \in Seq(ListNodes) /\ Len(y) = 0 /\ lost'
    BY <1>3, EmptySeq
  <2> QED BY <1>e, <2>1 DEF NodesAt
<1>4. CASE y = <<n>>
  <2>1. y \in Seq(ListNodes) /\ Len(y) = 1 /\ y[1] = n
    BY <1>1, <1>4
  <2>2. \A q \in 1..Len(y) : q = 1
    BY <2>1
  <2>3. \A q \in 1..Len(y) : NodeIs(y, q, 0)'
    BY <1>1, <1>a, <2>1, <2>2 DEF NodeIs
  <2>4. Complete(y, 0)'
    BY <1>1, <1>e, <2>1 DEF Complete
  <2> QED BY <2>1, <2>3, <2>4 DEF NodesAt
<1> QED BY <1>2, <1>3, <1>4

(* There is no number between 1 and 0.                                      *)
LEMMA NoneFrom == 1..0 = {}
OBVIOUS

(* Places before the last one.                                              *)
LEMMA BeforeLast ==
    ASSUME NEW A \in Nat
    PROVE  /\ A >= 1 => A \in 1..A
           /\ \A q \in 1..A : q # A => q < A
           /\ \A q \in 1..A, m \in 1..A : q <= m /\ m < A => q # A
OBVIOUS

(* The family and the address of a request.                                 *)
LEMMA PairsAre ==
    ASSUME NEW r \in {<<4, "4">>, <<4, "5">>, <<6, "6">>, <<6, "m">>, <<6, "7">>}
    PROVE  r = <<r[1], r[2]>> /\ r[1] # 0
<1>1. CASE r = <<4, "4">>
  BY <1>1
<1>2. CASE r = <<4, "5">>
  BY <1>2
<1>3. CASE r = <<6, "6">>
  BY <1>3
<1>4. CASE r = <<6, "m">>
  BY <1>4
<1>5. CASE r = <<6, "7">>
  BY <1>5
<1> QED BY <1>1, <1>2, <1>3, <1>4, <1>5

(* A request is for an element of the list, in one of its families.         *)
InList(r, p) ==
    \E m \in 1..Len(form.list) : r \in Families(form.list[m].addr) /\ form.list[m].port = p

(* The user's list names the endpoint of a request exactly if an element    *)
(* has its family.                                                          *)
LEMMA ListedIs ==
    ASSUME form.list \in Seq(Items), NEW r \in Requests, NEW p
    PROVE  Listed(r[1], r[2], p) <=> InList(r, p)
<1>0. \A m \in 1..Len(form.list) : form.list[m].addr \in {<<"4">>, <<"6">>, <<"m">>}
  <2> SUFFICES ASSUME NEW m \in 1..Len(form.list)
               PROVE  form.list[m].addr \in {<<"4">>, <<"6">>, <<"m">>}
    OBVIOUS
  <2>1. form.list[m] \in Items
    BY ElementOfSeq
  <2> QED BY <2>1 DEF Items
<1>d. /\ <<"4">> # <<"6">> /\ <<"4">> # <<"m">> /\ <<"6">> # <<"m">>
      /\ <<"5">> # <<"4">> /\ <<"5">> # <<"6">> /\ <<"5">> # <<"m">>
      /\ <<"7">> # <<"4">> /\ <<"7">> # <<"6">> /\ <<"7">> # <<"m">>
  OBVIOUS
<1>1. ASSUME NEW a \in {<<"4">>, <<"6">>, <<"m">>}
      PROVE  a \in (IF r[2] \in {"4", "m"} THEN {<<"4">>, <<"m">>} ELSE {<<r[2]>>})
             <=> r \in Families(a)
  <2>f. Families(a) = (IF a = <<"6">> THEN {<<6, "6">>} ELSE {<<4, "4">>, <<6, "m">>})
    BY DEF Families
  <2>e. <<4, "4">> # <<6, "6">> /\ <<6, "m">> # <<6, "6">>
        /\ <<4, "5">> # <<4, "4">> /\ <<4, "5">> # <<6, "m">> /\ <<4, "5">> # <<6, "6">>
        /\ <<6, "7">> # <<4, "4">> /\ <<6, "7">> # <<6, "m">> /\ <<6, "7">> # <<6, "6">>
    OBVIOUS
  <2>1. CASE r = <<4, "4">>
    <3>1. r[2] = "4"
      BY <2>1
    <3> QED BY <1>d, <2>1, <2>e, <2>f, <3>1
  <2>2. CASE r = <<4, "5">>
    <3>1. r[2] = "5"
      BY <2>2
    <3> QED BY <1>d, <2>2, <2>e, <2>f, <3>1
  <2>3. CASE r = <<6, "6">>
    <3>1. r[2] = "6"
      BY <2>3
    <3> QED BY <1>d, <2>3, <2>e, <2>f, <3>1
  <2>4. CASE r = <<6, "m">>
    <3>1. r[2] = "m"
      BY <2>4
    <3> QED BY <1>d, <2>4, <2>e, <2>f, <3>1
  <2>5. CASE r = <<6, "7">>
    <3>1. r[2] = "7"
      BY <2>5
    <3> QED BY <1>d, <2>5, <2>e, <2>f, <3>1
  <2> QED BY <2>1, <2>2, <2>3, <2>4, <2>5 DEF Requests
<1> QED BY <1>0, <1>1 DEF Listed, InList

(* The first node that matches a request, and what it says.                 *)
Decides(al, r, p, q) ==
    /\ q \in 1..Len(al) /\ Matches(al[q], r[1], r[2], p)
    /\ \A m \in 1..Len(al) : Matches(al[m], r[1], r[2], p) => q <= m

(* hev_fsh_config_addr_list_contains answers with the first node that       *)
(* matches, or with 0.                                                      *)
LEMMA FirstDecides ==
    ASSUME cfg.addr_list \in Seq(ListNodes), NEW r, NEW p
    PROVE  \/ /\ \A q \in 1..Len(cfg.addr_list) : ~Matches(cfg.addr_list[q], r[1], r[2], p)
              /\ AddrListContains(r[1], r[2], p) = 0
           \/ \E q : /\ Decides(cfg.addr_list, r, p, q)
                     /\ AddrListContains(r[1], r[2], p) = cfg.addr_list[q].action
<1> DEFINE al == cfg.addr_list
           M == {q \in 1..Len(al) : Matches(al[q], r[1], r[2], p)}
           z == CHOOSE n \in M : \A q \in M : n <= q
<1>1. AddrListContains(r[1], r[2], p) = IF M = {} THEN 0 ELSE al[z].action
  BY DEF AddrListContains
<1>2. CASE M = {}
  BY <1>1, <1>2
<1>3. CASE M # {}
  <2>1. M \subseteq Nat
    OBVIOUS
  <2>2. z \in M /\ \A q \in M : z <= q
    <3> HIDE DEF M
    <3> QED BY <1>3, <2>1, Least
  <2> HIDE DEF z
  <2>3. Decides(al, r, p, z)
    BY <2>2 DEF Decides
  <2> QED BY <1>1, <1>3, <2>3
<1> QED BY <1>2, <1>3

(* What the list decides.                                                   *)
LEMMA ListServes ==
    ASSUME form.list \in Seq(Items), NodesAt(cfg.addr_list, Len(form.list)),
           form.sense \in {"", "w", "b"}, form.sense = "" => form.list = <<>>,
           NEW r \in Requests, NEW p
    PROVE  LET served == AddrListContains(r[1], r[2], p) = 1
               listed == Listed(r[1], r[2], p) IN
           /\ form.sense = "w" => (served => listed) /\ (~lost => (listed => served))
           /\ form.sense = "b" => (~lost => (served <=> ~listed))
           /\ form.sense = "" => (~lost => served)
<1> DEFINE al == cfg.addr_list
           A == Len(al)
           K == Len(form.list)
           v == AddrListContains(r[1], r[2], p)
<1>1. /\ al \in Seq(ListNodes) /\ \A q \in 1..A : NodeIs(al, q, K)
      /\ ~lost => Complete(al, K)
  BY DEF NodesAt
<1>a. A \in Nat
  BY <1>1, LenProperties
<1>2. Listed(r[1], r[2], p) <=> InList(r, p)
  BY ListedIs
<1>k. K = Len(form.list)
  OBVIOUS
<1>b. A = Len(al) /\ al = cfg.addr_list /\ v = AddrListContains(r[1], r[2], p)
  OBVIOUS
<1>s. form.sense = "" => ~InList(r, p)
  <2>1. form.sense = "" => K = 0
    BY EmptySeq
  <2> QED BY <2>1, NoneFrom DEF InList
<1> HIDE DEF A, K, al, v
<1>3. ASSUME NEW q \in 1..A, Matches(al[q], r[1], r[2], p)
      PROVE  \/ al[q].type = 0 /\ q = A /\ al[q].action = DefaultAction
             \/ al[q].type # 0 /\ al[q].action = ListedAction /\ InList(r, p)
  <2>1. CASE al[q].type = 0
    BY <1>1, <1>b, <2>1 DEF NodeIs
  <2>2. CASE al[q].type # 0
    <3>1. al[q].type = r[1] /\ al[q].addr = r[2] /\ al[q].port = p
      BY <1>3, <2>2 DEF Matches
    <3>2. al[q].action = ListedAction
      BY <1>1, <2>2 DEF NodeIs
    <3>3. PICK m \in 1..K : Names(form.list[m], al[q])
      BY <1>1, <2>2 DEF NodeIs
    <3>4. PICK f \in Families(form.list[m].addr) : NodeOf(al[q], f, form.list[m].port)
      BY <3>3 DEF Names
    <3>5. f[1] = r[1] /\ f[2] = r[2] /\ form.list[m].port = p
      BY <3>1, <3>4 DEF NodeOf
    <3>6. f = r
      <4>1. f \in {<<6, "6">>, <<4, "4">>, <<6, "m">>}
        BY DEF Families
      <4>2. f = <<f[1], f[2]>>
        BY <4>1, PairsAre
      <4>3. r = <<r[1], r[2]>>
        BY PairsAre DEF Requests
      <4> QED BY <3>5, <4>2, <4>3
    <3> QED BY <1>k, <2>2, <3>2, <3>5, <3>6 DEF InList
  <2> QED BY <2>1, <2>2
<1>4. ASSUME ~lost, InList(r, p)
      PROVE  \E q \in 1..A : q < A /\ Matches(al[q], r[1], r[2], p)
  <2>1. PICK m \in 1..K : r \in Families(form.list[m].addr) /\ form.list[m].port = p
    BY <1>4, <1>k DEF InList
  <2>2. Has(al, r, p) /\ al[A].type = 0
    BY <1>1, <1>4, <1>b, <2>1 DEF Complete
  <2>3. PICK q \in 1..A : NodeOf(al[q], r, p)
    BY <1>b, <2>2 DEF Has
  <2>4. Matches(al[q], r[1], r[2], p)
    BY <2>3 DEF NodeOf, Matches
  <2>5. al[q].type = r[1] /\ r[1] # 0
    BY <2>3, PairsAre DEF NodeOf, Requests
  <2>6. q # A
    BY <2>2, <2>5
  <2>7. q < A
    BY <1>a, <2>6, BeforeLast
  <2> QED BY <2>4, <2>7
<1>5. ASSUME ~lost PROVE A \in 1..A /\ Matches(al[A], r[1], r[2], p)
  <2>1. A >= 1 /\ al[A].type = 0
    BY <1>1, <1>5, <1>b DEF Complete
  <2>2. A \in 1..A
    BY <1>a, <2>1, BeforeLast
  <2> QED BY <2>1, <2>2 DEF Matches
<1>6. \/ (\A q \in 1..A : ~Matches(al[q], r[1], r[2], p)) /\ v = 0
      \/ \E q : Decides(al, r, p, q) /\ v = al[q].action
  BY <1>1, <1>b, FirstDecides
<1>d. /\ form.sense = "w" => DefaultAction = 0 /\ ListedAction = 1
      /\ form.sense # "w" => DefaultAction = 1 /\ ListedAction = 0
  BY DEF DefaultAction, ListedAction
<1>7. v = 1 /\ form.sense = "w" => InList(r, p)
  <2> SUFFICES ASSUME v = 1, form.sense = "w" PROVE InList(r, p)
    OBVIOUS
  <2>1. PICK q : Decides(al, r, p, q) /\ v = al[q].action
    BY <1>6
  <2>2. al[q].action # DefaultAction
    BY <1>d, <2>1
  <2> QED BY <1>3, <1>b, <2>1, <2>2 DEF Decides
<1>8. ASSUME ~lost, InList(r, p) PROVE v = ListedAction
  <2>1. PICK m \in 1..A : m < A /\ Matches(al[m], r[1], r[2], p)
    BY <1>4, <1>8
  <2>2. PICK q : Decides(al, r, p, q) /\ v = al[q].action
    BY <1>6, <2>1
  <2>3. q \in 1..A /\ q <= m /\ Matches(al[q], r[1], r[2], p)
    BY <1>b, <2>1, <2>2 DEF Decides
  <2>4. q # A
    BY <1>a, <2>1, <2>3, BeforeLast
  <2>5. al[q].action = ListedAction
    BY <1>3, <2>3, <2>4
  <2> QED BY <2>2, <2>5
<1>9. ASSUME ~lost, ~InList(r, p) PROVE v = DefaultAction
  <2>1. PICK q : Decides(al, r, p, q) /\ v = al[q].action
    BY <1>5, <1>6, <1>9
  <2>2. al[q].action = DefaultAction
    BY <1>3, <1>9, <1>b, <2>1 DEF Decides
  <2> QED BY <2>1, <2>2
<1> DEFINE I == InList(r, p)
           D == DefaultAction
           N == ListedAction
<1>i. /\ v = 1 /\ form.sense = "w" => I
      /\ ~lost /\ I => v = N
      /\ ~lost /\ ~I => v = D
      /\ form.sense = "" => ~I
      /\ form.sense = "w" => D = 0 /\ N = 1
      /\ form.sense # "w" => D = 1 /\ N = 0
  BY <1>7, <1>8, <1>9, <1>d, <1>s
<1> HIDE DEF I, D, N
<1>w. form.sense = "w" => (v = 1 => I) /\ (~lost => (I => v = 1))
  BY <1>i
<1>x. form.sense = "b" => (~lost => (v = 1 <=> ~I))
  <2> SUFFICES ASSUME form.sense = "b", ~lost PROVE v = 1 <=> ~I
    OBVIOUS
  <2>1. N = 0 /\ D = 1
    BY <1>i
  <2>2. CASE I
    BY <1>i, <2>1, <2>2
  <2>3. CASE ~I
    BY <1>i, <2>1, <2>3
  <2> QED BY <2>2, <2>3
<1>y. form.sense = "" => (~lost => v = 1)
  BY <1>i
<1> QED BY <1>2, <1>b, <1>w, <1>x, <1>y DEF I

(* What is left behind an element is nothing, or a comma and the next one.  *)
BehindIs(l, R, k) ==
    /\ Behind(l, R, k) \in Seq(Text)
    /\ k = Len(l) => Behind(l, R, k) = <<>>
    /\ k # Len(l) => /\ Behind(l, R, k) # <<>> /\ Behind(l, R, k)[1] = ","
                     /\ Head(Behind(l, R, k)) = "," /\ Tail(Behind(l, R, k)) = R[k]

(* What parse_set_addr_list finds behind an element.                        *)
LEMMA RestBehind ==
    ASSUME NEW l, NEW R, NEW k, R[k] \in Seq(Char)
    PROVE  BehindIs(l, R, k)
<1>1. CASE k = Len(l)
  BY <1>1, TextTypes DEF Behind, BehindIs
<1>2. CASE k # Len(l)
  <2> DEFINE c == <<",">>
             r == R[k]
             x == c \o r
  <2>1. c \in Seq(Text) /\ Len(c) = 1 /\ c[1] = "," /\ r \in Seq(Text)
    BY TextTypes DEF Separators
  <2>b. Behind(l, R, k) = x
    BY <1>2 DEF Behind
  <2> HIDE DEF c, r
  <2>2. /\ x \in Seq(Text) /\ Len(x) = Len(c) + Len(r) /\ Len(r) \in Nat
        /\ \A m \in 1..Len(c) : x[m] = c[m]
        /\ \A m \in 1..Len(r) : x[Len(c) + m] = r[m]
    BY <2>1, Joined
  <2> HIDE DEF x
  <2>3. Len(x) = 1 + Len(r) /\ \A m \in 1..Len(r) : x[1 + m] = r[m]
    BY <2>1, <2>2
  <2>4. x[1] = ","
    <3>0. 1 \in 1..1
      OBVIOUS
    <3>1. 1 \in 1..Len(c)
      BY <2>1, <3>0
    <3> QED BY <2>1, <2>2, <3>1
  <2>5. x # <<>>
    <3>1. Len(x) # 0
      BY <2>2, <2>3
    <3> QED BY <3>1, EmptySeq
  <2>6. /\ Head(x) = x[1] /\ Tail(x) \in Seq(Text) /\ Len(Tail(x)) = Len(x) - 1
        /\ \A m \in 1..Len(Tail(x)) : Tail(x)[m] = x[m + 1]
    BY <2>2, <2>5, HeadTailProperties
  <2>7. Tail(x) = r
    <3> DEFINE t == Tail(x)
               n == Len(r)
    <3>0. t \in Seq(Text) /\ Len(t) = Len(x) - 1 /\ \A m \in 1..Len(t) : t[m] = x[m + 1]
      BY <2>6
    <3>n. n \in Nat /\ Len(x) = 1 + n /\ n = Len(r)
      BY <2>2, <2>3
    <3> HIDE DEF t, n
    <3>1. Len(t) = n
      BY <3>0, <3>n
    <3>2. ASSUME NEW m \in 1..n PROVE t[m] = r[m]
      <4>1. m + 1 = 1 + m
        BY <3>n
      <4>2. t[m] = x[1 + m]
        BY <3>0, <3>1, <4>1
      <4> QED BY <2>3, <3>n, <4>2
    <3>3. t = r
      BY <2>1, <3>0, <3>1, <3>2, <3>n, SeqEqual
    <3> QED BY <3>3 DEF t
  <2>8. r = R[k]
    BY DEF r
  <2> QED BY <1>2, <2>2, <2>4, <2>5, <2>6, <2>7, <2>8, <2>b DEF BehindIs
<1> QED BY <1>1, <1>2

(* The element that the rest of a list starts with.                         *)
RestItem(l, R, k) ==
    LET e == l[k + 1] IN
    /\ e \in Items /\ Host(e.addr) /\ R[k] \in Seq(Char)
    /\ Behind(l, R, k + 1) \in Seq(Char)
    /\ \E w \in Writings(e.addr) : ItemOf(R[k], w, e.port, Behind(l, R, k + 1))
    /\ R[k] # <<>> /\ Head(R[k]) # "," /\ FromComma(R[k]) = Behind(l, R, k + 1)

(* Each rest of a documented list starts with its element.                  *)
LEMMA RestStarts ==
    ASSUME NEW l, NEW R, Rests(l, R), NEW k \in 0..(Len(l) - 1)
    PROVE  RestItem(l, R, k)
<1> DEFINE e == l[k + 1]
           x == R[k]
           r == Behind(l, R, k + 1)
<1>0. l \in Seq(Items) /\ Len(l) \in Nat
  BY LenProperties DEF Rests
<1>1. k + 1 \in 1..Len(l) /\ k \in 0..Len(l) /\ k + 1 \in 0..Len(l)
  BY <1>0
<1>2. e \in Items
  BY <1>0, <1>1, ElementOfSeq
<1>3. x \in Seq(Char) /\ R[k + 1] \in Seq(Char)
  BY <1>1 DEF Rests
<1>4. r \in Seq(Text) /\ (r = <<>> \/ r[1] = ",")
  BY <1>3, RestBehind DEF BehindIs
<1>5. PICK w \in Writings(e.addr) : x = w \o <<":">> \o Digits(e.port) \o r
  BY DEF Rests, RestIs
<1> HIDE DEF x, r, e
<1>6. e.addr \in {<<"4">>, <<"6">>, <<"m">>} /\ e.port \in Nat
  BY <1>2 DEF Items
<1>8. ItemOf(x, w, e.port, r)
  BY <1>4, <1>5 DEF ItemOf
<1>7. Host(e.addr) /\ r \in Seq(Char)
  BY <1>3, <1>4, <1>6, <1>8, ItemHost
<1>9. x # <<>> /\ Head(x) # "," /\ FromComma(x) = r
  BY <1>3, <1>6, <1>7, <1>8, CommaIs
<1> QED BY <1>2, <1>3, <1>7, <1>8, <1>9 DEF RestItem, x, r, e

(* parse_addr is called on it.                                              *)
LEMMA RestCalled ==
    ASSUME NEW l, NEW R, NEW k, RestItem(l, R, k), Call("addr", R[k])
    PROVE  AddrCall(l[k + 1].addr, Digits(l[k + 1].port), NULL)'
<1> DEFINE e == l[k + 1]
           x == R[k]
           r == Behind(l, R, k + 1)
<1>1. /\ e \in Items /\ Host(e.addr) /\ x \in Seq(Char) /\ r \in Seq(Char)
      /\ \E w \in Writings(e.addr) : ItemOf(x, w, e.port, r)
  BY DEF RestItem
<1>2. PICK w \in Writings(e.addr) : ItemOf(x, w, e.port, r)
  BY <1>1
<1>3. Call("addr", x)
  OBVIOUS
<1> HIDE DEF x, r, e
<1>4. e.port \in Nat
  BY <1>1 DEF Items
<1>5. MadeOf(x, w, Digits(e.port), NULL, r) /\ Digits(e.port) \in Seq(Plain)
  BY <1>1, <1>2, <1>4, ItemText
<1>6. AddrCall(e.addr, Digits(e.port), NULL)'
  BY <1>1, <1>3, <1>5, AddrCalled
<1> QED BY <1>6 DEF e

-----------------------------------------------------------------------------
(* What parse_args has understood of a documented command line.             *)

Keys == {"mode", "server_address", "server_port", "token", "user", "crypto",
         "local_address", "local_port", "remote_address", "remote_port", "addr_list"}

(* The configuration c has the server that the user means; the ends of the  *)
(* connection that the user means; those of a new configuration.            *)
ServerIn(c) ==
    /\ Keys \subseteq DOMAIN c /\ form.host # NULL
    /\ c.server_address = form.host /\ c.server_port = form.port /\ c.token = form.token
EndsIn(c) ==
    /\ c.local_address = form.laddr /\ c.local_port = form.lport
    /\ c.remote_address = form.raddr /\ c.remote_port = form.rport
NewEnds(c) ==
    /\ c.local_address = Lo /\ c.local_port = 0
    /\ c.remote_address = NULL /\ c.remote_port = 0
WithEnds == form.kind \in {"CONNECTOR_PORT", "CONNECTOR_SOCK"}
Means(c) == c.mode = form.kind /\ ServerIn(c) /\ (WithEnds => EndsIn(c))

(* hev_fsh_config_set_mode completes the meaning.                           *)
LEMMA ModeMeans ==
    ASSUME NEW c, ServerIn(c), WithEnds => EndsIn(c), NEW m, m = form.kind
    PROVE  Means(SetMode(c, m)) /\ SetMode(c, m).addr_list = c.addr_list
<1> DEFINE d == SetMode(c, m)
<1>1. Keys \subseteq DOMAIN c /\ c.server_address # NULL
  BY DEF ServerIn
<1>2. /\ Keys \subseteq DOMAIN d /\ d.mode = m /\ d.server_address = c.server_address
      /\ d.server_port = c.server_port /\ d.token = c.token /\ d.addr_list = c.addr_list
      /\ d.local_address = c.local_address /\ d.local_port = c.local_port
      /\ d.remote_address = c.remote_address /\ d.remote_port = c.remote_port
  BY <1>1 DEF SetMode, Keys
<1> HIDE DEF d
<1>3. Means(d)
  BY <1>2 DEF Means, ServerIn, EndsIn
<1> QED BY <1>2, <1>3 DEF d

(* The fields of a new configuration.                                       *)
LEMMA NewConfigIs ==
    /\ DOMAIN NewConfig = Keys /\ NewConfig.server_port = <<"6339">>
    /\ NewConfig.token = NULL /\ NewConfig.addr_list = <<>> /\ NewEnds(NewConfig)
<1>1. DOMAIN NewConfig = Keys
  BY DEF NewConfig, Keys
<1>2. /\ NewConfig.server_port = <<"6339">>
      /\ NewConfig.token = NULL /\ NewConfig.addr_list = <<>>
  BY DEF NewConfig
<1>3. NewEnds(NewConfig)
  BY DEF NewConfig, NewEnds, Lo
<1> QED BY <1>1, <1>2, <1>3

(* The configuration with what parse_addr found for the server.             *)
ServerConfig == [cfg EXCEPT !.server_address = Str(ADDR, NULL), !.server_port = Str(PORT, @)]
TokenConfig  == [ServerConfig EXCEPT !.token = Str(TOKEN, NULL)]

(* parse_addr has found the server that the user means.                     *)
LEMMA ServerResult ==
    ASSUME BufferInv, cfg = NewConfig, ServerCall, ret # "run"
    PROVE  /\ ret = "ok"
           /\ form.kind = "SERVER" => ServerIn(ServerConfig)
           /\ form.kind # "SERVER" => ServerIn(TokenConfig) /\ NewEnds(TokenConfig)
<1>1. PICK p, t : ServerMeans(p, t) /\ AddrCall(form.host, p, t)
  BY DEF ServerCall
<1> DEFINE h == form.host
<1>2. /\ ret = "ok" /\ ps[ADDR] # 0 /\ CStr(ps[ADDR]) = h
      /\ p = NULL => ps[PORT] = 0
      /\ p # NULL => ps[PORT] # 0 /\ CStr(ps[PORT]) = p
      /\ t = NULL => ps[TOKEN] = 0
      /\ t # NULL => ps[TOKEN] # 0 /\ CStr(ps[TOKEN]) = t
  BY <1>1, AddrResult
<1>3. h # NULL
  <2>1. h \in Seq(Char)
    BY <1>1 DEF AddrCall, AddrRuns, Texts
  <2> QED BY <2>1, NullIsNoWord
<1>4. /\ Str(ADDR, NULL) = h /\ Str(TOKEN, NULL) = t
      /\ Str(PORT, cfg.server_port) = (IF p = NULL THEN <<"6339">> ELSE p)
  BY <1>2, NewConfigIs DEF Str
<1>5. /\ form.port = (IF p = NULL THEN <<"6339">> ELSE p)
      /\ form.token = (IF form.kind = "SERVER" THEN NULL ELSE t)
  BY <1>1 DEF ServerMeans
<1> DEFINE c == ServerConfig
           d == TokenConfig
           a == Str(ADDR, NULL)
           o == Str(PORT, cfg.server_port)
           k == Str(TOKEN, NULL)
<1>6. c = [cfg EXCEPT !.server_address = a, !.server_port = o]
  BY DEF ServerConfig
<1>7. d = [c EXCEPT !.token = k]
  BY DEF TokenConfig
<1>8. DOMAIN cfg = Keys /\ cfg.token = NULL /\ NewEnds(cfg)
  BY NewConfigIs
<1>9. a = h /\ o = form.port /\ k = t
  BY <1>4, <1>5
<1> HIDE DEF c, d, a, o, k
<1>10. /\ DOMAIN c = Keys /\ c.server_address = a /\ c.server_port = o /\ c.token = NULL
       /\ c.local_address = cfg.local_address /\ c.local_port = cfg.local_port
       /\ c.remote_address = cfg.remote_address /\ c.remote_port = cfg.remote_port
  BY <1>6, <1>8 DEF Keys
<1>11. /\ DOMAIN d = Keys /\ d.server_address = a /\ d.server_port = o /\ d.token = k
       /\ d.local_address = cfg.local_address /\ d.local_port = cfg.local_port
       /\ d.remote_address = cfg.remote_address /\ d.remote_port = cfg.remote_port
  BY <1>7, <1>10 DEF Keys
<1>12. form.kind = "SERVER" => ServerIn(c)
  BY <1>3, <1>5, <1>9, <1>10 DEF ServerIn
<1>13. form.kind # "SERVER" => ServerIn(d)
  BY <1>3, <1>5, <1>9, <1>11 DEF ServerIn
<1>14. NewEnds(d)
  BY <1>8, <1>11 DEF NewEnds
<1> QED BY <1>2, <1>12, <1>13, <1>14 DEF c, d

(* The text that is parsed is the one that the user means.                  *)
PairIs == \E n, v : PairMeans(n, v, form) /\ PairCall(n, v)
LocalIs ==
    /\ form.lport \in Nat \ {0} /\ form.raddr = NULL /\ form.rport = 0
    /\ AddrCall(form.laddr, Digits(form.lport), NULL)
ListAt(R, k) ==
    /\ Rests(form.list, R) /\ k \in 0..Len(form.list)
    /\ list \in {R[k], Behind(form.list, R, k)} /\ NodesAt(cfg.addr_list, k)
ElementAt(R, k) ==
    /\ Rests(form.list, R) /\ k \in 0..(Len(form.list) - 1)
    /\ list = R[k] /\ NodesAt(cfg.addr_list, k)
    /\ AddrCall(form.list[k + 1].addr, Digits(form.list[k + 1].port), NULL)
ListIs    == \E R, k : ListAt(R, k)
ElementIs == \E R, k : ElementAt(R, k)

FormAt ==
    /\ phase # "usage"
    /\ phase \in {"permute", "getopt", "operands", "server"} => cfg = NewConfig
    /\ phase = "server" => ServerCall
    /\ phase \in {"pair", "local", "list", "element"} => ServerIn(cfg)
    /\ phase \in {"pair", "local"} => NewEnds(cfg)
    /\ phase = "pair" => form.kind = "CONNECTOR_PORT" /\ PairIs
    /\ phase = "local" => form.kind = "CONNECTOR_SOCK" /\ LocalIs
    /\ phase \in {"list", "element"} => form.kind = "FORWARDER_PORT"
    /\ phase = "list" => ListIs
    /\ phase = "element" => ElementIs
    /\ phase \in {"key", "done"} =>
          /\ Means(cfg)
          /\ form.kind = "FORWARDER_PORT" => NodesAt(cfg.addr_list, Len(form.list))

FormInv == form.kind # "none" => OfForm(given, form) /\ FormAt

(* A step to the end of parse_args, or to the next text.                    *)
LEMMA ToKey ==
    ASSUME phase' = "key", form' = form, NEW c, Means(c), cfg' = c,
           form.kind # "FORWARDER_PORT"
    PROVE  FormAt'
<1>1. Means(cfg)'
  BY DEF Means, ServerIn, EndsIn, WithEnds
<1> QED BY <1>1 DEF FormAt

(* Which list the user gave.                                                *)
LEMMA SenseIs ==
    ASSUME CommandInv, Agrees, OfForm(given, form), form.kind = "FORWARDER_PORT"
    PROVE  /\ form.sense \in {"", "w", "b"} /\ (form.sense = "" => form.list = <<>>)
           /\ (optarg["w"] # NULL <=> form.sense = "w")
           /\ (optarg["b"] # NULL <=> form.sense = "b")
           /\ \A o \in {"w", "b"} : form.sense = o =>
                 optarg[o] \in Seq(Char) /\ ListText(optarg[o], form.list)
<1>1. /\ form.sense \in {"", "w", "b"}
      /\ on \cap {"w", "b"} = {form.sense} \ {""}
      /\ IF form.sense = "" THEN form.list = <<>> ELSE ListText(optarg[form.sense], form.list)
  BY DEF OfForm, Agrees
<1>2. \A o \in {"w", "b"} : o \in on <=> form.sense = o
  BY <1>1
<1>3. \A o \in {"w", "b"} : /\ optarg[o] # NULL <=> o \in on
                            /\ optarg[o] # NULL => optarg[o] \in Seq(Char)
  BY DEF CommandInv, OptionInv, WithArg
<1> QED BY <1>1, <1>2, <1>3

(* Operands.                                                                *)
LEMMA OperandsMean ==
    ASSUME CommandInv, Agrees, OfForm(given, form), FormAt, Operands
    PROVE  FormAt'
<1>0. phase = "operands" /\ cfg = NewConfig /\ form' = form
  BY DEF Operands, FormAt, argVars
<1>1. OptionsMean
  BY ModeOptionsMean
<1> DEFINE sa == ServerOperand
<1>2. \/ /\ sa = NULL /\ "s" \in on
         /\ cfg' = [cfg EXCEPT !.mode = "SERVER", !.server_address = <<"0.0.0.0">>]
         /\ phase' = "key"
      \/ sa = NULL /\ "s" \notin on
      \/ sa # NULL /\ Call("addr", sa) /\ phase' = "server" /\ cfg' = cfg
  BY DEF Operands, ServerOperand
<1> HIDE DEF sa
<1>3. \/ /\ form.kind = "SERVER" /\ sa = NULL
         /\ form.host = <<"0.0.0.0">> /\ form.port = <<"6339">> /\ form.token = NULL
      \/ sa \in Seq(Char) /\ ServerText(sa, form)
  BY ServerOperandIs DEF sa
<1>4. CASE /\ form.kind = "SERVER" /\ sa = NULL
           /\ form.host = <<"0.0.0.0">> /\ form.port = <<"6339">> /\ form.token = NULL
  <2> DEFINE c == [cfg EXCEPT !.mode = "SERVER", !.server_address = <<"0.0.0.0">>]
  <2>1. cfg' = c /\ phase' = "key"
    BY <1>1, <1>2, <1>4 DEF OptionsMean
  <2>2. DOMAIN cfg = Keys /\ cfg.server_port = <<"6339">> /\ cfg.token = NULL
    BY <1>0, NewConfigIs
  <2>3. /\ DOMAIN c = Keys /\ c.mode = "SERVER" /\ c.server_address = <<"0.0.0.0">>
        /\ c.server_port = <<"6339">> /\ c.token = NULL
    BY <2>2 DEF Keys
  <2> HIDE DEF c
  <2>4. <<"0.0.0.0">> # NULL
    BY DEF NULL
  <2>5. ServerIn(c)
    BY <1>4, <2>3, <2>4 DEF ServerIn
  <2>6. Means(c) /\ form.kind # "FORWARDER_PORT"
    BY <1>4, <2>3, <2>5 DEF Means, WithEnds
  <2> QED BY <1>0, <2>1, <2>6, ToKey
<1>5. CASE sa \in Seq(Char) /\ ServerText(sa, form)
  <2>1. Call("addr", sa) /\ phase' = "server" /\ cfg' = cfg
    BY <1>2, <1>5, NullIsNoWord
  <2>2. PICK x : x = sa
    OBVIOUS
  <2>3. x \in Seq(Char) /\ ServerText(x, form) /\ Call("addr", x)
    BY <1>5, <2>1, <2>2
  <2>4. ServerCall'
    BY <1>0, <2>3, ServerCalled
  <2> QED BY <1>0, <2>1, <2>4 DEF FormAt
<1> QED BY <1>3, <1>4, <1>5

(* A round of a parser, or no step.                                         *)
LEMMA ParseMeans ==
    ASSUME CommandInv, FormAt, Parse \/ UNCHANGED vars
    PROVE  FormAt'
<1>0. UNCHANGED <<phase, list, cfg, lost>> /\ form' = form
  BY DEF Parse, vars, argVars
<1>b. BufferInv
  BY DEF CommandInv
<1>u. UNCHANGED vars => UNCHANGED <<fn, b, i, s, j, ps, ret>>
  BY DEF vars, parserVars
<1>c. ASSUME NEW h, NEW p, NEW t, AddrCall(h, p, t) PROVE AddrCall(h, p, t)'
  <2>1. CASE UNCHANGED <<fn, b, i, s, j, ps, ret>>
    <3>1. PICK y \in Seq(Char \cup {NUL}), br \in {0, 1}, e1 \in Nat, e2 \in Nat, e3 \in Nat :
              AddrRuns(y, br, e1, e2, e3, h, p, t)
      BY <1>c DEF AddrCall
    <3>2. AddrRun(y, br, e1, e2, e3)
      BY <3>1 DEF AddrRuns
    <3>3. AddrRun(y, br, e1, e2, e3)'
      BY <2>1, <3>2 DEF AddrRun, PointersAt
    <3>4. AddrRuns(y, br, e1, e2, e3, h, p, t)'
      BY <3>1, <3>3 DEF AddrRuns
    <3> QED BY <3>4 DEF AddrCall
  <2> QED BY <1>b, <1>c, <1>u, <2>1, AddrCallStep
<1>d. ASSUME NEW n, NEW v, PairCall(n, v) PROVE PairCall(n, v)'
  <2>1. CASE UNCHANGED <<fn, b, i, s, j, ps, ret>>
    BY <1>d, <2>1 DEF PairCall, PairRuns, PairAt, PairState, PairPointers, FieldsKept
  <2> QED BY <1>b, <1>d, <1>u, <2>1, PairCallStep
<1>1. ServerCall => ServerCall'
  <2> SUFFICES ASSUME ServerCall PROVE ServerCall'
    OBVIOUS
  <2>1. PICK p, t : ServerMeans(p, t) /\ AddrCall(form.host, p, t)
    BY DEF ServerCall
  <2>2. PICK h : h = form.host
    OBVIOUS
  <2>3. AddrCall(h, p, t)'
    BY <1>c, <2>1, <2>2
  <2>4. AddrCall(form.host, p, t)'
    BY <1>0, <2>2, <2>3
  <2>5. ServerMeans(p, t)'
    BY <1>0, <2>1 DEF ServerMeans
  <2> QED BY <2>4, <2>5 DEF ServerCall
<1>2. PairIs => PairIs'
  <2> SUFFICES ASSUME PairIs PROVE PairIs'
    OBVIOUS
  <2>1. PICK n, v : PairMeans(n, v, form) /\ PairCall(n, v)
    BY DEF PairIs
  <2>2. PairCall(n, v)'
    BY <1>d, <2>1
  <2>3. PairMeans(n, v, form)'
    BY <1>0, <2>1 DEF PairMeans
  <2> QED BY <2>2, <2>3 DEF PairIs
<1>3. LocalIs => LocalIs'
  <2> SUFFICES ASSUME LocalIs PROVE LocalIs'
    OBVIOUS
  <2>1. PICK h, p : h = form.laddr /\ p = Digits(form.lport)
    OBVIOUS
  <2>2. AddrCall(h, p, NULL)
    BY <2>1 DEF LocalIs
  <2>3. AddrCall(h, p, NULL)'
    BY <1>c, <2>2
  <2>4. AddrCall(form.laddr, Digits(form.lport), NULL)'
    BY <1>0, <2>1, <2>3
  <2> QED BY <1>0, <2>4 DEF LocalIs
<1>4. ASSUME NEW al, NEW k PROVE NodesAt(al, k)' <=> NodesAt(al, k)
  BY <1>0 DEF NodesAt, NodeIs, Complete, DefaultAction, ListedAction
<1>l. ListIs => ListIs'
  BY <1>0, <1>4 DEF ListIs, ListAt
<1>5. ElementIs => ElementIs'
  <2> SUFFICES ASSUME ElementIs PROVE ElementIs'
    OBVIOUS
  <2>1. PICK R, k : ElementAt(R, k)
    BY DEF ElementIs
  <2>2. PICK h, p : h = form.list[k + 1].addr /\ p = Digits(form.list[k + 1].port)
    OBVIOUS
  <2>3. AddrCall(h, p, NULL)
    BY <2>1, <2>2 DEF ElementAt
  <2>4. AddrCall(h, p, NULL)'
    BY <1>c, <2>3
  <2>5. AddrCall(form.list[k + 1].addr, Digits(form.list[k + 1].port), NULL)'
    BY <1>0, <2>2, <2>4
  <2>6. ElementAt(R, k)'
    BY <1>0, <1>4, <2>1, <2>5 DEF ElementAt
  <2> QED BY <2>6 DEF ElementIs
<1>6. Means(cfg)' <=> Means(cfg)
  BY <1>0 DEF Means, ServerIn, EndsIn, WithEnds
<1>7. (ServerIn(cfg)' <=> ServerIn(cfg)) /\ (NewEnds(cfg)' <=> NewEnds(cfg))
  BY <1>0 DEF ServerIn, NewEnds
<1>8. NodesAt(cfg.addr_list, Len(form.list))' <=> NodesAt(cfg.addr_list, Len(form.list))
  BY <1>0, <1>4
<1> QED BY <1>0, <1>1, <1>2, <1>3, <1>l, <1>5, <1>6, <1>7, <1>8 DEF FormAt

(* A number is no null pointer, and has no colon.                           *)
LEMMA DigitsNoColon ==
    ASSUME NEW n \in Nat
    PROVE  Digits(n) # NULL /\ ":" \notin ToSet(Digits(n))
<1> DEFINE D == Digits(n)
<1>1. Len(D) = n /\ \A k \in 1..n : D[k] = "1"
  BY DigitsAre
<1> HIDE DEF D
<1>2. D # NULL
  <2> SUFFICES ASSUME D = NULL PROVE FALSE
    OBVIOUS
  <2>1. Len(D) = 1 /\ D[1] = "NULL"
    BY DEF NULL
  <2>2. n = 1 /\ 1 \in 1..1
    BY <1>1, <2>1
  <2> QED BY <1>1, <2>1, <2>2
<1>3. ":" \notin ToSet(D)
  BY <1>1 DEF ToSet
<1> QED BY <1>2, <1>3 DEF D

(* LOCAL_ADDR:LOCAL_PORT has one.                                           *)
LEMMA AddrHasColon ==
    ASSUME NEW x, NEW h, NEW n \in Nat, AddrText(x, h, Digits(n), NULL)
    PROVE  ":" \in ToSet(x)
<1> DEFINE p == Digits(n)
           P == Part(":", p)
           Q == Part("/", NULL)
<1>1. Host(h) /\ p \in Seq(Plain) \cup {NULL}
  BY DEF AddrText
<1>2. PICK w \in Writings(h) : x = w \o P \o Q
  BY DEF AddrText
<1>3. p # NULL
  BY DigitsNoColon
<1>4. P \in Seq(Text) /\ Len(P) >= 1 /\ P[1] = ":"
  <2>1. /\ P \in Seq(Text) /\ Len(p) \in Nat /\ Len(P) = 1 + Len(p) /\ P[1] = ":"
    BY <1>1, <1>3, PartIs DEF Separators
  <2> DEFINE m == Len(p)
  <2>2. m \in Nat /\ Len(P) = 1 + m
    BY <2>1
  <2> HIDE DEF m, P
  <2>3. Len(P) >= 1
    BY <2>2
  <2> QED BY <2>1, <2>3
<1>5. Q = <<>>
  BY DEF Part
<1> HIDE DEF P, Q
<1>6. w \in Seq(Text)
  BY <1>1, HostWritten DEF Written
<1> DEFINE u == w \o P
<1>7. /\ u \in Seq(Text) /\ Len(w) \in Nat /\ Len(P) \in Nat /\ Len(u) = Len(w) + Len(P)
      /\ \A k \in 1..Len(P) : u[Len(w) + k] = P[k]
  BY <1>4, <1>6, Joined
<1> HIDE DEF u
<1>8. x = u
  <2>1. u \o <<>> = u
    BY <1>7, ConcatEmptySeq
  <2>2. x = u \o <<>>
    BY <1>2, <1>5 DEF u
  <2> QED BY <2>1, <2>2
<1>9. 1 \in 1..Len(P) /\ Len(w) + 1 \in 1..Len(u)
  <2> DEFINE W == Len(w)
             N == Len(P)
  <2>1. W \in Nat /\ N \in Nat /\ N >= 1 /\ Len(u) = W + N
    BY <1>4, <1>7
  <2> HIDE DEF W, N
  <2>2. 1 \in 1..N /\ W + 1 \in 1..(W + N)
    BY <2>1
  <2> QED BY <2>1, <2>2 DEF W, N
<1>10. x[Len(w) + 1] = ":"
  BY <1>4, <1>7, <1>8, <1>9
<1> QED BY <1>8, <1>9, <1>10 DEF ToSet

(* parse_server and parse_client, with the names of what they set.          *)
LEMMA ServerParsedIs ==
    ASSUME ServerParsed, ret = "ok"
    PROVE  LET c == ServerConfig
               d == TokenConfig IN
       \/ "s" \in on /\ cfg' = SetMode(c, "SERVER") /\ phase' = "key"
       \/ /\ "s" \notin on /\ Forward /\ Port
          /\ optarg["w"] # NULL /\ optarg["b"] # NULL
       \/ /\ "s" \notin on /\ Forward /\ Port
          /\ \E l \in Adds(<<>>, <<Node(0, NULL, 0, IF optarg["w"] # NULL THEN 0 ELSE 1)>>) :
                cfg' = [d EXCEPT !.addr_list = l]
          /\ lost' = (cfg'.addr_list = <<>>)
          /\ list' = IF optarg["w"] # NULL THEN optarg["w"] ELSE
                     IF optarg["b"] # NULL THEN optarg["b"] ELSE <<>>
          /\ phase' = "list"
       \/ /\ "s" \notin on /\ Forward /\ ~Port
          /\ cfg' = IF Sock THEN SetMode(d, "FORWARDER_SOCK")
                    ELSE SetMode([d EXCEPT !.user = optarg["u"]], "FORWARDER_TERM")
          /\ phase' = "key"
       \/ "s" \notin on /\ ~Forward /\ d.token = NULL
       \/ /\ "s" \notin on /\ ~Forward /\ ~Port /\ ~Sock
          /\ cfg' = SetMode(d, "CONNECTOR_TERM") /\ phase' = "key"
       \/ "s" \notin on /\ ~Forward /\ Port /\ cfg' = d /\ Call("pair", T(0)) /\ phase' = "pair"
       \/ /\ "s" \notin on /\ ~Forward /\ ~Port /\ Sock /\ ":" \in ToSet(T(0))
          /\ cfg' = d /\ Call("addr", T(0)) /\ phase' = "local"
       \/ /\ "s" \notin on /\ ~Forward /\ ~Port /\ Sock /\ ":" \notin ToSet(T(0))
          /\ cfg' = SetMode([d EXCEPT !.local_port = Atoi(T(0))], "CONNECTOR_SOCK")
          /\ phase' = "key"
  BY DEF ServerParsed, ServerConfig, TokenConfig

(* The first text of a list.                                                *)
LEMMA ListStarts ==
    ASSUME NEW x \in Seq(Char), ListText(x, form.list), form' = form, list' = x,
           NodesAt(cfg.addr_list, 0)'
    PROVE  ListIs'
<1>1. PICK l : l = form.list
  OBVIOUS
<1>2. PICK R : Rests(l, R) /\ R[0] = x
  BY <1>1, ListRests
<1>3. 0 \in 0..Len(l)
  <2>1. Len(l) \in Nat
    BY <1>2, LenProperties DEF Rests
  <2> QED BY <2>1
<1>4. l = form'.list
  BY <1>1
<1>5. ListAt(R, 0)'
  BY <1>2, <1>3, <1>4 DEF ListAt
<1> QED BY <1>5 DEF ListIs

(* ServerParsed.                                                            *)
LEMMA ServerParsedMeans ==
    ASSUME CommandInv, Agrees, OfForm(given, form), FormAt, ServerParsed
    PROVE  FormAt'
<1> DEFINE c == ServerConfig
           d == TokenConfig
<1>0. /\ phase = "server" /\ ret # "run" /\ form' = form
      /\ cfg = NewConfig /\ ServerCall /\ BufferInv
  BY DEF ServerParsed, argVars, FormAt, CommandInv
<1>1. /\ ret = "ok" /\ (form.kind = "SERVER" => ServerIn(c))
      /\ form.kind # "SERVER" => ServerIn(d) /\ NewEnds(d)
  BY <1>0, ServerResult
<1>o. OptionsMean
  BY ModeOptionsMean
<1>f. (Forward <=> "f" \in on) /\ (Port <=> "p" \in on) /\ (Sock <=> "x" \in on)
  BY DEF Forward, Port, Sock
<1>k. /\ form.kind \in {"SERVER", "FORWARDER_TERM", "FORWARDER_PORT", "FORWARDER_SOCK",
                        "CONNECTOR_TERM", "CONNECTOR_PORT", "CONNECTOR_SOCK"}
      /\ form.kind \in {"CONNECTOR_TERM", "CONNECTOR_PORT", "CONNECTOR_SOCK"}
            => form.token # NULL
  BY DEF OfForm
<1>2. CASE form.kind = "SERVER"
  <2>1. "s" \in on
    BY <1>2, <1>o DEF OptionsMean
  <2>2. cfg' = SetMode(c, "SERVER") /\ phase' = "key"
    BY <1>1, <2>1, ServerParsedIs
  <2>3. ServerIn(c) /\ ~WithEnds
    BY <1>1, <1>2 DEF WithEnds
  <2> HIDE DEF c
  <2>4. Means(SetMode(c, "SERVER")) /\ form.kind # "FORWARDER_PORT"
    BY <1>2, <2>3, ModeMeans
  <2> QED BY <1>0, <2>2, <2>4, ToKey
<1>d. ASSUME form.kind # "SERVER" PROVE ServerIn(d) /\ NewEnds(d)
  BY <1>1, <1>d
<1>t. ASSUME form.kind # "SERVER" PROVE d.token = form.token
  BY <1>d, <1>t DEF ServerIn
<1>3. CASE form.kind = "FORWARDER_TERM"
  <2> DEFINE e == [d EXCEPT !.user = optarg["u"]]
  <2>1. "s" \notin on /\ Forward /\ ~Port /\ ~Sock
    BY <1>3, <1>o, <1>f DEF OptionsMean
  <2>2. cfg' = SetMode(e, "FORWARDER_TERM") /\ phase' = "key"
    BY <1>1, <2>1, ServerParsedIs
  <2>3. ServerIn(d) /\ ~WithEnds
    BY <1>d, <1>3 DEF WithEnds
  <2> HIDE DEF d
  <2>4. ServerIn(e)
    BY <2>3 DEF ServerIn, Keys
  <2> HIDE DEF e
  <2>5. Means(SetMode(e, "FORWARDER_TERM")) /\ form.kind # "FORWARDER_PORT"
    BY <1>3, <2>3, <2>4, ModeMeans
  <2> QED BY <1>0, <2>2, <2>5, ToKey
<1>4. CASE form.kind = "FORWARDER_SOCK"
  <2>1. "s" \notin on /\ Forward /\ ~Port /\ Sock
    BY <1>4, <1>o, <1>f DEF OptionsMean
  <2>2. cfg' = SetMode(d, "FORWARDER_SOCK") /\ phase' = "key"
    BY <1>1, <2>1, ServerParsedIs
  <2>3. ServerIn(d) /\ ~WithEnds
    BY <1>d, <1>4 DEF WithEnds
  <2> HIDE DEF d
  <2>4. Means(SetMode(d, "FORWARDER_SOCK")) /\ form.kind # "FORWARDER_PORT"
    BY <1>4, <2>3, ModeMeans
  <2> QED BY <1>0, <2>2, <2>4, ToKey
<1>5. CASE form.kind = "CONNECTOR_TERM"
  <2>1. "s" \notin on /\ ~Forward /\ ~Port /\ ~Sock
    BY <1>5, <1>o, <1>f DEF OptionsMean
  <2>2. d.token # NULL
    BY <1>5, <1>k, <1>t
  <2>3. cfg' = SetMode(d, "CONNECTOR_TERM") /\ phase' = "key"
    BY <1>1, <2>1, <2>2, ServerParsedIs
  <2>4. ServerIn(d) /\ ~WithEnds
    BY <1>d, <1>5 DEF WithEnds
  <2> HIDE DEF d
  <2>5. Means(SetMode(d, "CONNECTOR_TERM")) /\ form.kind # "FORWARDER_PORT"
    BY <1>5, <2>4, ModeMeans
  <2> QED BY <1>0, <2>3, <2>5, ToKey
<1>6. CASE form.kind = "CONNECTOR_PORT"
  <2>1. "s" \notin on /\ ~Forward /\ Port
    BY <1>6, <1>o, <1>f DEF OptionsMean
  <2>2. d.token # NULL
    BY <1>6, <1>k, <1>t
  <2>3. cfg' = d /\ Call("pair", T(0)) /\ phase' = "pair"
    BY <1>1, <2>1, <2>2, ServerParsedIs
  <2>4. PICK x, f : x = T(0) /\ f = form
    OBVIOUS
  <2>5. x \in Seq(Char) /\ PairText(x, f)
    BY <1>6, <2>4, FirstOperandIs
  <2>6. PICK n, v : PairMeans(n, v, f) /\ SplitInto(x, n, v)
    BY <2>5, PairTextSplit DEF PairFields
  <2>7. PairCall(n, v)'
    BY <2>3, <2>4, <2>5, <2>6, PairCalled
  <2>8. PairIs'
    BY <1>0, <2>4, <2>6, <2>7 DEF PairIs
  <2>9. ServerIn(d) /\ NewEnds(d)
    BY <1>d, <1>6
  <2> HIDE DEF d
  <2>10. ServerIn(cfg)' /\ NewEnds(cfg)'
    BY <1>0, <2>3, <2>9 DEF ServerIn, NewEnds
  <2> QED BY <1>0, <1>6, <2>3, <2>8, <2>10 DEF FormAt
<1>7. CASE form.kind = "CONNECTOR_SOCK"
  <2>1. "s" \notin on /\ ~Forward /\ ~Port /\ Sock
    BY <1>7, <1>o, <1>f DEF OptionsMean
  <2>2. d.token # NULL
    BY <1>7, <1>k, <1>t
  <2>a. PICK x, n, h : x = T(0) /\ n = form.lport /\ h = form.laddr
    OBVIOUS
  <2>3. \/ ":" \in ToSet(x) /\ cfg' = d /\ Call("addr", x) /\ phase' = "local"
        \/ /\ ":" \notin ToSet(x) /\ phase' = "key"
           /\ cfg' = SetMode([d EXCEPT !.local_port = Atoi(x)], "CONNECTOR_SOCK")
    BY <1>1, <2>1, <2>2, <2>a, ServerParsedIs
  <2>4. x \in Seq(Char) /\ LocalText(x, form)
    BY <1>7, <2>a, FirstOperandIs
  <2>5. /\ n \in Nat \ {0} /\ form.raddr = NULL /\ form.rport = 0
        /\ (x = Digits(n) /\ h = Lo) \/ AddrText(x, h, Digits(n), NULL)
    BY <2>4, <2>a DEF LocalText
  <2>d. ServerIn(d) /\ NewEnds(d)
    BY <1>d, <1>7
  <2> HIDE DEF d
  <2>6. CASE AddrText(x, h, Digits(n), NULL)
    <3>1. ":" \in ToSet(x)
      BY <2>5, <2>6, AddrHasColon
    <3>2. cfg' = d /\ Call("addr", x) /\ phase' = "local"
      BY <2>3, <3>1
    <3>3. AddrCall(h, Digits(n), NULL)'
      BY <2>4, <2>6, <3>2, AddrTextCalled
    <3>4. n = form'.lport /\ h = form'.laddr
      BY <1>0, <2>a
    <3>5. LocalIs'
      BY <1>0, <2>5, <3>3, <3>4 DEF LocalIs
    <3>6. ServerIn(cfg)' /\ NewEnds(cfg)'
      BY <1>0, <2>d, <3>2 DEF ServerIn, NewEnds
    <3> QED BY <1>0, <1>7, <3>2, <3>5, <3>6 DEF FormAt
  <2>7. CASE x = Digits(n) /\ h = Lo
    <3> DEFINE e == [d EXCEPT !.local_port = Atoi(x)]
    <3>1. ":" \notin ToSet(x) /\ Atoi(x) = n
      BY <2>5, <2>7, DigitsNoColon, AtoiDigits
    <3>2. cfg' = SetMode(e, "CONNECTOR_SOCK") /\ phase' = "key"
      BY <2>3, <3>1
    <3>3. Keys \subseteq DOMAIN d
      BY <2>d DEF ServerIn
    <3>4. /\ Keys \subseteq DOMAIN e /\ e.server_address = d.server_address
          /\ e.server_port = d.server_port /\ e.token = d.token
          /\ e.local_address = d.local_address /\ e.local_port = n
          /\ e.remote_address = d.remote_address /\ e.remote_port = d.remote_port
      BY <3>1, <3>3 DEF Keys
    <3> HIDE DEF e
    <3>5. ServerIn(e)
      BY <2>d, <3>4 DEF ServerIn
    <3>6. EndsIn(e)
      BY <2>5, <2>7, <2>a, <2>d, <3>4 DEF NewEnds, EndsIn
    <3>7. Means(SetMode(e, "CONNECTOR_SOCK")) /\ form.kind # "FORWARDER_PORT"
      BY <1>7, <3>5, <3>6, ModeMeans
    <3> QED BY <1>0, <3>2, <3>7, ToKey
  <2> QED BY <2>5, <2>6, <2>7
<1>8. CASE form.kind = "FORWARDER_PORT"
  <2>1. "s" \notin on /\ Forward /\ Port
    BY <1>8, <1>o, <1>f DEF OptionsMean
  <2>s. /\ form.sense \in {"", "w", "b"} /\ (form.sense = "" => form.list = <<>>)
        /\ (optarg["w"] # NULL <=> form.sense = "w")
        /\ (optarg["b"] # NULL <=> form.sense = "b")
        /\ \A o \in {"w", "b"} : form.sense = o =>
              optarg[o] \in Seq(Char) /\ ListText(optarg[o], form.list)
    BY <1>8, SenseIs
  <2> DEFINE a == IF optarg["w"] # NULL THEN 0 ELSE 1
             x == IF optarg["w"] # NULL THEN optarg["w"] ELSE
                  IF optarg["b"] # NULL THEN optarg["b"] ELSE <<>>
  <2>2. /\ \E l \in Adds(<<>>, <<Node(0, NULL, 0, a)>>) : cfg' = [d EXCEPT !.addr_list = l]
        /\ lost' = (cfg'.addr_list = <<>>) /\ list' = x /\ phase' = "list"
    BY <1>1, <2>1, <2>s, ServerParsedIs
  <2>3. a = DefaultAction
    BY <2>s DEF DefaultAction
  <2>4. x \in Seq(Char) /\ ListText(x, form.list)
    <3>1. CASE form.sense = ""
      <4>1. x = <<>> /\ form.list = <<>>
        BY <2>s, <3>1
      <4>2. <<>> \in Seq(Char) /\ <<>> \in Seq(Items)
        BY EmptySeq
      <4>3. ListText(<<>>, <<>>)
        BY <4>2 DEF ListText
      <4> QED BY <4>1, <4>2, <4>3
    <3>2. CASE form.sense = "w"
      BY <2>s, <3>2
    <3>3. CASE form.sense = "b"
      BY <2>s, <3>3
    <3> QED BY <2>s, <3>1, <3>2, <3>3
  <2>d. ServerIn(d)
    BY <1>d, <1>8
  <2> HIDE DEF a, x, d
  <2>5. PICK l \in Adds(<<>>, <<Node(0, NULL, 0, a)>>) : cfg' = [d EXCEPT !.addr_list = l]
    BY <2>2
  <2> DEFINE e == [d EXCEPT !.addr_list = l]
  <2>6. e.addr_list = l /\ ServerIn(e)
    BY <2>d DEF ServerIn, Keys
  <2>e. cfg' = e
    BY <2>5
  <2> HIDE DEF e
  <2>7. cfg'.addr_list = l /\ ServerIn(cfg)'
    <3>1. ServerIn(cfg)'
      BY <1>0, <2>6, <2>e DEF ServerIn
    <3> QED BY <2>6, <2>e, <3>1
  <2>8. NodesAt(l, 0)'
    BY <1>0, <2>2, <2>3, <2>5, <2>7, DefaultPushed
  <2>9. NodesAt(cfg.addr_list, 0)'
    BY <2>7, <2>8
  <2>10. ListIs'
    <3>1. PICK y : y = x
      OBVIOUS
    <3>2. y \in Seq(Char) /\ ListText(y, form.list) /\ list' = y
      BY <2>2, <2>4, <3>1
    <3> QED BY <1>0, <2>9, <3>2, ListStarts
  <2> QED BY <1>0, <1>8, <2>2, <2>7, <2>10 DEF FormAt
<1> QED BY <1>k, <1>2, <1>3, <1>4, <1>5, <1>6, <1>7, <1>8

(* What parse_set_addr_pair sets for the fields that the user means.        *)
LEMMA SetPairMeans ==
    ASSUME BufferInv, ServerIn(cfg), NewEnds(cfg), PairIs, ret # "run"
    PROVE  /\ ret = "ok" /\ ps[1] # 0 /\ ps[2] # 0
           /\ ServerIn(SetPair(cfg)) /\ EndsIn(SetPair(cfg))
<1>1. PICK n, v : PairMeans(n, v, form) /\ PairCall(n, v)
  BY DEF PairIs
<1>2. /\ ret = "ok" /\ n \in 1..4
      /\ \A q \in 1..n : ps[q] # 0 /\ CStr(ps[q]) = v[q]
      /\ \A q \in 1..4 : q > n => ps[q] = 0
  BY <1>1, PairResult
<1>a. \A m \in Nat : Atoi(Digits(m)) = m
  BY AtoiDigits
<1>c. /\ Keys \subseteq DOMAIN cfg /\ cfg.local_address = Lo /\ cfg.local_port = 0
      /\ cfg.remote_address = NULL /\ cfg.remote_port = 0
  BY DEF ServerIn, NewEnds
<1>r. form.rport \in Nat \ {0}
  BY <1>1 DEF PairMeans
<1>3. CASE n = 2
  <2>1. /\ v[1] = form.raddr /\ v[2] = Digits(form.rport) /\ form.laddr = Lo /\ form.lport = 0
    BY <1>1, <1>3 DEF PairMeans
  <2>2. 1 \in 1..2 /\ 2 \in 1..2 /\ 3 \in 1..4 /\ 3 > 2
    OBVIOUS
  <2>3. ps[1] # 0 /\ CStr(ps[1]) = v[1] /\ ps[2] # 0 /\ CStr(ps[2]) = v[2] /\ ps[3] = 0
    BY <1>2, <1>3, <2>2
  <2>4. Str(1, NULL) = form.raddr /\ Atoi(Str(2, NULL)) = form.rport
    BY <1>a, <1>r, <2>1, <2>3 DEF Str
  <2> DEFINE d == SetPair(cfg)
  <2>5. d = [cfg EXCEPT !.remote_address = form.raddr, !.remote_port = form.rport]
    BY <2>3, <2>4 DEF SetPair
  <2> HIDE DEF d
  <2>6. /\ Keys \subseteq DOMAIN d /\ d.server_address = cfg.server_address
        /\ d.server_port = cfg.server_port /\ d.token = cfg.token
        /\ d.local_address = Lo /\ d.local_port = 0
        /\ d.remote_address = form.raddr /\ d.remote_port = form.rport
    BY <1>c, <2>5 DEF Keys
  <2>7. ServerIn(d) /\ EndsIn(d)
    BY <2>1, <2>6 DEF ServerIn, EndsIn
  <2> QED BY <1>2, <2>3, <2>7 DEF d
<1>4. CASE n = 3
  <2>1. /\ form.lport \in Nat \ {0} /\ form.laddr = Lo
        /\ v[1] = Digits(form.lport) /\ v[2] = form.raddr /\ v[3] = Digits(form.rport)
    BY <1>1, <1>4 DEF PairMeans
  <2>2. 1 \in 1..3 /\ 2 \in 1..3 /\ 3 \in 1..3 /\ 4 \in 1..4 /\ 4 > 3
    OBVIOUS
  <2>3. /\ ps[1] # 0 /\ CStr(ps[1]) = v[1] /\ ps[2] # 0 /\ CStr(ps[2]) = v[2]
        /\ ps[3] # 0 /\ CStr(ps[3]) = v[3] /\ ps[4] = 0
    BY <1>2, <1>4, <2>2
  <2>4. /\ Atoi(Str(1, NULL)) = form.lport /\ Str(2, NULL) = form.raddr
        /\ Atoi(Str(3, NULL)) = form.rport
    BY <1>a, <1>r, <2>1, <2>3 DEF Str
  <2> DEFINE d == SetPair(cfg)
  <2>5. d = [cfg EXCEPT !.local_port = form.lport, !.remote_address = form.raddr,
                        !.remote_port = form.rport]
    BY <2>3, <2>4 DEF SetPair
  <2> HIDE DEF d
  <2>6. /\ Keys \subseteq DOMAIN d /\ d.server_address = cfg.server_address
        /\ d.server_port = cfg.server_port /\ d.token = cfg.token
        /\ d.local_address = Lo /\ d.local_port = form.lport
        /\ d.remote_address = form.raddr /\ d.remote_port = form.rport
    BY <1>c, <2>5 DEF Keys
  <2>7. ServerIn(d) /\ EndsIn(d)
    BY <2>1, <2>6 DEF ServerIn, EndsIn
  <2> QED BY <1>2, <2>3, <2>7 DEF d
<1>5. CASE n = 4
  <2>1. /\ form.lport \in Nat \ {0} /\ v[1] = form.laddr /\ v[2] = Digits(form.lport)
        /\ v[3] = form.raddr /\ v[4] = Digits(form.rport)
    BY <1>1, <1>5 DEF PairMeans
  <2>2. 1 \in 1..4 /\ 2 \in 1..4 /\ 3 \in 1..4 /\ 4 \in 1..4
    OBVIOUS
  <2>3. /\ ps[1] # 0 /\ CStr(ps[1]) = v[1] /\ ps[2] # 0 /\ CStr(ps[2]) = v[2]
        /\ ps[3] # 0 /\ CStr(ps[3]) = v[3] /\ ps[4] # 0 /\ CStr(ps[4]) = v[4]
    BY <1>2, <1>5, <2>2
  <2>4. /\ Str(1, NULL) = form.laddr /\ Atoi(Str(2, NULL)) = form.lport
        /\ Str(3, NULL) = form.raddr /\ Atoi(Str(4, NULL)) = form.rport
    BY <1>a, <1>r, <2>1, <2>3 DEF Str
  <2> DEFINE d == SetPair(cfg)
  <2>5. d = [cfg EXCEPT !.local_address = form.laddr, !.local_port = form.lport,
                        !.remote_address = form.raddr, !.remote_port = form.rport]
    BY <2>3, <2>4 DEF SetPair
  <2> HIDE DEF d
  <2>6. /\ Keys \subseteq DOMAIN d /\ d.server_address = cfg.server_address
        /\ d.server_port = cfg.server_port /\ d.token = cfg.token
        /\ d.local_address = form.laddr /\ d.local_port = form.lport
        /\ d.remote_address = form.raddr /\ d.remote_port = form.rport
    BY <1>c, <2>5 DEF Keys
  <2>7. ServerIn(d) /\ EndsIn(d)
    BY <2>6 DEF ServerIn, EndsIn
  <2> QED BY <1>2, <2>3, <2>7 DEF d
<1>6. n \in {2, 3, 4}
  BY <1>1 DEF PairMeans
<1> QED BY <1>3, <1>4, <1>5, <1>6

(* PairParsed and LocalParsed.                                              *)
LEMMA EndsMean ==
    ASSUME CommandInv, FormAt, PairParsed \/ LocalParsed
    PROVE  FormAt'
<1>0. form' = form /\ BufferInv /\ ret # "run"
  BY DEF PairParsed, LocalParsed, argVars, CommandInv
<1>1. CASE PairParsed
  <2>1. /\ phase = "pair" /\ ServerIn(cfg) /\ NewEnds(cfg) /\ PairIs
        /\ form.kind = "CONNECTOR_PORT"
    BY <1>1 DEF PairParsed, FormAt
  <2> DEFINE d == SetPair(cfg)
  <2>2. ret = "ok" /\ ps[1] # 0 /\ ps[2] # 0 /\ ServerIn(d) /\ EndsIn(d)
    BY <1>0, <2>1, SetPairMeans
  <2>3. cfg' = SetMode(d, "CONNECTOR_PORT") /\ phase' = "key"
    BY <1>1, <2>2 DEF PairParsed
  <2> HIDE DEF d
  <2>4. Means(SetMode(d, "CONNECTOR_PORT"))
    BY <2>1, <2>2, ModeMeans
  <2> QED BY <1>0, <2>1, <2>3, <2>4, ToKey
<1>2. CASE LocalParsed
  <2>1. /\ phase = "local" /\ ServerIn(cfg) /\ NewEnds(cfg) /\ LocalIs
        /\ form.kind = "CONNECTOR_SOCK"
    BY <1>2 DEF LocalParsed, FormAt
  <2>2. /\ form.lport \in Nat \ {0} /\ form.raddr = NULL /\ form.rport = 0
        /\ AddrCall(form.laddr, Digits(form.lport), NULL)
    BY <2>1 DEF LocalIs
  <2>3. Digits(form.lport) # NULL /\ Atoi(Digits(form.lport)) = form.lport
    BY <2>2, DigitsNoColon, AtoiDigits
  <2>4. /\ ret = "ok" /\ ps[ADDR] # 0 /\ CStr(ps[ADDR]) = form.laddr
        /\ ps[PORT] # 0 /\ CStr(ps[PORT]) = Digits(form.lport)
    BY <1>0, <2>2, <2>3, AddrResult
  <2>5. Str(ADDR, NULL) = form.laddr /\ Atoi(Str(PORT, NULL)) = form.lport
    BY <2>3, <2>4 DEF Str
  <2> DEFINE d == [cfg EXCEPT !.local_address = form.laddr, !.local_port = form.lport]
  <2>6. cfg' = SetMode(d, "CONNECTOR_SOCK") /\ phase' = "key"
    BY <1>2, <2>4, <2>5 DEF LocalParsed
  <2>c. /\ Keys \subseteq DOMAIN cfg /\ cfg.remote_address = NULL /\ cfg.remote_port = 0
    BY <2>1 DEF ServerIn, NewEnds
  <2>7. /\ Keys \subseteq DOMAIN d /\ d.server_address = cfg.server_address
        /\ d.server_port = cfg.server_port /\ d.token = cfg.token
        /\ d.local_address = form.laddr /\ d.local_port = form.lport
        /\ d.remote_address = NULL /\ d.remote_port = 0
    BY <2>c DEF Keys
  <2> HIDE DEF d
  <2>8. ServerIn(d) /\ EndsIn(d)
    BY <2>1, <2>2, <2>7 DEF ServerIn, EndsIn
  <2>9. Means(SetMode(d, "CONNECTOR_SOCK"))
    BY <2>1, <2>8, ModeMeans
  <2> QED BY <1>0, <2>1, <2>6, <2>9, ToKey
<1> QED BY <1>1, <1>2

(* The list and the elements do not change what the nodes mean.             *)
LEMMA NodesStay ==
    ASSUME form' = form, lost' = lost, NEW al, NEW k, NodesAt(al, k)
    PROVE  NodesAt(al, k)'
BY DEF NodesAt, NodeIs, Complete, DefaultAction, ListedAction

(* ListNext.                                                                *)
LEMMA ListNextMeans ==
    ASSUME CommandInv, FormAt, ListNext
    PROVE  FormAt'
<1>0. /\ phase = "list" /\ form' = form /\ lost' = lost
      /\ form.kind = "FORWARDER_PORT" /\ ServerIn(cfg) /\ ListIs
  BY DEF ListNext, argVars, FormAt
<1>1. PICK R, k : ListAt(R, k)
  BY <1>0 DEF ListIs
<1>l. PICK l, x, al : l = form.list /\ x = list /\ al = cfg.addr_list
  OBVIOUS
<1>2. Rests(l, R) /\ k \in 0..Len(l) /\ x \in {R[k], Behind(l, R, k)} /\ NodesAt(al, k)
  BY <1>1, <1>l DEF ListAt
<1>3. l \in Seq(Items) /\ Len(l) \in Nat /\ R[Len(l)] = <<>> /\ R[k] \in Seq(Char)
  BY <1>2, LenProperties DEF Rests
<1>n. NodesAt(al, k)'
  BY <1>0, <1>2, NodesStay
<1>4. ASSUME k # Len(l) PROVE k \in 0..(Len(l) - 1)
  BY <1>2, <1>3, <1>4
<1>5. k # Len(l) => RestItem(l, R, k)
  BY <1>2, <1>4, RestStarts
<1>6. BehindIs(l, R, k)
  BY <1>3, RestBehind
<1>7. CASE x = <<>>
  <2>1. k = Len(l)
    BY <1>2, <1>5, <1>6, <1>7 DEF RestItem, BehindIs
  <2> DEFINE d == SetMode(cfg, "FORWARDER_PORT")
  <2>2. cfg' = d /\ phase' = "key"
    BY <1>7, <1>l DEF ListNext
  <2>3. Means(d) /\ d.addr_list = al
    BY <1>0, <1>l, ModeMeans DEF WithEnds
  <2> HIDE DEF d
  <2>4. Means(cfg)'
    BY <1>0, <2>2, <2>3 DEF Means, ServerIn, EndsIn, WithEnds
  <2>5. NodesAt(cfg.addr_list, Len(form.list))'
    <3>1. cfg'.addr_list = al /\ Len(form'.list) = k
      BY <1>0, <1>l, <2>1, <2>2, <2>3
    <3> QED BY <1>n, <3>1
  <2> QED BY <2>2, <2>4, <2>5 DEF FormAt
<1>s. ASSUME cfg' = cfg PROVE ServerIn(cfg)'
  BY <1>0, <1>s DEF ServerIn
<1>8. CASE x # <<>> /\ Head(x) = ","
  <2>1. list' = Tail(x) /\ phase' = "list" /\ cfg' = cfg
    BY <1>0, <1>8, <1>l DEF ListNext
  <2>2. k # Len(l) /\ x = Behind(l, R, k)
    BY <1>2, <1>3, <1>5, <1>6, <1>8 DEF RestItem, BehindIs
  <2>3. list' = R[k]
    BY <1>6, <2>1, <2>2 DEF BehindIs
  <2>4. ListAt(R, k)'
    BY <1>0, <1>2, <1>l, <1>n, <2>1, <2>3 DEF ListAt
  <2>5. ListIs'
    BY <2>4 DEF ListIs
  <2> QED BY <1>0, <1>s, <2>1, <2>5 DEF FormAt
<1>9. CASE x # <<>> /\ Head(x) # ","
  <2>1. Call("addr", x) /\ phase' = "element" /\ list' = x /\ cfg' = cfg
    BY <1>0, <1>9, <1>l DEF ListNext
  <2>2. k # Len(l) /\ x = R[k]
    BY <1>2, <1>3, <1>6, <1>9 DEF BehindIs
  <2>3. AddrCall(l[k + 1].addr, Digits(l[k + 1].port), NULL)'
    BY <1>5, <2>1, <2>2, RestCalled
  <2>4. l = form'.list /\ al = cfg'.addr_list
    BY <1>0, <1>l, <2>1
  <2>5. ElementAt(R, k)'
    BY <1>2, <1>4, <1>n, <2>1, <2>2, <2>3, <2>4 DEF ElementAt
  <2>6. ElementIs'
    BY <2>5 DEF ElementIs
  <2> QED BY <1>0, <1>s, <2>1, <2>6 DEF FormAt
<1> QED BY <1>7, <1>8, <1>9

(* ListElement.                                                             *)
LEMMA ListElementMeans ==
    ASSUME CommandInv, Agrees, OfForm(given, form), FormAt, ListElement
    PROVE  FormAt'
<1>0. /\ phase = "element" /\ form' = form /\ ret # "run" /\ BufferInv /\ lost \in BOOLEAN
      /\ form.kind = "FORWARDER_PORT" /\ ServerIn(cfg) /\ ElementIs
  BY DEF ListElement, argVars, FormAt, CommandInv
<1>1. PICK R, k : ElementAt(R, k)
  BY <1>0 DEF ElementIs
<1>l. PICK l, x, al : l = form.list /\ x = list /\ al = cfg.addr_list
  OBVIOUS
<1> DEFINE e == l[k + 1]
<1>2. /\ Rests(l, R) /\ k \in 0..(Len(l) - 1) /\ x = R[k] /\ NodesAt(al, k)
      /\ AddrCall(e.addr, Digits(e.port), NULL)
  BY <1>1, <1>l DEF ElementAt
<1>3. RestItem(l, R, k)
  BY <1>2, RestStarts
<1>4. e \in Items /\ e.port \in Nat /\ FromComma(x) = Behind(l, R, k + 1)
  <2>1. e \in Items /\ FromComma(R[k]) = Behind(l, R, k + 1)
    BY <1>3 DEF RestItem
  <2>2. e.port \in Nat
    BY <2>1 DEF Items
  <2> QED BY <1>2, <2>1, <2>2
<1>e. e = form.list[k + 1]
  BY <1>l
<1> HIDE DEF e
<1>5. Digits(e.port) # NULL /\ Atoi(Digits(e.port)) = e.port
  BY <1>4, DigitsNoColon, AtoiDigits
<1>6. /\ ret = "ok" /\ ps[ADDR] # 0 /\ CStr(ps[ADDR]) = e.addr
      /\ ps[PORT] # 0 /\ CStr(ps[PORT]) = Digits(e.port)
  BY <1>0, <1>2, <1>5, AddrResult
<1>7. Str(ADDR, NULL) = e.addr /\ Atoi(Str(PORT, NULL)) = e.port
  BY <1>5, <1>6 DEF Str
<1>8. (IF optarg["w"] # NULL THEN 1 ELSE 0) = ListedAction
  BY <1>0, SenseIs DEF ListedAction
<1> DEFINE new == Nodes(e.addr, e.port, ListedAction)
<1>9. NodesOf(new, e)
  BY <1>4, NodesAre
<1>10. new # <<>> /\ new \in Seq(ListNodes) /\ Len(new) \in {1, 2}
  <2>1. new \in Seq(ListNodes) /\ Len(new) \in {1, 2}
    BY <1>9 DEF NodesOf
  <2> HIDE DEF new
  <2>2. new # <<>>
    <3>1. Len(<<>>) = 0
      BY EmptySeq
    <3>2. Len(new) # 0
      BY <2>1
    <3> QED BY <3>1, <3>2
  <2> QED BY <2>1, <2>2
<1>11. /\ cfg' \in {[cfg EXCEPT !.addr_list = y] : y \in Adds(cfg.addr_list, new)}
       /\ lost' = (lost \/ Len(cfg'.addr_list) < Len(cfg.addr_list) + Len(new))
       /\ list' = FromComma(list) /\ phase' = "list"
  BY <1>6, <1>7, <1>8, <1>10 DEF ListElement
<1>w. PICK nw : nw = new
  OBVIOUS
<1>12. PICK y \in Adds(al, nw) : cfg' = [cfg EXCEPT !.addr_list = y]
  BY <1>11, <1>l, <1>w
<1> HIDE DEF new
<1>13. cfg'.addr_list = y /\ ServerIn(cfg)'
  <2> DEFINE d == [cfg EXCEPT !.addr_list = y]
  <2>1. d.addr_list = y /\ ServerIn(d)
    BY <1>0 DEF ServerIn, Keys
  <2>2. cfg' = d
    BY <1>12
  <2> HIDE DEF d
  <2>3. ServerIn(cfg)'
    BY <1>0, <2>1, <2>2 DEF ServerIn
  <2> QED BY <2>1, <2>2, <2>3
<1>14. PICK u : Pushed(y, al, nw, u)
  <2>1. al \in Seq(ListNodes)
    BY <1>2 DEF NodesAt
  <2> QED BY <1>10, <1>w, <2>1, AddsPush
<1>15. NodesAt(y, k + 1)'
  <2>1. k \in Nat
    BY <1>2
  <2>2. NodesOf(nw, form.list[k + 1])
    BY <1>9, <1>e, <1>w
  <2>3. lost' = (lost \/ Len(y) < Len(al) + Len(nw))
    BY <1>11, <1>13, <1>l, <1>w
  <2> QED BY <1>0, <1>2, <1>14, <2>1, <2>2, <2>3, NodesPushed
<1>16. list' = Behind(l, R, k + 1)
  BY <1>4, <1>11, <1>l
<1>17. k + 1 \in 0..Len(l)
  <2>1. Len(l) \in Nat
    BY <1>2, LenProperties DEF Rests
  <2> QED BY <1>2, <2>1
<1>18. l = form'.list
  BY <1>0, <1>l
<1>19. ListAt(R, k + 1)'
  BY <1>2, <1>13, <1>15, <1>16, <1>17, <1>18 DEF ListAt
<1>20. ListIs'
  BY <1>19 DEF ListIs
<1> QED BY <1>0, <1>11, <1>13, <1>20 DEF FormAt

(* The command lines that are said to be of a form are.                     *)
LEMMA FormInit == Init => FormInv
<1> SUFFICES ASSUME Init, form.kind # "none" PROVE OfForm(given, form) /\ FormAt
  BY DEF FormInv
<1>1. PICK n \in DOMAIN Cases : \E c \in Cases[n] : given = c.argv /\ form = c.form
  BY DEF Init
<1>2. PICK c \in Cases[n] : given = c.argv /\ form = c.form
  BY <1>1
<1>3. OfForm(given, form)
  BY <1>2, FormsAssumption
<1>4. FormAt
  BY DEF Init, FormAt
<1> QED BY <1>3, <1>4

(* Every step keeps what has been understood.                               *)
LEMMA FormNext == CommandInv /\ GnuInv /\ FormInv /\ [Next]_vars => FormInv'
<1> SUFFICES ASSUME CommandInv, GnuInv, FormInv, [Next]_vars PROVE FormInv'
  OBVIOUS
<1>0. form' = form /\ given' = given
  BY DEF Next, vars, argVars, GetoptPermute, GetoptEnd, GetoptNext, Operands, Parse,
     ServerParsed, PairParsed, LocalParsed, ListNext, ListElement, Key
<1> SUFFICES ASSUME form.kind # "none" PROVE FormAt'
  BY <1>0 DEF FormInv
<1>1. OfForm(given, form) /\ FormAt
  BY DEF FormInv
<1>2. PlainWords(given) /\ KnownOptions
  BY <1>1 DEF OfForm, KnownOptions
<1>3. CASE GetoptPermute \/ GetoptEnd \/ GetoptNext
  <2>1. phase \in {"permute", "getopt"} /\ cfg' = cfg
    BY <1>3 DEF GetoptPermute, GetoptEnd, GetoptNext
  <2>2. phase' \in {"getopt", "operands"}
    <3>1. CASE GetoptNext
      BY <1>2, <3>1, GnuRead
    <3> QED BY <1>3, <3>1 DEF GetoptPermute, GetoptEnd
  <2> QED BY <1>1, <2>1, <2>2 DEF FormAt
<1>a. phase \notin {"permute", "getopt"} => Agrees
  BY <1>1, <1>2 DEF GnuInv, FormAt
<1>4. CASE Operands
  BY <1>1, <1>4, <1>a, OperandsMean DEF Operands
<1>5. CASE Parse \/ UNCHANGED vars
  BY <1>1, <1>5, ParseMeans
<1>6. CASE ServerParsed
  BY <1>1, <1>6, <1>a, ServerParsedMeans DEF ServerParsed
<1>7. CASE PairParsed \/ LocalParsed
  BY <1>1, <1>7, EndsMean
<1>8. CASE ListNext
  BY <1>1, <1>8, ListNextMeans
<1>9. CASE ListElement
  BY <1>1, <1>9, <1>a, ListElementMeans DEF ListElement
<1>10. CASE Key
  <2>0. phase = "key" /\ lost' = lost
    BY <1>10 DEF Key
  <2>1. optarg["k"] = NULL
    <3>1. "k" \notin on
      BY <1>1, <1>a, <2>0, ModeOptionsMean DEF OptionsMean
    <3> QED BY <3>1 DEF CommandInv, OptionInv, WithArg
  <2>2. phase' = "done" /\ cfg' = cfg
    BY <1>10, <2>1 DEF Key
  <2>3. Means(cfg) /\ (form.kind = "FORWARDER_PORT" => NodesAt(cfg.addr_list, Len(form.list)))
    BY <1>1, <2>0 DEF FormAt
  <2>4. Means(cfg)'
    BY <1>0, <2>2, <2>3 DEF Means, ServerIn, EndsIn, WithEnds
  <2>5. form.kind = "FORWARDER_PORT" => NodesAt(cfg.addr_list, Len(form.list))'
    <3>1. PICK al, k : al = cfg.addr_list /\ k = Len(form.list)
      OBVIOUS
    <3>2. form.kind = "FORWARDER_PORT" => NodesAt(al, k)'
      BY <1>0, <2>0, <2>3, <3>1, NodesStay
    <3> QED BY <1>0, <2>2, <3>1, <3>2
  <2> QED BY <1>0, <2>2, <2>4, <2>5 DEF FormAt
<1> QED BY <1>3, <1>4, <1>5, <1>6, <1>7, <1>8, <1>9, <1>10 DEF Next

(* What has been understood of a documented command line, at every step.    *)
LEMMA FormInvariant == Spec => []FormInv
BY FormInit, FormNext, CommandInvariant, GnuInvariant, PTL DEF Spec

(* Every command line of a documented form, however long its words and      *)
(* wherever GNU getopt allows its options, is accepted, and parse_args sets *)
(* the mode, the server's address, port and token and both ends of the      *)
(* connection to what the user means: no separator inside brackets is cut,  *)
(* and no field goes to another's place.                                    *)
THEOREM DocumentedUnderstood == Spec => []FormsUnderstood
<1>1. FormInv => FormsUnderstood
  <2> SUFFICES ASSUME FormInv, phase \in {"done", "usage"}, form.kind # "none"
               PROVE  /\ phase = "done" /\ Means(cfg)
    BY DEF FormsUnderstood, Means, ServerIn, EndsIn, WithEnds
  <2> QED BY DEF FormInv, FormAt
<1> QED BY <1>1, FormInvariant, PTL

(* For every documented white or black list, of any length and with any     *)
(* ports, the forwarder serves exactly the endpoints that the list says, in *)
(* both forms of an IPv4 address; when a node could not be allocated, a     *)
(* white list still serves nothing that is not on it.                       *)
THEOREM ServesTheList == Spec => []ListDecides
<1>1. CommandInv /\ GnuInv /\ FormInv => ListDecides
  <2> SUFFICES ASSUME CommandInv, GnuInv, FormInv, phase = "done", form.kind = "FORWARDER_PORT",
                      NEW r \in Requests, NEW p \in 1..2
               PROVE  LET served == AddrListContains(r[1], r[2], p) = 1
                          listed == Listed(r[1], r[2], p) IN
                      /\ form.sense = "w" => (served => listed) /\ (~lost => (listed => served))
                      /\ form.sense = "b" => (~lost => (served <=> ~listed))
                      /\ form.sense = "" => (~lost => served)
    BY DEF ListDecides
  <2>1. OfForm(given, form) /\ NodesAt(cfg.addr_list, Len(form.list))
    BY DEF FormInv, FormAt
  <2>2. Agrees
    BY <2>1 DEF GnuInv, OfForm
  <2>3. form.sense \in {"", "w", "b"} /\ (form.sense = "" => form.list = <<>>)
    BY <2>1, <2>2, SenseIs
  <2>4. form.list \in Seq(Items)
    <3>1. CASE form.sense = ""
      BY <2>3, <3>1, EmptySeq
    <3>2. CASE form.sense # ""
      BY <2>1, <2>2, <2>3, <3>2, SenseIs DEF ListText
    <3> QED BY <3>1, <3>2
  <2> QED BY <2>1, <2>3, <2>4, ListServes
<1> QED BY <1>1, CommandInvariant, GnuInvariant, FormInvariant, PTL
=============================================================================
