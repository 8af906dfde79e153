------------------------- MODULE FshSessionProofs -------------------------
(***************************************************************************)
(* Proofs about FshSession, for any number of sessions and tokens.         *)
(***************************************************************************)
EXTENDS FshSession, TLAPS

(* The server starts with an empty tree and no session.                     *)
LEMMA InitInv == Init => IInv
<1> SUFFICES ASSUME Init PROVE IInv
    OBVIOUS
<1> USE SessionAssumption, ModeAssumption DEF Init, Live
<1>1. TypeOK
    BY DEF TypeOK, Token, Label, Type, RegType, Op
<1>2. RegistryConsistent
    BY DEF RegistryConsistent, RegType
<1>3. RoleAtLabel
    BY DEF RoleAtLabel
<1>4. FdInv
    BY DEF FdInv
<1>5. PairedByToken
    BY DEF PairedByToken
<1>6. SendInv
    BY DEF SendInv
<1>7. WireExclusive
    BY DEF WireExclusive
<1>8. UniqueForwarder
    BY DEF UniqueForwarder
<1> QED
    BY <1>1, <1>2, <1>3, <1>4, <1>5, <1>6, <1>7, <1>8 DEF IInv

(* The forwarders a login of s may evict.                                   *)
Evictable(s, E) ==
    E \in SUBSET Session /\ \A f \in E : f # s /\ ntype[f] = "FORWARD"

(* Upd keeps the type of the function it changes.                           *)
LEMMA UpdType ==
    ASSUME NEW T, NEW f \in [Session -> T], NEW E, NEW v \in T
    PROVE  Upd(f, E, v) \in [Session -> T]
    BY DEF Upd

(* Steps that move no descriptor, free nobody and leave paired connectors   *)
(* alone keep the two invariants about handed-over descriptors.             *)
LEMMA HandoverFrame ==
    ASSUME IInv, UNCHANGED ioVars,
           \A x \in Session : Live(x)' <=> Live(x),
           \A x \in Session :
               pc[x] = "freed" => pc'[x] = "freed" /\ mt'[x] = mt[x],
           \A x \in Session :
               type[x] = "SPLICE" => type'[x] = "SPLICE" /\ token'[x] = token[x]
    PROVE  FdInv' /\ PairedByToken'
<1> USE SessionAssumption DEF IInv, ioVars
<1>1. \A c \in Session : remote_fd[c] # None => remote_fd[c] \in Session
    BY DEF TypeOK
<1>2. \A f \in open : f \in Session
    BY DEF TypeOK
<1>3. FdInv'
    BY <1>1, <1>2 DEF FdInv
<1>4. PairedByToken'
    BY <1>1 DEF PairedByToken
<1> QED
    BY <1>3, <1>4

(* Ending a session keeps the invariant, whoever else holds or frees a      *)
(* write lock meanwhile.                                                    *)
LEMMA CloseInv ==
    ASSUME IInv, NEW s \in Session, Live(s), NEW E, Evictable(s, E), Close(s, E),
           wlock' = wlock \/ (pc[s] = "send"
                              /\ wlock' = [wlock EXCEPT ![target[s]] = None]),
           allow' = allow, issued' \in SUBSET Session
    PROVE  IInv'
<1> USE SessionAssumption DEF IInv, Close, ClearLocals, Upd, Live, Evictable
<1>1. TypeOK'
    <2> USE DEF TypeOK
    <2>1. /\ pc' \in [Session -> Label]
          /\ type' \in [Session -> Type]
          /\ is_mgr' \in [Session -> BOOLEAN]
          /\ timeout' \in [Session -> {0, 1}]
        BY UpdType DEF Label, Type
    <2>2. /\ ntype' \in [Session -> RegType \cup {"NONE"}]
          /\ ntoken' \in [Session -> Token \cup {None}]
          /\ is_temp_token' \in [Session -> BOOLEAN]
          /\ token' \in [Session -> Token \cup {None}]
        BY UpdType
    <2>3. /\ client_fd' \in [Session -> Session \cup {None}]
          /\ remote_fd' \in [Session -> Session \cup {None}]
          /\ open' \in SUBSET Session
          /\ poll' \in [Session -> Session \cup {None}]
        BY UpdType
    <2>4. /\ wlock' \in [Session -> Session \cup {None}]
          /\ ver' \in [Session -> 0..3] /\ op' \in [Session -> Op]
          /\ mt' \in [Session -> Token \cup {None}]
          /\ target' \in [Session -> Session \cup {None}]
          /\ sfd' \in [Session -> Session \cup {None}]
        BY DEF Op
    <2> QED
        BY <2>1, <2>2, <2>3, <2>4
<1>2. \A f \in E : is_mgr[f] /\ type[f] = "FORWARD" /\ Live(f)
    BY DEF RegistryConsistent
<1>3. \A x \in Session :
        /\ type'[x] = IF x = s THEN "NULL" ELSE IF x \in E THEN "CLOSED" ELSE type[x]
        /\ is_mgr'[x] = IF x = s \/ x \in E THEN FALSE ELSE is_mgr[x]
        /\ ntype'[x] = IF (x = s /\ is_mgr[s]) \/ x \in E THEN "NONE" ELSE ntype[x]
        /\ ntoken'[x] = IF (x = s /\ is_mgr[s]) \/ x \in E THEN None ELSE ntoken[x]
        /\ token'[x] = IF x = s THEN None ELSE token[x]
        /\ pc'[x] = IF x = s THEN "freed" ELSE pc[x]
    BY DEF TypeOK
<1>4. RegistryConsistent'
    BY <1>2, <1>3 DEF RegistryConsistent, RegType, TypeOK
<1>5. RoleAtLabel'
    BY <1>2, <1>3 DEF RoleAtLabel, TypeOK
<1>6. FdInv'
    <2>1. client_fd[s] = s
        BY DEF FdInv
    <2>2. \A x \in Session : client_fd'[x] = IF Live(x)' THEN x ELSE None
        BY DEF FdInv, TypeOK
    <2>3. \A x \in Session : Live(x)' => x \in open' /\ poll'[x] = x
        <3> SUFFICES ASSUME NEW x \in Session, Live(x)'
                     PROVE  x \in open' /\ poll'[x] = x
            OBVIOUS
        <3>1. x # s /\ Live(x)
            BY DEF TypeOK
        <3>2. x # remote_fd[s]
            BY <3>1 DEF FdInv
        <3> QED
            BY <2>1, <3>1, <3>2 DEF FdInv, TypeOK
    <2>4. ASSUME NEW c \in Session, remote_fd'[c] # None
          PROVE  /\ Live(c)' /\ type'[c] = "SPLICE"
                 /\ pc'[remote_fd'[c]] = "freed"
                 /\ remote_fd'[c] \in open' /\ poll'[remote_fd'[c]] = c
        <3>1. c # s /\ remote_fd'[c] = remote_fd[c]
            BY <2>4 DEF TypeOK
        <3>2. remote_fd[c] # s /\ remote_fd[c] # remote_fd[s]
            BY <2>4, <3>1 DEF FdInv
        <3>3. /\ remote_fd[c] \in Session /\ remote_fd[c] \in open
              /\ Live(c) /\ type[c] = "SPLICE" /\ pc[remote_fd[c]] = "freed"
              /\ poll[remote_fd[c]] = c
            BY <2>4, <3>1 DEF FdInv, TypeOK
        <3>4. Live(c)' /\ type'[c] = "SPLICE"
            BY <1>2, <1>3, <3>1, <3>3
        <3> QED
            BY <2>1, <3>1, <3>2, <3>3, <3>4 DEF TypeOK
    <2>5. ASSUME NEW f \in open'
          PROVE  Live(f)' \/ (poll'[f] \in Session /\ remote_fd'[poll'[f]] = f)
        BY <2>1 DEF FdInv, TypeOK
    <2> QED
        BY <2>2, <2>3, <2>4, <2>5 DEF FdInv
<1>7. PairedByToken'
    <2> SUFFICES ASSUME NEW c \in Session, remote_fd'[c] # None
                 PROVE  /\ type'[c] = "SPLICE"
                        /\ mt'[remote_fd'[c]] = token'[c]
                        /\ pc'[remote_fd'[c]] = "freed"
        BY DEF PairedByToken
    <2>1. c # s /\ remote_fd'[c] = remote_fd[c] /\ remote_fd[c] \in Session
        BY DEF TypeOK
    <2>2. remote_fd[c] # s
        BY <2>1 DEF FdInv
    <2> QED
        BY <1>2, <1>3, <2>1, <2>2 DEF PairedByToken, TypeOK
<1>8. SendInv'
    BY DEF SendInv, TypeOK
<1>9. WireExclusive'
    BY DEF WireExclusive, SendInv, TypeOK
<1>10. UniqueForwarder'
    BY DEF UniqueForwarder, TypeOK
<1> QED
    BY <1>1, <1>4, <1>5, <1>6, <1>7, <1>8, <1>9, <1>10

(* A login that got its TOKEN reply through.                                *)
LEMMA LoginOkInv ==
    ASSUME IInv, NEW s \in Session, Live(s), type[s] = "NULL",
           NEW v, NEW k \in Token \cup {None}, NEW E, Evictable(s, E),
           ~SendMayBlock => Find("FORWARD", k) \subseteq E,
           LoginOk(s, v, k, E),
           wlock' = wlock \/ (pc[s] = "send"
                              /\ wlock' = [wlock EXCEPT ![target[s]] = None]),
           allow' = allow, issued' \in SUBSET Session
    PROVE  IInv'
<1> USE SessionAssumption DEF IInv, LoginOk, ClearLocals, Upd, Live, Evictable
<1>1. TypeOK'
    <2> USE DEF TypeOK
    <2>1. /\ pc' \in [Session -> Label]
          /\ type' \in [Session -> Type]
          /\ is_mgr' \in [Session -> BOOLEAN]
          /\ timeout' \in [Session -> {0, 1}]
        BY UpdType DEF Label, Type
    <2>2. /\ ntype' \in [Session -> RegType \cup {"NONE"}]
          /\ ntoken' \in [Session -> Token \cup {None}]
          /\ is_temp_token' \in [Session -> BOOLEAN]
          /\ token' \in [Session -> Token \cup {None}]
        BY UpdType DEF RegType
    <2>3. /\ wlock' \in [Session -> Session \cup {None}]
          /\ ver' \in [Session -> 0..3] /\ op' \in [Session -> Op]
          /\ mt' \in [Session -> Token \cup {None}]
          /\ target' \in [Session -> Session \cup {None}]
          /\ sfd' \in [Session -> Session \cup {None}]
        BY DEF Op
    <2> QED
        BY <2>1, <2>2, <2>3 DEF ioVars
<1>2. ~is_mgr[s] /\ \A f \in E : is_mgr[f] /\ type[f] = "FORWARD" /\ Live(f)
    BY DEF RegistryConsistent, RegType
<1>3. \A x \in Session :
        /\ type'[x] = IF x = s THEN "FORWARD" ELSE IF x \in E THEN "CLOSED" ELSE type[x]
        /\ is_mgr'[x] = IF x = s THEN TRUE ELSE IF x \in E THEN FALSE ELSE is_mgr[x]
        /\ ntype'[x] = IF x = s THEN "FORWARD" ELSE IF x \in E THEN "NONE" ELSE ntype[x]
        /\ ntoken'[x] = IF x = s THEN k ELSE IF x \in E THEN None ELSE ntoken[x]
        /\ token'[x] = IF x = s THEN k ELSE token[x]
        /\ pc'[x] = IF x = s THEN "hdr" ELSE pc[x]
        /\ op'[x] = IF x = s THEN "none" ELSE op[x]
        /\ mt'[x] = IF x = s THEN None ELSE mt[x]
        /\ target'[x] = IF x = s THEN None ELSE target[x]
    BY DEF TypeOK
<1>4. RegistryConsistent'
    BY <1>2, <1>3 DEF RegistryConsistent, RegType, TypeOK
<1>5. RoleAtLabel'
    BY <1>2, <1>3 DEF RoleAtLabel, TypeOK
<1>6. FdInv' /\ PairedByToken'
    BY <1>2, <1>3, HandoverFrame
<1>7. SendInv'
    BY <1>3 DEF SendInv, TypeOK
<1>8. WireExclusive'
    BY <1>3 DEF WireExclusive, SendInv, TypeOK
<1>9. UniqueForwarder'
    BY <1>3 DEF UniqueForwarder, TypeOK, Find
<1> QED
    BY <1>1, <1>4, <1>5, <1>6, <1>7, <1>8, <1>9

(* A connect whose announcement got through.                                *)
LEMMA ConnectOkInv ==
    ASSUME IInv, NEW s \in Session, Live(s), type[s] = "NULL",
           NEW k \in Token \cup {None}, ConnectOk(s, k),
           wlock' = wlock \/ (pc[s] = "send"
                              /\ wlock' = [wlock EXCEPT ![target[s]] = None]),
           allow' = allow, issued' \in SUBSET Session
    PROVE  IInv'
<1> USE SessionAssumption DEF IInv, ConnectOk, ClearLocals, Live
<1>1. TypeOK'
    <2> USE DEF TypeOK
    <2>1. /\ pc' \in [Session -> Label]
          /\ type' \in [Session -> Type]
          /\ is_mgr' \in [Session -> BOOLEAN]
          /\ ntype' \in [Session -> RegType \cup {"NONE"}]
          /\ ntoken' \in [Session -> Token \cup {None}]
          /\ token' \in [Session -> Token \cup {None}]
        BY DEF Label, Type, RegType
    <2>2. /\ wlock' \in [Session -> Session \cup {None}]
          /\ ver' \in [Session -> 0..3] /\ op' \in [Session -> Op]
          /\ mt' \in [Session -> Token \cup {None}]
          /\ target' \in [Session -> Session \cup {None}]
          /\ sfd' \in [Session -> Session \cup {None}]
        BY DEF Op
    <2> QED
        BY <2>1, <2>2 DEF ioVars
<1>2. ~is_mgr[s]
    BY DEF RegistryConsistent, RegType
<1>3. \A x \in Session : x # s =>
        /\ type'[x] = type[x] /\ is_mgr'[x] = is_mgr[x] /\ ntype'[x] = ntype[x]
        /\ ntoken'[x] = ntoken[x] /\ token'[x] = token[x] /\ pc'[x] = pc[x]
        /\ op'[x] = op[x] /\ mt'[x] = mt[x] /\ target'[x] = target[x]
    OBVIOUS
<1>4. /\ type'[s] = "CONNECT" /\ is_mgr'[s] = TRUE /\ ntype'[s] = "CONNECT"
      /\ ntoken'[s] = k /\ token'[s] = k /\ pc'[s] = "waitAccept"
    BY DEF TypeOK
<1>5. RegistryConsistent'
    BY <1>2, <1>3, <1>4 DEF RegistryConsistent, RegType, TypeOK
<1>6. RoleAtLabel'
    BY <1>3, <1>4 DEF RoleAtLabel, TypeOK
<1>7. FdInv' /\ PairedByToken'
    BY <1>3, <1>4, HandoverFrame
<1>8. SendInv'
    BY <1>3, <1>4 DEF SendInv, TypeOK
<1>9. WireExclusive'
    BY <1>3, <1>4 DEF WireExclusive, SendInv, TypeOK
<1>10. UniqueForwarder'
    BY <1>3, <1>4 DEF UniqueForwarder, TypeOK
<1> QED
    BY <1>1, <1>5, <1>6, <1>7, <1>8, <1>9, <1>10

(* A keep-alive that was echoed.                                            *)
LEMMA KeepAliveOkInv ==
    ASSUME IInv, NEW s \in Session, pc[s] = "send", op[s] = "kalive",
           KeepAliveOk(s), wlock' = [wlock EXCEPT ![target[s]] = None],
           UNCHANGED <<allow, issued>>
    PROVE  IInv'
<1> USE SessionAssumption
        DEF IInv, KeepAliveOk, ClearLocals, Live, regVars, idVars
<1>1. TypeOK'
    <2> USE DEF TypeOK
    <2>1. pc' \in [Session -> Label] /\ op' \in [Session -> Op]
        BY DEF Label, Op
    <2>2. wlock' \in [Session -> Session \cup {None}]
        OBVIOUS
    <2>3. /\ ver' \in [Session -> 0..3]
          /\ mt' \in [Session -> Token \cup {None}]
          /\ target' \in [Session -> Session \cup {None}]
          /\ sfd' \in [Session -> Session \cup {None}]
        OBVIOUS
    <2> QED
        BY <2>1, <2>2, <2>3 DEF ioVars
<1>2. \A x \in Session : x # s =>
        pc'[x] = pc[x] /\ op'[x] = op[x] /\ mt'[x] = mt[x] /\ target'[x] = target[x]
    OBVIOUS
<1>3. pc'[s] = "hdr"
    BY DEF TypeOK
<1>4. RegistryConsistent'
    BY <1>2, <1>3 DEF RegistryConsistent, RegType, TypeOK
<1>5. RoleAtLabel'
    BY <1>2, <1>3 DEF RoleAtLabel, TypeOK
<1>6. FdInv' /\ PairedByToken'
    BY <1>2, <1>3, HandoverFrame
<1>7. SendInv'
    BY <1>2, <1>3 DEF SendInv, TypeOK
<1>8. WireExclusive'
    BY <1>2, <1>3 DEF WireExclusive, SendInv, TypeOK
<1>9. UniqueForwarder'
    BY <1>2, <1>3 DEF UniqueForwarder, TypeOK
<1> QED
    BY <1>1, <1>4, <1>5, <1>6, <1>7, <1>8, <1>9

(* What a handler of s may write besides the registry: its own header       *)
(* version and received token and, while it has no role, its own token.     *)
OwnWrites(s) ==
    /\ token' \in [Session -> Token \cup {None}]
    /\ \A x \in Session : x # s \/ type[x] # "NULL" => token'[x] = token[x]
    /\ ver' \in [Session -> 0..3]
    /\ mt' \in [Session -> Token \cup {None}]
    /\ \A x \in Session : x # s => mt'[x] = mt[x]

(* A handler that only moves its own control state to another blocking call *)
(* that fits its role, and writes its own locals and, while it has no role, *)
(* its own token.                                                           *)
LEMMA LocalStepInv ==
    ASSUME IInv, NEW s \in Session, Live(s),
           NEW l \in {"loginTok", "connTok", "accTok", "penalty", "splice",
                      "waitConnect"},
           pc' = [pc EXCEPT ![s] = l],
           l \in {"loginTok", "connTok", "penalty"} => type[s] = "NULL",
           l \in {"accTok", "waitConnect"} => type[s] \in {"NULL", "FORWARD", "CLOSED"},
           l = "splice" => type[s] \in {"CONNECT", "SPLICE"},
           UNCHANGED <<regVars, is_temp_token, ioVars, wlock, op, target, allow>>,
           OwnWrites(s), sfd' \in [Session -> Session \cup {None}],
           issued' \in SUBSET Session
    PROVE  IInv'
<1> USE SessionAssumption DEF IInv, Live, regVars, OwnWrites
<1>1. TypeOK'
    BY DEF TypeOK, Label, ioVars
<1>2. \A x \in Session : x # s =>
        pc'[x] = pc[x] /\ token'[x] = token[x] /\ mt'[x] = mt[x]
    BY DEF TypeOK
<1>3. pc'[s] = l /\ (type[s] # "NULL" => token'[s] = token[s])
    BY DEF TypeOK
<1>4. RegistryConsistent'
    BY <1>2, <1>3 DEF RegistryConsistent, RegType, TypeOK
<1>5. RoleAtLabel'
    BY <1>2, <1>3 DEF RoleAtLabel, TypeOK
<1>6. FdInv' /\ PairedByToken'
    BY <1>2, <1>3, HandoverFrame
<1>7. SendInv'
    BY <1>2, <1>3 DEF SendInv, TypeOK
<1>8. WireExclusive'
    BY <1>2, <1>3 DEF WireExclusive, TypeOK
<1>9. UniqueForwarder'
    BY DEF UniqueForwarder
<1> QED
    BY <1>1, <1>4, <1>5, <1>6, <1>7, <1>8, <1>9

(* A handler that reaches a send (or the lock before it), with the eviction *)
(* of E on the way.                                                         *)
LEMMA BeginSendInv ==
    ASSUME IInv, NEW s \in Session, pc[s] \in Receiving,
           NEW t \in Session, pc[t] # "idle", NEW o,
           \/ o \in {"login", "connect"} /\ type[s] = "NULL"
           \/ o = "kalive" /\ type[s] \in {"NULL", "FORWARD", "CLOSED"},
           BeginSend(s, t, o),
           NEW E, Evictable(s, E),
           type' = Upd(type, E, "CLOSED"), is_mgr' = Upd(is_mgr, E, FALSE),
           timeout' = Upd(timeout, E, 0), ntype' = Upd(ntype, E, "NONE"),
           ntoken' = Upd(ntoken, E, None),
           OwnWrites(s), UNCHANGED <<is_temp_token, ioVars, sfd, allow>>,
           issued' \in SUBSET Session
    PROVE  IInv'
<1> USE SessionAssumption DEF IInv, Live, Upd, Evictable, Receiving, OwnWrites
<1> DEFINE l == pc'[s]
<1>1. /\ SendMayBlock
      /\ op' = [op EXCEPT ![s] = o] /\ target' = [target EXCEPT ![s] = t]
      /\ l \in {"lock", "send"} /\ pc' = [pc EXCEPT ![s] = l]
      /\ l = "send" => wlock[t] = None /\ wlock' = [wlock EXCEPT ![t] = s]
      /\ l = "lock" => wlock' = wlock
    BY DEF BeginSend, TypeOK
<1> HIDE DEF l
<1>2. TypeOK'
    <2> USE DEF TypeOK
    <2>1. /\ pc' \in [Session -> Label] /\ op' \in [Session -> Op]
          /\ target' \in [Session -> Session \cup {None}]
          /\ wlock' \in [Session -> Session \cup {None}]
        BY <1>1 DEF Label, Op
    <2>2. /\ type' \in [Session -> Type] /\ is_mgr' \in [Session -> BOOLEAN]
          /\ timeout' \in [Session -> {0, 1}]
          /\ ntype' \in [Session -> RegType \cup {"NONE"}]
          /\ ntoken' \in [Session -> Token \cup {None}]
        BY UpdType DEF Type
    <2>3. /\ token' \in [Session -> Token \cup {None}]
          /\ ver' \in [Session -> 0..3]
          /\ mt' \in [Session -> Token \cup {None}]
        OBVIOUS
    <2> QED
        BY <2>1, <2>2, <2>3 DEF ioVars
<1>3. \A f \in E : is_mgr[f] /\ type[f] = "FORWARD" /\ Live(f)
    BY DEF RegistryConsistent
<1>4. \A x \in Session :
        /\ type'[x] = IF x \in E THEN "CLOSED" ELSE type[x]
        /\ is_mgr'[x] = IF x \in E THEN FALSE ELSE is_mgr[x]
        /\ ntype'[x] = IF x \in E THEN "NONE" ELSE ntype[x]
        /\ ntoken'[x] = IF x \in E THEN None ELSE ntoken[x]
        /\ pc'[x] = IF x = s THEN l ELSE pc[x]
        /\ op'[x] = IF x = s THEN o ELSE op[x]
        /\ target'[x] = IF x = s THEN t ELSE target[x]
        /\ x # s => token'[x] = token[x] /\ mt'[x] = mt[x]
    BY <1>1 DEF TypeOK
<1>5. type[s] # "NULL" => token'[s] = token[s]
    OBVIOUS
<1>6. RegistryConsistent'
    BY <1>1, <1>3, <1>4, <1>5 DEF RegistryConsistent, RegType, TypeOK
<1>7. RoleAtLabel'
    BY <1>1, <1>3, <1>4 DEF RoleAtLabel, TypeOK
<1>8. FdInv' /\ PairedByToken'
    BY <1>1, <1>3, <1>4, <1>5, HandoverFrame
<1>9. SendInv'
    BY <1>1, <1>4 DEF SendInv, TypeOK
<1>10. WireExclusive'
    BY <1>1, <1>4 DEF WireExclusive, SendInv, TypeOK
<1>11. UniqueForwarder'
    BY <1>1 DEF UniqueForwarder
<1> QED
    BY <1>2, <1>6, <1>7, <1>8, <1>9, <1>10, <1>11

(* The handover: connector c gets the descriptor of acceptor s.             *)
LEMMA PairInv ==
    ASSUME IInv, NEW s \in Session, pc[s] \in {"accTok", "waitConnect"},
           NEW k \in Token \cup {None}, NEW c \in Find("CONNECT", k), Pair(s, c, k),
           UNCHANGED <<wlock, allow, issued>>
    PROVE  IInv'
<1> USE SessionAssumption DEF IInv, Live
<1>1. /\ c \in Session /\ c # s
      /\ is_mgr[c] /\ type[c] = "CONNECT" /\ token[c] = k /\ Live(c)
      /\ type[s] \in {"NULL", "FORWARD", "CLOSED"}
    BY DEF Find, RegistryConsistent, RoleAtLabel
<1>2. client_fd[s] = s /\ remote_fd[s] = None /\ remote_fd[c] = None
    BY <1>1 DEF FdInv
<1>3. /\ pc' = [pc EXCEPT ![s] = "freed"]
      /\ type' = [type EXCEPT ![c] = "SPLICE", ![s] = "NULL"]
      /\ is_mgr' = [is_mgr EXCEPT ![s] = FALSE]
      /\ token' = [token EXCEPT ![s] = None]
      /\ remote_fd' = [remote_fd EXCEPT ![c] = s, ![s] = None]
      /\ client_fd' = [client_fd EXCEPT ![s] = None]
      /\ open' = open /\ poll' = [poll EXCEPT ![s] = c]
      /\ mt' = [mt EXCEPT ![s] = k]
      /\ UNCHANGED <<op, target>>
    BY <1>2 DEF Pair, TypeOK
<1>4. /\ ntype' \in [Session -> RegType \cup {"NONE"}]
      /\ ntoken' \in [Session -> Token \cup {None}]
      /\ \A x \in Session :
           /\ ntype'[x] = IF x = c THEN "SPLICE"
                          ELSE IF x = s /\ is_mgr[s] THEN "NONE" ELSE ntype[x]
           /\ ntoken'[x] = IF x = c THEN token[c]
                          ELSE IF x = s /\ is_mgr[s] THEN None ELSE ntoken[x]
    BY <1>1 DEF Pair, Upd, TypeOK, RegType
<1>5. TypeOK'
    <2> USE DEF TypeOK
    <2>1. pc' \in [Session -> Label] /\ type' \in [Session -> Type]
        BY <1>1, <1>3 DEF Label, Type
    <2>2. /\ is_mgr' \in [Session -> BOOLEAN]
          /\ token' \in [Session -> Token \cup {None}]
          /\ mt' \in [Session -> Token \cup {None}]
        BY <1>3
    <2>3. /\ timeout' \in [Session -> {0, 1}]
          /\ is_temp_token' \in [Session -> BOOLEAN]
        BY DEF Pair
    <2>4. /\ client_fd' \in [Session -> Session \cup {None}]
          /\ remote_fd' \in [Session -> Session \cup {None}]
          /\ poll' \in [Session -> Session \cup {None}]
        BY <1>1, <1>3
    <2>5. UNCHANGED <<open, ver, op, target, sfd, wlock, allow, issued>>
        BY <1>3 DEF Pair
    <2> QED
        BY <1>4, <2>1, <2>2, <2>3, <2>4, <2>5
<1>6. RegistryConsistent'
    BY <1>1, <1>3, <1>4 DEF RegistryConsistent, RegType, TypeOK
<1>7. RoleAtLabel'
    BY <1>1, <1>3 DEF RoleAtLabel, TypeOK
<1>8. FdInv'
    <2>1. \A x \in Session : client_fd'[x] = IF Live(x)' THEN x ELSE None
        BY <1>3 DEF FdInv, TypeOK
    <2>2. \A x \in Session : Live(x)' => x \in open' /\ poll'[x] = x
        BY <1>3 DEF FdInv, TypeOK
    <2>3. ASSUME NEW x \in Session, remote_fd'[x] # None
          PROVE  /\ Live(x)' /\ type'[x] = "SPLICE"
                 /\ pc'[remote_fd'[x]] = "freed"
                 /\ remote_fd'[x] \in open' /\ poll'[remote_fd'[x]] = x
        <3>1. CASE x = c
            BY <1>1, <1>3, <3>1 DEF FdInv, TypeOK
        <3>2. CASE x # c
            <4>1. x # s /\ remote_fd'[x] = remote_fd[x] /\ remote_fd[x] \in Session
                BY <1>1, <1>3, <2>3, <3>2 DEF TypeOK
            <4>2. remote_fd[x] # s
                BY <2>3, <4>1 DEF FdInv
            <4> QED
                BY <1>3, <2>3, <3>2, <4>1, <4>2 DEF FdInv, TypeOK
        <3> QED
            BY <3>1, <3>2
    <2>4. ASSUME NEW f \in open'
          PROVE  Live(f)' \/ (poll'[f] \in Session /\ remote_fd'[poll'[f]] = f)
        <3>1. CASE f = s
            BY <1>1, <1>3, <3>1 DEF TypeOK
        <3>2. CASE f # s
            BY <1>1, <1>2, <1>3, <3>2 DEF FdInv, TypeOK
        <3> QED
            BY <3>1, <3>2
    <2> QED
        BY <2>1, <2>2, <2>3, <2>4 DEF FdInv
<1>9. PairedByToken'
    BY <1>1, <1>2, <1>3 DEF PairedByToken, FdInv, TypeOK
<1>10. SendInv'
    BY <1>3 DEF SendInv, TypeOK
<1>11. WireExclusive'
    BY <1>3 DEF WireExclusive, TypeOK
<1>12. UniqueForwarder'
    BY <1>4 DEF UniqueForwarder, TypeOK
<1> QED
    BY <1>5, <1>6, <1>7, <1>8, <1>9, <1>10, <1>11, <1>12

(* Accepting a connection gives the new session its descriptor.             *)
LEMMA AcceptClientInv ==
    ASSUME IInv, NEW s \in Session, AcceptClient(s) \/ AcceptDrop(s)
    PROVE  IInv'
<1> USE SessionAssumption DEF IInv, Live, regVars, idVars, locVars
<1>1. /\ type[s] = "NULL" /\ client_fd[s] = None /\ remote_fd[s] = None
      /\ s \notin open /\ pc[s] = "idle"
    BY DEF AcceptClient, AcceptDrop, RoleAtLabel, FdInv, TypeOK
<1>2. /\ pc' = [pc EXCEPT ![s] = "hdr"] \/ pc' = [pc EXCEPT ![s] = "freed"]
      /\ UNCHANGED <<regVars, idVars, remote_fd, wlock, locVars, allow, issued>>
    BY DEF AcceptClient, AcceptDrop, ioVars
<1>3. TypeOK'
    BY <1>2 DEF AcceptClient, AcceptDrop, ioVars, TypeOK, Label
<1>4. RegistryConsistent'
    BY <1>1, <1>2 DEF RegistryConsistent, RegType, TypeOK
<1>5. RoleAtLabel'
    BY <1>1, <1>2 DEF RoleAtLabel, TypeOK
<1>6. FdInv'
    <2>1. CASE AcceptDrop(s)
        BY <1>1, <2>1 DEF AcceptDrop, ioVars, FdInv, TypeOK
    <2>2. CASE AcceptClient(s)
        <3>1. \A x \in Session : remote_fd[x] # s
            BY <1>1 DEF FdInv
        <3> QED
            BY <1>1, <2>2, <3>1 DEF AcceptClient, FdInv, TypeOK
    <2> QED
        BY <2>1, <2>2
<1>7. PairedByToken'
    <2> SUFFICES ASSUME NEW c \in Session, remote_fd[c] # None
                 PROVE  /\ type[c] = "SPLICE" /\ mt[remote_fd[c]] = token[c]
                        /\ pc'[remote_fd[c]] = "freed"
        BY <1>2 DEF PairedByToken
    <2>1. remote_fd[c] # s /\ remote_fd[c] \in Session
        BY <1>1 DEF FdInv, TypeOK
    <2> QED
        BY <1>2, <2>1 DEF PairedByToken, TypeOK
<1>8. SendInv'
    BY <1>1, <1>2 DEF SendInv, TypeOK
<1>9. WireExclusive'
    BY <1>1, <1>2 DEF WireExclusive, SendInv, TypeOK
<1>10. UniqueForwarder'
    BY <1>2 DEF UniqueForwarder
<1> QED
    BY <1>3, <1>4, <1>5, <1>6, <1>7, <1>8, <1>9, <1>10

(* A task that gets the write lock is the only one to send on that session. *)
LEMMA GetLockInv ==
    ASSUME IInv, NEW s \in Session, GetLock(s)
    PROVE  IInv'
<1> USE SessionAssumption DEF IInv, Live, regVars, idVars, locVars, GetLock
<1>1. TypeOK'
    BY DEF ioVars, TypeOK, Label
<1>2. RegistryConsistent'
    BY DEF RegistryConsistent, TypeOK
<1>3. RoleAtLabel'
    BY DEF RoleAtLabel, TypeOK
<1>4. FdInv' /\ PairedByToken'
    BY HandoverFrame DEF TypeOK
<1>5. SendInv'
    BY DEF SendInv, TypeOK
<1>6. WireExclusive'
    BY DEF WireExclusive, SendInv, TypeOK
<1>7. UniqueForwarder'
    BY DEF UniqueForwarder
<1> QED
    BY <1>1, <1>2, <1>3, <1>4, <1>5, <1>6, <1>7

(* Login from the known token on: the four ways it can leave the step.      *)
LEMMA LoginInv ==
    ASSUME IInv, NEW s \in Session, pc[s] \in {"hdr", "loginTok"},
           type[s] = "NULL", NEW v \in 0..3, NEW k \in Token, Login(s, v, k),
           allow' = allow, issued' \in SUBSET Session
    PROVE  IInv'
<1> USE DEF Live, Receiving
<1>1. ~is_mgr[s] /\ ntype[s] = "NONE"
    BY DEF IInv, RegistryConsistent, RegType
<1>2. CASE UseTokens /\ k \notin allow /\ pc' = [pc EXCEPT ![s] = "penalty"]
           /\ token' = [token EXCEPT ![s] = k]
           /\ UNCHANGED <<regVars, is_temp_token, ioVars, wlock, locVars>>
    <2>1. OwnWrites(s) /\ sfd' \in [Session -> Session \cup {None}]
        BY <1>2 DEF OwnWrites, IInv, TypeOK, locVars
    <2> QED
        BY <1>2, <2>1, LocalStepInv DEF locVars
<1>3. ASSUME NEW E \in {{f} : f \in Find("FORWARD", k)}
                     \cup (IF Find("FORWARD", k) = {} THEN {{}} ELSE {}),
             \/ ~SendMayBlock /\ LoginOk(s, v, k, E) /\ UNCHANGED wlock
             \/ ~SendMayBlock /\ Close(s, E) /\ UNCHANGED wlock
             \/ /\ BeginSend(s, s, "login")
                /\ type' = Upd(type, E, "CLOSED")
                /\ is_mgr' = Upd(is_mgr, E, FALSE)
                /\ timeout' = Upd(timeout, E, 0)
                /\ ntype' = Upd(ntype, E, "NONE")
                /\ ntoken' = Upd(ntoken, E, None)
                /\ token' = [token EXCEPT ![s] = k]
                /\ ver' = [ver EXCEPT ![s] = v]
                /\ UNCHANGED <<is_temp_token, ioVars, mt, sfd>>
      PROVE  IInv'
    <2>1. Evictable(s, E)
        BY <1>1 DEF Evictable, Find
    <2>2. ~SendMayBlock => Find("FORWARD", k) \subseteq E
        BY DEF IInv, UniqueForwarder, Find
    <2>3. CASE LoginOk(s, v, k, E) /\ UNCHANGED wlock
        BY <2>1, <2>2, <2>3, LoginOkInv
    <2>4. CASE Close(s, E) /\ UNCHANGED wlock
        BY <2>1, <2>4, CloseInv
    <2>5. CASE /\ BeginSend(s, s, "login")
               /\ type' = Upd(type, E, "CLOSED")
               /\ is_mgr' = Upd(is_mgr, E, FALSE)
               /\ timeout' = Upd(timeout, E, 0)
               /\ ntype' = Upd(ntype, E, "NONE")
               /\ ntoken' = Upd(ntoken, E, None)
               /\ token' = [token EXCEPT ![s] = k]
               /\ ver' = [ver EXCEPT ![s] = v]
               /\ UNCHANGED <<is_temp_token, ioVars, mt, sfd>>
        <3>1. OwnWrites(s)
            BY <2>5 DEF OwnWrites, IInv, TypeOK
        <3> QED
            BY <2>1, <2>5, <3>1, BeginSendInv
    <2> QED
        BY <1>3, <2>3, <2>4, <2>5
<1> QED
    BY <1>2, <1>3 DEF Login

(* Upd with nobody to change changes nothing.                               *)
LEMMA UpdEmpty ==
    ASSUME NEW T, NEW f \in [Session -> T], NEW v
    PROVE  Upd(f, {}, v) = f
    BY DEF Upd

(* The connector's lookup and the announcement to the forwarder it finds.   *)
LEMMA RecvConnectTokenInv ==
    ASSUME IInv, NEW s \in Session, NEW k \in Sendable, RecvConnectToken(s, k)
    PROVE  IInv'
<1> USE SessionAssumption DEF Live, Receiving
<1>1. /\ pc[s] = "connTok" /\ type[s] = "NULL" /\ k \in Token /\ s \in Token
      /\ allow' = allow /\ issued \in SUBSET Session
    BY DEF RecvConnectToken, IInv, RoleAtLabel, TypeOK, Sendable, Token
<1>2. CASE Find("FORWARD", k) = {} /\ pc' = [pc EXCEPT ![s] = "penalty"]
           /\ UNCHANGED <<regVars, idVars, ioVars, wlock, locVars, issued>>
    <2>1. OwnWrites(s) /\ sfd' \in [Session -> Session \cup {None}]
        BY <1>2 DEF OwnWrites, IInv, TypeOK, locVars, idVars
    <2> QED
        BY <1>1, <1>2, <2>1, LocalStepInv DEF locVars, idVars
<1>3. ASSUME NEW f \in Find("FORWARD", k), NEW key \in Token,
             issued' \in SUBSET Session,
             \/ ConnectOk(s, key) /\ UNCHANGED wlock
             \/ Close(s, {}) /\ UNCHANGED wlock
             \/ /\ BeginSend(s, f, "connect")
                /\ mt' = [mt EXCEPT ![s] = key]
                /\ UNCHANGED <<regVars, idVars, ioVars, ver, sfd>>
      PROVE  IInv'
    <2>1. CASE ConnectOk(s, key) /\ UNCHANGED wlock
        BY <1>1, <1>3, <2>1, ConnectOkInv
    <2>2. CASE Close(s, {}) /\ UNCHANGED wlock
        BY <1>1, <1>3, <2>2, CloseInv DEF Evictable
    <2>3. CASE BeginSend(s, f, "connect") /\ mt' = [mt EXCEPT ![s] = key]
               /\ UNCHANGED <<regVars, idVars, ioVars, ver, sfd>>
        <3>1. f \in Session /\ pc[f] # "idle"
            BY DEF Find, IInv, RegistryConsistent
        <3>2. /\ type' = Upd(type, {}, "CLOSED") /\ is_mgr' = Upd(is_mgr, {}, FALSE)
              /\ timeout' = Upd(timeout, {}, 0) /\ ntype' = Upd(ntype, {}, "NONE")
              /\ ntoken' = Upd(ntoken, {}, None)
            BY <2>3, UpdEmpty DEF regVars, IInv, TypeOK
        <3>3. Evictable(s, {})
            BY DEF Evictable
        <3>4. OwnWrites(s) /\ UNCHANGED <<is_temp_token, ioVars, sfd, allow>>
            BY <1>1, <2>3 DEF OwnWrites, IInv, TypeOK, idVars
        <3> QED
            BY <1>1, <1>3, <2>3, <3>1, <3>2, <3>3, <3>4, BeginSendInv
    <2> QED
        BY <1>3, <2>1, <2>2, <2>3
<1>4. ASSUME NEW f \in Find("FORWARD", k)
      PROVE  /\ (IF is_temp_token[f] THEN s ELSE k) \in Token
             /\ (IF is_temp_token[f] THEN issued \cup {s} ELSE issued)
                  \in SUBSET Session
    BY <1>1
<1> QED
    BY <1>2, <1>3, <1>4 DEF RecvConnectToken

(* ACCEPT, from its token to its first sleep.                               *)
LEMMA RecvAcceptTokenInv ==
    ASSUME IInv, NEW s \in Session, NEW k \in Sendable, RecvAcceptToken(s, k)
    PROVE  IInv'
<1> USE DEF Live
<1>1. /\ pc[s] = "accTok" /\ type[s] \in {"NULL", "FORWARD", "CLOSED"}
      /\ k \in Token /\ UNCHANGED <<wlock, allow, issued>> /\ issued \in SUBSET Session
    BY DEF RecvAcceptToken, IInv, RoleAtLabel, TypeOK, Sendable, Token
<1>2. CASE Close(s, {})
    BY <1>1, <1>2, CloseInv DEF Evictable
<1>3. ASSUME NEW c \in Find("CONNECT", k), Pair(s, c, k) PROVE IInv'
    BY <1>1, <1>3, PairInv
<1>4. CASE pc' = [pc EXCEPT ![s] = "waitConnect"] /\ mt' = [mt EXCEPT ![s] = k]
           /\ UNCHANGED <<regVars, idVars, ioVars, ver, op, target, sfd>>
    <2>1. OwnWrites(s) /\ sfd' \in [Session -> Session \cup {None}]
        BY <1>1, <1>4 DEF OwnWrites, IInv, TypeOK, idVars
    <2> QED
        BY <1>1, <1>4, <2>1, LocalStepInv DEF idVars
<1> QED
    BY <1>2, <1>3, <1>4 DEF RecvAcceptToken

(* A blocked send that ends, in each of its four ways.                      *)
LEMMA EndSendInv ==
    ASSUME IInv, NEW s \in Session, EndSend(s)
    PROVE  IInv'
<1> USE DEF Live
<1>1. /\ pc[s] = "send" /\ SendMayBlock
      /\ wlock' = [wlock EXCEPT ![target[s]] = None]
      /\ UNCHANGED <<allow, issued>> /\ issued \in SUBSET Session
      /\ op[s] \in {"login", "connect"} => type[s] = "NULL"
    BY DEF EndSend, IInv, SendInv, TypeOK, RoleAtLabel
<1>2. CASE op[s] = "login" /\ LoginOk(s, ver[s], token[s], {})
    <2>1. token[s] \in Token \cup {None}
        BY DEF IInv, TypeOK
    <2>2. Evictable(s, {}) /\ type[s] = "NULL" /\ Live(s)
        BY <1>1, <1>2 DEF Evictable
    <2>3. LoginOk(s, ver[s], token[s], {}) /\ (~SendMayBlock => Find("FORWARD", token[s]) \subseteq {})
        BY <1>1, <1>2
    <2> QED
        BY <1>1, <2>1, <2>2, <2>3, LoginOkInv
<1>3. CASE op[s] = "connect" /\ ConnectOk(s, mt[s])
    <2>1. mt[s] \in Token \cup {None}
        BY DEF IInv, TypeOK
    <2> QED
        BY <1>1, <1>3, <2>1, ConnectOkInv
<1>4. CASE op[s] = "kalive" /\ KeepAliveOk(s)
    BY <1>1, <1>4, KeepAliveOkInv
<1>5. CASE Close(s, {})
    BY <1>1, <1>5, CloseInv DEF Evictable
<1> QED
    BY <1>2, <1>3, <1>4, <1>5 DEF EndSend

(* Every step of the server keeps the invariant.                            *)
LEMMA NextInv == IInv /\ [Next]_vars => IInv'
<1> SUFFICES ASSUME IInv, [Next]_vars PROVE IInv'
    OBVIOUS
<1> USE SessionAssumption DEF Live, Receiving
<1>1. ASSUME NEW s \in Session, SessionStep(s) PROVE IInv'
    <2>0. /\ issued \in SUBSET Session /\ s \in Token
          /\ \A k \in Sendable : k \in Token
          /\ ver[s] \in 0..3 /\ Evictable(s, {})
        BY DEF IInv, TypeOK, Token, Sendable, Evictable
    <2>1. CASE AcceptClient(s) \/ AcceptDrop(s)
        BY <2>1, AcceptClientInv
    <2>2. CASE RecvFail(s) \/ BadCommand(s) \/ PenaltyEnd(s) \/ EndSplice(s)
               \/ AcceptTimeout(s)
        BY <2>0, <2>2, CloseInv
           DEF RecvFail, BadCommand, PenaltyEnd, EndSplice, AcceptTimeout
    <2>3. CASE GetLock(s)
        BY <2>3, GetLockInv
    <2>4. CASE EndSend(s)
        BY <2>4, EndSendInv
    <2>5. CASE RecvLoginV1(s)
        BY <2>0, <2>5, LoginInv DEF RecvLoginV1
    <2>6. ASSUME NEW v \in {2, 3}, RecvLogin(s, v) PROVE IInv'
        <3>1. OwnWrites(s) /\ sfd' \in [Session -> Session \cup {None}]
            BY <2>6 DEF RecvLogin, RecvBody, OwnWrites, IInv, TypeOK, idVars
        <3> QED
            BY <2>0, <2>6, <3>1, LocalStepInv DEF RecvLogin, RecvBody, idVars
    <2>7. ASSUME NEW k \in Sendable \cup {None}, RecvLoginToken(s, k) PROVE IInv'
        <3>1. pc[s] = "loginTok" /\ type[s] = "NULL"
            BY <2>7 DEF RecvLoginToken, IInv, RoleAtLabel
        <3> QED
            BY <2>0, <2>7, <3>1, LoginInv DEF RecvLoginToken
    <2>8. CASE RecvConnect(s) \/ RecvAccept(s)
        <3>1. OwnWrites(s) /\ sfd' \in [Session -> Session \cup {None}]
            BY <2>8 DEF RecvConnect, RecvAccept, RecvBody, OwnWrites, IInv, TypeOK,
                        idVars
        <3>2. pc[s] = "hdr" /\ type[s] \in {"NULL", "FORWARD", "CLOSED"}
            BY <2>8 DEF RecvConnect, RecvAccept, IInv, RoleAtLabel
        <3> QED
            BY <2>0, <2>8, <3>1, <3>2, LocalStepInv
               DEF RecvConnect, RecvAccept, RecvBody, idVars
    <2>9. ASSUME NEW k \in Sendable, RecvConnectToken(s, k) PROVE IInv'
        BY <2>9, RecvConnectTokenInv
    <2>10. CASE StartSplice(s)
        <3>1. OwnWrites(s) /\ sfd' \in [Session -> Session \cup {None}]
            BY <2>10 DEF StartSplice, OwnWrites, IInv, TypeOK, idVars
        <3>2. pc[s] = "waitAccept" /\ type[s] \in {"CONNECT", "SPLICE"}
            BY <2>10 DEF StartSplice, IInv, RoleAtLabel
        <3> QED
            BY <2>0, <2>10, <3>1, <3>2, LocalStepInv DEF StartSplice, idVars
    <2>11. ASSUME NEW k \in Sendable, RecvAcceptToken(s, k) PROVE IInv'
        BY <2>11, RecvAcceptTokenInv
    <2>12. CASE AcceptWake(s)
        <3>1. mt[s] \in Token \cup {None}
            BY DEF IInv, TypeOK
        <3> QED
            BY <2>12, <3>1, PairInv DEF AcceptWake
    <2>13. CASE RecvKeepAlive(s)
        <3>1. pc[s] = "hdr" /\ type[s] \in {"NULL", "FORWARD", "CLOSED"}
            BY <2>13 DEF RecvKeepAlive, IInv, RoleAtLabel
        <3>2. CASE Close(s, {}) /\ UNCHANGED wlock
            BY <2>0, <2>13, <3>1, <3>2, CloseInv DEF RecvKeepAlive
        <3>3. CASE BeginSend(s, s, "kalive")
                   /\ UNCHANGED <<regVars, idVars, ioVars, ver, mt, sfd>>
            <4>1. /\ type' = Upd(type, {}, "CLOSED")
                  /\ is_mgr' = Upd(is_mgr, {}, FALSE)
                  /\ timeout' = Upd(timeout, {}, 0)
                  /\ ntype' = Upd(ntype, {}, "NONE")
                  /\ ntoken' = Upd(ntoken, {}, None)
                BY <3>3, UpdEmpty DEF regVars, IInv, TypeOK
            <4>2. OwnWrites(s) /\ UNCHANGED <<is_temp_token, ioVars, sfd, allow>>
                BY <2>13, <3>3 DEF RecvKeepAlive, OwnWrites, IInv, TypeOK, idVars
            <4> QED
                BY <2>0, <2>13, <3>1, <3>3, <4>1, <4>2, BeginSendInv
                   DEF RecvKeepAlive
        <3> QED
            BY <2>13, <3>2, <3>3 DEF RecvKeepAlive
    <2> QED
        BY <1>1, <2>1, <2>2, <2>3, <2>4, <2>5, <2>6, <2>7, <2>8, <2>9, <2>10,
           <2>11, <2>12, <2>13 DEF SessionStep
<1>2. CASE ReloadTokens \/ UNCHANGED vars
    <2>1. /\ UNCHANGED <<pc, regVars, idVars, ioVars, wlock, locVars, issued>>
          /\ allow' \in SUBSET ClientToken
        BY <1>2 DEF ReloadTokens, vars, IInv, TypeOK
    <2> QED
        BY <2>1 DEF regVars, idVars, ioVars, locVars, IInv, TypeOK,
           RegistryConsistent, RoleAtLabel, FdInv, PairedByToken, SendInv,
           WireExclusive, UniqueForwarder
<1> QED
    BY <1>1, <1>2 DEF Next

(* The invariant holds throughout, for any number of sessions and tokens,   *)
(* with and without a tokens file, whether or not sends block.              *)
THEOREM Invariance == Spec => []IInv
    BY InitInv, NextInv, PTL DEF Spec

(* Type correctness of the session layer.                                   *)
THEOREM TypeCorrect == Spec => []TypeOK
<1>1. IInv => TypeOK
    BY DEF IInv
<1> QED
    BY <1>1, Invariance, PTL

(* The tree never dangles: it is exactly the live sessions that             *)
(* close_session would erase, each under its current key.                   *)
THEOREM RegistryCorrect == Spec => []RegistryConsistent
<1>1. IInv => RegistryConsistent
    BY DEF IInv
<1> QED
    BY <1>1, Invariance, PTL

(* No descriptor is leaked, closed twice or polled for the wrong task, in   *)
(* particular across the handover in hev_fsh_session_accept.                *)
THEOREM DescriptorsOwned == Spec => []FdOwnership
<1>1. IInv => FdOwnership
    <2> SUFFICES ASSUME IInv PROVE FdOwnership
        OBVIOUS
    <2> USE SessionAssumption DEF Live
    <2>1. ASSUME NEW s \in Session
          PROVE  /\ Held(s) \subseteq open
                 /\ \A f \in Held(s) : poll[f] = s
                 /\ client_fd[s] = remote_fd[s] => client_fd[s] = None
        BY DEF IInv, FdInv, Held, TypeOK
    <2>2. ASSUME NEW f \in open
          PROVE  \E s \in Session : Live(s) /\ f \in Held(s)
        <3>0. f \in Session
            BY DEF IInv, TypeOK
        <3>1. CASE Live(f)
            BY <3>0, <3>1 DEF IInv, FdInv, Held
        <3>2. CASE poll[f] \in Session /\ remote_fd[poll[f]] = f
            BY <3>0, <3>2 DEF IInv, FdInv, Held
        <3> QED
            BY <3>1, <3>2 DEF IInv, FdInv
    <2> QED
        BY <2>1, <2>2 DEF FdOwnership
<1> QED
    BY <1>1, Invariance, PTL

(* Frames on one connection never interleave: whoever is inside one holds   *)
(* the session's write lock.                                                *)
THEOREM FramesExclusive == Spec => []WireExclusive
<1>1. IInv => WireExclusive
    BY DEF IInv
<1> QED
    BY <1>1, Invariance, PTL

(* A connector is joined only to a connection that presented its token.     *)
THEOREM PairingCorrect == Spec => []PairedByToken
<1>1. IInv => PairedByToken
    BY DEF IInv
<1> QED
    BY <1>1, Invariance, PTL

(* When sends do not block, a token names at most one forwarder.            *)
THEOREM ForwarderUnique == Spec => []UniqueForwarder
<1>1. IInv => UniqueForwarder
    BY DEF IInv
<1> QED
    BY <1>1, Invariance, PTL

(* Roles only advance; a registered session keeps its token and a paired    *)
(* connector its peer until the session ends.                               *)
THEOREM RolesAdvance == Spec => RoleOrder
<1>1. IInv /\ [Next]_vars => [RolesStep]_vars
    <2> SUFFICES ASSUME IInv, Next, NEW x \in Session PROVE RoleStep(x)
        BY DEF RolesStep
    <2> USE SessionAssumption DEF RoleStep
    <2>1. \A f \in Session : ntype[f] = "FORWARD" => type[f] = "FORWARD"
        BY DEF IInv, RegistryConsistent
    <2>2. \A s \in Session :
            /\ pc[s] \in {"loginTok", "connTok"} => type[s] = "NULL"
            /\ pc[s] = "send" /\ op[s] \in {"login", "connect"} => type[s] = "NULL"
            /\ type[s] = "NULL" => remote_fd[s] = None
        BY DEF IInv, RoleAtLabel, FdInv
    <2>3. ASSUME NEW s \in Session, NEW E, Close(s, E),
                 \A f \in E : ntype[f] = "FORWARD"
          PROVE  RoleStep(x)
        BY <2>1, <2>3 DEF Close, Upd, IInv, TypeOK
    <2>4. ASSUME NEW s \in Session, NEW v, NEW k, type[s] = "NULL", Login(s, v, k)
          PROVE  RoleStep(x)
        <3>1. CASE UNCHANGED <<regVars, ioVars>> /\ token' = [token EXCEPT ![s] = k]
            BY <2>4, <3>1 DEF regVars, ioVars, IInv, TypeOK
        <3>2. ASSUME NEW E, \A f \in E : ntype[f] = "FORWARD",
                     \/ LoginOk(s, v, k, E) \/ Close(s, E)
                     \/ /\ type' = Upd(type, E, "CLOSED") /\ UNCHANGED ioVars
                        /\ token' = [token EXCEPT ![s] = k]
              PROVE  RoleStep(x)
            <4>1. CASE LoginOk(s, v, k, E)
                BY <2>1, <2>2, <2>4, <3>2, <4>1 DEF LoginOk, Upd, ioVars, IInv, TypeOK
            <4>2. CASE type' = Upd(type, E, "CLOSED") /\ UNCHANGED ioVars
                       /\ token' = [token EXCEPT ![s] = k]
                BY <2>1, <2>4, <3>2, <4>2 DEF Upd, ioVars, IInv, TypeOK
            <4> QED
                BY <2>3, <3>2, <4>1, <4>2
        <3> QED
            BY <2>4, <3>1, <3>2 DEF Login, Find
    <2>5. ASSUME NEW s \in Session, NEW k, type[s] = "NULL", ConnectOk(s, k)
          PROVE  RoleStep(x)
        BY <2>5 DEF ConnectOk, ioVars, IInv, TypeOK
    <2>6. ASSUME NEW s \in Session, NEW k, NEW c \in Find("CONNECT", k), Pair(s, c, k)
          PROVE  RoleStep(x)
        <3>1. c \in Session /\ type[c] = "CONNECT" /\ remote_fd[c] = None
            BY DEF Find, IInv, RegistryConsistent, FdInv
        <3> QED
            BY <2>6, <3>1 DEF Pair, IInv, TypeOK
    <2>7. ASSUME UNCHANGED <<regVars, idVars, ioVars>> \/ UNCHANGED <<regVars, idVars, remote_fd>>
          PROVE  RoleStep(x)
        BY <2>7 DEF regVars, idVars, ioVars
    <2>8. ASSUME NEW s \in Session, SessionStep(s) PROVE RoleStep(x)
        <3>1. CASE AcceptClient(s) \/ AcceptDrop(s) \/ GetLock(s) \/ StartSplice(s)
                   \/ (\E v \in {2, 3} : RecvLogin(s, v))
                   \/ RecvConnect(s) \/ RecvAccept(s)
            BY <2>7, <3>1 DEF AcceptClient, AcceptDrop, GetLock, StartSplice,
               RecvLogin, RecvConnect, RecvAccept, RecvBody
        <3>2. CASE RecvFail(s) \/ BadCommand(s) \/ PenaltyEnd(s) \/ EndSplice(s)
                   \/ AcceptTimeout(s)
            BY <2>3, <3>2 DEF RecvFail, BadCommand, PenaltyEnd, EndSplice,
               AcceptTimeout
        <3>3. CASE EndSend(s)
            <4>1. CASE op[s] = "login" /\ LoginOk(s, ver[s], token[s], {})
                BY <2>2, <3>3, <4>1 DEF EndSend, LoginOk, Upd, ioVars, IInv, TypeOK
            <4>2. CASE op[s] = "connect" /\ ConnectOk(s, mt[s])
                BY <2>2, <2>5, <3>3, <4>2 DEF EndSend
            <4>3. CASE KeepAliveOk(s)
                BY <2>7, <4>3 DEF KeepAliveOk
            <4>4. CASE Close(s, {})
                BY <2>3, <4>4
            <4> QED
                BY <3>3, <4>1, <4>2, <4>3, <4>4 DEF EndSend
        <3>4. CASE RecvLoginV1(s) \/ \E k \in Sendable \cup {None} : RecvLoginToken(s, k)
            BY <2>2, <2>4, <3>4 DEF RecvLoginV1, RecvLoginToken
        <3>5. ASSUME NEW k \in Sendable, RecvConnectToken(s, k) PROVE RoleStep(x)
            BY <2>2, <2>3, <2>5, <2>7, <3>5 DEF RecvConnectToken
        <3>6. ASSUME NEW k \in Sendable, RecvAcceptToken(s, k) PROVE RoleStep(x)
            BY <2>3, <2>6, <2>7, <3>6 DEF RecvAcceptToken
        <3>7. CASE AcceptWake(s)
            BY <2>6, <3>7 DEF AcceptWake
        <3>8. CASE RecvKeepAlive(s)
            BY <2>3, <2>7, <3>8 DEF RecvKeepAlive
        <3> QED
            BY <2>8, <3>1, <3>2, <3>3, <3>4, <3>5, <3>6, <3>7, <3>8 DEF SessionStep
    <2>9. CASE ReloadTokens
        BY <2>7, <2>9 DEF ReloadTokens
    <2> QED
        BY <2>8, <2>9 DEF Next
<1> QED
    BY <1>1, Invariance, PTL DEF Spec, RoleOrder

=============================================================================
