------------------------- MODULE RendezvousProofs -------------------------
(***************************************************************************)
(* FshSession implements Rendezvous when its sends do not block, for any   *)
(* number of sessions and tokens: its initial states are initial states of *)
(* Rendezvous under the mapping of FshSession!R, and each of its steps is a *)
(* step of Rendezvous or leaves the mapped state unchanged.                *)
(***************************************************************************)
EXTENDS FshSessionProofs

(* The mapped variables.  The members of S with their keys, and the three   *)
(* sets of sessions the mapping reads off the tree and the labels.          *)
Keyed(key, S) == {<<key[x], x>> : x \in S}
Forwarders == {y \in Session : ntype[y] = "FORWARD"}
Connectors == {y \in Session : ntype[y] = "CONNECT"}
Freed      == {y \in Session : pc[y] = "freed"}

(* The abstract actions in these terms.  S are the forwarders that have     *)
(* their name when s leaves.                                                *)
Leaves(s, S) ==
    /\ s \notin Freed
    /\ Keyed(ntoken', Forwarders') = Keyed(ntoken, S \ {s})
    /\ Keyed(ntoken', Connectors') = Keyed(ntoken, Connectors \ {s})
    /\ remote_fd' = [remote_fd EXCEPT ![s] = None]
    /\ Freed' = Freed \cup {s}

LEMMA LeaveIs ==
    ASSUME NEW s \in Session, Leaves(s, Forwarders) PROVE R!Next
<1>1. /\ {p \in Keyed(ntoken, Connectors) : p[2] # s} = Keyed(ntoken, Connectors \ {s})
      /\ {p \in Keyed(ntoken, Forwarders) : p[2] # s} = Keyed(ntoken, Forwarders \ {s})
    BY DEF Keyed
<1>2. R!Leave(s, {<<ntoken[x], x>> : x \in {y \in Session : ntype[y] = "FORWARD"}})
    BY <1>1 DEF Leaves, R!Leave, R!Without, Keyed, Forwarders, Connectors, Freed
<1> QED
    BY <1>2 DEF R!Next

LEMMA LeaveUnnamedIs ==
    ASSUME NEW s \in Session, NEW k \in Token,
           Leaves(s, {x \in Forwarders : ntoken[x] # k})
    PROVE  R!Next
<1> DEFINE S == {x \in Forwarders : ntoken[x] # k}
<1>1. /\ {p \in Keyed(ntoken, Connectors) : p[2] # s} = Keyed(ntoken, Connectors \ {s})
      /\ {p \in Keyed(ntoken, Forwarders) : p[1] # k} = Keyed(ntoken, S)
      /\ {p \in Keyed(ntoken, S) : p[2] # s} = Keyed(ntoken, S \ {s})
    BY DEF Keyed
<1>2. {p \in {p \in Keyed(ntoken, Forwarders) : p[1] # k} : p[2] # s}
        = Keyed(ntoken, S \ {s})
    BY <1>1
<1>3. R!Leave(s, R!Unnamed(k))
    BY <1>1, <1>2
       DEF Leaves, R!Leave, R!Without, R!Unnamed, Keyed, Forwarders, Connectors, Freed
<1> QED
    BY <1>3 DEF R!Next

LEMMA FreshIs ==
    ASSUME NEW s \in Session, s \notin Freed, s \notin Forwarders, s \notin Connectors,
           remote_fd[s] = None
    PROVE  R!Fresh(s)
<1>1. {p \in Keyed(ntoken, Forwarders) : p[2] # s} = Keyed(ntoken, Forwarders)
    BY DEF Keyed
<1>2. {p \in Keyed(ntoken, Connectors) : p[2] # s} = Keyed(ntoken, Connectors)
    BY DEF Keyed
<1> QED
    BY <1>1, <1>2 DEF R!Fresh, R!Without, Keyed, Forwarders, Connectors, Freed

LEMMA RegisterIs ==
    ASSUME NEW s \in Session, NEW k, R!Fresh(s),
           Keyed(ntoken', Forwarders')
               = Keyed(ntoken, {x \in Forwarders : ntoken[x] # k}) \cup {<<k, s>>},
           Keyed(ntoken', Connectors') = Keyed(ntoken, Connectors),
           UNCHANGED <<remote_fd, Freed>>
    PROVE  R!Register(s, k)
<1>1. {p \in Keyed(ntoken, Forwarders) : p[1] # k}
        = Keyed(ntoken, {x \in Forwarders : ntoken[x] # k})
    BY DEF Keyed
<1> QED
    BY <1>1 DEF R!Register, R!Unnamed, Keyed, Forwarders, Connectors, Freed

LEMMA AskIs ==
    ASSUME NEW s \in Session, NEW k, R!Fresh(s),
           Forwarders # {}, k = s \/ \E f \in Forwarders : ntoken[f] = k,
           Keyed(ntoken', Connectors') = Keyed(ntoken, Connectors) \cup {<<k, s>>},
           Keyed(ntoken', Forwarders') = Keyed(ntoken, Forwarders),
           UNCHANGED <<remote_fd, Freed>>
    PROVE  R!Ask(s, k)
<1>0. \A f \in Forwarders :
        <<ntoken[f], f>> \in Keyed(ntoken, Forwarders) /\ <<ntoken[f], f>>[1] = ntoken[f]
    BY DEF Keyed
<1>1. Keyed(ntoken, Forwarders) # {}
    BY <1>0
<1>2. k = s \/ \E p \in Keyed(ntoken, Forwarders) : p[1] = k
    BY <1>0
<1> QED
    BY <1>1, <1>2 DEF R!Ask, Keyed, Forwarders, Connectors, Freed

LEMMA MatchIs ==
    ASSUME NEW c \in Session, NEW a \in Session, NEW k,
           c \in Connectors, ntoken[c] = k,
           a \notin Freed, a \notin Connectors, remote_fd[a] = None,
           Keyed(ntoken', Connectors') = Keyed(ntoken, Connectors \ {c}),
           Keyed(ntoken', Forwarders') = Keyed(ntoken, Forwarders \ {a}),
           remote_fd' = [remote_fd EXCEPT ![c] = a],
           Freed' = Freed \cup {a}
    PROVE  R!Match(c, a, k)
<1>1. <<k, c>> \in Keyed(ntoken, Connectors)
    BY DEF Keyed
<1>2. {p \in Keyed(ntoken, Connectors) : p[2] # a} = Keyed(ntoken, Connectors)
    BY DEF Keyed
<1>3. {p \in Keyed(ntoken, Connectors) : p[2] # c} = Keyed(ntoken, Connectors \ {c})
    BY DEF Keyed
<1>4. {p \in Keyed(ntoken, Forwarders) : p[2] # a} = Keyed(ntoken, Forwarders \ {a})
    BY DEF Keyed
<1> QED
    BY <1>1, <1>2, <1>3, <1>4
       DEF R!Match, R!Without, Keyed, Forwarders, Connectors, Freed

-----------------------------------------------------------------------------
(* What the invariant says of the mapped state: a session without a role is *)
(* in neither set, and only a paired connector has a peer.                  *)
LEMMA RolesMapped ==
    ASSUME IInv, NEW s \in Session
    PROVE  /\ ~is_mgr[s] => s \notin Forwarders /\ s \notin Connectors
           /\ type[s] # "FORWARD" => s \notin Forwarders
           /\ type[s] # "CONNECT" => s \notin Connectors
           /\ type[s] # "SPLICE" => remote_fd[s] = None
    BY DEF IInv, RegistryConsistent, FdInv, Forwarders, Connectors

(* A step that touches neither the tree nor a peer and frees nobody.        *)
LEMMA Invisible ==
    ASSUME UNCHANGED <<ntype, ntoken, remote_fd, Freed>>
    PROVE  UNCHANGED R!vars
    BY DEF R!vars, Freed

(* The forwarders that keep their name when the login of s evicts E.        *)
LEMMA Evicts ==
    ASSUME IInv, ~SendMayBlock, NEW k, NEW E, E \subseteq Find("FORWARD", k),
           E = {} => Find("FORWARD", k) = {}
    PROVE  Forwarders \ E = {x \in Forwarders : ntoken[x] # k}
    BY DEF IInv, UniqueForwarder, Find, Forwarders

(* The end of a session, alone or after it evicted E.                       *)
LEMMA CloseLeaves ==
    ASSUME IInv, NEW s \in Session, Live(s), NEW E, Evictable(s, E), Close(s, E)
    PROVE  Leaves(s, Forwarders \ E)
<1>1. \A x \in Session :
        /\ ntype'[x] = IF (x = s /\ is_mgr[s]) \/ x \in E THEN "NONE" ELSE ntype[x]
        /\ ntoken'[x] = IF (x = s /\ is_mgr[s]) \/ x \in E THEN None ELSE ntoken[x]
        /\ pc'[x] = IF x = s THEN "freed" ELSE pc[x]
    BY DEF Close, Upd, IInv, TypeOK
<1>2. ~is_mgr[s] => s \notin Forwarders /\ s \notin Connectors
    BY RolesMapped
<1>3. Forwarders' = (Forwarders \ E) \ {s}
    BY <1>1, <1>2 DEF Forwarders
<1>4. Connectors' = Connectors \ {s}
    BY <1>1, <1>2 DEF Connectors, Evictable
<1>5. s \notin Freed /\ Freed' = Freed \cup {s}
    BY <1>1 DEF Freed, Live
<1>6. Keyed(ntoken', Forwarders') = Keyed(ntoken, (Forwarders \ E) \ {s})
    <2>1. \A x \in (Forwarders \ E) \ {s} : ntoken'[x] = ntoken[x]
        BY <1>1 DEF Forwarders
    <2> QED
        BY <1>3, <2>1 DEF Keyed
<1>7. Keyed(ntoken', Connectors') = Keyed(ntoken, Connectors \ {s})
    <2>1. \A x \in Connectors \ {s} : ntoken'[x] = ntoken[x]
        BY <1>1 DEF Connectors, Evictable
    <2> QED
        BY <1>4, <2>1 DEF Keyed
<1>8. remote_fd' = [remote_fd EXCEPT ![s] = None]
    BY DEF Close
<1> QED
    BY <1>5, <1>6, <1>7, <1>8 DEF Leaves

(* A login that is answered makes s the forwarder of k.                     *)
LEMMA LoginRegisters ==
    ASSUME IInv, ~SendMayBlock, NEW s \in Session, Live(s), type[s] = "NULL", NEW v, NEW k,
           NEW E, Evictable(s, E), E \subseteq Find("FORWARD", k),
           E = {} => Find("FORWARD", k) = {}, LoginOk(s, v, k, E)
    PROVE  R!Register(s, k)
<1>1. \A x \in Session :
        /\ ntype'[x] = IF x = s THEN "FORWARD" ELSE IF x \in E THEN "NONE" ELSE ntype[x]
        /\ ntoken'[x] = IF x = s THEN k ELSE IF x \in E THEN None ELSE ntoken[x]
        /\ pc'[x] = IF x = s THEN "hdr" ELSE pc[x]
    BY DEF LoginOk, Upd, IInv, TypeOK
<1>2. s \notin Forwarders /\ s \notin Connectors /\ remote_fd[s] = None
    BY RolesMapped
<1>3. s \notin Freed /\ Freed' = Freed
    BY <1>1 DEF Freed, Live
<1>4. R!Fresh(s)
    BY <1>2, <1>3, FreshIs
<1>5. Forwarders' = (Forwarders \ E) \cup {s}
    BY <1>1, <1>2 DEF Forwarders
<1>6. Keyed(ntoken', Forwarders')
        = Keyed(ntoken, {x \in Forwarders : ntoken[x] # k}) \cup {<<k, s>>}
    <2>1. /\ \A x \in Forwarders \ E : ntoken'[x] = ntoken[x]
          /\ ntoken'[s] = k /\ s \notin Forwarders \ E
        BY <1>1, <1>2 DEF Forwarders
    <2>2. Keyed(ntoken, Forwarders \ E) \cup {<<k, s>>}
            = Keyed(ntoken', (Forwarders \ E) \cup {s})
        BY <2>1 DEF Keyed
    <2>3. Forwarders \ E = {x \in Forwarders : ntoken[x] # k}
        BY Evicts
    <2> QED
        BY <1>5, <2>2, <2>3
<1>7. Keyed(ntoken', Connectors') = Keyed(ntoken, Connectors)
    <2>1. Connectors' = Connectors
        BY <1>1, <1>2 DEF Connectors, Evictable
    <2>2. \A x \in Connectors : ntoken'[x] = ntoken[x]
        BY <1>1, <1>2 DEF Connectors, Evictable
    <2> QED
        BY <2>1, <2>2 DEF Keyed
<1>8. remote_fd' = remote_fd
    BY DEF LoginOk, ioVars
<1> QED
    BY <1>3, <1>4, <1>6, <1>7, <1>8, RegisterIs

(* A connect that is announced makes s wait under its key.                  *)
LEMMA ConnectAsks ==
    ASSUME IInv, NEW s \in Session, Live(s), type[s] = "NULL", NEW k,
           Forwarders # {}, k = s \/ \E f \in Forwarders : ntoken[f] = k,
           ConnectOk(s, k)
    PROVE  R!Ask(s, k)
<1>1. \A x \in Session :
        /\ ntype'[x] = IF x = s THEN "CONNECT" ELSE ntype[x]
        /\ ntoken'[x] = IF x = s THEN k ELSE ntoken[x]
        /\ pc'[x] = IF x = s THEN "waitAccept" ELSE pc[x]
    BY DEF ConnectOk, IInv, TypeOK
<1>2. s \notin Forwarders /\ s \notin Connectors /\ remote_fd[s] = None
    BY RolesMapped
<1>3. s \notin Freed /\ Freed' = Freed
    BY <1>1 DEF Freed, Live
<1>4. R!Fresh(s)
    BY <1>2, <1>3, FreshIs
<1>5. Connectors' = Connectors \cup {s} /\ Forwarders' = Forwarders
    BY <1>1, <1>2 DEF Connectors, Forwarders
<1>6. /\ \A x \in Connectors : ntoken'[x] = ntoken[x]
      /\ \A x \in Forwarders : ntoken'[x] = ntoken[x]
      /\ ntoken'[s] = k
    BY <1>1, <1>2 DEF Connectors, Forwarders
<1>7. Keyed(ntoken', Connectors') = Keyed(ntoken, Connectors) \cup {<<k, s>>}
    BY <1>2, <1>5, <1>6 DEF Keyed
<1>8. Keyed(ntoken', Forwarders') = Keyed(ntoken, Forwarders)
    BY <1>5, <1>6 DEF Keyed
<1>9. remote_fd' = remote_fd
    BY DEF ConnectOk, ioVars
<1> QED
    BY <1>3, <1>4, <1>7, <1>8, <1>9, AskIs

(* A pairing joins the acceptor s to the connector c.                       *)
LEMMA PairMatches ==
    ASSUME IInv, NEW s \in Session, Live(s), type[s] \in {"NULL", "FORWARD", "CLOSED"},
           NEW k, NEW c \in Find("CONNECT", k), Pair(s, c, k)
    PROVE  R!Match(c, s, k)
<1>0. /\ c \in Session /\ c \in Connectors /\ ntoken[c] = k /\ c # s
      /\ s \notin Connectors /\ remote_fd[s] = None /\ s \notin Freed
      /\ ~is_mgr[s] => s \notin Forwarders
    BY RolesMapped DEF Find, Connectors, Freed, Live
<1>1. \A x \in Session :
        /\ ntype'[x] = IF x = s /\ is_mgr[s] THEN "NONE"
                       ELSE IF x = c THEN "SPLICE" ELSE ntype[x]
        /\ x # c => ntoken'[x] = IF x = s /\ is_mgr[s] THEN None ELSE ntoken[x]
        /\ pc'[x] = IF x = s THEN "freed" ELSE pc[x]
    BY <1>0 DEF Pair, Upd, IInv, TypeOK
<1>2. Connectors' = Connectors \ {c}
    BY <1>0, <1>1 DEF Connectors
<1>3. Forwarders' = Forwarders \ {s}
    BY <1>0, <1>1 DEF Forwarders, Connectors
<1>4. /\ \A x \in Connectors \ {c} : ntoken'[x] = ntoken[x]
      /\ \A x \in Forwarders \ {s} : ntoken'[x] = ntoken[x]
    BY <1>0, <1>1 DEF Forwarders, Connectors
<1>5. Keyed(ntoken', Connectors') = Keyed(ntoken, Connectors \ {c})
    BY <1>2, <1>4 DEF Keyed
<1>6. Keyed(ntoken', Forwarders') = Keyed(ntoken, Forwarders \ {s})
    BY <1>3, <1>4 DEF Keyed
<1>7. remote_fd' = [remote_fd EXCEPT ![c] = s]
    <2>1. client_fd[s] = s
        BY DEF IInv, FdInv
    <2>2. remote_fd' = [remote_fd EXCEPT ![c] = s, ![s] = None]
        BY <2>1 DEF Pair
    <2>3. remote_fd \in [Session -> Session \cup {None}]
        BY DEF IInv, TypeOK
    <2> QED
        BY <1>0, <2>2, <2>3
<1>8. Freed' = Freed \cup {s}
    BY <1>1 DEF Freed
<1> QED
    BY <1>0, <1>5, <1>6, <1>7, <1>8, MatchIs

-----------------------------------------------------------------------------
(* An acceptor waits with a token it received.                              *)
WaitsWithToken == \A s \in Session : pc[s] = "waitConnect" => mt[s] \in Token

LEMMA WaitsNext == IInv /\ WaitsWithToken /\ [Next]_vars => WaitsWithToken'
<1> SUFFICES ASSUME IInv, WaitsWithToken, [Next]_vars,
                    NEW x \in Session, pc'[x] = "waitConnect"
             PROVE  mt'[x] \in Token
    BY DEF WaitsWithToken
<1> USE DEF IInv, TypeOK, WaitsWithToken
<1>1. ASSUME pc'[x] = pc[x], mt'[x] = mt[x] PROVE mt'[x] \in Token
    BY <1>1
<1>2. ASSUME NEW s \in Session, NEW E, Close(s, E) PROVE mt'[x] \in Token
    BY <1>1, <1>2 DEF Close, ClearLocals
<1>3. ASSUME NEW s \in Session, NEW c, NEW k, Pair(s, c, k) PROVE mt'[x] \in Token
    BY <1>1, <1>3 DEF Pair
<1>4. ASSUME NEW s \in Session, NEW t, NEW o, BeginSend(s, t, o),
             \A y \in Session : y # s => mt'[y] = mt[y]
      PROVE  mt'[x] \in Token
    BY <1>1, <1>4 DEF BeginSend
<1>5. ASSUME NEW s \in Session, NEW v, NEW k,
             LoginOk(s, v, k, {}) \/ ConnectOk(s, k) \/ KeepAliveOk(s)
      PROVE  mt'[x] \in Token
    BY <1>1, <1>5 DEF LoginOk, ConnectOk, KeepAliveOk, ClearLocals
<1>6. ASSUME NEW s \in Session, NEW v, NEW k, Login(s, v, k) PROVE mt'[x] \in Token
    <2>1. CASE pc' = [pc EXCEPT ![s] = "penalty"] /\ UNCHANGED locVars
        BY <1>1, <2>1 DEF locVars
    <2>2. ASSUME NEW E, LoginOk(s, v, k, E) \/ Close(s, E) PROVE mt'[x] \in Token
        BY <1>1, <1>2, <2>2 DEF LoginOk, ClearLocals
    <2>3. CASE BeginSend(s, s, "login") /\ UNCHANGED <<mt, sfd>>
        BY <1>4, <2>3
    <2> QED
        BY <1>6, <2>1, <2>2, <2>3 DEF Login
<1>7. ASSUME NEW s \in Session, SessionStep(s) PROVE mt'[x] \in Token
    <2>1. CASE AcceptClient(s) \/ AcceptDrop(s) \/ GetLock(s) \/ StartSplice(s)
               \/ (\E v \in {2, 3} : RecvLogin(s, v)) \/ RecvConnect(s) \/ RecvAccept(s)
        BY <1>1, <2>1 DEF AcceptClient, AcceptDrop, GetLock, StartSplice, RecvLogin,
           RecvConnect, RecvAccept, RecvBody, locVars
    <2>2. CASE RecvFail(s) \/ BadCommand(s) \/ PenaltyEnd(s) \/ EndSplice(s)
               \/ AcceptTimeout(s)
        BY <1>2, <2>2 DEF RecvFail, BadCommand, PenaltyEnd, EndSplice, AcceptTimeout
    <2>3. CASE EndSend(s)
        BY <1>2, <1>5, <2>3 DEF EndSend
    <2>4. CASE RecvLoginV1(s) \/ \E k \in Sendable \cup {None} : RecvLoginToken(s, k)
        BY <1>6, <2>4 DEF RecvLoginV1, RecvLoginToken
    <2>5. ASSUME NEW k \in Sendable, RecvConnectToken(s, k) PROVE mt'[x] \in Token
        <3>1. CASE pc' = [pc EXCEPT ![s] = "penalty"] /\ UNCHANGED locVars
            BY <1>1, <3>1 DEF locVars
        <3>2. ASSUME NEW f, NEW key,
                     \/ ConnectOk(s, key) \/ Close(s, {})
                     \/ BeginSend(s, f, "connect") /\ mt' = [mt EXCEPT ![s] = key]
              PROVE  mt'[x] \in Token
            BY <1>2, <1>4, <1>5, <3>2
        <3> QED
            BY <2>5, <3>1, <3>2 DEF RecvConnectToken
    <2>6. ASSUME NEW k \in Sendable, RecvAcceptToken(s, k) PROVE mt'[x] \in Token
        <3>1. CASE pc' = [pc EXCEPT ![s] = "waitConnect"] /\ mt' = [mt EXCEPT ![s] = k]
            <4>1. k \in Token
                BY DEF Sendable, Token
            <4> QED
                BY <1>1, <3>1, <4>1
        <3> QED
            BY <1>2, <1>3, <2>6, <3>1 DEF RecvAcceptToken
    <2>7. CASE AcceptWake(s)
        BY <1>3, <2>7 DEF AcceptWake
    <2>8. CASE RecvKeepAlive(s)
        BY <1>2, <1>4, <2>8 DEF RecvKeepAlive
    <2> QED
        BY <1>7, <2>1, <2>2, <2>3, <2>4, <2>5, <2>6, <2>7, <2>8 DEF SessionStep
<1>8. CASE ReloadTokens \/ UNCHANGED vars
    BY <1>1, <1>8 DEF ReloadTokens, vars, locVars
<1> QED
    BY <1>7, <1>8 DEF Next

-----------------------------------------------------------------------------
(* Every step of the server is a step of Rendezvous or invisible.           *)
LEMMA RendezvousStep ==
    ASSUME ~SendMayBlock, IInv, WaitsWithToken, [Next]_vars
    PROVE  [R!Next]_R!vars
<1> USE DEF Live
<1>0. SessionAssumption /\ Session \subseteq Token /\ issued \subseteq Session
      /\ Sendable \subseteq Token
    BY SessionAssumption DEF Token, Sendable, IInv, TypeOK
<1>1. ASSUME NEW s \in Session, Live(s), Close(s, {}) PROVE R!Next
    <2>1. Forwarders \ {} = Forwarders
        OBVIOUS
    <2>2. Leaves(s, Forwarders \ {})
        BY <1>1, CloseLeaves DEF Evictable
    <2> QED
        BY <2>1, <2>2, LeaveIs
<1>2. ASSUME NEW s \in Session, Live(s), type[s] = "NULL", NEW v, NEW k \in Token,
             Login(s, v, k)
      PROVE  [R!Next]_R!vars
    <2>1. CASE pc' = [pc EXCEPT ![s] = "penalty"] /\ UNCHANGED <<regVars, ioVars>>
        <3>1. Freed' = Freed
            BY <1>2, <2>1 DEF Freed, IInv, TypeOK
        <3> QED
            BY <2>1, <3>1, Invisible DEF regVars, ioVars
    <2>2. ASSUME NEW E, E \subseteq Find("FORWARD", k), E = {} => Find("FORWARD", k) = {},
                 LoginOk(s, v, k, E) \/ Close(s, E)
          PROVE  R!Next
        <3>1. Evictable(s, E)
            BY <1>2, <2>2, RolesMapped DEF Evictable, Find, Forwarders
        <3>2. CASE LoginOk(s, v, k, E)
            <4>1. R!Register(s, k)
                BY <1>2, <2>2, <3>1, <3>2, LoginRegisters
            <4> QED
                BY <4>1 DEF R!Next
        <3>3. CASE Close(s, E)
            <4>1. Leaves(s, Forwarders \ E)
                BY <1>2, <3>1, <3>3, CloseLeaves
            <4>2. Forwarders \ E = {x \in Forwarders : ntoken[x] # k}
                BY <2>2, Evicts
            <4> QED
                BY <4>1, <4>2, LeaveUnnamedIs
        <3> QED
            BY <2>2, <3>2, <3>3
    <2> QED
        BY <1>2, <2>1, <2>2 DEF Login, BeginSend
<1>3. ASSUME NEW s \in Session, Live(s), type[s] \in {"NULL", "FORWARD", "CLOSED"},
             NEW k \in Token, NEW c \in Find("CONNECT", k), Pair(s, c, k)
      PROVE  R!Next
    <2>1. R!Match(c, s, k) /\ c \in Session
        BY <1>3, PairMatches DEF Find
    <2> QED
        BY <2>1 DEF R!Next
<1>4. ASSUME NEW s \in Session, SessionStep(s) PROVE [R!Next]_R!vars
    <2>1. CASE AcceptDrop(s)
        <3>1. s \notin Freed /\ Freed' = Freed \cup {s}
            BY <2>1 DEF AcceptDrop, Freed, IInv, TypeOK
        <3>2. /\ type[s] = "NULL" /\ s \notin Forwarders /\ s \notin Connectors
              /\ remote_fd[s] = None
            BY <2>1, RolesMapped DEF AcceptDrop, IInv, RoleAtLabel
        <3>3. Forwarders' = Forwarders /\ Connectors' = Connectors
              /\ UNCHANGED <<remote_fd, ntoken>>
            BY <2>1 DEF AcceptDrop, regVars, ioVars, Forwarders, Connectors
        <3>4. remote_fd' = [remote_fd EXCEPT ![s] = None]
            BY <3>2, <3>3 DEF IInv, TypeOK
        <3>5. Forwarders \ {s} = Forwarders /\ Connectors \ {s} = Connectors
            BY <3>2
        <3> QED
            BY <3>1, <3>3, <3>4, <3>5, LeaveIs DEF Leaves
    <2>2. CASE AcceptClient(s) \/ StartSplice(s) \/ (\E v \in {2, 3} : RecvLogin(s, v))
               \/ RecvConnect(s) \/ RecvAccept(s)
        <3>1. UNCHANGED <<ntype, ntoken, remote_fd>>
            BY <2>2 DEF AcceptClient, StartSplice, RecvLogin, RecvConnect, RecvAccept,
                        RecvBody, regVars, ioVars
        <3>2. Freed' = Freed
            BY <2>2 DEF AcceptClient, StartSplice, RecvLogin, RecvConnect, RecvAccept,
                        RecvBody, Freed, IInv, TypeOK
        <3> QED
            BY <3>1, <3>2, Invisible
    <2>3. CASE RecvFail(s) \/ BadCommand(s) \/ PenaltyEnd(s) \/ EndSplice(s)
               \/ AcceptTimeout(s)
        BY <1>1, <2>3 DEF RecvFail, BadCommand, PenaltyEnd, EndSplice, AcceptTimeout,
           Receiving
    <2>4. ~GetLock(s) /\ ~EndSend(s)
        BY DEF GetLock, EndSend, IInv, SendInv
    <2>5. CASE RecvLoginV1(s)
        BY <1>0, <1>2, <2>5 DEF RecvLoginV1
    <2>6. ASSUME NEW k \in Sendable \cup {None}, RecvLoginToken(s, k)
          PROVE  [R!Next]_R!vars
        <3>1. Live(s) /\ type[s] = "NULL"
            BY <2>6 DEF RecvLoginToken, IInv, RoleAtLabel
        <3>2. (k = None /\ Login(s, ver[s], s)) \/ (k \in Token /\ Login(s, ver[s], k))
            BY <1>0, <2>6 DEF RecvLoginToken
        <3> QED
            BY <1>0, <1>2, <3>1, <3>2
    <2>7. ASSUME NEW k \in Sendable, RecvConnectToken(s, k) PROVE [R!Next]_R!vars
        <3>1. Live(s) /\ type[s] = "NULL"
            BY <2>7 DEF RecvConnectToken, IInv, RoleAtLabel
        <3>2. CASE pc' = [pc EXCEPT ![s] = "penalty"] /\ UNCHANGED <<regVars, ioVars>>
            <4>1. Freed' = Freed
                BY <3>1, <3>2 DEF Freed, IInv, TypeOK
            <4> QED
                BY <3>2, <4>1, Invisible DEF regVars, ioVars
        <3>3. ASSUME NEW f \in Find("FORWARD", k), NEW key \in {s, k},
                     ConnectOk(s, key) \/ Close(s, {})
              PROVE  R!Next
            <4>1. f \in Forwarders /\ ntoken[f] = k /\ key \in Token
                BY <1>0 DEF Find, Forwarders
            <4>2. ConnectOk(s, key) => R!Ask(s, key)
                BY <3>1, <4>1, ConnectAsks
            <4> QED
                BY <1>1, <3>1, <3>3, <4>1, <4>2 DEF R!Next
        <3> QED
            BY <2>7, <3>2, <3>3 DEF RecvConnectToken, BeginSend
    <2>8. ASSUME NEW k \in Sendable, RecvAcceptToken(s, k) PROVE [R!Next]_R!vars
        <3>1. Live(s) /\ type[s] \in {"NULL", "FORWARD", "CLOSED"} /\ k \in Token
            BY <1>0, <2>8 DEF RecvAcceptToken, IInv, RoleAtLabel
        <3>2. CASE pc' = [pc EXCEPT ![s] = "waitConnect"] /\ UNCHANGED <<regVars, ioVars>>
            <4>1. Freed' = Freed
                BY <3>1, <3>2 DEF Freed, IInv, TypeOK
            <4> QED
                BY <3>2, <4>1, Invisible DEF regVars, ioVars
        <3> QED
            BY <1>1, <1>3, <2>8, <3>1, <3>2 DEF RecvAcceptToken
    <2>9. CASE AcceptWake(s)
        <3>1. Live(s) /\ type[s] \in {"NULL", "FORWARD", "CLOSED"} /\ mt[s] \in Token
            BY <2>9 DEF AcceptWake, IInv, RoleAtLabel, WaitsWithToken
        <3> QED
            BY <1>3, <2>9, <3>1 DEF AcceptWake
    <2>10. CASE RecvKeepAlive(s)
        BY <1>1, <2>10 DEF RecvKeepAlive, BeginSend
    <2> QED
        BY <1>4, <2>1, <2>2, <2>3, <2>4, <2>5, <2>6, <2>7, <2>8, <2>9, <2>10
           DEF SessionStep
<1>5. CASE ReloadTokens \/ UNCHANGED vars
    <2>1. UNCHANGED <<ntype, ntoken, remote_fd, pc>>
        BY <1>5 DEF ReloadTokens, vars, regVars, ioVars
    <2> QED
        BY <2>1, Invisible DEF Freed
<1> QED
    BY <1>4, <1>5 DEF Next

(* The server that never blocks in a send implements the rendezvous         *)
(* service, for any number of sessions and tokens: every pairing is one of  *)
(* a waiting connector with a connection that presented its key, once.      *)
THEOREM ServerImplementsRendezvous ==
    ASSUME ~SendMayBlock PROVE Spec => ImplementsRendezvous
<1>1. Init => R!Init
    <2> SUFFICES ASSUME Init PROVE R!Init
        OBVIOUS
    <2>1. Forwarders = {} /\ Connectors = {} /\ Freed = {}
        BY DEF Init, Forwarders, Connectors, Freed
    <2>2. Keyed(ntoken, {}) = {}
        BY DEF Keyed
    <2>3. remote_fd = [s \in Session |-> None]
        BY DEF Init
    <2> QED
        BY <2>1, <2>2, <2>3 DEF R!Init, Keyed, Forwarders, Connectors, Freed
<1>2. Init => WaitsWithToken
    BY DEF Init, WaitsWithToken
<1>3. Spec => []WaitsWithToken
    BY <1>2, WaitsNext, Invariance, PTL DEF Spec
<1>4. IInv /\ WaitsWithToken /\ [Next]_vars => [R!Next]_R!vars
    BY RendezvousStep
<1> QED
    BY <1>1, <1>3, <1>4, Invariance, PTL DEF Spec, ImplementsRendezvous, R!Spec

=============================================================================
