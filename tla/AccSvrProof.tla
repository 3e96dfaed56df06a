---------------------------- MODULE AccSvrProof ----------------------------
(***************************************************************************)
(* Proofs about AccSvr, for every set of clients, connections, servers,    *)
(* packets and requests: the types of acc's own state, the exactness of    *)
(* its registries, and the agreement of a client's timers and kept packets *)
(* with its state.                                                         *)
(*                                                                         *)
(* What the sockets hold (toSvr) is not part of the argument: whether a    *)
(* message overflows a buffer only decides whether the connection is       *)
(* closing, and every invariant here is indifferent to that.               *)
(***************************************************************************)
EXTENDS AccSvr, FiniteSetTheorems, TLAPS

(* A client record that satisfies the per-client invariants. *)
GoodClient ==
  {rec \in ClientType :
     /\ "wfm" \in rec.tm => rec.state = "INIT"
     /\ "verify" \in rec.tm => rec.state = "WAIT_VERIFY"
     /\ "heartbeat" \in rec.tm => rec.state = "VERIFYED"
     /\ rec.state = "WAIT_VERIFY" /\ rec.con = "open" => "verify" \in rec.tm
     /\ rec.cacheMsg # <<>> => rec.isCache /\ rec.state = "VERIFYED"}

(* The registries rs and vs are exact for the connections inn. *)
Exact(inn, rs, vs) ==
  /\ \A id \in Ids, k \in Conns : rs[id] = k <=> Alive(inn[k]) /\ inn[k].svrId = id
  /\ \A k \in Conns : k \in vs <=> Alive(inn[k]) /\ inn[k].isVerify

IInv ==
  /\ cli \in [Cids -> GoodClient]
  /\ InnerTypeOK
  /\ RestTypeOK
  /\ Exact(inner, regSvr, verifySvr)
------------------------------------------------------------------------------
LEMMA IdFacts ==
  /\ \A id \in Ids : id # 0
  /\ NoCon \notin Conns
<1>1. \A id \in 1..UINT16_MAX : id # 0
  BY DEF UINT16_MAX
<1>2. NoCon \notin Nat
  BY DEF NoCon
<1> QED
  BY <1>1, <1>2, IdsAssumption, ConnsAssumption

(* What the library operators do to a client. *)

LEMMA DisConnectGood ==
  ASSUME NEW rec \in GoodClient
  PROVE  /\ DisConnect(rec) \in GoodClient
         /\ DisConnect(rec).state = rec.state
         /\ DisConnect(rec).con # "open"
BY DEF DisConnect, GoodClient, ClientType

LEMMA SendToClientGood ==
  ASSUME NEW rec \in GoodClient, NEW n \in Nat
  PROVE  /\ SendToClient(rec, n) \in GoodClient
         /\ SendToClient(rec, n).state = rec.state
         /\ SendToClient(rec, n).isCache = rec.isCache
         /\ SendToClient(rec, n).cacheMsg = rec.cacheMsg
BY BoundsAssumption DEF SendToClient, DisConnect, GoodClient, ClientType
------------------------------------------------------------------------------
(* The handlers' operators on a client. *)

LEMMA FreshClient ==
  /\ NewClient \in GoodClient
  /\ [NewClient EXCEPT !.con = "gone"] \in GoodClient
  /\ [NewClient EXCEPT !.con = "open"] \in GoodClient
<1>1. NewClient \in ClientType /\ NewClient.tm = {} /\ NewClient.cacheMsg = <<>>
        /\ NewClient.state = "INIT"
  <2>1. [g \in Grps |-> Absent] \in [Grps -> Ids \cup {Absent}]
    OBVIOUS
  <2>2. <<>> \in Seq(Packets)
    OBVIOUS
  <2> DEFINE a == [g \in Grps |-> Absent]
  <2> HIDE DEF a
  <2> QED
    BY <2>1, <2>2 DEF NewClient, ClientType, ClientStates, a
<1> QED
  BY <1>1 DEF GoodClient, ClientType

LEMMA IndexCount ==
  ASSUME NEW n \in Nat, NEW P \in SUBSET (1..n)
  PROVE  IsFiniteSet(P) /\ Cardinality(P) \in Nat
<1>1. IsFiniteSet(1..n)
  BY FS_Interval
<1> QED
  BY <1>1, FS_Subset, FS_CardinalityType

LEMMA AfterForward2SvrGood ==
  ASSUME NEW rec \in GoodClient, rec.state = "VERIFYED", NEW s \in Seq(Packets)
  PROVE  /\ AfterForward2Svr(rec, s) \in GoodClient
         /\ AfterForward2Svr(rec, s).state = "VERIFYED"
<1> DEFINE beats == {i \in DOMAIN s : Beats(s[i])}
           armed == IF beats = {} THEN rec ELSE [rec EXCEPT !.tm = rec.tm \cup {"heartbeat"}]
           told  == SendToClient(armed, Cardinality(beats))
<1>1. Cardinality(beats) \in Nat
  <2>1. Len(s) \in Nat /\ beats \in SUBSET (1..Len(s))
    OBVIOUS
  <2> QED
    BY <2>1, IndexCount
<1>2. armed \in GoodClient /\ armed.state = "VERIFYED"
  BY DEF GoodClient, ClientType, Timers
<1>3. told \in GoodClient /\ told.state = "VERIFYED"
  <2> HIDE DEF armed, beats
  <2> QED
    BY <1>1, <1>2, SendToClientGood
<1>4. DisConnect(told) \in GoodClient /\ DisConnect(told).state = "VERIFYED"
  <2> HIDE DEF told
  <2> QED
    BY <1>3, DisConnectGood
<1>5. AfterForward2Svr(rec, s) = told \/ AfterForward2Svr(rec, s) = DisConnect(told)
  BY DEF AfterForward2Svr
<1> HIDE DEF told
<1> QED
  BY <1>3, <1>4, <1>5

LEMMA SetVerifyGood ==
  ASSUME NEW rec \in GoodClient
  PROVE  SetVerify(rec) \in GoodClient
BY DEF SetVerify, GoodClient, ClientType, ClientStates, Timers

LEMMA SetActiveGood ==
  ASSUME NEW rec \in GoodClient, NEW g, NEW s \in Ids \cup {0}
  PROVE  SetActiveSvrId(rec, g, s) \in GoodClient
<1>1. CASE ~(g \in Grps /\ s # 0)
  BY <1>1 DEF SetActiveSvrId
<1>2. CASE g \in Grps /\ s # 0
  <2>1. [rec.active EXCEPT ![g] = s] \in [Grps -> Ids \cup {Absent}]
    BY <1>2 DEF GoodClient, ClientType
  <2> DEFINE a == [rec.active EXCEPT ![g] = s]
  <2>2. [rec EXCEPT !.active = a] \in GoodClient
    <3> HIDE DEF a
    <3> QED
      BY <2>1 DEF GoodClient, ClientType, a
  <2> QED
    BY <1>2, <2>2 DEF SetActiveSvrId
<1> QED
  BY <1>1, <1>2

LEMMA SetCacheGood ==
  ASSUME NEW rec \in GoodClient, rec.state = "VERIFYED", NEW on \in BOOLEAN
  PROVE  SetCache(rec, on) \in GoodClient
<1>1. CASE on
  BY <1>1 DEF SetCache, GoodClient, ClientType
<1>2. CASE ~on
  <2> DEFINE r == AfterForward2Svr(rec, rec.cacheMsg)
  <2>1. rec.cacheMsg \in Seq(Packets)
    BY DEF GoodClient, ClientType
  <2>2. r \in GoodClient
    BY <2>1, AfterForward2SvrGood
  <2>3. [r EXCEPT !.cacheMsg = <<>>, !.isCache = FALSE] \in GoodClient
    <3>1. <<>> \in Seq(Packets)
      OBVIOUS
    <3> DEFINE e == <<>>
    <3> HIDE DEF r, e
    <3>2. [r EXCEPT !.cacheMsg = e, !.isCache = FALSE] \in ClientType
      BY <2>2, <3>1 DEF GoodClient, ClientType, e
    <3>3. [r EXCEPT !.cacheMsg = e, !.isCache = FALSE].cacheMsg = e
      BY <2>2 DEF GoodClient, ClientType
    <3> QED
      BY <2>2, <3>2, <3>3 DEF GoodClient, ClientType, e
  <2> QED
    BY <1>2, <2>3 DEF SetCache
<1> QED
  BY <1>1, <1>2
------------------------------------------------------------------------------
(* Sending leaves the registries exact: it only ever closes connections.    *)

LEMMA SendExact ==
  ASSUME NEW base \in [Conns -> InnerType], NEW msgs, Send(base, msgs),
         NEW rs, NEW vs, Exact(base, rs, vs)
  PROVE  /\ inner' \in [Conns -> InnerType]
         /\ Exact(inner', rs, vs)
         /\ \A k \in Conns : Alive(inner'[k]) <=> Alive(base[k])
<1>1. \A k \in Conns : /\ inner'[k] \in InnerType
                       /\ inner'[k].svrId = base[k].svrId
                       /\ inner'[k].isVerify = base[k].isVerify
                       /\ Alive(inner'[k]) <=> Alive(base[k])
  BY DEF Send, DisConnect, Alive, InnerType
<1>2. inner' = [k \in Conns |-> inner'[k]]
  BY DEF Send
<1>3. inner' \in [Conns -> InnerType]
  BY <1>1, <1>2
<1>4. Exact(inner', rs, vs)
  BY <1>1 DEF Exact
<1> QED
  BY <1>1, <1>3, <1>4

LEMMA SendAllExact ==
  ASSUME NEW K, NEW m, SendAll(K, m), InnerTypeOK, Exact(inner, regSvr, verifySvr)
  PROVE  inner' \in [Conns -> InnerType] /\ Exact(inner', regSvr, verifySvr)
BY SendExact DEF SendAll, InnerTypeOK

LEMMA SendToExact ==
  ASSUME NEW k, NEW m, SendTo(k, m), InnerTypeOK, Exact(inner, regSvr, verifySvr)
  PROVE  inner' \in [Conns -> InnerType] /\ Exact(inner', regSvr, verifySvr)
BY SendExact DEF SendTo, InnerTypeOK
------------------------------------------------------------------------------
(* Clients: what each of their events preserves. *)

LEMMA ClientUpdate ==
  ASSUME cli \in [Cids -> GoodClient], NEW c \in Cids, NEW e \in GoodClient,
         cli' = [cli EXCEPT ![c] = e]
  PROVE  cli' \in [Cids -> GoodClient]
OBVIOUS

(* A step that changes nothing but one client's record. *)
LEMMA OneClientStep ==
  ASSUME IInv, NEW c \in Cids, NEW e \in GoodClient, cli' = [cli EXCEPT ![c] = e],
         UNCHANGED <<inner, regSvr, verifySvr, blIdx, seting, cmd2Grp, toSvr, reading>>
  PROVE  IInv'
<1>1. cli' \in [Cids -> GoodClient]
  BY ClientUpdate DEF IInv
<1> QED
  BY <1>1 DEF IInv, InnerTypeOK, RestTypeOK, Exact

LEMMA Forward2SvrStep ==
  ASSUME IInv, NEW c \in Cids, NEW p \in Packets,
         NEW rec \in GoodClient, rec.state = "VERIFYED", Forward2Svr(c, rec, p)
  PROVE  /\ cli' \in [Cids -> GoodClient]
         /\ inner' \in [Conns -> InnerType]
         /\ Exact(inner', regSvr, verifySvr)
         /\ blIdx' = blIdx
<1>1. AfterForward2Svr(rec, <<p>>) \in GoodClient
  <2>1. <<p>> \in Seq(Packets)
    OBVIOUS
  <2> QED
    BY <2>1, AfterForward2SvrGood
<1>2. cli' \in [Cids -> GoodClient]
  BY <1>1, ClientUpdate DEF Forward2Svr, IInv
<1>3. inner' \in [Conns -> InnerType] /\ Exact(inner', regSvr, verifySvr)
  BY SendExact DEF Forward2Svr, IInv, InnerTypeOK
<1> QED
  BY <1>2, <1>3 DEF Forward2Svr

LEMMA Forward2VerifySvrStep ==
  ASSUME IInv, NEW c \in Cids, NEW p \in Packets, cli[c].state = "INIT",
         Forward2VerifySvr(c, p)
  PROVE  /\ cli' \in [Cids -> GoodClient]
         /\ inner' \in [Conns -> InnerType]
         /\ Exact(inner', regSvr, verifySvr)
         /\ blIdx' \in Nat
<1> DEFINE stopped == [cli[c] EXCEPT !.tm = cli[c].tm \ {"wfm"}]
           asking  == [stopped EXCEPT !.tm = stopped.tm \cup {"verify"},
                                      !.state = "WAIT_VERIFY"]
<1>1. cli[c] \in GoodClient
  BY DEF IInv
<1>2. stopped \in GoodClient /\ stopped.state = "INIT"
  BY <1>1 DEF GoodClient, ClientType
<1>3. DisConnect(stopped) \in GoodClient
  <2> HIDE DEF stopped
  <2> QED
    BY <1>2, DisConnectGood
<1>4. asking \in GoodClient
  <2>1. stopped.cacheMsg = <<>> /\ "wfm" \notin stopped.tm /\ "heartbeat" \notin stopped.tm
    BY <1>1 DEF GoodClient, ClientType
  <2> HIDE DEF stopped
  <2> QED
    BY <1>2, <2>1 DEF GoodClient, ClientType, ClientStates, Timers
<1>5. NextBlIdx \in Nat
  BY DEF IInv, RestTypeOK, NextBlIdx
<1>6. CASE cli' = [cli EXCEPT ![c] = stopped] /\ UNCHANGED <<inner, toSvr, blIdx>>
  <2> HIDE DEF stopped
  <2> QED
    BY <1>2, <1>6, ClientUpdate DEF IInv, InnerTypeOK, RestTypeOK
<1>7. CASE cli' = [cli EXCEPT ![c] = DisConnect(stopped)] /\ UNCHANGED <<inner, toSvr, blIdx>>
  <2> HIDE DEF stopped
  <2> QED
    BY <1>3, <1>7, ClientUpdate DEF IInv, InnerTypeOK, RestTypeOK
<1>8. CASE /\ blIdx' = NextBlIdx
           /\ SendTo(BLVerifySvr, VerifyReq(c, p))
           /\ cli' = [cli EXCEPT ![c] = asking]
  <2>1. cli' \in [Cids -> GoodClient]
    <3> HIDE DEF asking
    <3> QED
      BY <1>4, <1>8, ClientUpdate DEF IInv
  <2>2. inner' \in [Conns -> InnerType] /\ Exact(inner', regSvr, verifySvr)
    BY <1>8, SendToExact DEF IInv
  <2> QED
    BY <1>5, <1>8, <2>1, <2>2
<1> QED
  BY <1>6, <1>7, <1>8 DEF Forward2VerifySvr

LEMMA OnRawRecvStep ==
  ASSUME IInv, NEW c \in Cids, NEW p \in Packets, OnRawRecv(c, p)
  PROVE  IInv'
<1>1. reading' \in [cid : Cids \cup {NoCid}, left : 0..(MaxPerRead - 1)]
  BY BoundsAssumption DEF OnRawRecv, ReadOn, IInv, RestTypeOK
<1>2. cli[c] \in GoodClient
  BY DEF IInv
<1>3. /\ cli' \in [Cids -> GoodClient]
      /\ inner' \in [Conns -> InnerType]
      /\ Exact(inner', regSvr, verifySvr)
      /\ blIdx' \in Nat
  <2>1. CASE cli[c].state = "INIT" /\ Forward2VerifySvr(c, p)
    BY <2>1, Forward2VerifySvrStep
  <2>2. CASE cli[c].state = "WAIT_VERIFY" /\ UNCHANGED <<cli, inner, toSvr, blIdx>>
    BY <2>2 DEF IInv, InnerTypeOK, RestTypeOK
  <2>3. CASE cli[c].state = "VERIFYED" /\ Forward2Svr(c, cli[c], p)
    BY <1>2, <2>3, Forward2SvrStep DEF IInv, RestTypeOK
  <2>4. CASE /\ cli[c].state = "VERIFYED" /\ cli[c].isCache
             /\ Forward2Svr(c, [cli[c] EXCEPT !.cacheMsg = Append(cli[c].cacheMsg, p)], p)
    <3> DEFINE rec == [cli[c] EXCEPT !.cacheMsg = Append(cli[c].cacheMsg, p)]
    <3>1. Append(cli[c].cacheMsg, p) \in Seq(Packets)
      BY <1>2 DEF GoodClient, ClientType
    <3>2. rec \in GoodClient /\ rec.state = "VERIFYED"
      <4> DEFINE m == Append(cli[c].cacheMsg, p)
      <4> HIDE DEF m
      <4> QED
        BY <1>2, <2>4, <3>1 DEF GoodClient, ClientType, m
    <3> HIDE DEF rec
    <3> QED
      BY <2>4, <3>2, Forward2SvrStep DEF IInv, RestTypeOK, rec
  <2>5. CASE cli' = [cli EXCEPT ![c] = DisConnect(cli[c])] /\ UNCHANGED <<inner, toSvr, blIdx>>
    BY <1>2, <2>5, DisConnectGood, ClientUpdate DEF IInv, InnerTypeOK, RestTypeOK
  <2> QED
    BY <2>1, <2>2, <2>3, <2>4, <2>5 DEF OnRawRecv, RevPacket
<1> QED
  BY <1>1, <1>3 DEF OnRawRecv, IInv, InnerTypeOK, RestTypeOK

LEMMA OnConnectedStep ==
  ASSUME IInv, NEW c \in Cids, OnConnected(c)
  PROVE  IInv'
<1> DEFINE fresh == [NewClient EXCEPT !.con = "open"]
<1>1. fresh \in GoodClient /\ fresh.tm = {} /\ fresh.state = "INIT" /\ fresh.cacheMsg = <<>>
  <2>1. fresh \in GoodClient
    BY FreshClient
  <2> QED
    BY <2>1 DEF NewClient
<1> HIDE DEF fresh
<1>2. [fresh EXCEPT !.tm = {"cls"}] \in GoodClient /\ [fresh EXCEPT !.tm = {"wfm"}] \in GoodClient
  BY <1>1 DEF GoodClient, ClientType, Timers
<1>3. SendToClient([fresh EXCEPT !.tm = {"cls"}], 1) \in GoodClient
  BY <1>2, SendToClientGood
<1>4. PICK e \in GoodClient : cli' = [cli EXCEPT ![c] = e]
  BY <1>1, <1>2, <1>3 DEF OnConnected, fresh
<1> QED
  BY <1>4, OneClientStep DEF OnConnected

LEMMA ClientBreakStep ==
  ASSUME IInv, NEW c \in Cids, ClientBreak(c)
  PROVE  IInv'
<1>1. DisConnect(cli[c]) \in GoodClient
  BY DisConnectGood DEF IInv
<1> QED
  BY <1>1, OneClientStep DEF ClientBreak

LEMMA ClientDrainStep ==
  ASSUME IInv, NEW c \in Cids, ClientDrain(c)
  PROVE  IInv'
<1> DEFINE e == [cli[c] EXCEPT !.pend = 0]
<1>1. e \in GoodClient /\ cli' = [cli EXCEPT ![c] = e]
  BY DEF IInv, ClientDrain, GoodClient, ClientType
<1> HIDE DEF e
<1> QED
  BY <1>1, OneClientStep DEF ClientDrain

LEMMA TimeOutStep ==
  ASSUME IInv, NEW c \in Cids, NEW t \in Timers, TimeOut(c, t)
  PROVE  IInv'
<1> DEFINE e == DisConnect([cli[c] EXCEPT !.tm = cli[c].tm \ {t}])
<1>1. e \in GoodClient
  BY DEF IInv, TimeOut, DisConnect, GoodClient, ClientType, Alive
<1> HIDE DEF e
<1> QED
  BY <1>1, OneClientStep DEF TimeOut, e

LEMMA DestroyClientStep ==
  ASSUME IInv, NEW c \in Cids, DestroyClient(c)
  PROVE  IInv'
<1>1. cli' \in [Cids -> GoodClient]
  BY FreshClient, ClientUpdate DEF DestroyClient, IInv
<1>2. inner' \in [Conns -> InnerType] /\ Exact(inner', regSvr, verifySvr)
  <2>1. CASE SendAll(Registered, [cmd |-> "NTF_DISCON", cid |-> c])
    BY <2>1, SendAllExact DEF IInv
  <2>2. CASE UNCHANGED <<inner, toSvr>>
    BY <2>2 DEF IInv, InnerTypeOK
  <2> QED
    BY <2>1, <2>2 DEF DestroyClient
<1> QED
  BY <1>1, <1>2 DEF DestroyClient, IInv, InnerTypeOK, RestTypeOK
------------------------------------------------------------------------------
(* Servers: what their coming and going preserves. *)

LEMMA SvrConnectStep ==
  ASSUME IInv, NEW k \in Conns, SvrConnect(k)
  PROVE  IInv'
<1>1. inner' \in [Conns -> InnerType]
  BY DEF SvrConnect, IInv, InnerTypeOK, InnerType, NewInner
<1>2. Exact(inner', regSvr, verifySvr)
  <2>1. \A j \in Conns : j # k => inner'[j] = inner[j]
    BY DEF SvrConnect, IInv, InnerTypeOK
  <2>2. inner'[k].svrId = 0 /\ inner'[k].isVerify = FALSE
    BY DEF SvrConnect, IInv, InnerTypeOK, NewInner
  <2>3. ~Alive(inner[k])
    BY DEF SvrConnect, Alive
  <2>4. ASSUME NEW id \in Ids, NEW j \in Conns
        PROVE  regSvr[id] = j <=> Alive(inner'[j]) /\ inner'[j].svrId = id
    <3>1. id # 0
      BY IdFacts
    <3>2. CASE j = k
      BY <2>2, <2>3, <3>1, <3>2 DEF IInv, Exact
    <3>3. CASE j # k
      BY <2>1, <3>3 DEF IInv, Exact
    <3> QED
      BY <3>2, <3>3
  <2>5. ASSUME NEW j \in Conns
        PROVE  j \in verifySvr <=> Alive(inner'[j]) /\ inner'[j].isVerify
    <3>1. CASE j = k
      BY <2>2, <2>3, <3>1 DEF IInv, Exact
    <3>2. CASE j # k
      BY <2>1, <3>2 DEF IInv, Exact
    <3> QED
      BY <3>1, <3>2
  <2> QED
    BY <2>4, <2>5 DEF Exact
<1> QED
  BY <1>1, <1>2 DEF SvrConnect, Registries, IInv, InnerTypeOK, RestTypeOK

LEMMA SvrBreakStep ==
  ASSUME IInv, NEW k \in Conns, SvrBreak(k)
  PROVE  IInv'
<1>1. inner' \in [Conns -> InnerType]
  BY DEF SvrBreak, IInv, InnerTypeOK, InnerType, DisConnect
<1>2. \A j \in Conns : /\ Alive(inner'[j]) <=> Alive(inner[j])
                       /\ inner'[j].svrId = inner[j].svrId
                       /\ inner'[j].isVerify = inner[j].isVerify
  BY DEF SvrBreak, IInv, InnerTypeOK, InnerType, DisConnect, Alive
<1>3. Exact(inner', regSvr, verifySvr)
  BY <1>2 DEF IInv, Exact
<1> QED
  BY <1>1, <1>3 DEF SvrBreak, Registries, IInv, InnerTypeOK, RestTypeOK

LEMMA DestroySvrStep ==
  ASSUME IInv, NEW k \in Conns, DestroySvr(k)
  PROVE  IInv'
<1>1. inner' \in [Conns -> InnerType]
  BY DEF DestroySvr, IInv, InnerTypeOK, InnerType, NewInner
<1>2. /\ \A j \in Conns : j # k => inner'[j] = inner[j]
      /\ ~Alive(inner'[k])
      /\ Alive(inner[k])
  BY DEF DestroySvr, IInv, InnerTypeOK, NewInner, Alive
<1>3. inner[k].svrId \in Ids \cup {0} /\ inner[k].isVerify \in BOOLEAN
  BY DEF IInv, InnerTypeOK, InnerType
<1>4. regSvr' \in [Ids -> Conns \cup {NoCon}] /\ verifySvr' \subseteq Conns
  BY <1>3 DEF DestroySvr, IInv, InnerTypeOK
<1>5. ASSUME NEW id \in Ids, NEW j \in Conns
      PROVE  regSvr'[id] = j <=> Alive(inner'[j]) /\ inner'[j].svrId = id
  <2>1. regSvr'[id] = IF inner[k].svrId = id THEN NoCon ELSE regSvr[id]
    BY <1>3, IdFacts DEF DestroySvr, IInv, InnerTypeOK
  <2>2. NoCon \notin Conns
    BY IdFacts
  <2> QED
    BY <1>2, <2>1, <2>2 DEF IInv, Exact
<1>6. ASSUME NEW j \in Conns
      PROVE  j \in verifySvr' <=> Alive(inner'[j]) /\ inner'[j].isVerify
  BY <1>2, <1>3 DEF DestroySvr, IInv, Exact
<1> QED
  BY <1>1, <1>4, <1>5, <1>6 DEF DestroySvr, IInv, InnerTypeOK, RestTypeOK, Exact
------------------------------------------------------------------------------
(* Requests: the fields of each, and what each handler preserves. *)

LEMMA RequestFields ==
  ASSUME NEW r \in RequestType
  PROVE  /\ r.cmd = "REQ_REG" => r.svrId % 65536 \in Ids \cup {0} /\ r.isVerify \in BOOLEAN
         /\ r.cmd = "REQ_VERIFY_RET" => r.isSuccess \in BOOLEAN
         /\ r.cmd = "REQ_BROADCAST_UIN" => r.uin \in Uins
         /\ r.cmd = "REQ_SET_CMD_2_GRP" => r.grpId \in Ids \cup {0}
         /\ r.cmd = "REQ_SET_ACTIVE_SVR" => r.svrId \in Ids \cup {0}
         /\ r.cmd = "REQ_CACHE_MSG" => r.isCache \in BOOLEAN
         /\ r.cmd = "REQ_BROADCAST" => r.cids \in Seq(Cids \cup {NoCid})
         /\ r.cmd = "REQ_ACC_SETING" => r.seting \in SetingType
BY DEF RequestType

LEMMA FoundAreCids == FoundClients \subseteq Cids /\ VerifiedClients \subseteq FoundClients
BY DEF FoundClients, VerifiedClients

(* A handler that changes neither the registries nor the settings. *)
LEMMA HandlerStep ==
  ASSUME IInv, cli' \in [Cids -> GoodClient],
         inner' \in [Conns -> InnerType], Exact(inner', regSvr, verifySvr),
         Registries, UNCHANGED reading
  PROVE  IInv'
BY DEF IInv, InnerTypeOK, RestTypeOK, Registries

LEMMA RegStep ==
  ASSUME IInv, NEW k \in Conns, NEW r \in RequestType, r.cmd = "REQ_REG",
         inner[k].con = "open", Parse_CMD_REQ_REG(k, r), UNCHANGED reading
  PROVE  IInv'
<1> DEFINE id == r.svrId % 65536
           ok == RegSvrIdOk(k, id)
           me == [inner[k] EXCEPT !.svrId = IF ok THEN id ELSE inner[k].svrId,
                                  !.isVerify = inner[k].isVerify \/ r.isVerify]
           base == [inner EXCEPT ![k] = me]
<1>1. id \in Ids \cup {0} /\ r.isVerify \in BOOLEAN
  BY RequestFields
<1>2. ok => id \in Ids /\ inner[k].svrId = 0 /\ regSvr[id] = NoCon
  BY <1>1 DEF RegSvrIdOk
<1>3. inner[k] \in InnerType
  BY DEF IInv, InnerTypeOK
<1>4. /\ me \in InnerType
      /\ me.con = "open"
      /\ me.svrId = IF ok THEN id ELSE inner[k].svrId
      /\ me.isVerify = (inner[k].isVerify \/ r.isVerify)
  <2> HIDE DEF ok, id
  <2> QED
    BY <1>1, <1>2, <1>3 DEF InnerType
<1>5. base \in [Conns -> InnerType] /\ base[k] = me /\ \A j \in Conns : j # k => base[j] = inner[j]
  <2> HIDE DEF me
  <2> QED
    BY <1>4 DEF IInv, InnerTypeOK
<1>6. /\ regSvr' = (IF ok THEN [regSvr EXCEPT ![id] = k] ELSE regSvr)
      /\ verifySvr' = (IF r.isVerify THEN verifySvr \cup {k} ELSE verifySvr)
      /\ \E msgs : Send(base, msgs)
      /\ UNCHANGED <<cli, blIdx, seting, cmd2Grp>>
  BY DEF Parse_CMD_REQ_REG
<1> HIDE DEF id, ok, me, base
<1>7. regSvr' \in [Ids -> Conns \cup {NoCon}] /\ verifySvr' \subseteq Conns
  BY <1>2, <1>6 DEF IInv, InnerTypeOK
<1>8. Alive(inner[k]) /\ Alive(base[k])
  BY <1>4, <1>5 DEF Alive
<1>9. ASSUME NEW i \in Ids, NEW j \in Conns
      PROVE  regSvr'[i] = j <=> Alive(base[j]) /\ base[j].svrId = i
  <2>1. k # NoCon /\ i # 0
    BY IdFacts
  <2>2. regSvr'[i] = IF ok /\ i = id THEN k ELSE regSvr[i]
    BY <1>2, <1>6 DEF IInv, InnerTypeOK
  <2>3. regSvr[i] = j <=> Alive(inner[j]) /\ inner[j].svrId = i
    BY DEF IInv, Exact
  <2>4. CASE j = k
    BY <1>2, <1>4, <1>5, <1>8, <2>1, <2>2, <2>3, <2>4
  <2>5. CASE j # k
    BY <1>2, <1>5, <2>2, <2>3, <2>5, IdFacts
  <2> QED
    BY <2>4, <2>5
<1>10. ASSUME NEW j \in Conns
       PROVE  j \in verifySvr' <=> Alive(base[j]) /\ base[j].isVerify
  <2>1. j \in verifySvr <=> Alive(inner[j]) /\ inner[j].isVerify
    BY DEF IInv, Exact
  <2>2. j \in verifySvr' <=> j \in verifySvr \/ (j = k /\ r.isVerify)
    BY <1>1, <1>6
  <2>3. CASE j = k
    BY <1>4, <1>5, <1>8, <2>1, <2>2, <2>3
  <2>4. CASE j # k
    BY <1>5, <2>1, <2>2, <2>4
  <2> QED
    BY <2>3, <2>4
<1>11. Exact(base, regSvr', verifySvr')
  BY <1>9, <1>10 DEF Exact
<1>12. inner' \in [Conns -> InnerType] /\ Exact(inner', regSvr', verifySvr')
  BY <1>5, <1>6, <1>11, SendExact
<1> QED
  BY <1>6, <1>7, <1>12 DEF IInv, InnerTypeOK, RestTypeOK

(* A handler that touches one client, or none. *)
LEMMA ClientOnlyStep ==
  ASSUME IInv, cli' \in [Cids -> GoodClient], ClientOnly, UNCHANGED reading
  PROVE  IInv'
BY DEF IInv, InnerTypeOK, RestTypeOK, ClientOnly, Exact

LEMMA IgnoredStep ==
  ASSUME IInv, Ignored, UNCHANGED reading
  PROVE  IInv'
BY ClientOnlyStep DEF Ignored, IInv

LEMMA VerifyRetStep ==
  ASSUME IInv, NEW k \in Conns, NEW r \in RequestType, r.cmd = "REQ_VERIFY_RET",
         Parse_CMD_REQ_VERIFY_RET(k, r), UNCHANGED reading
  PROVE  IInv'
<1>1. CASE Ignored
  BY <1>1, IgnoredStep
<1>2. ASSUME r.cid \in FoundClients
      PROVE  /\ r.cid \in Cids
             /\ SendToClient(cli[r.cid], 1) \in GoodClient
             /\ SetVerify(SendToClient(cli[r.cid], 1)) \in GoodClient
  BY <1>2, FoundAreCids, SendToClientGood, SetVerifyGood DEF IInv
<1>3. CASE /\ r.cid \in FoundClients
           /\ cli' = [cli EXCEPT ![r.cid] = SendToClient(cli[r.cid], 1)]
           /\ ClientOnly
  <2>1. cli' \in [Cids -> GoodClient]
    BY <1>2, <1>3, ClientUpdate DEF IInv
  <2> QED
    BY <1>3, <2>1, ClientOnlyStep
<1>4. CASE /\ r.cid \in FoundClients
           /\ cli' = [cli EXCEPT ![r.cid] = SetVerify(SendToClient(cli[r.cid], 1))]
           /\ \/ UNCHANGED <<inner, toSvr>>
              \/ SendAll(RegisteredInner, CreateSession(r.cid, r.uin, r.accName))
           /\ Registries
  <2>1. cli' \in [Cids -> GoodClient]
    BY <1>2, <1>4, ClientUpdate DEF IInv
  <2>2. inner' \in [Conns -> InnerType] /\ Exact(inner', regSvr, verifySvr)
    BY <1>4, SendAllExact DEF IInv, InnerTypeOK
  <2> QED
    BY <1>4, <2>1, <2>2, HandlerStep
<1> QED
  BY <1>1, <1>3, <1>4 DEF Parse_CMD_REQ_VERIFY_RET

LEMMA BroadcastUinStep ==
  ASSUME IInv, NEW k \in Conns, NEW r \in RequestType, r.cmd = "REQ_BROADCAST_UIN",
         Parse_CMD_REQ_BROADCAST_UIN(k, r), UNCHANGED reading
  PROVE  IInv'
<1>1. CASE Ignored
  BY <1>1, IgnoredStep
<1>2. CASE r.cid \in FoundClients /\ ~Ignored
  <2> DEFINE e == [cli[r.cid] EXCEPT !.uin = r.uin]
  <2>1. r.cid \in Cids /\ r.uin \in Uins
    BY <1>2, FoundAreCids, RequestFields
  <2>2. e \in GoodClient
    <3>1. cli[r.cid] \in GoodClient
      BY <2>1 DEF IInv
    <3> QED
      BY <2>1, <3>1 DEF GoodClient, ClientType
  <2>3. cli' = [cli EXCEPT ![r.cid] = e]
    BY <1>2 DEF Parse_CMD_REQ_BROADCAST_UIN
  <2> HIDE DEF e
  <2>4. cli' \in [Cids -> GoodClient]
    BY <2>1, <2>2, <2>3, ClientUpdate DEF IInv
  <2>5. inner' \in [Conns -> InnerType] /\ Exact(inner', regSvr, verifySvr)
    BY <1>2, SendAllExact DEF Parse_CMD_REQ_BROADCAST_UIN, IInv
  <2> QED
    BY <1>2, <2>4, <2>5, HandlerStep DEF Parse_CMD_REQ_BROADCAST_UIN
<1> QED
  BY <1>1, <1>2 DEF Parse_CMD_REQ_BROADCAST_UIN

LEMMA SetCmd2GrpStep ==
  ASSUME IInv, NEW k \in Conns, NEW r \in RequestType, r.cmd = "REQ_SET_CMD_2_GRP",
         Parse_CMD_REQ_SET_CMD_2_GRP(k, r), UNCHANGED reading
  PROVE  IInv'
<1>1. cmd2Grp' \in [MainCmds -> Ids \cup {Absent}]
  BY RequestFields DEF Parse_CMD_REQ_SET_CMD_2_GRP, IInv, RestTypeOK
<1> QED
  BY <1>1 DEF Parse_CMD_REQ_SET_CMD_2_GRP, IInv, InnerTypeOK, RestTypeOK, Exact

LEMMA SetActiveSvrStep ==
  ASSUME IInv, NEW k \in Conns, NEW r \in RequestType, r.cmd = "REQ_SET_ACTIVE_SVR",
         Parse_CMD_REQ_SET_ACTIVE_SVR(k, r), UNCHANGED reading
  PROVE  IInv'
<1>1. CASE Ignored
  BY <1>1, IgnoredStep
<1>2. CASE /\ SendTo(k, RspSetActive(r.cid, 0, 0))
           /\ UNCHANGED cli /\ Registries
  BY <1>2, SendToExact, HandlerStep DEF IInv
<1>3. CASE /\ r.cid \in VerifiedClients
           /\ cli' = [cli EXCEPT ![r.cid] = SetActiveSvrId(cli[r.cid], r.grpId, r.svrId)]
           /\ SendTo(k, RspSetActive(r.cid, r.grpId, r.svrId))
           /\ Registries
  <2>1. r.cid \in Cids
    BY <1>3, FoundAreCids
  <2>2. SetActiveSvrId(cli[r.cid], r.grpId, r.svrId) \in GoodClient
    BY <2>1, RequestFields, SetActiveGood DEF IInv
  <2>3. cli' \in [Cids -> GoodClient]
    BY <1>3, <2>1, <2>2, ClientUpdate DEF IInv
  <2> QED
    BY <1>3, <2>3, SendToExact, HandlerStep DEF IInv
<1> QED
  BY <1>1, <1>2, <1>3 DEF Parse_CMD_REQ_SET_ACTIVE_SVR

LEMMA CacheMsgStep ==
  ASSUME IInv, NEW k \in Conns, NEW r \in RequestType, r.cmd = "REQ_CACHE_MSG",
         Parse_CMD_REQ_CACHE_MSG(k, r), UNCHANGED reading
  PROVE  IInv'
<1>1. CASE Ignored
  BY <1>1, IgnoredStep
<1>2. CASE r.cid \in VerifiedClients /\ ~Ignored
  <2>1. r.cid \in Cids /\ cli[r.cid].state = "VERIFYED" /\ r.isCache \in BOOLEAN
    BY <1>2, FoundAreCids, RequestFields DEF VerifiedClients
  <2>2. SetCache(cli[r.cid], r.isCache) \in GoodClient
    BY <2>1, SetCacheGood DEF IInv
  <2>3. cli' \in [Cids -> GoodClient]
    BY <1>2, <2>1, <2>2, ClientUpdate DEF Parse_CMD_REQ_CACHE_MSG, IInv
  <2>4. inner' \in [Conns -> InnerType] /\ Exact(inner', regSvr, verifySvr)
    BY <1>2, SendExact DEF Parse_CMD_REQ_CACHE_MSG, IInv, InnerTypeOK
  <2> QED
    BY <1>2, <2>3, <2>4, HandlerStep DEF Parse_CMD_REQ_CACHE_MSG
<1> QED
  BY <1>1, <1>2 DEF Parse_CMD_REQ_CACHE_MSG

LEMMA ForwardToClientStep ==
  ASSUME IInv, NEW k \in Conns, NEW r \in RequestType, OnRecvForward(k, r), UNCHANGED reading
  PROVE  IInv'
<1>1. cli' \in [Cids -> GoodClient]
  <2>1. CASE r.cid \in VerifiedClients
    <3>1. r.cid \in Cids /\ SendToClient(cli[r.cid], 1) \in GoodClient
      BY <2>1, FoundAreCids, SendToClientGood DEF IInv
    <3> QED
      BY <2>1, <3>1, ClientUpdate DEF OnRecvForward, IInv
  <2>2. CASE r.cid \notin VerifiedClients
    BY <2>2 DEF OnRecvForward, IInv
  <2> QED
    BY <2>1, <2>2
<1> QED
  BY <1>1, ClientOnlyStep DEF OnRecvForward

LEMMA BroadcastStep ==
  ASSUME IInv, NEW k \in Conns, NEW r \in RequestType, r.cmd = "REQ_BROADCAST",
         Parse_CMD_REQ_BROADCAST(k, r), UNCHANGED reading
  PROVE  IInv'
<1>1. ASSUME NEW c \in Cids, NEW n \in Nat
      PROVE  SendToClient(cli[c], n) \in GoodClient
  BY SendToClientGood DEF IInv
<1>2. ASSUME NEW c
      PROVE  Times(c, r.cids) \in Nat
  <2>1. r.cids \in Seq(Cids \cup {NoCid})
    BY RequestFields
  <2>2. Len(r.cids) \in Nat /\ {i \in DOMAIN r.cids : r.cids[i] = c} \in SUBSET (1..Len(r.cids))
    BY <2>1
  <2> QED
    BY <2>2, IndexCount DEF Times
<1>3. cli' \in [Cids -> GoodClient]
  BY <1>1, <1>2 DEF Parse_CMD_REQ_BROADCAST
<1> QED
  BY <1>3, ClientOnlyStep DEF Parse_CMD_REQ_BROADCAST

LEMMA DisconStep ==
  ASSUME IInv, NEW k \in Conns, NEW r \in RequestType,
         Parse_CMD_REQ_DISCON(k, r) \/ Parse_CMD_REQ_DISCON_ALL(k, r), UNCHANGED reading
  PROVE  IInv'
<1>1. \A c \in Cids : cli[c] \in GoodClient /\ DisConnect(cli[c]) \in GoodClient
  BY DisConnectGood DEF IInv
<1>2. cli' \in [Cids -> GoodClient] /\ ClientOnly
  <2>1. CASE Parse_CMD_REQ_DISCON(k, r)
    BY <1>1, <2>1, FoundAreCids, ClientUpdate DEF Parse_CMD_REQ_DISCON, IInv
  <2>2. CASE Parse_CMD_REQ_DISCON_ALL(k, r)
    BY <1>1, <2>2 DEF Parse_CMD_REQ_DISCON_ALL
  <2> QED
    BY <2>1, <2>2
<1> QED
  BY <1>2, ClientOnlyStep

LEMMA AccSetingStep ==
  ASSUME IInv, NEW k \in Conns, NEW r \in RequestType, r.cmd = "REQ_ACC_SETING",
         Parse_CMD_REQ_ACC_SETING(k, r), UNCHANGED reading
  PROVE  IInv'
BY RequestFields DEF Parse_CMD_REQ_ACC_SETING, IInv, InnerTypeOK, RestTypeOK, Exact

LEMMA OnRecvStep ==
  ASSUME IInv, NEW k \in Conns, NEW r \in RequestType, OnRecv(k, r)
  PROVE  IInv'
BY RegStep, VerifyRetStep, BroadcastUinStep, SetCmd2GrpStep, SetActiveSvrStep, CacheMsgStep,
   ForwardToClientStep, BroadcastStep, DisconStep, AccSetingStep DEF OnRecv
------------------------------------------------------------------------------
(* The steps that no handler of a client or server runs in. *)
LEMMA ReadDoneStep ==
  ASSUME IInv, ReadDone
  PROVE  IInv'
<1>1. reading' \in [cid : Cids \cup {NoCid}, left : 0..(MaxPerRead - 1)]
  BY BoundsAssumption DEF ReadDone, IInv, RestTypeOK
<1> QED
  BY <1>1 DEF ReadDone, IInv, InnerTypeOK, RestTypeOK, Exact

LEMMA SvrReadStep ==
  ASSUME IInv, NEW k \in Conns, SvrRead(k)
  PROVE  IInv'
BY DEF SvrRead, Registries, IInv, InnerTypeOK, RestTypeOK, Exact

LEMMA ClientEventStep ==
  ASSUME IInv, NEW c \in Cids, ClientEvent(c)
  PROVE  IInv'
BY OnConnectedStep, ClientBreakStep, ClientDrainStep, TimeOutStep, DestroyClientStep
   DEF ClientEvent, OnWaitFirstMsgTimeOut, OnVerfiyTimeOut, OnHeartbeatTimeOut, OnClsTimeOut,
       Timers

(* The steps of acc, in any environment that asks for what RequestType has. *)
AccStep ==
  \/ \E c \in Cids : RecvPacket(c)
  \/ ReadDone
  \/ \E c \in Cids : Idle /\ ClientEvent(c)
  \/ \E k \in Conns :
       \/ SvrRead(k)
       \/ Idle /\ (SvrConnect(k) \/ SvrBreak(k) \/ DestroySvr(k))
       \/ Idle /\ \E r \in RequestType : OnRecv(k, r)

LEMMA NextIsStep == Next => AccStep
BY RequestsAssumption DEF Next, AccStep, SvrEvent

(* IInv is inductive. *)
LEMMA InitIInv == Init => IInv
<1> SUFFICES ASSUME Init PROVE IInv
  OBVIOUS
<1>1. cli \in [Cids -> GoodClient]
  BY FreshClient DEF Init
<1>2. InnerTypeOK /\ Exact(inner, regSvr, verifySvr)
  BY IdFacts DEF Init, InnerTypeOK, InnerType, NewInner, Exact, Alive
<1>3. RestTypeOK
  BY BoundsAssumption DEF Init, RestTypeOK, SetingType, DefaultSeting
<1> QED
  BY <1>1, <1>2, <1>3 DEF IInv

LEMMA StepIInv == IInv /\ [AccStep]_accVars => IInv'
<1> SUFFICES ASSUME IInv, [AccStep]_accVars PROVE IInv'
  OBVIOUS
<1>1. CASE \E c \in Cids : RecvPacket(c)
  BY <1>1, OnRawRecvStep DEF RecvPacket
<1>2. CASE ReadDone
  BY <1>2, ReadDoneStep
<1>3. CASE \E c \in Cids : ClientEvent(c)
  BY <1>3, ClientEventStep
<1>4. CASE \E k \in Conns : SvrRead(k) \/ SvrConnect(k) \/ SvrBreak(k) \/ DestroySvr(k)
  BY <1>4, SvrConnectStep, SvrBreakStep, SvrReadStep, DestroySvrStep
<1>5. CASE \E k \in Conns, r \in RequestType : OnRecv(k, r)
  BY <1>5, OnRecvStep
<1>6. CASE UNCHANGED accVars
  BY <1>6 DEF accVars, IInv, InnerTypeOK, RestTypeOK, Exact
<1> QED
  BY <1>1, <1>2, <1>3, <1>4, <1>5, <1>6 DEF AccStep

(* Everything IInv says holds throughout. *)
LEMMA AlwaysIInv == Spec => []IInv
<1>1. Init => IInv
  BY InitIInv
<1>2. IInv /\ [Next]_accVars => IInv'
  BY NextIsStep, StepIInv
<1> QED
  BY <1>1, <1>2, PTL DEF Spec
------------------------------------------------------------------------------
(* acc's own state keeps its types, whatever clients and servers do.        *)
THEOREM TypeCorrect == Spec => []StateTypeOK
<1>1. IInv => StateTypeOK
  BY DEF IInv, GoodClient, StateTypeOK, CliTypeOK
<1> QED
  BY <1>1, AlwaysIInv, PTL

(* The registries RegSvrMgr and VerifySvrMgr hold exactly the live          *)
(* connections that registered: neither ever points at a destroyed object.  *)
THEOREM RegistryCorrect == Spec => []RegistryExact
<1>1. IInv => RegistryExact
  BY DEF IInv, Exact, RegistryExact
<1> QED
  BY <1>1, AlwaysIInv, PTL

(* No timer of a client runs in a state it is not for, and a client that    *)
(* waits for its verify answer always has the timer that ends the wait.     *)
THEOREM TimersCorrect == Spec => []TimersMatchState
<1>1. IInv => TimersMatchState
  BY DEF IInv, GoodClient, TimersMatchState
<1> QED
  BY <1>1, AlwaysIInv, PTL

(* Packets are kept only for a verified client whose cache is on.           *)
THEOREM CacheCorrect == Spec => []CacheOnlyWhileOn
<1>1. IInv => CacheOnlyWhileOn
  BY DEF IInv, GoodClient, CacheOnlyWhileOn
<1> QED
  BY <1>1, AlwaysIInv, PTL
------------------------------------------------------------------------------
(* Only a registration and the end of a connection change m_id_2_svr. *)
LEMMA OnlyRegistryMoves ==
  ASSUME [AccStep]_accVars
  PROVE  \/ regSvr' = regSvr
         \/ \E k \in Conns, r \in RequestType : r.cmd = "REQ_REG" /\ Parse_CMD_REQ_REG(k, r)
         \/ \E k \in Conns : DestroySvr(k)
<1>1. CASE \E c \in Cids : RecvPacket(c)
  BY <1>1 DEF RecvPacket, OnRawRecv
<1>2. CASE ReadDone
  BY <1>2 DEF ReadDone
<1>3. CASE \E c \in Cids : ClientEvent(c)
  BY <1>3 DEF ClientEvent, OnConnected, ClientBreak, ClientDrain, OnWaitFirstMsgTimeOut,
     OnVerfiyTimeOut, OnHeartbeatTimeOut, OnClsTimeOut, TimeOut, DestroyClient
<1>4. CASE \E k \in Conns : SvrConnect(k) \/ SvrBreak(k) \/ SvrRead(k)
  BY <1>4 DEF SvrConnect, SvrBreak, SvrRead, Registries
<1>5. ASSUME NEW k \in Conns, NEW r \in RequestType, OnRecv(k, r)
      PROVE  regSvr' = regSvr \/ (r.cmd = "REQ_REG" /\ Parse_CMD_REQ_REG(k, r))
  <2>1. CASE r.cmd = "REQ_REG"
    BY <1>5, <2>1 DEF OnRecv
  <2>2. CASE r.cmd # "REQ_REG"
    BY <1>5, <2>2 DEF OnRecv, Parse_CMD_REQ_VERIFY_RET, Parse_CMD_REQ_BROADCAST_UIN,
       Parse_CMD_REQ_SET_CMD_2_GRP, Parse_CMD_REQ_SET_ACTIVE_SVR, Parse_CMD_REQ_CACHE_MSG,
       OnRecvForward, Parse_CMD_REQ_BROADCAST, Parse_CMD_REQ_DISCON,
       Parse_CMD_REQ_DISCON_ALL, Parse_CMD_REQ_ACC_SETING, Ignored, ClientOnly, Registries
  <2> QED
    BY <2>1, <2>2
<1>6. CASE UNCHANGED accVars
  BY <1>6 DEF accVars
<1> QED
  BY <1>1, <1>2, <1>3, <1>4, <1>5, <1>6 DEF AccStep

(* A registered id, and the connection it is registered with. *)
Kept(id) ==
  regSvr[id] # NoCon /\ regSvr'[id] # regSvr[id]
    => regSvr'[id] = NoCon /\ inner'[regSvr[id]].con = "none"

LEMMA IdIsKept ==
  ASSUME IInv, [AccStep]_accVars, NEW id \in Ids
  PROVE  Kept(id)
<1> SUFFICES ASSUME regSvr[id] # NoCon, regSvr'[id] # regSvr[id]
             PROVE  regSvr'[id] = NoCon /\ inner'[regSvr[id]].con = "none"
  BY DEF Kept
<1>1. CASE regSvr' = regSvr
  BY <1>1
<1>2. CASE \E k \in Conns, r \in RequestType : r.cmd = "REQ_REG" /\ Parse_CMD_REQ_REG(k, r)
  BY <1>2 DEF Parse_CMD_REQ_REG, RegSvrIdOk, IInv, InnerTypeOK
<1>3. CASE \E k \in Conns : DestroySvr(k)
  <2>1. PICK k \in Conns : DestroySvr(k)
    BY <1>3
  <2>2. regSvr[id] = k
    <3>1. inner[k].svrId # 0 /\ inner[k].svrId = id
      BY <2>1 DEF DestroySvr, IInv, InnerTypeOK
    <3> QED
      BY <2>1, <3>1 DEF DestroySvr, IInv, Exact, Alive
  <2>3. inner' = [inner EXCEPT ![k] = NewInner] /\ NewInner.con = "none"
    BY <2>1 DEF DestroySvr, NewInner
  <2>4. inner'[k].con = "none"
    BY <2>3 DEF IInv, InnerTypeOK
  <2>5. regSvr'[id] = NoCon
    BY <2>1 DEF DestroySvr, IInv, InnerTypeOK
  <2> QED
    BY <2>2, <2>4, <2>5
<1> QED
  BY <1>1, <1>2, <1>3, OnlyRegistryMoves

(* An id stays with the connection that registered it until the connection  *)
(* is destroyed, however many servers ask for the same id.                  *)
THEOREM NoTakeoverCorrect == Spec => NoTakeover
<1>1. IInv /\ [Next]_accVars => [\A id \in Ids : Kept(id)]_accVars
  BY NextIsStep, IdIsKept
<1>2. Spec => [][\A id \in Ids : Kept(id)]_accVars
  BY <1>1, AlwaysIInv, PTL DEF Spec
<1> QED
  BY <1>2 DEF NoTakeover, Kept
==============================================================================
