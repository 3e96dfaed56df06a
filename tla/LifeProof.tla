----------------------------- MODULE LifeProof -----------------------------
(***************************************************************************)
(* Proof that acc (AccSvr) implements the abstract life of its clients     *)
(* (ClientLife), for every set of clients, servers, packets and requests.  *)
(*                                                                         *)
(* Every handler but three changes a client only in ways that leave its    *)
(* stage alone (Same) or move it one stage on while it is connected        *)
(* (Advances); the exceptions are accept and the destructor.  That the     *)
(* handlers operate on clients of the right type comes from the invariant  *)
(* of AccSvrProof.                                                         *)
(***************************************************************************)
EXTENDS AccSvrProof

(* The connection is as it was, or was open and is being closed. *)
ConKept(a, b) == b.con = a.con \/ (a.con = "open" /\ b.con = "closing")

Same(a, b) == ConKept(a, b) /\ b.state = a.state

Advances(a, b) ==
  /\ ConKept(a, b)
  /\ \/ a.state = "INIT" /\ b.state = "WAIT_VERIFY"
     \/ a.state = "WAIT_VERIFY" /\ b.state = "VERIFYED"

(* What the abstract life sees of the clients f. *)
LifeOf(f)   == [c \in Cids |-> StageOf(f[c])]
ClosedOf(f) == {c \in Cids : f[c].con \in {"closing", "gone"}}

Clients == [Cids -> GoodClient]
------------------------------------------------------------------------------
(* The operators on a client and its stage. *)

LEMMA Stages ==
  ASSUME NEW a \in GoodClient, NEW b \in GoodClient
  PROVE  /\ Same(a, b) => StageOf(b) = StageOf(a)
         /\ Advances(a, b) =>
              \/ StageOf(b) = StageOf(a)
              \/ StageOf(a) = "connected" /\ StageOf(b) = "asked"
              \/ StageOf(a) = "asked" /\ StageOf(b) = "in"
         /\ ConKept(a, b) /\ a.con \in {"closing", "gone"} => b.con \in {"closing", "gone"}
<1>1. /\ a.con \in {"none", "open", "closing", "gone"} /\ a.state \in ClientStates
      /\ b.con \in {"none", "open", "closing", "gone"} /\ b.state \in ClientStates
  BY DEF GoodClient, ClientType
<1>2. Same(a, b) => StageOf(b) = StageOf(a)
  BY <1>1 DEF Same, ConKept, StageOf, Alive
<1>3. Advances(a, b) => \/ StageOf(b) = StageOf(a)
                        \/ StageOf(a) = "connected" /\ StageOf(b) = "asked"
                        \/ StageOf(a) = "asked" /\ StageOf(b) = "in"
  BY <1>1 DEF Advances, ConKept, StageOf, Alive
<1> QED
  BY <1>2, <1>3 DEF ConKept

LEMMA DisConnectSame ==
  ASSUME NEW a \in GoodClient
  PROVE  Same(a, DisConnect(a))
BY DEF DisConnect, Same, ConKept, GoodClient, ClientType

LEMMA SendToClientSame ==
  ASSUME NEW a \in GoodClient, NEW n \in Nat
  PROVE  Same(a, SendToClient(a, n))
BY DEF SendToClient, DisConnect, Same, ConKept, GoodClient, ClientType

LEMMA SameTwice ==
  ASSUME NEW a, NEW b, NEW c, Same(a, b), Same(b, c)
  PROVE  Same(a, c)
BY DEF Same, ConKept
------------------------------------------------------------------------------
(* What a step does to clients, as the abstract life sees it. *)

(* A step after which no client stands elsewhere than before. *)
LEMMA NoneMoves ==
  ASSUME cli \in Clients, cli' \in Clients, \A c \in Cids : Same(cli[c], cli'[c])
  PROVE  Life!LifeNext
<1>1. \A c \in Cids : cli[c] \in GoodClient /\ cli'[c] \in GoodClient
  BY DEF Clients
<1>2. \A c \in Cids : StageOf(cli'[c]) = StageOf(cli[c])
  BY <1>1, Stages
<1>3. ClosedOf(cli) \subseteq ClosedOf(cli')
  BY <1>1, Stages DEF ClosedOf, Same
<1>4. LifeOf(cli') = LifeOf(cli)
  BY <1>2 DEF LifeOf
<1> QED
  BY <1>3, <1>4 DEF Life!LifeNext, LifeOf, ClosedOf

(* A step that moves client c to the stage that follows. *)
LEMMA OneMoves ==
  ASSUME cli \in Clients, NEW c \in Cids, NEW e \in GoodClient,
         cli' = [cli EXCEPT ![c] = e],
         \/ Same(cli[c], e) \/ Advances(cli[c], e)
         \/ cli[c].con = "none" /\ StageOf(e) = "connected"
         \/ cli[c].con = "closing" /\ e.con = "gone"
  PROVE  Life!LifeNext
<1>1. /\ cli' \in Clients /\ cli'[c] = e /\ cli[c] \in GoodClient
      /\ \A d \in Cids : d # c => cli'[d] = cli[d]
  BY DEF Clients
<1>2. ClosedOf(cli) \subseteq ClosedOf(cli')
  <2>1. cli[c].con \in {"closing", "gone"} => e.con \in {"closing", "gone"}
    BY <1>1, Stages DEF Same, Advances
  <2> QED
    BY <1>1, <2>1 DEF ClosedOf
<1>3. LifeOf(cli') = [LifeOf(cli) EXCEPT ![c] = StageOf(e)]
  <2>1. \A d \in Cids : StageOf(cli'[d]) = IF d = c THEN StageOf(e) ELSE StageOf(cli[d])
    BY <1>1
  <2> QED
    BY <2>1 DEF LifeOf
<1>4. \/ StageOf(e) = StageOf(cli[c])
      \/ StageOf(cli[c]) = "none" /\ StageOf(e) = "connected"
      \/ StageOf(cli[c]) = "connected" /\ StageOf(e) = "asked"
      \/ StageOf(cli[c]) = "asked" /\ StageOf(e) = "in"
      \/ /\ c \in ClosedOf(cli) /\ StageOf(e) = "gone"
         /\ StageOf(cli[c]) \in {"connected", "asked", "in"}
  <2>1. CASE cli[c].con = "none" /\ StageOf(e) = "connected"
    BY <2>1 DEF StageOf, Alive
  <2>2. CASE cli[c].con = "closing" /\ e.con = "gone"
    BY <2>2 DEF StageOf, Alive, ClosedOf
  <2> QED
    BY <1>1, <2>1, <2>2, Stages
<1>5. CASE StageOf(e) = StageOf(cli[c])
  <2>1. LifeOf(cli') = LifeOf(cli)
    BY <1>3, <1>5 DEF LifeOf
  <2> QED
    BY <1>2, <2>1 DEF Life!LifeNext, LifeOf, ClosedOf
<1>6. CASE StageOf(cli[c]) = "none" /\ StageOf(e) = "connected"
  BY <1>2, <1>3, <1>6 DEF Life!LifeNext, Life!Connect, Life!Moves, LifeOf, ClosedOf
<1>7. CASE StageOf(cli[c]) = "connected" /\ StageOf(e) = "asked"
  BY <1>2, <1>3, <1>7 DEF Life!LifeNext, Life!Ask, Life!Moves, LifeOf, ClosedOf
<1>8. CASE StageOf(cli[c]) = "asked" /\ StageOf(e) = "in"
  BY <1>2, <1>3, <1>8 DEF Life!LifeNext, Life!Admit, Life!Moves, LifeOf, ClosedOf
<1>9. CASE /\ c \in ClosedOf(cli) /\ StageOf(e) = "gone"
           /\ StageOf(cli[c]) \in {"connected", "asked", "in"}
  BY <1>2, <1>3, <1>9
     DEF Life!LifeNext, Life!Leave, Life!Stages, Life!Moves, LifeOf, ClosedOf
<1> QED
  BY <1>4, <1>5, <1>6, <1>7, <1>8, <1>9
------------------------------------------------------------------------------
(* The handlers. *)

LEMMA AfterForward2SvrSame ==
  ASSUME NEW rec \in GoodClient, rec.state = "VERIFYED", NEW s \in Seq(Packets)
  PROVE  Same(rec, AfterForward2Svr(rec, s))
<1> DEFINE beats == {i \in DOMAIN s : Beats(s[i])}
           armed == IF beats = {} THEN rec ELSE [rec EXCEPT !.tm = rec.tm \cup {"heartbeat"}]
           told  == SendToClient(armed, Cardinality(beats))
<1>1. Cardinality(beats) \in Nat
  <2>1. Len(s) \in Nat /\ beats \in SUBSET (1..Len(s))
    OBVIOUS
  <2> QED
    BY <2>1, IndexCount
<1>2. armed \in GoodClient /\ Same(rec, armed)
  BY DEF GoodClient, ClientType, Timers, Same, ConKept
<1>3. told \in GoodClient /\ Same(rec, told)
  <2> HIDE DEF armed, beats
  <2> QED
    BY <1>1, <1>2, SendToClientGood, SendToClientSame, SameTwice
<1>4. Same(rec, DisConnect(told))
  <2> HIDE DEF told
  <2> QED
    BY <1>3, DisConnectSame, SameTwice
<1>5. AfterForward2Svr(rec, s) = told \/ AfterForward2Svr(rec, s) = DisConnect(told)
  BY DEF AfterForward2Svr
<1> HIDE DEF told
<1> QED
  BY <1>3, <1>4, <1>5

LEMMA Forward2SvrMoves ==
  ASSUME IInv, NEW c \in Cids, NEW p \in Packets, NEW rec \in GoodClient,
         rec.state = "VERIFYED", Same(cli[c], rec), Forward2Svr(c, rec, p)
  PROVE  Life!LifeNext
<1> DEFINE e == AfterForward2Svr(rec, <<p>>)
<1>1. e \in GoodClient /\ Same(rec, e)
  <2>1. <<p>> \in Seq(Packets)
    OBVIOUS
  <2> QED
    BY <2>1, AfterForward2SvrGood, AfterForward2SvrSame
<1>2. cli' = [cli EXCEPT ![c] = e]
  BY DEF Forward2Svr
<1> HIDE DEF e
<1> QED
  BY <1>1, <1>2, SameTwice, OneMoves DEF IInv, Clients

LEMMA Forward2VerifySvrMoves ==
  ASSUME IInv, NEW c \in Cids, NEW p \in Packets, cli[c].state = "INIT",
         Forward2VerifySvr(c, p)
  PROVE  Life!LifeNext
<1> DEFINE stopped == [cli[c] EXCEPT !.tm = cli[c].tm \ {"wfm"}]
           asking  == [stopped EXCEPT !.tm = stopped.tm \cup {"verify"},
                                      !.state = "WAIT_VERIFY"]
<1>1. cli[c] \in GoodClient /\ cli \in Clients /\ cli' \in Clients
  BY Forward2VerifySvrStep DEF IInv, Clients
<1>2. stopped \in GoodClient /\ Same(cli[c], stopped)
  BY <1>1 DEF GoodClient, ClientType, Same, ConKept
<1>3. Same(cli[c], DisConnect(stopped)) /\ DisConnect(stopped) \in GoodClient
  <2> HIDE DEF stopped
  <2> QED
    BY <1>2, DisConnectSame, DisConnectGood, SameTwice
<1>4. Advances(cli[c], asking)
  BY <1>1 DEF GoodClient, ClientType, Advances, ConKept
<1>5. PICK e : /\ cli' = [cli EXCEPT ![c] = e]
               /\ Same(cli[c], e) \/ Advances(cli[c], e)
  BY <1>2, <1>3, <1>4 DEF Forward2VerifySvr
<1>6. e \in GoodClient
  BY <1>1, <1>5 DEF Clients
<1> QED
  BY <1>1, <1>5, <1>6, OneMoves

LEMMA OnRawRecvMoves ==
  ASSUME IInv, NEW c \in Cids, NEW p \in Packets, OnRawRecv(c, p)
  PROVE  Life!LifeNext
<1>1. cli[c] \in GoodClient /\ cli \in Clients
  BY DEF IInv, Clients
<1>2. Same(cli[c], cli[c])
  BY DEF Same, ConKept
<1>3. CASE cli[c].state = "INIT" /\ Forward2VerifySvr(c, p)
  BY <1>3, Forward2VerifySvrMoves
<1>4. CASE UNCHANGED cli
  BY <1>1, <1>4, NoneMoves DEF Same, ConKept
<1>5. CASE cli[c].state = "VERIFYED" /\ Forward2Svr(c, cli[c], p)
  BY <1>1, <1>2, <1>5, Forward2SvrMoves
<1>6. CASE /\ cli[c].state = "VERIFYED" /\ cli[c].isCache
           /\ Forward2Svr(c, [cli[c] EXCEPT !.cacheMsg = Append(cli[c].cacheMsg, p)], p)
  <2> DEFINE m   == Append(cli[c].cacheMsg, p)
             rec == [cli[c] EXCEPT !.cacheMsg = m]
  <2>1. m \in Seq(Packets)
    BY <1>1 DEF GoodClient, ClientType
  <2>2. rec \in GoodClient /\ Same(cli[c], rec) /\ rec.state = "VERIFYED"
    <3> HIDE DEF m
    <3> QED
      BY <1>1, <1>6, <2>1 DEF GoodClient, ClientType, Same, ConKept
  <2> HIDE DEF rec
  <2> QED
    BY <1>6, <2>2, Forward2SvrMoves DEF rec
<1>7. CASE cli' = [cli EXCEPT ![c] = DisConnect(cli[c])]
  BY <1>1, <1>7, DisConnectGood, DisConnectSame, OneMoves
<1> QED
  BY <1>3, <1>4, <1>5, <1>6, <1>7 DEF OnRawRecv, RevPacket

LEMMA OnConnectedMoves ==
  ASSUME IInv, NEW c \in Cids, OnConnected(c)
  PROVE  Life!LifeNext
<1> DEFINE fresh == [NewClient EXCEPT !.con = "open"]
           over  == [fresh EXCEPT !.tm = {"cls"}]
           timed == [fresh EXCEPT !.tm = {"wfm"}]
<1>1. cli \in Clients /\ cli' \in Clients
  BY OnConnectedStep DEF IInv, Clients
<1>2. fresh \in GoodClient /\ fresh.state = "INIT" /\ fresh.con = "open"
  <2>1. fresh \in GoodClient
    BY FreshClient
  <2> QED
    BY <2>1 DEF NewClient
<1>3. StageOf(fresh) = "connected"
  BY <1>2 DEF StageOf, Alive
<1>4. over \in GoodClient /\ Same(fresh, over) /\ timed \in GoodClient /\ Same(fresh, timed)
  <2> HIDE DEF fresh
  <2> QED
    BY <1>2 DEF GoodClient, ClientType, Timers, Same, ConKept
<1>5. SendToClient(over, 1) \in GoodClient /\ Same(fresh, SendToClient(over, 1))
  <2> HIDE DEF over
  <2> QED
    BY <1>4, SendToClientGood, SendToClientSame, SameTwice
<1>6. \A e \in {fresh, timed, SendToClient(over, 1)} : e \in GoodClient /\ StageOf(e) = "connected"
  <2> HIDE DEF fresh, timed, over
  <2> QED
    BY <1>2, <1>3, <1>4, <1>5, Stages
<1>7. PICK e \in {fresh, timed, SendToClient(over, 1)} : cli' = [cli EXCEPT ![c] = e]
  BY DEF OnConnected
<1> HIDE DEF fresh, timed, over
<1> QED
  BY <1>1, <1>6, <1>7, OneMoves DEF OnConnected

(* Steps of a client that only drain, disarm or close it, and its end. *)
LEMMA ClientEventMoves ==
  ASSUME IInv, NEW c \in Cids, ClientEvent(c)
  PROVE  Life!LifeNext
<1>1. cli \in Clients /\ cli[c] \in GoodClient
  BY DEF IInv, Clients
<1>2. cli' \in Clients
  BY ClientEventStep DEF IInv, Clients
<1>3. CASE OnConnected(c)
  BY <1>3, OnConnectedMoves
<1>4. CASE ClientBreak(c)
  BY <1>1, <1>4, DisConnectGood, DisConnectSame, OneMoves DEF ClientBreak
<1>5. CASE ClientDrain(c)
  <2> DEFINE e == [cli[c] EXCEPT !.pend = 0]
  <2>1. e \in GoodClient /\ Same(cli[c], e) /\ cli' = [cli EXCEPT ![c] = e]
    BY <1>1, <1>5 DEF ClientDrain, GoodClient, ClientType, Same, ConKept
  <2> HIDE DEF e
  <2> QED
    BY <1>1, <2>1, OneMoves
<1>6. ASSUME NEW t \in Timers, TimeOut(c, t)
      PROVE  Life!LifeNext
  <2> DEFINE e == DisConnect([cli[c] EXCEPT !.tm = cli[c].tm \ {t}])
  <2>1. Same(cli[c], e)
    BY <1>1 DEF DisConnect, GoodClient, ClientType, Same, ConKept
  <2>2. e \in GoodClient
    BY <1>1, <1>6 DEF TimeOut, DisConnect, GoodClient, ClientType, Alive
  <2> HIDE DEF e
  <2> QED
    BY <1>1, <1>6, <2>1, <2>2, OneMoves DEF TimeOut, e
<1>7. CASE DestroyClient(c)
  <2> DEFINE e == [NewClient EXCEPT !.con = "gone"]
  <2>1. e \in GoodClient /\ e.con = "gone"
    <3>1. e \in GoodClient
      BY FreshClient
    <3> QED
      BY <3>1 DEF NewClient
  <2>2. cli[c].con = "closing" /\ cli' = [cli EXCEPT ![c] = e]
    BY <1>7 DEF DestroyClient
  <2> HIDE DEF e
  <2> QED
    BY <1>1, <2>1, <2>2, OneMoves
<1> QED
  BY <1>3, <1>4, <1>5, <1>6, <1>7 DEF ClientEvent, OnWaitFirstMsgTimeOut, OnVerfiyTimeOut,
     OnHeartbeatTimeOut, OnClsTimeOut, Timers

LEMMA VerifyRetMoves ==
  ASSUME IInv, NEW k \in Conns, NEW r \in RequestType, r.cmd = "REQ_VERIFY_RET",
         Parse_CMD_REQ_VERIFY_RET(k, r)
  PROVE  Life!LifeNext
<1>1. CASE Ignored
  BY <1>1, NoneMoves DEF Ignored, IInv, Clients, Same, ConKept
<1>2. CASE r.cid \in FoundClients
  <2> DEFINE c    == r.cid
             told == SendToClient(cli[c], 1)
             e    == SetVerify(told)
  <2>1. c \in Cids /\ cli[c] \in GoodClient /\ cli \in Clients
    BY <1>2, FoundAreCids DEF IInv, Clients
  <2>2. told \in GoodClient /\ Same(cli[c], told)
    BY <2>1, SendToClientGood, SendToClientSame
  <2> HIDE DEF told
  <2>3. e \in GoodClient
    BY <2>2, SetVerifyGood
  <2>4. Same(cli[c], e) \/ Advances(cli[c], e)
    BY <2>2 DEF SetVerify, Same, Advances, ConKept, GoodClient, ClientType
  <2> HIDE DEF e
  <2>5. cli' = [cli EXCEPT ![c] = told] \/ cli' = [cli EXCEPT ![c] = e]
    BY <1>2 DEF Parse_CMD_REQ_VERIFY_RET, told, e
  <2> HIDE DEF c
  <2> QED
    BY <2>1, <2>2, <2>3, <2>4, <2>5, OneMoves
<1> QED
  BY <1>1, <1>2 DEF Parse_CMD_REQ_VERIFY_RET

(* The other requests leave every client where it is. *)
LEMMA RequestSame ==
  ASSUME IInv, NEW k \in Conns, NEW r \in RequestType, OnRecv(k, r), r.cmd # "REQ_VERIFY_RET"
  PROVE  \A c \in Cids : Same(cli[c], cli'[c])
<1> SUFFICES ASSUME NEW c \in Cids PROVE Same(cli[c], cli'[c])
  OBVIOUS
<1>1. cli[c] \in GoodClient /\ Same(cli[c], cli[c])
  BY DEF IInv, Same, ConKept
<1>2. ASSUME NEW d \in Cids, NEW e, Same(cli[d], e), cli' = [cli EXCEPT ![d] = e]
      PROVE  Same(cli[c], cli'[c])
  BY <1>1, <1>2 DEF IInv
<1>3. CASE UNCHANGED cli
  BY <1>1, <1>3
<1>4. CASE r.cmd \in {"REQ_REG", "REQ_SET_CMD_2_GRP", "REQ_ACC_SETING"}
  BY <1>3, <1>4 DEF OnRecv, Parse_CMD_REQ_REG, Parse_CMD_REQ_SET_CMD_2_GRP,
     Parse_CMD_REQ_ACC_SETING
<1>5. CASE r.cmd = "REQ_BROADCAST_UIN"
  <2>1. CASE r.cid \in FoundClients
    <3>1. r.cid \in Cids /\ r.uin \in Uins
      BY <1>5, <2>1, FoundAreCids, RequestFields
    <3>2. Same(cli[r.cid], [cli[r.cid] EXCEPT !.uin = r.uin])
      BY <3>1 DEF IInv, GoodClient, ClientType, Same, ConKept
    <3> QED
      BY <1>2, <1>3, <1>5, <3>1, <3>2 DEF OnRecv, Parse_CMD_REQ_BROADCAST_UIN, Ignored
  <2> QED
    BY <1>3, <1>5, <2>1 DEF OnRecv, Parse_CMD_REQ_BROADCAST_UIN, Ignored
<1>6. CASE r.cmd = "REQ_SET_ACTIVE_SVR"
  <2>1. CASE r.cid \in VerifiedClients
    <3>1. r.cid \in Cids
      BY <2>1, FoundAreCids
    <3>2. Same(cli[r.cid], SetActiveSvrId(cli[r.cid], r.grpId, r.svrId))
      BY <3>1 DEF SetActiveSvrId, IInv, GoodClient, ClientType, Same, ConKept
    <3> QED
      BY <1>2, <1>3, <1>6, <3>1, <3>2 DEF OnRecv, Parse_CMD_REQ_SET_ACTIVE_SVR, Ignored
  <2> QED
    BY <1>3, <1>6, <2>1 DEF OnRecv, Parse_CMD_REQ_SET_ACTIVE_SVR, Ignored
<1>7. CASE r.cmd = "REQ_CACHE_MSG"
  <2>1. CASE r.cid \in VerifiedClients
    <3>1. r.cid \in Cids /\ cli[r.cid] \in GoodClient /\ cli[r.cid].state = "VERIFYED"
      BY <2>1, FoundAreCids DEF VerifiedClients, IInv
    <3>2. Same(cli[r.cid], SetCache(cli[r.cid], r.isCache))
      <4> DEFINE a == cli[r.cid]
                 b == AfterForward2Svr(a, a.cacheMsg)
                 e == <<>>
      <4>1. a.cacheMsg \in Seq(Packets)
        BY <3>1 DEF GoodClient, ClientType
      <4>2. b \in GoodClient /\ Same(a, b)
        BY <3>1, <4>1, AfterForward2SvrGood, AfterForward2SvrSame
      <4>3. Same(a, [a EXCEPT !.isCache = TRUE])
        BY <3>1 DEF GoodClient, ClientType, Same, ConKept
      <4>4. Same(a, [b EXCEPT !.cacheMsg = e, !.isCache = FALSE])
        <5> HIDE DEF b, e
        <5> QED
          BY <4>2 DEF GoodClient, ClientType, Same, ConKept
      <4> QED
        BY <4>3, <4>4 DEF SetCache
    <3>3. UNCHANGED cli \/ cli' = [cli EXCEPT ![r.cid] = SetCache(cli[r.cid], r.isCache)]
      BY <1>7, <2>1 DEF OnRecv, Parse_CMD_REQ_CACHE_MSG, Ignored
    <3> QED
      BY <1>2, <1>3, <3>1, <3>2, <3>3
  <2> QED
    BY <1>3, <1>7, <2>1 DEF OnRecv, Parse_CMD_REQ_CACHE_MSG, Ignored
<1>8. CASE r.cmd = "REQ_FORWARD"
  <2>1. CASE r.cid \in VerifiedClients
    <3>1. r.cid \in Cids /\ Same(cli[r.cid], SendToClient(cli[r.cid], 1))
      BY <2>1, FoundAreCids, SendToClientSame DEF IInv
    <3> QED
      BY <1>2, <1>8, <2>1, <3>1 DEF OnRecv, OnRecvForward
  <2> QED
    BY <1>3, <1>8, <2>1 DEF OnRecv, OnRecvForward
<1>9. CASE r.cmd = "REQ_BROADCAST"
  <2>1. \A n \in Nat : Same(cli[c], SendToClient(cli[c], n))
    BY <1>1, SendToClientSame
  <2>2. Times(c, r.cids) \in Nat
    <3>1. r.cids \in Seq(Cids \cup {NoCid})
      BY <1>9, RequestFields
    <3>2. Len(r.cids) \in Nat /\ {i \in DOMAIN r.cids : r.cids[i] = c} \in SUBSET (1..Len(r.cids))
      BY <3>1
    <3> QED
      BY <3>2, IndexCount DEF Times
  <2>3. \E n \in Nat : cli'[c] = SendToClient(cli[c], n)
    BY <1>9, <2>2 DEF OnRecv, Parse_CMD_REQ_BROADCAST
  <2> QED
    BY <2>1, <2>3
<1>10. CASE r.cmd = "REQ_DISCON"
  <2>1. CASE r.cid \in FoundClients
    <3>1. r.cid \in Cids /\ Same(cli[r.cid], DisConnect(cli[r.cid]))
      BY <2>1, FoundAreCids, DisConnectSame DEF IInv
    <3> QED
      BY <1>2, <1>10, <2>1, <3>1 DEF OnRecv, Parse_CMD_REQ_DISCON
  <2> QED
    BY <1>3, <1>10, <2>1 DEF OnRecv, Parse_CMD_REQ_DISCON
<1>11. CASE r.cmd = "REQ_DISCON_ALL"
  <2>1. cli'[c] = DisConnect(cli[c]) \/ cli'[c] = cli[c]
    BY <1>11 DEF OnRecv, Parse_CMD_REQ_DISCON_ALL
  <2> QED
    BY <1>1, <2>1, DisConnectSame
<1> QED
  BY <1>4, <1>5, <1>6, <1>7, <1>8, <1>9, <1>10, <1>11 DEF OnRecv

LEMMA OnRecvMoves ==
  ASSUME IInv, NEW k \in Conns, NEW r \in RequestType, OnRecv(k, r)
  PROVE  Life!LifeNext
<1>1. cli \in Clients /\ cli' \in Clients
  BY OnRecvStep DEF IInv, Clients
<1>2. CASE r.cmd = "REQ_VERIFY_RET"
  BY <1>2, VerifyRetMoves DEF OnRecv
<1>3. CASE r.cmd # "REQ_VERIFY_RET"
  BY <1>1, <1>3, RequestSame, NoneMoves
<1> QED
  BY <1>2, <1>3

(* Whatever acc does is a step of the abstract life. *)
LEMMA StepMoves ==
  ASSUME IInv, [AccStep]_accVars
  PROVE  Life!LifeNext
<1>1. CASE \E c \in Cids : RecvPacket(c)
  BY <1>1, OnRawRecvMoves DEF RecvPacket
<1>2. CASE UNCHANGED cli
  BY <1>2, NoneMoves DEF IInv, Clients, Same, ConKept
<1>3. CASE \E c \in Cids : ClientEvent(c)
  BY <1>3, ClientEventMoves
<1>4. CASE \E k \in Conns, r \in RequestType : OnRecv(k, r)
  BY <1>4, OnRecvMoves
<1>5. CASE ReadDone \/ \E k \in Conns : SvrRead(k) \/ SvrConnect(k) \/ SvrBreak(k) \/ DestroySvr(k)
  BY <1>2, <1>5 DEF ReadDone, SvrRead, SvrConnect, SvrBreak, DestroySvr
<1> QED
  BY <1>1, <1>2, <1>3, <1>4, <1>5 DEF AccStep, accVars
------------------------------------------------------------------------------
(* acc implements the abstract life: whatever clients send and servers ask, *)
(* in whatever order, a client is let in once, after it has asked, and is   *)
(* gone only after its connection was closed (inner_con.cpp:99).            *)
THEOREM LifeCorrect == Spec => ClientLivesOnce
<1>1. Init => Life!LifeInit
  <2> SUFFICES ASSUME Init PROVE Life!LifeInit
    OBVIOUS
  <2>1. \A c \in Cids : cli[c].con = "none"
    BY DEF Init, NewClient
  <2> QED
    BY <2>1 DEF Life!LifeInit, StageOf, Alive
<1>2. IInv /\ [Next]_accVars => [Life!LifeNext]_(Life!lifeVars)
  BY NextIsStep, StepMoves DEF Life!lifeVars
<1> QED
  BY <1>1, <1>2, AlwaysIInv, PTL DEF Spec, ClientLivesOnce, Life!LifeSpec
=============================================================================
