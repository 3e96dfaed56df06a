---------------------------- MODULE SystemProof ----------------------------
(***************************************************************************)
(* Proofs about acc with its servers (AccSystem), for any number of        *)
(* servers, clients and connections and any size of the buffers, in the    *)
(* first run of acc, and in all of its runs when servers are Timely: an    *)
(* answer to an earlier run of acc names a client of this one, so that     *)
(* what is proved here is false without that.                              *)
(*                                                                         *)
(* What a server asks is true of clients when it is asked, and stays true  *)
(* until acc reads it, since clients only move on.  The link of a server   *)
(* and the connection at its other end agree on what lies between them:    *)
(* nothing has been sent to a server whose registration is unread; a       *)
(* server that acc registered has the answer ahead of it, in front of all  *)
(* else, or behind it.  What it holds and what lies ahead then add up to   *)
(* the clients that are in.                                                *)
(***************************************************************************)
EXTENDS AccSystem, NoticeProof

(* What a server sends: a request, or a mapping of commands as bytes. *)
SentType ==
  RequestType \cup [cmd : {"REQ_SET_CMD_2_GRP"}, raw : {TRUE}, grpId : Grps, cmds : SUBSET MainCmds]

DriverType ==
  [vec : {<<>>} \cup [{1} -> AD!LinkType], svrId : Ids, isVerify : BOOLEAN, fatal : BOOLEAN,
   isReg : BOOLEAN, results : Seq(Ids \cup {0}),
   seting : {<<>>} \cup {<<x>> : x \in [cmd : {"REQ_ACC_SETING"}, seting : Setings]}]

AskedOn == {"asked", "in", "gone"}
InOn    == {"in", "gone"}
SessionCalls == {"REQ_FORWARD", "REQ_DISCON", "REQ_CACHE_MSG", "REQ_SET_ACTIVE_SVR",
                 "REQ_BROADCAST_UIN"}

(* Links and the connections at their other end: one for one, and alive.    *)
LinkInv ==
  /\ drv \in [Svrs -> DriverType]
  /\ sock \in [Svrs -> Conns \cup {NoCon}]
  /\ \A s \in Svrs : drv[s].svrId = SvrIdOf[s]
  /\ \A s \in Svrs : Linked(s) =>
       /\ Link(s).isReg => Link(s).con = "up"
       /\ ~Link(s).isReg => Link(s).sess = AD!NoSessions
  /\ \A s \in Svrs : sock[s] # NoCon =>
       Linked(s) /\ Link(s).con = "up" /\ Alive(inner[sock[s]])
  /\ \A s, t \in Svrs : sock[s] # NoCon /\ sock[s] = sock[t] => s = t

(* What request r says of clients. *)
Claims(r, clients, done) ==
  /\ r.cmd = "REQ_VERIFY_RET" /\ r.isSuccess =>
       /\ r.cid \in done /\ StageOf(clients[r.cid]) \in AskedOn
       /\ r.accName = "ann"
  /\ r.cmd \in SessionCalls => r.cid \in Cids /\ StageOf(clients[r.cid]) \in InOn

(* A registration that is unread is the first thing over its connection.    *)
FirstThing(k, i) ==
  /\ i = 1 /\ DOMAIN toSvr[k] = {} /\ Silent(k)
  /\ \A s \in Svrs : sock[s] = k => ~Link(s).isReg /\ toAcc[k][i].svrId = SvrIdOf[s]

SentInv ==
  /\ toAcc \in [Conns -> Seq(SentType)]
  /\ \A k \in Conns : \A i \in DOMAIN toAcc[k] : Claims(toAcc[k][i], cli, answered)
  /\ \A k \in Conns : \A i \in DOMAIN toAcc[k] :
       toAcc[k][i].cmd = "REQ_REG" => FirstThing(k, i)

(* The verify requests of servers, those of this run of acc about clients   *)
(* that it asked about, and the clients they let in.                        *)
AskInv ==
  /\ runs \in Nat /\ ask \in [Svrs -> SUBSET (Cids \X Nat)]
  /\ \A s \in Svrs : \A q \in ask[s] :
       q[2] <= runs /\ (q[2] = runs => StageOf(cli[q[1]]) \in AskedOn)
  /\ answered \subseteq Cids
  /\ AdmittedWasAnswered

(* The sessions servers that are connected hold, and those on their way. *)
HeldInv ==
  /\ \A k \in Conns : \A i \in DOMAIN toSvr[k] :
       toSvr[k][i].cmd = "NTF_CREATE_SESSION" => StageOf(cli[toSvr[k][i].cid]) \in InOn
  /\ \A s \in Svrs : Linked(s) /\ sock[s] # NoCon =>
       \A c \in Cids : Link(s).sess[c] # AD!NoSession => StageOf(cli[c]) \in InOn

Base == IInv /\ CInv /\ LinkInv /\ SentInv /\ AskInv /\ HeldInv
------------------------------------------------------------------------------
(* The driver of a server: its one link. *)

LEMMA OneLink ==
  ASSUME NEW S, NEW v \in [{1} -> S]
  PROVE  v # <<>> /\ v[1] \in S
<1> DEFINE e == <<>>
<1>1. DOMAIN e = {} /\ DOMAIN v = {1}
  OBVIOUS
<1> HIDE DEF e
<1>2. v # e
  BY <1>1
<1> QED
  BY <1>2 DEF e

LEMMA DriverLink ==
  ASSUME NEW d \in DriverType, d.vec # <<>>
  PROVE  d.vec \in [{1} -> AD!LinkType] /\ d.vec[1] \in AD!LinkType
<1>1. d.vec \in [{1} -> AD!LinkType]
  BY DEF DriverType
<1> QED
  BY <1>1, OneLink

LEMMA SetLinkIs ==
  ASSUME NEW d \in DriverType, d.vec # <<>>, NEW l \in AD!LinkType
  PROVE  /\ AD!SetLink(d, 1, l) \in DriverType
         /\ AD!SetLink(d, 1, l).vec # <<>> /\ AD!SetLink(d, 1, l).vec[1] = l
         /\ AD!SetLink(d, 1, l).svrId = d.svrId
<1> DEFINE v == [d.vec EXCEPT ![1] = l]
<1>1. d.vec \in [{1} -> AD!LinkType]
  BY DriverLink
<1>2. v \in [{1} -> AD!LinkType] /\ v[1] = l
  BY <1>1
<1>3. v # <<>>
  BY <1>2, OneLink
<1>4. AD!SetLink(d, 1, l) = [d EXCEPT !.vec = v]
  BY DEF AD!SetLink
<1> HIDE DEF v
<1> QED
  BY <1>2, <1>3, <1>4 DEF DriverType

LEMMA OnConnectedIs ==
  ASSUME NEW d \in DriverType, d.vec # <<>>
  PROVE  /\ AD!OnConnected(d, 1) \in DriverType
         /\ AD!OnConnected(d, 1).vec # <<>>
         /\ AD!OnConnected(d, 1).vec[1] = [d.vec[1] EXCEPT !.con = "up"]
         /\ AD!OnConnected(d, 1).svrId = d.svrId
<1>1. [d.vec[1] EXCEPT !.con = "up"] \in AD!LinkType
  BY DriverLink DEF AD!LinkType
<1> QED
  BY <1>1, SetLinkIs DEF AD!OnConnected

LEMMA OnDisconnectedIs ==
  ASSUME NEW d \in DriverType, d.vec # <<>>
  PROVE  /\ AD!OnDisconnected(d, 1) \in DriverType
         /\ AD!OnDisconnected(d, 1).vec # <<>>
         /\ ~AD!OnDisconnected(d, 1).vec[1].isReg
         /\ AD!OnDisconnected(d, 1).vec[1].sess = AD!NoSessions
         /\ AD!OnDisconnected(d, 1).svrId = d.svrId
<1> DEFINE l == [d.vec[1] EXCEPT !.con = "idle", !.isReg = FALSE, !.sess = AD!NoSessions]
<1>1. AD!NoSessions \in [Cids -> Uins \cup {0, AD!NoSession}]
  BY DEF AD!NoSessions
<1>2. l \in AD!LinkType /\ ~l.isReg /\ l.sess = AD!NoSessions
  <2>1. d.vec[1] \in AD!LinkType
    BY DriverLink
  <2> QED
    BY <1>1, <2>1 DEF AD!LinkType
<1> HIDE DEF l
<1> QED
  BY <1>2, SetLinkIs DEF AD!OnDisconnected, l

(* Settings are kept beside the link. *)
LEMMA SetAccSetingIs ==
  ASSUME NEW d \in DriverType, NEW x \in Setings
  PROVE  /\ AD!SetAccSeting(d, x) \in DriverType
         /\ AD!SetAccSeting(d, x).vec = d.vec
         /\ AD!SetAccSeting(d, x).svrId = d.svrId
         /\ AD!SetAccSeting(d, x).seting = <<[cmd |-> "REQ_ACC_SETING", seting |-> x]>>
<1> DEFINE r == [cmd |-> "REQ_ACC_SETING", seting |-> x]
           q == <<r>>
<1>1. q \in {<<y>> : y \in [cmd : {"REQ_ACC_SETING"}, seting : Setings]}
  <2>1. r \in [cmd : {"REQ_ACC_SETING"}, seting : Setings]
    OBVIOUS
  <2> HIDE DEF r
  <2> QED
    BY <2>1
<1>2. AD!SetAccSeting(d, x) = [d EXCEPT !.seting = q]
  BY DEF AD!SetAccSeting
<1> HIDE DEF q
<1>3. /\ AD!SetAccSeting(d, x) \in DriverType
      /\ AD!SetAccSeting(d, x).vec = d.vec
      /\ AD!SetAccSeting(d, x).svrId = d.svrId
      /\ AD!SetAccSeting(d, x).seting = q
  BY <1>1, <1>2 DEF DriverType
<1> QED
  BY <1>3 DEF q

(* A session that is set, or erased. *)
LEMMA SetSessionIs ==
  ASSUME NEW d \in DriverType, d.vec # <<>>, NEW c \in Cids,
         NEW u \in Uins \cup {0, AD!NoSession}
  PROVE  /\ AD!SetSession(d, 1, c, u) \in DriverType
         /\ AD!SetSession(d, 1, c, u).vec # <<>>
         /\ AD!SetSession(d, 1, c, u).vec[1].con = d.vec[1].con
         /\ AD!SetSession(d, 1, c, u).vec[1].isReg = d.vec[1].isReg
         /\ AD!SetSession(d, 1, c, u).vec[1].sess = [d.vec[1].sess EXCEPT ![c] = u]
         /\ AD!SetSession(d, 1, c, u).svrId = d.svrId
<1> DEFINE f == [d.vec[1].sess EXCEPT ![c] = u]
           l == [d.vec[1] EXCEPT !.sess = f]
<1>1. d.vec[1] \in AD!LinkType
  BY DriverLink
<1>2. f \in [Cids -> Uins \cup {0, AD!NoSession}]
  BY <1>1 DEF AD!LinkType
<1> HIDE DEF f
<1>3. /\ l \in AD!LinkType /\ l.con = d.vec[1].con /\ l.isReg = d.vec[1].isReg
      /\ l.sess = f
  BY <1>1, <1>2 DEF AD!LinkType
<1> HIDE DEF l
<1>4. AD!SetSession(d, 1, c, u) = AD!SetLink(d, 1, l)
  BY DEF AD!SetSession, l, f
<1> QED
  BY <1>3, <1>4, SetLinkIs DEF f

LEMMA MsgFields ==
  ASSUME NEW m \in ToSvrMsg
  PROVE  /\ m.cmd = "RSP_REG" => m.svrId \in Nat
         /\ m.cmd = "NTF_CREATE_SESSION" => m.cid \in Cids /\ m.uin \in Uins \cup {0}
         /\ m.cmd \in {"NTF_DISCON", "NTF_VERIFY_REQ"} => m.cid \in Cids
         /\ m.cmd = "RSP_BROADCAST_UIN" => m.cid \in Cids /\ m.uin \in Uins
BY DEF ToSvrMsg

(* What the driver makes of a message: the answer to its registration frees *)
(* the link or registers it; on a registered link sessions begin and end.   *)
LEMMA OnRecvIs ==
  ASSUME NEW d \in DriverType, d.vec # <<>>, NEW m \in ToSvrMsg
  PROVE  LET e == AD!OnRecv(d, 1, m)
         IN  /\ e \in DriverType /\ e.svrId = d.svrId
             /\ ~e.fatal => e.vec # <<>>
             /\ e.vec # <<>> => e.vec[1].con = d.vec[1].con
             /\ e.vec # <<>> /\ ~d.vec[1].isReg =>
                  /\ e.vec[1].sess = d.vec[1].sess
                  /\ e.vec[1].isReg <=> m.cmd = "RSP_REG" /\ m.svrId = d.svrId
             /\ d.vec[1].isReg =>
                  /\ e.vec # <<>> /\ e.vec[1].isReg
                  /\ \A c \in Cids : e.vec[1].sess[c] # AD!NoSession <=>
                       IF m.cmd = "NTF_CREATE_SESSION" /\ m.cid = c THEN TRUE
                       ELSE IF m.cmd = "NTF_DISCON" /\ m.cid = c THEN FALSE
                       ELSE d.vec[1].sess[c] # AD!NoSession
<1> DEFINE l    == d.vec[1]
           Is(e) ==
             /\ e \in DriverType /\ e.svrId = d.svrId
             /\ ~e.fatal => e.vec # <<>>
             /\ e.vec # <<>> => e.vec[1].con = d.vec[1].con
             /\ e.vec # <<>> /\ ~d.vec[1].isReg =>
                  /\ e.vec[1].sess = d.vec[1].sess
                  /\ e.vec[1].isReg <=> m.cmd = "RSP_REG" /\ m.svrId = d.svrId
             /\ d.vec[1].isReg =>
                  /\ e.vec # <<>> /\ e.vec[1].isReg
                  /\ \A c \in Cids : e.vec[1].sess[c] # AD!NoSession <=>
                       IF m.cmd = "NTF_CREATE_SESSION" /\ m.cid = c THEN TRUE
                       ELSE IF m.cmd = "NTF_DISCON" /\ m.cid = c THEN FALSE
                       ELSE d.vec[1].sess[c] # AD!NoSession
<1> SUFFICES Is(AD!OnRecv(d, 1, m))
  OBVIOUS
<1>1. l \in AD!LinkType
  BY DriverLink
<1>2. d.svrId \in Ids /\ d.svrId # 0
  BY IdFacts DEF DriverType
<1>3. \A u \in Uins \cup {0} : u # AD!NoSession
  BY DataAssumption DEF AD!NoSession
<1>4. ASSUME \/ ~l.isReg /\ ~(m.cmd = "RSP_REG" /\ m.svrId = d.svrId)
             \/ l.isReg /\ m.cmd \notin {"NTF_CREATE_SESSION", "NTF_DISCON"}
      PROVE  Is(d)
  BY <1>1, <1>4 DEF AD!LinkType, DriverType
<1>5. ASSUME NEW u \in Uins \cup {0, AD!NoSession}, NEW c \in Cids, l.isReg, c = m.cid,
             \/ m.cmd = "NTF_CREATE_SESSION" /\ u # AD!NoSession
             \/ m.cmd = "NTF_DISCON" /\ u = AD!NoSession
             \/ /\ m.cmd = "RSP_BROADCAST_UIN"
                /\ u # AD!NoSession <=> d.vec[1].sess[c] # AD!NoSession
      PROVE  Is(AD!SetSession(d, 1, c, u))
  <2> DEFINE e == AD!SetSession(d, 1, c, u)
  <2>1. /\ e \in DriverType /\ e.vec # <<>> /\ e.vec[1].con = l.con /\ e.vec[1].isReg = l.isReg
        /\ e.vec[1].sess = [l.sess EXCEPT ![c] = u] /\ e.svrId = d.svrId
    BY SetSessionIs
  <2>2. l.sess \in [Cids -> Uins \cup {0, AD!NoSession}]
    BY <1>1 DEF AD!LinkType
  <2> HIDE DEF e
  <2>3. \A b \in Cids : e.vec[1].sess[b] = IF b = c THEN u ELSE l.sess[b]
    BY <2>1, <2>2
  <2>4. \A b \in Cids : e.vec[1].sess[b] # AD!NoSession <=>
                       IF m.cmd = "NTF_CREATE_SESSION" /\ m.cid = b THEN TRUE
                       ELSE IF m.cmd = "NTF_DISCON" /\ m.cid = b THEN FALSE
                       ELSE d.vec[1].sess[b] # AD!NoSession
    BY <1>5, <2>3
  <2>5. Is(e)
    BY <1>5, <2>1, <2>4
  <2> QED
    BY <2>5 DEF e
<1>6. CASE m.cmd = "RSP_REG"
  <2>1. CASE l.isReg
    BY <1>4, <1>6, <2>1 DEF AD!OnRecv, AD!HandleRspReg
  <2>2. CASE ~l.isReg /\ m.svrId = 0
    <3> DEFINE r == Append(d.results, 0)
               v == <<>>
               e == [d EXCEPT !.fatal = TRUE, !.vec = v, !.results = r]
    <3>1. r \in Seq(Ids \cup {0}) /\ v \in {<<>>}
      BY DEF DriverType
    <3>2. AD!OnRecv(d, 1, m) = e
      BY <1>6, <2>2 DEF AD!OnRecv, AD!HandleRspReg, AD!SetFatal
    <3>3. v = <<>>
      OBVIOUS
    <3> HIDE DEF r, v
    <3>4. e \in DriverType /\ e.fatal /\ e.vec = v /\ e.svrId = d.svrId
      BY <3>1 DEF DriverType
    <3> HIDE DEF e
    <3> QED
      BY <2>2, <3>2, <3>3, <3>4
  <2>3. CASE ~l.isReg /\ m.svrId # 0 /\ m.svrId # d.svrId
    <3>1. AD!OnRecv(d, 1, m) = d
      BY <1>6, <2>3 DEF AD!OnRecv, AD!HandleRspReg
    <3> QED
      BY <1>4, <2>3, <3>1
  <2>4. CASE ~l.isReg /\ m.svrId = d.svrId
    <3> DEFINE n == [l EXCEPT !.isReg = TRUE]
               f == AD!SetLink(d, 1, n)
    <3>1. n \in AD!LinkType /\ n.isReg /\ n.con = l.con /\ n.sess = l.sess
      BY <1>1 DEF AD!LinkType
    <3> HIDE DEF n
    <3>2. f \in DriverType /\ f.vec # <<>> /\ f.vec[1] = n /\ f.svrId = d.svrId
      BY <3>1, SetLinkIs
    <3>3. AD!OnRecv(d, 1, m) = AD!SetRegResult(f)
      BY <1>2, <1>6, <2>4 DEF AD!OnRecv, AD!HandleRspReg, n
    <3> HIDE DEF f
    <3> DEFINE r == Append(f.results, f.svrId)
               g == [f EXCEPT !.isReg = TRUE, !.results = r]
    <3>4. r \in Seq(Ids \cup {0})
      BY <3>2 DEF DriverType
    <3>5. AD!SetRegResult(f) \in {f, g}
      BY DEF AD!SetRegResult
    <3> HIDE DEF r
    <3>6. g \in DriverType /\ g.vec = f.vec /\ g.svrId = f.svrId
      BY <3>2, <3>4 DEF DriverType
    <3>7. ASSUME NEW h \in {f, g}
          PROVE  Is(h)
      <4>1. h \in DriverType /\ h.vec # <<>> /\ h.vec[1] = n /\ h.svrId = d.svrId
        <5> HIDE DEF g
        <5> QED
          BY <3>2, <3>6
      <4> QED
        BY <1>6, <2>4, <3>1, <4>1
    <3> QED
      BY <3>3, <3>5, <3>7
  <2> QED
    BY <2>1, <2>2, <2>3, <2>4
<1>7. CASE l.isReg /\ m.cmd = "NTF_CREATE_SESSION"
  <2>1. m.cid \in Cids /\ m.uin \in Uins \cup {0, AD!NoSession} /\ m.uin # AD!NoSession
    BY <1>3, <1>7, MsgFields
  <2>2. CASE AD!HasSession(d, 1, m.cid)
    <3>1. AD!OnRecv(d, 1, m) = d /\ d.vec[1].sess[m.cid] # AD!NoSession
      BY <1>7, <2>2 DEF AD!OnRecv, AD!HandleCreateSession, AD!HasSession
    <3>2. Is(d)
      BY <1>1, <1>7, <3>1 DEF AD!LinkType, DriverType
    <3> QED
      BY <3>1, <3>2
  <2>3. CASE ~AD!HasSession(d, 1, m.cid)
    <3>1. AD!OnRecv(d, 1, m) = AD!SetSession(d, 1, m.cid, m.uin)
      BY <1>7, <2>3 DEF AD!OnRecv, AD!HandleCreateSession
    <3>2. Is(AD!SetSession(d, 1, m.cid, m.uin))
      BY <1>5, <1>7, <2>1
    <3> QED
      BY <3>1, <3>2
  <2> QED
    BY <2>2, <2>3
<1>8. CASE l.isReg /\ m.cmd = "NTF_DISCON"
  <2>1. m.cid \in Cids
    BY <1>8, MsgFields
  <2>2. AD!OnRecv(d, 1, m) = AD!SetSession(d, 1, m.cid, AD!NoSession)
    BY <1>8 DEF AD!OnRecv, AD!HandleMsgNtfDiscon
  <2>3. Is(AD!SetSession(d, 1, m.cid, AD!NoSession))
    BY <1>5, <1>8, <2>1
  <2> QED
    BY <2>2, <2>3
<1>9. CASE l.isReg /\ m.cmd = "RSP_BROADCAST_UIN"
  <2>1. m.cid \in Cids /\ m.uin \in Uins \cup {0, AD!NoSession} /\ m.uin # AD!NoSession
    BY <1>3, <1>9, MsgFields
  <2>2. CASE AD!HasSession(d, 1, m.cid)
    <3>1. /\ AD!OnRecv(d, 1, m) = AD!SetSession(d, 1, m.cid, m.uin)
          /\ d.vec[1].sess[m.cid] # AD!NoSession
      BY <1>9, <2>2 DEF AD!OnRecv, AD!HandleMsgBroadcastUin, AD!HasSession
    <3>2. Is(AD!SetSession(d, 1, m.cid, m.uin))
      BY <1>5, <1>9, <2>1, <3>1
    <3> QED
      BY <3>1, <3>2
  <2>3. CASE ~AD!HasSession(d, 1, m.cid)
    <3>1. AD!OnRecv(d, 1, m) = d
      BY <1>9, <2>3 DEF AD!OnRecv, AD!HandleMsgBroadcastUin
    <3> QED
      BY <1>4, <1>9, <3>1
  <2> QED
    BY <2>2, <2>3
<1>10. CASE /\ m.cmd # "RSP_REG"
            /\ ~l.isReg \/ m.cmd \notin {"NTF_CREATE_SESSION", "NTF_DISCON", "RSP_BROADCAST_UIN"}
  <2>1. AD!OnRecv(d, 1, m) = d
    BY <1>10 DEF AD!OnRecv
  <2> QED
    BY <1>4, <1>10, <2>1
<1> QED
  BY <1>6, <1>7, <1>8, <1>9, <1>10
------------------------------------------------------------------------------
(* What acc has been asked, and what it has been asked of clients. *)

(* Clients only move on. *)
Onward ==
  \A c \in Cids :
    /\ StageOf(cli[c]) \in AskedOn => StageOf(cli'[c]) \in AskedOn
    /\ StageOf(cli[c]) \in InOn => StageOf(cli'[c]) \in InOn

LEMMA AccForth ==
  ASSUME IInv, CInv, [AccStep]_accVars
  PROVE  IInv' /\ CInv' /\ Onward
<1>1. IInv' /\ CInv'
  BY StepIInv, StepCInv
<1>2. Life!LifeNext
  BY StepMoves
<1>3. AskedOn = {"asked", "in", "gone"} /\ InOn = {"in", "gone"}
  BY DEF AskedOn, InOn
<1> QED
  BY <1>1, <1>2, <1>3, StageForth DEF Onward

LEMMA ClaimsOn ==
  ASSUME Onward, answered \subseteq Cids, answered \subseteq answered',
         NEW r, Claims(r, cli, answered)
  PROVE  Claims(r, cli', answered')
BY DEF Claims, Onward

(* A request that is not a mapping as bytes is one that acc dispatches. *)
LEMMA SentIsRequest ==
  ASSUME NEW r \in SentType, ~RawMapping(r)
  PROVE  r \in RequestType
<1>1. ASSUME r \in [cmd : {"REQ_SET_CMD_2_GRP"}, raw : {TRUE}, grpId : Grps, cmds : SUBSET MainCmds]
      PROVE  FALSE
  BY <1>1 DEF RawMapping
<1> QED
  BY <1>1 DEF SentType

(* acc takes the first request off connection k, or, without k, none. *)
Took(k) ==
  \/ k = NoCon /\ UNCHANGED toAcc
  \/ /\ k \in Conns /\ toAcc[k] # <<>>
     /\ toAcc' = [toAcc EXCEPT ![k] = Tail(toAcc[k])]

LEMMA TailIs ==
  ASSUME NEW S, NEW s \in Seq(S), s # <<>>
  PROVE  /\ Tail(s) \in Seq(S) /\ 1 \in DOMAIN s /\ Head(s) = s[1] /\ s[1] \in S
         /\ \A i \in DOMAIN Tail(s) : i \in Nat /\ i >= 1 /\ i + 1 \in DOMAIN s /\ Tail(s)[i] = s[i + 1]
         /\ \A i \in DOMAIN s \ {1} : i - 1 \in DOMAIN Tail(s) /\ Tail(s)[i - 1] = s[i]
<1> DEFINE u == Tail(s)
<1>1. /\ u \in Seq(S) /\ Len(u) = Len(s) - 1 /\ \A i \in 1..Len(u) : u[i] = s[i + 1]
      /\ Head(s) = s[1] /\ s[1] \in S
  BY HeadTailProperties
<1>2. Len(s) \in Nat /\ Len(s) # 0 /\ DOMAIN s = 1..Len(s)
  BY LenProperties, EmptySeq
<1> HIDE DEF u
<1>3. DOMAIN u = 1..(Len(s) - 1)
  BY <1>1, LenProperties
<1>4. ASSUME NEW i \in DOMAIN u
      PROVE  i \in Nat /\ i >= 1 /\ i + 1 \in DOMAIN s /\ u[i] = s[i + 1]
  BY <1>1, <1>2, <1>3
<1>5. ASSUME NEW i \in DOMAIN s \ {1}
      PROVE  i - 1 \in DOMAIN u /\ u[i - 1] = s[i]
  <2>1. i \in Nat /\ i - 1 \in 1..(Len(s) - 1) /\ (i - 1) + 1 = i
    BY <1>2
  <2> QED
    BY <1>1, <1>3, <2>1
<1> QED
  BY <1>1, <1>2, <1>4, <1>5 DEF u

LEMMA TookIs ==
  ASSUME toAcc \in [Conns -> Seq(SentType)], NEW k, Took(k)
  PROVE  /\ toAcc' \in [Conns -> Seq(SentType)]
         /\ \A j \in Conns : \A i \in DOMAIN toAcc'[j] :
              \/ j # k /\ i \in DOMAIN toAcc[j] /\ toAcc'[j][i] = toAcc[j][i]
              \/ /\ j = k /\ i \in Nat /\ i >= 1
                 /\ i + 1 \in DOMAIN toAcc[j] /\ toAcc'[j][i] = toAcc[j][i + 1]
<1>1. CASE k = NoCon /\ UNCHANGED toAcc
  BY <1>1, IdFacts
<1>2. CASE /\ k \in Conns /\ toAcc[k] # <<>>
           /\ toAcc' = [toAcc EXCEPT ![k] = Tail(toAcc[k])]
  <2> DEFINE u == Tail(toAcc[k])
  <2>1. u \in Seq(SentType) /\ \A i \in DOMAIN u :
          i \in Nat /\ i >= 1 /\ i + 1 \in DOMAIN toAcc[k] /\ u[i] = toAcc[k][i + 1]
    BY <1>2, TailIs
  <2>2. toAcc' = [toAcc EXCEPT ![k] = u]
    BY <1>2
  <2> HIDE DEF u
  <2> QED
    BY <1>2, <2>1, <2>2
<1> QED
  BY <1>1, <1>2 DEF Took
------------------------------------------------------------------------------
(* Steps of acc, and the invariant of the system. *)

LEMMA LinkKept ==
  ASSUME LinkInv, UNCHANGED <<drv, sock>>,
         \A k \in Conns : Alive(inner[k]) => Alive(inner'[k])
  PROVE  LinkInv'
BY DEF LinkInv, Linked, Link

LEMMA SentKept ==
  ASSUME LinkInv, SentInv, AskInv, Onward, NEW k, Hears(k), Took(k),
         UNCHANGED <<drv, sock, answered>>
  PROVE  SentInv'
<1>1. /\ toAcc' \in [Conns -> Seq(SentType)]
      /\ \A j \in Conns : \A i \in DOMAIN toAcc'[j] :
           \/ j # k /\ i \in DOMAIN toAcc[j] /\ toAcc'[j][i] = toAcc[j][i]
           \/ /\ j = k /\ i \in Nat /\ i >= 1
              /\ i + 1 \in DOMAIN toAcc[j] /\ toAcc'[j][i] = toAcc[j][i + 1]
  BY TookIs DEF SentInv
<1>2. ASSUME NEW j \in Conns, NEW i \in DOMAIN toAcc'[j]
      PROVE  Claims(toAcc'[j][i], cli', answered')
  <2>1. PICK h \in DOMAIN toAcc[j] : toAcc'[j][i] = toAcc[j][h]
    BY <1>1
  <2>2. Claims(toAcc[j][h], cli, answered)
    BY DEF SentInv
  <2> QED
    BY <2>1, <2>2, ClaimsOn DEF AskInv
<1>3. ASSUME NEW j \in Conns, NEW i \in DOMAIN toAcc'[j], toAcc'[j][i].cmd = "REQ_REG"
      PROVE  FirstThing(j, i)'
  <2>1. \A h \in DOMAIN toAcc[j] : toAcc[j][h].cmd = "REQ_REG" => h = 1 /\ FirstThing(j, h)
    BY DEF SentInv, FirstThing
  <2>2. j # k /\ i \in DOMAIN toAcc[j] /\ toAcc'[j][i] = toAcc[j][i]
    BY <1>1, <1>3, <2>1
  <2>3. FirstThing(j, i)
    BY <1>3, <2>1, <2>2
  <2>4. SameIds(j) /\ \E n \in Seq(ToSvrMsg) : Delivers(j, n) /\ DOMAIN n = {}
    BY <2>2, <2>3 DEF Hears, FirstThing
  <2>5. DOMAIN toSvr'[j] = {}
    BY <2>3, <2>4 DEF Delivers, FirstThing
  <2>6. Silent(j)'
    BY <2>3, <2>4 DEF Silent, SameIds, FirstThing
  <2> QED
    BY <2>2, <2>3, <2>5, <2>6 DEF FirstThing, Link
<1> QED
  BY <1>1, <1>2, <1>3 DEF SentInv

LEMMA AskKept ==
  ASSUME AskInv, Onward, UNCHANGED <<ask, answered, runs>>,
         \A c \in Cids : cli'[c].state = "VERIFYED" => cli[c].state = "VERIFYED" \/ c \in answered
  PROVE  AskInv'
BY DEF AskInv, Onward, AdmittedWasAnswered

LEMMA HeldKept ==
  ASSUME CInv, LinkInv, HeldInv, Onward, NEW k, Hears(k), UNCHANGED <<drv, sock>>
  PROVE  HeldInv'
<1>1. ASSUME NEW j \in Conns, NEW i \in DOMAIN toSvr'[j], toSvr'[j][i].cmd = "NTF_CREATE_SESSION"
      PROVE  StageOf(cli'[toSvr'[j][i].cid]) \in InOn
  <2>1. PICK n \in Seq(ToSvrMsg) :
          /\ Delivers(j, n)
          /\ \A c \in Cids : Says(n, "NTF_CREATE_SESSION", c) => StageOf(cli'[c]) = "in"
    BY DEF Hears
  <2>2. CASE i \in DOMAIN toSvr[j] /\ toSvr'[j][i] = toSvr[j][i]
    <3>1. toSvr[j][i] \in ToSvrMsg
      BY <2>2, ElementOfSeq DEF CInv, ChanInv
    <3>2. toSvr[j][i].cid \in Cids /\ StageOf(cli[toSvr[j][i].cid]) \in InOn
      BY <1>1, <2>2, <3>1, MsgFields DEF HeldInv
    <3> QED
      BY <2>2, <3>2 DEF Onward
  <2>3. CASE \E h \in DOMAIN n : toSvr'[j][i] = n[h]
    <3>1. PICK h \in DOMAIN n : toSvr'[j][i] = n[h]
      BY <2>3
    <3>2. n[h].cid \in Cids
      BY <1>1, <3>1, ElementOfSeq, MsgFields
    <3>3. Says(n, "NTF_CREATE_SESSION", n[h].cid)
      BY <1>1, <3>1 DEF Says
    <3> QED
      BY <2>1, <3>1, <3>2, <3>3 DEF InOn
  <2> QED
    BY <2>1, <2>2, <2>3 DEF Delivers
<1>2. ASSUME NEW s \in Svrs, Linked(s)', sock'[s] # NoCon, NEW c \in Cids,
             Link(s)'.sess[c] # AD!NoSession
      PROVE  StageOf(cli'[c]) \in InOn
  BY <1>2 DEF HeldInv, Onward, Linked, Link
<1> QED
  BY <1>1, <1>2 DEF HeldInv

LEMMA AccStepBase ==
  ASSUME Base, IInv', CInv', Onward, NEW k, Hears(k), Took(k),
         UNCHANGED <<drv, sock, ask, answered, runs>>,
         \A c \in Cids : cli'[c].state = "VERIFYED" => cli[c].state = "VERIFYED" \/ c \in answered
  PROVE  Base'
<1>1. \A j \in Conns : Alive(inner'[j]) <=> Alive(inner[j])
  BY DEF Hears, Delivers
<1> QED
  BY <1>1, LinkKept, SentKept, AskKept, HeldKept DEF Base
------------------------------------------------------------------------------
(* What happens to clients, and connections that break at the end of acc. *)

LEMMA ClientSideAdmitsNone ==
  ASSUME IInv, NEW d \in Cids, RecvPacket(d) \/ ReadDone \/ ClientEvent(d), NEW c \in Cids,
         cli'[c].state = "VERIFYED"
  PROVE  cli[c].state = "VERIFYED"
<1>1. CASE RecvPacket(d)
  BY <1>1, OnRawRecvKeeps DEF RecvPacket, Keeps
<1>2. CASE ReadDone
  BY <1>2 DEF ReadDone
<1>3. CASE ClientEvent(d)
  BY <1>3, ClientEventAdmitsNone
<1> QED
  BY <1>1, <1>2, <1>3

LEMMA SomeClient ==
  ASSUME IInv, ReadInv, ClientSide
  PROVE  \E d \in Cids : RecvPacket(d) \/ ReadDone \/ ClientEvent(d)
BY DEF ClientSide, ReadDone, ReadInv

LEMMA ClientSideIs ==
  ASSUME IInv, CInv, ClientSide
  PROVE  /\ [AccStep]_accVars /\ Aside
         /\ \E d \in Cids : RecvPacket(d) \/ ReadDone \/ ClientEvent(d)
BY SomeClient DEF ClientSide, AccStep, CInv

LEMMA ClientSideBase ==
  ASSUME Base, ClientSide
  PROVE  Base'
<1>1. PICK d \in Cids : RecvPacket(d) \/ ReadDone \/ ClientEvent(d)
  BY ClientSideIs DEF Base
<1>2. IInv' /\ CInv' /\ Onward
  BY ClientSideIs, AccForth DEF Base
<1>3. Hears(NoCon)
  BY <1>1, <1>2, ClientSideInforms, InformsHears DEF Base
<1>4. \A c \in Cids : cli'[c].state = "VERIFYED" => cli[c].state = "VERIFYED"
  BY <1>1, ClientSideAdmitsNone DEF Base
<1>5. Took(NoCon) /\ UNCHANGED <<drv, sock, ask, answered, runs>>
  BY DEF ClientSide, Aside, Apps, Net, Took
<1> QED
  BY <1>2, <1>3, <1>4, <1>5, AccStepBase

LEMMA AccBreakBase ==
  ASSUME Base, NEW k \in Conns, Idle, AccNotices(k) \/ AccBreak(k)
  PROVE  Base'
<1>1. SvrBreak(k) /\ UNCHANGED <<drv, sock, toAcc, ask, answered, runs>>
  BY DEF AccNotices, AccBreak, Apps, Net
<1>2. IInv' /\ CInv' /\ Onward
  BY <1>1, AccForth DEF Base, AccStep
<1>3. Hears(NoCon)
  BY <1>1, SvrBreakInforms, InformsHears DEF Base
<1>4. UNCHANGED cli
  BY <1>1 DEF SvrBreak
<1> QED
  BY <1>1, <1>2, <1>3, <1>4, AccStepBase DEF Took
------------------------------------------------------------------------------
(* acc reads a request. *)

LEMMA VerifyRetAdmits ==
  ASSUME IInv, NEW k \in Conns, NEW r \in RequestType, r.cmd = "REQ_VERIFY_RET",
         Parse_CMD_REQ_VERIFY_RET(k, r), NEW c \in Cids,
         cli[c].state # "VERIFYED", cli'[c].state = "VERIFYED"
  PROVE  c = r.cid /\ r.isSuccess
<1> DEFINE told == SendToClient(cli[r.cid], 1)
<1>1. CASE Ignored
  BY <1>1 DEF Ignored
<1>2. CASE r.cid \in FoundClients /\ cli' = [cli EXCEPT ![r.cid] = told]
  <2>1. r.cid \in Cids /\ cli[r.cid] \in GoodClient
    BY <1>2, FoundStage
  <2>2. told.state = cli[r.cid].state
    BY <2>1, SendToClientGood
  <2> HIDE DEF told
  <2> QED
    BY <1>2, <2>1, <2>2 DEF IInv
<1>3. CASE /\ r.cid \in FoundClients /\ r.isSuccess
           /\ cli' = [cli EXCEPT ![r.cid] = SetVerify(told)]
  <2> HIDE DEF told
  <2> QED
    BY <1>3 DEF IInv
<1> QED
  BY <1>1, <1>2, <1>3 DEF Parse_CMD_REQ_VERIFY_RET

LEMMA RequestAdmits ==
  ASSUME IInv, NEW k \in Conns, NEW r \in RequestType, OnRecv(k, r), NEW c \in Cids,
         cli[c].state # "VERIFYED", cli'[c].state = "VERIFYED"
  PROVE  c = r.cid /\ r.cmd = "REQ_VERIFY_RET" /\ r.isSuccess
<1>1. CASE r.cmd = "REQ_VERIFY_RET"
  BY <1>1, VerifyRetAdmits DEF OnRecv
<1>2. CASE r.cmd # "REQ_VERIFY_RET"
  BY <1>2, RequestSame DEF Same
<1> QED
  BY <1>1, <1>2

(* The request at the head of connection k. *)
LEMMA HeadIs ==
  ASSUME SentInv, NEW k \in Conns, toAcc[k] # <<>>
  PROVE  /\ 1 \in DOMAIN toAcc[k] /\ Head(toAcc[k]) = toAcc[k][1]
         /\ Head(toAcc[k]) \in SentType
         /\ Claims(Head(toAcc[k]), cli, answered)
         /\ Head(toAcc[k]).cmd = "REQ_REG" => FirstThing(k, 1)
BY TailIs DEF SentInv

LEMMA AccRecvIs ==
  ASSUME Base, NEW k \in Conns, AccRecv(k)
  PROVE  LET r == Head(toAcc[k])
         IN  /\ Took(k) /\ UNCHANGED <<drv, sock, ask, answered, runs>>
             /\ r \in SentType /\ Claims(r, cli, answered)
             /\ r.cmd = "REQ_REG" => FirstThing(k, 1) /\ r = toAcc[k][1]
             /\ \/ UNCHANGED accVars /\ r.cmd = "REQ_SET_CMD_2_GRP"
                \/ r \in RequestType /\ OnRecv(k, r)
<1> DEFINE r == Head(toAcc[k])
<1>1. toAcc[k] # <<>>
  BY DEF AccRecv
<1>2. /\ r \in SentType /\ Claims(r, cli, answered)
      /\ r.cmd = "REQ_REG" => FirstThing(k, 1) /\ r = toAcc[k][1]
  BY <1>1, HeadIs DEF Base
<1>3. \/ UNCHANGED accVars /\ r.cmd = "REQ_SET_CMD_2_GRP"
      \/ r \in RequestType /\ OnRecv(k, r)
  <2>1. CASE RawMapping(r)
    BY <2>1 DEF AccRecv, RawMapping
  <2>2. CASE ~RawMapping(r)
    BY <1>2, <2>2, SentIsRequest DEF AccRecv
  <2> QED
    BY <2>1, <2>2
<1>4. Took(k) /\ UNCHANGED <<drv, sock, ask, answered, runs>>
  BY DEF AccRecv, Took, Apps, Net
<1> HIDE DEF r
<1>5. /\ Took(k) /\ UNCHANGED <<drv, sock, ask, answered, runs>>
      /\ r \in SentType /\ Claims(r, cli, answered)
      /\ r.cmd = "REQ_REG" => FirstThing(k, 1) /\ r = toAcc[k][1]
      /\ \/ UNCHANGED accVars /\ r.cmd = "REQ_SET_CMD_2_GRP"
         \/ r \in RequestType /\ OnRecv(k, r)
  BY <1>2, <1>3, <1>4
<1> QED
  BY <1>5 DEF r

LEMMA AccRecvBase ==
  ASSUME Base, NEW k \in Conns, Idle, AccRecv(k)
  PROVE  Base'
<1> DEFINE r == Head(toAcc[k])
<1>1. /\ Took(k) /\ UNCHANGED <<drv, sock, ask, answered, runs>>
      /\ r \in SentType /\ Claims(r, cli, answered)
  BY AccRecvIs
<1>2. \/ UNCHANGED accVars
      \/ r \in RequestType /\ OnRecv(k, r)
  BY AccRecvIs
<1> HIDE DEF r
<1>3. IInv' /\ CInv' /\ Onward
  <2>1. [AccStep]_accVars
    BY <1>2 DEF AccStep
  <2> QED
    BY <2>1, AccForth DEF Base
<1>4. CASE UNCHANGED accVars
  <2>1. UNCHANGED <<cli, inner, toSvr>>
    BY <1>4 DEF accVars
  <2>2. Hears(k)
    BY <2>1, SameInner, QuietHears DEF Base
  <2> QED
    BY <1>1, <1>3, <2>1, <2>2, AccStepBase
<1>5. CASE r \in RequestType /\ OnRecv(k, r)
  <2>1. AnswersAsked(r)
    BY <1>1 DEF Claims, AnswersAsked, AskedOn
  <2>2. Hears(k)
    BY <1>3, <1>5, <2>1, RequestHears DEF Base
  <2>3. \A c \in Cids : cli'[c].state = "VERIFYED" => cli[c].state = "VERIFYED" \/ c \in answered
    BY <1>1, <1>5, RequestAdmits DEF Base, Claims
  <2> QED
    BY <1>1, <1>3, <2>2, <2>3, AccStepBase
<1> QED
  BY <1>2, <1>4, <1>5
------------------------------------------------------------------------------
(* Steps at the end of a server: its link changes, clients do not. *)

LEMMA OneLinkChanges ==
  ASSUME LinkInv, NEW s \in Svrs, NEW e \in DriverType, NEW x \in Conns \cup {NoCon},
         drv' = [drv EXCEPT ![s] = e], sock' = [sock EXCEPT ![s] = x],
         e.svrId = drv[s].svrId,
         e.vec # <<>> => /\ e.vec[1].isReg => e.vec[1].con = "up"
                         /\ ~e.vec[1].isReg => e.vec[1].sess = AD!NoSessions,
         x # NoCon => /\ e.vec # <<>> /\ e.vec[1].con = "up" /\ Alive(inner'[x])
                      /\ \A t \in Svrs \ {s} : sock[t] # x,
         \A t \in Svrs \ {s} : sock[t] # NoCon => Alive(inner'[sock[t]])
  PROVE  LinkInv'
<1>1. /\ drv' \in [Svrs -> DriverType] /\ sock' \in [Svrs -> Conns \cup {NoCon}]
      /\ drv'[s] = e /\ sock'[s] = x
      /\ \A t \in Svrs \ {s} : drv'[t] = drv[t] /\ sock'[t] = sock[t]
  BY DEF LinkInv
<1>2. \A t \in Svrs : drv'[t].svrId = SvrIdOf[t]
  BY <1>1 DEF LinkInv
<1>3. ASSUME NEW t \in Svrs
      PROVE  /\ Linked(t)' =>
                  /\ Link(t)'.isReg => Link(t)'.con = "up"
                  /\ ~Link(t)'.isReg => Link(t)'.sess = AD!NoSessions
             /\ sock'[t] # NoCon =>
                  Linked(t)' /\ Link(t)'.con = "up" /\ Alive(inner'[sock'[t]])
  <2>1. CASE t = s
    BY <1>1, <2>1 DEF Linked, Link
  <2>2. CASE t # s
    BY <1>1, <2>2 DEF LinkInv, Linked, Link
  <2> QED
    BY <2>1, <2>2
<1>4. \A t, u \in Svrs : sock'[t] # NoCon /\ sock'[t] = sock'[u] => t = u
  BY <1>1 DEF LinkInv
<1> QED
  BY <1>1, <1>2, <1>3, <1>4 DEF LinkInv

LEMMA FirstKept ==
  ASSUME NEW j \in Conns, NEW i, FirstThing(j, i), SameIds(j),
         toSvr'[j] = toSvr[j], toAcc'[j][i] = toAcc[j][i],
         \A t \in Svrs : sock'[t] = j => sock[t] = j /\ (Link(t)'.isReg => Link(t).isReg)
  PROVE  FirstThing(j, i)'
BY DEF FirstThing, Silent, SameIds

LEMMA HeldOne ==
  ASSUME LinkInv, HeldInv, UNCHANGED cli, NEW s \in Svrs, NEW e, drv' = [drv EXCEPT ![s] = e],
         NEW x, sock' = [sock EXCEPT ![s] = x],
         \A k \in Conns : \A i \in DOMAIN toSvr'[k] : \E h \in DOMAIN toSvr[k] :
           toSvr'[k][i] = toSvr[k][h],
         \A c \in Cids : x # NoCon /\ e.vec # <<>> /\ e.vec[1].sess[c] # AD!NoSession =>
            StageOf(cli[c]) \in InOn
  PROVE  HeldInv'
<1>1. /\ drv'[s] = e /\ sock'[s] = x
      /\ \A t \in Svrs \ {s} : drv'[t] = drv[t] /\ sock'[t] = sock[t]
  BY DEF LinkInv
<1>2. ASSUME NEW k \in Conns, NEW i \in DOMAIN toSvr'[k], toSvr'[k][i].cmd = "NTF_CREATE_SESSION"
      PROVE  StageOf(cli'[toSvr'[k][i].cid]) \in InOn
  BY <1>2 DEF HeldInv
<1>3. ASSUME NEW t \in Svrs, Linked(t)', sock'[t] # NoCon, NEW c \in Cids,
             Link(t)'.sess[c] # AD!NoSession
      PROVE  StageOf(cli'[c]) \in InOn
  <2>1. CASE t = s
    BY <1>1, <1>3, <2>1 DEF Linked, Link
  <2>2. CASE t # s
    BY <1>1, <1>3, <2>2 DEF HeldInv, Linked, Link
  <2> QED
    BY <2>1, <2>2
<1> QED
  BY <1>2, <1>3 DEF HeldInv

LEMMA SameClients ==
  ASSUME AskInv, UNCHANGED cli
  PROVE  /\ Onward
         /\ UNCHANGED <<ask, answered, runs>> => AskInv'
BY DEF Onward, AskInv, AdmittedWasAnswered

(* An id fits in 16 bits. *)
LEMMA ShortIds ==
  ASSUME NEW n \in Ids
  PROVE  n \in Nat /\ n % 65536 = n
<1>1. UINT16_MAX = 65535
  BY DEF UINT16_MAX
<1>2. n \in 1..UINT16_MAX
  BY IdsAssumption
<1>3. n \in Nat /\ n < 65536
  BY <1>1, <1>2
<1>4. n % 65536 = n
  BY <1>3, Z3
<1> QED
  BY <1>3, <1>4

(* The greeting of a driver asks for a registration first. *)
LEMMA GreetingIs ==
  ASSUME NEW d \in DriverType
  PROVE  /\ AD!Greeting(d) \in Seq(SentType)
         /\ \A i \in DOMAIN AD!Greeting(d) :
              \/ /\ i = 1 /\ AD!Greeting(d)[i].cmd = "REQ_REG"
                 /\ AD!Greeting(d)[i].svrId = d.svrId
              \/ AD!Greeting(d)[i].cmd = "REQ_ACC_SETING"
<1> DEFINE r == [cmd |-> "REQ_REG", svrId |-> d.svrId, isVerify |-> d.isVerify]
           p == <<r>>
           g == AD!Greeting(d)
<1> HIDE DEF r, p, g
<1>1. d.svrId \in Ids /\ d.isVerify \in BOOLEAN /\ d.svrId # 0
  BY IdFacts DEF DriverType
<1>2. d.svrId \in Nat /\ d.svrId % 65536 = d.svrId
  BY <1>1, ShortIds
<1>3. r \in SentType /\ r.cmd = "REQ_REG" /\ r.svrId = d.svrId
  <2>1. d.svrId \in {n \in Nat : n % 65536 \in Ids \cup {0}}
    BY <1>1, <1>2
  <2>2. r \in [cmd : {"REQ_REG"}, svrId : {n \in Nat : n % 65536 \in Ids \cup {0}}, isVerify : BOOLEAN]
    BY <1>1, <2>1 DEF r
  <2>3. r \in RequestType
    BY <2>2 DEF RequestType
  <2>4. r \in SentType
    BY <2>3 DEF SentType
  <2> QED
    BY <2>4 DEF r
<1>4. /\ d.seting \in Seq(SentType)
      /\ \A i \in DOMAIN d.seting : d.seting[i].cmd = "REQ_ACC_SETING"
  <2>1. CASE d.seting = <<>>
    BY <2>1
  <2>2. CASE d.seting # <<>>
    <3>1. PICK x \in [cmd : {"REQ_ACC_SETING"}, seting : Setings] : d.seting = <<x>>
      BY <2>2 DEF DriverType
    <3>2. x.cmd = "REQ_ACC_SETING"
      OBVIOUS
    <3>3. x \in SentType
      <4>1. x \in [cmd : {"REQ_ACC_SETING"}, seting : SetingType]
        BY SetingsAssumption
      <4>2. x \in RequestType
        BY <4>1 DEF RequestType
      <4> QED
        BY <4>2 DEF SentType
    <3> QED
      BY <3>1, <3>2, <3>3
  <2> QED
    BY <2>1, <2>2
<1> DEFINE q == d.seting
<1>5. g = p \o q
  BY <1>1 DEF AD!Greeting, g, p, r
<1>6. p \in Seq(SentType) /\ Len(p) = 1 /\ p[1] = r
  BY <1>3 DEF p
<1> HIDE DEF q
<1>7. /\ g \in Seq(SentType) /\ Len(g) = 1 + Len(q)
      /\ \A i \in 1..(1 + Len(q)) : g[i] = IF i <= 1 THEN p[i] ELSE q[i - 1]
      /\ Len(q) \in Nat /\ DOMAIN q = 1..Len(q)
  <2>1. q \in Seq(SentType)
    BY <1>4 DEF q
  <2> HIDE DEF g, p
  <2>2. /\ g \in Seq(SentType) /\ Len(g) = Len(p) + Len(q)
        /\ \A i \in 1..(Len(p) + Len(q)) : g[i] = IF i <= Len(p) THEN p[i] ELSE q[i - Len(p)]
    BY <1>5, <1>6, <2>1, ConcatProperties
  <2>3. Len(q) \in Nat /\ DOMAIN q = 1..Len(q)
    BY <2>1, LenProperties
  <2> QED
    BY <1>6, <2>2, <2>3
<1>8. DOMAIN g = 1..(1 + Len(q))
  BY <1>7, LenProperties
<1>9. ASSUME NEW i \in DOMAIN g
      PROVE  (i = 1 /\ g[i] = r) \/ \E h \in DOMAIN q : g[i] = q[h]
  <2>1. CASE i = 1
    BY <1>6, <1>7, <1>8, <2>1
  <2>2. CASE i # 1
    <3>1. i - 1 \in DOMAIN q /\ ~(i <= 1)
      BY <1>7, <1>8, <2>2
    <3> QED
      BY <1>7, <1>8, <3>1
  <2> QED
    BY <2>1, <2>2
<1>10. ASSUME NEW i \in DOMAIN g
       PROVE  \/ i = 1 /\ g[i].cmd = "REQ_REG" /\ g[i].svrId = d.svrId
              \/ g[i].cmd = "REQ_ACC_SETING"
  BY <1>3, <1>4, <1>9 DEF q
<1> QED
  BY <1>7, <1>10 DEF g

(* A link that is not up has nothing at its other end. *)
LEMMA IdleLink ==
  ASSUME LinkInv, NEW s \in Svrs, Linked(s), Link(s).con = "idle"
  PROVE  /\ sock[s] = NoCon /\ ~Link(s).isReg /\ Link(s).sess = AD!NoSessions
         /\ drv[s] \in DriverType /\ drv[s].vec # <<>> /\ drv[s].svrId = SvrIdOf[s]
BY DEF LinkInv, Linked, Link

LEMMA ConnectBase ==
  ASSUME Base, Idle, NEW s \in Svrs, NEW k \in Conns, Connect(s, k)
  PROVE  Base'
<1> DEFINE e == AD!OnConnected(drv[s], 1)
           g == AD!Greeting(drv[s])
           l == Link(s)
           m == [l EXCEPT !.con = "up"]
<1>1. /\ Linked(s) /\ l.con = "idle" /\ \A t \in Svrs : sock[t] # k
      /\ SvrConnect(k) /\ UNCHANGED <<cli, ask, answered, runs>>
      /\ drv' = [drv EXCEPT ![s] = e] /\ sock' = [sock EXCEPT ![s] = k]
      /\ toAcc' = [toAcc EXCEPT ![k] = g]
  BY DEF Connect, SvrConnect, Apps, Net
<1>2. /\ ~l.isReg /\ l.sess = AD!NoSessions
      /\ drv[s] \in DriverType /\ drv[s].vec # <<>> /\ drv[s].svrId = SvrIdOf[s]
  BY <1>1, IdleLink DEF Base
<1>3. /\ e \in DriverType /\ e.vec # <<>> /\ e.vec[1] = m /\ e.svrId = drv[s].svrId
  BY <1>2, OnConnectedIs DEF Link
<1>4. ~m.isReg /\ m.sess = AD!NoSessions /\ m.con = "up"
  <2>1. l \in AD!LinkType
    BY <1>2, DriverLink DEF Link
  <2> HIDE DEF l
  <2> QED
    BY <1>2, <2>1 DEF AD!LinkType
<1> HIDE DEF m, l
<1>5. IInv' /\ CInv' /\ Onward /\ AskInv'
  <2>1. [AccStep]_accVars
    BY <1>1 DEF AccStep
  <2> QED
    BY <1>1, <2>1, AccForth, SameClients DEF Base
<1>6. /\ Alive(inner'[k]) /\ Silent(k)' /\ DOMAIN toSvr'[k] = {}
      /\ \A j \in Conns \ {k} : inner'[j] = inner[j] /\ toSvr'[j] = toSvr[j]
  <2> DEFINE z == <<>>
  <2>1. DOMAIN z = {}
    OBVIOUS
  <2>2. toSvr' = [toSvr EXCEPT ![k] = z]
    BY <1>1 DEF SvrConnect
  <2> HIDE DEF z
  <2>3. DOMAIN toSvr'[k] = {} /\ \A j \in Conns \ {k} : toSvr'[j] = toSvr[j]
    BY <2>1, <2>2 DEF Base, CInv, ChanInv
  <2>4. Alive(inner'[k]) /\ Silent(k)' /\ \A j \in Conns \ {k} : inner'[j] = inner[j]
    BY <1>1 DEF SvrConnect, NewInner, Alive, Silent, Base, IInv, InnerTypeOK
  <2> QED
    BY <2>3, <2>4
<1>7. LinkInv'
  <2> HIDE DEF e
  <2>1. \A t \in Svrs \ {s} : sock[t] # NoCon => Alive(inner'[sock[t]])
    BY <1>1, <1>6 DEF Base, LinkInv
  <2> QED
    BY <1>1, <1>3, <1>4, <1>6, <2>1, OneLinkChanges DEF Base
<1>8. SentInv'
  <2>1. /\ g \in Seq(SentType)
        /\ \A i \in DOMAIN g : \/ i = 1 /\ g[i].cmd = "REQ_REG" /\ g[i].svrId = SvrIdOf[s]
                               \/ g[i].cmd = "REQ_ACC_SETING"
    BY <1>2, GreetingIs
  <2> HIDE DEF g, e
  <2>2. toAcc \in [Conns -> Seq(SentType)]
    BY DEF Base, SentInv
  <2>3. /\ toAcc' \in [Conns -> Seq(SentType)] /\ toAcc'[k] = g
        /\ \A j \in Conns \ {k} : toAcc'[j] = toAcc[j]
    BY <1>1, <2>1, <2>2
  <2>4. \A i \in DOMAIN g : Claims(g[i], cli', answered')
    BY <2>1 DEF Claims, SessionCalls
  <2>5. ASSUME NEW j \in Conns, NEW i \in DOMAIN toAcc'[j]
        PROVE  Claims(toAcc'[j][i], cli', answered')
    BY <1>1, <2>3, <2>4 DEF Base, SentInv
  <2>6. drv'[s] = e /\ sock'[s] = k /\ \A t \in Svrs \ {s} : drv'[t] = drv[t] /\ sock'[t] = sock[t]
    BY <1>1 DEF Base, LinkInv
  <2>7. \A t \in Svrs : sock'[t] = k => t = s /\ ~Link(t)'.isReg
    BY <1>1, <1>3, <1>4, <2>6 DEF Link
  <2>8. ASSUME NEW j \in Conns, NEW i \in DOMAIN toAcc'[j], toAcc'[j][i].cmd = "REQ_REG"
        PROVE  FirstThing(j, i)'
    <3>1. CASE j = k
      BY <1>6, <2>1, <2>3, <2>7, <2>8, <3>1 DEF FirstThing
    <3>2. CASE j # k
      <4>1. FirstThing(j, i) /\ toAcc'[j][i] = toAcc[j][i]
        BY <2>3, <2>8, <3>2 DEF Base, SentInv
      <4>2. \A t \in Svrs : sock'[t] = j => sock[t] = j /\ (Link(t)'.isReg => Link(t).isReg)
        BY <2>6, <3>2 DEF Link
      <4>3. SameIds(j) /\ toSvr'[j] = toSvr[j]
        BY <1>6, <3>2 DEF SameIds
      <4> QED
        BY <4>1, <4>2, <4>3, FirstKept
    <3> QED
      BY <3>1, <3>2
  <2> QED
    BY <2>3, <2>5, <2>8 DEF SentInv
<1>9. HeldInv'
  <2> HIDE DEF e
  <2>1. \A j \in Conns : \A i \in DOMAIN toSvr'[j] : \E h \in DOMAIN toSvr[j] : toSvr'[j][i] = toSvr[j][h]
    BY <1>6
  <2>2. \A c \in Cids : e.vec[1].sess[c] = AD!NoSession
    BY <1>3, <1>4 DEF AD!NoSessions
  <2>3. /\ LinkInv /\ HeldInv /\ UNCHANGED cli
        /\ drv' = [drv EXCEPT ![s] = e] /\ sock' = [sock EXCEPT ![s] = k]
    BY <1>1 DEF Base
  <2> QED
    BY <2>1, <2>2, <2>3, HeldOne
<1> QED
  BY <1>5, <1>7, <1>8, <1>9 DEF Base

(* No request is added, and what is before an unread registration stays. *)
LEMMA SentSame ==
  ASSUME SentInv, UNCHANGED <<cli, answered>>, toAcc' \in [Conns -> Seq(SentType)],
         \A j \in Conns : \A i \in DOMAIN toAcc'[j] :
           /\ i \in DOMAIN toAcc[j] /\ toAcc'[j][i] = toAcc[j][i]
           /\ FirstThing(j, i) =>
                /\ SameIds(j) /\ toSvr'[j] = toSvr[j]
                /\ \A t \in Svrs : sock'[t] = j => sock[t] = j /\ (Link(t)'.isReg => Link(t).isReg)
  PROVE  SentInv'
<1>1. ASSUME NEW j \in Conns, NEW i \in DOMAIN toAcc'[j]
      PROVE  /\ Claims(toAcc'[j][i], cli', answered')
             /\ toAcc'[j][i].cmd = "REQ_REG" => FirstThing(j, i)'
  <2>1. Claims(toAcc[j][i], cli, answered) /\ (toAcc[j][i].cmd = "REQ_REG" => FirstThing(j, i))
    BY DEF SentInv
  <2> QED
    BY <2>1, FirstKept
<1> QED
  BY <1>1 DEF SentInv

(* The driver sees its link end. *)
LinkLost(s) ==
  /\ Linked(s) /\ UNCHANGED <<accVars, toAcc, ask, answered, runs>>
  /\ drv' = [drv EXCEPT ![s] = AD!OnDisconnected(drv[s], 1)]
  /\ sock' = [sock EXCEPT ![s] = NoCon]

LEMMA DriverEndIs ==
  ASSUME LinkInv, NEW s \in Svrs, DriverBreak(s) \/ DriverNotices(s)
  PROVE  LinkLost(s)
<1>1. CASE DriverBreak(s)
  BY <1>1 DEF DriverBreak, LinkLost, Apps
<1>2. CASE DriverNotices(s)
  <2>1. sock = [sock EXCEPT ![s] = NoCon]
    BY <1>2 DEF DriverNotices, LinkInv
  <2> QED
    BY <1>2, <2>1 DEF DriverNotices, LinkLost, Apps, Net
<1> QED
  BY <1>1, <1>2

LEMMA LinkLostBase ==
  ASSUME Base, NEW s \in Svrs, LinkLost(s)
  PROVE  Base'
<1> DEFINE e == AD!OnDisconnected(drv[s], 1)
<1>1. /\ UNCHANGED <<cli, inner, toSvr, toAcc, ask, answered, runs>>
      /\ drv' = [drv EXCEPT ![s] = e] /\ sock' = [sock EXCEPT ![s] = NoCon]
  BY DEF LinkLost, accVars
<1>2. /\ e \in DriverType /\ e.vec # <<>> /\ ~e.vec[1].isReg
      /\ e.vec[1].sess = AD!NoSessions /\ e.svrId = drv[s].svrId
  BY OnDisconnectedIs DEF LinkLost, Base, LinkInv, Linked
<1> HIDE DEF e
<1>3. IInv' /\ CInv' /\ AskInv'
  BY <1>1, AccForth, SameClients DEF Base, LinkLost
<1>4. LinkInv'
  <2>1. \A t \in Svrs \ {s} : sock[t] # NoCon => Alive(inner'[sock[t]])
    BY <1>1 DEF Base, LinkInv
  <2> QED
    BY <1>1, <1>2, <2>1, OneLinkChanges DEF Base
<1>5. drv'[s] = e /\ sock'[s] = NoCon /\ \A t \in Svrs \ {s} : drv'[t] = drv[t] /\ sock'[t] = sock[t]
  BY <1>1 DEF Base, LinkInv
<1>6. SentInv'
  <2>1. \A j \in Conns, t \in Svrs : sock'[t] = j => sock[t] = j /\ (Link(t)'.isReg => Link(t).isReg)
    BY <1>5, IdFacts DEF Link
  <2>2. toAcc' \in [Conns -> Seq(SentType)] /\ SentInv
    BY <1>1 DEF Base, SentInv
  <2> QED
    BY <1>1, <2>1, <2>2, SentSame DEF SameIds
<1>7. HeldInv'
  <2>1. \A c \in Cids : e.vec[1].sess[c] = AD!NoSession
    BY <1>2 DEF AD!NoSessions
  <2>2. /\ LinkInv /\ HeldInv /\ UNCHANGED cli
        /\ drv' = [drv EXCEPT ![s] = e] /\ sock' = [sock EXCEPT ![s] = NoCon]
    BY <1>1 DEF Base
  <2>3. \A j \in Conns : \A i \in DOMAIN toSvr'[j] : \E h \in DOMAIN toSvr[j] : toSvr'[j][i] = toSvr[j][h]
    BY <1>1
  <2> QED
    BY <2>1, <2>2, <2>3, HeldOne
<1> QED
  BY <1>3, <1>4, <1>6, <1>7 DEF Base

(* acc deletes a connection. *)
LEMMA DestroyIs ==
  ASSUME Base, NEW k \in Conns, Destroy(k)
  PROVE  /\ UNCHANGED <<cli, drv, ask, answered, runs>>
         /\ \A j \in Conns \ {k} :
              inner'[j] = inner[j] /\ toSvr'[j] = toSvr[j] /\ toAcc'[j] = toAcc[j]
         /\ DOMAIN toSvr'[k] = {} /\ DOMAIN toAcc'[k] = {}
         /\ toAcc' \in [Conns -> Seq(SentType)]
         /\ sock' \in [Svrs -> Conns \cup {NoCon}]
         /\ \A s \in Svrs : /\ sock'[s] # k
                            /\ sock'[s] # NoCon => sock'[s] = sock[s]
<1> DEFINE z == <<>>
<1>1. DOMAIN z = {} /\ z \in Seq(SentType)
  OBVIOUS
<1>2. /\ toSvr' = [toSvr EXCEPT ![k] = z] /\ toAcc' = [toAcc EXCEPT ![k] = z]
      /\ inner' = [inner EXCEPT ![k] = NewInner]
      /\ UNCHANGED <<cli, drv, ask, answered, runs>>
      /\ sock' = [s \in Svrs |-> IF sock[s] = k THEN NoCon ELSE sock[s]]
  BY DEF Destroy, DestroySvr, Apps, Net
<1>3. /\ toSvr \in [Conns -> Seq(ToSvrMsg)] /\ toAcc \in [Conns -> Seq(SentType)]
      /\ inner \in [Conns -> InnerType] /\ sock \in [Svrs -> Conns \cup {NoCon}]
  BY DEF Base, CInv, ChanInv, SentInv, IInv, InnerTypeOK, LinkInv
<1> HIDE DEF z
<1>4. /\ DOMAIN toSvr'[k] = {} /\ DOMAIN toAcc'[k] = {}
      /\ \A j \in Conns \ {k} : inner'[j] = inner[j] /\ toSvr'[j] = toSvr[j] /\ toAcc'[j] = toAcc[j]
      /\ toAcc' \in [Conns -> Seq(SentType)]
  BY <1>1, <1>2, <1>3
<1>5. /\ sock' \in [Svrs -> Conns \cup {NoCon}]
      /\ \A s \in Svrs : sock'[s] # k /\ (sock'[s] # NoCon => sock'[s] = sock[s])
  BY <1>2, <1>3, IdFacts
<1> QED
  BY <1>2, <1>4, <1>5

LEMMA DestroyBase ==
  ASSUME Base, Idle, NEW k \in Conns, Destroy(k)
  PROVE  Base'
<1>1. /\ UNCHANGED <<cli, drv, ask, answered, runs>>
      /\ \A j \in Conns \ {k} :
           inner'[j] = inner[j] /\ toSvr'[j] = toSvr[j] /\ toAcc'[j] = toAcc[j]
      /\ DOMAIN toSvr'[k] = {} /\ DOMAIN toAcc'[k] = {}
      /\ toAcc' \in [Conns -> Seq(SentType)]
      /\ sock' \in [Svrs -> Conns \cup {NoCon}]
      /\ \A s \in Svrs : sock'[s] # k /\ (sock'[s] # NoCon => sock'[s] = sock[s])
  BY DestroyIs
<1>2. IInv' /\ CInv' /\ AskInv'
  <2>1. [AccStep]_accVars
    BY DEF AccStep, Destroy
  <2> QED
    BY <1>1, <2>1, AccForth, SameClients DEF Base
<1>3. LinkInv'
  <2>1. \A s \in Svrs : sock'[s] # NoCon => Alive(inner'[sock'[s]])
    BY <1>1 DEF Base, LinkInv
  <2> QED
    BY <1>1, <2>1 DEF Base, LinkInv, Linked, Link
<1>4. SentInv'
  <2>1. ASSUME NEW j \in Conns, NEW i \in DOMAIN toAcc'[j]
        PROVE  /\ i \in DOMAIN toAcc[j] /\ toAcc'[j][i] = toAcc[j][i]
               /\ FirstThing(j, i) =>
                    /\ SameIds(j) /\ toSvr'[j] = toSvr[j]
                    /\ \A t \in Svrs : sock'[t] = j => sock[t] = j /\ (Link(t)'.isReg => Link(t).isReg)
    <3>1. j # k
      BY <1>1
    <3> QED
      BY <1>1, <3>1, IdFacts DEF SameIds, Link
  <2>2. SentInv /\ UNCHANGED <<cli, answered>> /\ toAcc' \in [Conns -> Seq(SentType)]
    BY <1>1 DEF Base
  <2> QED
    BY <2>1, <2>2, SentSame
<1>5. HeldInv'
  <2>1. ASSUME NEW j \in Conns, NEW i \in DOMAIN toSvr'[j]
        PROVE  toSvr'[j] = toSvr[j]
    BY <1>1
  <2> QED
    BY <1>1, <2>1 DEF Base, HeldInv, Linked, Link
<1> QED
  BY <1>2, <1>3, <1>4, <1>5 DEF Base
------------------------------------------------------------------------------
(* A driver reads a message. *)

Taken(s) == Head(toSvr[sock[s]])
Made(s)  == AD!OnRecv(drv[s], 1, Taken(s))

LEMMA DriverRecvIs ==
  ASSUME Base, NEW s \in Svrs, DriverRecv(s)
  PROVE  /\ Linked(s) /\ Link(s).con = "up" /\ sock[s] \in Conns
         /\ toSvr[sock[s]] # <<>> /\ 1 \in DOMAIN toSvr[sock[s]]
         /\ toSvr[sock[s]] \in Seq(ToSvrMsg)
         /\ Taken(s) = toSvr[sock[s]][1] /\ Taken(s) \in ToSvrMsg
         /\ drv[s] \in DriverType /\ drv[s].vec # <<>>
         /\ drv' = [drv EXCEPT ![s] = Made(s)]
         /\ sock' = [sock EXCEPT ![s] = IF Made(s).fatal THEN NoCon ELSE sock[s]]
         /\ toSvr' = [toSvr EXCEPT ![sock[s]] = Tail(toSvr[sock[s]])]
         /\ UNCHANGED <<cli, inner, toAcc, answered, runs>>
         /\ SvrRead(sock[s])
<1>1. /\ Linked(s) /\ Link(s).con = "up" /\ sock[s] # NoCon /\ SvrRead(sock[s])
      /\ UNCHANGED <<toAcc, answered, runs>>
      /\ toSvr[sock[s]] # <<>> /\ UNCHANGED <<cli, inner>>
      /\ toSvr' = [toSvr EXCEPT ![sock[s]] = Tail(toSvr[sock[s]])]
  BY DEF DriverRecv, SvrRead, Net
<1>2. /\ sock[s] \in Conns /\ drv[s] \in DriverType /\ drv[s].vec # <<>>
      /\ toSvr[sock[s]] \in Seq(ToSvrMsg)
  BY <1>1 DEF Base, LinkInv, Linked, CInv, ChanInv
<1>3. /\ 1 \in DOMAIN toSvr[sock[s]] /\ Taken(s) = toSvr[sock[s]][1] /\ Taken(s) \in ToSvrMsg
  BY <1>1, <1>2, TailIs DEF Taken
<1>4. Server(s) = [drv EXCEPT ![s] = Made(s)] /\ Server(s)[s] = Made(s)
  BY DEF Server, Made, Taken, Base, LinkInv
<1>5. drv' = Server(s) /\ sock' = IF Server(s)[s].fatal THEN [sock EXCEPT ![s] = NoCon] ELSE sock
  BY DEF DriverRecv
<1>6. sock = [sock EXCEPT ![s] = sock[s]]
  BY DEF Base, LinkInv
<1> QED
  BY <1>1, <1>2, <1>3, <1>4, <1>5, <1>6

LEMMA MadeIs ==
  ASSUME Base, NEW s \in Svrs, DriverRecv(s)
  PROVE  /\ Made(s) \in DriverType /\ Made(s).svrId = drv[s].svrId
         /\ ~Made(s).fatal => Made(s).vec # <<>>
         /\ Made(s).vec # <<>> => Made(s).vec[1].con = "up"
         /\ Made(s).vec # <<>> /\ ~Link(s).isReg =>
              /\ Made(s).vec[1].sess = Link(s).sess
              /\ Made(s).vec[1].isReg <=> Taken(s).cmd = "RSP_REG" /\ Taken(s).svrId = drv[s].svrId
         /\ Link(s).isReg =>
              /\ Made(s).vec # <<>> /\ Made(s).vec[1].isReg
              /\ \A c \in Cids : Made(s).vec[1].sess[c] # AD!NoSession <=>
                   IF Taken(s).cmd = "NTF_CREATE_SESSION" /\ Taken(s).cid = c THEN TRUE
                   ELSE IF Taken(s).cmd = "NTF_DISCON" /\ Taken(s).cid = c THEN FALSE
                   ELSE Link(s).sess[c] # AD!NoSession
<1>1. drv[s] \in DriverType /\ drv[s].vec # <<>> /\ Taken(s) \in ToSvrMsg /\ Link(s).con = "up"
  BY DriverRecvIs
<1> QED
  BY <1>1, OnRecvIs DEF Made, Link

LEMMA DriverRecvBase ==
  ASSUME Base, NEW s \in Svrs, DriverRecv(s)
  PROVE  Base'
<1> DEFINE k == sock[s]
           e == Made(s)
           m == Taken(s)
           x == IF e.fatal THEN NoCon ELSE k
<1>1. /\ Linked(s) /\ Link(s).con = "up" /\ k \in Conns /\ 1 \in DOMAIN toSvr[k]
      /\ toSvr[k] \in Seq(ToSvrMsg) /\ toSvr[k] # <<>>
      /\ m = toSvr[k][1] /\ m \in ToSvrMsg
      /\ drv' = [drv EXCEPT ![s] = e] /\ sock' = [sock EXCEPT ![s] = x]
      /\ toSvr' = [toSvr EXCEPT ![k] = Tail(toSvr[k])]
      /\ UNCHANGED <<cli, inner, toAcc, answered, runs>> /\ SvrRead(k)
  BY DriverRecvIs
<1>2. /\ e \in DriverType /\ e.svrId = drv[s].svrId
      /\ ~e.fatal => e.vec # <<>>
      /\ e.vec # <<>> => e.vec[1].con = "up"
      /\ e.vec # <<>> /\ ~Link(s).isReg => e.vec[1].sess = Link(s).sess
      /\ Link(s).isReg => e.vec[1].isReg
  BY MadeIs
<1>3. \A c \in Cids : e.vec # <<>> /\ e.vec[1].sess[c] # AD!NoSession =>
        \/ Link(s).sess[c] # AD!NoSession
        \/ m.cmd = "NTF_CREATE_SESSION" /\ m.cid = c
  BY MadeIs
<1> HIDE DEF e, m
<1>4. IInv' /\ CInv' /\ Onward
  <2>1. [AccStep]_accVars
    BY <1>1 DEF AccStep
  <2> QED
    BY <2>1, AccForth DEF Base
<1>5. LinkInv'
  <2>1. x \in Conns \cup {NoCon}
    BY <1>1
  <2>2. e.vec # <<>> => /\ e.vec[1].isReg => e.vec[1].con = "up"
                        /\ ~e.vec[1].isReg => e.vec[1].sess = AD!NoSessions
    BY <1>1, <1>2 DEF Base, LinkInv
  <2>3. x # NoCon => /\ e.vec # <<>> /\ e.vec[1].con = "up" /\ Alive(inner'[x])
                     /\ \A t \in Svrs \ {s} : sock[t] # x
    BY <1>1, <1>2 DEF Base, LinkInv
  <2>4. \A t \in Svrs \ {s} : sock[t] # NoCon => Alive(inner'[sock[t]])
    BY <1>1 DEF Base, LinkInv
  <2>5. /\ LinkInv /\ e \in DriverType /\ e.svrId = drv[s].svrId
        /\ drv' = [drv EXCEPT ![s] = e] /\ sock' = [sock EXCEPT ![s] = x]
    BY <1>1, <1>2 DEF Base
  <2> HIDE DEF x
  <2> QED
    BY <2>1, <2>2, <2>3, <2>4, <2>5, OneLinkChanges
<1>6. SentInv'
  <2>1. \A j \in Conns \ {k} : toSvr'[j] = toSvr[j]
    BY <1>1 DEF Base, CInv, ChanInv
  <2>2. /\ sock'[s] \in {k, NoCon}
        /\ \A t \in Svrs \ {s} : drv'[t] = drv[t] /\ sock'[t] = sock[t]
    BY <1>1 DEF Base, LinkInv
  <2>3. ASSUME NEW j \in Conns, NEW i \in DOMAIN toAcc'[j]
        PROVE  /\ i \in DOMAIN toAcc[j] /\ toAcc'[j][i] = toAcc[j][i]
               /\ FirstThing(j, i) =>
                    /\ SameIds(j) /\ toSvr'[j] = toSvr[j]
                    /\ \A t \in Svrs : sock'[t] = j => sock[t] = j /\ (Link(t)'.isReg => Link(t).isReg)
    <3>1. ASSUME FirstThing(j, i)
          PROVE  /\ SameIds(j) /\ toSvr'[j] = toSvr[j]
                 /\ \A t \in Svrs : sock'[t] = j => sock[t] = j /\ (Link(t)'.isReg => Link(t).isReg)
      <4>1. j # k
        BY <1>1, <3>1 DEF FirstThing
      <4> QED
        BY <1>1, <2>1, <2>2, <4>1, IdFacts DEF SameIds, Link
    <3> QED
      BY <1>1, <3>1
  <2>4. SentInv /\ UNCHANGED <<cli, answered>> /\ toAcc' \in [Conns -> Seq(SentType)]
    BY <1>1 DEF Base, SentInv
  <2> QED
    BY <2>3, <2>4, SentSame
<1>7. AskInv'
  <2>1. CASE m.cmd = "NTF_VERIFY_REQ"
    <3>1. m.cid \in Cids
      BY <1>1, <2>1, MsgFields
    <3>2. StageOf(cli[m.cid]) \in AskedOn
      BY <1>1, <2>1 DEF Base, CInv, ChanInv, Stands, AskedOn
    <3>3. ask' \in {ask, [ask EXCEPT ![s] = ask[s] \cup {<<m.cid, runs>>}]}
      BY DEF DriverRecv, m, Taken
    <3>4. runs \in Nat /\ ask \in [Svrs -> SUBSET (Cids \X Nat)]
      BY DEF Base, AskInv
    <3>5. ask' \in [Svrs -> SUBSET (Cids \X Nat)]
      BY <3>1, <3>3, <3>4
    <3>6. \A t \in Svrs : \A q \in ask'[t] : q \in ask[t] \/ (q[1] = m.cid /\ q[2] = runs)
      BY <3>3, <3>4
    <3>7. runs <= runs
      BY <3>4
    <3> QED
      BY <1>1, <3>2, <3>5, <3>6, <3>7 DEF Base, AskInv, AdmittedWasAnswered
  <2>2. CASE m.cmd # "NTF_VERIFY_REQ"
    <3>1. UNCHANGED ask
      BY <2>2 DEF DriverRecv, m, Taken
    <3> QED
      BY <1>1, <3>1, SameClients DEF Base
  <2> QED
    BY <2>1, <2>2
<1>8. HeldInv'
  <2>1. \A c \in Cids : e.vec # <<>> /\ e.vec[1].sess[c] # AD!NoSession =>
          StageOf(cli[c]) \in InOn
    BY <1>1, <1>3, IdFacts DEF Base, HeldInv
  <2>2. \A j \in Conns : \A i \in DOMAIN toSvr'[j] : \E h \in DOMAIN toSvr[j] : toSvr'[j][i] = toSvr[j][h]
    <3> DEFINE u == Tail(toSvr[k])
    <3>1. \A i \in DOMAIN u : i + 1 \in DOMAIN toSvr[k] /\ u[i] = toSvr[k][i + 1]
      BY <1>1, TailIs
    <3>2. toSvr' = [toSvr EXCEPT ![k] = u]
      BY <1>1
    <3> HIDE DEF u
    <3>3. toSvr'[k] = u /\ \A j \in Conns \ {k} : toSvr'[j] = toSvr[j]
      BY <1>1, <3>2 DEF Base, CInv, ChanInv
    <3> QED
      BY <3>1, <3>3
  <2>3. /\ LinkInv /\ HeldInv /\ UNCHANGED cli
        /\ drv' = [drv EXCEPT ![s] = e] /\ sock' = [sock EXCEPT ![s] = x]
    BY <1>1 DEF Base
  <2> HIDE DEF x
  <2> QED
    BY <2>1, <2>2, <2>3, HeldOne
<1> QED
  BY <1>4, <1>5, <1>6, <1>7, <1>8 DEF Base
------------------------------------------------------------------------------
(* A server asks for something. *)

LEMMA AppendIs ==
  ASSUME NEW S, NEW q \in Seq(S), NEW p \in Seq(S)
  PROVE  /\ q \o p \in Seq(S)
         /\ \A i \in DOMAIN (q \o p) :
              \/ i \in DOMAIN q /\ (q \o p)[i] = q[i]
              \/ \E h \in DOMAIN p : (q \o p)[i] = p[h]
<1> DEFINE g == q \o p
<1>1. /\ g \in Seq(S) /\ Len(g) = Len(q) + Len(p)
      /\ \A i \in 1..(Len(q) + Len(p)) : g[i] = IF i <= Len(q) THEN q[i] ELSE p[i - Len(q)]
      /\ Len(q) \in Nat /\ DOMAIN q = 1..Len(q) /\ Len(p) \in Nat /\ DOMAIN p = 1..Len(p)
  BY ConcatProperties, LenProperties
<1> HIDE DEF g
<1>2. DOMAIN g = 1..(Len(q) + Len(p))
  BY <1>1, LenProperties
<1>3. ASSUME NEW i \in DOMAIN g
      PROVE  \/ i \in DOMAIN q /\ g[i] = q[i]
             \/ \E h \in DOMAIN p : g[i] = p[h]
  <2>1. CASE i <= Len(q)
    BY <1>1, <1>2, <2>1
  <2>2. CASE ~(i <= Len(q))
    <3>1. i - Len(q) \in DOMAIN p
      BY <1>1, <1>2, <2>2
    <3> QED
      BY <1>1, <1>2, <2>2, <3>1
  <2> QED
    BY <2>1, <2>2
<1> QED
  BY <1>1, <1>3 DEF g

(* More requests over the connection of s, none a registration. *)
LEMMA MoreSent ==
  ASSUME Base, NEW s \in Svrs, sock[s] # NoCon, NEW reqs \in Seq(SentType),
         toAcc' = [toAcc EXCEPT ![sock[s]] = toAcc[sock[s]] \o reqs],
         \A h \in DOMAIN reqs : reqs[h].cmd # "REQ_REG" /\ Claims(reqs[h], cli', answered'),
         UNCHANGED <<cli, inner, toSvr, sock>>, answered \subseteq answered',
         \A t \in Svrs : drv'[t].vec = drv[t].vec
  PROVE  SentInv'
<1> DEFINE k == sock[s]
           q == toAcc[k]
           g == q \o reqs
<1>1. k \in Conns /\ toAcc \in [Conns -> Seq(SentType)]
  BY DEF Base, LinkInv, SentInv
<1>2. /\ g \in Seq(SentType)
      /\ \A i \in DOMAIN g : \/ i \in DOMAIN q /\ g[i] = q[i]
                             \/ \E h \in DOMAIN reqs : g[i] = reqs[h]
  BY <1>1, AppendIs
<1>3. toAcc' = [toAcc EXCEPT ![k] = g]
  OBVIOUS
<1> HIDE DEF g
<1>4. /\ toAcc' \in [Conns -> Seq(SentType)] /\ toAcc'[k] = g
      /\ \A j \in Conns \ {k} : toAcc'[j] = toAcc[j]
  BY <1>1, <1>2, <1>3
<1>5. ASSUME NEW j \in Conns, NEW i \in DOMAIN toAcc'[j]
      PROVE  \/ i \in DOMAIN toAcc[j] /\ toAcc'[j][i] = toAcc[j][i]
             \/ \E h \in DOMAIN reqs : toAcc'[j][i] = reqs[h]
  BY <1>2, <1>4
<1>6. ASSUME NEW j \in Conns, NEW i \in DOMAIN toAcc'[j]
      PROVE  Claims(toAcc'[j][i], cli', answered')
  <2>1. CASE i \in DOMAIN toAcc[j] /\ toAcc'[j][i] = toAcc[j][i]
    <3>1. Claims(toAcc[j][i], cli, answered)
      BY <2>1 DEF Base, SentInv
    <3> QED
      BY <2>1, <3>1 DEF Claims
  <2>2. CASE \E h \in DOMAIN reqs : toAcc'[j][i] = reqs[h]
    BY <2>2
  <2> QED
    BY <1>5, <2>1, <2>2
<1>7. ASSUME NEW j \in Conns, NEW i \in DOMAIN toAcc'[j], toAcc'[j][i].cmd = "REQ_REG"
      PROVE  FirstThing(j, i)'
  <2>1. i \in DOMAIN toAcc[j] /\ toAcc'[j][i] = toAcc[j][i]
    BY <1>5, <1>7
  <2>2. FirstThing(j, i)
    BY <1>7, <2>1 DEF Base, SentInv
  <2> QED
    BY <2>1, <2>2, FirstKept DEF SameIds, Link
<1> QED
  BY <1>4, <1>6, <1>7 DEF SentInv

LEMMA CallBase ==
  ASSUME Base, NEW s \in Svrs, NEW r \in SentType, NEW reqs, reqs \in {<<>>, <<r>>}, Sends(s, reqs),
         r.cmd # "REQ_REG", answered \subseteq answered', AskInv',
         sock[s] # NoCon => Claims(r, cli', answered')
  PROVE  Base'
<1>1. /\ UNCHANGED <<cli, inner, toSvr, drv, sock>> /\ UNCHANGED accVars
      /\ reqs = <<r>>
  BY DEF Sends, accVars
<1>2. IInv' /\ CInv'
  BY <1>1, AccForth DEF Base
<1>3. LinkInv' /\ HeldInv'
  BY <1>1 DEF Base, LinkInv, HeldInv, Linked, Link
<1>4. SentInv'
  <2>1. CASE sock[s] = NoCon
    <3>1. UNCHANGED toAcc
      BY <2>1 DEF Sends
    <3>2. \A j \in Conns : \A i \in DOMAIN toAcc[j] : Claims(toAcc[j][i], cli', answered')
      BY <1>1 DEF Base, SentInv, Claims
    <3> QED
      BY <1>1, <3>1, <3>2 DEF Base, SentInv, FirstThing, Silent, Link
  <2>2. CASE sock[s] # NoCon
    <3> DEFINE p == <<r>>
    <3>1. p \in Seq(SentType) /\ \A h \in DOMAIN p : p[h] = r
      OBVIOUS
    <3> HIDE DEF p
    <3>2. toAcc' = [toAcc EXCEPT ![sock[s]] = toAcc[sock[s]] \o p]
      BY <1>1, <2>2 DEF Sends, p
    <3> QED
      BY <1>1, <2>2, <3>1, <3>2, MoreSent
  <2> QED
    BY <2>1, <2>2
<1> QED
  BY <1>2, <1>3, <1>4 DEF Base

(* An answer to a verify request, as acc reads it. *)
LEMMA VerifyRets ==
  ASSUME NEW r \in [cmd : {"REQ_VERIFY_RET"}, cid : Cids \cup {NoCid}, isSuccess : BOOLEAN,
                    uin : Uins \cup {0}, accName : Names]
  PROVE  r \in SentType
<1>1. r \in RequestType
  BY DEF RequestType
<1> QED
  BY <1>1 DEF SentType

LEMMA RetIsSent ==
  ASSUME NEW c \in Cids, NEW ok \in BOOLEAN, NEW u \in Uins \cup {0}, NEW name \in {"", "ann"}
  PROVE  [cmd |-> "REQ_VERIFY_RET", cid |-> c, isSuccess |-> ok, uin |-> u, accName |-> name]
           \in SentType
<1>1. name \in Names
  BY SystemAssumption
<1> QED
  BY <1>1, VerifyRets

(* It is of a client that was asked about. *)
LEMMA AnswerBase ==
  ASSUME Base, Timely, NEW s \in Svrs, Answer(s)
  PROVE  Base'
<1>1. PICK q \in ask[s], ok \in BOOLEAN, uin \in Uins :
        /\ Sends(s, AD!ReqVerifyRet(drv[s], 1, q[1], ok, uin, "ann"))
        /\ ask' = [ask EXCEPT ![s] = ask[s] \ {q}]
        /\ answered' = IF ok /\ q[2] = runs THEN answered \cup {q[1]} ELSE answered
  BY DEF Answer
<1> DEFINE r    == [cmd |-> "REQ_VERIFY_RET", cid |-> q[1], isSuccess |-> ok, uin |-> uin,
                    accName |-> "ann"]
           reqs == AD!ReqVerifyRet(drv[s], 1, q[1], ok, uin, "ann")
<1>2. /\ runs \in Nat /\ ask \in [Svrs -> SUBSET (Cids \X Nat)] /\ answered \subseteq Cids
      /\ q[2] = runs => StageOf(cli[q[1]]) \in AskedOn
  BY DEF Base, AskInv
<1>3. q[1] \in Cids /\ q[2] = runs
  <2>1. q \in ask[s] \ ask'[s]
    BY <1>1, <1>2
  <2> QED
    BY <1>2, <2>1 DEF Timely
<1>4. r \in SentType
  BY <1>3, RetIsSent
<1>5. reqs \in {<<>>, <<r>>}
  BY DEF AD!ReqVerifyRet, AD!When
<1>6. UNCHANGED <<cli, runs>>
  BY <1>1 DEF Sends, accVars, Net
<1>7. /\ answered \subseteq answered' /\ answered' \subseteq Cids
      /\ ok => q[1] \in answered'
  BY <1>1, <1>2, <1>3
<1>8. Claims(r, cli', answered') /\ r.cmd # "REQ_REG"
  BY <1>2, <1>3, <1>6, <1>7 DEF Claims, SessionCalls
<1>9. AskInv'
  <2>1. /\ ask' \in [Svrs -> SUBSET (Cids \X Nat)]
        /\ \A t \in Svrs : ask'[t] \subseteq ask[t]
    BY <1>1, <1>2
  <2> QED
    BY <1>6, <1>7, <2>1 DEF Base, AskInv, AdmittedWasAnswered
<1> HIDE DEF r, reqs
<1>10. Sends(s, reqs)
  BY <1>1 DEF reqs
<1> QED
  BY <1>4, <1>5, <1>7, <1>8, <1>9, <1>10, CallBase

LEMMA AnswerMsgBase ==
  ASSUME Base, NEW s \in Svrs, AnswerMsg(s)
  PROVE  Base'
<1>1. PICK q \in ask[s], ok \in BOOLEAN :
        /\ Sends(s, AD!ReqVerifyRetMsg(drv[s], 1, q[1], ok))
        /\ ask' = [ask EXCEPT ![s] = ask[s] \ {q}]
        /\ answered' = IF ok /\ q[2] = runs THEN answered \cup {q[1]} ELSE answered
  BY DEF AnswerMsg
<1> DEFINE r    == [cmd |-> "REQ_VERIFY_RET", cid |-> q[1], isSuccess |-> FALSE, uin |-> 0,
                    accName |-> ""]
           reqs == AD!ReqVerifyRetMsg(drv[s], 1, q[1], ok)
<1>2. /\ runs \in Nat /\ ask \in [Svrs -> SUBSET (Cids \X Nat)] /\ answered \subseteq Cids
  BY DEF Base, AskInv
<1>3. q[1] \in Cids
  BY <1>2
<1>4. r \in SentType
  BY <1>3, RetIsSent
<1>5. reqs \in {<<>>, <<r>>}
  BY DEF AD!ReqVerifyRetMsg, AD!ReqVerifyRet, AD!When
<1>6. UNCHANGED <<cli, runs>>
  BY <1>1 DEF Sends, accVars, Net
<1>7. answered \subseteq answered' /\ answered' \subseteq Cids
  BY <1>1, <1>2, <1>3
<1>8. Claims(r, cli', answered') /\ r.cmd # "REQ_REG"
  BY DEF Claims, SessionCalls
<1>9. AskInv'
  <2>1. /\ ask' \in [Svrs -> SUBSET (Cids \X Nat)]
        /\ \A t \in Svrs : ask'[t] \subseteq ask[t]
    BY <1>1, <1>2
  <2> QED
    BY <1>6, <1>7, <2>1 DEF Base, AskInv, AdmittedWasAnswered
<1> HIDE DEF r, reqs
<1>10. Sends(s, reqs)
  BY <1>1 DEF reqs
<1> QED
  BY <1>4, <1>5, <1>7, <1>8, <1>9, <1>10, CallBase

(* A request that is no verify answer, from a server whose requests about a *)
(* client need a session of it.                                             *)
LEMMA OtherCallBase ==
  ASSUME Base, NEW s \in Svrs, NEW r \in SentType, NEW reqs, reqs \in {<<>>, <<r>>}, Sends(s, reqs),
         UNCHANGED <<ask, answered>>, r.cmd \notin {"REQ_REG", "REQ_VERIFY_RET"},
         r.cmd \in SessionCalls => r.cid \in Cids /\ AD!HasSession(drv[s], 1, r.cid)
  PROVE  Base'
<1>1. UNCHANGED <<cli, runs>>
  BY DEF Sends, accVars, Net
<1>2. ASSUME sock[s] # NoCon, NEW c \in Cids, AD!HasSession(drv[s], 1, c)
      PROVE  StageOf(cli[c]) \in InOn
  <2>1. Linked(s)
    BY <1>2 DEF AD!HasSession, AD!Usable, Linked
  <2> QED
    BY <1>2, <2>1 DEF AD!HasSession, Base, HeldInv, Link
<1>3. sock[s] # NoCon => Claims(r, cli', answered')
  BY <1>1, <1>2 DEF Claims
<1>4. AskInv'
  BY <1>1, SameClients DEF Base
<1> QED
  BY <1>3, <1>4, CallBase

(* What a call about a session asks for, and of whom. *)
LEMMA SessionCallIs ==
  ASSUME NEW s \in Svrs, CallOnSession(s)
  PROVE  /\ UNCHANGED <<ask, answered>>
         /\ \E c \in Cids, r \in RequestType :
              /\ r.cid = c /\ r.cmd \in SessionCalls
              /\ Sends(s, IF AD!HasSession(drv[s], 1, c) THEN <<r>> ELSE <<>>)
<1> DEFINE Asks == \E c \in Cids, r \in RequestType :
                     /\ r.cid = c /\ r.cmd \in SessionCalls
                     /\ Sends(s, IF AD!HasSession(drv[s], 1, c) THEN <<r>> ELSE <<>>)
<1>1. UNCHANGED <<ask, answered>>
  BY DEF CallOnSession, Apps
<1>2. ASSUME NEW c \in Cids, NEW r \in RequestType, NEW reqs, Sends(s, reqs),
             reqs = IF AD!HasSession(drv[s], 1, c) THEN <<r>> ELSE <<>>,
             r.cid = c, r.cmd \in SessionCalls
      PROVE  Asks
  BY <1>2
<1> HIDE DEF Asks
<1>3. ASSUME NEW c \in Cids, Sends(s, AD!SendToClient(drv[s], 1, c))
      PROVE  Asks
  <2> DEFINE r == [cmd |-> "REQ_FORWARD", cid |-> c]
  <2>1. r \in RequestType
    BY DEF RequestType
  <2> QED
    BY <1>2, <1>3, <2>1 DEF SessionCalls, AD!SendToClient, AD!When
<1>4. ASSUME NEW c \in Cids, Sends(s, AD!DisconClient(drv[s], 1, c))
      PROVE  Asks
  <2> DEFINE r == [cmd |-> "REQ_DISCON", cid |-> c]
  <2>1. r \in RequestType
    BY DEF RequestType
  <2> QED
    BY <1>2, <1>4, <2>1 DEF SessionCalls, AD!DisconClient, AD!When
<1>5. ASSUME NEW c \in Cids, NEW on \in BOOLEAN, Sends(s, AD!SetCache(drv[s], 1, c, on))
      PROVE  Asks
  <2> DEFINE r == [cmd |-> "REQ_CACHE_MSG", cid |-> c, isCache |-> on]
  <2>1. r \in RequestType
    BY DEF RequestType
  <2> QED
    BY <1>2, <1>5, <2>1 DEF SessionCalls, AD!SetCache, AD!When
<1>6. ASSUME NEW c \in Cids, NEW g \in Grps, NEW id \in Ids,
             Sends(s, AD!SetActiveSvrId(drv[s], 1, c, g, id))
      PROVE  Asks
  <2> DEFINE r == [cmd |-> "REQ_SET_ACTIVE_SVR", cid |-> c, grpId |-> g, svrId |-> id]
  <2>1. g \in Ids
    BY DEF Grps
  <2>2. r \in RequestType
    BY <2>1 DEF RequestType
  <2> QED
    BY <1>2, <1>6, <2>2 DEF SessionCalls, AD!SetActiveSvrId, AD!When
<1>7. ASSUME NEW c \in Cids, NEW uin \in Uins,
             Sends(s, AD!BroadcastUinToSession(drv[s], 1, c, uin))
      PROVE  Asks
  <2> DEFINE r == [cmd |-> "REQ_BROADCAST_UIN", cid |-> c, uin |-> uin]
  <2>1. r \in RequestType
    BY DEF RequestType
  <2> QED
    BY <1>2, <1>7, <2>1 DEF SessionCalls, AD!BroadcastUinToSession, AD!When
<1>8. Asks
  BY <1>3, <1>4, <1>5, <1>6, <1>7 DEF CallOnSession
<1> QED
  BY <1>1, <1>8 DEF Asks

LEMMA SessionCallBase ==
  ASSUME Base, NEW s \in Svrs, CallOnSession(s)
  PROVE  Base'
<1>1. PICK c \in Cids, r \in RequestType :
        /\ r.cid = c /\ r.cmd \in SessionCalls
        /\ Sends(s, IF AD!HasSession(drv[s], 1, c) THEN <<r>> ELSE <<>>)
  BY SessionCallIs
<1>2. AD!HasSession(drv[s], 1, c) /\ Sends(s, <<r>>)
  BY <1>1 DEF Sends
<1>3. r \in SentType /\ r.cmd \notin {"REQ_REG", "REQ_VERIFY_RET"}
  BY <1>1 DEF SentType, SessionCalls
<1> QED
  BY <1>1, <1>2, <1>3, SessionCallIs, OtherCallBase

LEMMA AccsCallIs ==
  ASSUME NEW s \in Svrs, CallOnAccs(s)
  PROVE  /\ UNCHANGED <<ask, answered>>
         /\ \E r \in SentType : \E reqs \in {<<>>, <<r>>} :
              r.cmd \in {"REQ_BROADCAST", "REQ_DISCON_ALL", "REQ_SET_CMD_2_GRP"} /\ Sends(s, reqs)
<1> DEFINE Asks == \E r \in SentType : \E reqs \in {<<>>, <<r>>} :
                     /\ r.cmd \in {"REQ_BROADCAST", "REQ_DISCON_ALL", "REQ_SET_CMD_2_GRP"}
                     /\ Sends(s, reqs)
<1>1. UNCHANGED <<ask, answered>>
  BY DEF CallOnAccs, Apps
<1>2. ASSUME NEW r \in SentType, NEW reqs, Sends(s, reqs), reqs \in {<<>>, <<r>>},
             r.cmd \in {"REQ_BROADCAST", "REQ_DISCON_ALL", "REQ_SET_CMD_2_GRP"}
      PROVE  Asks
  BY <1>2
<1> HIDE DEF Asks
<1>3. ASSUME NEW cids \in {<<>>} \cup {<<c>> : c \in Cids},
             Sends(s, AD!BroadCastToClient(drv[s], 1, cids))
      PROVE  Asks
  <2>1. cids \in Seq(Cids \cup {NoCid})
    <3> DEFINE none == <<>>
    <3>1. none \in Seq(Cids \cup {NoCid})
      OBVIOUS
    <3>2. ASSUME NEW c \in Cids
          PROVE  <<c>> \in Seq(Cids \cup {NoCid})
      OBVIOUS
    <3> QED
      BY <1>3, <3>1, <3>2
  <2> DEFINE r == [cmd |-> "REQ_BROADCAST", cids |-> cids]
  <2>2. r \in RequestType
    BY <2>1 DEF RequestType
  <2>3. r \in SentType
    BY <2>2 DEF SentType
  <2>4. AD!BroadCastToClient(drv[s], 1, cids) \in {<<>>, <<r>>}
    BY DEF AD!BroadCastToClient, AD!When
  <2> QED
    BY <1>2, <1>3, <2>3, <2>4
<1>4. ASSUME Sends(s, AD!DisconAllClient(drv[s], 1))
      PROVE  Asks
  <2> DEFINE r == [cmd |-> "REQ_DISCON_ALL"]
  <2>1. r \in RequestType
    BY DEF RequestType
  <2>2. r \in SentType
    BY <2>1 DEF SentType
  <2>3. AD!DisconAllClient(drv[s], 1) \in {<<>>, <<r>>}
    BY DEF AD!DisconAllClient, AD!When
  <2> QED
    BY <1>2, <1>4, <2>2, <2>3
<1>5. ASSUME NEW g \in Grps, Sends(s, AD!SetMainCmd2GrpId(drv[s], 1, g, MainCmds))
      PROVE  Asks
  <2> DEFINE r == [cmd |-> "REQ_SET_CMD_2_GRP", raw |-> TRUE, grpId |-> g, cmds |-> MainCmds]
  <2>1. r \in SentType
    BY DEF SentType
  <2>2. AD!SetMainCmd2GrpId(drv[s], 1, g, MainCmds) \in {<<>>, <<r>>}
    BY DEF AD!SetMainCmd2GrpId, AD!When
  <2> QED
    BY <1>2, <1>5, <2>1, <2>2
<1>6. Asks
  BY <1>3, <1>4, <1>5 DEF CallOnAccs
<1> QED
  BY <1>1, <1>6 DEF Asks

LEMMA AccsCallBase ==
  ASSUME Base, NEW s \in Svrs, CallOnAccs(s)
  PROVE  Base'
BY AccsCallIs, OtherCallBase DEF SessionCalls

LEMMA SetingIs ==
  ASSUME NEW x \in Setings
  PROVE  [cmd |-> "REQ_ACC_SETING", seting |-> x] \in SentType
<1> DEFINE r == [cmd |-> "REQ_ACC_SETING", seting |-> x]
<1>1. r \in [cmd : {"REQ_ACC_SETING"}, seting : SetingType]
  BY SetingsAssumption
<1> HIDE DEF r
<1>2. r \in RequestType
  BY <1>1 DEF RequestType
<1>3. r \in SentType
  BY <1>2 DEF SentType
<1> QED
  BY <1>3 DEF r

LEMMA ChooseSetingBase ==
  ASSUME Base, NEW s \in Svrs, ChooseSeting(s)
  PROVE  Base'
<1>1. PICK x \in Setings :
        /\ drv' = [drv EXCEPT ![s] = AD!SetAccSeting(drv[s], x)]
        /\ IF Link(s).con = "up" /\ sock[s] # NoCon
           THEN toAcc' = [toAcc EXCEPT ![sock[s]] = toAcc[sock[s]] \o drv'[s].seting]
           ELSE UNCHANGED toAcc
  BY DEF ChooseSeting
<1> DEFINE e == AD!SetAccSeting(drv[s], x)
           r == [cmd |-> "REQ_ACC_SETING", seting |-> x]
           p == <<r>>
<1>2. /\ UNCHANGED <<cli, inner, toSvr, sock, ask, answered, runs>> /\ UNCHANGED accVars
  BY DEF ChooseSeting, accVars, Apps, Net
<1>3. e \in DriverType /\ e.vec = drv[s].vec /\ e.svrId = drv[s].svrId /\ e.seting = p
  BY SetAccSetingIs DEF Base, LinkInv
<1>4. p \in Seq(SentType) /\ \A h \in DOMAIN p : p[h].cmd = "REQ_ACC_SETING"
  <2>1. r \in SentType /\ r.cmd = "REQ_ACC_SETING"
    BY SetingIs
  <2> HIDE DEF r
  <2> QED
    BY <2>1
<1> HIDE DEF e, p
<1>5. /\ drv'[s] = e /\ \A t \in Svrs : drv'[t].vec = drv[t].vec
      /\ \A t \in Svrs : drv'[t] \in DriverType /\ drv'[t].svrId = drv[t].svrId
      /\ drv' \in [Svrs -> DriverType]
  BY <1>1, <1>3 DEF Base, LinkInv, e
<1>6. \A t \in Svrs : Link(t)' = Link(t) /\ (Linked(t)' <=> Linked(t))
  BY <1>5 DEF Link, Linked
<1>7. IInv' /\ CInv' /\ Onward /\ AskInv'
  BY <1>2, AccForth, SameClients DEF Base
<1>8. LinkInv'
  BY <1>2, <1>5, <1>6 DEF Base, LinkInv
<1>9. HeldInv'
  BY <1>2, <1>6 DEF Base, HeldInv
<1>10. SentInv'
  <2>1. CASE UNCHANGED toAcc
    <3>1. \A j \in Conns : \A i \in DOMAIN toAcc[j] : Claims(toAcc[j][i], cli', answered')
      BY <1>2 DEF Base, SentInv, Claims
    <3> QED
      BY <1>2, <1>6, <2>1, <3>1 DEF Base, SentInv, FirstThing, Silent
  <2>2. CASE Link(s).con = "up" /\ sock[s] # NoCon
    <3>1. toAcc' = [toAcc EXCEPT ![sock[s]] = toAcc[sock[s]] \o p]
      BY <1>1, <1>3, <1>5, <2>2
    <3>2. \A h \in DOMAIN p : p[h].cmd # "REQ_REG" /\ Claims(p[h], cli', answered')
      BY <1>4 DEF Claims, SessionCalls
    <3> QED
      BY <1>2, <1>4, <1>5, <2>2, <3>1, <3>2, MoreSent
  <2> QED
    BY <1>1, <2>1, <2>2
<1> QED
  BY <1>7, <1>8, <1>9, <1>10 DEF Base
------------------------------------------------------------------------------
(* All steps. *)

LEMMA FirstDriver ==
  ASSUME NEW s \in Svrs
  PROVE  LET d == AD!InitCons(AD!NewConMgr, <<"acc">>, 1, SvrIdOf[s], s \in Verifiers)
         IN  /\ d \in DriverType /\ d.svrId = SvrIdOf[s] /\ d.vec # <<>>
             /\ ~d.vec[1].isReg /\ d.vec[1].sess = AD!NoSessions
<1> DEFINE d == AD!InitCons(AD!NewConMgr, <<"acc">>, 1, SvrIdOf[s], s \in Verifiers)
           a == <<"acc">>
           z == <<>>
           l == AD!NewLink(a[1])
           v == [i \in 1..1 |-> AD!NewLink(a[i])]
<1>1. a[1] = "acc" /\ z \in Seq(Ids \cup {0}) /\ z = <<>>
  OBVIOUS
<1> HIDE DEF a
<1>2. l \in AD!LinkType /\ ~l.isReg /\ l.sess = AD!NoSessions
  BY <1>1 DEF AD!NewLink, AD!LinkType, AD!NoSessions
<1>3. v = [i \in {1} |-> l]
  OBVIOUS
<1> HIDE DEF l
<1>4. v \in [{1} -> AD!LinkType] /\ v[1] = l
  BY <1>2, <1>3
<1> HIDE DEF v
<1>5. d = [vec |-> v, svrId |-> SvrIdOf[s], isVerify |-> s \in Verifiers, fatal |-> FALSE,
           isReg |-> FALSE, seting |-> z, results |-> z]
  <2> DEFINE n == AD!NewConMgr
  <2>1. d = [n EXCEPT !.svrId = SvrIdOf[s], !.isVerify = s \in Verifiers, !.vec = v]
    BY DEF AD!InitCons, v, a
  <2>2. n = [vec |-> z, svrId |-> 0, isVerify |-> FALSE, fatal |-> FALSE, isReg |-> FALSE,
             seting |-> z, results |-> z]
    BY DEF AD!NewConMgr
  <2> HIDE DEF n, d, z
  <2> QED
    BY <2>1, <2>2
<1>6. SvrIdOf[s] \in Ids
  BY SystemAssumption
<1> HIDE DEF z
<1>7. d \in DriverType
  <2> HIDE DEF d
  <2>1. v \in {<<>>} \cup [{1} -> AD!LinkType]
    BY <1>4
  <2>2. z \in {<<>>} \cup {<<x>> : x \in [cmd : {"REQ_ACC_SETING"}, seting : Setings]}
    BY <1>1
  <2>3. (s \in Verifiers) \in BOOLEAN
    OBVIOUS
  <2> QED
    BY <1>1, <1>5, <1>6, <2>1, <2>2, <2>3 DEF DriverType
<1>8. v # <<>>
  BY <1>4, OneLink
<1> HIDE DEF d
<1>9. d.vec = v /\ d.svrId = SvrIdOf[s]
  BY <1>5
<1> QED
  BY <1>2, <1>4, <1>7, <1>8, <1>9 DEF d

(* What a restart leaves of acc is what acc starts with. *)
LEMMA RestartAcc == AccRestart => IInv' /\ CInv'
<1>1. AccRestart => Init'
  BY DEF AccRestart, Init
<1>2. Init => IInv /\ CInv
  BY InitIInv, InitCInv
<1>3. Init' => IInv' /\ CInv'
  BY <1>2, PTL
<1> QED
  BY <1>1, <1>3

LEMMA InitBase ==
  ASSUME SysInit
  PROVE  Base
<1>1. IInv /\ CInv
  BY InitIInv, InitCInv DEF SysInit
<1>2. ASSUME NEW s \in Svrs
      PROVE  /\ drv[s] \in DriverType /\ drv[s].svrId = SvrIdOf[s]
             /\ ~Link(s).isReg /\ Link(s).sess = AD!NoSessions /\ sock[s] = NoCon
  BY FirstDriver DEF SysInit, Link
<1>3. LinkInv
  BY <1>2 DEF LinkInv, SysInit
<1> DEFINE z == <<>>
<1>4. toAcc = [k \in Conns |-> z] /\ toSvr = [k \in Conns |-> z] /\ DOMAIN z = {} /\ z \in Seq(SentType)
  BY DEF SysInit, Init
<1> HIDE DEF z
<1>5. SentInv
  BY <1>4 DEF SentInv
<1>6. AskInv
  BY DEF AskInv, AdmittedWasAnswered, SysInit, Init, NewClient
<1>7. HeldInv
  BY <1>2, <1>4 DEF HeldInv, AD!NoSessions
<1> QED
  BY <1>1, <1>3, <1>5, <1>6, <1>7 DEF Base

(* acc starts again: it knows nobody, and no driver has a connection.       *)
LEMMA RestartBase ==
  ASSUME Base, AccRestart
  PROVE  Base'
<1>1. IInv' /\ CInv'
  BY RestartAcc
<1>2. runs \in Nat /\ runs' = runs + 1 /\ drv' = drv /\ ask' = ask /\ answered' = {}
  BY DEF AccRestart, Base, AskInv
<1>3. \A s \in Svrs : sock'[s] = NoCon
  BY DEF AccRestart
<1>4. LinkInv'
  <2>1. sock' \in [Svrs -> Conns \cup {NoCon}]
    BY DEF AccRestart
  <2> QED
    BY <1>2, <1>3, <2>1 DEF Base, LinkInv, Linked, Link
<1> DEFINE z == <<>>
<1>5. /\ toAcc' = [k \in Conns |-> z] /\ toSvr' = [k \in Conns |-> z]
      /\ DOMAIN z = {} /\ z \in Seq(SentType)
  BY DEF AccRestart
<1> HIDE DEF z
<1>6. SentInv'
  BY <1>5 DEF SentInv
<1>7. AskInv'
  <2>1. \A s \in Svrs : \A q \in ask'[s] : q[2] <= runs' /\ q[2] # runs'
    <3>1. ASSUME NEW s \in Svrs, NEW q \in ask[s]
          PROVE  q[2] <= runs + 1 /\ q[2] # runs + 1
      <4>1. q[2] \in Nat /\ q[2] <= runs
        BY DEF Base, AskInv
      <4> QED
        BY <1>2, <4>1
    <3> QED
      BY <1>2, <3>1
  <2>2. AdmittedWasAnswered'
    BY DEF AccRestart, AdmittedWasAnswered, NewClient
  <2>3. runs' \in Nat /\ ask' \in [Svrs -> SUBSET (Cids \X Nat)] /\ answered' \subseteq Cids
    BY <1>2 DEF Base, AskInv
  <2> QED
    BY <2>1, <2>2, <2>3 DEF AskInv
<1>8. HeldInv'
  BY <1>3, <1>5 DEF HeldInv
<1> QED
  BY <1>1, <1>4, <1>6, <1>7, <1>8 DEF Base

LEMMA BaseForth ==
  ASSUME Base, Timely, SysNext
  PROVE  Base'
<1>1. CASE ClientSide
  BY <1>1, ClientSideBase
<1>2. ASSUME NEW k \in Conns, Idle, AccRecv(k) \/ AccNotices(k) \/ AccBreak(k) \/ Destroy(k)
      PROVE  Base'
  BY <1>2, AccRecvBase, AccBreakBase, DestroyBase
<1>3. ASSUME NEW s \in Svrs, NEW k \in Conns, Idle, Connect(s, k)
      PROVE  Base'
  BY <1>3, ConnectBase
<1>4. ASSUME NEW s \in Svrs, DriverBreak(s) \/ DriverNotices(s) \/ DriverRecv(s)
      PROVE  Base'
  BY <1>4, DriverEndIs, LinkLostBase, DriverRecvBase DEF Base
<1>5. ASSUME NEW s \in Svrs,
             \/ Answer(s) \/ AnswerMsg(s) \/ CallOnSession(s) \/ CallOnAccs(s) \/ ChooseSeting(s)
      PROVE  Base'
  BY <1>5, AnswerBase, AnswerMsgBase, SessionCallBase, AccsCallBase, ChooseSetingBase
<1> QED
  BY <1>1, <1>2, <1>3, <1>4, <1>5, RestartBase DEF SysNext

LEMMA BaseStays ==
  ASSUME Base, UNCHANGED sysVars
  PROVE  Base'
<1>1. UNCHANGED <<cli, ask, answered, runs, drv, sock, toAcc, toSvr, inner>> /\ UNCHANGED accVars
  BY DEF sysVars, accVars
<1>2. IInv' /\ CInv'
  BY <1>1, AccForth DEF Base
<1> QED
  BY <1>1, <1>2 DEF Base, LinkInv, SentInv, AskInv, HeldInv, AdmittedWasAnswered, FirstThing,
                    Silent, Link, Linked

LEMMA RunsKept ==
  ASSUME runs \in Nat, SysNext
  PROVE  runs' \in Nat /\ (AccRestart => runs' # 0) /\ (~AccRestart => runs' = runs)
<1>1. CASE AccRestart
  BY <1>1 DEF AccRestart
<1>2. CASE ClientSide
  BY <1>2 DEF ClientSide, Aside, Net, AccRestart
<1>3. ASSUME NEW k \in Conns, AccRecv(k) \/ AccNotices(k) \/ AccBreak(k) \/ Destroy(k)
      PROVE  runs' = runs
  BY <1>3 DEF AccRecv, AccNotices, AccBreak, Destroy, Net
<1>4. ASSUME NEW s \in Svrs,
             \/ \E k \in Conns : Connect(s, k)
             \/ DriverBreak(s) \/ DriverNotices(s) \/ DriverRecv(s)
      PROVE  runs' = runs
  BY <1>4 DEF Connect, DriverBreak, DriverNotices, DriverRecv, Net
<1>5. ASSUME NEW s \in Svrs, Answer(s) \/ AnswerMsg(s) \/ CallOnSession(s) \/ CallOnAccs(s)
      PROVE  runs' = runs
  BY <1>5 DEF Answer, AnswerMsg, CallOnSession, CallOnAccs, Sends, Net
<1>6. ASSUME NEW s \in Svrs, ChooseSeting(s)
      PROVE  runs' = runs
  BY <1>6 DEF ChooseSeting, Net
<1>7. ~AccRestart => runs' = runs
  BY <1>2, <1>3, <1>4, <1>5, <1>6 DEF SysNext
<1> QED
  BY <1>1, <1>7

(* In the first run no answer comes too late. *)
FirstRun == runs \in Nat /\ (runs = 0 => Base)

LEMMA FirstIsTimely ==
  ASSUME Base, runs = 0
  PROVE  Timely
<1>1. ASSUME NEW s \in Svrs, NEW q \in ask[s]
      PROVE  q[2] = runs
  <2>1. q[2] \in Nat /\ q[2] <= runs
    BY DEF Base, AskInv
  <2> QED
    BY <2>1
<1> QED
  BY <1>1 DEF Timely

LEMMA FirstRunHolds == SysSpec => []FirstRun
<1>1. SysInit => FirstRun
  BY InitBase DEF FirstRun, SysInit
<1>2. FirstRun /\ [SysNext]_sysVars => FirstRun'
  <2> SUFFICES ASSUME FirstRun, [SysNext]_sysVars
               PROVE  FirstRun'
    OBVIOUS
  <2>1. CASE SysNext
    BY <2>1, RunsKept, FirstIsTimely, BaseForth DEF FirstRun
  <2>2. CASE UNCHANGED sysVars
    BY <2>2, BaseStays DEF FirstRun, sysVars
  <2> QED
    BY <2>1, <2>2
<1> QED
  BY <1>1, <1>2, PTL DEF SysSpec

LEMMA BaseHolds == SysSpec /\ [][Timely]_sysVars => []Base
<1>1. SysInit => Base
  BY InitBase
<1>2. Base /\ [SysNext]_sysVars /\ [Timely]_sysVars => Base'
  BY BaseForth, BaseStays
<1> QED
  BY <1>1, <1>2, PTL DEF SysSpec

LEMMA BaseSafe == Base => AdmittedWasAnswered /\ CallsNameClients
<1>1. ASSUME Base, NEW c \in Cids, StageOf(cli[c]) \in InOn
      PROVE  cli[c].state = "VERIFYED" \/ cli[c].con = "gone"
  <2>1. cli[c] \in ClientType
    BY <1>1, GoodIsClient DEF Base, IInv
  <2> QED
    BY <1>1, <2>1, StageIn DEF StageOf, InOn, Alive
<1>2. Base => CallsNameClients
  BY <1>1 DEF Base, SentInv, Claims, CallsNameClients, SessionCalls
<1> QED
  BY <1>2 DEF Base, AskInv

(* In the first run of acc, a client is let in by a server's answer to that *)
(* client's own verify request, whatever else servers send and however      *)
(* connections break and come back between the question and the answer      *)
(* (Parse_CMD_REQ_VERIFY_RET, ADClientCon).                                 *)
THEOREM AdmittedCorrect == SysSpec => [](runs = 0 => AdmittedWasAnswered)
<1>1. FirstRun => (runs = 0 => AdmittedWasAnswered)
  BY BaseSafe DEF FirstRun
<1> QED
  BY <1>1, FirstRunHolds, PTL

(* And so in every run of acc, if servers answer no question of an earlier  *)
(* one: it is the application that has to forget them when it is told that  *)
(* acc is gone, since the driver keeps none of them (ReqVerifyRet,          *)
(* OnAccDisCon).                                                            *)
THEOREM AdmittedTimely == SysSpec /\ [][Timely]_sysVars => []AdmittedWasAnswered
BY BaseHolds, BaseSafe, PTL

(* In the first run of acc, what a server asks about a client names one     *)
(* that acc has let in, however long the request is under way: it is in, or *)
(* gone meanwhile (ADFacadeMgr, FindSession).                               *)
THEOREM CallsCorrect == SysSpec => [](runs = 0 => CallsNameClients)
<1>1. FirstRun => (runs = 0 => CallsNameClients)
  BY BaseSafe DEF FirstRun
<1> QED
  BY <1>1, FirstRunHolds, PTL

(* And so in every run, if servers answer no question of an earlier one: a  *)
(* call about a session of before the restart never reaches acc, whenever   *)
(* the driver notices that acc is gone (OnDisconnected, FindSession).       *)
THEOREM CallsTimely == SysSpec /\ [][Timely]_sysVars => []CallsNameClients
BY BaseHolds, BaseSafe, PTL
------------------------------------------------------------------------------
(* acc itself, in every run and whatever its servers answer.  It is asked   *)
(* only for what RequestType has, so that each step of the system is one    *)
(* that acc takes in any environment (AccStep), or a restart.               *)

Wire ==
  /\ IInv /\ CInv
  /\ drv \in [Svrs -> DriverType] /\ sock \in [Svrs -> Conns \cup {NoCon}]
  /\ toAcc \in [Conns -> Seq(SentType)]
  /\ runs \in Nat /\ ask \in [Svrs -> SUBSET (Cids \X Nat)]

Steps == AccRestart \/ [AccStep]_accVars

LEMMA WireForth ==
  ASSUME Wire, Steps,
         drv' \in [Svrs -> DriverType], sock' \in [Svrs -> Conns \cup {NoCon}],
         toAcc' \in [Conns -> Seq(SentType)],
         runs' \in Nat, ask' \in [Svrs -> SUBSET (Cids \X Nat)]
  PROVE  Wire'
BY RestartAcc, AccForth DEF Steps, Wire

LEMMA RestartWire ==
  ASSUME Wire, AccRestart
  PROVE  Steps /\ Wire'
<1> DEFINE z == <<>>
<1>1. toAcc' = [k \in Conns |-> z] /\ z \in Seq(SentType)
  BY DEF AccRestart
<1> HIDE DEF z
<1>2. /\ drv' \in [Svrs -> DriverType] /\ ask' \in [Svrs -> SUBSET (Cids \X Nat)]
      /\ sock' \in [Svrs -> Conns \cup {NoCon}] /\ runs' \in Nat
  BY DEF AccRestart, Wire
<1> QED
  BY <1>1, <1>2, WireForth DEF Steps

LEMMA ClientSideWire ==
  ASSUME Wire, ClientSide
  PROVE  Steps /\ Wire'
<1>1. Steps
  BY ClientSideIs DEF Wire, Steps
<1>2. UNCHANGED <<drv, sock, toAcc, ask, runs>>
  BY DEF ClientSide, Aside, Apps, Net
<1> QED
  BY <1>1, <1>2, WireForth DEF Wire

LEMMA ConnectionWire ==
  ASSUME Wire, NEW k \in Conns, Idle, AccRecv(k) \/ AccNotices(k) \/ AccBreak(k) \/ Destroy(k)
  PROVE  Steps /\ Wire'
<1>1. CASE AccRecv(k)
  <2> DEFINE r == Head(toAcc[k])
             u == Tail(toAcc[k])
  <2>1. toAcc[k] \in Seq(SentType) /\ toAcc[k] # <<>>
    BY <1>1 DEF AccRecv, Wire
  <2>2. r \in SentType /\ u \in Seq(SentType)
    BY <2>1, TailIs
  <2>3. Steps
    <3>1. RawMapping(r) => UNCHANGED accVars
      BY <1>1 DEF AccRecv
    <3>2. ~RawMapping(r) => r \in RequestType /\ OnRecv(k, r)
      BY <1>1, <2>2, SentIsRequest DEF AccRecv
    <3> HIDE DEF r
    <3> QED
      BY <3>1, <3>2 DEF Steps, AccStep
  <2>4. toAcc' = [toAcc EXCEPT ![k] = u] /\ UNCHANGED <<drv, sock, ask, runs>>
    BY <1>1 DEF AccRecv, Apps, Net
  <2> HIDE DEF r, u
  <2> QED
    BY <2>2, <2>3, <2>4, WireForth DEF Wire
<1>2. CASE AccNotices(k) \/ AccBreak(k)
  <2>1. SvrBreak(k) /\ UNCHANGED <<drv, sock, toAcc, ask, runs>>
    BY <1>2 DEF AccNotices, AccBreak, Apps, Net
  <2> QED
    BY <2>1, WireForth DEF Wire, Steps, AccStep
<1>3. CASE Destroy(k)
  <2> DEFINE z == <<>>
  <2>1. /\ DestroySvr(k) /\ UNCHANGED <<drv, ask, runs>>
        /\ sock' = [s \in Svrs |-> IF sock[s] = k THEN NoCon ELSE sock[s]]
        /\ toAcc' = [toAcc EXCEPT ![k] = z] /\ z \in Seq(SentType)
    BY <1>3 DEF Destroy, Apps, Net
  <2> HIDE DEF z
  <2> QED
    BY <2>1, WireForth DEF Wire, Steps, AccStep
<1> QED
  BY <1>1, <1>2, <1>3

LEMMA ConnectWire ==
  ASSUME Wire, NEW s \in Svrs, NEW k \in Conns, Idle, Connect(s, k)
  PROVE  Steps /\ Wire'
<1> DEFINE e == AD!OnConnected(drv[s], 1)
           g == AD!Greeting(drv[s])
<1>1. drv[s] \in DriverType /\ drv[s].vec # <<>>
  BY DEF Connect, Linked, Wire
<1>2. e \in DriverType /\ g \in Seq(SentType)
  BY <1>1, OnConnectedIs, GreetingIs
<1>3. /\ drv' = [drv EXCEPT ![s] = e] /\ sock' = [sock EXCEPT ![s] = k]
      /\ toAcc' = [toAcc EXCEPT ![k] = g]
      /\ SvrConnect(k) /\ UNCHANGED <<ask, runs>>
  BY DEF Connect, Apps, Net
<1> HIDE DEF e, g
<1> QED
  BY <1>2, <1>3, WireForth DEF Wire, Steps, AccStep

LEMMA DriverWire ==
  ASSUME Wire, NEW s \in Svrs, DriverBreak(s) \/ DriverNotices(s) \/ DriverRecv(s)
  PROVE  Steps /\ Wire'
<1>1. drv[s] \in DriverType /\ drv[s].vec # <<>>
  BY DEF DriverBreak, DriverNotices, DriverRecv, Linked, Wire
<1>2. CASE DriverBreak(s) \/ DriverNotices(s)
  <2> DEFINE e == AD!OnDisconnected(drv[s], 1)
  <2>1. e \in DriverType
    BY <1>1, OnDisconnectedIs
  <2>2. /\ drv' = [drv EXCEPT ![s] = e]
        /\ sock' = [sock EXCEPT ![s] = NoCon] \/ sock' = sock
        /\ UNCHANGED accVars /\ UNCHANGED <<toAcc, ask, runs>>
    BY <1>2 DEF DriverBreak, DriverNotices, Apps, Net
  <2> HIDE DEF e
  <2> QED
    BY <2>1, <2>2, WireForth DEF Wire, Steps
<1>3. CASE DriverRecv(s)
  <2> DEFINE m == Head(toSvr[sock[s]])
             e == AD!OnRecv(drv[s], 1, m)
  <2>1. sock[s] \in Conns /\ SvrRead(sock[s]) /\ toSvr[sock[s]] # <<>>
    BY <1>3 DEF DriverRecv, SvrRead, Wire
  <2>2. m \in ToSvrMsg
    <3>1. toSvr[sock[s]] \in Seq(ToSvrMsg)
      BY <2>1 DEF Wire, CInv, ChanInv
    <3> QED
      BY <2>1, <3>1, TailIs
  <2>3. e \in DriverType
    <3> HIDE DEF m
    <3> QED
      BY <1>1, <2>2, OnRecvIs
  <2>4. drv' = [drv EXCEPT ![s] = e] /\ UNCHANGED <<toAcc, runs>>
    BY <1>3 DEF DriverRecv, Server, Net
  <2>5. sock' = [sock EXCEPT ![s] = NoCon] \/ sock' = sock
    BY <1>3 DEF DriverRecv
  <2>6. ask' \in [Svrs -> SUBSET (Cids \X Nat)]
    <3>1. m.cmd = "NTF_VERIFY_REQ" => m.cid \in Cids
      BY <2>2, MsgFields
    <3>2. \/ ask' = ask
          \/ m.cmd = "NTF_VERIFY_REQ" /\ ask' = [ask EXCEPT ![s] = ask[s] \cup {<<m.cid, runs>>}]
      BY <1>3 DEF DriverRecv
    <3> HIDE DEF m
    <3> QED
      BY <3>1, <3>2 DEF Wire
  <2>7. Steps
    BY <2>1 DEF Steps, AccStep
  <2> HIDE DEF e, m
  <2> QED
    BY <2>3, <2>4, <2>5, <2>6, <2>7, WireForth DEF Wire
<1> QED
  BY <1>2, <1>3

(* What a server sends reaches the connection of its link. *)
LEMMA SendsWire ==
  ASSUME Wire, NEW s \in Svrs, NEW r \in SentType, NEW reqs, reqs \in {<<>>, <<r>>},
         Sends(s, reqs), ask' \in [Svrs -> SUBSET (Cids \X Nat)]
  PROVE  Steps /\ Wire'
<1>1. UNCHANGED accVars /\ UNCHANGED <<drv, sock, runs>> /\ reqs = <<r>>
  BY DEF Sends, Net
<1>2. toAcc' \in [Conns -> Seq(SentType)]
  <2>1. reqs \in Seq(SentType)
    BY <1>1
  <2>2. CASE sock[s] = NoCon
    BY <2>2 DEF Sends, Wire
  <2>3. CASE sock[s] # NoCon
    <3> DEFINE g == toAcc[sock[s]] \o reqs
    <3>1. sock[s] \in Conns /\ toAcc[sock[s]] \in Seq(SentType)
      BY <2>3 DEF Wire
    <3>2. g \in Seq(SentType)
      BY <2>1, <3>1, AppendIs
    <3>3. toAcc' = [toAcc EXCEPT ![sock[s]] = g]
      BY <2>3 DEF Sends
    <3> HIDE DEF g
    <3> QED
      BY <3>1, <3>2, <3>3 DEF Wire
  <2> QED
    BY <2>2, <2>3
<1> QED
  BY <1>1, <1>2, WireForth DEF Wire, Steps

LEMMA AnswerWire ==
  ASSUME Wire, NEW s \in Svrs, Answer(s) \/ AnswerMsg(s)
  PROVE  Steps /\ Wire'
<1> DEFINE ret(c, ok, u, name) ==
             [cmd |-> "REQ_VERIFY_RET", cid |-> c, isSuccess |-> ok, uin |-> u, accName |-> name]
<1>1. \A q \in ask[s] : q[1] \in Cids
  BY DEF Wire
<1>2. PICK q \in ask[s], ok \in BOOLEAN, u \in Uins \cup {0}, name \in {"", "ann"} :
        /\ Sends(s, AD!When(AD!Usable(drv[s], 1), ret(q[1], ok, u, name)))
        /\ ask' = [ask EXCEPT ![s] = ask[s] \ {q}]
  BY DEF Answer, AnswerMsg, AD!ReqVerifyRet, AD!ReqVerifyRetMsg
<1> DEFINE r    == ret(q[1], ok, u, name)
           reqs == AD!When(AD!Usable(drv[s], 1), r)
<1>3. r \in SentType
  BY <1>1, RetIsSent
<1>4. reqs \in {<<>>, <<r>>}
  BY DEF AD!When
<1>5. Sends(s, reqs)
  BY <1>2
<1>6. ask' \in [Svrs -> SUBSET (Cids \X Nat)]
  BY <1>2 DEF Wire
<1> HIDE DEF r, reqs
<1> QED
  BY <1>3, <1>4, <1>5, <1>6, SendsWire

LEMMA CallWire ==
  ASSUME Wire, NEW s \in Svrs, CallOnSession(s) \/ CallOnAccs(s)
  PROVE  Steps /\ Wire'
<1>1. \E r \in SentType : \E reqs \in {<<>>, <<r>>} : Sends(s, reqs)
  <2>1. CASE CallOnSession(s)
    <3>1. PICK c \in Cids, r \in RequestType :
            Sends(s, IF AD!HasSession(drv[s], 1, c) THEN <<r>> ELSE <<>>)
      BY <2>1, SessionCallIs
    <3>2. r \in SentType /\ Sends(s, <<r>>)
      BY <3>1 DEF Sends, SentType
    <3> QED
      BY <3>2
  <2>2. CASE CallOnAccs(s)
    BY <2>2, AccsCallIs
  <2> QED
    BY <2>1, <2>2
<1>2. UNCHANGED ask
  BY DEF CallOnSession, CallOnAccs, Apps
<1> QED
  BY <1>1, <1>2, SendsWire DEF Wire

LEMMA ChooseSetingWire ==
  ASSUME Wire, NEW s \in Svrs, ChooseSeting(s)
  PROVE  Steps /\ Wire'
<1>1. PICK x \in Setings :
        /\ drv' = [drv EXCEPT ![s] = AD!SetAccSeting(drv[s], x)]
        /\ IF Link(s).con = "up" /\ sock[s] # NoCon
           THEN toAcc' = [toAcc EXCEPT ![sock[s]] = toAcc[sock[s]] \o drv'[s].seting]
           ELSE UNCHANGED toAcc
  BY DEF ChooseSeting
<1> DEFINE e == AD!SetAccSeting(drv[s], x)
           r == [cmd |-> "REQ_ACC_SETING", seting |-> x]
           p == <<r>>
<1>2. UNCHANGED accVars /\ UNCHANGED <<sock, ask, runs>>
  BY DEF ChooseSeting, Apps, Net
<1>3. e \in DriverType /\ e.seting = p
  BY SetAccSetingIs DEF Wire
<1>4. p \in Seq(SentType)
  <2>1. r \in SentType
    BY SetingIs
  <2> HIDE DEF r
  <2> QED
    BY <2>1
<1> HIDE DEF e, p
<1>5. drv' \in [Svrs -> DriverType] /\ drv'[s] = e
  BY <1>1, <1>3 DEF Wire, e
<1>6. toAcc' \in [Conns -> Seq(SentType)]
  <2>1. CASE UNCHANGED toAcc
    BY <2>1 DEF Wire
  <2>2. CASE sock[s] # NoCon /\ toAcc' = [toAcc EXCEPT ![sock[s]] = toAcc[sock[s]] \o p]
    <3> DEFINE g == toAcc[sock[s]] \o p
    <3>1. sock[s] \in Conns /\ toAcc[sock[s]] \in Seq(SentType)
      BY <2>2 DEF Wire
    <3>2. g \in Seq(SentType)
      BY <1>4, <3>1, AppendIs
    <3>3. toAcc' = [toAcc EXCEPT ![sock[s]] = g]
      BY <2>2
    <3> HIDE DEF g
    <3> QED
      BY <3>1, <3>2, <3>3 DEF Wire
  <2> QED
    BY <1>1, <1>3, <1>5, <2>1, <2>2
<1> QED
  BY <1>2, <1>5, <1>6, WireForth DEF Wire, Steps

LEMMA NextWire ==
  ASSUME Wire, [SysNext]_sysVars
  PROVE  Steps /\ Wire'
<1>1. CASE ClientSide
  BY <1>1, ClientSideWire
<1>2. CASE AccRestart
  BY <1>2, RestartWire
<1>3. ASSUME NEW k \in Conns, Idle, AccRecv(k) \/ AccNotices(k) \/ AccBreak(k) \/ Destroy(k)
      PROVE  Steps /\ Wire'
  BY <1>3, ConnectionWire
<1>4. ASSUME NEW s \in Svrs, NEW k \in Conns, Idle, Connect(s, k)
      PROVE  Steps /\ Wire'
  BY <1>4, ConnectWire
<1>5. ASSUME NEW s \in Svrs, DriverBreak(s) \/ DriverNotices(s) \/ DriverRecv(s)
      PROVE  Steps /\ Wire'
  BY <1>5, DriverWire
<1>6. ASSUME NEW s \in Svrs,
             \/ Answer(s) \/ AnswerMsg(s) \/ CallOnSession(s) \/ CallOnAccs(s) \/ ChooseSeting(s)
      PROVE  Steps /\ Wire'
  BY <1>6, AnswerWire, CallWire, ChooseSetingWire
<1>7. CASE UNCHANGED sysVars
  BY <1>7, WireForth DEF sysVars, Wire, Steps
<1> QED
  BY <1>1, <1>2, <1>3, <1>4, <1>5, <1>6, <1>7 DEF SysNext

LEMMA AlwaysWire == SysSpec => []Wire
<1>1. SysInit => Wire
  BY InitBase DEF Base, LinkInv, SentInv, AskInv, Wire
<1>2. Wire /\ [SysNext]_sysVars => Wire'
  BY NextWire
<1> QED
  BY <1>1, <1>2, PTL DEF SysSpec

(* Whatever servers send, answer late or never, and however often acc is    *)
(* started again under them: acc's state keeps its types, and its           *)
(* registries, timers and caches stay true (AccSvr, InnerSvrCon).           *)
THEOREM AccInSystem ==
  SysSpec => [](TypeOK /\ RegistryExact /\ TimersMatchState /\ CacheOnlyWhileOn)
<1>1. Wire => TypeOK /\ RegistryExact /\ TimersMatchState /\ CacheOnlyWhileOn
  BY DEF Wire, IInv, GoodClient, Exact, CInv, ChanInv, TypeOK, StateTypeOK, CliTypeOK,
         ChanTypeOK, RegistryExact, TimersMatchState, CacheOnlyWhileOn
<1> QED
  BY <1>1, AlwaysWire, PTL

(* And what it sends them stays in order: no traffic before the answer to a *)
(* registration, no packet of a client that is not verified, nothing of one *)
(* that is gone, no question twice (Forward2Svr, Forward2VerifySvr).        *)
THEOREM ChannelsInSystem ==
  SysSpec => [](RegAnswerFirst /\ VerifyBeforeForward /\ NothingAfterDiscon /\ AsksOnce)
<1>1. Wire => NothingAfterDiscon
  BY DEF Wire, CInv, ChanInv, InOrder, AboutClient, NothingAfterDiscon
<1>2. Wire => RegAnswerFirst /\ VerifyBeforeForward /\ AsksOnce
  BY InOrderRegFirst, StandsForward, InOrderAsksOnce DEF Wire
<1> QED
  BY <1>1, <1>2, AlwaysWire, PTL

(* No driver's registration, its own after a reconnect included, takes an   *)
(* id from the connection that has it (RegSvrMgr).                          *)
THEOREM NoTakeoverInSystem == SysSpec => NoTakeover
<1>1. Wire /\ [SysNext]_sysVars => [\A id \in Ids : Kept(id)]_accVars
  <2> SUFFICES ASSUME Wire, [SysNext]_sysVars, NEW id \in Ids
               PROVE  Kept(id)
    OBVIOUS
  <2>1. CASE AccRestart
    BY <2>1 DEF AccRestart, NewInner, Kept, Wire, IInv, InnerTypeOK
  <2>2. CASE [AccStep]_accVars
    BY <2>2, IdIsKept DEF Wire
  <2> QED
    BY <2>1, <2>2, NextWire DEF Steps
<1>2. SysSpec => [][\A id \in Ids : Kept(id)]_accVars
  BY <1>1, AlwaysWire, PTL DEF SysSpec
<1> QED
  BY <1>2 DEF NoTakeover, Kept

(* From one restart of acc to the next its clients live as ClientLife says, *)
(* with real servers behind them.                                           *)
THEOREM LifeInSystem == SysSpec => [][AccRestart \/ Life!LifeNext]_sysVars
<1>1. Wire /\ [SysNext]_sysVars => AccRestart \/ Life!LifeNext
  BY NextWire, StepMoves DEF Steps, Wire
<1> QED
  BY <1>1, AlwaysWire, PTL DEF SysSpec
=============================================================================
