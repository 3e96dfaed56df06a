---------------------------- MODULE NoticeProof ----------------------------
(***************************************************************************)
(* What each step of acc tells servers of sessions: the messages that      *)
(* register a server, begin a session or end one, or tell its uin          *)
(* (Notices), to whom they go and which client they are about.  AccSystem  *)
(* needs this of acc to compare what servers know with what acc has.       *)
(***************************************************************************)
EXTENDS ChannelProof

Notices == {"RSP_REG", "NTF_CREATE_SESSION", "NTF_DISCON", "RSP_BROADCAST_UIN"}

(* The step puts n behind what is in the socket of k, or, when the          *)
(* connection does not survive it, a beginning of n.                        *)
Delivers(k, n) ==
  /\ Alive(inner'[k]) <=> Alive(inner[k])
  /\ toSvr'[k] \in Seq(ToSvrMsg)
  /\ \A i \in DOMAIN toSvr'[k] :
       \/ i \in DOMAIN toSvr[k] /\ toSvr'[k][i] = toSvr[k][i]
       \/ \E j \in DOMAIN n : i = Len(toSvr[k]) + j /\ toSvr'[k][i] = n[j]
  /\ inner'[k].con = "open" =>
       /\ inner[k].con = "open"
       /\ \A i \in DOMAIN toSvr[k] : i \in DOMAIN toSvr'[k] /\ toSvr'[k][i] = toSvr[k][i]
       /\ \A j \in DOMAIN n :
            Len(toSvr[k]) + j \in DOMAIN toSvr'[k] /\ toSvr'[k][Len(toSvr[k]) + j] = n[j]

SameIds(k) == inner'[k].svrId = inner[k].svrId /\ inner'[k].isVerify = inner[k].isVerify

(* A connection that neither registered nor verifies clients. *)
Silent(k) == inner[k].svrId = 0 /\ ~inner[k].isVerify

(* The step says nothing of sessions, and to a silent connection nothing at *)
(* all, unless it is the one that asked.                                    *)
Quiet(asker) ==
  \A k \in Conns :
    /\ SameIds(k)
    /\ \E n \in Seq(ToSvrMsg) :
         /\ Delivers(k, n)
         /\ \A j \in DOMAIN n : n[j].cmd \notin Notices /\ (k = asker \/ ~Silent(k))

(* The step lets no client in or out. *)
StaysPut(c) ==
  /\ StageOf(cli[c]) = "in" <=> StageOf(cli'[c]) = "in"
  /\ StageOf(cli'[c]) = "in" /\ cli'[c].con = "open" => cli[c].con = "open"
Says(n, cmd, c) == \E j \in DOMAIN n : n[j].cmd = cmd /\ n[j].cid = c

(* What n says of sessions is so after the step...                          *)
TellsTrue(n) ==
  /\ \A j \in DOMAIN n : n[j].cmd # "RSP_REG"
  /\ \A c \in Cids : Says(n, "NTF_CREATE_SESSION", c) => StageOf(cli'[c]) = "in"
  /\ \A c \in Cids : Says(n, "NTF_DISCON", c) => StageOf(cli'[c]) = "gone"

(* ...and it says whatever the step changes of them.                        *)
TellsAll(n) ==
  \A c \in Cids :
    /\ StageOf(cli'[c]) = "in" /\ cli'[c].con = "open"
         => \/ StageOf(cli[c]) = "in" /\ cli[c].con = "open"
            \/ Says(n, "NTF_CREATE_SESSION", c)
    /\ StageOf(cli[c]) = "in" /\ StageOf(cli'[c]) # "in" => Says(n, "NTF_DISCON", c)

(* The step keeps every server informed of the clients that are in: those   *)
(* that registered hear all, nobody hears what is not so, and a silent      *)
(* connection hears nothing unless it is the one that asked.                *)
Informs(asker) ==
  \A k \in Conns :
    /\ SameIds(k)
    /\ \E n \in Seq(ToSvrMsg) :
         /\ Delivers(k, n)
         /\ TellsTrue(n)
         /\ inner[k].svrId # 0 /\ inner'[k].con = "open" => TellsAll(n)
         /\ Silent(k) /\ k # asker => DOMAIN n = {}

(* The step begins sessions of clients that are in only, and a silent       *)
(* connection hears nothing unless it is the one that asked.                *)
Hears(asker) ==
  \A k \in Conns :
    /\ k # asker => SameIds(k)
    /\ \E n \in Seq(ToSvrMsg) :
         /\ Delivers(k, n)
         /\ \A c \in Cids : Says(n, "NTF_CREATE_SESSION", c) => StageOf(cli'[c]) = "in"
         /\ Silent(k) /\ k # asker => DOMAIN n = {}
------------------------------------------------------------------------------
LEMMA SendDelivers ==
  ASSUME NEW base \in [Conns -> InnerType], NEW msgs \in [Conns -> Seq(ToSvrMsg)],
         Send(base, msgs), toSvr \in [Conns -> Seq(ToSvrMsg)],
         \A k \in Conns : base[k].con = inner[k].con
  PROVE  \A k \in Conns :
           /\ Delivers(k, msgs[k])
           /\ inner'[k].svrId = base[k].svrId /\ inner'[k].isVerify = base[k].isVerify
<1> SUFFICES ASSUME NEW k \in Conns
             PROVE  /\ Delivers(k, msgs[k])
                    /\ inner'[k].svrId = base[k].svrId /\ inner'[k].isVerify = base[k].isVerify
  OBVIOUS
<1>1. inner'[k].svrId = base[k].svrId /\ inner'[k].isVerify = base[k].isVerify
  BY DEF Send, DisConnect, InnerType
<1> DEFINE a == toSvr[k]
           b == msgs[k]
           c == a \o b
<1>2. a \in Seq(ToSvrMsg) /\ b \in Seq(ToSvrMsg)
  OBVIOUS
<1>3. /\ toSvr'[k] \in Seq(ToSvrMsg)
      /\ \A i \in DOMAIN toSvr'[k] :
           \/ i \in DOMAIN a /\ toSvr'[k][i] = a[i]
           \/ \E j \in DOMAIN b : i = Len(a) + j /\ toSvr'[k][i] = b[j]
  BY SendAppends
<1>4. inner'[k].con = "open" => inner[k].con = "open" /\ toSvr'[k] = c
  BY DEF Send, DisConnect, InnerType
<1>0. Alive(inner'[k]) <=> Alive(inner[k])
  BY DEF Send, DisConnect, InnerType, Alive
<1> HIDE DEF a, b
<1>5. /\ Len(c) = Len(a) + Len(b)
      /\ \A i \in 1..(Len(a) + Len(b)) : c[i] = IF i <= Len(a) THEN a[i] ELSE b[i - Len(a)]
      /\ Len(a) \in Nat /\ DOMAIN a = 1..Len(a) /\ Len(b) \in Nat /\ DOMAIN b = 1..Len(b)
      /\ c \in Seq(ToSvrMsg)
  BY <1>2, ConcatProperties, LenProperties
<1> HIDE DEF c
<1>6. DOMAIN c = 1..(Len(a) + Len(b))
  BY <1>5, LenProperties
<1>7. \A i \in DOMAIN a : i \in DOMAIN c /\ c[i] = a[i]
  BY <1>5, <1>6
<1>8. ASSUME NEW j \in DOMAIN b
      PROVE  Len(a) + j \in DOMAIN c /\ c[Len(a) + j] = b[j]
  <2>1. j \in Nat /\ j >= 1 /\ j <= Len(b)
    BY <1>5
  <2>2. Len(a) + j \in 1..(Len(a) + Len(b)) /\ ~(Len(a) + j <= Len(a)) /\ Len(a) + j - Len(a) = j
    BY <1>5, <2>1
  <2> QED
    BY <1>5, <1>6, <2>2
<1>9. Delivers(k, b)
  <2>1. inner'[k].con = "open" =>
          /\ inner[k].con = "open"
          /\ \A i \in DOMAIN a : i \in DOMAIN toSvr'[k] /\ toSvr'[k][i] = a[i]
          /\ \A j \in DOMAIN b : Len(a) + j \in DOMAIN toSvr'[k] /\ toSvr'[k][Len(a) + j] = b[j]
    BY <1>4, <1>7, <1>8
  <2> QED
    BY <1>0, <1>3, <2>1 DEF Delivers, a
<1> QED
  BY <1>1, <1>9 DEF b
------------------------------------------------------------------------------
(* Quiet steps. *)

LEMMA NothingQuiet ==
  ASSUME IInv, CInv, NEW asker, UNCHANGED toSvr,
         \A k \in Conns : /\ SameIds(k) /\ (Alive(inner'[k]) <=> Alive(inner[k]))
                          /\ inner'[k].con = "open" => inner[k].con = "open"
  PROVE  Quiet(asker)
<1> SUFFICES ASSUME NEW k \in Conns
             PROVE  \E n \in Seq(ToSvrMsg) :
                      /\ Delivers(k, n)
                      /\ \A j \in DOMAIN n : n[j].cmd \notin Notices /\ (k = asker \/ ~Silent(k))
  BY DEF Quiet
<1> DEFINE e == <<>>
<1>1. e \in Seq(ToSvrMsg) /\ DOMAIN e = {}
  OBVIOUS
<1> HIDE DEF e
<1>2. toSvr'[k] \in Seq(ToSvrMsg)
  BY DEF CInv, ChanInv
<1>3. Delivers(k, e)
  BY <1>1, <1>2 DEF Delivers
<1> QED
  BY <1>1, <1>3

LEMMA SameInner ==
  ASSUME IInv, CInv, NEW asker, UNCHANGED <<inner, toSvr>>
  PROVE  Quiet(asker)
BY NothingQuiet DEF SameIds

LEMMA SendQuiet ==
  ASSUME IInv, CInv, NEW asker, NEW msgs \in [Conns -> Seq(ToSvrMsg)], Send(inner, msgs),
         \A k \in Conns : \A n \in DOMAIN msgs[k] :
           msgs[k][n].cmd \notin Notices /\ (k = asker \/ ~Silent(k))
  PROVE  Quiet(asker)
<1>1. \A k \in Conns : Delivers(k, msgs[k]) /\ SameIds(k)
  BY SendDelivers DEF SameIds, IInv, InnerTypeOK, CInv, ChanInv
<1> QED
  BY <1>1 DEF Quiet

LEMMA OneEachQuiet ==
  ASSUME IInv, CInv, NEW asker, NEW K, NEW m \in ToSvrMsg, m.cmd \notin Notices,
         Send(inner, ToEach(K, m)), \A k \in K : k = asker \/ ~Silent(k)
  PROVE  Quiet(asker)
<1> DEFINE msgs == ToEach(K, m)
<1>1. /\ msgs \in [Conns -> Seq(ToSvrMsg)]
      /\ \A k \in Conns : \A n \in DOMAIN msgs[k] : k \in K /\ n = 1 /\ msgs[k][n] = m
  BY ToEachIs
<1> HIDE DEF msgs
<1>2. Send(inner, msgs)
  BY DEF msgs
<1> QED
  BY <1>1, <1>2, SendQuiet

(* A packet of a client goes to verifying and to registered servers. *)
LEMMA Forward2SvrQuiet ==
  ASSUME IInv, CInv, NEW c \in Cids, NEW p \in Packets, NEW rec, Forward2Svr(c, rec, p)
  PROVE  Quiet(NoCon)
<1> DEFINE s    == <<p>>
           msgs == [k \in Conns |-> Forwarded(c, s, k)]
<1>1. s \in Seq(Packets)
  OBVIOUS
<1>2. Send(inner, msgs)
  BY DEF Forward2Svr
<1> HIDE DEF s
<1>3. ASSUME NEW k \in Conns
      PROVE  /\ msgs[k] \in Seq(ToSvrMsg)
             /\ \A n \in DOMAIN msgs[k] : msgs[k][n].cmd = "NTF_FORWARD" /\ inner[k].svrId # 0
  <2>1. msgs[k] = Forwarded(c, s, k)
    OBVIOUS
  <2>2. /\ Forwarded(c, s, k) \in Seq(ToSvrMsg)
        /\ \A n \in DOMAIN Forwarded(c, s, k) :
             Forwarded(c, s, k)[n].cmd = "NTF_FORWARD" /\ inner[k].svrId # 0
    BY <1>1, ForwardedIs
  <2> HIDE DEF msgs
  <2> QED
    BY <2>1, <2>2
<1>4. msgs \in [Conns -> Seq(ToSvrMsg)]
  BY <1>3
<1> HIDE DEF msgs
<1> QED
  BY <1>2, <1>3, <1>4, SendQuiet DEF Notices, Silent

LEMMA Forward2VerifySvrQuiet ==
  ASSUME IInv, CInv, NEW c \in Cids, NEW p \in Packets, Forward2VerifySvr(c, p)
  PROVE  Quiet(NoCon)
<1>1. CASE UNCHANGED <<inner, toSvr>>
  BY <1>1, SameInner
<1>2. CASE verifySvr # {} /\ SendTo(BLVerifySvr, VerifyReq(c, p))
  <2>1. BLVerifySvr \in Conns /\ inner[BLVerifySvr].isVerify
    BY <1>2, BLVerifySvrIs DEF IInv, InnerTypeOK, Exact
  <2>2. VerifyReq(c, p) \in ToSvrMsg /\ VerifyReq(c, p).cmd = "NTF_VERIFY_REQ"
    BY DataAssumption DEF VerifyReq, ToSvrMsg
  <2>3. Send(inner, ToEach({BLVerifySvr}, VerifyReq(c, p)))
    BY <1>2, SendToEach
  <2> QED
    BY <2>1, <2>2, <2>3, OneEachQuiet DEF Notices, Silent
<1> QED
  BY <1>1, <1>2 DEF Forward2VerifySvr

LEMMA OnRawRecvQuiet ==
  ASSUME IInv, CInv, NEW c \in Cids, NEW p \in Packets, OnRawRecv(c, p)
  PROVE  Quiet(NoCon)
BY SameInner, Forward2SvrQuiet, Forward2VerifySvrQuiet DEF OnRawRecv, RevPacket

(* Of the requests, registrations, verify answers and uins are not quiet. *)
LEMMA SetActiveQuiet ==
  ASSUME IInv, CInv, NEW k \in Conns, NEW r \in RequestType,
         r.cmd = "REQ_SET_ACTIVE_SVR", Parse_CMD_REQ_SET_ACTIVE_SVR(k, r)
  PROVE  Quiet(k)
<1>1. r.cid \in Cids \cup {NoCid} /\ r.grpId \in Ids \cup {0} /\ r.svrId \in Ids \cup {0}
  BY DEF RequestType
<1>2. CASE Ignored
  BY <1>2, SameInner DEF Ignored, ClientOnly
<1>3. ASSUME NEW g \in Ids \cup {0}, NEW s \in Ids \cup {0}, SendTo(k, RspSetActive(r.cid, g, s))
      PROVE  Quiet(k)
  <2> DEFINE m == RspSetActive(r.cid, g, s)
  <2>1. m \in ToSvrMsg /\ m.cmd = "RSP_SET_ACTIVE_SVR"
    BY <1>1 DEF RspSetActive, ToSvrMsg
  <2> HIDE DEF m
  <2>2. Send(inner, ToEach({k}, m))
    BY <1>3, SendToEach DEF m
  <2> QED
    BY <2>1, <2>2, OneEachQuiet DEF Notices
<1> QED
  BY <1>1, <1>2, <1>3 DEF Parse_CMD_REQ_SET_ACTIVE_SVR

LEMMA CacheMsgQuiet ==
  ASSUME IInv, CInv, NEW k \in Conns, NEW r \in RequestType,
         r.cmd = "REQ_CACHE_MSG", Parse_CMD_REQ_CACHE_MSG(k, r)
  PROVE  Quiet(k)
<1>1. CASE Ignored
  BY <1>1, SameInner DEF Ignored, ClientOnly
<1>2. CASE ~Ignored
  <2>1. PICK msgs \in [Conns -> Seq(ToSvrMsg)] :
          /\ Send(inner, msgs)
          /\ \A j \in Conns : \A n \in DOMAIN msgs[j] :
               /\ msgs[j][n].cid = r.cid
               /\ \/ msgs[j][n].cmd = "RSP_CACHE_MSG" /\ j = k
                  \/ msgs[j][n].cmd = "NTF_FORWARD" /\ inner[j].svrId # 0
    BY <1>2, CacheBatch
  <2> QED
    BY <2>1, SendQuiet DEF Notices, Silent
<1> QED
  BY <1>1, <1>2

LEMMA OnRecvQuiet ==
  ASSUME IInv, CInv, NEW k \in Conns, NEW r \in RequestType, OnRecv(k, r),
         r.cmd \notin {"REQ_REG", "REQ_VERIFY_RET", "REQ_BROADCAST_UIN"}
  PROVE  Quiet(k)
<1>1. CASE r.cmd \in {"REQ_SET_CMD_2_GRP", "REQ_FORWARD", "REQ_BROADCAST", "REQ_DISCON",
                     "REQ_DISCON_ALL", "REQ_ACC_SETING"}
  BY <1>1, SameInner DEF OnRecv, Parse_CMD_REQ_SET_CMD_2_GRP, OnRecvForward,
     Parse_CMD_REQ_BROADCAST, Parse_CMD_REQ_DISCON, Parse_CMD_REQ_DISCON_ALL,
     Parse_CMD_REQ_ACC_SETING, ClientOnly
<1> QED
  BY <1>1, SetActiveQuiet, CacheMsgQuiet DEF OnRecv
------------------------------------------------------------------------------
(* Steps that let no client in or out. *)

LEMMA KeepsPut ==
  ASSUME IInv, IInv', NEW c \in Cids, Keeps(cli[c], cli'[c])
  PROVE  StaysPut(c)
<1>1. cli[c] \in ClientType /\ cli'[c] \in ClientType
  BY GoodIsClient DEF IInv
<1>2. Alive(cli[c]) <=> Alive(cli'[c])
  BY <1>1 DEF Keeps, ConKept, Alive
<1>3. StageOf(cli[c]) = "in" <=> StageOf(cli'[c]) = "in"
  BY <1>1, <1>2, StageIn DEF Keeps
<1> QED
  BY <1>3 DEF StaysPut, Keeps, ConKept

(* What happens to a client by itself, but for its destruction. *)
LEMMA ClientEventPut ==
  ASSUME IInv, IInv', NEW c \in Cids, ClientEvent(c), ~DestroyClient(c), NEW d \in Cids
  PROVE  StaysPut(d)
<1>1. cli[c] \in GoodClient
  BY DEF IInv
<1>2. ASSUME NEW e, cli' = [cli EXCEPT ![c] = e], Keeps(cli[c], e)
      PROVE  StaysPut(d)
  <2>1. Keeps(cli[d], cli'[d])
    BY <1>2 DEF IInv, Keeps, ConKept
  <2> QED
    BY <2>1, KeepsPut
<1>3. CASE OnConnected(c)
  <2> DEFINE fresh == [NewClient EXCEPT !.con = "open"]
             over  == [fresh EXCEPT !.tm = {"cls"}]
             timed == [fresh EXCEPT !.tm = {"wfm"}]
  <2>1. over \in GoodClient /\ over.state = "INIT" /\ fresh.state = "INIT" /\ timed.state = "INIT"
    <3>1. fresh \in GoodClient /\ fresh.state = "INIT"
      <4>1. fresh \in GoodClient
        BY FreshClient
      <4> QED
        BY <4>1 DEF NewClient
    <3> HIDE DEF fresh
    <3> QED
      BY <3>1 DEF GoodClient, ClientType, Timers
  <2>2. SendToClient(over, 1).state = "INIT"
    <3> HIDE DEF over
    <3> QED
      BY <2>1, SendToClientGood
  <2>3. PICK e \in {fresh, timed, SendToClient(over, 1)} : cli' = [cli EXCEPT ![c] = e]
    BY <1>3 DEF OnConnected
  <2> HIDE DEF fresh, timed, over
  <2>4. cli'[c].state = "INIT" /\ cli[c].con = "none" /\ (d # c => cli'[d] = cli[d])
    BY <1>3, <2>1, <2>2, <2>3 DEF IInv, OnConnected
  <2>5. StageOf(cli[c]) # "in" /\ StageOf(cli'[c]) # "in"
    <3>1. cli[c] \in ClientType /\ cli'[c] \in ClientType
      BY GoodIsClient DEF IInv
    <3>2. StageOf(cli'[c]) # "in"
      BY <2>4, <3>1, StageIn
    <3>3. StageOf(cli[c]) # "in"
      BY <2>4, <3>1, StageIn DEF Alive
    <3> QED
      BY <3>2, <3>3
  <2>6. CASE d = c
    BY <2>5, <2>6 DEF StaysPut
  <2>7. CASE d # c
    BY <2>4, <2>7 DEF StaysPut
  <2> QED
    BY <2>6, <2>7
<1>4. CASE ClientBreak(c)
  <2>1. Keeps(cli[c], DisConnect(cli[c]))
    BY <1>1 DEF DisConnect, Keeps, ConKept, GoodClient, ClientType
  <2> QED
    BY <1>2, <1>4, <2>1 DEF ClientBreak
<1>5. CASE ClientDrain(c)
  <2>1. cli' = [cli EXCEPT ![c] = [cli[c] EXCEPT !.pend = 0]]
    BY <1>1, <1>5 DEF ClientDrain, IInv, GoodClient, ClientType
  <2>2. Keeps(cli[c], [cli[c] EXCEPT !.pend = 0])
    BY <1>1 DEF Keeps, ConKept, GoodClient, ClientType
  <2> QED
    BY <1>2, <2>1, <2>2
<1>6. ASSUME NEW t \in Timers, TimeOut(c, t)
      PROVE  StaysPut(d)
  <2> DEFINE rec == [cli[c] EXCEPT !.tm = cli[c].tm \ {t}]
  <2>1. Keeps(cli[c], DisConnect(rec))
    BY <1>1 DEF DisConnect, Keeps, ConKept, GoodClient, ClientType
  <2>2. cli' = [cli EXCEPT ![c] = DisConnect(rec)]
    BY <1>6 DEF TimeOut
  <2> HIDE DEF rec
  <2> QED
    BY <1>2, <2>1, <2>2
<1> QED
  BY <1>3, <1>4, <1>5, <1>6 DEF ClientEvent, OnWaitFirstMsgTimeOut, OnVerfiyTimeOut,
     OnHeartbeatTimeOut, OnClsTimeOut, Timers

(* What clients do, and what they are done by their timers, but for their   *)
(* destruction.                                                             *)
LEMMA ClientSideQuiet ==
  ASSUME IInv, CInv, IInv', NEW c \in Cids,
         RecvPacket(c) \/ ReadDone \/ (ClientEvent(c) /\ ~DestroyClient(c))
  PROVE  Quiet(NoCon) /\ \A d \in Cids : StaysPut(d)
<1>1. CASE RecvPacket(c)
  BY <1>1, OnRawRecvQuiet, OnRawRecvKeeps, KeepsPut DEF RecvPacket
<1>2. CASE ReadDone
  BY <1>2, SameInner DEF ReadDone, StaysPut
<1>3. CASE ClientEvent(c) /\ ~DestroyClient(c)
  <2>1. UNCHANGED <<inner, toSvr>>
    BY <1>3 DEF ClientEvent, OnConnected, ClientBreak, ClientDrain, OnWaitFirstMsgTimeOut,
       OnVerfiyTimeOut, OnHeartbeatTimeOut, OnClsTimeOut, TimeOut
  <2> QED
    BY <1>3, <2>1, SameInner, ClientEventPut
<1> QED
  BY <1>1, <1>2, <1>3

LEMMA SvrBreakQuiet ==
  ASSUME IInv, CInv, NEW k \in Conns, SvrBreak(k)
  PROVE  Quiet(NoCon) /\ \A d \in Cids : StaysPut(d)
<1>1. \A j \in Conns : /\ SameIds(j) /\ (Alive(inner'[j]) <=> Alive(inner[j]))
                       /\ inner'[j].con = "open" => inner[j].con = "open"
  BY DEF SvrBreak, DisConnect, SameIds, IInv, InnerTypeOK, InnerType, Alive
<1> QED
  BY <1>1, NothingQuiet DEF SvrBreak, StaysPut

LEMMA RequestPut ==
  ASSUME IInv, IInv', NEW k \in Conns, NEW r \in RequestType, OnRecv(k, r),
         r.cmd # "REQ_VERIFY_RET", NEW c \in Cids
  PROVE  StaysPut(c)
BY RequestSame, KeepsPut DEF Same, Keeps
------------------------------------------------------------------------------
(* Steps that let clients in or out, or none. *)

LEMMA QuietInforms ==
  ASSUME NEW asker, Quiet(asker), \A c \in Cids : StaysPut(c)
  PROVE  Informs(asker)
<1> SUFFICES ASSUME NEW k \in Conns
             PROVE  /\ SameIds(k)
                    /\ \E n \in Seq(ToSvrMsg) :
                         /\ Delivers(k, n)
                         /\ TellsTrue(n)
                         /\ inner[k].svrId # 0 /\ inner'[k].con = "open" => TellsAll(n)
                         /\ Silent(k) /\ k # asker => DOMAIN n = {}
  BY DEF Informs
<1>1. PICK n \in Seq(ToSvrMsg) :
        /\ Delivers(k, n)
        /\ \A j \in DOMAIN n : n[j].cmd \notin Notices /\ (k = asker \/ ~Silent(k))
  BY DEF Quiet
<1>2. TellsTrue(n)
  BY <1>1 DEF TellsTrue, Says, Notices
<1>3. TellsAll(n)
  BY DEF TellsAll, StaysPut
<1>4. Silent(k) /\ k # asker => DOMAIN n = {}
  BY <1>1
<1> QED
  BY <1>1, <1>2, <1>3, <1>4 DEF Quiet

(* The beginning or the end of one session, told to all that registered. *)
LEMMA OneEachInforms ==
  ASSUME IInv, CInv, NEW asker, NEW K, NEW m \in ToSvrMsg, Send(inner, ToEach(K, m)),
         \A k \in Conns : k \in K => inner[k].svrId # 0,
         \A k \in Conns : inner[k].svrId # 0 /\ inner[k].con = "open" => k \in K,
         \/ m.cmd = "NTF_CREATE_SESSION" /\ StageOf(cli'[m.cid]) = "in"
         \/ m.cmd = "NTF_DISCON" /\ StageOf(cli'[m.cid]) = "gone",
         \A c \in Cids : c # m.cid => StaysPut(c)
  PROVE  Informs(asker)
<1> DEFINE msgs == ToEach(K, m)
<1>1. /\ msgs \in [Conns -> Seq(ToSvrMsg)]
      /\ \A k \in Conns : \A n \in DOMAIN msgs[k] : k \in K /\ n = 1 /\ msgs[k][n] = m
      /\ \A k \in Conns \cap K : 1 \in DOMAIN msgs[k]
  BY ToEachIs
<1> HIDE DEF msgs
<1>2. \A k \in Conns : Delivers(k, msgs[k]) /\ SameIds(k)
  BY <1>1, SendDelivers DEF msgs, SameIds, IInv, InnerTypeOK, CInv, ChanInv
<1>3. ASSUME NEW k \in Conns
      PROVE  TellsTrue(msgs[k])
  BY <1>1 DEF TellsTrue, Says
<1>4. ASSUME NEW k \in Conns, inner[k].svrId # 0, inner'[k].con = "open"
      PROVE  TellsAll(msgs[k])
  <2>1. k \in K
    BY <1>2, <1>4 DEF Delivers
  <2>2. Says(msgs[k], m.cmd, m.cid)
    BY <1>1, <2>1 DEF Says
  <2>3. ASSUME NEW c \in Cids
        PROVE  /\ StageOf(cli'[c]) = "in" /\ cli'[c].con = "open"
                    => \/ StageOf(cli[c]) = "in" /\ cli[c].con = "open"
                       \/ Says(msgs[k], "NTF_CREATE_SESSION", c)
               /\ StageOf(cli[c]) = "in" /\ StageOf(cli'[c]) # "in"
                    => Says(msgs[k], "NTF_DISCON", c)
    <3>1. CASE c = m.cid
      BY <2>2, <3>1
    <3>2. CASE c # m.cid
      BY <3>2 DEF StaysPut
    <3> QED
      BY <3>1, <3>2
  <2> QED
    BY <2>3 DEF TellsAll
<1>5. ASSUME NEW k \in Conns, Silent(k)
      PROVE  DOMAIN msgs[k] = {}
  BY <1>1, <1>5 DEF Silent
<1> QED
  BY <1>1, <1>2, <1>3, <1>4, <1>5 DEF Informs

LEMMA DestroyClientInforms ==
  ASSUME IInv, CInv, IInv', NEW c \in Cids, DestroyClient(c)
  PROVE  Informs(NoCon)
<1> DEFINE m == [cmd |-> "NTF_DISCON", cid |-> c]
<1>1. StageOf(cli'[c]) = "gone" /\ \A d \in Cids : d # c => cli'[d] = cli[d]
  BY DEF DestroyClient, IInv, NewClient, StageOf, Alive
<1>2. \A d \in Cids : d # c => StaysPut(d)
  BY <1>1 DEF StaysPut
<1>3. CASE cli[c].state = "VERIFYED"
  <2>1. Send(inner, ToEach(Registered, m))
    BY <1>3, SendToEach DEF DestroyClient
  <2>2. m \in ToSvrMsg /\ m.cmd = "NTF_DISCON" /\ m.cid = c
    BY DEF ToSvrMsg
  <2> HIDE DEF m
  <2>3. ASSUME NEW k \in Conns
        PROVE  /\ k \in Registered => inner[k].svrId # 0
               /\ inner[k].svrId # 0 /\ inner[k].con = "open" => k \in Registered
    <3>1. k \in Registered => inner[k].svrId # 0
      BY IdFacts DEF Registered, IInv, Exact
    <3>2. ASSUME inner[k].svrId # 0, inner[k].con = "open"
          PROVE  k \in Registered
      <4>1. inner[k].svrId \in Ids
        BY <3>2 DEF IInv, InnerTypeOK, InnerType
      <4>2. regSvr[inner[k].svrId] = k
        BY <3>2, <4>1 DEF IInv, Exact, Alive
      <4> QED
        BY <4>1, <4>2, IdFacts DEF Registered
    <3> QED
      BY <3>1, <3>2
  <2> QED
    BY <1>1, <1>2, <2>1, <2>2, <2>3, OneEachInforms
<1>4. CASE cli[c].state # "VERIFYED"
  <2>1. StaysPut(c)
    BY <1>1, <1>4, StageIn, GoodIsClient DEF StaysPut, IInv
  <2>2. Quiet(NoCon)
    BY <1>4, SameInner DEF DestroyClient
  <2> QED
    BY <1>2, <2>1, <2>2, QuietInforms
<1> QED
  BY <1>3, <1>4

(* An answer that a server may give: to a client that has asked, and with a *)
(* name that fits.                                                          *)
AnswerFits(r) ==
  r.cmd = "REQ_VERIFY_RET" /\ r.isSuccess
    => /\ r.cid \in Cids => StageOf(cli[r.cid]) \in {"asked", "in", "gone"}
       /\ r.accName \notin LongNames

LEMMA VerifyRetInforms ==
  ASSUME IInv, CInv, IInv', NEW k \in Conns, NEW r \in RequestType, r.cmd = "REQ_VERIFY_RET",
         AnswerFits(r), Parse_CMD_REQ_VERIFY_RET(k, r)
  PROVE  Informs(k)
<1> DEFINE c    == r.cid
           told == SendToClient(cli[c], 1)
           e    == SetVerify(told)
           m    == CreateSession(c, r.uin, r.accName)
<1>1. CASE Ignored
  BY <1>1, SameInner, QuietInforms DEF Ignored, ClientOnly, StaysPut
<1>2. CASE c \in FoundClients
  <2>1. /\ c \in Cids /\ cli[c] \in GoodClient /\ cli[c] \in ClientType
        /\ StageOf(cli[c]) # "gone" /\ Alive(cli[c])
    BY <1>2, FoundStage, GoodIsClient DEF FoundClients, Found, Alive
  <2>2. told \in GoodClient /\ Same(cli[c], told) /\ told.state = cli[c].state
    BY <2>1, SendToClientGood, SendToClientSame
  <2>3. CASE cli' = [cli EXCEPT ![c] = told] /\ ClientOnly
    <3>1. \A d \in Cids : Keeps(cli[d], cli'[d])
      BY <2>2, <2>3 DEF IInv, Same, Keeps, ConKept
    <3>2. Quiet(k)
      BY <2>3, SameInner DEF ClientOnly
    <3> QED
      BY <3>1, <3>2, KeepsPut, QuietInforms
  <2>4. CASE /\ r.isSuccess /\ cli[c].state # "VERIFYED"
             /\ cli' = [cli EXCEPT ![c] = e]
             /\ SendAll(RegisteredInner, m)
    <3>1. cli[c].state = "WAIT_VERIFY"
      BY <2>1, <2>4, AliveStage DEF AnswerFits, ClientType, ClientStates
    <3>2. cli'[c].state = "VERIFYED" /\ Alive(cli'[c])
      <4> HIDE DEF told
      <4>1. e.state = "VERIFYED" /\ e.con = told.con
        BY <2>2, <3>1 DEF SetVerify, GoodClient, ClientType
      <4> HIDE DEF e
      <4>2. cli'[c] = e
        BY <2>1, <2>4 DEF IInv
      <4> QED
        BY <2>1, <2>2, <4>1, <4>2 DEF Same, ConKept, Alive
    <3>3. StageOf(cli'[c]) = "in"
      BY <2>1, <3>2, StageIn, GoodIsClient DEF IInv
    <3>4. \A d \in Cids : d # c => StaysPut(d)
      <4> HIDE DEF e
      <4> QED
        BY <2>4 DEF IInv, StaysPut
    <3>5. m \in ToSvrMsg /\ m.cmd = "NTF_CREATE_SESSION" /\ m.cid = c
      <4>1. r.uin \in Uins \cup {0} /\ r.accName \in Names
        BY DEF RequestType
      <4> QED
        BY <2>1, <4>1 DEF CreateSession, ToSvrMsg
    <3>6. Send(inner, ToEach(RegisteredInner, m))
      BY <2>4, SendToEach
    <3> HIDE DEF m, e, told
    <3>7. \A j \in Conns : /\ j \in RegisteredInner => inner[j].svrId # 0
                           /\ inner[j].svrId # 0 /\ inner[j].con = "open" => j \in RegisteredInner
      BY DEF RegisteredInner, FoundInner, Found
    <3> QED
      BY <3>3, <3>4, <3>5, <3>6, <3>7, OneEachInforms
  <2> QED
    BY <1>2, <2>3, <2>4 DEF Parse_CMD_REQ_VERIFY_RET, AnswerFits
<1> QED
  BY <1>1, <1>2 DEF Parse_CMD_REQ_VERIFY_RET

(* A uin is told to all that registered, but for the one that sets it. *)
UinMsg(r) == [cmd |-> "RSP_BROADCAST_UIN", cid |-> r.cid, uin |-> r.uin]

LEMMA BroadcastUinTells ==
  ASSUME IInv, CInv, NEW k \in Conns, NEW r \in RequestType, r.cmd = "REQ_BROADCAST_UIN",
         r.cid \in FoundClients, Parse_CMD_REQ_BROADCAST_UIN(k, r)
  PROVE  /\ r.cid \in Cids /\ r.uin \in Uins /\ UinMsg(r) \in ToSvrMsg
         /\ cli' = [cli EXCEPT ![r.cid].uin = r.uin]
         /\ \A j \in Conns :
              /\ SameIds(j)
              /\ \E n \in Seq(ToSvrMsg) :
                   /\ Delivers(j, n)
                   /\ \A i \in DOMAIN n : i = 1 /\ n[i] = UinMsg(r)
                   /\ inner[j].svrId = 0 => DOMAIN n = {}
                   /\ inner[j].svrId # 0 /\ inner'[j].con = "open" /\ j # k => 1 \in DOMAIN n
<1> DEFINE m    == UinMsg(r)
           K    == RegisteredInner \ {k}
           msgs == ToEach(K, m)
<1>1. r.cid \in Cids /\ r.uin \in Uins /\ m \in ToSvrMsg
  BY FoundAreCids, RequestFields DEF ToSvrMsg, UinMsg
<1>2. cli' = [cli EXCEPT ![r.cid].uin = r.uin] /\ Send(inner, msgs)
  <2>1. SendAll(K, m) /\ cli' = [cli EXCEPT ![r.cid].uin = r.uin]
    BY DEF Parse_CMD_REQ_BROADCAST_UIN, UinMsg
  <2> QED
    BY <2>1, SendToEach
<1> HIDE DEF m
<1>3. /\ msgs \in [Conns -> Seq(ToSvrMsg)]
      /\ \A j \in Conns : \A i \in DOMAIN msgs[j] : j \in K /\ i = 1 /\ msgs[j][i] = m
      /\ \A j \in Conns \cap K : 1 \in DOMAIN msgs[j]
  BY <1>1, ToEachIs
<1> HIDE DEF msgs
<1>4. \A j \in Conns : Delivers(j, msgs[j]) /\ SameIds(j)
  BY <1>2, <1>3, SendDelivers DEF SameIds, IInv, InnerTypeOK, CInv, ChanInv
<1>5. ASSUME NEW j \in Conns
      PROVE  \E n \in Seq(ToSvrMsg) :
               /\ Delivers(j, n)
               /\ \A i \in DOMAIN n : i = 1 /\ n[i] = m
               /\ inner[j].svrId = 0 => DOMAIN n = {}
               /\ inner[j].svrId # 0 /\ inner'[j].con = "open" /\ j # k => 1 \in DOMAIN n
  <2>1. inner[j].svrId = 0 => DOMAIN msgs[j] = {}
    BY <1>3 DEF RegisteredInner
  <2>2. inner[j].svrId # 0 /\ inner'[j].con = "open" /\ j # k => 1 \in DOMAIN msgs[j]
    <3>1. inner'[j].con = "open" => inner[j].con = "open"
      BY <1>4 DEF Delivers
    <3> QED
      BY <1>3, <3>1 DEF RegisteredInner, FoundInner, Found
  <2> QED
    BY <1>3, <1>4, <2>1, <2>2
<1> QED
  BY <1>1, <1>2, <1>4, <1>5 DEF m

LEMMA BroadcastUinInforms ==
  ASSUME IInv, CInv, NEW k \in Conns, NEW r \in RequestType, r.cmd = "REQ_BROADCAST_UIN",
         Parse_CMD_REQ_BROADCAST_UIN(k, r), \A c \in Cids : StaysPut(c)
  PROVE  Informs(k)
<1>1. CASE Ignored
  BY <1>1, SameInner, QuietInforms DEF Ignored, ClientOnly
<1>2. CASE r.cid \in FoundClients
  <2>1. ASSUME NEW j \in Conns
        PROVE  /\ SameIds(j)
               /\ \E n \in Seq(ToSvrMsg) :
                    /\ Delivers(j, n)
                    /\ TellsTrue(n)
                    /\ inner[j].svrId # 0 /\ inner'[j].con = "open" => TellsAll(n)
                    /\ Silent(j) /\ j # k => DOMAIN n = {}
    <3>1. PICK n \in Seq(ToSvrMsg) :
            /\ Delivers(j, n)
            /\ \A i \in DOMAIN n : i = 1 /\ n[i] = UinMsg(r)
            /\ inner[j].svrId = 0 => DOMAIN n = {}
      BY <1>2, BroadcastUinTells
    <3>2. TellsTrue(n)
      BY <3>1 DEF TellsTrue, Says, UinMsg
    <3>3. TellsAll(n)
      BY DEF TellsAll, StaysPut
    <3> QED
      BY <1>2, <3>1, <3>2, <3>3, BroadcastUinTells DEF Silent
  <2> QED
    BY <2>1 DEF Informs
<1> QED
  BY <1>1, <1>2 DEF Parse_CMD_REQ_BROADCAST_UIN

(* The answer to a registration goes to the one that asks, and behind it    *)
(* the beginning of a session for each client that is in.                   *)
LEMMA RegTells ==
  ASSUME IInv, CInv, NEW k \in Conns, NEW r \in RequestType, r.cmd = "REQ_REG", OnRecv(k, r)
  PROVE  /\ UNCHANGED cli
         /\ \A j \in Conns \ {k} :
              SameIds(j) /\ \E n \in Seq(ToSvrMsg) : Delivers(j, n) /\ DOMAIN n = {}
         /\ \E n \in Seq(ToSvrMsg) :
              /\ Delivers(k, n)
              /\ 1 \in DOMAIN n /\ n[1].cmd = "RSP_REG"
              /\ inner[k].svrId = 0 /\ inner'[k].svrId # 0 => n[1].svrId = r.svrId
              /\ \A i \in DOMAIN n \ {1} :
                   /\ n[i].cmd = "NTF_CREATE_SESSION" /\ n[i].cid \in VerifiedClients
                   /\ n[i].uin = cli[n[i].cid].uin
              /\ \A c \in VerifiedClients : \E i \in DOMAIN n \ {1} : n[i].cid = c
<1> DEFINE id == r.svrId % 65536
           ok == RegSvrIdOk(k, id)
           me == [inner[k] EXCEPT !.svrId = IF ok THEN id ELSE inner[k].svrId,
                                  !.isVerify = inner[k].isVerify \/ r.isVerify]
           base == [inner EXCEPT ![k] = me]
           rsp == [cmd |-> "RSP_REG", svrId |-> IF ok THEN r.svrId ELSE 0]
<1>0. Parse_CMD_REQ_REG(k, r)
  BY DEF OnRecv
<1>1. UNCHANGED cli
  BY <1>0 DEF Parse_CMD_REQ_REG
<1>2. PICK order \in Orders(VerifiedClients) : Send(base, RegAnswers(k, rsp, order))
  BY <1>0 DEF Parse_CMD_REQ_REG
<1>3. id \in Ids \cup {0} /\ r.isVerify \in BOOLEAN /\ r.svrId \in Nat
  BY RequestFields DEF RequestType
<1>4. rsp \in ToSvrMsg /\ rsp.cmd = "RSP_REG" /\ (ok => rsp.svrId = r.svrId)
  BY <1>3 DEF ToSvrMsg
<1>5. me \in InnerType /\ me.con = inner[k].con /\ (~ok => me.svrId = inner[k].svrId)
  <2>1. inner[k] \in InnerType
    BY DEF IInv, InnerTypeOK
  <2> HIDE DEF ok, id
  <2> QED
    BY <1>3, <2>1 DEF InnerType
<1> DEFINE msgs == RegAnswers(k, rsp, order)
<1> HIDE DEF id, ok, me, rsp
<1>6. base \in [Conns -> InnerType] /\ \A j \in Conns : base[j].con = inner[j].con
  BY <1>5 DEF IInv, InnerTypeOK
<1>7. base[k] = me /\ \A j \in Conns \ {k} : base[j] = inner[j]
  BY DEF IInv, InnerTypeOK
<1> HIDE DEF base
<1>8. /\ msgs \in [Conns -> Seq(ToSvrMsg)]
      /\ \A j \in Conns \ {k} : DOMAIN msgs[j] = {}
      /\ 1 \in DOMAIN msgs[k] /\ msgs[k][1] = rsp
      /\ \A n \in DOMAIN msgs[k] \ {1} :
           /\ msgs[k][n].cmd = "NTF_CREATE_SESSION" /\ msgs[k][n].cid \in VerifiedClients
           /\ msgs[k][n].uin = cli[msgs[k][n].cid].uin
      /\ \A c \in VerifiedClients : \E n \in DOMAIN msgs[k] \ {1} : msgs[k][n].cid = c
  BY <1>4, RegAnswersAre
<1> HIDE DEF msgs
<1>9. \A j \in Conns :
        /\ Delivers(j, msgs[j])
        /\ inner'[j].svrId = base[j].svrId /\ inner'[j].isVerify = base[j].isVerify
  BY <1>2, <1>6, <1>8, SendDelivers DEF msgs, CInv, ChanInv
<1>10. \A j \in Conns \ {k} : SameIds(j) /\ Delivers(j, msgs[j]) /\ DOMAIN msgs[j] = {}
  BY <1>7, <1>8, <1>9 DEF SameIds
<1>11. inner[k].svrId = 0 /\ inner'[k].svrId # 0 => rsp.svrId = r.svrId
  BY <1>4, <1>5, <1>7, <1>9
<1>12. \A j \in Conns \ {k} :
         SameIds(j) /\ \E n \in Seq(ToSvrMsg) : Delivers(j, n) /\ DOMAIN n = {}
  BY <1>8, <1>10
<1>13. \E n \in Seq(ToSvrMsg) :
         /\ Delivers(k, n)
         /\ 1 \in DOMAIN n /\ n[1].cmd = "RSP_REG"
         /\ inner[k].svrId = 0 /\ inner'[k].svrId # 0 => n[1].svrId = r.svrId
         /\ \A i \in DOMAIN n \ {1} :
              /\ n[i].cmd = "NTF_CREATE_SESSION" /\ n[i].cid \in VerifiedClients
              /\ n[i].uin = cli[n[i].cid].uin
         /\ \A c \in VerifiedClients : \E i \in DOMAIN n \ {1} : n[i].cid = c
  <2> DEFINE t == msgs[k]
  <2>1. t \in Seq(ToSvrMsg) /\ Delivers(k, t)
    BY <1>8, <1>9
  <2>2. /\ 1 \in DOMAIN t /\ t[1].cmd = "RSP_REG"
        /\ inner[k].svrId = 0 /\ inner'[k].svrId # 0 => t[1].svrId = r.svrId
    BY <1>4, <1>8, <1>11
  <2>3. /\ \A i \in DOMAIN t \ {1} :
             /\ t[i].cmd = "NTF_CREATE_SESSION" /\ t[i].cid \in VerifiedClients
             /\ t[i].uin = cli[t[i].cid].uin
        /\ \A c \in VerifiedClients : \E i \in DOMAIN t \ {1} : t[i].cid = c
    BY <1>8
  <2> HIDE DEF t
  <2> QED
    BY <2>1, <2>2, <2>3
<1> QED
  BY <1>1, <1>12, <1>13
------------------------------------------------------------------------------
(* All steps of acc but the registration of a server, its reading, and the  *)
(* beginning and end of its connection.                                     *)

LEMMA ClientSideInforms ==
  ASSUME IInv, CInv, IInv', NEW c \in Cids, RecvPacket(c) \/ ReadDone \/ ClientEvent(c)
  PROVE  Informs(NoCon)
<1>1. CASE DestroyClient(c)
  BY <1>1, DestroyClientInforms
<1>2. CASE RecvPacket(c) \/ ReadDone \/ (ClientEvent(c) /\ ~DestroyClient(c))
  BY <1>2, ClientSideQuiet, QuietInforms
<1> QED
  BY <1>1, <1>2

LEMMA SvrBreakInforms ==
  ASSUME IInv, CInv, NEW k \in Conns, SvrBreak(k)
  PROVE  Informs(NoCon)
BY SvrBreakQuiet, QuietInforms

LEMMA RequestInforms ==
  ASSUME IInv, CInv, IInv', NEW k \in Conns, NEW r \in RequestType, OnRecv(k, r),
         r.cmd # "REQ_REG", AnswerFits(r)
  PROVE  Informs(k)
<1>1. CASE r.cmd = "REQ_VERIFY_RET"
  BY <1>1, VerifyRetInforms DEF OnRecv
<1>2. CASE r.cmd # "REQ_VERIFY_RET"
  <2>1. \A c \in Cids : StaysPut(c)
    BY <1>2, RequestSame, KeepsPut DEF Same, Keeps
  <2>2. CASE r.cmd = "REQ_BROADCAST_UIN"
    BY <2>1, <2>2, BroadcastUinInforms DEF OnRecv
  <2>3. CASE r.cmd # "REQ_BROADCAST_UIN"
    BY <1>2, <2>1, <2>3, OnRecvQuiet, QuietInforms
  <2> QED
    BY <2>2, <2>3
<1> QED
  BY <1>1, <1>2

(* Less than that holds of any request, be it a registration or an answer   *)
(* with a name too long to be announced.                                    *)
LEMMA InformsHears ==
  ASSUME NEW asker, Informs(asker)
  PROVE  Hears(asker)
BY DEF Informs, Hears, TellsTrue

LEMMA QuietHears ==
  ASSUME NEW asker, Quiet(asker)
  PROVE  Hears(asker)
<1>1. ASSUME NEW k \in Conns
      PROVE  \E n \in Seq(ToSvrMsg) :
               /\ Delivers(k, n)
               /\ \A c \in Cids : Says(n, "NTF_CREATE_SESSION", c) => StageOf(cli'[c]) = "in"
               /\ Silent(k) /\ k # asker => DOMAIN n = {}
  <2>1. PICK n \in Seq(ToSvrMsg) :
          /\ Delivers(k, n)
          /\ \A j \in DOMAIN n : n[j].cmd \notin Notices /\ (k = asker \/ ~Silent(k))
    BY DEF Quiet
  <2>2. \A c \in Cids : ~Says(n, "NTF_CREATE_SESSION", c)
    BY <2>1 DEF Says, Notices
  <2>3. Silent(k) /\ k # asker => DOMAIN n = {}
    BY <2>1
  <2> QED
    BY <2>1, <2>2, <2>3
<1> QED
  BY <1>1 DEF Hears, Quiet

AnswersAsked(r) ==
  r.cmd = "REQ_VERIFY_RET" /\ r.isSuccess /\ r.cid \in Cids
    => StageOf(cli[r.cid]) \in {"asked", "in", "gone"}

LEMMA RequestHears ==
  ASSUME IInv, CInv, IInv', NEW k \in Conns, NEW r \in RequestType, OnRecv(k, r),
         AnswersAsked(r)
  PROVE  Hears(k)
<1>1. CASE r.cmd = "REQ_REG"
  <2>1. \A j \in Conns \ {k} : SameIds(j) /\ \E n \in Seq(ToSvrMsg) : Delivers(j, n) /\ DOMAIN n = {}
    BY <1>1, RegTells
  <2>2. PICK n \in Seq(ToSvrMsg) :
          /\ Delivers(k, n)
          /\ n[1].cmd = "RSP_REG"
          /\ \A i \in DOMAIN n \ {1} : n[i].cid \in VerifiedClients
    BY <1>1, RegTells
  <2>3. \A c \in VerifiedClients : StageOf(cli'[c]) = "in"
    <3>1. UNCHANGED cli
      BY <1>1, RegTells
    <3> QED
      BY <3>1, FoundStage, FoundAreCids
  <2>4. \A c \in Cids : Says(n, "NTF_CREATE_SESSION", c) => StageOf(cli'[c]) = "in"
    BY <2>2, <2>3 DEF Says
  <2>5. ASSUME NEW j \in Conns \ {k}
        PROVE  \E m \in Seq(ToSvrMsg) :
                 /\ Delivers(j, m)
                 /\ \A c \in Cids : Says(m, "NTF_CREATE_SESSION", c) => StageOf(cli'[c]) = "in"
                 /\ Silent(j) /\ j # k => DOMAIN m = {}
    BY <2>1 DEF Says
  <2> QED
    BY <2>1, <2>2, <2>4, <2>5 DEF Hears
<1>2. CASE r.cmd = "REQ_VERIFY_RET" /\ r.accName \in LongNames
  <2>1. Parse_CMD_REQ_VERIFY_RET(k, r)
    BY <1>2 DEF OnRecv
  <2>2. UNCHANGED <<inner, toSvr>>
    BY <1>2, <2>1 DEF Parse_CMD_REQ_VERIFY_RET, Ignored, ClientOnly
  <2> QED
    BY <2>2, SameInner, QuietHears
<1>3. CASE r.cmd # "REQ_REG" /\ ~(r.cmd = "REQ_VERIFY_RET" /\ r.accName \in LongNames)
  <2>1. AnswerFits(r)
    BY <1>3 DEF AnswersAsked, AnswerFits
  <2> QED
    BY <1>3, <2>1, RequestInforms, InformsHears
<1> QED
  BY <1>1, <1>2, <1>3
------------------------------------------------------------------------------
(* Uins: only CMD_REQ_BROADCAST_UIN sets one, and a client that connects or *)
(* is gone has none.                                                        *)

LEMMA UinKept ==
  ASSUME NEW rec \in GoodClient
  PROVE  /\ DisConnect(rec).uin = rec.uin
         /\ \A n \in Nat : SendToClient(rec, n).uin = rec.uin
         /\ SetVerify(rec).uin = rec.uin
         /\ \A g, s : SetActiveSvrId(rec, g, s).uin = rec.uin
<1>1. DisConnect(rec).uin = rec.uin
  BY DEF DisConnect, GoodClient, ClientType
<1>2. \A n \in Nat : SendToClient(rec, n).uin = rec.uin
  BY <1>1 DEF SendToClient, GoodClient, ClientType
<1>3. SetVerify(rec).uin = rec.uin
  BY DEF SetVerify, GoodClient, ClientType
<1>4. \A g, s : SetActiveSvrId(rec, g, s).uin = rec.uin
  BY DEF SetActiveSvrId, GoodClient, ClientType
<1> QED
  BY <1>1, <1>2, <1>3, <1>4

LEMMA ForwardUin ==
  ASSUME NEW rec \in GoodClient, rec.state = "VERIFYED", NEW s \in Seq(Packets)
  PROVE  AfterForward2Svr(rec, s).uin = rec.uin
<1> DEFINE beats == {i \in DOMAIN s : Beats(s[i])}
           armed == IF beats = {} THEN rec ELSE [rec EXCEPT !.tm = rec.tm \cup {"heartbeat"}]
           told  == SendToClient(armed, Cardinality(beats))
<1>1. armed \in GoodClient /\ armed.uin = rec.uin
  BY DEF GoodClient, ClientType, Timers
<1>2. told \in GoodClient /\ told.uin = rec.uin
  <2>1. Cardinality(beats) \in Nat
    <3>1. Len(s) \in Nat /\ beats \in SUBSET (1..Len(s))
      OBVIOUS
    <3> QED
      BY <3>1, IndexCount
  <2> HIDE DEF armed, beats
  <2> QED
    BY <1>1, <2>1, SendToClientGood, UinKept
<1>3. DisConnect(told).uin = rec.uin
  <2> HIDE DEF told
  <2> QED
    BY <1>2, UinKept
<1>4. AfterForward2Svr(rec, s) = told \/ AfterForward2Svr(rec, s) = DisConnect(told)
  BY DEF AfterForward2Svr
<1> HIDE DEF told
<1> QED
  BY <1>2, <1>3, <1>4

NoNewUin == \A c \in Cids : cli'[c].uin \in {cli[c].uin, 0}

LEMMA OneUin ==
  ASSUME IInv, NEW c, NEW e, cli' = [cli EXCEPT ![c] = e],
         c \in Cids => e.uin \in {cli[c].uin, 0}
  PROVE  NoNewUin
BY DEF NoNewUin, IInv

LEMMA OnRawRecvUin ==
  ASSUME IInv, NEW c \in Cids, NEW p \in Packets, OnRawRecv(c, p)
  PROVE  NoNewUin
<1>1. cli[c] \in GoodClient
  BY DEF IInv
<1>2. CASE UNCHANGED cli
  BY <1>2 DEF NoNewUin
<1>3. CASE cli' = [cli EXCEPT ![c] = DisConnect(cli[c])]
  BY <1>1, <1>3, UinKept, OneUin
<1>4. CASE Forward2VerifySvr(c, p)
  <2> DEFINE stopped == [cli[c] EXCEPT !.tm = cli[c].tm \ {"wfm"}]
             asking  == [stopped EXCEPT !.tm = stopped.tm \cup {"verify"},
                                        !.state = "WAIT_VERIFY"]
  <2>1. stopped \in ClientType /\ stopped.uin = cli[c].uin
    BY <1>1 DEF GoodClient, ClientType
  <2>2. DisConnect(stopped).uin = cli[c].uin /\ asking.uin = cli[c].uin
    <3> HIDE DEF stopped
    <3> QED
      BY <2>1 DEF DisConnect, ClientType
  <2>3. PICK e \in {stopped, asking, DisConnect(stopped)} : cli' = [cli EXCEPT ![c] = e]
    BY <1>4 DEF Forward2VerifySvr
  <2> HIDE DEF stopped, asking
  <2> QED
    BY <2>1, <2>2, <2>3, OneUin
<1>5. ASSUME NEW rec \in GoodClient, rec.state = "VERIFYED", rec.uin = cli[c].uin,
             Forward2Svr(c, rec, p)
      PROVE  NoNewUin
  <2> DEFINE s == <<p>>
  <2>1. s \in Seq(Packets)
    OBVIOUS
  <2>2. cli' = [cli EXCEPT ![c] = AfterForward2Svr(rec, s)]
    BY <1>5 DEF Forward2Svr
  <2> HIDE DEF s
  <2> QED
    BY <1>5, <2>1, <2>2, ForwardUin, OneUin
<1>6. CASE /\ cli[c].state = "VERIFYED" /\ cli[c].isCache
           /\ Forward2Svr(c, [cli[c] EXCEPT !.cacheMsg = Append(cli[c].cacheMsg, p)], p)
  <2> DEFINE m   == Append(cli[c].cacheMsg, p)
             rec == [cli[c] EXCEPT !.cacheMsg = m]
  <2>1. m \in Seq(Packets)
    BY <1>1 DEF GoodClient, ClientType
  <2>2. rec \in GoodClient /\ rec.state = "VERIFYED" /\ rec.uin = cli[c].uin
    <3> HIDE DEF m
    <3> QED
      BY <1>1, <1>6, <2>1 DEF GoodClient, ClientType
  <2> HIDE DEF rec
  <2> QED
    BY <1>5, <1>6, <2>2 DEF rec
<1> QED
  BY <1>1, <1>2, <1>3, <1>4, <1>5, <1>6 DEF OnRawRecv, RevPacket

LEMMA ClientSideUin ==
  ASSUME IInv, NEW c \in Cids, RecvPacket(c) \/ ReadDone \/ ClientEvent(c)
  PROVE  NoNewUin
<1>1. cli[c] \in GoodClient
  BY DEF IInv
<1>2. CASE RecvPacket(c)
  BY <1>2, OnRawRecvUin DEF RecvPacket
<1>3. CASE ReadDone
  BY <1>3 DEF ReadDone, NoNewUin
<1>4. CASE OnConnected(c)
  <2> DEFINE fresh == [NewClient EXCEPT !.con = "open"]
             over  == [fresh EXCEPT !.tm = {"cls"}]
             timed == [fresh EXCEPT !.tm = {"wfm"}]
  <2>1. fresh \in GoodClient /\ fresh.state = "INIT" /\ fresh.uin = 0
    <3>1. fresh \in GoodClient
      BY FreshClient
    <3> QED
      BY <3>1 DEF NewClient
  <2>2. over \in GoodClient /\ over.uin = 0 /\ timed.uin = 0
    <3> HIDE DEF fresh
    <3> QED
      BY <2>1 DEF GoodClient, ClientType, Timers
  <2>3. SendToClient(over, 1).uin = 0
    <3> HIDE DEF over
    <3> QED
      BY <2>2, UinKept
  <2>4. PICK e \in {fresh, timed, SendToClient(over, 1)} : cli' = [cli EXCEPT ![c] = e]
    BY <1>4 DEF OnConnected
  <2> HIDE DEF fresh, timed, over
  <2> QED
    BY <2>1, <2>2, <2>3, <2>4, OneUin
<1>5. CASE ClientBreak(c)
  BY <1>1, <1>5, UinKept, OneUin DEF ClientBreak
<1>6. CASE ClientDrain(c)
  <2> DEFINE e == [cli[c] EXCEPT !.pend = 0]
  <2>1. cli' = [cli EXCEPT ![c] = e] /\ e.uin = cli[c].uin
    BY <1>1, <1>6 DEF ClientDrain, IInv, GoodClient, ClientType
  <2> HIDE DEF e
  <2> QED
    BY <2>1, OneUin
<1>7. ASSUME NEW t \in Timers, TimeOut(c, t)
      PROVE  NoNewUin
  <2> DEFINE rec == [cli[c] EXCEPT !.tm = cli[c].tm \ {t}]
  <2>1. rec \in ClientType /\ rec.uin = cli[c].uin
    BY <1>1 DEF GoodClient, ClientType
  <2>2. cli' = [cli EXCEPT ![c] = DisConnect(rec)]
    BY <1>7 DEF TimeOut
  <2> HIDE DEF rec
  <2>3. DisConnect(rec).uin = cli[c].uin
    BY <2>1 DEF DisConnect, ClientType
  <2> QED
    BY <2>2, <2>3, OneUin
<1>8. CASE DestroyClient(c)
  <2> DEFINE e == [NewClient EXCEPT !.con = "gone"]
  <2>1. cli' = [cli EXCEPT ![c] = e] /\ e.uin = 0
    BY <1>8 DEF DestroyClient, NewClient
  <2> HIDE DEF e
  <2> QED
    BY <2>1, OneUin
<1> QED
  BY <1>2, <1>3, <1>4, <1>5, <1>6, <1>7, <1>8 DEF ClientEvent, OnWaitFirstMsgTimeOut,
     OnVerfiyTimeOut, OnHeartbeatTimeOut, OnClsTimeOut, Timers

LEMMA RequestUin ==
  ASSUME IInv, NEW k \in Conns, NEW r \in RequestType, OnRecv(k, r),
         r.cmd # "REQ_BROADCAST_UIN"
  PROVE  NoNewUin
<1>1. CASE UNCHANGED cli
  BY <1>1 DEF NoNewUin
<1>2. ASSUME NEW c \in Cids
      PROVE  cli[c] \in GoodClient
  BY DEF IInv
<1>3. CASE r.cmd \in {"REQ_REG", "REQ_SET_CMD_2_GRP", "REQ_ACC_SETING"}
  BY <1>1, <1>3 DEF OnRecv, Parse_CMD_REQ_REG, Parse_CMD_REQ_SET_CMD_2_GRP,
     Parse_CMD_REQ_ACC_SETING
<1>4. CASE r.cmd = "REQ_VERIFY_RET"
  <2>1. CASE Ignored
    BY <1>1, <2>1 DEF Ignored
  <2>2. CASE r.cid \in FoundClients /\ ~Ignored
    <3> DEFINE told == SendToClient(cli[r.cid], 1)
    <3>1. told \in GoodClient /\ told.uin = cli[r.cid].uin
      BY <1>2, <2>2, FoundAreCids, SendToClientGood, UinKept
    <3>2. PICK e \in {told, SetVerify(told)} : cli' = [cli EXCEPT ![r.cid] = e]
      BY <1>4, <2>2 DEF OnRecv, Parse_CMD_REQ_VERIFY_RET
    <3> HIDE DEF told
    <3>3. e.uin = cli[r.cid].uin
      BY <3>1, <3>2, UinKept
    <3> QED
      BY <3>2, <3>3, OneUin
  <2> QED
    BY <1>4, <2>1, <2>2 DEF OnRecv, Parse_CMD_REQ_VERIFY_RET
<1>5. CASE r.cmd = "REQ_SET_ACTIVE_SVR"
  <2>1. CASE r.cid \in VerifiedClients /\ ~UNCHANGED cli
    <3>1. r.cid \in Cids
      BY <2>1, FoundAreCids
    <3>2. cli' = [cli EXCEPT ![r.cid] = SetActiveSvrId(cli[r.cid], r.grpId, r.svrId)]
      BY <1>5, <2>1 DEF OnRecv, Parse_CMD_REQ_SET_ACTIVE_SVR, Ignored
    <3>3. SetActiveSvrId(cli[r.cid], r.grpId, r.svrId).uin = cli[r.cid].uin
      BY <1>2, <3>1, UinKept
    <3> QED
      BY <3>2, <3>3, OneUin
  <2> QED
    BY <1>1, <1>5, <2>1 DEF OnRecv, Parse_CMD_REQ_SET_ACTIVE_SVR, Ignored
<1>6. CASE r.cmd = "REQ_CACHE_MSG"
  <2>1. CASE r.cid \in VerifiedClients /\ ~UNCHANGED cli
    <3> DEFINE a == cli[r.cid]
               b == AfterForward2Svr(a, a.cacheMsg)
               e == <<>>
    <3>1. a \in GoodClient /\ a.state = "VERIFYED" /\ a.cacheMsg \in Seq(Packets)
      BY <1>2, <2>1, FoundAreCids DEF VerifiedClients, GoodClient, ClientType
    <3>2. b \in GoodClient /\ b.uin = a.uin
      BY <3>1, AfterForward2SvrGood, ForwardUin
    <3>3. [a EXCEPT !.isCache = TRUE].uin = a.uin
      BY <3>1 DEF GoodClient, ClientType
    <3>4. [b EXCEPT !.cacheMsg = e, !.isCache = FALSE].uin = a.uin
      <4> HIDE DEF b, e
      <4> QED
        BY <3>2 DEF GoodClient, ClientType
    <3>5. SetCache(a, r.isCache).uin = a.uin
      BY <3>3, <3>4 DEF SetCache
    <3>6. cli' = [cli EXCEPT ![r.cid] = SetCache(a, r.isCache)]
      BY <1>6, <2>1 DEF OnRecv, Parse_CMD_REQ_CACHE_MSG, Ignored
    <3> QED
      BY <3>5, <3>6, OneUin
  <2> QED
    BY <1>1, <1>6, <2>1 DEF OnRecv, Parse_CMD_REQ_CACHE_MSG, Ignored
<1>7. CASE r.cmd = "REQ_FORWARD"
  <2>1. CASE r.cid \in VerifiedClients
    BY <1>2, <1>7, <2>1, FoundAreCids, UinKept, OneUin DEF OnRecv, OnRecvForward
  <2> QED
    BY <1>1, <1>7, <2>1 DEF OnRecv, OnRecvForward
<1>8. CASE r.cmd = "REQ_BROADCAST"
  <2>1. ASSUME NEW c \in Cids
        PROVE  \E n \in Nat : cli'[c] = SendToClient(cli[c], n)
    <3>1. r.cids \in Seq(Cids \cup {NoCid})
      BY <1>8, RequestFields
    <3>2. Len(r.cids) \in Nat /\ {i \in DOMAIN r.cids : r.cids[i] = c} \in SUBSET (1..Len(r.cids))
      BY <3>1
    <3>3. Times(c, r.cids) \in Nat
      BY <3>2, IndexCount DEF Times
    <3> QED
      BY <1>8, <3>3 DEF OnRecv, Parse_CMD_REQ_BROADCAST
  <2> QED
    BY <1>2, <2>1, UinKept DEF NoNewUin
<1>9. CASE r.cmd = "REQ_DISCON"
  <2>1. CASE r.cid \in FoundClients
    BY <1>2, <1>9, <2>1, FoundAreCids, UinKept, OneUin DEF OnRecv, Parse_CMD_REQ_DISCON
  <2> QED
    BY <1>1, <1>9, <2>1 DEF OnRecv, Parse_CMD_REQ_DISCON
<1>10. CASE r.cmd = "REQ_DISCON_ALL"
  BY <1>2, <1>10, UinKept DEF OnRecv, Parse_CMD_REQ_DISCON_ALL, NoNewUin
<1> QED
  BY <1>3, <1>4, <1>5, <1>6, <1>7, <1>8, <1>9, <1>10 DEF OnRecv
=============================================================================
