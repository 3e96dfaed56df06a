------------------------------ MODULE InnerCon ------------------------------
(***************************************************************************)
(* The connection of a server to acc: class InnerSvrCon, its request       *)
(* handlers (SvrCtrlMsgDispatch) and the two registries it keeps itself    *)
(* in.  A request is a record whose field cmd is the name of its command.  *)
(***************************************************************************)
EXTENDS ExternalCon

(* What VERIFY_RET, RevertSession and BROADCAST_UIN tell a server. *)
CreateSession(c, uin, name) ==
  [cmd |-> "NTF_CREATE_SESSION", cid |-> c, uin |-> uin, accName |-> name]

VerifiedClients == {c \in FoundClients : cli[c].state = "VERIFYED"}
RegisteredInner_Verifiers == FoundInner \cap verifySvr

RegisteredInner == {k \in FoundInner : inner[k].svrId # 0}

(* The orders in which Foreach may visit the set S. *)
Orders(S) == {s \in [1..Cardinality(S) -> S] : \A x \in S : \E i \in DOMAIN s : s[i] = x}

(* Handlers that touch one client only, and those that touch none. *)
ClientOnly == UNCHANGED <<inner, regSvr, verifySvr, blIdx, seting, cmd2Grp, toSvr>>
Ignored    == UNCHANGED cli /\ ClientOnly
Registries == UNCHANGED <<regSvr, verifySvr, blIdx, seting, cmd2Grp>>
------------------------------------------------------------------------------
(* Accept of a server, and the end of its connection for whatever reason.   *)
SvrConnect(k) ==
  /\ inner[k].con = "none"
  /\ inner' = [inner EXCEPT ![k] = [NewInner EXCEPT !.con = "open"]]
  /\ toSvr' = [toSvr EXCEPT ![k] = <<>>]
  /\ UNCHANGED <<cli, reading>> /\ Registries

SvrBreak(k) ==
  /\ inner[k].con = "open"
  /\ inner' = [inner EXCEPT ![k] = DisConnect(inner[k])]
  /\ UNCHANGED <<cli, toSvr, reading>> /\ Registries

(* Bug: a verify server that dies stays in m_verify_svr. *)
DestroySvr_Dangling(k) ==
  /\ inner[k].con = "closing"
  /\ inner' = [inner EXCEPT ![k] = NewInner]
  /\ toSvr' = [toSvr EXCEPT ![k] = <<>>]
  /\ regSvr' = [id \in Ids |-> IF regSvr[id] = k THEN NoCon ELSE regSvr[id]]
  /\ UNCHANGED <<cli, verifySvr, blIdx, seting, cmd2Grp, reading>>

(* ~InnerSvrCon: leave both registries. *)
DestroySvr(k) ==
  /\ inner[k].con = "closing"
  /\ inner' = [inner EXCEPT ![k] = NewInner]
  /\ toSvr' = [toSvr EXCEPT ![k] = <<>>]
  /\ regSvr' = IF inner[k].svrId = 0 THEN regSvr
               ELSE [regSvr EXCEPT ![inner[k].svrId] = NoCon]
  /\ verifySvr' = IF inner[k].isVerify THEN verifySvr \ {k} ELSE verifySvr
  /\ UNCHANGED <<cli, blIdx, seting, cmd2Grp, reading>>
------------------------------------------------------------------------------
(* CMD_REQ_REG.  The requested id is 32 bits wide, RegSvrId takes 16 and    *)
(* the answer repeats the 32.  RegSvrId refuses 0, a connection that has an *)
(* id and an id that has a connection; a refused server still becomes a     *)
(* verify server and still gets the sessions.  Bugs: RegSvrIdOk_Takeover lets *)
(* a server displace another, SessionsFor_None and SessionsFor_NoUin revert  *)
(* nothing, or sessions without their uin.                                  *)
RegSvrIdOk_Takeover(k, id) == id # 0 /\ inner[k].svrId = 0

RegSvrIdOk(k, id) == id # 0 /\ inner[k].svrId = 0 /\ regSvr[id] = NoCon

SessionsFor_None(order) == <<>>
SessionsFor_NoUin(order) == [i \in DOMAIN order |-> CreateSession(order[i], 0, "uninit")]

SessionsFor(order) == [i \in DOMAIN order |-> CreateSession(order[i], cli[order[i]].uin, "uninit")]

RegAnswers(k, rsp, order) ==
  [j \in Conns |-> IF j = k THEN <<rsp>> \o SessionsFor(order) ELSE <<>>]

Parse_CMD_REQ_REG(k, r) ==
  LET id == r.svrId % 65536
      ok == RegSvrIdOk(k, id)
      me == [inner[k] EXCEPT !.svrId = IF ok THEN id ELSE inner[k].svrId,
                             !.isVerify = inner[k].isVerify \/ r.isVerify]
      rsp == [cmd |-> "RSP_REG", svrId |-> IF ok THEN r.svrId ELSE 0]
  IN  /\ regSvr' = IF ok THEN [regSvr EXCEPT ![id] = k] ELSE regSvr
      /\ verifySvr' = IF r.isVerify THEN verifySvr \cup {k} ELSE verifySvr
      /\ \E order \in Orders(VerifiedClients) :
           Send([inner EXCEPT ![k] = me], RegAnswers(k, rsp, order))
      /\ UNCHANGED <<cli, blIdx, seting, cmd2Grp>>

(* CMD_REQ_VERIFY_RET.  The client is sent the answer whatever it is.       *)
(* SetVerify only takes a client that waits for it; the sessions are        *)
(* announced also when it did not, and not at all when the name is long.    *)
SetVerify_TimerRuns(rec) ==
  IF rec.state = "WAIT_VERIFY" THEN [rec EXCEPT !.state = "VERIFYED"] ELSE rec

(* Bug: the login stops every timer, that of a client over the limit too. *)
SetVerify_AllTimers(rec) ==
  IF rec.state = "WAIT_VERIFY" THEN [rec EXCEPT !.state = "VERIFYED", !.tm = {}] ELSE rec

(* Bug: the state is not asked for. *)
SetVerify_AnyState(rec) == [rec EXCEPT !.state = "VERIFYED", !.tm = rec.tm \ {"verify"}]

SetVerify(rec) ==
  IF rec.state = "WAIT_VERIFY"
  THEN [rec EXCEPT !.state = "VERIFYED", !.tm = rec.tm \ {"verify"}]
  ELSE rec

Parse_CMD_REQ_VERIFY_RET(k, r) ==
  \/ r.cid \notin FoundClients /\ Ignored
  \/ /\ r.cid \in FoundClients
     /\ ~r.isSuccess \/ cli[r.cid].state = "VERIFYED"
     /\ cli' = [cli EXCEPT ![r.cid] = SendToClient(cli[r.cid], 1)]
     /\ ClientOnly
  \/ /\ r.cid \in FoundClients
     /\ r.isSuccess /\ cli[r.cid].state # "VERIFYED"
     /\ cli' = [cli EXCEPT ![r.cid] = SetVerify(SendToClient(cli[r.cid], 1))]
     /\ IF r.accName \in LongNames
        THEN UNCHANGED <<inner, toSvr>>
        ELSE SendAll(RegisteredInner, CreateSession(r.cid, r.uin, r.accName))
     /\ Registries

(* CMD_REQ_BROADCAST_UIN: to every registered server but the one that asks. *)
Parse_CMD_REQ_BROADCAST_UIN(k, r) ==
  \/ r.cid \notin FoundClients /\ Ignored
  \/ /\ r.cid \in FoundClients
     /\ cli' = [cli EXCEPT ![r.cid].uin = r.uin]
     /\ SendAll(RegisteredInner \ {k},
                [cmd |-> "RSP_BROADCAST_UIN", cid |-> r.cid, uin |-> r.uin])
     /\ Registries
------------------------------------------------------------------------------
(* CMD_REQ_SET_CMD_2_GRP. *)
Parse_CMD_REQ_SET_CMD_2_GRP(k, r) ==
  /\ cmd2Grp' = IF r.grpId = 0 THEN cmd2Grp
                ELSE [m \in MainCmds |-> IF m \in r.cmds THEN r.grpId ELSE cmd2Grp[m]]
  /\ UNCHANGED <<cli, inner, regSvr, verifySvr, blIdx, seting, toSvr>>

(* CMD_REQ_SET_ACTIVE_SVR: a failure is answered with zeros, a client that  *)
(* is not verified not at all; SetActiveSvrId may drop the pair unsaid.     *)
SetActiveSvrId(rec, g, s) ==
  IF g \in Grps /\ s # 0 THEN [rec EXCEPT !.active = [rec.active EXCEPT ![g] = s]] ELSE rec

RspSetActive(c, g, s) ==
  [cmd |-> "RSP_SET_ACTIVE_SVR", cid |-> c, grpId |-> g, svrId |-> s]

Parse_CMD_REQ_SET_ACTIVE_SVR(k, r) ==
  \/ /\ r.cid \notin FoundClients
     /\ SendTo(k, RspSetActive(r.cid, 0, 0))
     /\ UNCHANGED cli /\ Registries
  \/ r.cid \in FoundClients /\ cli[r.cid].state # "VERIFYED" /\ Ignored
  \/ /\ r.cid \in VerifiedClients
     /\ cli' = [cli EXCEPT ![r.cid] = SetActiveSvrId(cli[r.cid], r.grpId, r.svrId)]
     /\ SendTo(k, RspSetActive(r.cid, r.grpId, r.svrId))
     /\ Registries

(* CMD_REQ_CACHE_MSG: the answer goes out before SetCache, which on resume  *)
(* forwards what was kept, in order.                                        *)
SetCache_Keeps(rec, on) ==
  IF on THEN [rec EXCEPT !.isCache = TRUE]
  ELSE [AfterForward2Svr(rec, rec.cacheMsg) EXCEPT !.isCache = FALSE]

SetCache(rec, on) ==
  IF on THEN [rec EXCEPT !.isCache = TRUE]
  ELSE [AfterForward2Svr(rec, rec.cacheMsg) EXCEPT !.cacheMsg = <<>>, !.isCache = FALSE]

Parse_CMD_REQ_CACHE_MSG(k, r) ==
  LET rsp  == [cmd |-> "RSP_CACHE_MSG", cid |-> r.cid, isCache |-> r.isCache]
      kept == IF r.isCache THEN <<>> ELSE cli[r.cid].cacheMsg
  IN  \/ r.cid \notin VerifiedClients /\ Ignored
      \/ /\ r.cid \in VerifiedClients
         /\ cli' = [cli EXCEPT ![r.cid] = SetCache(cli[r.cid], r.isCache)]
         /\ Send(inner, [j \in Conns |->
              (IF j = k THEN <<rsp>> ELSE <<>>) \o Forwarded(r.cid, kept, j)])
         /\ Registries
------------------------------------------------------------------------------
(* CMD_REQ_FORWARD and CMD_REQ_BROADCAST: to verified clients only.  An     *)
(* empty cid list means all of them; a listed cid may be repeated.          *)
OnRecvForward(k, r) ==
  /\ cli' = IF r.cid \in VerifiedClients
            THEN [cli EXCEPT ![r.cid] = SendToClient(cli[r.cid], 1)] ELSE cli
  /\ ClientOnly

Times(c, s) == Cardinality({i \in DOMAIN s : s[i] = c})

Parse_CMD_REQ_BROADCAST(k, r) ==
  LET count(c) == IF c \notin VerifiedClients \/ Len(r.cids) > MAX_BROADCAST_CID_NUM THEN 0
                  ELSE IF r.cids = <<>> THEN 1 ELSE Times(c, r.cids)
  IN  /\ cli' = [c \in Cids |-> SendToClient(cli[c], count(c))]
      /\ ClientOnly

(* Bug: the servers hear of the end here and again from the destructor. *)
Parse_CMD_REQ_DISCON_Notifies(k, r) ==
  /\ r.cid \in VerifiedClients
  /\ cli' = [cli EXCEPT ![r.cid] = DisConnect(cli[r.cid])]
  /\ SendAll(Registered, [cmd |-> "NTF_DISCON", cid |-> r.cid])
  /\ Registries

(* CMD_REQ_DISCON and CMD_REQ_DISCON_ALL. *)
Parse_CMD_REQ_DISCON(k, r) ==
  /\ cli' = IF r.cid \in FoundClients
            THEN [cli EXCEPT ![r.cid] = DisConnect(cli[r.cid])] ELSE cli
  /\ ClientOnly

Parse_CMD_REQ_DISCON_ALL(k, r) ==
  /\ cli' = [c \in Cids |-> IF c \in FoundClients THEN DisConnect(cli[c]) ELSE cli[c]]
  /\ ClientOnly

(* CMD_REQ_ACC_SETING: the last server to ask decides for all. *)
Parse_CMD_REQ_ACC_SETING(k, r) ==
  /\ seting' = r.seting
  /\ UNCHANGED <<cli, inner, regSvr, verifySvr, blIdx, cmd2Grp, toSvr>>
------------------------------------------------------------------------------
(* What a server may ask for. *)
RequestType ==
       [cmd : {"REQ_REG"}, svrId : {n \in Nat : n % 65536 \in Ids \cup {0}}, isVerify : BOOLEAN]
  \cup [cmd : {"REQ_VERIFY_RET"}, cid : Cids \cup {NoCid}, isSuccess : BOOLEAN,
        uin : Uins \cup {0}, accName : Names]
  \cup [cmd : {"REQ_BROADCAST_UIN"}, cid : Cids \cup {NoCid}, uin : Uins]
  \cup [cmd : {"REQ_SET_CMD_2_GRP"}, grpId : Ids \cup {0}, cmds : SUBSET MainCmds]
  \cup [cmd : {"REQ_SET_ACTIVE_SVR"}, cid : Cids \cup {NoCid}, grpId : Ids \cup {0},
        svrId : Ids \cup {0}]
  \cup [cmd : {"REQ_CACHE_MSG"}, cid : Cids \cup {NoCid}, isCache : BOOLEAN]
  \cup [cmd : {"REQ_FORWARD", "REQ_DISCON"}, cid : Cids \cup {NoCid}]
  \cup [cmd : {"REQ_BROADCAST"}, cids : Seq(Cids \cup {NoCid})]
  \cup [cmd : {"REQ_DISCON_ALL"}]
  \cup [cmd : {"REQ_ACC_SETING"}, seting : SetingType]

(* OnRecv: the dispatch table.  A handler runs to its end on an open        *)
(* connection.                                                              *)
OnRecv(k, r) ==
  /\ inner[k].con = "open"
  /\ \/ r.cmd = "REQ_REG"            /\ Parse_CMD_REQ_REG(k, r)
     \/ r.cmd = "REQ_VERIFY_RET"     /\ Parse_CMD_REQ_VERIFY_RET(k, r)
     \/ r.cmd = "REQ_BROADCAST_UIN"  /\ Parse_CMD_REQ_BROADCAST_UIN(k, r)
     \/ r.cmd = "REQ_SET_CMD_2_GRP"  /\ Parse_CMD_REQ_SET_CMD_2_GRP(k, r)
     \/ r.cmd = "REQ_SET_ACTIVE_SVR" /\ Parse_CMD_REQ_SET_ACTIVE_SVR(k, r)
     \/ r.cmd = "REQ_CACHE_MSG"      /\ Parse_CMD_REQ_CACHE_MSG(k, r)
     \/ r.cmd = "REQ_FORWARD"        /\ OnRecvForward(k, r)
     \/ r.cmd = "REQ_BROADCAST"      /\ Parse_CMD_REQ_BROADCAST(k, r)
     \/ r.cmd = "REQ_DISCON"         /\ Parse_CMD_REQ_DISCON(k, r)
     \/ r.cmd = "REQ_DISCON_ALL"     /\ Parse_CMD_REQ_DISCON_ALL(k, r)
     \/ r.cmd = "REQ_ACC_SETING"     /\ Parse_CMD_REQ_ACC_SETING(k, r)
  /\ UNCHANGED reading
==============================================================================
