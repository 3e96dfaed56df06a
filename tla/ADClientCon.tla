---------------------------- MODULE ADClientCon ----------------------------
(***************************************************************************)
(* acc_driver, the library a game server links: what its classes do to     *)
(* their state.  A driver is a record d: ConMgr, which holds in vec one    *)
(* ADClientCon for each acc the server connects to, in the order of their  *)
(* acc ids.  Operators take the driver and return it changed, or return    *)
(* the requests it sends, so that one process (AccDriver) and several      *)
(* beside acc (AccSystem) are built from them.                             *)
(***************************************************************************)
EXTENDS Integers, Sequences

CONSTANTS
  Cids,      \* the client ids an acc hands out
  Uins,      \* player ids
  Names,     \* account names
  Accs       \* addresses of accs

NoSession == -1     \* m_id_2_s has no entry

ASSUME ADAssumption == Uins \subseteq Nat \ {0} /\ 0 \notin Cids

LinkType == [addr : Accs, con : {"idle", "up"}, isReg : BOOLEAN,
             sess : [Cids -> Uins \cup {0, NoSession}]]

NoSessions == [c \in Cids |-> NoSession]

(* ADClientCon after ConnectInit: not connected yet, or waiting to be again. *)
NewLink(addr) == [addr |-> addr, con |-> "idle", isReg |-> FALSE, sess |-> NoSessions]

(* ConMgr().  results is what OnRegResult has told the server, in order.    *)
NewConMgr == [vec |-> <<>>, svrId |-> 0, isVerify |-> FALSE, fatal |-> FALSE,
              isReg |-> FALSE, seting |-> <<>>, results |-> <<>>]

(* The links a call may use, and their sessions. *)
Usable(d, i)       == i \in DOMAIN d.vec /\ d.vec[i].isReg

(* Bug: FindSession is not asked. *)
HasSession_RegOnly(d, i, c) == Usable(d, i)

(* FindSession *)
HasSession(d, i, c) == Usable(d, i) /\ d.vec[i].sess[c] # NoSession

SetLink(d, i, l) == [d EXCEPT !.vec = [d.vec EXCEPT ![i] = l]]
------------------------------------------------------------------------------
(* ConMgr. *)

(* Init: the first n of the addresses are connected to; fewer than all of   *)
(* them when a ConnectInit fails, which leaves the others in place.         *)
MayInit(d, addrs) == ~d.fatal /\ addrs # <<>> /\ d.vec = <<>>

InitCons(d, addrs, n, id, verify) ==
  [d EXCEPT !.svrId = id, !.isVerify = verify, !.vec = [i \in 1..n |-> NewLink(addrs[i])]]

MayAddAcc(d, addr) ==
  ~d.fatal /\ d.svrId # 0 /\ \A i \in DOMAIN d.vec : d.vec[i].addr # addr

AddAcc(d, addr) == [d EXCEPT !.vec = Append(d.vec, NewLink(addr))]

(* Bug: every acc that registers is reported. *)
SetRegResult_Always(d) == [d EXCEPT !.isReg = TRUE, !.results = Append(d.results, d.svrId)]

(* SetRegResult(true): the first acc that registers counts for all. *)
SetRegResult(d) ==
  IF d.isReg THEN d
  ELSE [d EXCEPT !.isReg = TRUE, !.results = Append(d.results, d.svrId)]

(* SetFatal, with the SetRegResult(0) before it: all links go, for good. *)
SetFatal(d) == [d EXCEPT !.fatal = TRUE, !.vec = <<>>, !.results = Append(d.results, 0)]
------------------------------------------------------------------------------
(* ADClientCon: events of a link. *)

(* Bug: an acc that is connected to again keeps the settings it had. *)
Greeting_NoSeting(d) ==
  IF d.svrId = 0 THEN <<>>
  ELSE <<[cmd |-> "REQ_REG", svrId |-> d.svrId, isVerify |-> d.isVerify]>>

(* Bug: only the first connection asks for a registration. *)
Greeting_Once(d) ==
  IF d.svrId = 0 \/ d.isReg THEN d.seting
  ELSE <<[cmd |-> "REQ_REG", svrId |-> d.svrId, isVerify |-> d.isVerify]>> \o d.seting

(* OnConnected: register, and repeat the settings. *)
Greeting(d) ==
  IF d.svrId = 0 THEN <<>>
  ELSE <<[cmd |-> "REQ_REG", svrId |-> d.svrId, isVerify |-> d.isVerify]>> \o d.seting

OnConnected(d, i) == SetLink(d, i, [d.vec[i] EXCEPT !.con = "up"])

(* Bug: the sessions of the connection that ended are kept. *)
OnDisconnected_Keeps(d, i) == SetLink(d, i, [d.vec[i] EXCEPT !.con = "idle", !.isReg = FALSE])

(* OnDisconnected: forget the sessions, start the reconnect timer. *)
OnDisconnected(d, i) ==
  SetLink(d, i, [d.vec[i] EXCEPT !.con = "idle", !.isReg = FALSE, !.sess = NoSessions])

(* HandleRspReg. *)
HandleRspReg(d, i, m) ==
  IF d.vec[i].isReg THEN d
  ELSE IF m.svrId = 0 THEN SetFatal(d)
  ELSE IF m.svrId # d.svrId THEN d
  ELSE SetRegResult(SetLink(d, i, [d.vec[i] EXCEPT !.isReg = TRUE]))

(* A session is set to uin or, with NoSession, erased. *)
SetSession(d, i, c, uin) ==
  SetLink(d, i, [d.vec[i] EXCEPT !.sess = [d.vec[i].sess EXCEPT ![c] = uin]])

HandleCreateSession(d, i, m) ==
  IF HasSession(d, i, m.cid) THEN d ELSE SetSession(d, i, m.cid, m.uin)

HandleMsgNtfDiscon(d, i, m) == SetSession(d, i, m.cid, NoSession)

(* Bug: the two numbers of the message are taken for each other. *)
HandleMsgBroadcastUin_Swapped(d, i, m) ==
  IF HasSession(d, i, m.cid) THEN SetSession(d, i, m.cid, m.cid) ELSE d

HandleMsgBroadcastUin(d, i, m) ==
  IF HasSession(d, i, m.cid) THEN SetSession(d, i, m.cid, m.uin) ELSE d

(* OnRecv: until the registration is answered everything else is dropped.   *)
(* The messages not named here only call the server back (CallBacks).       *)
OnRecv(d, i, m) ==
  CASE m.cmd = "RSP_REG"                                  -> HandleRspReg(d, i, m)
    [] d.vec[i].isReg /\ m.cmd = "NTF_CREATE_SESSION"     -> HandleCreateSession(d, i, m)
    [] d.vec[i].isReg /\ m.cmd = "NTF_DISCON"             -> HandleMsgNtfDiscon(d, i, m)
    [] d.vec[i].isReg /\ m.cmd = "RSP_BROADCAST_UIN"      -> HandleMsgBroadcastUin(d, i, m)
    [] OTHER                                              -> d
------------------------------------------------------------------------------
(* The virtual functions of ADFacadeMgr a message ends in, as the server    *)
(* overrides them.                                                          *)
CallBackOf == [NTF_CREATE_SESSION |-> "OnClientConnect",
               NTF_VERIFY_REQ     |-> "OnRevVerifyReq",
               NTF_FORWARD        |-> "OnRevClientMsg",
               NTF_DISCON         |-> "OnClientDisCon",
               RSP_SET_ACTIVE_SVR |-> "OnSetActiveSvr",
               RSP_CACHE_MSG      |-> "OnMsgRspCacheMsg",
               RSP_BROADCAST_UIN  |-> "OnRevBroadcastUinToSession"]

(* Bug: a packet is handed over without its session being looked up. *)
HasCallBack_NoFind(d, i, m) ==
  CASE m.cmd = "NTF_CREATE_SESSION"              -> ~HasSession(d, i, m.cid)
    [] m.cmd \in {"NTF_VERIFY_REQ", "NTF_FORWARD"} -> TRUE
    [] OTHER                                     -> HasSession(d, i, m.cid)

(* A session that exists is not created again; a verify request is about no *)
(* session; everything else needs one.                                      *)
HasCallBack(d, i, m) ==
  CASE m.cmd = "NTF_CREATE_SESSION" -> ~HasSession(d, i, m.cid)
    [] m.cmd = "NTF_VERIFY_REQ"     -> TRUE
    [] OTHER                        -> HasSession(d, i, m.cid)

(* The names of the callbacks of message m on link i, at most one. *)
CallBacks(d, i, m) ==
  IF m.cmd \in DOMAIN CallBackOf /\ d.vec[i].isReg /\ HasCallBack(d, i, m)
  THEN {CallBackOf[m.cmd]} ELSE {}

(* What a server that keeps the sessions of an acc by what it is called     *)
(* with makes of the message: view is what it holds so far.                 *)
ViewAfter(view, d, i, m) ==
  LET called == CallBacks(d, i, m)
  IN  IF called \cap {"OnClientConnect", "OnRevBroadcastUinToSession"} # {}
      THEN [view EXCEPT ![m.cid] = m.uin]
      ELSE IF "OnClientDisCon" \in called THEN [view EXCEPT ![m.cid] = NoSession]
      ELSE view
------------------------------------------------------------------------------
(* ADFacadeMgr: what a call sends over link i; <<>> when it is refused. *)
When(ok, req) == IF ok THEN <<req>> ELSE <<>>

(* Bug: every answer admits. *)
ReqVerifyRet_AlwaysOk(d, i, c, ok, uin, name) ==
  When(Usable(d, i), [cmd |-> "REQ_VERIFY_RET", cid |-> c, isSuccess |-> TRUE, uin |-> uin,
                      accName |-> name])

(* A verify answer needs a registration, but no session: there is none yet. *)
ReqVerifyRet(d, i, c, ok, uin, name) ==
  When(Usable(d, i), [cmd |-> "REQ_VERIFY_RET", cid |-> c, isSuccess |-> ok, uin |-> uin,
                    accName |-> name])

(* The overload without uin and name.  It leaves out is_success as well,    *)
(* so that VerifyRetStruct's default goes out.                              *)
ReqVerifyRetMsg(d, i, c, ok) == ReqVerifyRet(d, i, c, FALSE, 0, "")

BroadcastUinToSession(d, i, c, uin) ==
  When(HasSession(d, i, c), [cmd |-> "REQ_BROADCAST_UIN", cid |-> c, uin |-> uin])

SendToClient(d, i, c) == When(HasSession(d, i, c), [cmd |-> "REQ_FORWARD", cid |-> c])
DisconClient(d, i, c) == When(HasSession(d, i, c), [cmd |-> "REQ_DISCON", cid |-> c])

SetActiveSvrId(d, i, c, grp, svr) ==
  When(HasSession(d, i, c), [cmd |-> "REQ_SET_ACTIVE_SVR", cid |-> c, grpId |-> grp, svrId |-> svr])

SetCache(d, i, c, on) ==
  When(HasSession(d, i, c), [cmd |-> "REQ_CACHE_MSG", cid |-> c, isCache |-> on])

(* To every acc that has registered the server.  The vector of the mapping  *)
(* goes out as the bytes of its object (Send(Cmd, const CtrlMsg &)), not as *)
(* MsgReqSetCmd2GrpId::Serialize writes it.                                 *)
BroadCastToClient(d, i, cids) == When(Usable(d, i), [cmd |-> "REQ_BROADCAST", cids |-> cids])
DisconAllClient(d, i)         == When(Usable(d, i), [cmd |-> "REQ_DISCON_ALL"])
SetMainCmd2GrpId(d, i, grp, cmds) ==
  When(Usable(d, i), [cmd |-> "REQ_SET_CMD_2_GRP", raw |-> TRUE, grpId |-> grp, cmds |-> cmds])

(* SetAccSeting: kept for every later connection, sent to those that are up. *)
SetAccSeting(d, s) == [d EXCEPT !.seting = <<[cmd |-> "REQ_ACC_SETING", seting |-> s]>>]
==============================================================================
