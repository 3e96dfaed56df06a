----------------------------- MODULE AccSystem -----------------------------
(***************************************************************************)
(* acc with its game servers: the acc process (AccSvr) and, for each       *)
(* server, the driver it links (ADClientCon), joined by the TCP            *)
(* connections between them.  Here servers ask acc for what the calls of   *)
(* ADFacadeMgr can send, in the order sent, and they hear what acc sent in *)
(* the order acc sent it.  Either end may see its connection break first,  *)
(* and acc may be restarted.                                               *)
(***************************************************************************)
EXTENDS AccSvr

CONSTANTS
  Svrs,         \* the server processes
  SvrIdOf,      \* the id each is configured with
  Verifiers,    \* those that verify clients
  UinSvrs,      \* those that broadcast the uin of a session
  Calls,        \* the calls servers make, by name
  ToAccMax,     \* bound: requests of a server that acc has not read
  MaxBreaks,    \* bound: connections that break of themselves
  MaxRestarts   \* bound: restarts of acc

ASSUME SystemAssumption ==
  /\ SvrIdOf \in [Svrs -> Ids]
  /\ Verifiers \subseteq Svrs /\ UinSvrs \subseteq Svrs
  /\ {"", "ann"} \subseteq Names
  /\ {ToAccMax, MaxBreaks, MaxRestarts} \subseteq Nat

VARIABLES
  drv,      \* the driver of each server
  sock,     \* the InnerSvrCon at the other end of its link, NoCon if that is gone
  toAcc,    \* what a server has sent over each connection and acc has not read
  ask,      \* the verify requests each server has still to answer: <<cid, run of acc>>
  runs,     \* how often acc has been started again
  answered, \* history: clients of this run of acc that a server was asked to admit and did
  breaks    \* connections that have broken of themselves

sysVars == <<accVars, drv, sock, toAcc, ask, runs, answered, breaks>>

AD == INSTANCE ADClientCon WITH Accs <- {"acc"}

Link(s) == drv[s].vec[1]
Linked(s) == drv[s].vec # <<>>

SysInit ==
  /\ Init
  /\ drv = [s \in Svrs |->
       AD!InitCons(AD!NewConMgr, <<"acc">>, 1, SvrIdOf[s], s \in Verifiers)]
  /\ sock = [s \in Svrs |-> NoCon]
  /\ toAcc = [k \in Conns |-> <<>>]
  /\ ask = [s \in Svrs |-> {}]
  /\ runs = 0 /\ answered = {} /\ breaks = 0

Apps == <<ask, answered>>
Net  == <<runs, breaks>>
Server(s) == [drv EXCEPT ![s] = AD!OnRecv(drv[s], 1, Head(toSvr[sock[s]]))]
------------------------------------------------------------------------------
(* Connections. *)

(* Connected on both sides; the driver's greeting is on its way.            *)
Connect(s, k) ==
  /\ Linked(s) /\ Link(s).con = "idle"
  /\ \A t \in Svrs : sock[t] # k
  /\ SvrConnect(k)
  /\ drv' = [drv EXCEPT ![s] = AD!OnConnected(drv[s], 1)]
  /\ sock' = [sock EXCEPT ![s] = k]
  /\ toAcc' = [toAcc EXCEPT ![k] = AD!Greeting(drv[s])]
  /\ UNCHANGED <<Apps, Net>>

(* A link breaks: the driver sees it, and acc does not know yet. *)
DriverBreak(s) ==
  /\ Linked(s) /\ Link(s).con = "up" /\ sock[s] # NoCon
  /\ breaks < MaxBreaks /\ breaks' = breaks + 1
  /\ drv' = [drv EXCEPT ![s] = AD!OnDisconnected(drv[s], 1)]
  /\ sock' = [sock EXCEPT ![s] = NoCon]
  /\ UNCHANGED <<accVars, toAcc, Apps, runs>>

(* The driver sees that acc's end is gone. *)
DriverNotices(s) ==
  /\ Linked(s) /\ Link(s).con = "up" /\ sock[s] = NoCon
  /\ drv' = [drv EXCEPT ![s] = AD!OnDisconnected(drv[s], 1)]
  /\ UNCHANGED <<accVars, sock, toAcc, Apps, Net>>

Peerless(k) == \A s \in Svrs : sock[s] # k

(* acc sees that the server's end is gone, or breaks of its own. *)
AccNotices(k) ==
  /\ Peerless(k) /\ toAcc[k] = <<>> /\ SvrBreak(k)
  /\ UNCHANGED <<drv, sock, toAcc, Apps, Net>>

AccBreak(k) ==
  /\ ~Peerless(k) /\ breaks < MaxBreaks /\ breaks' = breaks + 1
  /\ SvrBreak(k)
  /\ UNCHANGED <<drv, sock, toAcc, Apps, runs>>

Destroy(k) ==
  /\ DestroySvr(k)
  /\ sock' = [s \in Svrs |-> IF sock[s] = k THEN NoCon ELSE sock[s]]
  /\ toAcc' = [toAcc EXCEPT ![k] = <<>>]
  /\ UNCHANGED <<drv, Apps, Net>>

(* acc is restarted: everything it holds is lost, its ids start anew.       *)
AccRestart ==
  /\ runs < MaxRestarts /\ runs' = runs + 1
  /\ cli' = [c \in Cids |-> NewClient]
  /\ inner' = [k \in Conns |-> NewInner]
  /\ regSvr' = [id \in Ids |-> NoCon]
  /\ verifySvr' = {} /\ blIdx' = 0
  /\ seting' = DefaultSeting
  /\ cmd2Grp' = [m \in MainCmds |-> Absent]
  /\ toSvr' = [k \in Conns |-> <<>>]
  /\ reading' = [cid |-> NoCid, left |-> 0]
  /\ sock' = [s \in Svrs |-> NoCon]
  /\ toAcc' = [k \in Conns |-> <<>>]
  /\ answered' = {}
  /\ UNCHANGED <<drv, ask, breaks>>
------------------------------------------------------------------------------
(* Messages. *)

(* The mapping as SetMainCmd2GrpId sends it: Parse takes the address of the *)
(* vector's elements for their number, so that it finds the wrong length,   *)
(* or asks for more memory than there is and ends acc (then AccRestart).    *)
RawMapping(r) == r.cmd = "REQ_SET_CMD_2_GRP" /\ "raw" \in DOMAIN r

AccRecv(k) ==
  /\ toAcc[k] # <<>>
  /\ toAcc' = [toAcc EXCEPT ![k] = Tail(toAcc[k])]
  /\ LET r == Head(toAcc[k])
     IN  IF RawMapping(r) THEN inner[k].con = "open" /\ UNCHANGED accVars ELSE OnRecv(k, r)
  /\ UNCHANGED <<drv, sock, Apps, Net>>

(* A driver takes the next message; a verify request waits for the server's *)
(* answer, and a refused registration frees the link.                       *)
DriverRecv(s) ==
  /\ Linked(s) /\ Link(s).con = "up" /\ sock[s] # NoCon
  /\ SvrRead(sock[s])
  /\ drv' = Server(s)
  /\ LET m == Head(toSvr[sock[s]])
     IN  ask' = IF m.cmd = "NTF_VERIFY_REQ" /\ Link(s).isReg
                THEN [ask EXCEPT ![s] = ask[s] \cup {<<m.cid, runs>>}] ELSE ask
  /\ sock' = IF Server(s)[s].fatal THEN [sock EXCEPT ![s] = NoCon] ELSE sock
  /\ UNCHANGED <<toAcc, answered, Net>>

(* acc and its clients, when servers stand still. *)
Aside == UNCHANGED <<drv, sock, toAcc, Apps, Net>>

ClientSide ==
  /\ \/ \E c \in Cids : RecvPacket(c)
     \/ ReadDone
     \/ Idle /\ \E c \in Cids : ClientEvent(c)
  /\ Aside
------------------------------------------------------------------------------
(* Calls of a server on its driver. *)

Sends(s, reqs) ==
  /\ reqs # <<>>
  /\ IF sock[s] = NoCon THEN UNCHANGED toAcc
     ELSE /\ Len(toAcc[sock[s]]) < ToAccMax
          /\ toAcc' = [toAcc EXCEPT ![sock[s]] = toAcc[sock[s]] \o reqs]
  /\ UNCHANGED <<accVars, drv, sock, Net>>

(* The server answers a verify request, late or never. *)
Answer(s) ==
  \E q \in ask[s], ok \in BOOLEAN, uin \in Uins :
    /\ "verify" \in Calls
    /\ Sends(s, AD!ReqVerifyRet(drv[s], 1, q[1], ok, uin, "ann"))
    /\ ask' = [ask EXCEPT ![s] = ask[s] \ {q}]
    /\ answered' = IF ok /\ q[2] = runs THEN answered \cup {q[1]} ELSE answered

AnswerMsg(s) ==
  \E q \in ask[s], ok \in BOOLEAN :
    /\ "verifyMsg" \in Calls
    /\ Sends(s, AD!ReqVerifyRetMsg(drv[s], 1, q[1], ok))
    /\ ask' = [ask EXCEPT ![s] = ask[s] \ {q}]
    /\ answered' = IF ok /\ q[2] = runs THEN answered \cup {q[1]} ELSE answered

(* Calls about a session, and calls that go to every acc. *)
CallOnSession(s) ==
  /\ \E c \in Cids :
       \/ "forward" \in Calls /\ Sends(s, AD!SendToClient(drv[s], 1, c))
       \/ "discon" \in Calls /\ Sends(s, AD!DisconClient(drv[s], 1, c))
       \/ "cache" \in Calls /\ \E on \in BOOLEAN : Sends(s, AD!SetCache(drv[s], 1, c, on))
       \/ "active" \in Calls
            /\ \E g \in Grps, id \in Ids : Sends(s, AD!SetActiveSvrId(drv[s], 1, c, g, id))
       \/ s \in UinSvrs /\ \E uin \in Uins : Sends(s, AD!BroadcastUinToSession(drv[s], 1, c, uin))
  /\ UNCHANGED Apps

CallOnAccs(s) ==
  /\ \/ "cast" \in Calls
          /\ \E cids \in {<<>>} \cup {<<c>> : c \in Cids} :
               Sends(s, AD!BroadCastToClient(drv[s], 1, cids))
     \/ "disconAll" \in Calls /\ Sends(s, AD!DisconAllClient(drv[s], 1))
     \/ "map" \in Calls /\ \E g \in Grps : Sends(s, AD!SetMainCmd2GrpId(drv[s], 1, g, MainCmds))
  /\ UNCHANGED Apps

(* The settings go out now if the link is up, and with every greeting. *)
ChooseSeting(s) ==
  /\ Linked(s)
  /\ \E x \in Setings :
       /\ drv' = [drv EXCEPT ![s] = AD!SetAccSeting(drv[s], x)]
       /\ IF Link(s).con = "up" /\ sock[s] # NoCon
          THEN /\ Len(toAcc[sock[s]]) < ToAccMax
               /\ toAcc' = [toAcc EXCEPT ![sock[s]] = toAcc[sock[s]] \o drv'[s].seting]
          ELSE UNCHANGED toAcc
  /\ UNCHANGED <<accVars, sock, Apps, Net>>

SysNext ==
  \/ ClientSide
  \/ AccRestart
  \/ \E k \in Conns :
       Idle /\ (AccRecv(k) \/ AccNotices(k) \/ AccBreak(k) \/ Destroy(k))
  \/ \E s \in Svrs :
       \/ Idle /\ \E k \in Conns : Connect(s, k)
       \/ DriverBreak(s) \/ DriverNotices(s) \/ DriverRecv(s)
       \/ Answer(s) \/ AnswerMsg(s)
       \/ CallOnSession(s) \/ CallOnAccs(s) \/ ChooseSeting(s)

SysSpec == SysInit /\ [][SysNext]_sysVars

(* A driver keeps no note of what it was asked (ReqVerifyRet), so a server  *)
(* may answer a question of an earlier run of acc, when the cid in it has   *)
(* become somebody else's.  No server does so in a step that is timely.     *)
Timely == \A s \in Svrs : \A q \in ask[s] \ ask'[s] : q[2] = runs

(* What the loop of acc has to do for a client: a timer that is due, or the *)
(* deletion that waits.  For a connection: read, notice its end, delete.    *)
ClientDue(c) == OnVerfiyTimeOut(c) \/ OnClsTimeOut(c) \/ DestroyClient(c)
SvrDue(k)    == AccRecv(k) \/ AccNotices(k) \/ Destroy(k)

(* Both ends keep running, and the network tells each of the other's end:   *)
(* a read callback returns, the loop comes round to every client and every  *)
(* connection, a driver reads what arrives, and an idle driver's reconnect  *)
(* timer fires and finds acc listening.                                     *)
SysFairness ==
  /\ WF_sysVars(ReadDone /\ Aside)
  /\ \A c \in Cids : SF_sysVars(Idle /\ ClientDue(c) /\ Aside)
  /\ \A k \in Conns : SF_sysVars(Idle /\ SvrDue(k))
  /\ \A s \in Svrs : /\ SF_sysVars(Idle /\ \E k \in Conns : Connect(s, k))
                     /\ WF_sysVars(DriverNotices(s))
                     /\ WF_sysVars(DriverRecv(s))

SysFairSpec == SysSpec /\ SysFairness
------------------------------------------------------------------------------
(* Server s and acc agree that it is registered over the link it has. *)
InService(s) ==
  sock[s] # NoCon /\ inner[sock[s]].con = "open" /\ inner[sock[s]].svrId # 0

(* Of the messages q to server s: message i finds it registered, and none   *)
(* behind message i ends the session of client c.                           *)
Heard(s, q, i) ==
  Link(s).isReg \/ \E h \in DOMAIN q : h < i /\ q[h].cmd = "RSP_REG" /\ q[h].svrId = drv[s].svrId

Stays(q, c, i) == \A j \in DOMAIN q : i < j => ~(q[j].cmd = "NTF_DISCON" /\ q[j].cid = c)

(* Server s has a session of client c, now or once it has read what is on   *)
(* its way.                                                                 *)
WillKnow(s, c) ==
  LET q == toSvr[sock[s]]
  IN  \/ Link(s).sess[c] # AD!NoSession /\ Stays(q, c, 0)
      \/ \E i \in DOMAIN q :
           q[i].cmd = "NTF_CREATE_SESSION" /\ q[i].cid = c /\ Heard(s, q, i) /\ Stays(q, c, i)

(* A server in service knows exactly the clients that acc has let in, but   *)
(* for the messages on their way: none is missed because it logged in while *)
(* the server was away, and none is kept that left meanwhile.               *)
SessionMirror ==
  \A s \in Svrs : InService(s) =>
    \A c \in Cids :
      /\ cli[c].state = "VERIFYED" /\ cli[c].con = "open" => WillKnow(s, c)
      /\ WillKnow(s, c) => cli[c].state = "VERIFYED" /\ Alive(cli[c])

(* Message i of q tells the uin of client c.                                *)
TellsUin(q, c, i) == q[i].cmd \in {"NTF_CREATE_SESSION", "RSP_BROADCAST_UIN"} /\ q[i].cid = c

(* Server s has uin u of client c, now or once it has read what is on its   *)
(* way: the last message that tells it has u, or else the session.  A       *)
(* session that exists is not created again (HandleCreateSession), so that  *)
(* a message that begins one must not tell what is new.                     *)
WillHoldUin(s, c, u) ==
  LET q == toSvr[sock[s]]
      told == {i \in DOMAIN q : TellsUin(q, c, i)}
      held == Link(s).sess[c]
  IN  /\ told = {} => held = u
      /\ \A i \in told : (\A j \in told : j <= i) => q[i].uin = u
      /\ \A i \in told : q[i].cmd = "NTF_CREATE_SESSION" =>
           /\ held \in {q[i].uin, AD!NoSession}
           /\ \A j \in told : j < i => q[j].uin = q[i].uin

(* It also knows the uin that was set last, wherever it was set and whether *)
(* the server was there at the time; the one that sets it hears nothing.    *)
UinMirror ==
  \A s \in Svrs \ UinSvrs : InService(s) =>
    \A c \in Cids : WillKnow(s, c) /\ cli[c].uin # 0 => WillHoldUin(s, c, cli[c].uin)

(* A client is let in by an answer to its own request.                      *)
AdmittedWasAnswered ==
  \A c \in Cids : cli[c].state = "VERIFYED" => c \in answered

(* What a server asks about a client, acc has let that client in: no call   *)
(* names a client that has not been verified yet, or one of an earlier      *)
(* connection's sessions.                                                   *)
CallsNameClients ==
  \A k \in Conns : \A i \in DOMAIN toAcc[k] :
    LET r == toAcc[k][i]
    IN  r.cmd \in {"REQ_FORWARD", "REQ_DISCON", "REQ_CACHE_MSG", "REQ_SET_ACTIVE_SVR",
                   "REQ_BROADCAST_UIN"}
        => cli[r.cid].state = "VERIFYED" \/ cli[r.cid].con = "gone"

(* A server whose link is down gets its registration back, unless it is     *)
(* told to give up.                                                         *)
LinkComesBack ==
  \A s \in Svrs : (Linked(s) /\ Link(s).con = "idle")
                    ~> (drv[s].fatal \/ (Linked(s) /\ Link(s).isReg))
------------------------------------------------------------------------------
(* What documents and tests say and the code does not do.                   *)

(* doc.md:80-82: a server that loses its connection registers again; only   *)
(* servers configured with one id between them are refused, and give up.    *)
FatalNeedsDuplicate ==
  (\A s, t \in Svrs : s # t => SvrIdOf[s] # SvrIdOf[t]) => \A s \in Svrs : ~drv[s].fatal

(* doc.md:60: a server's mapping of commands to a group takes effect.       *)
MappingTakesEffect ==
  [][\A k \in Conns :
       toAcc[k] # <<>> /\ Head(toAcc[k]).cmd = "REQ_SET_CMD_2_GRP" /\ AccRecv(k)
       => \A m \in Head(toAcc[k]).cmds : cmd2Grp'[m] = Head(toAcc[k]).grpId]_sysVars
==============================================================================
