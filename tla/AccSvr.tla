------------------------------- MODULE AccSvr -------------------------------
(***************************************************************************)
(* The acc process in an environment that may do anything the protocol can *)
(* carry: clients connect, send and vanish, servers connect, ask for       *)
(* whatever they like in any order and vanish, sockets drain when they     *)
(* please.  Constant Requests is what servers may ask for.                 *)
(***************************************************************************)
EXTENDS InnerCon

CONSTANT Requests

ASSUME RequestsAssumption == Requests \subseteq RequestType
ASSUME SetingsAssumption  == Setings \subseteq SetingType

Init ==
  /\ cli = [c \in Cids |-> NewClient]
  /\ inner = [k \in Conns |-> NewInner]
  /\ regSvr = [id \in Ids |-> NoCon]
  /\ verifySvr = {}
  /\ blIdx = 0
  /\ seting = DefaultSeting
  /\ cmd2Grp = [m \in MainCmds |-> Absent]
  /\ toSvr = [k \in Conns |-> <<>>]
  /\ reading = [cid |-> NoCid, left |-> 0]

(* A server takes the next message off its socket. *)
SvrRead(k) ==
  /\ toSvr[k] # <<>>
  /\ toSvr' = [toSvr EXCEPT ![k] = Tail(toSvr[k])]
  /\ UNCHANGED <<cli, inner, reading>> /\ Registries

(* MaxCache bounds what a client gets kept, not what acc would keep. *)
RecvPacket(c) ==
  \E p \in Packets : Len(cli[c].cacheMsg) < MaxCache /\ OnRawRecv(c, p)

ClientEvent(c) ==
  \/ OnConnected(c)
  \/ ClientBreak(c)
  \/ ClientDrain(c)
  \/ OnWaitFirstMsgTimeOut(c)
  \/ OnVerfiyTimeOut(c)
  \/ OnHeartbeatTimeOut(c)
  \/ OnClsTimeOut(c)
  \/ DestroyClient(c)

SvrEvent(k) ==
  \/ SvrConnect(k)
  \/ SvrBreak(k)
  \/ SvrRead(k)
  \/ DestroySvr(k)
  \/ \E r \in Requests : OnRecv(k, r)

(* While a read callback runs the loop handles nothing else. *)
Next ==
  \/ \E c \in Cids : RecvPacket(c)
  \/ ReadDone
  \/ Idle /\ \E c \in Cids : ClientEvent(c)
  \/ Idle /\ \E k \in Conns : SvrEvent(k)

Spec == Init /\ [][Next]_accVars
------------------------------------------------------------------------------
(* Every variable has its type. *)
CliTypeOK   == cli \in [Cids -> ClientType]
InnerTypeOK ==
  /\ inner \in [Conns -> InnerType]
  /\ regSvr \in [Ids -> Conns \cup {NoCon}]
  /\ verifySvr \subseteq Conns
ChanTypeOK  == toSvr \in [Conns -> Seq(ToSvrMsg)]
RestTypeOK  ==
  /\ blIdx \in Nat
  /\ seting \in SetingType
  /\ cmd2Grp \in [MainCmds -> Ids \cup {Absent}]
  /\ reading \in [cid : Cids \cup {NoCid}, left : 0..(MaxPerRead - 1)]

StateTypeOK == CliTypeOK /\ InnerTypeOK /\ RestTypeOK
TypeOK == StateTypeOK /\ ChanTypeOK

(* The registries hold exactly the live connections that say so: a pointer  *)
(* is in m_id_2_svr under an id, or in m_verify_svr, when and only when the *)
(* object is alive and carries that id, or the verify flag.  No destroyed   *)
(* InnerSvrCon is ever reached (the fear of inner_con.h:32 and :48).        *)
RegistryExact ==
  /\ \A id \in Ids, k \in Conns :
       regSvr[id] = k <=> Alive(inner[k]) /\ inner[k].svrId = id
  /\ \A k \in Conns : k \in verifySvr <=> Alive(inner[k]) /\ inner[k].isVerify

(* A timer is armed only in the state whose end it is for, and a client     *)
(* that waits for a verify answer always has its timer: the assertion of    *)
(* OnVerfiyTimeOut holds, no verified client is dropped by a timer left     *)
(* over from before, and no client waits for ever.                          *)
TimersMatchState ==
  \A c \in Cids :
    /\ "wfm" \in cli[c].tm => cli[c].state = "INIT"
    /\ "verify" \in cli[c].tm => cli[c].state = "WAIT_VERIFY"
    /\ "heartbeat" \in cli[c].tm => cli[c].state = "VERIFYED"
    /\ cli[c].state = "WAIT_VERIFY" /\ cli[c].con = "open" => "verify" \in cli[c].tm

(* Packets are kept only for a verified client whose cache is switched on,  *)
(* so that nothing kept is left behind once it is switched off.             *)
CacheOnlyWhileOn ==
  \A c \in Cids : cli[c].cacheMsg # <<>> => cli[c].isCache /\ cli[c].state = "VERIFYED"

(* A client is put before a verify server at most once: while it waits      *)
(* further packets go nowhere, and it never gets back to asking.            *)
AsksOnce ==
  \A c \in Cids :
    LET asks == {q \in Conns \X (1..SendBufMax) :
                   /\ q[2] <= Len(toSvr[q[1]])
                   /\ toSvr[q[1]][q[2]].cmd = "NTF_VERIFY_REQ"
                   /\ toSvr[q[1]][q[2]].cid = c}
    IN  /\ Cardinality(asks) <= 1
        /\ asks # {} => cli[c].state # "INIT" \/ cli[c].con = "gone"

(* Only a verified client reaches a server other than through the verify    *)
(* request, also when the packet has been kept meanwhile.                   *)
VerifyBeforeForward ==
  \A k \in Conns : \A i \in DOMAIN toSvr[k] :
    LET m == toSvr[k][i]
    IN  m.cmd = "NTF_FORWARD" => cli[m.cid].state = "VERIFYED" \/ cli[m.cid].con = "gone"

(* A server hears of client traffic only behind the answer that registered  *)
(* it: the driver throws away whatever comes earlier (connect.cpp:28).      *)
RegAnswerFirst ==
  \A k \in Conns : \A i, j \in DOMAIN toSvr[k] :
    toSvr[k][i].cmd \in {"NTF_FORWARD", "NTF_DISCON", "RSP_BROADCAST_UIN"}
      /\ toSvr[k][j].cmd = "RSP_REG" /\ toSvr[k][j].svrId # 0
    => j < i

(* A session ends for good: nothing about a client follows the NTF_DISCON   *)
(* that tells a server it is gone.                                          *)
NothingAfterDiscon ==
  \A k \in Conns : \A i, j \in DOMAIN toSvr[k] :
    /\ i < j
    /\ toSvr[k][i].cmd = "NTF_DISCON"
    /\ toSvr[k][j].cmd \in {"NTF_CREATE_SESSION", "NTF_VERIFY_REQ", "NTF_FORWARD",
                            "NTF_DISCON", "RSP_BROADCAST_UIN", "RSP_CACHE_MSG"}
    => toSvr[k][i].cid # toSvr[k][j].cid

(* The messages of socket k that say cmd of client c. *)
Count(s, cmd, c) == Cardinality({i \in DOMAIN s : s[i].cmd = cmd /\ s[i].cid = c})

(* The step that lets a client in announces it, once, to every server that  *)
(* is registered and whose connection survives the step (doc.md:87).        *)
VerifiedIsAnnounced ==
  [][\A c \in Cids, k \in Conns :
       /\ cli[c].state # "VERIFYED" /\ cli'[c].state = "VERIFYED"
       /\ inner[k].svrId # 0 /\ inner'[k].con = "open"
       => Count(toSvr'[k], "NTF_CREATE_SESSION", c)
            = Count(toSvr[k], "NTF_CREATE_SESSION", c) + 1]_accVars

(* A registered id stays with its connection until that connection is       *)
(* destroyed: no other server takes it over.                                *)
NoTakeover ==
  [][\A id \in Ids : regSvr[id] # NoCon /\ regSvr'[id] # regSvr[id]
       => regSvr'[id] = NoCon /\ inner'[regSvr[id]].con = "none"]_accVars

(* How far a client has come, and which connections are closed, as the      *)
(* abstract ClientLife has it.                                              *)
StageOf(rec) ==
  IF ~Alive(rec) THEN rec.con
  ELSE IF rec.state = "INIT" THEN "connected"
  ELSE IF rec.state = "WAIT_VERIFY" THEN "asked" ELSE "in"

Life == INSTANCE ClientLife WITH
          Clients <- Cids,
          life    <- [c \in Cids |-> StageOf(cli[c])],
          closed  <- {c \in Cids : cli[c].con \in {"closing", "gone"}}

(* acc keeps that promise: no client is let in that has not asked, whoever  *)
(* answers (inner_con.cpp:99), and none moves back or is dropped unclosed.  *)
ClientLivesOnce == Life!LifeSpec

(* A client that waits for a verify answer is answered or dropped, whatever *)
(* the verify server does, unless acc itself is started again.              *)
WaitEnds ==
  \A c \in Cids : cli[c].state = "WAIT_VERIFY" ~>
                    (cli[c].state = "VERIFYED" \/ cli[c].con \in {"none", "gone"})

(* A client accepted over the limit is served for the second it has left    *)
(* (external_con.cpp:293-299), but it goes, even if it logs in meanwhile.   *)
OverLimitLeaves ==
  \A c \in Cids : "cls" \in cli[c].tm ~> cli[c].con \in {"none", "gone"}
------------------------------------------------------------------------------
(* What documents and comments of the repository say and the code does not  *)
(* do; each is checked by a run that finds it violated.                     *)

(* external_con.h:51: while m_isCache is set forwarding is suspended.       *)
PausedWhileCached ==
  [][\A c \in Cids, k \in Conns :
       cli[c].isCache /\ cli'[c].isCache
       => Count(toSvr'[k], "NTF_FORWARD", c) <= Count(toSvr[k], "NTF_FORWARD", c)]_accVars
==============================================================================
