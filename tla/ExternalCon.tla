----------------------------- MODULE ExternalCon -----------------------------
(***************************************************************************)
(* The connection of a game client to acc: class ExternalSvrCon.           *)
(*                                                                         *)
(* The first legal packet of a client goes to a verify server; while the   *)
(* answer is awaited packets are ignored; afterwards every packet is       *)
(* routed to a server by its command.                                      *)
(***************************************************************************)
EXTENDS AccState

(* f_msg.cmd: the first byte read as a char and widened to uint32, written  *)
(* here as the signed number with the same 32 bits.                         *)
Cmd32(p)   == CharOf(p.id)
MainCmd(p) == Cmd32(p) % 65536

(* ClientTcpPack2MsgForward refuses a packet shorter than a command, and    *)
(* MsgForward::Serialize command 0 or a body of ASMSG_MAX_LEN bytes.        *)
HasCmd(p)       == p.len >= 4
Serializable(p) == Cmd32(p) # 0 /\ p.len < ASMSG_MAX_LEN

VerifyReq(c, p) == [cmd |-> "NTF_VERIFY_REQ", cid |-> c, id |-> p.id]
Forward(c, p)   == [cmd |-> "NTF_FORWARD", cid |-> c, id |-> p.id]
------------------------------------------------------------------------------
(* Routing: command to group, group to its active server; a group without   *)
(* one is its own server, and an unmapped command goes to defaultGrpId.     *)
RouteSvrId(rec, p) ==
  LET grp == IF MainCmd(p) \in MainCmds THEN cmd2Grp[MainCmd(p)] ELSE Absent
  IN  IF grp = Absent THEN seting.defaultGrpId
      ELSE IF grp \in Grps /\ rec.active[grp] # Absent THEN rec.active[grp]
      ELSE grp

IsHeartbeat(p) == seting.hbReq # 0 /\ seting.hbReq = Cmd32(p)

(* The three ways a packet of a verified client goes: answered here, to no  *)
(* server at all (the client is dropped), or to the server registered.      *)
Beats(p)           == HasCmd(p) /\ IsHeartbeat(p)
Unroutable(rec, p) == HasCmd(p) /\ ~IsHeartbeat(p) /\ RouteSvrId(rec, p) = Absent
GoesTo(rec, p, k)  ==
  /\ HasCmd(p) /\ ~IsHeartbeat(p) /\ Serializable(p)
  /\ RouteSvrId(rec, p) # Absent
  /\ FindSvr(RouteSvrId(rec, p)) = k

(* What Forward2Svr, run on each packet of s in turn, does to the client... *)
AfterForward2Svr(rec, s) ==
  LET beats == {i \in DOMAIN s : Beats(s[i])}
      armed == IF beats = {} THEN rec ELSE [rec EXCEPT !.tm = rec.tm \cup {"heartbeat"}]
      told  == SendToClient(armed, Cardinality(beats))
  IN  IF \E i \in DOMAIN s : Unroutable(rec, s[i]) THEN DisConnect(told) ELSE told

(* ...and what it sends to connection k, in their order. *)
Forwarded(c, s, k) ==
  LET mine == {i \in DOMAIN s : GoesTo(cli[c], s[i], k)}
  IN  [n \in 1..Cardinality(mine) |-> Forward(c, s[Nth(mine, n - 1)])]

Forward2Svr(c, rec, p) ==
  /\ cli' = [cli EXCEPT ![c] = AfterForward2Svr(rec, <<p>>)]
  /\ Send(inner, [k \in Conns |-> Forwarded(c, <<p>>, k)])
  /\ UNCHANGED blIdx
------------------------------------------------------------------------------
(* Bug: the verify timer is not started. *)
Forward2VerifySvr_NoTimer(c, p) ==
  /\ verifySvr # {} /\ HasCmd(p) /\ Serializable(p)
  /\ blIdx' = NextBlIdx
  /\ SendTo(BLVerifySvr, VerifyReq(c, p))
  /\ cli' = [cli EXCEPT ![c].tm = {}, ![c].state = "WAIT_VERIFY"]

(* Forward2VerifySvr: the first-message timer stops before the packet is    *)
(* looked at; with no verify server the client is dropped.                  *)
Forward2VerifySvr(c, p) ==
  LET stopped == [cli[c] EXCEPT !.tm = cli[c].tm \ {"wfm"}]
  IN  \/ /\ ~(HasCmd(p) /\ Serializable(p))
         /\ cli' = [cli EXCEPT ![c] = stopped]
         /\ UNCHANGED <<inner, toSvr, blIdx>>
      \/ /\ HasCmd(p) /\ Serializable(p)
         /\ verifySvr = {}
         /\ cli' = [cli EXCEPT ![c] = DisConnect(stopped)]
         /\ UNCHANGED <<inner, toSvr, blIdx>>
      \/ /\ HasCmd(p) /\ Serializable(p)
         /\ verifySvr # {}
         /\ blIdx' = NextBlIdx
         /\ SendTo(BLVerifySvr, VerifyReq(c, p))
         /\ cli' = [cli EXCEPT ![c] = [stopped EXCEPT !.tm = stopped.tm \cup {"verify"},
                                                      !.state = "WAIT_VERIFY"]]

(* Bug: a client that waits for its answer is already routed. *)
RevPacket_RoutesWaiting(c, p) ==
  \/ cli[c].state = "INIT" /\ Forward2VerifySvr(c, p)
  \/ cli[c].state \in {"WAIT_VERIFY", "VERIFYED"} /\ Forward2Svr(c, cli[c], p)

(* Bug: a waiting client is put to the verify servers again. *)
RevPacket_AsksAgain(c, p) ==
  \/ cli[c].state \in {"INIT", "WAIT_VERIFY"} /\ Forward2VerifySvr(c, p)
  \/ cli[c].state = "VERIFYED" /\ Forward2Svr(c, cli[c], p)

(* RevPacket. *)
RevPacket(c, p) ==
  \/ cli[c].state = "INIT" /\ Forward2VerifySvr(c, p)
  \/ cli[c].state = "WAIT_VERIFY" /\ UNCHANGED <<cli, inner, toSvr, blIdx>>
  \/ /\ cli[c].state = "VERIFYED" /\ ~cli[c].isCache
     /\ Forward2Svr(c, cli[c], p)
  \/ /\ cli[c].state = "VERIFYED" /\ cli[c].isCache
     /\ Forward2Svr(c, [cli[c] EXCEPT !.cacheMsg = Append(cli[c].cacheMsg, p)], p)

(* CheckEncrypted: until it is verified a client may send plain ids only.   *)
CheckEncrypted(c, p) == cli[c].state # "VERIFYED" /\ ~IsPlain(p.id)

(* OnRawRecv: one read callback cuts the buffered bytes into packets and    *)
(* hands over each, also when a packet before it disconnected the client,   *)
(* until one is refused.                                                    *)
ReadOn(c, n) == reading' = [cid |-> c, left |-> n]

OnRawRecv(c, p) ==
  /\ \/ reading.left = 0 /\ cli[c].con = "open"
     \/ reading.left > 0 /\ reading.cid = c
  /\ \/ /\ ~CheckEncrypted(c, p)
        /\ RevPacket(c, p)
        /\ IF reading.left = 0 THEN \E n \in 0..(MaxPerRead - 1) : ReadOn(c, n)
                               ELSE ReadOn(c, reading.left - 1)
     \/ /\ CheckEncrypted(c, p)
        /\ cli' = [cli EXCEPT ![c] = DisConnect(cli[c])]
        /\ ReadOn(c, 0)
        /\ UNCHANGED <<inner, toSvr, blIdx>>
  /\ UNCHANGED <<regSvr, verifySvr, seting, cmd2Grp>>

(* The read callback ends early: ParsePacket finds no further packet.       *)
ReadDone ==
  /\ reading.left > 0
  /\ reading' = [reading EXCEPT !.left = 0]
  /\ UNCHANGED <<cli, inner, regSvr, verifySvr, blIdx, seting, cmd2Grp, toSvr>>

Idle == reading.left = 0
------------------------------------------------------------------------------
(* Accept and OnConnected: over the limit the client is told so and closed  *)
(* a second later; otherwise the first-message timer starts.                *)
OverLimit == Cardinality(FoundClients) + 1 > seting.maxNum

OnConnected(c) ==
  /\ cli[c].con = "none"
  /\ LET fresh == [NewClient EXCEPT !.con = "open"]
     IN  cli' = [cli EXCEPT ![c] =
           IF OverLimit THEN SendToClient([fresh EXCEPT !.tm = {"cls"}], 1)
           ELSE IF seting.noMsg # 0 THEN [fresh EXCEPT !.tm = {"wfm"}]
           ELSE fresh]
  /\ UNCHANGED <<inner, regSvr, verifySvr, blIdx, seting, cmd2Grp, toSvr, reading>>

(* The client closes, its socket breaks, or ParsePacket refuses the bytes.  *)
ClientBreak(c) ==
  /\ cli[c].con = "open"
  /\ cli' = [cli EXCEPT ![c] = DisConnect(cli[c])]
  /\ UNCHANGED <<inner, regSvr, verifySvr, blIdx, seting, cmd2Grp, toSvr, reading>>

(* The client's socket drains what acc has sent. *)
ClientDrain(c) ==
  /\ cli[c].pend > 0
  /\ cli' = [cli EXCEPT ![c].pend = 0]
  /\ UNCHANGED <<inner, regSvr, verifySvr, blIdx, seting, cmd2Grp, toSvr, reading>>

(* A one-shot timer t expires; each of the four callbacks disconnects.      *)
TimeOut(c, t) ==
  /\ Alive(cli[c]) /\ t \in cli[c].tm
  /\ cli' = [cli EXCEPT ![c] = DisConnect([cli[c] EXCEPT !.tm = cli[c].tm \ {t}])]
  /\ UNCHANGED <<inner, regSvr, verifySvr, blIdx, seting, cmd2Grp, toSvr, reading>>

OnWaitFirstMsgTimeOut(c) == TimeOut(c, "wfm")
OnVerfiyTimeOut(c)       == TimeOut(c, "verify")
OnHeartbeatTimeOut(c)    == TimeOut(c, "heartbeat")
OnClsTimeOut(c)          == TimeOut(c, "cls")

(* ~ExternalSvrCon: the loop destroys a closing client and tells every      *)
(* registered server that the session of a verified one has ended.          *)
DestroyClient(c) ==
  /\ cli[c].con = "closing"
  /\ cli' = [cli EXCEPT ![c] = [NewClient EXCEPT !.con = "gone"]]
  /\ IF cli[c].state = "VERIFYED"
     THEN SendAll(Registered, [cmd |-> "NTF_DISCON", cid |-> c])
     ELSE UNCHANGED <<inner, toSvr>>
  /\ UNCHANGED <<regSvr, verifySvr, blIdx, seting, cmd2Grp, reading>>
==============================================================================
