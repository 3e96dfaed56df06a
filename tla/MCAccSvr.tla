------------------------------ MODULE MCAccSvr ------------------------------
(* Instances of AccSvr for TLC. *)
EXTENDS AccSvr, TLC

CONSTANTS c1, c2

Symmetry == Permutations(Cids)

Pk(id, len) == [id |-> id, len |-> len]

(* Packets: a login (0xF0, one of the ids allowed before the login), with   *)
(* the ones acc refuses before the verify servers see them; for the routing *)
(* also a mapped command, command 0 and the heartbeat.                      *)
Login      == Pk(240, 4)
LoginOnly  == {Login}
BadLogins  == {Login, Pk(240, 3), Pk(240, 4096), Pk(2, 4)}
Mixed      == {Pk(240, 4), Pk(2, 5), Pk(0, 4), Pk(3, 4)}

Reg(id, v)      == [cmd |-> "REQ_REG", svrId |-> id, isVerify |-> v]
Ret(c, ok, n)   == [cmd |-> "REQ_VERIFY_RET", cid |-> c, isSuccess |-> ok, uin |-> 7, accName |-> n]
Uin(c)          == [cmd |-> "REQ_BROADCAST_UIN", cid |-> c, uin |-> 7]
Map(g, cmds)    == [cmd |-> "REQ_SET_CMD_2_GRP", grpId |-> g, cmds |-> cmds]
Active(c, g, s) == [cmd |-> "REQ_SET_ACTIVE_SVR", cid |-> c, grpId |-> g, svrId |-> s]
Cache(c, on)    == [cmd |-> "REQ_CACHE_MSG", cid |-> c, isCache |-> on]
Fwd(c)          == [cmd |-> "REQ_FORWARD", cid |-> c]
Cast(s)         == [cmd |-> "REQ_BROADCAST", cids |-> s]
Kick(c)         == [cmd |-> "REQ_DISCON", cid |-> c]
KickAll         == [cmd |-> "REQ_DISCON_ALL"]
Setup(s)        == [cmd |-> "REQ_ACC_SETING", seting |-> s]

(* Settings: a default server; the same with a heartbeat on command 3; one  *)
(* client at most, and a first-message timer.                               *)
ToSvr1   == [DefaultSeting EXCEPT !.defaultGrpId = 1]
Beating  == [ToSvr1 EXCEPT !.hbReq = 3, !.hbSec = 5]
OneOnly  == [ToSvr1 EXCEPT !.maxNum = 1, !.noMsg = 5]
AllSetings == {ToSvr1, Beating, OneOnly}

SomeCids == Cids \cup {NoCid}

(* Two servers come and go, also under one id, two clients log in.          *)
SessionRequests ==
  {Reg(1, TRUE), Reg(1, FALSE), Reg(65538, FALSE)}
  \cup {Ret(c, ok, "ann") : c \in Cids, ok \in BOOLEAN}

(* One verified client, its packets routed, kept and released.  The run     *)
(* starts where server 1, which verifies, and server 2 have registered and  *)
(* the client has been let in.                                              *)
RoutingRequests ==
  {Map(2, {2}), Setup(Beating)}
  \cup {Cache(c, on) : c \in Cids, on \in BOOLEAN}
  \cup {Active(c, 2, 1) : c \in SomeCids}

RoutingInit ==
  /\ cli = [c \in Cids |-> [NewClient EXCEPT !.con = "open", !.state = "VERIFYED"]]
  /\ inner = [k \in Conns |-> [con |-> "open", svrId |-> k, isVerify |-> k = 1]]
  /\ regSvr = [id \in Ids |-> id]
  /\ verifySvr = {1}
  /\ blIdx = 0
  /\ seting = ToSvr1
  /\ cmd2Grp = [m \in MainCmds |-> Absent]
  /\ toSvr = [k \in Conns |-> <<>>]
  /\ reading = [cid |-> NoCid, left |-> 0]

RoutingSpec == RoutingInit /\ [][Next]_accVars

(* What reaches clients: answers, broadcasts, limits, kicks.                *)
ClientRequests ==
  {Reg(1, TRUE), Setup(OneOnly), Cast(<<>>), KickAll, Map(0, {2})}
  \cup {Ret(c, ok, n) : c \in Cids, ok \in BOOLEAN, n \in Names}
  \cup {Cast(<<c, c>>) : c \in Cids}
  \cup {Uin(c) : c \in SomeCids} \cup {Fwd(c) : c \in SomeCids} \cup {Kick(c) : c \in SomeCids}
==============================================================================
