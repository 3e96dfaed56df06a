------------------------------- MODULE Proto -------------------------------
(***************************************************************************)
(* The messages between acc and servers, as proto.cpp writes and reads     *)
(* them: fields one after the other, limits on both sides.                 *)
(*                                                                         *)
(* A string of bytes is its length, as std::string keeps it, and its       *)
(* fields [w |-> bytes, v |-> value].  A read finds the value when the     *)
(* cursor stands on a field of the width it takes, and Beyond when it does *)
(* not, or behind the end.                                                 *)
(***************************************************************************)
EXTENDS Integers, Sequences

CONSTANTS
  Lens,    \* the lengths of payloads, names and responses that are tried
  Counts   \* the numbers of clients a broadcast is for, and of commands mapped

ASSUME ProtoAssumption ==
  /\ Lens \subseteq Nat /\ Counts \subseteq Nat
  /\ \A len \in Lens : len <= 65535

ASMSG_MAX_LEN         == 4096
MAX_BROADCAST_CID_NUM == 400
CID_SIZE              == 8

Beyond == -1

Empty       == [size |-> 0, fields |-> <<>>]
Field(w, v) == [size |-> w, fields |-> <<[w |-> w, v |-> v]>>]
Text(len)   == Field(len, len)
s ++ t      == [size |-> s.size + t.size, fields |-> s.fields \o t.fields]

Read(s, i, w) ==
  IF i \in DOMAIN s.fields /\ s.fields[i].w = w THEN s.fields[i].v ELSE Beyond

(* A read or a delivery that may fail: a set with one element, or none.     *)
If(ok, m) == IF ok THEN {m} ELSE {}
------------------------------------------------------------------------------
(* ASMsg: a command of two bytes in front.  The overload for a string does  *)
(* not look at its length; Parse refuses a body that is too long.  A packet *)
(* of 64 KB or more, whose length does not fit the uint16 that Parse takes, *)
(* is refused too: what the event library says of it is not in this code.   *)
AsCmd == 1  \* stands for the command, which is only looked up

ASMsg_Serialize(s) == Field(2, AsCmd) ++ s

(* msg and msg_len: what is behind the command. *)
Body(pack) == [size |-> pack.size - 2, fields |-> Tail(pack.fields)]

(* Bug: the limit of Parse counts differently from that of Serialize. *)
ASMsg_Parse_MoreThan(pack) == If(Body(pack).size <= ASMSG_MAX_LEN, Body(pack))

ASMsg_Parse(pack) == If(Body(pack).size < ASMSG_MAX_LEN, Body(pack))
------------------------------------------------------------------------------
(* ClientSvrMsg, the message for a client inside another one. *)
ClientSvrMsgOk(m) == m.cmd # 0 /\ m.len < ASMSG_MAX_LEN

ClientSvrMsg_Serialize(m) ==
  IF ClientSvrMsgOk(m) THEN Field(4, m.cmd) ++ Field(2, m.len) ++ Text(m.len) ELSE Empty

(* Parse at field i of s; its result is used though it may say false. *)
ClientSvrMsg_Parse(s, i) ==
  LET len == Read(s, i + 1, 2)
  IN  IF len >= ASMSG_MAX_LEN THEN [cmd |-> 0, len |-> 0, text |-> 0]
      ELSE [cmd |-> Read(s, i, 4), len |-> len, text |-> Read(s, i + 2, len)]

(* MsgForward: the packet of a client, or one for a client. *)
MsgForward_Serialize(m) ==
  If(m.cmd # 0 /\ m.len < ASMSG_MAX_LEN,
     Field(8, m.cid) ++ Field(4, m.cmd) ++ Field(2, m.len) ++ Text(m.len))

MsgForward_Parse(s) ==
  LET len == Read(s, 3, 2)
  IN  If(len < ASMSG_MAX_LEN,
         [cid |-> Read(s, 1, 8), cmd |-> Read(s, 2, 4), len |-> len, text |-> Read(s, 4, len)])
------------------------------------------------------------------------------
(* MsgReqVerifyRet, which ReqVerifyRet sends whatever Serialize said: when  *)
(* the response is refused the string ends in front of it.                  *)
MsgReqVerifyRet_Serialize(m) ==
  IF m.cid = 0 THEN Empty
  ELSE Field(8, m.cid) ++ Field(1, m.ok) ++ Field(8, m.uin) ++ Field(8, m.name)
         ++ Text(m.name) ++ ClientSvrMsg_Serialize(m.rsp)

(* Bug: uin is read in front of is_success.                                 *)
MsgReqVerifyRet_Parse_Swapped(s) ==
  If(s.size > 9,
     [cid |-> Read(s, 1, 8), uin |-> Read(s, 2, 8), ok |-> Read(s, 3, 1),
      name |-> Read(s, 5, Read(s, 4, 8)), rsp |-> ClientSvrMsg_Parse(s, 6)])

(* Parse, which does not look at what rsp_msg.Parse says. *)
MsgReqVerifyRet_Parse(s) ==
  If(s.size > 9,
     [cid |-> Read(s, 1, 8), ok |-> Read(s, 2, 1), uin |-> Read(s, 3, 8),
      name |-> Read(s, 5, Read(s, 4, 8)), rsp |-> ClientSvrMsg_Parse(s, 6)])
------------------------------------------------------------------------------
(* MsgReqBroadCast: to m.n clients, to all of them when that is 0.  cid_len *)
(* is a uint16, and again Serialize is not asked whether it did it.         *)
MsgReqBroadCast_Serialize(m) ==
  LET cid_len == m.n % 65536
  IN  IF cid_len >= ASMSG_MAX_LEN \div CID_SIZE THEN Empty
      ELSE Field(2, cid_len) ++ Text(cid_len * CID_SIZE) ++ ClientSvrMsg_Serialize(m.msg)

(* Bug: an empty message is not refused. *)
MsgReqBroadCast_Parse_NoCheck(s) ==
  LET cid_len == Read(s, 1, 2)
  IN  If(s.size # 0, [n |-> cid_len, msg |-> ClientSvrMsg_Parse(s, 3)])

MsgReqBroadCast_Parse(s) ==
  LET cid_len == Read(s, 1, 2)
      rest    == s.size - 2 - cid_len * CID_SIZE
      len     == Read(s, 4, 2)
  IN  If(s.size # 0 /\ rest # 0 /\ len < ASMSG_MAX_LEN,
         [n |-> cid_len, msg |-> ClientSvrMsg_Parse(s, 3)])
------------------------------------------------------------------------------
(* MsgAccSeting.  m.rsp is the length of the response to a client over the  *)
(* limit; the other fields are one each.                                    *)
MsgAccSeting_Serialize(m) ==
  Field(4, m.hbReq) ++ Field(4, m.hbRsp) ++ Field(4, m.hbSec) ++ Field(4, m.maxNum)
    ++ Field(4, m.rspCmd) ++ Field(2, m.rsp % 65536) ++ Text(m.rsp) ++ Field(4, m.noMsg)
    ++ Field(2, m.defaultGrpId)

(* Bug: the default group is read in front of the time-out. *)
MsgAccSeting_Parse_GrpFirst(s) ==
  LET len == Read(s, 6, 2)
  IN  If(len < ASMSG_MAX_LEN,
         [hbReq |-> Read(s, 1, 4), hbRsp |-> Read(s, 2, 4), hbSec |-> Read(s, 3, 4),
          maxNum |-> Read(s, 4, 4), rspCmd |-> Read(s, 5, 4), rsp |-> Read(s, 7, len),
          defaultGrpId |-> Read(s, 8, 2), noMsg |-> Read(s, 9, 4)])

MsgAccSeting_Parse(s) ==
  LET len == Read(s, 6, 2)
  IN  If(len < ASMSG_MAX_LEN,
         [hbReq |-> Read(s, 1, 4), hbRsp |-> Read(s, 2, 4), hbSec |-> Read(s, 3, 4),
          maxNum |-> Read(s, 4, 4), rspCmd |-> Read(s, 5, 4), rsp |-> Read(s, 7, len),
          noMsg |-> Read(s, 8, 4), defaultGrpId |-> Read(s, 9, 2)])
------------------------------------------------------------------------------
(* MsgReqSetCmd2GrpId: as Serialize would write it, and as the template for *)
(* messages of fixed length sends it, the object with the three pointers of *)
(* its vector (one value stands for every address).  m.n is the number of   *)
(* commands.                                                                *)
Address == 2000000000

MsgReqSetCmd2GrpId_Serialize(m) ==
  Field(2, m.grpId) ++ Field(8, m.n) ++ Text(2 * m.n)

MsgReqSetCmd2GrpId_Raw(m) ==
  LET begin == IF m.n = 0 THEN 0 ELSE Address
  IN  Field(2, m.grpId) ++ Field(8, begin) ++ Field(8, begin) ++ Field(8, begin)

(* ParseVector, which for an address as the number of commands asks for     *)
(* more memory than there is, and Parse, which wants all the bytes used.    *)
Memory == 100000

(* Bug: the bytes left over are not looked at. *)
MsgReqSetCmd2GrpId_Parse_Loose(s) ==
  LET n == Read(s, 2, 8)
  IN  IF n > Memory THEN {} ELSE {[grpId |-> Read(s, 1, 2), n |-> n, cmds |-> Read(s, 3, 2 * n)]}

MsgReqSetCmd2GrpId_Parse(s) ==
  LET n == Read(s, 2, 8)
  IN  IF n > Memory THEN {}
      ELSE If(s.size = 10 + 2 * n, [grpId |-> Read(s, 1, 2), n |-> n, cmds |-> Read(s, 3, 2 * n)])
------------------------------------------------------------------------------
(* One exchange: a call writes its message, the other end reads it.         *)
Parsed(kind, s) ==
  CASE kind = "forward"   -> MsgForward_Parse(s)
    [] kind = "verifyRet" -> MsgReqVerifyRet_Parse(s)
    [] kind = "broadcast" -> {b \in MsgReqBroadCast_Parse(s) : b.n <= MAX_BROADCAST_CID_NUM}
    [] kind = "seting"    -> MsgAccSeting_Parse(s)
    [] kind \in {"map", "rawMap"} -> MsgReqSetCmd2GrpId_Parse(s)

Written(c) ==
  CASE c.kind = "forward"   -> MsgForward_Serialize(c.m)
    [] c.kind = "verifyRet" -> {MsgReqVerifyRet_Serialize(c.m)}
    [] c.kind = "broadcast" -> {MsgReqBroadCast_Serialize(c.m)}
    [] c.kind = "seting"    -> {MsgAccSeting_Serialize(c.m)}
    [] c.kind = "map"       -> {MsgReqSetCmd2GrpId_Serialize(c.m)}
    [] c.kind = "rawMap"    -> {MsgReqSetCmd2GrpId_Raw(c.m)}

Rsps == [cmd : {0, 1}, len : Lens]

Calls ==
       {[kind |-> "forward",
         m |-> [cid |-> 1, cmd |-> r.cmd, len |-> r.len, text |-> r.len]] : r \in Rsps}
  \cup [kind : {"verifyRet"}, m : [cid : {1}, ok : {0, 1}, uin : {7}, name : Lens, rsp : Rsps]]
  \cup [kind : {"broadcast"}, m : [n : Counts, msg : Rsps]]
  \cup [kind : {"seting"}, m : [hbReq : {11}, hbRsp : {12}, hbSec : {13}, maxNum : {14},
                              rspCmd : {15}, rsp : Lens, noMsg : {16}, defaultGrpId : {17}]]
  \cup [kind : {"map", "rawMap"}, m : [grpId : {2}, n : Counts]]

VARIABLES
  call,  \* the message that is sent
  wire,  \* its bytes on the connection, if any
  read,  \* what the other end's handler goes on with, if anything
  done   \* the other end has looked at it

protoVars == <<call, wire, read, done>>

ProtoInit == call \in Calls /\ wire = {} /\ read = {} /\ done = FALSE

SendCall ==
  /\ wire = {} /\ ~done
  /\ wire' = {ASMsg_Serialize(s) : s \in Written(call)}
  /\ done' = (wire' = {})
  /\ UNCHANGED <<call, read>>

ReadCall ==
  /\ \E pack \in wire : read' = UNION {Parsed(call.kind, s) : s \in ASMsg_Parse(pack)}
  /\ wire' = {} /\ done' = TRUE
  /\ UNCHANGED call

ProtoNext == SendCall \/ ReadCall

ProtoSpec == ProtoInit /\ [][ProtoNext]_protoVars
------------------------------------------------------------------------------
Done(kind) == done /\ call.kind = kind
Sent       == call.m

ReadBack(r) == [cmd |-> r.cmd, len |-> r.len, text |-> r.len]

(* A packet that is forwarded, to a server or to a client, arrives as it    *)
(* was, or not at all, and it is lost for its length alone: 14 bytes below  *)
(* the limit that MsgForward::Serialize checks (proto.cpp:193, :85).        *)
ForwardArrives ==
  Done("forward") => read = If(Sent.cmd # 0 /\ 14 + Sent.len < ASMSG_MAX_LEN, Sent)

(* A verify answer that acc accepts says of the client what the server      *)
(* said, whatever became of the response behind it; the response is the     *)
(* server's unless Serialize refused it, and then acc reads on behind the   *)
(* end of the message.                                                      *)
VerifyRetArrives ==
  Done("verifyRet") =>
    LET whole == ClientSvrMsgOk(Sent.rsp)
        size  == 25 + Sent.name + IF whole THEN 6 + Sent.rsp.len ELSE 0
        rsp   == IF whole THEN ReadBack(Sent.rsp)
                 ELSE [cmd |-> Beyond, len |-> Beyond, text |-> Beyond]
    IN  read = If(size < ASMSG_MAX_LEN, [Sent EXCEPT !.rsp = rsp])

(* A broadcast that reaches clients reaches those it names, with what it    *)
(* says; one whose message or list is refused by Serialize, and sent all    *)
(* the same, is not taken for one to other clients or to all.  True only of *)
(* lists that the uint16 cid_len can count: at 65536 it is 0, all clients.  *)
BroadcastReaches ==
  Done("broadcast") /\ Sent.n < 65536 =>
    read = If(/\ Sent.n <= MAX_BROADCAST_CID_NUM /\ ClientSvrMsgOk(Sent.msg)
              /\ 8 + Sent.n * CID_SIZE + Sent.msg.len < ASMSG_MAX_LEN,
              [n |-> Sent.n, msg |-> ReadBack(Sent.msg)])

(* Settings are installed as they were chosen, or not at all.               *)
SetingArrives == Done("seting") => read = If(28 + Sent.rsp < ASMSG_MAX_LEN, Sent)

(* The mapping of commands would arrive if it were serialised; sent as an   *)
(* object it is never taken for a mapping, whatever the vector holds        *)
(* (acc_driver.cpp:207).                                                    *)
MappingArrives ==
  /\ Done("map") => read = If(10 + 2 * Sent.n < ASMSG_MAX_LEN,
                             [grpId |-> 2, n |-> Sent.n, cmds |-> 2 * Sent.n])
  /\ Done("rawMap") => read = {}
==============================================================================
