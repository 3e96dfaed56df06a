------------------------------ MODULE AccState ------------------------------
(***************************************************************************)
(* The state of the acc process (acc_svr) and what its handlers take from  *)
(* the event library: connections, deferred destruction, one-shot timers   *)
(* and bounded send buffers.                                               *)
(*                                                                         *)
(* acc accepts game clients on one listener (ExternalSvrCon, variable cli) *)
(* and game servers on another (InnerSvrCon, variable inner).  It is a     *)
(* single-threaded event loop, so a handler is one atomic step; what       *)
(* interleaves is the order of events.                                     *)
(***************************************************************************)
EXTENDS Integers, Sequences, FiniteSets, UoPacket

CONSTANTS
  Cids,         \* ids the client listener hands out, one per accepted client
  Conns,        \* addresses of InnerSvrCon objects; std::set orders them by <
  Ids,          \* the uint16 ids in use: servers and groups share one number space
  Uins,         \* player ids
  Names,        \* account names
  LongNames,    \* those of MAX_NAME_LEN + 1 characters or more
  Packets,      \* what a client can send: [id |-> first byte, len |-> bytes]
  MainCmds,     \* the uint16 commands that can be routed
  Setings,      \* the settings a server may install
  SendBufMax,   \* messages the send buffer of an inner connection holds
  CliBufMax,    \* messages the send buffer of a client holds, 0: no limit
  MaxPerRead,   \* client packets that one read callback can find buffered
  MaxCache,     \* packets of one client acc is made to keep (the code has no limit)
  FindClosing   \* TRUE: BaseConMgr still finds a connection that waits for deletion

NoCid  == 0        \* cid 0 is never handed out
NoCon  == -1       \* nullptr
Absent == 0        \* no entry
UINT16_MAX == 65535

ASSUME CidsAssumption  == NoCid \notin Cids /\ IsFiniteSet(Cids)
ASSUME ConnsAssumption == Conns \subseteq Nat /\ IsFiniteSet(Conns)
ASSUME IdsAssumption   == Ids \subseteq 1..UINT16_MAX
ASSUME DataAssumption  ==
  /\ Uins \subseteq Nat \ {0}
  /\ LongNames \subseteq Names
  /\ Packets \subseteq [id : Byte, len : 3..UINT16_MAX]
  /\ MainCmds \subseteq 0..UINT16_MAX
ASSUME BoundsAssumption ==
  /\ SendBufMax \in Nat \ {0}
  /\ CliBufMax \in Nat
  /\ MaxPerRead \in Nat \ {0}
  /\ MaxCache \in Nat
  /\ FindClosing \in BOOLEAN

VARIABLES
  cli,        \* the ExternalSvrCon of each cid
  inner,      \* the InnerSvrCon at each address
  regSvr,     \* RegSvrMgr::m_id_2_svr
  verifySvr,  \* VerifySvrMgr::m_verify_svr
  blIdx,      \* VerifySvrMgr::m_bl_idx
  seting,     \* AccSeting::m_seting
  cmd2Grp,    \* AccSeting::m_cmd2GrpId
  toSvr,      \* what acc has sent to each inner connection and nobody read yet
  reading     \* the client whose OnRawRecv is on the stack, packets still to cut

accVars == <<cli, inner, regSvr, verifySvr, blIdx, seting, cmd2Grp, toSvr, reading>>
------------------------------------------------------------------------------
(* Limits of proto.h. *)
ASMSG_MAX_LEN         == 4096
MAX_BROADCAST_CID_NUM == 400
MAX_GRP_ID            == 100

ClientStates == {"INIT", "WAIT_VERIFY", "VERIFYED"}
Timers       == {"wfm", "verify", "heartbeat", "cls"}
Grps         == {g \in Ids : g < MAX_GRP_ID}

SetingType == [maxNum : Nat, noMsg : Nat, hbReq : Int, hbSec : Nat,
               defaultGrpId : Ids \cup {Absent}]

(* MsgAccSeting(): no heartbeat, no limit, no first-message timer.  maxNum  *)
(* stands for the largest uint32: more clients than any instance has.       *)
DefaultSeting == [maxNum |-> 65536, noMsg |-> 0, hbReq |-> 0, hbSec |-> 0,
                  defaultGrpId |-> Absent]

ClientType ==
  [con      : {"none", "open", "closing", "gone"},
   state    : ClientStates,
   tm       : SUBSET Timers,
   uin      : Uins \cup {0},
   isCache  : BOOLEAN,
   cacheMsg : Seq(Packets),
   active   : [Grps -> Ids \cup {Absent}],
   pend     : Nat]

(* ExternalSvrCon(). *)
NewClient == [con |-> "none", state |-> "INIT", tm |-> {}, uin |-> 0,
              isCache |-> FALSE, cacheMsg |-> <<>>,
              active |-> [g \in Grps |-> Absent], pend |-> 0]

InnerType == [con : {"none", "open", "closing"}, svrId : Ids \cup {0}, isVerify : BOOLEAN]

(* Bug: m_svr_id is not initialised. *)
NewInner_NoInit == [con |-> "none", svrId |-> 65535, isVerify |-> FALSE]

(* InnerSvrCon(). *)
NewInner == [con |-> "none", svrId |-> 0, isVerify |-> FALSE]

(* Messages from acc to a server.  accName "uninit" stands for the bytes of *)
(* a field the sender never wrote.                                          *)
ToSvrMsg ==
       [cmd : {"RSP_REG"}, svrId : Nat]
  \cup [cmd : {"NTF_CREATE_SESSION"}, cid : Cids, uin : Uins \cup {0},
        accName : Names \cup {"uninit"}]
  \cup [cmd : {"NTF_VERIFY_REQ", "NTF_FORWARD"}, cid : Cids, id : Byte]
  \cup [cmd : {"NTF_DISCON"}, cid : Cids]
  \cup [cmd : {"RSP_BROADCAST_UIN"}, cid : Cids, uin : Uins]
  \cup [cmd : {"RSP_SET_ACTIVE_SVR"}, cid : Cids \cup {NoCid},
        grpId : Ids \cup {0}, svrId : Ids \cup {0}]
  \cup [cmd : {"RSP_CACHE_MSG"}, cid : Cids, isCache : BOOLEAN]
------------------------------------------------------------------------------
(* The event library, as the handlers use it.                               *)

(* DisConnect: the connection stops reading and writing now; the object and *)
(* its timers live until the loop destroys it.                              *)
DisConnect(rec) == IF rec.con = "open" THEN [rec EXCEPT !.con = "closing"] ELSE rec

Alive(rec) == rec.con \in {"open", "closing"}

(* BaseConMgr: the connections FindConn, Foreach and GetConSize see. *)
Found(rec) == rec.con = "open" \/ (FindClosing /\ rec.con = "closing")

FoundClients == {c \in Cids : Found(cli[c])}
FoundInner   == {k \in Conns : Found(inner[k])}

(* SendPack to a client, n messages: an overflowing buffer disconnects. *)
SendToClient(rec, n) ==
  IF rec.con # "open" \/ CliBufMax = 0 \/ n = 0 THEN rec
  ELSE IF rec.pend + n > CliBufMax THEN DisConnect(rec)
  ELSE [rec EXCEPT !.pend = rec.pend + n]

(* SendPack to the servers: msgs[k] is what one handler sends to k, in      *)
(* order, and base the connections as the handler leaves them.  What        *)
(* overflows ACC_SVR_MAX_SEND_BUF_SIZE is lost and breaks the connection.   *)
Overflows(base, msgs, k) ==
  base[k].con = "open" /\ Len(toSvr[k]) + Len(msgs[k]) > SendBufMax

Send(base, msgs) ==
  /\ inner' = [k \in Conns |-> IF Overflows(base, msgs, k) THEN DisConnect(base[k]) ELSE base[k]]
  /\ toSvr' = [k \in Conns |->
       IF base[k].con # "open" THEN toSvr[k]
       ELSE IF Overflows(base, msgs, k) THEN SubSeq(toSvr[k] \o msgs[k], 1, SendBufMax)
       ELSE toSvr[k] \o msgs[k]]

(* One message to one connection, and one message to each of a set. *)
SendTo(k, m)   == Send(inner, [j \in Conns |-> IF j = k THEN <<m>> ELSE <<>>])
SendAll(K, m)  == Send(inner, [j \in Conns |-> IF j \in K THEN <<m>> ELSE <<>>])
------------------------------------------------------------------------------
(* RegSvrMgr and VerifySvrMgr. *)

(* Bug: every connection is told, registered or not. *)
Registered_All == FoundInner

Registered == {regSvr[id] : id \in Ids} \ {NoCon}

FindSvr(id) == IF id \in Ids THEN regSvr[id] ELSE NoCon

(* The element of the ordered set S with index i, counted from 0. *)
Nth(S, i) == CHOOSE k \in S : Cardinality({j \in S : j < k}) = i

(* GetBLVerifySvr: advance the round-robin index, wrapping at the size. *)
NextBlIdx == IF blIdx + 1 >= Cardinality(verifySvr) THEN 0 ELSE blIdx + 1
BLVerifySvr == Nth(verifySvr, NextBlIdx)
==============================================================================
