----------------------------- MODULE AccDriver -----------------------------
(***************************************************************************)
(* One server process and its driver, connected to several accs that may   *)
(* send it anything the protocol carries, in any order, and may break      *)
(* their connections at any time.                                          *)
(***************************************************************************)
EXTENDS ADClientCon, FiniteSets

CONSTANTS
  SvrId,        \* the id the server registers with
  FromAcc,      \* the messages accs send
  Setings,      \* the settings the server may choose
  MaxResults    \* bound: calls of OnRegResult the run follows

(* What an acc may send: the messages that name a client name one it has    *)
(* handed out (0 and the types of payload are refused before they matter).  *)
FromAccType ==
       [cmd : {"RSP_REG"}, svrId : Nat]
  \cup [cmd : {"NTF_CREATE_SESSION"}, cid : Cids, uin : Uins \cup {0}]
  \cup [cmd : {"NTF_VERIFY_REQ", "NTF_FORWARD", "NTF_DISCON", "RSP_SET_ACTIVE_SVR",
               "RSP_CACHE_MSG"}, cid : Cids]
  \cup [cmd : {"RSP_BROADCAST_UIN"}, cid : Cids, uin : Uins]

ASSUME SvrIdAssumption   == SvrId \in 1..65535 /\ MaxResults \in Nat
ASSUME FromAccAssumption == FromAcc \subseteq FromAccType

VARIABLES
  ad,           \* the driver
  sent,         \* what the driver has sent over each link since it came up
  view          \* the sessions of each acc, as the server keeps them by its callbacks

adVars == <<ad, sent, view>>

Init == ad = NewConMgr /\ sent = [a \in Accs |-> <<>>] /\ view = [a \in Accs |-> NoSessions]

(* ADFacadeMgr::Init, connecting to n of two or one addresses. *)
InitDriver ==
  \E addrs \in {s \in UNION {[1..n -> Accs] : n \in 1..2} :
                  \A i, j \in DOMAIN s : i # j => s[i] # s[j]} :
    \E n \in 0..Len(addrs), verify \in BOOLEAN :
      /\ MayInit(ad, addrs)
      /\ ad' = InitCons(ad, addrs, n, SvrId, verify)
      /\ UNCHANGED <<sent, view>>

AddAccs ==
  \E addr \in Accs :
    MayAddAcc(ad, addr) /\ ad' = AddAcc(ad, addr) /\ UNCHANGED <<sent, view>>

(* SetAccSeting: remember, and tell the accs that are connected. *)
ChooseSeting ==
  \E s \in Setings :
    /\ ad' = SetAccSeting(ad, s)
    /\ sent' = [a \in Accs |->
         IF \E i \in DOMAIN ad.vec : ad.vec[i].addr = a /\ ad.vec[i].con = "up"
         THEN sent[a] \o ad'.seting ELSE sent[a]]
    /\ UNCHANGED view

(* A connection comes up, at first or again. *)
Connected(i) ==
  /\ ad.vec[i].con = "idle"
  /\ ad' = OnConnected(ad, i)
  /\ sent' = [sent EXCEPT ![ad.vec[i].addr] = Greeting(ad)]
  /\ UNCHANGED view

(* Bug: the server is not told that the connection ended. *)
Disconnected_Silent(i) ==
  /\ ad.vec[i].con = "up"
  /\ ad' = OnDisconnected(ad, i)
  /\ sent' = [sent EXCEPT ![ad.vec[i].addr] = <<>>]
  /\ UNCHANGED view

(* A connection ends: OnAccDisCon tells the server, and no OnClientDisCon,  *)
(* so that it has to forget all sessions of that acc by itself.             *)
Disconnected(i) ==
  /\ ad.vec[i].con = "up"
  /\ ad' = OnDisconnected(ad, i)
  /\ sent' = [sent EXCEPT ![ad.vec[i].addr] = <<>>]
  /\ view' = [view EXCEPT ![ad.vec[i].addr] = NoSessions]

(* A connection brings a message.  A failed registration ends all links     *)
(* with no callback about their sessions.                                   *)
Received(i, m) ==
  /\ ad.vec[i].con = "up"
  /\ ad' = OnRecv(ad, i, m)
  /\ sent' = IF ad'.fatal THEN [a \in Accs |-> <<>>] ELSE sent
  /\ view' = [view EXCEPT ![ad.vec[i].addr] = ViewAfter(view[ad.vec[i].addr], ad, i, m)]

Next ==
  /\ Len(ad.results) < MaxResults
  /\ \/ InitDriver
     \/ AddAccs
     \/ ChooseSeting /\ \A a \in Accs : Len(sent[a]) <= 2
     \/ \E i \in DOMAIN ad.vec :
          Connected(i) \/ Disconnected(i) \/ \E m \in FromAcc : Received(i, m)

Spec == Init /\ [][Next]_adVars
------------------------------------------------------------------------------
(* The driver has its type. *)
DriverTypeOK ==
  /\ ad.vec \in Seq(LinkType)
  /\ ad.svrId \in {0, SvrId}
  /\ {ad.isVerify, ad.fatal, ad.isReg} \subseteq BOOLEAN

(* The server is told once that it is registered, however many accs say so  *)
(* and however often they come back, and once that it is not; after that    *)
(* nothing, since no link is left and none can be added (doc.md:79-82).     *)
ResultToldOnce ==
  /\ \A i, j \in DOMAIN ad.results : i < j => ad.results[i] = ad.svrId /\ ad.results[j] = 0
  /\ ad.fatal <=> \E i \in DOMAIN ad.results : ad.results[i] = 0
  /\ ad.fatal => ad.vec = <<>>

(* A session is found only over a link that is up and registered, so none   *)
(* outlives the connection it came over.                                    *)
SessionsNeedReg ==
  \A i \in DOMAIN ad.vec :
    /\ ad.vec[i].isReg => ad.vec[i].con = "up"
    /\ \A c \in Cids : ad.vec[i].sess[c] # NoSession => ad.vec[i].isReg

(* A server that keeps its own sessions by the callbacks alone holds        *)
(* exactly those the driver holds, with the uin set last, as long as its    *)
(* links are not given up.                                                  *)
CallBacksSuffice ==
  ~ad.fatal =>
    \A a \in Accs :
      /\ \A i \in DOMAIN ad.vec : ad.vec[i].addr = a => view[a] = ad.vec[i].sess
      /\ view[a] # NoSessions => \E i \in DOMAIN ad.vec : ad.vec[i].addr = a

(* A server is called about a session it knows: after its OnClientConnect   *)
(* and before its OnClientDisCon or OnAccDisCon, whatever acc sends next.   *)
CalledAboutKnown ==
  \A i \in DOMAIN ad.vec, m \in FromAcc :
    CallBacks(ad, i, m) \cap {"OnRevClientMsg", "OnClientDisCon", "OnSetActiveSvr",
                             "OnMsgRspCacheMsg", "OnRevBroadcastUinToSession"} # {}
    => view[ad.vec[i].addr][m.cid] # NoSession

(* An acc that is up has been asked to register first, and has the settings *)
(* the server chose last.                                                   *)
AccsAreConfigured ==
  \A i \in DOMAIN ad.vec : ad.vec[i].con = "up" =>
    LET s == sent[ad.vec[i].addr]
    IN  /\ s # <<>> /\ s[1].cmd = "REQ_REG"
        /\ ad.seting # <<>> => s[Len(s)] = ad.seting[1]
==============================================================================
