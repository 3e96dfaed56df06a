---------------------------- MODULE MirrorProof ----------------------------
(***************************************************************************)
(* What servers know of the clients of acc (SessionMirror) and of their    *)
(* uins (UinMirror), for any number of servers, clients and connections,   *)
(* in the first run of acc, and in all of its runs when servers are        *)
(* Timely.                                                                 *)
(*                                                                         *)
(* For a server in service, the sessions that it holds and the messages    *)
(* that lie between add up to the clients that are in.  acc adds to the    *)
(* messages what it changes of its clients (NoticeProof); the driver moves *)
(* the first message over to the sessions, which changes nothing of the    *)
(* sum; and acc registers a server only over a connection with nothing on  *)
(* it yet, and answers with every client that is in (SystemProof).  Uins   *)
(* go the same way: see UinInv below.                                      *)
(***************************************************************************)
EXTENDS SystemProof

(* A server in service has the answer to its registration behind it, or     *)
(* next.                                                                    *)
AnswerAhead(s, q) ==
  /\ ~Link(s).isReg =>
       1 \in DOMAIN q /\ q[1].cmd = "RSP_REG" /\ q[1].svrId = SvrIdOf[s]
  /\ \A i \in DOMAIN q : q[i].cmd = "RSP_REG" => i = 1 /\ ~Link(s).isReg

Begins(q, c, i) ==
  i \in DOMAIN q /\ q[i].cmd = "NTF_CREATE_SESSION" /\ q[i].cid = c /\ Stays(q, c, i)

(* Client c is in session, after a server that has sess has read q. *)
Known(sess, q, c) ==
  \/ sess[c] # AD!NoSession /\ Stays(q, c, 0)
  \/ \E i \in DOMAIN q : Begins(q, c, i)

Mirrors(sess, q, c) ==
  /\ StageOf(cli[c]) = "in" /\ cli[c].con = "open" => Known(sess, q, c)
  /\ Known(sess, q, c) => StageOf(cli[c]) = "in"

Serves(s) ==
  InService(s) =>
    /\ AnswerAhead(s, toSvr[sock[s]])
    /\ \A c \in Cids : Mirrors(Link(s).sess, toSvr[sock[s]], c)

ServeInv == \A s \in Svrs : Serves(s)
------------------------------------------------------------------------------
(* Messages that acc adds. *)

(* p is q with n behind it. *)
Behind(p, q, n) ==
  /\ \A i \in DOMAIN p :
       \/ i \in DOMAIN q /\ p[i] = q[i]
       \/ \E j \in DOMAIN n : i = Len(q) + j /\ p[i] = n[j]
  /\ \A i \in DOMAIN q : i \in DOMAIN p /\ p[i] = q[i]
  /\ \A j \in DOMAIN n : Len(q) + j \in DOMAIN p /\ p[Len(q) + j] = n[j]

LEMMA StaysBehind ==
  ASSUME NEW q \in Seq(ToSvrMsg), NEW n \in Seq(ToSvrMsg), NEW p, Behind(p, q, n), NEW c, NEW i,
         i \in DOMAIN q \cup {0}
  PROVE  Stays(p, c, i) <=> Stays(q, c, i) /\ ~Says(n, "NTF_DISCON", c)
<1> DEFINE l == Len(q)
<1>1. /\ l \in Nat /\ DOMAIN q = 1..l /\ DOMAIN n = 1..Len(n) /\ Len(n) \in Nat
  BY LenProperties
<1> HIDE DEF l
<1>2. ASSUME NEW j \in DOMAIN n
      PROVE  i < l + j
  BY <1>1
<1>3. /\ \A j \in DOMAIN p : \/ j \in DOMAIN q /\ p[j] = q[j]
                             \/ \E h \in DOMAIN n : j = l + h /\ p[j] = n[h]
      /\ \A j \in DOMAIN q : j \in DOMAIN p /\ p[j] = q[j]
      /\ \A j \in DOMAIN n : l + j \in DOMAIN p /\ p[l + j] = n[j]
  BY DEF Behind, l
<1>4. ASSUME Stays(p, c, i)
      PROVE  Stays(q, c, i) /\ ~Says(n, "NTF_DISCON", c)
  <2>1. Stays(q, c, i)
    BY <1>3, <1>4 DEF Stays
  <2>2. ASSUME NEW j \in DOMAIN n
        PROVE  ~(n[j].cmd = "NTF_DISCON" /\ n[j].cid = c)
    BY <1>2, <1>3, <1>4 DEF Stays
  <2> QED
    BY <2>1, <2>2 DEF Says
<1>5. ASSUME Stays(q, c, i), ~Says(n, "NTF_DISCON", c)
      PROVE  Stays(p, c, i)
  BY <1>3, <1>5 DEF Stays, Says
<1> QED
  BY <1>4, <1>5

LEMMA KnownBehind ==
  ASSUME NEW q \in Seq(ToSvrMsg), NEW n \in Seq(ToSvrMsg), NEW p, Behind(p, q, n),
         NEW sess, NEW c,
         ~(Says(n, "NTF_CREATE_SESSION", c) /\ Says(n, "NTF_DISCON", c))
  PROVE  Known(sess, p, c) <=> \/ Says(n, "NTF_CREATE_SESSION", c)
                               \/ Known(sess, q, c) /\ ~Says(n, "NTF_DISCON", c)
<1> DEFINE l == Len(q)
<1>1. /\ l \in Nat /\ DOMAIN q = 1..l /\ DOMAIN n = 1..Len(n) /\ Len(n) \in Nat
  BY LenProperties
<1> HIDE DEF l
<1>2. /\ \A j \in DOMAIN p : \/ j \in DOMAIN q /\ p[j] = q[j]
                             \/ \E h \in DOMAIN n : j = l + h /\ p[j] = n[h]
      /\ \A j \in DOMAIN q : j \in DOMAIN p /\ p[j] = q[j]
      /\ \A j \in DOMAIN n : l + j \in DOMAIN p /\ p[l + j] = n[j]
  BY DEF Behind, l
<1>3. \A i \in DOMAIN q \cup {0} : Stays(p, c, i) <=> Stays(q, c, i) /\ ~Says(n, "NTF_DISCON", c)
  BY StaysBehind
<1>4. ASSUME Says(n, "NTF_CREATE_SESSION", c)
      PROVE  Known(sess, p, c)
  <2>1. PICK j \in DOMAIN n : n[j].cmd = "NTF_CREATE_SESSION" /\ n[j].cid = c
    BY <1>4 DEF Says
  <2>2. l + j \in DOMAIN p /\ p[l + j] = n[j]
    BY <1>2
  <2>3. ASSUME NEW i \in DOMAIN p, l + j < i
        PROVE  ~(p[i].cmd = "NTF_DISCON" /\ p[i].cid = c)
    <3>1. i \notin DOMAIN q
      BY <1>1, <2>3
    <3>2. PICK h \in DOMAIN n : p[i] = n[h]
      BY <1>2, <3>1
    <3> QED
      BY <1>4, <3>2 DEF Says
  <2>4. Begins(p, c, l + j)
    BY <2>1, <2>2, <2>3 DEF Begins, Stays
  <2> QED
    BY <2>2, <2>4 DEF Known
<1>5. ASSUME Known(sess, q, c), ~Says(n, "NTF_DISCON", c)
      PROVE  Known(sess, p, c)
  <2>1. ASSUME sess[c] # AD!NoSession, Stays(q, c, 0)
        PROVE  Known(sess, p, c)
    BY <1>3, <1>5, <2>1 DEF Known
  <2>2. ASSUME NEW i \in DOMAIN q, Begins(q, c, i)
        PROVE  Known(sess, p, c)
    <3>1. Stays(p, c, i)
      BY <1>3, <1>5, <2>2 DEF Begins
    <3>2. Begins(p, c, i)
      BY <1>2, <2>2, <3>1 DEF Begins
    <3> QED
      BY <3>2 DEF Known, Begins
  <2> QED
    BY <1>5, <2>1, <2>2 DEF Known
<1>6. ASSUME Known(sess, p, c), ~Says(n, "NTF_CREATE_SESSION", c)
      PROVE  Known(sess, q, c) /\ ~Says(n, "NTF_DISCON", c)
  <2>1. ASSUME sess[c] # AD!NoSession, Stays(p, c, 0)
        PROVE  Known(sess, q, c) /\ ~Says(n, "NTF_DISCON", c)
    BY <1>3, <2>1 DEF Known
  <2>2. ASSUME NEW i \in DOMAIN p, Begins(p, c, i)
        PROVE  Known(sess, q, c) /\ ~Says(n, "NTF_DISCON", c)
    <3>1. i \in DOMAIN q /\ p[i] = q[i]
      BY <1>2, <1>6, <2>2 DEF Begins, Says
    <3>2. Stays(q, c, i) /\ ~Says(n, "NTF_DISCON", c)
      BY <1>3, <2>2, <3>1 DEF Begins
    <3>3. Begins(q, c, i)
      BY <2>2, <3>1, <3>2 DEF Begins
    <3> QED
      BY <3>1, <3>2, <3>3 DEF Known
  <2> QED
    BY <1>6, <2>1, <2>2 DEF Known
<1> QED
  BY <1>4, <1>5, <1>6

(* What acc may add to the messages of connection k in a step. *)
Informed(k) ==
  /\ SameIds(k)
  /\ \E n \in Seq(ToSvrMsg) :
       /\ Delivers(k, n)
       /\ TellsTrue(n)
       /\ inner[k].svrId # 0 /\ inner'[k].con = "open" => TellsAll(n)

(* A server that hears what changes is right about the clients after it. *)
LEMMA InformedServes ==
  ASSUME Base, NEW s \in Svrs, Serves(s), sock[s] # NoCon => Informed(sock[s]),
         sock'[s] = sock[s], Link(s)' = Link(s)
  PROVE  Serves(s)'
<1> SUFFICES ASSUME InService(s)'
             PROVE  /\ AnswerAhead(s, toSvr[sock[s]])'
                    /\ \A c \in Cids : Mirrors(Link(s).sess, toSvr[sock[s]], c)'
  BY DEF Serves
<1> DEFINE k == sock[s]
           q == toSvr[k]
           p == toSvr'[k]
<1>1. /\ k \in Conns /\ k # NoCon /\ inner'[k].con = "open" /\ inner'[k].svrId # 0
      /\ q \in Seq(ToSvrMsg)
  BY DEF InService, Base, LinkInv, CInv, ChanInv
<1>2. SameIds(k) /\ \E n \in Seq(ToSvrMsg) :
                      /\ Delivers(k, n)
                      /\ TellsTrue(n)
                      /\ inner[k].svrId # 0 /\ inner'[k].con = "open" => TellsAll(n)
  BY <1>1 DEF Informed
<1>3. PICK n \in Seq(ToSvrMsg) : Delivers(k, n) /\ TellsTrue(n) /\ TellsAll(n)
  BY <1>1, <1>2 DEF SameIds
<1>4. inner[k].con = "open" /\ inner[k].svrId # 0 /\ Behind(p, q, n)
  BY <1>1, <1>2, <1>3 DEF Delivers, Behind, SameIds
<1>5. /\ AnswerAhead(s, q) /\ \A c \in Cids : Mirrors(Link(s).sess, q, c)
  BY <1>1, <1>4 DEF InService, Serves
<1> HIDE DEF k, q, p
<1>6. AnswerAhead(s, toSvr[sock[s]])'
  <2>1. \A j \in DOMAIN n : n[j].cmd # "RSP_REG"
    BY <1>3 DEF TellsTrue
  <2>2. \A i \in DOMAIN p : p[i].cmd = "RSP_REG" => i \in DOMAIN q /\ p[i] = q[i]
    BY <1>4, <2>1 DEF Behind
  <2>3. \A i \in DOMAIN q : i \in DOMAIN p /\ p[i] = q[i]
    BY <1>4 DEF Behind
  <2>4. /\ ~Link(s)'.isReg => 1 \in DOMAIN p /\ p[1].cmd = "RSP_REG" /\ p[1].svrId = SvrIdOf[s]
        /\ \A i \in DOMAIN p : p[i].cmd = "RSP_REG" => i = 1 /\ ~Link(s)'.isReg
    BY <1>5, <2>2, <2>3 DEF AnswerAhead
  <2> QED
    BY <2>4 DEF AnswerAhead, p, k
<1>7. ASSUME NEW c \in Cids
      PROVE  Mirrors(Link(s).sess, toSvr[sock[s]], c)'
  <2> DEFINE sess == Link(s).sess
  <2>1. /\ Says(n, "NTF_CREATE_SESSION", c) => StageOf(cli'[c]) = "in"
        /\ Says(n, "NTF_DISCON", c) => StageOf(cli'[c]) = "gone"
    BY <1>3 DEF TellsTrue
  <2>2. /\ StageOf(cli'[c]) = "in" /\ cli'[c].con = "open"
             => \/ StageOf(cli[c]) = "in" /\ cli[c].con = "open"
                \/ Says(n, "NTF_CREATE_SESSION", c)
        /\ StageOf(cli[c]) = "in" /\ StageOf(cli'[c]) # "in" => Says(n, "NTF_DISCON", c)
    BY <1>3 DEF TellsAll
  <2>3. Mirrors(sess, q, c)
    BY <1>5
  <2> HIDE DEF sess
  <2>4. Known(sess, p, c) <=> \/ Says(n, "NTF_CREATE_SESSION", c)
                              \/ Known(sess, q, c) /\ ~Says(n, "NTF_DISCON", c)
    BY <1>1, <1>4, <2>1, KnownBehind DEF q
  <2>5. /\ StageOf(cli'[c]) = "in" /\ cli'[c].con = "open" => Known(sess, p, c)
        /\ Known(sess, p, c) => StageOf(cli'[c]) = "in"
    BY <2>1, <2>2, <2>3, <2>4 DEF Mirrors
  <2> QED
    BY <2>5 DEF Mirrors, Known, Begins, Stays, sess, p, k
<1> QED
  BY <1>6, <1>7

(* Nothing changes of what the server and acc have in common. *)
LEMMA SameServes ==
  ASSUME NEW s \in Svrs, Serves(s), UNCHANGED cli,
         InService(s)' => /\ sock'[s] = sock[s] /\ Link(s)' = Link(s)
                          /\ inner'[sock[s]] = inner[sock[s]] /\ toSvr'[sock[s]] = toSvr[sock[s]]
  PROVE  Serves(s)'
<1> SUFFICES ASSUME InService(s)'
             PROVE  /\ AnswerAhead(s, toSvr[sock[s]])'
                    /\ \A c \in Cids : Mirrors(Link(s).sess, toSvr[sock[s]], c)'
  BY DEF Serves
<1>1. AnswerAhead(s, toSvr[sock[s]]) /\ \A c \in Cids : Mirrors(Link(s).sess, toSvr[sock[s]], c)
  BY DEF Serves, InService
<1> QED
  BY <1>1 DEF AnswerAhead, Mirrors, Known, Begins, Stays
------------------------------------------------------------------------------
(* The steps of acc. *)

LEMMA AccServes ==
  ASSUME Base, ServeInv, NEW asker, Informs(asker), UNCHANGED <<drv, sock>>
  PROVE  ServeInv'
<1>1. ASSUME NEW s \in Svrs
      PROVE  Serves(s)'
  <2>1. sock[s] # NoCon => Informed(sock[s])
    BY DEF Informs, Informed, Base, LinkInv
  <2> QED
    BY <2>1, InformedServes DEF ServeInv, Link
<1> QED
  BY <1>1 DEF ServeInv

(* What acc answers to the first thing a server says, its registration: the *)
(* answer and then each client that is in.                                  *)
LEMMA FirstAnswerIs ==
  ASSUME Base, NEW s \in Svrs, NEW k \in Conns, sock[s] = k, NEW r \in RequestType,
         r.cmd = "REQ_REG", r = toAcc[k][1], OnRecv(k, r), FirstThing(k, 1),
         inner'[k].con = "open", inner'[k].svrId # 0
  PROVE  LET p == toSvr'[k]
         IN  /\ UNCHANGED cli /\ ~Link(s).isReg /\ Link(s).sess = AD!NoSessions
             /\ 1 \in DOMAIN p /\ p[1].cmd = "RSP_REG" /\ p[1].svrId = SvrIdOf[s]
             /\ \A i \in DOMAIN p \ {1} :
                  /\ p[i].cmd = "NTF_CREATE_SESSION" /\ p[i].cid \in VerifiedClients
                  /\ p[i].uin = cli[p[i].cid].uin
             /\ \A c \in VerifiedClients : \E i \in DOMAIN p \ {1} : p[i].cid = c
<1> DEFINE q == toSvr[k]
           p == toSvr'[k]
<1>1. /\ DOMAIN q = {} /\ inner[k].svrId = 0 /\ ~Link(s).isReg /\ r.svrId = SvrIdOf[s]
      /\ q \in Seq(ToSvrMsg)
  BY DEF FirstThing, Silent, Base, CInv, ChanInv
<1>2. PICK n \in Seq(ToSvrMsg) :
        /\ Delivers(k, n)
        /\ 1 \in DOMAIN n /\ n[1].cmd = "RSP_REG"
        /\ inner[k].svrId = 0 /\ inner'[k].svrId # 0 => n[1].svrId = r.svrId
        /\ \A i \in DOMAIN n \ {1} :
             /\ n[i].cmd = "NTF_CREATE_SESSION" /\ n[i].cid \in VerifiedClients
             /\ n[i].uin = cli[n[i].cid].uin
        /\ \A c \in VerifiedClients : \E i \in DOMAIN n \ {1} : n[i].cid = c
  BY RegTells DEF Base
<1>3. UNCHANGED cli
  BY RegTells DEF Base
<1>4. Link(s).sess = AD!NoSessions
  BY <1>1, IdFacts DEF Base, LinkInv
<1>5. /\ \A i \in DOMAIN p : i \in DOMAIN n /\ p[i] = n[i]
      /\ \A i \in DOMAIN n : i \in DOMAIN p /\ p[i] = n[i]
  <2>1. Len(q) = 0
    <3>1. DOMAIN q = 1..Len(q) /\ Len(q) \in Nat
      BY <1>1, LenProperties
    <3> HIDE DEF q
    <3>2. ~(1 \in 1..Len(q))
      BY <1>1, <3>1
    <3> QED
      BY <3>1, <3>2
  <2>2. \A i \in DOMAIN n : Len(q) + i = i
    BY <1>2, <2>1, LenProperties
  <2>3. /\ \A i \in DOMAIN p : \E j \in DOMAIN n : i = Len(q) + j /\ p[i] = n[j]
        /\ \A j \in DOMAIN n : Len(q) + j \in DOMAIN p /\ p[Len(q) + j] = n[j]
    BY <1>1, <1>2 DEF Delivers
  <2> HIDE DEF q, p
  <2> QED
    BY <2>2, <2>3
<1> HIDE DEF q, p
<1>6. /\ 1 \in DOMAIN p /\ p[1].cmd = "RSP_REG" /\ p[1].svrId = SvrIdOf[s]
      /\ \A i \in DOMAIN p \ {1} :
           /\ p[i].cmd = "NTF_CREATE_SESSION" /\ p[i].cid \in VerifiedClients
           /\ p[i].uin = cli[p[i].cid].uin
      /\ \A c \in VerifiedClients : \E i \in DOMAIN p \ {1} : p[i].cid = c
  BY <1>1, <1>2, <1>5
<1> QED
  BY <1>1, <1>3, <1>4, <1>6 DEF p

LEMMA InAreVerified ==
  ASSUME Base, NEW c \in Cids
  PROVE  /\ c \in VerifiedClients => StageOf(cli[c]) = "in"
         /\ StageOf(cli[c]) = "in" /\ cli[c].con = "open" => c \in VerifiedClients
<1>1. cli[c] \in ClientType
  BY GoodIsClient DEF Base, IInv
<1> QED
  BY <1>1, StageIn DEF VerifiedClients, FoundClients, Found, Alive

LEMMA FirstAnswer ==
  ASSUME Base, NEW s \in Svrs, NEW k \in Conns, sock[s] = k, NEW r \in RequestType,
         r.cmd = "REQ_REG", r = toAcc[k][1], OnRecv(k, r), FirstThing(k, 1),
         UNCHANGED <<drv, sock>>
  PROVE  Serves(s)'
<1> SUFFICES ASSUME InService(s)'
             PROVE  /\ AnswerAhead(s, toSvr[sock[s]])'
                    /\ \A c \in Cids : Mirrors(Link(s).sess, toSvr[sock[s]], c)'
  BY DEF Serves
<1> DEFINE p == toSvr'[k]
<1>1. /\ inner'[k].con = "open" /\ inner'[k].svrId # 0
      /\ Link(s)' = Link(s) /\ sock'[s] = k
  BY DEF InService, Link
<1>2. /\ UNCHANGED cli /\ ~Link(s).isReg /\ Link(s).sess = AD!NoSessions
      /\ 1 \in DOMAIN p /\ p[1].cmd = "RSP_REG" /\ p[1].svrId = SvrIdOf[s]
      /\ \A i \in DOMAIN p \ {1} :
           p[i].cmd = "NTF_CREATE_SESSION" /\ p[i].cid \in VerifiedClients
      /\ \A c \in VerifiedClients : \E i \in DOMAIN p \ {1} : p[i].cid = c
  BY <1>1, FirstAnswerIs
<1> HIDE DEF p
<1>3. AnswerAhead(s, toSvr[sock[s]])'
  BY <1>1, <1>2 DEF AnswerAhead, p
<1>4. ASSUME NEW c \in Cids
      PROVE  Mirrors(Link(s).sess, toSvr[sock[s]], c)'
  <2>1. \A i \in DOMAIN p : p[i].cmd # "NTF_DISCON"
    BY <1>2
  <2>2. Link(s)'.sess[c] = AD!NoSession
    BY <1>1, <1>2 DEF AD!NoSessions
  <2>3. ASSUME c \in VerifiedClients
        PROVE  \E i \in DOMAIN p : Begins(p, c, i)
    BY <1>2, <2>1, <2>3 DEF Begins, Stays
  <2>4. ASSUME NEW i \in DOMAIN p, Begins(p, c, i)
        PROVE  c \in VerifiedClients
    BY <1>2, <2>4 DEF Begins
  <2>5. /\ StageOf(cli'[c]) = "in" /\ cli'[c].con = "open" => \E i \in DOMAIN p : Begins(p, c, i)
        /\ (\E i \in DOMAIN p : Begins(p, c, i)) => StageOf(cli'[c]) = "in"
    BY <1>2, <2>3, <2>4, InAreVerified
  <2> QED
    BY <1>1, <2>2, <2>5 DEF Mirrors, Known, Begins, Stays, p
<1> QED
  BY <1>3, <1>4

LEMMA RequestServes ==
  ASSUME Base, ServeInv, "ann" \notin LongNames, NEW k \in Conns, Idle, AccRecv(k)
  PROVE  ServeInv'
<1> DEFINE r == Head(toAcc[k])
<1>1. /\ UNCHANGED <<drv, sock>>
      /\ Claims(r, cli, answered)
      /\ r.cmd = "REQ_REG" => FirstThing(k, 1) /\ r = toAcc[k][1]
  BY AccRecvIs
<1>2. \/ UNCHANGED accVars
      \/ r \in RequestType /\ OnRecv(k, r)
  BY AccRecvIs
<1>3. IInv'
  BY AccRecvBase DEF Base
<1> HIDE DEF r
<1>4. CASE UNCHANGED accVars
  <2>1. UNCHANGED <<cli, inner, toSvr>>
    BY <1>4 DEF accVars
  <2>2. Informs(k)
    BY <2>1, SameInner, QuietInforms DEF Base, StaysPut
  <2> QED
    BY <1>1, <2>2, AccServes
<1>5. CASE r \in RequestType /\ OnRecv(k, r) /\ r.cmd # "REQ_REG"
  <2>1. AnswerFits(r)
    BY <1>1 DEF Claims, AnswerFits, AskedOn
  <2>2. Informs(k)
    BY <1>3, <1>5, <2>1, RequestInforms DEF Base
  <2> QED
    BY <1>1, <2>2, AccServes
<1>6. CASE r \in RequestType /\ OnRecv(k, r) /\ r.cmd = "REQ_REG"
  <2>1. ASSUME NEW s \in Svrs
        PROVE  Serves(s)'
    <3>1. CASE sock[s] = k
      BY <1>1, <1>6, <3>1, FirstAnswer
    <3>2. CASE sock[s] # k
      <4> DEFINE j == sock[s]
      <4>1. UNCHANGED cli
        BY <1>6, RegTells DEF Base
      <4>2. ASSUME j # NoCon
            PROVE  Informed(j)
        <5>1. j \in Conns \ {k}
          BY <3>2, <4>2 DEF Base, LinkInv
        <5> HIDE DEF j
        <5>2. SameIds(j) /\ \E n \in Seq(ToSvrMsg) : Delivers(j, n) /\ DOMAIN n = {}
          BY <1>6, <5>1, RegTells DEF Base
        <5>3. PICK n \in Seq(ToSvrMsg) : Delivers(j, n) /\ DOMAIN n = {}
          BY <5>2
        <5>4. TellsTrue(n) /\ TellsAll(n)
          BY <4>1, <5>3 DEF TellsTrue, TellsAll, Says
        <5> QED
          BY <5>2, <5>3, <5>4 DEF Informed
      <4> QED
        BY <1>1, <4>2, InformedServes DEF ServeInv, Link
    <3> QED
      BY <3>1, <3>2
  <2> QED
    BY <2>1 DEF ServeInv
<1> QED
  BY <1>2, <1>4, <1>5, <1>6

LEMMA AccSideServes ==
  ASSUME Base, ServeInv, ClientSide \/ \E k \in Conns : Idle /\ (AccNotices(k) \/ AccBreak(k))
  PROVE  ServeInv'
<1>1. CASE ClientSide
  <2>1. PICK d \in Cids : RecvPacket(d) \/ ReadDone \/ ClientEvent(d)
    BY <1>1, ClientSideIs DEF Base
  <2>2. IInv'
    BY <1>1, ClientSideBase DEF Base
  <2>3. Informs(NoCon)
    BY <2>1, <2>2, ClientSideInforms DEF Base
  <2>4. UNCHANGED <<drv, sock>>
    BY <1>1 DEF ClientSide, Aside
  <2> QED
    BY <2>3, <2>4, AccServes
<1>2. ASSUME NEW k \in Conns, AccNotices(k) \/ AccBreak(k)
      PROVE  ServeInv'
  <2>1. SvrBreak(k) /\ UNCHANGED <<drv, sock>>
    BY <1>2 DEF AccNotices, AccBreak
  <2>2. Informs(NoCon)
    BY <2>1, SvrBreakInforms DEF Base
  <2> QED
    BY <2>1, <2>2, AccServes
<1> QED
  BY <1>1, <1>2
------------------------------------------------------------------------------
(* Connections come and go. *)

LEMMA DestroyServes ==
  ASSUME Base, ServeInv, NEW k \in Conns, Destroy(k)
  PROVE  ServeInv'
<1>1. ASSUME NEW s \in Svrs
      PROVE  Serves(s)'
  <2>1. /\ UNCHANGED <<cli, drv>> /\ sock' \in [Svrs -> Conns \cup {NoCon}]
        /\ sock'[s] # k /\ (sock'[s] # NoCon => sock'[s] = sock[s])
        /\ \A j \in Conns \ {k} : inner'[j] = inner[j] /\ toSvr'[j] = toSvr[j]
    BY DestroyIs
  <2>2. InService(s)' => sock'[s] = sock[s] /\ sock[s] \in Conns \ {k}
    BY <2>1 DEF InService
  <2> QED
    BY <2>1, <2>2, SameServes DEF ServeInv, Link
<1> QED
  BY <1>1 DEF ServeInv

LEMMA ConnectServes ==
  ASSUME Base, ServeInv, NEW s \in Svrs, NEW k \in Conns, Connect(s, k)
  PROVE  ServeInv'
<1>1. ASSUME NEW t \in Svrs
      PROVE  Serves(t)'
  <2>1. /\ UNCHANGED cli /\ \A u \in Svrs : sock[u] # k
        /\ sock' = [sock EXCEPT ![s] = k]
        /\ drv' = [drv EXCEPT ![s] = AD!OnConnected(drv[s], 1)]
        /\ inner' = [inner EXCEPT ![k] = [NewInner EXCEPT !.con = "open"]]
        /\ toSvr' = [toSvr EXCEPT ![k] = <<>>]
    BY DEF Connect, SvrConnect
  <2>2. inner'[k].svrId = 0 /\ sock'[s] = k
    BY <2>1 DEF NewInner, Base, IInv, InnerTypeOK, LinkInv
  <2>3. CASE t = s
    BY <2>2, <2>3 DEF Serves, InService
  <2>4. CASE t # s
    <3>1. sock'[t] = sock[t] /\ drv'[t] = drv[t]
      BY <2>1, <2>4 DEF Base, LinkInv
    <3>2. sock[t] # NoCon => sock[t] \in Conns /\ sock[t] # k
      BY <2>1 DEF Base, LinkInv
    <3>3. sock[t] # NoCon => inner'[sock[t]] = inner[sock[t]] /\ toSvr'[sock[t]] = toSvr[sock[t]]
      <4> DEFINE z == <<>>
                 o == [NewInner EXCEPT !.con = "open"]
      <4>1. toSvr' = [toSvr EXCEPT ![k] = z] /\ inner' = [inner EXCEPT ![k] = o]
        BY <2>1
      <4> HIDE DEF z, o
      <4> QED
        BY <3>2, <4>1 DEF Base, CInv, ChanInv, IInv, InnerTypeOK
    <3>4. InService(t)' => sock[t] # NoCon
      BY <3>1 DEF InService
    <3> QED
      BY <2>1, <3>1, <3>3, <3>4, SameServes DEF ServeInv, Link
  <2> QED
    BY <2>3, <2>4
<1> QED
  BY <1>1 DEF ServeInv

LEMMA LinkLostServes ==
  ASSUME Base, ServeInv, NEW s \in Svrs, LinkLost(s)
  PROVE  ServeInv'
<1>1. ASSUME NEW t \in Svrs
      PROVE  Serves(t)'
  <2>1. /\ UNCHANGED <<cli, inner, toSvr>>
        /\ drv' = [drv EXCEPT ![s] = AD!OnDisconnected(drv[s], 1)]
        /\ sock' = [sock EXCEPT ![s] = NoCon]
    BY DEF LinkLost, accVars
  <2>2. CASE t = s
    <3>1. sock'[s] = NoCon
      BY <2>1 DEF Base, LinkInv
    <3> QED
      BY <2>2, <3>1 DEF Serves, InService
  <2>3. CASE t # s
    <3>1. sock'[t] = sock[t] /\ drv'[t] = drv[t]
      BY <2>1, <2>3 DEF Base, LinkInv
    <3> QED
      BY <2>1, <3>1, SameServes DEF ServeInv, Link
  <2> QED
    BY <2>2, <2>3
<1> QED
  BY <1>1 DEF ServeInv
------------------------------------------------------------------------------
(* A driver moves the first message over to its sessions. *)

LEMMA StaysTail ==
  ASSUME NEW q \in Seq(ToSvrMsg), q # <<>>, NEW c
  PROVE  /\ \A i \in DOMAIN q : Stays(q, c, i) <=> Stays(Tail(q), c, i - 1)
         /\ Stays(q, c, 0) <=>
              ~(q[1].cmd = "NTF_DISCON" /\ q[1].cid = c) /\ Stays(Tail(q), c, 0)
<1> DEFINE p == Tail(q)
<1>1. /\ 1 \in DOMAIN q
      /\ \A i \in DOMAIN p : i \in Nat /\ i >= 1 /\ i + 1 \in DOMAIN q /\ p[i] = q[i + 1]
      /\ \A i \in DOMAIN q \ {1} : i - 1 \in DOMAIN p /\ p[i - 1] = q[i]
      /\ \A i \in DOMAIN q : i \in Nat /\ i >= 1
  BY TailIs, LenProperties
<1> HIDE DEF p
<1>2. ASSUME NEW i \in Nat
      PROVE  /\ Stays(p, c, i) => \A j \in DOMAIN q : i + 1 < j => ~(q[j].cmd = "NTF_DISCON" /\ q[j].cid = c)
             /\ (\A j \in DOMAIN q : i + 1 < j => ~(q[j].cmd = "NTF_DISCON" /\ q[j].cid = c)) => Stays(p, c, i)
  <2>1. ASSUME Stays(p, c, i), NEW j \in DOMAIN q, i + 1 < j
        PROVE  ~(q[j].cmd = "NTF_DISCON" /\ q[j].cid = c)
    <3>1. j - 1 \in DOMAIN p /\ p[j - 1] = q[j] /\ i < j - 1
      BY <1>1, <2>1
    <3> QED
      BY <2>1, <3>1 DEF Stays
  <2>2. ASSUME \A j \in DOMAIN q : i + 1 < j => ~(q[j].cmd = "NTF_DISCON" /\ q[j].cid = c),
               NEW j \in DOMAIN p, i < j
        PROVE  ~(p[j].cmd = "NTF_DISCON" /\ p[j].cid = c)
    <3>1. j + 1 \in DOMAIN q /\ p[j] = q[j + 1] /\ i + 1 < j + 1
      BY <1>1, <2>2
    <3> QED
      BY <2>2, <3>1
  <2> QED
    BY <2>1, <2>2 DEF Stays
<1>3. ASSUME NEW i \in DOMAIN q
      PROVE  Stays(q, c, i) <=> Stays(p, c, i - 1)
  <2>1. i - 1 \in Nat /\ i - 1 + 1 = i
    BY <1>1
  <2> QED
    BY <1>2, <2>1 DEF Stays
<1>4. Stays(q, c, 0) <=> ~(q[1].cmd = "NTF_DISCON" /\ q[1].cid = c) /\ Stays(p, c, 0)
  <2>1. \A j \in DOMAIN q : 0 < j <=> j = 1 \/ 0 + 1 < j
    BY <1>1
  <2> QED
    BY <1>1, <1>2, <2>1 DEF Stays
<1> QED
  BY <1>3, <1>4 DEF p

LEMMA KnownTail ==
  ASSUME NEW q \in Seq(ToSvrMsg), q # <<>>, NEW c, NEW old, NEW new,
         new[c] # AD!NoSession <=>
           IF q[1].cmd = "NTF_CREATE_SESSION" /\ q[1].cid = c THEN TRUE
           ELSE IF q[1].cmd = "NTF_DISCON" /\ q[1].cid = c THEN FALSE
           ELSE old[c] # AD!NoSession
  PROVE  Known(new, Tail(q), c) <=> Known(old, q, c)
<1> DEFINE p == Tail(q)
<1>1. /\ 1 \in DOMAIN q
      /\ \A i \in DOMAIN p : i \in Nat /\ i >= 1 /\ i + 1 \in DOMAIN q /\ p[i] = q[i + 1]
      /\ \A i \in DOMAIN q \ {1} : i - 1 \in DOMAIN p /\ p[i - 1] = q[i]
      /\ \A i \in DOMAIN q : i \in Nat /\ i >= 1
  BY TailIs, LenProperties
<1>2. /\ \A i \in DOMAIN q : Stays(q, c, i) <=> Stays(p, c, i - 1)
      /\ Stays(q, c, 0) <=> ~(q[1].cmd = "NTF_DISCON" /\ q[1].cid = c) /\ Stays(p, c, 0)
  BY StaysTail
<1> HIDE DEF p
<1>3. Stays(q, c, 1) <=> Stays(p, c, 0)
  <2>1. 1 - 1 = 0
    OBVIOUS
  <2> QED
    BY <1>1, <1>2, <2>1
<1>4. ASSUME NEW i \in DOMAIN p
      PROVE  i + 1 \in DOMAIN q /\ i + 1 # 1 /\ (Begins(p, c, i) <=> Begins(q, c, i + 1))
  <2>1. i + 1 \in DOMAIN q /\ p[i] = q[i + 1] /\ i + 1 # 1 /\ (i + 1) - 1 = i
    BY <1>1
  <2>2. Stays(q, c, i + 1) <=> Stays(p, c, i)
    BY <1>2, <2>1
  <2> QED
    BY <2>1, <2>2 DEF Begins
<1>5. ASSUME NEW i \in DOMAIN q, i # 1, Begins(q, c, i)
      PROVE  \E j \in DOMAIN p : Begins(p, c, j)
  <2>1. i - 1 \in DOMAIN p /\ (i - 1) + 1 = i
    BY <1>1, <1>5
  <2>2. Begins(p, c, i - 1)
    BY <1>4, <1>5, <2>1
  <2> QED
    BY <2>1, <2>2
<1>6. ASSUME Known(new, p, c)
      PROVE  Known(old, q, c)
  <2>1. ASSUME NEW i \in DOMAIN p, Begins(p, c, i)
        PROVE  Known(old, q, c)
    BY <1>4, <2>1 DEF Known
  <2>2. ASSUME new[c] # AD!NoSession, Stays(p, c, 0)
        PROVE  Known(old, q, c)
    <3>1. CASE q[1].cmd = "NTF_CREATE_SESSION" /\ q[1].cid = c
      BY <1>1, <1>3, <2>2, <3>1 DEF Known, Begins
    <3>2. CASE ~(q[1].cmd = "NTF_CREATE_SESSION" /\ q[1].cid = c)
      BY <1>2, <2>2, <3>2 DEF Known
    <3> QED
      BY <3>1, <3>2
  <2> QED
    BY <1>6, <2>1, <2>2 DEF Known
<1>7. ASSUME Known(old, q, c)
      PROVE  Known(new, p, c)
  <2>1. ASSUME NEW i \in DOMAIN q, Begins(q, c, i)
        PROVE  Known(new, p, c)
    <3>1. CASE i = 1
      BY <1>3, <2>1, <3>1 DEF Known, Begins
    <3>2. CASE i # 1
      BY <1>5, <2>1, <3>2 DEF Known
    <3> QED
      BY <3>1, <3>2
  <2>2. ASSUME old[c] # AD!NoSession, Stays(q, c, 0)
        PROVE  Known(new, p, c)
    BY <1>2, <2>2 DEF Known
  <2> QED
    BY <1>7, <2>1, <2>2 DEF Known
<1> QED
  BY <1>6, <1>7 DEF p

LEMMA DriverRecvServes ==
  ASSUME Base, ServeInv, NEW s \in Svrs, DriverRecv(s)
  PROVE  ServeInv'
<1> DEFINE k == sock[s]
           q == toSvr[k]
           e == Made(s)
<1>1. /\ k \in Conns /\ q # <<>> /\ 1 \in DOMAIN q /\ q \in Seq(ToSvrMsg)
      /\ Taken(s) = q[1] /\ UNCHANGED <<cli, inner>>
      /\ drv' = [drv EXCEPT ![s] = e]
      /\ sock' = [sock EXCEPT ![s] = IF e.fatal THEN NoCon ELSE k]
      /\ toSvr' = [toSvr EXCEPT ![k] = Tail(q)]
  BY DriverRecvIs
<1>2. /\ ~e.fatal => e.vec # <<>>
      /\ e.vec # <<>> /\ ~Link(s).isReg =>
           /\ e.vec[1].sess = Link(s).sess
           /\ e.vec[1].isReg <=> q[1].cmd = "RSP_REG" /\ q[1].svrId = drv[s].svrId
      /\ Link(s).isReg =>
           /\ e.vec[1].isReg
           /\ \A c \in Cids : e.vec[1].sess[c] # AD!NoSession <=>
                IF q[1].cmd = "NTF_CREATE_SESSION" /\ q[1].cid = c THEN TRUE
                ELSE IF q[1].cmd = "NTF_DISCON" /\ q[1].cid = c THEN FALSE
                ELSE Link(s).sess[c] # AD!NoSession
  BY <1>1, MadeIs
<1> HIDE DEF e
<1>3. /\ drv'[s] = e /\ sock'[s] = IF e.fatal THEN NoCon ELSE k
      /\ \A t \in Svrs \ {s} : drv'[t] = drv[t] /\ sock'[t] = sock[t]
  BY <1>1 DEF Base, LinkInv
<1>4. toSvr'[k] = Tail(q) /\ \A j \in Conns \ {k} : toSvr'[j] = toSvr[j]
  BY <1>1 DEF Base, CInv, ChanInv
<1>5. ASSUME NEW t \in Svrs, t # s
      PROVE  Serves(t)'
  <2>1. sock[t] # NoCon => sock[t] \in Conns \ {k}
    BY <1>1, <1>5, IdFacts DEF Base, LinkInv
  <2>2. InService(t)' => sock[t] # NoCon
    BY <1>3, <1>5 DEF InService
  <2> QED
    BY <1>1, <1>3, <1>4, <1>5, <2>1, <2>2, SameServes DEF ServeInv, Link
<1>6. ASSUME InService(s)'
      PROVE  /\ AnswerAhead(s, toSvr[sock[s]])'
             /\ \A c \in Cids : Mirrors(Link(s).sess, toSvr[sock[s]], c)'
  <2> DEFINE p   == Tail(q)
             old == Link(s).sess
             new == e.vec[1].sess
  <2>1. sock'[s] = k /\ ~e.fatal /\ InService(s)
    BY <1>1, <1>3, <1>6 DEF InService
  <2>2. AnswerAhead(s, q) /\ \A c \in Cids : Mirrors(old, q, c)
    BY <2>1 DEF ServeInv, Serves
  <2>3. e.vec[1].isReg /\ \A i \in DOMAIN q : q[i].cmd = "RSP_REG" => i = 1
    BY <1>2, <2>1, <2>2 DEF AnswerAhead, Base, LinkInv
  <2>4. \A c \in Cids : new[c] # AD!NoSession <=>
          IF q[1].cmd = "NTF_CREATE_SESSION" /\ q[1].cid = c THEN TRUE
          ELSE IF q[1].cmd = "NTF_DISCON" /\ q[1].cid = c THEN FALSE
          ELSE old[c] # AD!NoSession
    BY <1>2, <2>1, <2>2 DEF AnswerAhead
  <2>5. \A c \in Cids : Known(new, p, c) <=> Known(old, q, c)
    <3> HIDE DEF new, old, q
    <3> QED
      BY <1>1, <2>4, KnownTail
  <2>6. \A i \in DOMAIN p : p[i].cmd # "RSP_REG"
    <3>1. \A i \in DOMAIN p : i \in Nat /\ i >= 1 /\ i + 1 \in DOMAIN q /\ p[i] = q[i + 1]
      BY <1>1, TailIs
    <3>2. \A i \in DOMAIN p : i + 1 # 1
      BY <3>1
    <3> HIDE DEF p, q
    <3> QED
      BY <2>3, <3>1, <3>2
  <2>7. Link(s)' = e.vec[1] /\ toSvr'[sock'[s]] = p
    BY <1>3, <1>4, <2>1 DEF Link
  <2>8. AnswerAhead(s, toSvr[sock[s]])'
    BY <2>3, <2>6, <2>7 DEF AnswerAhead
  <2>9. ASSUME NEW c \in Cids
        PROVE  Mirrors(Link(s).sess, toSvr[sock[s]], c)'
    <3>1. /\ StageOf(cli'[c]) = "in" /\ cli'[c].con = "open" => Known(new, p, c)
          /\ Known(new, p, c) => StageOf(cli'[c]) = "in"
      BY <1>1, <2>2, <2>5 DEF Mirrors
    <3> HIDE DEF p, q
    <3> QED
      BY <2>7, <3>1 DEF Mirrors, Known, Begins, Stays
  <2> QED
    BY <2>8, <2>9
<1>7. Serves(s)'
  BY <1>6 DEF Serves
<1> QED
  BY <1>5, <1>7 DEF ServeInv
------------------------------------------------------------------------------
(* The calls of servers send only. *)

LEMMA CallKeepsLinks ==
  ASSUME Base, NEW s \in Svrs,
         \/ Answer(s) \/ AnswerMsg(s) \/ CallOnSession(s) \/ CallOnAccs(s) \/ ChooseSeting(s)
  PROVE  /\ UNCHANGED <<cli, inner, toSvr, sock>>
         /\ \A t \in Svrs : drv'[t].vec = drv[t].vec
<1>1. ASSUME NEW reqs, Sends(s, reqs)
      PROVE  UNCHANGED <<cli, inner, toSvr, sock, drv>>
  BY <1>1 DEF Sends, accVars
<1>2. CASE ChooseSeting(s)
  <2>1. PICK x \in Setings : drv' = [drv EXCEPT ![s] = AD!SetAccSeting(drv[s], x)]
    BY <1>2 DEF ChooseSeting
  <2>2. AD!SetAccSeting(drv[s], x).vec = drv[s].vec
    BY SetAccSetingIs DEF Base, LinkInv
  <2>3. UNCHANGED <<cli, inner, toSvr, sock>>
    BY <1>2 DEF ChooseSeting, accVars
  <2> QED
    BY <2>1, <2>2, <2>3 DEF Base, LinkInv
<1>3. CASE Answer(s) \/ AnswerMsg(s)
  BY <1>1, <1>3 DEF Answer, AnswerMsg
<1>4. CASE CallOnSession(s) \/ CallOnAccs(s)
  BY <1>1, <1>4 DEF CallOnSession, CallOnAccs
<1> QED
  BY <1>2, <1>3, <1>4

LEMMA CallServes ==
  ASSUME Base, ServeInv, NEW s \in Svrs,
         \/ Answer(s) \/ AnswerMsg(s) \/ CallOnSession(s) \/ CallOnAccs(s) \/ ChooseSeting(s)
  PROVE  ServeInv'
<1>1. /\ UNCHANGED <<cli, inner, toSvr, sock>>
      /\ \A t \in Svrs : drv'[t].vec = drv[t].vec
  BY CallKeepsLinks
<1>2. ASSUME NEW t \in Svrs
      PROVE  Serves(t)'
  BY <1>1, SameServes DEF ServeInv, Link
<1> QED
  BY <1>2 DEF ServeInv
------------------------------------------------------------------------------
(* All steps. *)

Served == runs \in Nat /\ (runs = 0 => Base /\ ServeInv)

LEMMA InitServes ==
  ASSUME SysInit
  PROVE  ServeInv
BY DEF SysInit, ServeInv, Serves, InService

LEMMA ServesForth ==
  ASSUME Base, ServeInv, "ann" \notin LongNames, SysNext
  PROVE  ServeInv'
<1>1. CASE ClientSide
  BY <1>1, AccSideServes
<1>2. ASSUME NEW k \in Conns, Idle, AccRecv(k) \/ AccNotices(k) \/ AccBreak(k) \/ Destroy(k)
      PROVE  ServeInv'
  BY <1>2, RequestServes, AccSideServes, DestroyServes
<1>3. ASSUME NEW s \in Svrs, NEW k \in Conns, Connect(s, k)
      PROVE  ServeInv'
  BY <1>3, ConnectServes
<1>4. ASSUME NEW s \in Svrs, DriverBreak(s) \/ DriverNotices(s) \/ DriverRecv(s)
      PROVE  ServeInv'
  BY <1>4, DriverEndIs, LinkLostServes, DriverRecvServes DEF Base
<1>5. ASSUME NEW s \in Svrs,
             \/ Answer(s) \/ AnswerMsg(s) \/ CallOnSession(s) \/ CallOnAccs(s) \/ ChooseSeting(s)
      PROVE  ServeInv'
  BY <1>5, CallServes
<1>6. CASE AccRestart
  BY <1>6 DEF AccRestart, ServeInv, Serves, InService
<1> QED
  BY <1>1, <1>2, <1>3, <1>4, <1>5, <1>6 DEF SysNext

LEMMA ServesStays ==
  ASSUME ServeInv, UNCHANGED sysVars
  PROVE  ServeInv'
<1>1. ASSUME NEW s \in Svrs
      PROVE  Serves(s)'
  BY SameServes DEF ServeInv, sysVars, accVars, Link
<1> QED
  BY <1>1 DEF ServeInv

LEMMA ServedHolds == "ann" \notin LongNames => (SysSpec => []Served)
<1> SUFFICES ASSUME "ann" \notin LongNames
             PROVE  SysSpec => []Served
  OBVIOUS
<1>1. SysInit => Served
  BY InitBase, InitServes DEF Served, SysInit
<1>2. Served /\ [SysNext]_sysVars => Served'
  <2> SUFFICES ASSUME Served, [SysNext]_sysVars
               PROVE  Served'
    OBVIOUS
  <2>1. CASE SysNext
    BY <2>1, RunsKept, FirstIsTimely, BaseForth, ServesForth DEF Served
  <2>2. CASE UNCHANGED sysVars
    BY <2>2, BaseStays, ServesStays DEF Served, sysVars
  <2> QED
    BY <2>1, <2>2
<1> QED
  BY <1>1, <1>2, PTL DEF SysSpec

LEMMA TimelyServes ==
  "ann" \notin LongNames => (SysSpec /\ [][Timely]_sysVars => [](Base /\ ServeInv))
<1> SUFFICES ASSUME "ann" \notin LongNames
             PROVE  SysSpec /\ [][Timely]_sysVars => [](Base /\ ServeInv)
  OBVIOUS
<1>1. SysInit => ServeInv
  BY InitServes
<1>2. Base /\ ServeInv /\ [SysNext]_sysVars => ServeInv'
  BY ServesForth, ServesStays
<1> QED
  BY <1>1, <1>2, BaseHolds, PTL DEF SysSpec

LEMMA KnownIsMirror ==
  ASSUME Base, ServeInv
  PROVE  SessionMirror
<1> SUFFICES ASSUME NEW s \in Svrs, InService(s), NEW c \in Cids
             PROVE  /\ cli[c].state = "VERIFYED" /\ cli[c].con = "open" => WillKnow(s, c)
                    /\ WillKnow(s, c) => cli[c].state = "VERIFYED" /\ Alive(cli[c])
  BY DEF SessionMirror
<1> DEFINE q == toSvr[sock[s]]
<1>1. AnswerAhead(s, q) /\ Mirrors(Link(s).sess, q, c)
  BY DEF ServeInv, Serves
<1>2. /\ q \in Seq(ToSvrMsg) /\ drv[s].svrId = SvrIdOf[s] /\ cli[c] \in ClientType
      /\ \A i \in DOMAIN q : i \in Nat /\ i >= 1
  <2>1. sock[s] \in Conns
    BY DEF InService, Base, LinkInv
  <2>2. q \in Seq(ToSvrMsg)
    BY <2>1 DEF Base, CInv, ChanInv
  <2> HIDE DEF q
  <2> QED
    BY <2>2, LenProperties, GoodIsClient DEF Base, LinkInv, IInv
<1> HIDE DEF q
<1>3. ASSUME NEW i \in DOMAIN q, q[i].cmd = "NTF_CREATE_SESSION"
      PROVE  Heard(s, q, i)
  <2>1. CASE Link(s).isReg
    BY <2>1 DEF Heard
  <2>2. CASE ~Link(s).isReg
    <3>1. 1 \in DOMAIN q /\ q[1].cmd = "RSP_REG" /\ q[1].svrId = drv[s].svrId
      BY <1>1, <1>2, <2>2 DEF AnswerAhead
    <3>2. i # 1
      BY <1>3, <3>1
    <3>3. 1 < i
      BY <1>2, <3>2
    <3> QED
      BY <3>1, <3>3 DEF Heard
  <2> QED
    BY <2>1, <2>2
<1>4. WillKnow(s, c) <=> Known(Link(s).sess, q, c)
  BY <1>3 DEF WillKnow, Known, Begins, q
<1> QED
  BY <1>1, <1>2, <1>4, StageIn DEF Mirrors, Alive

(* Where a login's name fits, in the first run of acc: what a server in     *)
(* service holds and what is on its way to it are together the clients that *)
(* acc has let in and that are there, whatever order logins, ends of        *)
(* clients, requests and broken connections come in (RevertSession,         *)
(* CMD_NTF_CREATE_SESSION, CMD_NTF_DISCON; ADClientCon keeps the sessions). *)
THEOREM MirrorCorrect ==
  "ann" \notin LongNames => (SysSpec => [](runs = 0 => SessionMirror))
<1>1. Served => (runs = 0 => SessionMirror)
  BY KnownIsMirror DEF Served
<1> QED
  BY <1>1, ServedHolds, PTL

(* And so in every run of acc, if servers answer no question of an earlier  *)
(* one: whatever a driver held when acc went away, what it holds when it is *)
(* in service again is what the new acc has let in (OnDisconnected,         *)
(* RevertSession).                                                          *)
THEOREM MirrorTimely ==
  "ann" \notin LongNames => (SysSpec /\ [][Timely]_sysVars => []SessionMirror)
<1>1. Base /\ ServeInv => SessionMirror
  BY KnownIsMirror
<1> QED
  BY <1>1, TimelyServes, PTL
------------------------------------------------------------------------------
(* Uins.  A server in service that sets none has the uin that acc has of a  *)
(* client, once it has read the last message that tells it; and a message   *)
(* that begins a session tells nothing new, where the server would not take *)
(* it over (HandleCreateSession).                                           *)

FreshUin(held, q, c) ==
  \A i \in DOMAIN q : q[i].cmd = "NTF_CREATE_SESSION" /\ q[i].cid = c =>
    /\ held \in {q[i].uin, AD!NoSession}
    /\ \A j \in DOMAIN q : TellsUin(q, c, j) /\ j < i => q[j].uin = q[i].uin

LastUin(held, q, c, u) ==
  /\ \A i \in DOMAIN q :
       TellsUin(q, c, i) /\ (\A j \in DOMAIN q : TellsUin(q, c, j) => j <= i) => q[i].uin = u
  /\ (\A i \in DOMAIN q : ~TellsUin(q, c, i)) => held \in {u, AD!NoSession}

UinFits(held, q, c, u) == FreshUin(held, q, c) /\ (u # 0 => LastUin(held, q, c, u))

(* Only clients that are in have a uin, and only such are told of. *)
UinsIn == \A c \in Cids : StageOf(cli[c]) \in InOn \/ cli[c].uin = 0

UinServes(s) ==
  InService(s) =>
    \A c \in Cids :
      /\ UinFits(Link(s).sess[c], toSvr[sock[s]], c, cli[c].uin)
      /\ \A i \in DOMAIN toSvr[sock[s]] :
           TellsUin(toSvr[sock[s]], c, i) => StageOf(cli[c]) \in InOn

SetsNoUin(s) ==
  sock[s] # NoCon => \A i \in DOMAIN toAcc[sock[s]] : toAcc[sock[s]][i].cmd # "REQ_BROADCAST_UIN"

UinInv == UinsIn /\ \A s \in Svrs \ UinSvrs : SetsNoUin(s) /\ UinServes(s)

(* What acc tells a server that registered of the uin of c: nothing, unless *)
(* its uin is set or its session begins.                                    *)
TellsItsUin(n, c) ==
  \/ cli'[c].uin \in {cli[c].uin, 0} /\ \A i \in DOMAIN n : ~TellsUin(n, c, i)
  \/ /\ DOMAIN n = {1} /\ TellsUin(n, c, 1) /\ cli'[c].uin \in {n[1].uin, 0}
     /\ StageOf(cli'[c]) \in InOn
     /\ n[1].cmd = "NTF_CREATE_SESSION" => StageOf(cli[c]) \notin InOn

UinInformed(k) ==
  /\ SameIds(k)
  /\ \E n \in Seq(ToSvrMsg) :
       /\ Delivers(k, n)
       /\ inner[k].svrId # 0 /\ inner'[k].con = "open" => \A c \in Cids : TellsItsUin(n, c)

LEMMA UinBehind ==
  ASSUME NEW q \in Seq(ToSvrMsg), NEW n \in Seq(ToSvrMsg), NEW p, Behind(p, q, n), NEW c,
         NEW held, NEW u, NEW v, UinFits(held, q, c, u),
         \/ v \in {u, 0} /\ \A i \in DOMAIN n : ~TellsUin(n, c, i)
         \/ /\ DOMAIN n = {1} /\ TellsUin(n, c, 1) /\ v \in {n[1].uin, 0}
            /\ n[1].cmd = "NTF_CREATE_SESSION" =>
                 held = AD!NoSession /\ \A i \in DOMAIN q : ~TellsUin(q, c, i)
  PROVE  UinFits(held, p, c, v)
<1> DEFINE l == Len(q)
<1>1. /\ l \in Nat /\ DOMAIN q = 1..l
  BY LenProperties
<1> HIDE DEF l
<1>2. /\ \A j \in DOMAIN p : \/ j \in DOMAIN q /\ p[j] = q[j]
                             \/ \E h \in DOMAIN n : j = l + h /\ p[j] = n[h]
      /\ \A j \in DOMAIN q : j \in DOMAIN p /\ p[j] = q[j]
      /\ \A j \in DOMAIN n : l + j \in DOMAIN p /\ p[l + j] = n[j]
  BY DEF Behind, l
<1>3. CASE v \in {u, 0} /\ \A i \in DOMAIN n : ~TellsUin(n, c, i)
  <2>1. /\ \A j \in DOMAIN p : TellsUin(p, c, j) => j \in DOMAIN q /\ p[j] = q[j] /\ TellsUin(q, c, j)
        /\ \A j \in DOMAIN q : j \in DOMAIN p /\ p[j] = q[j] /\ (TellsUin(q, c, j) <=> TellsUin(p, c, j))
    BY <1>2, <1>3 DEF TellsUin
  <2>2. FreshUin(held, p, c)
    <3>1. \A i \in DOMAIN p : p[i].cmd = "NTF_CREATE_SESSION" /\ p[i].cid = c => TellsUin(p, c, i)
      BY DEF TellsUin
    <3> QED
      BY <2>1, <3>1 DEF UinFits, FreshUin
  <2>3. u # 0 => LastUin(held, p, c, u)
    BY <2>1 DEF UinFits, LastUin
  <2> QED
    BY <1>3, <2>2, <2>3 DEF UinFits
<1>4. CASE /\ DOMAIN n = {1} /\ TellsUin(n, c, 1) /\ v \in {n[1].uin, 0}
           /\ n[1].cmd = "NTF_CREATE_SESSION" =>
                held = AD!NoSession /\ \A i \in DOMAIN q : ~TellsUin(q, c, i)
  <2> DEFINE x == l + 1
  <2>1. /\ x \in DOMAIN p /\ p[x] = n[1] /\ x \in Nat /\ x \notin DOMAIN q
        /\ \A j \in DOMAIN q : j \in Nat /\ j < x /\ j \in DOMAIN p /\ p[j] = q[j]
        /\ \A j \in DOMAIN p : j = x \/ (j \in DOMAIN q /\ p[j] = q[j])
    BY <1>1, <1>2, <1>4
  <2> HIDE DEF x
  <2>2. /\ TellsUin(p, c, x)
        /\ \A j \in DOMAIN q : TellsUin(p, c, j) <=> TellsUin(q, c, j)
    BY <1>4, <2>1 DEF TellsUin
  <2>3. FreshUin(held, p, c)
    <3> SUFFICES ASSUME NEW i \in DOMAIN p, p[i].cmd = "NTF_CREATE_SESSION", p[i].cid = c
                 PROVE  /\ held \in {p[i].uin, AD!NoSession}
                        /\ \A j \in DOMAIN p : TellsUin(p, c, j) /\ j < i => p[j].uin = p[i].uin
      BY DEF FreshUin
    <3>1. CASE i = x
      <4>1. held = AD!NoSession /\ \A j \in DOMAIN q : ~TellsUin(q, c, j)
        BY <1>4, <2>1, <3>1
      <4> QED
        BY <2>1, <2>2, <3>1, <4>1
    <3>2. CASE i # x
      <4>1. i \in DOMAIN q /\ p[i] = q[i] /\ ~(x < i)
        BY <2>1, <3>2
      <4>2. /\ held \in {q[i].uin, AD!NoSession}
            /\ \A j \in DOMAIN q : TellsUin(q, c, j) /\ j < i => q[j].uin = q[i].uin
        BY <4>1 DEF UinFits, FreshUin
      <4> QED
        BY <2>1, <2>2, <4>1, <4>2
    <3> QED
      BY <3>1, <3>2
  <2>4. v # 0 => LastUin(held, p, c, v)
    <3> SUFFICES ASSUME v = n[1].uin
                 PROVE  LastUin(held, p, c, v)
      BY <1>4
    <3>1. ASSUME NEW i \in DOMAIN p, \A j \in DOMAIN p : TellsUin(p, c, j) => j <= i
          PROVE  i = x
      BY <2>1, <2>2, <3>1
    <3> QED
      BY <2>1, <2>2, <3>1 DEF LastUin
  <2> QED
    BY <2>3, <2>4 DEF UinFits
<1> QED
  BY <1>3, <1>4

LEMMA UinTail ==
  ASSUME NEW q \in Seq(ToSvrMsg), q # <<>>, NEW c, NEW held, NEW new, NEW u,
         UinFits(held, q, c, u),
         TellsUin(q, c, 1) => new \in {q[1].uin, AD!NoSession},
         ~TellsUin(q, c, 1) => new \in {held, AD!NoSession}
  PROVE  UinFits(new, Tail(q), c, u)
<1> DEFINE p == Tail(q)
<1>1. /\ 1 \in DOMAIN q
      /\ \A i \in DOMAIN p : i \in Nat /\ i >= 1 /\ i + 1 \in DOMAIN q /\ p[i] = q[i + 1]
      /\ \A i \in DOMAIN q \ {1} : i - 1 \in DOMAIN p /\ p[i - 1] = q[i]
      /\ \A i \in DOMAIN q : i \in Nat /\ i >= 1
  BY TailIs, LenProperties
<1> HIDE DEF p
<1>2. /\ \A i \in DOMAIN p : TellsUin(p, c, i) <=> TellsUin(q, c, i + 1)
      /\ \A i \in DOMAIN q \ {1} : TellsUin(q, c, i) <=> TellsUin(p, c, i - 1)
  BY <1>1 DEF TellsUin
<1>3. ASSUME NEW i \in DOMAIN p
      PROVE  /\ i + 1 \in DOMAIN q /\ p[i] = q[i + 1] /\ 1 < i + 1
             /\ \A j \in DOMAIN p : j < i <=> j + 1 < i + 1
             /\ \A j \in DOMAIN p : j <= i <=> j + 1 <= i + 1
  BY <1>1
<1>4. FreshUin(new, p, c)
  <2> SUFFICES ASSUME NEW i \in DOMAIN p, p[i].cmd = "NTF_CREATE_SESSION", p[i].cid = c
               PROVE  /\ new \in {p[i].uin, AD!NoSession}
                      /\ \A j \in DOMAIN p : TellsUin(p, c, j) /\ j < i => p[j].uin = p[i].uin
    BY DEF FreshUin
  <2>1. /\ held \in {p[i].uin, AD!NoSession}
        /\ \A j \in DOMAIN q : TellsUin(q, c, j) /\ j < i + 1 => q[j].uin = p[i].uin
    BY <1>3 DEF UinFits, FreshUin
  <2>2. new \in {p[i].uin, AD!NoSession}
    BY <1>1, <1>3, <2>1
  <2>3. ASSUME NEW j \in DOMAIN p, TellsUin(p, c, j), j < i
        PROVE  p[j].uin = p[i].uin
    <3>1. j + 1 \in DOMAIN q /\ p[j] = q[j + 1] /\ j + 1 < i + 1 /\ TellsUin(q, c, j + 1)
      BY <1>2, <1>3, <2>3
    <3> QED
      BY <2>1, <3>1
  <2> QED
    BY <2>2, <2>3
<1>5. ASSUME u # 0
      PROVE  LastUin(new, p, c, u)
  <2>1. /\ \A i \in DOMAIN q :
             TellsUin(q, c, i) /\ (\A j \in DOMAIN q : TellsUin(q, c, j) => j <= i) => q[i].uin = u
        /\ (\A i \in DOMAIN q : ~TellsUin(q, c, i)) => held \in {u, AD!NoSession}
    BY <1>5 DEF UinFits, LastUin
  <2>2. ASSUME NEW i \in DOMAIN p, TellsUin(p, c, i),
               \A j \in DOMAIN p : TellsUin(p, c, j) => j <= i
        PROVE  p[i].uin = u
    <3>1. ASSUME NEW j \in DOMAIN q, TellsUin(q, c, j)
          PROVE  j <= i + 1
      <4>1. CASE j = 1
        BY <1>3, <4>1, <1>1
      <4>2. CASE j # 1
        <5>1. j - 1 \in DOMAIN p /\ TellsUin(p, c, j - 1)
          BY <1>1, <1>2, <3>1, <4>2
        <5>2. j - 1 <= i /\ j \in Nat /\ i \in Nat
          BY <1>1, <2>2, <5>1
        <5> QED
          BY <5>2
      <4> QED
        BY <4>1, <4>2
    <3>2. i + 1 \in DOMAIN q /\ p[i] = q[i + 1] /\ TellsUin(q, c, i + 1)
      BY <1>2, <1>3, <2>2
    <3> QED
      BY <2>1, <3>1, <3>2
  <2>3. ASSUME \A i \in DOMAIN p : ~TellsUin(p, c, i)
        PROVE  new \in {u, AD!NoSession}
    <3>1. \A i \in DOMAIN q \ {1} : ~TellsUin(q, c, i)
      BY <1>1, <1>2, <2>3
    <3>2. CASE TellsUin(q, c, 1)
      <4>1. \A j \in DOMAIN q : TellsUin(q, c, j) => j <= 1
        BY <3>1
      <4>2. q[1].uin = u
        BY <1>1, <2>1, <3>2, <4>1
      <4> QED
        BY <3>2, <4>2
    <3>3. CASE ~TellsUin(q, c, 1)
      BY <2>1, <3>1, <3>3
    <3> QED
      BY <3>2, <3>3
  <2> QED
    BY <2>2, <2>3 DEF LastUin
<1> QED
  BY <1>4, <1>5 DEF UinFits, p

LEMMA UinToldFits ==
  ASSUME NEW q, NEW c, NEW u, \A i \in DOMAIN q : TellsUin(q, c, i) => q[i].uin = u
  PROVE  UinFits(AD!NoSession, q, c, u)
<1>1. \A i \in DOMAIN q : q[i].cmd = "NTF_CREATE_SESSION" /\ q[i].cid = c => TellsUin(q, c, i)
  BY DEF TellsUin
<1> QED
  BY <1>1 DEF UinFits, FreshUin, LastUin

LEMMA InformedUinServes ==
  ASSUME Base, Onward, NEW s \in Svrs, UinServes(s), sock[s] # NoCon => UinInformed(sock[s]),
         sock'[s] = sock[s], Link(s)' = Link(s)
  PROVE  UinServes(s)'
<1> SUFFICES ASSUME InService(s)', NEW c \in Cids
             PROVE  /\ UinFits(Link(s).sess[c], toSvr[sock[s]], c, cli[c].uin)'
                    /\ (\A i \in DOMAIN toSvr[sock[s]] :
                          TellsUin(toSvr[sock[s]], c, i) => StageOf(cli[c]) \in InOn)'
  BY DEF UinServes
<1> DEFINE k == sock[s]
           q == toSvr[k]
           p == toSvr'[k]
           held == Link(s).sess[c]
<1>1. /\ k \in Conns /\ k # NoCon /\ inner'[k].con = "open" /\ inner'[k].svrId # 0
      /\ q \in Seq(ToSvrMsg) /\ Linked(s)
  BY DEF InService, Base, LinkInv, CInv, ChanInv
<1>2. SameIds(k) /\ \E n \in Seq(ToSvrMsg) :
                      /\ Delivers(k, n)
                      /\ inner[k].svrId # 0 /\ inner'[k].con = "open"
                           => \A d \in Cids : TellsItsUin(n, d)
  BY <1>1 DEF UinInformed
<1>3. PICK n \in Seq(ToSvrMsg) : Delivers(k, n) /\ TellsItsUin(n, c)
  BY <1>1, <1>2 DEF SameIds
<1>4. inner[k].con = "open" /\ inner[k].svrId # 0 /\ Behind(p, q, n)
  BY <1>1, <1>2, <1>3 DEF Delivers, Behind, SameIds
<1>5. /\ UinFits(held, q, c, cli[c].uin)
      /\ \A i \in DOMAIN q : TellsUin(q, c, i) => StageOf(cli[c]) \in InOn
  BY <1>1, <1>4 DEF InService, UinServes
<1>6. held # AD!NoSession => StageOf(cli[c]) \in InOn
  BY <1>1 DEF Base, HeldInv
<1> HIDE DEF q, p, held
<1>7. UinFits(held, p, c, cli'[c].uin)
  BY <1>1, <1>3, <1>4, <1>5, <1>6, UinBehind DEF TellsItsUin, q
<1>8. ASSUME NEW i \in DOMAIN p, TellsUin(p, c, i)
      PROVE  StageOf(cli'[c]) \in InOn
  <2>1. CASE i \in DOMAIN q /\ p[i] = q[i]
    <3>1. TellsUin(q, c, i)
      BY <1>8, <2>1 DEF TellsUin
    <3> QED
      BY <1>5, <2>1, <3>1 DEF Onward
  <2>2. CASE \E j \in DOMAIN n : p[i] = n[j]
    <3>1. PICK j \in DOMAIN n : TellsUin(n, c, j)
      BY <1>8, <2>2 DEF TellsUin
    <3> QED
      BY <1>3, <3>1 DEF TellsItsUin
  <2> QED
    BY <1>4, <2>1, <2>2 DEF Behind
<1>9. /\ UinFits(held', p, c, cli'[c].uin)
      /\ \A i \in DOMAIN p : TellsUin(p, c, i) => StageOf(cli'[c]) \in InOn
      /\ toSvr'[sock'[s]] = p
  BY <1>7, <1>8 DEF held, p, k
<1> QED
  BY <1>9 DEF UinFits, FreshUin, LastUin, TellsUin, held

LEMMA SameUinServes ==
  ASSUME NEW s \in Svrs, UinServes(s), UNCHANGED cli,
         InService(s)' => /\ sock'[s] = sock[s] /\ Link(s)' = Link(s)
                          /\ inner'[sock[s]] = inner[sock[s]] /\ toSvr'[sock[s]] = toSvr[sock[s]]
  PROVE  UinServes(s)'
<1> SUFFICES ASSUME InService(s)', NEW c \in Cids
             PROVE  /\ UinFits(Link(s).sess[c], toSvr[sock[s]], c, cli[c].uin)'
                    /\ (\A i \in DOMAIN toSvr[sock[s]] :
                          TellsUin(toSvr[sock[s]], c, i) => StageOf(cli[c]) \in InOn)'
  BY DEF UinServes
<1>1. /\ UinFits(Link(s).sess[c], toSvr[sock[s]], c, cli[c].uin)
      /\ \A i \in DOMAIN toSvr[sock[s]] : TellsUin(toSvr[sock[s]], c, i) => StageOf(cli[c]) \in InOn
  BY DEF UinServes, InService
<1> QED
  BY <1>1 DEF UinFits, FreshUin, LastUin, TellsUin

------------------------------------------------------------------------------
(* What acc tells of uins. *)

LEMMA QuietUin ==
  ASSUME NEW asker, Quiet(asker), NoNewUin, NEW k \in Conns
  PROVE  UinInformed(k)
<1>1. PICK n \in Seq(ToSvrMsg) :
        /\ Delivers(k, n)
        /\ \A j \in DOMAIN n : n[j].cmd \notin Notices /\ (k = asker \/ ~Silent(k))
  BY DEF Quiet
<1>2. \A c \in Cids : TellsItsUin(n, c)
  BY <1>1 DEF TellsItsUin, TellsUin, Notices, NoNewUin
<1> QED
  BY <1>1, <1>2 DEF UinInformed, Quiet

LEMMA DestroyClientUin ==
  ASSUME IInv, CInv, NEW c \in Cids, DestroyClient(c), NoNewUin, NEW k \in Conns
  PROVE  UinInformed(k)
<1> DEFINE m == [cmd |-> "NTF_DISCON", cid |-> c]
<1>1. CASE cli[c].state = "VERIFYED"
  <2> DEFINE msgs == ToEach(Registered, m)
  <2>1. Send(inner, msgs)
    BY <1>1, SendToEach DEF DestroyClient
  <2>2. m \in ToSvrMsg /\ m.cmd = "NTF_DISCON"
    BY DEF ToSvrMsg
  <2> HIDE DEF m
  <2>3. /\ msgs \in [Conns -> Seq(ToSvrMsg)]
        /\ \A i \in DOMAIN msgs[k] : msgs[k][i] = m
    BY <2>2, ToEachIs
  <2> HIDE DEF msgs
  <2>4. Delivers(k, msgs[k]) /\ SameIds(k)
    BY <2>1, <2>3, SendDelivers DEF SameIds, IInv, InnerTypeOK, CInv, ChanInv
  <2>5. \A d \in Cids : TellsItsUin(msgs[k], d)
    BY <2>2, <2>3 DEF TellsItsUin, TellsUin, NoNewUin
  <2> QED
    BY <2>3, <2>4, <2>5 DEF UinInformed
<1>2. CASE cli[c].state # "VERIFYED"
  BY <1>2, SameInner, QuietUin DEF DestroyClient
<1> QED
  BY <1>1, <1>2

LEMMA ClientSideUinInforms ==
  ASSUME IInv, CInv, IInv', NEW c \in Cids, RecvPacket(c) \/ ReadDone \/ ClientEvent(c),
         NEW k \in Conns
  PROVE  UinInformed(k)
<1>1. NoNewUin
  BY ClientSideUin
<1>2. CASE DestroyClient(c)
  BY <1>1, <1>2, DestroyClientUin
<1>3. CASE RecvPacket(c) \/ ReadDone \/ (ClientEvent(c) /\ ~DestroyClient(c))
  BY <1>1, <1>3, ClientSideQuiet, QuietUin
<1> QED
  BY <1>2, <1>3

(* A session begins: its client has no uin yet. *)
LEMMA VerifyRetUin ==
  ASSUME IInv, CInv, IInv', UinsIn, NEW k \in Conns, NEW r \in RequestType,
         r.cmd = "REQ_VERIFY_RET", AnswerFits(r), OnRecv(k, r), NEW j \in Conns
  PROVE  UinInformed(j)
<1> DEFINE c    == r.cid
           told == SendToClient(cli[c], 1)
           e    == SetVerify(told)
           m    == CreateSession(c, r.uin, r.accName)
<1>1. NoNewUin
  BY RequestUin
<1>2. CASE UNCHANGED <<inner, toSvr>>
  BY <1>1, <1>2, SameInner, QuietUin
<1>3. CASE /\ c \in FoundClients /\ r.isSuccess /\ cli[c].state # "VERIFYED"
           /\ cli' = [cli EXCEPT ![c] = e]
           /\ SendAll(RegisteredInner, m)
  <2>1. /\ c \in Cids /\ cli[c] \in GoodClient /\ cli[c] \in ClientType
        /\ StageOf(cli[c]) # "gone" /\ Alive(cli[c])
    BY <1>3, FoundStage, GoodIsClient DEF FoundClients, Found, Alive
  <2>2. told \in GoodClient /\ Same(cli[c], told) /\ told.state = cli[c].state
    BY <2>1, SendToClientGood, SendToClientSame
  <2>3. cli[c].state = "WAIT_VERIFY"
    BY <1>3, <2>1, AliveStage DEF AnswerFits, ClientType, ClientStates
  <2>4. cli'[c].state = "VERIFYED" /\ Alive(cli'[c])
    <3> HIDE DEF told
    <3>1. e.state = "VERIFYED" /\ e.con = told.con
      BY <2>2, <2>3 DEF SetVerify, GoodClient, ClientType
    <3> HIDE DEF e
    <3>2. cli'[c] = e
      BY <1>3, <2>1 DEF IInv
    <3> QED
      BY <2>1, <2>2, <3>1, <3>2 DEF Same, ConKept, Alive
  <2>5. StageOf(cli'[c]) = "in"
    BY <2>1, <2>4, StageIn, GoodIsClient DEF IInv
  <2>6. StageOf(cli[c]) \notin InOn
    BY <2>1, <2>3, StageIn DEF InOn
  <2>7. cli'[c].uin = 0
    BY <1>1, <2>1, <2>6 DEF UinsIn, NoNewUin
  <2>8. m \in ToSvrMsg /\ m.cmd = "NTF_CREATE_SESSION" /\ m.cid = c
    <3>1. r.uin \in Uins \cup {0} /\ r.accName \in Names
      BY DEF RequestType
    <3> QED
      BY <2>1, <3>1 DEF CreateSession, ToSvrMsg
  <2> DEFINE msgs == ToEach(RegisteredInner, m)
  <2>9. Send(inner, msgs)
    BY <1>3, SendToEach
  <2> HIDE DEF m, e, told
  <2>10. /\ msgs \in [Conns -> Seq(ToSvrMsg)]
         /\ \A i \in DOMAIN msgs[j] : i = 1 /\ msgs[j][i] = m
         /\ j \in RegisteredInner => 1 \in DOMAIN msgs[j]
    BY <2>8, ToEachIs
  <2> HIDE DEF msgs
  <2>11. Delivers(j, msgs[j]) /\ SameIds(j)
    BY <2>9, <2>10, SendDelivers DEF SameIds, IInv, InnerTypeOK, CInv, ChanInv
  <2>12. ASSUME inner[j].svrId # 0, inner'[j].con = "open", NEW d \in Cids
         PROVE  TellsItsUin(msgs[j], d)
    <3>1. j \in RegisteredInner
      BY <2>11, <2>12 DEF Delivers, RegisteredInner, FoundInner, Found
    <3>2. DOMAIN msgs[j] = {1} /\ msgs[j][1] = m
      BY <2>10, <3>1
    <3>3. CASE d = c
      BY <2>5, <2>6, <2>7, <2>8, <3>2, <3>3 DEF TellsItsUin, TellsUin, InOn
    <3>4. CASE d # c
      BY <1>1, <2>8, <3>2, <3>4 DEF TellsItsUin, TellsUin, NoNewUin
    <3> QED
      BY <3>3, <3>4
  <2> QED
    BY <2>10, <2>11, <2>12 DEF UinInformed
<1> QED
  BY <1>2, <1>3 DEF OnRecv, Parse_CMD_REQ_VERIFY_RET, AnswerFits, Ignored, ClientOnly

(* A uin is set, and told to all but the one that asked. *)
LEMMA BroadcastUinInformed ==
  ASSUME IInv, CInv, Onward, NEW k \in Conns, NEW r \in RequestType,
         r.cmd = "REQ_BROADCAST_UIN", OnRecv(k, r), r.cid \in Cids => StageOf(cli[r.cid]) \in InOn,
         NEW j \in Conns \ {k}
  PROVE  UinInformed(j)
<1>1. CASE Ignored
  <2>1. NoNewUin
    BY <1>1 DEF Ignored, NoNewUin
  <2> QED
    BY <1>1, <2>1, SameInner, QuietUin DEF Ignored, ClientOnly
<1>2. CASE r.cid \in FoundClients
  <2> DEFINE m == UinMsg(r)
  <2>1. Parse_CMD_REQ_BROADCAST_UIN(k, r)
    BY DEF OnRecv
  <2>2. PICK n \in Seq(ToSvrMsg) :
          /\ Delivers(j, n)
          /\ \A i \in DOMAIN n : i = 1 /\ n[i] = UinMsg(r)
          /\ inner[j].svrId = 0 => DOMAIN n = {}
          /\ inner[j].svrId # 0 /\ inner'[j].con = "open" /\ j # k => 1 \in DOMAIN n
    <3>1. \A i \in Conns :
            /\ SameIds(i)
            /\ \E n \in Seq(ToSvrMsg) :
                 /\ Delivers(i, n)
                 /\ \A h \in DOMAIN n : h = 1 /\ n[h] = UinMsg(r)
                 /\ inner[i].svrId = 0 => DOMAIN n = {}
                 /\ inner[i].svrId # 0 /\ inner'[i].con = "open" /\ i # k => 1 \in DOMAIN n
      BY <1>2, <2>1, BroadcastUinTells
    <3>2. j \in Conns
      OBVIOUS
    <3> QED
      BY <3>1, <3>2
  <2>3. /\ SameIds(j) /\ r.cid \in Cids /\ cli' = [cli EXCEPT ![r.cid].uin = r.uin]
    BY <1>2, <2>1, BroadcastUinTells
  <2>4. cli'[r.cid].uin = r.uin /\ \A d \in Cids : d # r.cid => cli'[d] = cli[d]
    <3>1. cli[r.cid] \in ClientType
      BY <2>3, GoodIsClient DEF IInv
    <3> QED
      BY <2>3, <3>1 DEF IInv, ClientType
  <2>5. m.cmd = "RSP_BROADCAST_UIN" /\ m.cid = r.cid /\ m.uin = r.uin
    BY DEF UinMsg
  <2> HIDE DEF m
  <2>6. ASSUME inner[j].svrId # 0, inner'[j].con = "open", NEW d \in Cids
        PROVE  TellsItsUin(n, d)
    <3>1. DOMAIN n = {1} /\ n[1] = m
      BY <2>2, <2>6 DEF m
    <3>2. CASE d = r.cid
      BY <2>3, <2>4, <2>5, <3>1, <3>2 DEF TellsItsUin, TellsUin, Onward
    <3>3. CASE d # r.cid
      BY <2>4, <2>5, <3>1, <3>3 DEF TellsItsUin, TellsUin
    <3> QED
      BY <3>2, <3>3
  <2> QED
    BY <2>2, <2>3, <2>6 DEF UinInformed
<1> QED
  BY <1>1, <1>2 DEF OnRecv, Parse_CMD_REQ_BROADCAST_UIN

------------------------------------------------------------------------------
(* Steps of acc, and uins. *)

LEMMA UinsInKept ==
  ASSUME UinsIn, Onward, NoNewUin
  PROVE  UinsIn'
BY DEF UinsIn, Onward, NoNewUin

LEMMA SetsNoneKept ==
  ASSUME Base, NEW s \in Svrs, SetsNoUin(s), NEW k, Took(k), sock'[s] = sock[s]
  PROVE  SetsNoUin(s)'
<1> SUFFICES ASSUME sock[s] # NoCon, NEW i \in DOMAIN toAcc'[sock[s]]
             PROVE  toAcc'[sock[s]][i].cmd # "REQ_BROADCAST_UIN"
  BY DEF SetsNoUin
<1>1. sock[s] \in Conns
  BY DEF Base, LinkInv
<1>2. PICK h \in DOMAIN toAcc[sock[s]] : toAcc'[sock[s]][i] = toAcc[sock[s]][h]
  BY <1>1, TookIs DEF Base, SentInv
<1> QED
  BY <1>2 DEF SetsNoUin

LEMMA AccUin ==
  ASSUME Base, Onward, UinInv, UinsIn', NEW k, Took(k), UNCHANGED <<drv, sock>>,
         \A s \in Svrs \ UinSvrs : sock[s] # NoCon => UinInformed(sock[s])
  PROVE  UinInv'
<1>1. ASSUME NEW s \in Svrs \ UinSvrs
      PROVE  SetsNoUin(s)' /\ UinServes(s)'
  <2>1. SetsNoUin(s) /\ UinServes(s)
    BY DEF UinInv
  <2> QED
    BY <2>1, SetsNoneKept, InformedUinServes DEF Link
<1> QED
  BY <1>1 DEF UinInv

LEMMA FirstAnswerUin ==
  ASSUME Base, NEW s \in Svrs, NEW k \in Conns, sock[s] = k, NEW r \in RequestType,
         r.cmd = "REQ_REG", r = toAcc[k][1], OnRecv(k, r), FirstThing(k, 1),
         UNCHANGED <<drv, sock>>
  PROVE  UinServes(s)'
<1> SUFFICES ASSUME InService(s)', NEW c \in Cids
             PROVE  /\ UinFits(Link(s).sess[c], toSvr[sock[s]], c, cli[c].uin)'
                    /\ (\A i \in DOMAIN toSvr[sock[s]] :
                          TellsUin(toSvr[sock[s]], c, i) => StageOf(cli[c]) \in InOn)'
  BY DEF UinServes
<1> DEFINE p == toSvr'[k]
<1>1. /\ inner'[k].con = "open" /\ inner'[k].svrId # 0
      /\ Link(s)' = Link(s) /\ sock'[s] = k
  BY DEF InService, Link
<1>2. /\ UNCHANGED cli /\ Link(s).sess = AD!NoSessions
      /\ p[1].cmd = "RSP_REG"
      /\ \A i \in DOMAIN p \ {1} :
           p[i].cid \in VerifiedClients /\ p[i].uin = cli[p[i].cid].uin
  BY <1>1, FirstAnswerIs
<1> HIDE DEF p
<1>3. Link(s)'.sess[c] = AD!NoSession
  BY <1>1, <1>2 DEF AD!NoSessions
<1>4. \A i \in DOMAIN p : TellsUin(p, c, i) => c \in VerifiedClients /\ p[i].uin = cli[c].uin
  BY <1>2 DEF TellsUin
<1>5. UinFits(AD!NoSession, p, c, cli[c].uin)
  BY <1>4, UinToldFits
<1>6. \A i \in DOMAIN p : TellsUin(p, c, i) => StageOf(cli[c]) \in InOn
  BY <1>4, InAreVerified DEF InOn
<1>7. toSvr'[sock'[s]] = p
  BY <1>1 DEF p
<1> QED
  BY <1>2, <1>3, <1>5, <1>6, <1>7 DEF UinFits, FreshUin, LastUin, TellsUin

(* A registration tells nothing to others. *)
LEMMA RegUin ==
  ASSUME Base, Onward, UinInv, NEW k \in Conns, NEW r \in RequestType, r.cmd = "REQ_REG",
         r = toAcc[k][1], OnRecv(k, r), FirstThing(k, 1), Took(k), UNCHANGED <<drv, sock>>
  PROVE  UinInv'
<1>1. UNCHANGED cli /\ UinsIn'
  BY RegTells DEF Base, UinInv, UinsIn
<1>2. ASSUME NEW s \in Svrs \ UinSvrs
      PROVE  SetsNoUin(s)' /\ UinServes(s)'
  <2>1. SetsNoUin(s)'
    BY SetsNoneKept DEF UinInv
  <2>2. CASE sock[s] = k
    BY <2>1, <2>2, FirstAnswerUin
  <2>3. CASE sock[s] # k
    <3> DEFINE j == sock[s]
    <3>1. ASSUME j # NoCon
          PROVE  UinInformed(j)
      <4>1. j \in Conns \ {k}
        BY <2>3, <3>1 DEF Base, LinkInv
      <4> HIDE DEF j
      <4>2. SameIds(j) /\ \E n \in Seq(ToSvrMsg) : Delivers(j, n) /\ DOMAIN n = {}
        BY <4>1, RegTells DEF Base
      <4>3. PICK n \in Seq(ToSvrMsg) : Delivers(j, n) /\ DOMAIN n = {}
        BY <4>2
      <4>4. \A c \in Cids : TellsItsUin(n, c)
        BY <1>1, <4>3 DEF TellsItsUin
      <4> QED
        BY <4>2, <4>3, <4>4 DEF UinInformed
    <3> QED
      BY <2>1, <3>1, InformedUinServes DEF UinInv, Link
  <2> QED
    BY <2>2, <2>3
<1> QED
  BY <1>1, <1>2 DEF UinInv

LEMMA RequestUinForth ==
  ASSUME Base, UinInv, "ann" \notin LongNames, NEW k \in Conns, Idle, AccRecv(k)
  PROVE  UinInv'
<1> DEFINE r == Head(toAcc[k])
<1>1. /\ Took(k) /\ UNCHANGED <<drv, sock>>
      /\ Claims(r, cli, answered)
      /\ r.cmd = "REQ_REG" => FirstThing(k, 1) /\ r = toAcc[k][1]
  BY AccRecvIs
<1>2. \/ UNCHANGED accVars
      \/ r \in RequestType /\ OnRecv(k, r)
  BY AccRecvIs
<1>3. \A s \in Svrs \ UinSvrs : sock[s] = k => r.cmd # "REQ_BROADCAST_UIN"
  <2>1. toAcc[k] # <<>>
    BY DEF AccRecv
  <2>2. 1 \in DOMAIN toAcc[k] /\ r = toAcc[k][1]
    BY <2>1, HeadIs DEF Base
  <2>3. k # NoCon
    BY IdFacts
  <2> QED
    BY <2>2, <2>3 DEF UinInv, SetsNoUin
<1> HIDE DEF r
<1>4. IInv' /\ Onward
  <2>1. [AccStep]_accVars
    BY <1>2 DEF AccStep
  <2> QED
    BY <2>1, AccForth DEF Base
<1>5. \A s \in Svrs : sock[s] # NoCon => sock[s] \in Conns
  BY DEF Base, LinkInv
<1>6. ASSUME Quiet(k), NoNewUin
      PROVE  UinInv'
  <2>1. \A j \in Conns : UinInformed(j)
    BY <1>6, QuietUin
  <2> QED
    BY <1>1, <1>4, <1>5, <1>6, <2>1, UinsInKept, AccUin DEF UinInv
<1>7. CASE UNCHANGED accVars
  <2>1. UNCHANGED <<cli, inner, toSvr>>
    BY <1>7 DEF accVars
  <2> QED
    BY <1>6, <2>1, SameInner DEF NoNewUin, Base
<1>8. CASE r \in RequestType /\ OnRecv(k, r) /\ r.cmd = "REQ_REG"
  BY <1>1, <1>4, <1>8, RegUin
<1>9. CASE r \in RequestType /\ OnRecv(k, r) /\ r.cmd = "REQ_VERIFY_RET"
  <2>1. AnswerFits(r)
    BY <1>1 DEF Claims, AnswerFits, AskedOn
  <2>2. \A j \in Conns : UinInformed(j)
    BY <1>4, <1>9, <2>1, VerifyRetUin DEF Base, UinInv
  <2>3. UinsIn'
    BY <1>4, <1>9, RequestUin, UinsInKept DEF Base, UinInv
  <2> QED
    BY <1>1, <1>4, <1>5, <2>2, <2>3, AccUin
<1>10. CASE r \in RequestType /\ OnRecv(k, r) /\ r.cmd = "REQ_BROADCAST_UIN"
  <2>1. r.cid \in Cids /\ StageOf(cli[r.cid]) \in InOn
    BY <1>1, <1>10 DEF Claims, SessionCalls
  <2>2. \A j \in Conns \ {k} : UinInformed(j)
    BY <1>4, <1>10, <2>1, BroadcastUinInformed DEF Base
  <2>3. \A c \in Cids \ {r.cid} : cli'[c] = cli[c]
    BY <1>10 DEF OnRecv, Parse_CMD_REQ_BROADCAST_UIN, Ignored, Base, IInv
  <2>4. UinsIn'
    BY <1>4, <2>1, <2>3 DEF UinsIn, UinInv, Onward
  <2> QED
    BY <1>1, <1>3, <1>4, <1>5, <1>10, <2>2, <2>4, AccUin
<1>11. CASE /\ r \in RequestType /\ OnRecv(k, r)
            /\ r.cmd \notin {"REQ_REG", "REQ_VERIFY_RET", "REQ_BROADCAST_UIN"}
  BY <1>6, <1>11, OnRecvQuiet, RequestUin DEF Base
<1> QED
  BY <1>2, <1>7, <1>8, <1>9, <1>10, <1>11

LEMMA AccSideUin ==
  ASSUME Base, UinInv, ClientSide \/ \E k \in Conns : Idle /\ (AccNotices(k) \/ AccBreak(k))
  PROVE  UinInv'
<1>1. \A s \in Svrs : sock[s] # NoCon => sock[s] \in Conns
  BY DEF Base, LinkInv
<1>2. CASE ClientSide
  <2>1. PICK d \in Cids : RecvPacket(d) \/ ReadDone \/ ClientEvent(d)
    BY <1>2, ClientSideIs DEF Base
  <2>2. IInv' /\ Onward
    BY <1>2, ClientSideIs, AccForth DEF Base
  <2>3. NoNewUin /\ \A j \in Conns : UinInformed(j)
    BY <2>1, <2>2, ClientSideUin, ClientSideUinInforms DEF Base
  <2>4. Took(NoCon) /\ UNCHANGED <<drv, sock>>
    BY <1>2 DEF ClientSide, Aside, Took
  <2> QED
    BY <1>1, <2>2, <2>3, <2>4, UinsInKept, AccUin DEF UinInv
<1>3. ASSUME NEW k \in Conns, Idle, AccNotices(k) \/ AccBreak(k)
      PROVE  UinInv'
  <2>1. SvrBreak(k) /\ UNCHANGED <<drv, sock, toAcc>>
    BY <1>3 DEF AccNotices, AccBreak
  <2>2. Onward
    BY <1>3, <2>1, AccForth DEF Base, AccStep
  <2>3. NoNewUin
    BY <2>1 DEF SvrBreak, NoNewUin
  <2>4. \A j \in Conns : UinInformed(j)
    BY <2>1, <2>3, SvrBreakQuiet, QuietUin DEF Base
  <2> QED
    BY <1>1, <2>1, <2>2, <2>3, <2>4, UinsInKept, AccUin DEF UinInv, Took
<1> QED
  BY <1>2, <1>3
------------------------------------------------------------------------------
(* Connections, drivers and calls, and uins. *)

(* Clients stay, and what lies between acc and the other servers. *)
LEMMA OtherUin ==
  ASSUME UinInv, UNCHANGED cli,
         \A s \in Svrs \ UinSvrs : SetsNoUin(s)' /\ UinServes(s)'
  PROVE  UinInv'
BY DEF UinInv, UinsIn

LEMMA DestroyUin ==
  ASSUME Base, UinInv, NEW k \in Conns, Destroy(k)
  PROVE  UinInv'
<1>1. /\ UNCHANGED <<cli, drv>> /\ sock' \in [Svrs -> Conns \cup {NoCon}]
      /\ \A s \in Svrs : sock'[s] # k /\ (sock'[s] # NoCon => sock'[s] = sock[s])
      /\ \A j \in Conns \ {k} :
           inner'[j] = inner[j] /\ toSvr'[j] = toSvr[j] /\ toAcc'[j] = toAcc[j]
  BY DestroyIs
<1>2. ASSUME NEW s \in Svrs \ UinSvrs
      PROVE  SetsNoUin(s)' /\ UinServes(s)'
  <2>1. sock'[s] # NoCon => sock'[s] = sock[s] /\ sock[s] \in Conns \ {k}
    BY <1>1
  <2>2. SetsNoUin(s)'
    BY <1>1, <2>1 DEF UinInv, SetsNoUin
  <2>3. InService(s)' => sock'[s] = sock[s] /\ sock[s] \in Conns \ {k}
    BY <2>1 DEF InService
  <2> QED
    BY <1>1, <2>2, <2>3, SameUinServes DEF UinInv, Link
<1> QED
  BY <1>1, <1>2, OtherUin

LEMMA ConnectUin ==
  ASSUME Base, UinInv, NEW s \in Svrs, NEW k \in Conns, Connect(s, k)
  PROVE  UinInv'
<1> DEFINE g == AD!Greeting(drv[s])
           e == AD!OnConnected(drv[s], 1)
<1>1. /\ UNCHANGED cli /\ \A u \in Svrs : sock[u] # k
      /\ sock' = [sock EXCEPT ![s] = k]
      /\ drv' = [drv EXCEPT ![s] = e]
      /\ inner' = [inner EXCEPT ![k] = [NewInner EXCEPT !.con = "open"]]
      /\ toSvr' = [toSvr EXCEPT ![k] = <<>>]
      /\ toAcc' = [toAcc EXCEPT ![k] = g]
      /\ Linked(s) /\ Link(s).con = "idle"
  BY DEF Connect, SvrConnect
<1>2. /\ g \in Seq(SentType)
      /\ \A i \in DOMAIN g : g[i].cmd # "REQ_BROADCAST_UIN"
  BY <1>1, IdleLink, GreetingIs DEF Base
<1> HIDE DEF g, e
<1>3. /\ sock'[s] = k /\ \A t \in Svrs \ {s} : sock'[t] = sock[t] /\ drv'[t] = drv[t]
      /\ toAcc'[k] = g /\ \A j \in Conns \ {k} : toAcc'[j] = toAcc[j]
  BY <1>1 DEF Base, LinkInv, SentInv
<1>4. inner'[k].svrId = 0 /\ \A j \in Conns \ {k} : inner'[j] = inner[j] /\ toSvr'[j] = toSvr[j]
  <2> DEFINE z == <<>>
             o == [NewInner EXCEPT !.con = "open"]
  <2>1. o.svrId = 0
    BY DEF NewInner
  <2>2. toSvr' = [toSvr EXCEPT ![k] = z] /\ inner' = [inner EXCEPT ![k] = o]
    BY <1>1
  <2> HIDE DEF z, o
  <2> QED
    BY <2>1, <2>2 DEF Base, CInv, ChanInv, IInv, InnerTypeOK
<1>5. ASSUME NEW t \in Svrs \ UinSvrs
      PROVE  SetsNoUin(t)' /\ UinServes(t)'
  <2>1. CASE t = s
    BY <1>2, <1>3, <1>4, <2>1 DEF SetsNoUin, UinServes, InService
  <2>2. CASE t # s
    <3>1. sock[t] # NoCon => sock[t] \in Conns \ {k}
      BY <1>1 DEF Base, LinkInv
    <3>2. SetsNoUin(t)'
      BY <1>3, <2>2, <3>1 DEF UinInv, SetsNoUin
    <3>3. InService(t)' => sock[t] # NoCon
      BY <1>3, <2>2 DEF InService
    <3> QED
      BY <1>1, <1>3, <1>4, <2>2, <3>1, <3>2, <3>3, SameUinServes DEF UinInv, Link
  <2> QED
    BY <2>1, <2>2
<1> QED
  BY <1>1, <1>5, OtherUin

LEMMA LinkLostUin ==
  ASSUME Base, UinInv, NEW s \in Svrs, LinkLost(s)
  PROVE  UinInv'
<1>1. /\ UNCHANGED <<cli, inner, toSvr, toAcc>>
      /\ sock'[s] = NoCon /\ \A t \in Svrs \ {s} : sock'[t] = sock[t] /\ drv'[t] = drv[t]
  BY DEF LinkLost, accVars, Base, LinkInv
<1>2. ASSUME NEW t \in Svrs \ UinSvrs
      PROVE  SetsNoUin(t)' /\ UinServes(t)'
  <2>1. CASE t = s
    BY <1>1, <2>1 DEF SetsNoUin, UinServes, InService
  <2>2. CASE t # s
    BY <1>1, <2>2, SameUinServes DEF UinInv, SetsNoUin, Link
  <2> QED
    BY <2>1, <2>2
<1> QED
  BY <1>1, <1>2, OtherUin

LEMMA SetSessionAt ==
  ASSUME NEW d \in DriverType, d.vec # <<>>, NEW x \in Cids,
         NEW u \in Uins \cup {0, AD!NoSession}, NEW c \in Cids
  PROVE  AD!SetSession(d, 1, x, u).vec[1].sess[c] = IF x = c THEN u ELSE d.vec[1].sess[c]
<1>1. AD!SetSession(d, 1, x, u).vec[1].sess = [d.vec[1].sess EXCEPT ![x] = u]
  BY SetSessionIs
<1>2. d.vec[1].sess \in [Cids -> Uins \cup {0, AD!NoSession}]
  BY DriverLink DEF AD!LinkType
<1> QED
  BY <1>1, <1>2

(* The uin a registered link has of a client after message m. *)
LEMMA OnRecvUin ==
  ASSUME NEW d \in DriverType, d.vec # <<>>, d.vec[1].isReg, NEW m \in ToSvrMsg, NEW c \in Cids
  PROVE  LET old == d.vec[1].sess[c]
             new == AD!OnRecv(d, 1, m).vec[1].sess[c]
         IN  IF m.cmd \in {"NTF_CREATE_SESSION", "RSP_BROADCAST_UIN"} /\ m.cid = c
             THEN \/ new \in {m.uin, AD!NoSession}
                  \/ m.cmd = "NTF_CREATE_SESSION" /\ old # AD!NoSession /\ new = old
             ELSE new \in {old, AD!NoSession}
<1> DEFINE old   == d.vec[1].sess[c]
           tells == m.cmd \in {"NTF_CREATE_SESSION", "RSP_BROADCAST_UIN"} /\ m.cid = c
           Is(e) == LET new == e.vec[1].sess[c]
                    IN  IF tells
                        THEN \/ new \in {m.uin, AD!NoSession}
                             \/ m.cmd = "NTF_CREATE_SESSION" /\ old # AD!NoSession /\ new = old
                        ELSE new \in {old, AD!NoSession}
<1> SUFFICES Is(AD!OnRecv(d, 1, m))
  OBVIOUS
<1>1. ASSUME NEW u \in Uins \cup {0, AD!NoSession}, m.cid \in Cids,
             m.cmd \in {"NTF_CREATE_SESSION", "RSP_BROADCAST_UIN"} => u = m.uin,
             m.cmd \notin {"NTF_CREATE_SESSION", "RSP_BROADCAST_UIN"} => u = AD!NoSession
      PROVE  Is(AD!SetSession(d, 1, m.cid, u))
  <2> DEFINE e == AD!SetSession(d, 1, m.cid, u)
  <2>1. e.vec[1].sess[c] = IF m.cid = c THEN u ELSE old
    <3> HIDE DEF Is, tells
    <3> QED
      BY <1>1, SetSessionAt
  <2> HIDE DEF e, old
  <2>2. Is(e)
    BY <1>1, <2>1
  <2> QED
    BY <2>2 DEF e
<1>2. AD!HasSession(d, 1, c) <=> old # AD!NoSession
  BY DriverLink DEF AD!HasSession, AD!Usable
<1>3. CASE m.cmd = "RSP_REG"
  BY <1>3 DEF AD!OnRecv, AD!HandleRspReg
<1>4. CASE m.cmd = "NTF_CREATE_SESSION"
  <2>1. m.cid \in Cids /\ m.uin \in Uins \cup {0, AD!NoSession}
    BY <1>4, MsgFields
  <2>2. AD!OnRecv(d, 1, m) = AD!HandleCreateSession(d, 1, m)
    BY <1>4 DEF AD!OnRecv
  <2>3. CASE AD!HasSession(d, 1, m.cid)
    BY <1>2, <1>4, <2>2, <2>3 DEF AD!HandleCreateSession
  <2>4. CASE ~AD!HasSession(d, 1, m.cid)
    <3>1. AD!OnRecv(d, 1, m) = AD!SetSession(d, 1, m.cid, m.uin)
      BY <2>2, <2>4 DEF AD!HandleCreateSession
    <3> HIDE DEF Is
    <3> QED
      BY <1>1, <1>4, <2>1, <3>1
  <2> QED
    BY <2>3, <2>4
<1>5. CASE m.cmd = "NTF_DISCON"
  <2>1. m.cid \in Cids
    BY <1>5, MsgFields
  <2>2. AD!OnRecv(d, 1, m) = AD!SetSession(d, 1, m.cid, AD!NoSession)
    BY <1>5 DEF AD!OnRecv, AD!HandleMsgNtfDiscon
  <2> HIDE DEF Is
  <2> QED
    BY <1>1, <1>5, <2>1, <2>2
<1>6. CASE m.cmd = "RSP_BROADCAST_UIN"
  <2>1. m.cid \in Cids /\ m.uin \in Uins \cup {0, AD!NoSession}
    BY <1>6, MsgFields
  <2>2. AD!OnRecv(d, 1, m) = AD!HandleMsgBroadcastUin(d, 1, m)
    BY <1>6 DEF AD!OnRecv
  <2>3. CASE AD!HasSession(d, 1, m.cid)
    <3>1. AD!OnRecv(d, 1, m) = AD!SetSession(d, 1, m.cid, m.uin)
      BY <2>2, <2>3 DEF AD!HandleMsgBroadcastUin
    <3> HIDE DEF Is
    <3> QED
      BY <1>1, <1>6, <2>1, <3>1
  <2>4. CASE ~AD!HasSession(d, 1, m.cid)
    <3>1. AD!OnRecv(d, 1, m) = d
      BY <2>2, <2>4 DEF AD!HandleMsgBroadcastUin
    <3> QED
      BY <1>2, <2>4, <3>1
  <2> QED
    BY <2>3, <2>4
<1>7. CASE m.cmd \notin {"RSP_REG", "NTF_CREATE_SESSION", "NTF_DISCON", "RSP_BROADCAST_UIN"}
  <2>1. AD!OnRecv(d, 1, m) = d
    BY <1>7 DEF AD!OnRecv
  <2> QED
    BY <1>7, <2>1
<1> QED
  BY <1>3, <1>4, <1>5, <1>6, <1>7

LEMMA DriverRecvUin ==
  ASSUME Base, ServeInv, UinInv, NEW s \in Svrs, DriverRecv(s)
  PROVE  UinInv'
<1> DEFINE k == sock[s]
           q == toSvr[k]
           e == Made(s)
<1>1. /\ k \in Conns /\ q # <<>> /\ 1 \in DOMAIN q /\ q \in Seq(ToSvrMsg)
      /\ Taken(s) = q[1] /\ q[1] \in ToSvrMsg /\ UNCHANGED <<cli, inner, toAcc>>
      /\ drv[s] \in DriverType /\ drv[s].vec # <<>>
      /\ drv' = [drv EXCEPT ![s] = e]
      /\ sock' = [sock EXCEPT ![s] = IF e.fatal THEN NoCon ELSE k]
      /\ toSvr' = [toSvr EXCEPT ![k] = Tail(q)]
  BY DriverRecvIs
<1>2. /\ ~e.fatal => e.vec # <<>>
      /\ e.vec # <<>> /\ ~Link(s).isReg => e.vec[1].sess = Link(s).sess
  BY <1>1, MadeIs
<1>3. e = AD!OnRecv(drv[s], 1, q[1])
  BY <1>1 DEF Made
<1> HIDE DEF e
<1>4. /\ drv'[s] = e /\ sock'[s] = IF e.fatal THEN NoCon ELSE k
      /\ \A t \in Svrs \ {s} : drv'[t] = drv[t] /\ sock'[t] = sock[t]
  BY <1>1 DEF Base, LinkInv
<1>5. toSvr'[k] = Tail(q) /\ \A j \in Conns \ {k} : toSvr'[j] = toSvr[j]
  BY <1>1 DEF Base, CInv, ChanInv
<1>6. ASSUME NEW t \in Svrs \ UinSvrs
      PROVE  SetsNoUin(t)'
  <2>1. sock'[t] # NoCon => sock'[t] = sock[t]
    <3>1. CASE t = s
      BY <1>4, <3>1
    <3>2. CASE t # s
      BY <1>4, <1>6, <3>2
    <3> QED
      BY <3>1, <3>2
  <2>2. UNCHANGED toAcc
    BY <1>1
  <2> QED
    BY <1>6, <2>1, <2>2 DEF UinInv, SetsNoUin
<1>7. ASSUME NEW t \in Svrs \ UinSvrs, t # s
      PROVE  UinServes(t)'
  <2>1. sock[t] # NoCon => sock[t] \in Conns \ {k}
    BY <1>1, <1>7, IdFacts DEF Base, LinkInv
  <2>2. InService(t)' => sock[t] # NoCon
    BY <1>4, <1>7 DEF InService
  <2> QED
    BY <1>1, <1>4, <1>5, <1>7, <2>1, <2>2, SameUinServes DEF UinInv, Link
<1>8. ASSUME s \notin UinSvrs, InService(s)', NEW c \in Cids
      PROVE  /\ UinFits(Link(s).sess[c], toSvr[sock[s]], c, cli[c].uin)'
             /\ (\A i \in DOMAIN toSvr[sock[s]] :
                   TellsUin(toSvr[sock[s]], c, i) => StageOf(cli[c]) \in InOn)'
  <2> DEFINE p    == Tail(q)
             held == Link(s).sess[c]
             new  == e.vec[1].sess[c]
             u    == cli[c].uin
  <2>1. sock'[s] = k /\ ~e.fatal /\ InService(s)
    BY <1>1, <1>4, <1>8 DEF InService
  <2>2. /\ UinFits(held, q, c, u)
        /\ \A i \in DOMAIN q : TellsUin(q, c, i) => StageOf(cli[c]) \in InOn
    BY <1>8, <2>1 DEF UinInv, UinServes
  <2>3. /\ TellsUin(q, c, 1) => new \in {q[1].uin, AD!NoSession}
        /\ ~TellsUin(q, c, 1) => new \in {held, AD!NoSession}
    <3>1. CASE ~Link(s).isReg
      <4>1. q[1].cmd = "RSP_REG"
        BY <2>1, <3>1 DEF ServeInv, Serves, AnswerAhead
      <4>2. new = held /\ ~TellsUin(q, c, 1)
        BY <1>2, <2>1, <3>1, <4>1 DEF TellsUin
      <4> QED
        BY <4>2
    <3>2. CASE Link(s).isReg
      <4>1. IF q[1].cmd \in {"NTF_CREATE_SESSION", "RSP_BROADCAST_UIN"} /\ q[1].cid = c
            THEN \/ new \in {q[1].uin, AD!NoSession}
                 \/ q[1].cmd = "NTF_CREATE_SESSION" /\ held # AD!NoSession /\ new = held
            ELSE new \in {held, AD!NoSession}
        BY <1>1, <1>3, <3>2, OnRecvUin DEF Link
      <4>2. q[1].cmd = "NTF_CREATE_SESSION" /\ q[1].cid = c => held \in {q[1].uin, AD!NoSession}
        BY <1>1, <2>2 DEF UinFits, FreshUin
      <4> HIDE DEF new, held, q
      <4> QED
        BY <4>1, <4>2 DEF TellsUin
    <3> QED
      BY <3>1, <3>2
  <2> HIDE DEF new, held, u
  <2>4. UinFits(new, p, c, u)
    BY <1>1, <2>2, <2>3, UinTail
  <2>5. ASSUME NEW i \in DOMAIN p, TellsUin(p, c, i)
        PROVE  StageOf(cli[c]) \in InOn
    <3>1. i + 1 \in DOMAIN q /\ p[i] = q[i + 1]
      BY <1>1, TailIs
    <3> HIDE DEF p, q
    <3>2. TellsUin(q, c, i + 1)
      BY <2>5, <3>1 DEF TellsUin
    <3> QED
      BY <2>2, <3>1, <3>2
  <2>6. Link(s)'.sess[c] = new /\ toSvr'[sock'[s]] = p /\ cli'[c].uin = u /\ cli'[c] = cli[c]
    BY <1>1, <1>4, <1>5, <2>1 DEF Link, new, u
  <2> HIDE DEF p, q
  <2> QED
    BY <2>4, <2>5, <2>6 DEF UinFits, FreshUin, LastUin, TellsUin
<1>9. s \notin UinSvrs => UinServes(s)'
  BY <1>8 DEF UinServes
<1> QED
  BY <1>1, <1>6, <1>7, <1>9, OtherUin

(* A server that sets no uin sends no request that does. *)
LEMMA OneMoreSetsNone ==
  ASSUME Base, UinInv, NEW s \in Svrs, sock[s] # NoCon, NEW r,
         toAcc' = [toAcc EXCEPT ![sock[s]] = toAcc[sock[s]] \o <<r>>], UNCHANGED sock,
         s \notin UinSvrs => r.cmd # "REQ_BROADCAST_UIN", NEW t \in Svrs \ UinSvrs
  PROVE  SetsNoUin(t)'
<1> DEFINE p == <<r>>
           k == sock[s]
           q == toAcc[k]
           S == SentType \cup {r}
           g == q \o p
<1>1. k \in Conns /\ toAcc \in [Conns -> Seq(SentType)] /\ q \in Seq(SentType)
  BY DEF Base, LinkInv, SentInv
<1>2. p \in Seq(S) /\ \A h \in DOMAIN p : p[h] = r
  OBVIOUS
<1>3. q \in Seq(S)
  BY <1>1
<1>4. toAcc' = [toAcc EXCEPT ![k] = g]
  OBVIOUS
<1> HIDE DEF p, q, S
<1>5. \A i \in DOMAIN g : (i \in DOMAIN q /\ g[i] = q[i]) \/ g[i] = r
  BY <1>2, <1>3, AppendIs
<1> HIDE DEF g
<1>6. toAcc'[k] = g /\ \A j \in Conns \ {k} : toAcc'[j] = toAcc[j]
  BY <1>1, <1>4
<1>7. SetsNoUin(t)
  BY DEF UinInv
<1>8. CASE t = s
  <2>1. \A i \in DOMAIN q : q[i].cmd # "REQ_BROADCAST_UIN"
    BY <1>7, <1>8 DEF SetsNoUin, q
  <2>2. \A i \in DOMAIN g : g[i].cmd # "REQ_BROADCAST_UIN"
    BY <1>5, <1>8, <2>1
  <2> QED
    BY <1>6, <1>8, <2>2 DEF SetsNoUin
<1>9. CASE t # s
  <2>1. sock[t] # NoCon => sock[t] \in Conns \ {k}
    BY <1>9 DEF Base, LinkInv
  <2> QED
    BY <1>6, <1>7, <2>1 DEF SetsNoUin
<1> QED
  BY <1>8, <1>9

LEMMA MoreSetsNone ==
  ASSUME Base, UinInv, NEW s \in Svrs, NEW r, NEW reqs, reqs \in {<<>>, <<r>>}, Sends(s, reqs),
         s \notin UinSvrs => r.cmd # "REQ_BROADCAST_UIN", NEW t \in Svrs \ UinSvrs
  PROVE  SetsNoUin(t)'
<1>1. UNCHANGED sock /\ reqs = <<r>>
  BY DEF Sends
<1>2. CASE sock[s] = NoCon
  <2>1. UNCHANGED toAcc
    BY <1>2 DEF Sends
  <2> QED
    BY <1>1, <2>1 DEF UinInv, SetsNoUin
<1>3. CASE sock[s] # NoCon
  <2>1. toAcc' = [toAcc EXCEPT ![sock[s]] = toAcc[sock[s]] \o <<r>>]
    BY <1>1, <1>3 DEF Sends
  <2> QED
    BY <1>1, <1>3, <2>1, OneMoreSetsNone
<1> QED
  BY <1>2, <1>3

LEMMA CallSetsNone ==
  ASSUME Base, UinInv, NEW s \in Svrs,
         Answer(s) \/ AnswerMsg(s) \/ CallOnSession(s) \/ CallOnAccs(s), NEW t \in Svrs \ UinSvrs
  PROVE  SetsNoUin(t)'
<1> SUFFICES \E r, reqs : /\ reqs \in {<<>>, <<r>>} /\ Sends(s, reqs)
                          /\ s \notin UinSvrs => r.cmd # "REQ_BROADCAST_UIN"
  BY MoreSetsNone
<1>1. ASSUME NEW c, NEW ok, NEW uin, NEW name,
             Sends(s, AD!ReqVerifyRet(drv[s], 1, c, ok, uin, name))
      PROVE  \E r, reqs : /\ reqs \in {<<>>, <<r>>} /\ Sends(s, reqs)
                          /\ s \notin UinSvrs => r.cmd # "REQ_BROADCAST_UIN"
  <2> DEFINE r == [cmd |-> "REQ_VERIFY_RET", cid |-> c, isSuccess |-> ok, uin |-> uin,
                   accName |-> name]
  <2>1. AD!ReqVerifyRet(drv[s], 1, c, ok, uin, name) \in {<<>>, <<r>>}
    BY DEF AD!ReqVerifyRet, AD!When
  <2>2. r.cmd # "REQ_BROADCAST_UIN"
    OBVIOUS
  <2> QED
    BY <1>1, <2>1, <2>2
<1>2. CASE Answer(s)
  BY <1>1, <1>2 DEF Answer
<1>3. CASE AnswerMsg(s)
  BY <1>1, <1>3 DEF AnswerMsg, AD!ReqVerifyRetMsg
<1>4. ASSUME NEW reqs, NEW r, NEW b \in BOOLEAN, reqs = AD!When(b, r), Sends(s, reqs),
             s \notin UinSvrs => r.cmd # "REQ_BROADCAST_UIN"
      PROVE  \E r1, reqs1 : /\ reqs1 \in {<<>>, <<r1>>} /\ Sends(s, reqs1)
                            /\ s \notin UinSvrs => r1.cmd # "REQ_BROADCAST_UIN"
  <2>1. reqs \in {<<>>, <<r>>}
    BY <1>4 DEF AD!When
  <2> QED
    BY <1>4, <2>1
<1>5. \A c : AD!HasSession(drv[s], 1, c) \in BOOLEAN
  BY DEF AD!HasSession, AD!Usable
<1>6. AD!Usable(drv[s], 1) \in BOOLEAN
  BY DEF AD!Usable
<1>7. CASE CallOnSession(s)
  <2>1. PICK c \in Cids :
          \/ Sends(s, AD!SendToClient(drv[s], 1, c))
          \/ Sends(s, AD!DisconClient(drv[s], 1, c))
          \/ \E on \in BOOLEAN : Sends(s, AD!SetCache(drv[s], 1, c, on))
          \/ \E g \in Grps, id \in Ids : Sends(s, AD!SetActiveSvrId(drv[s], 1, c, g, id))
          \/ s \in UinSvrs /\ \E uin \in Uins : Sends(s, AD!BroadcastUinToSession(drv[s], 1, c, uin))
    BY <1>7 DEF CallOnSession
  <2>2. CASE Sends(s, AD!SendToClient(drv[s], 1, c))
    BY <1>4, <1>5, <2>2 DEF AD!SendToClient
  <2>3. CASE Sends(s, AD!DisconClient(drv[s], 1, c))
    BY <1>4, <1>5, <2>3 DEF AD!DisconClient
  <2>4. CASE \E on \in BOOLEAN : Sends(s, AD!SetCache(drv[s], 1, c, on))
    BY <1>4, <1>5, <2>4 DEF AD!SetCache
  <2>5. CASE \E g \in Grps, id \in Ids : Sends(s, AD!SetActiveSvrId(drv[s], 1, c, g, id))
    BY <1>4, <1>5, <2>5 DEF AD!SetActiveSvrId
  <2>6. CASE s \in UinSvrs /\ \E uin \in Uins : Sends(s, AD!BroadcastUinToSession(drv[s], 1, c, uin))
    BY <1>4, <1>5, <2>6 DEF AD!BroadcastUinToSession
  <2> QED
    BY <2>1, <2>2, <2>3, <2>4, <2>5, <2>6
<1>8. CASE CallOnAccs(s)
  <2>1. \/ \E cids \in {<<>>} \cup {<<c>> : c \in Cids} : Sends(s, AD!BroadCastToClient(drv[s], 1, cids))
        \/ Sends(s, AD!DisconAllClient(drv[s], 1))
        \/ \E g \in Grps : Sends(s, AD!SetMainCmd2GrpId(drv[s], 1, g, MainCmds))
    BY <1>8 DEF CallOnAccs
  <2>2. CASE \E cids \in {<<>>} \cup {<<c>> : c \in Cids} : Sends(s, AD!BroadCastToClient(drv[s], 1, cids))
    BY <1>4, <1>6, <2>2 DEF AD!BroadCastToClient
  <2>3. CASE Sends(s, AD!DisconAllClient(drv[s], 1))
    BY <1>4, <1>6, <2>3 DEF AD!DisconAllClient
  <2>4. CASE \E g \in Grps : Sends(s, AD!SetMainCmd2GrpId(drv[s], 1, g, MainCmds))
    BY <1>4, <1>6, <2>4 DEF AD!SetMainCmd2GrpId
  <2> QED
    BY <2>1, <2>2, <2>3, <2>4
<1> QED
  BY <1>2, <1>3, <1>7, <1>8

LEMMA SetingSetsNone ==
  ASSUME Base, UinInv, NEW s \in Svrs, ChooseSeting(s), NEW t \in Svrs \ UinSvrs
  PROVE  SetsNoUin(t)'
<1>1. PICK x \in Setings :
        /\ drv' = [drv EXCEPT ![s] = AD!SetAccSeting(drv[s], x)]
        /\ UNCHANGED sock
        /\ \/ UNCHANGED toAcc
           \/ sock[s] # NoCon /\ toAcc' = [toAcc EXCEPT ![sock[s]] = toAcc[sock[s]] \o drv'[s].seting]
  BY DEF ChooseSeting
<1> DEFINE r == [cmd |-> "REQ_ACC_SETING", seting |-> x]
<1>2. drv'[s].seting = <<r>>
  <2>1. drv'[s] = AD!SetAccSeting(drv[s], x) /\ drv[s] \in DriverType
    BY <1>1 DEF Base, LinkInv
  <2> QED
    BY <2>1, SetAccSetingIs
<1>3. r.cmd # "REQ_BROADCAST_UIN"
  OBVIOUS
<1> HIDE DEF r
<1>4. CASE UNCHANGED toAcc
  BY <1>1, <1>4 DEF UinInv, SetsNoUin
<1>5. CASE sock[s] # NoCon /\ toAcc' = [toAcc EXCEPT ![sock[s]] = toAcc[sock[s]] \o <<r>>]
  BY <1>1, <1>3, <1>5, OneMoreSetsNone
<1> QED
  BY <1>1, <1>2, <1>4, <1>5

LEMMA CallUin ==
  ASSUME Base, UinInv, NEW s \in Svrs,
         \/ Answer(s) \/ AnswerMsg(s) \/ CallOnSession(s) \/ CallOnAccs(s) \/ ChooseSeting(s)
  PROVE  UinInv'
<1>1. UNCHANGED <<cli, inner, toSvr, sock>> /\ \A t \in Svrs : drv'[t].vec = drv[t].vec
  BY CallKeepsLinks
<1>2. ASSUME NEW t \in Svrs \ UinSvrs
      PROVE  SetsNoUin(t)' /\ UinServes(t)'
  <2>1. SetsNoUin(t)'
    BY CallSetsNone, SetingSetsNone
  <2> QED
    BY <1>1, <2>1, SameUinServes DEF UinInv, Link
<1> QED
  BY <1>1, <1>2, OtherUin
------------------------------------------------------------------------------
(* All steps, and uins. *)

UinServed == Served /\ (runs = 0 => UinInv)

LEMMA InitUin ==
  ASSUME SysInit
  PROVE  UinInv
<1>1. UinsIn
  BY DEF SysInit, Init, UinsIn, NewClient
<1> QED
  BY <1>1 DEF SysInit, UinInv, SetsNoUin, UinServes, InService

LEMMA UinForth ==
  ASSUME Base, ServeInv, UinInv, "ann" \notin LongNames, SysNext
  PROVE  UinInv'
<1>1. CASE ClientSide
  BY <1>1, AccSideUin
<1>2. ASSUME NEW k \in Conns, Idle, AccRecv(k) \/ AccNotices(k) \/ AccBreak(k) \/ Destroy(k)
      PROVE  UinInv'
  BY <1>2, RequestUinForth, AccSideUin, DestroyUin
<1>3. ASSUME NEW s \in Svrs, NEW k \in Conns, Connect(s, k)
      PROVE  UinInv'
  BY <1>3, ConnectUin
<1>4. ASSUME NEW s \in Svrs, DriverBreak(s) \/ DriverNotices(s) \/ DriverRecv(s)
      PROVE  UinInv'
  BY <1>4, DriverEndIs, LinkLostUin, DriverRecvUin DEF Base
<1>5. ASSUME NEW s \in Svrs,
             \/ Answer(s) \/ AnswerMsg(s) \/ CallOnSession(s) \/ CallOnAccs(s) \/ ChooseSeting(s)
      PROVE  UinInv'
  BY <1>5, CallUin
<1>6. CASE AccRestart
  <2>1. UinsIn'
    BY <1>6 DEF AccRestart, UinsIn, NewClient
  <2> QED
    BY <1>6, <2>1 DEF AccRestart, UinInv, SetsNoUin, UinServes, InService
<1> QED
  BY <1>1, <1>2, <1>3, <1>4, <1>5, <1>6 DEF SysNext

LEMMA UinStays ==
  ASSUME UinInv, UNCHANGED sysVars
  PROVE  UinInv'
<1>1. ASSUME NEW s \in Svrs \ UinSvrs
      PROVE  SetsNoUin(s)' /\ UinServes(s)'
  <2>1. SetsNoUin(s)'
    BY DEF UinInv, SetsNoUin, sysVars
  <2> QED
    BY <2>1, SameUinServes DEF UinInv, sysVars, accVars, Link
<1> QED
  BY <1>1, OtherUin DEF sysVars, accVars

LEMMA UinServedHolds == "ann" \notin LongNames => (SysSpec => []UinServed)
<1> SUFFICES ASSUME "ann" \notin LongNames
             PROVE  SysSpec => []UinServed
  OBVIOUS
<1>1. SysInit => UinServed
  BY InitBase, InitServes, InitUin DEF UinServed, Served, SysInit
<1>2. UinServed /\ Served' /\ [SysNext]_sysVars => UinServed'
  <2> SUFFICES ASSUME UinServed, Served', [SysNext]_sysVars
               PROVE  UinServed'
    OBVIOUS
  <2>1. CASE SysNext
    BY <2>1, RunsKept, UinForth DEF UinServed, Served
  <2>2. CASE UNCHANGED sysVars
    BY <2>2, UinStays DEF UinServed, sysVars
  <2> QED
    BY <2>1, <2>2
<1> QED
  BY <1>1, <1>2, ServedHolds, PTL DEF SysSpec

LEMMA TimelyUins ==
  "ann" \notin LongNames => (SysSpec /\ [][Timely]_sysVars => []UinInv)
<1> SUFFICES ASSUME "ann" \notin LongNames
             PROVE  SysSpec /\ [][Timely]_sysVars => []UinInv
  OBVIOUS
<1>1. SysInit => UinInv
  BY InitUin
<1>2. Base /\ ServeInv /\ UinInv /\ [SysNext]_sysVars => UinInv'
  BY UinForth, UinStays
<1> QED
  BY <1>1, <1>2, TimelyServes, PTL DEF SysSpec

LEMMA UinIsMirror ==
  ASSUME Base, ServeInv, UinInv
  PROVE  UinMirror
<1> SUFFICES ASSUME NEW s \in Svrs \ UinSvrs, InService(s), NEW c \in Cids, WillKnow(s, c),
                    cli[c].uin # 0
             PROVE  WillHoldUin(s, c, cli[c].uin)
  BY DEF UinMirror
<1> DEFINE q    == toSvr[sock[s]]
           held == Link(s).sess[c]
           u    == cli[c].uin
<1>1. FreshUin(held, q, c) /\ LastUin(held, q, c, u)
  BY DEF UinInv, UinServes, UinFits
<1>2. (\A i \in DOMAIN q : ~TellsUin(q, c, i)) => held # AD!NoSession
  BY DEF WillKnow, TellsUin
<1>3. WillHoldUin(s, c, u) <=>
        /\ (\A i \in DOMAIN q : ~TellsUin(q, c, i)) => held = u
        /\ \A i \in DOMAIN q :
             TellsUin(q, c, i) /\ (\A j \in DOMAIN q : TellsUin(q, c, j) => j <= i) => q[i].uin = u
        /\ \A i \in DOMAIN q : TellsUin(q, c, i) /\ q[i].cmd = "NTF_CREATE_SESSION" =>
             /\ held \in {q[i].uin, AD!NoSession}
             /\ \A j \in DOMAIN q : TellsUin(q, c, j) /\ j < i => q[j].uin = q[i].uin
  BY DEF WillHoldUin
<1>4. \A i \in DOMAIN q : TellsUin(q, c, i) => q[i].cid = c
  BY DEF TellsUin
<1> HIDE DEF q, held, u
<1>5. WillHoldUin(s, c, u)
  BY <1>1, <1>2, <1>3, <1>4 DEF FreshUin, LastUin
<1> QED
  BY <1>5 DEF u

(* Where a login's name fits, in the first run of acc: a server in service  *)
(* that sets no uins has of each client it knows the uin acc has, or the    *)
(* last message on its way that tells the uin tells that one; and none that *)
(* begins a session, which a driver ignores when it has the session, would  *)
(* be needed to tell a new one (RevertSession, HandleVerifyRet,             *)
(* HandleBroadcastUin; HandleCreateSession and HandleMsgBroadcastUin of     *)
(* ADClientCon).                                                            *)
THEOREM UinCorrect ==
  "ann" \notin LongNames => (SysSpec => [](runs = 0 => UinMirror))
<1>1. UinServed => (runs = 0 => UinMirror)
  BY UinIsMirror DEF UinServed, Served
<1> QED
  BY <1>1, UinServedHolds, PTL

(* And so in every run of acc, if servers answer no question of an earlier  *)
(* one: no uin of a client of the earlier run is taken for that of a client *)
(* that has its cid now.                                                    *)
THEOREM UinTimely ==
  "ann" \notin LongNames => (SysSpec /\ [][Timely]_sysVars => []UinMirror)
<1>1. Base /\ ServeInv /\ UinInv => UinMirror
  BY UinIsMirror
<1> QED
  BY <1>1, TimelyServes, TimelyUins, PTL
=============================================================================
