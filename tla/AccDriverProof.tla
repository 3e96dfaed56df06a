--------------------------- MODULE AccDriverProof ---------------------------
(***************************************************************************)
(* Proofs about AccDriver, for any number of accs and clients: the driver  *)
(* keeps its type, the registration result is told once, sessions live no  *)
(* longer than their registration, and the callbacks of the driver are     *)
(* enough for the server to know its sessions.                             *)
(*                                                                         *)
(* The invariant (DInv) says of each link what the connection, its         *)
(* registration and its sessions have to do with one another, which of the *)
(* four sequences of results has been told, and that the server's view of  *)
(* an acc is the sessions of the one link that has its address.            *)
(***************************************************************************)
EXTENDS AccDriver, SequenceTheorems, TLAPS

GoodLink ==
  {l \in LinkType : /\ l.isReg => l.con = "up"
                    /\ \A c \in Cids : l.sess[c] # NoSession => l.isReg}

SessType == [Cids -> Uins \cup {0, NoSession}]

DriverType ==
  [vec : Seq(GoodLink), svrId : {0, SvrId}, isVerify : BOOLEAN, fatal : BOOLEAN,
   isReg : BOOLEAN, seting : {<<>>} \cup {<<[cmd |-> "REQ_ACC_SETING", seting |-> s]>> : s \in Setings},
   results : {<<>>, <<SvrId>>, <<0>>, <<SvrId, 0>>}]

(* What has been told of the registration fits the rest. *)
Told(d) ==
  /\ d.isReg <=> d.results \in {<<SvrId>>, <<SvrId, 0>>}
  /\ d.fatal <=> d.results \in {<<0>>, <<SvrId, 0>>}
  /\ d.fatal => d.vec = <<>>
  /\ d.vec # <<>> \/ d.results # <<>> => d.svrId = SvrId

Distinct(d) == \A i, j \in DOMAIN d.vec : i # j => d.vec[i].addr # d.vec[j].addr

(* The view v is that of the links of d. *)
Mirrors(d, v) ==
  ~d.fatal => /\ \A i \in DOMAIN d.vec : v[d.vec[i].addr] = d.vec[i].sess
              /\ \A a \in Accs : (\A i \in DOMAIN d.vec : d.vec[i].addr # a) => v[a] = NoSessions

DInv ==
  /\ ad \in DriverType
  /\ Told(ad)
  /\ Distinct(ad)
  /\ view \in [Accs -> SessType]
  /\ Mirrors(ad, view)
------------------------------------------------------------------------------
(* Sequences of results. *)

LEMMA AppendFacts ==
  ASSUME NEW s \in Seq(Nat), NEW y \in Nat
  PROVE  /\ Append(s, y) \in Seq(Nat) /\ Len(Append(s, y)) = Len(s) + 1
         /\ Append(s, y)[Len(s) + 1] = y
         /\ \A i \in 1..Len(s) : Append(s, y)[i] = s[i]
<1>1. Append(s, y) \in Seq(Nat)
  OBVIOUS
<1>2. Len(Append(s, y)) = Len(s) + 1
  OBVIOUS
<1>3. Append(s, y)[Len(s) + 1] = y
  OBVIOUS
<1>4. \A i \in 1..Len(s) : Append(s, y)[i] = s[i]
  OBVIOUS
<1> QED
  BY <1>1, <1>2, <1>3, <1>4, Zenon

LEMMA AppendPair ==
  ASSUME NEW x \in Nat, NEW y \in Nat
  PROVE  Append(<<x>>, y) = <<x, y>>
<1> DEFINE s == <<x>>
           p == <<x, y>>
           t == Append(s, y)
<1>1. s \in Seq(Nat) /\ Len(s) = 1 /\ s[1] = x
  OBVIOUS
<1> HIDE DEF s
<1>2. /\ t \in Seq(Nat) /\ Len(t) = Len(s) + 1
      /\ \A i \in 1..Len(s) : t[i] = s[i]
      /\ t[Len(s) + 1] = y
  BY <1>1, AppendFacts
<1> HIDE DEF t
<1>3. p \in Seq(Nat) /\ Len(p) = 2 /\ p[1] = x /\ p[2] = y
  OBVIOUS
<1> HIDE DEF p
<1>4. Len(t) = 2 /\ \A i \in 1..Len(t) : t[i] = p[i]
  BY <1>1, <1>2, <1>3
<1>5. t = p
  BY <1>2, <1>3, <1>4, SeqEqual
<1> QED
  BY <1>5 DEF s, p, t

LEMMA AppendTold == Append(<<SvrId>>, 0) = <<SvrId, 0>>
<1>1. SvrId \in Nat /\ 0 \in Nat
  BY SvrIdAssumption
<1> QED
  BY <1>1, AppendPair, Zenon
------------------------------------------------------------------------------
(* Links. *)

LEMMA NoSessionsType == NoSessions \in SessType /\ \A c \in Cids : NoSessions[c] = NoSession
BY DEF NoSessions, SessType

LEMMA NewLinkGood ==
  ASSUME NEW addr \in Accs
  PROVE  NewLink(addr) \in GoodLink /\ NewLink(addr).addr = addr /\ NewLink(addr).sess = NoSessions
<1> DEFINE s == NoSessions
<1>1. s \in SessType /\ \A c \in Cids : s[c] = NoSession
  BY NoSessionsType
<1> HIDE DEF s
<1>2. [addr |-> addr, con |-> "idle", isReg |-> FALSE, sess |-> s] \in GoodLink
  BY <1>1 DEF GoodLink, LinkType, SessType
<1> QED
  BY <1>2 DEF NewLink, s

(* Replacing link i by one with the same address. *)
LEMMA SetLinkGood ==
  ASSUME NEW d \in DriverType, NEW i \in DOMAIN d.vec, NEW l \in GoodLink
  PROVE  /\ SetLink(d, i, l) \in DriverType
         /\ SetLink(d, i, l) = [d EXCEPT !.vec = SetLink(d, i, l).vec]
         /\ DOMAIN SetLink(d, i, l).vec = DOMAIN d.vec
         /\ SetLink(d, i, l).vec[i] = l
         /\ \A j \in DOMAIN d.vec : j # i => SetLink(d, i, l).vec[j] = d.vec[j]
<1> DEFINE v == [d.vec EXCEPT ![i] = l]
<1>1. d.vec \in Seq(GoodLink)
  BY DEF DriverType
<1>2. /\ v \in Seq(GoodLink) /\ DOMAIN v = DOMAIN d.vec /\ v[i] = l
      /\ \A j \in DOMAIN d.vec : j # i => v[j] = d.vec[j]
  BY <1>1
<1> HIDE DEF v
<1>3. [d EXCEPT !.vec = v] \in DriverType /\ [d EXCEPT !.vec = v].vec = v
  BY <1>2 DEF DriverType
<1> QED
  BY <1>2, <1>3 DEF SetLink, v

(* Such a replacement keeps what DInv says of the driver d. *)
LEMMA SetLinkInv ==
  ASSUME NEW d \in DriverType, Told(d), Distinct(d), NEW i \in DOMAIN d.vec,
         NEW l \in GoodLink, l.addr = d.vec[i].addr,
         NEW v \in [Accs -> SessType], Mirrors(d, v)
  PROVE  /\ SetLink(d, i, l) \in DriverType
         /\ Told(SetLink(d, i, l))
         /\ Distinct(SetLink(d, i, l))
         /\ [v EXCEPT ![l.addr] = l.sess] \in [Accs -> SessType]
         /\ Mirrors(SetLink(d, i, l), [v EXCEPT ![l.addr] = l.sess])
<1> DEFINE e == SetLink(d, i, l)
           w == [v EXCEPT ![l.addr] = l.sess]
<1>1. /\ e \in DriverType /\ DOMAIN e.vec = DOMAIN d.vec /\ e.vec[i] = l
      /\ \A j \in DOMAIN d.vec : j # i => e.vec[j] = d.vec[j]
      /\ e = [d EXCEPT !.vec = e.vec]
  BY SetLinkGood
<1>2. /\ e.svrId = d.svrId /\ e.fatal = d.fatal /\ e.isReg = d.isReg /\ e.results = d.results
  BY <1>1 DEF DriverType
<1>3. d.vec \in Seq(GoodLink) /\ d.vec # <<>> /\ e.vec # <<>>
  BY <1>1 DEF DriverType
<1>4. Told(e)
  BY <1>2, <1>3 DEF Told
<1>5. \A j \in DOMAIN d.vec : e.vec[j].addr = d.vec[j].addr
  BY <1>1
<1>6. Distinct(e)
  BY <1>1, <1>5 DEF Distinct
<1>7. l.addr \in Accs /\ l.sess \in SessType
  BY DEF GoodLink, LinkType, SessType
<1>8. w \in [Accs -> SessType] /\ w[l.addr] = l.sess /\ \A a \in Accs : a # l.addr => w[a] = v[a]
  BY <1>7
<1> HIDE DEF e, w
<1>9. Mirrors(e, w)
  <2> SUFFICES ASSUME ~e.fatal
               PROVE  /\ \A j \in DOMAIN e.vec : w[e.vec[j].addr] = e.vec[j].sess
                      /\ \A a \in Accs : (\A j \in DOMAIN e.vec : e.vec[j].addr # a) => w[a] = NoSessions
    BY DEF Mirrors
  <2>1. ASSUME NEW j \in DOMAIN e.vec
        PROVE  w[e.vec[j].addr] = e.vec[j].sess
    <3>1. CASE j = i
      BY <1>1, <1>8, <3>1
    <3>2. CASE j # i
      <4>1. d.vec[j].addr # l.addr /\ d.vec[j].addr \in Accs
        BY <1>1, <1>3, <3>2 DEF Distinct, GoodLink, LinkType
      <4> QED
        BY <1>1, <1>2, <1>8, <3>2, <4>1 DEF Mirrors
    <3> QED
      BY <3>1, <3>2
  <2>2. ASSUME NEW a \in Accs, \A j \in DOMAIN e.vec : e.vec[j].addr # a
        PROVE  w[a] = NoSessions
    BY <1>1, <1>2, <1>5, <1>8, <2>2 DEF Mirrors
  <2> QED
    BY <2>1, <2>2
<1> QED
  BY <1>1, <1>4, <1>6, <1>8, <1>9 DEF e, w
------------------------------------------------------------------------------
(* What an acc sends, and what it does to the driver. *)

LEMMA MessageFields ==
  ASSUME NEW m \in FromAcc
  PROVE  /\ m.cmd # "RSP_REG" => m.cid \in Cids
         /\ m.cmd = "NTF_CREATE_SESSION" => m.uin \in Uins \cup {0}
         /\ m.cmd = "RSP_BROADCAST_UIN" => m.uin \in Uins
         /\ m.cmd = "RSP_REG" => m.svrId \in Nat
<1>1. m \in FromAccType
  BY FromAccAssumption
<1> QED
  BY <1>1 DEF FromAccType

LEMMA Numbers == NoSession \notin Uins \cup {0} /\ SvrId # 0 /\ 0 \notin Uins
<1>1. NoSession \notin Nat
  BY DEF NoSession
<1>2. NoSession # 0
  BY DEF NoSession
<1>3. SvrId # 0
  BY SvrIdAssumption
<1>4. Uins \subseteq Nat /\ 0 \notin Uins
  BY ADAssumption
<1> QED
  BY <1>1, <1>2, <1>3, <1>4

LEMMA DInvParts ==
  ASSUME DInv
  PROVE  /\ ad \in DriverType /\ Told(ad) /\ Distinct(ad)
         /\ view \in [Accs -> SessType] /\ Mirrors(ad, view)
BY DEF DInv

LEMMA SameView ==
  ASSUME DInv, NEW i \in DOMAIN ad.vec
  PROVE  /\ ad.vec[i] \in GoodLink /\ ad.vec[i].addr \in Accs
         /\ [view EXCEPT ![ad.vec[i].addr] = view[ad.vec[i].addr]] = view
         /\ view[ad.vec[i].addr] = ad.vec[i].sess
<1>1. ad.vec[i] \in GoodLink /\ ad.vec[i].addr \in Accs
  BY DEF DInv, DriverType, GoodLink, LinkType
<1>2. ad.vec # <<>>
  BY DEF DInv, DriverType
<1> QED
  BY <1>1, <1>2 DEF DInv, Mirrors, Told

(* A session set to uin, or erased, on link i, and in the view alike. *)
LEMMA SetSessionInv ==
  ASSUME DInv, NEW i \in DOMAIN ad.vec, ad.vec[i].isReg, NEW c \in Cids,
         NEW uin \in Uins \cup {0, NoSession}, ad' = SetSession(ad, i, c, uin),
         view' = [view EXCEPT ![ad.vec[i].addr] = [view[ad.vec[i].addr] EXCEPT ![c] = uin]]
  PROVE  DInv'
<1> DEFINE s == [ad.vec[i].sess EXCEPT ![c] = uin]
           l == [ad.vec[i] EXCEPT !.sess = s]
<1>1. ad.vec[i] \in GoodLink
  BY DEF DInv, DriverType
<1>2. s \in SessType
  BY <1>1 DEF GoodLink, LinkType, SessType
<1>3. view[ad.vec[i].addr] = ad.vec[i].sess
  BY SameView
<1> HIDE DEF s
<1>4. l \in GoodLink /\ l.addr = ad.vec[i].addr /\ l.sess = s
  BY <1>1, <1>2 DEF GoodLink, LinkType, SessType
<1>5. ad' = SetLink(ad, i, l)
  BY DEF SetSession, s
<1>6. view' = [view EXCEPT ![l.addr] = l.sess]
  BY <1>3, <1>4 DEF s
<1> HIDE DEF l
<1>7. /\ SetLink(ad, i, l) \in DriverType
      /\ Told(SetLink(ad, i, l))
      /\ Distinct(SetLink(ad, i, l))
      /\ [view EXCEPT ![l.addr] = l.sess] \in [Accs -> SessType]
      /\ Mirrors(SetLink(ad, i, l), [view EXCEPT ![l.addr] = l.sess])
  BY <1>4, DInvParts, SetLinkInv
<1>8. /\ ad' \in DriverType /\ Told(ad') /\ Distinct(ad')
      /\ view' \in [Accs -> SessType] /\ Mirrors(ad', view')
  BY <1>5, <1>6, <1>7
<1> QED
  BY <1>8 DEF DInv

(* Nothing changes. *)
LEMMA NothingInv ==
  ASSUME DInv, ad' = ad, view' = view
  PROVE  DInv'
BY DEF DInv

LEMMA RspRegInv ==
  ASSUME DInv, NEW i \in DOMAIN ad.vec, ad.vec[i].con = "up", NEW m \in FromAcc,
         m.cmd = "RSP_REG", ad' = HandleRspReg(ad, i, m), view' = view
  PROVE  DInv'
<1>1. CASE ad' = ad
  BY <1>1, NothingInv
<1>2. ad \in DriverType /\ ad.vec # <<>> /\ ad.svrId = SvrId /\ ~ad.fatal
  BY DEF DInv, Told, DriverType
<1>3. ad.results = IF ad.isReg THEN <<SvrId>> ELSE <<>>
  <2>1. ad.results \in {<<>>, <<SvrId>>, <<0>>, <<SvrId, 0>>}
    BY <1>2 DEF DriverType
  <2>2. ad.results \notin {<<0>>, <<SvrId, 0>>}
    BY <1>2 DEF DInv, Told
  <2>3. ad.isReg <=> ad.results = <<SvrId>>
    BY <2>2, Numbers DEF DInv, Told
  <2> QED
    BY <2>1, <2>2, <2>3
<1>4. CASE ad' = SetFatal(ad)
  <2> DEFINE r == Append(ad.results, 0)
  <2>1. r = IF ad.isReg THEN <<SvrId, 0>> ELSE <<0>>
    <3>1. Append(<<SvrId>>, 0) = <<SvrId, 0>>
      BY AppendTold
    <3>2. Append(<<>>, 0) = <<0>>
      OBVIOUS
    <3> QED
      BY <1>3, <3>1, <3>2
  <2> HIDE DEF r
  <2>2. <<>> \in Seq(GoodLink)
    OBVIOUS
  <2>3. /\ ad'.fatal = TRUE /\ ad'.vec = <<>> /\ ad'.results = r
        /\ ad'.isReg = ad.isReg /\ ad'.svrId = ad.svrId
        /\ ad' \in DriverType
    <3> DEFINE v == <<>>
    <3>1. ad' = [ad EXCEPT !.fatal = TRUE, !.vec = v, !.results = r]
      BY <1>4 DEF SetFatal, r
    <3>2. v \in Seq(GoodLink) /\ r \in {<<>>, <<SvrId>>, <<0>>, <<SvrId, 0>>}
      BY <2>1
    <3> HIDE DEF v
    <3>3. /\ ad'.fatal = TRUE /\ ad'.vec = v /\ ad'.results = r
          /\ ad'.isReg = ad.isReg /\ ad'.svrId = ad.svrId
          /\ ad' \in DriverType
      BY <1>2, <3>1, <3>2 DEF DriverType
    <3> QED
      BY <3>3 DEF v
  <2>4. Told(ad')
    <3>1. <<SvrId>> # <<0>> /\ <<SvrId>> # <<SvrId, 0>> /\ <<0>> # <<SvrId, 0>>
      BY Numbers
    <3> QED
      BY <1>2, <2>1, <2>3, <3>1 DEF Told, DriverType
  <2>5. Distinct(ad') /\ Mirrors(ad', view')
    BY <2>3 DEF Distinct, Mirrors
  <2> QED
    BY <2>3, <2>4, <2>5 DEF DInv
<1>5. CASE ad' = SetRegResult(SetLink(ad, i, [ad.vec[i] EXCEPT !.isReg = TRUE]))
  <2> DEFINE l == [ad.vec[i] EXCEPT !.isReg = TRUE]
             e == SetLink(ad, i, l)
  <2>1. l \in GoodLink /\ l.addr = ad.vec[i].addr /\ l.sess = ad.vec[i].sess
    BY SameView DEF GoodLink, LinkType
  <2>2. view' = [view EXCEPT ![l.addr] = l.sess]
    BY <2>1, SameView
  <2> HIDE DEF l
  <2>3. e \in DriverType /\ Told(e) /\ Distinct(e) /\ view' \in [Accs -> SessType] /\ Mirrors(e, view')
    <3>1. /\ [view EXCEPT ![l.addr] = l.sess] \in [Accs -> SessType]
          /\ e \in DriverType /\ Told(e) /\ Distinct(e)
          /\ Mirrors(e, [view EXCEPT ![l.addr] = l.sess])
      BY <2>1, DInvParts, SetLinkInv
    <3> QED
      BY <2>2, <3>1
  <2>4. e.isReg = ad.isReg /\ e.results = ad.results /\ e.svrId = SvrId /\ ~e.fatal
    <3>1. e = [ad EXCEPT !.vec = e.vec]
      BY <2>1, SetLinkGood DEF DInv
    <3> QED
      BY <1>2, <3>1 DEF DriverType
  <2> HIDE DEF e
  <2>5. CASE e.isReg
    BY <1>5, <2>3, <2>5 DEF SetRegResult, DInv, e, l
  <2>6. CASE ~e.isReg
    <3> DEFINE r == Append(e.results, e.svrId)
    <3>1. r = <<SvrId>>
      BY <1>3, <2>4, <2>6
    <3>2. ad' = [e EXCEPT !.isReg = TRUE, !.results = r]
      BY <1>5, <2>6 DEF SetRegResult, e, l
    <3> HIDE DEF r
    <3>3. /\ ad' \in DriverType /\ ad'.isReg = TRUE /\ ad'.results = r /\ ad'.vec = e.vec
          /\ ad'.fatal = e.fatal /\ ad'.svrId = e.svrId
      BY <2>3, <3>1, <3>2 DEF DriverType
    <3>4. Told(ad')
      <4>1. <<SvrId>> # <<0>> /\ <<SvrId>> # <<SvrId, 0>>
        BY Numbers
      <4> QED
        BY <2>4, <3>1, <3>3, <4>1 DEF Told
    <3>5. Distinct(ad') /\ Mirrors(ad', view')
      BY <2>3, <3>3 DEF Distinct, Mirrors
    <3> QED
      BY <2>3, <3>3, <3>4, <3>5 DEF DInv
  <2> QED
    BY <2>5, <2>6
<1> QED
  BY <1>1, <1>4, <1>5 DEF HandleRspReg
------------------------------------------------------------------------------
(* The steps, one lemma each. *)

LEMMA InitInv == Init => DInv
<1> SUFFICES ASSUME Init PROVE DInv
  OBVIOUS
<1> DEFINE v == <<>>
<1>1. v \in Seq(GoodLink) /\ DOMAIN v = {}
  OBVIOUS
<1>2. ad = [vec |-> v, svrId |-> 0, isVerify |-> FALSE, fatal |-> FALSE,
            isReg |-> FALSE, seting |-> <<>>, results |-> <<>>]
  BY DEF Init, NewConMgr
<1> HIDE DEF v
<1>3. ad \in DriverType
  BY <1>1, <1>2 DEF DriverType
<1>4. Told(ad)
  BY <1>2, Numbers DEF Told, v
<1>5. view \in [Accs -> SessType] /\ \A a \in Accs : view[a] = NoSessions
  BY NoSessionsType DEF Init
<1>6. Distinct(ad) /\ Mirrors(ad, view)
  BY <1>1, <1>2, <1>5 DEF Distinct, Mirrors
<1> QED
  BY <1>3, <1>4, <1>5, <1>6 DEF DInv

LEMMA InitDriverInv ==
  ASSUME DInv, InitDriver
  PROVE  DInv'
<1>0. PICK k \in 1..2 : \E addrs \in [1..k -> Accs] :
        /\ \A i, j \in DOMAIN addrs : i # j => addrs[i] # addrs[j]
        /\ \E n \in 0..Len(addrs), verify \in BOOLEAN :
             MayInit(ad, addrs) /\ ad' = InitCons(ad, addrs, n, SvrId, verify)
  BY DEF InitDriver
<1>1. PICK addrs \in [1..k -> Accs] :
        /\ \A i, j \in DOMAIN addrs : i # j => addrs[i] # addrs[j]
        /\ \E n \in 0..Len(addrs), verify \in BOOLEAN :
             MayInit(ad, addrs) /\ ad' = InitCons(ad, addrs, n, SvrId, verify)
  BY <1>0
<1>2. PICK n \in 0..Len(addrs), verify \in BOOLEAN :
        MayInit(ad, addrs) /\ ad' = InitCons(ad, addrs, n, SvrId, verify)
  BY <1>1
<1>3. Len(addrs) = k /\ n \in Nat /\ \A i \in 1..n : i \in 1..k /\ addrs[i] \in Accs
  OBVIOUS
<1> DEFINE v == [i \in 1..n |-> NewLink(addrs[i])]
<1>4. /\ v \in Seq(GoodLink) /\ DOMAIN v = 1..n
      /\ \A i \in 1..n : v[i].addr = addrs[i] /\ v[i].sess = NoSessions
  <2>1. \A i \in 1..n : /\ v[i] = NewLink(addrs[i])
                        /\ NewLink(addrs[i]) \in GoodLink
                        /\ NewLink(addrs[i]).addr = addrs[i]
                        /\ NewLink(addrs[i]).sess = NoSessions
    BY <1>3, NewLinkGood
  <2>2. DOMAIN v = 1..n /\ v = [i \in 1..n |-> v[i]]
    OBVIOUS
  <2> HIDE DEF v
  <2>3. v \in Seq(GoodLink)
    BY <1>3, <2>1, <2>2, IsASeq
  <2> QED
    BY <2>1, <2>2, <2>3
<1>5. ad' = [ad EXCEPT !.svrId = SvrId, !.isVerify = verify, !.vec = v]
  BY <1>2 DEF InitCons
<1> HIDE DEF v
<1>6. ad \in DriverType /\ Told(ad) /\ ~ad.fatal /\ DOMAIN ad.vec = {} /\ view' = view
  BY <1>2, DInvParts DEF MayInit, InitDriver
<1>7. /\ ad' \in DriverType /\ ad'.vec = v /\ ad'.svrId = SvrId
      /\ ad'.fatal = ad.fatal /\ ad'.isReg = ad.isReg /\ ad'.results = ad.results
  BY <1>4, <1>5, <1>6 DEF DriverType
<1>8. Told(ad')
  BY <1>6, <1>7 DEF Told
<1>9. Distinct(ad')
  BY <1>1, <1>3, <1>4, <1>7 DEF Distinct
<1>10. Mirrors(ad', view')
  BY <1>3, <1>4, <1>6, <1>7, DInvParts DEF Mirrors
<1> QED
  BY <1>6, <1>7, <1>8, <1>9, <1>10, DInvParts DEF DInv

LEMMA AddAccsInv ==
  ASSUME DInv, AddAccs
  PROVE  DInv'
<1>1. PICK addr \in Accs : MayAddAcc(ad, addr) /\ ad' = AddAcc(ad, addr)
  BY DEF AddAccs
<1>2. /\ ad \in DriverType /\ Told(ad) /\ Distinct(ad) /\ Mirrors(ad, view)
      /\ ~ad.fatal /\ ad.svrId = SvrId /\ view' = view
      /\ \A i \in DOMAIN ad.vec : ad.vec[i].addr # addr
  BY <1>1, DInvParts DEF MayAddAcc, DriverType, AddAccs
<1> DEFINE l == NewLink(addr)
           v == Append(ad.vec, l)
<1>3. l \in GoodLink /\ l.addr = addr /\ l.sess = NoSessions
  BY NewLinkGood
<1> HIDE DEF l
<1>4. ad.vec \in Seq(GoodLink)
  BY <1>2 DEF DriverType
<1>5. /\ v \in Seq(GoodLink) /\ DOMAIN v = DOMAIN ad.vec \cup {Len(ad.vec) + 1}
      /\ v[Len(ad.vec) + 1] = l
      /\ \A i \in DOMAIN ad.vec : v[i] = ad.vec[i]
  BY <1>3, <1>4
<1>6. ad' = [ad EXCEPT !.vec = v]
  BY <1>1 DEF AddAcc, l
<1> HIDE DEF v
<1>7. /\ ad' \in DriverType /\ ad'.vec = v /\ ad'.svrId = ad.svrId
      /\ ad'.fatal = ad.fatal /\ ad'.isReg = ad.isReg /\ ad'.results = ad.results
  BY <1>2, <1>5, <1>6 DEF DriverType
<1>8. Told(ad')
  BY <1>2, <1>7 DEF Told
<1>9. Distinct(ad')
  BY <1>2, <1>3, <1>5, <1>7 DEF Distinct
<1>10. Mirrors(ad', view')
  BY <1>2, <1>3, <1>5, <1>7 DEF Mirrors
<1> QED
  BY <1>2, <1>7, <1>8, <1>9, <1>10, DInvParts DEF DInv

LEMMA ChooseSetingInv ==
  ASSUME DInv, ChooseSeting
  PROVE  DInv'
<1>1. PICK s \in Setings : ad' = SetAccSeting(ad, s)
  BY DEF ChooseSeting
<1>2. ad \in DriverType /\ Told(ad) /\ Distinct(ad) /\ Mirrors(ad, view) /\ view' = view
  BY DInvParts DEF ChooseSeting
<1> DEFINE q == <<[cmd |-> "REQ_ACC_SETING", seting |-> s]>>
<1>3. q \in {<<>>} \cup {<<[cmd |-> "REQ_ACC_SETING", seting |-> x]>> : x \in Setings}
  OBVIOUS
<1>4. ad' = [ad EXCEPT !.seting = q]
  BY <1>1 DEF SetAccSeting
<1> HIDE DEF q
<1>5. /\ ad' \in DriverType /\ ad'.vec = ad.vec /\ ad'.svrId = ad.svrId
      /\ ad'.fatal = ad.fatal /\ ad'.isReg = ad.isReg /\ ad'.results = ad.results
  BY <1>2, <1>3, <1>4 DEF DriverType
<1>6. Told(ad') /\ Distinct(ad') /\ Mirrors(ad', view')
  BY <1>2, <1>5 DEF Told, Distinct, Mirrors
<1> QED
  BY <1>2, <1>5, <1>6, DInvParts DEF DInv

(* A link is replaced by l, and the view of its acc by its sessions. *)
LEMMA LinkStepInv ==
  ASSUME DInv, NEW i \in DOMAIN ad.vec, NEW l \in GoodLink, l.addr = ad.vec[i].addr,
         ad' = SetLink(ad, i, l), view' = [view EXCEPT ![l.addr] = l.sess]
  PROVE  DInv'
<1>1. /\ SetLink(ad, i, l) \in DriverType
      /\ Told(SetLink(ad, i, l))
      /\ Distinct(SetLink(ad, i, l))
      /\ [view EXCEPT ![l.addr] = l.sess] \in [Accs -> SessType]
      /\ Mirrors(SetLink(ad, i, l), [view EXCEPT ![l.addr] = l.sess])
  BY DInvParts, SetLinkInv
<1>2. /\ ad' \in DriverType /\ Told(ad') /\ Distinct(ad')
      /\ view' \in [Accs -> SessType] /\ Mirrors(ad', view')
  BY <1>1
<1> QED
  BY <1>2 DEF DInv

LEMMA ConnectedInv ==
  ASSUME DInv, NEW i \in DOMAIN ad.vec, Connected(i)
  PROVE  DInv'
<1> DEFINE l == [ad.vec[i] EXCEPT !.con = "up"]
<1>1. l \in GoodLink /\ l.addr = ad.vec[i].addr /\ l.sess = ad.vec[i].sess
  BY SameView DEF GoodLink, LinkType
<1>2. ad' = SetLink(ad, i, l) /\ view' = view
  BY DEF Connected, OnConnected
<1> HIDE DEF l
<1>3. view' = [view EXCEPT ![l.addr] = l.sess]
  BY <1>1, <1>2, SameView
<1> QED
  BY <1>1, <1>2, <1>3, LinkStepInv

LEMMA DisconnectedInv ==
  ASSUME DInv, NEW i \in DOMAIN ad.vec, Disconnected(i)
  PROVE  DInv'
<1> DEFINE s == NoSessions
           l == [ad.vec[i] EXCEPT !.con = "idle", !.isReg = FALSE, !.sess = s]
<1>1. s \in SessType /\ \A c \in Cids : s[c] = NoSession
  BY NoSessionsType
<1> HIDE DEF s
<1>2. l \in GoodLink /\ l.addr = ad.vec[i].addr /\ l.sess = s
  BY <1>1, SameView DEF GoodLink, LinkType, SessType
<1>3. ad' = SetLink(ad, i, l)
  BY DEF Disconnected, OnDisconnected, s
<1>4. view' = [view EXCEPT ![l.addr] = l.sess]
  BY <1>2 DEF Disconnected, s
<1> HIDE DEF l
<1> QED
  BY <1>2, <1>3, <1>4, LinkStepInv

(* Whatever a message does to the sessions it does to the view, unless the  *)
(* driver has nothing to do with it.                                        *)
LEMMA ReceivedInv ==
  ASSUME DInv, NEW i \in DOMAIN ad.vec, NEW m \in FromAcc, Received(i, m)
  PROVE  DInv'
<1> DEFINE a == ad.vec[i].addr
<1>1. /\ ad.vec[i].con = "up" /\ ad' = OnRecv(ad, i, m)
      /\ view' = [view EXCEPT ![a] = ViewAfter(view[a], ad, i, m)]
  BY DEF Received
<1>2. a \in Accs /\ [view EXCEPT ![a] = view[a]] = view /\ ad.vec[i].isReg \in BOOLEAN
  BY SameView DEF GoodLink, LinkType
<1>3. m \in FromAccType
  BY FromAccAssumption
<1> HIDE DEF a
<1>4. ASSUME CallBacks(ad, i, m) \cap {"OnClientConnect", "OnRevBroadcastUinToSession",
                                       "OnClientDisCon"} = {}
      PROVE  view' = view
  BY <1>1, <1>2, <1>4 DEF ViewAfter
<1>5. CASE m.cmd = "RSP_REG"
  <2>1. CallBacks(ad, i, m) = {}
    BY <1>5 DEF CallBacks, CallBackOf
  <2>2. ad' = HandleRspReg(ad, i, m)
    BY <1>1, <1>5 DEF OnRecv
  <2> QED
    BY <1>1, <1>4, <1>5, <2>1, <2>2, RspRegInv
<1>6. CASE m.cmd # "RSP_REG" /\ ~ad.vec[i].isReg
  <2>1. CallBacks(ad, i, m) = {}
    BY <1>6 DEF CallBacks
  <2>2. ad' = ad
    BY <1>1, <1>6 DEF OnRecv
  <2> QED
    BY <1>4, <2>1, <2>2, NothingInv
<1>7. CASE m.cmd = "NTF_CREATE_SESSION" /\ ad.vec[i].isReg
  <2>1. m.cid \in Cids /\ m.uin \in Uins \cup {0, NoSession}
    BY <1>7, MessageFields
  <2>2. ad' = HandleCreateSession(ad, i, m)
    BY <1>1, <1>7 DEF OnRecv
  <2>3. CallBacks(ad, i, m) = IF HasSession(ad, i, m.cid) THEN {} ELSE {"OnClientConnect"}
    BY <1>7 DEF CallBacks, CallBackOf, HasCallBack
  <2>4. CASE HasSession(ad, i, m.cid)
    BY <1>4, <2>2, <2>3, <2>4, NothingInv DEF HandleCreateSession
  <2>5. CASE ~HasSession(ad, i, m.cid)
    <3>1. ad' = SetSession(ad, i, m.cid, m.uin)
      BY <2>2, <2>5 DEF HandleCreateSession
    <3>2. view' = [view EXCEPT ![a] = [view[a] EXCEPT ![m.cid] = m.uin]]
      BY <1>1, <2>3, <2>5 DEF ViewAfter
    <3> QED
      BY <1>7, <2>1, <3>1, <3>2, SetSessionInv DEF a
  <2> QED
    BY <2>4, <2>5
<1>8. CASE m.cmd = "NTF_DISCON" /\ ad.vec[i].isReg
  <2>1. m.cid \in Cids /\ NoSession \in Uins \cup {0, NoSession}
    BY <1>8, MessageFields
  <2>2. ad' = SetSession(ad, i, m.cid, NoSession)
    BY <1>1, <1>8 DEF OnRecv, HandleMsgNtfDiscon
  <2>3. CallBacks(ad, i, m) = IF HasSession(ad, i, m.cid) THEN {"OnClientDisCon"} ELSE {}
    BY <1>8 DEF CallBacks, CallBackOf, HasCallBack
  <2>4. view' = [view EXCEPT ![a] = [view[a] EXCEPT ![m.cid] = NoSession]]
    <3>1. CASE HasSession(ad, i, m.cid)
      BY <1>1, <2>3, <3>1 DEF ViewAfter
    <3>2. CASE ~HasSession(ad, i, m.cid)
      <4>1. view' = view
        BY <1>4, <2>3, <3>2
      <4>2. view[a] = ad.vec[i].sess /\ view[a] \in SessType /\ view[a][m.cid] = NoSession
        BY <1>8, <2>1, <3>2, SameView DEF HasSession, Usable, a, GoodLink, LinkType, SessType
      <4>3. [view[a] EXCEPT ![m.cid] = NoSession] = view[a]
        BY <4>2 DEF SessType
      <4> QED
        BY <1>2, <4>1, <4>3
    <3> QED
      BY <3>1, <3>2
  <2> QED
    BY <1>8, <2>1, <2>2, <2>4, SetSessionInv DEF a
<1>9. CASE m.cmd = "RSP_BROADCAST_UIN" /\ ad.vec[i].isReg
  <2>1. m.cid \in Cids /\ m.uin \in Uins \cup {0, NoSession}
    BY <1>9, MessageFields
  <2>2. ad' = HandleMsgBroadcastUin(ad, i, m)
    BY <1>1, <1>9 DEF OnRecv
  <2>3. CallBacks(ad, i, m) =
          IF HasSession(ad, i, m.cid) THEN {"OnRevBroadcastUinToSession"} ELSE {}
    BY <1>9 DEF CallBacks, CallBackOf, HasCallBack
  <2>4. CASE ~HasSession(ad, i, m.cid)
    BY <1>4, <2>2, <2>3, <2>4, NothingInv DEF HandleMsgBroadcastUin
  <2>5. CASE HasSession(ad, i, m.cid)
    <3>1. ad' = SetSession(ad, i, m.cid, m.uin)
      BY <2>2, <2>5 DEF HandleMsgBroadcastUin
    <3>2. view' = [view EXCEPT ![a] = [view[a] EXCEPT ![m.cid] = m.uin]]
      BY <1>1, <2>3, <2>5 DEF ViewAfter
    <3> QED
      BY <1>9, <2>1, <3>1, <3>2, SetSessionInv DEF a
  <2> QED
    BY <2>4, <2>5
<1>10. CASE m.cmd \in {"NTF_VERIFY_REQ", "NTF_FORWARD", "RSP_SET_ACTIVE_SVR", "RSP_CACHE_MSG"}
            /\ ad.vec[i].isReg
  <2>1. ad' = ad
    BY <1>1, <1>10 DEF OnRecv
  <2>2. CallBacks(ad, i, m) \subseteq {"OnRevVerifyReq", "OnRevClientMsg", "OnSetActiveSvr",
                                       "OnMsgRspCacheMsg"}
    BY <1>10 DEF CallBacks, CallBackOf
  <2>3. CallBacks(ad, i, m) \cap {"OnClientConnect", "OnRevBroadcastUinToSession",
                                  "OnClientDisCon"} = {}
    BY <2>2
  <2> QED
    BY <1>4, <2>1, <2>3, NothingInv
<1>11. m.cmd \in {"RSP_REG", "NTF_CREATE_SESSION", "NTF_VERIFY_REQ", "NTF_FORWARD", "NTF_DISCON",
                 "RSP_SET_ACTIVE_SVR", "RSP_CACHE_MSG", "RSP_BROADCAST_UIN"}
  BY <1>3 DEF FromAccType
<1> QED
  BY <1>2, <1>5, <1>6, <1>7, <1>8, <1>9, <1>10, <1>11
------------------------------------------------------------------------------
(* The invariant, and what follows from it. *)

LEMMA Inductive == DInv /\ [Next]_adVars => DInv'
<1> SUFFICES ASSUME DInv, [Next]_adVars PROVE DInv'
  OBVIOUS
<1>1. CASE InitDriver
  BY <1>1, InitDriverInv
<1>2. CASE AddAccs
  BY <1>2, AddAccsInv
<1>3. CASE ChooseSeting
  BY <1>3, ChooseSetingInv
<1>4. CASE \E i \in DOMAIN ad.vec :
             Connected(i) \/ Disconnected(i) \/ \E m \in FromAcc : Received(i, m)
  BY <1>4, ConnectedInv, DisconnectedInv, ReceivedInv
<1>5. CASE UNCHANGED adVars
  BY <1>5, NothingInv DEF adVars
<1> QED
  BY <1>1, <1>2, <1>3, <1>4, <1>5 DEF Next

LEMMA Invariant == Spec => []DInv
BY InitInv, Inductive, PTL DEF Spec

(* The driver has its type, in every reachable state. *)
THEOREM DriverTypeCorrect == Spec => []DriverTypeOK
<1>1. DInv => DriverTypeOK
  <2> SUFFICES ASSUME DInv PROVE DriverTypeOK
    OBVIOUS
  <2>1. ad \in DriverType
    BY DInvParts
  <2>2. ad.vec \in Seq(GoodLink) /\ GoodLink \subseteq LinkType
    BY <2>1 DEF DriverType, GoodLink
  <2>3. ad.vec \in Seq(LinkType)
    BY <2>2
  <2> QED
    BY <2>1, <2>3 DEF DriverTypeOK, DriverType
<1> QED
  BY <1>1, Invariant, PTL

(* OnRegResult is called at most twice: once with the server's id, for the  *)
(* first acc that registers it, and once with 0, after which no link is     *)
(* left, however many accs answer, break and come back (doc.md:79-82).      *)
THEOREM ResultToldCorrect == Spec => []ResultToldOnce
<1>1. DInv => ResultToldOnce
  <2> SUFFICES ASSUME DInv PROVE ResultToldOnce
    OBVIOUS
  <2>1. ad \in DriverType /\ Told(ad)
    BY DInvParts
  <2>2. ad.results \in {<<>>, <<SvrId>>, <<0>>, <<SvrId, 0>>}
    BY <2>1 DEF DriverType
  <2>3. ad.results # <<>> => ad.svrId = SvrId
    BY <2>1 DEF Told
  <2>4. ad.fatal => ad.vec = <<>>
    BY <2>1 DEF Told
  <2>5. \A i, j \in DOMAIN ad.results : i < j => ad.results[i] = ad.svrId /\ ad.results[j] = 0
    BY <2>2, <2>3
  <2>6. ad.results \in {<<0>>, <<SvrId, 0>>} <=> \E i \in DOMAIN ad.results : ad.results[i] = 0
    <3>1. CASE ad.results = <<>>
      BY <3>1
    <3>2. CASE ad.results = <<SvrId>>
      BY <3>2, Numbers
    <3>3. CASE ad.results = <<0>>
      BY <3>3
    <3>4. CASE ad.results = <<SvrId, 0>>
      BY <3>4
    <3> QED
      BY <2>2, <3>1, <3>2, <3>3, <3>4
  <2>7. ad.fatal <=> ad.results \in {<<0>>, <<SvrId, 0>>}
    BY <2>1 DEF Told
  <2> QED
    BY <2>4, <2>5, <2>6, <2>7 DEF ResultToldOnce
<1> QED
  BY <1>1, Invariant, PTL

(* No session outlives the connection and the registration it came over:    *)
(* what FindSession returns is about a client of an acc that is connected.  *)
THEOREM SessionsCorrect == Spec => []SessionsNeedReg
<1>1. DInv => SessionsNeedReg
  <2> SUFFICES ASSUME DInv PROVE SessionsNeedReg
    OBVIOUS
  <2>1. \A i \in DOMAIN ad.vec : ad.vec[i] \in GoodLink
    BY SameView
  <2> QED
    BY <2>1 DEF SessionsNeedReg, GoodLink
<1> QED
  BY <1>1, Invariant, PTL

(* The callbacks tell the server of every session and of every end of one,  *)
(* a lost connection included, as long as its links are not given up.       *)
THEOREM CallBacksCorrect == Spec => []CallBacksSuffice
<1>1. DInv => CallBacksSuffice
  <2> SUFFICES ASSUME DInv, ~ad.fatal, NEW a \in Accs
               PROVE  /\ \A i \in DOMAIN ad.vec : ad.vec[i].addr = a => view[a] = ad.vec[i].sess
                      /\ view[a] # NoSessions => \E i \in DOMAIN ad.vec : ad.vec[i].addr = a
    BY DEF CallBacksSuffice
  <2> QED
    BY DInvParts DEF Mirrors
<1> QED
  BY <1>1, Invariant, PTL

(* A callback about a session comes only for one the server was told of and *)
(* not yet told the end of, whatever the accs send and in whatever order.   *)
THEOREM CalledCorrect == Spec => []CalledAboutKnown
<1>1. DInv => CalledAboutKnown
  <2> DEFINE Later == {"OnRevClientMsg", "OnClientDisCon", "OnSetActiveSvr",
                       "OnMsgRspCacheMsg", "OnRevBroadcastUinToSession"}
  <2> SUFFICES ASSUME DInv, NEW i \in DOMAIN ad.vec, NEW m \in FromAcc,
                      CallBacks(ad, i, m) \cap Later # {}
               PROVE  view[ad.vec[i].addr][m.cid] # NoSession
    BY DEF CalledAboutKnown
  <2>1. m.cmd \in DOMAIN CallBackOf /\ ad.vec[i].isReg /\ HasCallBack(ad, i, m)
        /\ CallBackOf[m.cmd] \in Later
    BY DEF CallBacks
  <2>2. m.cmd # "NTF_CREATE_SESSION" /\ m.cmd # "NTF_VERIFY_REQ"
    BY <2>1 DEF CallBackOf
  <2>3. HasSession(ad, i, m.cid)
    BY <2>1, <2>2 DEF HasCallBack
  <2>4. view[ad.vec[i].addr] = ad.vec[i].sess
    BY SameView
  <2> QED
    BY <2>3, <2>4 DEF HasSession
<1> QED
  BY <1>1, Invariant, PTL
------------------------------------------------------------------------------
(* What the driver has sent over each link. *)

RequestsSent == {[cmd |-> "REQ_REG", svrId |-> SvrId, isVerify |-> b] : b \in BOOLEAN}
                \cup {[cmd |-> "REQ_ACC_SETING", seting |-> s] : s \in Setings}

(* What an acc that is up has been sent, s, starts and ends as it should.   *)
Configures(s, set) ==
  s # <<>> /\ s[1].cmd = "REQ_REG" /\ (set # <<>> => s[Len(s)] = set[1])

SentInv ==
  /\ sent \in [Accs -> Seq(RequestsSent)]
  /\ \A i \in DOMAIN ad.vec :
       ad.vec[i].con = "up" => Configures(sent[ad.vec[i].addr], ad.seting)

(* A step after which no link is up that was not, over which nothing was    *)
(* sent and nothing forgotten.                                              *)
LEMMA QuietSent ==
  ASSUME SentInv, ad'.seting = ad.seting, sent' \in [Accs -> Seq(RequestsSent)],
         \A i \in DOMAIN ad'.vec : ad'.vec[i].con = "up" =>
            /\ i \in DOMAIN ad.vec /\ ad.vec[i].con = "up" /\ ad'.vec[i].addr = ad.vec[i].addr
            /\ sent'[ad.vec[i].addr] = sent[ad.vec[i].addr]
  PROVE  SentInv'
BY DEF SentInv

LEMMA AddLinksSent ==
  ASSUME DInv, SentInv, InitDriver \/ AddAccs
  PROVE  SentInv'
<1>1. CASE InitDriver
  <2>1. PICK addrs, n, verify : ad' = InitCons(ad, addrs, n, SvrId, verify)
    BY <1>1 DEF InitDriver
  <2> DEFINE v == [i \in 1..n |-> NewLink(addrs[i])]
  <2>2. \A i \in DOMAIN v : v[i].con # "up"
    BY DEF NewLink
  <2>3. ad' = [ad EXCEPT !.svrId = SvrId, !.isVerify = verify, !.vec = v]
    BY <2>1 DEF InitCons
  <2> HIDE DEF v
  <2>4. ad'.vec = v /\ ad'.seting = ad.seting
    BY <2>3, DInvParts DEF DriverType
  <2> QED
    BY <1>1, <2>2, <2>4, QuietSent DEF InitDriver, SentInv
<1>2. CASE AddAccs
  <2>1. PICK addr \in Accs : ad' = AddAcc(ad, addr)
    BY <1>2 DEF AddAccs
  <2> DEFINE l == NewLink(addr)
             v == Append(ad.vec, l)
  <2>2. l \in GoodLink /\ l.con = "idle"
    <3>1. l \in GoodLink
      BY NewLinkGood
    <3> QED
      BY <3>1 DEF NewLink
  <2> HIDE DEF l
  <2>3. ad.vec \in Seq(GoodLink)
    BY DInvParts DEF DriverType
  <2>4. /\ DOMAIN v = DOMAIN ad.vec \cup {Len(ad.vec) + 1}
        /\ v[Len(ad.vec) + 1] = l
        /\ \A i \in DOMAIN ad.vec : v[i] = ad.vec[i]
    BY <2>2, <2>3
  <2>5. ad' = [ad EXCEPT !.vec = v]
    BY <2>1 DEF AddAcc, l
  <2> HIDE DEF v
  <2>6. ad'.vec = v /\ ad'.seting = ad.seting
    BY <2>5, DInvParts DEF DriverType
  <2> QED
    BY <1>2, <2>2, <2>4, <2>6, QuietSent DEF AddAccs, SentInv
<1> QED
  BY <1>1, <1>2

LEMMA ChooseSetingSent ==
  ASSUME DInv, SentInv, ChooseSeting
  PROVE  SentInv'
<1>1. PICK s \in Setings : ad' = SetAccSeting(ad, s)
  BY DEF ChooseSeting
<1> DEFINE x == [cmd |-> "REQ_ACC_SETING", seting |-> s]
           q == <<x>>
           up(a) == \E i \in DOMAIN ad.vec : ad.vec[i].addr = a /\ ad.vec[i].con = "up"
<1>2. x \in RequestsSent
  BY DEF RequestsSent
<1>3. ad' = [ad EXCEPT !.seting = q]
  BY <1>1 DEF SetAccSeting
<1> HIDE DEF x
<1>4. q \in Seq(RequestsSent) /\ Len(q) = 1 /\ q[1] = x /\ q # <<>>
  BY <1>2
<1> HIDE DEF q
<1>5. ad'.vec = ad.vec /\ ad'.seting = q
  BY <1>3, DInvParts DEF DriverType
<1>6. sent' = [a \in Accs |-> IF up(a) THEN sent[a] \o q ELSE sent[a]]
  BY <1>5 DEF ChooseSeting
<1>7. ASSUME NEW a \in Accs
      PROVE  /\ sent[a] \o q \in Seq(RequestsSent) /\ sent[a] \in Seq(RequestsSent)
             /\ Configures(sent[a], ad.seting) => Configures(sent[a] \o q, q)
  <2> DEFINE s1 == sent[a]
             s2 == s1 \o q
  <2>1. s1 \in Seq(RequestsSent)
    BY DEF SentInv
  <2> HIDE DEF s1
  <2>2. /\ s2 \in Seq(RequestsSent) /\ Len(s2) = Len(s1) + Len(q)
        /\ \A i \in 1..(Len(s1) + Len(q)) : s2[i] = IF i <= Len(s1) THEN s1[i] ELSE q[i - Len(s1)]
    BY <1>4, <2>1, ConcatProperties
  <2>3. Len(s1) \in Nat /\ (s1 # <<>> => Len(s1) >= 1)
    BY <2>1, LenProperties, EmptySeq
  <2> HIDE DEF s2
  <2>4. ASSUME Configures(s1, ad.seting)
        PROVE  Configures(s2, q)
    <3>1. s1 # <<>> /\ s1[1].cmd = "REQ_REG"
      BY <2>4 DEF Configures
    <3>2. s2[1] = s1[1]
      BY <1>4, <2>2, <2>3, <3>1
    <3>3. s2[Len(s2)] = q[1]
      <4>1. Len(s2) = Len(s1) + 1 /\ Len(s2) \in 1..(Len(s1) + Len(q))
        BY <1>4, <2>2, <2>3
      <4>2. s2[Len(s2)] = q[Len(s2) - Len(s1)]
        BY <2>2, <2>3, <4>1
      <4>3. Len(s2) - Len(s1) = 1
        BY <2>3, <4>1
      <4> QED
        BY <4>2, <4>3
    <3>4. s2 # <<>>
      BY <1>4, <2>2, <2>3, <3>1, EmptySeq
    <3> QED
      BY <3>1, <3>2, <3>3, <3>4 DEF Configures
  <2> QED
    BY <2>1, <2>2, <2>4 DEF s1, s2
<1>8. sent' \in [Accs -> Seq(RequestsSent)]
  BY <1>6, <1>7
<1>9. ASSUME NEW i \in DOMAIN ad'.vec, ad'.vec[i].con = "up"
      PROVE  Configures(sent'[ad'.vec[i].addr], ad'.seting)
  <2>1. i \in DOMAIN ad.vec /\ ad.vec[i].con = "up" /\ ad'.vec[i] = ad.vec[i]
    BY <1>5, <1>9
  <2>2. ad.vec[i].addr \in Accs
    BY <2>1, SameView
  <2>3. sent'[ad.vec[i].addr] = sent[ad.vec[i].addr] \o q
    BY <1>6, <2>1, <2>2
  <2>4. Configures(sent[ad.vec[i].addr], ad.seting)
    BY <2>1 DEF SentInv
  <2> QED
    BY <1>5, <1>7, <2>1, <2>2, <2>3, <2>4
<1> QED
  BY <1>8, <1>9 DEF SentInv

(* Asking for the registration first, and repeating the settings. *)
LEMMA GreetingConfigures ==
  ASSUME DInv, ad.svrId = SvrId
  PROVE  Greeting(ad) \in Seq(RequestsSent) /\ Configures(Greeting(ad), ad.seting)
<1> DEFINE x == [cmd |-> "REQ_REG", svrId |-> ad.svrId, isVerify |-> ad.isVerify]
           a == <<x>>
           b == ad.seting
           g == a \o b
<1>1. x \in RequestsSent /\ x.cmd = "REQ_REG"
  BY DInvParts DEF RequestsSent, DriverType
<1>2. Greeting(ad) = g
  BY Numbers DEF Greeting
<1> HIDE DEF x
<1>3. a \in Seq(RequestsSent) /\ Len(a) = 1 /\ a[1] = x
  BY <1>1
<1> HIDE DEF a
<1>4. b \in Seq(RequestsSent) /\ (b = <<>> \/ Len(b) = 1)
  <2>1. b \in {<<>>} \cup {<<[cmd |-> "REQ_ACC_SETING", seting |-> s]>> : s \in Setings}
    BY DInvParts DEF DriverType
  <2>2. ASSUME NEW s \in Setings
        PROVE  /\ <<[cmd |-> "REQ_ACC_SETING", seting |-> s]>> \in Seq(RequestsSent)
               /\ Len(<<[cmd |-> "REQ_ACC_SETING", seting |-> s]>>) = 1
    <3> DEFINE y == [cmd |-> "REQ_ACC_SETING", seting |-> s]
    <3>1. y \in RequestsSent
      BY DEF RequestsSent
    <3> HIDE DEF y
    <3>2. <<y>> \in Seq(RequestsSent) /\ Len(<<y>>) = 1
      BY <3>1
    <3> QED
      BY <3>2 DEF y
  <2>3. <<>> \in Seq(RequestsSent)
    OBVIOUS
  <2> HIDE DEF b
  <2> QED
    BY <2>1, <2>2, <2>3
<1> HIDE DEF b
<1>5. /\ g \in Seq(RequestsSent) /\ Len(g) = Len(a) + Len(b)
      /\ \A i \in 1..(Len(a) + Len(b)) : g[i] = IF i <= Len(a) THEN a[i] ELSE b[i - Len(a)]
  BY <1>3, <1>4, ConcatProperties
<1>6. Len(b) \in Nat
  BY <1>4, LenProperties
<1> HIDE DEF g
<1>7. g # <<>> /\ g[1] = x
  BY <1>3, <1>5, <1>6, EmptySeq
<1>8. b # <<>> => g[Len(g)] = b[1]
  BY <1>3, <1>4, <1>5
<1>9. Configures(g, b)
  BY <1>1, <1>7, <1>8 DEF Configures
<1> QED
  BY <1>2, <1>5, <1>9 DEF b

LEMMA ConnectedSent ==
  ASSUME DInv, SentInv, NEW i \in DOMAIN ad.vec, Connected(i)
  PROVE  SentInv'
<1> DEFINE l == [ad.vec[i] EXCEPT !.con = "up"]
           g == Greeting(ad)
<1>1. l \in GoodLink /\ l.addr = ad.vec[i].addr /\ ad.vec[i].addr \in Accs
  BY SameView DEF GoodLink, LinkType
<1>2. ad' = SetLink(ad, i, l) /\ sent' = [sent EXCEPT ![ad.vec[i].addr] = g]
  BY DEF Connected, OnConnected
<1>3. g \in Seq(RequestsSent) /\ Configures(g, ad.seting)
  <2>1. ad.svrId = SvrId
    <3>1. ad.vec # <<>>
      BY DInvParts DEF DriverType
    <3> QED
      BY <3>1, DInvParts DEF Told
  <2> QED
    BY <2>1, GreetingConfigures
<1> HIDE DEF l, g
<1>4. /\ DOMAIN ad'.vec = DOMAIN ad.vec /\ ad'.vec[i] = l
      /\ \A j \in DOMAIN ad.vec : j # i => ad'.vec[j] = ad.vec[j]
      /\ ad' = [ad EXCEPT !.vec = ad'.vec]
  BY <1>1, <1>2, DInvParts, SetLinkGood
<1>5. ad'.seting = ad.seting
  BY <1>4, DInvParts DEF DriverType
<1>6. sent' \in [Accs -> Seq(RequestsSent)] /\ sent'[ad.vec[i].addr] = g
        /\ \A a \in Accs : a # ad.vec[i].addr => sent'[a] = sent[a]
  BY <1>1, <1>2, <1>3 DEF SentInv
<1>7. ASSUME NEW j \in DOMAIN ad'.vec, ad'.vec[j].con = "up"
      PROVE  Configures(sent'[ad'.vec[j].addr], ad'.seting)
  <2>1. CASE j = i
    BY <1>1, <1>3, <1>4, <1>5, <1>6, <2>1
  <2>2. CASE j # i
    <3>1. ad.vec[j].addr # ad.vec[i].addr /\ ad.vec[j].addr \in Accs
      BY <1>4, <1>7, <2>2, DInvParts, SameView DEF Distinct
    <3> QED
      BY <1>4, <1>5, <1>6, <1>7, <2>2, <3>1 DEF SentInv
  <2> QED
    BY <2>1, <2>2
<1> QED
  BY <1>6, <1>7 DEF SentInv

LEMMA DisconnectedSent ==
  ASSUME DInv, SentInv, NEW i \in DOMAIN ad.vec, Disconnected(i)
  PROVE  SentInv'
<1> DEFINE s == NoSessions
           l == [ad.vec[i] EXCEPT !.con = "idle", !.isReg = FALSE, !.sess = s]
<1>1. s \in SessType /\ \A c \in Cids : s[c] = NoSession
  BY NoSessionsType
<1>2. sent' = [sent EXCEPT ![ad.vec[i].addr] = <<>>] /\ ad' = SetLink(ad, i, l)
  BY DEF Disconnected, OnDisconnected
<1> HIDE DEF s
<1>3. l \in GoodLink /\ l.con = "idle" /\ ad.vec[i].addr \in Accs
  BY <1>1, SameView DEF GoodLink, LinkType, SessType
<1> HIDE DEF l
<1>4. /\ DOMAIN ad'.vec = DOMAIN ad.vec /\ ad'.vec[i] = l
      /\ \A j \in DOMAIN ad.vec : j # i => ad'.vec[j] = ad.vec[j]
      /\ ad' = [ad EXCEPT !.vec = ad'.vec]
  BY <1>2, <1>3, DInvParts, SetLinkGood
<1>5. ad'.seting = ad.seting
  BY <1>4, DInvParts DEF DriverType
<1>6. sent' \in [Accs -> Seq(RequestsSent)]
        /\ \A a \in Accs : a # ad.vec[i].addr => sent'[a] = sent[a]
  <2>1. <<>> \in Seq(RequestsSent)
    OBVIOUS
  <2> QED
    BY <1>2, <1>3, <2>1 DEF SentInv
<1>7. ASSUME NEW j \in DOMAIN ad'.vec, ad'.vec[j].con = "up"
      PROVE  /\ j \in DOMAIN ad.vec /\ ad.vec[j].con = "up" /\ ad'.vec[j].addr = ad.vec[j].addr
             /\ sent'[ad.vec[j].addr] = sent[ad.vec[j].addr]
  <2>1. j # i
    BY <1>3, <1>4, <1>7
  <2>2. ad.vec[j].addr # ad.vec[i].addr /\ ad.vec[j].addr \in Accs
    BY <1>4, <1>7, <2>1, DInvParts, SameView DEF Distinct
  <2> QED
    BY <1>4, <1>6, <1>7, <2>1, <2>2
<1> QED
  BY <1>5, <1>6, <1>7, QuietSent

(* A message leaves every link where it is, up or not, or takes them all.   *)
LEMMA OnRecvLinks ==
  ASSUME DInv, NEW i \in DOMAIN ad.vec, NEW m \in FromAcc, ad.vec[i].con = "up",
         ad' = OnRecv(ad, i, m)
  PROVE  /\ ad'.seting = ad.seting
         /\ ad'.fatal => ad'.vec = <<>>
         /\ ~ad'.fatal =>
              /\ DOMAIN ad'.vec = DOMAIN ad.vec
              /\ \A j \in DOMAIN ad.vec : ad'.vec[j].con = ad.vec[j].con /\ ad'.vec[j].addr = ad.vec[j].addr
<1>1. ad \in DriverType /\ ~ad.fatal /\ ad.vec[i] \in GoodLink
  BY DInvParts, SameView DEF Told, DriverType
<1>2. CASE ad' = ad
  BY <1>1, <1>2
<1>3. ASSUME NEW l \in GoodLink, l.con = ad.vec[i].con, l.addr = ad.vec[i].addr
      PROVE  /\ SetLink(ad, i, l) \in DriverType
             /\ SetLink(ad, i, l).seting = ad.seting /\ ~SetLink(ad, i, l).fatal
             /\ DOMAIN SetLink(ad, i, l).vec = DOMAIN ad.vec
             /\ \A j \in DOMAIN ad.vec :
                  /\ SetLink(ad, i, l).vec[j].con = ad.vec[j].con
                  /\ SetLink(ad, i, l).vec[j].addr = ad.vec[j].addr
  <2> DEFINE e == SetLink(ad, i, l)
  <2>1. /\ e \in DriverType /\ e = [ad EXCEPT !.vec = e.vec]
        /\ DOMAIN e.vec = DOMAIN ad.vec /\ e.vec[i] = l
        /\ \A j \in DOMAIN ad.vec : j # i => e.vec[j] = ad.vec[j]
    BY <1>1, <1>3, SetLinkGood
  <2> HIDE DEF e
  <2>2. e.seting = ad.seting /\ e.fatal = ad.fatal
    BY <1>1, <2>1 DEF DriverType
  <2>3. /\ e \in DriverType /\ e.seting = ad.seting /\ ~e.fatal /\ DOMAIN e.vec = DOMAIN ad.vec
        /\ \A j \in DOMAIN ad.vec : e.vec[j].con = ad.vec[j].con /\ e.vec[j].addr = ad.vec[j].addr
    BY <1>1, <1>3, <2>1, <2>2
  <2> QED
    BY <2>3 DEF e
<1>4. ASSUME NEW c \in Cids, NEW uin \in Uins \cup {0, NoSession}, ad.vec[i].isReg,
             ad' = SetSession(ad, i, c, uin)
      PROVE  /\ ad'.seting = ad.seting /\ ~ad'.fatal /\ DOMAIN ad'.vec = DOMAIN ad.vec
             /\ \A j \in DOMAIN ad.vec : ad'.vec[j].con = ad.vec[j].con /\ ad'.vec[j].addr = ad.vec[j].addr
  <2> DEFINE s == [ad.vec[i].sess EXCEPT ![c] = uin]
             l == [ad.vec[i] EXCEPT !.sess = s]
  <2>1. s \in SessType
    BY <1>1 DEF GoodLink, LinkType, SessType
  <2>2. ad' = SetLink(ad, i, l)
    BY <1>4 DEF SetSession
  <2> HIDE DEF s
  <2>3. l \in GoodLink /\ l.con = ad.vec[i].con /\ l.addr = ad.vec[i].addr
    BY <1>1, <1>4, <2>1 DEF GoodLink, LinkType, SessType
  <2> HIDE DEF l
  <2> QED
    BY <1>3, <2>2, <2>3
<1>5. CASE m.cmd = "RSP_REG"
  <2> DEFINE l == [ad.vec[i] EXCEPT !.isReg = TRUE]
             e == SetLink(ad, i, l)
  <2>1. CASE ad' = SetFatal(ad)
    <3> DEFINE v == <<>>
               r == Append(ad.results, 0)
    <3>1. ad' = [ad EXCEPT !.fatal = TRUE, !.vec = v, !.results = r]
      BY <2>1 DEF SetFatal
    <3> HIDE DEF v, r
    <3>2. ad'.seting = ad.seting /\ ad'.fatal /\ ad'.vec = v
      BY <1>1, <3>1 DEF DriverType
    <3> QED
      BY <3>2 DEF v
  <2>2. CASE ad.vec[i].con = "up" /\ ad' = SetRegResult(e)
    <3>1. l \in GoodLink /\ l.con = ad.vec[i].con /\ l.addr = ad.vec[i].addr
      BY <1>1, <2>2 DEF GoodLink, LinkType
    <3> HIDE DEF l
    <3>2. /\ e \in DriverType /\ e.seting = ad.seting /\ ~e.fatal /\ DOMAIN e.vec = DOMAIN ad.vec
          /\ \A j \in DOMAIN ad.vec : e.vec[j].con = ad.vec[j].con /\ e.vec[j].addr = ad.vec[j].addr
      BY <1>3, <3>1
    <3> HIDE DEF e
    <3>3. ad'.vec = e.vec /\ ad'.seting = e.seting /\ ad'.fatal = e.fatal
      BY <2>2, <3>2 DEF SetRegResult, DriverType
    <3> QED
      BY <3>2, <3>3
  <2> QED
    BY <1>2, <1>5, <2>1, <2>2 DEF OnRecv, HandleRspReg
<1>6. CASE m.cmd # "RSP_REG"
  <2>1. m.cid \in Cids /\ NoSession \in Uins \cup {0, NoSession}
    BY <1>6, MessageFields
  <2>2. m.cmd \in {"NTF_CREATE_SESSION", "RSP_BROADCAST_UIN"} => m.uin \in Uins \cup {0, NoSession}
    BY MessageFields
  <2>3. \/ ad' = ad
        \/ /\ ad.vec[i].isReg
           /\ \E uin \in Uins \cup {0, NoSession} : ad' = SetSession(ad, i, m.cid, uin)
    BY <1>6, <2>1, <2>2 DEF OnRecv, HandleCreateSession, HandleMsgNtfDiscon, HandleMsgBroadcastUin
  <2> QED
    BY <1>2, <1>4, <2>1, <2>3
<1> QED
  BY <1>5, <1>6

LEMMA ReceivedSent ==
  ASSUME DInv, SentInv, NEW i \in DOMAIN ad.vec, NEW m \in FromAcc, Received(i, m)
  PROVE  SentInv'
<1>1. /\ ad.vec[i].con = "up" /\ ad' = OnRecv(ad, i, m)
      /\ sent' = IF ad'.fatal THEN [a \in Accs |-> <<>>] ELSE sent
  BY DEF Received
<1>2. sent' \in [Accs -> Seq(RequestsSent)]
  <2>1. <<>> \in Seq(RequestsSent)
    OBVIOUS
  <2> QED
    BY <1>1, <2>1 DEF SentInv
<1>3. CASE ad'.fatal
  <2>1. DOMAIN ad'.vec = {} /\ ad'.seting = ad.seting
    <3>1. ad'.vec = <<>> /\ ad'.seting = ad.seting
      BY <1>1, <1>3, OnRecvLinks
    <3> QED
      BY <3>1
  <2> QED
    BY <1>2, <2>1, QuietSent
<1>4. CASE ~ad'.fatal
  BY <1>1, <1>2, <1>4, OnRecvLinks, QuietSent
<1> QED
  BY <1>3, <1>4

LEMMA AlwaysSent == Spec => [](DInv /\ SentInv)
<1>1. Init => SentInv
  <2> SUFFICES ASSUME Init PROVE SentInv
    OBVIOUS
  <2>1. <<>> \in Seq(RequestsSent) /\ DOMAIN <<>> = {}
    OBVIOUS
  <2>2. ad.vec = <<>>
    BY DEF Init, NewConMgr
  <2> QED
    BY <2>1, <2>2 DEF Init, SentInv
<1>2. DInv /\ SentInv /\ [Next]_adVars => SentInv'
  <2> SUFFICES ASSUME DInv, SentInv, [Next]_adVars PROVE SentInv'
    OBVIOUS
  <2>1. CASE InitDriver \/ AddAccs
    BY <2>1, AddLinksSent
  <2>2. CASE ChooseSeting
    BY <2>2, ChooseSetingSent
  <2>3. CASE \E i \in DOMAIN ad.vec :
               Connected(i) \/ Disconnected(i) \/ \E m \in FromAcc : Received(i, m)
    BY <2>3, ConnectedSent, DisconnectedSent, ReceivedSent
  <2>4. CASE UNCHANGED adVars
    BY <2>4 DEF adVars, SentInv
  <2> QED
    BY <2>1, <2>2, <2>3, <2>4 DEF Next
<1> QED
  BY <1>1, <1>2, InitInv, Inductive, PTL DEF Spec

(* Every acc that is connected, at first or again, was asked to register    *)
(* the server before anything else and has the settings chosen last.        *)
THEOREM ConfiguredCorrect == Spec => []AccsAreConfigured
<1>1. DInv /\ SentInv => AccsAreConfigured
  BY DEF SentInv, Configures, AccsAreConfigured
<1> QED
  BY <1>1, AlwaysSent, PTL
==============================================================================
