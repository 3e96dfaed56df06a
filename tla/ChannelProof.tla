---------------------------- MODULE ChannelProof ----------------------------
(***************************************************************************)
(* Proofs about what acc sends to servers, for every set of clients,       *)
(* connections, packets and requests and every size of the buffers: what   *)
(* the messages in the sockets say of clients and of each other.           *)
(*                                                                         *)
(* A message in a socket outlives the state it was sent in.  The argument  *)
(* is that what each says stays true (Stands), since a client only moves   *)
(* on (LifeProof) and a registered connection stays registered, and that   *)
(* what a handler sends fits behind all that is there already (Fresh).     *)
(***************************************************************************)
EXTENDS LifeProof, SequenceTheorems

(* The messages a driver that is not registered throws away, and those that *)
(* are about a client acc has to have.                                      *)
Traffic     == {"NTF_FORWARD", "NTF_DISCON", "RSP_BROADCAST_UIN"}
AboutClient == {"NTF_CREATE_SESSION", "NTF_VERIFY_REQ", "NTF_FORWARD",
                "NTF_DISCON", "RSP_BROADCAST_UIN", "RSP_CACHE_MSG"}

Registers(m)  == m.cmd = "RSP_REG" /\ m.svrId # 0
SameAsk(m, n) == m.cmd = "NTF_VERIFY_REQ" /\ n.cmd = "NTF_VERIFY_REQ" /\ m.cid = n.cid

(* What message m in the socket of k says of clients and connections. *)
Stands(m, k, clients, conns) ==
  /\ m.cmd = "NTF_VERIFY_REQ" => StageOf(clients[m.cid]) \in {"asked", "in", "gone"}
  /\ m.cmd = "NTF_FORWARD" => StageOf(clients[m.cid]) \in {"in", "gone"}
  /\ m.cmd = "NTF_DISCON" => StageOf(clients[m.cid]) = "gone"
  /\ m.cmd \in Traffic => conns[k].svrId # 0

(* Message m may be somewhere in front of message n in one socket. *)
InOrder(m, n) ==
  /\ m.cmd \in Traffic => ~Registers(n)
  /\ m.cmd = "NTF_DISCON" /\ n.cmd \in AboutClient => m.cid # n.cid
  /\ ~SameAsk(m, n)

ChanInv(socks, clients, conns) ==
  /\ socks \in [Conns -> Seq(ToSvrMsg)]
  /\ \A k \in Conns : \A i \in DOMAIN socks[k] : Stands(socks[k][i], k, clients, conns)
  /\ \A k \in Conns : \A i, j \in DOMAIN socks[k] : i < j => InOrder(socks[k][i], socks[k][j])
  /\ \A k, l \in Conns : k # l =>
       \A i \in DOMAIN socks[k], j \in DOMAIN socks[l] : ~SameAsk(socks[k][i], socks[l][j])

(* The read callback that is on the stack is that of a connection which     *)
(* still exists.                                                            *)
ReadInv == reading.left > 0 => reading.cid \in Cids /\ Alive(cli[reading.cid])

CInv == ChanInv(toSvr, cli, inner) /\ ReadInv
------------------------------------------------------------------------------
(* The element with index i of a finite ordered set, as Nth finds it. *)

LEMMA NthIn ==
  ASSUME NEW S \in SUBSET Nat, IsFiniteSet(S), NEW i \in 0..(Cardinality(S) - 1)
  PROVE  Nth(S, i) \in S /\ Cardinality({j \in S : j < Nth(S, i)}) = i
<1> DEFINE n        == Cardinality(S)
           below(k) == {j \in S : j < k}
           rank     == [k \in S |-> Cardinality(below(k))]
<1>1. n \in Nat /\ IsFiniteSet(0..(n - 1)) /\ Cardinality(0..(n - 1)) = n
  <2>1. n \in Nat
    BY FS_CardinalityType
  <2>2. n - 1 \in Int /\ 0 \in Int
    BY <2>1
  <2>3. IsFiniteSet(0..(n - 1)) /\ Cardinality(0..(n - 1)) = IF 0 > n - 1 THEN 0 ELSE (n - 1) - 0 + 1
    BY <2>2, FS_Interval
  <2> QED
    BY <2>1, <2>3
<1>2. ASSUME NEW k \in S
      PROVE  IsFiniteSet(below(k)) /\ Cardinality(below(k)) \in 0..(n - 1)
  <2> DEFINE T == below(k)
  <2>1. T \in SUBSET S /\ T # S
    OBVIOUS
  <2> HIDE DEF T
  <2>2. IsFiniteSet(T) /\ Cardinality(T) <= n /\ (n = Cardinality(T) => S = T)
    BY <2>1, FS_Subset
  <2>3. Cardinality(T) \in Nat
    BY <2>2, FS_CardinalityType
  <2>4. IsFiniteSet(T) /\ Cardinality(T) \in 0..(n - 1)
    BY <1>1, <2>1, <2>2, <2>3
  <2> QED
    BY <2>4 DEF T
<1>3. ASSUME NEW j \in S, NEW k \in S, j < k
      PROVE  rank[j] < rank[k]
  <2>1. IsFiniteSet(below(j)) /\ j \notin below(j)
    BY <1>2
  <2>2. IsFiniteSet(below(k)) /\ below(j) \cup {j} \subseteq below(k)
    <3>1. IsFiniteSet(below(k))
      BY <1>2
    <3>2. ASSUME NEW x \in S, x < j \/ x = j
          PROVE  x < k
      BY <1>3, <3>2
    <3>3. below(j) \cup {j} \subseteq below(k)
      BY <3>2
    <3> QED
      BY <3>1, <3>3
  <2>3. Cardinality(below(j) \cup {j}) = Cardinality(below(j)) + 1
    BY <2>1, FS_AddElement
  <2>4. Cardinality(below(j) \cup {j}) <= Cardinality(below(k))
    BY <2>2, FS_Subset
  <2>5. Cardinality(below(j)) \in Nat /\ Cardinality(below(k)) \in Nat
    <3> HIDE DEF below
    <3> QED
      BY <1>1, <1>2
  <2> QED
    BY <2>3, <2>4, <2>5
<1>4. rank \in [S -> 0..(n - 1)]
  <2>1. \A k \in S : Cardinality(below(k)) \in 0..(n - 1)
    BY <1>2
  <2> QED
    BY <2>1
<1>5. rank \in Injection(S, 0..(n - 1))
  <2>1. \A j, k \in S : j # k => rank[j] # rank[k]
    <3> SUFFICES ASSUME NEW j \in S, NEW k \in S, j # k PROVE rank[j] # rank[k]
      OBVIOUS
    <3>1. j < k \/ k < j
      OBVIOUS
    <3>2. rank[j] \in Int /\ rank[k] \in Int
      BY <1>4
    <3> QED
      BY <1>3, <3>1, <3>2
  <2> HIDE DEF rank
  <2> QED
    BY <1>4, <2>1 DEF Injection, IsInjective
<1>6. rank \in Surjection(S, 0..(n - 1))
  <2> HIDE DEF rank
  <2> QED
    BY <1>1, <1>5, FS_Injection
<1>7. \E k \in S : Cardinality(below(k)) = i
  <2>1. \E k \in S : rank[k] = i
    <3> HIDE DEF rank
    <3> QED
      BY <1>6 DEF Surjection
  <2> QED
    BY <2>1
<1> QED
  BY <1>7 DEF Nth
------------------------------------------------------------------------------
(* Sending puts a beginning of what the handler sends behind what is there. *)

LEMMA SendAppends ==
  ASSUME NEW base, NEW msgs \in [Conns -> Seq(ToSvrMsg)], Send(base, msgs),
         toSvr \in [Conns -> Seq(ToSvrMsg)]
  PROVE  /\ toSvr' \in [Conns -> Seq(ToSvrMsg)]
         /\ \A k \in Conns : \A i \in DOMAIN toSvr'[k] :
              \/ i \in DOMAIN toSvr[k] /\ toSvr'[k][i] = toSvr[k][i]
              \/ \E n \in DOMAIN msgs[k] : i = Len(toSvr[k]) + n /\ toSvr'[k][i] = msgs[k][n]
<1>1. ASSUME NEW k \in Conns
      PROVE  /\ toSvr'[k] \in Seq(ToSvrMsg)
             /\ \A i \in DOMAIN toSvr'[k] :
                  \/ i \in DOMAIN toSvr[k] /\ toSvr'[k][i] = toSvr[k][i]
                  \/ \E n \in DOMAIN msgs[k] : i = Len(toSvr[k]) + n /\ toSvr'[k][i] = msgs[k][n]
  <2> DEFINE a == toSvr[k]
             b == msgs[k]
             c == a \o b
  <2>1. a \in Seq(ToSvrMsg) /\ b \in Seq(ToSvrMsg)
    OBVIOUS
  <2> HIDE DEF a, b
  <2>2. /\ c \in Seq(ToSvrMsg) /\ Len(c) = Len(a) + Len(b)
        /\ \A i \in 1..(Len(a) + Len(b)) : c[i] = IF i <= Len(a) THEN a[i] ELSE b[i - Len(a)]
        /\ Len(a) \in Nat /\ DOMAIN a = 1..Len(a) /\ Len(b) \in Nat /\ DOMAIN b = 1..Len(b)
    BY <2>1, ConcatProperties, LenProperties
  <2> HIDE DEF c
  <2>3. ASSUME NEW m \in 0..Len(c), toSvr'[k] = SubSeq(c, 1, m)
        PROVE  /\ toSvr'[k] \in Seq(ToSvrMsg)
               /\ \A i \in DOMAIN toSvr'[k] :
                    \/ i \in DOMAIN a /\ toSvr'[k][i] = a[i]
                    \/ \E n \in DOMAIN b : i = Len(a) + n /\ toSvr'[k][i] = b[n]
    <3> DEFINE d == SubSeq(c, 1, m)
    <3>1. m \in Nat /\ m <= Len(a) + Len(b)
      BY <2>2
    <3>2. \A i \in 1..m : c[i] \in ToSvrMsg
      BY <2>2, <3>1, ElementOfSeq
    <3>3. /\ d \in Seq(ToSvrMsg) /\ Len(d) = IF 1 <= m THEN m - 1 + 1 ELSE 0
          /\ \A i \in 1..(m - 1 + 1) : d[i] = c[1 + i - 1]
      BY <3>1, <3>2, SubSeqProperties
    <3> HIDE DEF d
    <3>4. DOMAIN d = 1..m /\ \A i \in 1..m : d[i] = c[i]
      BY <3>1, <3>3, LenProperties
    <3>5. ASSUME NEW i \in 1..m
          PROVE  \/ i \in DOMAIN a /\ d[i] = a[i]
                 \/ \E n \in DOMAIN b : i = Len(a) + n /\ d[i] = b[n]
      <4>1. CASE i <= Len(a)
        BY <2>2, <3>1, <3>4, <4>1
      <4>2. CASE i > Len(a)
        <5>1. i - Len(a) \in DOMAIN b /\ i = Len(a) + (i - Len(a))
          BY <2>2, <3>1, <4>2
        <5>2. d[i] = b[i - Len(a)]
          BY <2>2, <3>1, <3>4, <4>2
        <5> QED
          BY <5>1, <5>2
      <4> QED
        BY <2>2, <3>1, <4>1, <4>2
    <3> QED
      BY <2>3, <3>3, <3>4, <3>5 DEF d
  <2>4. toSvr'[k] = a \/ \E m \in 0..Len(c) : toSvr'[k] = SubSeq(c, 1, m)
    <3>1. CASE base[k].con # "open"
      BY <3>1 DEF Send, a
    <3>2. CASE base[k].con = "open" /\ Overflows(base, msgs, k)
      <4>1. toSvr'[k] = SubSeq(c, 1, SendBufMax) /\ Len(a) + Len(b) > SendBufMax
        BY <3>2 DEF Send, Overflows, a, b, c
      <4>2. SendBufMax \in 0..Len(c)
        BY <2>2, <4>1, BoundsAssumption
      <4> QED
        BY <4>1, <4>2
    <3>3. CASE base[k].con = "open" /\ ~Overflows(base, msgs, k)
      <4>1. toSvr'[k] = c
        BY <3>3 DEF Send, a, b, c
      <4>2. c = SubSeq(c, 1, Len(c)) /\ Len(c) \in 0..Len(c)
        BY <2>2, SubSeqFull
      <4> QED
        BY <4>1, <4>2
    <3> QED
      BY <3>1, <3>2, <3>3
  <2>5. CASE toSvr'[k] = a
    BY <2>1, <2>5 DEF a, b
  <2> QED
    BY <2>3, <2>4, <2>5 DEF a, b
<1>2. toSvr' = [k \in Conns |-> toSvr'[k]]
  BY DEF Send
<1>3. toSvr' \in [Conns -> Seq(ToSvrMsg)]
  BY <1>1, <1>2
<1> QED
  BY <1>1, <1>3
------------------------------------------------------------------------------
(* What a step does to what the messages in the sockets say. *)

(* Clients move on, and connections that registered stay so. *)
Forth ==
  /\ \A c \in Cids : \A later \in {{"asked", "in", "gone"}, {"in", "gone"}, {"gone"}} :
       StageOf(cli[c]) \in later => StageOf(cli'[c]) \in later
  /\ \A k \in Conns : toSvr'[k] # <<>> /\ inner[k].svrId # 0 => inner'[k].svrId # 0

LEMMA StageForth ==
  ASSUME Life!LifeNext, NEW c \in Cids,
         NEW later \in {{"asked", "in", "gone"}, {"in", "gone"}, {"gone"}}
  PROVE  StageOf(cli[c]) \in later => StageOf(cli'[c]) \in later
<1>1. CASE LifeOf(cli') = LifeOf(cli)
  BY <1>1 DEF LifeOf
<1>2. ASSUME NEW d \in Cids, NEW from, NEW to, StageOf(cli[d]) = from,
             LifeOf(cli') = [LifeOf(cli) EXCEPT ![d] = to],
             from \in later => to \in later
      PROVE  StageOf(cli[c]) \in later => StageOf(cli'[c]) \in later
  <2>1. StageOf(cli'[c]) = IF c = d THEN to ELSE StageOf(cli[c])
    <3>1. LifeOf(cli')[c] = StageOf(cli'[c]) /\ LifeOf(cli)[c] = StageOf(cli[c])
      BY DEF LifeOf
    <3>2. LifeOf(cli')[c] = IF c = d THEN to ELSE LifeOf(cli)[c]
      BY <1>2 DEF LifeOf
    <3> QED
      BY <3>1, <3>2
  <2> QED
    BY <1>2, <2>1
<1>3. ASSUME NEW d \in Cids, NEW from, NEW to, Life!Moves(d, from, to),
             from \in later => to \in later
      PROVE  StageOf(cli[c]) \in later => StageOf(cli'[c]) \in later
  BY <1>2, <1>3 DEF Life!Moves, LifeOf
<1>4. CASE \E d \in Cids : Life!Connect(d) \/ Life!Ask(d) \/ Life!Admit(d) \/ Life!Leave(d)
  <2>1. PICK d \in Cids : Life!Connect(d) \/ Life!Ask(d) \/ Life!Admit(d) \/ Life!Leave(d)
    BY <1>4
  <2>2. CASE Life!Connect(d)
    BY <1>3, <2>2 DEF Life!Connect
  <2>3. CASE Life!Ask(d)
    BY <1>3, <2>3 DEF Life!Ask
  <2>4. CASE Life!Admit(d)
    BY <1>3, <2>4 DEF Life!Admit
  <2>5. CASE Life!Leave(d)
    BY <1>3, <2>5 DEF Life!Leave
  <2> QED
    BY <2>1, <2>2, <2>3, <2>4, <2>5
<1> QED
  BY <1>1, <1>4 DEF Life!LifeNext, LifeOf

(* Messages that are about a client name one. *)
LEMMA MsgCid ==
  ASSUME NEW m \in ToSvrMsg, m.cmd \in AboutClient
  PROVE  m.cid \in Cids
BY DEF ToSvrMsg, AboutClient

(* What a message says stays true while it is in the socket. *)
LEMMA StandsOn ==
  ASSUME Forth, NEW m \in ToSvrMsg, NEW k \in Conns, toSvr'[k] # <<>>,
         Stands(m, k, cli, inner)
  PROVE  Stands(m, k, cli', inner')
<1>1. m.cmd \in Traffic => inner'[k].svrId # 0
  BY DEF Stands, Forth
<1>2. m.cmd = "NTF_VERIFY_REQ" => StageOf(cli'[m.cid]) \in {"asked", "in", "gone"}
  BY MsgCid DEF Stands, Forth, AboutClient
<1>3. m.cmd = "NTF_FORWARD" => StageOf(cli'[m.cid]) \in {"in", "gone"}
  BY MsgCid DEF Stands, Forth, AboutClient
<1>4. m.cmd = "NTF_DISCON" => StageOf(cli'[m.cid]) = "gone"
  BY MsgCid DEF Stands, Forth, AboutClient
<1> QED
  BY <1>1, <1>2, <1>3, <1>4 DEF Stands

(* A message that fits behind all that is in the sockets before the step. *)
Fresh(m, k) ==
  /\ Stands(m, k, cli', inner')
  /\ m.cmd \in AboutClient => StageOf(cli[m.cid]) # "gone"
  /\ m.cmd = "NTF_VERIFY_REQ" => StageOf(cli[m.cid]) \notin {"asked", "in", "gone"}
  /\ Registers(m) => inner[k].svrId = 0

LEMMA FreshFits ==
  ASSUME NEW m, NEW k, Stands(m, k, cli, inner), NEW n, NEW l, Fresh(n, l)
  PROVE  /\ ~SameAsk(m, n) /\ ~SameAsk(n, m)
         /\ k = l => InOrder(m, n)
<1>1. ~SameAsk(m, n) /\ ~SameAsk(n, m)
  BY DEF Fresh, Stands, SameAsk
<1>2. k = l /\ m.cmd \in Traffic => ~Registers(n)
  BY DEF Fresh, Stands
<1>3. m.cmd = "NTF_DISCON" /\ n.cmd \in AboutClient => m.cid # n.cid
  BY DEF Fresh, Stands
<1> QED
  BY <1>1, <1>2, <1>3 DEF InOrder

(* What one handler sends: each message fits behind all that is there, and  *)
(* they fit behind each other.                                              *)
Batch(msgs) ==
  /\ msgs \in [Conns -> Seq(ToSvrMsg)]
  /\ \A k \in Conns : \A n \in DOMAIN msgs[k] : Fresh(msgs[k][n], k)
  /\ \A k \in Conns : \A n, o \in DOMAIN msgs[k] : n < o => InOrder(msgs[k][n], msgs[k][o])
  /\ \A k, l \in Conns : k # l =>
       \A n \in DOMAIN msgs[k], o \in DOMAIN msgs[l] : ~SameAsk(msgs[k][n], msgs[l][o])

LEMMA SendChan ==
  ASSUME ChanInv(toSvr, cli, inner), Life!LifeNext,
         NEW base \in [Conns -> InnerType], NEW msgs, Batch(msgs), Send(base, msgs),
         \A k \in Conns : inner[k].svrId # 0 => base[k].svrId # 0
  PROVE  ChanInv(toSvr', cli', inner')
<1>1. Forth
  <2>1. \A k \in Conns : inner'[k].svrId = base[k].svrId
    BY DEF Send, DisConnect, InnerType
  <2> QED
    BY <2>1, StageForth DEF Forth
<1> DEFINE Old(k, i)    == i \in DOMAIN toSvr[k] /\ toSvr'[k][i] = toSvr[k][i]
           New(k, i, n) == n \in DOMAIN msgs[k] /\ i = Len(toSvr[k]) + n /\ toSvr'[k][i] = msgs[k][n]
<1>2. toSvr' \in [Conns -> Seq(ToSvrMsg)]
  BY SendAppends DEF Batch, ChanInv
<1>3. ASSUME NEW k \in Conns, NEW i \in DOMAIN toSvr'[k]
      PROVE  Old(k, i) \/ \E n : New(k, i, n)
  BY SendAppends DEF Batch, ChanInv
<1>4. ASSUME NEW k \in Conns, NEW i, Old(k, i)
      PROVE  toSvr'[k][i] \in ToSvrMsg /\ Stands(toSvr'[k][i], k, cli, inner)
  <2>1. toSvr[k] \in Seq(ToSvrMsg)
    BY DEF ChanInv
  <2>2. toSvr[k][i] \in ToSvrMsg
    BY <1>4, <2>1, ElementOfSeq, LenProperties
  <2> QED
    BY <1>4, <2>2 DEF ChanInv
<1>5. ASSUME NEW k \in Conns, NEW i, NEW n, New(k, i, n)
      PROVE  Fresh(toSvr'[k][i], k)
  BY <1>5 DEF Batch
<1>6. ASSUME NEW k \in Conns
      PROVE  /\ Len(toSvr[k]) \in Nat /\ DOMAIN toSvr[k] = 1..Len(toSvr[k])
             /\ Len(msgs[k]) \in Nat /\ DOMAIN msgs[k] = 1..Len(msgs[k])
  <2>1. toSvr[k] \in Seq(ToSvrMsg) /\ msgs[k] \in Seq(ToSvrMsg)
    BY DEF ChanInv, Batch
  <2> QED
    BY <2>1, LenProperties
<1>7. ASSUME NEW k \in Conns, NEW i \in DOMAIN toSvr'[k]
      PROVE  Stands(toSvr'[k][i], k, cli', inner')
  <2>1. CASE Old(k, i)
    <3>1. toSvr'[k] # <<>>
      BY <1>7, EmptySeq
    <3> HIDE DEF Old
    <3> QED
      BY <1>1, <1>4, <2>1, <3>1, StandsOn
  <2>2. CASE \E n : New(k, i, n)
    <3> HIDE DEF New
    <3> QED
      BY <1>5, <2>2 DEF Fresh
  <2> QED
    BY <1>3, <2>1, <2>2
<1>8. ASSUME NEW k \in Conns, NEW i \in DOMAIN toSvr'[k], NEW j \in DOMAIN toSvr'[k], i < j
      PROVE  InOrder(toSvr'[k][i], toSvr'[k][j])
  <2>1. CASE Old(k, i) /\ Old(k, j)
    BY <1>8, <2>1 DEF ChanInv
  <2>2. CASE Old(k, i) /\ \E n : New(k, j, n)
    <3> HIDE DEF Old, New
    <3> QED
      BY <1>4, <1>5, <2>2, FreshFits
  <2>3. CASE (\E n : New(k, i, n)) /\ Old(k, j)
    <3>1. PICK n : New(k, i, n)
      BY <2>3
    <3> QED
      BY <1>6, <1>8, <2>3, <3>1
  <2>4. CASE (\E n : New(k, i, n)) /\ \E n : New(k, j, n)
    <3>1. PICK n, o : New(k, i, n) /\ New(k, j, o)
      BY <2>4
    <3>2. n \in DOMAIN msgs[k] /\ o \in DOMAIN msgs[k] /\ n < o
      BY <1>6, <1>8, <3>1
    <3> QED
      BY <3>1, <3>2 DEF Batch
  <2> HIDE DEF Old, New
  <2> QED
    BY <1>3, <2>1, <2>2, <2>3, <2>4
<1>9. ASSUME NEW k \in Conns, NEW l \in Conns, k # l,
             NEW i \in DOMAIN toSvr'[k], NEW j \in DOMAIN toSvr'[l]
      PROVE  ~SameAsk(toSvr'[k][i], toSvr'[l][j])
  <2>1. CASE Old(k, i) /\ Old(l, j)
    BY <1>9, <2>1 DEF ChanInv
  <2>2. CASE \E n, o : New(k, i, n) /\ New(l, j, o)
    BY <1>9, <2>2 DEF Batch
  <2>3. CASE (Old(k, i) /\ \E n : New(l, j, n)) \/ (Old(l, j) /\ \E n : New(k, i, n))
    <3> HIDE DEF Old, New
    <3> QED
      BY <1>4, <1>5, <2>3, FreshFits
  <2> HIDE DEF Old, New
  <2> QED
    BY <1>3, <2>1, <2>2, <2>3
<1> QED
  BY <1>2, <1>7, <1>8, <1>9 DEF ChanInv

(* A step that takes messages out of the sockets, or none. *)
LEMMA TakeChan ==
  ASSUME ChanInv(toSvr, cli, inner), Forth, toSvr' \in [Conns -> Seq(ToSvrMsg)],
         NEW d \in [Conns -> Nat],
         \A k \in Conns : \A i \in DOMAIN toSvr'[k] :
            i + d[k] \in DOMAIN toSvr[k] /\ toSvr'[k][i] = toSvr[k][i + d[k]]
  PROVE  ChanInv(toSvr', cli', inner')
<1>1. ASSUME NEW k \in Conns, NEW i \in DOMAIN toSvr'[k]
      PROVE  Stands(toSvr'[k][i], k, cli', inner')
  <2>1. toSvr[k] \in Seq(ToSvrMsg) /\ toSvr'[k] # <<>>
    BY <1>1, EmptySeq DEF ChanInv
  <2>2. toSvr[k][i + d[k]] \in ToSvrMsg
    BY <2>1, ElementOfSeq, LenProperties
  <2> QED
    BY <2>1, <2>2, StandsOn DEF ChanInv
<1>2. ASSUME NEW k \in Conns, NEW i \in DOMAIN toSvr'[k], NEW j \in DOMAIN toSvr'[k], i < j
      PROVE  InOrder(toSvr'[k][i], toSvr'[k][j])
  <2>1. i \in Nat /\ j \in Nat /\ d[k] \in Nat
    BY LenProperties
  <2>2. i + d[k] < j + d[k]
    BY <1>2, <2>1
  <2> QED
    BY <1>2, <2>2 DEF ChanInv
<1>3. ASSUME NEW k \in Conns, NEW l \in Conns, k # l,
             NEW i \in DOMAIN toSvr'[k], NEW j \in DOMAIN toSvr'[l]
      PROVE  ~SameAsk(toSvr'[k][i], toSvr'[l][j])
  BY <1>3 DEF ChanInv
<1> QED
  BY <1>1, <1>2, <1>3 DEF ChanInv
------------------------------------------------------------------------------
(* The batches the handlers send. *)

LEMMA SendKeepsIds ==
  ASSUME NEW base \in [Conns -> InnerType], NEW msgs, Send(base, msgs), NEW k \in Conns
  PROVE  inner'[k].svrId = base[k].svrId
BY DEF Send, DisConnect, InnerType

(* One message, to each of a set of connections. *)
ToEach(K, m) == [j \in Conns |-> IF j \in K THEN <<m>> ELSE <<>>]

LEMMA ToEachIs ==
  ASSUME NEW K, NEW m \in ToSvrMsg
  PROVE  /\ ToEach(K, m) \in [Conns -> Seq(ToSvrMsg)]
         /\ \A k \in Conns : \A n \in DOMAIN ToEach(K, m)[k] :
              k \in K /\ n = 1 /\ ToEach(K, m)[k][n] = m
         /\ \A k \in Conns \cap K : 1 \in DOMAIN ToEach(K, m)[k]
<1> DEFINE msgs == ToEach(K, m)
<1>1. <<m>> \in Seq(ToSvrMsg) /\ <<>> \in Seq(ToSvrMsg)
  OBVIOUS
<1>2. msgs \in [Conns -> Seq(ToSvrMsg)]
  BY <1>1 DEF ToEach
<1>3. ASSUME NEW k \in Conns
      PROVE  /\ \A n \in DOMAIN msgs[k] : k \in K /\ n = 1 /\ msgs[k][n] = m
             /\ k \in K => 1 \in DOMAIN msgs[k]
  <2>1. CASE k \in K
    <3>1. msgs[k] = <<m>>
      BY <2>1 DEF ToEach
    <3> HIDE DEF msgs
    <3> QED
      BY <2>1, <3>1
  <2>2. CASE k \notin K
    <3>1. msgs[k] = <<>>
      BY <2>2 DEF ToEach
    <3> HIDE DEF msgs
    <3> QED
      BY <2>2, <3>1
  <2> QED
    BY <2>1, <2>2
<1> QED
  BY <1>2, <1>3

LEMMA OneEach ==
  ASSUME NEW K, NEW m \in ToSvrMsg, \A k \in K \cap Conns : Fresh(m, k),
         m.cmd # "NTF_VERIFY_REQ" \/ \E k : K = {k}
  PROVE  Batch(ToEach(K, m))
<1> DEFINE msgs == ToEach(K, m)
<1>1. /\ msgs \in [Conns -> Seq(ToSvrMsg)]
      /\ \A k \in Conns : \A n \in DOMAIN msgs[k] : k \in K /\ n = 1 /\ msgs[k][n] = m
  BY ToEachIs
<1> HIDE DEF msgs
<1>2. \A k \in Conns : \A n \in DOMAIN msgs[k] : Fresh(msgs[k][n], k)
  BY <1>1
<1>3. \A k \in Conns : \A n, o \in DOMAIN msgs[k] : n < o => InOrder(msgs[k][n], msgs[k][o])
  <2>1. \A k \in Conns : \A n, o \in DOMAIN msgs[k] : n = 1 /\ o = 1
    BY <1>1
  <2> QED
    BY <2>1
<1>4. \A k, l \in Conns : k # l =>
        \A n \in DOMAIN msgs[k], o \in DOMAIN msgs[l] : ~SameAsk(msgs[k][n], msgs[l][o])
  BY <1>1 DEF SameAsk
<1> QED
  BY <1>1, <1>2, <1>3, <1>4 DEF Batch, msgs

LEMMA SendToEach ==
  ASSUME NEW k, NEW K, NEW m
  PROVE  /\ SendTo(k, m) => Send(inner, ToEach({k}, m))
         /\ SendAll(K, m) => Send(inner, ToEach(K, m))
<1>1. ToEach({k}, m) = [j \in Conns |-> IF j = k THEN <<m>> ELSE <<>>]
  BY DEF ToEach
<1>2. ToEach(K, m) = [j \in Conns |-> IF j \in K THEN <<m>> ELSE <<>>]
  BY DEF ToEach
<1>3. SendTo(k, m) => Send(inner, ToEach({k}, m))
  BY <1>1 DEF SendTo
<1>4. SendAll(K, m) => Send(inner, ToEach(K, m))
  BY <1>2 DEF SendAll
<1> QED
  BY <1>3, <1>4

(* Several messages, none of which asks for a client or ends a session, and *)
(* to each connection either no traffic or no registration.                 *)
LEMMA MildBatch ==
  ASSUME NEW msgs \in [Conns -> Seq(ToSvrMsg)],
         \A k \in Conns : \A n \in DOMAIN msgs[k] :
            /\ Fresh(msgs[k][n], k)
            /\ msgs[k][n].cmd \notin {"NTF_VERIFY_REQ", "NTF_DISCON"},
         \A k \in Conns : \/ \A n \in DOMAIN msgs[k] : msgs[k][n].cmd \notin Traffic
                          \/ \A n \in DOMAIN msgs[k] : ~Registers(msgs[k][n])
  PROVE  Batch(msgs)
BY DEF Batch, InOrder, SameAsk

LEMMA SendToChan ==
  ASSUME IInv, ChanInv(toSvr, cli, inner), Life!LifeNext,
         NEW k \in Conns, NEW m \in ToSvrMsg, SendTo(k, m), Fresh(m, k)
  PROVE  ChanInv(toSvr', cli', inner')
<1>1. Send(inner, ToEach({k}, m))
  BY SendToEach
<1>2. Batch(ToEach({k}, m))
  BY OneEach
<1> QED
  BY <1>1, <1>2, SendChan DEF IInv, InnerTypeOK

LEMMA SendAllChan ==
  ASSUME IInv, ChanInv(toSvr, cli, inner), Life!LifeNext,
         NEW K, NEW m \in ToSvrMsg, SendAll(K, m), \A k \in K \cap Conns : Fresh(m, k),
         m.cmd # "NTF_VERIFY_REQ"
  PROVE  ChanInv(toSvr', cli', inner')
<1>1. Send(inner, ToEach(K, m))
  BY SendToEach
<1>2. Batch(ToEach(K, m))
  BY OneEach
<1> QED
  BY <1>1, <1>2, SendChan DEF IInv, InnerTypeOK

(* What a client's packets become: messages of that client's, to the one    *)
(* server the command is routed to, which is registered.                    *)
LEMMA ForwardedIs ==
  ASSUME IInv, NEW c \in Cids, NEW s \in Seq(Packets), NEW k \in Conns
  PROVE  /\ Forwarded(c, s, k) \in Seq(ToSvrMsg)
         /\ \A n \in DOMAIN Forwarded(c, s, k) :
              /\ Forwarded(c, s, k)[n].cmd = "NTF_FORWARD"
              /\ Forwarded(c, s, k)[n].cid = c
              /\ inner[k].svrId # 0
<1> DEFINE mine == {i \in DOMAIN s : GoesTo(cli[c], s[i], k)}
           f    == Forwarded(c, s, k)
<1>1. Len(s) \in Nat /\ DOMAIN s = 1..Len(s)
  BY LenProperties
<1>2. mine \in SUBSET Nat /\ mine \in SUBSET (1..Len(s))
  BY <1>1
<1>3. IsFiniteSet(mine) /\ Cardinality(mine) \in Nat
  BY <1>1, <1>2, IndexCount
<1>4. ASSUME NEW i \in mine
      PROVE  /\ Forward(c, s[i]) \in ToSvrMsg
             /\ Forward(c, s[i]).cmd = "NTF_FORWARD" /\ Forward(c, s[i]).cid = c
             /\ inner[k].svrId # 0
  <2>1. s[i] \in Packets
    BY <1>4, <1>1, ElementOfSeq
  <2>2. s[i].id \in Byte
    BY <2>1, DataAssumption
  <2>3. FindSvr(RouteSvrId(cli[c], s[i])) = k
    BY <1>4 DEF GoesTo
  <2>4. \E id \in Ids : regSvr[id] = k
    BY <2>3, IdFacts DEF FindSvr
  <2>5. inner[k].svrId # 0
    BY <2>4, IdFacts DEF IInv, Exact
  <2> QED
    BY <2>2, <2>5 DEF Forward, ToSvrMsg
<1>5. ASSUME NEW n \in 1..Cardinality(mine)
      PROVE  Nth(mine, n - 1) \in mine
  <2>1. n - 1 \in 0..(Cardinality(mine) - 1)
    BY <1>3
  <2> HIDE DEF mine
  <2> QED
    BY <1>2, <1>3, <2>1, NthIn
<1>6. f = [n \in 1..Cardinality(mine) |-> Forward(c, s[Nth(mine, n - 1)])]
  BY DEF Forwarded
<1> HIDE DEF f, mine
<1>7. \A n \in 1..Cardinality(mine) : f[n] \in ToSvrMsg /\ f[n].cmd = "NTF_FORWARD"
                                     /\ f[n].cid = c /\ inner[k].svrId # 0
  BY <1>4, <1>5, <1>6
<1>8. f \in [1..Cardinality(mine) -> ToSvrMsg]
  BY <1>6, <1>7
<1>9. f \in Seq(ToSvrMsg)
  BY <1>3, <1>8
<1>10. DOMAIN f = 1..Cardinality(mine)
  BY <1>6
<1> QED
  BY <1>7, <1>9, <1>10 DEF f
------------------------------------------------------------------------------
(* The handlers of clients. *)

LEMMA AliveStage ==
  ASSUME NEW rec \in ClientType
  PROVE  /\ rec.con = "gone" => StageOf(rec) = "gone"
         /\ Alive(rec) => StageOf(rec) # "gone"
         /\ Alive(rec) /\ rec.state = "INIT" => StageOf(rec) = "connected"
         /\ Alive(rec) /\ rec.state = "WAIT_VERIFY" => StageOf(rec) = "asked"
         /\ Alive(rec) /\ rec.state = "VERIFYED" => StageOf(rec) = "in"
BY DEF StageOf, Alive, ClientType, ClientStates

LEMMA StageIn ==
  ASSUME NEW rec \in ClientType
  PROVE  StageOf(rec) = "in" <=> Alive(rec) /\ rec.state = "VERIFYED"
BY DEF StageOf, Alive, ClientType, ClientStates

LEMMA GoodIsClient == GoodClient \subseteq ClientType
BY DEF GoodClient

(* The client whose packet is handled still exists. *)
LEMMA ReadsAlive ==
  ASSUME ReadInv, NEW c \in Cids, NEW p, OnRawRecv(c, p)
  PROVE  Alive(cli[c])
BY DEF OnRawRecv, ReadInv, Alive, Idle

LEMMA QuietChan ==
  ASSUME IInv, ChanInv(toSvr, cli, inner), Life!LifeNext, UNCHANGED toSvr,
         \A k \in Conns : inner[k].svrId # 0 => inner'[k].svrId # 0
  PROVE  ChanInv(toSvr', cli', inner')
<1> DEFINE d == [k \in Conns |-> 0]
<1>1. Forth
  BY StageForth DEF Forth
<1>2. d \in [Conns -> Nat] /\ \A k \in Conns : d[k] = 0
  OBVIOUS
<1>3. ASSUME NEW k \in Conns, NEW i \in DOMAIN toSvr'[k]
      PROVE  i + d[k] \in DOMAIN toSvr[k] /\ toSvr'[k][i] = toSvr[k][i + d[k]]
  <2>1. toSvr[k] \in Seq(ToSvrMsg) /\ i \in DOMAIN toSvr[k]
    BY DEF ChanInv
  <2>2. i \in Nat
    BY <2>1, LenProperties
  <2>3. i + d[k] = i
    BY <1>2, <2>2
  <2> QED
    BY <2>1, <2>3
<1>4. toSvr' \in [Conns -> Seq(ToSvrMsg)]
  BY DEF ChanInv
<1> HIDE DEF d
<1> QED
  BY <1>1, <1>2, <1>3, <1>4, TakeChan

LEMMA Forward2SvrChan ==
  ASSUME IInv, ChanInv(toSvr, cli, inner), Life!LifeNext,
         NEW c \in Cids, NEW p \in Packets, NEW rec \in GoodClient,
         Alive(cli[c]), cli[c].state = "VERIFYED", Forward2Svr(c, rec, p)
  PROVE  ChanInv(toSvr', cli', inner')
<1> DEFINE msgs == [k \in Conns |-> Forwarded(c, <<p>>, k)]
<1>1. <<p>> \in Seq(Packets)
  OBVIOUS
<1>2. ASSUME NEW k \in Conns
      PROVE  /\ msgs[k] \in Seq(ToSvrMsg)
             /\ \A n \in DOMAIN msgs[k] :
                  msgs[k][n].cmd = "NTF_FORWARD" /\ msgs[k][n].cid = c /\ inner[k].svrId # 0
  <2>1. msgs[k] = Forwarded(c, <<p>>, k)
    OBVIOUS
  <2>2. /\ Forwarded(c, <<p>>, k) \in Seq(ToSvrMsg)
        /\ \A n \in DOMAIN Forwarded(c, <<p>>, k) :
             /\ Forwarded(c, <<p>>, k)[n].cmd = "NTF_FORWARD"
             /\ Forwarded(c, <<p>>, k)[n].cid = c
             /\ inner[k].svrId # 0
    BY <1>1, ForwardedIs
  <2> HIDE DEF msgs
  <2> QED
    BY <2>1, <2>2
<1>3. msgs \in [Conns -> Seq(ToSvrMsg)] /\ Send(inner, msgs)
  BY <1>2 DEF Forward2Svr
<1> HIDE DEF msgs
<1>4. StageOf(cli[c]) = "in"
  BY AliveStage, GoodIsClient DEF IInv
<1>5. StageOf(cli'[c]) \in {"in", "gone"}
  BY <1>4, StageForth
<1>6. \A k \in Conns : inner'[k].svrId = inner[k].svrId
  BY <1>3, SendKeepsIds DEF IInv, InnerTypeOK
<1>7. ASSUME NEW k \in Conns, NEW n \in DOMAIN msgs[k]
      PROVE  /\ Fresh(msgs[k][n], k)
             /\ msgs[k][n].cmd \notin {"NTF_VERIFY_REQ", "NTF_DISCON"}
             /\ ~Registers(msgs[k][n])
  BY <1>2, <1>4, <1>5, <1>6 DEF Fresh, Stands, Registers
<1>8. Batch(msgs)
  BY <1>3, <1>7, MildBatch
<1> QED
  BY <1>3, <1>8, SendChan DEF IInv, InnerTypeOK

(* The verify server whose turn it is, if there is one. *)
LEMMA BLVerifySvrIs ==
  ASSUME IInv, verifySvr # {}
  PROVE  BLVerifySvr \in verifySvr
<1>1. verifySvr \in SUBSET Nat /\ IsFiniteSet(verifySvr)
  BY ConnsAssumption, FS_Subset DEF IInv, InnerTypeOK
<1>2. Cardinality(verifySvr) \in Nat /\ Cardinality(verifySvr) # 0
  BY <1>1, FS_CardinalityType, FS_EmptySet
<1>3. NextBlIdx \in 0..(Cardinality(verifySvr) - 1)
  BY <1>2 DEF NextBlIdx, IInv, RestTypeOK
<1> QED
  BY <1>1, <1>3, NthIn DEF BLVerifySvr

LEMMA Forward2VerifySvrChan ==
  ASSUME IInv, ChanInv(toSvr, cli, inner), Life!LifeNext,
         NEW c \in Cids, NEW p \in Packets, Alive(cli[c]), cli[c].state = "INIT",
         Forward2VerifySvr(c, p)
  PROVE  ChanInv(toSvr', cli', inner')
<1> DEFINE stopped == [cli[c] EXCEPT !.tm = cli[c].tm \ {"wfm"}]
           asking  == [stopped EXCEPT !.tm = stopped.tm \cup {"verify"},
                                      !.state = "WAIT_VERIFY"]
<1>1. CASE UNCHANGED <<inner, toSvr, blIdx>>
  BY <1>1, QuietChan
<1>2. CASE /\ verifySvr # {}
           /\ blIdx' = NextBlIdx
           /\ SendTo(BLVerifySvr, VerifyReq(c, p))
           /\ cli' = [cli EXCEPT ![c] = asking]
  <2>1. cli[c] \in ClientType /\ cli' \in [Cids -> GoodClient]
    BY Forward2VerifySvrStep, GoodIsClient DEF IInv
  <2>2. StageOf(cli[c]) = "connected"
    BY <2>1, AliveStage
  <2>3. StageOf(cli'[c]) = "asked"
    <3>1. cli'[c] = asking /\ asking.state = "WAIT_VERIFY" /\ asking.con = cli[c].con
      BY <1>2, <2>1 DEF IInv, ClientType
    <3>2. Alive(cli'[c])
      BY <3>1 DEF Alive
    <3> QED
      BY <2>1, <3>1, <3>2, AliveStage, GoodIsClient
  <2>4. BLVerifySvr \in verifySvr
    BY <1>2, BLVerifySvrIs
  <2>5. BLVerifySvr \in Conns
    BY <2>4 DEF IInv, InnerTypeOK
  <2>6. VerifyReq(c, p) \in ToSvrMsg /\ Fresh(VerifyReq(c, p), BLVerifySvr)
    <3>1. p.id \in Byte
      BY DataAssumption
    <3>2. VerifyReq(c, p) \in ToSvrMsg
      BY <3>1 DEF VerifyReq, ToSvrMsg
    <3>3. Fresh(VerifyReq(c, p), BLVerifySvr)
      BY <2>2, <2>3 DEF VerifyReq, Fresh, Stands, Registers, Traffic
    <3> QED
      BY <3>2, <3>3
  <2> QED
    BY <1>2, <2>5, <2>6, SendToChan
<1> QED
  BY <1>1, <1>2 DEF Forward2VerifySvr

LEMMA OnRawRecvChan ==
  ASSUME IInv, CInv, Life!LifeNext, NEW c \in Cids, NEW p \in Packets, OnRawRecv(c, p)
  PROVE  ChanInv(toSvr', cli', inner')
<1>1. Alive(cli[c]) /\ cli[c] \in GoodClient
  BY ReadsAlive DEF CInv, IInv
<1>2. CASE UNCHANGED <<inner, toSvr, blIdx>>
  BY <1>2, QuietChan DEF CInv
<1>3. CASE cli[c].state = "INIT" /\ Forward2VerifySvr(c, p)
  BY <1>1, <1>3, Forward2VerifySvrChan DEF CInv
<1>4. CASE cli[c].state = "VERIFYED" /\ Forward2Svr(c, cli[c], p)
  BY <1>1, <1>4, Forward2SvrChan DEF CInv
<1>5. CASE /\ cli[c].state = "VERIFYED" /\ cli[c].isCache
           /\ Forward2Svr(c, [cli[c] EXCEPT !.cacheMsg = Append(cli[c].cacheMsg, p)], p)
  <2> DEFINE m   == Append(cli[c].cacheMsg, p)
             rec == [cli[c] EXCEPT !.cacheMsg = m]
  <2>1. m \in Seq(Packets)
    BY <1>1 DEF GoodClient, ClientType
  <2>2. rec \in GoodClient
    <3> HIDE DEF m
    <3> QED
      BY <1>1, <1>5, <2>1 DEF GoodClient, ClientType
  <2> HIDE DEF rec
  <2> QED
    BY <1>1, <1>5, <2>2, Forward2SvrChan DEF CInv, rec
<1> QED
  BY <1>2, <1>3, <1>4, <1>5 DEF OnRawRecv, RevPacket

LEMMA DestroyClientChan ==
  ASSUME IInv, CInv, Life!LifeNext, NEW c \in Cids, DestroyClient(c)
  PROVE  ChanInv(toSvr', cli', inner')
<1> DEFINE m == [cmd |-> "NTF_DISCON", cid |-> c]
<1>1. CASE UNCHANGED <<inner, toSvr>>
  BY <1>1, QuietChan DEF CInv
<1>2. CASE SendAll(Registered, m)
  <2>1. m \in ToSvrMsg /\ m.cmd = "NTF_DISCON" /\ m.cid = c
    BY DEF ToSvrMsg
  <2>2. StageOf(cli[c]) # "gone"
    BY AliveStage, GoodIsClient DEF DestroyClient, Alive, IInv
  <2>3. StageOf(cli'[c]) = "gone"
    BY DEF DestroyClient, IInv, NewClient, StageOf, Alive
  <2>4. ASSUME NEW k \in Registered \cap Conns
        PROVE  inner[k].svrId # 0
    BY IdFacts DEF Registered, IInv, Exact
  <2>5. \A k \in Conns : inner'[k].svrId = inner[k].svrId
    BY <1>2, SendKeepsIds DEF SendAll, IInv, InnerTypeOK
  <2> HIDE DEF m
  <2>6. \A k \in Registered \cap Conns : Fresh(m, k)
    BY <2>1, <2>2, <2>3, <2>4, <2>5 DEF Fresh, Stands, Registers
  <2> QED
    BY <1>2, <2>1, <2>6, SendAllChan DEF CInv
<1> QED
  BY <1>1, <1>2 DEF DestroyClient

LEMMA ClientEventChan ==
  ASSUME IInv, CInv, Life!LifeNext, NEW c \in Cids, ClientEvent(c)
  PROVE  ChanInv(toSvr', cli', inner')
<1>1. CASE DestroyClient(c)
  BY <1>1, DestroyClientChan
<1>2. CASE UNCHANGED <<inner, toSvr>>
  BY <1>2, QuietChan DEF CInv
<1> QED
  BY <1>1, <1>2 DEF ClientEvent, OnConnected, ClientBreak, ClientDrain, OnWaitFirstMsgTimeOut,
     OnVerfiyTimeOut, OnHeartbeatTimeOut, OnClsTimeOut, TimeOut
------------------------------------------------------------------------------
(* The handlers of servers. *)

(* A connected client is not gone, and one that is verified is in. *)
LEMMA FoundStage ==
  ASSUME IInv, NEW c \in FoundClients
  PROVE  /\ c \in Cids /\ cli[c] \in GoodClient
         /\ StageOf(cli[c]) # "gone"
         /\ c \in VerifiedClients => StageOf(cli[c]) = "in"
<1>1. c \in Cids /\ Alive(cli[c]) /\ cli[c] \in GoodClient
  BY DEF FoundClients, Found, Alive, IInv
<1> QED
  BY <1>1, AliveStage, GoodIsClient DEF VerifiedClients

(* What a registration reverts: a session of each client that is in. *)
LEMMA SessionsAre ==
  ASSUME IInv, NEW order \in Orders(VerifiedClients)
  PROVE  /\ SessionsFor(order) \in Seq(ToSvrMsg)
         /\ \A n \in DOMAIN SessionsFor(order) :
              /\ SessionsFor(order)[n].cmd = "NTF_CREATE_SESSION"
              /\ SessionsFor(order)[n].cid \in VerifiedClients
              /\ SessionsFor(order)[n].uin = cli[SessionsFor(order)[n].cid].uin
         /\ \A c \in VerifiedClients : \E n \in DOMAIN SessionsFor(order) :
              SessionsFor(order)[n].cid = c
<1> DEFINE size == Cardinality(VerifiedClients)
           f    == SessionsFor(order)
<1>1. size \in Nat
  <2>1. VerifiedClients \in SUBSET Cids
    BY FoundAreCids
  <2> QED
    BY <2>1, CidsAssumption, FS_Subset, FS_CardinalityType
<1>2. /\ order \in [1..size -> VerifiedClients]
      /\ \A c \in VerifiedClients : \E i \in DOMAIN order : order[i] = c
  BY DEF Orders
<1>3. f = [i \in 1..size |-> CreateSession(order[i], cli[order[i]].uin, "uninit")]
  BY <1>2 DEF SessionsFor
<1>4. ASSUME NEW i \in 1..size
      PROVE  /\ f[i] \in ToSvrMsg
             /\ f[i].cmd = "NTF_CREATE_SESSION"
             /\ f[i].cid = order[i] /\ f[i].uin = cli[order[i]].uin
  <2>1. order[i] \in FoundClients
    BY <1>2, FoundAreCids
  <2>2. order[i] \in Cids /\ cli[order[i]].uin \in Uins \cup {0}
    BY <2>1, FoundStage, GoodIsClient DEF ClientType
  <2>3. f[i] = CreateSession(order[i], cli[order[i]].uin, "uninit")
    BY <1>3
  <2> QED
    BY <2>2, <2>3 DEF CreateSession, ToSvrMsg
<1> HIDE DEF f, size
<1>5. f \in [1..size -> ToSvrMsg] /\ DOMAIN f = 1..size /\ DOMAIN order = 1..size
  BY <1>2, <1>3, <1>4
<1>6. f \in Seq(ToSvrMsg)
  BY <1>1, <1>5
<1>7. \A n \in DOMAIN f : /\ f[n].cmd = "NTF_CREATE_SESSION" /\ f[n].cid \in VerifiedClients
                         /\ f[n].uin = cli[f[n].cid].uin
  BY <1>2, <1>4, <1>5
<1>8. \A c \in VerifiedClients : \E n \in DOMAIN f : f[n].cid = c
  BY <1>2, <1>4, <1>5
<1> QED
  BY <1>6, <1>7, <1>8 DEF f

(* The answer to a registration, and behind it the sessions. *)
LEMMA RegAnswersAre ==
  ASSUME IInv, NEW k \in Conns, NEW rsp \in ToSvrMsg, NEW order \in Orders(VerifiedClients)
  PROVE  /\ RegAnswers(k, rsp, order) \in [Conns -> Seq(ToSvrMsg)]
         /\ \A j \in Conns \ {k} : DOMAIN RegAnswers(k, rsp, order)[j] = {}
         /\ 1 \in DOMAIN RegAnswers(k, rsp, order)[k] /\ RegAnswers(k, rsp, order)[k][1] = rsp
         /\ \A n \in DOMAIN RegAnswers(k, rsp, order)[k] \ {1} :
              /\ RegAnswers(k, rsp, order)[k][n].cmd = "NTF_CREATE_SESSION"
              /\ RegAnswers(k, rsp, order)[k][n].cid \in VerifiedClients
              /\ RegAnswers(k, rsp, order)[k][n].uin = cli[RegAnswers(k, rsp, order)[k][n].cid].uin
         /\ \A c \in VerifiedClients : \E n \in DOMAIN RegAnswers(k, rsp, order)[k] \ {1} :
              RegAnswers(k, rsp, order)[k][n].cid = c
<1> DEFINE a    == <<rsp>>
           b    == SessionsFor(order)
           s    == a \o b
           msgs == RegAnswers(k, rsp, order)
<1>1. /\ a \in Seq(ToSvrMsg) /\ Len(a) = 1 /\ a[1] = rsp
      /\ b \in Seq(ToSvrMsg)
      /\ \A n \in DOMAIN b : /\ b[n].cmd = "NTF_CREATE_SESSION" /\ b[n].cid \in VerifiedClients
                           /\ b[n].uin = cli[b[n].cid].uin
      /\ \A c \in VerifiedClients : \E n \in DOMAIN b : b[n].cid = c
  BY SessionsAre
<1>2. msgs = [j \in Conns |-> IF j = k THEN s ELSE <<>>]
  BY DEF RegAnswers
<1> HIDE DEF a, b, msgs
<1>3. /\ s \in Seq(ToSvrMsg) /\ Len(s) = 1 + Len(b)
      /\ Len(b) \in Nat /\ DOMAIN b = 1..Len(b)
      /\ \A n \in 1..(1 + Len(b)) : s[n] = IF n <= 1 THEN a[n] ELSE b[n - 1]
  <2>1. /\ a \o b \in Seq(ToSvrMsg) /\ Len(a \o b) = Len(a) + Len(b)
        /\ \A n \in 1..(Len(a) + Len(b)) :
             (a \o b)[n] = IF n <= Len(a) THEN a[n] ELSE b[n - Len(a)]
    BY <1>1, ConcatProperties
  <2>2. Len(b) \in Nat /\ DOMAIN b = 1..Len(b)
    BY <1>1, LenProperties
  <2> QED
    BY <1>1, <2>1, <2>2
<1> HIDE DEF s
<1>4. DOMAIN s = 1..(1 + Len(b))
  BY <1>3, LenProperties
<1>5. 1 \in DOMAIN s /\ s[1] = rsp
  BY <1>1, <1>3, <1>4
<1>6. ASSUME NEW n \in DOMAIN s \ {1}
      PROVE  /\ s[n].cmd = "NTF_CREATE_SESSION" /\ s[n].cid \in VerifiedClients
             /\ s[n].uin = cli[s[n].cid].uin
  <2>1. n - 1 \in DOMAIN b /\ s[n] = b[n - 1]
    BY <1>3, <1>4
  <2> QED
    BY <1>1, <2>1
<1>7. ASSUME NEW c \in VerifiedClients
      PROVE  \E n \in DOMAIN s \ {1} : s[n].cid = c
  <2>1. PICK n \in DOMAIN b : b[n].cid = c
    BY <1>1
  <2>2. n + 1 \in DOMAIN s \ {1} /\ s[n + 1] = b[n]
    <3>1. n \in Nat /\ n >= 1 /\ n <= Len(b)
      BY <1>3
    <3>2. n + 1 \in 1..(1 + Len(b)) /\ ~(n + 1 <= 1) /\ n + 1 - 1 = n
      BY <1>3, <3>1
    <3> QED
      BY <1>3, <1>4, <3>2
  <2> QED
    BY <2>1, <2>2
<1>8. msgs \in [Conns -> Seq(ToSvrMsg)] /\ msgs[k] = s /\ \A j \in Conns \ {k} : DOMAIN msgs[j] = {}
  <2> DEFINE e == <<>>
  <2>1. e \in Seq(ToSvrMsg) /\ DOMAIN e = {}
    OBVIOUS
  <2>2. msgs = [j \in Conns |-> IF j = k THEN s ELSE e]
    BY <1>2
  <2> HIDE DEF e
  <2> QED
    BY <1>3, <2>1, <2>2
<1> QED
  BY <1>5, <1>6, <1>7, <1>8 DEF msgs

LEMMA RegChan ==
  ASSUME IInv, CInv, Life!LifeNext, NEW k \in Conns, NEW r \in RequestType, r.cmd = "REQ_REG",
         Parse_CMD_REQ_REG(k, r)
  PROVE  ChanInv(toSvr', cli', inner')
<1> DEFINE id == r.svrId % 65536
           ok == RegSvrIdOk(k, id)
           me == [inner[k] EXCEPT !.svrId = IF ok THEN id ELSE inner[k].svrId,
                                  !.isVerify = inner[k].isVerify \/ r.isVerify]
           base == [inner EXCEPT ![k] = me]
           rsp == [cmd |-> "RSP_REG", svrId |-> IF ok THEN r.svrId ELSE 0]
<1>1. PICK order \in Orders(VerifiedClients) : Send(base, RegAnswers(k, rsp, order))
  BY DEF Parse_CMD_REQ_REG
<1>2. id \in Ids \cup {0} /\ r.isVerify \in BOOLEAN /\ r.svrId \in Nat
  BY RequestFields DEF RequestType
<1>3. rsp \in ToSvrMsg /\ rsp.cmd = "RSP_REG" /\ (rsp.svrId # 0 => ok)
  BY <1>2 DEF ToSvrMsg
<1>4. ok => inner[k].svrId = 0 /\ id # 0
  BY DEF RegSvrIdOk
<1>5. me \in InnerType /\ (inner[k].svrId # 0 => me.svrId # 0)
  <2>1. inner[k] \in InnerType
    BY DEF IInv, InnerTypeOK
  <2> HIDE DEF ok, id
  <2> QED
    BY <1>2, <1>4, <2>1 DEF InnerType
<1>6. base \in [Conns -> InnerType] /\ \A j \in Conns : inner[j].svrId # 0 => base[j].svrId # 0
  <2> HIDE DEF me
  <2> QED
    BY <1>5 DEF IInv, InnerTypeOK
<1> DEFINE msgs == RegAnswers(k, rsp, order)
<1> HIDE DEF id, ok, me, base, rsp
<1>7. /\ msgs \in [Conns -> Seq(ToSvrMsg)]
      /\ \A j \in Conns \ {k} : DOMAIN msgs[j] = {}
      /\ msgs[k][1] = rsp
      /\ \A n \in DOMAIN msgs[k] \ {1} :
           msgs[k][n].cmd = "NTF_CREATE_SESSION" /\ msgs[k][n].cid \in VerifiedClients
  BY <1>3, RegAnswersAre
<1> HIDE DEF msgs
<1>8. ASSUME NEW n \in DOMAIN msgs[k]
      PROVE  Fresh(msgs[k][n], k) /\ msgs[k][n].cmd \in {"RSP_REG", "NTF_CREATE_SESSION"}
  <2>1. CASE n = 1
    BY <1>3, <1>4, <1>7, <2>1 DEF Fresh, Stands, Registers, Traffic, AboutClient
  <2>2. CASE n # 1
    <3>1. msgs[k][n].cmd = "NTF_CREATE_SESSION" /\ StageOf(cli[msgs[k][n].cid]) # "gone"
      BY <1>7, <2>2, FoundAreCids, FoundStage
    <3> QED
      BY <3>1 DEF Fresh, Stands, Registers, Traffic, AboutClient
  <2> QED
    BY <2>1, <2>2
<1>9. \A j \in Conns : \A n \in DOMAIN msgs[j] :
        Fresh(msgs[j][n], j) /\ msgs[j][n].cmd \in {"RSP_REG", "NTF_CREATE_SESSION"}
  BY <1>7, <1>8
<1>10. Batch(msgs)
  BY <1>7, <1>9, MildBatch DEF Traffic
<1> QED
  BY <1>1, <1>6, <1>10, SendChan DEF CInv, msgs

LEMMA VerifyRetChan ==
  ASSUME IInv, CInv, Life!LifeNext, NEW k \in Conns, NEW r \in RequestType,
         r.cmd = "REQ_VERIFY_RET", Parse_CMD_REQ_VERIFY_RET(k, r)
  PROVE  ChanInv(toSvr', cli', inner')
<1> DEFINE m == CreateSession(r.cid, r.uin, r.accName)
<1>1. CASE UNCHANGED <<inner, toSvr>>
  BY <1>1, QuietChan DEF CInv
<1>2. CASE r.cid \in FoundClients /\ SendAll(RegisteredInner, m)
  <2>1. r.uin \in Uins \cup {0} /\ r.accName \in Names
    BY DEF RequestType
  <2>2. r.cid \in Cids /\ StageOf(cli[r.cid]) # "gone"
    BY <1>2, FoundStage
  <2>3. m \in ToSvrMsg /\ m.cmd = "NTF_CREATE_SESSION" /\ m.cid = r.cid
    BY <2>1, <2>2 DEF CreateSession, ToSvrMsg
  <2> HIDE DEF m
  <2>4. \A j \in Conns : Fresh(m, j)
    BY <2>2, <2>3 DEF Fresh, Stands, Registers, Traffic
  <2> QED
    BY <1>2, <2>3, <2>4, SendAllChan DEF CInv
<1> QED
  BY <1>1, <1>2 DEF Parse_CMD_REQ_VERIFY_RET, Ignored, ClientOnly

LEMMA BroadcastUinChan ==
  ASSUME IInv, CInv, Life!LifeNext, NEW k \in Conns, NEW r \in RequestType,
         r.cmd = "REQ_BROADCAST_UIN", Parse_CMD_REQ_BROADCAST_UIN(k, r)
  PROVE  ChanInv(toSvr', cli', inner')
<1> DEFINE m == [cmd |-> "RSP_BROADCAST_UIN", cid |-> r.cid, uin |-> r.uin]
<1>1. CASE Ignored
  BY <1>1, QuietChan DEF CInv, Ignored, ClientOnly
<1>2. CASE r.cid \in FoundClients /\ SendAll(RegisteredInner \ {k}, m)
  <2>1. r.cid \in Cids /\ StageOf(cli[r.cid]) # "gone" /\ r.uin \in Uins
    BY <1>2, FoundStage, RequestFields
  <2>2. m \in ToSvrMsg /\ m.cmd = "RSP_BROADCAST_UIN" /\ m.cid = r.cid
    BY <2>1 DEF ToSvrMsg
  <2>3. \A j \in Conns : inner'[j].svrId = inner[j].svrId
    BY <1>2, SendKeepsIds DEF SendAll, IInv, InnerTypeOK
  <2> HIDE DEF m
  <2>4. \A j \in (RegisteredInner \ {k}) \cap Conns : Fresh(m, j)
    BY <2>1, <2>2, <2>3 DEF RegisteredInner, Fresh, Stands, Registers
  <2> QED
    BY <1>2, <2>2, <2>4, SendAllChan DEF CInv
<1> QED
  BY <1>1, <1>2 DEF Parse_CMD_REQ_BROADCAST_UIN

LEMMA SetActiveChan ==
  ASSUME IInv, CInv, Life!LifeNext, NEW k \in Conns, NEW r \in RequestType,
         r.cmd = "REQ_SET_ACTIVE_SVR", Parse_CMD_REQ_SET_ACTIVE_SVR(k, r)
  PROVE  ChanInv(toSvr', cli', inner')
<1>1. r.cid \in Cids \cup {NoCid} /\ r.grpId \in Ids \cup {0} /\ r.svrId \in Ids \cup {0}
  BY DEF RequestType
<1>2. CASE Ignored
  BY <1>2, QuietChan DEF CInv, Ignored, ClientOnly
<1>3. ASSUME NEW g \in Ids \cup {0}, NEW s \in Ids \cup {0}, SendTo(k, RspSetActive(r.cid, g, s))
      PROVE  ChanInv(toSvr', cli', inner')
  <2> DEFINE m == RspSetActive(r.cid, g, s)
  <2>1. m \in ToSvrMsg /\ m.cmd = "RSP_SET_ACTIVE_SVR"
    BY <1>1 DEF RspSetActive, ToSvrMsg
  <2> HIDE DEF m
  <2>2. Fresh(m, k)
    BY <2>1 DEF Fresh, Stands, Registers, Traffic, AboutClient
  <2> QED
    BY <1>3, <2>1, <2>2, SendToChan DEF CInv, m
<1> QED
  BY <1>1, <1>2, <1>3 DEF Parse_CMD_REQ_SET_ACTIVE_SVR

(* The answer to a cache request, and behind it what has been kept. *)
CacheAnswers(c, kept, rsp, k, j) ==
  (IF j = k THEN <<rsp>> ELSE <<>>) \o Forwarded(c, kept, j)

LEMMA CacheAnswersAre ==
  ASSUME IInv, NEW c \in Cids, NEW kept \in Seq(Packets), NEW rsp \in ToSvrMsg, NEW k,
         NEW j \in Conns
  PROVE  /\ CacheAnswers(c, kept, rsp, k, j) \in Seq(ToSvrMsg)
         /\ \A n \in DOMAIN CacheAnswers(c, kept, rsp, k, j) :
              \/ j = k /\ CacheAnswers(c, kept, rsp, k, j)[n] = rsp
              \/ /\ CacheAnswers(c, kept, rsp, k, j)[n].cmd = "NTF_FORWARD"
                 /\ CacheAnswers(c, kept, rsp, k, j)[n].cid = c
                 /\ inner[j].svrId # 0
<1> DEFINE One(m) == \/ j = k /\ m = rsp
                     \/ m.cmd = "NTF_FORWARD" /\ m.cid = c /\ inner[j].svrId # 0
           a == IF j = k THEN <<rsp>> ELSE <<>>
           b == Forwarded(c, kept, j)
           s == CacheAnswers(c, kept, rsp, k, j)
<1>1. a \in Seq(ToSvrMsg) /\ \A n \in DOMAIN a : One(a[n])
  <2>1. CASE j = k
    <3> DEFINE e == <<rsp>>
    <3>1. e \in Seq(ToSvrMsg) /\ \A n \in DOMAIN e : e[n] = rsp
      OBVIOUS
    <3>2. a = e
      BY <2>1
    <3> HIDE DEF a, e
    <3> QED
      BY <2>1, <3>1, <3>2
  <2>2. CASE j # k
    <3>1. a = <<>>
      BY <2>2
    <3> HIDE DEF a
    <3> QED
      BY <3>1
  <2> QED
    BY <2>1, <2>2
<1>2. b \in Seq(ToSvrMsg) /\ \A n \in DOMAIN b : One(b[n])
  BY ForwardedIs
<1>3. s = a \o b
  BY DEF CacheAnswers
<1> HIDE DEF a, b, s, One
<1>4. /\ a \o b \in Seq(ToSvrMsg) /\ Len(a \o b) = Len(a) + Len(b)
      /\ \A n \in 1..(Len(a) + Len(b)) :
           (a \o b)[n] = IF n <= Len(a) THEN a[n] ELSE b[n - Len(a)]
  BY <1>1, <1>2, ConcatProperties
<1>5. Len(a) \in Nat /\ DOMAIN a = 1..Len(a) /\ Len(b) \in Nat /\ DOMAIN b = 1..Len(b)
  BY <1>1, <1>2, LenProperties
<1>6. DOMAIN s = 1..(Len(a) + Len(b))
  BY <1>3, <1>4, LenProperties
<1>7. ASSUME NEW n \in 1..(Len(a) + Len(b))
      PROVE  One((a \o b)[n])
  <2>1. CASE n <= Len(a)
    <3>1. n \in DOMAIN a /\ (a \o b)[n] = a[n]
      BY <1>4, <1>5, <2>1
    <3> QED
      BY <1>1, <3>1
  <2>2. CASE n > Len(a)
    <3>1. n - Len(a) \in DOMAIN b /\ (a \o b)[n] = b[n - Len(a)]
      BY <1>4, <1>5, <2>2
    <3> QED
      BY <1>2, <3>1
  <2> QED
    BY <1>5, <2>1, <2>2
<1>8. s \in Seq(ToSvrMsg) /\ \A n \in DOMAIN s : One(s[n])
  BY <1>3, <1>4, <1>6, <1>7
<1> QED
  BY <1>8 DEF One, s

(* What a cache request is answered with, when it is. *)
LEMMA CacheBatch ==
  ASSUME IInv, NEW k \in Conns, NEW r \in RequestType, r.cmd = "REQ_CACHE_MSG",
         Parse_CMD_REQ_CACHE_MSG(k, r), ~Ignored
  PROVE  /\ r.cid \in VerifiedClients
         /\ \E msgs \in [Conns -> Seq(ToSvrMsg)] :
              /\ Send(inner, msgs)
              /\ \A j \in Conns : \A n \in DOMAIN msgs[j] :
                   /\ msgs[j][n].cid = r.cid
                   /\ \/ msgs[j][n].cmd = "RSP_CACHE_MSG" /\ j = k
                      \/ msgs[j][n].cmd = "NTF_FORWARD" /\ inner[j].svrId # 0
<1> DEFINE c    == r.cid
           kept == IF r.isCache THEN <<>> ELSE cli[c].cacheMsg
           rsp  == [cmd |-> "RSP_CACHE_MSG", cid |-> c, isCache |-> r.isCache]
           msgs == [j \in Conns |-> (IF j = k THEN <<rsp>> ELSE <<>>) \o Forwarded(c, kept, j)]
<1>1. c \in VerifiedClients /\ Send(inner, msgs)
  BY DEF Parse_CMD_REQ_CACHE_MSG
<1>2. c \in Cids /\ cli[c] \in GoodClient
  BY <1>1, FoundAreCids, FoundStage
<1>3. kept \in Seq(Packets)
  <2>1. cli[c].cacheMsg \in Seq(Packets)
    BY <1>2 DEF GoodClient, ClientType
  <2> QED
    BY <2>1
<1>4. rsp \in ToSvrMsg /\ rsp.cmd = "RSP_CACHE_MSG" /\ rsp.cid = c
  BY <1>2, RequestFields DEF ToSvrMsg
<1> HIDE DEF kept, rsp
<1>5. ASSUME NEW j \in Conns
      PROVE  /\ msgs[j] \in Seq(ToSvrMsg)
             /\ \A n \in DOMAIN msgs[j] :
                  \/ j = k /\ msgs[j][n] = rsp
                  \/ msgs[j][n].cmd = "NTF_FORWARD" /\ msgs[j][n].cid = c /\ inner[j].svrId # 0
  <2>1. msgs[j] = CacheAnswers(c, kept, rsp, k, j)
    BY DEF CacheAnswers
  <2> HIDE DEF msgs
  <2> QED
    BY <1>2, <1>3, <1>4, <2>1, CacheAnswersAre
<1>6. msgs \in [Conns -> Seq(ToSvrMsg)]
  BY <1>5
<1> HIDE DEF msgs
<1>7. \A j \in Conns : \A n \in DOMAIN msgs[j] :
        /\ msgs[j][n].cid = c
        /\ \/ msgs[j][n].cmd = "RSP_CACHE_MSG" /\ j = k
           \/ msgs[j][n].cmd = "NTF_FORWARD" /\ inner[j].svrId # 0
  BY <1>4, <1>5
<1> QED
  BY <1>1, <1>6, <1>7

LEMMA CacheMsgChan ==
  ASSUME IInv, CInv, Life!LifeNext, NEW k \in Conns, NEW r \in RequestType,
         r.cmd = "REQ_CACHE_MSG", Parse_CMD_REQ_CACHE_MSG(k, r)
  PROVE  ChanInv(toSvr', cli', inner')
<1>1. CASE Ignored
  BY <1>1, QuietChan DEF CInv, Ignored, ClientOnly
<1>2. CASE ~Ignored
  <2>1. r.cid \in VerifiedClients
    BY <1>2, CacheBatch
  <2>2. PICK msgs \in [Conns -> Seq(ToSvrMsg)] :
          /\ Send(inner, msgs)
          /\ \A j \in Conns : \A n \in DOMAIN msgs[j] :
               /\ msgs[j][n].cid = r.cid
               /\ \/ msgs[j][n].cmd = "RSP_CACHE_MSG" /\ j = k
                  \/ msgs[j][n].cmd = "NTF_FORWARD" /\ inner[j].svrId # 0
    BY <1>2, CacheBatch
  <2>3. r.cid \in Cids /\ StageOf(cli[r.cid]) = "in"
    BY <2>1, FoundAreCids, FoundStage
  <2>4. StageOf(cli'[r.cid]) \in {"in", "gone"}
    BY <2>3, StageForth
  <2>5. \A j \in Conns : inner'[j].svrId = inner[j].svrId
    BY <2>2, SendKeepsIds DEF IInv, InnerTypeOK
  <2>6. \A j \in Conns : \A n \in DOMAIN msgs[j] :
          /\ Fresh(msgs[j][n], j)
          /\ msgs[j][n].cmd \notin {"NTF_VERIFY_REQ", "NTF_DISCON"}
          /\ ~Registers(msgs[j][n])
    BY <2>2, <2>3, <2>4, <2>5 DEF Fresh, Stands, Registers, Traffic
  <2>7. Batch(msgs)
    BY <2>6, MildBatch
  <2> QED
    BY <2>2, <2>7, SendChan DEF CInv, IInv, InnerTypeOK
<1> QED
  BY <1>1, <1>2

(* The other requests send nothing. *)
LEMMA OnRecvChan ==
  ASSUME IInv, CInv, Life!LifeNext, NEW k \in Conns, NEW r \in RequestType, OnRecv(k, r)
  PROVE  ChanInv(toSvr', cli', inner')
<1>1. CASE UNCHANGED <<inner, toSvr>>
  BY <1>1, QuietChan DEF CInv
<1>2. CASE r.cmd \in {"REQ_SET_CMD_2_GRP", "REQ_FORWARD", "REQ_BROADCAST", "REQ_DISCON",
                     "REQ_DISCON_ALL", "REQ_ACC_SETING"}
  BY <1>1, <1>2 DEF OnRecv, Parse_CMD_REQ_SET_CMD_2_GRP, OnRecvForward,
     Parse_CMD_REQ_BROADCAST, Parse_CMD_REQ_DISCON, Parse_CMD_REQ_DISCON_ALL,
     Parse_CMD_REQ_ACC_SETING, ClientOnly
<1> QED
  BY <1>2, RegChan, VerifyRetChan, BroadcastUinChan, SetActiveChan, CacheMsgChan DEF OnRecv

(* What happens to connections and sockets between requests. *)
LEMMA SvrReadChan ==
  ASSUME IInv, CInv, Life!LifeNext, NEW k \in Conns, SvrRead(k)
  PROVE  ChanInv(toSvr', cli', inner')
<1> DEFINE d == [j \in Conns |-> IF j = k THEN 1 ELSE 0]
<1>1. Forth
  BY StageForth DEF Forth, SvrRead
<1>2. toSvr \in [Conns -> Seq(ToSvrMsg)] /\ toSvr[k] # <<>>
  BY DEF CInv, ChanInv, SvrRead
<1>3. toSvr' = [toSvr EXCEPT ![k] = Tail(toSvr[k])]
  BY DEF SvrRead
<1>4. /\ Tail(toSvr[k]) \in Seq(ToSvrMsg)
      /\ Len(Tail(toSvr[k])) = Len(toSvr[k]) - 1
      /\ \A i \in 1..Len(Tail(toSvr[k])) : Tail(toSvr[k])[i] = toSvr[k][i + 1]
  BY <1>2, HeadTailProperties
<1>5. toSvr' \in [Conns -> Seq(ToSvrMsg)]
  BY <1>2, <1>3, <1>4
<1>6. ASSUME NEW j \in Conns, NEW i \in DOMAIN toSvr'[j]
      PROVE  i + d[j] \in DOMAIN toSvr[j] /\ toSvr'[j][i] = toSvr[j][i + d[j]]
  <2>1. toSvr[j] \in Seq(ToSvrMsg) /\ toSvr'[j] \in Seq(ToSvrMsg)
    BY <1>2, <1>5
  <2>2. /\ Len(toSvr[j]) \in Nat /\ DOMAIN toSvr[j] = 1..Len(toSvr[j])
        /\ Len(toSvr'[j]) \in Nat /\ DOMAIN toSvr'[j] = 1..Len(toSvr'[j])
    BY <2>1, LenProperties
  <2>3. CASE j = k
    <3>1. toSvr'[j] = Tail(toSvr[k]) /\ d[j] = 1
      BY <1>2, <1>3, <2>3
    <3> QED
      BY <1>4, <1>6, <2>2, <2>3, <3>1
  <2>4. CASE j # k
    <3>1. toSvr'[j] = toSvr[j] /\ d[j] = 0
      BY <1>2, <1>3, <2>4
    <3> QED
      BY <1>6, <2>2, <3>1
  <2> QED
    BY <2>3, <2>4
<1>7. d \in [Conns -> Nat]
  OBVIOUS
<1> HIDE DEF d
<1> QED
  BY <1>1, <1>5, <1>6, <1>7, TakeChan DEF CInv

LEMMA ResetChan ==
  ASSUME IInv, CInv, Life!LifeNext, NEW k \in Conns, toSvr' = [toSvr EXCEPT ![k] = <<>>],
         \A j \in Conns \ {k} : inner'[j] = inner[j]
  PROVE  ChanInv(toSvr', cli', inner')
<1> DEFINE d == [j \in Conns |-> 0]
<1>1. toSvr \in [Conns -> Seq(ToSvrMsg)]
  BY DEF CInv, ChanInv
<1>2. toSvr' \in [Conns -> Seq(ToSvrMsg)] /\ toSvr'[k] = <<>>
        /\ \A j \in Conns \ {k} : toSvr'[j] = toSvr[j]
  <2>1. <<>> \in Seq(ToSvrMsg)
    OBVIOUS
  <2> QED
    BY <1>1, <2>1
<1>3. Forth
  BY <1>2, StageForth DEF Forth
<1>4. ASSUME NEW j \in Conns, NEW i \in DOMAIN toSvr'[j]
      PROVE  i + d[j] \in DOMAIN toSvr[j] /\ toSvr'[j][i] = toSvr[j][i + d[j]]
  <2>1. j # k
    BY <1>2, <1>4, EmptySeq
  <2>2. toSvr'[j] = toSvr[j] /\ d[j] = 0 /\ toSvr[j] \in Seq(ToSvrMsg)
    BY <1>1, <1>2, <2>1
  <2>3. i \in Nat
    BY <1>4, <2>2, LenProperties
  <2>4. i + d[j] = i
    BY <2>2, <2>3
  <2> QED
    BY <1>4, <2>2, <2>4
<1>5. d \in [Conns -> Nat]
  OBVIOUS
<1> HIDE DEF d
<1> QED
  BY <1>2, <1>3, <1>4, <1>5, TakeChan DEF CInv

LEMMA SvrEventChan ==
  ASSUME IInv, CInv, Life!LifeNext, NEW k \in Conns, SvrConnect(k) \/ SvrBreak(k) \/ DestroySvr(k)
  PROVE  ChanInv(toSvr', cli', inner')
<1>1. CASE SvrConnect(k)
  BY <1>1, ResetChan DEF SvrConnect, IInv, InnerTypeOK
<1>2. CASE DestroySvr(k)
  BY <1>2, ResetChan DEF DestroySvr, IInv, InnerTypeOK
<1>3. CASE SvrBreak(k)
  <2>1. \A j \in Conns : inner'[j].svrId = inner[j].svrId
    BY <1>3 DEF SvrBreak, DisConnect, IInv, InnerTypeOK, InnerType
  <2> QED
    BY <1>3, <2>1, QuietChan DEF CInv, SvrBreak
<1> QED
  BY <1>1, <1>2, <1>3
------------------------------------------------------------------------------
(* A read callback destroys no client and lets none in, and nothing else    *)
(* happens while it runs.                                                   *)
Keeps(a, b) == ConKept(a, b) /\ (b.state = "VERIFYED" <=> a.state = "VERIFYED")

LEMMA OnRawRecvKeeps ==
  ASSUME IInv, NEW c \in Cids, NEW p \in Packets, OnRawRecv(c, p)
  PROVE  \A d \in Cids : Keeps(cli[d], cli'[d])
<1> DEFINE AllKeep == \A d \in Cids : Keeps(cli[d], cli'[d])
<1> SUFFICES AllKeep
  OBVIOUS
<1>1. cli[c] \in GoodClient /\ cli \in [Cids -> GoodClient]
  BY DEF IInv
<1>2. ASSUME NEW e, cli' = [cli EXCEPT ![c] = e], Keeps(cli[c], e)
      PROVE  AllKeep
  BY <1>1, <1>2 DEF Keeps, ConKept
<1>3. Keeps(cli[c], DisConnect(cli[c])) /\ Keeps(cli[c], cli[c])
  BY <1>1 DEF DisConnect, Keeps, ConKept, GoodClient, ClientType
<1>4. CASE cli' = [cli EXCEPT ![c] = DisConnect(cli[c])] \/ UNCHANGED cli
  <2> HIDE DEF AllKeep
  <2>1. cli' = [cli EXCEPT ![c] = DisConnect(cli[c])] \/ cli' = [cli EXCEPT ![c] = cli[c]]
    BY <1>1, <1>4
  <2> QED
    BY <1>2, <1>3, <2>1
<1>5. CASE cli[c].state = "INIT" /\ Forward2VerifySvr(c, p)
  <2> DEFINE stopped == [cli[c] EXCEPT !.tm = cli[c].tm \ {"wfm"}]
             asking  == [stopped EXCEPT !.tm = stopped.tm \cup {"verify"},
                                        !.state = "WAIT_VERIFY"]
  <2>1. stopped \in GoodClient /\ Keeps(cli[c], stopped) /\ Keeps(cli[c], asking)
    BY <1>1, <1>5 DEF Keeps, ConKept, GoodClient, ClientType
  <2>2. Keeps(cli[c], DisConnect(stopped))
    <3> HIDE DEF stopped
    <3> QED
      BY <2>1 DEF DisConnect, Keeps, ConKept, GoodClient, ClientType
  <2>3. \E e \in {stopped, asking, DisConnect(stopped)} : cli' = [cli EXCEPT ![c] = e]
    BY <1>5 DEF Forward2VerifySvr
  <2> HIDE DEF stopped, asking, AllKeep
  <2> QED
    BY <1>2, <2>1, <2>2, <2>3
<1>6. ASSUME NEW rec \in GoodClient, rec.state = "VERIFYED", rec.con = cli[c].con,
             cli[c].state = "VERIFYED", Forward2Svr(c, rec, p)
      PROVE  AllKeep
  <2> DEFINE s == <<p>>
             e == AfterForward2Svr(rec, s)
  <2>1. s \in Seq(Packets)
    OBVIOUS
  <2>2. cli' = [cli EXCEPT ![c] = e]
    BY <1>6 DEF Forward2Svr
  <2> HIDE DEF s
  <2>3. Keeps(cli[c], e)
    BY <1>6, <2>1, AfterForward2SvrSame DEF Same, Keeps, ConKept
  <2> HIDE DEF e, AllKeep
  <2> QED
    BY <1>2, <2>2, <2>3
<1>7. CASE cli[c].state = "VERIFYED" /\ Forward2Svr(c, cli[c], p)
  BY <1>1, <1>6, <1>7
<1>8. CASE /\ cli[c].state = "VERIFYED" /\ cli[c].isCache
           /\ Forward2Svr(c, [cli[c] EXCEPT !.cacheMsg = Append(cli[c].cacheMsg, p)], p)
  <2> DEFINE m   == Append(cli[c].cacheMsg, p)
             rec == [cli[c] EXCEPT !.cacheMsg = m]
  <2>1. m \in Seq(Packets)
    BY <1>1 DEF GoodClient, ClientType
  <2>2. rec \in GoodClient /\ rec.state = "VERIFYED" /\ rec.con = cli[c].con
    <3> HIDE DEF m
    <3> QED
      BY <1>1, <1>8, <2>1 DEF GoodClient, ClientType
  <2> HIDE DEF rec
  <2> QED
    BY <1>6, <1>8, <2>2 DEF rec
<1> QED
  BY <1>4, <1>5, <1>7, <1>8 DEF OnRawRecv, RevPacket

LEMMA StepReadInv ==
  ASSUME IInv, ReadInv, [AccStep]_accVars
  PROVE  ReadInv'
<1>1. CASE \E c \in Cids : RecvPacket(c)
  <2>1. PICK c \in Cids, p \in Packets : OnRawRecv(c, p)
    BY <1>1 DEF RecvPacket
  <2>2. Alive(cli'[c])
    BY <2>1, ReadsAlive, OnRawRecvKeeps DEF Keeps, ConKept, Alive
  <2>3. reading'.left > 0 => reading'.cid = c
    BY <2>1 DEF OnRawRecv, ReadOn
  <2> QED
    BY <2>2, <2>3 DEF ReadInv
<1>2. CASE reading'.left = 0
  BY <1>2 DEF ReadInv
<1>3. CASE UNCHANGED <<cli, reading>>
  BY <1>3 DEF ReadInv
<1>4. CASE Idle /\ UNCHANGED reading
  BY <1>2, <1>4 DEF Idle
<1>5. CASE \E c \in Cids : Idle /\ ClientEvent(c)
  BY <1>4, <1>5 DEF ClientEvent, OnConnected, ClientBreak, ClientDrain, OnWaitFirstMsgTimeOut,
     OnVerfiyTimeOut, OnHeartbeatTimeOut, OnClsTimeOut, TimeOut, DestroyClient
<1>6. CASE ReadDone
  BY <1>2, <1>6 DEF ReadDone, IInv, RestTypeOK
<1>7. CASE \E k \in Conns : SvrRead(k)
  BY <1>3, <1>7 DEF SvrRead
<1>8. CASE \E k \in Conns : Idle /\ (SvrConnect(k) \/ SvrBreak(k) \/ DestroySvr(k))
  BY <1>4, <1>8 DEF SvrConnect, SvrBreak, DestroySvr
<1>9. CASE \E k \in Conns : Idle /\ \E r \in RequestType : OnRecv(k, r)
  BY <1>4, <1>9 DEF OnRecv
<1>10. CASE UNCHANGED accVars
  BY <1>3, <1>10 DEF accVars
<1> QED
  BY <1>1, <1>5, <1>6, <1>7, <1>8, <1>9, <1>10 DEF AccStep

(* CInv is inductive, given what AccSvrProof and LifeProof say of a step.   *)
LEMMA InitCInv == Init => CInv
<1> SUFFICES ASSUME Init PROVE CInv
  OBVIOUS
<1>1. toSvr \in [Conns -> Seq(ToSvrMsg)] /\ \A k \in Conns : toSvr[k] = <<>>
  <2>1. <<>> \in Seq(ToSvrMsg)
    OBVIOUS
  <2> QED
    BY <2>1 DEF Init
<1>2. ReadInv
  BY DEF Init, ReadInv
<1> QED
  BY <1>1, <1>2 DEF CInv, ChanInv

LEMMA StepCInv == IInv /\ CInv /\ [AccStep]_accVars => CInv'
<1> SUFFICES ASSUME IInv, CInv, [AccStep]_accVars PROVE CInv'
  OBVIOUS
<1>1. Life!LifeNext
  BY StepMoves
<1>2. ReadInv'
  BY StepReadInv DEF CInv
<1>3. CASE \E c \in Cids : RecvPacket(c)
  BY <1>1, <1>2, <1>3, OnRawRecvChan DEF RecvPacket, CInv
<1>4. CASE UNCHANGED <<inner, toSvr>>
  BY <1>1, <1>2, <1>4, QuietChan DEF CInv
<1>5. CASE \E c \in Cids : ClientEvent(c)
  BY <1>1, <1>2, <1>5, ClientEventChan DEF CInv
<1>6. CASE \E k \in Conns : SvrRead(k)
  BY <1>1, <1>2, <1>6, SvrReadChan DEF CInv
<1>7. CASE \E k \in Conns : SvrConnect(k) \/ SvrBreak(k) \/ DestroySvr(k)
  BY <1>1, <1>2, <1>7, SvrEventChan DEF CInv
<1>8. CASE \E k \in Conns, r \in RequestType : OnRecv(k, r)
  BY <1>1, <1>2, <1>8, OnRecvChan DEF CInv
<1> QED
  BY <1>3, <1>4, <1>5, <1>6, <1>7, <1>8 DEF AccStep, ReadDone, accVars

LEMMA AlwaysCInv == Spec => [](IInv /\ CInv)
<1>1. Init => IInv /\ CInv
  BY InitIInv, InitCInv
<1>2. IInv /\ CInv /\ [Next]_accVars => (IInv /\ CInv)'
  BY NextIsStep, StepIInv, StepCInv
<1> QED
  BY <1>1, <1>2, PTL DEF Spec
------------------------------------------------------------------------------
(* Every variable keeps its type, what is in the sockets included.          *)
THEOREM AllTypesCorrect == Spec => []TypeOK
<1>1. IInv /\ CInv => TypeOK
  BY DEF IInv, GoodClient, CInv, ChanInv, TypeOK, StateTypeOK, CliTypeOK, ChanTypeOK
<1> QED
  BY <1>1, AlwaysCInv, PTL

(* What the order of a socket says of registrations. *)
LEMMA InOrderRegFirst == IInv /\ CInv => RegAnswerFirst
<1> SUFFICES ASSUME CInv, NEW k \in Conns, NEW i \in DOMAIN toSvr[k], NEW j \in DOMAIN toSvr[k],
                    toSvr[k][i].cmd \in Traffic, Registers(toSvr[k][j])
             PROVE  j < i
  BY DEF RegAnswerFirst, Traffic, Registers
<1>1. i \in Nat /\ j \in Nat
  <2>1. toSvr[k] \in Seq(ToSvrMsg)
    BY DEF CInv, ChanInv
  <2> QED
    BY <2>1, LenProperties
<1>2. ~(i < j)
  BY DEF CInv, ChanInv, InOrder
<1>3. i # j
  BY DEF Traffic, Registers
<1> QED
  BY <1>1, <1>2, <1>3

(* A server is sent client traffic only behind the answer that registers    *)
(* it, so that no driver throws any of it away (connect.cpp:28).            *)
THEOREM RegAnswerFirstCorrect == Spec => []RegAnswerFirst
BY InOrderRegFirst, AlwaysCInv, PTL

(* What a forwarded packet stands on. *)
LEMMA StandsForward == IInv /\ CInv => VerifyBeforeForward
<1> SUFFICES ASSUME IInv, CInv, NEW k \in Conns, NEW i \in DOMAIN toSvr[k],
                    toSvr[k][i].cmd = "NTF_FORWARD"
             PROVE  cli[toSvr[k][i].cid].state = "VERIFYED" \/ cli[toSvr[k][i].cid].con = "gone"
  BY DEF VerifyBeforeForward
<1>1. StageOf(cli[toSvr[k][i].cid]) \in {"in", "gone"}
  BY DEF CInv, ChanInv, Stands
<1>2. toSvr[k][i].cid \in Cids
  <2>1. toSvr[k] \in Seq(ToSvrMsg)
    BY DEF CInv, ChanInv
  <2>2. toSvr[k][i] \in ToSvrMsg
    BY <2>1, ElementOfSeq, LenProperties
  <2> QED
    BY <2>2, MsgCid DEF AboutClient
<1>3. cli[toSvr[k][i].cid] \in ClientType
  BY <1>2, GoodIsClient DEF IInv
<1> QED
  BY <1>1, <1>3 DEF StageOf, Alive, ClientType, ClientStates

(* Only a verified client's packets reach a server as forwarded ones, even  *)
(* when they have been kept, or wait in a socket, meanwhile.                *)
THEOREM VerifyBeforeForwardCorrect == Spec => []VerifyBeforeForward
BY StandsForward, AlwaysCInv, PTL

(* The NTF_DISCON of a client is the last a server hears of it.             *)
THEOREM NothingAfterDisconCorrect == Spec => []NothingAfterDiscon
<1>1. IInv /\ CInv => NothingAfterDiscon
  BY DEF CInv, ChanInv, InOrder, AboutClient, NothingAfterDiscon
<1> QED
  BY <1>1, AlwaysCInv, PTL

(* One question of a client between all sockets. *)
LEMMA InOrderAsksOnce == IInv /\ CInv => AsksOnce
<1> SUFFICES ASSUME IInv, CInv PROVE AsksOnce
  OBVIOUS
<1> DEFINE asks(c) == {q \in Conns \X (1..SendBufMax) :
                         /\ q[2] <= Len(toSvr[q[1]])
                         /\ toSvr[q[1]][q[2]].cmd = "NTF_VERIFY_REQ"
                         /\ toSvr[q[1]][q[2]].cid = c}
<1>1. ASSUME NEW c \in Cids, NEW q \in asks(c)
      PROVE  /\ q[1] \in Conns /\ q[2] \in Nat /\ q = <<q[1], q[2]>>
             /\ q[2] \in DOMAIN toSvr[q[1]]
             /\ toSvr[q[1]][q[2]].cmd = "NTF_VERIFY_REQ"
             /\ toSvr[q[1]][q[2]].cid = c
  <2>1. q \in Conns \X (1..SendBufMax)
    BY <1>1
  <2>2. q[1] \in Conns /\ q[2] \in 1..SendBufMax /\ q = <<q[1], q[2]>>
    BY <2>1
  <2>3. toSvr[q[1]] \in Seq(ToSvrMsg)
    BY <2>2 DEF CInv, ChanInv
  <2>4. Len(toSvr[q[1]]) \in Nat /\ DOMAIN toSvr[q[1]] = 1..Len(toSvr[q[1]])
    BY <2>3, LenProperties
  <2> QED
    BY <1>1, <2>2, <2>4, BoundsAssumption
<1>2. ASSUME NEW c \in Cids, NEW q \in asks(c), NEW s \in asks(c)
      PROVE  q = s
  <2> HIDE DEF asks
  <2>1. SameAsk(toSvr[q[1]][q[2]], toSvr[s[1]][s[2]]) /\ SameAsk(toSvr[s[1]][s[2]], toSvr[q[1]][q[2]])
    BY <1>1, <1>2 DEF SameAsk
  <2>2. q[1] = s[1]
    BY <1>1, <1>2, <2>1 DEF CInv, ChanInv
  <2>3. ~(q[2] < s[2]) /\ ~(s[2] < q[2])
    BY <1>1, <1>2, <2>1, <2>2 DEF CInv, ChanInv, InOrder
  <2>4. q[2] \in Nat /\ s[2] \in Nat
    BY <1>1, <1>2
  <2>5. q[2] = s[2]
    BY <2>3, <2>4
  <2>6. q = <<q[1], q[2]>> /\ s = <<s[1], s[2]>>
    BY <1>1, <1>2
  <2> QED
    BY <2>2, <2>5, <2>6
<1>3. ASSUME NEW c \in Cids
      PROVE  Cardinality(asks(c)) <= 1
  <2> DEFINE T == asks(c)
  <2>1. \A q, t \in T : q = t
    BY <1>2
  <2> SUFFICES Cardinality(T) <= 1
    OBVIOUS
  <2> HIDE DEF T
  <2>2. CASE T = {}
    BY <2>2, FS_EmptySet
  <2>3. CASE T # {}
    <3>1. PICK q : T = {q}
      BY <2>1, <2>3
    <3>2. Cardinality(T) = 1
      BY <3>1, FS_Singleton
    <3> QED
      BY <3>2
  <2> QED
    BY <2>2, <2>3
<1>4. ASSUME NEW c \in Cids, asks(c) # {}
      PROVE  cli[c].state # "INIT" \/ cli[c].con = "gone"
  <2>1. PICK q : q \in asks(c)
    BY <1>4
  <2> HIDE DEF asks
  <2>2. StageOf(cli[c]) \in {"asked", "in", "gone"}
    <3>1. Stands(toSvr[q[1]][q[2]], q[1], cli, inner)
      BY <1>1, <2>1 DEF CInv, ChanInv
    <3> QED
      BY <1>1, <2>1, <3>1 DEF Stands
  <2>3. cli[c] \in ClientType
    BY GoodIsClient DEF IInv
  <2> QED
    BY <2>2, <2>3 DEF StageOf, Alive, ClientType
<1> QED
  BY <1>3, <1>4 DEF AsksOnce

(* However many packets a client sends, and however many verify servers     *)
(* there are, it is put before one of them at most once.                    *)
THEOREM AsksOnceCorrect == Spec => []AsksOnce
BY InOrderAsksOnce, AlwaysCInv, PTL
------------------------------------------------------------------------------
(* Announcing. *)

(* One more message m is one more, or none, of those that say cmd of c. *)
LEMMA CountAppend ==
  ASSUME NEW s \in Seq(ToSvrMsg), NEW m \in ToSvrMsg, m.cmd = "NTF_CREATE_SESSION", NEW c, m.cid = c
  PROVE  Count(s \o <<m>>, "NTF_CREATE_SESSION", c) = Count(s, "NTF_CREATE_SESSION", c) + 1
<1> DEFINE b == <<m>>
           t == s \o b
           n == Len(s)
           In(u) == {i \in DOMAIN u : u[i].cmd = "NTF_CREATE_SESSION" /\ u[i].cid = c}
<1>1. b \in Seq(ToSvrMsg) /\ Len(b) = 1 /\ b[1] = m
  OBVIOUS
<1> HIDE DEF b
<1>2. /\ t \in Seq(ToSvrMsg) /\ Len(t) = n + 1
      /\ \A i \in 1..(n + 1) : t[i] = IF i <= n THEN s[i] ELSE b[i - n]
  <2>1. /\ s \o b \in Seq(ToSvrMsg) /\ Len(s \o b) = Len(s) + Len(b)
        /\ \A i \in 1..(Len(s) + Len(b)) :
             (s \o b)[i] = IF i <= Len(s) THEN s[i] ELSE b[i - Len(s)]
    BY <1>1, ConcatProperties
  <2>2. Len(s) + Len(b) = n + 1
    BY <1>1
  <2> QED
    BY <2>1, <2>2
<1>3. n \in Nat /\ DOMAIN s = 1..n
  BY LenProperties
<1>4. DOMAIN t = 1..(n + 1)
  BY <1>2, LenProperties
<1> HIDE DEF t, n
<1>5. t[n + 1] = m /\ \A i \in 1..n : t[i] = s[i]
  <2>1. t[n + 1] = b[(n + 1) - n]
    BY <1>2, <1>3
  <2> QED
    BY <1>1, <1>2, <1>3, <2>1
<1>6. In(t) = In(s) \cup {n + 1} /\ n + 1 \notin In(s)
  <2>1. DOMAIN t = DOMAIN s \cup {n + 1} /\ n + 1 \notin DOMAIN s
    BY <1>3, <1>4
  <2> QED
    BY <1>3, <1>5, <2>1
<1>7. IsFiniteSet(In(s))
  <2>1. In(s) \in SUBSET (1..n)
    BY <1>3
  <2> HIDE DEF In
  <2> QED
    BY <1>3, <2>1, IndexCount
<1>8. Cardinality(In(t)) = Cardinality(In(s)) + 1
  <2> HIDE DEF In
  <2> QED
    BY <1>6, <1>7, FS_AddElement
<1> QED
  BY <1>8 DEF Count, t, b

(* Nothing that happens to a client by itself lets it in. *)
LEMMA ClientEventAdmitsNone ==
  ASSUME IInv, NEW d \in Cids, ClientEvent(d), NEW c \in Cids,
         cli[c].state # "VERIFYED", cli'[c].state = "VERIFYED"
  PROVE  FALSE
<1>1. cli[d] \in GoodClient
  BY DEF IInv
<1>2. ASSUME NEW e, cli' = [cli EXCEPT ![d] = e]
      PROVE  d = c /\ e.state = "VERIFYED"
  BY <1>2 DEF IInv
<1>3. CASE OnConnected(d)
  <2> DEFINE fresh == [NewClient EXCEPT !.con = "open"]
             over  == [fresh EXCEPT !.tm = {"cls"}]
             timed == [fresh EXCEPT !.tm = {"wfm"}]
  <2>1. over \in GoodClient /\ over.state = "INIT" /\ fresh.state = "INIT" /\ timed.state = "INIT"
    <3>1. fresh \in GoodClient /\ fresh.state = "INIT"
      <4>1. fresh \in GoodClient
        BY FreshClient
      <4> QED
        BY <4>1 DEF NewClient
    <3> HIDE DEF fresh
    <3> QED
      BY <3>1 DEF GoodClient, ClientType, Timers
  <2>2. SendToClient(over, 1).state = "INIT"
    <3> HIDE DEF over
    <3> QED
      BY <2>1, SendToClientGood
  <2>3. PICK e \in {fresh, timed, SendToClient(over, 1)} : cli' = [cli EXCEPT ![d] = e]
    BY <1>3 DEF OnConnected
  <2> HIDE DEF fresh, timed, over
  <2> QED
    BY <1>2, <2>1, <2>2, <2>3
<1>4. CASE ClientBreak(d)
  BY <1>1, <1>2, <1>4, DisConnectGood DEF ClientBreak
<1>5. CASE ClientDrain(d)
  <2>1. cli' = [cli EXCEPT ![d] = [cli[d] EXCEPT !.pend = 0]]
    BY <1>1, <1>5 DEF ClientDrain, IInv, GoodClient, ClientType
  <2> QED
    BY <1>1, <1>2, <2>1 DEF GoodClient, ClientType
<1>6. ASSUME NEW t \in Timers, TimeOut(d, t)
      PROVE  FALSE
  BY <1>1, <1>2, <1>6 DEF TimeOut, DisConnect, GoodClient, ClientType
<1>7. CASE DestroyClient(d)
  <2>1. [NewClient EXCEPT !.con = "gone"].state = "INIT"
    BY DEF NewClient
  <2> QED
    BY <1>2, <1>7, <2>1 DEF DestroyClient
<1> QED
  BY <1>3, <1>4, <1>5, <1>6, <1>7 DEF ClientEvent, OnWaitFirstMsgTimeOut, OnVerfiyTimeOut,
     OnHeartbeatTimeOut, OnClsTimeOut, Timers

(* Nothing lets a client in but the answer of a server. *)
LEMMA OnlyVerifyRetAdmits ==
  ASSUME IInv, CInv, [Next]_accVars, NEW c \in Cids,
         cli[c].state # "VERIFYED", cli'[c].state = "VERIFYED"
  PROVE  \E k \in Conns, r \in Requests :
           r.cmd = "REQ_VERIFY_RET" /\ Parse_CMD_REQ_VERIFY_RET(k, r)
<1>1. CASE \E d \in Cids : RecvPacket(d)
  BY <1>1, OnRawRecvKeeps DEF RecvPacket, Keeps
<1>2. CASE UNCHANGED cli
  BY <1>2
<1>3. CASE \E d \in Cids : ClientEvent(d)
  BY <1>3, ClientEventAdmitsNone
<1>4. CASE \E k \in Conns : SvrConnect(k) \/ SvrBreak(k) \/ SvrRead(k) \/ DestroySvr(k)
  BY <1>2, <1>4 DEF SvrConnect, SvrBreak, SvrRead, DestroySvr
<1>5. CASE \E k \in Conns, r \in Requests : OnRecv(k, r)
  <2>1. PICK k \in Conns, r \in Requests : OnRecv(k, r)
    BY <1>5
  <2>2. r.cmd = "REQ_VERIFY_RET"
    BY <2>1, RequestsAssumption, RequestSame DEF Same
  <2> QED
    BY <2>1, <2>2 DEF OnRecv
<1> QED
  BY <1>1, <1>2, <1>3, <1>4, <1>5 DEF Next, SvrEvent, ReadDone, accVars

(* Servers answer with names that fit a login notification. *)
NamesFit == \A r \in Requests : r.cmd = "REQ_VERIFY_RET" => r.accName \notin LongNames

(* Where no server answers with a name that is too long, a client that is   *)
(* let in is announced, once, to every registered server whose connection   *)
(* survives the announcement (doc.md:87).                                   *)
THEOREM AnnouncedCorrect == NamesFit => (Spec => VerifiedIsAnnounced)
<1> DEFINE Announced ==
             \A c \in Cids, k \in Conns :
               /\ cli[c].state # "VERIFYED" /\ cli'[c].state = "VERIFYED"
               /\ inner[k].svrId # 0 /\ inner'[k].con = "open"
               => Count(toSvr'[k], "NTF_CREATE_SESSION", c)
                    = Count(toSvr[k], "NTF_CREATE_SESSION", c) + 1
<1> SUFFICES ASSUME NamesFit PROVE Spec => VerifiedIsAnnounced
  OBVIOUS
<1>1. IInv /\ CInv /\ [Next]_accVars => [Announced]_accVars
  <2> SUFFICES ASSUME IInv, CInv, [Next]_accVars, NEW c \in Cids, NEW k \in Conns,
                      cli[c].state # "VERIFYED", cli'[c].state = "VERIFYED",
                      inner[k].svrId # 0, inner'[k].con = "open"
               PROVE  Count(toSvr'[k], "NTF_CREATE_SESSION", c)
                        = Count(toSvr[k], "NTF_CREATE_SESSION", c) + 1
    OBVIOUS
  <2>1. PICK j \in Conns, r \in Requests :
          r.cmd = "REQ_VERIFY_RET" /\ Parse_CMD_REQ_VERIFY_RET(j, r)
    BY OnlyVerifyRetAdmits
  <2>2. r \in RequestType /\ r.accName \notin LongNames /\ r.accName \in Names
          /\ r.uin \in Uins \cup {0}
    BY <2>1, RequestsAssumption DEF NamesFit, RequestType
  <2> DEFINE m == CreateSession(r.cid, r.uin, r.accName)
             e == SetVerify(SendToClient(cli[r.cid], 1))
  <2>3. r.cid \in FoundClients => r.cid \in Cids /\ cli[r.cid] \in GoodClient
    BY FoundStage
  <2>4. r.cid \in FoundClients => SendToClient(cli[r.cid], 1).state = cli[r.cid].state
    BY <2>3, SendToClientGood
  <2>5. c = r.cid /\ SendAll(RegisteredInner, m)
    <3>1. CASE Ignored
      BY <3>1 DEF Ignored
    <3>2. CASE r.cid \in FoundClients /\ cli' = [cli EXCEPT ![r.cid] = SendToClient(cli[r.cid], 1)]
      BY <2>3, <2>4, <3>2 DEF IInv
    <3>3. CASE /\ r.cid \in FoundClients /\ cli' = [cli EXCEPT ![r.cid] = e]
               /\ SendAll(RegisteredInner, m)
      <4> HIDE DEF e
      <4> QED
        BY <2>3, <3>3 DEF IInv
    <3> QED
      BY <2>1, <2>2, <3>1, <3>2, <3>3 DEF Parse_CMD_REQ_VERIFY_RET
  <2>6. m \in ToSvrMsg /\ m.cmd = "NTF_CREATE_SESSION" /\ m.cid = c
    BY <2>2, <2>5 DEF CreateSession, ToSvrMsg
  <2> HIDE DEF m, e
  <2>7. k \in RegisteredInner
    <3>1. inner[k].con = "open"
      BY <2>5 DEF SendAll, Send, DisConnect, IInv, InnerTypeOK, InnerType
    <3> QED
      BY <3>1 DEF RegisteredInner, FoundInner, Found
  <2>8. toSvr'[k] = toSvr[k] \o <<m>>
    <3> DEFINE msgs == [i \in Conns |-> IF i \in RegisteredInner THEN <<m>> ELSE <<>>]
    <3>1. Send(inner, msgs) /\ msgs[k] = <<m>>
      BY <2>5, <2>7 DEF SendAll
    <3> HIDE DEF msgs
    <3>2. inner'[k] = IF Overflows(inner, msgs, k) THEN DisConnect(inner[k]) ELSE inner[k]
      BY <3>1 DEF Send
    <3>3. inner[k].con = "open" /\ ~Overflows(inner, msgs, k)
      BY <3>2 DEF DisConnect, IInv, InnerTypeOK, InnerType
    <3>4. toSvr'[k] = toSvr[k] \o msgs[k]
      BY <3>1, <3>3 DEF Send
    <3> QED
      BY <3>1, <3>4
  <2> QED
    BY <2>6, <2>8, CountAppend DEF CInv, ChanInv
<1>2. Spec => [][Announced]_accVars
  BY <1>1, AlwaysCInv, PTL DEF Spec
<1> QED
  BY <1>2 DEF VerifiedIsAnnounced
==============================================================================
