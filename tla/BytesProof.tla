----------------------------- MODULE BytesProof -----------------------------
(***************************************************************************)
(* Theorems about what goes over the connections as bytes: the packets of  *)
(* a client (Framing), for every set of streams, every way TCP splits them *)
(* and either sign of char, and the messages between acc and servers       *)
(* (Proto), for all lengths a message can have.                            *)
(***************************************************************************)
EXTENDS Framing, Proto, TLAPS

(* What a step relies on beside its types and the cuts: a seed is missing   *)
(* only before the first packet, and a refusal ends the reading.            *)
SeedFirst   == ~seeded => packets = <<>>
RefusedEnds == refused => con = "closing" /\ ~reading

FramingInv ==
  /\ FramingTypeOK
  /\ CutByLength
  /\ SeedFirst
  /\ RefusedEnds
  /\ OnlyFirstHeldBack
  /\ RefusedForItsBytes
------------------------------------------------------------------------------
(* A length that is not negative is the number the two bytes write. *)
LEMMA LengthIsWritten ==
  ASSUME NEW b1 \in Byte, NEW b2 \in Byte
  PROVE  /\ PacketLength(b1, b2) \in Int
         /\ PacketLength(b1, b2) >= MinPacket => PacketLength(b1, b2) = 256 * b1 + b2
BY CharAssumption DEF PacketLength, CharOf, Byte, MinPacket

(* The bytes that have come can be read. *)
LEMMA BytesThere ==
  ASSUME FramingTypeOK, NEW at \in Nat, NEW i \in Nat, at + i < got
  PROVE  At(at, i) \in Byte
<1>1. stream \in Seq(Byte)
  BY StreamsAssumption DEF FramingTypeOK
<1>2. at + i + 1 \in 1..Len(stream)
  BY <1>1 DEF FramingTypeOK
<1> QED
  BY <1>1, <1>2 DEF At

LEMMA LengthThere ==
  ASSUME FramingTypeOK, NEW at \in Nat, at + 2 < got
  PROVE  /\ LengthAt(at) \in Int
         /\ LengthAt(at) >= MinPacket => LengthAt(at) = 256 * At(at, 1) + At(at, 2)
<1>1. At(at, 1) \in Byte /\ At(at, 2) \in Byte
  BY BytesThere DEF FramingTypeOK
<1> QED
  BY <1>1, LengthIsWritten DEF LengthAt
------------------------------------------------------------------------------
LEMMA FramingInit == Init => FramingInv
<1> SUFFICES ASSUME Init PROVE FramingInv
  OBVIOUS
<1>1. Len(stream) \in Nat
  BY StreamsAssumption DEF Init
<1>2. packets = <<>> /\ DOMAIN packets = {}
  BY DEF Init
<1>3. FramingTypeOK
  <2>1. packets \in Seq([at : Nat, len : Nat])
    BY <1>2
  <2>2. stream \in Streams /\ got \in 0..Len(stream) /\ used \in 0..got
    BY <1>1 DEF Init
  <2>3. reading \in BOOLEAN /\ seeded \in BOOLEAN /\ verified \in BOOLEAN /\ refused \in BOOLEAN
    BY DEF Init
  <2>4. con \in {"open", "closing"}
    BY DEF Init
  <2> QED
    BY <2>1, <2>2, <2>3, <2>4 DEF FramingTypeOK
<1>4. CutByLength
  BY <1>2 DEF Init, CutByLength
<1>5. OnlyFirstHeldBack
  BY DEF Init, OnlyFirstHeldBack, WholePacket, Len0, MinPacket
<1> QED
  BY <1>3, <1>4, <1>5 DEF Init, FramingInv, SeedFirst, RefusedEnds, RefusedForItsBytes

(* A step that leaves the bytes, the consumed part and the packets alone    *)
(* leaves the cuts alone.                                                   *)
LEMMA SameCuts ==
  ASSUME FramingInv, UNCHANGED <<stream, used, packets>>
  PROVE  CutByLength'
BY DEF FramingInv, CutByLength, At, End

(* ParsePacket returns 0. *)
LEMMA NoPacketStep ==
  ASSUME FramingInv, NoBytes \/ NoSeed \/ NoPacket
  PROVE  FramingInv'
<1>1. Len(stream) \in Nat /\ got \in Nat /\ used \in Nat /\ used <= got /\ Len0 \in Nat
  BY StreamsAssumption DEF FramingInv, FramingTypeOK, Len0
<1>2. /\ UNCHANGED <<stream, got, used, verified, packets>>
      /\ ~reading' /\ reading' \in BOOLEAN
  BY DEF NoBytes, NoSeed, NoPacket, Return
<1>3. FramingTypeOK'
  BY <1>2 DEF FramingInv, FramingTypeOK, NoBytes, NoSeed, NoPacket, Return
<1>4. CutByLength'
  BY <1>2, SameCuts
<1>5. SeedFirst'
  BY DEF FramingInv, SeedFirst, NoBytes, NoSeed, NoPacket, Return
<1>6. RefusedEnds'
  BY DEF FramingInv, RefusedEnds, NoBytes, NoSeed, NoPacket, Return
<1>7. OnlyFirstHeldBack'
  <2> SUFFICES ASSUME con' = "open", WholePacket'
               PROVE  packets' = <<>> /\ Len0' < (LengthAt(used) + SeedLen)'
    BY DEF OnlyFirstHeldBack
  <2>1. WholePacket /\ con = "open" /\ LengthAt(used)' = LengthAt(used) /\ Len0' = Len0
    BY <1>2 DEF WholePacket, LengthAt, At, Len0, NoBytes, NoSeed, NoPacket, Return
  <2>2. LengthAt(used) \in MinPacket..Len0 /\ Len0 >= MinPacket /\ LengthAt(used) \in Int
    BY <2>1, <1>1 DEF WholePacket
  <2>3. CASE NoBytes
    BY <2>2, <2>3 DEF NoBytes, MinPacket
  <2>4. CASE NoSeed
    <3>1. ~seeded /\ Len0 < SeedLen
      BY <2>4, <1>1 DEF NoSeed, Return, SeedLen
    <3> QED
      BY <3>1, <2>1, <2>2, <1>1, <1>2 DEF FramingInv, SeedFirst, SeedLen, MinPacket
  <2>5. CASE NoPacket
    <3>1. Length <= 0 \/ Incomplete
      BY <2>5, <1>1 DEF NoPacket, Return, Length, TakenSeed, SeedLen
    <3>2. Length = Len0 \/ (~seeded /\ Length = Len0 - SeedLen)
      BY <1>1 DEF Length, TakenSeed
    <3>3. CASE Length = Len0
      BY <3>1, <3>3, <2>2, <1>1 DEF Incomplete, MinPacket
    <3>4. CASE ~seeded /\ Length = Len0 - SeedLen
      BY <3>1, <3>4, <2>1, <2>2, <1>1, <1>2
         DEF FramingInv, SeedFirst, Incomplete, MinPacket, SeedLen
    <3> QED
      BY <3>2, <3>3, <3>4
  <2> QED
    BY <2>3, <2>4, <2>5
<1>8. RefusedForItsBytes'
  <2> SUFFICES ASSUME refused'
               PROVE  \/ Len0 > 0 /\ ~IsPlain(At(used, 0))
                      \/ Len0 >= MinPacket /\ LengthAt(used) < MinPacket
    BY <1>2 DEF RefusedForItsBytes, Len0, LengthAt, At
  <2>1. CASE refused
    BY <2>1 DEF FramingInv, RefusedForItsBytes
  <2>2. CASE ~refused /\ NoBytes
    BY <2>2 DEF NoBytes, Return
  <2>3. CASE ~refused /\ NoSeed
    <3>1. Len0 >= SeedLen /\ ZeroSeed
      BY <2>3 DEF NoSeed, Return, HasSeed
    <3>2. At(used, 0) = 0
      BY <3>1 DEF ZeroSeed
    <3> QED
      BY <1>1, <3>1, <3>2, CharAssumption DEF SeedLen, IsPlain, PlainIds, CharOf
  <2>4. CASE ~refused /\ NoPacket
    <3>1. Length > 0 /\ BadPacket /\ Len0 > 0
      BY <2>4 DEF NoPacket, Return
    <3>2. Length <= Len0
      BY <1>1 DEF Length, TakenSeed, SeedLen
    <3> QED
      BY <3>1, <3>2, <1>1 DEF BadPacket, CheckEncrypted, MinPacket, Length, TakenSeed, SeedLen
  <2> QED
    BY <2>1, <2>2, <2>3, <2>4
<1> QED
  BY <1>3, <1>4, <1>5, <1>6, <1>7, <1>8 DEF FramingInv

(* ParsePacket cuts a packet. *)
LEMMA RevPacketStep ==
  ASSUME FramingInv, RevPacket
  PROVE  FramingInv'
<1> DEFINE len == LengthAt(used)
           p   == [at |-> used, len |-> len]
<1>1. Len(stream) \in Nat /\ got \in Nat /\ used \in Nat /\ got <= Len(stream)
  BY StreamsAssumption DEF FramingInv, FramingTypeOK
<1>2. Length <= Len0 /\ Length \in Int /\ Len0 = got - used
  BY <1>1 DEF Length, Len0, TakenSeed, SeedLen
<1>3. Length >= MinPacket /\ ~(Length < len)
  BY <1>2 DEF RevPacket, Incomplete, MinPacket
<1>4. used + 2 < got
  BY <1>1, <1>2, <1>3 DEF MinPacket
<1>5. len \in Int /\ len >= MinPacket /\ len = 256 * At(used, 1) + At(used, 2)
  <2>1. ~(len < MinPacket)
    BY <1>3 DEF RevPacket, BadPacket
  <2> QED
    BY <2>1, <1>1, <1>4, LengthThere DEF FramingInv, MinPacket
<1>6. len \in Nat /\ used + len \in 0..got
  BY <1>1, <1>2, <1>3, <1>5 DEF MinPacket
<1>7. /\ packets \in Seq([at : Nat, len : Nat]) /\ p \in [at : Nat, len : Nat]
      /\ packets' = Append(packets, p) /\ used' = used + len
      /\ UNCHANGED <<stream, got, reading, verified, refused>> /\ seeded' = TRUE
      /\ reading /\ con' \in {con, "closing"}
  BY <1>1, <1>6 DEF RevPacket, FramingInv, FramingTypeOK
<1> HIDE DEF len, p
<1>8. FramingTypeOK'
  BY <1>6, <1>7 DEF FramingInv, FramingTypeOK
<1>9. CutByLength'
  <2>1. /\ Len(packets') = Len(packets) + 1 /\ DOMAIN packets' = 1..(Len(packets) + 1)
        /\ DOMAIN packets = 1..Len(packets) /\ Len(packets) \in Nat
        /\ packets'[Len(packets) + 1] = p
        /\ \A i \in 1..Len(packets) : packets'[i] = packets[i]
    BY <1>7
  <2>2. used = IF packets = <<>> THEN 0 ELSE End(packets[Len(packets)])
    BY DEF FramingInv, CutByLength
  <2>3. packets = <<>> <=> Len(packets) = 0
    BY <1>7
  <2>4. p.at = used /\ p.len = len
    BY DEF p
  <2>5. ASSUME NEW i \in DOMAIN packets'
        PROVE  /\ packets'[i].at = IF i = 1 THEN 0 ELSE End(packets'[i - 1])
               /\ packets'[i].len >= MinPacket
               /\ packets'[i].len = 256 * At(packets'[i].at, 1) + At(packets'[i].at, 2)
    <3>1. CASE i = Len(packets) + 1
      BY <3>1, <2>1, <2>2, <2>3, <2>4, <1>5 DEF End
    <3>2. CASE i \in 1..Len(packets)
      <4>1. i # 1 => i - 1 \in 1..Len(packets)
        BY <3>2, <2>1
      <4> QED
        BY <3>2, <4>1, <2>1 DEF FramingInv, CutByLength, End
    <3> QED
      BY <3>1, <3>2, <2>1
  <2>6. stream' = stream
    BY <1>7
  <2>7. used' = IF packets' = <<>> THEN 0 ELSE End(packets'[Len(packets')])
    BY <2>1, <2>4, <1>7 DEF End
  <2> QED
    BY <2>5, <2>6, <2>7 DEF CutByLength, At
<1>10. SeedFirst' /\ RefusedEnds' /\ OnlyFirstHeldBack' /\ RefusedForItsBytes'
  BY <1>7 DEF FramingInv, SeedFirst, RefusedEnds, OnlyFirstHeldBack, RefusedForItsBytes
<1> QED
  BY <1>8, <1>9, <1>10 DEF FramingInv

(* Bytes come in: what was held back is looked at again. *)
LEMMA OnRawRecvStep ==
  ASSUME FramingInv, OnRawRecv
  PROVE  FramingInv'
<1>1. Len(stream) \in Nat /\ got \in Nat /\ used \in Nat
  BY StreamsAssumption DEF FramingInv, FramingTypeOK
<1>2. got' \in got..Len(stream) /\ reading' = TRUE /\ con = "open" /\ ~refused
      /\ UNCHANGED <<stream, used, seeded, verified, con, refused, packets>>
  BY <1>1 DEF OnRawRecv, FramingInv, RefusedEnds
<1>3. FramingTypeOK'
  BY <1>1, <1>2 DEF FramingInv, FramingTypeOK
<1>4. CutByLength'
  BY <1>2, SameCuts
<1> QED
  BY <1>2, <1>3, <1>4
     DEF FramingInv, SeedFirst, RefusedEnds, OnlyFirstHeldBack, RefusedForItsBytes

(* The steps that read nothing. *)
LEMMA OtherStep ==
  ASSUME FramingInv, SetVerify \/ DisConnect \/ UNCHANGED framingVars
  PROVE  FramingInv'
<1>1. UNCHANGED <<stream, got, used, reading, seeded, refused, packets>>
      /\ con' \in {con, "closing"} /\ verified' \in BOOLEAN
  BY DEF FramingInv, FramingTypeOK, SetVerify, DisConnect, framingVars
<1>2. FramingTypeOK'
  BY <1>1 DEF FramingInv, FramingTypeOK
<1>3. CutByLength'
  BY <1>1, SameCuts
<1>4. OnlyFirstHeldBack' /\ RefusedForItsBytes'
  BY <1>1 DEF FramingInv, OnlyFirstHeldBack, RefusedForItsBytes, WholePacket, Len0, LengthAt, At
<1>5. SeedFirst' /\ RefusedEnds'
  BY <1>1 DEF FramingInv, SeedFirst, RefusedEnds
<1> QED
  BY <1>2, <1>3, <1>4, <1>5 DEF FramingInv

LEMMA AlwaysFramingInv == Spec => []FramingInv
<1>1. FramingInv /\ [Next]_framingVars => FramingInv'
  <2> SUFFICES ASSUME FramingInv, [Next]_framingVars PROVE FramingInv'
    OBVIOUS
  <2>1. CASE OnRawRecv
    BY <2>1, OnRawRecvStep
  <2>2. CASE NoBytes \/ NoSeed \/ NoPacket
    BY <2>2, NoPacketStep
  <2>3. CASE RevPacket
    BY <2>3, RevPacketStep
  <2>4. CASE SetVerify \/ DisConnect \/ UNCHANGED framingVars
    BY <2>4, OtherStep
  <2> QED
    BY <2>1, <2>2, <2>3, <2>4 DEF Next, ParsePacket
<1> QED
  BY <1>1, FramingInit, PTL DEF Spec

(* The buffers and counters of a connection keep their types.               *)
THEOREM FramingTypeCorrect == Spec => []FramingTypeOK
<1>1. FramingInv => FramingTypeOK
  BY DEF FramingInv
<1> QED
  BY <1>1, AlwaysFramingInv, PTL

(* Every stream is cut at its own length fields, however it was split.      *)
THEOREM CutCorrect == Spec => []CutByLength
<1>1. FramingInv => CutByLength
  BY DEF FramingInv
<1> QED
  BY <1>1, AlwaysFramingInv, PTL

(* A whole packet waits only when it is the first, for fewer bytes than a   *)
(* seed has.                                                                *)
THEOREM HeldBackCorrect == Spec => []OnlyFirstHeldBack
<1>1. FramingInv => OnlyFirstHeldBack
  BY DEF FramingInv
<1> QED
  BY <1>1, AlwaysFramingInv, PTL

(* A client is refused for the bytes it sent, never for how they came.      *)
THEOREM RefusedCorrect == Spec => []RefusedForItsBytes
<1>1. FramingInv => RefusedForItsBytes
  BY DEF FramingInv
<1> QED
  BY <1>1, AlwaysFramingInv, PTL
------------------------------------------------------------------------------
(***************************************************************************)
(* Proto.  The lemmas about ++ say that what is appended to a string is    *)
(* found behind what was there; with them each message is known field by   *)
(* field, and so is what the parsers make of it.                           *)
(***************************************************************************)
Strings == [size : Nat, fields : Seq([w : Nat, v : Int])]

Count(s) == Len(s.fields)

LEMMA FieldIs ==
  ASSUME NEW w \in Nat, NEW v \in Int
  PROVE  /\ Field(w, v) \in Strings
         /\ Field(w, v).size = w /\ Count(Field(w, v)) = 1
         /\ Read(Field(w, v), 1, w) = v
BY DEF Field, Strings, Count, Read

LEMMA EmptyIs == Empty \in Strings /\ Empty.size = 0 /\ Count(Empty) = 0
BY DEF Empty, Strings, Count

(* Behind the end nothing is found. *)
LEMMA ReadsBeyond ==
  ASSUME NEW s \in Strings, NEW i \in Int, i < 1 \/ i > Count(s), NEW w
  PROVE  Read(s, i, w) = Beyond
BY DEF Read, Strings, Count

LEMMA ConcatIs ==
  ASSUME NEW S, NEW a \in Seq(S), NEW b \in Seq(S)
  PROVE  /\ a \o b \in Seq(S) /\ Len(a \o b) = Len(a) + Len(b)
         /\ DOMAIN (a \o b) = 1..(Len(a) + Len(b))
         /\ DOMAIN a = 1..Len(a) /\ DOMAIN b = 1..Len(b)
         /\ Len(a) \in Nat /\ Len(b) \in Nat
         /\ \A i \in 1..Len(a) : (a \o b)[i] = a[i]
         /\ \A i \in 1..Len(b) : (a \o b)[Len(a) + i] = b[i]
<1>1. a \o b \in Seq(S) /\ Len(a \o b) = Len(a) + Len(b) /\ Len(a) \in Nat /\ Len(b) \in Nat
  OBVIOUS
<1>2. DOMAIN a = 1..Len(a) /\ DOMAIN b = 1..Len(b)
  OBVIOUS
<1>3. DOMAIN (a \o b) = 1..(Len(a) + Len(b))
  BY <1>1
<1>4. \A i \in 1..Len(a) : (a \o b)[i] = a[i]
  BY <1>1
<1>5. \A i \in 1..Len(b) : (a \o b)[Len(a) + i] = b[i]
  BY <1>1
<1> QED
  BY <1>1, <1>2, <1>3, <1>4, <1>5

(* What is appended is found behind what was there. *)
LEMMA AppendIs ==
  ASSUME NEW s \in Strings, NEW t \in Strings
  PROVE  /\ s ++ t \in Strings
         /\ (s ++ t).size = s.size + t.size
         /\ Count(s ++ t) = Count(s) + Count(t)
         /\ \A i \in 1..Count(s), w \in Int : Read(s ++ t, i, w) = Read(s, i, w)
         /\ \A i \in Nat \ {0}, w \in Int :
              Read(s ++ t, Count(s) + i, w) = Read(t, i, w)
<1> DEFINE S == [w : Nat, v : Int]
           a == s.fields
           b == t.fields
<1>1. a \in Seq(S) /\ b \in Seq(S) /\ s.size \in Nat /\ t.size \in Nat
  BY DEF Strings
<1>2. /\ (s ++ t).size = s.size + t.size
      /\ (s ++ t).fields = a \o b
      /\ s ++ t = [size |-> s.size + t.size, fields |-> a \o b]
  BY DEF ++
<1> HIDE DEF S, a, b
<1>3. /\ a \o b \in Seq(S) /\ Len(a \o b) = Len(a) + Len(b)
      /\ DOMAIN (a \o b) = 1..(Len(a) + Len(b))
      /\ DOMAIN a = 1..Len(a) /\ DOMAIN b = 1..Len(b)
      /\ Len(a) \in Nat /\ Len(b) \in Nat
      /\ \A i \in 1..Len(a) : (a \o b)[i] = a[i]
      /\ \A i \in 1..Len(b) : (a \o b)[Len(a) + i] = b[i]
  BY <1>1, ConcatIs
<1> DEFINE c == a \o b
<1>4. s ++ t \in Strings
  BY <1>1, <1>2, <1>3 DEF Strings, S, a, b
<1>5. /\ Count(s) = Len(a) /\ Count(t) = Len(b) /\ Count(s ++ t) = Len(c)
  BY <1>2 DEF Count, a, b, c
<1>6. ASSUME NEW i \in Int, NEW w \in Int
      PROVE  /\ Read(s, i, w) = IF i \in 1..Len(a) /\ a[i].w = w THEN a[i].v ELSE Beyond
             /\ Read(t, i, w) = IF i \in 1..Len(b) /\ b[i].w = w THEN b[i].v ELSE Beyond
             /\ Read(s ++ t, i, w) =
                  IF i \in 1..(Len(a) + Len(b)) /\ c[i].w = w THEN c[i].v ELSE Beyond
  BY <1>2, <1>3 DEF Read, a, b, c
<1>7. ASSUME NEW i \in 1..Count(s), NEW w \in Int
      PROVE  Read(s ++ t, i, w) = Read(s, i, w)
  <2>1. i \in Int /\ i \in 1..Len(a) /\ i \in 1..(Len(a) + Len(b)) /\ c[i] = a[i]
    BY <1>3, <1>5 DEF c
  <2> HIDE DEF c
  <2> QED
    BY <2>1, <1>6
<1>8. ASSUME NEW i \in Nat \ {0}, NEW w \in Int
      PROVE  Read(s ++ t, Count(s) + i, w) = Read(t, i, w)
  <2>1. i \in 1..Len(b) => c[Len(a) + i] = b[i]
    BY <1>3 DEF c
  <2>2. Len(a) + i \in Int /\ (Len(a) + i \in 1..(Len(a) + Len(b)) <=> i \in 1..Len(b))
    BY <1>3
  <2> HIDE DEF c
  <2> QED
    BY <2>1, <2>2, <1>5, <1>6
<1> QED
  BY <1>2, <1>3, <1>4, <1>5, <1>7, <1>8 DEF c

(* t is s with one more field.                                              *)
Longer(t, s, w, v) ==
  /\ t \in Strings
  /\ t.size = s.size + w
  /\ Count(t) = Count(s) + 1
  /\ Read(t, Count(s) + 1, w) = v
  /\ \A i \in 1..Count(s), x \in Int : Read(t, i, x) = Read(s, i, x)

LEMMA FieldAppended ==
  ASSUME NEW s \in Strings, NEW w \in Nat, NEW v \in Int
  PROVE  Longer(s ++ Field(w, v), s, w, v)
<1>1. Field(w, v) \in Strings /\ Field(w, v).size = w /\ Count(Field(w, v)) = 1
      /\ Read(Field(w, v), 1, w) = v
  BY FieldIs
<1> QED
  BY <1>1, AppendIs DEF Longer

(* ASMsg: the receiver has the message that was sent, if it is not too long. *)
LEMMA MsgArrives ==
  ASSUME NEW s \in Strings
  PROVE  ASMsg_Parse(ASMsg_Serialize(s)) = If(s.size < ASMSG_MAX_LEN, s)
<1> DEFINE h == <<[w |-> 2, v |-> AsCmd]>>
           p == ASMsg_Serialize(s)
<1>1. p.size = 2 + s.size /\ p.fields = h \o s.fields
  BY DEF ASMsg_Serialize, Field, ++
<1>2. s.size \in Nat /\ s.fields \in Seq([w : Nat, v : Int])
      /\ s = [size |-> s.size, fields |-> s.fields]
  BY DEF Strings
<1>3. Tail(h \o s.fields) = s.fields
  BY <1>2
<1>4. p.size - 2 = s.size
  BY <1>1, <1>2
<1>5. Body(p) = s
  BY <1>1, <1>2, <1>3, <1>4 DEF Body
<1> QED
  BY <1>5 DEF ASMsg_Parse

(* The message for a client at the end of another: it is read back, or the  *)
(* reads go behind the end.                                                 *)
LEMMA LensIs ==
  ASSUME NEW x \in Lens
  PROVE  x \in Nat /\ x <= 65535
BY ProtoAssumption

LEMMA CountsIs ==
  ASSUME NEW x \in Counts
  PROVE  x \in Nat
BY ProtoAssumption

LEMMA RspsIs ==
  ASSUME NEW m \in Rsps
  PROVE  m.cmd \in Nat /\ m.len \in Nat /\ m.len <= 65535
<1>1. m.cmd \in {0, 1} /\ m.len \in Lens
  BY DEF Rsps
<1> QED
  BY <1>1, LensIs

(* ClientSvrMsg as it is written. *)
ClientMsgBytes(t, cmd, len) ==
  /\ t \in Strings /\ t.size = 6 + len /\ Count(t) = 3
  /\ Read(t, 1, 4) = cmd /\ Read(t, 2, 2) = len /\ Read(t, 3, len) = len

LEMMA ClientMsgIs ==
  ASSUME NEW cmd \in Int, NEW len \in Nat
  PROVE  ClientMsgBytes(Field(4, cmd) ++ Field(2, len) ++ Text(len), cmd, len)
<1> DEFINE s1 == Field(4, cmd)
           s2 == s1 ++ Field(2, len)
           s3 == s2 ++ Field(len, len)
<1>1. s1 \in Strings /\ s1.size = 4 /\ Count(s1) = 1 /\ Read(s1, 1, 4) = cmd
  BY FieldIs
<1>2. s1 \in Strings => Longer(s2, s1, 2, len)
  BY FieldAppended
<1>3. s2 \in Strings => Longer(s3, s2, len, len)
  BY FieldAppended
<1>4. s3 = Field(4, cmd) ++ Field(2, len) ++ Text(len)
  BY DEF Text
<1> HIDE DEF s1, s2, s3
<1>5. /\ s2 \in Strings /\ s2.size = 6 /\ Count(s2) = 2 /\ Read(s2, 2, 2) = len
      /\ \A i \in 1..1, x \in Int : Read(s2, i, x) = Read(s1, i, x)
  BY <1>1, <1>2 DEF Longer
<1>6. /\ s3 \in Strings /\ s3.size = 6 + len /\ Count(s3) = 3 /\ Read(s3, 3, len) = len
      /\ \A i \in 1..2, x \in Int : Read(s3, i, x) = Read(s2, i, x)
  BY <1>5, <1>3 DEF Longer
<1> QED
  BY <1>1, <1>4, <1>5, <1>6 DEF ClientMsgBytes

LEMMA ClientSvrMsgIs ==
  ASSUME NEW m \in Rsps
  PROVE  LET t == ClientSvrMsg_Serialize(m)
         IN  /\ t \in Strings
             /\ ClientSvrMsgOk(m) =>
                  /\ t.size = 6 + m.len /\ Count(t) = 3
                  /\ Read(t, 1, 4) = m.cmd /\ Read(t, 2, 2) = m.len /\ Read(t, 3, m.len) = m.len
             /\ ~ClientSvrMsgOk(m) => t.size = 0 /\ Count(t) = 0
<1> DEFINE t == Field(4, m.cmd) ++ Field(2, m.len) ++ Text(m.len)
<1>1. m.cmd \in Int /\ m.len \in Nat
  BY RspsIs
<1>2. /\ t \in Strings /\ t.size = 6 + m.len /\ Count(t) = 3
      /\ Read(t, 1, 4) = m.cmd /\ Read(t, 2, 2) = m.len /\ Read(t, 3, m.len) = m.len
  <2>1. ClientMsgBytes(t, m.cmd, m.len)
    BY <1>1, ClientMsgIs
  <2> QED
    BY <2>1 DEF ClientMsgBytes
<1>3. ClientSvrMsg_Serialize(m) = IF ClientSvrMsgOk(m) THEN t ELSE Empty
  BY DEF ClientSvrMsg_Serialize
<1> HIDE DEF t
<1> QED
  BY <1>2, <1>3, EmptyIs

NoMsg == [cmd |-> Beyond, len |-> Beyond, text |-> Beyond]

LEMMA ClientSvrMsgArrives ==
  ASSUME NEW s \in Strings, NEW m \in Rsps, NEW n \in Nat, n = Count(s) + 1
  PROVE  LET t == s ++ ClientSvrMsg_Serialize(m)
         IN  /\ t \in Strings
             /\ t.size = s.size + IF ClientSvrMsgOk(m) THEN 6 + m.len ELSE 0
             /\ ClientSvrMsg_Parse(t, n) = IF ClientSvrMsgOk(m) THEN ReadBack(m) ELSE NoMsg
             /\ Read(t, n + 1, 2) = IF ClientSvrMsgOk(m) THEN m.len ELSE Beyond
             /\ \A i \in 1..Count(s), x \in Int : Read(t, i, x) = Read(s, i, x)
<1> DEFINE r == ClientSvrMsg_Serialize(m)
           t == s ++ r
<1>1. m.len \in Nat /\ m.len <= 65535
  BY RspsIs
<1>2. r \in Strings
  BY ClientSvrMsgIs
<1>3. Count(s) \in Nat /\ s.size \in Nat
  BY DEF Count, Strings
<1> HIDE DEF r
<1>4. /\ t \in Strings /\ t.size = s.size + r.size /\ Count(t) = Count(s) + Count(r)
      /\ \A i \in 1..Count(s), x \in Int : Read(t, i, x) = Read(s, i, x)
      /\ \A i \in Nat \ {0}, x \in Int : Read(t, Count(s) + i, x) = Read(r, i, x)
  BY <1>2, AppendIs
<1> HIDE DEF t
<1>5. CASE ClientSvrMsgOk(m)
  <2>1. /\ r.size = 6 + m.len
        /\ Read(r, 1, 4) = m.cmd /\ Read(r, 2, 2) = m.len /\ Read(r, 3, m.len) = m.len
    BY <1>5, ClientSvrMsgIs DEF r
  <2>2. m.len < ASMSG_MAX_LEN
    BY <1>5 DEF ClientSvrMsgOk
  <2>3. Read(t, n, 4) = m.cmd /\ Read(t, n + 1, 2) = m.len /\ Read(t, n + 2, m.len) = m.len
    <3>1. n = Count(s) + 1 /\ n + 1 = Count(s) + 2 /\ n + 2 = Count(s) + 3
      BY <1>3
    <3> QED
      BY <3>1, <2>1, <1>1, <1>4
  <2>4. ClientSvrMsg_Parse(t, n) = ReadBack(m)
    BY <2>2, <2>3, <1>1 DEF ClientSvrMsg_Parse, ReadBack, ASMSG_MAX_LEN
  <2> QED
    BY <1>5, <2>1, <2>3, <2>4, <1>4 DEF t, r
<1>6. CASE ~ClientSvrMsgOk(m)
  <2>1. r.size = 0 /\ Count(r) = 0
    BY <1>6, ClientSvrMsgIs DEF r
  <2>2. t.size = s.size /\ Count(t) = Count(s)
    BY <2>1, <1>3, <1>4
  <2>3. ASSUME NEW i \in {n, n + 1, n + 2}, NEW x
        PROVE  Read(t, i, x) = Beyond
    BY <2>2, <1>3, <1>4, ReadsBeyond
  <2>4. ClientSvrMsg_Parse(t, n) = NoMsg
    BY <2>3 DEF ClientSvrMsg_Parse, NoMsg, Beyond, ASMSG_MAX_LEN
  <2> QED
    BY <1>6, <2>2, <2>3, <2>4, <1>3, <1>4 DEF t, r
<1> QED
  BY <1>5, <1>6

(* What the handler goes on with when s is sent.                            *)
Received(kind, s) == UNION {Parsed(kind, t) : t \in ASMsg_Parse(ASMsg_Serialize(s))}

LEMMA ReceivedIs ==
  ASSUME NEW s \in Strings, NEW kind
  PROVE  Received(kind, s) = IF s.size < ASMSG_MAX_LEN THEN Parsed(kind, s) ELSE {}
<1>1. ASMsg_Parse(ASMsg_Serialize(s)) = IF s.size < ASMSG_MAX_LEN THEN {s} ELSE {}
  BY MsgArrives DEF If
<1> QED
  BY <1>1 DEF Received

(* MsgForward as it is written. *)
ForwardBytes(t, cid, cmd, len) ==
  /\ t \in Strings /\ t.size = 14 + len /\ Count(t) = 4
  /\ Read(t, 1, 8) = cid /\ Read(t, 2, 4) = cmd /\ Read(t, 3, 2) = len
  /\ Read(t, 4, len) = len

LEMMA ForwardIs ==
  ASSUME NEW cid \in Int, NEW cmd \in Int, NEW len \in Nat
  PROVE  ForwardBytes(Field(8, cid) ++ Field(4, cmd) ++ Field(2, len) ++ Text(len), cid, cmd, len)
<1> DEFINE s1 == Field(8, cid)
           s2 == s1 ++ Field(4, cmd)
           s3 == s2 ++ Field(2, len)
           s4 == s3 ++ Field(len, len)
<1>1. s1 \in Strings /\ s1.size = 8 /\ Count(s1) = 1 /\ Read(s1, 1, 8) = cid
  BY FieldIs
<1>2. s1 \in Strings => Longer(s2, s1, 4, cmd)
  BY FieldAppended
<1>3. s2 \in Strings => Longer(s3, s2, 2, len)
  BY FieldAppended
<1>4. s3 \in Strings => Longer(s4, s3, len, len)
  BY FieldAppended
<1>5. s4 = Field(8, cid) ++ Field(4, cmd) ++ Field(2, len) ++ Text(len)
  BY DEF Text
<1> HIDE DEF s1, s2, s3, s4
<1>6. /\ s2 \in Strings /\ s2.size = 12 /\ Count(s2) = 2 /\ Read(s2, 2, 4) = cmd
      /\ \A i \in 1..1, x \in Int : Read(s2, i, x) = Read(s1, i, x)
  BY <1>1, <1>2 DEF Longer
<1>7. /\ s3 \in Strings /\ s3.size = 14 /\ Count(s3) = 3 /\ Read(s3, 3, 2) = len
      /\ \A i \in 1..2, x \in Int : Read(s3, i, x) = Read(s2, i, x)
  BY <1>6, <1>3 DEF Longer
<1>8. /\ s4 \in Strings /\ s4.size = 14 + len /\ Count(s4) = 4 /\ Read(s4, 4, len) = len
      /\ \A i \in 1..3, x \in Int : Read(s4, i, x) = Read(s3, i, x)
  BY <1>7, <1>4 DEF Longer
<1> QED
  BY <1>1, <1>5, <1>6, <1>7, <1>8 DEF ForwardBytes

(* MsgReqVerifyRet up to the message for the client. *)
VerifyRetBytes(t, cid, ok, uin, name) ==
  /\ t \in Strings /\ t.size = 25 + name /\ Count(t) = 5
  /\ Read(t, 1, 8) = cid /\ Read(t, 2, 1) = ok /\ Read(t, 3, 8) = uin
  /\ Read(t, 4, 8) = name /\ Read(t, 5, name) = name

LEMMA VerifyRetIs ==
  ASSUME NEW cid \in Int, NEW ok \in Int, NEW uin \in Int, NEW name \in Nat
  PROVE  VerifyRetBytes(Field(8, cid) ++ Field(1, ok) ++ Field(8, uin) ++ Field(8, name)
                          ++ Text(name),
                        cid, ok, uin, name)
<1> DEFINE s1 == Field(8, cid)
           s2 == s1 ++ Field(1, ok)
           s3 == s2 ++ Field(8, uin)
           s4 == s3 ++ Field(8, name)
           s5 == s4 ++ Field(name, name)
<1>1. s1 \in Strings /\ s1.size = 8 /\ Count(s1) = 1 /\ Read(s1, 1, 8) = cid
  BY FieldIs
<1>2. s1 \in Strings => Longer(s2, s1, 1, ok)
  BY FieldAppended
<1>3. s2 \in Strings => Longer(s3, s2, 8, uin)
  BY FieldAppended
<1>4. s3 \in Strings => Longer(s4, s3, 8, name)
  BY FieldAppended
<1>5. s4 \in Strings => Longer(s5, s4, name, name)
  BY FieldAppended
<1>6. s5 = Field(8, cid) ++ Field(1, ok) ++ Field(8, uin) ++ Field(8, name) ++ Text(name)
  BY DEF Text
<1> HIDE DEF s1, s2, s3, s4, s5
<1>7. /\ s2 \in Strings /\ s2.size = 9 /\ Count(s2) = 2 /\ Read(s2, 2, 1) = ok
      /\ \A i \in 1..1, x \in Int : Read(s2, i, x) = Read(s1, i, x)
  BY <1>1, <1>2 DEF Longer
<1>8. /\ s3 \in Strings /\ s3.size = 17 /\ Count(s3) = 3 /\ Read(s3, 3, 8) = uin
      /\ \A i \in 1..2, x \in Int : Read(s3, i, x) = Read(s2, i, x)
  BY <1>7, <1>3 DEF Longer
<1>9. /\ s4 \in Strings /\ s4.size = 25 /\ Count(s4) = 4 /\ Read(s4, 4, 8) = name
      /\ \A i \in 1..3, x \in Int : Read(s4, i, x) = Read(s3, i, x)
  BY <1>8, <1>4 DEF Longer
<1>10. /\ s5 \in Strings /\ s5.size = 25 + name /\ Count(s5) = 5 /\ Read(s5, 5, name) = name
      /\ \A i \in 1..4, x \in Int : Read(s5, i, x) = Read(s4, i, x)
  BY <1>9, <1>5 DEF Longer
<1> QED
  BY <1>1, <1>6, <1>7, <1>8, <1>9, <1>10 DEF VerifyRetBytes

(* The list of a broadcast. *)
CidListBytes(t, n, len) ==
  /\ t \in Strings /\ t.size = 2 + len /\ Count(t) = 2
  /\ Read(t, 1, 2) = n /\ Read(t, 2, len) = len

LEMMA CidListIs ==
  ASSUME NEW n \in Nat, NEW len \in Nat
  PROVE  CidListBytes(Field(2, n) ++ Text(len), n, len)
<1> DEFINE s1 == Field(2, n)
           s2 == s1 ++ Field(len, len)
<1>1. s1 \in Strings /\ s1.size = 2 /\ Count(s1) = 1 /\ Read(s1, 1, 2) = n
  BY FieldIs
<1>2. s1 \in Strings => Longer(s2, s1, len, len)
  BY FieldAppended
<1>3. s2 = Field(2, n) ++ Text(len)
  BY DEF Text
<1> HIDE DEF s1, s2
<1>4. /\ s2 \in Strings /\ s2.size = 2 + len /\ Count(s2) = 2 /\ Read(s2, 2, len) = len
      /\ \A i \in 1..1, x \in Int : Read(s2, i, x) = Read(s1, i, x)
  BY <1>1, <1>2 DEF Longer
<1> QED
  BY <1>1, <1>3, <1>4 DEF CidListBytes

(* MsgAccSeting. *)
SetingBytes(t, len) ==
  /\ t \in Strings /\ t.size = 28 + len /\ Count(t) = 9
  /\ Read(t, 1, 4) = 11 /\ Read(t, 2, 4) = 12 /\ Read(t, 3, 4) = 13
  /\ Read(t, 4, 4) = 14 /\ Read(t, 5, 4) = 15 /\ Read(t, 6, 2) = len
  /\ Read(t, 7, len) = len /\ Read(t, 8, 4) = 16 /\ Read(t, 9, 2) = 17

LEMMA SetingIs ==
  ASSUME NEW len \in Nat
  PROVE  SetingBytes(Field(4, 11) ++ Field(4, 12) ++ Field(4, 13) ++ Field(4, 14) ++ Field(4, 15)
                       ++ Field(2, len) ++ Text(len) ++ Field(4, 16) ++ Field(2, 17), len)
<1> DEFINE s1 == Field(4, 11)
           s2 == s1 ++ Field(4, 12)
           s3 == s2 ++ Field(4, 13)
           s4 == s3 ++ Field(4, 14)
           s5 == s4 ++ Field(4, 15)
           s6 == s5 ++ Field(2, len)
           s7 == s6 ++ Field(len, len)
           s8 == s7 ++ Field(4, 16)
           s9 == s8 ++ Field(2, 17)
<1>1. s1 \in Strings /\ s1.size = 4 /\ Count(s1) = 1 /\ Read(s1, 1, 4) = 11
  BY FieldIs
<1>2. s1 \in Strings => Longer(s2, s1, 4, 12)
  BY FieldAppended
<1>3. s2 \in Strings => Longer(s3, s2, 4, 13)
  BY FieldAppended
<1>4. s3 \in Strings => Longer(s4, s3, 4, 14)
  BY FieldAppended
<1>5. s4 \in Strings => Longer(s5, s4, 4, 15)
  BY FieldAppended
<1>6. s5 \in Strings => Longer(s6, s5, 2, len)
  BY FieldAppended
<1>7. s6 \in Strings => Longer(s7, s6, len, len)
  BY FieldAppended
<1>8. s7 \in Strings => Longer(s8, s7, 4, 16)
  BY FieldAppended
<1>9. s8 \in Strings => Longer(s9, s8, 2, 17)
  BY FieldAppended
<1>10. s9 = Field(4, 11) ++ Field(4, 12) ++ Field(4, 13) ++ Field(4, 14) ++ Field(4, 15)
                       ++ Field(2, len) ++ Text(len) ++ Field(4, 16) ++ Field(2, 17)
  BY DEF Text
<1> HIDE DEF s1, s2, s3, s4, s5, s6, s7, s8, s9
<1>11. /\ s2 \in Strings /\ s2.size = 8 /\ Count(s2) = 2 /\ Read(s2, 2, 4) = 12
      /\ \A i \in 1..1, x \in Int : Read(s2, i, x) = Read(s1, i, x)
  BY <1>1, <1>2 DEF Longer
<1>12. /\ s3 \in Strings /\ s3.size = 12 /\ Count(s3) = 3 /\ Read(s3, 3, 4) = 13
      /\ \A i \in 1..2, x \in Int : Read(s3, i, x) = Read(s2, i, x)
  BY <1>11, <1>3 DEF Longer
<1>13. /\ s4 \in Strings /\ s4.size = 16 /\ Count(s4) = 4 /\ Read(s4, 4, 4) = 14
      /\ \A i \in 1..3, x \in Int : Read(s4, i, x) = Read(s3, i, x)
  BY <1>12, <1>4 DEF Longer
<1>14. /\ s5 \in Strings /\ s5.size = 20 /\ Count(s5) = 5 /\ Read(s5, 5, 4) = 15
      /\ \A i \in 1..4, x \in Int : Read(s5, i, x) = Read(s4, i, x)
  BY <1>13, <1>5 DEF Longer
<1>15. /\ s6 \in Strings /\ s6.size = 22 /\ Count(s6) = 6 /\ Read(s6, 6, 2) = len
      /\ \A i \in 1..5, x \in Int : Read(s6, i, x) = Read(s5, i, x)
  BY <1>14, <1>6 DEF Longer
<1>16. /\ s7 \in Strings /\ s7.size = 22 + len /\ Count(s7) = 7 /\ Read(s7, 7, len) = len
      /\ \A i \in 1..6, x \in Int : Read(s7, i, x) = Read(s6, i, x)
  BY <1>15, <1>7 DEF Longer
<1>17. /\ s8 \in Strings /\ s8.size = 26 + len /\ Count(s8) = 8 /\ Read(s8, 8, 4) = 16
      /\ \A i \in 1..7, x \in Int : Read(s8, i, x) = Read(s7, i, x)
  BY <1>16, <1>8 DEF Longer
<1>18. /\ s9 \in Strings /\ s9.size = 28 + len /\ Count(s9) = 9 /\ Read(s9, 9, 2) = 17
      /\ \A i \in 1..8, x \in Int : Read(s9, i, x) = Read(s8, i, x)
  BY <1>17, <1>9 DEF Longer
<1> QED
  BY <1>1, <1>10, <1>11, <1>12, <1>13, <1>14, <1>15, <1>16, <1>17, <1>18 DEF SetingBytes

(* MsgReqSetCmd2GrpId, as Serialize writes it... *)
MappingBytes(t, grp, n, len) ==
  /\ t \in Strings /\ t.size = 10 + len /\ Count(t) = 3
  /\ Read(t, 1, 2) = grp /\ Read(t, 2, 8) = n /\ Read(t, 3, len) = len

LEMMA MappingIs ==
  ASSUME NEW grp \in Int, NEW n \in Nat, NEW len \in Nat
  PROVE  MappingBytes(Field(2, grp) ++ Field(8, n) ++ Text(len), grp, n, len)
<1> DEFINE s1 == Field(2, grp)
           s2 == s1 ++ Field(8, n)
           s3 == s2 ++ Field(len, len)
<1>1. s1 \in Strings /\ s1.size = 2 /\ Count(s1) = 1 /\ Read(s1, 1, 2) = grp
  BY FieldIs
<1>2. s1 \in Strings => Longer(s2, s1, 8, n)
  BY FieldAppended
<1>3. s2 \in Strings => Longer(s3, s2, len, len)
  BY FieldAppended
<1>4. s3 = Field(2, grp) ++ Field(8, n) ++ Text(len)
  BY DEF Text
<1> HIDE DEF s1, s2, s3
<1>5. /\ s2 \in Strings /\ s2.size = 10 /\ Count(s2) = 2 /\ Read(s2, 2, 8) = n
      /\ \A i \in 1..1, x \in Int : Read(s2, i, x) = Read(s1, i, x)
  BY <1>1, <1>2 DEF Longer
<1>6. /\ s3 \in Strings /\ s3.size = 10 + len /\ Count(s3) = 3 /\ Read(s3, 3, len) = len
      /\ \A i \in 1..2, x \in Int : Read(s3, i, x) = Read(s2, i, x)
  BY <1>5, <1>3 DEF Longer
<1> QED
  BY <1>1, <1>4, <1>5, <1>6 DEF MappingBytes

(* ...and as the object in memory. *)
RawMappingBytes(t, grp, begin) ==
  /\ t \in Strings /\ t.size = 26 /\ Count(t) = 4
  /\ Read(t, 1, 2) = grp /\ Read(t, 2, 8) = begin /\ Read(t, 3, 8) = begin
  /\ Read(t, 4, 8) = begin

LEMMA RawMappingIs ==
  ASSUME NEW grp \in Int, NEW begin \in Int
  PROVE  RawMappingBytes(Field(2, grp) ++ Field(8, begin) ++ Field(8, begin) ++ Field(8, begin),
                         grp, begin)
<1> DEFINE s1 == Field(2, grp)
           s2 == s1 ++ Field(8, begin)
           s3 == s2 ++ Field(8, begin)
           s4 == s3 ++ Field(8, begin)
<1>1. s1 \in Strings /\ s1.size = 2 /\ Count(s1) = 1 /\ Read(s1, 1, 2) = grp
  BY FieldIs
<1>2. s1 \in Strings => Longer(s2, s1, 8, begin)
  BY FieldAppended
<1>3. s2 \in Strings => Longer(s3, s2, 8, begin)
  BY FieldAppended
<1>4. s3 \in Strings => Longer(s4, s3, 8, begin)
  BY FieldAppended
<1>5. s4 = Field(2, grp) ++ Field(8, begin) ++ Field(8, begin) ++ Field(8, begin)
  BY DEF Text
<1> HIDE DEF s1, s2, s3, s4
<1>6. /\ s2 \in Strings /\ s2.size = 10 /\ Count(s2) = 2 /\ Read(s2, 2, 8) = begin
      /\ \A i \in 1..1, x \in Int : Read(s2, i, x) = Read(s1, i, x)
  BY <1>1, <1>2 DEF Longer
<1>7. /\ s3 \in Strings /\ s3.size = 18 /\ Count(s3) = 3 /\ Read(s3, 3, 8) = begin
      /\ \A i \in 1..2, x \in Int : Read(s3, i, x) = Read(s2, i, x)
  BY <1>6, <1>3 DEF Longer
<1>8. /\ s4 \in Strings /\ s4.size = 26 /\ Count(s4) = 4 /\ Read(s4, 4, 8) = begin
      /\ \A i \in 1..3, x \in Int : Read(s4, i, x) = Read(s3, i, x)
  BY <1>7, <1>4 DEF Longer
<1> QED
  BY <1>1, <1>5, <1>6, <1>7, <1>8 DEF RawMappingBytes

(***************************************************************************)
(* The exchange: before the message is read nothing has come of it, and    *)
(* then what came of it is what the parsers make of its bytes.             *)
(***************************************************************************)
Outcome == \/ Written(call) = {} /\ read = {}
           \/ \E s \in Written(call) : read = Received(call.kind, s)

ProtoInv ==
  /\ call \in Calls
  /\ wire \subseteq {ASMsg_Serialize(s) : s \in Written(call)}
  /\ done => wire = {} /\ Outcome
  /\ ~done => read = {}

LEMMA AlwaysProtoInv == ProtoSpec => []ProtoInv
<1>1. ProtoInit => ProtoInv
  BY DEF ProtoInit, ProtoInv
<1>2. ProtoInv /\ [ProtoNext]_protoVars => ProtoInv'
  <2> SUFFICES ASSUME ProtoInv, [ProtoNext]_protoVars PROVE ProtoInv'
    OBVIOUS
  <2>1. CASE SendCall
    <3>1. UNCHANGED <<call, read>> /\ wire' = {ASMsg_Serialize(s) : s \in Written(call)}
          /\ done' = (wire' = {}) /\ read = {}
      BY <2>1 DEF SendCall, ProtoInv
    <3>2. done' => Written(call) = {}
      BY <3>1
    <3> QED
      BY <3>1, <3>2 DEF ProtoInv, Outcome
  <2>2. CASE ReadCall
    <3>1. PICK s \in Written(call) : read' = Received(call.kind, s)
      BY <2>2 DEF ReadCall, ProtoInv, Received
    <3>2. call' = call /\ wire' = {} /\ done' = TRUE
      BY <2>2 DEF ReadCall
    <3> QED
      BY <3>1, <3>2 DEF ProtoInv, Outcome
  <2>3. CASE UNCHANGED protoVars
    BY <2>3 DEF protoVars, ProtoInv, Outcome
  <2> QED
    BY <2>1, <2>2, <2>3 DEF ProtoNext
<1> QED
  BY <1>1, <1>2, PTL DEF ProtoSpec
------------------------------------------------------------------------------
(* The five kinds of messages. *)
LEMMA ForwardOutcome == ProtoInv => ForwardArrives
<1> SUFFICES ASSUME ProtoInv, Done("forward")
             PROVE  read = If(Sent.cmd # 0 /\ 14 + Sent.len < ASMSG_MAX_LEN, Sent)
  BY DEF ForwardArrives
<1> DEFINE m == call.m
           s == Field(8, m.cid) ++ Field(4, m.cmd) ++ Field(2, m.len) ++ Text(m.len)
           ok == m.cmd # 0 /\ m.len < ASMSG_MAX_LEN
<1>1. call \in Calls /\ call.kind = "forward" /\ Outcome
  BY DEF ProtoInv, Done
<1>2. PICK r \in Rsps : m = [cid |-> 1, cmd |-> r.cmd, len |-> r.len, text |-> r.len]
  BY <1>1 DEF Calls
<1>3. m.cid = 1 /\ m.cmd \in Int /\ m.len \in Nat /\ m.text = m.len
      /\ m = [cid |-> m.cid, cmd |-> m.cmd, len |-> m.len, text |-> m.len]
  BY <1>2, RspsIs
<1>4. Written(call) = IF ok THEN {s} ELSE {}
  BY <1>1 DEF Written, MsgForward_Serialize, If
<1>5. /\ s \in Strings /\ s.size = 14 + m.len
      /\ Read(s, 1, 8) = m.cid /\ Read(s, 2, 4) = m.cmd /\ Read(s, 3, 2) = m.len
      /\ Read(s, 4, m.len) = m.len
  <2>1. m.cid \in Int
    BY <1>3
  <2>2. ForwardBytes(s, m.cid, m.cmd, m.len)
    BY <2>1, <1>3, ForwardIs
  <2> HIDE DEF s, m
  <2> QED
    BY <2>2 DEF ForwardBytes
<1> HIDE DEF s, m
<1>6. CASE ok
  <2>1. read = Received("forward", s)
    BY <1>1, <1>4, <1>6 DEF Outcome
  <2>2. MsgForward_Parse(s) = {m}
    BY <1>3, <1>5, <1>6 DEF MsgForward_Parse, If
  <2>3. Parsed("forward", s) = {m}
    BY <2>2 DEF Parsed
  <2>4. read = IF 14 + m.len < ASMSG_MAX_LEN THEN {m} ELSE {}
    BY <2>1, <2>3, <1>5, ReceivedIs
  <2> QED
    BY <2>4, <1>6 DEF If, Sent, m
<1>7. CASE ~ok
  <2>1. read = {}
    BY <1>1, <1>4, <1>7 DEF Outcome
  <2>2. ~(m.cmd # 0 /\ 14 + m.len < ASMSG_MAX_LEN)
    BY <1>3, <1>7 DEF ASMSG_MAX_LEN
  <2> QED
    BY <2>1, <2>2 DEF If, Sent, m
<1> QED
  BY <1>6, <1>7

LEMMA VerifyRetOutcome == ProtoInv => VerifyRetArrives
<1> SUFFICES ASSUME ProtoInv, Done("verifyRet") PROVE VerifyRetArrives
  BY DEF VerifyRetArrives
<1> DEFINE m == call.m
           head == Field(8, m.cid) ++ Field(1, m.ok) ++ Field(8, m.uin) ++ Field(8, m.name)
                     ++ Text(m.name)
           s == head ++ ClientSvrMsg_Serialize(m.rsp)
           whole == ClientSvrMsgOk(m.rsp)
           size == 25 + m.name + IF whole THEN 6 + m.rsp.len ELSE 0
           rsp == IF whole THEN ReadBack(m.rsp) ELSE NoMsg
           told == [m EXCEPT !.rsp = rsp]
<1>1. call \in Calls /\ call.kind = "verifyRet" /\ Outcome
  BY DEF ProtoInv, Done
<1>2. m \in [cid : {1}, ok : {0, 1}, uin : {7}, name : Lens, rsp : Rsps]
  BY <1>1 DEF Calls
<1>3. m.cid = 1 /\ m.ok \in {0, 1} /\ m.uin = 7 /\ m.name \in Lens /\ m.rsp \in Rsps
  BY <1>2
<1>4. m.name \in Nat /\ m.rsp.len \in Nat /\ m.ok \in Int
  BY <1>3, LensIs, RspsIs
<1>5. told = [cid |-> m.cid, ok |-> m.ok, uin |-> m.uin, name |-> m.name, rsp |-> rsp]
  BY <1>2
<1>6. Written(call) = {s}
  BY <1>1, <1>3 DEF Written, MsgReqVerifyRet_Serialize
<1>7. m.cid \in Int /\ m.uin \in Int
  BY <1>3
<1>8. /\ head \in Strings /\ head.size = 25 + m.name /\ Count(head) = 5
      /\ Read(head, 1, 8) = m.cid /\ Read(head, 2, 1) = m.ok /\ Read(head, 3, 8) = m.uin
      /\ Read(head, 4, 8) = m.name /\ Read(head, 5, m.name) = m.name
  <2>1. VerifyRetBytes(head, m.cid, m.ok, m.uin, m.name)
    BY <1>7, <1>4, VerifyRetIs
  <2> HIDE DEF head, m
  <2> QED
    BY <2>1 DEF VerifyRetBytes
<1> HIDE DEF head, m
<1>9. /\ s \in Strings /\ s.size = size
      /\ ClientSvrMsg_Parse(s, 6) = rsp
      /\ \A i \in 1..5, x \in Int : Read(s, i, x) = Read(head, i, x)
  BY <1>3, <1>8, ClientSvrMsgArrives
<1> HIDE DEF s
<1>10. /\ Read(s, 1, 8) = m.cid /\ Read(s, 2, 1) = m.ok /\ Read(s, 3, 8) = m.uin
      /\ Read(s, 4, 8) = m.name /\ Read(s, 5, m.name) = m.name
  BY <1>4, <1>8, <1>9
<1>11. s.size > 9
  BY <1>4, <1>9
<1> HIDE DEF rsp, told, size
<1>12. MsgReqVerifyRet_Parse(s) = {told}
  BY <1>5, <1>9, <1>10, <1>11 DEF MsgReqVerifyRet_Parse, If
<1>13. Parsed("verifyRet", s) = {told}
  BY <1>12 DEF Parsed
<1>14. read = Received("verifyRet", s)
  BY <1>1, <1>6 DEF Outcome
<1>15. read = IF size < ASMSG_MAX_LEN THEN {told} ELSE {}
  BY <1>9, <1>13, <1>14, ReceivedIs
<1> QED
  BY <1>15 DEF VerifyRetArrives, If, Sent, m, rsp, told, size, NoMsg

LEMMA SetingOutcome == ProtoInv => SetingArrives
<1> SUFFICES ASSUME ProtoInv, Done("seting")
             PROVE  read = If(28 + Sent.rsp < ASMSG_MAX_LEN, Sent)
  BY DEF SetingArrives
<1> DEFINE m == call.m
           len == call.m.rsp
           s == Field(4, 11) ++ Field(4, 12) ++ Field(4, 13) ++ Field(4, 14) ++ Field(4, 15)
                  ++ Field(2, len) ++ Text(len) ++ Field(4, 16) ++ Field(2, 17)
<1>1. call \in Calls /\ call.kind = "seting" /\ Outcome
  BY DEF ProtoInv, Done
<1>2. m \in [hbReq : {11}, hbRsp : {12}, hbSec : {13}, maxNum : {14}, rspCmd : {15},
             rsp : Lens, noMsg : {16}, defaultGrpId : {17}]
  BY <1>1 DEF Calls
<1>3. /\ m.hbReq = 11 /\ m.hbRsp = 12 /\ m.hbSec = 13 /\ m.maxNum = 14 /\ m.rspCmd = 15
      /\ m.noMsg = 16 /\ m.defaultGrpId = 17 /\ m.rsp = len /\ len \in Lens
  BY <1>2
<1>4. m = [hbReq |-> 11, hbRsp |-> 12, hbSec |-> 13, maxNum |-> 14, rspCmd |-> 15,
           rsp |-> len, noMsg |-> 16, defaultGrpId |-> 17]
  BY <1>2
<1> HIDE DEF len
<1>5. len \in Nat /\ len <= 65535
  BY <1>3, LensIs
<1>6. len % 65536 = len
  BY <1>5, Z3
<1>7. Written(call) = {s}
  BY <1>1, <1>3, <1>6 DEF Written, MsgAccSeting_Serialize
<1>8. SetingBytes(s, len)
  BY <1>5, SetingIs
<1> HIDE DEF s, m
<1>9. /\ s \in Strings /\ s.size = 28 + len
      /\ Read(s, 1, 4) = 11 /\ Read(s, 2, 4) = 12 /\ Read(s, 3, 4) = 13
      /\ Read(s, 4, 4) = 14 /\ Read(s, 5, 4) = 15 /\ Read(s, 6, 2) = len
      /\ Read(s, 7, len) = len /\ Read(s, 8, 4) = 16 /\ Read(s, 9, 2) = 17
  BY <1>8 DEF SetingBytes
<1>10. read = Received("seting", s)
  BY <1>1, <1>7 DEF Outcome
<1>11. CASE 28 + len < ASMSG_MAX_LEN
  <2>1. len < ASMSG_MAX_LEN
    BY <1>5, <1>11 DEF ASMSG_MAX_LEN
  <2>2. MsgAccSeting_Parse(s) = {m}
    BY <2>1, <1>4, <1>9 DEF MsgAccSeting_Parse, If
  <2>3. Parsed("seting", s) = {m}
    BY <2>2 DEF Parsed
  <2> QED
    BY <2>3, <1>9, <1>10, <1>11, ReceivedIs DEF If, Sent, m, len
<1>12. CASE ~(28 + len < ASMSG_MAX_LEN)
  BY <1>9, <1>10, <1>12, ReceivedIs DEF If, Sent, len
<1> QED
  BY <1>11, <1>12

LEMMA BroadcastOutcome == ProtoInv => BroadcastReaches
<1> SUFFICES ASSUME ProtoInv PROVE BroadcastReaches
  OBVIOUS
<1>1. CASE ~Done("broadcast")
  BY <1>1 DEF BroadcastReaches, Done
<1>2. SUFFICES ASSUME Done("broadcast") PROVE BroadcastReaches
  BY <1>1
<1> DEFINE n == call.m.n
           msg == call.m.msg
           head == Field(2, n) ++ Text(n * CID_SIZE)
           s == head ++ ClientSvrMsg_Serialize(msg)
           whole == ClientSvrMsgOk(msg)
           told == [n |-> n, msg |-> ReadBack(msg)]
           reaches == /\ n <= MAX_BROADCAST_CID_NUM /\ whole
                      /\ 8 + n * CID_SIZE + msg.len < ASMSG_MAX_LEN
<1>3. call \in Calls /\ call.kind = "broadcast" /\ Outcome
  BY <1>2 DEF ProtoInv, Done
<1>4. call.m \in [n : Counts, msg : Rsps]
  BY <1>3 DEF Calls
<1>5. n \in Counts /\ msg \in Rsps
  BY <1>4
<1>6. n \in Nat /\ msg.len \in Nat
  BY <1>5, RspsIs, CountsIs
<1>7. BroadcastReaches <=> (n < 65536 => read = IF reaches THEN {told} ELSE {})
  BY <1>2 DEF BroadcastReaches, If, Sent
<1>8. Written(call) =
        {IF n % 65536 >= ASMSG_MAX_LEN \div CID_SIZE THEN Empty
         ELSE Field(2, n % 65536) ++ Text((n % 65536) * CID_SIZE) ++ ClientSvrMsg_Serialize(msg)}
  BY <1>3 DEF Written, MsgReqBroadCast_Serialize
<1> HIDE DEF n, msg
<1>9. SUFFICES ASSUME n < 65536 PROVE read = IF reaches THEN {told} ELSE {}
  BY <1>7
<1>10. n % 65536 = n
  BY <1>6, <1>9, Z3
<1>11. ASMSG_MAX_LEN \div CID_SIZE = 512
  BY Z3 DEF ASMSG_MAX_LEN, CID_SIZE
<1>12. n * CID_SIZE = 8 * n /\ n * CID_SIZE \in Nat
  BY <1>6 DEF CID_SIZE
<1>13. CASE n >= 512
  <2>1. MsgReqBroadCast_Parse(Empty) = {}
    BY EmptyIs DEF MsgReqBroadCast_Parse, If
  <2>2. Parsed("broadcast", Empty) = {}
    BY <2>1 DEF Parsed
  <2>3. Written(call) = {Empty}
    BY <1>8, <1>10, <1>11, <1>13
  <2>4. read = {}
    BY <2>2, <2>3, <1>3, EmptyIs, ReceivedIs DEF Outcome
  <2> QED
    BY <2>4, <1>6, <1>13 DEF MAX_BROADCAST_CID_NUM
<1>14. CASE ~(n >= 512)
  <2>1. Written(call) = {s}
    BY <1>8, <1>10, <1>11, <1>14
  <2>2. CidListBytes(head, n, n * CID_SIZE)
    BY <1>6, <1>12, CidListIs
  <2> HIDE DEF head
  <2>3. /\ head \in Strings /\ head.size = 2 + 8 * n /\ Count(head) = 2 /\ Read(head, 1, 2) = n
    BY <2>2, <1>6, <1>12 DEF CidListBytes
  <2>4. /\ s \in Strings /\ s.size = head.size + IF whole THEN 6 + msg.len ELSE 0
        /\ ClientSvrMsg_Parse(s, 3) = IF whole THEN ReadBack(msg) ELSE NoMsg
        /\ Read(s, 4, 2) = IF whole THEN msg.len ELSE Beyond
        /\ Read(s, 1, 2) = Read(head, 1, 2)
    BY <1>5, <2>3, ClientSvrMsgArrives
  <2> HIDE DEF s
  <2>5. read = Received("broadcast", s)
    BY <1>3, <2>1 DEF Outcome
  <2>6. CASE ~whole
    <3>1. s.size - 2 - n * CID_SIZE = 0
      BY <2>3, <2>4, <2>6, <1>6, <1>12
    <3>2. MsgReqBroadCast_Parse(s) = {}
      BY <3>1, <2>3, <2>4 DEF MsgReqBroadCast_Parse, If
    <3>3. Parsed("broadcast", s) = {}
      BY <3>2 DEF Parsed
    <3> QED
      BY <3>3, <2>4, <2>5, <2>6, ReceivedIs
  <2>7. CASE whole
    <3>1. s.size = 8 + n * CID_SIZE + msg.len /\ s.size # 0 /\ s.size - 2 - n * CID_SIZE # 0
      BY <2>3, <2>4, <2>7, <1>6, <1>12
    <3>2. msg.len < ASMSG_MAX_LEN
      BY <2>7 DEF ClientSvrMsgOk
    <3>3. MsgReqBroadCast_Parse(s) = {told}
      BY <3>1, <3>2, <2>3, <2>4, <2>7 DEF MsgReqBroadCast_Parse, If
    <3> HIDE DEF told
    <3>4. \A b \in {told} : b.n = n
      BY DEF told
    <3>5. Parsed("broadcast", s) = IF n <= MAX_BROADCAST_CID_NUM THEN {told} ELSE {}
      BY <3>3, <3>4 DEF Parsed
    <3> QED
      BY <3>1, <3>5, <2>4, <2>5, <2>7, ReceivedIs
  <2> QED
    BY <2>6, <2>7
<1> QED
  BY <1>13, <1>14

LEMMA MappingOutcome == ProtoInv => MappingArrives
<1>1. ASSUME ProtoInv, Done("map")
      PROVE  read = If(10 + 2 * Sent.n < ASMSG_MAX_LEN,
                       [grpId |-> 2, n |-> Sent.n, cmds |-> 2 * Sent.n])
  <2> DEFINE n == call.m.n
             s == Field(2, 2) ++ Field(8, n) ++ Text(2 * n)
             told == [grpId |-> 2, n |-> n, cmds |-> 2 * n]
  <2>1. call \in Calls /\ call.kind = "map" /\ Outcome
    BY <1>1 DEF ProtoInv, Done
  <2>2. call.m \in [grpId : {2}, n : Counts]
    BY <2>1 DEF Calls
  <2>3. call.m.grpId = 2 /\ n \in Nat
    BY <2>2, CountsIs
  <2>4. Written(call) = {s}
    BY <2>1, <2>3 DEF Written, MsgReqSetCmd2GrpId_Serialize
  <2>5. MappingBytes(s, 2, n, 2 * n)
    BY <2>3, MappingIs
  <2> HIDE DEF s, n
  <2>6. s \in Strings /\ s.size = 10 + 2 * n /\ Read(s, 1, 2) = 2 /\ Read(s, 2, 8) = n
        /\ Read(s, 3, 2 * n) = 2 * n
    BY <2>5, <2>3 DEF MappingBytes
  <2>7. read = Received("map", s)
    BY <2>1, <2>4 DEF Outcome
  <2>8. CASE 10 + 2 * n < ASMSG_MAX_LEN
    <3>1. ~(n > Memory)
      BY <2>3, <2>8 DEF ASMSG_MAX_LEN, Memory
    <3>2. MsgReqSetCmd2GrpId_Parse(s) = {told}
      BY <3>1, <2>6 DEF MsgReqSetCmd2GrpId_Parse, If
    <3>3. Parsed("map", s) = {told}
      BY <3>2 DEF Parsed
    <3> QED
      BY <3>3, <2>6, <2>7, <2>8, ReceivedIs DEF If, Sent, n
  <2>9. CASE ~(10 + 2 * n < ASMSG_MAX_LEN)
    BY <2>6, <2>7, <2>9, ReceivedIs DEF If, Sent, n
  <2> QED
    BY <2>8, <2>9
<1>2. ASSUME ProtoInv, Done("rawMap")
      PROVE  read = {}
  <2> DEFINE m == call.m
             begin == IF m.n = 0 THEN 0 ELSE Address
             s == Field(2, 2) ++ Field(8, begin) ++ Field(8, begin) ++ Field(8, begin)
  <2>1. call \in Calls /\ call.kind = "rawMap" /\ Outcome
    BY <1>2 DEF ProtoInv, Done
  <2>2. call.m \in [grpId : {2}, n : Counts]
    BY <2>1 DEF Calls
  <2>3. m.grpId = 2 /\ begin \in Int /\ (begin = 0 \/ begin > Memory)
    BY <2>2 DEF Address, Memory
  <2>4. Written(call) = {s}
    BY <2>1, <2>3 DEF Written, MsgReqSetCmd2GrpId_Raw
  <2>5. RawMappingBytes(s, 2, begin)
    <3> HIDE DEF begin
    <3> QED
      BY <2>3, RawMappingIs
  <2> HIDE DEF s, begin, m
  <2>6. s \in Strings /\ s.size = 26 /\ Read(s, 2, 8) = begin
    BY <2>5 DEF RawMappingBytes
  <2>7. MsgReqSetCmd2GrpId_Parse(s) = {}
    BY <2>3, <2>6 DEF MsgReqSetCmd2GrpId_Parse, If
  <2>8. Parsed("rawMap", s) = {}
    BY <2>7 DEF Parsed
  <2>9. read = Received("rawMap", s)
    BY <2>1, <2>4 DEF Outcome
  <2> QED
    BY <2>6, <2>8, <2>9, ReceivedIs
<1> QED
  BY <1>1, <1>2 DEF MappingArrives
------------------------------------------------------------------------------
(* For every length, a forwarded packet arrives as it was or, for its length*)
(* or command 0 alone, not at all.                                          *)
THEOREM ForwardCorrect == ProtoSpec => []ForwardArrives
BY AlwaysProtoInv, ForwardOutcome, PTL

(* For every name and response, acc knows of the client what the server     *)
(* said; a response that was refused is read behind the end.                *)
THEOREM VerifyRetCorrect == ProtoSpec => []VerifyRetArrives
BY AlwaysProtoInv, VerifyRetOutcome, PTL

(* For every list and message, a broadcast is for the clients it names, or  *)
(* for none; one that was refused is not taken for another.                 *)
THEOREM BroadcastCorrect == ProtoSpec => []BroadcastReaches
BY AlwaysProtoInv, BroadcastOutcome, PTL

(* For every length of the response, settings arrive as they were chosen or *)
(* not at all.                                                              *)
THEOREM SetingCorrect == ProtoSpec => []SetingArrives
BY AlwaysProtoInv, SetingOutcome, PTL

(* For every number of commands, the serialised mapping arrives, and the one*)
(* sent as an object is never taken for a mapping.                          *)
THEOREM MappingCorrect == ProtoSpec => []MappingArrives
BY AlwaysProtoInv, MappingOutcome, PTL
==============================================================================
