------------------------------ MODULE Framing ------------------------------
(***************************************************************************)
(* How acc cuts the byte stream of a client into packets: OnRawRecv and    *)
(* ParsePacket of ExternalSvrCon, one connection.                          *)
(*                                                                         *)
(* AccSvr starts from packets.  Here are the bytes under them: TCP splits  *)
(* the stream where it likes, a read callback sees the bytes that have     *)
(* come and were not consumed, and the seed in front of the stream is      *)
(* counted but not skipped.                                                *)
(***************************************************************************)
EXTENDS UoPacket, Sequences

CONSTANT Streams  \* what a client may send, as sequences of bytes

ASSUME StreamsAssumption == Streams \subseteq Seq(Byte)

VARIABLES
  stream,    \* the bytes this client sends
  got,       \* how many of them have come
  used,      \* how many OnRawRecv has consumed; pMsg points behind them
  reading,   \* OnRawRecv is on the stack
  seeded,    \* ExternalSvrCon::Seeded
  verified,  \* m_state == VERIFYED
  con,       \* "open", or "closing" after DisConnect
  refused,   \* ParsePacket disconnected the client
  packets    \* what RevPacket was given: offset and length of each packet

framingVars == <<stream, got, used, reading, seeded, verified, con, refused, packets>>

Init ==
  /\ stream \in Streams
  /\ got = 0 /\ used = 0
  /\ reading = FALSE /\ seeded = FALSE /\ verified = FALSE
  /\ con = "open" /\ refused = FALSE
  /\ packets = <<>>
------------------------------------------------------------------------------
SeedLen == 4

(* pMsg[i] and len, at offset at of the stream. *)
At(at, i) == stream[at + i + 1]
Len0      == got - used

LengthAt(at) == PacketLength(At(at, 1), At(at, 2))

(* The seed, put together from four chars, is 0 when all four are. *)
ZeroSeed == \A i \in 0..3 : At(used, i) = 0

(* HandleSeed: true, with the bytes it takes off len but not off pMsg. *)
HasSeed   == IsSeedPacket(At(used, 0)) \/ (Len0 >= SeedLen /\ ~ZeroSeed)
TakenSeed == IF seeded \/ IsSeedPacket(At(used, 0)) THEN 0 ELSE SeedLen

(* length in ParsePacket: what is left of len behind the seed. *)
Length == Len0 - TakenSeed

CheckEncrypted == ~verified /\ ~IsPlain(At(used, 0))

(* The ways ParsePacket disconnects the client, once the seed is there... *)
BadPacket == CheckEncrypted \/ (Length >= MinPacket /\ LengthAt(used) < MinPacket)

(* Bug: only the bytes of the length field are waited for. *)
Incomplete_Header == Length < MinPacket

(* ...and the ways it returns 0 for want of bytes. *)
Incomplete == Length >= MinPacket => Length < LengthAt(used)

(* ParsePacket returns 0, and OnRawRecv what it has consumed so far. *)
Return(drop) ==
  /\ reading' = FALSE
  /\ con' = IF drop THEN "closing" ELSE con
  /\ refused' = (refused \/ drop)
  /\ UNCHANGED <<stream, got, used, verified, packets>>

NoBytes ==
  /\ reading /\ Len0 = 0
  /\ Return(FALSE) /\ UNCHANGED seeded

(* Bug: a client whose first read is too short for a seed is dropped. *)
NoSeed_Drops ==
  /\ reading /\ Len0 > 0 /\ ~seeded /\ ~HasSeed
  /\ Return(TRUE) /\ UNCHANGED seeded

NoSeed ==
  /\ reading /\ Len0 > 0 /\ ~seeded /\ ~HasSeed
  /\ Return(Len0 >= SeedLen) /\ UNCHANGED seeded

(* Bug: the seed is taken off every read, as Seeded is never set. *)
NoPacket_SeedAgain ==
  /\ reading /\ Len0 > 0 /\ (seeded \/ HasSeed)
  /\ Length <= 0 \/ BadPacket \/ Incomplete
  /\ seeded' = FALSE
  /\ Return(Length > 0 /\ BadPacket)

(* No packet after the seed: none of the bytes, too few, or the wrong ones. *)
NoPacket ==
  /\ reading /\ Len0 > 0 /\ (seeded \/ HasSeed)
  /\ Length <= 0 \/ BadPacket \/ Incomplete
  /\ seeded' = TRUE
  /\ Return(Length > 0 /\ BadPacket)

(* Bug: the bytes taken off for the seed are consumed with the packet.      *)
RevPacket_EatsSeed ==
  /\ reading /\ Len0 > 0 /\ (seeded \/ HasSeed)
  /\ Length > 0 /\ ~BadPacket /\ ~Incomplete
  /\ seeded' = TRUE
  /\ packets' = Append(packets, [at |-> used, len |-> LengthAt(used)])
  /\ used' = used + LengthAt(used) + TakenSeed
  /\ con' \in {con, "closing"}
  /\ UNCHANGED <<stream, got, reading, verified, refused>>

(* A packet: RevPacket gets it, and may disconnect the client for its own   *)
(* reasons; OnRawRecv goes on behind it either way.                         *)
RevPacket ==
  /\ reading /\ Len0 > 0 /\ (seeded \/ HasSeed)
  /\ Length > 0 /\ ~BadPacket /\ ~Incomplete
  /\ seeded' = TRUE
  /\ packets' = Append(packets, [at |-> used, len |-> LengthAt(used)])
  /\ used' = used + LengthAt(used)
  /\ con' \in {con, "closing"}
  /\ UNCHANGED <<stream, got, reading, verified, refused>>

ParsePacket == NoBytes \/ NoSeed \/ NoPacket \/ RevPacket
------------------------------------------------------------------------------
(* Bytes come in, n of them, and OnRawRecv is called. *)
OnRawRecv ==
  /\ ~reading /\ con = "open"
  /\ \E n \in 1..(Len(stream) - got) : got' = got + n
  /\ reading' = TRUE
  /\ UNCHANGED <<stream, used, seeded, verified, con, refused, packets>>

(* The client asked to be verified and the answer lets it in. *)
SetVerify ==
  /\ ~reading /\ ~verified /\ packets # <<>>
  /\ verified' = TRUE
  /\ UNCHANGED <<stream, got, used, reading, seeded, con, refused, packets>>

(* Everything else that disconnects: time-outs, requests, the client. *)
DisConnect ==
  /\ ~reading /\ con = "open"
  /\ con' = "closing"
  /\ UNCHANGED <<stream, got, used, reading, seeded, verified, refused, packets>>

Next == OnRawRecv \/ ParsePacket \/ SetVerify \/ DisConnect

Spec == Init /\ [][Next]_framingVars
------------------------------------------------------------------------------
FramingTypeOK ==
  /\ stream \in Streams
  /\ got \in 0..Len(stream) /\ used \in 0..got
  /\ reading \in BOOLEAN /\ seeded \in BOOLEAN /\ verified \in BOOLEAN
  /\ con \in {"open", "closing"} /\ refused \in BOOLEAN
  /\ packets \in Seq([at : Nat, len : Nat])

End(p) == p.at + p.len

(* However TCP split the stream, it is cut where its own length fields say: *)
(* the first packet starts at its first byte, each next one where the one   *)
(* before it ends, no byte is lost or handed over twice, and no packet      *)
(* reaches beyond the bytes that have come.                                 *)
CutByLength ==
  /\ \A i \in DOMAIN packets :
       /\ packets[i].at = IF i = 1 THEN 0 ELSE End(packets[i - 1])
       /\ packets[i].len >= MinPacket
       /\ packets[i].len = 256 * At(packets[i].at, 1) + At(packets[i].at, 2)
  /\ used = IF packets = <<>> THEN 0 ELSE End(packets[Len(packets)])

(* The bytes not consumed begin with a whole packet. *)
WholePacket == Len0 >= MinPacket /\ LengthAt(used) \in MinPacket..Len0

(* ParsePacket returns 0 when the packet is incomplete (external_con.cpp:   *)
(* 163) with one exception: the first packet of a client, which is held     *)
(* back until as many bytes have come behind it as a seed has, or until the *)
(* next read.                                                               *)
OnlyFirstHeldBack ==
  ~reading /\ con = "open" /\ WholePacket
  => packets = <<>> /\ Len0 < LengthAt(used) + SeedLen

(* No client is dropped for the way TCP split its bytes: what ParsePacket   *)
(* refused is in the stream, an id that is not plain or a length that is    *)
(* too small.  A seed of zeros is an id that is not plain.                  *)
RefusedForItsBytes ==
  refused =>
    \/ Len0 > 0 /\ ~IsPlain(At(used, 0))
    \/ Len0 >= MinPacket /\ LengthAt(used) < MinPacket

(* HandleSeed (external_con.cpp:99 and :106): a stream that starts with the *)
(* packet 0xEF is one of the newer clients and is accepted without a seed.  *)
NewClientsAccepted ==
  refused /\ packets = <<>> /\ Len0 >= MinPacket /\ LengthAt(used) >= MinPacket
  => At(used, 0) # SeedPacketId
==============================================================================
