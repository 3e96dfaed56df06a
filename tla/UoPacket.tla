------------------------------ MODULE UoPacket ------------------------------
(***************************************************************************)
(* The packet format of the clients, as external_con.cpp reads it: an id   *)
(* in the first byte, the length of the packet in the next two.            *)
(*                                                                         *)
(* The code reads bytes through char, whose sign the compiler chooses and  *)
(* no build file sets.                                                     *)
(***************************************************************************)
EXTENDS Integers

CONSTANT CharSigned  \* TRUE: char is signed, as on x86; FALSE: as on ARM

ASSUME CharAssumption == CharSigned \in BOOLEAN

Byte == 0..255

CharOf(b) == IF CharSigned /\ b >= 128 THEN b - 256 ELSE b

(* CheckEncrypted: the ids a client may use before it is verified, which    *)
(* the code compares with the char as it was widened to int.                *)
PlainIds    == {240, 241, 207, 128, 145, 164, 239, 228, 255}
IsPlain(b)  == CharOf(b) \in PlainIds

(* HandleSeed: a client that starts with this packet sends no seed.         *)
SeedPacketId == 239
IsSeedPacket(b) == CharOf(b) = SeedPacketId

(* GetPacketLength: two chars put together with | , so that a negative one  *)
(* makes the length negative.                                               *)
MinPacket == 3
PacketLength(b1, b2) ==
  LET high == CharOf(b1)
      low  == CharOf(b2)
  IN  IF high < 0 \/ low < 0 THEN -1 ELSE 256 * high + low
==============================================================================
