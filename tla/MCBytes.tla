------------------------------ MODULE MCBytes ------------------------------
(* Instances of Framing and of Proto for TLC. *)
EXTENDS Framing, Proto

(* Packets with plain ids and one that only a verified client may send, one *)
(* whose length is too small, one whose length has its high bit set, and    *)
(* the seed of zeros, and a packet of which one byte has come.              *)
Pieces == {<<240, 0, 3>>, <<240, 0, 5, 1, 1>>, <<239, 0, 4, 0>>, <<2, 0, 4, 9>>,
           <<240, 0, 2>>, <<240, 0, 200, 1>>, <<0, 0, 0, 0>>, <<240>>}

(* Up to three of them. *)
ThreePieces ==
  Pieces \cup {a \o b : a, b \in Pieces} \cup {a \o b \o c : a, b, c \in Pieces}

(* Lengths and numbers at every limit: of the message, of what is in front  *)
(* of the payload, of a broadcast's list in acc and in the driver.          *)
LimitLens ==
  {0, 1, 21, 888, 889, 4063, 4064, 4065, 4066, 4067, 4068, 4070, 4071, 4081, 4082, 4095, 4096, 65535}
LimitCounts == {0, 1, 2, 399, 400, 401, 510, 511, 512, 513, 2042, 2043, 65536}

(* A client's stream or a call: the two share nothing, so that a behaviour  *)
(* has one of them, and starts as the specification of that one does.       *)
NoCall  == [kind |-> "none"]
OneCall  == call # NoCall

BytesInit ==
  \/ Init /\ call = NoCall /\ wire = {} /\ read = {} /\ done = FALSE
  \/ Init /\ stream = <<240, 0, 3>> /\ ProtoInit

BytesNext ==
  \/ ~OneCall /\ Next /\ UNCHANGED protoVars
  \/ OneCall /\ ProtoNext /\ UNCHANGED framingVars

BytesSpec == BytesInit /\ [][BytesNext]_<<framingVars, protoVars>>
==============================================================================
