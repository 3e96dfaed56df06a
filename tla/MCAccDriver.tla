---------------------------- MODULE MCAccDriver ----------------------------
(* An instance of AccDriver for TLC. *)
EXTENDS AccDriver, TLC

CONSTANTS a1, a2

Symmetry == Permutations(Accs)

(* What accs answer and notify, also of clients the driver does not know,   *)
(* with ids it did not ask for, and before it is registered.                *)
AllMessages ==
       [cmd : {"RSP_REG"}, svrId : {0, SvrId, SvrId + 1}]
  \cup [cmd : {"NTF_CREATE_SESSION"}, cid : Cids, uin : Uins \cup {0}]
  \cup [cmd : {"NTF_DISCON", "NTF_VERIFY_REQ", "NTF_FORWARD", "RSP_SET_ACTIVE_SVR",
              "RSP_CACHE_MSG"}, cid : Cids]
  \cup [cmd : {"RSP_BROADCAST_UIN"}, cid : Cids, uin : Uins]
==============================================================================
