---------------------------- MODULE MCAccSystem ----------------------------
(* Instances of AccSystem for TLC. *)
EXTENDS AccSystem

CONSTANTS s1, s2

(* The only packet: a login. *)
LoginOnly == {[id |-> 240, len |-> 4]}

(* s1 and s2 with an id each. *)
OwnIds == [s \in Svrs |-> IF s = s1 THEN 1 ELSE 2]

(* A default server for every command. *)
ToSvr1 == {[DefaultSeting EXCEPT !.defaultGrpId = 1]}

(* No client is within the limit, and no command has a server. *)
Full == {[DefaultSeting EXCEPT !.maxNum = 0]}
=============================================================================
