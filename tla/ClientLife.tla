----------------------------- MODULE ClientLife -----------------------------
(***************************************************************************)
(* What acc promises about the life of a client, whatever servers ask and  *)
(* whenever: it connects, asks to be verified, is let in and leaves, in    *)
(* this order, each at most once.  It is let in only after it has asked,   *)
(* it is gone only after its connection was closed, and no step moves two  *)
(* clients on.  A connection that has been closed stays closed, though its *)
(* client may still move on until it is gone.                              *)
(***************************************************************************)
CONSTANT Clients

VARIABLES
  life,     \* how far each client has come
  closed    \* the clients whose connection has been closed

lifeVars == <<life, closed>>

Stages == {"none", "connected", "asked", "in", "gone"}

LifeInit == life = [c \in Clients |-> "none"] /\ closed = {}

Moves(c, from, to) == life[c] = from /\ life' = [life EXCEPT ![c] = to]

Connect(c) == Moves(c, "none", "connected")
Ask(c)     == Moves(c, "connected", "asked")
Admit(c)   == Moves(c, "asked", "in")
Leave(c)   == c \in closed /\ \E stage \in Stages \ {"none", "gone"} : Moves(c, stage, "gone")

LifeNext ==
  /\ closed \subseteq closed' /\ closed' \subseteq Clients
  /\ \/ UNCHANGED life
     \/ \E c \in Clients : Connect(c) \/ Ask(c) \/ Admit(c) \/ Leave(c)

LifeSpec == LifeInit /\ [][LifeNext]_lifeVars
=============================================================================
