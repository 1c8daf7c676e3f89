----------------------------- MODULE OrderLife ------------------------------
(***************************************************************************)
(* What the shop promises about the life of an order: it is confirmed when *)
(* it is paid, shipped and delivered afterwards, and it is either cancelled*)
(* or shipped, never both.                                                 *)
(***************************************************************************)
CONSTANT Order

VARIABLES
    stage,      \* stage[o]: "placed", "confirmed", "shipped" or "delivered"
    cancelled   \* the orders whose cancellation was requested

lifeVars == <<stage, cancelled>>

LifeInit ==
    /\ stage = [o \in Order |-> "placed"]
    /\ cancelled = {}

Advance(o, from, to) ==
    /\ stage[o] = from
    /\ stage' = [stage EXCEPT ![o] = to]
    /\ UNCHANGED cancelled

Confirm(o) == Advance(o, "placed", "confirmed")

Ship(o) == o \notin cancelled /\ Advance(o, "confirmed", "shipped")

Deliver(o) == Advance(o, "shipped", "delivered")

Cancel(o) ==
    /\ stage[o] \in {"placed", "confirmed"}
    /\ cancelled' = cancelled \union {o}
    /\ UNCHANGED stage

LifeNext == \E o \in Order : Confirm(o) \/ Ship(o) \/ Deliver(o) \/ Cancel(o)

LifeSpec == LifeInit /\ [][LifeNext]_lifeVars
=============================================================================
