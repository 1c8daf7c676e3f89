----------------------------- MODULE StockUnits -----------------------------
(***************************************************************************)
(* Orders, their lines, and the stock units the lines ask for.             *)
(*                                                                         *)
(* An order o asks for Demand[o][v] units of variant v; zero means that v  *)
(* is not on the order.  Quantities are written as sets of units, so that  *)
(* a sum over orders is the cardinality of one set.                        *)
(***************************************************************************)
EXTENDS Integers, FiniteSets

CONSTANTS
    Order,         \* orders that customers may place
    Variant,       \* perfume variants that have an inventory balance row
    MaxQuantity,   \* largest quantity of one order line
    Demand         \* Demand[o][v]: units of v on order o

ASSUME StockUnitsAssumption ==
    /\ IsFiniteSet(Order)
    /\ MaxQuantity \in Nat
    /\ Demand \in [Order -> [Variant -> 0..MaxQuantity]]
    /\ \A o \in Order : \E v \in Variant : Demand[o][v] > 0

\* Mutant: a line for every variant, of zero units when it was not ordered.
EveryVariant(o) == Variant

\* The variants on order o (the distinct keys of requiredQuantities).
Items(o) == {v \in Variant : Demand[o][v] > 0}

\* A line is one variant of one order: at most one reservation row exists for
\* it, by the unique index on (orderId, variantId).
Line == {l \in Order \X Variant : Demand[l[1]][l[2]] > 0}

\* The units of variant v that the lines in L ask for, and their number.
Units(L, v) ==
    {u \in Order \X (1..MaxQuantity) :
        u[2] <= Demand[u[1]][v] /\ <<u[1], v>> \in L}

Quantity(L, v) == Cardinality(Units(L, v))
=============================================================================
