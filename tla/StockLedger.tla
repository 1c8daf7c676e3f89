---------------------------- MODULE StockLedger -----------------------------
(***************************************************************************)
(* What the shop promises about stock, whatever its tables look like.      *)
(*                                                                         *)
(* A line of an order is free, held or sold.  Lines are held only while    *)
(* there is supply for them, an order's lines are sold together and only   *)
(* out of their holds, and a sale is never undone.                         *)
(***************************************************************************)
EXTENDS StockUnits

VARIABLES
    supply,    \* supply[v]: units of v ever put on the shelf
    held,      \* the lines that hold stock
    sold       \* the lines whose stock was sold

ledgerVars == <<supply, held, sold>>

LinesOf(o) == {l \in Line : l[1] = o}

Fits(v) == Quantity(held', v) + Quantity(sold, v) <= supply[v]

LedgerInit ==
    /\ supply \in [Variant -> Nat]
    /\ held = {}
    /\ sold = {}

\* Some lines of one order take stock, together or not at all.
Hold(o) ==
    /\ \E L \in (SUBSET (LinesOf(o) \ (held \union sold))) \ {{}} :
            held' = held \union L
    /\ \A v \in Variant : Fits(v)
    /\ UNCHANGED <<supply, sold>>

\* Some lines of one order give their stock back.
Release(o) ==
    /\ \E L \in (SUBSET (LinesOf(o) \cap held)) \ {{}} : held' = held \ L
    /\ UNCHANGED <<supply, sold>>

\* Every line of the order is sold out of its hold.
Sell(o) ==
    /\ LinesOf(o) \subseteq held
    /\ held' = held \ LinesOf(o)
    /\ sold' = sold \union LinesOf(o)
    /\ UNCHANGED supply

Restock(v) ==
    /\ supply' \in [Variant -> Nat]
    /\ supply'[v] > supply[v]
    /\ \A w \in Variant \ {v} : supply'[w] = supply[w]
    /\ UNCHANGED <<held, sold>>

\* The steps of the ledger, and those that leave it alone: most steps of a
\* program that implements it.
LedgerStep ==
    \/ \E o \in Order : Hold(o) \/ Release(o) \/ Sell(o)
    \/ \E v \in Variant : Restock(v)

LedgerNext == UNCHANGED ledgerVars \/ LedgerStep

LedgerSpec == LedgerInit /\ [][LedgerNext]_ledgerVars
=============================================================================
