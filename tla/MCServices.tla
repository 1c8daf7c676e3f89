----------------------------- MODULE MCServices -----------------------------
(***************************************************************************)
(* The components outside the order path, one at a time: they share no     *)
(* state, so all their steps together reach what each reaches by itself,   *)
(* and one run checks them all.                                            *)
(***************************************************************************)
EXTENDS Identity, Passkeys, Profile, Reviews, Support, Discovery, Inventory, BatchDesk,
        Catalogue, Promotions, Population, CheckoutPage, CartPage

CONSTANTS citrusScent, woodyScent, citrus, woody, n1, n2

MCTraits == (citrusScent :> {citrus}) @@ (woodyScent :> {woody})
Symmetry == Permutations(Process)

\* The first edition of the manifest: one product in stock and one sold out.
FirstEntries ==
    (n1 :> [notes |-> Note, availability |-> "AVAILABLE", stock |-> 1])
        @@ (n2 :> [notes |-> Note, availability |-> "OUT_OF_STOCK", stock |-> 0])

\* The first question takes one answer or two, the second at most one.
FirstShapes ==
    <<[required |-> TRUE, min |-> 1, max |-> 2], [required |-> FALSE, min |-> 0, max |-> 1]>>

VARIABLE part   \* the component that this behaviour is about

services == <<idVars, pkVars, pfVars, rvVars, spVars, dsVars, invVars, bdVars, ctVars, pmVars, pnVars, cpVars, cgVars>>

Init ==
    /\ part \in {"identity", "passkeys", "profile", "reviews", "support", "discovery", "inventory",
             "batch desk", "catalogue", "promotions", "population", "checkout page", "cart page"}
    /\ IdInit /\ PkInit /\ PfInit /\ RvInit /\ SpInit /\ DsInit /\ InvInit
    /\ BdInit /\ CtInit /\ PmInit /\ PnInit /\ CpInit /\ CgInit
    /\ shape = FirstShapes /\ manifest.entry = FirstEntries
    /\ part = "profile" \/ ~profile.exists

Next ==
    /\ UNCHANGED part
    /\ \/ /\ part = "identity" /\ IdNext
          /\ UNCHANGED <<pkVars, pfVars, rvVars, spVars, dsVars, invVars, bdVars, ctVars, pmVars, pnVars, cpVars, cgVars>>
       \/ /\ part = "passkeys" /\ PkNext
          /\ UNCHANGED <<idVars, pfVars, rvVars, spVars, dsVars, invVars, bdVars, ctVars, pmVars, pnVars, cpVars, cgVars>>
       \/ /\ part = "profile" /\ PfNext
          /\ UNCHANGED <<idVars, pkVars, rvVars, spVars, dsVars, invVars, bdVars, ctVars, pmVars, pnVars, cpVars, cgVars>>
       \/ /\ part = "reviews" /\ RvNext
          /\ UNCHANGED <<idVars, pkVars, pfVars, spVars, dsVars, invVars, bdVars, ctVars, pmVars, pnVars, cpVars, cgVars>>
       \/ /\ part = "support" /\ SpNext
          /\ UNCHANGED <<idVars, pkVars, pfVars, rvVars, dsVars, invVars, bdVars, ctVars, pmVars, pnVars, cpVars, cgVars>>
       \/ /\ part = "discovery" /\ DsNext
          /\ UNCHANGED <<idVars, pkVars, pfVars, rvVars, spVars, invVars, bdVars, ctVars, pmVars, pnVars, cpVars, cgVars>>
       \/ /\ part = "inventory" /\ InvNext
          /\ UNCHANGED <<idVars, pkVars, pfVars, rvVars, spVars, dsVars, bdVars, ctVars, pmVars, pnVars, cpVars, cgVars>>
       \/ /\ part = "batch desk" /\ BdNext
          /\ UNCHANGED <<idVars, pkVars, pfVars, rvVars, spVars, dsVars, invVars, ctVars, pmVars, pnVars, cpVars, cgVars>>
       \/ /\ part = "catalogue" /\ CtNext
          /\ UNCHANGED <<idVars, pkVars, pfVars, rvVars, spVars, dsVars, invVars, bdVars, pmVars, pnVars, cpVars, cgVars>>
       \/ /\ part = "promotions" /\ PmNext
          /\ UNCHANGED <<idVars, pkVars, pfVars, rvVars, spVars, dsVars, invVars, bdVars, ctVars, pnVars, cpVars, cgVars>>
       \/ /\ part = "population" /\ PnNext
          /\ UNCHANGED <<idVars, pkVars, pfVars, rvVars, spVars, dsVars, invVars, bdVars, ctVars, pmVars, cpVars, cgVars>>
       \/ /\ part = "checkout page" /\ CpNext
          /\ UNCHANGED <<idVars, pkVars, pfVars, rvVars, spVars, dsVars, invVars, bdVars, ctVars, pmVars, pnVars, cgVars>>
       \/ /\ part = "cart page" /\ CgNext
          /\ UNCHANGED <<idVars, pkVars, pfVars, rvVars, spVars, dsVars, invVars, bdVars, ctVars, pmVars, pnVars, cpVars>>

Spec == Init /\ [][Next]_<<part, services>>
=============================================================================
