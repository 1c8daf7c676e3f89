-------------------------- MODULE MCCartCheckout ---------------------------
(* Small instances of CartCheckout. *)
EXTENDS CartCheckout, FiniteSets, TLC

CONSTANTS v1, plain, engraved, offer

\* Two customisations of one variant.
SameVariant == [l \in Line |-> v1]

Symmetry == Permutations(Process) \union Permutations(Key) \union Permutations(Cart)

-----------------------------------------------------------------------------
(* Two instances in one run: one cart in full detail, whose promotion may  *)
(* lapse until its last revision, or two carts in turn with two keys, each *)
(* cart of one plain line and without a promotion.                         *)

UsedKeys == {a.request.key : a \in answers}
    \union {call[p].request.key : p \in {q \in Process : "request" \in DOMAIN call[q]}}

OneCart ==
    /\ Cardinality({c \in Cart : cart[c].status # "NONE"}) <= 1
    /\ Cardinality(UsedKeys) <= 1
    /\ eligible = Promotion \/ \A c \in Cart : cart[c].revision <= 3

\* Changes of calls and rows that the second instance has.
IsPlain(row) == row.line = plain /\ row.quantity = 1
PlainChange(change) ==
    change.kind = "remove" \/ (change.kind = "add" /\ IsPlain(change))

TwoCarts ==
    /\ eligible = Promotion
    /\ \A c \in Cart :
        /\ cart[c].promotion = NoPromotion
        /\ cart[c].revision <= 3
        /\ \A i \in items[c] : IsPlain(i)
    /\ \A d \in shown : d.promotion = NoPromotion
    /\ \A p \in Process : call[p].pc = "mutate" => PlainChange(call[p].change) /\ call[p].revision <= 2

InBounds == OneCart \/ TwoCarts
=============================================================================
