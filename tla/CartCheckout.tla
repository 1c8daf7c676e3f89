---------------------------- MODULE CartCheckout ----------------------------
(***************************************************************************)
(* One customer's carts and the orders that checkout makes of them, in any *)
(* number of tabs, while administrators change prices and promotions.      *)
(*                                                                         *)
(* A request is its reads and the commit of its transaction, as in         *)
(* Payments; Abandon is every way to end without effect, a refusal for     *)
(* stock, address or customisation included.  Stock is the subject of      *)
(* Payments.                                                               *)
(***************************************************************************)
EXTENDS Naturals

CONSTANTS
    Process,        \* concurrent server requests
    Cart,           \* cart rows of the customer
    Line,           \* variants with a customisation
    Variant,
    VariantOf,      \* VariantOf[l]: the variant of line l
    Promotion,
    NoPromotion,
    Price,          \* unit prices
    Key,            \* idempotency keys of checkouts
    NoOrder,
    MaxQuantity,    \* MAX_QUANTITY of a line
    MaxRevision     \* bound: revision of a cart

ASSUME CartCheckoutAssumption ==
    /\ VariantOf \in [Line -> Variant]
    /\ NoPromotion \notin Promotion
    /\ MaxQuantity \in Nat \ {0} /\ MaxRevision \in Nat \ {0}

VARIABLES
    cart,       \* cart[c]: its status, revision and promotion
    items,      \* items[c]: its rows; a row's id is the revision that made it
    price,      \* price[v]: the catalogue's unit price
    eligible,   \* promotions that may be used now
    order,      \* order[k]: the order with idempotency key k, or NoOrder
    shown,      \* the carts that the customer was shown, as they were then
    answers,    \* answers to checkouts
    call        \* call[p]: the request that p is serving

vars == <<cart, items, price, eligible, order, shown, answers, call>>
catalogue == <<price, eligible>>

-----------------------------------------------------------------------------
Quantity == 1..MaxQuantity
Revision == 1..MaxRevision + 1
AnyPromotion == Promotion \union {NoPromotion}

CartRow == [status : {"NONE", "ACTIVE", "CONVERTED"}, revision : Revision,
            promotion : AnyPromotion]
Item == [id : Revision, line : Line, quantity : Quantity]
Shown == [cart : Cart, revision : Revision, items : SUBSET Item,
          promotion : AnyPromotion, price : [Variant -> Price]]

\* What identifies a checkout: its requestFingerprint.
Request == [key : Key, cart : Cart, revision : Revision]
Order == [request : Request, items : SUBSET Item, promotion : AnyPromotion,
          price : [Variant -> Price]]
ASSUME NoOrderAssumption == NoOrder \notin Order

Outcome == {"READY_FOR_PAYMENT", "CHECKOUT_CONFLICT", "REQUIRES_CART_REVIEW", "EXCEPTION"}

Change ==
    [kind : {"add"}, line : Line, quantity : Quantity, id : 0..MaxRevision + 1]
        \union [kind : {"set"}, id : Revision, quantity : Quantity]
        \union [kind : {"remove"}, id : Revision]
        \union [kind : {"promote"}, promotion : AnyPromotion]

Idle == [pc |-> "idle"]
Call ==
    {Idle, [pc |-> "answer"]}
        \union [pc : {"mutate"}, cart : Cart, revision : Revision, change : Change]
        \union [pc : {"submit", "review", "unique"}, request : Request]

Goto(p, c) == call' = [call EXCEPT ![p] = c]
Return(p) == Goto(p, Idle)

-----------------------------------------------------------------------------
(* Conditions of the code *)

Active == {c \in Cart : cart[c].status = "ACTIVE"}

\* Mutant: a mutation claims any revision.
MutationClaimsAnyRevision(c, revision) == cart[c].status = "ACTIVE"

\* The cart row that a mutation's updateMany may change.
MutationClaims(c, revision) == cart[c].status = "ACTIVE" /\ cart[c].revision = revision

\* Mutants: a checkout claims any revision; a checkout claims by id alone.
CheckoutClaimsAnyRevision(c, revision) == cart[c].status = "ACTIVE"
CheckoutClaimsById(c, revision) == cart[c].status # "NONE"

\* The cart row that a checkout's updateMany may change.
CheckoutClaims(c, revision) == cart[c].status = "ACTIVE" /\ cart[c].revision = revision

PromotionUsable(promotion) == promotion = NoPromotion \/ promotion \in eligible

\* An order has one reservation for each variant (unique index).
ReservationsDistinct(rows) ==
    \A i, j \in rows : VariantOf[i.line] = VariantOf[j.line] => i = j

\* Mutant: the limit is checked on the added quantity alone.
AddedFits(rows, line, quantity) == quantity <= MaxQuantity

\* addItem: the line, with what it holds already, stays within the limit.
FitsLimit(rows, line, quantity) ==
    \A i \in rows : i.line = line => i.quantity + quantity <= MaxQuantity

\* replay compares the fingerprint of the order that has the key.
SameRequest(k, r) == order[k].request = r

\* Mutant: a checkout that lost its claim asks for a review at once.
NeverReplayed(k) == FALSE

\* replay after a lost claim or a unique conflict: does the key have an order?
Replayed(k) == order[k] # NoOrder

-----------------------------------------------------------------------------
Init ==
    /\ cart = [c \in Cart |-> [status |-> "NONE", revision |-> 1, promotion |-> NoPromotion]]
    /\ items = [c \in Cart |-> {}]
    /\ price \in [Variant -> Price]
    /\ eligible = Promotion
    /\ order = [k \in Key |-> NoOrder]
    /\ shown = {}
    /\ answers = {}
    /\ call = [p \in Process |-> Idle]

Abandon(p) ==
    /\ call[p] # Idle
    /\ Return(p)
    /\ UNCHANGED <<cart, items, catalogue, order, shown, answers>>

\* CatalogueAdminService.updateVariant: carts are not touched.
SetPrice(v, amount) ==
    /\ price' = [price EXCEPT ![v] = amount]
    /\ UNCHANGED <<cart, items, eligible, order, shown, answers, call>>

\* A promotion ends or begins: its dates or an administrator's update.
SwitchPromotion(promotion) ==
    /\ eligible' = IF promotion \in eligible
                   THEN eligible \ {promotion} ELSE eligible \union {promotion}
    /\ UNCHANGED <<cart, items, price, order, shown, answers, call>>

-----------------------------------------------------------------------------
(* CartService *)

\* ensure: the active cart, or a new one.  One is active at most (unique index).
Ensure(c) ==
    \/ c \in Active /\ UNCHANGED cart
    \/ /\ Active = {} /\ cart[c].status = "NONE"
       /\ cart' = [cart EXCEPT ![c] = [@ EXCEPT !.status = "ACTIVE"]]

Dto(c) == [cart |-> c, revision |-> cart[c].revision, items |-> items[c],
           promotion |-> cart[c].promotion, price |-> price]

GetCart(c) ==
    /\ Ensure(c)
    /\ UNCHANGED <<items, catalogue, order, answers, call>>
    /\ shown' = shown \union {Dto(c)'}

\* A mutation of a cart that is no longer active makes a new one and refuses.
MutateElsewhere(c) ==
    /\ \E d \in shown : d.cart # c
    /\ Active = {}
    /\ Ensure(c)
    /\ UNCHANGED <<items, catalogue, order, shown, answers, call>>

\* addItem, updateQuantity, removeItem and applyPromotion, on the rows they read.
Acceptable(rows, change) ==
    CASE change.kind = "add" ->
            /\ FitsLimit(rows, change.line, change.quantity)
            /\ \/ \E i \in rows : i.line = change.line /\ i.id = change.id
               \/ change.id = 0 /\ \A i \in rows : i.line # change.line
      [] change.kind \in {"set", "remove"} -> \E i \in rows : i.id = change.id
      [] OTHER -> PromotionUsable(change.promotion)

MutateRead(p, d, change) ==
    /\ call[p] = Idle
    /\ d.revision <= MaxRevision
    /\ d.cart \in Active /\ cart[d.cart].revision = d.revision
    /\ Acceptable(items[d.cart], change)
    /\ Goto(p, [pc |-> "mutate", cart |-> d.cart, revision |-> d.revision, change |-> change])
    /\ UNCHANGED <<cart, items, catalogue, order, shown, answers>>

\* The statement of the mutation, as it finds the rows; claimed is the revision
\* that the transaction has just claimed.
Changed(rows, change, claimed) ==
    CASE change.kind = "add" /\ (\E i \in rows : i.id = change.id) ->
            {IF i.id = change.id THEN [i EXCEPT !.quantity = @ + change.quantity] ELSE i : i \in rows}
      [] change.kind = "add" /\ (\A i \in rows : i.id # change.id) ->
            rows \union {[id |-> claimed, line |-> change.line, quantity |-> change.quantity]}
      [] change.kind = "set" ->
            {IF i.id = change.id THEN [i EXCEPT !.quantity = change.quantity] ELSE i : i \in rows}
      [] change.kind = "remove" -> {i \in rows : i.id # change.id}
      [] OTHER -> rows

MutateCommit(p, c) ==
    LET change == call[p].change IN
    /\ call[p].pc = "mutate" /\ call[p].cart = c
    /\ MutationClaims(c, call[p].revision)
    /\ cart[c].revision <= MaxRevision
    /\ change.kind \in {"set", "remove"} => \E i \in items[c] : i.id = change.id
    /\ items' = [items EXCEPT ![c] = Changed(@, change, cart[c].revision)]
    /\ cart' = [cart EXCEPT ![c] =
            [status |-> "ACTIVE", revision |-> @.revision + 1,
             promotion |-> IF change.kind = "promote" THEN change.promotion
                                                      ELSE @.promotion]]
    /\ Goto(p, [pc |-> "answer"])
    /\ UNCHANGED <<catalogue, order, shown, answers>>

\* The answer to a mutation is the cart that is active by then.
MutateAnswer(p) ==
    /\ call[p].pc = "answer"
    /\ shown' = shown \union {Dto(c) : c \in Active}
    /\ Return(p)
    /\ UNCHANGED <<cart, items, catalogue, order, answers>>

-----------------------------------------------------------------------------
(* CheckoutService.submit *)

Answer(r, outcome) == answers' = answers \union {[request |-> r, outcome |-> outcome]}

Replay(k, r) ==
    Answer(r, IF SameRequest(k, r) THEN "READY_FOR_PAYMENT" ELSE "CHECKOUT_CONFLICT")

RequestOf(d, k) == [key |-> k, cart |-> d.cart, revision |-> d.revision]

SubmitReplay(d, k) ==
    /\ order[k] # NoOrder
    /\ Replay(k, RequestOf(d, k))
    /\ UNCHANGED <<cart, items, catalogue, order, shown, call>>

SubmitRead(p, d, k) ==
    /\ call[p] = Idle
    /\ order[k] = NoOrder
    /\ Goto(p, [pc |-> "submit", request |-> RequestOf(d, k)])
    /\ UNCHANGED <<cart, items, catalogue, order, shown, answers>>

\* What is ordered is what the claimed cart holds, at today's prices.
SubmitCommit(p, c) ==
    LET r == call[p].request IN
    /\ call[p].pc = "submit" /\ r.cart = c
    /\ CheckoutClaims(c, r.revision)
    /\ cart[c].revision <= MaxRevision
    /\ items[c] # {}
    /\ PromotionUsable(cart[c].promotion)
    /\ order[r.key] = NoOrder
    /\ ReservationsDistinct(items[c])
    /\ cart' = [cart EXCEPT ![c] =
            [status |-> "CONVERTED", revision |-> @.revision + 1, promotion |-> @.promotion]]
    /\ order' = [order EXCEPT ![r.key] =
            [request |-> r, items |-> items[c], promotion |-> cart[c].promotion,
             price |-> price]]
    /\ Answer(r, "READY_FOR_PAYMENT")
    /\ Return(p)
    /\ UNCHANGED <<items, catalogue, shown>>

\* The claim matched no row, or matched an empty cart.
SubmitMissed(p, c) ==
    LET r == call[p].request IN
    /\ call[p].pc = "submit" /\ r.cart = c
    /\ ~CheckoutClaims(c, r.revision) \/ items[c] = {}
    /\ Goto(p, [pc |-> "review", request |-> r])
    /\ UNCHANGED <<cart, items, catalogue, order, shown, answers>>

\* The key has an order by now, or two lines are of one variant.
SubmitUnique(p, c) ==
    LET r == call[p].request IN
    /\ call[p].pc = "submit" /\ r.cart = c
    /\ CheckoutClaims(c, r.revision) /\ items[c] # {}
    /\ PromotionUsable(cart[c].promotion)
    /\ order[r.key] # NoOrder \/ ~ReservationsDistinct(items[c])
    /\ Goto(p, [pc |-> "unique", request |-> r])
    /\ UNCHANGED <<cart, items, catalogue, order, shown, answers>>

SubmitReplayed(p) ==
    LET r == call[p].request IN
    /\ call[p].pc \in {"review", "unique"}
    /\ Replayed(r.key)
    /\ Replay(r.key, r)
    /\ Return(p)
    /\ UNCHANGED <<cart, items, catalogue, order, shown>>

\* cartReview answers with the active cart, or a new one.
SubmitReview(p, c) ==
    LET r == call[p].request IN
    /\ call[p].pc = "review" /\ ~Replayed(r.key)
    /\ Ensure(c)
    /\ Answer(r, "REQUIRES_CART_REVIEW")
    /\ Return(p)
    /\ UNCHANGED <<items, catalogue, order>>
    /\ shown' = shown \union {Dto(c)'}

SubmitThrows(p) ==
    LET r == call[p].request IN
    /\ call[p].pc = "unique" /\ ~Replayed(r.key)
    /\ Answer(r, "EXCEPTION")
    /\ Return(p)
    /\ UNCHANGED <<cart, items, catalogue, order, shown>>

-----------------------------------------------------------------------------
Mutate(p) ==
    \/ \E d \in shown, change \in Change : MutateRead(p, d, change)
    \/ \E c \in Cart : MutateCommit(p, c)
    \/ MutateAnswer(p)

Submit(p) ==
    \/ \E d \in shown, k \in Key : SubmitRead(p, d, k)
    \/ \E c \in Cart : SubmitCommit(p, c) \/ SubmitMissed(p, c) \/ SubmitUnique(p, c)
    \/ SubmitReplayed(p)
    \/ \E c \in Cart : SubmitReview(p, c)
    \/ SubmitThrows(p)

Next ==
    \/ \E p \in Process : Abandon(p) \/ Mutate(p) \/ Submit(p)
    \/ \E c \in Cart : GetCart(c) \/ MutateElsewhere(c)
    \/ \E d \in shown, k \in Key : SubmitReplay(d, k)
    \/ \E v \in Variant, amount \in Price : SetPrice(v, amount)
    \/ \E promotion \in Promotion : SwitchPromotion(promotion)

Spec == Init /\ [][Next]_vars

-----------------------------------------------------------------------------
\* Cart rows, orders, answers and calls are well formed.  A cart line's
\* quantity is a number that addItem and updateQuantity accept (1 to 99),
\* whatever two tabs add to it at once.
TypeOK ==
    /\ cart \in [Cart -> CartRow]
    /\ items \in [Cart -> SUBSET Item]
    /\ price \in [Variant -> Price]
    /\ eligible \subseteq Promotion
    /\ order \in [Key -> Order \union {NoOrder}]
    /\ shown \subseteq Shown
    /\ answers \subseteq [request : Request, outcome : Outcome]
    /\ call \in [Process -> Call]

\* A cart has one row for a variant with a customisation: two tabs that add the
\* same line at once do not make two rows of it.
LinesAreMerged ==
    \A c \in Cart : \A i, j \in items[c] : i.line = j.line \/ i.id = j.id => i = j

\* checkout/README.md: checkout revalidates the active cart.  What is ordered is
\* what the customer was shown for the revision that was submitted, although
\* the cart's rows are read without looking at what was shown.
OrderedAsShown ==
    \A k \in Key : order[k] # NoOrder =>
        \E d \in shown :
            /\ d.cart = order[k].request.cart
            /\ d.revision = order[k].request.revision
            /\ d.items = order[k].items /\ d.promotion = order[k].promotion

\* D-040: repeated checkouts do not create duplicate orders.  An order takes its
\* cart: no other order has it and nothing changes it afterwards.
OrderTakesCart ==
    \A k \in Key : order[k] # NoOrder =>
        LET c == order[k].request.cart IN
        /\ cart[c].status = "CONVERTED"
        /\ cart[c].revision = order[k].request.revision + 1
        /\ items[c] = order[k].items
        /\ \A other \in Key \ {k} : order[other] # NoOrder => order[other].request.cart # c

\* checkout/README.md: the idempotency key safely replays an identical request.
\* What a checkout was answered stays true: one that was ready is the order of
\* its key, one that was sent back to review its cart never became an order,
\* even if a copy of the request was being served at the same time.
AnswersStayTrue ==
    \A a \in answers :
        LET k == a.request.key IN
        CASE a.outcome = "READY_FOR_PAYMENT" ->
                order[k] # NoOrder /\ order[k].request = a.request
          [] a.outcome = "CHECKOUT_CONFLICT" ->
                order[k] # NoOrder /\ order[k].request # a.request
          [] OTHER -> order[k] = NoOrder \/ order[k].request # a.request

\* Checkouts keep the promise of OnceOnly: one key, one order.
OrderedAs(k) == {o.request : o \in {order[k]} \ {NoOrder}}

CheckoutsTold == {<<a.request.key, {a.request}>> : a \in {a \in answers : a.outcome = "READY_FOR_PAYMENT"}}

Checkouts == INSTANCE OnceOnly WITH
    None <- {}, result <- [k \in Key |-> OrderedAs(k)], answered <- CheckoutsTold

CheckoutsAreOnce == Checkouts!OnceSpec

-----------------------------------------------------------------------------
(* Claims of the documents that the code does not keep *)

\* SRS, UC-ORDER-001: if the price changed, Palermo shows the changed information
\* and requires the customer to confirm it.  So the prices of an order are
\* prices that were shown with the submitted cart.
PricesAreConfirmed ==
    \A k \in Key : order[k] # NoOrder =>
        \E d \in shown :
            /\ d.cart = order[k].request.cart
            /\ d.revision = order[k].request.revision
            /\ \A i \in d.items : d.price[VariantOf[i.line]] = order[k].price[VariantOf[i.line]]

\* cart/README.md: the service returns canonical checkout eligibility, which asks
\* for lines, stock and a valid promotion.  So a checkout of an eligible cart
\* is answered, not thrown out.
EligibleIsAnswered == \A a \in answers : a.outcome # "EXCEPTION"
=============================================================================
