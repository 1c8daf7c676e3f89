------------------------ MODULE CartCheckoutProofs --------------------------
(***************************************************************************)
(* What is proved of CartCheckout for any number of carts, lines, keys and *)
(* requests, any limit and any bound on revisions.                         *)
(***************************************************************************)
EXTENDS CartCheckout, TLAPS

-----------------------------------------------------------------------------
(* The inductive invariant *)

\* The cart of a revision that the customer has seen exists, and no earlier
\* revision of it can come back.
Reached(c, revision) == cart[c].status # "NONE" /\ revision <= cart[c].revision

\* The cart still is what it was at that revision.
Current(c, revision) == cart[c].status = "ACTIVE" /\ cart[c].revision = revision

\* What was shown is what the cart holds as long as its revision stands.
ShownFacts(d) ==
    /\ Reached(d.cart, d.revision)
    /\ Current(d.cart, d.revision) =>
            d.items = items[d.cart] /\ d.promotion = cart[d.cart].promotion

WasShown(r) == \E d \in shown : d.cart = r.cart /\ d.revision = r.revision

\* A checkout that cannot succeed any more, whatever happens.
Doomed(r) ==
    /\ Reached(r.cart, r.revision)
    /\ Current(r.cart, r.revision) =>
            items[r.cart] = {} \/ ~ReservationsDistinct(items[r.cart])

\* An addition found its line, or found that there is none, and fits the limit.
AddFacts(rows, change) ==
    change.kind = "add" =>
        /\ FitsLimit(rows, change.line, change.quantity)
        /\ \/ \E i \in rows : i.line = change.line /\ i.id = change.id
           \/ change.id = 0 /\ \A i \in rows : i.line # change.line

CallFacts(c) ==
    /\ c.pc = "mutate" =>
            /\ Reached(c.cart, c.revision)
            /\ Current(c.cart, c.revision) => AddFacts(items[c.cart], c.change)
    /\ c.pc \in {"submit", "review", "unique"} => WasShown(c.request)
    /\ c.pc = "review" => Doomed(c.request)
    /\ c.pc = "unique" => order[c.request.key] # NoOrder \/ Doomed(c.request)

\* Rows are made by revisions that are over.
ItemFacts(c) == \A i \in items[c] : i.id < cart[c].revision

AnswerFacts(a) ==
    a.outcome \in {"REQUIRES_CART_REVIEW", "EXCEPTION"} => Doomed(a.request)

CartInv ==
    /\ TypeOK
    /\ \A d \in shown : ShownFacts(d)
    /\ \A p \in Process : CallFacts(call[p])
    /\ \A c \in Cart : ItemFacts(c)
    /\ \A a \in answers : AnswerFacts(a)
    /\ LinesAreMerged
    /\ OrderedAsShown
    /\ OrderTakesCart
    /\ AnswersStayTrue

-----------------------------------------------------------------------------
(* Types *)

LEMMA CallFields ==
    ASSUME NEW c \in Call
    PROVE  /\ c.pc = "mutate" => /\ c.cart \in Cart /\ c.revision \in Revision
                                 /\ c.change \in Change
           /\ c.pc \in {"submit", "review", "unique"} => c.request \in Request
BY DEF Call, Idle

LEMMA GotoType ==
    ASSUME TypeOK, NEW p \in Process, NEW c \in Call, Goto(p, c)
    PROVE  call' \in [Process -> Call]
BY DEF TypeOK, Goto

LEMMA IdleType == Idle \in Call /\ [pc |-> "answer"] \in Call
BY DEF Call

LEMMA RequestType ==
    ASSUME NEW r \in Request, NEW step \in {"submit", "review", "unique"}
    PROVE  [pc |-> step, request |-> r] \in Call
BY DEF Call

LEMMA ShownRequest ==
    ASSUME NEW d \in Shown, NEW k \in Key
    PROVE  RequestOf(d, k) \in Request
BY DEF Shown, RequestOf, Request

\* A cart that is active after Ensure: nothing but its status may have changed.
LEMMA EnsureType ==
    ASSUME TypeOK, NEW c \in Cart, Ensure(c)
    PROVE  /\ cart' \in [Cart -> CartRow]
           /\ cart'[c].status = "ACTIVE"
           /\ \/ cart' = cart
              \/ cart[c].status = "NONE" /\ \A other \in Cart \ {c} : cart'[other] = cart[other]
           /\ \A other \in Cart : /\ cart'[other].revision = cart[other].revision
                                  /\ cart'[other].promotion = cart[other].promotion
<1>1. CASE c \in Active /\ UNCHANGED cart
  BY <1>1 DEF TypeOK, Active
<1>2. CASE cart[c].status = "NONE" /\ cart' = [cart EXCEPT ![c] = [@ EXCEPT !.status = "ACTIVE"]]
  <2> DEFINE row == [cart[c] EXCEPT !.status = "ACTIVE"]
  <2>1. cart[c] \in CartRow
    BY DEF TypeOK
  <2>2. row \in CartRow /\ row.status = "ACTIVE" /\ row.revision = cart[c].revision
        /\ row.promotion = cart[c].promotion
    BY <2>1 DEF CartRow
  <2>3. cart' = [cart EXCEPT ![c] = row]
    BY <1>2
  <2> HIDE DEF row
  <2>4. QED
    BY <1>2, <2>2, <2>3 DEF TypeOK
<1>3. QED
  BY <1>1, <1>2 DEF Ensure, Active

LEMMA DtoType ==
    ASSUME TypeOK, NEW c \in Cart
    PROVE  Dto(c) \in Shown
<1>1. cart[c] \in CartRow /\ items[c] \in SUBSET Item
  BY DEF TypeOK
<1>2. QED
  BY <1>1 DEF TypeOK, Dto, Shown, CartRow

LEMMA NewDtoType ==
    ASSUME NEW c \in Cart, cart' \in [Cart -> CartRow], items' \in [Cart -> SUBSET Item],
           price' \in [Variant -> Price]
    PROVE  Dto(c)' \in Shown
<1>1. cart'[c] \in CartRow /\ items'[c] \in SUBSET Item
  OBVIOUS
<1>2. QED
  BY <1>1 DEF Dto, Shown, CartRow

LEMMA AnswerType ==
    ASSUME TypeOK, NEW r \in Request, NEW outcome \in Outcome, Answer(r, outcome)
    PROVE  answers' \subseteq [request : Request, outcome : Outcome]
BY DEF TypeOK, Answer

LEMMA ReplayType ==
    ASSUME TypeOK, NEW r \in Request, NEW k, Replay(k, r)
    PROVE  answers' \subseteq [request : Request, outcome : Outcome]
BY AnswerType DEF Replay, Outcome

LEMMA InitTypeOK == Init => TypeOK
<1> SUFFICES ASSUME Init PROVE TypeOK
  OBVIOUS
<1>1. 1 \in Revision
  BY CartCheckoutAssumption DEF Revision
<1>2. [status |-> "NONE", revision |-> 1, promotion |-> NoPromotion] \in CartRow
  BY <1>1 DEF CartRow, AnyPromotion
<1>3. QED
  BY <1>2, IdleType DEF Init, TypeOK

\* The rows after a mutation that the claim let through.
LEMMA ChangedType ==
    ASSUME TypeOK, NEW rows \in SUBSET Item, NEW change \in Change,
           AddFacts(rows, change), NEW claimed \in Revision,
           \A i, j \in rows : i.id = j.id => i = j
    PROVE  Changed(rows, change, claimed) \in SUBSET Item
<1>1. CASE change.kind = "add"
  <2>1. change.line \in Line /\ change.quantity \in Quantity
    BY <1>1 DEF Change
  <2>2. CASE \E i \in rows : i.id = change.id
    <3>1. ASSUME NEW i \in rows, i.id = change.id
          PROVE  [i EXCEPT !.quantity = @ + change.quantity] \in Item
      <4>1. PICK j \in rows : j.line = change.line /\ j.id = change.id
        BY <1>1, <3>1, CartCheckoutAssumption DEF AddFacts, Item, Revision
      <4>2. i.quantity + change.quantity <= MaxQuantity
        BY <1>1, <3>1, <4>1 DEF AddFacts, FitsLimit
      <4>3. i.quantity + change.quantity \in Quantity
        BY <2>1, <4>2, CartCheckoutAssumption DEF Quantity, Item
      <4>4. QED
        BY <4>3 DEF Item
    <3>2. Changed(rows, change, claimed)
            = {IF i.id = change.id THEN [i EXCEPT !.quantity = @ + change.quantity] ELSE i
               : i \in rows}
      BY <1>1, <2>2 DEF Changed
    <3>3. QED
      BY <3>1, <3>2
  <2>3. CASE \A i \in rows : i.id # change.id
    <3>1. [id |-> claimed, line |-> change.line, quantity |-> change.quantity] \in Item
      BY <2>1 DEF Item
    <3>2. Changed(rows, change, claimed)
            = rows \union {[id |-> claimed, line |-> change.line, quantity |-> change.quantity]}
      BY <1>1, <2>3 DEF Changed
    <3>3. QED
      BY <3>1, <3>2
  <2>4. QED
    BY <2>2, <2>3
<1>2. CASE change.kind = "set"
  <2>1. change.quantity \in Quantity
    BY <1>2 DEF Change
  <2>2. \A i \in rows : [i EXCEPT !.quantity = change.quantity] \in Item
    BY <2>1 DEF Item
  <2>3. Changed(rows, change, claimed)
          = {IF i.id = change.id THEN [i EXCEPT !.quantity = change.quantity] ELSE i
             : i \in rows}
    BY <1>2 DEF Changed
  <2>4. QED
    BY <2>2, <2>3
<1>3. CASE change.kind = "remove"
  <2>1. Changed(rows, change, claimed) = {i \in rows : i.id # change.id}
    BY <1>3 DEF Changed
  <2>2. QED
    BY <2>1
<1>4. CASE change.kind = "promote"
  <2>1. Changed(rows, change, claimed) = rows
    BY <1>4 DEF Changed
  <2>2. QED
    BY <2>1
<1>5. QED
  BY <1>1, <1>2, <1>3, <1>4 DEF Change

\* The claim of a mutation proves that its rows are those it read.
LEMMA ClaimedRows ==
    ASSUME CartInv, NEW p \in Process, NEW c \in Cart, MutateCommit(p, c)
    PROVE  /\ cart[c].status = "ACTIVE" /\ cart[c].revision = call[p].revision
           /\ cart[c] \in CartRow /\ cart[c].revision + 1 \in Revision
           /\ items[c] \in SUBSET Item
           /\ call[p].change \in Change
           /\ AddFacts(items[c], call[p].change)
           /\ \A i, j \in items[c] : i.id = j.id => i = j
<1>1. /\ call[p].pc = "mutate" /\ call[p].cart = c
      /\ cart[c].status = "ACTIVE" /\ cart[c].revision = call[p].revision
      /\ cart[c].revision <= MaxRevision
  BY DEF MutateCommit, MutationClaims
<1>2. TypeOK /\ CallFacts(call[p])
  BY DEF CartInv
<1>3. cart[c] \in CartRow /\ items[c] \in SUBSET Item /\ call[p] \in Call
  BY <1>2 DEF TypeOK
<1>4. call[p].change \in Change
  BY <1>1, <1>3, CallFields
<1>5. cart[c].revision + 1 \in Revision
  BY <1>1, <1>3, CartCheckoutAssumption DEF CartRow, Revision
<1>6. AddFacts(items[c], call[p].change)
  BY <1>1, <1>2 DEF CallFacts, Current
<1>7. \A i, j \in items[c] : i.id = j.id => i = j
  BY DEF CartInv, LinesAreMerged
<1>8. QED
  BY <1>1, <1>3, <1>4, <1>5, <1>6, <1>7

LEMMA NextTypeOK == CartInv /\ [Next]_vars => TypeOK'
<1> SUFFICES ASSUME CartInv, [Next]_vars PROVE TypeOK'
  OBVIOUS
<1>0. TypeOK
  BY DEF CartInv
<1>1. ASSUME NEW p \in Process, Abandon(p) PROVE TypeOK'
  <2>1. call' \in [Process -> Call]
    BY <1>0, <1>1, IdleType, GotoType DEF Abandon, Return
  <2>2. QED
    BY <1>0, <1>1, <2>1 DEF Abandon, TypeOK, catalogue
<1>2. ASSUME NEW v \in Variant, NEW amount \in Price, SetPrice(v, amount) PROVE TypeOK'
  BY <1>0, <1>2 DEF SetPrice, TypeOK
<1>3. ASSUME NEW promotion \in Promotion, SwitchPromotion(promotion) PROVE TypeOK'
  BY <1>0, <1>3 DEF SwitchPromotion, TypeOK
<1>4. ASSUME NEW c \in Cart, GetCart(c) PROVE TypeOK'
  <2>1. cart' \in [Cart -> CartRow]
    BY <1>0, <1>4, EnsureType DEF GetCart
  <2>2. UNCHANGED <<items, catalogue, order, answers, call>>
    BY <1>4 DEF GetCart
  <2>3. Dto(c)' \in Shown
    BY <1>0, <2>1, <2>2, NewDtoType DEF TypeOK, catalogue
  <2>4. QED
    BY <1>0, <1>4, <2>1, <2>2, <2>3 DEF GetCart, TypeOK, catalogue
<1>5. ASSUME NEW c \in Cart, MutateElsewhere(c) PROVE TypeOK'
  <2>1. cart' \in [Cart -> CartRow]
    BY <1>0, <1>5, EnsureType DEF MutateElsewhere
  <2>2. QED
    BY <1>0, <1>5, <2>1 DEF MutateElsewhere, TypeOK, catalogue
<1>6. ASSUME NEW p \in Process, NEW d \in shown, NEW change \in Change,
             MutateRead(p, d, change)
      PROVE  TypeOK'
  <2>1. d.cart \in Cart /\ d.revision \in Revision
    BY <1>0 DEF TypeOK, Shown
  <2>2. [pc |-> "mutate", cart |-> d.cart, revision |-> d.revision, change |-> change] \in Call
    BY <2>1 DEF Call
  <2>3. call' \in [Process -> Call]
    BY <1>0, <1>6, <2>2, GotoType DEF MutateRead
  <2>4. QED
    BY <1>0, <1>6, <2>3 DEF MutateRead, TypeOK, catalogue
<1>7. ASSUME NEW p \in Process, NEW c \in Cart, MutateCommit(p, c) PROVE TypeOK'
  <2> DEFINE rows == Changed(items[c], call[p].change, cart[c].revision)
             row == [status |-> "ACTIVE", revision |-> cart[c].revision + 1,
                     promotion |-> IF call[p].change.kind = "promote"
                                   THEN call[p].change.promotion ELSE cart[c].promotion]
  <2>1. rows \in SUBSET Item
    BY <1>0, <1>7, ClaimedRows, ChangedType DEF CartRow
  <2>2. row \in CartRow
    BY <1>7, ClaimedRows DEF CartRow, Change
  <2>3. items' = [items EXCEPT ![c] = rows] /\ cart' = [cart EXCEPT ![c] = row]
    BY <1>7 DEF MutateCommit
  <2>4. call' \in [Process -> Call]
    BY <1>0, <1>7, IdleType, GotoType DEF MutateCommit
  <2> HIDE DEF rows, row
  <2>5. QED
    BY <1>0, <1>7, <2>1, <2>2, <2>3, <2>4 DEF MutateCommit, TypeOK, catalogue
<1>8. ASSUME NEW p \in Process, MutateAnswer(p) PROVE TypeOK'
  <2>1. call' \in [Process -> Call]
    BY <1>0, <1>8, IdleType, GotoType DEF MutateAnswer, Return
  <2>2. shown' \subseteq Shown
    BY <1>0, <1>8, DtoType DEF MutateAnswer, TypeOK, Active
  <2>3. QED
    BY <1>0, <1>8, <2>1, <2>2 DEF MutateAnswer, TypeOK, catalogue
<1>9. ASSUME NEW d \in shown, NEW k \in Key, SubmitReplay(d, k) PROVE TypeOK'
  <2>1. RequestOf(d, k) \in Request
    BY <1>0, ShownRequest DEF TypeOK
  <2>2. answers' \subseteq [request : Request, outcome : Outcome]
    BY <1>0, <1>9, <2>1, ReplayType DEF SubmitReplay
  <2>3. QED
    BY <1>0, <1>9, <2>2 DEF SubmitReplay, TypeOK, catalogue
<1>10. ASSUME NEW p \in Process, NEW d \in shown, NEW k \in Key, SubmitRead(p, d, k)
       PROVE  TypeOK'
  <2>1. RequestOf(d, k) \in Request
    BY <1>0, ShownRequest DEF TypeOK
  <2>2. call' \in [Process -> Call]
    BY <1>0, <1>10, <2>1, RequestType, GotoType DEF SubmitRead
  <2>3. QED
    BY <1>0, <1>10, <2>2 DEF SubmitRead, TypeOK, catalogue
<1>11. ASSUME NEW p \in Process, call[p].pc \in {"submit", "review", "unique"}
       PROVE  call[p].request \in Request
  BY <1>0, <1>11, CallFields DEF TypeOK
<1>12. ASSUME NEW p \in Process, NEW c \in Cart, SubmitCommit(p, c) PROVE TypeOK'
  <2> DEFINE r == call[p].request
             row == [status |-> "CONVERTED", revision |-> cart[c].revision + 1,
                     promotion |-> cart[c].promotion]
             made == [request |-> r, items |-> items[c], promotion |-> cart[c].promotion,
                      price |-> price]
  <2>1. r \in Request /\ r.key \in Key
    BY <1>11, <1>12 DEF SubmitCommit, Request
  <2>2. cart[c] \in CartRow /\ items[c] \in SUBSET Item
    BY <1>0 DEF TypeOK
  <2>3. row \in CartRow
    BY <1>12, <2>2, CartCheckoutAssumption DEF SubmitCommit, CartRow, Revision
  <2>4. made \in Order
    BY <1>0, <2>1, <2>2 DEF Order, CartRow, TypeOK
  <2>5. cart' = [cart EXCEPT ![c] = row] /\ order' = [order EXCEPT ![r.key] = made]
        /\ Answer(r, "READY_FOR_PAYMENT") /\ Return(p)
        /\ UNCHANGED <<items, catalogue, shown>>
    BY <1>12 DEF SubmitCommit
  <2> HIDE DEF r, row, made
  <2>6. answers' \subseteq [request : Request, outcome : Outcome]
    BY <1>0, <2>1, <2>5, AnswerType DEF Outcome
  <2>7. call' \in [Process -> Call]
    BY <1>0, <2>5, IdleType, GotoType DEF Return
  <2>8. QED
    BY <1>0, <2>1, <2>3, <2>4, <2>5, <2>6, <2>7 DEF TypeOK, catalogue
<1>13. ASSUME NEW p \in Process, NEW c \in Cart, SubmitMissed(p, c) PROVE TypeOK'
  <2>1. call' \in [Process -> Call]
    BY <1>0, <1>11, <1>13, RequestType, GotoType DEF SubmitMissed
  <2>2. QED
    BY <1>0, <1>13, <2>1 DEF SubmitMissed, TypeOK, catalogue
<1>14. ASSUME NEW p \in Process, NEW c \in Cart, SubmitUnique(p, c) PROVE TypeOK'
  <2>1. call' \in [Process -> Call]
    BY <1>0, <1>11, <1>14, RequestType, GotoType DEF SubmitUnique
  <2>2. QED
    BY <1>0, <1>14, <2>1 DEF SubmitUnique, TypeOK, catalogue
<1>15. ASSUME NEW p \in Process, SubmitReplayed(p) PROVE TypeOK'
  <2>1. answers' \subseteq [request : Request, outcome : Outcome]
    BY <1>0, <1>11, <1>15, ReplayType DEF SubmitReplayed
  <2>2. call' \in [Process -> Call]
    BY <1>0, <1>15, IdleType, GotoType DEF SubmitReplayed, Return
  <2>3. QED
    BY <1>0, <1>15, <2>1, <2>2 DEF SubmitReplayed, TypeOK, catalogue
<1>16. ASSUME NEW p \in Process, NEW c \in Cart, SubmitReview(p, c) PROVE TypeOK'
  <2>1. cart' \in [Cart -> CartRow] /\ UNCHANGED <<items, catalogue, order>>
    BY <1>0, <1>16, EnsureType DEF SubmitReview
  <2>2. Dto(c)' \in Shown
    BY <1>0, <2>1, NewDtoType DEF TypeOK, catalogue
  <2>3. answers' \subseteq [request : Request, outcome : Outcome]
    BY <1>0, <1>11, <1>16, AnswerType DEF SubmitReview, Outcome
  <2>4. call' \in [Process -> Call]
    BY <1>0, <1>16, IdleType, GotoType DEF SubmitReview, Return
  <2>5. QED
    BY <1>0, <1>16, <2>1, <2>2, <2>3, <2>4 DEF SubmitReview, TypeOK, catalogue
<1>17. ASSUME NEW p \in Process, SubmitThrows(p) PROVE TypeOK'
  <2>1. answers' \subseteq [request : Request, outcome : Outcome]
    BY <1>0, <1>11, <1>17, AnswerType DEF SubmitThrows, Outcome
  <2>2. call' \in [Process -> Call]
    BY <1>0, <1>17, IdleType, GotoType DEF SubmitThrows, Return
  <2>3. QED
    BY <1>0, <1>17, <2>1, <2>2 DEF SubmitThrows, TypeOK, catalogue
<1>18. CASE UNCHANGED vars
  BY <1>0, <1>18 DEF vars, TypeOK
<1>19. QED
  BY <1>1, <1>2, <1>3, <1>4, <1>5, <1>6, <1>7, <1>8, <1>9, <1>10, <1>12, <1>13,
     <1>14, <1>15, <1>16, <1>17, <1>18 DEF Next, Mutate, Submit

-----------------------------------------------------------------------------
(* What a step does to carts, orders and the customer's view *)

\* A cart is made, or moves on by one revision, or stays as it is.
LEMMA CartSteps ==
    ASSUME CartInv, [Next]_vars, NEW c \in Cart
    PROVE  \/ cart'[c] = cart[c] /\ items'[c] = items[c]
           \/ /\ cart[c].status = "NONE" /\ cart'[c].status = "ACTIVE"
              /\ cart'[c].revision = cart[c].revision /\ items'[c] = items[c]
           \/ /\ cart[c].status = "ACTIVE" /\ cart'[c].status # "NONE"
              /\ cart'[c].revision = cart[c].revision + 1
<1>0. TypeOK
  BY DEF CartInv
<1>1. ASSUME NEW other \in Cart, Ensure(other), UNCHANGED items
      PROVE  \/ cart'[c] = cart[c] /\ items'[c] = items[c]
             \/ /\ cart[c].status = "NONE" /\ cart'[c].status = "ACTIVE"
                /\ cart'[c].revision = cart[c].revision /\ items'[c] = items[c]
  BY <1>0, <1>1, EnsureType
<1>2. ASSUME NEW p \in Process, NEW other \in Cart,
             MutateCommit(p, other) \/ SubmitCommit(p, other)
      PROVE  \/ cart'[c] = cart[c] /\ items'[c] = items[c]
             \/ /\ cart[c].status = "ACTIVE" /\ cart'[c].status # "NONE"
                /\ cart'[c].revision = cart[c].revision + 1
  BY <1>0, <1>2 DEF MutateCommit, MutationClaims, SubmitCommit, CheckoutClaims, TypeOK
<1>3. CASE UNCHANGED <<cart, items>>
  BY <1>3
<1>4. QED
  BY <1>1, <1>2, <1>3 DEF Next, vars, Mutate, Submit, Abandon, SetPrice, SwitchPromotion,
     GetCart, MutateElsewhere, MutateRead, MutateAnswer, SubmitReplay, SubmitRead,
     SubmitMissed, SubmitUnique, SubmitReplayed, SubmitReview, SubmitThrows

\* A revision that is over does not come back, and one that stands is the same.
LEMMA RevisionsStand ==
    ASSUME CartInv, [Next]_vars, NEW c \in Cart, NEW n \in Revision, Reached(c, n)
    PROVE  /\ Reached(c, n)'
           /\ Current(c, n)' => Current(c, n) /\ cart'[c] = cart[c] /\ items'[c] = items[c]
<1>1. cart[c].revision \in Nat /\ n \in Nat
  BY CartCheckoutAssumption DEF CartInv, TypeOK, CartRow, Revision
<1>2. QED
  BY <1>1, CartSteps DEF Reached, Current

LEMMA DoomedStands ==
    ASSUME CartInv, [Next]_vars, NEW r \in Request, Doomed(r)
    PROVE  Doomed(r)'
<1>1. r.cart \in Cart /\ r.revision \in Revision
  BY DEF Request
<1>2. /\ Reached(r.cart, r.revision)'
      /\ Current(r.cart, r.revision)' =>
            Current(r.cart, r.revision) /\ items'[r.cart] = items[r.cart]
  BY <1>1, RevisionsStand DEF Doomed
<1>3. QED
  BY <1>2 DEF Doomed, ReservationsDistinct

LEMMA ViewGrows ==
    ASSUME [Next]_vars
    PROVE  shown \subseteq shown' /\ answers \subseteq answers'
BY DEF Next, vars, Mutate, Submit, Abandon, SetPrice, SwitchPromotion, GetCart,
   MutateElsewhere, MutateRead, MutateCommit, MutateAnswer, SubmitReplay, SubmitRead,
   SubmitCommit, SubmitMissed, SubmitUnique, SubmitReplayed, SubmitReview, SubmitThrows,
   Replay, Answer

\* An order is made of a claimed cart and never changes.
LEMMA OrderSteps ==
    ASSUME CartInv, [Next]_vars, NEW k \in Key
    PROVE  \/ order'[k] = order[k]
           \/ \E p \in Process, c \in Cart :
                /\ SubmitCommit(p, c) /\ call[p].request.key = k
                /\ order[k] = NoOrder
<1>1. ASSUME NEW p \in Process, NEW c \in Cart, SubmitCommit(p, c)
      PROVE  \/ order'[k] = order[k]
             \/ call[p].request.key = k /\ order[k] = NoOrder
  BY <1>1 DEF SubmitCommit, CartInv, TypeOK
<1>2. CASE UNCHANGED order
  BY <1>2
<1>3. QED
  BY <1>1, <1>2 DEF Next, vars, Mutate, Submit, Abandon, SetPrice, SwitchPromotion,
     GetCart, MutateElsewhere, MutateRead, MutateCommit, MutateAnswer, SubmitReplay,
     SubmitRead, SubmitMissed, SubmitUnique, SubmitReplayed, SubmitReview, SubmitThrows

\* A checkout's commit: the cart it claimed, and the order it makes of it.
LEMMA CommitFacts ==
    ASSUME CartInv, NEW p \in Process, NEW c \in Cart, SubmitCommit(p, c),
           NEW r, r = call[p].request
    PROVE  /\ r \in Request /\ r.cart = c /\ r.key \in Key
           /\ Current(c, r.revision) /\ ~Doomed(r) /\ WasShown(r)
           /\ order[r.key] = NoOrder
           /\ order'[r.key] = [request |-> r, items |-> items[c],
                               promotion |-> cart[c].promotion, price |-> price]
           /\ order'[r.key] # NoOrder
           /\ cart'[c].status = "CONVERTED" /\ cart'[c].revision = r.revision + 1
           /\ \A other \in Cart \ {c} : cart'[other] = cart[other]
           /\ items' = items
           /\ answers' = answers \union
                {[request |-> r, outcome |-> "READY_FOR_PAYMENT"]}
<1>1. TypeOK /\ CallFacts(call[p])
  BY DEF CartInv
<1>2. r \in Request /\ r.key \in Key
  BY <1>1, CallFields DEF SubmitCommit, TypeOK, Request
<1>3. /\ r.cart = c /\ Current(c, r.revision) /\ ~Doomed(r) /\ WasShown(r)
      /\ order[r.key] = NoOrder /\ items' = items
      /\ answers' = answers \union {[request |-> r, outcome |-> "READY_FOR_PAYMENT"]}
  BY <1>1 DEF SubmitCommit, CheckoutClaims, Current, Doomed, CallFacts, Answer
<1>4. order'[r.key] = [request |-> r, items |-> items[c],
                      promotion |-> cart[c].promotion, price |-> price]
  BY <1>1, <1>2 DEF SubmitCommit, TypeOK
<1>5. order'[r.key] # NoOrder
  <2>1. cart[c] \in CartRow /\ items[c] \in SUBSET Item /\ price \in [Variant -> Price]
    BY <1>1 DEF TypeOK
  <2>2. order'[r.key] \in Order
    BY <1>2, <1>4, <2>1 DEF Order, CartRow
  <2>3. QED
    BY <2>2, NoOrderAssumption
<1>6. /\ cart'[c].status = "CONVERTED" /\ cart'[c].revision = r.revision + 1
      /\ \A other \in Cart \ {c} : cart'[other] = cart[other]
  BY <1>1, <1>3 DEF SubmitCommit, Current, TypeOK
<1>7. QED
  BY <1>2, <1>3, <1>4, <1>5, <1>6

-----------------------------------------------------------------------------
(* The customer's view and the calls *)

LEMMA NextShownFacts ==
    ASSUME CartInv, [Next]_vars
    PROVE  \A d \in shown' : ShownFacts(d)'
<1>0. TypeOK /\ TypeOK'
  BY NextTypeOK DEF CartInv
<1>1. ASSUME NEW d \in shown PROVE ShownFacts(d)'
  <2>1. d.cart \in Cart /\ d.revision \in Revision /\ ShownFacts(d)
    BY <1>0 DEF CartInv, TypeOK, Shown
  <2>2. QED
    BY <2>1, RevisionsStand DEF ShownFacts
<1>2. ASSUME NEW d \in shown', NEW c \in Cart, d = Dto(c)', cart'[c].status = "ACTIVE"
      PROVE  ShownFacts(d)'
  <2>1. d.cart = c /\ d.revision = cart'[c].revision /\ d.items = items'[c]
        /\ d.promotion = cart'[c].promotion
    BY <1>2 DEF Dto
  <2>2. cart'[c].revision \in Nat
    BY <1>0, CartCheckoutAssumption DEF TypeOK, CartRow, Revision
  <2>3. QED
    BY <1>2, <2>1, <2>2 DEF ShownFacts, Reached, Current
<1>3. ASSUME NEW d \in shown'
      PROVE  d \in shown \/ \E c \in Cart : d = Dto(c)' /\ cart'[c].status = "ACTIVE"
  <2>1. ASSUME NEW c \in Cart, Ensure(c), shown' = shown \union {Dto(c)'}
        PROVE  d \in shown \/ (d = Dto(c)' /\ cart'[c].status = "ACTIVE")
    BY <1>0, <1>3, <2>1, EnsureType
  <2>2. ASSUME NEW p \in Process, MutateAnswer(p)
        PROVE  d \in shown \/ \E c \in Cart : d = Dto(c)' /\ cart'[c].status = "ACTIVE"
    BY <1>3, <2>2 DEF MutateAnswer, Active, Dto, catalogue
  <2>3. CASE UNCHANGED shown
    BY <1>3, <2>3
  <2>4. QED
    BY <2>1, <2>2, <2>3 DEF Next, vars, Mutate, Submit, Abandon, SetPrice,
       SwitchPromotion, GetCart, MutateElsewhere, MutateRead, MutateCommit,
       SubmitReplay, SubmitRead, SubmitCommit, SubmitMissed, SubmitUnique,
       SubmitReplayed, SubmitReview, SubmitThrows
<1>4. QED
  BY <1>1, <1>2, <1>3

\* What a waiting request knows outlives the steps of the others.
LEMMA CallFactsStand ==
    ASSUME CartInv, [Next]_vars, NEW c \in Call, CallFacts(c)
    PROVE  CallFacts(c)'
<1>1. CASE c.pc = "mutate"
  <2>1. c.cart \in Cart /\ c.revision \in Revision /\ Reached(c.cart, c.revision)
    BY <1>1, CallFields DEF CallFacts
  <2>2. /\ Reached(c.cart, c.revision)'
        /\ Current(c.cart, c.revision)' =>
                Current(c.cart, c.revision) /\ items'[c.cart] = items[c.cart]
    BY <2>1, RevisionsStand
  <2>3. QED
    BY <1>1, <2>2 DEF CallFacts, AddFacts, FitsLimit
<1>2. CASE c.pc \in {"submit", "review", "unique"}
  <2>1. c.request \in Request /\ c.request.key \in Key
    BY <1>2, CallFields DEF Request
  <2>2. WasShown(c.request)'
    BY <1>2, ViewGrows DEF CallFacts, WasShown
  <2>3. Doomed(c.request) => Doomed(c.request)'
    BY <2>1, DoomedStands
  <2>4. order[c.request.key] # NoOrder => order'[c.request.key] # NoOrder
    BY <2>1, OrderSteps
  <2>5. QED
    BY <1>2, <2>2, <2>3, <2>4 DEF CallFacts
<1>3. CASE c.pc \notin {"mutate", "submit", "review", "unique"}
  BY <1>3 DEF CallFacts
<1>4. QED
  BY <1>1, <1>2, <1>3

LEMMA GotoFacts ==
    ASSUME CartInv, [Next]_vars, NEW p \in Process, NEW c, Goto(p, c), CallFacts(c)',
           NEW q \in Process
    PROVE  CallFacts(call[q])'
<1>1. call'[q] = IF q = p THEN c ELSE call[q]
  BY DEF CartInv, TypeOK, Goto
<1>2. CallFacts(call[q]) /\ call[q] \in Call
  BY DEF CartInv, TypeOK
<1>3. CASE q = p
  <2>1. call'[q] = c
    BY <1>1, <1>3
  <2>2. QED
    BY <2>1 DEF CallFacts
<1>4. CASE q # p
  <2>1. call'[q] = call[q]
    BY <1>1, <1>4
  <2> DEFINE k == call[q]
  <2>2. \A x \in Call : CallFacts(x) => CallFacts(x)'
    BY CallFactsStand
  <2>3. QED
    BY <1>2, <2>1, <2>2 DEF CallFacts
<1>5. QED
  BY <1>3, <1>4

LEMMA NextCallFacts ==
    ASSUME CartInv, [Next]_vars, NEW q \in Process
    PROVE  CallFacts(call[q])'
<1>0. TypeOK
  BY DEF CartInv
<1>1. ASSUME NEW p \in Process, Return(p) \/ Goto(p, [pc |-> "answer"])
      PROVE  CallFacts(call[q])'
  <2>1. CallFacts(Idle)' /\ CallFacts([pc |-> "answer"])'
    BY DEF CallFacts, Idle
  <2>2. QED
    BY <1>1, <2>1, GotoFacts DEF Return
<1>2. CASE UNCHANGED call
  <2>1. call[q] \in Call /\ CallFacts(call[q])
    BY <1>0 DEF TypeOK, CartInv
  <2>2. \A x \in Call : CallFacts(x) => CallFacts(x)'
    BY CallFactsStand
  <2>3. QED
    BY <1>2, <2>1, <2>2 DEF CallFacts
<1>3. ASSUME NEW p \in Process, NEW d \in shown, NEW change \in Change,
             MutateRead(p, d, change)
      PROVE  CallFacts(call[q])'
  <2> DEFINE c == [pc |-> "mutate", cart |-> d.cart, revision |-> d.revision,
                   change |-> change]
  <2>1. /\ cart[d.cart].status = "ACTIVE" /\ cart[d.cart].revision = d.revision
        /\ Acceptable(items[d.cart], change)
        /\ UNCHANGED <<cart, items>>
    BY <1>3 DEF MutateRead, Active
  <2>2. d.revision <= d.revision
    BY <1>0, CartCheckoutAssumption DEF TypeOK, Shown, Revision
  <2>3. Reached(d.cart, d.revision)' /\ AddFacts(items[d.cart], change)'
    BY <2>1, <2>2 DEF Reached, Acceptable, AddFacts, FitsLimit
  <2>4. CallFacts(c)'
    BY <2>3 DEF CallFacts
  <2>5. Goto(p, c)
    BY <1>3 DEF MutateRead
  <2>6. QED
    BY <2>4, <2>5, GotoFacts
<1>4. ASSUME NEW p \in Process, NEW d \in shown, NEW k \in Key, SubmitRead(p, d, k)
      PROVE  CallFacts(call[q])'
  <2> DEFINE c == [pc |-> "submit", request |-> RequestOf(d, k)]
  <2>1. WasShown(RequestOf(d, k))'
    BY ViewGrows DEF WasShown, RequestOf
  <2>2. CallFacts(c)'
    BY <2>1 DEF CallFacts
  <2>3. Goto(p, c)
    BY <1>4 DEF SubmitRead
  <2>4. QED
    BY <2>2, <2>3, GotoFacts
<1>5. ASSUME NEW p \in Process, NEW r, r = call[p].request, call[p].pc = "submit"
      PROVE  /\ WasShown(r)'
             /\ Reached(r.cart, r.revision)
             /\ Doomed(r) => Doomed(r)'
             /\ r.key \in Key
  <2>1. call[p] \in Call /\ CallFacts(call[p])
    BY <1>0 DEF TypeOK, CartInv
  <2>2. r \in Request /\ WasShown(r)
    BY <1>5, <2>1, CallFields DEF CallFacts
  <2>3. Reached(r.cart, r.revision)
    BY <2>2 DEF WasShown, CartInv, ShownFacts
  <2>4. WasShown(r)'
    BY <2>2, ViewGrows DEF WasShown
  <2>5. Doomed(r) => Doomed(r)'
    BY <2>2, DoomedStands
  <2>6. QED
    BY <2>2, <2>3, <2>4, <2>5 DEF Request
<1>6. ASSUME NEW p \in Process, NEW o \in Cart, SubmitMissed(p, o)
      PROVE  CallFacts(call[q])'
  <2>1. PICK r : r = call[p].request
    OBVIOUS
  <2> DEFINE c == [pc |-> "review", request |-> r]
  <2>2. call[p].pc = "submit" /\ r.cart = o
        /\ (~Current(o, r.revision) \/ items[o] = {})
    BY <1>6, <2>1 DEF SubmitMissed, CheckoutClaims, Current
  <2>3. Doomed(r)
    BY <1>5, <2>1, <2>2 DEF Doomed
  <2>4. Doomed(r)' /\ WasShown(r)'
    BY <1>5, <2>1, <2>2, <2>3
  <2>5. CallFacts(c)'
    BY <2>4 DEF CallFacts
  <2>6. Goto(p, c)
    BY <1>6, <2>1 DEF SubmitMissed
  <2>7. QED
    BY <2>5, <2>6, GotoFacts
<1>7. ASSUME NEW p \in Process, NEW o \in Cart, SubmitUnique(p, o)
      PROVE  CallFacts(call[q])'
  <2>1. PICK r : r = call[p].request
    OBVIOUS
  <2> DEFINE c == [pc |-> "unique", request |-> r]
  <2>2. call[p].pc = "submit" /\ r.cart = o /\ order' = order
        /\ (order[r.key] # NoOrder \/ ~ReservationsDistinct(items[o]))
    BY <1>7, <2>1 DEF SubmitUnique
  <2>3. order[r.key] # NoOrder \/ Doomed(r)
    BY <1>5, <2>1, <2>2 DEF Doomed
  <2>4. (order'[r.key] # NoOrder \/ Doomed(r)') /\ WasShown(r)'
    BY <1>5, <2>1, <2>2, <2>3
  <2>5. CallFacts(c)'
    BY <2>4 DEF CallFacts
  <2>6. Goto(p, c)
    BY <1>7, <2>1 DEF SubmitUnique
  <2>7. QED
    BY <2>5, <2>6, GotoFacts
<1>8. QED
  BY <1>1, <1>2, <1>3, <1>4, <1>6, <1>7 DEF Next, vars, Mutate, Submit, Abandon,
     SetPrice, SwitchPromotion, GetCart, MutateElsewhere, MutateCommit, MutateAnswer,
     SubmitReplay, SubmitCommit, SubmitReplayed, SubmitReview, SubmitThrows

-----------------------------------------------------------------------------
(* Lines *)

\* A mutation keeps one row for a line, and its new row has a new id.
LEMMA ChangedLines ==
    ASSUME NEW rows \in SUBSET Item, NEW change \in Change, AddFacts(rows, change),
           NEW claimed \in Revision, \A i \in rows : i.id < claimed,
           \A i, j \in rows : i.line = j.line \/ i.id = j.id => i = j
    PROVE  /\ \A i, j \in Changed(rows, change, claimed) :
                    i.line = j.line \/ i.id = j.id => i = j
           /\ \A i \in Changed(rows, change, claimed) : i.id < claimed + 1
<1>0. \A i \in rows : i.id < claimed + 1 /\ i.id # claimed
  BY CartCheckoutAssumption DEF Item, Revision
<1>2. CASE change.kind = "add" /\ \A i \in rows : i.id # change.id
  <2> DEFINE new == [id |-> claimed, line |-> change.line, quantity |-> change.quantity]
  <2>1. \A i \in rows : i.line # change.line
    BY <1>2 DEF AddFacts
  <2>2. Changed(rows, change, claimed) = rows \union {new}
    BY <1>2 DEF Changed
  <2>3. new.id = claimed /\ new.line = change.line
    OBVIOUS
  <2>4. claimed < claimed + 1
    BY CartCheckoutAssumption DEF Revision
  <2> HIDE DEF new
  <2>5. QED
    BY <1>0, <2>1, <2>2, <2>3, <2>4
<1>3. CASE change.kind = "add" /\ \E i \in rows : i.id = change.id
  <2> DEFINE f(i) == IF i.id = change.id
                     THEN [i EXCEPT !.quantity = @ + change.quantity] ELSE i
  <2>1. \A i \in rows : f(i).line = i.line /\ f(i).id = i.id
    BY DEF Item
  <2>2. Changed(rows, change, claimed) = {f(i) : i \in rows}
    BY <1>3 DEF Changed
  <2> HIDE DEF f
  <2>3. QED
    BY <1>0, <2>1, <2>2
<1>4. CASE change.kind = "set"
  <2> DEFINE f(i) == IF i.id = change.id
                     THEN [i EXCEPT !.quantity = change.quantity] ELSE i
  <2>1. \A i \in rows : f(i).line = i.line /\ f(i).id = i.id
    BY DEF Item
  <2>2. Changed(rows, change, claimed) = {f(i) : i \in rows}
    BY <1>4 DEF Changed
  <2> HIDE DEF f
  <2>3. QED
    BY <1>0, <2>1, <2>2
<1>5. CASE change.kind \in {"remove", "promote"}
  <2>1. Changed(rows, change, claimed) \subseteq rows
    BY <1>5 DEF Changed
  <2>2. QED
    BY <1>0, <2>1
<1>6. QED
  BY <1>2, <1>3, <1>4, <1>5 DEF Change

LEMMA NextLines ==
    ASSUME CartInv, [Next]_vars
    PROVE  LinesAreMerged' /\ \A c \in Cart : ItemFacts(c)'
<1>0. TypeOK /\ LinesAreMerged /\ \A c \in Cart : ItemFacts(c)
  BY DEF CartInv
<1>1. ASSUME NEW c \in Cart
      PROVE  /\ \A i, j \in items'[c] : i.line = j.line \/ i.id = j.id => i = j
             /\ \A i \in items'[c] : i.id < cart'[c].revision
  <2>1. ASSUME NEW p \in Process, MutateCommit(p, c)
        PROVE  /\ \A i, j \in items'[c] : i.line = j.line \/ i.id = j.id => i = j
               /\ \A i \in items'[c] : i.id < cart'[c].revision
    <3>1. items'[c] = Changed(items[c], call[p].change, cart[c].revision)
          /\ cart'[c].revision = cart[c].revision + 1
      BY <1>0, <2>1 DEF MutateCommit, TypeOK
    <3>2. /\ items[c] \in SUBSET Item /\ call[p].change \in Change
          /\ AddFacts(items[c], call[p].change) /\ cart[c].revision \in Revision
      BY <2>1, ClaimedRows DEF CartRow
    <3>3. /\ \A i \in items[c] : i.id < cart[c].revision
          /\ \A i, j \in items[c] : i.line = j.line \/ i.id = j.id => i = j
      BY <1>0 DEF ItemFacts, LinesAreMerged
    <3>4. QED
      BY <3>1, <3>2, <3>3, ChangedLines
  <2>2. CASE items'[c] = items[c]
    <3>1. items[c] \in SUBSET Item /\ cart[c].revision \in Nat
          /\ \A i \in items[c] : i.id \in Nat
      BY <1>0, CartCheckoutAssumption DEF TypeOK, CartRow, Item, Revision
    <3>2. cart'[c].revision = cart[c].revision \/ cart'[c].revision = cart[c].revision + 1
      BY CartSteps
    <3>3. QED
      BY <1>0, <2>2, <3>1, <3>2 DEF LinesAreMerged, ItemFacts
  <2>3. ASSUME NEW p \in Process, NEW other \in Cart, other # c, MutateCommit(p, other)
        PROVE  items'[c] = items[c]
    BY <1>0, <2>3 DEF MutateCommit, TypeOK
  <2>4. QED
    BY <2>1, <2>2, <2>3 DEF Next, vars, Mutate, Submit, Abandon, SetPrice,
       SwitchPromotion, GetCart, MutateElsewhere, MutateRead, MutateAnswer,
       SubmitReplay, SubmitRead, SubmitCommit, SubmitMissed, SubmitUnique,
       SubmitReplayed, SubmitReview, SubmitThrows
<1>2. QED
  BY <1>1 DEF LinesAreMerged, ItemFacts

-----------------------------------------------------------------------------
(* Orders *)

LEMMA NextOrdered ==
    ASSUME CartInv, [Next]_vars
    PROVE  OrderedAsShown'
<1> SUFFICES ASSUME NEW k \in Key, order'[k] # NoOrder
             PROVE  \E d \in shown' :
                        /\ d.cart = order'[k].request.cart
                        /\ d.revision = order'[k].request.revision
                        /\ d.items = order'[k].items /\ d.promotion = order'[k].promotion
  BY DEF OrderedAsShown
<1>1. CASE order'[k] = order[k]
  BY <1>1, ViewGrows DEF CartInv, OrderedAsShown
<1>2. ASSUME NEW p \in Process, NEW c \in Cart, SubmitCommit(p, c),
             call[p].request.key = k
      PROVE  \E d \in shown' :
                /\ d.cart = order'[k].request.cart
                /\ d.revision = order'[k].request.revision
                /\ d.items = order'[k].items /\ d.promotion = order'[k].promotion
  <2>0. PICK r : r = call[p].request
    OBVIOUS
  <2>1. /\ r.cart = c /\ Current(c, r.revision) /\ WasShown(r)
        /\ order'[k] = [request |-> r, items |-> items[c],
                        promotion |-> cart[c].promotion, price |-> price]
    BY <1>2, <2>0, CommitFacts
  <2>2. PICK d \in shown : d.cart = c /\ d.revision = r.revision
    BY <2>1 DEF WasShown
  <2>3. d.items = items[c] /\ d.promotion = cart[c].promotion
    BY <2>1, <2>2 DEF CartInv, ShownFacts
  <2>4. QED
    BY <2>1, <2>2, <2>3, ViewGrows
<1>3. QED
  BY <1>1, <1>2, OrderSteps

LEMMA NextOrders ==
    ASSUME CartInv, [Next]_vars
    PROVE  OrderTakesCart'
<1> DEFINE Takes(k) == LET c == order[k].request.cart IN
               /\ cart[c].status = "CONVERTED"
               /\ cart[c].revision = order[k].request.revision + 1
               /\ items[c] = order[k].items
<1>0. TypeOK /\ OrderTakesCart
  BY DEF CartInv
<1>1. ASSUME NEW k \in Key, order[k] # NoOrder
      PROVE  /\ order[k].request.cart \in Cart /\ Takes(k)
             /\ order'[k] = order[k]
             /\ LET c == order[k].request.cart IN cart'[c] = cart[c] /\ items'[c] = items[c]
  <2>1. order[k].request.cart \in Cart
    BY <1>0, <1>1 DEF TypeOK, Order, Request
  <2>2. Takes(k)
    BY <1>0, <1>1 DEF OrderTakesCart
  <2>3. order'[k] = order[k]
    BY <1>1, OrderSteps
  <2>4. QED
    BY <2>1, <2>2, <2>3, CartSteps
<1>2. ASSUME NEW k \in Key, order'[k] # NoOrder, NEW other \in Key \ {k},
             order'[other] # NoOrder
      PROVE  order'[other].request.cart # order'[k].request.cart
  <2>1. ASSUME NEW x \in Key, NEW y \in Key, x # y, order[x] # NoOrder,
               NEW p \in Process, NEW c \in Cart, SubmitCommit(p, c),
               call[p].request.key = y
        PROVE  order'[x].request.cart # order'[y].request.cart
    <3>0. PICK r : r = call[p].request
      OBVIOUS
    <3>1. order'[y].request.cart = c /\ cart[c].status = "ACTIVE"
      <4>1. r.key = y
        BY <2>1, <3>0
      <4>2. /\ r.cart = c /\ Current(c, r.revision)
            /\ order'[r.key] = [request |-> r, items |-> items[c],
                                promotion |-> cart[c].promotion, price |-> price]
        BY <2>1, <3>0, CommitFacts
      <4>3. QED
        BY <4>1, <4>2 DEF Current
    <3>2. order'[x] = order[x] /\ cart[order[x].request.cart].status = "CONVERTED"
      BY <1>1, <2>1
    <3>3. QED
      BY <3>1, <3>2
  <2>2. CASE order[k] # NoOrder /\ order[other] # NoOrder
    BY <1>0, <1>1, <1>2, <2>2 DEF OrderTakesCart
  <2>3. CASE order[k] # NoOrder /\ order[other] = NoOrder
    <3>1. PICK p \in Process, c \in Cart : SubmitCommit(p, c) /\ call[p].request.key = other
      BY <1>2, <2>3, OrderSteps
    <3>2. QED
      BY <1>2, <2>1, <2>3, <3>1
  <2>4. CASE order[k] = NoOrder
    <3>1. PICK p \in Process, c \in Cart : SubmitCommit(p, c) /\ call[p].request.key = k
      BY <1>2, <2>4, OrderSteps
    <3>2. order[other] # NoOrder
      <4>1. other # call[p].request.key
        BY <1>2, <3>1
      <4>2. order'[other] = order[other]
        BY <1>0, <3>1, <4>1 DEF SubmitCommit, TypeOK
      <4>3. QED
        BY <1>2, <4>2
    <3>3. QED
      BY <1>2, <2>1, <3>1, <3>2
  <2>5. QED
    BY <2>2, <2>3, <2>4
<1>3. ASSUME NEW k \in Key, order'[k] # NoOrder
      PROVE  LET c == order'[k].request.cart IN
             /\ cart'[c].status = "CONVERTED"
             /\ cart'[c].revision = order'[k].request.revision + 1
             /\ items'[c] = order'[k].items
  <2>1. CASE order[k] # NoOrder
    BY <1>1, <2>1
  <2>2. CASE order[k] = NoOrder
    <3>1. PICK p \in Process, c \in Cart : SubmitCommit(p, c) /\ call[p].request.key = k
      BY <1>3, <2>2, OrderSteps
    <3>2. PICK r : r = call[p].request
      OBVIOUS
    <3>3. /\ r.key = k /\ r.cart = c /\ order'[k].request = r /\ order'[k].items = items[c]
          /\ cart'[c].status = "CONVERTED" /\ cart'[c].revision = r.revision + 1
          /\ items' = items
      <4>1. r.key = k
        BY <3>1, <3>2
      <4>2. /\ r.cart = c /\ items' = items
            /\ order'[r.key] = [request |-> r, items |-> items[c],
                                promotion |-> cart[c].promotion, price |-> price]
            /\ cart'[c].status = "CONVERTED" /\ cart'[c].revision = r.revision + 1
        BY <3>1, <3>2, CommitFacts
      <4>3. QED
        BY <4>1, <4>2
    <3>4. QED
      BY <3>3
  <2>3. QED
    BY <2>1, <2>2
<1>4. QED
  BY <1>2, <1>3 DEF OrderTakesCart

-----------------------------------------------------------------------------
(* Answers *)

\* AnswersStayTrue for one answer.
True(a) ==
    LET k == a.request.key IN
    /\ a.outcome = "READY_FOR_PAYMENT" => order[k] # NoOrder /\ order[k].request = a.request
    /\ a.outcome = "CHECKOUT_CONFLICT" => order[k] # NoOrder /\ order[k].request # a.request
    /\ a.outcome \notin {"READY_FOR_PAYMENT", "CHECKOUT_CONFLICT"} =>
            order[k] = NoOrder \/ order[k].request # a.request

LEMMA AnswersAreTrue == AnswersStayTrue <=> \A a \in answers : True(a)
BY DEF AnswersStayTrue, True

LEMMA AnswersStand ==
    ASSUME CartInv, [Next]_vars, NEW a \in answers
    PROVE  True(a)' /\ AnswerFacts(a)'
<1>1. a.request \in Request /\ a.request.key \in Key /\ a.outcome \in Outcome
      /\ True(a) /\ AnswerFacts(a)
  BY AnswersAreTrue DEF CartInv, TypeOK, Request
<1>2. AnswerFacts(a)'
  BY <1>1, DoomedStands DEF AnswerFacts
<1>3. CASE order'[a.request.key] = order[a.request.key]
  BY <1>1, <1>2, <1>3 DEF True
<1>4. ASSUME NEW p \in Process, NEW c \in Cart, SubmitCommit(p, c),
             call[p].request.key = a.request.key, order[a.request.key] = NoOrder
      PROVE  True(a)'
  <2>0. PICK r : r = call[p].request
    OBVIOUS
  <2>1. order'[a.request.key].request = r /\ ~Doomed(r)
    <3>1. r.key = a.request.key
      BY <1>4, <2>0
    <3>2. /\ order'[r.key] = [request |-> r, items |-> items[c],
                              promotion |-> cart[c].promotion, price |-> price]
          /\ ~Doomed(r)
      BY <1>4, <2>0, CommitFacts
    <3>3. QED
      BY <3>1, <3>2
  <2>2. Doomed(a.request) /\ a.outcome \notin {"READY_FOR_PAYMENT", "CHECKOUT_CONFLICT"}
    BY <1>1, <1>4 DEF True, AnswerFacts, Outcome
  <2>3. order'[a.request.key].request # a.request
    BY <2>1, <2>2
  <2>4. QED
    BY <2>2, <2>3 DEF True
<1>5. QED
  BY <1>1, <1>2, <1>3, <1>4, OrderSteps

LEMMA NextAnswers ==
    ASSUME CartInv, [Next]_vars
    PROVE  \A a \in answers' : True(a)' /\ AnswerFacts(a)'
<1>0. TypeOK
  BY DEF CartInv
<1>1. ASSUME NEW a \in answers', NEW r, NEW k \in Key, r.key = k, order[k] # NoOrder,
             order' = order, Replay(k, r)
      PROVE  True(a)' /\ AnswerFacts(a)'
  <2>1. CASE a \in answers
    BY <2>1, AnswersStand
  <2>2. CASE a \notin answers
    <3>1. a = [request |-> r, outcome |-> IF SameRequest(k, r) THEN "READY_FOR_PAYMENT"
                                                              ELSE "CHECKOUT_CONFLICT"]
      BY <1>1, <2>2 DEF Replay, Answer
    <3>2. QED
      BY <1>1, <3>1 DEF True, AnswerFacts, SameRequest
  <2>3. QED
    BY <2>1, <2>2
<1>2. ASSUME NEW a \in answers', NEW p \in Process, NEW c \in Cart, SubmitCommit(p, c)
      PROVE  True(a)' /\ AnswerFacts(a)'
  <2>1. CASE a \in answers
    BY <2>1, AnswersStand
  <2>2. CASE a \notin answers
    <3>1. PICK r : r = call[p].request
      OBVIOUS
    <3>2. a = [request |-> r, outcome |-> "READY_FOR_PAYMENT"]
          /\ order'[r.key].request = r /\ order'[r.key] # NoOrder
      <4>1. /\ order'[r.key] = [request |-> r, items |-> items[c],
                                promotion |-> cart[c].promotion, price |-> price]
            /\ order'[r.key] # NoOrder
            /\ answers' = answers \union
                  {[request |-> r, outcome |-> "READY_FOR_PAYMENT"]}
        BY <1>2, <3>1, CommitFacts
      <4>2. QED
        BY <1>2, <2>2, <4>1
    <3>3. QED
      BY <3>2 DEF True, AnswerFacts
  <2>3. QED
    BY <2>1, <2>2
<1>3. ASSUME NEW a \in answers', NEW p \in Process, NEW r, r = call[p].request,
             NEW outcome \in {"REQUIRES_CART_REVIEW", "EXCEPTION"},
             Answer(r, outcome), order' = order, order[r.key] = NoOrder,
             call[p].pc \in {"review", "unique"}
      PROVE  True(a)' /\ AnswerFacts(a)'
  <2>1. CASE a \in answers
    BY <2>1, AnswersStand
  <2>2. CASE a \notin answers
    <3>1. a = [request |-> r, outcome |-> outcome]
      BY <1>3, <2>2 DEF Answer
    <3>2. Doomed(r) /\ r \in Request
      <4>1. CallFacts(call[p]) /\ call[p] \in Call
        BY <1>0 DEF CartInv, TypeOK
      <4>2. QED
        BY <1>3, <4>1, CallFields DEF CallFacts
    <3>3. Doomed(r)'
      BY <3>2, DoomedStands
    <3>4. QED
      BY <1>3, <3>1, <3>3 DEF True, AnswerFacts
  <2>3. QED
    BY <2>1, <2>2
<1>4. ASSUME NEW a \in answers', UNCHANGED answers
      PROVE  True(a)' /\ AnswerFacts(a)'
  BY <1>4, AnswersStand
<1>5. ASSUME NEW a \in answers', NEW d \in shown, NEW k \in Key, SubmitReplay(d, k)
      PROVE  True(a)' /\ AnswerFacts(a)'
  <2>1. PICK r : r = RequestOf(d, k)
    OBVIOUS
  <2>2. r.key = k /\ order[k] # NoOrder /\ order' = order /\ Replay(k, r)
    BY <1>5, <2>1 DEF SubmitReplay, RequestOf
  <2>3. QED
    BY <1>1, <2>2
<1>6. ASSUME NEW a \in answers', NEW p \in Process, SubmitReplayed(p)
      PROVE  True(a)' /\ AnswerFacts(a)'
  <2>1. PICK r : r = call[p].request
    OBVIOUS
  <2>2. r.key \in Key
    BY <1>0, <1>6, <2>1, CallFields DEF SubmitReplayed, TypeOK, Request
  <2>3. order[r.key] # NoOrder /\ order' = order /\ Replay(r.key, r)
    BY <1>6, <2>1 DEF SubmitReplayed, Replayed
  <2>4. QED
    BY <1>1, <2>2, <2>3
<1>7. ASSUME NEW a \in answers', NEW p \in Process, NEW c \in Cart, SubmitReview(p, c)
      PROVE  True(a)' /\ AnswerFacts(a)'
  <2>1. PICK r : r = call[p].request
    OBVIOUS
  <2>2. /\ Answer(r, "REQUIRES_CART_REVIEW") /\ order' = order
        /\ order[r.key] = NoOrder /\ call[p].pc = "review"
    BY <1>7, <2>1 DEF SubmitReview, Replayed
  <2>3. QED
    BY <1>3, <2>1, <2>2
<1>8. ASSUME NEW a \in answers', NEW p \in Process, SubmitThrows(p)
      PROVE  True(a)' /\ AnswerFacts(a)'
  <2>1. PICK r : r = call[p].request
    OBVIOUS
  <2>2. /\ Answer(r, "EXCEPTION") /\ order' = order
        /\ order[r.key] = NoOrder /\ call[p].pc = "unique"
    BY <1>8, <2>1 DEF SubmitThrows, Replayed
  <2>3. QED
    BY <1>3, <2>1, <2>2
<1>9. QED
  BY <1>2, <1>4, <1>5, <1>6, <1>7, <1>8 DEF Next, vars, Mutate, Submit, Abandon,
     SetPrice, SwitchPromotion, GetCart, MutateElsewhere, MutateRead, MutateCommit,
     MutateAnswer, SubmitRead, SubmitMissed, SubmitUnique

-----------------------------------------------------------------------------
(* The theorems *)

LEMMA InitCartInv == Init => CartInv
<1> SUFFICES ASSUME Init PROVE CartInv
  OBVIOUS
<1>1. TypeOK
  BY InitTypeOK
<1>2. \A p \in Process : CallFacts(call[p])
  BY DEF Init, CallFacts, Idle
<1>3. LinesAreMerged /\ OrderedAsShown /\ OrderTakesCart /\ AnswersStayTrue
  BY DEF Init, LinesAreMerged, OrderedAsShown, OrderTakesCart, AnswersStayTrue
<1>4. (\A d \in shown : ShownFacts(d)) /\ (\A c \in Cart : ItemFacts(c))
      /\ (\A a \in answers : AnswerFacts(a))
  BY DEF Init, ItemFacts
<1>5. QED
  BY <1>1, <1>2, <1>3, <1>4 DEF CartInv

LEMMA NextCartInv == CartInv /\ [Next]_vars => CartInv'
<1> SUFFICES ASSUME CartInv, [Next]_vars PROVE CartInv'
  OBVIOUS
<1>1. TypeOK' /\ LinesAreMerged' /\ OrderedAsShown' /\ OrderTakesCart'
  BY NextTypeOK, NextLines, NextOrdered, NextOrders
<1>2. \A p \in Process : CallFacts(call[p])'
  BY NextCallFacts
<1>3. (\A d \in shown' : ShownFacts(d)') /\ \A c \in Cart : ItemFacts(c)'
  BY NextShownFacts, NextLines
<1>4. \A a \in answers' : True(a)' /\ AnswerFacts(a)'
  BY NextAnswers
<1>5. AnswersStayTrue'
  BY <1>4 DEF AnswersStayTrue, True
<1>6. QED
  BY <1>1, <1>2, <1>3, <1>4, <1>5 DEF CartInv

LEMMA CartInvariant == Spec => []CartInv
BY InitCartInv, NextCartInv, PTL DEF Spec

\* Rows, orders, answers and calls keep their types, and the quantity of a line
\* stays within the limit of CartService whatever tabs add to it at once.
THEOREM TypeCorrect == Spec => []TypeOK
BY CartInvariant, PTL DEF CartInv

\* CartService.addItem never makes two rows of one line.
THEOREM LinesStayMerged == Spec => []LinesAreMerged
BY CartInvariant, PTL DEF CartInv

\* What CheckoutService.submit orders is what the customer was shown for the
\* revision that was submitted.
THEOREM OrdersWereShown == Spec => []OrderedAsShown
BY CartInvariant, PTL DEF CartInv

\* A cart becomes one order at most and does not change afterwards, however
\* often and with whatever keys it is submitted.
THEOREM CartsAreOrderedOnce == Spec => []OrderTakesCart
BY CartInvariant, PTL DEF CartInv

\* What CheckoutService.submit answers to a request is true for ever, copies of
\* the request included.
THEOREM AnswersHold == Spec => []AnswersStayTrue
BY CartInvariant, PTL DEF CartInv

-----------------------------------------------------------------------------
(* Checkouts happen once under their key *)

\* One more answer.
LEMMA CheckoutTold ==
    ASSUME NEW r, NEW outcome, Answer(r, outcome)
    PROVE  CheckoutsTold' = IF outcome = "READY_FOR_PAYMENT" THEN CheckoutsTold \union {<<r.key, {r}>>}
                                                             ELSE CheckoutsTold
<1>1. PICK a : a = [request |-> r, outcome |-> outcome] /\ answers' = answers \union {a}
  BY DEF Answer
<1>2. a.request = r /\ a.outcome = outcome
  BY <1>1
<1>3. QED
  BY <1>1, <1>2 DEF CheckoutsTold

\* A replay is a repetition under its key, or the answer of a conflict.
LEMMA ReplayRepeats ==
    ASSUME CartInv, NEW r \in Request, order[r.key] # NoOrder, Replay(r.key, r), UNCHANGED order
    PROVE  UNCHANGED Checkouts!onceVars \/ \E k \in Key : Checkouts!Repeat(k)
<1>1. PICK k \in Key : k = r.key
  BY DEF Request
<1>2. \A j \in Key : OrderedAs(j)' = OrderedAs(j)
  BY DEF OrderedAs
<1>3. CASE order[k].request = r
  <2>1. OrderedAs(k) = {r}
    BY <1>1, <1>3 DEF OrderedAs
  <2>2. CheckoutsTold' = CheckoutsTold \union {<<k, {r}>>}
    BY <1>1, <1>3, CheckoutTold DEF Replay, SameRequest
  <2>3. Checkouts!Repeat(k)
    BY <1>2, <2>1, <2>2 DEF Checkouts!Repeat
  <2>4. QED
    BY <2>3
<1>4. CASE order[k].request # r
  <2>1. CheckoutsTold' = CheckoutsTold
    BY <1>1, <1>4, CheckoutTold DEF Replay, SameRequest
  <2>2. QED
    BY <1>2, <2>1 DEF Checkouts!onceVars
<1>5. QED
  BY <1>3, <1>4

LEMMA CommitAccepts ==
    ASSUME CartInv, NEW p \in Process, NEW c \in Cart, SubmitCommit(p, c)
    PROVE  \E k \in Key : Checkouts!Accept(k)
<1>1. PICK r : r = call[p].request
  OBVIOUS
<1>2. /\ order'[r.key] # NoOrder /\ order'[r.key].request = r /\ r.key \in Key
      /\ Answer(r, "READY_FOR_PAYMENT") /\ order[r.key] = NoOrder
      /\ \A k \in Key \ {r.key} : order'[k] = order[k]
  <2>1. /\ order'[r.key] = [request |-> r, items |-> items[c],
                            promotion |-> cart[c].promotion, price |-> price]
        /\ order'[r.key] # NoOrder /\ r.key \in Key /\ order[r.key] = NoOrder
    BY <1>1, CommitFacts
  <2>2. \A k \in Key \ {r.key} : order'[k] = order[k]
    BY <1>1 DEF SubmitCommit, CartInv, TypeOK
  <2>3. Answer(r, "READY_FOR_PAYMENT")
    BY <1>1 DEF SubmitCommit
  <2>4. QED
    BY <2>1, <2>2, <2>3
<1>3. OrderedAs(r.key) = {} /\ OrderedAs(r.key)' = {r}
  BY <1>2 DEF OrderedAs
<1>4. \A k \in Key \ {r.key} : OrderedAs(k)' = OrderedAs(k)
  BY <1>2 DEF OrderedAs
<1>5. CheckoutsTold' = CheckoutsTold \union {<<r.key, {r}>>}
  BY <1>2, CheckoutTold
<1>6. Checkouts!Accept(r.key)
  BY <1>2, <1>3, <1>4, <1>5 DEF Checkouts!Accept
<1>7. QED
  BY <1>2, <1>6

\* submit of CheckoutService keeps the promise of OnceOnly: the transaction that
\* makes the order is the first request under its key, a replay of the same
\* request repeats it, and every other answer and step stutters.
THEOREM CheckoutRefinement == Spec => CheckoutsAreOnce
<1>1. Init => Checkouts!OnceInit
  BY DEF Init, Checkouts!OnceInit, OrderedAs, CheckoutsTold
<1>2. ASSUME CartInv, [Next]_vars PROVE [Checkouts!OnceNext]_(Checkouts!onceVars)
  <2>1. ASSUME UNCHANGED <<order, answers>> PROVE UNCHANGED Checkouts!onceVars
    BY <2>1 DEF Checkouts!onceVars, OrderedAs, CheckoutsTold
  <2>2. ASSUME NEW d \in shown, NEW k \in Key, SubmitReplay(d, k)
        PROVE  [Checkouts!OnceNext]_(Checkouts!onceVars)
    <3>1. PICK r : r = RequestOf(d, k)
      OBVIOUS
    <3>2. r \in Request /\ r.key = k
      BY <1>2, <3>1, ShownRequest DEF CartInv, TypeOK, RequestOf
    <3>3. order[r.key] # NoOrder /\ Replay(r.key, r) /\ UNCHANGED order
      BY <2>2, <3>1, <3>2 DEF SubmitReplay
    <3>4. QED
      BY <1>2, <3>2, <3>3, ReplayRepeats DEF Checkouts!OnceNext
  <2>3. ASSUME NEW p \in Process, call[p].pc \in {"submit", "review", "unique"}
        PROVE  call[p].request \in Request
    <3>1. call[p] \in Call
      BY <1>2 DEF CartInv, TypeOK
    <3>2. QED
      BY <2>3, <3>1, CallFields
  <2>4. ASSUME NEW p \in Process, SubmitReplayed(p)
        PROVE  [Checkouts!OnceNext]_(Checkouts!onceVars)
    <3>1. PICK r \in Request : r = call[p].request
      BY <2>3, <2>4 DEF SubmitReplayed
    <3>2. order[r.key] # NoOrder /\ Replay(r.key, r) /\ UNCHANGED order
      BY <2>4, <3>1 DEF SubmitReplayed, Replayed
    <3>3. QED
      BY <1>2, <3>2, ReplayRepeats DEF Checkouts!OnceNext
  <2>5. ASSUME NEW p \in Process, NEW c \in Cart, SubmitCommit(p, c)
        PROVE  [Checkouts!OnceNext]_(Checkouts!onceVars)
    BY <1>2, <2>5, CommitAccepts DEF Checkouts!OnceNext
  <2>6. ASSUME NEW p \in Process, SubmitThrows(p) \/ \E c \in Cart : SubmitReview(p, c)
        PROVE  UNCHANGED Checkouts!onceVars
    <3>1. PICK r, outcome : Answer(r, outcome) /\ outcome # "READY_FOR_PAYMENT" /\ UNCHANGED order
      BY <2>6 DEF SubmitThrows, SubmitReview
    <3>2. CheckoutsTold' = CheckoutsTold
      BY <3>1, CheckoutTold
    <3>3. QED
      BY <3>1, <3>2 DEF Checkouts!onceVars, OrderedAs
  <2>7. QED
    BY <1>2, <2>1, <2>2, <2>4, <2>5, <2>6 DEF Next, vars, Mutate, Submit, Abandon,
       SetPrice, SwitchPromotion, GetCart, MutateElsewhere, MutateRead, MutateCommit,
       MutateAnswer, SubmitRead, SubmitMissed, SubmitUnique
<1>3. QED
  BY <1>1, <1>2, CartInvariant, PTL DEF Spec, CheckoutsAreOnce, Checkouts!OnceSpec
=============================================================================
