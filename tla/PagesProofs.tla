---------------------------- MODULE PagesProofs -----------------------------
(***************************************************************************)
(* What is proved of the screens whose answers may come late: CartPage     *)
(* for every number of tabs and rows and for every largest quantity,       *)
(* CheckoutPage for every number of reads, keys and payments, and          *)
(* BatchDesk for every finite set of batches.                              *)
(***************************************************************************)
EXTENDS CartPage, CheckoutPage, BatchDesk, FiniteSetTheorems, TLAPS

-----------------------------------------------------------------------------
(* The cart page *)

CartRow == [revision : Nat, of : [Row -> Nat]]
Place == {"loading", "idle", "sent", "changed", "conflict", "refused"}
TabState == [cart : CartRow \union {Blank}, at : Place]
Change == [row : Row, quantity : Nat, revision : Nat, saw : Nat]

CgTypeOK ==
    /\ held \in CartRow
    /\ tab \in [Tab -> TabState]
    /\ sent \in [Tab -> Change \union {Blank}]

\* A cart on a screen is one that the service held: the cart of its revision,
\* or older than the one held now.
ShownWasHeld(shown) ==
    shown # Blank => /\ shown.revision <= held.revision
                     /\ shown.revision = held.revision => shown.of = held.of

\* The same for the row that a change under way is about.
SentWasHeld(c) ==
    /\ c \in Change
    /\ c.revision <= held.revision
    /\ c.revision = held.revision => held.of[c.row] = c.saw

CgInv ==
    /\ CgTypeOK
    /\ \A t \in Tab : /\ ShownWasHeld(tab[t].cart)
                      /\ tab[t].at = "sent" => SentWasHeld(sent[t])

-----------------------------------------------------------------------------
\* A step of one tab while the held cart stays.
LEMMA TabStep ==
    ASSUME CgInv, NEW t \in Tab, NEW s \in TabState, NEW c \in Change \union {Blank},
           tab' = [tab EXCEPT ![t] = s], sent' = [sent EXCEPT ![t] = c],
           UNCHANGED held,
           s.cart \in {tab[t].cart, held, Blank},
           s.at = "sent" => SentWasHeld(c)
    PROVE  CgInv'
<1>1. CgTypeOK'
  BY DEF CgInv, CgTypeOK
<1>2. ASSUME NEW u \in Tab
      PROVE  ShownWasHeld(tab[u].cart)' /\ (tab'[u].at = "sent" => SentWasHeld(sent[u])')
  <2>1. CASE u # t
    <3>1. tab'[u] = tab[u] /\ sent'[u] = sent[u]
      BY <2>1 DEF CgInv, CgTypeOK
    <3>2. QED
      BY <3>1 DEF CgInv, ShownWasHeld, SentWasHeld
  <2>2. CASE u = t
    <3>1. tab'[u] = s /\ sent'[u] = c
      BY <2>2 DEF CgInv, CgTypeOK
    <3>2. ShownWasHeld(tab[t].cart) /\ ShownWasHeld(held) /\ ShownWasHeld(Blank)
      BY DEF CgInv, CgTypeOK, CartRow, ShownWasHeld
    <3>3. ShownWasHeld(s.cart)
      BY <3>2
    <3>4. QED
      BY <3>1, <3>3 DEF ShownWasHeld, SentWasHeld
  <2>3. QED
    BY <2>1, <2>2
<1>3. QED
  BY <1>1, <1>2 DEF CgInv

\* A step that raises the revision and sends nothing: every screen and every
\* change under way is then of an older cart.
LEMMA HeldStep ==
    ASSUME CgInv, NEW h \in CartRow, h.revision = held.revision + 1, held' = h,
           tab' \in [Tab -> TabState], UNCHANGED sent,
           \A u \in Tab : /\ tab'[u].cart = tab[u].cart
                          /\ tab'[u].at = "sent" => tab[u].at = "sent"
    PROVE  CgInv'
<1>1. CgTypeOK'
  BY DEF CgInv, CgTypeOK
<1>2. held.revision \in Nat /\ held'.revision = held.revision + 1
  BY DEF CgInv, CgTypeOK, CartRow
<1>3. ASSUME NEW u \in Tab PROVE ShownWasHeld(tab[u].cart)'
  <2>1. PICK shown \in CartRow \union {Blank} : shown = tab[u].cart
    BY DEF CgInv, CgTypeOK, TabState
  <2>2. shown # Blank => shown.revision <= held.revision /\ shown.revision \in Nat
    BY <2>1 DEF CgInv, ShownWasHeld, CartRow
  <2>3. QED
    BY <1>2, <2>1, <2>2 DEF ShownWasHeld
<1>4. ASSUME NEW u \in Tab, tab'[u].at = "sent" PROVE SentWasHeld(sent[u])'
  <2>1. SentWasHeld(sent[u])
    BY <1>4 DEF CgInv
  <2>2. PICK c \in Change : c = sent[u]
    BY <2>1 DEF SentWasHeld
  <2>3. c.revision \in Nat /\ c.revision <= held.revision
    BY <2>1, <2>2 DEF SentWasHeld, Change
  <2>4. QED
    BY <1>2, <2>2, <2>3 DEF SentWasHeld
<1>5. QED
  BY <1>1, <1>3, <1>4 DEF CgInv

\* A tab that goes on to another step than sending, with the cart it shows.
LEMMA GoesOn ==
    ASSUME CgInv, NEW t \in Tab, NEW at \in Place, Step(t, at)
    PROVE  \E s \in TabState : /\ tab' = [tab EXCEPT ![t] = s]
                               /\ s.cart = tab[t].cart /\ s.at = at
<1>1. tab[t] \in TabState
  BY DEF CgInv, CgTypeOK
<1>2. PICK s : s = [tab[t] EXCEPT !.at = at]
  OBVIOUS
<1>3. s \in TabState /\ s.cart = tab[t].cart /\ s.at = at
  BY <1>1, <1>2 DEF TabState
<1>4. tab' = [tab EXCEPT ![t] = s]
  BY <1>2 DEF Step
<1>5. QED
  BY <1>3, <1>4

LEMMA SentUnchanged ==
    ASSUME CgInv, NEW t \in Tab
    PROVE  /\ sent[t] \in Change \union {Blank}
           /\ sent = [sent EXCEPT ![t] = sent[t]]
BY DEF CgInv, CgTypeOK

-----------------------------------------------------------------------------
LEMMA CgInitHolds == CgInit => CgInv
<1> SUFFICES ASSUME CgInit PROVE CgInv
  OBVIOUS
<1>1. [r \in Row |-> 0] \in [Row -> Nat]
  OBVIOUS
<1>2. held \in CartRow
  BY <1>1 DEF CgInit, CartRow
<1>3. tab \in [Tab -> TabState] /\ sent \in [Tab -> Change \union {Blank}]
  BY DEF CgInit, TabState, Place
<1>4. QED
  BY <1>2, <1>3 DEF CgInit, CgInv, CgTypeOK, ShownWasHeld

LEMMA CgLoadHolds == ASSUME CgInv, NEW t \in Tab, LoadTab(t) PROVE CgInv'
<1>1. PICK s \in TabState : s = [cart |-> Blank, at |-> "loading"]
  BY DEF TabState, Place
<1>2. /\ s.cart = Blank /\ s.at # "sent"
      /\ tab' = [tab EXCEPT ![t] = s] /\ sent' = [sent EXCEPT ![t] = Blank] /\ UNCHANGED held
  BY <1>1 DEF LoadTab
<1>3. QED
  BY <1>2, TabStep

LEMMA AddHolds == ASSUME CgInv, NEW r \in Row, AddFromProduct(r) PROVE CgInv'
<1>1. PICK q \in [Row -> Nat] : q = [held.of EXCEPT ![r] = @ + 1]
  <2>1. held.of \in [Row -> Nat]
    BY DEF CgInv, CgTypeOK, CartRow
  <2>2. held.of[r] + 1 \in Nat
    BY <2>1
  <2>3. [held.of EXCEPT ![r] = @ + 1] \in [Row -> Nat]
    BY <2>1, <2>2
  <2>4. QED
    BY <2>3
<1>2. held.revision + 1 \in Nat
  BY DEF CgInv, CgTypeOK, CartRow
<1>3. PICK h \in CartRow : h = [revision |-> held.revision + 1, of |-> q]
  BY <1>2 DEF CartRow
<1>4. h.revision = held.revision + 1 /\ held' = h /\ UNCHANGED <<tab, sent>>
  BY <1>1, <1>3 DEF AddFromProduct, Cart
<1>5. tab' \in [Tab -> TabState]
  BY <1>4 DEF CgInv, CgTypeOK
<1>6. QED
  BY <1>4, <1>5, HeldStep

LEMMA ClickHolds ==
    ASSUME CgInv, NEW t \in Tab, NEW r \in Row, NEW quantity \in Nat, ClickRow(t, r, quantity)
    PROVE  CgInv'
<1>1. PICK shown \in CartRow : shown = tab[t].cart /\ shown # Blank
  BY DEF ClickRow, CgInv, CgTypeOK, TabState
<1>2. /\ shown.revision \in Nat /\ shown.of[r] \in Nat
      /\ shown.revision <= held.revision
      /\ shown.revision = held.revision => shown.of = held.of
  BY <1>1 DEF CgInv, ShownWasHeld, CartRow
<1>3. PICK c \in Change : c = [row |-> r, quantity |-> quantity, revision |-> shown.revision,
                               saw |-> shown.of[r]]
  BY <1>2 DEF Change
<1>4. SentWasHeld(c)
  BY <1>2, <1>3 DEF SentWasHeld
<1>5. sent' = [sent EXCEPT ![t] = c] /\ UNCHANGED held /\ Step(t, "sent")
  BY <1>1, <1>3 DEF ClickRow
<1>6. PICK s \in TabState : tab' = [tab EXCEPT ![t] = s] /\ s.cart = tab[t].cart
  BY <1>5, GoesOn DEF Place
<1>7. QED
  BY <1>4, <1>5, <1>6, TabStep

LEMMA CgServeHolds == ASSUME CgInv, NEW t \in Tab, ServeChange(t) PROVE CgInv'
<1>1. sent[t] \in Change
  BY DEF ServeChange, CgInv, SentWasHeld
<1>2. CASE Step(t, "refused") /\ UNCHANGED held
  <2>1. PICK s \in TabState : tab' = [tab EXCEPT ![t] = s] /\ s.cart = tab[t].cart /\ s.at = "refused"
    BY <1>2, GoesOn DEF Place
  <2>2. sent' = [sent EXCEPT ![t] = sent[t]]
    BY SentUnchanged DEF ServeChange
  <2>3. QED
    BY <1>1, <1>2, <2>1, <2>2, TabStep
<1>3. CASE Step(t, "conflict") /\ UNCHANGED held
  <2>1. PICK s \in TabState : tab' = [tab EXCEPT ![t] = s] /\ s.cart = tab[t].cart /\ s.at = "conflict"
    BY <1>3, GoesOn DEF Place
  <2>2. sent' = [sent EXCEPT ![t] = sent[t]]
    BY SentUnchanged DEF ServeChange
  <2>3. QED
    BY <1>1, <1>3, <2>1, <2>2, TabStep
<1>4. CASE held' = Cart(held.revision + 1, [held.of EXCEPT ![sent[t].row] = sent[t].quantity])
           /\ Step(t, "changed")
  <2>1. PICK q \in [Row -> Nat] : q = [held.of EXCEPT ![sent[t].row] = sent[t].quantity]
    BY <1>1 DEF CgInv, CgTypeOK, CartRow, Change
  <2>2. held.revision + 1 \in Nat
    BY DEF CgInv, CgTypeOK, CartRow
  <2>3. PICK h \in CartRow : h = [revision |-> held.revision + 1, of |-> q]
    BY <2>2 DEF CartRow
  <2>4. h.revision = held.revision + 1 /\ held' = h
    BY <1>4, <2>1, <2>3 DEF Cart
  <2>5. PICK s \in TabState : tab' = [tab EXCEPT ![t] = s] /\ s.cart = tab[t].cart /\ s.at = "changed"
    BY <1>4, GoesOn DEF Place
  <2>6. /\ tab' \in [Tab -> TabState]
        /\ \A u \in Tab : /\ tab'[u].cart = tab[u].cart
                          /\ tab'[u].at = "sent" => tab[u].at = "sent"
    BY <2>5 DEF CgInv, CgTypeOK
  <2>7. UNCHANGED sent
    BY DEF ServeChange
  <2>8. QED
    BY <2>4, <2>6, <2>7, HeldStep
<1>5. QED
  BY <1>2, <1>3, <1>4 DEF ServeChange

LEMMA LostHolds == ASSUME CgInv, NEW t \in Tab, ChangeLost(t) PROVE CgInv'
<1>1. PICK s \in TabState : tab' = [tab EXCEPT ![t] = s] /\ s.cart = tab[t].cart /\ s.at = "refused"
  BY GoesOn DEF ChangeLost, Place
<1>2. sent' = [sent EXCEPT ![t] = sent[t]] /\ UNCHANGED held
  BY SentUnchanged DEF ChangeLost
<1>3. QED
  BY <1>1, <1>2, SentUnchanged, TabStep

LEMMA AnswersHold ==
    ASSUME CgInv, NEW t \in Tab, NEW failed \in BOOLEAN,
           CartRead(t, failed) \/ TabLoaded(t, failed) \/ ChangeAnswered(t)
    PROVE  CgInv'
<1>1. PICK s \in TabState, c \in Change \union {Blank} :
            /\ tab' = [tab EXCEPT ![t] = s] /\ sent' = [sent EXCEPT ![t] = c]
            /\ s.cart \in {tab[t].cart, held, Blank} /\ s.at = "idle"
  <2>1. held \in CartRow /\ tab[t].cart \in CartRow \union {Blank}
    BY DEF CgInv, CgTypeOK, TabState
  <2>2. ASSUME NEW shown \in {tab[t].cart, held, Blank}
        PROVE  \E s \in TabState : s = [cart |-> shown, at |-> "idle"] /\ s.cart = shown /\ s.at = "idle"
    <3>1. shown \in CartRow \union {Blank}
      BY <2>1
    <3>2. [cart |-> shown, at |-> "idle"] \in TabState
      BY <3>1 DEF TabState, Place
    <3>3. QED
      BY <3>2
  <2>3. CASE CartRead(t, failed)
    <3>1. CASE failed
      BY <2>3, <3>1, GoesOn DEF CartRead, Place
    <3>2. CASE ~failed
      <4>1. PICK s \in TabState : s = [cart |-> held, at |-> "idle"] /\ s.cart = held /\ s.at = "idle"
        BY <2>2
      <4>2. tab' = [tab EXCEPT ![t] = s] /\ sent' = [sent EXCEPT ![t] = Blank]
        BY <2>3, <3>2, <4>1 DEF CartRead, ShowsCart
      <4>3. QED
        BY <4>1, <4>2
    <3>3. QED
      BY <3>1, <3>2
  <2>4. CASE TabLoaded(t, failed)
    <3>1. PICK shown \in {held, Blank} : shown = IF failed THEN Blank ELSE held
      OBVIOUS
    <3>2. PICK s \in TabState : s = [cart |-> shown, at |-> "idle"] /\ s.cart = shown /\ s.at = "idle"
      BY <2>2
    <3>3. tab' = [tab EXCEPT ![t] = s] /\ sent' = [sent EXCEPT ![t] = sent[t]]
      BY <2>4, <3>1, <3>2, SentUnchanged DEF TabLoaded
    <3>4. QED
      BY <3>2, <3>3, SentUnchanged
  <2>5. CASE ChangeAnswered(t)
    <3>1. PICK shown \in {held, tab[t].cart} :
              shown = IF tab[t].at = "changed" THEN held ELSE tab[t].cart
      OBVIOUS
    <3>2. PICK s \in TabState : s = [cart |-> shown, at |-> "idle"] /\ s.cart = shown /\ s.at = "idle"
      BY <2>2
    <3>3. tab' = [tab EXCEPT ![t] = s] /\ sent' = [sent EXCEPT ![t] = Blank]
      BY <2>5, <3>1, <3>2 DEF ChangeAnswered
    <3>4. QED
      BY <3>2, <3>3
  <2>6. QED
    BY <2>3, <2>4, <2>5
<1>2. UNCHANGED held
  BY DEF CartRead, TabLoaded, ChangeAnswered
<1>3. QED
  BY <1>1, <1>2, TabStep

LEMMA CgNextHolds == ASSUME CgInv, [CgNext]_cgVars PROVE CgInv'
<1>1. CASE UNCHANGED cgVars
  BY <1>1 DEF cgVars, CgInv, CgTypeOK, ShownWasHeld, SentWasHeld
<1>2. ASSUME NEW r \in Row, AddFromProduct(r) PROVE CgInv'
  BY <1>2, AddHolds
<1>3. ASSUME NEW t \in Tab, LoadTab(t) \/ ServeChange(t) \/ ChangeLost(t) \/ ChangeAnswered(t)
      PROVE  CgInv'
  BY <1>3, CgLoadHolds, CgServeHolds, LostHolds, AnswersHold
<1>4. ASSUME NEW t \in Tab, NEW failed \in BOOLEAN, CartRead(t, failed) \/ TabLoaded(t, failed)
      PROVE  CgInv'
  BY <1>4, AnswersHold
<1>5. ASSUME NEW t \in Tab, NEW r \in Row, NEW quantity \in 0 .. MaxQuantityOfRow + 1,
             ClickRow(t, r, quantity)
      PROVE  CgInv'
  BY <1>5, ClickHolds, CartPageAssumption
<1>6. QED
  BY <1>1, <1>2, <1>3, <1>4, <1>5 DEF CgNext

\* What every screen shows was held by the service, and is what it holds still
\* when the revisions agree.
THEOREM CartInvariant == CgSpec => []CgInv
<1>1. CgInit => CgInv
  BY CgInitHolds
<1>2. CgInv /\ [CgNext]_cgVars => CgInv'
  BY CgNextHolds
<1>3. QED
  BY <1>1, <1>2, PTL DEF CgSpec

-----------------------------------------------------------------------------
\* The revision that updateQuantity and removeItem require makes every click
\* change what its customer saw, over any number of tabs, lost requests and
\* conflicts.
THEOREM ClicksMeanWhatTheyShowed == CgSpec => ClickMeansWhatItShowed
<1>1. ASSUME CgInv, [CgNext]_cgVars, NEW t \in Tab, tab[t].at = "sent", tab'[t].at = "changed"
      PROVE  held.of[sent[t].row] = sent[t].saw
  <2>1. ASSUME NEW u \in Tab, NEW at \in Place, Step(u, at), at # "changed" \/ u # t PROVE FALSE
    <3>1. PICK s \in TabState : tab' = [tab EXCEPT ![u] = s] /\ s.at = at
      BY <1>1, <2>1, GoesOn
    <3>2. tab'[t].at = IF u = t THEN at ELSE tab[t].at
      BY <1>1, <3>1 DEF CgInv, CgTypeOK
    <3>3. QED
      BY <1>1, <2>1, <3>2
  <2>2. ASSUME NEW u \in Tab, NEW cart, NEW at \in Place \ {"changed"},
               tab' = [tab EXCEPT ![u] = [cart |-> cart, at |-> at]]
        PROVE FALSE
    <3>1. tab'[t].at = IF u = t THEN at ELSE tab[t].at
      BY <1>1, <2>2 DEF CgInv, CgTypeOK
    <3>2. QED
      BY <1>1, <3>1
  <2>3. ASSUME NEW u \in Tab, ServeChange(u) PROVE held.of[sent[t].row] = sent[t].saw
    <3>1. CASE u = t /\ CartClaims(sent[t])
      BY <1>1, <3>1 DEF CgInv, SentWasHeld, CartClaims
    <3>2. CASE u # t \/ ~CartClaims(sent[t])
      BY <2>1, <2>3, <3>2 DEF ServeChange, Place
    <3>3. QED
      BY <3>1, <3>2
  <2>4. ASSUME NEW u \in Tab, LoadTab(u) \/ ChangeLost(u) \/ ChangeAnswered(u) PROVE FALSE
    BY <2>1, <2>2, <2>4 DEF LoadTab, ChangeLost, ChangeAnswered, Place
  <2>5. ASSUME NEW u \in Tab, NEW failed \in BOOLEAN, CartRead(u, failed) \/ TabLoaded(u, failed)
        PROVE FALSE
    BY <2>1, <2>2, <2>5 DEF CartRead, ShowsCart, TabLoaded, Place
  <2>6. ASSUME NEW u \in Tab, NEW r, NEW quantity, ClickRow(u, r, quantity) PROVE FALSE
    BY <2>1, <2>6 DEF ClickRow, Place
  <2>7. QED
    BY <1>1, <2>3, <2>4, <2>5, <2>6 DEF CgNext, cgVars, AddFromProduct
<1>2. CgInv /\ [CgNext]_cgVars =>
        [\A t \in Tab : tab[t].at = "sent" /\ tab'[t].at = "changed" =>
            held.of[sent[t].row] = sent[t].saw]_cgVars
  BY <1>1
<1>3. QED
  BY <1>2, CartInvariant, PTL DEF CgSpec, ClickMeansWhatItShowed

-----------------------------------------------------------------------------
(* The checkout page *)

Stage ==
    {"INITIALISING", "CHECKOUT_READY", "CHECKOUT_SUBMITTING", "REQUIRES_CART_REVIEW", "INVALID_PROMOTION",
     "OUT_OF_STOCK", "CHECKOUT_CONFLICT", "READY_FOR_PAYMENT", "PAYMENT_INITIALISING", "PAYMENT_READY",
     "PAYMENT_PROCESSING", "VERIFYING_ORDER", "PAYMENT_PENDING", "PAYMENT_FAILED", "PAYMENT_EXPIRED",
     "CONFIRMED", "ERROR"}

\* What CheckoutService answers, the review of the cart apart.
Refusal == {"READY_FOR_PAYMENT", "OUT_OF_STOCK", "INVALID_PROMOTION", "CHECKOUT_CONFLICT"}
Plain == Refusal \union {"none", "error", "secret", "paid", "NOT_FOUND", "PENDING", "SUCCEEDED", "FAILED", "EXPIRED"}

ChosenMethod == Method \union {Nothing, CHOOSE d \in Method : TRUE}

ShownCart == [revision : Nat, full : BOOLEAN]
CheckoutRequest == [revision : Nat, method : ChosenMethod]
ShopState ==
    [revision : Nat, full : BOOLEAN, key : Nat \union {Nothing}, placed : CheckoutRequest \union {Nothing},
     payment : {"none", "PENDING", "SUCCEEDED", "FAILED", "EXPIRED"}]

PageKey == [of : CheckoutRequest, key : Nat]
PageState ==
    [stage : Stage, cart : ShownCart \union {Nothing}, method : ChosenMethod,
     order : BOOLEAN, linked : BOOLEAN, secret : BOOLEAN, key : PageKey \union {Nothing},
     run : Nat, reads : Nat, sawPending : BOOLEAN]

SubmitSent == [of : CheckoutRequest, key : Nat]
PromotionSent == [revision : Nat, removing : BOOLEAN]
WithCart == {"ok", "REQUIRES_CART_REVIEW"}
PageReply == [status : Plain] \union [status : WithCart, cart : ShownCart]
PageCall ==
    [op : {"refreshCheckout", "refreshCart", "submit", "promotion", "initiate", "stripe", "verify"},
     n : Nat, by : {"click", "load", "payment"}, sent : {Nothing} \union SubmitSent \union PromotionSent, reply : PageReply]

CpTypeOK ==
    /\ shop \in ShopState
    /\ page \in PageState
    /\ calls \subseteq PageCall
    /\ used \subseteq [key : Nat, of : CheckoutRequest]

-----------------------------------------------------------------------------
\* The keys made are numbered, and the page keeps one that it has sent.
KeyFacts ==
    /\ IsFiniteSet(used)
    /\ \A u \in used : u.key \in 1 .. Cardinality(used)
    /\ KeyServesOneRequest
    /\ page.key # Nothing => [key |-> page.key.key, of |-> page.key.of] \in used

\* Only a placed order has a payment.
PaymentHasOrder == shop.payment # "none" => shop.key # Nothing

\* Where the customer may submit, there is a cart.
ReadyHasCart == page.stage \in {"CHECKOUT_READY", "REQUIRES_CART_REVIEW"} => page.cart \in ShownCart

\* A reply may be late, but what it says of a payment that succeeded is true.
ReplyFacts(c) ==
    /\ c.op = "submit" => c.sent \in SubmitSent /\ c.reply.status \in Refusal \union {"none", "error", "REQUIRES_CART_REVIEW"}
    /\ c.op \in {"refreshCheckout", "refreshCart", "promotion"} => c.reply.status \in {"none", "error", "ok"}
    /\ c.op = "verify" /\ c.reply.status = "SUCCEEDED" => shop.payment = "SUCCEEDED"

CpInv ==
    /\ CpTypeOK
    /\ KeyFacts
    /\ PaymentHasOrder
    /\ ReadyHasCart
    /\ \A c \in calls : ReplyFacts(c)
    /\ ConfirmedIsPaid

-----------------------------------------------------------------------------
\* A step of the page that makes no key.
LEMMA PageStep ==
    ASSUME CpInv, UNCHANGED <<shop, used>>,
           page' \in PageState, page'.key \in {page.key, Nothing},
           \A c \in calls' : c \in calls \/ (c \in PageCall /\ ReplyFacts(c)),
           page'.stage = "CONFIRMED" => page.stage = "CONFIRMED" \/ shop.payment = "SUCCEEDED",
           ReadyHasCart'
    PROVE  CpInv'
<1>1. CpTypeOK'
  BY DEF CpInv, CpTypeOK
<1>2. KeyFacts'
  BY DEF CpInv, KeyFacts, KeyServesOneRequest
<1>3. PaymentHasOrder' /\ ConfirmedIsPaid'
  BY DEF CpInv, PaymentHasOrder, ConfirmedIsPaid
<1>4. \A c \in calls' : ReplyFacts(c)'
  BY DEF CpInv, ReplyFacts
<1>5. QED
  BY <1>1, <1>2, <1>3, <1>4 DEF CpInv

\* A step of the services: a payment that succeeded stays so.
LEMMA ShopStep ==
    ASSUME CpInv, UNCHANGED <<page, used>>,
           shop' \in ShopState, PaymentHasOrder',
           shop.payment = "SUCCEEDED" => shop'.payment = "SUCCEEDED",
           \A c \in calls' : c \in calls \/ (c \in PageCall /\ ReplyFacts(c)')
    PROVE  CpInv'
<1>1. CpTypeOK'
  BY DEF CpInv, CpTypeOK
<1>2. KeyFacts' /\ ReadyHasCart'
  BY DEF CpInv, KeyFacts, KeyServesOneRequest, ReadyHasCart
<1>3. ConfirmedIsPaid'
  BY DEF CpInv, ConfirmedIsPaid
<1>4. \A c \in calls' : ReplyFacts(c)'
  BY DEF CpInv, ReplyFacts
<1>5. QED
  BY <1>1, <1>2, <1>3, <1>4 DEF CpInv

LEMMA Methods == Nothing \in ChosenMethod /\ Method \subseteq ChosenMethod /\ (CHOOSE d \in Method : TRUE) \in ChosenMethod
BY DEF ChosenMethod

LEMMA FreshState == Fresh \in PageState /\ Fresh.key = Nothing /\ Fresh.stage = "INITIALISING"
BY Methods DEF Fresh, PageState, Stage

LEMMA CpInitHolds == CpInit => CpInv
<1> SUFFICES ASSUME CpInit PROVE CpInv
  OBVIOUS
<1>1. Fresh \in PageState /\ Fresh.key = Nothing /\ Fresh.stage = "INITIALISING"
  BY FreshState
<1>2. NewCall("refreshCheckout") \in PageCall /\ ReplyFacts(NewCall("refreshCheckout"))
  BY DEF NewCall, Unanswered, PageCall, PageReply, Plain, Refusal, WithCart, ReplyFacts
<1>3. CpTypeOK
  BY <1>1, <1>2 DEF CpInit, CpTypeOK, ShopState
<1>4. KeyFacts
  BY <1>1, FS_EmptySet DEF CpInit, KeyFacts, KeyServesOneRequest
<1>5. QED
  BY <1>1, <1>2, <1>3, <1>4 DEF CpInit, CpInv, PaymentHasOrder, ReadyHasCart, ConfirmedIsPaid

-----------------------------------------------------------------------------
(* The services *)

LEMMA ShopChanges ==
    ASSUME CpInv,
           CartChangesElsewhere \/ \E status \in {"SUCCEEDED", "FAILED", "EXPIRED"} : PaymentSettles(status)
    PROVE  CpInv'
<1>1. shop \in ShopState /\ PaymentHasOrder
  BY DEF CpInv, CpTypeOK
<1>2. shop' \in ShopState /\ PaymentHasOrder'
      /\ (shop.payment = "SUCCEEDED" => shop'.payment = "SUCCEEDED")
  <2>1. CASE CartChangesElsewhere
    <3>1. shop.revision + 1 \in Nat
      BY <1>1 DEF ShopState
    <3>2. shop' = [shop EXCEPT !.revision = shop.revision + 1, !.full = TRUE]
      BY <2>1 DEF CartChangesElsewhere
    <3>3. shop' \in ShopState /\ shop'.key = shop.key /\ shop'.payment = shop.payment
      BY <1>1, <3>1, <3>2 DEF ShopState
    <3>4. QED
      BY <1>1, <3>3 DEF PaymentHasOrder
  <2>2. ASSUME NEW status \in {"SUCCEEDED", "FAILED", "EXPIRED"}, PaymentSettles(status)
        PROVE  shop' \in ShopState /\ PaymentHasOrder' /\ (shop.payment = "SUCCEEDED" => shop'.payment = "SUCCEEDED")
    BY <1>1, <2>2 DEF PaymentSettles, ShopState, PaymentHasOrder
  <2>3. QED
    BY <2>1, <2>2
<1>3. UNCHANGED <<page, calls, used>>
  BY DEF CartChangesElsewhere, PaymentSettles
<1>4. QED
  BY <1>2, <1>3, ShopStep

\* What the services answer, and what they leave.
LEMMA AnswersAreTrue ==
    ASSUME CpInv, NEW c \in calls, NEW a \in ServiceAnswers(c)
    PROVE  /\ a.next \in ShopState /\ a.reply \in PageReply
           /\ a.next.payment # "none" => a.next.key # Nothing
           /\ shop.payment = "SUCCEEDED" => a.next.payment = "SUCCEEDED"
           /\ c.op = "submit" => a.reply.status \in Refusal \union {"none", "error", "REQUIRES_CART_REVIEW"}
           /\ c.op \in {"refreshCheckout", "refreshCart", "promotion"} => a.reply.status \in {"none", "error", "ok"}
           /\ c.op = "verify" /\ a.reply.status = "SUCCEEDED" => a.next.payment = "SUCCEEDED"
<1>1. shop \in ShopState /\ (shop.payment # "none" => shop.key # Nothing)
  BY DEF CpInv, CpTypeOK, PaymentHasOrder
<1>2. CASE c.op = "submit"
  <2>1. c.sent \in SubmitSent
    BY <1>2 DEF CpInv, ReplyFacts
  <2>2. a \in CheckoutAnswers(c.sent)
    BY <1>2 DEF ServiceAnswers
  <2>3. ShopCart \in ShownCart
    BY <1>1 DEF ShopCart, ShopState, ShownCart
  <2>4. CASE a.next = shop
    <3>1. a.reply.status \in {"READY_FOR_PAYMENT", "REQUIRES_CART_REVIEW", "OUT_OF_STOCK", "INVALID_PROMOTION", "CHECKOUT_CONFLICT"}
          /\ a.reply \in PageReply
      BY <2>2, <2>3, <2>4 DEF CheckoutAnswers, PageReply, Plain, Refusal, WithCart
    <3>2. QED
      BY <1>1, <1>2, <2>4, <3>1 DEF Refusal
  <2>5. CASE shop.key = Nothing /\ a = [reply |-> [status |-> "READY_FOR_PAYMENT"],
                       next |-> [revision |-> shop.revision + 1, full |-> FALSE, key |-> c.sent.key, placed |-> c.sent.of,
                                 payment |-> "PENDING"]]
    <3>1. a.next \in ShopState /\ a.reply \in PageReply /\ a.next.key # Nothing
      BY <1>1, <2>1, <2>5, CheckoutPageAssumption DEF ShopState, SubmitSent, PageReply, Plain, Refusal, WithCart
    <3>2. QED
      BY <1>1, <1>2, <2>5, <3>1 DEF Refusal
  <2>6. QED
    BY <2>2, <2>4, <2>5 DEF CheckoutAnswers
<1>3. CASE c.op = "initiate"
  <2>1. a \in InitiateAnswers
    BY <1>3 DEF ServiceAnswers
  <2>2. QED
    BY <1>1, <1>3, <2>1 DEF InitiateAnswers, ShopState, PageReply, Plain, Refusal, WithCart
<1>4. CASE c.op = "promotion" /\ c.sent.revision = shop.revision
  <2>1. a = [reply |-> [status |-> "ok", cart |-> [revision |-> Promoted.revision, full |-> shop.full]], next |-> Promoted]
    BY <1>4 DEF ServiceAnswers
  <2>2. Promoted \in ShopState /\ Promoted.key = shop.key /\ Promoted.payment = shop.payment
    BY <1>1 DEF Promoted, ShopState
  <2>3. a.reply \in PageReply
    BY <1>1, <2>1, <2>2 DEF PageReply, Plain, Refusal, WithCart, ShownCart, ShopState
  <2>4. QED
    BY <1>1, <1>4, <2>1, <2>2, <2>3
<1>5. CASE c.op = "verify"
  <2>1. a = [reply |-> [status |-> IF shop.key = Nothing THEN "NOT_FOUND" ELSE shop.payment], next |-> shop]
    BY <1>5 DEF ServiceAnswers
  <2>2. QED
    BY <1>1, <1>5, <2>1 DEF ShopState, PageReply, Plain, Refusal, WithCart
<1>6. CASE c.op \in {"refreshCheckout", "refreshCart"}
  <2>1. a = [reply |-> [status |-> "ok", cart |-> ShopCart], next |-> shop]
    BY <1>6 DEF ServiceAnswers
  <2>2. QED
    BY <1>1, <1>6, <2>1 DEF ShopCart, ShopState, ShownCart, PageReply, Plain, Refusal, WithCart
<1>7. CASE /\ c.op \notin {"submit", "initiate", "verify", "refreshCheckout", "refreshCart"}
           /\ ~(c.op = "promotion" /\ c.sent.revision = shop.revision)
  <2>1. a = [reply |-> [status |-> "error"], next |-> shop]
    BY <1>7 DEF ServiceAnswers
  <2>2. QED
    BY <1>1, <1>7, <2>1 DEF PageReply, Plain, Refusal, WithCart
<1>8. QED
  BY <1>2, <1>3, <1>4, <1>5, <1>6, <1>7

LEMMA ServeHolds == ASSUME CpInv, NEW c \in calls, Serve(c) PROVE CpInv'
<1>1. PICK a \in ServiceAnswers(c) : shop' = a.next /\ calls' = (calls \ {c}) \union {[c EXCEPT !.reply = a.reply]}
  BY DEF Serve
<1>2. c \in PageCall /\ ReplyFacts(c)
  BY DEF CpInv, CpTypeOK
<1>3. PICK d : d = [c EXCEPT !.reply = a.reply]
  OBVIOUS
<1>4. d \in PageCall /\ d.op = c.op /\ d.sent = c.sent /\ d.reply = a.reply
  BY <1>2, <1>3, AnswersAreTrue DEF PageCall
<1>5. ReplyFacts(d)'
  BY <1>1, <1>2, <1>4, AnswersAreTrue DEF ReplyFacts
<1>6. shop' \in ShopState /\ PaymentHasOrder' /\ (shop.payment = "SUCCEEDED" => shop'.payment = "SUCCEEDED")
  BY <1>1, AnswersAreTrue DEF PaymentHasOrder
<1>7. \A e \in calls' : e \in calls \/ (e \in PageCall /\ ReplyFacts(e)')
  BY <1>1, <1>3, <1>4, <1>5 DEF ReplyFacts
<1>8. QED
  BY <1>6, <1>7, ShopStep DEF Serve

LEMMA FailsHolds == ASSUME CpInv, NEW c \in calls, Fails(c) PROVE CpInv'
<1>1. c \in PageCall /\ ReplyFacts(c)
  BY DEF CpInv, CpTypeOK
<1>2. PICK d : d = [c EXCEPT !.reply = [status |-> "error"]]
  OBVIOUS
<1>3. d \in PageCall /\ ReplyFacts(d)
  BY <1>1, <1>2 DEF PageCall, PageReply, Plain, Refusal, WithCart, ReplyFacts
<1>4. calls' = (calls \ {c}) \union {d} /\ UNCHANGED <<shop, page, used>>
  BY <1>2 DEF Fails
<1>5. page \in PageState /\ ReadyHasCart'
  BY <1>4 DEF CpInv, CpTypeOK, ReadyHasCart
<1>6. QED
  BY <1>3, <1>4, <1>5, PageStep

-----------------------------------------------------------------------------
(* What the customer does *)

\* The key of another request is a new one.
LEMMA SubmitHolds == ASSUME CpInv, SubmitCheckout PROVE CpInv'
<1> DEFINE r == [revision |-> page.cart.revision, method |-> page.method]
           k == KeyFor(r)
           u == [key |-> k, of |-> r]
           d == [NewCall("submit") EXCEPT !.sent = [of |-> r, key |-> k]]
<1>1. r \in CheckoutRequest
  BY DEF SubmitCheckout, CpInv, CpTypeOK, ReadyHasCart, PageState, ShownCart, CheckoutRequest
<1>2. /\ page' = [page EXCEPT !.stage = "CHECKOUT_SUBMITTING", !.key = [of |-> r, key |-> k]]
      /\ calls' = calls \union {d} /\ used' = used \union {u} /\ UNCHANGED shop
  BY DEF SubmitCheckout
<1>3. Cardinality(used) \in Nat
  BY FS_CardinalityType DEF CpInv, KeyFacts
<1>4. \/ u \in used
      \/ k = Cardinality(used) + 1 /\ u \notin used
  <2>1. CASE page.key # Nothing /\ page.key.of = r
    BY <2>1 DEF KeyFor, CpInv, KeyFacts
  <2>2. CASE ~(page.key # Nothing /\ page.key.of = r)
    <3>1. k = Cardinality(used) + 1
      BY <2>2 DEF KeyFor
    <3>2. u \notin used
      BY <1>3, <3>1 DEF CpInv, KeyFacts
    <3>3. QED
      BY <3>1, <3>2
  <2>3. QED
    BY <2>1, <2>2
<1>5. k \in Nat
  BY <1>3, <1>4 DEF CpInv, CpTypeOK
<1>6. d \in PageCall /\ ReplyFacts(d)
  <2>1. [of |-> r, key |-> k] \in SubmitSent
    BY <1>1, <1>5 DEF SubmitSent
  <2>2. QED
    BY <2>1 DEF NewCall, Unanswered, PageCall, PageReply, Plain, Refusal, WithCart, ReplyFacts
<1>7. KeyFacts'
  <2>1. IsFiniteSet(used') /\ Cardinality(used') = IF u \in used THEN Cardinality(used) ELSE Cardinality(used) + 1
    <3>1. IsFiniteSet(used)
      BY DEF CpInv, KeyFacts
    <3>2. QED
      BY <1>2, <3>1, FS_AddElement
  <2>2. ASSUME NEW v \in used' PROVE v.key \in 1 .. Cardinality(used')
    BY <1>2, <1>3, <1>4, <2>1 DEF CpInv, KeyFacts
  <2>3. ASSUME NEW a \in used', NEW b \in used', a.key = b.key PROVE a.of = b.of
    <3>1. CASE u \in used
      BY <1>2, <2>3, <3>1 DEF CpInv, KeyFacts, KeyServesOneRequest
    <3>2. CASE u \notin used
      <4>1. \A v \in used : v.key # k
        BY <1>3, <1>4, <3>2 DEF CpInv, KeyFacts
      <4>2. QED
        BY <1>2, <2>3, <4>1 DEF CpInv, KeyFacts, KeyServesOneRequest
    <3>3. QED
      BY <3>1, <3>2
  <2>4. [key |-> page'.key.key, of |-> page'.key.of] = u
    BY <1>2 DEF CpInv, CpTypeOK, PageState, Stage
  <2>5. u \in used' /\ IsFiniteSet(used')
    BY <1>2, <2>1
  <2>6. KeyServesOneRequest'
    BY <2>3 DEF KeyServesOneRequest
  <2>7. QED
    BY <2>2, <2>4, <2>5, <2>6 DEF KeyFacts
<1>8. page' \in PageState /\ page'.stage = "CHECKOUT_SUBMITTING"
  BY <1>1, <1>2, <1>5 DEF CpInv, CpTypeOK, PageState, Stage, PageKey
<1>9. CpTypeOK'
  BY <1>1, <1>2, <1>5, <1>6, <1>8 DEF CpInv, CpTypeOK
<1>10. PaymentHasOrder' /\ ReadyHasCart' /\ ConfirmedIsPaid'
  BY <1>2, <1>8 DEF CpInv, PaymentHasOrder, ReadyHasCart, ConfirmedIsPaid
<1>11. \A c \in calls' : ReplyFacts(c)'
  BY <1>2, <1>6 DEF CpInv, ReplyFacts
<1>12. QED
  BY <1>7, <1>9, <1>10, <1>11 DEF CpInv


LEMMA CallsMade ==
    ASSUME CpInv
    PROVE  /\ \A op \in {"refreshCheckout", "refreshCart", "initiate", "stripe"} :
                NewCall(op) \in PageCall /\ ReplyFacts(NewCall(op))
           /\ \A run \in Nat, by \in {"click", "load", "payment"} : VerifyCall(run, by) \in PageCall /\ ReplyFacts(VerifyCall(run, by))
<1>1. ASSUME NEW op \in {"refreshCheckout", "refreshCart", "initiate", "stripe"}
      PROVE  NewCall(op) \in PageCall /\ ReplyFacts(NewCall(op))
  BY DEF NewCall, Unanswered, PageCall, PageReply, Plain, Refusal, WithCart, ReplyFacts
<1>2. ASSUME NEW run \in Nat, NEW by \in {"click", "load", "payment"}
      PROVE  VerifyCall(run, by) \in PageCall /\ ReplyFacts(VerifyCall(run, by))
  <2>1. VerifyCall(run, by) = [op |-> "verify", n |-> run, by |-> by, sent |-> Nothing, reply |-> [status |-> "none"]]
    <3>1. NewCall("verify") = [op |-> "verify", n |-> 1, by |-> "click", sent |-> Nothing, reply |-> [status |-> "none"]]
      BY DEF NewCall, Unanswered
    <3>2. VerifyCall(run, by) = [[op |-> "verify", n |-> 1, by |-> "click", sent |-> Nothing,
                                  reply |-> [status |-> "none"]] EXCEPT !.n = run, !.by = by]
      BY <3>1 DEF VerifyCall
    <3>3. QED
      BY <3>2
  <2>2. QED
    BY <2>1 DEF PageCall, PageReply, Plain, Refusal, WithCart, ReplyFacts
<1>3. QED
  BY <1>1, <1>2

\* Where a verification starts.
LEMMA VerifyingState ==
    ASSUME CpInv
    PROVE  /\ Verifying \in PageState /\ Verifying.key = page.key /\ Verifying.stage = "VERIFYING_ORDER"
           /\ \A by \in {"click", "load", "payment"} : VerifyCall(Verifying.run, by) \in PageCall /\ ReplyFacts(VerifyCall(Verifying.run, by))
<1>0. page \in PageState /\ page.run + 1 \in Nat
  BY DEF CpInv, CpTypeOK, PageState
<1>1. Verifying \in PageState /\ Verifying.key = page.key /\ Verifying.stage = "VERIFYING_ORDER" /\ Verifying.run \in Nat
  BY <1>0 DEF Verifying, PageState, Stage
<1>2. QED
  BY <1>1, CallsMade

LEMMA ClicksHold ==
    ASSUME CpInv,
           \/ ReviewCart \/ PayNow \/ ConfirmPayment \/ CheckOrder
           \/ \E d \in Method : ChooseMethod(d)
           \/ \E loaded \in BOOLEAN : MountPayment(loaded)
    PROVE  CpInv'
<1>1. page \in PageState
  BY DEF CpInv, CpTypeOK
<1>2. CASE ReviewCart \/ \E d \in Method : ChooseMethod(d)
  <2>0. \A d \in Method : [page EXCEPT !.method = d] \in PageState
    BY <1>1, Methods DEF PageState
  <2>1. /\ page' \in PageState /\ page'.key = page.key /\ page'.cart = page.cart
        /\ \/ page'.stage = page.stage
           \/ page'.stage = "CHECKOUT_READY" /\ page.stage = "REQUIRES_CART_REVIEW"
        /\ UNCHANGED <<shop, calls, used>>
    <3>1. CASE ReviewCart
      BY <1>1, <3>1 DEF ReviewCart, PageState, Stage
    <3>2. ASSUME NEW d \in Method, ChooseMethod(d)
          PROVE  /\ page' \in PageState /\ page'.key = page.key /\ page'.cart = page.cart
                 /\ page'.stage = page.stage
                 /\ UNCHANGED <<shop, calls, used>>
      <4>1. page' = [page EXCEPT !.method = d] /\ UNCHANGED <<shop, calls, used>>
        BY <3>2 DEF ChooseMethod
      <4>2. QED
        BY <1>1, <2>0, <4>1 DEF PageState
    <3>3. CASE \E d \in Method : ChooseMethod(d)
      BY <3>2, <3>3
    <3>4. QED
      BY <1>2, <3>1, <3>3
  <2>2. ReadyHasCart'
    BY <2>1 DEF CpInv, ReadyHasCart
  <2>3. QED
    BY <2>1, <2>2, PageStep
<1>3. CASE PayNow \/ ConfirmPayment
  <2>1. /\ page' \in PageState /\ page'.key = page.key
        /\ page'.stage \in {"PAYMENT_INITIALISING", "PAYMENT_PROCESSING"}
        /\ UNCHANGED <<shop, used>>
        /\ calls' = calls \union {NewCall("initiate")} \/ calls' = calls \union {NewCall("stripe")}
    BY <1>1, <1>3 DEF PayNow, ConfirmPayment, Clicks, PageState, Stage
  <2>2. ReadyHasCart'
    BY <2>1 DEF ReadyHasCart
  <2>3. \A c \in calls' : c \in calls \/ (c \in PageCall /\ ReplyFacts(c))
    BY <2>1, CallsMade
  <2>4. QED
    BY <2>1, <2>2, <2>3, PageStep
<1>4. CASE \E loaded \in BOOLEAN : MountPayment(loaded)
  <2>1. /\ page' \in PageState /\ page'.key = page.key
        /\ page'.stage \in {"PAYMENT_READY", "PAYMENT_FAILED"}
        /\ UNCHANGED <<shop, calls, used>>
    BY <1>1, <1>4 DEF MountPayment, PageState, Stage
  <2>2. QED
    BY <2>1, PageStep DEF ReadyHasCart
<1>5. CASE CheckOrder
  <2>1. page' = Verifying /\ calls' = calls \union {VerifyCall(Verifying.run, "click")} /\ UNCHANGED <<shop, used>>
    BY <1>5 DEF CheckOrder, Clicks
  <2>2. \A c \in calls' : c \in calls \/ (c \in PageCall /\ ReplyFacts(c))
    BY <2>1, VerifyingState
  <2>3. QED
    BY <2>1, <2>2, VerifyingState, PageStep DEF ReadyHasCart
<1>6. QED
  BY <1>2, <1>3, <1>4, <1>5

LEMMA RequestsHold ==
    ASSUME CpInv,
           \/ ApplyPromotion
           \/ RefreshAfter("CHECKOUT_CONFLICT", "refreshCheckout")
           \/ RefreshAfter("OUT_OF_STOCK", "refreshCart")
    PROVE  CpInv'
<1>1. page \in PageState
  BY DEF CpInv, CpTypeOK
<1>2. PICK c : c \in PageCall /\ ReplyFacts(c) /\ Clicks(page, c)
  <2>1. CASE ApplyPromotion
    <3>1. PICK removing \in BOOLEAN :
            Clicks(page, [NewCall("promotion") EXCEPT !.sent = [revision |-> page.cart.revision, removing |-> removing]])
      BY <2>1 DEF ApplyPromotion
    <3>2. page.cart.revision \in Nat
      BY <1>1, <2>1 DEF ApplyPromotion, PageState, ShownCart
    <3>3. PICK s \in PromotionSent : s = [revision |-> page.cart.revision, removing |-> removing]
      BY <3>2 DEF PromotionSent
    <3>4. [NewCall("promotion") EXCEPT !.sent = s]
            = [op |-> "promotion", n |-> 1, by |-> "click", sent |-> s, reply |-> [status |-> "none"]]
      BY DEF NewCall, Unanswered
    <3>5. PICK c : c = [op |-> "promotion", n |-> 1, by |-> "click", sent |-> s, reply |-> [status |-> "none"]]
      OBVIOUS
    <3>6. c \in PageCall /\ ReplyFacts(c)
      BY <3>5 DEF PageCall, PageReply, Plain, Refusal, WithCart, ReplyFacts
    <3>7. QED
      BY <3>1, <3>3, <3>4, <3>5, <3>6
  <2>2. ASSUME NEW stage, NEW op \in {"refreshCheckout", "refreshCart"}, RefreshAfter(stage, op)
        PROVE  \E c : c \in PageCall /\ ReplyFacts(c) /\ Clicks(page, c)
    <3>1. PICK n \in 1 .. 2 : Clicks(page, [NewCall(op) EXCEPT !.n = n])
      BY <2>2 DEF RefreshAfter
    <3>2. PICK c : c = [NewCall(op) EXCEPT !.n = n]
      OBVIOUS
    <3>3. c = [op |-> op, n |-> n, by |-> "click", sent |-> Nothing, reply |-> [status |-> "none"]]
      BY <2>2, <3>2 DEF NewCall, Unanswered
    <3>4. c \in PageCall /\ ReplyFacts(c)
      BY <2>2, <3>3 DEF PageCall, PageReply, Plain, Refusal, WithCart, ReplyFacts
    <3>5. QED
      BY <3>1, <3>2, <3>4
  <2>3. QED
    BY <2>1, <2>2
<1>3. UNCHANGED <<shop, used, page>> /\ calls' = calls \union {c}
  BY <1>2 DEF Clicks
<1>4. ReadyHasCart'
  BY <1>3 DEF CpInv, ReadyHasCart
<1>5. \A d \in calls' : d \in calls \/ (d \in PageCall /\ ReplyFacts(d))
  BY <1>2, <1>3
<1>6. QED
  BY <1>1, <1>3, <1>4, <1>5, PageStep

\* A page that is loaded forgets its key.
LEMMA LoadHolds == ASSUME CpInv, NEW linked \in BOOLEAN, LoadPage(linked) PROVE CpInv'
<1>1. page \in PageState /\ page.run + 1 \in Nat
  BY DEF CpInv, CpTypeOK, PageState, Stage
<1>2. /\ page' \in PageState /\ page'.key = Nothing /\ page'.stage \in {"INITIALISING", "VERIFYING_ORDER"}
      /\ UNCHANGED <<shop, used>>
  <2>1. CASE linked
    <3>1. page' = [Fresh EXCEPT !.order = TRUE, !.linked = TRUE, !.stage = "VERIFYING_ORDER",
                                !.run = page.run + 1, !.reads = 1]
      BY <2>1 DEF LoadPage
    <3>2. "VERIFYING_ORDER" \in Stage
      BY DEF Stage
    <3>3. page' \in PageState /\ page'.key = Nothing /\ page'.stage = "VERIFYING_ORDER"
      BY <1>1, <3>1, <3>2, FreshState DEF PageState
    <3>4. QED
      BY <3>3 DEF LoadPage
  <2>2. CASE ~linked
    <3>1. page' = [Fresh EXCEPT !.run = page.run]
      BY <2>2 DEF LoadPage
    <3>2. page' \in PageState /\ page'.key = Nothing /\ page'.stage = "INITIALISING"
      BY <1>1, <3>1, FreshState DEF PageState
    <3>3. QED
      BY <3>2 DEF LoadPage
  <2>3. QED
    BY <2>1, <2>2
<1>3. calls' = {VerifyCall(page.run + 1, "load")} \/ calls' = {NewCall("refreshCheckout")}
  BY DEF LoadPage
<1>4. \A c \in calls' : c \in calls \/ (c \in PageCall /\ ReplyFacts(c))
  BY <1>1, <1>3, CallsMade
<1>5. QED
  BY <1>2, <1>4, PageStep DEF ReadyHasCart

-----------------------------------------------------------------------------
(* What the answers do *)

LEMMA AnsweredStep ==
    ASSUME CpInv, NEW c \in calls, NEW next \in PageState, NEW more, Answered(c, next, more),
           next.key = page.key,
           \A d \in more : d \in PageCall /\ ReplyFacts(d),
           next.stage = "CONFIRMED" => page.stage = "CONFIRMED" \/ shop.payment = "SUCCEEDED",
           next.stage \in {"CHECKOUT_READY", "REQUIRES_CART_REVIEW"} => next.cart \in ShownCart
    PROVE  CpInv'
<1>1. page' = next /\ calls' = (calls \ {c}) \union more /\ UNCHANGED <<shop, used>>
  BY DEF Answered
<1>2. ReadyHasCart'
  BY <1>1 DEF ReadyHasCart
<1>3. \A d \in calls' : d \in calls \/ (d \in PageCall /\ ReplyFacts(d))
  BY <1>1
<1>4. QED
  BY <1>1, <1>2, <1>3, PageStep

\* What every answer rests on.
LEMMA AnswerFields ==
    ASSUME CpInv, NEW c \in calls
    PROVE  /\ page \in PageState /\ c \in PageCall /\ ReplyFacts(c)
           /\ c.reply.status \in WithCart => c.reply.cart \in ShownCart
           /\ page.stage \in {"CHECKOUT_READY", "REQUIRES_CART_REVIEW"} => page.cart \in ShownCart
BY DEF CpInv, CpTypeOK, PageCall, PageReply, Plain, Refusal, WithCart, ReadyHasCart

LEMMA RefreshAnsweredHolds ==
    ASSUME CpInv, NEW c \in calls, c.reply # Unanswered, RefreshAnswered(c)
    PROVE  CpInv'
<1>1. c.reply.status \in {"error", "ok"}
  <2>1. c.reply.status \in {"none", "error", "ok"} /\ c.reply \in PageReply
    BY AnswerFields DEF RefreshAnswered, ReplyFacts, PageCall
  <2>2. c.reply.status = "none" => c.reply = [status |-> "none"]
    BY <2>1 DEF PageReply, Plain, Refusal, WithCart
  <2>3. QED
    BY <2>1, <2>2 DEF Unanswered
<1>2. CASE c.reply.status = "error"
  <2>1. PICK next : next = [page EXCEPT !.stage = "ERROR"]
    OBVIOUS
  <2>2. next \in PageState /\ next.key = page.key /\ next.stage = "ERROR"
    BY <2>1, AnswerFields DEF PageState, Stage
  <2>3. Answered(c, next, {})
    BY <1>2, <2>1 DEF RefreshAnswered
  <2>4. QED
    BY <2>2, <2>3, AnsweredStep
<1>3. CASE c.reply.status = "ok"
  <2>1. PICK d \in ChosenMethod : d = IF page.method = Nothing THEN CHOOSE e \in Method : TRUE ELSE page.method
    BY AnswerFields, Methods DEF PageState
  <2>2. PICK next : next = [page EXCEPT !.stage = "CHECKOUT_READY", !.cart = c.reply.cart, !.method = d]
    OBVIOUS
  <2>3. c.reply.cart \in ShownCart
    BY <1>3, AnswerFields DEF WithCart
  <2>4. next \in PageState /\ next.key = page.key /\ next.stage = "CHECKOUT_READY" /\ next.cart = c.reply.cart
    BY <2>2, <2>3, AnswerFields DEF PageState, Stage
  <2>5. Answered(c, next, {})
    BY <1>3, <2>1, <2>2 DEF RefreshAnswered
  <2>6. QED
    BY <2>3, <2>4, <2>5, AnsweredStep
<1>4. QED
  BY <1>1, <1>2, <1>3

LEMMA SubmitAnsweredHolds ==
    ASSUME CpInv, NEW c \in calls, c.reply # Unanswered, SubmitAnswered(c)
    PROVE  CpInv'
<1>1. c.reply.status \in Refusal \union {"error", "REQUIRES_CART_REVIEW"}
  <2>1. c.reply.status \in Refusal \union {"none", "error", "REQUIRES_CART_REVIEW"} /\ c.reply \in PageReply
    BY AnswerFields DEF SubmitAnswered, ReplyFacts, PageCall
  <2>2. c.reply.status = "none" => c.reply = [status |-> "none"]
    BY <2>1 DEF PageReply, WithCart
  <2>3. QED
    BY <2>1, <2>2 DEF Unanswered
<1>2. PICK stage \in Stage : /\ stage = IF c.reply.status = "error" THEN "ERROR" ELSE c.reply.status
                             /\ stage \notin {"CONFIRMED", "CHECKOUT_READY"}
                             /\ stage = "REQUIRES_CART_REVIEW" => c.reply.status = "REQUIRES_CART_REVIEW"
  BY <1>1 DEF Refusal, Stage
<1>3. PICK shown \in ShownCart \union {Nothing} :
            /\ shown = IF c.reply.status = "REQUIRES_CART_REVIEW" THEN c.reply.cart ELSE page.cart
            /\ c.reply.status = "REQUIRES_CART_REVIEW" => shown \in ShownCart
  BY AnswerFields DEF WithCart, PageState
<1>4. PICK placed \in BOOLEAN : placed = (page.order \/ c.reply.status = "READY_FOR_PAYMENT")
  OBVIOUS
<1>5. PICK next : next = [page EXCEPT !.stage = stage, !.order = placed, !.cart = shown]
  OBVIOUS
<1>6. next \in PageState /\ next.key = page.key /\ next.stage = stage /\ next.cart = shown
  BY <1>5, AnswerFields DEF PageState
<1>7. Answered(c, next, {})
  BY <1>2, <1>3, <1>4, <1>5 DEF SubmitAnswered
<1>8. QED
  BY <1>2, <1>3, <1>6, <1>7, AnsweredStep

LEMMA PromotionAnsweredHolds ==
    ASSUME CpInv, NEW c \in calls, c.reply # Unanswered, PromotionAnswered(c)
    PROVE  CpInv'
<1>1. c.reply.status \in {"error", "ok"}
  <2>1. c.reply.status \in {"none", "error", "ok"} /\ c.reply \in PageReply
    BY AnswerFields DEF PromotionAnswered, ReplyFacts, PageCall
  <2>2. c.reply.status = "none" => c.reply = [status |-> "none"]
    BY <2>1 DEF PageReply, WithCart
  <2>3. QED
    BY <2>1, <2>2 DEF Unanswered
<1>2. CASE c.reply.status = "error"
  <2>1. Answered(c, page, {})
    BY <1>2 DEF PromotionAnswered
  <2>2. QED
    BY <2>1, AnswerFields, AnsweredStep
<1>3. CASE c.reply.status = "ok"
  <2>1. PICK stage \in Stage : /\ stage = IF c.sent.removing THEN "CHECKOUT_READY" ELSE page.stage
                               /\ stage # "CHECKOUT_READY" => stage = page.stage
    BY AnswerFields DEF PageState, Stage
  <2>2. PICK next : next = [page EXCEPT !.cart = c.reply.cart, !.stage = stage]
    OBVIOUS
  <2>3. c.reply.cart \in ShownCart
    BY <1>3, AnswerFields DEF WithCart
  <2>4. next \in PageState /\ next.key = page.key /\ next.stage = stage /\ next.cart = c.reply.cart
    BY <2>2, <2>3, AnswerFields DEF PageState
  <2>5. Answered(c, next, {})
    BY <1>3, <2>1, <2>2 DEF PromotionAnswered
  <2>6. QED
    BY <2>1, <2>3, <2>4, <2>5, AnsweredStep
<1>4. QED
  BY <1>1, <1>2, <1>3

LEMMA PaymentAnsweredHolds ==
    ASSUME CpInv, NEW c \in calls,
           InitiateAnswered(c) \/ \E failed \in BOOLEAN : StripeAnswered(c, failed)
    PROVE  CpInv'
<1>1. CASE Answered(c, [page EXCEPT !.stage = "PAYMENT_FAILED"], {})
  <2>1. PICK next : next = [page EXCEPT !.stage = "PAYMENT_FAILED"]
    OBVIOUS
  <2>2. next \in PageState /\ next.key = page.key /\ next.stage = "PAYMENT_FAILED"
    BY <2>1, AnswerFields DEF PageState, Stage
  <2>3. QED
    <3>1. Answered(c, next, {})
      BY <1>1, <2>1
    <3>2. QED
      BY <2>2, <3>1, AnsweredStep
<1>2. CASE Answered(c, [page EXCEPT !.secret = TRUE], {})
  <2>1. PICK next : next = [page EXCEPT !.secret = TRUE]
    OBVIOUS
  <2>2. next \in PageState /\ next.key = page.key /\ next.stage = page.stage /\ next.cart = page.cart
    BY <2>1, AnswerFields DEF PageState
  <2>3. QED
    <3>1. Answered(c, next, {})
      BY <1>2, <2>1
    <3>2. QED
      BY <2>2, <3>1, AnswerFields, AnsweredStep
<1>3. CASE Answered(c, Verifying, {VerifyCall(Verifying.run, "payment")})
  BY <1>3, VerifyingState, AnsweredStep
<1>4. QED
  BY <1>1, <1>2, <1>3 DEF InitiateAnswered, StripeAnswered

\* A read of the order confirms it only when it says that it is paid, which
\* then stays true.
LEMMA VerifyAnsweredHolds ==
    ASSUME CpInv, NEW c \in calls, VerifyAnswered(c)
    PROVE  CpInv'
<1>1. c.op = "verify" /\ page \in PageState /\ c.by \in {"click", "load", "payment"}
  BY AnswerFields DEF VerifyAnswered, PageCall
<1>2. CASE Answered(c, page, {})
  BY <1>2, AnswerFields, AnsweredStep
<1>3. ASSUME NEW stage \in Stage \ {"CHECKOUT_READY", "REQUIRES_CART_REVIEW"},
             Answered(c, [page EXCEPT !.stage = stage], {}),
             stage = "CONFIRMED" => shop.payment = "SUCCEEDED"
      PROVE  CpInv'
  <2>1. PICK next : next = [page EXCEPT !.stage = stage]
    OBVIOUS
  <2>2. next \in PageState /\ next.key = page.key /\ next.stage = stage
    BY <1>1, <2>1 DEF PageState
  <2>3. QED
    <3>1. Answered(c, next, {})
      BY <1>3, <2>1
    <3>2. QED
      BY <1>3, <2>2, <3>1, AnsweredStep
<1>4. CASE VerifiedCompletion(c.reply.status) /\ Answered(c, [page EXCEPT !.stage = "CONFIRMED"], {})
  <2>1. shop.payment = "SUCCEEDED"
    BY <1>1, <1>4, AnswerFields DEF VerifiedCompletion, ReplyFacts
  <2>2. QED
    BY <1>3, <1>4, <2>1 DEF Stage
<1>5. CASE Answered(c, [page EXCEPT !.run = @ + 1, !.order = FALSE, !.linked = FALSE, !.secret = FALSE],
                    {NewCall("refreshCheckout")})
  <2>1. PICK next : next = [page EXCEPT !.run = @ + 1, !.order = FALSE, !.linked = FALSE, !.secret = FALSE]
    OBVIOUS
  <2>2. page.run + 1 \in Nat
    BY <1>1 DEF PageState
  <2>3. next \in PageState /\ next.key = page.key /\ next.stage = page.stage /\ next.cart = page.cart
    BY <1>1, <2>1, <2>2 DEF PageState
  <2>4. QED
    BY <1>5, <2>1, <2>3, CallsMade, AnswerFields, AnsweredStep
<1>6. ASSUME NEW pending \in BOOLEAN,
             Answered(c, [page EXCEPT !.reads = @ + 1, !.sawPending = pending], {VerifyCall(page.run, c.by)})
      PROVE  CpInv'
  <2>1. PICK next : next = [page EXCEPT !.reads = @ + 1, !.sawPending = pending]
    OBVIOUS
  <2>2. page.reads + 1 \in Nat /\ page.run \in Nat
    BY <1>1 DEF PageState
  <2>3. next \in PageState /\ next.key = page.key /\ next.stage = page.stage /\ next.cart = page.cart
    BY <1>1, <2>1, <2>2 DEF PageState
  <2>4. QED
    BY <1>1, <1>6, <2>1, <2>2, <2>3, CallsMade, AnswerFields, AnsweredStep
<1>7. \A stage \in {"PAYMENT_FAILED", "PAYMENT_EXPIRED", "PAYMENT_PENDING", "ERROR"} :
            stage \in Stage \ {"CHECKOUT_READY", "REQUIRES_CART_REVIEW"} /\ stage # "CONFIRMED"
  BY DEF Stage
<1>8. QED
  <2> DEFINE status == c.reply.status
             unknown == status \in {"error", "NOT_FOUND"}
             pending == IF unknown THEN page.sawPending ELSE status = "PENDING"
  <2>1. pending \in BOOLEAN
    BY <1>1 DEF PageState
  <2>2. \/ Answered(c, page, {})
        \/ VerifiedCompletion(status) /\ Answered(c, [page EXCEPT !.stage = "CONFIRMED"], {})
        \/ Answered(c, [page EXCEPT !.stage = IF status = "FAILED" THEN "PAYMENT_FAILED" ELSE "PAYMENT_EXPIRED"], {})
        \/ Answered(c, [page EXCEPT !.run = @ + 1, !.order = FALSE, !.linked = FALSE, !.secret = FALSE],
                    {NewCall("refreshCheckout")})
        \/ Answered(c, [page EXCEPT !.reads = @ + 1, !.sawPending = pending], {VerifyCall(page.run, c.by)})
        \/ Answered(c, [page EXCEPT !.stage = IF pending THEN "PAYMENT_PENDING" ELSE "ERROR"], {})
    BY DEF VerifyAnswered
  <2>3. QED
    BY <1>2, <1>3, <1>4, <1>5, <1>6, <1>7, <2>1, <2>2

LEMMA CpNextHolds == ASSUME CpInv, [CpNext]_cpVars PROVE CpInv'
<1>1. CASE UNCHANGED cpVars
  BY <1>1 DEF cpVars, CpInv, CpTypeOK, KeyFacts, KeyServesOneRequest, PaymentHasOrder, ReadyHasCart,
              ReplyFacts, ConfirmedIsPaid
<1>2. CASE CartChangesElsewhere \/ \E status \in {"SUCCEEDED", "FAILED", "EXPIRED"} : PaymentSettles(status)
  BY <1>2, ShopChanges
<1>3. CASE SubmitCheckout
  BY <1>3, SubmitHolds
<1>4. CASE \/ ReviewCart \/ PayNow \/ ConfirmPayment \/ CheckOrder
           \/ \E d \in Method : ChooseMethod(d)
           \/ \E loaded \in BOOLEAN : MountPayment(loaded)
  BY <1>4, ClicksHold
<1>5. CASE \/ ApplyPromotion
           \/ RefreshAfter("CHECKOUT_CONFLICT", "refreshCheckout")
           \/ RefreshAfter("OUT_OF_STOCK", "refreshCart")
  BY <1>5, RequestsHold
<1>6. ASSUME NEW linked \in BOOLEAN, LoadPage(linked \/ page.linked) PROVE CpInv'
  <2>1. PICK l \in BOOLEAN : l = (linked \/ page.linked)
    OBVIOUS
  <2>2. QED
    BY <1>6, <2>1, LoadHolds
<1>7. ASSUME NEW c \in calls, Serve(c) \/ Fails(c) PROVE CpInv'
  BY <1>7, ServeHolds, FailsHolds
<1>8. ASSUME NEW c \in calls, NEW failed \in BOOLEAN, StripeAnswered(c, failed) PROVE CpInv'
  BY <1>8, PaymentAnsweredHolds
<1>9. ASSUME NEW c \in calls, c.reply # Unanswered,
             \/ RefreshAnswered(c) \/ SubmitAnswered(c) \/ PromotionAnswered(c)
             \/ InitiateAnswered(c) \/ VerifyAnswered(c)
      PROVE  CpInv'
  BY <1>9, RefreshAnsweredHolds, SubmitAnsweredHolds, PromotionAnsweredHolds, PaymentAnsweredHolds,
     VerifyAnsweredHolds
<1>10. QED
  BY <1>1, <1>2, <1>3, <1>4, <1>5, <1>6, <1>7, <1>8, <1>9 DEF CpNext

\* What the page knows of its keys and of its answers, in every state.
THEOREM CheckoutPageInvariant == CpSpec => []CpInv
<1>1. CpInit => CpInv
  BY CpInitHolds
<1>2. CpInv /\ [CpNext]_cpVars => CpInv'
  BY CpNextHolds
<1>3. QED
  BY <1>1, <1>2, PTL DEF CpSpec

\* useCheckout makes a new key for every change of the request that it sends: the
\* service never answers one request with the order of another, whatever is
\* loaded again, lost and retried.
THEOREM KeysServeOneRequest == CpSpec => []KeyServesOneRequest
<1>1. CpInv => KeyServesOneRequest
  BY DEF CpInv, KeyFacts
<1>2. QED
  BY <1>1, CheckoutPageInvariant, PTL

\* verifyOrder shows a confirmation only after the service has read a payment
\* that succeeded, whatever Stripe's form reported and however often it is asked.
THEOREM ConfirmedOrdersArePaid == CpSpec => []ConfirmedIsPaid
<1>1. CpInv => ConfirmedIsPaid
  BY DEF CpInv
<1>2. QED
  BY <1>1, CheckoutPageInvariant, PTL

-----------------------------------------------------------------------------
(* The screen that releases production batches *)

DeskState ==
    [status : {"loading", "ready", "error"}, load : Nat, released : SUBSET Batch,
     selected : Batch \union {Unreleased}, pending : BOOLEAN, key : [Batch -> Nat], told : SUBSET Batch]
BalanceState == [status : {"loading", "ready", "error"}, load : Nat, includes : SUBSET Batch]

\* A release is never answered by a conflict.
ReadReply == [status : {"none", "error"}] \union [status : {"ok"}, released : SUBSET Batch]
ReleaseReply == [status : {"none", "error", "ok"}]
DeskRead == [op : {"batches", "stock"}, load : Nat, reply : ReadReply]
DeskRelease == [op : {"release"}, batch : Batch, key : Nat \ {0}, reply : ReleaseReply]

BdTypeOK ==
    /\ releasedWith \in [Batch -> Nat \union {Unreleased}]
    /\ desk \in DeskState
    /\ balances \in BalanceState
    /\ asked \subseteq DeskRead \union DeskRelease

Keyed == {b \in Batch : desk.key[b] # 0}

\* The keys of the batches are numbered and no two are the same; a batch was
\* released with its own key or by others.
BatchKeys ==
    /\ \A b \in Batch : desk.key[b] <= Cardinality(Keyed)
    /\ \A a, b \in Batch : desk.key[a] = desk.key[b] /\ desk.key[a] # 0 => a = b
    /\ \A b \in Batch : releasedWith[b] \in {Unreleased, 0, desk.key[b]}
    /\ \A c \in asked : c.op = "release" => c.key = desk.key[c.batch]

BdInv == BdTypeOK /\ BatchKeys

-----------------------------------------------------------------------------
LEMMA DeskCalls ==
    ASSUME BdTypeOK, NEW c \in asked
    PROVE  /\ c.op = "release" <=> c \in DeskRelease
           /\ c.op # "release" <=> c \in DeskRead
           /\ c \in DeskRead => c.reply \in ReadReply
           /\ c \in DeskRelease => c.reply \in ReleaseReply
BY DEF BdTypeOK, DeskRead, DeskRelease

\* A step of the screen that makes no key.
LEMMA BatchDeskStep ==
    ASSUME BdInv, UNCHANGED releasedWith,
           desk' \in DeskState, desk'.key = desk.key, balances' \in BalanceState,
           \A c \in asked' : c \in asked \/ c \in DeskRead
    PROVE  BdInv'
<1>1. BdTypeOK'
  BY DEF BdInv, BdTypeOK
<1>2. Keyed' = Keyed
  BY DEF Keyed
<1>3. \A c \in asked' : c.op = "release" => c.key = desk'.key[c.batch]
  BY DEF BdInv, BatchKeys, DeskRead
<1>4. BatchKeys'
  BY <1>2, <1>3 DEF BdInv, BatchKeys
<1>5. QED
  BY <1>1, <1>4 DEF BdInv

\* An answer to a request: the batch of a release stays, and its key.
LEMMA AnswerStep ==
    ASSUME BdInv, UNCHANGED <<desk, balances>>,
           releasedWith' \in [Batch -> Nat \union {Unreleased}],
           \A b \in Batch : releasedWith'[b] \in {Unreleased, 0, desk.key[b]},
           NEW c \in asked, NEW d \in DeskRead \union DeskRelease,
           d.op = c.op, c.op = "release" => d.batch = c.batch /\ d.key = c.key,
           asked' = (asked \ {c}) \union {d}
    PROVE  BdInv'
<1>1. BdTypeOK'
  BY DEF BdInv, BdTypeOK
<1>2. Keyed' = Keyed
  BY DEF Keyed
<1>3. \A e \in asked' : e.op = "release" => e.key = desk.key[e.batch]
  BY DEF BdInv, BatchKeys
<1>4. BatchKeys'
  BY <1>2, <1>3 DEF BdInv, BatchKeys
<1>5. QED
  BY <1>1, <1>4 DEF BdInv

LEMMA BdInitHolds == BdInit => BdInv
<1> SUFFICES ASSUME BdInit PROVE BdInv
  OBVIOUS
<1>1. desk \in DeskState /\ (\A b \in Batch : desk.key[b] = 0) /\ balances \in BalanceState
  BY DEF BdInit, DeskState, BalanceState
<1>2. Read("batches", 1) \in DeskRead /\ Read("stock", 1) \in DeskRead
  BY DEF Read, NoReply, DeskRead, ReadReply
<1>3. BdTypeOK
  BY <1>1, <1>2 DEF BdInit, BdTypeOK
<1>4. Keyed = {}
  BY <1>1 DEF Keyed
<1>5. \A c \in asked : c.op # "release"
  BY <1>2 DEF BdInit, DeskRead
<1>6. BatchKeys
  BY <1>1, <1>4, <1>5, FS_EmptySet DEF BatchKeys, BdInit
<1>7. QED
  BY <1>3, <1>6 DEF BdInv

-----------------------------------------------------------------------------
LEMMA ElsewhereHolds == ASSUME BdInv, NEW b \in Batch, ReleasedElsewhere(b) PROVE BdInv'
<1>1. BdTypeOK'
  BY DEF BdInv, BdTypeOK, ReleasedElsewhere
<1>2. Keyed' = Keyed
  BY DEF Keyed, ReleasedElsewhere
<1>3. BatchKeys'
  BY <1>2 DEF BdInv, BdTypeOK, BatchKeys, ReleasedElsewhere
<1>4. QED
  BY <1>1, <1>3 DEF BdInv

LEMMA ServeReadHolds == ASSUME BdInv, NEW c \in asked, ServeRead(c) PROVE BdInv'
<1>1. c \in DeskRead
  BY DeskCalls DEF BdInv, ServeRead
<1>2. PICK d : d = [c EXCEPT !.reply = [status |-> "ok", released |-> Released]]
  OBVIOUS
<1>3. [status |-> "ok", released |-> Released] \in ReadReply
  BY DEF Released, ReadReply
<1>4. d \in DeskRead /\ d.op = c.op
  BY <1>1, <1>2, <1>3 DEF DeskRead
<1>5. asked' = (asked \ {c}) \union {d} /\ UNCHANGED <<releasedWith, desk, balances>>
  BY <1>2 DEF ServeRead, Reply
<1>6. c.op # "release"
  BY <1>1 DEF DeskRead
<1>7. QED
  BY <1>4, <1>5, <1>6, AnswerStep DEF BdInv, BdTypeOK, BatchKeys

\* No other batch has the key of this release.
LEMMA ServeReleaseHolds == ASSUME BdInv, NEW c \in asked, ServeRelease(c) PROVE BdInv'
<1> DEFINE b == c.batch
           taken == \E o \in Batch \ {b} : releasedWith[o] = c.key
<1>1. c \in DeskRelease /\ c.op = "release"
  BY DeskCalls DEF BdInv, ServeRelease
<1>2. b \in Batch /\ c.key \in Nat \ {0} /\ c.key = desk.key[b]
  BY <1>1 DEF DeskRelease, BdInv, BatchKeys
<1>3. ~taken
  <2>1. ASSUME NEW o \in Batch \ {b}, releasedWith[o] = c.key PROVE FALSE
    <3>1. releasedWith[o] \in {Unreleased, 0, desk.key[o]} /\ c.key # Unreleased
      BY <1>2, BatchDeskAssumption DEF BdInv, BatchKeys
    <3>2. desk.key[o] = desk.key[b]
      BY <1>2, <2>1, <3>1
    <3>3. QED
      BY <1>2, <3>2 DEF BdInv, BatchKeys
  <2>2. QED
    BY <2>1
<1>4. PICK d : d = [c EXCEPT !.reply = [status |-> "ok"]]
  OBVIOUS
<1>5. d \in DeskRelease /\ d.op = c.op /\ d.batch = c.batch /\ d.key = c.key
  BY <1>1, <1>4 DEF DeskRelease, ReleaseReply
<1>6. asked' = (asked \ {c}) \union {d} /\ UNCHANGED <<desk, balances>>
  BY <1>3, <1>4 DEF ServeRelease, Reply
<1>7. releasedWith' = releasedWith \/ releasedWith' = [releasedWith EXCEPT ![b] = c.key]
  BY DEF ServeRelease
<1>8. /\ releasedWith' \in [Batch -> Nat \union {Unreleased}]
      /\ \A o \in Batch : releasedWith'[o] \in {Unreleased, 0, desk.key[o]}
  BY <1>2, <1>7 DEF BdInv, BdTypeOK, BatchKeys
<1>9. QED
  BY <1>5, <1>6, <1>8, AnswerStep

LEMMA RequestFailsHolds == ASSUME BdInv, NEW c \in asked, RequestFails(c) PROVE BdInv'
<1>1. PICK d : d = [c EXCEPT !.reply = [status |-> "error"]]
  OBVIOUS
<1>2. CASE c \in DeskRead
  <2>1. d \in DeskRead /\ d.op = c.op /\ c.op # "release"
    BY <1>1, <1>2 DEF DeskRead, ReadReply
  <2>2. asked' = (asked \ {c}) \union {d} /\ UNCHANGED <<releasedWith, desk, balances>>
    BY <1>1 DEF RequestFails, Reply
  <2>3. QED
    BY <2>1, <2>2, AnswerStep DEF BdInv, BdTypeOK, BatchKeys
<1>3. CASE c \in DeskRelease
  <2>1. d \in DeskRelease /\ d.op = c.op /\ d.batch = c.batch /\ d.key = c.key
    BY <1>1, <1>3 DEF DeskRelease, ReleaseReply
  <2>2. asked' = (asked \ {c}) \union {d} /\ UNCHANGED <<releasedWith, desk, balances>>
    BY <1>1 DEF RequestFails, Reply
  <2>3. QED
    BY <2>1, <2>2, AnswerStep DEF BdInv, BdTypeOK, BatchKeys
<1>4. QED
  BY <1>2, <1>3 DEF BdInv, BdTypeOK

-----------------------------------------------------------------------------
LEMMA ReloadedState ==
    ASSUME BdInv
    PROVE  Reloaded \in BalanceState /\ StockRead \in DeskRead
<1>1. balances \in BalanceState /\ balances.load + 1 \in Nat
  BY DEF BdInv, BdTypeOK, BalanceState
<1>2. QED
  BY <1>1 DEF Reloaded, StockRead, Read, NoReply, BalanceState, DeskRead, ReadReply

LEMMA DeskReads ==
    ASSUME BdInv,
           \/ RefreshStock \/ RefreshBatches
           \/ \E b \in Batch \union {Unreleased} : SelectBatch(b)
    PROVE  BdInv'
<1>1. desk \in DeskState /\ balances \in BalanceState
  BY DEF BdInv, BdTypeOK
<1>2. CASE RefreshStock
  BY <1>1, <1>2, ReloadedState, BatchDeskStep DEF RefreshStock
<1>3. CASE RefreshBatches
  <2>1. desk.load + 1 \in Nat
    BY <1>1 DEF DeskState
  <2>2. desk' \in DeskState /\ desk'.key = desk.key
    BY <1>1, <1>3, <2>1 DEF RefreshBatches, DeskState
  <2>3. Read("batches", desk.load + 1) \in DeskRead
    BY <2>1 DEF Read, NoReply, DeskRead, ReadReply
  <2>4. \A c \in asked' : c \in asked \/ c \in DeskRead
    BY <1>3, <2>3 DEF RefreshBatches
  <2>5. QED
    BY <1>1, <1>3, <2>2, <2>4, BatchDeskStep DEF RefreshBatches
<1>4. ASSUME NEW b \in Batch \union {Unreleased}, SelectBatch(b) PROVE BdInv'
  <2>1. PICK told \in SUBSET Batch : told = IF b = Unreleased THEN desk.told ELSE {}
    BY <1>1 DEF DeskState
  <2>2. desk' = [desk EXCEPT !.selected = b, !.told = told] /\ UNCHANGED <<releasedWith, balances, asked>>
    BY <1>4, <2>1 DEF SelectBatch
  <2>3. desk' \in DeskState /\ desk'.key = desk.key
    BY <1>1, <2>2 DEF DeskState
  <2>4. QED
    BY <1>1, <2>2, <2>3, BatchDeskStep
<1>5. QED
  BY <1>2, <1>3, <1>4

\* The key of a batch that has none yet is a new one.
LEMMA ConfirmHolds == ASSUME BdInv, ConfirmRelease PROVE BdInv'
<1> DEFINE b == desk.selected
           k == KeyOf(b)
           d == [op |-> "release", batch |-> b, key |-> k, reply |-> NoReply]
<1>1. desk \in DeskState /\ b \in Batch /\ desk.key \in [Batch -> Nat]
  BY DEF BdInv, BdTypeOK, DeskState, ConfirmRelease
<1>2. IsFiniteSet(Keyed) /\ Cardinality(Keyed) \in Nat
  <2>1. Keyed \subseteq Batch
    BY DEF Keyed
  <2>2. QED
    BY <2>1, BatchDeskAssumption, FS_Subset, FS_CardinalityType
<1>3. \/ desk.key[b] # 0 /\ k = desk.key[b]
      \/ desk.key[b] = 0 /\ k = Cardinality(Keyed) + 1
  BY DEF KeyOf, Keyed
<1>4. k \in Nat \ {0}
  BY <1>1, <1>2, <1>3
<1>5. PICK keys \in [Batch -> Nat] : keys = [desk.key EXCEPT ![b] = k]
  BY <1>1, <1>4
<1>6. desk' = [desk EXCEPT !.pending = TRUE, !.key = keys, !.told = {}]
  BY <1>5 DEF ConfirmRelease
<1>7. desk' \in DeskState /\ desk'.key = keys
  BY <1>1, <1>6 DEF DeskState
<1>8. asked' = asked \union {d} /\ UNCHANGED <<releasedWith, balances>>
  BY DEF ConfirmRelease
<1>9. d \in DeskRelease
  BY <1>1, <1>4 DEF DeskRelease, ReleaseReply, NoReply
<1>10. BdTypeOK'
  BY <1>7, <1>8, <1>9 DEF BdInv, BdTypeOK
<1>11. Keyed' = Keyed \union {b}
  BY <1>1, <1>4, <1>5, <1>7 DEF Keyed
<1>12. Cardinality(Keyed') = IF desk.key[b] # 0 THEN Cardinality(Keyed) ELSE Cardinality(Keyed) + 1
  <2>1. b \in Keyed <=> desk.key[b] # 0
    BY <1>1 DEF Keyed
  <2>2. QED
    BY <1>2, <1>11, <2>1, FS_AddElement
<1>13. BatchKeys'
  <2>1. ASSUME NEW o \in Batch PROVE keys[o] <= Cardinality(Keyed') /\ keys[o] = IF o = b THEN k ELSE desk.key[o]
    <3>1. keys[o] = IF o = b THEN k ELSE desk.key[o]
      BY <1>1, <1>5
    <3>2. desk.key[o] <= Cardinality(Keyed) /\ desk.key[o] \in Nat
      BY <1>1 DEF BdInv, BatchKeys
    <3>3. QED
      BY <1>2, <1>3, <1>12, <3>1, <3>2
  <2>2. ASSUME NEW a \in Batch, NEW o \in Batch, keys[a] = keys[o], keys[a] # 0 PROVE a = o
    <3>1. /\ desk.key[a] <= Cardinality(Keyed) /\ desk.key[o] <= Cardinality(Keyed)
          /\ desk.key[a] \in Nat /\ desk.key[o] \in Nat
      BY <1>1 DEF BdInv, BatchKeys
    <3>2. desk.key[a] = desk.key[o] /\ desk.key[a] # 0 => a = o
      BY DEF BdInv, BatchKeys
    <3>3. QED
      BY <1>2, <1>3, <2>1, <2>2, <3>1, <3>2
  <2>3. ASSUME NEW o \in Batch PROVE releasedWith[o] \in {Unreleased, 0, keys[o]}
    BY <1>3, <2>1 DEF BdInv, BatchKeys
  <2>4. ASSUME NEW c \in asked', c.op = "release" PROVE c.key = keys[c.batch]
    <3>1. CASE c = d
      BY <1>1, <2>1, <3>1
    <3>2. CASE c \in asked
      <4>1. c.batch \in Batch /\ c.key # 0 /\ c.key = desk.key[c.batch]
        BY <2>4, <3>2, DeskCalls DEF BdInv, BatchKeys, DeskRelease
      <4>2. QED
        BY <1>3, <2>1, <4>1
    <3>3. QED
      BY <1>8, <3>1, <3>2
  <2>5. QED
    BY <1>7, <1>8, <2>1, <2>2, <2>3, <2>4 DEF BatchKeys
<1>14. QED
  BY <1>10, <1>13 DEF BdInv

LEMMA AnswersShown ==
    ASSUME BdInv, NEW c \in asked, StockAnswered(c) \/ BatchesAnswered(c) \/ ReleaseAnswered(c)
    PROVE  BdInv'
<1>1. desk \in DeskState /\ balances \in BalanceState
  BY DEF BdInv, BdTypeOK
<1>2. CASE StockAnswered(c)
  <2>1. c.reply \in ReadReply
    BY <1>2, DeskCalls DEF BdInv, StockAnswered
  <2>2. balances' \in BalanceState
    <3>1. c.reply.status = "ok" => c.reply.released \in SUBSET Batch
      BY <2>1 DEF ReadReply
    <3>2. QED
      BY <1>1, <1>2, <3>1 DEF StockAnswered, BalanceState
  <2>3. QED
    BY <1>1, <1>2, <2>2, BatchDeskStep DEF StockAnswered
<1>3. CASE BatchesAnswered(c)
  <2>1. c.reply \in ReadReply
    BY <1>3, DeskCalls DEF BdInv, BatchesAnswered
  <2>2. desk' \in DeskState /\ desk'.key = desk.key
    <3>1. c.reply.status = "ok" => c.reply.released \in SUBSET Batch
      BY <2>1 DEF ReadReply
    <3>2. CASE desk' = desk
      BY <1>1, <3>2
    <3>3. CASE c.reply.status = "ok" /\ desk' = [desk EXCEPT !.status = "ready", !.released = c.reply.released]
      BY <1>1, <3>1, <3>3 DEF DeskState
    <3>4. CASE desk' = [desk EXCEPT !.status = "error"]
      BY <1>1, <3>4 DEF DeskState
    <3>5. QED
      BY <1>3, <3>2, <3>3, <3>4 DEF BatchesAnswered
  <2>3. QED
    BY <1>1, <1>3, <2>2, BatchDeskStep DEF BatchesAnswered
<1>4. CASE ReleaseAnswered(c)
  <2>1. c.batch \in Batch
    BY <1>4, DeskCalls DEF BdInv, ReleaseAnswered, DeskRelease
  <2>2. CASE c.reply.status = "ok"
    <3>1. PICK marked \in SUBSET Batch : marked = desk.released \union {c.batch}
      BY <1>1, <2>1 DEF DeskState
    <3>2. desk' = [desk EXCEPT !.pending = FALSE, !.selected = Unreleased, !.released = marked, !.told = {c.batch}]
      BY <1>4, <2>2, <3>1 DEF ReleaseAnswered
    <3>3. desk' \in DeskState /\ desk'.key = desk.key
      BY <1>1, <2>1, <3>2 DEF DeskState
    <3>4. balances' \in BalanceState /\ \A e \in asked' : e \in asked \/ e \in DeskRead
      BY <1>4, <2>2, ReloadedState DEF ReleaseAnswered
    <3>5. QED
      BY <1>4, <3>3, <3>4, BatchDeskStep DEF ReleaseAnswered
  <2>3. CASE c.reply.status # "ok"
    <3>1. desk' \in DeskState /\ desk'.key = desk.key
      BY <1>1, <1>4, <2>3 DEF ReleaseAnswered, DeskState
    <3>2. QED
      BY <1>1, <1>4, <2>3, <3>1, BatchDeskStep DEF ReleaseAnswered
  <2>4. QED
    BY <2>2, <2>3
<1>5. QED
  BY <1>2, <1>3, <1>4

LEMMA BdNextHolds == ASSUME BdInv, [BdNext]_bdVars PROVE BdInv'
<1>1. CASE UNCHANGED bdVars
  BY <1>1 DEF bdVars, BdInv, BdTypeOK, BatchKeys, Keyed
<1>2. ASSUME NEW c \in asked, ServeRead(c) \/ ServeRelease(c) \/ RequestFails(c) PROVE BdInv'
  BY <1>2, ServeReadHolds, ServeReleaseHolds, RequestFailsHolds
<1>3. ASSUME NEW c \in asked, StockAnswered(c) \/ BatchesAnswered(c) \/ ReleaseAnswered(c) PROVE BdInv'
  BY <1>3, AnswersShown
<1>4. QED
  BY <1>1, <1>2, <1>3, DeskReads, ConfirmHolds, ElsewhereHolds DEF BdNext

\* releaseKeys: each batch has a key of its own, every release under way carries
\* it, and a batch is released with that key or by another administrator.
THEOREM BatchDeskInvariant == BdSpec => []BdInv
<1>1. BdInit => BdInv
  BY BdInitHolds
<1>2. BdInv /\ [BdNext]_bdVars => BdInv'
  BY BdNextHolds
<1>3. QED
  BY <1>1, <1>2, PTL DEF BdSpec

\* confirmRelease keeps the key of a batch until the batch is released: a retry
\* after a lost answer is a replay and never a conflict.
THEOREM ReleasesAreNeverRefused == BdSpec => []ReleaseNeverRefused
<1>1. BdInv => ReleaseNeverRefused
  BY DeskCalls DEF BdInv, ReleaseNeverRefused, BdTypeOK, ReadReply, ReleaseReply
<1>2. QED
  BY <1>1, BatchDeskInvariant, PTL

\* The stock that is shown counts the release that the notice tells of.
ToldIsShown == balances.status = "ready" => desk.told \subseteq balances.includes

\* What a reply knows of the releases that the notice tells of.
ReplyTells(c) ==
    /\ c.op = "release" /\ c.reply.status = "ok" => c.batch \in Released
    /\ c.op = "stock" => c.load <= balances.load
    /\ c.op = "stock" /\ c.load = balances.load /\ c.reply.status = "ok" => desk.told \subseteq c.reply.released

TellInv ==
    /\ BdInv
    /\ desk.told \subseteq Released
    /\ ToldIsShown
    /\ \A c \in asked : ReplyTells(c)

\* A batch that is released stays so.
LEMMA ReleasedStay == ASSUME BdInv, BdNext PROVE Released \subseteq Released'
<1>1. CASE \/ RefreshStock \/ RefreshBatches \/ ConfirmRelease
           \/ \E b \in Batch \union {Unreleased} : SelectBatch(b)
           \/ \E c \in asked : ServeRead(c) \/ RequestFails(c) \/ StockAnswered(c) \/ BatchesAnswered(c) \/ ReleaseAnswered(c)
  BY <1>1 DEF Released, RefreshStock, RefreshBatches, ConfirmRelease, SelectBatch,
              ServeRead, RequestFails, StockAnswered, BatchesAnswered, ReleaseAnswered
<1>2. CASE \E b \in Batch : ReleasedElsewhere(b)
  BY <1>2, BatchDeskAssumption DEF Released, ReleasedElsewhere, BdInv, BdTypeOK
<1>3. ASSUME NEW c \in asked, ServeRelease(c) PROVE Released \subseteq Released'
  <2>1. c.key \in Nat
    BY <1>3, DeskCalls DEF BdInv, ServeRelease, DeskRelease
  <2>2. releasedWith' = releasedWith \/ releasedWith' = [releasedWith EXCEPT ![c.batch] = c.key]
    BY <1>3 DEF ServeRelease
  <2>3. QED
    BY <2>1, <2>2, BatchDeskAssumption DEF Released, BdInv, BdTypeOK
<1>4. QED
  BY <1>1, <1>2, <1>3 DEF BdNext

\* A step that tells of no release and reads no stock.
LEMMA TellStep ==
    ASSUME TellInv, BdInv', Released \subseteq Released', desk'.told \subseteq desk.told,
           balances'.load = balances.load,
           balances'.status = "ready" => balances'.includes = balances.includes /\ balances.status = "ready",
           \A c \in asked' : c \in asked \/ ReplyTells(c)'
    PROVE  TellInv'
<1>1. \A c \in asked : ReplyTells(c)'
  BY DEF TellInv, ReplyTells
<1>2. QED
  BY <1>1 DEF TellInv, ToldIsShown

LEMMA ScreenTells ==
    ASSUME TellInv, BdInv', Released \subseteq Released',
           \/ RefreshStock \/ RefreshBatches \/ ConfirmRelease
           \/ \E b \in Batch : ReleasedElsewhere(b)
           \/ \E b \in Batch \union {Unreleased} : SelectBatch(b)
    PROVE  TellInv'
<1>1. desk \in DeskState /\ balances \in BalanceState
  BY DEF TellInv, BdInv, BdTypeOK
<1>2. CASE RefreshStock
  <2>1. balances'.load = balances.load + 1 /\ balances'.status = "loading" /\ desk' = desk
    BY <1>1, <1>2 DEF RefreshStock, Reloaded, BalanceState
  <2>2. ASSUME NEW c \in asked PROVE ReplyTells(c)'
    <3>1. c.op = "stock" => c.load \in Nat /\ c.load <= balances.load
      BY DeskCalls DEF TellInv, BdInv, ReplyTells, DeskRead
    <3>2. c.op = "stock" => c.load < balances'.load
      BY <1>1, <2>1, <3>1 DEF BalanceState
    <3>3. c.op = "stock" => c.load <= balances'.load /\ c.load # balances'.load
      BY <1>1, <2>1, <3>1, <3>2 DEF BalanceState
    <3>4. QED
      BY <3>3 DEF TellInv, ReplyTells
  <2>3. PICK r : r = StockRead
    OBVIOUS
  <2>4. ReplyTells(r)'
    BY <1>1, <2>1, <2>3 DEF ReplyTells, StockRead, Read, NoReply, BalanceState
  <2>5. QED
    BY <1>2, <2>1, <2>2, <2>3, <2>4 DEF TellInv, ToldIsShown, RefreshStock
<1>3. CASE RefreshBatches
  <2>1. desk'.told = desk.told
    BY <1>1, <1>3 DEF RefreshBatches, DeskState
  <2>2. \A c \in asked' : c \in asked \/ ReplyTells(c)'
    BY <1>3 DEF RefreshBatches, Read, NoReply, ReplyTells
  <2>3. QED
    BY <1>3, <2>1, <2>2, TellStep DEF RefreshBatches
<1>4. CASE ConfirmRelease
  <2>1. desk'.told = {}
    BY <1>1, <1>4 DEF ConfirmRelease, DeskState
  <2>2. \A c \in asked' : c \in asked \/ ReplyTells(c)'
    BY <1>4 DEF ConfirmRelease, NoReply, ReplyTells
  <2>3. QED
    BY <1>4, <2>1, <2>2, TellStep DEF ConfirmRelease
<1>5. CASE \E b \in Batch : ReleasedElsewhere(b)
  BY <1>5, TellStep DEF ReleasedElsewhere
<1>6. ASSUME NEW b \in Batch \union {Unreleased}, SelectBatch(b) PROVE TellInv'
  <2>1. desk'.told \subseteq desk.told
    BY <1>1, <1>6 DEF SelectBatch, DeskState
  <2>2. QED
    BY <1>6, <2>1, TellStep DEF SelectBatch
<1>7. QED
  BY <1>2, <1>3, <1>4, <1>5, <1>6

\* An answer to a request that is still the page's.
LEMMA ServiceTells ==
    ASSUME TellInv, BdInv', Released \subseteq Released', NEW c \in asked,
           ServeRead(c) \/ ServeRelease(c) \/ RequestFails(c)
    PROVE  TellInv'
<1>1. c.op = "stock" => c.load <= balances.load
  BY DEF TellInv, ReplyTells
<1>2. CASE ServeRead(c)
  <2>1. PICK d : d = [c EXCEPT !.reply = [status |-> "ok", released |-> Released]]
    OBVIOUS
  <2>2. c \in DeskRead
    BY <1>2, DeskCalls DEF TellInv, BdInv, ServeRead
  <2>3. d.op = c.op /\ d.op # "release" /\ d.load = c.load /\ d.reply.released = Released
    BY <2>1, <2>2 DEF DeskRead
  <2>4. desk'.told \subseteq Released /\ balances' = balances
    BY <1>2 DEF ServeRead, TellInv
  <2>5. ReplyTells(d)'
    BY <1>1, <2>3, <2>4 DEF ReplyTells
  <2>6. QED
    BY <1>2, <2>1, <2>5, TellStep DEF ServeRead, Reply
<1>3. CASE ServeRelease(c)
  <2>1. c \in DeskRelease /\ c.op = "release"
    BY <1>3, DeskCalls DEF TellInv, BdInv, ServeRelease
  <2>2. c.batch \in Batch /\ c.key \in Nat /\ c.key # Unreleased
    BY <2>1, BatchDeskAssumption DEF DeskRelease
  <2>3. PICK status : asked' = (asked \ {c}) \union {[c EXCEPT !.reply = [status |-> status]]}
                   /\ (status = "ok" => c.batch \in Released \/ releasedWith' = [releasedWith EXCEPT ![c.batch] = c.key])
    BY <1>3 DEF ServeRelease, Reply
  <2>4. PICK d : d = [c EXCEPT !.reply = [status |-> status]]
    OBVIOUS
  <2>5. d.op = "release" /\ d.batch = c.batch /\ d.reply.status = status
    BY <2>1, <2>4 DEF DeskRelease
  <2>6. status = "ok" => c.batch \in Released'
    BY <2>2, <2>3 DEF Released, TellInv, BdInv, BdTypeOK
  <2>7. ReplyTells(d)'
    BY <2>5, <2>6 DEF ReplyTells
  <2>8. QED
    BY <1>3, <2>3, <2>4, <2>7, TellStep DEF ServeRelease
<1>4. CASE RequestFails(c)
  <2>1. PICK d : d = [c EXCEPT !.reply = [status |-> "error"]]
    OBVIOUS
  <2>2. d.op = c.op /\ d.reply.status = "error" /\ (c.op = "stock" => d.load = c.load)
    BY <2>1, DeskCalls DEF TellInv, BdInv, BdTypeOK, DeskRead, DeskRelease
  <2>3. balances' = balances
    BY <1>4 DEF RequestFails
  <2>4. ReplyTells(d)'
    BY <1>1, <2>2, <2>3 DEF ReplyTells
  <2>5. QED
    BY <1>4, <2>1, <2>4, TellStep DEF RequestFails, Reply
<1>5. QED
  BY <1>2, <1>3, <1>4

\* The stock is read again after the release that is told of.
LEMMA AnswersTell ==
    ASSUME TellInv, BdInv', Released \subseteq Released', NEW c \in asked,
           StockAnswered(c) \/ BatchesAnswered(c) \/ ReleaseAnswered(c)
    PROVE  TellInv'
<1>1. desk \in DeskState /\ balances \in BalanceState
  BY DEF TellInv, BdInv, BdTypeOK
<1>2. CASE StockAnswered(c)
  <2>1. CASE c.load = balances.load /\ c.reply.status = "ok"
    <3>1. balances' = [balances EXCEPT !.status = "ready", !.includes = c.reply.released]
      BY <1>2, <2>1 DEF StockAnswered, ActiveLoad
    <3>2. balances'.load = balances.load /\ balances'.includes = c.reply.released
      BY <1>1, <3>1 DEF BalanceState
    <3>3. desk.told \subseteq c.reply.released
      BY <1>2, <2>1 DEF TellInv, ReplyTells, StockAnswered
    <3>4. \A d \in asked' : ReplyTells(d)'
      BY <1>2, <3>2 DEF TellInv, ReplyTells, StockAnswered
    <3>5. QED
      BY <1>2, <3>2, <3>3, <3>4 DEF TellInv, ToldIsShown, StockAnswered
  <2>2. CASE ~(c.load = balances.load /\ c.reply.status = "ok")
    <3>1. balances' = balances \/ balances' = [balances EXCEPT !.status = "error"]
      BY <1>2, <2>2 DEF StockAnswered, ActiveLoad
    <3>2. balances'.load = balances.load /\ (balances'.status = "ready" => balances' = balances)
      BY <1>1, <3>1 DEF BalanceState
    <3>3. QED
      BY <1>2, <3>2, TellStep DEF StockAnswered
  <2>3. QED
    BY <2>1, <2>2
<1>3. CASE BatchesAnswered(c)
  <2>1. \/ desk' = desk
        \/ desk' = [desk EXCEPT !.status = "ready", !.released = c.reply.released]
        \/ desk' = [desk EXCEPT !.status = "error"]
    BY <1>3 DEF BatchesAnswered
  <2>2. desk'.told = desk.told
    BY <1>1, <2>1 DEF DeskState
  <2>3. QED
    BY <1>3, <2>2, TellStep DEF BatchesAnswered
<1>4. CASE ReleaseAnswered(c)
  <2>1. CASE c.reply.status = "ok"
    <3>1. desk'.told = {c.batch} /\ c.batch \in Released
      BY <1>1, <1>4, <2>1 DEF ReleaseAnswered, DeskState, TellInv, ReplyTells
    <3>2. balances'.load = balances.load + 1 /\ balances'.status = "loading"
      BY <1>1, <1>4, <2>1 DEF ReleaseAnswered, Reloaded, BalanceState
    <3>3. ASSUME NEW d \in asked PROVE ReplyTells(d)'
      <4>1. d.op = "stock" => d.load \in Nat /\ d.load <= balances.load
        BY DeskCalls DEF TellInv, BdInv, ReplyTells, DeskRead
      <4>2. d.op = "stock" => d.load <= balances'.load /\ d.load # balances'.load
        BY <1>1, <3>2, <4>1 DEF BalanceState
      <4>3. QED
        BY <4>2 DEF TellInv, ReplyTells
    <3>4. PICK r : r = StockRead
      OBVIOUS
    <3>5. ReplyTells(r)'
      BY <1>1, <3>2, <3>4 DEF ReplyTells, StockRead, Read, NoReply, BalanceState
    <3>6. asked' \subseteq asked \union {r}
      BY <1>4, <2>1, <3>4 DEF ReleaseAnswered
    <3>7. QED
      BY <3>1, <3>2, <3>3, <3>5, <3>6 DEF TellInv, ToldIsShown
  <2>2. CASE c.reply.status # "ok"
    <3>1. desk'.told = desk.told
      BY <1>1, <1>4, <2>2 DEF ReleaseAnswered, DeskState
    <3>2. QED
      BY <1>4, <2>2, <3>1, TellStep DEF ReleaseAnswered
  <2>3. QED
    BY <2>1, <2>2
<1>5. QED
  BY <1>2, <1>3, <1>4

\* confirmRelease reads the stock again before it tells of the release, and only
\* the read of the present page and reload token is shown: beneath a notice of
\* a release, the stock that is shown counts that release.
THEOREM ReleasesAreShown == BdSpec => []ToldIsShown
<1>1. BdInit => TellInv
  <2>1. ASSUME BdInit PROVE desk.told = {} /\ balances.status = "loading" /\ \A c \in asked : ReplyTells(c)
    BY <2>1 DEF BdInit, ReplyTells, Read, NoReply
  <2>2. QED
    BY <2>1, BdInitHolds DEF TellInv, ToldIsShown
<1>2. TellInv /\ BdInv' /\ [BdNext]_bdVars => TellInv'
  <2>1. CASE UNCHANGED bdVars
    BY <2>1 DEF bdVars, TellInv, BdInv, BdTypeOK, BatchKeys, Keyed, Released, ToldIsShown, ReplyTells
  <2>2. ASSUME TellInv, BdInv', BdNext PROVE TellInv'
    BY <2>2, ReleasedStay, ScreenTells, ServiceTells, AnswersTell DEF BdNext, TellInv
  <2>3. QED
    BY <2>1, <2>2
<1>3. TellInv => ToldIsShown
  BY DEF TellInv
<1>4. QED
  BY <1>1, <1>2, <1>3, BatchDeskInvariant, PTL DEF BdSpec
=============================================================================
