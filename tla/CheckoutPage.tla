---------------------------- MODULE CheckoutPage ----------------------------
(***************************************************************************)
(* The checkout page: one customer who clicks, reloads and follows links,  *)
(* against the answers of the services, which come in any order, fail or   *)
(* get lost.  Another tab changes the cart meanwhile, and the provider     *)
(* settles the payment when it likes.                                      *)
(***************************************************************************)
EXTENDS Naturals, FiniteSets

CONSTANTS
    Method,         \* delivery methods
    Nothing,
    MaxCartChanges, \* bound: changes of the cart by another tab
    MaxKeys,        \* bound: idempotency keys made
    MaxRuns,        \* bound: verification runs
    MaxCalls,       \* bound: requests on their way at a time
    MaxVerifyReads  \* reads of a verification run: 5

ASSUME CheckoutPageAssumption ==
    /\ {MaxCartChanges, MaxKeys, MaxRuns, MaxCalls} \subseteq Nat
    /\ MaxVerifyReads \in Nat \ {0}
    /\ Nothing \notin Nat

VARIABLES
    shop,   \* what the services hold: the cart, and the order once placed
    page,   \* the page's state and refs
    calls,  \* the page's requests on their way
    used    \* every idempotency key sent, with the request it was sent for

cpVars == <<shop, page, calls, used>>

Fresh == [stage |-> "INITIALISING", cart |-> Nothing, method |-> Nothing, order |-> FALSE, linked |-> FALSE,
          secret |-> FALSE, key |-> Nothing, run |-> 0, reads |-> 0, sawPending |-> FALSE]

Unanswered == [status |-> "none"]
NewCall(op) == [op |-> op, n |-> 1, by |-> IF op \in {"initiate", "stripe"} THEN "payment" ELSE "click", sent |-> Nothing, reply |-> Unanswered]

CpInit ==
    /\ shop = [revision |-> 1, full |-> TRUE, key |-> Nothing, placed |-> Nothing, payment |-> "none"]
    /\ page = Fresh /\ calls = {NewCall("refreshCheckout")}
    /\ used = {}

-----------------------------------------------------------------------------
(* The services *)

\* Another tab adds an item.
CartChangesElsewhere ==
    /\ shop.revision <= MaxCartChanges
    /\ shop' = [shop EXCEPT !.revision = @ + 1, !.full = TRUE]
    /\ UNCHANGED <<page, calls, used>>

PaymentSettles(status) ==
    /\ shop.payment = "PENDING"
    /\ shop' = [shop EXCEPT !.payment = status]
    /\ UNCHANGED <<page, calls, used>>

ShopCart == [revision |-> shop.revision, full |-> shop.full]

\* What CheckoutService answers to a submission, and what it leaves: one order is modelled.
CheckoutAnswers(sent) ==
    IF shop.key = sent.key    \* replay: the key's order, if the request is the same
    THEN {[reply |-> [status |-> IF shop.placed = sent.of THEN "READY_FOR_PAYMENT" ELSE "CHECKOUT_CONFLICT"],
           next |-> shop]}
    ELSE IF sent.of.revision # shop.revision
    THEN {[reply |-> [status |-> "REQUIRES_CART_REVIEW", cart |-> ShopCart], next |-> shop]}
    ELSE {[reply |-> [status |-> s], next |-> shop] : s \in {"OUT_OF_STOCK", "INVALID_PROMOTION", "CHECKOUT_CONFLICT"}}
         \union IF shop.key # Nothing THEN {}
                ELSE {[reply |-> [status |-> "READY_FOR_PAYMENT"],
                       next |-> [revision |-> shop.revision + 1, full |-> FALSE, key |-> sent.key, placed |-> sent.of,
                                 payment |-> "PENDING"]]}

\* initiate: a failed or expired attempt is renewed; a paid order has no secret.
InitiateAnswers ==
    {IF shop.key = Nothing THEN [reply |-> [status |-> "error"], next |-> shop]
     ELSE IF shop.payment = "SUCCEEDED" THEN [reply |-> [status |-> "paid"], next |-> shop]
     ELSE [reply |-> [status |-> "secret"], next |-> [shop EXCEPT !.payment = "PENDING"]]}

Promoted == [shop EXCEPT !.revision = @ + 1]

ServiceAnswers(c) ==
    CASE c.op = "submit" -> CheckoutAnswers(c.sent)
      [] c.op = "initiate" -> InitiateAnswers
      [] c.op = "promotion" /\ c.sent.revision = shop.revision ->
            {[reply |-> [status |-> "ok", cart |-> [revision |-> Promoted.revision, full |-> shop.full]], next |-> Promoted]}
      [] c.op = "verify" -> {[reply |-> [status |-> IF shop.key = Nothing THEN "NOT_FOUND" ELSE shop.payment], next |-> shop]}
      [] c.op \in {"refreshCheckout", "refreshCart"} -> {[reply |-> [status |-> "ok", cart |-> ShopCart], next |-> shop]}
      [] OTHER -> {[reply |-> [status |-> "error"], next |-> shop]}

Serve(c) ==
    /\ c.reply = Unanswered /\ c.op # "stripe"
    /\ c.op = "promotion" => shop.revision <= MaxCartChanges
    /\ \E a \in ServiceAnswers(c) :
        /\ shop' = a.next
        /\ calls' = (calls \ {c}) \union {[c EXCEPT !.reply = a.reply]}
    /\ UNCHANGED <<page, used>>

\* The request or its answer is lost, or the service fails: the client reports an error.
Fails(c) ==
    /\ c.reply.status # "error" /\ c.op # "stripe"
    /\ calls' = (calls \ {c}) \union {[c EXCEPT !.reply = [status |-> "error"]]}
    /\ UNCHANGED <<shop, page, used>>

-----------------------------------------------------------------------------
(* What the customer does *)

InFlight(op) == \E c \in calls : c.op = op
Paying == \E c \in calls : c.by = "payment"

Clicks(next, call) ==
    /\ Cardinality(calls) < MaxCalls
    /\ page' = next /\ calls' = calls \union {call}
    /\ UNCHANGED <<shop, used>>

ChooseMethod(d) ==
    /\ page.stage # "CHECKOUT_SUBMITTING" /\ ~page.order /\ page.method \notin {Nothing, d} /\ ~InFlight("submit")
    /\ page' = [page EXCEPT !.method = d]
    /\ UNCHANGED <<shop, calls, used>>

\* Mutant: one key for all that is submitted from this page.
KeyOfThePage(r) == IF page.key # Nothing THEN page.key.key ELSE Cardinality(used) + 1

\* The key of the same request is used again.
KeyFor(r) == IF page.key # Nothing /\ page.key.of = r THEN page.key.key ELSE Cardinality(used) + 1

\* submitCheckout; a promotion that is being applied does not prevent it.
SubmitCheckout ==
    LET r == [revision |-> page.cart.revision, method |-> page.method]
        k == KeyFor(r)
    IN  /\ page.stage = "CHECKOUT_READY" /\ page.cart.full /\ ~InFlight("submit") /\ k <= MaxKeys
        /\ Cardinality(calls) < MaxCalls
        /\ page' = [page EXCEPT !.stage = "CHECKOUT_SUBMITTING", !.key = [of |-> r, key |-> k]]
        /\ calls' = calls \union {[NewCall("submit") EXCEPT !.sent = [of |-> r, key |-> k]]}
        /\ used' = used \union {[key |-> k, of |-> r]}
        /\ UNCHANGED shop

\* applyPromotion, and removeInvalidPromotion where the last promotion was refused
ApplyPromotion ==
    /\ page.stage \notin {"INITIALISING", "CHECKOUT_SUBMITTING"} /\ page.cart # Nothing /\ ~page.order
    /\ ~InFlight("promotion") /\ ~InFlight("submit")
    /\ \E removing \in {page.stage = "INVALID_PROMOTION", FALSE} :
        Clicks(page, [NewCall("promotion") EXCEPT !.sent =
                        [revision |-> page.cart.revision, removing |-> removing]])

ReviewCart ==
    /\ page.stage = "REQUIRES_CART_REVIEW"
    /\ page' = [page EXCEPT !.stage = "CHECKOUT_READY"]
    /\ UNCHANGED <<shop, calls, used>>

\* Reload checkout and Refresh cart: the stage stays, so they may be clicked again.
RefreshAfter(stage, op) ==
    /\ page.stage = stage
    /\ \E n \in 1 .. 2 :
        /\ \A c \in calls : c.op = op => c.n # n
        /\ Clicks(page, [NewCall(op) EXCEPT !.n = n])

PayNow ==
    /\ page.stage \in {"READY_FOR_PAYMENT", "PAYMENT_FAILED", "PAYMENT_EXPIRED"} /\ page.order
    /\ ~Paying
    /\ Clicks([page EXCEPT !.stage = "PAYMENT_INITIALISING", !.secret = FALSE], NewCall("initiate"))

\* The effect that mounts the payment element, when Stripe has loaded or not.
MountPayment(loaded) ==
    /\ page.stage = "PAYMENT_INITIALISING" /\ page.secret
    /\ page' = [page EXCEPT !.stage = IF loaded THEN "PAYMENT_READY" ELSE "PAYMENT_FAILED"]
    /\ UNCHANGED <<shop, calls, used>>

ConfirmPayment ==
    /\ page.stage = "PAYMENT_READY" /\ ~Paying
    /\ Clicks([page EXCEPT !.stage = "PAYMENT_PROCESSING"], NewCall("stripe"))

Verifying == [page EXCEPT !.stage = "VERIFYING_ORDER", !.run = @ + 1, !.reads = 1, !.sawPending = FALSE]
VerifyCall(run, by) == [NewCall("verify") EXCEPT !.n = run, !.by = by]

\* Check status and Check order status
CheckOrder ==
    /\ page.stage \in {"PAYMENT_PENDING", "ERROR"} /\ page.order /\ page.run < MaxRuns
    /\ Clicks(Verifying, VerifyCall(Verifying.run, "click"))

\* The page is loaded again, on its own or by Stripe's redirect or a link that
\* names an order, this one or none of the customer's: its key is forgotten.
LoadPage(linked) ==
    /\ page.run < MaxRuns
    /\ IF linked
       THEN /\ page' = [Fresh EXCEPT !.order = TRUE, !.linked = TRUE, !.stage = "VERIFYING_ORDER",
                                    !.run = page.run + 1, !.reads = 1]
            /\ calls' = {VerifyCall(page.run + 1, "load")}
       ELSE page' = [Fresh EXCEPT !.run = page.run] /\ calls' = {NewCall("refreshCheckout")}
    /\ UNCHANGED <<shop, used>>

-----------------------------------------------------------------------------
(* What the answers do *)

Answered(c, next, more) ==
    /\ page' = next /\ calls' = (calls \ {c}) \union more
    /\ UNCHANGED <<shop, used>>

RefreshAnswered(c) ==
    /\ c.op \in {"refreshCheckout", "refreshCart"}
    /\ Answered(c, IF c.reply.status = "error" THEN [page EXCEPT !.stage = "ERROR"]
                   ELSE [page EXCEPT !.stage = "CHECKOUT_READY", !.cart = c.reply.cart,
                                     !.method = IF @ = Nothing THEN CHOOSE d \in Method : TRUE ELSE @], {})

SubmitAnswered(c) ==
    /\ c.op = "submit"
    /\ Answered(c, [page EXCEPT !.stage = IF c.reply.status = "error" THEN "ERROR" ELSE c.reply.status,
                                !.order = @ \/ c.reply.status = "READY_FOR_PAYMENT",
                                !.cart = IF c.reply.status = "REQUIRES_CART_REVIEW" THEN c.reply.cart ELSE @], {})

PromotionAnswered(c) ==
    /\ c.op = "promotion"
    /\ Answered(c, IF c.reply.status = "error" THEN page
                   ELSE [page EXCEPT !.cart = c.reply.cart,
                                     !.stage = IF c.sent.removing THEN "CHECKOUT_READY" ELSE @], {})

InitiateAnswered(c) ==
    /\ c.op = "initiate"
    /\ \/ c.reply.status = "error" /\ Answered(c, [page EXCEPT !.stage = "PAYMENT_FAILED"], {})
       \/ c.reply.status = "secret" /\ Answered(c, [page EXCEPT !.secret = TRUE], {})
       \/ c.reply.status = "paid" /\ page.run < MaxRuns /\ Answered(c, Verifying, {VerifyCall(Verifying.run, "payment")})

\* Stripe reports an error, or that the payment is on its way.
StripeAnswered(c, failed) ==
    /\ c.op = "stripe"
    /\ IF failed THEN Answered(c, [page EXCEPT !.stage = "PAYMENT_FAILED"], {})
       ELSE page.run < MaxRuns /\ Answered(c, Verifying, {VerifyCall(Verifying.run, "payment")})

\* Mutant: the page confirms once the provider has taken the payment.
AnyCompletion(status) == status \in {"SUCCEEDED", "PENDING"}

\* isVerifiedOrderCompletion: a payment succeeds together with its order's confirmation.
VerifiedCompletion(status) == status = "SUCCEEDED"

\* One read of verifyOrder; the loop ends at a settled payment or after its last read.
VerifyAnswered(c) ==
    LET status == c.reply.status
        unknown == status \in {"error", "NOT_FOUND"}
        pending == IF unknown THEN page.sawPending ELSE status = "PENDING"
        strays == status = "NOT_FOUND" /\ c.by = "load" /\ page.reads = 1
    IN  /\ c.op = "verify"
        /\ \/ c.n # page.run /\ Answered(c, page, {})
           \/ c.n = page.run /\ VerifiedCompletion(status) /\ Answered(c, [page EXCEPT !.stage = "CONFIRMED"], {})
           \/ c.n = page.run /\ status \in {"FAILED", "EXPIRED"}
              /\ Answered(c, [page EXCEPT !.stage = IF status = "FAILED" THEN "PAYMENT_FAILED" ELSE "PAYMENT_EXPIRED"], {})
           \/ c.n = page.run /\ strays    \* recoverFromInvalidResume
              /\ Answered(c, [page EXCEPT !.run = @ + 1, !.order = FALSE, !.linked = FALSE, !.secret = FALSE],
                          {NewCall("refreshCheckout")})
           \/ c.n = page.run /\ ~strays /\ ~VerifiedCompletion(status) /\ (status = "PENDING" \/ unknown)
              /\ IF page.reads < MaxVerifyReads
                 THEN Answered(c, [page EXCEPT !.reads = @ + 1, !.sawPending = pending], {VerifyCall(page.run, c.by)})
                 ELSE Answered(c, [page EXCEPT !.stage = IF pending THEN "PAYMENT_PENDING" ELSE "ERROR"], {})

CpNext ==
    \/ CartChangesElsewhere \/ SubmitCheckout \/ ApplyPromotion \/ ReviewCart \/ PayNow
    \/ ConfirmPayment \/ CheckOrder
    \/ RefreshAfter("CHECKOUT_CONFLICT", "refreshCheckout") \/ RefreshAfter("OUT_OF_STOCK", "refreshCart")
    \/ \E d \in Method : ChooseMethod(d)
    \/ \E linked \in BOOLEAN : LoadPage(linked \/ page.linked)
    \/ \E loaded \in BOOLEAN : MountPayment(loaded)
    \/ \E status \in {"SUCCEEDED", "FAILED", "EXPIRED"} : PaymentSettles(status)
    \/ \E c \in calls :
            \/ Serve(c) \/ Fails(c)
            \/ \E failed \in BOOLEAN : StripeAnswered(c, failed)
            \/ /\ c.reply # Unanswered
               /\ \/ RefreshAnswered(c) \/ SubmitAnswered(c) \/ PromotionAnswered(c)
                  \/ InitiateAnswered(c) \/ VerifyAnswered(c)

CpSpec == CpInit /\ [][CpNext]_cpVars

-----------------------------------------------------------------------------
\* A key is sent for one request only, although a refused submission is sent again
\* after the cart or the method may have changed: under the key of a placed order
\* the service refuses every other request, so the page would be told of a
\* conflict again and again.
KeyServesOneRequest == \A a, b \in used : a.key = b.key => a.of = b.of

\* The page confirms an order only when it is paid, whatever Stripe reported.
ConfirmedIsPaid == page.stage = "CONFIRMED" => shop.payment = "SUCCEEDED"
=============================================================================
