------------------------------ MODULE Payments ------------------------------
(***************************************************************************)
(* Checkout, payment attempts, provider webhooks and stock.                *)
(*                                                                         *)
(* Every request runs in a Process.  A handler is split where the code     *)
(* awaits: a step that reads (and keeps what it read in its call record)   *)
(* and a step that commits its database transaction.  The commit step      *)
(* evaluates each conditional updateMany against the committed rows, since *)
(* a row it changed stays locked until the transaction ends; what the      *)
(* handler only read may have changed in between.  Abandon is every way a  *)
(* handler can end without effect: a condition that fails, a rollback, a   *)
(* deadlock victim, a lost process.                                        *)
(***************************************************************************)
EXTENDS StockUnits

CONSTANTS
    Process,       \* concurrent server requests
    Customer,
    Buyer,         \* Buyer[o]: the customer who places o
    Referred,      \* customers with a referral row
    NoOrder,       \* the null qualifyingOrderId
    InitialStock,  \* InitialStock[v]: onHand before the first checkout
    Batch,         \* recorded production batches
    BatchVariant,  \* BatchVariant[b]: the variant of batch b
    BatchSize,     \* BatchSize[b]: its producedQuantity
    MaxBatch,      \* largest producedQuantity
    Window,        \* reservation window, in clock ticks
    MaxClock,      \* bound on the clock
    MaxAttempt     \* bound on payment attempts

ASSUME PaymentsAssumption ==
    /\ Buyer \in [Order -> Customer]
    /\ Referred \subseteq Customer
    /\ NoOrder \notin Order
    /\ InitialStock \in [Variant -> Nat]
    /\ IsFiniteSet(Batch)
    /\ BatchVariant \in [Batch -> Variant]
    /\ MaxBatch \in Nat
    /\ BatchSize \in [Batch -> 1..MaxBatch]
    /\ Window \in Nat \ {0}
    /\ MaxClock \in Nat
    /\ MaxAttempt \in Nat \ {0}

VARIABLES
    clock,        \* the server's now()
    order,        \* order[o]: status of the order row
    reservation,  \* reservation[o][v]: the reservation row of a line
    balance,      \* balance[v]: the inventory balance row
    batch,        \* batch[b]: status of the production batch row
    movement,     \* references of the order movements that were appended
    payment,      \* payment[o]: the payment row
    invoice,      \* invoice[o]: paymentReferenceSnapshot, or NoReference
    issued,       \* provider: intents whose client secret a customer holds
    declined,     \* provider: intents that reported payment_failed
    charged,      \* provider: intents that reported succeeded
    ledger,       \* identities of the loyalty ledger entries
    qualifying,   \* qualifying[c]: qualifyingOrderId of c's referral
    call          \* call[p]: the request that p is serving

stock == <<reservation, balance, movement>>
provider == <<issued, declined, charged>>
rewards == <<ledger, qualifying>>
vars == <<clock, order, stock, batch, payment, invoice, provider, rewards, call>>

-----------------------------------------------------------------------------
(* Rows *)

NoReference == 0
Attempt == 1..MaxAttempt

\* The intent of attempt n of order o is the pair <<o, n>>: the provider's
\* idempotency key makes it one intent however often it is requested.
Intent == Order \X Attempt

OrderStatus == {"NONE", "PLACED", "CONFIRMED"}
ReservationStatus == {"NONE", "ACTIVE", "RELEASED", "EXPIRED", "COMMITTED"}
PaymentStatus == {"NONE", "PENDING", "FAILED", "SUCCEEDED"}

Reservation == [status : ReservationStatus, expiresAt : Nat]
Payment == [status : PaymentStatus,
            attemptSequence : 0..MaxAttempt,
            providerReference : 0..MaxAttempt]
Balance == [onHand : Nat, reserved : Nat]
LedgerIdentity == ({"order"} \X Order) \union ({"referral"} \X Customer)

NoReservation == [status |-> "NONE", expiresAt |-> 0]
NoPayment == [status |-> "NONE", attemptSequence |-> 0,
              providerReference |-> NoReference]

LinesIn(status) == {l \in Line : reservation[l[1]][l[2]].status = status}

-----------------------------------------------------------------------------
(* What a request keeps between two of its steps *)

Idle == [pc |-> "idle"]

CheckoutCall == [pc : {"checkout"}, o : Order, expiresAt : Nat,
                 onHand : [Variant -> Nat]]
GatewayCall  == [pc : {"gateway"}, o : Order, n : Attempt]
EnsureCall   == [pc : {"ensure"}, o : Order, n : Attempt,
                 seq : 0..MaxAttempt, ref : 0..MaxAttempt,
                 active : SUBSET Variant]
RetryCall    == [pc : {"retry"}, o : Order, n : Attempt,
                 seq : 0..MaxAttempt, ref : 0..MaxAttempt,
                 kept : SUBSET Variant, lapsed : SUBSET Variant,
                 expiresAt : Nat,
                 onHand : [Variant -> Nat]]
FailCall     == [pc : {"fail"}, o : Order, n : Attempt]
SucceedCall  == [pc : {"succeed"}, o : Order, n : Attempt, now : 0..MaxClock]
AwardCall    == [pc : {"award", "refer"}, o : Order]
QualifyCall  == [pc : {"qualify"}, o : Order, seen : Order \union {NoOrder}]

Call == {Idle} \union CheckoutCall \union GatewayCall \union EnsureCall
        \union RetryCall \union FailCall \union SucceedCall
        \union AwardCall \union QualifyCall

Goto(p, c) == call' = [call EXCEPT ![p] = c]
Return(p) == Goto(p, Idle)

-----------------------------------------------------------------------------
(* Conditions of the code *)

Live(r) == r.status = "ACTIVE" /\ r.expiresAt > clock
Lapsed(r) == r.status = "ACTIVE" /\ r.expiresAt <= clock

\* isVariantSellable: what a fresh read of the balance row must offer.
IsVariantSellable(b, quantity) == b.onHand - b.reserved >= quantity

\* The where clause that claims stock; seenOnHand is a literal read earlier.
ClaimsStock(b, quantity, seenOnHand) ==
    b.onHand >= quantity /\ b.reserved <= seenOnHand - quantity

\* Mutant: the table only checks the signs.
NonNegative(b) == b.onHand >= 0 /\ b.reserved >= 0

\* InventoryBalance_available, the database's own check of every balance row.
BalanceCheck(b) == b.onHand >= 0 /\ b.reserved >= 0 /\ b.reserved <= b.onHand

HasCurrentReservations(o) == \A v \in Items(o) : Live(reservation[o][v])

\* Mutant: compares with the attempt after the one the event reports on.
MatchesNextAttempt(o, n) ==
    payment[o].providerReference = n /\ payment[o].attemptSequence = n + 1

MatchesCurrentAttempt(o, n) ==
    payment[o].providerReference = n /\ payment[o].attemptSequence = n

\* initiate: the attempt under way is handed out again.
ReuseCurrentAttempt(o) ==
    /\ payment[o].status = "PENDING"
    /\ payment[o].attemptSequence > 0
    /\ payment[o].providerReference # NoReference
    /\ HasCurrentReservations(o)

SameAttempt(o, n) ==
    /\ payment[o].status = "PENDING"
    /\ payment[o].attemptSequence = n
    /\ payment[o].providerReference = n
    /\ HasCurrentReservations(o)

AdvancingAttempt(o, n) ==
    /\ payment[o].attemptSequence + 1 = n
    /\ \/ payment[o].status # "PENDING"
       \/ payment[o].providerReference = NoReference
       \/ payment[o].attemptSequence = 0
       \/ ~HasCurrentReservations(o)

\* Mutant: the status is left out of initiate's where clause.
RetryClaimAnyStatus(o, c) ==
    /\ payment[o].attemptSequence = c.seq
    /\ payment[o].providerReference = c.ref

\* The payment row that initiate's final updateMany may change.
RetryClaim(o, c) ==
    /\ payment[o].status \in {"PENDING", "FAILED"}
    /\ payment[o].attemptSequence = c.seq
    /\ payment[o].providerReference = c.ref

\* Mutants: the where clause of a webhook without its status, or without the
\* attempt that the event reports on.
WebhookClaimAnyStatus(o, n) == MatchesCurrentAttempt(o, n)
WebhookClaimAnyAttempt(o, n) == payment[o].status = "PENDING"

\* The payment row that a webhook's updateMany may change.
WebhookClaim(o, n) ==
    payment[o].status = "PENDING" /\ MatchesCurrentAttempt(o, n)

\* A line whose hold ensureActiveReservations takes again: it is released or
\* expired, or it lapsed and this transaction, which read it as active (a line
\* in the set active), expires it itself.
Reclaimable(o, v, active) ==
    \/ reservation[o][v].status \in {"RELEASED", "EXPIRED"}
    \/ v \in active /\ Lapsed(reservation[o][v])

\* Mutant: only the holds that have not lapsed are released.
HoldsWhileLive(r) == Live(r)

\* A reservation holds stock until it is released, lapsed or not.
Holds(r) == r.status = "ACTIVE"

\* Mutant: a lapsed hold is given up without giving its units back.
HeldByLive(o, v) == IF Live(reservation[o][v]) THEN Demand[o][v] ELSE 0

HeldBy(o, v) == IF Holds(reservation[o][v]) THEN Demand[o][v] ELSE 0

\* Mutant: only the delivery that committed the payment goes on to the awards.
NeverAlreadyPaid(o) == FALSE

\* A success event for a payment that has succeeded goes on to the awards.
AlreadyPaid(o) == payment[o].status = "SUCCEEDED"

\* The where clause that claims the referral of customer c.
Unqualified(c) == qualifying[c] = NoOrder

OnHandNow == [v \in Variant |-> balance[v].onHand]

-----------------------------------------------------------------------------
Init ==
    /\ clock = 0
    /\ order = [o \in Order |-> "NONE"]
    /\ reservation = [o \in Order |-> [v \in Variant |-> NoReservation]]
    /\ balance = [v \in Variant |-> [onHand |-> InitialStock[v], reserved |-> 0]]
    /\ batch = [b \in Batch |-> "RECORDED"]
    /\ movement = {}
    /\ payment = [o \in Order |-> NoPayment]
    /\ invoice = [o \in Order |-> NoReference]
    /\ issued = {} /\ declined = {} /\ charged = {}
    /\ ledger = {}
    /\ qualifying = [c \in Customer |-> NoOrder]
    /\ call = [p \in Process |-> Idle]

Tick ==
    /\ clock < MaxClock
    /\ clock' = clock + 1
    /\ UNCHANGED <<order, stock, batch, payment, invoice, provider, rewards, call>>

\* InventoryService.releaseBatch: claimed once, by the batch's own status.
ReleaseBatch(b) ==
    LET v == BatchVariant[b] IN
    /\ batch[b] = "RECORDED"
    /\ batch' = [batch EXCEPT ![b] = "RELEASED"]
    /\ balance' = [balance EXCEPT ![v].onHand = @ + BatchSize[b]]
    /\ UNCHANGED <<clock, order, reservation, movement, payment, invoice,
                   provider, rewards, call>>

Abandon(p) ==
    /\ call[p] # Idle
    /\ Return(p)
    /\ UNCHANGED <<clock, order, stock, batch, payment, invoice, provider, rewards>>

-----------------------------------------------------------------------------
(* CheckoutService.submit *)

\* The cart row is claimed before anything is read, and its lock keeps every
\* other submission of the same cart waiting.
CheckoutRead(p, o) ==
    /\ call[p] = Idle
    /\ order[o] = "NONE"
    /\ \A q \in Process : call[q].pc = "checkout" => call[q].o # o
    /\ \A v \in Items(o) : IsVariantSellable(balance[v], Demand[o][v])
    /\ Goto(p, [pc |-> "checkout", o |-> o, expiresAt |-> clock + Window,
                onHand |-> OnHandNow])
    /\ UNCHANGED <<clock, order, stock, batch, payment, invoice, provider, rewards>>

CheckoutCommit(p, o) ==
    LET c == call[p]
        after == [v \in Variant |->
                    [balance[v] EXCEPT !.reserved = @ + Demand[o][v]]]
    IN
    /\ c.pc = "checkout" /\ c.o = o
    /\ \A v \in Items(o) : ClaimsStock(balance[v], Demand[o][v], c.onHand[v])
    /\ \A v \in Variant : BalanceCheck(after[v])
    /\ balance' = after
    /\ order' = [order EXCEPT ![o] = "PLACED"]
    /\ reservation' = [reservation EXCEPT ![o] = [v \in Variant |->
            IF v \in Items(o)
            THEN [status |-> "ACTIVE", expiresAt |-> c.expiresAt]
            ELSE NoReservation]]
    /\ payment' = [payment EXCEPT ![o] = [NoPayment EXCEPT !.status = "PENDING"]]
    /\ Return(p)
    /\ UNCHANGED <<clock, movement, batch, invoice, provider, rewards>>

-----------------------------------------------------------------------------
(* PaymentService.initiate *)

\* Outside any transaction: pick the attempt, then ask the gateway for it.
InitiateRead(p, o) ==
    LET current == payment[o].attemptSequence
        n == IF ReuseCurrentAttempt(o) THEN current ELSE current + 1
    IN
    /\ call[p] = Idle
    /\ order[o] = "PLACED"
    /\ payment[o].status # "SUCCEEDED"
    /\ n \in Attempt
    /\ Goto(p, [pc |-> "gateway", o |-> o, n |-> n])
    /\ UNCHANGED <<clock, order, stock, batch, payment, invoice, provider, rewards>>

\* The gateway answered; the transaction reads the order again.
InitiateBegin(p, o) ==
    LET c == call[p] IN
    /\ c.pc = "gateway" /\ c.o = o
    /\ order[o] = "PLACED"
    /\ payment[o].status # "SUCCEEDED"
    /\ SameAttempt(o, c.n) \/ AdvancingAttempt(o, c.n)
    /\ Goto(p, [pc |-> "ensure", o |-> o, n |-> c.n,
                seq |-> payment[o].attemptSequence,
                ref |-> payment[o].providerReference,
                active |-> {v \in Items(o) : reservation[o][v].status = "ACTIVE"}])
    /\ UNCHANGED <<clock, order, stock, batch, payment, invoice, provider, rewards>>

\* ensureActiveReservations decides which holds stand and which to take again.
InitiateEnsure(p, o) ==
    LET c == call[p]
        kept == {v \in Items(o) : Live(reservation[o][v])}
    IN
    /\ c.pc = "ensure" /\ c.o = o
    /\ \A v \in Items(o) \ kept : Reclaimable(o, v, c.active)
    /\ Goto(p, [pc |-> "retry", o |-> o, n |-> c.n, seq |-> c.seq, ref |-> c.ref,
                kept |-> kept,
                lapsed |-> {v \in Items(o) : Lapsed(reservation[o][v])},
                expiresAt |-> clock + Window, onHand |-> OnHandNow])
    /\ UNCHANGED <<clock, order, stock, batch, payment, invoice, provider, rewards>>

\* The writes of the transaction, and the client secret it lets out.  Holds
\* that were kept were only read, so nothing locks them.
InitiateCommit(p, o) ==
    LET c == call[p]
        taken == Items(o) \ c.kept
        freed == [v \in Variant |-> IF v \in taken
                    THEN [balance[v] EXCEPT !.reserved = @ - HeldBy(o, v)]
                    ELSE balance[v]]
        after == [v \in Variant |-> IF v \in taken
                    THEN [freed[v] EXCEPT !.reserved = @ + Demand[o][v]]
                    ELSE balance[v]]
    IN
    /\ c.pc = "retry" /\ c.o = o
    /\ RetryClaim(o, c)
    /\ \A v \in taken : Reclaimable(o, v, c.lapsed)
    /\ \A v \in taken : ClaimsStock(freed[v], Demand[o][v], c.onHand[v])
    /\ \A v \in Variant : BalanceCheck(freed[v]) /\ BalanceCheck(after[v])
    /\ balance' = after
    /\ reservation' = [reservation EXCEPT ![o] = [v \in Variant |->
            IF v \in taken
            THEN [status |-> "ACTIVE", expiresAt |-> c.expiresAt]
            ELSE @[v]]]
    /\ payment' = [payment EXCEPT ![o] =
            [status |-> "PENDING", attemptSequence |-> c.n, providerReference |-> c.n]]
    /\ issued' = issued \union {<<o, c.n>>}
    /\ Return(p)
    /\ UNCHANGED <<clock, order, movement, batch, invoice, declined, charged, rewards>>

-----------------------------------------------------------------------------
(* The payment provider (external) *)

\* A customer with the client secret confirms the intent.  A declined intent
\* may be confirmed again; a charged one may not.
Decline(i) ==
    /\ i \in issued \ charged
    /\ i \notin declined
    /\ declined' = declined \union {i}
    /\ UNCHANGED <<clock, order, stock, batch, payment, invoice, issued, charged,
                   rewards, call>>

Charge(i) ==
    /\ i \in issued \ charged
    /\ charged' = charged \union {i}
    /\ UNCHANGED <<clock, order, stock, batch, payment, invoice, issued, declined,
                   rewards, call>>

-----------------------------------------------------------------------------
(* PaymentService.webhook.  Events are delivered any number of times, in any  *)
(* order, from the moment the provider reported them.                         *)

\* failed: read the payment and its order.  Answers that change nothing (not
\* the current attempt, already final) are steps that need not be taken.
FailRead(p, o, n) ==
    /\ call[p] = Idle
    /\ <<o, n>> \in declined
    /\ MatchesCurrentAttempt(o, n)
    /\ payment[o].status \notin {"SUCCEEDED", "FAILED"}
    /\ Goto(p, [pc |-> "fail", o |-> o, n |-> n])
    /\ UNCHANGED <<clock, order, stock, batch, payment, invoice, provider, rewards>>

\* Every active hold of the order is released, lapsed or not.
FailCommit(p, o) ==
    LET after == [v \in Variant |->
                    [balance[v] EXCEPT !.reserved = @ - HeldBy(o, v)]]
    IN
    /\ call[p].pc = "fail" /\ call[p].o = o
    /\ WebhookClaim(o, call[p].n)
    /\ \A v \in Variant : BalanceCheck(after[v])
    /\ payment' = [payment EXCEPT ![o].status = "FAILED"]
    /\ reservation' = [reservation EXCEPT ![o] = [v \in Variant |->
            IF Holds(@[v]) THEN [@[v] EXCEPT !.status = "RELEASED"] ELSE @[v]]]
    /\ balance' = after
    /\ Return(p)
    /\ UNCHANGED <<clock, order, movement, batch, invoice, provider, rewards>>

\* succeeded: a pending attempt goes on to commit, one that has succeeded
\* goes on to the awards; every other answer changes nothing.
SucceedRead(p, o, n) ==
    /\ call[p] = Idle
    /\ <<o, n>> \in charged
    /\ MatchesCurrentAttempt(o, n)
    /\ \/ /\ AlreadyPaid(o)
          /\ Goto(p, [pc |-> "award", o |-> o])
       \/ /\ payment[o].status = "PENDING"
          /\ order[o] = "PLACED"
          /\ HasCurrentReservations(o)
          /\ Goto(p, [pc |-> "succeed", o |-> o, n |-> n, now |-> clock])
    /\ UNCHANGED <<clock, order, stock, batch, payment, invoice, provider, rewards>>

\* Invoice rows are unique per order and need a verified payment whose
\* reference they repeat (trigger invoice_requires_verified_payment).
InvoiceCheck(o, reference) ==
    /\ invoice[o] = NoReference
    /\ payment'[o].status = "SUCCEEDED"
    /\ payment'[o].providerReference = reference

\* Its now() is sampled after the read and maybe long before the commit, so a
\* hold only has to be live at the time of the read or later.
SucceedCommit(p, o) ==
    LET n == call[p].n
        after == [v \in Variant |->
                    [onHand |-> balance[v].onHand - Demand[o][v],
                     reserved |-> balance[v].reserved - Demand[o][v]]]
    IN
    /\ call[p].pc = "succeed" /\ call[p].o = o
    /\ WebhookClaim(o, n)
    /\ \A v \in Items(o) :
        Holds(reservation[o][v]) /\ reservation[o][v].expiresAt > call[p].now
    /\ \A v \in Variant : BalanceCheck(after[v])
    /\ \A v \in Items(o) : <<o, v>> \notin movement
    /\ order[o] = "PLACED"
    /\ payment' = [payment EXCEPT ![o] =
            [status |-> "SUCCEEDED", attemptSequence |-> @.attemptSequence,
             providerReference |-> n]]
    /\ InvoiceCheck(o, n)
    /\ reservation' = [reservation EXCEPT ![o] = [v \in Variant |->
            IF v \in Items(o) THEN [@[v] EXCEPT !.status = "COMMITTED"] ELSE @[v]]]
    /\ balance' = after
    /\ movement' = movement \union {<<o, v>> : v \in Items(o)}
    /\ order' = [order EXCEPT ![o] = "CONFIRMED"]
    /\ invoice' = [invoice EXCEPT ![o] = n]
    /\ Goto(p, [pc |-> "award", o |-> o])
    /\ UNCHANGED <<clock, batch, provider, rewards>>

\* The claim found another delivery ahead; the payment is read once more.
SucceedRace(p, o) ==
    /\ call[p].pc = "succeed" /\ call[p].o = o
    /\ ~WebhookClaim(o, call[p].n)
    /\ payment[o].status = "SUCCEEDED"
    /\ Goto(p, [pc |-> "award", o |-> o])
    /\ UNCHANGED <<clock, order, stock, batch, payment, invoice, provider, rewards>>

-----------------------------------------------------------------------------
(* awardParticipation, after the payment transaction has committed *)

\* credit: an identity earns its points once.
Credit(identity) == ledger' = ledger \union {identity}

\* rewardCompletedOrder.
AwardOrder(p, o) ==
    /\ call[p].pc = "award" /\ call[p].o = o
    /\ payment[o].status = "SUCCEEDED"
    /\ Credit(<<"order", o>>)
    /\ Goto(p, [pc |-> "refer", o |-> o])
    /\ UNCHANGED <<clock, order, stock, batch, payment, invoice, provider, qualifying>>

\* rewardQualifyingReferral reads the buyer's referral.  Another order that
\* qualified is a conflict: the handler ends.
ReferRead(p, o) ==
    LET c == Buyer[o] IN
    /\ call[p].pc = "refer" /\ call[p].o = o
    /\ payment[o].status = "SUCCEEDED"
    /\ c \in Referred
    /\ qualifying[c] \in {NoOrder, o}
    /\ Goto(p, [pc |-> "qualify", o |-> o, seen |-> qualifying[c]])
    /\ UNCHANGED <<clock, order, stock, batch, payment, invoice, provider, rewards>>

\* The claim must take effect unless the read already saw this order.
QualifyCommit(p, o) ==
    LET c == Buyer[o] IN
    /\ call[p].pc = "qualify" /\ call[p].o = o
    /\ Unqualified(c) \/ call[p].seen = o
    /\ qualifying' = [qualifying EXCEPT ![c] = IF Unqualified(c) THEN o ELSE @]
    /\ Credit(<<"referral", c>>)
    /\ Return(p)
    /\ UNCHANGED <<clock, order, stock, batch, payment, invoice, provider>>

-----------------------------------------------------------------------------
Checkout(p, o) == CheckoutRead(p, o) \/ CheckoutCommit(p, o)

Initiate(p, o) ==
    \/ InitiateRead(p, o)
    \/ InitiateBegin(p, o)
    \/ InitiateEnsure(p, o)
    \/ InitiateCommit(p, o)

Webhook(p, o) ==
    \/ \E n \in Attempt : FailRead(p, o, n)
    \/ FailCommit(p, o)
    \/ \E n \in Attempt : SucceedRead(p, o, n)
    \/ SucceedCommit(p, o)
    \/ SucceedRace(p, o)

AwardParticipation(p, o) ==
    AwardOrder(p, o) \/ ReferRead(p, o) \/ QualifyCommit(p, o)

Next ==
    \/ Tick
    \/ \E b \in Batch : ReleaseBatch(b)
    \/ \E p \in Process : Abandon(p)
    \/ \E p \in Process, o \in Order :
            \/ Checkout(p, o)
            \/ Initiate(p, o)
            \/ Webhook(p, o)
            \/ AwardParticipation(p, o)
    \/ \E i \in Intent : Decline(i) \/ Charge(i)

Spec == Init /\ [][Next]_vars

-----------------------------------------------------------------------------
TypeOK ==
    /\ clock \in 0..MaxClock
    /\ order \in [Order -> OrderStatus]
    /\ reservation \in [Order -> [Variant -> Reservation]]
    /\ balance \in [Variant -> Balance]
    /\ batch \in [Batch -> {"RECORDED", "RELEASED"}]
    /\ movement \subseteq Line
    /\ payment \in [Order -> Payment]
    /\ invoice \in [Order -> 0..MaxAttempt]
    /\ issued \subseteq Intent
    /\ declined \subseteq Intent
    /\ charged \subseteq Intent
    /\ ledger \subseteq LedgerIdentity
    /\ qualifying \in [Customer -> Order \union {NoOrder}]
    /\ call \in [Process -> Call]

\* Units that released batches put on the shelf.
BatchUnits(v) ==
    {u \in Batch \X (1..MaxBatch) :
        /\ batch[u[1]] = "RELEASED"
        /\ BatchVariant[u[1]] = v
        /\ u[2] <= BatchSize[u[1]]}

Supply(v) == InitialStock[v] + Cardinality(BatchUnits(v))

\* Every balance row agrees with the reservation rows, at every commit: its
\* reserved count is exactly what active reservations hold, and its onHand is
\* the initial stock and the released batches less what committed reservations
\* took.  Each handler adds and subtracts on its own, from a row it read
\* earlier; one double release or double commit breaks the count for good.
StockAccounting ==
    \A v \in Variant :
        /\ balance[v].reserved = Quantity(LinesIn("ACTIVE"), v)
        /\ balance[v].onHand = Supply(v) - Quantity(LinesIn("COMMITTED"), v)

\* No unit is promised twice: what orders hold and what was sold never exceeds
\* what was ever on the shelf, although the claims compare against an onHand
\* that was read earlier.
NeverOversold ==
    \A v \in Variant :
        Quantity(LinesIn("ACTIVE"), v) + Quantity(LinesIn("COMMITTED"), v) <= Supply(v)

\* A payment is verified, the order confirmed, every line committed with its
\* movement, and the invoice issued, all together or not at all, whatever
\* deliveries and retries raced; and only for an intent the provider charged.
PaidTogether ==
    \A o \in Order :
        LET paid == payment[o].status = "SUCCEEDED" IN
        /\ paid <=> order[o] = "CONFIRMED"
        /\ paid => /\ invoice[o] = payment[o].providerReference
                   /\ <<o, payment[o].providerReference>> \in charged
        /\ invoice[o] # NoReference => paid
        /\ \A v \in Items(o) :
            /\ paid <=> reservation[o][v].status = "COMMITTED"
            /\ paid <=> <<o, v>> \in movement

\* A failed payment holds no stock: the webhook that fails it releases every
\* hold, also one that had lapsed.
FailedHoldsNothing ==
    \A o \in Order : payment[o].status = "FAILED" =>
        \A v \in Items(o) : reservation[o][v].status # "ACTIVE"

\* What was settled stays settled: no late failure, duplicate delivery or
\* retry changes a succeeded payment, its reservations, its invoice or the
\* order that qualified a referral.
SettledIsFinal ==
    [][/\ \A o \in Order : payment[o].status = "SUCCEEDED" =>
            /\ payment'[o] = payment[o]
            /\ reservation'[o] = reservation[o]
            /\ order'[o] = order[o]
            /\ invoice'[o] = invoice[o]
       /\ \A c \in Customer : qualifying[c] # NoOrder => qualifying'[c] = qualifying[c]
      ]_vars

\* Attempts are numbered in order, without gaps or repeats of an older one,
\* and an event settles only the attempt it reports on: a payment fails for a
\* declined intent and succeeds for a charged one of the attempt that was
\* current, also when a retry overtook the webhook between read and commit.
AttemptsInOrder ==
    [][\A o \in Order :
        LET was == payment[o]
            is == payment'[o]
            intent == <<o, was.attemptSequence>>
        IN  was # is /\ was.status # "NONE" =>
            /\ is.attemptSequence - was.attemptSequence \in {0, 1}
            /\ is.status = "PENDING" => <<o, is.attemptSequence>> \in issued'
            /\ is.status = "FAILED" => is.attemptSequence = was.attemptSequence
                                       /\ intent \in declined
            /\ is.status = "SUCCEEDED" => is.attemptSequence = was.attemptSequence
                                          /\ intent \in charged]_vars

-----------------------------------------------------------------------------
(* The promise about stock that these handlers implement *)

Ledger == INSTANCE StockLedger WITH
    supply <- [v \in Variant |-> Supply(v)],
    held <- LinesIn("ACTIVE"),
    sold <- LinesIn("COMMITTED")

\* Every step of every handler is a hold, a release, a sale of whole orders out
\* of their holds, or a restock, and a hold is only taken where supply is left.
ImplementsLedger == Ledger!LedgerSpec

-----------------------------------------------------------------------------
(* Liveness *)

\* The provider delivers a success event again until it is acknowledged, and
\* some delivery gets a process and is not rolled back.  Requests end.  Nothing
\* is assumed of customers (checkout, initiate, confirming an intent) nor of
\* batches.
Fairness ==
    /\ \A p \in Process : WF_vars(Abandon(p))
    /\ WF_vars(Tick)
    /\ \A o \in Order :
        /\ \A n \in Attempt : SF_vars(\E p \in Process : SucceedRead(p, o, n))
        /\ SF_vars(\E p \in Process : SucceedCommit(p, o))
        /\ SF_vars(\E p \in Process : AwardOrder(p, o))
        /\ SF_vars(\E p \in Process : ReferRead(p, o))
        /\ SF_vars(\E p \in Process : QualifyCommit(p, o))

FairSpec == Spec /\ Fairness

\* Attempt n is charged, it is the current one, and every hold is in place.
Settleable(o, n) ==
    /\ payment[o].status = "PENDING" /\ payment[o].providerReference = n
    /\ <<o, n>> \in charged
    /\ HasCurrentReservations(o)

\* A charge is settled by a success event that arrives in time.  It is lost in
\* three ways only: a hold lapses first; an earlier decline of the same intent is
\* reported late and fails the payment; a retry that began while the holds had
\* lapsed goes on to the next attempt after another request took them again.
ChargesSettle ==
    \A o \in Order, n \in Attempt : Settleable(o, n) ~>
        \/ payment[o].status = "SUCCEEDED"
        \/ \E v \in Items(o) : Lapsed(reservation[o][v])
        \/ payment[o].status = "FAILED" /\ <<o, n>> \in declined
        \/ payment[o].attemptSequence = n + 1

\* Points reach every paid order and its buyer's referrer, although the payment
\* transaction and the awards are separate and a process may die between them:
\* the redelivered event completes them.
PaidIsRewarded ==
    \A o \in Order : payment[o].status = "SUCCEEDED" ~>
        /\ <<"order", o>> \in ledger
        /\ Buyer[o] \in Referred => <<"referral", Buyer[o]>> \in ledger

-----------------------------------------------------------------------------
(* What the repository says of this code and the code does not do *)

\* commerce/payment/README.md of a late success: once a retry has reactivated the
\* reservations that had lapsed, the repeated webhook of the charged attempt, which
\* no decline had failed, can finish the payment.
RetryFinishesChargedAttempt ==
    \A o \in Order, n \in Attempt :
        (/\ payment[o].status = "PENDING"
         /\ HasCurrentReservations(o)
         /\ <<o, n>> \in charged \ declined)
        => \E m \in Attempt : <<o, m>> \in charged /\ MatchesCurrentAttempt(o, m)

\* docs/srs: the reservation of an expired or abandoned payment is released.
LapsedHoldsAreReleased ==
    \A o \in Order, v \in Variant :
        Lapsed(reservation[o][v]) ~> reservation[o][v].status # "ACTIVE"

\* The last check of ensureActiveReservations: an initiated attempt has all its
\* reservations active.
InitiatedHoldsAll ==
    \A o \in Order :
        payment[o].status = "PENDING" => \A v \in Items(o) : Holds(reservation[o][v])

=============================================================================
