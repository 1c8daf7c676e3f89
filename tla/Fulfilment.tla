---------------------------- MODULE Fulfilment ------------------------------
(***************************************************************************)
(* What happens to an order once it is placed: the payment that confirms   *)
(* it, the customer's request to cancel it, and the shipment that          *)
(* administrators create and move.                                         *)
(*                                                                         *)
(* A request is the reads of its handler and the commit of its             *)
(* transaction, as in Payments; Abandon is every way to end without effect *)
(* or answer.                                                              *)
(***************************************************************************)
EXTENDS Naturals, Sequences

CONSTANTS
    Process,    \* concurrent server requests
    Order,      \* placed orders
    Key,        \* idempotency keys of cancellation requests
    NoKey       \* the null cancellationIdempotencyKey

ASSUME FulfilmentAssumption == NoKey \notin Key

VARIABLES
    status,        \* status[o]: the order row's status
    paid,          \* the orders whose payment row is SUCCEEDED
    cancellation,  \* cancellation[o]: key of its cancellation request, or NoKey
    shipment,      \* shipment[o]: status of the shipment row, or "NONE"
    events,        \* events[o]: statuses of its tracking events, in order
    promised,      \* orders whose customer was told that cancellation is requested
    call           \* call[p]: the request that p is serving

vars == <<status, paid, cancellation, shipment, events, promised, call>>

-----------------------------------------------------------------------------
OrderStatus == {"PLACED", "CONFIRMED", "PROCESSING", "SHIPPED", "DELIVERED"}
CancellableStatuses == {"PLACED", "CONFIRMED", "PROCESSING"}
PreShipmentStatuses == {"CONFIRMED", "PROCESSING"}

\* The shipment statuses in the order in which a shipment goes through them.
Journey == <<"PENDING", "DISPATCHED", "IN_TRANSIT", "DELIVERED">>
ShipmentStatus == {Journey[i] : i \in 1..4}

Follows(next, current) == \E i \in 1..3 : current = Journey[i] /\ next = Journey[i + 1]

Idle == [pc |-> "idle"]
CancelCall == [pc : {"cancel", "reload"}, o : Order, key : Key]
CreateCall == [pc : {"create"}, o : Order]
MoveCall   == [pc : {"move"}, o : Order, next : ShipmentStatus, expected : ShipmentStatus]
Call == {Idle} \union CancelCall \union CreateCall \union MoveCall

Goto(p, c) == call' = [call EXCEPT ![p] = c]
Return(p) == Goto(p, Idle)

-----------------------------------------------------------------------------
(* Conditions of the code *)

\* Mutant: cancel's where clause has only the status.
CancelClaimAgain(o) == status[o] \in CancellableStatuses

\* The order row that cancel's updateMany may change.
CancelClaim(o) == status[o] \in CancellableStatuses /\ cancellation[o] = NoKey

\* The unique index on cancellationIdempotencyKey.
KeyIsFree(o, k) == \A other \in Order \ {o} : cancellation[other] # k

\* Mutant: the move is claimed by the shipment's id alone.
ClaimsAnyShipment(o, expected) == shipment[o] # "NONE"

\* The shipment row that a transition's updateMany may change.
ClaimsShipment(o, expected) == shipment[o] = expected

\* Mutant: a dispatch does not look at the cancellation.
MovesOrderUnlessShipped(o, next) ==
    IF next = "DISPATCHED" THEN status[o] \in PreShipmentStatuses ELSE status[o] = "SHIPPED"

\* The order row that a transition's second updateMany may change.
MovesOrder(o, next) ==
    IF next = "DISPATCHED"
    THEN status[o] \in PreShipmentStatuses /\ cancellation[o] = NoKey
    ELSE status[o] = "SHIPPED"

\* Mutant: the shipment's status is copied to the order.
SameAsShipment(next) == next

\* What a transition to next writes to the order row.
NextOrderStatus(next) == IF next = "DELIVERED" THEN "DELIVERED" ELSE "SHIPPED"

-----------------------------------------------------------------------------
Init ==
    /\ status = [o \in Order |-> "PLACED"]
    /\ paid = {}
    /\ cancellation = [o \in Order |-> NoKey]
    /\ shipment = [o \in Order |-> "NONE"]
    /\ events = [o \in Order |-> <<>>]
    /\ promised = {}
    /\ call = [p \in Process |-> Idle]

Abandon(p) ==
    /\ call[p] # Idle
    /\ Return(p)
    /\ UNCHANGED <<status, paid, cancellation, shipment, events, promised>>

\* PaymentService.succeeded, as far as the order goes; Payments has the rest.
\* A request to cancel does not keep an order from being paid.
Confirm(o) ==
    /\ status[o] = "PLACED"
    /\ paid' = paid \union {o}
    /\ status' = [status EXCEPT ![o] = "CONFIRMED"]
    /\ UNCHANGED <<cancellation, shipment, events, promised, call>>

-----------------------------------------------------------------------------
(* OrdersService.cancel *)

\* Already requested: the first request's time is the answer.
CancelReplay(p, o) ==
    /\ call[p] = Idle
    /\ cancellation[o] # NoKey
    /\ promised' = promised \union {o}
    /\ UNCHANGED <<status, paid, cancellation, shipment, events, call>>

CancelRead(p, o, k) ==
    /\ call[p] = Idle
    /\ CancelClaim(o)
    /\ KeyIsFree(o, k)
    /\ Goto(p, [pc |-> "cancel", o |-> o, key |-> k])
    /\ UNCHANGED <<status, paid, cancellation, shipment, events, promised>>

CancelCommit(p, o) ==
    /\ call[p].pc = "cancel" /\ call[p].o = o
    /\ CancelClaim(o)
    /\ KeyIsFree(o, call[p].key)
    /\ cancellation' = [cancellation EXCEPT ![o] = call[p].key]
    /\ promised' = promised \union {o}
    /\ Return(p)
    /\ UNCHANGED <<status, paid, shipment, events>>

\* No row matched, or the key was taken meanwhile: the order is loaded again.
CancelMissed(p, o) ==
    /\ call[p].pc = "cancel" /\ call[p].o = o
    /\ ~(CancelClaim(o) /\ KeyIsFree(o, call[p].key))
    /\ Goto(p, [call[p] EXCEPT !.pc = "reload"])
    /\ UNCHANGED <<status, paid, cancellation, shipment, events, promised>>

CancelReload(p, o) ==
    /\ call[p].pc = "reload" /\ call[p].o = o
    /\ promised' = IF cancellation[o] # NoKey THEN promised \union {o} ELSE promised
    /\ Return(p)
    /\ UNCHANGED <<status, paid, cancellation, shipment, events>>

-----------------------------------------------------------------------------
(* DeliveryService *)

\* create: for a paid order that has no shipment yet.
CreateRead(p, o) ==
    /\ call[p] = Idle
    /\ o \in paid
    /\ status[o] \in PreShipmentStatuses
    /\ shipment[o] = "NONE"
    /\ Goto(p, [pc |-> "create", o |-> o])
    /\ UNCHANGED <<status, paid, cancellation, shipment, events, promised>>

\* An order has one shipment (unique index on orderId).
CreateCommit(p, o) ==
    /\ call[p].pc = "create" /\ call[p].o = o
    /\ shipment[o] = "NONE"
    /\ shipment' = [shipment EXCEPT ![o] = "PENDING"]
    /\ events' = [events EXCEPT ![o] = Append(@, "PENDING")]
    /\ Return(p)
    /\ UNCHANGED <<status, paid, cancellation, promised>>

\* transition: only to the status that follows.
MoveRead(p, o, next) ==
    /\ call[p] = Idle
    /\ shipment[o] # "NONE"
    /\ Follows(next, shipment[o])
    /\ o \in paid
    /\ Goto(p, [pc |-> "move", o |-> o, next |-> next, expected |-> shipment[o]])
    /\ UNCHANGED <<status, paid, cancellation, shipment, events, promised>>

MoveCommit(p, o) ==
    LET c == call[p] IN
    /\ c.pc = "move" /\ c.o = o
    /\ ClaimsShipment(o, c.expected)
    /\ MovesOrder(o, c.next)
    /\ shipment' = [shipment EXCEPT ![o] = c.next]
    /\ status' = [status EXCEPT ![o] = NextOrderStatus(c.next)]
    /\ events' = [events EXCEPT ![o] = Append(@, c.next)]
    /\ Return(p)
    /\ UNCHANGED <<paid, cancellation, promised>>

-----------------------------------------------------------------------------
Cancel(p, o) ==
    \/ CancelReplay(p, o)
    \/ \E k \in Key : CancelRead(p, o, k)
    \/ CancelCommit(p, o)
    \/ CancelMissed(p, o)
    \/ CancelReload(p, o)

Create(p, o) == CreateRead(p, o) \/ CreateCommit(p, o)

Transition(p, o) ==
    \/ \E next \in ShipmentStatus : MoveRead(p, o, next)
    \/ MoveCommit(p, o)

Next ==
    \/ \E o \in Order : Confirm(o)
    \/ \E p \in Process : Abandon(p)
    \/ \E p \in Process, o \in Order :
            Cancel(p, o) \/ Create(p, o) \/ Transition(p, o)

Spec == Init /\ [][Next]_vars

-----------------------------------------------------------------------------
\* The rows and calls are well formed (order, shipment and call rows).
TypeOK ==
    /\ status \in [Order -> OrderStatus]
    /\ paid \subseteq Order
    /\ cancellation \in [Order -> Key \union {NoKey}]
    /\ shipment \in [Order -> ShipmentStatus \union {"NONE"}]
    /\ events \in [Order -> Seq(ShipmentStatus)]
    /\ promised \subseteq Order
    /\ call \in [Process -> Call]

\* A customer who was told that the cancellation is requested is never sent the
\* goods: the request and the dispatch each look at the row the other writes,
\* from reads that may be stale, and exactly one of them takes effect.
PromisedStaysHome ==
    \A o \in promised :
        /\ cancellation[o] # NoKey
        /\ status[o] \in CancellableStatuses
        /\ shipment[o] \in {"NONE", "PENDING"}

\* The status customers see on the order agrees with its shipment, after any
\* race of administrators, and only paid orders have one.
OrderFollowsShipment ==
    \A o \in Order :
        /\ status[o] = "SHIPPED" <=> shipment[o] \in {"DISPATCHED", "IN_TRANSIT"}
        /\ status[o] = "DELIVERED" <=> shipment[o] = "DELIVERED"
        /\ shipment[o] # "NONE" => o \in paid

\* delivery/README.md: only one concurrent request creates each transition's
\* event.  The events are the journey up to the current status, each once.
EventsTellJourney ==
    \A o \in Order :
        \E n \in 0..4 :
            /\ events[o] = SubSeq(Journey, 1, n)
            /\ shipment[o] = IF n = 0 THEN "NONE" ELSE Journey[n]

\* A cancellation key marks one order, whichever requests used it concurrently,
\* and a request once recorded stays what it is.
CancellationIsOnce ==
    [][\A o \in Order : cancellation'[o] # cancellation[o] =>
        /\ cancellation[o] = NoKey
        /\ \A other \in Order \ {o} : cancellation'[other] # cancellation'[o]]_vars

-----------------------------------------------------------------------------
(* The life of an order that these handlers implement *)

StageOf(s) ==
    CASE s = "PLACED" -> "placed"
      [] s \in PreShipmentStatuses -> "confirmed"
      [] s = "SHIPPED" -> "shipped"
      [] OTHER -> "delivered"

Life == INSTANCE OrderLife WITH
    stage <- [o \in Order |-> StageOf(status[o])],
    cancelled <- {o \in Order : cancellation[o] # NoKey}

\* Every step is a step in the life of one order: an order is cancelled or
\* shipped, never both, and goes through its stages in turn.
ImplementsLife == Life!LifeSpec
=============================================================================
