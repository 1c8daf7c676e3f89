-------------------------- MODULE FulfilmentProofs --------------------------
(***************************************************************************)
(* What is proved of Fulfilment for every number of orders, requests and   *)
(* cancellation keys.                                                      *)
(***************************************************************************)
EXTENDS Fulfilment, TLAPS

LEMMA JourneyStatuses ==
    /\ ShipmentStatus = {"PENDING", "DISPATCHED", "IN_TRANSIT", "DELIVERED"}
    /\ \A next, current : Follows(next, current) <=>
            \/ current = "PENDING" /\ next = "DISPATCHED"
            \/ current = "DISPATCHED" /\ next = "IN_TRANSIT"
            \/ current = "IN_TRANSIT" /\ next = "DELIVERED"
<1>1. Journey[1] = "PENDING" /\ Journey[2] = "DISPATCHED"
      /\ Journey[3] = "IN_TRANSIT" /\ Journey[4] = "DELIVERED"
  BY DEF Journey
<1>2. 1..4 = {1, 2, 3, 4} /\ 1..3 = {1, 2, 3}
  OBVIOUS
<1>3. ShipmentStatus = {"PENDING", "DISPATCHED", "IN_TRANSIT", "DELIVERED"}
  BY <1>1, <1>2 DEF ShipmentStatus
<1>4. ASSUME NEW next, NEW current
      PROVE  Follows(next, current) <=>
            \/ current = "PENDING" /\ next = "DISPATCHED"
            \/ current = "DISPATCHED" /\ next = "IN_TRANSIT"
            \/ current = "IN_TRANSIT" /\ next = "DELIVERED"
  BY <1>1, <1>2 DEF Follows
<1>5. QED
  BY <1>3, <1>4

\* A call record has the fields of the step it waits for.
LEMMA CallFields ==
    ASSUME NEW c \in Call
    PROVE  /\ c.pc \in {"cancel", "reload"} => c \in CancelCall
           /\ c.pc = "create" => c \in CreateCall
           /\ c.pc = "move" => c \in MoveCall
BY DEF Call, Idle, CancelCall, CreateCall, MoveCall

LEMMA GotoType ==
    ASSUME TypeOK, NEW p \in Process, NEW c \in Call, Goto(p, c)
    PROVE  call' \in [Process -> Call]
BY DEF TypeOK, Goto

-----------------------------------------------------------------------------
(* Types *)

LEMMA InitTypeOK == Init => TypeOK
BY DEF Init, TypeOK, OrderStatus, Call

LEMMA NextTypeOK == TypeOK /\ [Next]_vars => TypeOK'
<1> SUFFICES ASSUME TypeOK, [Next]_vars PROVE TypeOK'
  OBVIOUS
<1> USE DEF TypeOK
<1>1. ASSUME NEW o \in Order, Confirm(o) PROVE TypeOK'
  BY <1>1 DEF Confirm, OrderStatus
<1>2. ASSUME NEW p \in Process, Abandon(p) PROVE TypeOK'
  BY <1>2, GotoType DEF Abandon, Return, Call
<1>3. ASSUME NEW p \in Process, NEW o \in Order, CancelReplay(p, o) PROVE TypeOK'
  BY <1>3 DEF CancelReplay
<1>4. ASSUME NEW p \in Process, NEW o \in Order, NEW k \in Key, CancelRead(p, o, k)
      PROVE  TypeOK'
  <2>1. [pc |-> "cancel", o |-> o, key |-> k] \in Call
    BY DEF Call, CancelCall
  <2>2. QED
    BY <1>4, <2>1, GotoType DEF CancelRead
<1>5. ASSUME NEW p \in Process, NEW o \in Order, CancelCommit(p, o) PROVE TypeOK'
  <2>1. call[p].key \in Key
    BY <1>5, CallFields DEF CancelCommit, CancelCall
  <2>2. call' \in [Process -> Call]
    BY <1>5, GotoType DEF CancelCommit, Return, Call
  <2>3. QED
    BY <1>5, <2>1, <2>2 DEF CancelCommit
<1>6. ASSUME NEW p \in Process, NEW o \in Order, CancelMissed(p, o) PROVE TypeOK'
  <2>1. call[p] \in CancelCall
    BY <1>6, CallFields DEF CancelMissed
  <2>2. [call[p] EXCEPT !.pc = "reload"] \in Call
    BY <2>1 DEF Call, CancelCall
  <2>3. QED
    BY <1>6, <2>2, GotoType DEF CancelMissed
<1>7. ASSUME NEW p \in Process, NEW o \in Order, CancelReload(p, o) PROVE TypeOK'
  <2>1. call' \in [Process -> Call]
    BY <1>7, GotoType DEF CancelReload, Return, Call
  <2>2. QED
    BY <1>7, <2>1 DEF CancelReload
<1>8. ASSUME NEW p \in Process, NEW o \in Order, CreateRead(p, o) PROVE TypeOK'
  <2>1. [pc |-> "create", o |-> o] \in Call
    BY DEF Call, CreateCall
  <2>2. QED
    BY <1>8, <2>1, GotoType DEF CreateRead
<1>9. ASSUME NEW p \in Process, NEW o \in Order, CreateCommit(p, o) PROVE TypeOK'
  <2>1. "PENDING" \in ShipmentStatus
    BY JourneyStatuses
  <2>2. call' \in [Process -> Call]
    BY <1>9, GotoType DEF CreateCommit, Return, Call
  <2>3. Append(events[o], "PENDING") \in Seq(ShipmentStatus)
    BY <2>1
  <2>4. QED
    BY <1>9, <2>1, <2>2, <2>3 DEF CreateCommit
<1>10. ASSUME NEW p \in Process, NEW o \in Order, NEW next \in ShipmentStatus,
              MoveRead(p, o, next)
       PROVE  TypeOK'
  <2>1. [pc |-> "move", o |-> o, next |-> next, expected |-> shipment[o]] \in Call
    BY <1>10 DEF MoveRead, Call, MoveCall
  <2>2. QED
    BY <1>10, <2>1, GotoType DEF MoveRead
<1>11. ASSUME NEW p \in Process, NEW o \in Order, MoveCommit(p, o) PROVE TypeOK'
  <2>1. call[p].next \in ShipmentStatus
    BY <1>11, CallFields DEF MoveCommit, MoveCall
  <2>2. call' \in [Process -> Call]
    BY <1>11, GotoType DEF MoveCommit, Return, Call
  <2>3. Append(events[o], call[p].next) \in Seq(ShipmentStatus)
    BY <2>1
  <2>4. NextOrderStatus(call[p].next) \in OrderStatus
    BY DEF NextOrderStatus, OrderStatus
  <2>5. QED
    BY <1>11, <2>1, <2>2, <2>3, <2>4 DEF MoveCommit
<1>12. CASE UNCHANGED vars
  BY <1>12 DEF vars
<1>13. QED
  BY <1>1, <1>2, <1>3, <1>4, <1>5, <1>6, <1>7, <1>8, <1>9, <1>10, <1>11, <1>12
     DEF Next, Cancel, Create, Transition

-----------------------------------------------------------------------------
(* The inductive invariant *)

\* What each order's rows say together.  An order is paid exactly when it has
\* left PLACED, and one whose cancellation is requested has not left.
OrderFacts(o) ==
    /\ o \in paid <=> status[o] # "PLACED"
    /\ status[o] = "SHIPPED" <=> shipment[o] \in {"DISPATCHED", "IN_TRANSIT"}
    /\ status[o] = "DELIVERED" <=> shipment[o] = "DELIVERED"
    /\ shipment[o] # "NONE" => o \in paid
    /\ cancellation[o] # NoKey => status[o] \in CancellableStatuses
    /\ o \in promised => cancellation[o] # NoKey

\* What a request knows of its order whatever happened since it read.
CallFacts(c) ==
    /\ c.pc = "create" => c.o \in paid
    /\ c.pc = "move" => c.o \in paid /\ Follows(c.next, c.expected)

FulfilmentInv ==
    /\ TypeOK
    /\ \A o \in Order : OrderFacts(o)
    /\ \A p \in Process : CallFacts(call[p])

LEMMA InitFulfilmentInv == Init => FulfilmentInv
<1> SUFFICES ASSUME Init PROVE FulfilmentInv
  OBVIOUS
<1>1. TypeOK
  BY InitTypeOK
<1>2. ASSUME NEW o \in Order PROVE OrderFacts(o)
  BY DEF Init, OrderFacts
<1>3. ASSUME NEW p \in Process PROVE CallFacts(call[p])
  BY DEF Init, CallFacts, Idle
<1>4. QED
  BY <1>1, <1>2, <1>3 DEF FulfilmentInv

\* Payment only grows, so what a waiting request knows stays true.
LEMMA PaidGrows == TypeOK /\ [Next]_vars => paid \subseteq paid'
BY DEF Next, vars, Cancel, Create, Transition, Confirm, Abandon, CancelReplay,
       CancelRead, CancelCommit, CancelMissed, CancelReload, CreateRead,
       CreateCommit, MoveRead, MoveCommit

LEMMA CallFactsKept ==
    ASSUME FulfilmentInv, paid \subseteq paid', call' = call
    PROVE  \A p \in Process : CallFacts(call[p])'
BY DEF FulfilmentInv, CallFacts

LEMMA GotoFacts ==
    ASSUME FulfilmentInv, paid \subseteq paid', NEW p \in Process, NEW c,
           Goto(p, c), CallFacts(c)'
    PROVE  \A q \in Process : CallFacts(call[q])'
<1> SUFFICES ASSUME NEW q \in Process PROVE CallFacts(call[q])'
  OBVIOUS
<1>1. call'[q] = IF q = p THEN c ELSE call[q]
  BY DEF FulfilmentInv, TypeOK, Goto
<1>2. CASE q = p
  BY <1>1, <1>2 DEF CallFacts
<1>3. CASE q # p
  <2>1. call'[q] = call[q] /\ CallFacts(call[q])
    BY <1>1, <1>3 DEF FulfilmentInv
  <2>2. QED
    BY <2>1 DEF CallFacts
<1>4. QED
  BY <1>2, <1>3

LEMMA ReturnFacts ==
    ASSUME FulfilmentInv, paid \subseteq paid', NEW p \in Process, Return(p)
    PROVE  \A q \in Process : CallFacts(call[q])'
<1>1. CallFacts(Idle)'
  BY DEF CallFacts, Idle
<1>2. QED
  BY <1>1, GotoFacts DEF Return

\* A step that changes no row but the calls keeps what the rows say.
LEMMA OrderFactsKept ==
    ASSUME FulfilmentInv, UNCHANGED <<status, paid, cancellation, shipment, promised>>
    PROVE  \A o \in Order : OrderFacts(o)'
BY DEF FulfilmentInv, OrderFacts

\* The three moves: what the claimed rows were and what they become.
LEMMA MoveIsOneStep ==
    ASSUME FulfilmentInv, NEW p \in Process, NEW o \in Order, MoveCommit(p, o)
    PROVE  /\ \/ /\ shipment[o] = "PENDING" /\ shipment'[o] = "DISPATCHED"
                 /\ status[o] \in PreShipmentStatuses /\ status'[o] = "SHIPPED"
                 /\ cancellation[o] = NoKey
              \/ /\ shipment[o] = "DISPATCHED" /\ shipment'[o] = "IN_TRANSIT"
                 /\ status[o] = "SHIPPED" /\ status'[o] = "SHIPPED"
              \/ /\ shipment[o] = "IN_TRANSIT" /\ shipment'[o] = "DELIVERED"
                 /\ status[o] = "SHIPPED" /\ status'[o] = "DELIVERED"
           /\ shipment' = [shipment EXCEPT ![o] = shipment'[o]]
           /\ status' = [status EXCEPT ![o] = status'[o]]
           /\ events' = [events EXCEPT ![o] = Append(@, shipment'[o])]
           /\ o \in paid
           /\ UNCHANGED <<paid, cancellation, promised>>
<1>1. Follows(call[p].next, call[p].expected) /\ o \in paid
  BY DEF FulfilmentInv, CallFacts, MoveCommit
<1>2. /\ shipment[o] = call[p].expected
      /\ shipment' = [shipment EXCEPT ![o] = call[p].next]
      /\ status' = [status EXCEPT ![o] = NextOrderStatus(call[p].next)]
      /\ events' = [events EXCEPT ![o] = Append(@, call[p].next)]
      /\ MovesOrder(o, call[p].next)
      /\ UNCHANGED <<paid, cancellation, promised>>
  BY DEF MoveCommit, ClaimsShipment
<1>3. /\ shipment'[o] = call[p].next
      /\ status'[o] = NextOrderStatus(call[p].next)
  BY <1>2 DEF FulfilmentInv, TypeOK
<1>4. \/ shipment[o] = "PENDING" /\ shipment'[o] = "DISPATCHED"
      \/ shipment[o] = "DISPATCHED" /\ shipment'[o] = "IN_TRANSIT"
      \/ shipment[o] = "IN_TRANSIT" /\ shipment'[o] = "DELIVERED"
  BY <1>1, <1>2, <1>3, JourneyStatuses
<1>5. QED
  BY <1>1, <1>2, <1>3, <1>4 DEF MovesOrder, NextOrderStatus

LEMMA NextOrderFacts ==
    FulfilmentInv /\ [Next]_vars => \A o \in Order : OrderFacts(o)'
<1> SUFFICES ASSUME FulfilmentInv, [Next]_vars, NEW other \in Order
             PROVE  OrderFacts(other)'
  OBVIOUS
<1>0. TypeOK /\ OrderFacts(other)
  BY DEF FulfilmentInv
<1>1. ASSUME NEW o \in Order, Confirm(o) PROVE OrderFacts(other)'
  BY <1>0, <1>1 DEF Confirm, OrderFacts, TypeOK, CancellableStatuses
<1>2. ASSUME NEW p \in Process, Abandon(p) PROVE OrderFacts(other)'
  BY <1>2, OrderFactsKept DEF Abandon
<1>3. ASSUME NEW p \in Process, NEW o \in Order, CancelReplay(p, o)
      PROVE  OrderFacts(other)'
  BY <1>0, <1>3 DEF CancelReplay, OrderFacts
<1>4. ASSUME NEW p \in Process, NEW o \in Order, NEW k \in Key, CancelRead(p, o, k)
      PROVE  OrderFacts(other)'
  BY <1>4, OrderFactsKept DEF CancelRead
<1>5. ASSUME NEW p \in Process, NEW o \in Order, CancelCommit(p, o)
      PROVE  OrderFacts(other)'
  <2>1. call[p].key # NoKey
    BY <1>0, <1>5, CallFields, FulfilmentAssumption
       DEF TypeOK, CancelCommit, CancelCall
  <2>2. cancellation' = [cancellation EXCEPT ![o] = call[p].key]
        /\ promised' = promised \union {o}
        /\ status[o] \in CancellableStatuses
        /\ UNCHANGED <<status, paid, shipment>>
    BY <1>5 DEF CancelCommit, CancelClaim
  <2>3. CASE other = o
    BY <1>0, <2>1, <2>2, <2>3 DEF OrderFacts, TypeOK
  <2>4. CASE other # o
    BY <1>0, <2>2, <2>4 DEF OrderFacts, TypeOK
  <2>5. QED
    BY <2>3, <2>4
<1>6. ASSUME NEW p \in Process, NEW o \in Order, CancelMissed(p, o)
      PROVE  OrderFacts(other)'
  BY <1>6, OrderFactsKept DEF CancelMissed
<1>7. ASSUME NEW p \in Process, NEW o \in Order, CancelReload(p, o)
      PROVE  OrderFacts(other)'
  BY <1>0, <1>7 DEF CancelReload, OrderFacts
<1>8. ASSUME NEW p \in Process, NEW o \in Order, CreateRead(p, o)
      PROVE  OrderFacts(other)'
  BY <1>8, OrderFactsKept DEF CreateRead
<1>9. ASSUME NEW p \in Process, NEW o \in Order, CreateCommit(p, o)
      PROVE  OrderFacts(other)'
  <2>1. o \in paid
    BY <1>9 DEF CreateCommit, FulfilmentInv, CallFacts
  <2>2. QED
    BY <1>0, <1>9, <2>1 DEF CreateCommit, OrderFacts, TypeOK
<1>10. ASSUME NEW p \in Process, NEW o \in Order, NEW next \in ShipmentStatus,
              MoveRead(p, o, next)
       PROVE  OrderFacts(other)'
  BY <1>10, OrderFactsKept DEF MoveRead
<1>11. ASSUME NEW p \in Process, NEW o \in Order, MoveCommit(p, o)
       PROVE  OrderFacts(other)'
  <2>1. CASE other = o
    BY <1>0, <1>11, <2>1, MoveIsOneStep
       DEF OrderFacts, PreShipmentStatuses, CancellableStatuses
  <2>2. CASE other # o
    <3>1. status'[other] = status[other] /\ shipment'[other] = shipment[other]
      BY <1>0, <1>11, <2>2, MoveIsOneStep DEF TypeOK
    <3>2. QED
      BY <1>0, <1>11, <3>1, MoveIsOneStep DEF OrderFacts
  <2>3. QED
    BY <2>1, <2>2
<1>12. CASE UNCHANGED vars
  BY <1>12, OrderFactsKept DEF vars
<1>13. QED
  BY <1>1, <1>2, <1>3, <1>4, <1>5, <1>6, <1>7, <1>8, <1>9, <1>10, <1>11, <1>12
     DEF Next, Cancel, Create, Transition

LEMMA NextCallFacts ==
    FulfilmentInv /\ [Next]_vars => \A q \in Process : CallFacts(call[q])'
<1> SUFFICES ASSUME FulfilmentInv, [Next]_vars
             PROVE  \A q \in Process : CallFacts(call[q])'
  OBVIOUS
<1>0. TypeOK /\ paid \subseteq paid'
  BY PaidGrows DEF FulfilmentInv
<1>1. ASSUME NEW p \in Process, Return(p)
      PROVE  \A q \in Process : CallFacts(call[q])'
  BY <1>0, <1>1, ReturnFacts
<1>2. ASSUME NEW p \in Process, NEW o \in Order, NEW k \in Key, CancelRead(p, o, k)
      PROVE  \A q \in Process : CallFacts(call[q])'
  <2>1. CallFacts([pc |-> "cancel", o |-> o, key |-> k])'
    BY DEF CallFacts
  <2>2. QED
    BY <1>0, <1>2, <2>1, GotoFacts DEF CancelRead
<1>3. ASSUME NEW p \in Process, NEW o \in Order, CancelMissed(p, o)
      PROVE  \A q \in Process : CallFacts(call[q])'
  <2> DEFINE c == [call[p] EXCEPT !.pc = "reload"]
  <2>1. call[p] \in CancelCall
    BY <1>0, <1>3, CallFields DEF TypeOK, CancelMissed
  <2>2. c.pc = "reload"
    BY <2>1 DEF CancelCall
  <2>3. Goto(p, c)
    BY <1>3 DEF CancelMissed
  <2> HIDE DEF c
  <2>4. call'[p] = c /\ \A q \in Process \ {p} : call'[q] = call[q]
    BY <1>0, <2>3 DEF Goto, TypeOK
  <2>5. QED
    BY <1>0, <2>2, <2>4 DEF CallFacts, FulfilmentInv
<1>4. ASSUME NEW p \in Process, NEW o \in Order, CreateRead(p, o)
      PROVE  \A q \in Process : CallFacts(call[q])'
  <2>1. CallFacts([pc |-> "create", o |-> o])'
    BY <1>0, <1>4 DEF CallFacts, CreateRead
  <2>2. QED
    BY <1>0, <1>4, <2>1, GotoFacts DEF CreateRead
<1>5. ASSUME NEW p \in Process, NEW o \in Order, NEW next \in ShipmentStatus,
             MoveRead(p, o, next)
      PROVE  \A q \in Process : CallFacts(call[q])'
  <2> DEFINE c == [pc |-> "move", o |-> o, next |-> next, expected |-> shipment[o]]
  <2>1. /\ c.pc = "move" /\ c.o = o /\ o \in paid'
        /\ Follows(c.next, c.expected)
    BY <1>0, <1>5 DEF MoveRead
  <2>2. Goto(p, c)
    BY <1>5 DEF MoveRead
  <2> HIDE DEF c
  <2>3. call'[p] = c /\ \A q \in Process \ {p} : call'[q] = call[q]
    BY <1>0, <2>2 DEF Goto, TypeOK
  <2>4. QED
    BY <1>0, <2>1, <2>3 DEF CallFacts, FulfilmentInv, Follows, Journey
<1>6. CASE UNCHANGED call
  BY <1>0, <1>6, CallFactsKept
<1>7. QED
  BY <1>1, <1>2, <1>3, <1>4, <1>5, <1>6
     DEF Next, vars, Cancel, Create, Transition, Confirm, Abandon, CancelReplay,
         CancelCommit, CancelReload, CreateCommit, MoveCommit

LEMMA NextFulfilmentInv == FulfilmentInv /\ [Next]_vars => FulfilmentInv'
<1> SUFFICES ASSUME FulfilmentInv, [Next]_vars PROVE FulfilmentInv'
  OBVIOUS
<1>1. TypeOK'
  BY NextTypeOK DEF FulfilmentInv
<1>2. \A o \in Order : OrderFacts(o)'
  BY NextOrderFacts
<1>3. \A p \in Process : CallFacts(call[p])'
  BY NextCallFacts
<1>4. QED
  BY <1>1, <1>2, <1>3 DEF FulfilmentInv

LEMMA FulfilmentInvariant == Spec => []FulfilmentInv
BY InitFulfilmentInv, NextFulfilmentInv, PTL DEF Spec

-----------------------------------------------------------------------------
(* Safety *)

\* Whatever requests race, the rows of orders and shipments and the calls of
\* the handlers keep their types.
THEOREM TypeCorrect == Spec => []TypeOK
BY FulfilmentInvariant, PTL DEF FulfilmentInv

\* A customer who was told by OrdersService.cancel that the cancellation is
\* requested never has the order shipped by DeliveryService.transition.
THEOREM CancelledIsNotShipped == Spec => []PromisedStaysHome
<1>1. FulfilmentInv => PromisedStaysHome
  <2> SUFFICES ASSUME FulfilmentInv, NEW o \in promised
               PROVE  /\ cancellation[o] # NoKey
                      /\ status[o] \in CancellableStatuses
                      /\ shipment[o] \in {"NONE", "PENDING"}
    BY DEF PromisedStaysHome
  <2>1. o \in Order /\ OrderFacts(o)
    BY DEF FulfilmentInv, TypeOK
  <2>2. shipment[o] \in {"NONE", "PENDING", "DISPATCHED", "IN_TRANSIT", "DELIVERED"}
    BY <2>1, JourneyStatuses DEF FulfilmentInv, TypeOK
  <2>3. QED
    BY <2>1, <2>2 DEF OrderFacts, CancellableStatuses
<1>2. QED
  BY <1>1, FulfilmentInvariant, PTL

\* The order's status and its shipment's status agree after any race of the
\* transitions of DeliveryService, and only paid orders are shipped.
THEOREM StatusesAgree == Spec => []OrderFollowsShipment
<1>1. FulfilmentInv => OrderFollowsShipment
  BY DEF FulfilmentInv, OrderFacts, OrderFollowsShipment
<1>2. QED
  BY <1>1, FulfilmentInvariant, PTL

-----------------------------------------------------------------------------
(* The tracking events *)

LEMMA JourneyIsSequence ==
    /\ Journey \in Seq(ShipmentStatus)
    /\ Len(Journey) = 4
    /\ SubSeq(Journey, 1, 0) = <<>>
BY JourneyStatuses DEF Journey

LEMMA JourneyGrows ==
    ASSUME NEW n \in 0..3
    PROVE  Append(SubSeq(Journey, 1, n), Journey[n + 1]) = SubSeq(Journey, 1, n + 1)
BY DEF Journey

\* The part of EventsTellJourney about one order.
Told(o) == \E n \in 0..4 :
    /\ events[o] = SubSeq(Journey, 1, n)
    /\ shipment[o] = IF n = 0 THEN "NONE" ELSE Journey[n]

LEMMA NextTold ==
    ASSUME FulfilmentInv, EventsTellJourney, [Next]_vars
    PROVE  EventsTellJourney'
<1> SUFFICES ASSUME NEW other \in Order PROVE Told(other)'
  BY DEF EventsTellJourney, Told
<1>0. TypeOK /\ Told(other)
  BY DEF FulfilmentInv, EventsTellJourney, Told
<1>1. CASE UNCHANGED <<shipment, events>>
  BY <1>0, <1>1 DEF Told
<1>2. ASSUME NEW p \in Process, NEW o \in Order, CreateCommit(p, o)
      PROVE  Told(other)'
  <2>1. CASE other = o
    <3>1. shipment[o] = "NONE" /\ shipment'[o] = "PENDING"
          /\ events'[o] = Append(events[o], "PENDING")
      BY <1>0, <1>2 DEF CreateCommit, TypeOK
    <3>2. events[o] = SubSeq(Journey, 1, 0)
      <4>1. \A n \in 1..4 : Journey[n] # "NONE"
        BY DEF Journey
      <4>2. PICK n \in 0..4 : /\ events[o] = SubSeq(Journey, 1, n)
                              /\ shipment[o] = IF n = 0 THEN "NONE" ELSE Journey[n]
        BY <1>0, <2>1 DEF Told
      <4>3. n = 0
        BY <3>1, <4>1, <4>2
      <4>4. QED
        BY <4>2, <4>3
    <3>3. Journey[1] = "PENDING" /\ 0 + 1 = 1
      BY DEF Journey
    <3>4. events'[o] = SubSeq(Journey, 1, 1)
      BY <3>1, <3>2, <3>3, JourneyGrows
    <3>5. QED
      BY <2>1, <3>1, <3>3, <3>4 DEF Told
  <2>2. CASE other # o
    <3>1. shipment'[other] = shipment[other] /\ events'[other] = events[other]
      BY <1>0, <1>2, <2>2 DEF CreateCommit, TypeOK
    <3>2. QED
      BY <1>0, <3>1 DEF Told
  <2>3. QED
    BY <2>1, <2>2
<1>3. ASSUME NEW p \in Process, NEW o \in Order, MoveCommit(p, o)
      PROVE  Told(other)'
  <2>1. CASE other = o
    <3>1. PICK n \in 0..4 : /\ events[o] = SubSeq(Journey, 1, n)
                            /\ shipment[o] = IF n = 0 THEN "NONE" ELSE Journey[n]
      BY <1>0, <2>1 DEF Told
    <3>2. n \in 1..3 /\ shipment'[o] = Journey[n + 1]
      BY <1>3, <3>1, MoveIsOneStep DEF Journey
    <3>3. events'[o] = Append(events[o], shipment'[o])
      BY <1>0, <1>3, MoveIsOneStep DEF TypeOK
    <3>4. events'[o] = SubSeq(Journey, 1, n + 1)
      BY <3>1, <3>2, <3>3, JourneyGrows
    <3>5. n + 1 \in 0..4 /\ n + 1 # 0
      BY <3>2
    <3>6. QED
      BY <2>1, <3>2, <3>4, <3>5 DEF Told
  <2>2. CASE other # o
    <3>1. shipment'[other] = shipment[other] /\ events'[other] = events[other]
      BY <1>0, <1>3, <2>2, MoveIsOneStep DEF TypeOK
    <3>2. QED
      BY <1>0, <3>1 DEF Told
  <2>3. QED
    BY <2>1, <2>2
<1>4. QED
  BY <1>1, <1>2, <1>3 DEF Next, vars, Cancel, Create, Transition, Confirm, Abandon,
     CancelReplay, CancelRead, CancelCommit, CancelMissed, CancelReload,
     CreateRead, MoveRead

\* Whichever administrators race, DeliveryService records each transition of a
\* shipment once, in order, and no event that did not take place.
THEOREM EventsAreTheJourney == Spec => []EventsTellJourney
<1>1. Init => EventsTellJourney
  <2> SUFFICES ASSUME Init, NEW o \in Order PROVE Told(o)
    BY DEF EventsTellJourney, Told
  <2>1. 0 \in 0..4 /\ events[o] = SubSeq(Journey, 1, 0) /\ shipment[o] = "NONE"
    BY JourneyIsSequence DEF Init
  <2>2. QED
    BY <2>1 DEF Told
<1>2. QED
  BY <1>1, FulfilmentInvariant, NextTold, PTL DEF Spec

-----------------------------------------------------------------------------
(* Cancellation requests *)

\* A key that customers use again, concurrently or later, marks one order, and
\* OrdersService.cancel never replaces a recorded request.
THEOREM RequestsAreOnce == Spec => CancellationIsOnce
<1> DEFINE Once == \A o \in Order : cancellation'[o] # cancellation[o] =>
               /\ cancellation[o] = NoKey
               /\ \A other \in Order \ {o} : cancellation'[other] # cancellation'[o]
<1>1. ASSUME TypeOK, [Next]_vars PROVE [Once]_vars
  <2>1. CASE UNCHANGED cancellation
    BY <2>1
  <2>2. ASSUME NEW p \in Process, NEW o \in Order, CancelCommit(p, o) PROVE Once
    <3>1. cancellation' = [cancellation EXCEPT ![o] = call[p].key]
          /\ cancellation[o] = NoKey
          /\ \A other \in Order \ {o} : cancellation[other] # call[p].key
      BY <2>2 DEF CancelCommit, CancelClaim, KeyIsFree
    <3>2. QED
      BY <1>1, <3>1 DEF TypeOK
  <2>3. QED
    BY <1>1, <2>1, <2>2 DEF Next, vars, Cancel, Create, Transition, Confirm, Abandon,
       CancelReplay, CancelRead, CancelMissed, CancelReload, CreateRead,
       CreateCommit, MoveRead, MoveCommit
<1>2. QED
  BY <1>1, TypeCorrect, PTL DEF Spec, CancellationIsOnce

-----------------------------------------------------------------------------
(* Refinement *)

LEMMA Stages ==
    /\ StageOf("PLACED") = "placed"
    /\ \A s \in PreShipmentStatuses : StageOf(s) = "confirmed"
    /\ StageOf("SHIPPED") = "shipped"
    /\ StageOf("DELIVERED") = "delivered"
BY DEF StageOf, PreShipmentStatuses

\* The handlers implement the life of an order: each step of the customers'
\* and administrators' requests is one of its steps or changes nothing in it.
THEOREM Refinement == Spec => ImplementsLife
<1>1. Init => Life!LifeInit
  BY Stages DEF Init, Life!LifeInit
<1>2. ASSUME FulfilmentInv, [Next]_vars PROVE [Life!LifeNext]_(Life!lifeVars)
  <2>0. TypeOK
    BY <1>2 DEF FulfilmentInv
  <2>1. CASE UNCHANGED <<status, cancellation>>
    BY <2>1 DEF Life!lifeVars
  <2>2. ASSUME NEW o \in Order, Confirm(o) PROVE Life!LifeNext
    <3>1. Life!Confirm(o)
      BY <2>0, <2>2 DEF Confirm, Life!Confirm, Life!Advance, StageOf, TypeOK,
         PreShipmentStatuses
    <3>2. QED
      BY <3>1 DEF Life!LifeNext
  <2>3. ASSUME NEW p \in Process, NEW o \in Order, CancelCommit(p, o) PROVE Life!LifeNext
    <3>1. call[p].key # NoKey
      BY <2>0, <2>3, CallFields, FulfilmentAssumption
         DEF TypeOK, CancelCommit, CancelCall
    <3>2. Life!Cancel(o)
      BY <2>0, <2>3, <3>1 DEF CancelCommit, CancelClaim, Life!Cancel, StageOf,
         TypeOK, CancellableStatuses, PreShipmentStatuses
    <3>3. QED
      BY <3>2 DEF Life!LifeNext
  <2>4. ASSUME NEW p \in Process, NEW o \in Order, MoveCommit(p, o)
        PROVE  [Life!LifeNext]_(Life!lifeVars)
    <3>1. CASE shipment'[o] = "DISPATCHED"
      <4>1. /\ status[o] \in PreShipmentStatuses /\ cancellation[o] = NoKey
            /\ status' = [status EXCEPT ![o] = "SHIPPED"]
            /\ UNCHANGED cancellation
        BY <1>2, <2>4, <3>1, MoveIsOneStep
      <4>2. Life!Ship(o)
        BY <2>0, <4>1, Stages DEF Life!Ship, Life!Advance, TypeOK
      <4>3. QED
        BY <4>2 DEF Life!LifeNext
    <3>2. CASE shipment'[o] = "IN_TRANSIT"
      <4>1. UNCHANGED <<status, cancellation>>
        BY <1>2, <2>0, <2>4, <3>2, MoveIsOneStep DEF TypeOK
      <4>2. QED
        BY <4>1 DEF Life!lifeVars
    <3>3. CASE shipment'[o] = "DELIVERED"
      <4>1. Life!Deliver(o)
        BY <1>2, <2>0, <2>4, <3>3, MoveIsOneStep
           DEF Life!Deliver, Life!Advance, StageOf, TypeOK, PreShipmentStatuses
      <4>2. QED
        BY <4>1 DEF Life!LifeNext
    <3>4. QED
      BY <1>2, <2>4, <3>1, <3>2, <3>3, MoveIsOneStep
  <2>5. QED
    BY <1>2, <2>1, <2>2, <2>3, <2>4 DEF Next, vars, Cancel, Create, Transition,
       Abandon, CancelReplay, CancelRead, CancelMissed, CancelReload, CreateRead,
       CreateCommit, MoveRead
<1>3. QED
  BY <1>1, <1>2, FulfilmentInvariant, PTL DEF Spec, ImplementsLife, Life!LifeSpec
=============================================================================
