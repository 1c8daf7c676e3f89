--------------------------- MODULE PaymentsProofs ---------------------------
(***************************************************************************)
(* What is proved of Payments for every number of orders, variants,        *)
(* requests, batches, attempts and clock ticks.                            *)
(***************************************************************************)
EXTENDS Payments, StockUnitsTheorems

-----------------------------------------------------------------------------
(* Types *)

\* A call record has the fields of the step it waits for.
LEMMA CallFields ==
    ASSUME NEW c \in Call
    PROVE  /\ c.pc = "checkout" => c \in CheckoutCall
           /\ c.pc = "gateway" => c \in GatewayCall
           /\ c.pc = "ensure" => c \in EnsureCall
           /\ c.pc = "retry" => c \in RetryCall
           /\ c.pc = "fail" => c \in FailCall
           /\ c.pc = "succeed" => c \in SucceedCall
           /\ c.pc \in {"award", "refer"} => c \in AwardCall
           /\ c.pc = "qualify" => c \in QualifyCall
BY DEF Call, Idle, CheckoutCall, GatewayCall, EnsureCall, RetryCall, FailCall,
       SucceedCall, AwardCall, QualifyCall

\* A row that passes the table's check has natural numbers in it.
LEMMA BalanceCheckType ==
    ASSUME NEW b \in [onHand : Int, reserved : Int], BalanceCheck(b)
    PROVE  b \in Balance
BY DEF BalanceCheck, Balance

\* A row keeps its type when its status changes.
LEMMA SetStatusType ==
    ASSUME NEW r \in Reservation, NEW s \in ReservationStatus
    PROVE  [r EXCEPT !.status = s] \in Reservation
BY DEF Reservation

LEMMA InitTypeOK == Init => TypeOK
<1> SUFFICES ASSUME Init PROVE TypeOK
  OBVIOUS
<1> USE PaymentsAssumption DEF PaymentsAssumption, Init
<1>1. clock \in 0..MaxClock /\ order \in [Order -> OrderStatus]
  BY DEF OrderStatus
<1>2. reservation \in [Order -> [Variant -> Reservation]]
  BY DEF NoReservation, Reservation, ReservationStatus
<1>3. balance \in [Variant -> Balance]
  BY DEF Balance
<1>4. batch \in [Batch -> {"RECORDED", "RELEASED"}] /\ movement \subseteq Line
  OBVIOUS
<1>5. payment \in [Order -> Payment]
  BY DEF Payment, PaymentStatus, NoPayment, NoReference
<1>6. invoice \in [Order -> 0..MaxAttempt]
  BY DEF NoReference
<1>7. issued \subseteq Intent /\ declined \subseteq Intent /\ charged \subseteq Intent
  OBVIOUS
<1>8. ledger \subseteq LedgerIdentity /\ qualifying \in [Customer -> Order \union {NoOrder}]
  OBVIOUS
<1>9. call \in [Process -> Call]
  BY DEF Call
<1>10. QED
  BY <1>1, <1>2, <1>3, <1>4, <1>5, <1>6, <1>7, <1>8, <1>9 DEF TypeOK

\* Handing a request on keeps the calls well typed.
LEMMA GotoType ==
    ASSUME TypeOK, NEW p \in Process, NEW c \in Call, Goto(p, c)
    PROVE  call' \in [Process -> Call]
BY DEF TypeOK, Goto

\* Each step of each handler keeps every row and every call well typed.
LEMMA NextTypeOK == TypeOK /\ [Next]_vars => TypeOK'
<1> SUFFICES ASSUME TypeOK, [Next]_vars PROVE TypeOK'
  OBVIOUS
<1> USE PaymentsAssumption DEF PaymentsAssumption, TypeOK, stock, provider, rewards
<1>1. CASE Tick
  BY <1>1 DEF Tick
<1>2. ASSUME NEW b \in Batch, ReleaseBatch(b) PROVE TypeOK'
  <2>1. balance' \in [Variant -> Balance]
    <3> DEFINE v == BatchVariant[b]
               row == [balance[v] EXCEPT !.onHand = @ + BatchSize[b]]
    <3>1. balance' = [balance EXCEPT ![v] = row]
      BY <1>2 DEF ReleaseBatch
    <3>2. row \in Balance
      BY DEF Balance
    <3>3. QED
      BY <3>1, <3>2
  <2>2. batch' \in [Batch -> {"RECORDED", "RELEASED"}]
    BY <1>2 DEF ReleaseBatch
  <2>3. QED
    BY <1>2, <2>1, <2>2 DEF ReleaseBatch
<1>3. ASSUME NEW p \in Process, Abandon(p) PROVE TypeOK'
  BY <1>3, GotoType DEF Abandon, Return, Call
<1>4. ASSUME NEW p \in Process, NEW o \in Order, CheckoutRead(p, o) PROVE TypeOK'
  <2> DEFINE c == [pc |-> "checkout", o |-> o, expiresAt |-> clock + Window,
                   onHand |-> OnHandNow]
  <2>1. c \in Call
    BY DEF Call, CheckoutCall, OnHandNow, Balance
  <2>2. call' \in [Process -> Call]
    BY <1>4, <2>1, GotoType DEF CheckoutRead
  <2>3. QED
    BY <1>4, <2>2 DEF CheckoutRead
<1>5. ASSUME NEW p \in Process, NEW o \in Order, CheckoutCommit(p, o) PROVE TypeOK'
  <2> DEFINE c == call[p]
  <2>1. c \in CheckoutCall
    BY <1>5, CallFields DEF CheckoutCommit
  <2>2. balance' \in [Variant -> Balance]
    <3>1. ASSUME NEW v \in Variant
          PROVE  balance[v].onHand \in Nat /\ balance[v].reserved + Demand[o][v] \in Nat
      BY DemandType DEF Balance
    <3>2. QED
      BY <1>5, <3>1 DEF CheckoutCommit, Balance
  <2>3. reservation' \in [Order -> [Variant -> Reservation]]
    BY <1>5, <2>1 DEF CheckoutCommit, Reservation, ReservationStatus, NoReservation, CheckoutCall
  <2>4. order' \in [Order -> OrderStatus]
    BY <1>5 DEF CheckoutCommit, OrderStatus
  <2>5. payment' \in [Order -> Payment]
    <3>1. payment' = [payment EXCEPT ![o] = [NoPayment EXCEPT !.status = "PENDING"]]
      BY <1>5 DEF CheckoutCommit
    <3>2. [NoPayment EXCEPT !.status = "PENDING"] \in Payment
      BY DEF NoPayment, Payment, PaymentStatus, NoReference
    <3>3. QED
      BY <3>1, <3>2
  <2>6. call' \in [Process -> Call]
    BY <1>5, GotoType DEF CheckoutCommit, Return, Call
  <2>7. QED
    BY <1>5, <2>2, <2>3, <2>4, <2>5, <2>6 DEF CheckoutCommit
<1>6. ASSUME NEW p \in Process, NEW o \in Order, InitiateRead(p, o) PROVE TypeOK'
  <2>1. PICK n \in Attempt : Goto(p, [pc |-> "gateway", o |-> o, n |-> n])
    BY <1>6 DEF InitiateRead
  <2>2. [pc |-> "gateway", o |-> o, n |-> n] \in Call
    BY <2>1 DEF Call, GatewayCall
  <2>3. call' \in [Process -> Call]
    BY <2>1, <2>2, GotoType
  <2>4. QED
    BY <1>6, <2>3 DEF InitiateRead
<1>7. ASSUME NEW p \in Process, NEW o \in Order, InitiateBegin(p, o) PROVE TypeOK'
  <2> DEFINE c == [pc |-> "ensure", o |-> o, n |-> call[p].n,
                seq |-> payment[o].attemptSequence,
                ref |-> payment[o].providerReference,
                active |-> {v \in Items(o) : reservation[o][v].status = "ACTIVE"}]
  <2>1. call[p] \in GatewayCall
    BY <1>7, CallFields DEF InitiateBegin
  <2>2. c \in Call
    BY <2>1 DEF Call, EnsureCall, GatewayCall, Payment, Items
  <2>3. call' \in [Process -> Call]
    BY <1>7, <2>2, GotoType DEF InitiateBegin
  <2>4. QED
    BY <1>7, <2>3 DEF InitiateBegin
<1>8. ASSUME NEW p \in Process, NEW o \in Order, InitiateEnsure(p, o) PROVE TypeOK'
  <2> DEFINE c == call[p]
             d == [pc |-> "retry", o |-> o, n |-> c.n, seq |-> c.seq, ref |-> c.ref,
                kept |-> {v \in Items(o) : Live(reservation[o][v])},
                lapsed |-> {v \in Items(o) : Lapsed(reservation[o][v])},
                expiresAt |-> clock + Window, onHand |-> OnHandNow]
  <2>1. c \in EnsureCall
    BY <1>8, CallFields DEF InitiateEnsure
  <2>2. /\ clock + Window \in Nat
        /\ OnHandNow \in [Variant -> Nat]
    BY DEF OnHandNow, Balance
  <2>3. /\ {v \in Items(o) : Live(reservation[o][v])} \in SUBSET Variant
        /\ {v \in Items(o) : Lapsed(reservation[o][v])} \in SUBSET Variant
    BY DEF Items
  <2>4. d \in Call
    BY <2>1, <2>2, <2>3 DEF Call, RetryCall, EnsureCall
  <2>5. call' \in [Process -> Call]
    BY <1>8, <2>4, GotoType DEF InitiateEnsure
  <2>6. QED
    BY <1>8, <2>5 DEF InitiateEnsure
<1>9. ASSUME NEW p \in Process, NEW o \in Order, InitiateCommit(p, o) PROVE TypeOK'
  <2> DEFINE c == call[p]
             taken == Items(o) \ c.kept
             freed == [v \in Variant |-> IF v \in taken
                         THEN [balance[v] EXCEPT !.reserved = @ - HeldBy(o, v)]
                         ELSE balance[v]]
             after == [v \in Variant |-> IF v \in taken
                         THEN [freed[v] EXCEPT !.reserved = @ + Demand[o][v]]
                         ELSE balance[v]]
             rows == [v \in Variant |->
                        IF v \in taken
                        THEN [status |-> "ACTIVE", expiresAt |-> c.expiresAt]
                        ELSE reservation[o][v]]
             row == [status |-> "PENDING", attemptSequence |-> c.n, providerReference |-> c.n]
  <2>1. c \in RetryCall
    BY <1>9, CallFields DEF InitiateCommit
  <2>2. balance' \in [Variant -> Balance]
    <3>1. balance' = after /\ \A v \in Variant : BalanceCheck(after[v])
      BY <1>9 DEF InitiateCommit
    <3>2. ASSUME NEW v \in Variant
          PROVE  after[v] \in [onHand : Int, reserved : Int]
      <4>1. balance[v] \in Balance /\ HeldBy(o, v) \in Nat /\ Demand[o][v] \in Nat
        BY DemandType DEF HeldBy
      <4>2. freed[v] \in [onHand : Int, reserved : Int]
        BY <4>1 DEF Balance
      <4> HIDE DEF freed
      <4>3. CASE v \in taken
        <5>1. after[v] = [freed[v] EXCEPT !.reserved = @ + Demand[o][v]]
          BY <4>3
        <5>2. QED
          BY <4>1, <4>2, <5>1
      <4>4. CASE v \notin taken
        BY <4>1, <4>4 DEF Balance
      <4>5. QED
        BY <4>3, <4>4
    <3> HIDE DEF after
    <3>3. after \in [Variant -> Balance]
      <4>1. \A v \in Variant : after[v] \in Balance
        BY <3>1, <3>2, BalanceCheckType
      <4>2. QED
        BY <4>1 DEF after
    <3>4. QED
      BY <3>1, <3>3
  <2>3. reservation' \in [Order -> [Variant -> Reservation]]
    <3>1. reservation' = [reservation EXCEPT ![o] = rows]
      BY <1>9 DEF InitiateCommit
    <3>2. rows \in [Variant -> Reservation]
      BY <2>1 DEF Reservation, ReservationStatus, RetryCall
    <3>3. QED
      BY <3>1, <3>2
  <2>4. payment' \in [Order -> Payment]
    <3>1. payment' = [payment EXCEPT ![o] = row]
      BY <1>9 DEF InitiateCommit
    <3>2. row \in Payment
      BY <2>1 DEF Payment, PaymentStatus, RetryCall, Attempt
    <3>3. QED
      BY <3>1, <3>2
  <2>5. issued' \subseteq Intent
    <3>1. issued' = issued \union {<<o, c.n>>}
      BY <1>9 DEF InitiateCommit
    <3>2. <<o, c.n>> \in Intent
      BY <2>1 DEF Intent, RetryCall
    <3>3. QED
      BY <3>1, <3>2
  <2>6. call' \in [Process -> Call]
    BY <1>9, GotoType DEF InitiateCommit, Return, Call
  <2>7. QED
    BY <1>9, <2>2, <2>3, <2>4, <2>5, <2>6 DEF InitiateCommit
<1>10. ASSUME NEW i \in Intent, Decline(i) PROVE TypeOK'
  BY <1>10 DEF Decline
<1>11. ASSUME NEW i \in Intent, Charge(i) PROVE TypeOK'
  BY <1>11 DEF Charge
<1>12. ASSUME NEW p \in Process, NEW o \in Order, NEW n \in Attempt, FailRead(p, o, n)
       PROVE  TypeOK'
  <2>1. [pc |-> "fail", o |-> o, n |-> n] \in Call
    BY DEF Call, FailCall
  <2>2. call' \in [Process -> Call]
    BY <1>12, <2>1, GotoType DEF FailRead
  <2>3. QED
    BY <1>12, <2>2 DEF FailRead
<1>13. ASSUME NEW p \in Process, NEW o \in Order, FailCommit(p, o) PROVE TypeOK'
  <2> DEFINE after == [v \in Variant |->
                         [balance[v] EXCEPT !.reserved = @ - HeldBy(o, v)]]
             rows == [v \in Variant |->
                        IF Holds(reservation[o][v])
                        THEN [reservation[o][v] EXCEPT !.status = "RELEASED"]
                        ELSE reservation[o][v]]
  <2>1. balance' \in [Variant -> Balance]
    <3>1. balance' = after /\ \A v \in Variant : BalanceCheck(after[v])
      BY <1>13 DEF FailCommit
    <3>2. ASSUME NEW v \in Variant
          PROVE  after[v] \in [onHand : Int, reserved : Int]
      <4>1. balance[v] \in Balance /\ HeldBy(o, v) \in Nat
        BY DemandType DEF HeldBy
      <4>2. QED
        BY <4>1 DEF Balance
    <3>3. QED
      BY <3>1, <3>2, BalanceCheckType
  <2>2. reservation' \in [Order -> [Variant -> Reservation]]
    <3>1. reservation' = [reservation EXCEPT ![o] = rows]
      BY <1>13 DEF FailCommit
    <3>2. ASSUME NEW v \in Variant
          PROVE  rows[v] \in Reservation
      <4>1. reservation[o][v] \in Reservation /\ "RELEASED" \in ReservationStatus
        BY DEF ReservationStatus
      <4>2. QED
        BY <4>1, SetStatusType
    <3>3. QED
      BY <3>1, <3>2
  <2>3. payment' \in [Order -> Payment]
    BY <1>13 DEF FailCommit, Payment, PaymentStatus
  <2>4. call' \in [Process -> Call]
    BY <1>13, GotoType DEF FailCommit, Return, Call
  <2>5. QED
    BY <1>13, <2>1, <2>2, <2>3, <2>4 DEF FailCommit
<1>14. ASSUME NEW p \in Process, NEW o \in Order, NEW n \in Attempt, SucceedRead(p, o, n)
       PROVE  TypeOK'
  <2>1. /\ [pc |-> "award", o |-> o] \in Call
        /\ [pc |-> "succeed", o |-> o, n |-> n, now |-> clock] \in Call
    BY DEF Call, AwardCall, SucceedCall
  <2>2. call' \in [Process -> Call]
    BY <1>14, <2>1, GotoType DEF SucceedRead
  <2>3. QED
    BY <1>14, <2>2 DEF SucceedRead
<1>15. ASSUME NEW p \in Process, NEW o \in Order, SucceedCommit(p, o) PROVE TypeOK'
  <2>1. call[p] \in SucceedCall
    BY <1>15, CallFields DEF SucceedCommit
  <2>2. balance' \in [Variant -> Balance]
    <3>1. ASSUME NEW v \in Variant
          PROVE  balance[v] \in Balance /\ Demand[o][v] \in Nat
      BY DemandType
    <3>2. QED
      BY <1>15, <3>1 DEF SucceedCommit, Balance, BalanceCheck
  <2>3. reservation' \in [Order -> [Variant -> Reservation]]
    <3> DEFINE rows == [v \in Variant |->
                          IF v \in Items(o)
                          THEN [reservation[o][v] EXCEPT !.status = "COMMITTED"]
                          ELSE reservation[o][v]]
    <3>1. reservation' = [reservation EXCEPT ![o] = rows]
      BY <1>15 DEF SucceedCommit
    <3>2. ASSUME NEW v \in Variant
          PROVE  rows[v] \in Reservation
      <4>1. reservation[o][v] \in Reservation /\ "COMMITTED" \in ReservationStatus
        BY DEF ReservationStatus
      <4>2. QED
        BY <4>1, SetStatusType
    <3>3. QED
      BY <3>1, <3>2
  <2>4. payment' \in [Order -> Payment]
    <3> DEFINE row == [status |-> "SUCCEEDED",
                       attemptSequence |-> payment[o].attemptSequence,
                       providerReference |-> call[p].n]
    <3>1. payment' = [payment EXCEPT ![o] = row]
      BY <1>15 DEF SucceedCommit
    <3>2. row \in Payment
      BY <2>1 DEF Payment, PaymentStatus, SucceedCall, Attempt
    <3>3. QED
      BY <3>1, <3>2
  <2>5. order' \in [Order -> OrderStatus]
    BY <1>15 DEF SucceedCommit, OrderStatus
  <2>6. invoice' \in [Order -> 0..MaxAttempt]
    BY <1>15, <2>1 DEF SucceedCommit, SucceedCall, Attempt
  <2>7. movement' \subseteq Line
    BY <1>15 DEF SucceedCommit, Line, Items
  <2>8. call' \in [Process -> Call]
    <3>1. [pc |-> "award", o |-> o] \in Call
      BY DEF Call, AwardCall
    <3>2. QED
      BY <1>15, <3>1, GotoType DEF SucceedCommit
  <2>9. QED
    BY <1>15, <2>2, <2>3, <2>4, <2>5, <2>6, <2>7, <2>8 DEF SucceedCommit
<1>16. ASSUME NEW p \in Process, NEW o \in Order, SucceedRace(p, o) PROVE TypeOK'
  <2>1. [pc |-> "award", o |-> o] \in Call
    BY DEF Call, AwardCall
  <2>2. call' \in [Process -> Call]
    BY <1>16, <2>1, GotoType DEF SucceedRace
  <2>3. QED
    BY <1>16, <2>2 DEF SucceedRace
<1>17. ASSUME NEW p \in Process, NEW o \in Order, AwardOrder(p, o) PROVE TypeOK'
  <2>1. [pc |-> "refer", o |-> o] \in Call
    BY DEF Call, AwardCall
  <2>2. call' \in [Process -> Call]
    BY <1>17, <2>1, GotoType DEF AwardOrder
  <2>3. QED
    BY <1>17, <2>2 DEF AwardOrder, Credit, LedgerIdentity
<1>18. ASSUME NEW p \in Process, NEW o \in Order, ReferRead(p, o) PROVE TypeOK'
  <2>1. [pc |-> "qualify", o |-> o, seen |-> qualifying[Buyer[o]]] \in Call
    BY DEF Call, QualifyCall
  <2>2. call' \in [Process -> Call]
    BY <1>18, <2>1, GotoType DEF ReferRead
  <2>3. QED
    BY <1>18, <2>2 DEF ReferRead
<1>19. ASSUME NEW p \in Process, NEW o \in Order, QualifyCommit(p, o) PROVE TypeOK'
  <2>1. ledger' \subseteq LedgerIdentity
    BY <1>19 DEF QualifyCommit, Credit, LedgerIdentity
  <2>2. qualifying' \in [Customer -> Order \union {NoOrder}]
    BY <1>19 DEF QualifyCommit
  <2>3. call' \in [Process -> Call]
    BY <1>19, GotoType DEF QualifyCommit, Return, Call
  <2>4. QED
    BY <1>19, <2>1, <2>2, <2>3 DEF QualifyCommit
<1>20. CASE UNCHANGED vars
  BY <1>20 DEF vars
<1>21. QED
  BY <1>1, <1>2, <1>3, <1>4, <1>5, <1>6, <1>7, <1>8, <1>9, <1>10, <1>11, <1>12, <1>13,
     <1>14, <1>15, <1>16, <1>17, <1>18, <1>19, <1>20
     DEF Next, Checkout, Initiate, Webhook, AwardParticipation

\* The rows and the calls of every reachable state are well typed.  In
\* particular no balance ever goes negative: every handler's arithmetic on a
\* balance row is covered by a condition of its own or by the table's check.
THEOREM TypeCorrect == Spec => []TypeOK
<1>1. QED
  BY InitTypeOK, NextTypeOK, PTL DEF Spec
-----------------------------------------------------------------------------
(* Stock *)

\* What a committed line took off the shelf.
SoldTo(o, v) == IF reservation[o][v].status = "COMMITTED" THEN Demand[o][v] ELSE 0

\* An order that was not placed holds nothing and bought nothing.
UnplacedHoldsNothing ==
    \A o \in Order : order[o] = "NONE" =>
        \A v \in Variant : reservation[o][v].status \notin {"ACTIVE", "COMMITTED"}

\* A cart is converted by one checkout, and payments are initiated for placed
\* orders only.
CallsAndOrders ==
    /\ \A p \in Process : call[p].pc = "checkout" =>
        /\ order[call[p].o] = "NONE"
        /\ \A q \in Process \ {p} : call[q].pc = "checkout" => call[q].o # call[p].o
    /\ \A p \in Process :
        call[p].pc \in {"gateway", "ensure", "retry"} => order[call[p].o] # "NONE"

SoundBalances == \A v \in Variant : BalanceCheck(balance[v])

StockInv ==
    /\ TypeOK
    /\ UnplacedHoldsNothing
    /\ CallsAndOrders
    /\ SoundBalances
    /\ StockAccounting

\* The shares of an order's line in what is held and in what was sold.
LEMMA LineShare ==
    ASSUME TypeOK, NEW o \in Order, NEW v \in Variant
    PROVE  /\ Share(LinesIn("ACTIVE"), o, v) = HeldBy(o, v)
           /\ Share(LinesIn("COMMITTED"), o, v) = SoldTo(o, v)
<1>1. Demand[o][v] \in Nat
  BY DemandType
<1>2. <<o, v>> \in Line <=> Demand[o][v] > 0
  BY DEF Line
<1>3. QED
  BY <1>1, <1>2 DEF Share, LinesIn, HeldBy, Holds, SoldTo

\* Released batches add finitely many units, so that supply is a number.
LEMMA BatchUnitsFinite ==
    ASSUME NEW v
    PROVE  IsFiniteSet(BatchUnits(v))
<1>1. IsFiniteSet(Batch) /\ MaxBatch \in Int
  BY PaymentsAssumption DEF PaymentsAssumption
<1>2. IsFiniteSet(1..MaxBatch)
  BY <1>1, FS_Interval
<1>3. IsFiniteSet(Batch \X (1..MaxBatch))
  BY <1>1, <1>2, FS_Product
<1>4. BatchUnits(v) \in SUBSET (Batch \X (1..MaxBatch))
  BY DEF BatchUnits
<1>5. QED
  BY <1>3, <1>4, FS_Subset

LEMMA SupplyType ==
    ASSUME NEW v \in Variant
    PROVE  Supply(v) \in Nat
<1>1. Cardinality(BatchUnits(v)) \in Nat
  BY BatchUnitsFinite, FS_CardinalityType
<1>2. InitialStock[v] \in Nat
  BY PaymentsAssumption DEF PaymentsAssumption
<1>3. QED
  BY <1>1, <1>2 DEF Supply

\* A step that changes the reservations of one order keeps the books if it
\* changes each balance by what the order's line came to hold and take.
LEMMA AccountingStep ==
    ASSUME TypeOK, TypeOK', StockAccounting, NEW o \in Order,
           \A x \in Order \ {o} : reservation'[x] = reservation[x],
           \A v \in Variant :
               /\ balance'[v].reserved = balance[v].reserved - HeldBy(o, v) + HeldBy(o, v)'
               /\ balance'[v].onHand = balance[v].onHand + SoldTo(o, v) - SoldTo(o, v)',
           batch' = batch
    PROVE  StockAccounting'
<1> SUFFICES ASSUME NEW v \in Variant
             PROVE  /\ balance'[v].reserved = Quantity(LinesIn("ACTIVE")', v)
                    /\ balance'[v].onHand = Supply(v)' - Quantity(LinesIn("COMMITTED")', v)
  BY DEF StockAccounting
<1>1. Supply(v)' = Supply(v)
  BY DEF Supply, BatchUnits
<1>2. /\ LinesIn("ACTIVE") \in SUBSET (Order \X Variant)
      /\ LinesIn("COMMITTED") \in SUBSET (Order \X Variant)
      /\ LinesIn("ACTIVE")' \in SUBSET (Order \X Variant)
      /\ LinesIn("COMMITTED")' \in SUBSET (Order \X Variant)
  BY DEF LinesIn, Line
<1>3. /\ OtherLines(LinesIn("ACTIVE")', o) = OtherLines(LinesIn("ACTIVE"), o)
      /\ OtherLines(LinesIn("COMMITTED")', o) = OtherLines(LinesIn("COMMITTED"), o)
  BY DEF OtherLines, LinesIn, Line
<1>4. /\ Share(LinesIn("ACTIVE"), o, v) = HeldBy(o, v)
      /\ Share(LinesIn("COMMITTED"), o, v) = SoldTo(o, v)
  BY LineShare
<1>5. /\ Share(LinesIn("ACTIVE")', o, v) = HeldBy(o, v)'
      /\ Share(LinesIn("COMMITTED")', o, v) = SoldTo(o, v)'
  <2>1. Demand[o][v] \in Nat
    BY DemandType
  <2>2. <<o, v>> \in Line <=> Demand[o][v] > 0
    BY DEF Line
  <2>3. QED
    BY <2>1, <2>2 DEF Share, LinesIn, HeldBy, Holds, SoldTo
<1>6. /\ Quantity(LinesIn("ACTIVE")', v)
            = Quantity(LinesIn("ACTIVE"), v) - HeldBy(o, v) + HeldBy(o, v)'
      /\ Quantity(LinesIn("COMMITTED")', v)
            = Quantity(LinesIn("COMMITTED"), v) - SoldTo(o, v) + SoldTo(o, v)'
  BY <1>2, <1>3, <1>4, <1>5, QuantityChange
<1>7. /\ balance[v].reserved = Quantity(LinesIn("ACTIVE"), v)
      /\ balance[v].onHand = Supply(v) - Quantity(LinesIn("COMMITTED"), v)
  BY DEF StockAccounting
<1>8. /\ Quantity(LinesIn("COMMITTED"), v) \in Int
      /\ Supply(v) \in Int
      /\ SoldTo(o, v) \in Int
      /\ SoldTo(o, v)' \in Int
  <2>1. Quantity(LinesIn("COMMITTED"), v) \in Int
    BY UnitsFinite
  <2>2. Demand[o][v] \in Int
    BY DemandType
  <2>3. Supply(v) \in Int
    BY SupplyType
  <2>4. QED
    BY <2>1, <2>2, <2>3 DEF SoldTo
<1>9. QED
  BY <1>1, <1>6, <1>7, <1>8

\* A batch that is released adds its units to the supply of its variant only.
LEMMA ReleaseSupply ==
    ASSUME TypeOK, NEW b \in Batch, ReleaseBatch(b), NEW v \in Variant
    PROVE  Supply(v)' = Supply(v) + IF v = BatchVariant[b] THEN BatchSize[b] ELSE 0
<1> DEFINE new == {b} \X (1..BatchSize[b])
<1>1. batch' = [batch EXCEPT ![b] = "RELEASED"] /\ batch[b] = "RECORDED"
  BY DEF ReleaseBatch
<1>2. batch \in [Batch -> {"RECORDED", "RELEASED"}]
  BY DEF TypeOK
<1>3. BatchSize[b] \in 1..MaxBatch /\ MaxBatch \in Nat /\ InitialStock[v] \in Nat
  BY PaymentsAssumption DEF PaymentsAssumption
<1>4. IsFiniteSet(BatchUnits(v)) /\ Cardinality(BatchUnits(v)) \in Nat
  BY BatchUnitsFinite, FS_CardinalityType
<1>5. CASE v = BatchVariant[b]
  <2>1. IsFiniteSet(new) /\ Cardinality(new) = BatchSize[b]
    <3>1. BatchSize[b] \in Nat
      BY <1>3
    <3>2. QED
      BY <3>1, PiecesOfOne
  <2>2. BatchUnits(v)' = BatchUnits(v) \union new
    <3>1. BatchUnits(v)' \subseteq BatchUnits(v) \union new
      BY <1>1, <1>2 DEF BatchUnits
    <3>2. BatchUnits(v) \subseteq BatchUnits(v)'
      BY <1>1, <1>2 DEF BatchUnits
    <3>3. new \subseteq BatchUnits(v)'
      BY <1>1, <1>2, <1>3, <1>5 DEF BatchUnits
    <3>4. QED
      BY <3>1, <3>2, <3>3
  <2>3. BatchUnits(v) \cap new = {}
    BY <1>1 DEF BatchUnits
  <2>4. Cardinality(BatchUnits(v)') = Cardinality(BatchUnits(v)) + BatchSize[b] - 0
    BY <1>4, <2>1, <2>2, <2>3, FS_Union, FS_EmptySet
  <2>5. QED
    BY <1>3, <1>4, <1>5, <2>4 DEF Supply
<1>6. CASE v # BatchVariant[b]
  <2>1. BatchUnits(v)' = BatchUnits(v)
    BY <1>1, <1>2, <1>6 DEF BatchUnits
  <2>2. QED
    BY <1>3, <1>4, <1>6, <2>1 DEF Supply
<1>7. QED
  BY <1>5, <1>6

\* Steps that leave the stock tables alone keep the books.
LEMMA StockUntouched ==
    ASSUME StockInv, UNCHANGED <<reservation, balance, batch>>
    PROVE  StockAccounting' /\ SoundBalances'
<1>1. StockAccounting'
  BY DEF StockInv, StockAccounting, Supply, BatchUnits, LinesIn
<1>2. SoundBalances'
  BY DEF StockInv, SoundBalances
<1>3. QED
  BY <1>1, <1>2

LEMMA ReleaseBatchAccounts ==
    ASSUME StockInv, TypeOK', NEW b \in Batch, ReleaseBatch(b)
    PROVE  StockAccounting' /\ SoundBalances'
<1> DEFINE w == BatchVariant[b]
<1>1. BatchSize[b] \in Nat /\ w \in Variant
  BY PaymentsAssumption DEF PaymentsAssumption
<1>2. balance' = [balance EXCEPT ![w].onHand = @ + BatchSize[b]] /\ reservation' = reservation
  BY DEF ReleaseBatch
<1>3. balance \in [Variant -> Balance]
  BY DEF StockInv, TypeOK
<1>4. ASSUME NEW v \in Variant
      PROVE  /\ balance'[v].reserved = balance[v].reserved
             /\ balance'[v].onHand = balance[v].onHand + IF v = w THEN BatchSize[b] ELSE 0
             /\ balance[v].onHand \in Nat /\ balance[v].reserved \in Nat
  BY <1>1, <1>2, <1>3 DEF Balance
<1>5. SoundBalances'
  BY <1>1, <1>4 DEF StockInv, SoundBalances, BalanceCheck
<1>6. ASSUME NEW v \in Variant
      PROVE  /\ balance'[v].reserved = Quantity(LinesIn("ACTIVE")', v)
             /\ balance'[v].onHand = Supply(v)' - Quantity(LinesIn("COMMITTED")', v)
  <2>1. /\ LinesIn("ACTIVE")' = LinesIn("ACTIVE")
        /\ LinesIn("COMMITTED")' = LinesIn("COMMITTED")
    BY <1>2 DEF LinesIn
  <2>2. Supply(v)' = Supply(v) + IF v = w THEN BatchSize[b] ELSE 0
    BY ReleaseSupply DEF StockInv
  <2>3. Supply(v) \in Nat /\ Quantity(LinesIn("COMMITTED"), v) \in Nat
    BY SupplyType, UnitsFinite
  <2>4. /\ balance[v].reserved = Quantity(LinesIn("ACTIVE"), v)
        /\ balance[v].onHand = Supply(v) - Quantity(LinesIn("COMMITTED"), v)
    BY DEF StockInv, StockAccounting
  <2>5. QED
    BY <1>1, <1>4, <2>1, <2>2, <2>3, <2>4
<1>7. StockAccounting'
  BY <1>6 DEF StockAccounting
<1>8. QED
  BY <1>5, <1>7

LEMMA CheckoutAccounts ==
    ASSUME StockInv, TypeOK', NEW p \in Process, NEW o \in Order, CheckoutCommit(p, o)
    PROVE  StockAccounting' /\ SoundBalances'
<1> DEFINE after == [v \in Variant |->
                       [balance[v] EXCEPT !.reserved = @ + Demand[o][v]]]
           rows == [v \in Variant |->
                      IF v \in Items(o)
                      THEN [status |-> "ACTIVE", expiresAt |-> call[p].expiresAt]
                      ELSE NoReservation]
<1>1. /\ balance' = after
      /\ \A v \in Variant : BalanceCheck(after[v])
      /\ reservation' = [reservation EXCEPT ![o] = rows]
      /\ batch' = batch
  BY DEF CheckoutCommit
<1>2. /\ balance \in [Variant -> Balance]
      /\ reservation \in [Order -> [Variant -> Reservation]]
  BY DEF StockInv, TypeOK
<1>3. order[o] = "NONE"
  BY DEF StockInv, CallsAndOrders, CheckoutCommit
<1>4. ASSUME NEW v \in Variant
      PROVE  /\ balance'[v].reserved = balance[v].reserved - HeldBy(o, v) + HeldBy(o, v)'
             /\ balance'[v].onHand = balance[v].onHand + SoldTo(o, v) - SoldTo(o, v)'
  <2>1. HeldBy(o, v) = 0 /\ SoldTo(o, v) = 0
    BY <1>3 DEF StockInv, UnplacedHoldsNothing, HeldBy, Holds, SoldTo
  <2>2. reservation'[o][v] = rows[v]
    BY <1>1, <1>2
  <2>3. Demand[o][v] \in Nat /\ (v \notin Items(o) => Demand[o][v] = 0)
    BY DemandType DEF Items
  <2>4. HeldBy(o, v)' = Demand[o][v] /\ SoldTo(o, v)' = 0
    BY <2>2, <2>3 DEF HeldBy, Holds, SoldTo, NoReservation
  <2>5. /\ balance'[v].reserved = balance[v].reserved + Demand[o][v]
        /\ balance'[v].onHand = balance[v].onHand
    BY <1>1, <1>2 DEF Balance
  <2>6. balance[v].reserved \in Nat /\ balance[v].onHand \in Nat
    BY <1>2 DEF Balance
  <2>7. QED
    BY <2>1, <2>3, <2>4, <2>5, <2>6
<1>5. \A x \in Order \ {o} : reservation'[x] = reservation[x]
  BY <1>1, <1>2
<1>6. StockAccounting'
  BY <1>1, <1>4, <1>5, AccountingStep DEF StockInv
<1>7. SoundBalances'
  BY <1>1 DEF SoundBalances
<1>8. QED
  BY <1>6, <1>7

LEMMA InitiateAccounts ==
    ASSUME StockInv, TypeOK', NEW p \in Process, NEW o \in Order, InitiateCommit(p, o)
    PROVE  StockAccounting' /\ SoundBalances'
<1> DEFINE c == call[p]
           taken == Items(o) \ c.kept
           freed == [v \in Variant |-> IF v \in taken
                       THEN [balance[v] EXCEPT !.reserved = @ - HeldBy(o, v)]
                       ELSE balance[v]]
           after == [v \in Variant |-> IF v \in taken
                       THEN [freed[v] EXCEPT !.reserved = @ + Demand[o][v]]
                       ELSE balance[v]]
           rows == [v \in Variant |->
                      IF v \in taken
                      THEN [status |-> "ACTIVE", expiresAt |-> c.expiresAt]
                      ELSE reservation[o][v]]
<1>1. /\ balance' = after
      /\ \A v \in Variant : BalanceCheck(after[v])
      /\ \A v \in taken : Reclaimable(o, v, c.lapsed)
      /\ reservation' = [reservation EXCEPT ![o] = rows]
      /\ batch' = batch
  BY DEF InitiateCommit
<1>2. /\ balance \in [Variant -> Balance]
      /\ reservation \in [Order -> [Variant -> Reservation]]
  BY DEF StockInv, TypeOK
<1>3. ASSUME NEW v \in Variant
      PROVE  /\ balance'[v].reserved = balance[v].reserved - HeldBy(o, v) + HeldBy(o, v)'
             /\ balance'[v].onHand = balance[v].onHand + SoldTo(o, v) - SoldTo(o, v)'
  <2>1. reservation'[o][v] = rows[v]
    BY <1>1, <1>2
  <2>2. Demand[o][v] \in Nat
    BY DemandType
  <2>3. /\ balance[v].reserved \in Nat /\ balance[v].onHand \in Nat
        /\ balance[v] \in Balance
    BY <1>2 DEF Balance
  <2>4. CASE v \in taken
    <3>1. SoldTo(o, v) = 0
      BY <1>1, <2>4 DEF Reclaimable, Lapsed, SoldTo
    <3>2. HeldBy(o, v)' = Demand[o][v] /\ SoldTo(o, v)' = 0
      BY <2>1, <2>4 DEF HeldBy, Holds, SoldTo
    <3>3. after[v] = [freed[v] EXCEPT !.reserved = @ + Demand[o][v]]
      BY <2>4
    <3>4. freed[v] = [balance[v] EXCEPT !.reserved = @ - HeldBy(o, v)]
      BY <2>4
    <3> HIDE DEF freed
    <3>5. /\ freed[v].reserved = balance[v].reserved - HeldBy(o, v)
          /\ freed[v].onHand = balance[v].onHand
          /\ freed[v] = [onHand |-> balance[v].onHand,
                         reserved |-> balance[v].reserved - HeldBy(o, v)]
      BY <2>3, <3>4 DEF Balance
    <3>6. /\ after[v].reserved = balance[v].reserved - HeldBy(o, v) + Demand[o][v]
          /\ after[v].onHand = balance[v].onHand
      BY <3>3, <3>5
    <3> HIDE DEF after
    <3>7. QED
      BY <1>1, <2>2, <2>3, <3>1, <3>2, <3>6
  <2>5. CASE v \notin taken
    <3>1. HeldBy(o, v)' = HeldBy(o, v) /\ SoldTo(o, v)' = SoldTo(o, v)
      BY <2>1, <2>5 DEF HeldBy, Holds, SoldTo
    <3>2. balance'[v] = balance[v]
      BY <1>1, <2>5
    <3>3. HeldBy(o, v) \in Nat /\ SoldTo(o, v) \in Nat
      BY <2>2 DEF HeldBy, SoldTo
    <3>4. QED
      BY <2>3, <3>1, <3>2, <3>3
  <2>6. QED
    BY <2>4, <2>5
<1>4. \A x \in Order \ {o} : reservation'[x] = reservation[x]
  BY <1>1, <1>2
<1>5. StockAccounting'
  BY <1>1, <1>3, <1>4, AccountingStep DEF StockInv
<1>6. SoundBalances'
  BY <1>1 DEF SoundBalances
<1>7. QED
  BY <1>5, <1>6

LEMMA FailAccounts ==
    ASSUME StockInv, TypeOK', NEW p \in Process, NEW o \in Order, FailCommit(p, o)
    PROVE  StockAccounting' /\ SoundBalances'
<1> DEFINE after == [v \in Variant |->
                       [balance[v] EXCEPT !.reserved = @ - HeldBy(o, v)]]
           rows == [v \in Variant |->
                      IF Holds(reservation[o][v])
                      THEN [reservation[o][v] EXCEPT !.status = "RELEASED"]
                      ELSE reservation[o][v]]
<1>1. /\ balance' = after
      /\ \A v \in Variant : BalanceCheck(after[v])
      /\ reservation' = [reservation EXCEPT ![o] = rows]
      /\ batch' = batch
  BY DEF FailCommit
<1>2. /\ balance \in [Variant -> Balance]
      /\ reservation \in [Order -> [Variant -> Reservation]]
  BY DEF StockInv, TypeOK
<1>3. ASSUME NEW v \in Variant
      PROVE  /\ balance'[v].reserved = balance[v].reserved - HeldBy(o, v) + HeldBy(o, v)'
             /\ balance'[v].onHand = balance[v].onHand + SoldTo(o, v) - SoldTo(o, v)'
  <2>1. reservation'[o][v] = rows[v] /\ reservation[o][v] \in Reservation
    BY <1>1, <1>2
  <2>2. HeldBy(o, v)' = 0 /\ SoldTo(o, v)' = SoldTo(o, v)
    BY <2>1 DEF HeldBy, Holds, SoldTo, Reservation
  <2>3. Demand[o][v] \in Nat
    BY DemandType
  <2>4. HeldBy(o, v) \in Nat /\ SoldTo(o, v) \in Nat
    BY <2>3 DEF HeldBy, SoldTo
  <2>5. /\ balance'[v].reserved = balance[v].reserved - HeldBy(o, v)
        /\ balance'[v].onHand = balance[v].onHand
    BY <1>1, <1>2 DEF Balance
  <2>6. balance[v].reserved \in Nat /\ balance[v].onHand \in Nat
    BY <1>2 DEF Balance
  <2>7. QED
    BY <2>2, <2>4, <2>5, <2>6
<1>4. \A x \in Order \ {o} : reservation'[x] = reservation[x]
  BY <1>1, <1>2
<1>5. StockAccounting'
  BY <1>1, <1>3, <1>4, AccountingStep DEF StockInv
<1>6. SoundBalances'
  BY <1>1 DEF SoundBalances
<1>7. QED
  BY <1>5, <1>6

LEMMA SucceedAccounts ==
    ASSUME StockInv, TypeOK', NEW p \in Process, NEW o \in Order, SucceedCommit(p, o)
    PROVE  StockAccounting' /\ SoundBalances'
<1> DEFINE after == [v \in Variant |->
                       [onHand |-> balance[v].onHand - Demand[o][v],
                        reserved |-> balance[v].reserved - Demand[o][v]]]
           rows == [v \in Variant |->
                      IF v \in Items(o)
                      THEN [reservation[o][v] EXCEPT !.status = "COMMITTED"]
                      ELSE reservation[o][v]]
<1>1. /\ balance' = after
      /\ \A v \in Variant : BalanceCheck(after[v])
      /\ \A v \in Items(o) : Holds(reservation[o][v])
      /\ reservation' = [reservation EXCEPT ![o] = rows]
      /\ batch' = batch
  BY DEF SucceedCommit
<1>2. /\ balance \in [Variant -> Balance]
      /\ reservation \in [Order -> [Variant -> Reservation]]
  BY DEF StockInv, TypeOK
<1>3. ASSUME NEW v \in Variant
      PROVE  /\ balance'[v].reserved = balance[v].reserved - HeldBy(o, v) + HeldBy(o, v)'
             /\ balance'[v].onHand = balance[v].onHand + SoldTo(o, v) - SoldTo(o, v)'
  <2>1. reservation'[o][v] = rows[v] /\ reservation[o][v] \in Reservation
    BY <1>1, <1>2
  <2>2. Demand[o][v] \in Nat /\ (v \notin Items(o) => Demand[o][v] = 0)
    BY DemandType DEF Items
  <2>3. /\ balance'[v].reserved = balance[v].reserved - Demand[o][v]
        /\ balance'[v].onHand = balance[v].onHand - Demand[o][v]
    BY <1>1
  <2>4. balance[v].reserved \in Nat /\ balance[v].onHand \in Nat
    BY <1>2 DEF Balance
  <2>5. CASE v \in Items(o)
    <3>1. HeldBy(o, v) = Demand[o][v] /\ SoldTo(o, v) = 0
      BY <1>1, <2>5 DEF HeldBy, Holds, SoldTo
    <3>2. HeldBy(o, v)' = 0 /\ SoldTo(o, v)' = Demand[o][v]
      BY <2>1, <2>5 DEF HeldBy, Holds, SoldTo, Reservation
    <3>3. QED
      BY <2>2, <2>3, <2>4, <3>1, <3>2
  <2>6. CASE v \notin Items(o)
    <3>1. /\ HeldBy(o, v) = 0 /\ SoldTo(o, v) = 0
          /\ HeldBy(o, v)' = 0 /\ SoldTo(o, v)' = 0
      BY <2>2, <2>6 DEF HeldBy, SoldTo
    <3>2. QED
      BY <2>2, <2>3, <2>4, <2>6, <3>1
  <2>7. QED
    BY <2>5, <2>6
<1>4. \A x \in Order \ {o} : reservation'[x] = reservation[x]
  BY <1>1, <1>2
<1>5. StockAccounting'
  BY <1>1, <1>3, <1>4, AccountingStep DEF StockInv
<1>6. SoundBalances'
  BY <1>1 DEF SoundBalances
<1>7. QED
  BY <1>5, <1>6

-----------------------------------------------------------------------------
(* The steps that leave the books alone, and the calls *)

\* A request that moves on keeps what is known of calls and orders, if what it
\* moves on to does.
LEMMA CallsStep ==
    ASSUME StockInv, UNCHANGED order, NEW p \in Process, NEW c \in Call, Goto(p, c),
           c.pc = "checkout" =>
               /\ order[c.o] = "NONE"
               /\ \A q \in Process \ {p} : call[q].pc = "checkout" => call[q].o # c.o,
           c.pc \in {"gateway", "ensure", "retry"} => order[c.o] # "NONE"
    PROVE  CallsAndOrders'
<1>1. /\ call'[p] = c
      /\ \A q \in Process \ {p} : call'[q] = call[q]
  BY DEF StockInv, TypeOK, Goto
<1>2. CallsAndOrders
  BY DEF StockInv
<1>3. ASSUME NEW r \in Process, call'[r].pc = "checkout"
      PROVE  /\ order'[call'[r].o] = "NONE"
             /\ \A q \in Process \ {r} : call'[q].pc = "checkout" => call'[q].o # call'[r].o
  BY <1>1, <1>2, <1>3 DEF CallsAndOrders
<1>4. ASSUME NEW r \in Process, call'[r].pc \in {"gateway", "ensure", "retry"}
      PROVE  order'[call'[r].o] # "NONE"
  BY <1>1, <1>2, <1>4 DEF CallsAndOrders
<1>5. QED
  BY <1>3, <1>4 DEF CallsAndOrders

\* A request that ends or goes on to the awards needs nothing of its order, and
\* an order that moves on is never unplaced again.
LEMMA CallsEnd ==
    ASSUME StockInv, NEW p \in Process, NEW o \in Order, NEW c \in Call, Goto(p, c),
           c.pc \notin {"checkout", "gateway", "ensure", "retry"},
           \/ UNCHANGED order
           \/ /\ \E s \in {"PLACED", "CONFIRMED"} : order' = [order EXCEPT ![o] = s]
              /\ \A q \in Process \ {p} : call[q].pc = "checkout" => call[q].o # o
    PROVE  CallsAndOrders'
<1>1. /\ call'[p] = c
      /\ \A q \in Process \ {p} : call'[q] = call[q]
  BY DEF StockInv, TypeOK, Goto
<1>2. CallsAndOrders
  BY DEF StockInv
<1>3. order \in [Order -> OrderStatus] /\ call \in [Process -> Call]
  BY DEF StockInv, TypeOK
<1>4. ASSUME NEW x, order[x] # "NONE", x \in Order PROVE order'[x] # "NONE"
  BY <1>3, <1>4
<1>5. ASSUME NEW q \in Process \ {p}, call[q].pc \in {"gateway", "ensure", "retry"}
      PROVE  order'[call[q].o] # "NONE"
  <2>1. call[q].o \in Order
    BY <1>3, <1>5, CallFields DEF GatewayCall, EnsureCall, RetryCall
  <2>2. QED
    BY <1>2, <1>4, <1>5, <2>1 DEF CallsAndOrders
<1>6. ASSUME NEW q \in Process \ {p}, call[q].pc = "checkout"
      PROVE  order'[call[q].o] = "NONE"
  <2>1. call[q].o \in Order
    BY <1>3, <1>6, CallFields DEF CheckoutCall
  <2>2. order[call[q].o] = "NONE"
    BY <1>2, <1>6 DEF CallsAndOrders
  <2>3. QED
    BY <1>3, <1>6, <2>1, <2>2
<1>7. ASSUME NEW r \in Process, call'[r].pc = "checkout"
      PROVE  /\ order'[call'[r].o] = "NONE"
             /\ \A q \in Process \ {r} : call'[q].pc = "checkout" => call'[q].o # call'[r].o
  BY <1>1, <1>2, <1>6, <1>7 DEF CallsAndOrders
<1>8. ASSUME NEW r \in Process, call'[r].pc \in {"gateway", "ensure", "retry"}
      PROVE  order'[call'[r].o] # "NONE"
  BY <1>1, <1>5, <1>8
<1>9. QED
  BY <1>7, <1>8 DEF CallsAndOrders

\* Steps that write no order and no reservation row leave unplaced orders bare.
LEMMA UnplacedUntouched ==
    ASSUME StockInv, UNCHANGED <<order, reservation>>
    PROVE  UnplacedHoldsNothing'
BY DEF StockInv, UnplacedHoldsNothing

LEMMA CallsUntouched ==
    ASSUME StockInv, UNCHANGED <<order, call>>
    PROVE  CallsAndOrders'
BY DEF StockInv, CallsAndOrders

\* A step that only moves a request on.
LEMMA ReadStep ==
    ASSUME StockInv, UNCHANGED <<order, reservation, balance, batch>>, CallsAndOrders', TypeOK'
    PROVE  StockInv'
BY StockUntouched, UnplacedUntouched DEF StockInv

LEMMA InitStockInv == Init => StockInv
<1> SUFFICES ASSUME Init PROVE StockInv
  OBVIOUS
<1>1. TypeOK
  BY InitTypeOK
<1>2. UnplacedHoldsNothing
  BY DEF Init, UnplacedHoldsNothing, NoReservation
<1>3. CallsAndOrders
  BY DEF Init, CallsAndOrders, Idle
<1>4. SoundBalances
  BY PaymentsAssumption DEF PaymentsAssumption, Init, SoundBalances, BalanceCheck
<1>5. StockAccounting
  <2> SUFFICES ASSUME NEW v \in Variant
               PROVE  /\ balance[v].reserved = Quantity(LinesIn("ACTIVE"), v)
                      /\ balance[v].onHand = Supply(v) - Quantity(LinesIn("COMMITTED"), v)
    BY DEF StockAccounting
  <2>1. LinesIn("ACTIVE") = {} /\ LinesIn("COMMITTED") = {}
    BY DEF Init, LinesIn, NoReservation, Line
  <2>2. Units({}, v) = {} /\ BatchUnits(v) = {}
    BY DEF Init, Units, BatchUnits
  <2>3. /\ Quantity(LinesIn("ACTIVE"), v) = 0
        /\ Quantity(LinesIn("COMMITTED"), v) = 0
        /\ Supply(v) = InitialStock[v] + 0
    BY <2>1, <2>2, FS_EmptySet DEF Quantity, Supply
  <2>4. InitialStock[v] \in Nat
    BY PaymentsAssumption DEF PaymentsAssumption
  <2>5. balance[v].onHand = InitialStock[v] /\ balance[v].reserved = 0
    BY DEF Init
  <2>6. QED
    BY <2>3, <2>4, <2>5
<1>6. QED
  BY <1>1, <1>2, <1>3, <1>4, <1>5 DEF StockInv

LEMMA NextStockInv == StockInv /\ [Next]_vars => StockInv'
<1> SUFFICES ASSUME StockInv, [Next]_vars PROVE StockInv'
  OBVIOUS
<1>a. TypeOK'
  BY NextTypeOK DEF StockInv
<1>b. Idle \in Call /\ Idle.pc = "idle"
  BY DEF Call, Idle
<1>c. \A o \in Order : [pc |-> "award", o |-> o] \in Call /\ [pc |-> "refer", o |-> o] \in Call
  BY DEF Call, AwardCall
<1> USE DEF stock, provider, rewards
<1>1. CASE Tick
  BY <1>1, <1>a, ReadStep, CallsUntouched DEF Tick
<1>2. ASSUME NEW b \in Batch, ReleaseBatch(b) PROVE StockInv'
  <2>1. UNCHANGED <<order, reservation, call>>
    BY <1>2 DEF ReleaseBatch
  <2>2. QED
    BY <1>2, <1>a, <2>1, ReleaseBatchAccounts, UnplacedUntouched, CallsUntouched DEF StockInv
<1>3. ASSUME NEW p \in Process, Abandon(p) PROVE StockInv'
  <2>1. UNCHANGED <<order, reservation, balance, batch>> /\ Goto(p, Idle)
    BY <1>3 DEF Abandon, Return
  <2>2. CallsAndOrders'
    BY <1>b, <2>1, CallsStep
  <2>3. QED
    BY <1>a, <2>1, <2>2, ReadStep
<1>4. ASSUME NEW p \in Process, NEW o \in Order, CheckoutRead(p, o) PROVE StockInv'
  <2> DEFINE c == [pc |-> "checkout", o |-> o, expiresAt |-> clock + Window,
                   onHand |-> OnHandNow]
  <2>1. /\ UNCHANGED <<order, reservation, balance, batch>>
        /\ Goto(p, c)
        /\ order[o] = "NONE"
        /\ \A q \in Process : call[q].pc = "checkout" => call[q].o # o
    BY <1>4 DEF CheckoutRead
  <2>2. c \in Call
    BY PaymentsAssumption DEF PaymentsAssumption, StockInv, TypeOK, Call, CheckoutCall,
                              OnHandNow, Balance
  <2>3. CallsAndOrders'
    BY <2>1, <2>2, CallsStep
  <2>4. QED
    BY <1>a, <2>1, <2>3, ReadStep
<1>5. ASSUME NEW p \in Process, NEW o \in Order, CheckoutCommit(p, o) PROVE StockInv'
  <2>1. /\ order' = [order EXCEPT ![o] = "PLACED"]
        /\ call[p].pc = "checkout" /\ call[p].o = o
        /\ Goto(p, Idle)
    BY <1>5 DEF CheckoutCommit, Return
  <2>2. \A q \in Process \ {p} : call[q].pc = "checkout" => call[q].o # o
    BY <2>1 DEF StockInv, CallsAndOrders
  <2>3. CallsAndOrders'
    BY <1>b, <2>1, <2>2, CallsEnd
  <2>4. UnplacedHoldsNothing'
    <3>1. \A x \in Order \ {o} : order'[x] = order[x] /\ reservation'[x] = reservation[x]
      BY <1>5 DEF CheckoutCommit, StockInv, TypeOK
    <3>2. order'[o] = "PLACED"
      BY <2>1 DEF StockInv, TypeOK
    <3>3. QED
      BY <3>1, <3>2 DEF StockInv, UnplacedHoldsNothing
  <2>5. QED
    BY <1>5, <1>a, <2>3, <2>4, CheckoutAccounts DEF StockInv
<1>6. ASSUME NEW p \in Process, NEW o \in Order, InitiateRead(p, o) PROVE StockInv'
  <2>1. PICK n \in Attempt : Goto(p, [pc |-> "gateway", o |-> o, n |-> n])
    BY <1>6 DEF InitiateRead
  <2>2. UNCHANGED <<order, reservation, balance, batch>> /\ order[o] = "PLACED"
    BY <1>6 DEF InitiateRead
  <2>3. [pc |-> "gateway", o |-> o, n |-> n] \in Call
    BY DEF Call, GatewayCall
  <2>4. CallsAndOrders'
    BY <2>1, <2>2, <2>3, CallsStep
  <2>5. QED
    BY <1>a, <2>2, <2>4, ReadStep
<1>7. ASSUME NEW p \in Process, NEW o \in Order, InitiateBegin(p, o) PROVE StockInv'
  <2>1. PICK c \in Call : Goto(p, c) /\ c.pc = "ensure" /\ c.o = o
    <3> DEFINE d == [pc |-> "ensure", o |-> o, n |-> call[p].n,
                seq |-> payment[o].attemptSequence,
                ref |-> payment[o].providerReference,
                active |-> {v \in Items(o) : reservation[o][v].status = "ACTIVE"}]
    <3>1. call[p] \in GatewayCall
      BY <1>7, CallFields DEF InitiateBegin, StockInv, TypeOK
    <3>2. d \in Call
      BY <3>1 DEF Call, EnsureCall, GatewayCall, Payment, Items, StockInv, TypeOK
    <3>3. Goto(p, d)
      BY <1>7 DEF InitiateBegin
    <3>4. QED
      BY <3>2, <3>3
  <2>2. UNCHANGED <<order, reservation, balance, batch>> /\ order[o] = "PLACED"
    BY <1>7 DEF InitiateBegin
  <2>3. CallsAndOrders'
    BY <2>1, <2>2, CallsStep
  <2>4. QED
    BY <1>a, <2>2, <2>3, ReadStep
<1>8. ASSUME NEW p \in Process, NEW o \in Order, InitiateEnsure(p, o) PROVE StockInv'
  <2>1. PICK c : Goto(p, c) /\ c.pc = "retry" /\ c.o = o
    BY <1>8 DEF InitiateEnsure
  <2>2. c \in Call
    BY <1>a, <2>1 DEF TypeOK, StockInv, Goto
  <2>3. /\ UNCHANGED <<order, reservation, balance, batch>>
        /\ call[p].pc = "ensure" /\ call[p].o = o
    BY <1>8 DEF InitiateEnsure
  <2>4. order[o] # "NONE"
    BY <2>3 DEF StockInv, CallsAndOrders
  <2>5. CallsAndOrders'
    BY <2>1, <2>2, <2>3, <2>4, CallsStep
  <2>6. QED
    BY <1>a, <2>3, <2>5, ReadStep
<1>9. ASSUME NEW p \in Process, NEW o \in Order, InitiateCommit(p, o) PROVE StockInv'
  <2>1. UNCHANGED order /\ call[p].pc = "retry" /\ call[p].o = o /\ Goto(p, Idle)
    BY <1>9 DEF InitiateCommit, Return
  <2>2. CallsAndOrders'
    BY <1>b, <2>1, CallsStep
  <2>3. UnplacedHoldsNothing'
    <3>1. order[o] # "NONE"
      BY <2>1 DEF StockInv, CallsAndOrders
    <3>2. \A x \in Order \ {o} : reservation'[x] = reservation[x]
      BY <1>9 DEF InitiateCommit, StockInv, TypeOK
    <3>3. QED
      BY <2>1, <3>1, <3>2 DEF StockInv, UnplacedHoldsNothing
  <2>4. QED
    BY <1>9, <1>a, <2>2, <2>3, InitiateAccounts DEF StockInv
<1>10. ASSUME NEW i \in Intent, Decline(i) PROVE StockInv'
  BY <1>10, <1>a, ReadStep, CallsUntouched DEF Decline
<1>11. ASSUME NEW i \in Intent, Charge(i) PROVE StockInv'
  BY <1>11, <1>a, ReadStep, CallsUntouched DEF Charge
<1>12. ASSUME NEW p \in Process, NEW o \in Order, NEW n \in Attempt, FailRead(p, o, n)
       PROVE  StockInv'
  <2>1. /\ UNCHANGED <<order, reservation, balance, batch>>
        /\ Goto(p, [pc |-> "fail", o |-> o, n |-> n])
    BY <1>12 DEF FailRead
  <2>2. [pc |-> "fail", o |-> o, n |-> n] \in Call
    BY DEF Call, FailCall
  <2>3. CallsAndOrders'
    BY <2>1, <2>2, CallsStep
  <2>4. QED
    BY <1>a, <2>1, <2>3, ReadStep
<1>13. ASSUME NEW p \in Process, NEW o \in Order, FailCommit(p, o) PROVE StockInv'
  <2>1. UNCHANGED order /\ Goto(p, Idle)
    BY <1>13 DEF FailCommit, Return
  <2>2. CallsAndOrders'
    BY <1>b, <2>1, CallsStep
  <2>3. UnplacedHoldsNothing'
    <3> DEFINE rows == [v \in Variant |->
                          IF Holds(reservation[o][v])
                          THEN [reservation[o][v] EXCEPT !.status = "RELEASED"]
                          ELSE reservation[o][v]]
    <3>1. reservation' = [reservation EXCEPT ![o] = rows]
      BY <1>13 DEF FailCommit
    <3>2. reservation \in [Order -> [Variant -> Reservation]]
      BY DEF StockInv, TypeOK
    <3>3. \A x \in Order \ {o} : reservation'[x] = reservation[x]
      BY <3>1, <3>2
    <3>4. ASSUME order[o] = "NONE", NEW v \in Variant
          PROVE  reservation'[o][v] = reservation[o][v]
      <4>1. ~Holds(reservation[o][v])
        BY <3>4 DEF StockInv, UnplacedHoldsNothing, Holds
      <4>2. QED
        BY <3>1, <3>2, <4>1
    <3>5. QED
      BY <2>1, <3>3, <3>4 DEF StockInv, UnplacedHoldsNothing
  <2>4. QED
    BY <1>13, <1>a, <2>2, <2>3, FailAccounts DEF StockInv
<1>14. ASSUME NEW p \in Process, NEW o \in Order, NEW n \in Attempt, SucceedRead(p, o, n)
       PROVE  StockInv'
  <2>1. UNCHANGED <<order, reservation, balance, batch>>
    BY <1>14 DEF SucceedRead
  <2>2. \/ Goto(p, [pc |-> "award", o |-> o])
        \/ Goto(p, [pc |-> "succeed", o |-> o, n |-> n, now |-> clock])
    BY <1>14 DEF SucceedRead
  <2>3. [pc |-> "succeed", o |-> o, n |-> n, now |-> clock] \in Call
    BY DEF Call, SucceedCall, StockInv, TypeOK
  <2>4. CallsAndOrders'
    BY <1>c, <2>1, <2>2, <2>3, CallsStep
  <2>5. QED
    BY <1>a, <2>1, <2>4, ReadStep
<1>15. ASSUME NEW p \in Process, NEW o \in Order, SucceedCommit(p, o) PROVE StockInv'
  <2>1. /\ order' = [order EXCEPT ![o] = "CONFIRMED"]
        /\ order[o] = "PLACED"
        /\ Goto(p, [pc |-> "award", o |-> o])
    BY <1>15 DEF SucceedCommit
  <2>2. \A q \in Process \ {p} : call[q].pc = "checkout" => call[q].o # o
    BY <2>1 DEF StockInv, CallsAndOrders
  <2>3. CallsAndOrders'
    BY <1>c, <2>1, <2>2, CallsEnd
  <2>4. UnplacedHoldsNothing'
    <3>1. \A x \in Order \ {o} : order'[x] = order[x] /\ reservation'[x] = reservation[x]
      BY <1>15 DEF SucceedCommit, StockInv, TypeOK
    <3>2. order'[o] = "CONFIRMED"
      BY <2>1 DEF StockInv, TypeOK
    <3>3. QED
      BY <3>1, <3>2 DEF StockInv, UnplacedHoldsNothing
  <2>5. QED
    BY <1>15, <1>a, <2>3, <2>4, SucceedAccounts DEF StockInv
<1>16. ASSUME NEW p \in Process, NEW o \in Order, SucceedRace(p, o) PROVE StockInv'
  <2>1. /\ UNCHANGED <<order, reservation, balance, batch>>
        /\ Goto(p, [pc |-> "award", o |-> o])
    BY <1>16 DEF SucceedRace
  <2>2. CallsAndOrders'
    BY <1>c, <2>1, CallsStep
  <2>3. QED
    BY <1>a, <2>1, <2>2, ReadStep
<1>17. ASSUME NEW p \in Process, NEW o \in Order, AwardOrder(p, o) PROVE StockInv'
  <2>1. /\ UNCHANGED <<order, reservation, balance, batch>>
        /\ Goto(p, [pc |-> "refer", o |-> o])
    BY <1>17 DEF AwardOrder
  <2>2. CallsAndOrders'
    BY <1>c, <2>1, CallsStep
  <2>3. QED
    BY <1>a, <2>1, <2>2, ReadStep
<1>18. ASSUME NEW p \in Process, NEW o \in Order, ReferRead(p, o) PROVE StockInv'
  <2>1. /\ UNCHANGED <<order, reservation, balance, batch>>
        /\ Goto(p, [pc |-> "qualify", o |-> o, seen |-> qualifying[Buyer[o]]])
    BY <1>18 DEF ReferRead
  <2>2. [pc |-> "qualify", o |-> o, seen |-> qualifying[Buyer[o]]] \in Call
    BY PaymentsAssumption DEF PaymentsAssumption, Call, QualifyCall, StockInv, TypeOK
  <2>3. CallsAndOrders'
    BY <2>1, <2>2, CallsStep
  <2>4. QED
    BY <1>a, <2>1, <2>3, ReadStep
<1>19. ASSUME NEW p \in Process, NEW o \in Order, QualifyCommit(p, o) PROVE StockInv'
  <2>1. UNCHANGED <<order, reservation, balance, batch>> /\ Goto(p, Idle)
    BY <1>19 DEF QualifyCommit, Return
  <2>2. CallsAndOrders'
    BY <1>b, <2>1, CallsStep
  <2>3. QED
    BY <1>a, <2>1, <2>2, ReadStep
<1>20. CASE UNCHANGED vars
  BY <1>20, <1>a, ReadStep, CallsUntouched DEF vars
<1>21. QED
  BY <1>1, <1>2, <1>3, <1>4, <1>5, <1>6, <1>7, <1>8, <1>9, <1>10, <1>11, <1>12, <1>13,
     <1>14, <1>15, <1>16, <1>17, <1>18, <1>19, <1>20
     DEF Next, Checkout, Initiate, Webhook, AwardParticipation

\* In every reachable state the balance rows agree with the reservation rows,
\* however many checkouts, initiations and webhooks ran at once.
THEOREM StockIsAccountedFor == Spec => []StockAccounting
<1>1. StockInv => StockAccounting
  BY DEF StockInv
<1>2. QED
  BY <1>1, InitStockInv, NextStockInv, PTL DEF Spec

\* What the books say is held fits what the shelf holds.
LEMMA FitsSupply ==
    ASSUME StockInv, NEW v \in Variant
    PROVE  Quantity(LinesIn("ACTIVE"), v) + Quantity(LinesIn("COMMITTED"), v) <= Supply(v)
<1>1. /\ balance[v].reserved = Quantity(LinesIn("ACTIVE"), v)
      /\ balance[v].onHand = Supply(v) - Quantity(LinesIn("COMMITTED"), v)
      /\ balance[v].reserved <= balance[v].onHand
  BY DEF StockInv, StockAccounting, SoundBalances, BalanceCheck
<1>2. /\ Quantity(LinesIn("ACTIVE"), v) \in Nat
      /\ Quantity(LinesIn("COMMITTED"), v) \in Nat
      /\ Supply(v) \in Nat
  BY UnitsFinite, SupplyType
<1>3. QED
  BY <1>1, <1>2

\* No stock is ever promised twice, although claims compare against an onHand
\* that may be stale.
THEOREM NothingIsOversold == Spec => []NeverOversold
<1>1. StockInv => NeverOversold
  BY FitsSupply DEF NeverOversold
<1>2. QED
  BY <1>1, InitStockInv, NextStockInv, PTL DEF Spec

-----------------------------------------------------------------------------
(* Settlement *)

\* What a webhook and a retry remember from their reads: the provider's report
\* and an attempt that is the current one or the next.
EventFacts(c) ==
    /\ c.pc = "fail" => <<c.o, c.n>> \in declined
    /\ c.pc = "succeed" => <<c.o, c.n>> \in charged
    /\ c.pc \in {"ensure", "retry"} => c.n \in {c.seq, c.seq + 1}

\* The rows of one order: PaidTogether, FailedHoldsNothing, and that exactly
\* the placed orders have a payment.
OrderFacts(o) ==
    /\ order[o] = "NONE" <=> payment[o].status = "NONE"
    /\ payment[o].status = "SUCCEEDED" <=> order[o] = "CONFIRMED"
    /\ payment[o].status = "SUCCEEDED" =>
        /\ invoice[o] = payment[o].providerReference
        /\ <<o, payment[o].providerReference>> \in charged
        /\ \A v \in Items(o) : reservation[o][v].status = "COMMITTED" /\ <<o, v>> \in movement
    /\ payment[o].status # "SUCCEEDED" =>
        /\ invoice[o] = NoReference
        /\ \A v \in Items(o) : reservation[o][v].status # "COMMITTED" /\ <<o, v>> \notin movement
    /\ payment[o].status = "FAILED" => \A v \in Items(o) : reservation[o][v].status # "ACTIVE"

SettlementInv ==
    /\ StockInv
    /\ \A p \in Process : EventFacts(call[p])
    /\ \A o \in Order : OrderFacts(o)

\* The provider forgets nothing it has reported.
ReportsGrow == declined \subseteq declined' /\ charged \subseteq charged'

LEMMA ReportsOnlyGrow == [Next]_vars => ReportsGrow
<1> SUFFICES ASSUME [Next]_vars PROVE ReportsGrow
  OBVIOUS
<1>1. CASE UNCHANGED vars \/ Tick \/ \E b \in Batch : ReleaseBatch(b)
  BY <1>1 DEF ReportsGrow, vars, provider, Tick, ReleaseBatch
<1>2. ASSUME NEW p \in Process, Abandon(p) PROVE ReportsGrow
  BY <1>2 DEF ReportsGrow, provider, Abandon
<1>3. ASSUME NEW p \in Process, NEW o \in Order, Checkout(p, o) PROVE ReportsGrow
  BY <1>3 DEF ReportsGrow, provider, Checkout, CheckoutRead, CheckoutCommit
<1>4. ASSUME NEW p \in Process, NEW o \in Order, Initiate(p, o) PROVE ReportsGrow
  BY <1>4 DEF ReportsGrow, provider, Initiate, InitiateRead, InitiateBegin, InitiateEnsure,
              InitiateCommit
<1>5. ASSUME NEW i \in Intent, Decline(i) \/ Charge(i) PROVE ReportsGrow
  BY <1>5 DEF ReportsGrow, Decline, Charge
<1>6. ASSUME NEW p \in Process, NEW o \in Order, Webhook(p, o) PROVE ReportsGrow
  BY <1>6 DEF ReportsGrow, provider, Webhook, FailRead, FailCommit, SucceedRead, SucceedCommit,
              SucceedRace
<1>7. ASSUME NEW p \in Process, NEW o \in Order, AwardParticipation(p, o) PROVE ReportsGrow
  BY <1>7 DEF ReportsGrow, provider, AwardParticipation, AwardOrder, ReferRead, QualifyCommit
<1>8. QED
  BY <1>1, <1>2, <1>3, <1>4, <1>5, <1>6, <1>7 DEF Next

\* A request that moves on to a step whose facts hold.
LEMMA EventsStep ==
    ASSUME SettlementInv, ReportsGrow, NEW p \in Process, NEW c, Goto(p, c), EventFacts(c)
    PROVE  \A q \in Process : EventFacts(call[q])'
<1>1. /\ call'[p] = c
      /\ \A q \in Process \ {p} : call'[q] = call[q]
  BY DEF SettlementInv, StockInv, TypeOK, Goto
<1>2. ASSUME NEW q \in Process PROVE EventFacts(call[q])'
  <2>1. PICK d : d = call'[q] /\ EventFacts(d)
    BY <1>1 DEF SettlementInv
  <2>2. QED
    BY <2>1 DEF EventFacts, ReportsGrow
<1>3. QED
  BY <1>2

\* Calls that keep no such fact.
Plain == {"idle", "checkout", "gateway", "award", "refer", "qualify"}

LEMMA PlainStep ==
    ASSUME SettlementInv, ReportsGrow, NEW p \in Process, NEW c, Goto(p, c), c.pc \in Plain
    PROVE  \A q \in Process : EventFacts(call[q])'
<1>1. EventFacts(c)
  BY DEF EventFacts, Plain
<1>2. QED
  BY <1>1, EventsStep

LEMMA CallsKeep ==
    ASSUME SettlementInv, ReportsGrow, UNCHANGED call
    PROVE  \A q \in Process : EventFacts(call[q])'
BY DEF SettlementInv, EventFacts, ReportsGrow

LEMMA NextEvents ==
    ASSUME SettlementInv, [Next]_vars
    PROVE  \A q \in Process : EventFacts(call[q])'
<1> USE ReportsOnlyGrow
<1>1. ASSUME NEW p \in Process, Return(p) PROVE \A q \in Process : EventFacts(call[q])'
  <2>1. Idle.pc \in Plain
    BY DEF Idle, Plain
  <2>2. QED
    BY <1>1, <2>1, PlainStep DEF Return
<1>2. ASSUME NEW p \in Process, NEW o \in Order, CheckoutRead(p, o)
      PROVE  \A q \in Process : EventFacts(call[q])'
  BY <1>2, PlainStep DEF CheckoutRead, Plain
<1>3. ASSUME NEW p \in Process, NEW o \in Order, InitiateRead(p, o)
      PROVE  \A q \in Process : EventFacts(call[q])'
  BY <1>3, PlainStep DEF InitiateRead, Plain
<1>4. ASSUME NEW p \in Process, NEW o \in Order, InitiateBegin(p, o)
      PROVE  \A q \in Process : EventFacts(call[q])'
  <2> DEFINE c == [pc |-> "ensure", o |-> o, n |-> call[p].n,
                   seq |-> payment[o].attemptSequence, ref |-> payment[o].providerReference,
                   active |-> {v \in Items(o) : reservation[o][v].status = "ACTIVE"}]
  <2>1. call[p].n \in {payment[o].attemptSequence, payment[o].attemptSequence + 1}
    BY <1>4 DEF InitiateBegin, SameAttempt, AdvancingAttempt
  <2>2. Goto(p, c) /\ EventFacts(c)
    BY <1>4, <2>1 DEF InitiateBegin, EventFacts
  <2>3. QED
    BY <2>2, EventsStep
<1>5. ASSUME NEW p \in Process, NEW o \in Order, InitiateEnsure(p, o)
      PROVE  \A q \in Process : EventFacts(call[q])'
  <2>1. call[p].n \in {call[p].seq, call[p].seq + 1}
    BY <1>5 DEF InitiateEnsure, SettlementInv, EventFacts
  <2>2. PICK c : Goto(p, c) /\ c.pc = "retry" /\ c.n = call[p].n /\ c.seq = call[p].seq
    BY <1>5 DEF InitiateEnsure
  <2>3. EventFacts(c)
    BY <2>1, <2>2 DEF EventFacts
  <2>4. QED
    BY <2>2, <2>3, EventsStep
<1>6. ASSUME NEW p \in Process, NEW o \in Order, NEW n \in Attempt, FailRead(p, o, n)
      PROVE  \A q \in Process : EventFacts(call[q])'
  BY <1>6, EventsStep DEF FailRead, EventFacts
<1>7. ASSUME NEW p \in Process, NEW o \in Order, NEW n \in Attempt, SucceedRead(p, o, n)
      PROVE  \A q \in Process : EventFacts(call[q])'
  <2>1. CASE Goto(p, [pc |-> "award", o |-> o])
    BY <2>1, PlainStep DEF Plain
  <2>2. CASE Goto(p, [pc |-> "succeed", o |-> o, n |-> n, now |-> clock])
    <3>1. EventFacts([pc |-> "succeed", o |-> o, n |-> n, now |-> clock])
      BY <1>7 DEF SucceedRead, EventFacts
    <3>2. QED
      BY <2>2, <3>1, EventsStep
  <2>3. QED
    BY <1>7, <2>1, <2>2 DEF SucceedRead
<1>8. ASSUME NEW p \in Process, NEW o \in Order,
             SucceedCommit(p, o) \/ SucceedRace(p, o) \/ AwardOrder(p, o) \/ ReferRead(p, o)
      PROVE  \A q \in Process : EventFacts(call[q])'
  <2>1. PICK c : Goto(p, c) /\ c.pc \in Plain
    BY <1>8 DEF SucceedCommit, SucceedRace, AwardOrder, ReferRead, Plain
  <2>2. QED
    BY <2>1, PlainStep
<1>9. ASSUME UNCHANGED call PROVE \A q \in Process : EventFacts(call[q])'
  BY <1>9, CallsKeep
<1>10. ASSUME NEW p \in Process, NEW o \in Order,
              \/ CheckoutCommit(p, o) \/ InitiateCommit(p, o) \/ FailCommit(p, o)
              \/ QualifyCommit(p, o)
       PROVE  Return(p)
  BY <1>10 DEF CheckoutCommit, InitiateCommit, FailCommit, QualifyCommit
<1>11. ASSUME \/ Tick \/ UNCHANGED vars \/ (\E b \in Batch : ReleaseBatch(b))
              \/ \E i \in Intent : Decline(i) \/ Charge(i)
       PROVE  UNCHANGED call
  BY <1>11 DEF Tick, vars, ReleaseBatch, Decline, Charge
<1>12. ASSUME NEW p \in Process, NEW o \in Order,
              \/ Checkout(p, o) \/ Initiate(p, o) \/ Webhook(p, o) \/ AwardParticipation(p, o)
       PROVE  \A q \in Process : EventFacts(call[q])'
  BY <1>1, <1>2, <1>3, <1>4, <1>5, <1>6, <1>7, <1>8, <1>10, <1>12
     DEF Checkout, Initiate, Webhook, AwardParticipation
<1>13. ASSUME NEW p \in Process, Abandon(p) PROVE \A q \in Process : EventFacts(call[q])'
  <2>1. Return(p)
    BY <1>13 DEF Abandon
  <2>2. QED
    BY <1>1, <2>1
<1>14. QED
  BY <1>9, <1>11, <1>12, <1>13 DEF Next

\* An order whose rows a step leaves alone.
LEMMA RowsKeep ==
    ASSUME NEW o \in Order, OrderFacts(o), ReportsGrow,
           order'[o] = order[o], payment'[o] = payment[o], invoice'[o] = invoice[o],
           reservation'[o] = reservation[o],
           \A v : <<o, v>> \in movement' <=> <<o, v>> \in movement
    PROVE  OrderFacts(o)'
BY DEF OrderFacts, ReportsGrow

\* The four transactions that write rows of an order write no other order's.
LEMMA OnlyThisOrder ==
    ASSUME TypeOK, NEW p \in Process, NEW o \in Order, NEW x \in Order \ {o},
           CheckoutCommit(p, o) \/ InitiateCommit(p, o) \/ FailCommit(p, o) \/ SucceedCommit(p, o)
    PROVE  /\ order'[x] = order[x] /\ payment'[x] = payment[x] /\ invoice'[x] = invoice[x]
           /\ reservation'[x] = reservation[x]
           /\ \A v : <<x, v>> \in movement' <=> <<x, v>> \in movement
BY DEF TypeOK, CheckoutCommit, InitiateCommit, FailCommit, SucceedCommit

\* The order that a checkout places had no payment, nor anything sold to it.
LEMMA CheckoutSettles ==
    ASSUME SettlementInv, NEW p \in Process, NEW o \in Order, CheckoutCommit(p, o)
    PROVE  OrderFacts(o)' /\ payment[o].status = "NONE"
<1>1. order[o] = "NONE" /\ OrderFacts(o) /\ TypeOK
  BY DEF CheckoutCommit, SettlementInv, StockInv, CallsAndOrders
<1>2. /\ order'[o] = "PLACED" /\ payment'[o].status = "PENDING"
      /\ UNCHANGED <<invoice, movement, charged>>
      /\ \A v \in Items(o) : reservation'[o][v].status = "ACTIVE"
  BY <1>1 DEF CheckoutCommit, TypeOK, NoPayment, provider, Items
<1>3. QED
  BY <1>1, <1>2 DEF OrderFacts

\* An initiation finds a payment that is not settled and leaves it pending.
LEMMA InitiateSettles ==
    ASSUME SettlementInv, NEW p \in Process, NEW o \in Order, InitiateCommit(p, o)
    PROVE  /\ OrderFacts(o)'
           /\ payment[o].status \in {"PENDING", "FAILED"}
           /\ payment'[o] = [status |-> "PENDING", attemptSequence |-> call[p].n,
                             providerReference |-> call[p].n]
<1>1. payment[o].status \in {"PENDING", "FAILED"} /\ OrderFacts(o) /\ TypeOK
  BY DEF InitiateCommit, RetryClaim, SettlementInv, StockInv
<1>2. /\ payment'[o] = [status |-> "PENDING", attemptSequence |-> call[p].n,
                        providerReference |-> call[p].n]
      /\ UNCHANGED <<order, invoice, movement, charged>>
      /\ \A v \in Items(o) : \/ reservation'[o][v].status = "ACTIVE"
                             \/ reservation'[o][v] = reservation[o][v]
  BY <1>1 DEF InitiateCommit, TypeOK, Items
<1>3. QED
  BY <1>1, <1>2 DEF OrderFacts

\* A failure finds its attempt pending and lets go of every hold.
LEMMA FailSettles ==
    ASSUME SettlementInv, NEW p \in Process, NEW o \in Order, FailCommit(p, o)
    PROVE  /\ OrderFacts(o)'
           /\ payment[o].status = "PENDING" /\ payment[o].attemptSequence = call[p].n
           /\ payment'[o].status = "FAILED"
           /\ payment'[o].attemptSequence = payment[o].attemptSequence
<1>1. /\ payment[o].status = "PENDING" /\ payment[o].attemptSequence = call[p].n
      /\ OrderFacts(o) /\ TypeOK
  BY DEF FailCommit, WebhookClaim, MatchesCurrentAttempt, SettlementInv, StockInv
<1>2. /\ payment'[o].status = "FAILED"
      /\ payment'[o].attemptSequence = payment[o].attemptSequence
  BY <1>1 DEF FailCommit, TypeOK, Payment
<1>3. UNCHANGED <<order, invoice, movement, charged>>
  BY DEF FailCommit, provider
<1>4. ASSUME NEW v \in Items(o) PROVE reservation'[o][v].status \notin {"ACTIVE", "COMMITTED"}
  <2>1. v \in Variant /\ reservation[o][v] \in Reservation /\ reservation[o][v].status # "COMMITTED"
    BY <1>1 DEF Items, TypeOK, OrderFacts
  <2>2. reservation'[o][v] = IF Holds(reservation[o][v])
                             THEN [reservation[o][v] EXCEPT !.status = "RELEASED"]
                             ELSE reservation[o][v]
    BY <1>1, <2>1 DEF FailCommit, TypeOK
  <2>3. QED
    BY <2>1, <2>2 DEF Holds, Reservation
<1>5. QED
  BY <1>1, <1>2, <1>3, <1>4 DEF OrderFacts

\* A success finds its attempt pending and settles every row of the order.
LEMMA SucceedSettles ==
    ASSUME SettlementInv, NEW p \in Process, NEW o \in Order, SucceedCommit(p, o)
    PROVE  /\ OrderFacts(o)'
           /\ payment[o].status = "PENDING" /\ payment[o].attemptSequence = call[p].n
           /\ payment'[o].status = "SUCCEEDED"
           /\ payment'[o].attemptSequence = payment[o].attemptSequence
<1>1. /\ payment[o].status = "PENDING" /\ payment[o].attemptSequence = call[p].n
      /\ OrderFacts(o) /\ TypeOK /\ <<o, call[p].n>> \in charged
  BY DEF SucceedCommit, WebhookClaim, MatchesCurrentAttempt, SettlementInv, StockInv, EventFacts
<1>2. payment'[o] = [status |-> "SUCCEEDED", attemptSequence |-> payment[o].attemptSequence,
                     providerReference |-> call[p].n]
  BY <1>1 DEF SucceedCommit, TypeOK
<1>3. order'[o] = "CONFIRMED" /\ invoice'[o] = call[p].n /\ charged' = charged
  BY <1>1 DEF SucceedCommit, TypeOK, provider
<1>4. \A v \in Items(o) : <<o, v>> \in movement'
  BY DEF SucceedCommit
<1>5. ASSUME NEW v \in Items(o) PROVE reservation'[o][v].status = "COMMITTED"
  <2>1. v \in Variant /\ reservation[o][v] \in Reservation
    BY <1>1 DEF Items, TypeOK
  <2>2. reservation'[o][v] = [reservation[o][v] EXCEPT !.status = "COMMITTED"]
    BY <1>1, <2>1 DEF SucceedCommit, TypeOK
  <2>3. QED
    BY <2>1, <2>2 DEF Reservation
<1>6. QED
  BY <1>1, <1>2, <1>3, <1>4, <1>5 DEF OrderFacts

\* Every step but those four leaves the rows of every order alone.
LEMMA FourTransactions ==
    ASSUME [Next]_vars,
           \A p \in Process, o \in Order :
              ~(CheckoutCommit(p, o) \/ InitiateCommit(p, o) \/ FailCommit(p, o) \/ SucceedCommit(p, o))
    PROVE  UNCHANGED <<order, payment, invoice, reservation, movement>>
<1> DEFINE kept == UNCHANGED <<order, payment, invoice, reservation, movement>>
<1>1. CASE UNCHANGED vars \/ Tick \/ \E b \in Batch : ReleaseBatch(b)
  BY <1>1 DEF vars, stock, Tick, ReleaseBatch
<1>2. ASSUME NEW p \in Process, Abandon(p) PROVE kept
  BY <1>2 DEF stock, Abandon
<1>3. ASSUME NEW p \in Process, NEW o \in Order, CheckoutRead(p, o) PROVE kept
  BY <1>3 DEF stock, CheckoutRead
<1>4. ASSUME NEW p \in Process, NEW o \in Order,
             InitiateRead(p, o) \/ InitiateBegin(p, o) \/ InitiateEnsure(p, o)
      PROVE  kept
  BY <1>4 DEF stock, InitiateRead, InitiateBegin, InitiateEnsure
<1>5. ASSUME NEW i \in Intent, Decline(i) \/ Charge(i) PROVE kept
  BY <1>5 DEF stock, Decline, Charge
<1>6. ASSUME NEW p \in Process, NEW o \in Order,
             \/ \E n \in Attempt : FailRead(p, o, n) \/ SucceedRead(p, o, n)
             \/ SucceedRace(p, o)
      PROVE  kept
  BY <1>6 DEF stock, FailRead, SucceedRead, SucceedRace
<1>7. ASSUME NEW p \in Process, NEW o \in Order, AwardParticipation(p, o) PROVE kept
  BY <1>7 DEF stock, AwardParticipation, AwardOrder, ReferRead, QualifyCommit
<1>8. ASSUME NEW p \in Process, NEW o \in Order, Checkout(p, o) \/ Initiate(p, o) \/ Webhook(p, o)
      PROVE  kept
  BY <1>3, <1>4, <1>6, <1>8 DEF Checkout, Initiate, Webhook
<1>9. QED
  BY <1>1, <1>2, <1>5, <1>7, <1>8 DEF Next

\* Only the qualification writes a referral.
LEMMA OnlyQualifyCommit ==
    ASSUME [Next]_vars, \A p \in Process, o \in Order : ~QualifyCommit(p, o)
    PROVE  UNCHANGED qualifying
<1>1. CASE UNCHANGED vars \/ Tick \/ \E b \in Batch : ReleaseBatch(b)
  BY <1>1 DEF vars, rewards, Tick, ReleaseBatch
<1>2. ASSUME NEW p \in Process, Abandon(p) PROVE UNCHANGED qualifying
  BY <1>2 DEF rewards, Abandon
<1>3. ASSUME NEW p \in Process, NEW o \in Order, Checkout(p, o) PROVE UNCHANGED qualifying
  BY <1>3 DEF rewards, Checkout, CheckoutRead, CheckoutCommit
<1>4. ASSUME NEW p \in Process, NEW o \in Order, Initiate(p, o) PROVE UNCHANGED qualifying
  BY <1>4 DEF rewards, Initiate, InitiateRead, InitiateBegin, InitiateEnsure, InitiateCommit
<1>5. ASSUME NEW i \in Intent, Decline(i) \/ Charge(i) PROVE UNCHANGED qualifying
  BY <1>5 DEF rewards, Decline, Charge
<1>6. ASSUME NEW p \in Process, NEW o \in Order, Webhook(p, o) PROVE UNCHANGED qualifying
  BY <1>6 DEF rewards, Webhook, FailRead, FailCommit, SucceedRead, SucceedCommit, SucceedRace
<1>7. ASSUME NEW p \in Process, NEW o \in Order, AwardOrder(p, o) \/ ReferRead(p, o)
      PROVE  UNCHANGED qualifying
  BY <1>7 DEF rewards, AwardOrder, ReferRead
<1>8. QED
  BY <1>1, <1>2, <1>3, <1>4, <1>5, <1>6, <1>7 DEF Next, AwardParticipation

LEMMA InitSettlement == Init => SettlementInv
<1> SUFFICES ASSUME Init PROVE SettlementInv
  OBVIOUS
<1>1. StockInv
  BY InitStockInv
<1>2. \A p \in Process : EventFacts(call[p])
  BY DEF Init, EventFacts, Idle
<1>3. \A o \in Order : OrderFacts(o)
  BY DEF Init, OrderFacts, NoPayment, NoReservation, Items
<1>4. QED
  BY <1>1, <1>2, <1>3 DEF SettlementInv

LEMMA NextSettlement == SettlementInv /\ [Next]_vars => SettlementInv'
<1> SUFFICES ASSUME SettlementInv, [Next]_vars PROVE SettlementInv'
  OBVIOUS
<1>1. StockInv'
  BY NextStockInv DEF SettlementInv
<1>2. \A p \in Process : EventFacts(call[p])'
  BY NextEvents
<1>3. ASSUME NEW x \in Order PROVE OrderFacts(x)'
  <2>1. OrderFacts(x) /\ TypeOK
    BY DEF SettlementInv, StockInv
  <2>2. ASSUME NEW p \in Process, NEW o \in Order,
               \/ CheckoutCommit(p, o) \/ InitiateCommit(p, o)
               \/ FailCommit(p, o) \/ SucceedCommit(p, o)
        PROVE  OrderFacts(x)'
    <3>1. CASE x = o
      BY <2>2, <3>1, CheckoutSettles, InitiateSettles, FailSettles, SucceedSettles
    <3>2. CASE x # o
      BY <2>1, <2>2, <3>2, OnlyThisOrder, RowsKeep, ReportsOnlyGrow
    <3>3. QED
      BY <3>1, <3>2
  <2>3. CASE UNCHANGED <<order, payment, invoice, reservation, movement>>
    BY <2>1, <2>3, RowsKeep, ReportsOnlyGrow
  <2>4. QED
    BY <2>2, <2>3, FourTransactions
<1>4. QED
  BY <1>1, <1>2, <1>3 DEF SettlementInv

\* A payment that succeeded, its order, its committed lines, their movements
\* and its invoice exist together or not at all, for a charged intent only.
THEOREM PaymentsSettleTogether == Spec => []PaidTogether
<1>1. SettlementInv => PaidTogether
  BY DEF SettlementInv, OrderFacts, PaidTogether
<1>2. QED
  BY <1>1, InitSettlement, NextSettlement, PTL DEF Spec

\* No webhook that fails a payment leaves a hold of it behind.
THEOREM FailuresLetGo == Spec => []FailedHoldsNothing
<1>1. SettlementInv => FailedHoldsNothing
  BY DEF SettlementInv, OrderFacts, FailedHoldsNothing
<1>2. QED
  BY <1>1, InitSettlement, NextSettlement, PTL DEF Spec

\* No handler touches the rows of a settled order again, nor the order that
\* qualified a referral.
THEOREM SettlementIsFinal == Spec => SettledIsFinal
<1>1. ASSUME SettlementInv, [Next]_vars, NEW x \in Order, payment[x].status = "SUCCEEDED"
      PROVE  /\ payment'[x] = payment[x] /\ reservation'[x] = reservation[x]
             /\ order'[x] = order[x] /\ invoice'[x] = invoice[x]
  <2>1. ASSUME NEW p \in Process, NEW o \in Order,
               \/ CheckoutCommit(p, o) \/ InitiateCommit(p, o)
               \/ FailCommit(p, o) \/ SucceedCommit(p, o)
        PROVE  x # o
    BY <1>1, <2>1, CheckoutSettles, InitiateSettles, FailSettles, SucceedSettles
  <2>2. QED
    BY <1>1, <2>1, OnlyThisOrder, FourTransactions DEF SettlementInv, StockInv
<1>2. ASSUME SettlementInv, [Next]_vars, NEW c \in Customer, qualifying[c] # NoOrder
      PROVE  qualifying'[c] = qualifying[c]
  <2>1. ASSUME NEW p \in Process, NEW o \in Order, QualifyCommit(p, o)
        PROVE  qualifying'[c] = qualifying[c]
    BY <1>2, <2>1 DEF QualifyCommit, Unqualified, SettlementInv, StockInv, TypeOK
  <2>2. CASE \A p \in Process, o \in Order : ~QualifyCommit(p, o)
    BY <1>2, <2>2, OnlyQualifyCommit
  <2>3. QED
    BY <2>1, <2>2
<1>3. SettlementInv /\ [Next]_vars =>
        [/\ \A o \in Order : payment[o].status = "SUCCEEDED" =>
                /\ payment'[o] = payment[o]
                /\ reservation'[o] = reservation[o]
                /\ order'[o] = order[o]
                /\ invoice'[o] = invoice[o]
         /\ \A c \in Customer : qualifying[c] # NoOrder => qualifying'[c] = qualifying[c]]_vars
  BY <1>1, <1>2
<1>4. QED
  BY <1>3, InitSettlement, NextSettlement, PTL DEF Spec, SettledIsFinal

\* Attempts follow one another, and an event settles the attempt it reports on
\* or nothing.
THEOREM AttemptsFollow == Spec => AttemptsInOrder
<1>1. ASSUME SettlementInv, [Next]_vars, NEW x \in Order,
             payment[x] # payment'[x], payment[x].status # "NONE"
      PROVE  LET was == payment[x]
                 is == payment'[x]
                 intent == <<x, was.attemptSequence>>
             IN  /\ is.attemptSequence - was.attemptSequence \in {0, 1}
                 /\ is.status = "PENDING" => <<x, is.attemptSequence>> \in issued'
                 /\ is.status = "FAILED" => is.attemptSequence = was.attemptSequence
                                            /\ intent \in declined
                 /\ is.status = "SUCCEEDED" => is.attemptSequence = was.attemptSequence
                                               /\ intent \in charged
  <2>1. PICK p \in Process, o \in Order : \/ CheckoutCommit(p, o) \/ InitiateCommit(p, o)
                                          \/ FailCommit(p, o) \/ SucceedCommit(p, o)
    BY <1>1, FourTransactions
  <2>2. x = o /\ TypeOK
    BY <1>1, <2>1, OnlyThisOrder DEF SettlementInv, StockInv
  <2>3. ~CheckoutCommit(p, o)
    BY <1>1, <2>2, CheckoutSettles
  <2>4. payment[o].attemptSequence \in Nat /\ EventFacts(call[p])
    BY <1>1, <2>2, PaymentsAssumption DEF SettlementInv, TypeOK, Payment, PaymentsAssumption
  <2>5. CASE InitiateCommit(p, o)
    <3>1. payment'[o] = [status |-> "PENDING", attemptSequence |-> call[p].n,
                         providerReference |-> call[p].n]
      BY <1>1, <2>5, InitiateSettles
    <3>2. /\ call[p].n \in {payment[o].attemptSequence, payment[o].attemptSequence + 1}
          /\ <<o, call[p].n>> \in issued'
      BY <2>4, <2>5 DEF InitiateCommit, RetryClaim, EventFacts
    <3>3. QED
      BY <2>2, <2>4, <3>1, <3>2
  <2>6. CASE FailCommit(p, o)
    <3>1. <<o, call[p].n>> \in declined
      BY <2>4, <2>6 DEF FailCommit, EventFacts
    <3>2. QED
      BY <1>1, <2>2, <2>4, <2>6, <3>1, FailSettles
  <2>7. CASE SucceedCommit(p, o)
    <3>1. <<o, call[p].n>> \in charged
      BY <2>4, <2>7 DEF SucceedCommit, EventFacts
    <3>2. QED
      BY <1>1, <2>2, <2>4, <2>7, <3>1, SucceedSettles
  <2>8. QED
    BY <2>1, <2>3, <2>5, <2>6, <2>7
<1>2. SettlementInv /\ [Next]_vars =>
        [\A o \in Order :
            LET was == payment[o]
                is == payment'[o]
                intent == <<o, was.attemptSequence>>
            IN  was # is /\ was.status # "NONE" =>
                /\ is.attemptSequence - was.attemptSequence \in {0, 1}
                /\ is.status = "PENDING" => <<o, is.attemptSequence>> \in issued'
                /\ is.status = "FAILED" => is.attemptSequence = was.attemptSequence
                                           /\ intent \in declined
                /\ is.status = "SUCCEEDED" => is.attemptSequence = was.attemptSequence
                                              /\ intent \in charged]_vars
  BY <1>1
<1>3. QED
  BY <1>2, InitSettlement, NextSettlement, PTL DEF Spec, AttemptsInOrder
-----------------------------------------------------------------------------
(* Refinement of the stock promise *)

\* Only a released batch changes the batches.
LEMMA OnlyReleaseBatch ==
    ASSUME [Next]_vars, \A b \in Batch : ~ReleaseBatch(b)
    PROVE  UNCHANGED batch
<1>1. CASE UNCHANGED vars \/ Tick
  BY <1>1 DEF vars, Tick
<1>2. ASSUME NEW p \in Process, Abandon(p) PROVE UNCHANGED batch
  BY <1>2 DEF Abandon
<1>3. ASSUME NEW p \in Process, NEW o \in Order, Checkout(p, o) PROVE UNCHANGED batch
  BY <1>3 DEF Checkout, CheckoutRead, CheckoutCommit
<1>4. ASSUME NEW p \in Process, NEW o \in Order, Initiate(p, o) PROVE UNCHANGED batch
  BY <1>4 DEF Initiate, InitiateRead, InitiateBegin, InitiateEnsure, InitiateCommit
<1>5. ASSUME NEW i \in Intent, Decline(i) \/ Charge(i) PROVE UNCHANGED batch
  BY <1>5 DEF Decline, Charge
<1>6. ASSUME NEW p \in Process, NEW o \in Order, Webhook(p, o) PROVE UNCHANGED batch
  BY <1>6 DEF Webhook, FailRead, FailCommit, SucceedRead, SucceedCommit, SucceedRace
<1>7. ASSUME NEW p \in Process, NEW o \in Order, AwardParticipation(p, o) PROVE UNCHANGED batch
  BY <1>7 DEF AwardParticipation, AwardOrder, ReferRead, QualifyCommit
<1>8. QED
  BY <1>1, <1>2, <1>3, <1>4, <1>5, <1>6, <1>7 DEF Next

\* Without a new batch the supply stays.
LEMMA SupplyKeeps ==
    ASSUME UNCHANGED batch
    PROVE  [v \in Variant |-> Supply(v)]' = [v \in Variant |-> Supply(v)]
BY DEF Supply, BatchUnits

\* The ledger counts units as the tables do.
LEMMA SameQuantity ==
    ASSUME NEW L, NEW v
    PROVE  Ledger!Quantity(L, v) = Quantity(L, v)
<1>1. Ledger!Units(L, v) = Units(L, v)
  BY DEF Ledger!Units, Units
<1>2. QED
  BY <1>1, Zenon DEF Ledger!Quantity, Quantity, Ledger!Cardinality, Cardinality, Ledger!IsFiniteSet, IsFiniteSet

\* A transaction that takes some lines of an order holds them in the ledger.
LEMMA TakesHold ==
    ASSUME SettlementInv, StockInv', UNCHANGED batch, NEW o \in Order,
           \A x \in Order \ {o} : reservation'[x] = reservation[x],
           \A v \in Items(o) :
                \/ reservation'[o][v].status = reservation[o][v].status
                \/ /\ reservation'[o][v].status = "ACTIVE"
                   /\ reservation[o][v].status # "COMMITTED"
    PROVE  [Ledger!LedgerNext]_(Ledger!ledgerVars)
<1> DEFINE L == {l \in Line : /\ l[1] = o
                              /\ reservation'[o][l[2]].status = "ACTIVE"
                              /\ reservation[o][l[2]].status # "ACTIVE"}
<1>1. \A l \in Line : l[1] \in Order /\ (l[1] = o => l[2] \in Items(o))
  BY DEF Line, Items
<1>2. LinesIn("COMMITTED")' = LinesIn("COMMITTED")
  BY <1>1 DEF LinesIn
<1>3. LinesIn("ACTIVE")' = LinesIn("ACTIVE") \union L
  BY <1>1 DEF LinesIn
<1>4. L \subseteq Ledger!LinesOf(o) \ (LinesIn("ACTIVE") \union LinesIn("COMMITTED"))
  BY <1>1 DEF LinesIn, Ledger!LinesOf, Ledger!Line, Line
<1>5. CASE L = {}
  BY <1>2, <1>3, <1>5, SupplyKeeps DEF Ledger!ledgerVars
<1>6. CASE L # {}
  <2>1. ASSUME NEW v \in Variant
        PROVE  Quantity(LinesIn("ACTIVE")', v) + Quantity(LinesIn("COMMITTED"), v) <= Supply(v)
    <3>1. Supply(v)' = Supply(v)
      BY DEF Supply, BatchUnits
    <3>2. /\ balance'[v].reserved = Quantity(LinesIn("ACTIVE")', v)
          /\ balance'[v].onHand = Supply(v) - Quantity(LinesIn("COMMITTED"), v)
          /\ balance'[v].reserved <= balance'[v].onHand
      BY <1>2, <3>1 DEF StockInv, StockAccounting, SoundBalances, BalanceCheck
    <3>3. /\ Quantity(LinesIn("ACTIVE")', v) \in Nat
          /\ Quantity(LinesIn("COMMITTED"), v) \in Nat
          /\ Supply(v) \in Nat
      BY UnitsFinite, SupplyType
    <3>4. QED
      BY <3>2, <3>3
  <2>2. \A v \in Variant : Ledger!Fits(v)
    <3>1. ASSUME NEW v \in Variant
          PROVE  Ledger!Quantity(LinesIn("ACTIVE")', v) + Ledger!Quantity(LinesIn("COMMITTED"), v)
                    <= [w \in Variant |-> Supply(w)][v]
      <4>1. /\ Ledger!Quantity(LinesIn("ACTIVE")', v) = Quantity(LinesIn("ACTIVE")', v)
            /\ Ledger!Quantity(LinesIn("COMMITTED"), v) = Quantity(LinesIn("COMMITTED"), v)
        BY SameQuantity
      <4>2. [w \in Variant |-> Supply(w)][v] = Supply(v)
        OBVIOUS
      <4>3. QED
        BY <2>1, <4>1, <4>2
    <3>2. QED
      BY <3>1 DEF Ledger!Fits
  <2>3. \E M \in (SUBSET (Ledger!LinesOf(o) \ (LinesIn("ACTIVE") \union LinesIn("COMMITTED")))) \ {{}} :
            LinesIn("ACTIVE")' = LinesIn("ACTIVE") \union M
    BY <1>3, <1>4, <1>6
  <2>4. Ledger!Hold(o)
    BY <1>2, <2>2, <2>3, SupplyKeeps DEF Ledger!Hold
  <2>5. QED
    BY <2>4 DEF Ledger!LedgerNext, Ledger!LedgerStep
<1>7. QED
  BY <1>5, <1>6

\* A failure releases the lines that it found held.
LEMMA FailReleases ==
    ASSUME SettlementInv, NEW p \in Process, NEW o \in Order, FailCommit(p, o)
    PROVE  [Ledger!LedgerNext]_(Ledger!ledgerVars)
<1>1. TypeOK /\ UNCHANGED batch
  BY DEF FailCommit, SettlementInv, StockInv
<1>2. ASSUME NEW v \in Variant
      PROVE  reservation'[o][v].status = IF reservation[o][v].status = "ACTIVE" THEN "RELEASED"
                                         ELSE reservation[o][v].status
  <2>1. reservation[o][v] \in Reservation
    BY <1>1 DEF TypeOK
  <2>2. reservation'[o][v] = IF Holds(reservation[o][v])
                             THEN [reservation[o][v] EXCEPT !.status = "RELEASED"]
                             ELSE reservation[o][v]
    BY <1>1 DEF FailCommit, TypeOK
  <2>3. QED
    BY <2>1, <2>2 DEF Holds, Reservation
<1>3. \A x \in Order \ {o} : reservation'[x] = reservation[x]
  BY <1>1, OnlyThisOrder
<1>4. \A l \in Line : l[1] \in Order /\ l[2] \in Variant
  BY DEF Line
<1>5. /\ LinesIn("COMMITTED")' = LinesIn("COMMITTED")
      /\ LinesIn("ACTIVE")' = LinesIn("ACTIVE") \ (Ledger!LinesOf(o) \cap LinesIn("ACTIVE"))
  BY <1>2, <1>3, <1>4 DEF LinesIn, Ledger!LinesOf, Ledger!Line, Line
<1>6. CASE Ledger!LinesOf(o) \cap LinesIn("ACTIVE") = {}
  BY <1>1, <1>5, <1>6, SupplyKeeps DEF Ledger!ledgerVars
<1>7. CASE Ledger!LinesOf(o) \cap LinesIn("ACTIVE") # {}
  <2>1. Ledger!Release(o)
    BY <1>1, <1>5, <1>7, SupplyKeeps DEF Ledger!Release
  <2>2. QED
    BY <2>1 DEF Ledger!LedgerNext, Ledger!LedgerStep
<1>8. QED
  BY <1>6, <1>7

\* A success sells every line of its order out of its hold.
LEMMA SucceedSells ==
    ASSUME SettlementInv, NEW p \in Process, NEW o \in Order, SucceedCommit(p, o)
    PROVE  [Ledger!LedgerNext]_(Ledger!ledgerVars)
<1>1. TypeOK /\ UNCHANGED batch
  BY DEF SucceedCommit, SettlementInv, StockInv
<1>2. ASSUME NEW v \in Items(o)
      PROVE  /\ reservation[o][v].status = "ACTIVE"
             /\ reservation'[o][v].status = "COMMITTED"
  <2>1. reservation[o][v].status = "ACTIVE"
    BY DEF SucceedCommit, Holds
  <2>2. v \in Variant /\ reservation[o][v] \in Reservation
    BY <1>1 DEF TypeOK, Items
  <2>3. reservation'[o][v] = [reservation[o][v] EXCEPT !.status = "COMMITTED"]
    BY <1>1, <2>2 DEF SucceedCommit, TypeOK
  <2>4. QED
    BY <2>1, <2>2, <2>3 DEF Reservation
<1>3. \A x \in Order \ {o} : reservation'[x] = reservation[x]
  BY <1>1, OnlyThisOrder
<1>4. \A l \in Line : l[1] \in Order /\ (l[1] = o => l[2] \in Items(o))
  BY DEF Line, Items
<1>5. /\ Ledger!LinesOf(o) \subseteq LinesIn("ACTIVE")
      /\ LinesIn("ACTIVE")' = LinesIn("ACTIVE") \ Ledger!LinesOf(o)
      /\ LinesIn("COMMITTED")' = LinesIn("COMMITTED") \union Ledger!LinesOf(o)
  BY <1>2, <1>3, <1>4 DEF LinesIn, Ledger!LinesOf, Ledger!Line, Line
<1>6. Ledger!Sell(o)
  BY <1>1, <1>5, SupplyKeeps DEF Ledger!Sell
<1>7. QED
  BY <1>6 DEF Ledger!LedgerNext, Ledger!LedgerStep

\* A released batch restocks its variant.
LEMMA BatchRestocks ==
    ASSUME SettlementInv, NEW b \in Batch, ReleaseBatch(b)
    PROVE  [Ledger!LedgerNext]_(Ledger!ledgerVars)
<1>1. /\ BatchVariant[b] \in Variant /\ BatchSize[b] \in Nat /\ BatchSize[b] > 0
      /\ UNCHANGED reservation /\ TypeOK
  BY PaymentsAssumption DEF PaymentsAssumption, ReleaseBatch, SettlementInv, StockInv
<1>2. ASSUME NEW v \in Variant
      PROVE  /\ Supply(v) \in Nat
             /\ Supply(v)' = Supply(v) + IF v = BatchVariant[b] THEN BatchSize[b] ELSE 0
  BY <1>1, SupplyType, ReleaseSupply
<1>3. /\ LinesIn("ACTIVE")' = LinesIn("ACTIVE")
      /\ LinesIn("COMMITTED")' = LinesIn("COMMITTED")
  BY <1>1 DEF LinesIn
<1>4. Ledger!Restock(BatchVariant[b])
  BY <1>1, <1>2, <1>3 DEF Ledger!Restock
<1>5. QED
  BY <1>1, <1>4 DEF Ledger!LedgerNext, Ledger!LedgerStep

\* The handlers implement the stock promise: each of their steps is one of the
\* ledger's or leaves it alone.
THEOREM StockRefinement == Spec => ImplementsLedger
<1>1. Init => Ledger!LedgerInit
  <2> SUFFICES ASSUME Init PROVE Ledger!LedgerInit
    OBVIOUS
  <2>1. LinesIn("ACTIVE") = {} /\ LinesIn("COMMITTED") = {}
    BY DEF Init, LinesIn, NoReservation, Line
  <2>2. [v \in Variant |-> Supply(v)] \in [Variant -> Nat]
    BY SupplyType
  <2>3. QED
    BY <2>1, <2>2 DEF Ledger!LedgerInit
<1>2. ASSUME SettlementInv, [Next]_vars PROVE [Ledger!LedgerNext]_(Ledger!ledgerVars)
  <2>1. StockInv' /\ TypeOK
    BY <1>2, NextStockInv DEF SettlementInv, StockInv
  <2>2. ASSUME NEW p \in Process, NEW o \in Order, CheckoutCommit(p, o)
        PROVE  [Ledger!LedgerNext]_(Ledger!ledgerVars)
    <3>1. order[o] = "NONE" /\ UNCHANGED batch
      BY <1>2, <2>2 DEF CheckoutCommit, SettlementInv, StockInv, CallsAndOrders
    <3>2. \A v \in Items(o) : /\ reservation'[o][v].status = "ACTIVE"
                              /\ reservation[o][v].status # "COMMITTED"
      BY <1>2, <2>1, <2>2, <3>1 DEF CheckoutCommit, TypeOK, SettlementInv, StockInv,
         UnplacedHoldsNothing, Items
    <3>3. \A x \in Order \ {o} : reservation'[x] = reservation[x]
      BY <2>1, <2>2, OnlyThisOrder
    <3>4. QED
      BY <1>2, <2>1, <3>1, <3>2, <3>3, TakesHold
  <2>3. ASSUME NEW p \in Process, NEW o \in Order, InitiateCommit(p, o)
        PROVE  [Ledger!LedgerNext]_(Ledger!ledgerVars)
    <3>1. UNCHANGED batch
      BY <2>3 DEF InitiateCommit
    <3>2. ASSUME NEW v \in Items(o)
          PROVE  \/ reservation'[o][v].status = reservation[o][v].status
                 \/ /\ reservation'[o][v].status = "ACTIVE"
                    /\ reservation[o][v].status # "COMMITTED"
      BY <2>1, <2>3 DEF InitiateCommit, TypeOK, Items, Reclaimable, Lapsed
    <3>3. \A x \in Order \ {o} : reservation'[x] = reservation[x]
      BY <2>1, <2>3, OnlyThisOrder
    <3>4. QED
      BY <1>2, <2>1, <3>1, <3>2, <3>3, TakesHold
  <2>4. CASE UNCHANGED <<reservation, batch>>
    <3>1. /\ LinesIn("ACTIVE")' = LinesIn("ACTIVE")
          /\ LinesIn("COMMITTED")' = LinesIn("COMMITTED")
      BY <2>4 DEF LinesIn
    <3>2. QED
      BY <2>4, <3>1, SupplyKeeps DEF Ledger!ledgerVars
  <2>5. QED
    BY <1>2, <2>2, <2>3, <2>4, FailReleases, SucceedSells, BatchRestocks, OnlyReleaseBatch,
       FourTransactions
<1>3. QED
  BY <1>1, <1>2, InitSettlement, NextSettlement, PTL DEF Spec, ImplementsLedger, Ledger!LedgerSpec
=============================================================================
