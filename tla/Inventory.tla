----------------------------- MODULE Inventory ------------------------------
(***************************************************************************)
(* InventoryService: reservations and production batches by themselves.    *)
(* Payments composes the same rows with the payment handlers, which write  *)
(* reservations with their own statements; here are the service's own      *)
(* operations, for every race of its callers.                              *)
(***************************************************************************)
EXTENDS Server, Integers, FiniteSets

CONSTANTS
    Variant,
    Order,
    Code,           \* batch codes
    BatchKey,       \* idempotency keys of batches, for recording and releasing
    Quantity,       \* quantities of reservations and batches
    NoRow,          \* the absence of a row
    MaxTime         \* bound: the clock

ASSUME InventoryAssumption == Quantity \subseteq Nat \ {0} /\ MaxTime \in Nat

VARIABLES
    stock,      \* stock[v]: onHand and reserved, or NoRow
    hold,       \* hold[h]: the reservation of h = <<order, variant>>, or NoRow
    batch,      \* batch[c]: the production batch with code c, or NoRow
    movement,   \* the inventory movements: their reference, variant and delta
    time,
    invCall,    \* invCall[p]: the request that p is serving
    invAnswers  \* the successes that were answered

invRows == <<stock, hold, batch, movement, time>>
invVars == <<invRows, invCall, invAnswers>>

Hold == Order \X Variant
RecordRequest == [key : BatchKey, code : Code, variant : Variant, quantity : Quantity]

StockRow == [onHand : Nat, reserved : Nat]
HoldRow == [quantity : Quantity, status : {"ACTIVE", "RELEASED", "EXPIRED", "COMMITTED"}, expiresAt : Nat]
BatchRow ==
    [variant : Variant, quantity : Quantity, key : BatchKey, status : {"RECORDED", "RELEASED"},
     releaseKey : BatchKey \union {NoRow}]

ASSUME NoRowIsNone == NoRow \notin StockRow \union HoldRow \union BatchRow

Ends == [release |-> "RELEASED", expire |-> "EXPIRED", commit |-> "COMMITTED"]

InvGoto(p, c) == invCall' = [invCall EXCEPT ![p] = c]
InvAnswer(answer) == invAnswers' = invAnswers \union {answer}

-----------------------------------------------------------------------------
(* Conditions of the code *)

\* The balance row that reserve's updateMany may change; onHand was read before.
ClaimsUnits(v, quantity, onHandRead) ==
    /\ stock[v] # NoRow
    /\ stock[v].onHand >= quantity
    /\ stock[v].reserved <= onHandRead - quantity

\* Constraint InventoryBalance_available.
Available(row) == 0 <= row.reserved /\ row.reserved <= row.onHand

\* What the first read of release, expire or commit must find to go on.
MayEnd(op, h) ==
    /\ hold[h].status = "ACTIVE"
    /\ op = "expire" => hold[h].expiresAt <= time
    /\ op = "commit" => hold[h].expiresAt > time

\* Mutant: the claim leaves out the status.
EndsAnyStatus(op, h) ==
    (op = "expire" => hold[h].expiresAt <= time) /\ (op = "commit" => hold[h].expiresAt > time)

\* The reservation that their updateMany may change.
EndClaims(op, h) == MayEnd(op, h)

\* A reservation that has ended answers a repetition; only commit asks how.
AlreadyEnded(op, h) ==
    IF op = "commit" THEN hold[h].status = "COMMITTED" ELSE hold[h].status # "ACTIVE"

RecordedWith(k) == {c \in Code : batch[c] # NoRow /\ batch[c].key = k}

\* Mutant: the key alone answers a repetition.
SameKeyReplay(c, r) == TRUE

\* A repetition is answered only when it asks for the batch that was recorded.
IdenticalReplay(c, r) ==
    /\ c = r.code
    /\ batch[c].variant = r.variant /\ batch[c].quantity = r.quantity

\* The batch that its updateMany may change.
ReleaseClaims(c) == batch[c].status = "RECORDED" /\ batch[c].releaseKey = NoRow

-----------------------------------------------------------------------------
InvInit ==
    /\ stock = [v \in Variant |-> NoRow]
    /\ hold = [h \in Hold |-> NoRow]
    /\ batch = [c \in Code |-> NoRow]
    /\ movement = {}
    /\ time = 0
    /\ invCall = AllIdle
    /\ invAnswers = {}

InvTick ==
    /\ time < MaxTime
    /\ time' = time + 1
    /\ UNCHANGED <<stock, hold, batch, movement, invCall, invAnswers>>

\* A refusal, an exception or the end of the process: the transaction rolls back.
InvAbandon(p) ==
    /\ invCall[p] # Idle
    /\ InvGoto(p, Idle)
    /\ UNCHANGED <<invRows, invAnswers>>

-----------------------------------------------------------------------------
(* reserve *)

ReserveRead(p, h, quantity) ==
    /\ invCall[p] = Idle
    /\ stock[h[2]] # NoRow
    /\ InvGoto(p, [pc |-> "reserve", hold |-> h, quantity |-> quantity, onHand |-> stock[h[2]].onHand,
                   expiresAt |-> time + 1])
    /\ UNCHANGED <<invRows, invAnswers>>

ReserveCommit(p) ==
    LET r == invCall[p]
        v == r.hold[2]
        row == [stock[v] EXCEPT !.reserved = @ + r.quantity]
    IN
    /\ r.pc = "reserve"
    /\ ClaimsUnits(v, r.quantity, r.onHand) /\ Available(row)
    /\ hold[r.hold] = NoRow
    /\ stock' = [stock EXCEPT ![v] = row]
    /\ hold' = [hold EXCEPT ![r.hold] = [quantity |-> r.quantity, status |-> "ACTIVE",
                                         expiresAt |-> r.expiresAt]]
    /\ InvGoto(p, Idle)
    /\ UNCHANGED <<batch, movement, time, invAnswers>>

-----------------------------------------------------------------------------
(* release, expire and commit *)

EndRead(p, op, h) ==
    /\ invCall[p] = Idle
    /\ hold[h] # NoRow /\ MayEnd(op, h)
    /\ InvGoto(p, [pc |-> op, hold |-> h])
    /\ UNCHANGED <<invRows, invAnswers>>

EndReplay(op, h) ==
    /\ hold[h] # NoRow /\ AlreadyEnded(op, h)
    /\ InvAnswer(<<op, h>>)
    /\ UNCHANGED <<invRows, invCall>>

\* The claim and the balance, in one transaction; only commit moves stock.
EndCommit(p, op, h) ==
    LET quantity == hold[h].quantity
        sold == IF op = "commit" THEN quantity ELSE 0
    IN
    /\ invCall[p] = [pc |-> op, hold |-> h]
    /\ EndClaims(op, h)
    /\ stock[h[2]].reserved >= quantity /\ stock[h[2]].onHand >= sold
    /\ hold' = [hold EXCEPT ![h] = [@ EXCEPT !.status = Ends[op]]]
    /\ stock' = [stock EXCEPT ![h[2]] = [onHand |-> @.onHand - sold, reserved |-> @.reserved - quantity]]
    /\ movement' = IF sold = 0 THEN movement
                   ELSE movement \union {[reference |-> <<op, h>>, variant |-> h[2], delta |-> -sold]}
    /\ InvGoto(p, Idle)
    /\ InvAnswer(<<op, h>>)
    /\ UNCHANGED <<batch, time>>

\* The claim changed no row: release and expire answer success all the same.
EndLost(p, op, h) ==
    /\ invCall[p] = [pc |-> op, hold |-> h]
    /\ ~EndClaims(op, h) /\ op # "commit"
    /\ InvGoto(p, Idle)
    /\ InvAnswer(<<op, h>>)
    /\ UNCHANGED invRows

-----------------------------------------------------------------------------
(* recordBatch and releaseBatch *)

RecordReplay(c, r) ==
    /\ c \in RecordedWith(r.key) /\ IdenticalReplay(c, r)
    /\ InvAnswer(<<"record", r>>)

RecordRead(p, r) ==
    /\ invCall[p] = Idle
    /\ IF RecordedWith(r.key) = {}
       THEN InvGoto(p, [pc |-> "record", request |-> r]) /\ UNCHANGED invAnswers
       ELSE UNCHANGED invCall /\ \E c \in Code : RecordReplay(c, r)
    /\ UNCHANGED invRows

\* The insert, or after a unique conflict the second look for the key.
RecordCommit(p) ==
    LET r == invCall[p].request IN
    /\ invCall[p].pc = "record"
    /\ IF batch[r.code] = NoRow /\ RecordedWith(r.key) = {}
       THEN /\ batch' = [batch EXCEPT ![r.code] =
                    [variant |-> r.variant, quantity |-> r.quantity, key |-> r.key,
                     status |-> "RECORDED", releaseKey |-> NoRow]]
            /\ InvAnswer(<<"record", r>>)
       ELSE UNCHANGED batch /\ \E c \in Code : RecordReplay(c, r)
    /\ InvGoto(p, Idle)
    /\ UNCHANGED <<stock, hold, movement, time>>

ReleaseRead(p, c, k) ==
    /\ invCall[p] = Idle
    /\ batch[c] # NoRow
    /\ IF batch[c].status = "RELEASED"
       THEN InvAnswer(<<"batch", c>>) /\ UNCHANGED invCall
       ELSE InvGoto(p, [pc |-> "releaseBatch", code |-> c, key |-> k]) /\ UNCHANGED invAnswers
    /\ UNCHANGED invRows

\* Claim, balance (made when there is none) and movement in one transaction.
\* A release key that another batch has is a unique conflict.
ReleaseCommit(p) ==
    LET c == invCall[p].code
        b == batch[c]
        row == stock[b.variant]
    IN
    /\ invCall[p].pc = "releaseBatch"
    /\ IF ReleaseClaims(c)
       THEN /\ \A d \in Code \ {c} : batch[d] # NoRow => batch[d].releaseKey # invCall[p].key
            /\ batch' = [batch EXCEPT ![c] = [@ EXCEPT !.status = "RELEASED",
                                                       !.releaseKey = invCall[p].key]]
            /\ stock' = [stock EXCEPT ![b.variant] =
                    IF row = NoRow THEN [onHand |-> b.quantity, reserved |-> 0]
                    ELSE [row EXCEPT !.onHand = @ + b.quantity]]
            /\ movement' = movement \union
                    {[reference |-> <<"batch", c>>, variant |-> b.variant, delta |-> b.quantity]}
       ELSE UNCHANGED <<batch, stock, movement>>
    /\ InvGoto(p, Idle)
    /\ InvAnswer(<<"batch", c>>)
    /\ UNCHANGED <<hold, time>>

-----------------------------------------------------------------------------
InvNext ==
    \/ InvTick
    \/ \E op \in DOMAIN Ends, h \in Hold : EndReplay(op, h)
    \/ \E p \in Process :
        \/ InvAbandon(p)
        \/ \E h \in Hold, q \in Quantity : ReserveRead(p, h, q)
        \/ ReserveCommit(p)
        \/ \E op \in DOMAIN Ends, h \in Hold :
            EndRead(p, op, h) \/ EndCommit(p, op, h) \/ EndLost(p, op, h)
        \/ \E r \in RecordRequest : RecordRead(p, r)
        \/ RecordCommit(p)
        \/ \E c \in Code, k \in BatchKey : ReleaseRead(p, c, k)
        \/ ReleaseCommit(p)

InvSpec == InvInit /\ [][InvNext]_invVars

-----------------------------------------------------------------------------
\* A quantity is a set of pieces, so that a sum is the cardinality of one set.
Pieces(quantity) == UNION {{x} \X (1 .. quantity[x]) : x \in DOMAIN quantity}

MovementsOf(v) == {m \in movement : m.variant = v}
Received(v) == Pieces([m \in MovementsOf(v) |-> m.delta])
Sold(v) == Pieces([m \in MovementsOf(v) |-> -m.delta])

ActiveHolds(v) == {h \in Hold : h[2] = v /\ hold[h] # NoRow /\ hold[h].status = "ACTIVE"}
Reserved(v) == Pieces([h \in ActiveHolds(v) |-> hold[h].quantity])

\* Each balance is what the movements say came and went, and its reserved units
\* are those of the active reservations, through any race of reservations that
\* end twice and batches that are released twice (README: movements carry unique
\* references; production batches can be released once).
BooksAgree ==
    \A v \in Variant : stock[v] # NoRow =>
        /\ Available(stock[v])
        /\ stock[v].onHand = Cardinality(Received(v)) - Cardinality(Sold(v))
        /\ stock[v].reserved = Cardinality(Reserved(v))

\* Success stays true: units answered as committed are sold and never handed
\* back, a reservation answered as released or expired holds nothing again, a
\* recorded batch is the one its key asked for, and a released one has moved.
InventoryAnswersStayTrue ==
    \A a \in invAnswers :
        CASE a[1] = "commit" -> hold[a[2]].status = "COMMITTED"
          [] a[1] \in {"release", "expire"} -> hold[a[2]].status # "ACTIVE"
          [] a[1] = "batch" -> \E m \in movement : m.reference = a
          [] OTHER -> /\ batch[a[2].code] # NoRow
                      /\ batch[a[2].code].key = a[2].key
                      /\ batch[a[2].code].variant = a[2].variant
                      /\ batch[a[2].code].quantity = a[2].quantity

\* The batch that was recorded under a key, as the request that asked for it.
RequestOf(c) == [key |-> batch[c].key, code |-> c, variant |-> batch[c].variant, quantity |-> batch[c].quantity]
RecordedAs(k) == {RequestOf(c) : c \in RecordedWith(k)}

\* The recording of batches keeps the promise of OnceOnly: one key, one batch.
RecordingsTold == {<<a[2].key, {a[2]}>> : a \in {a \in invAnswers : a[1] = "record"}}

Recordings == INSTANCE OnceOnly WITH
    Key <- BatchKey, None <- {},
    result <- [k \in BatchKey |-> RecordedAs(k)], answered <- RecordingsTold

RecordingsAreOnce == Recordings!OnceSpec
=============================================================================
