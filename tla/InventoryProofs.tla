-------------------------- MODULE InventoryProofs ---------------------------
(***************************************************************************)
(* What is proved of Inventory for every number of requests, variants,     *)
(* reservations and batches, and of the population of the catalogue,       *)
(* whose runs open the balances, for every number of runs and products.    *)
(***************************************************************************)
EXTENDS Inventory, Population, FiniteSetTheorems, TLAPS

-----------------------------------------------------------------------------
(* Reservations, batches and movements *)

EndCall == [pc : DOMAIN Ends, hold : Hold]
ReserveCall == [pc : {"reserve"}, hold : Hold, quantity : Quantity, onHand : Nat, expiresAt : Nat]
RecordCall == [pc : {"record"}, request : RecordRequest]
BatchCall == [pc : {"releaseBatch"}, code : Code, key : BatchKey]
InvCall == {Idle} \union EndCall \union ReserveCall \union RecordCall \union BatchCall

InvTypeOK ==
    /\ stock \in [Variant -> StockRow \union {NoRow}]
    /\ hold \in [Hold -> HoldRow \union {NoRow}]
    /\ batch \in [Code -> BatchRow \union {NoRow}]
    /\ time \in Nat
    /\ invCall \in [Process -> InvCall]

\* A request has read the row that it is going to change.
CallReads(c, holds, batches, t) ==
    /\ c.pc \in DOMAIN Ends => holds[c.hold] \in HoldRow
    /\ c.pc = "expire" => holds[c.hold].expiresAt <= t
    /\ c.pc = "releaseBatch" => batches[c.code] \in BatchRow

AnswerTrue(a, holds, batches, moves) ==
    \/ /\ a[1] \in DOMAIN Ends /\ a[2] \in Hold /\ holds[a[2]] \in HoldRow /\ holds[a[2]].status # "ACTIVE"
       /\ a[1] = "commit" => holds[a[2]].status = "COMMITTED"
    \/ a[1] = "batch" /\ \E m \in moves : m.reference = a
    \/ /\ a[1] = "record" /\ a[2] \in RecordRequest /\ batches[a[2].code] \in BatchRow
       /\ batches[a[2].code].key = a[2].key
       /\ batches[a[2].code].variant = a[2].variant
       /\ batches[a[2].code].quantity = a[2].quantity

SoldBy(h) == [reference |-> <<"commit", h>>, variant |-> h[2], delta |-> -hold[h].quantity]
ReceivedBy(c) == [reference |-> <<"batch", c>>, variant |-> batch[c].variant, delta |-> batch[c].quantity]

\* A movement is that of a committed reservation or of a released batch, and a
\* reservation holds units of a balance.
RowsFit ==
    /\ \A h \in Hold : hold[h] \in HoldRow => stock[h[2]] \in StockRow
    /\ \A c \in Code : batch[c] \in BatchRow /\ batch[c].status = "RELEASED" => ReceivedBy(c) \in movement
    /\ \A c \in Code : batch[c] \in BatchRow /\ batch[c].status = "RECORDED" => batch[c].releaseKey = NoRow
    /\ \A m \in movement :
        \/ \E h \in Hold : hold[h] \in HoldRow /\ hold[h].status = "COMMITTED" /\ m = SoldBy(h)
        \/ \E c \in Code : batch[c] \in BatchRow /\ batch[c].status = "RELEASED" /\ m = ReceivedBy(c)

OnHand(v) == IF stock[v] = NoRow THEN 0 ELSE stock[v].onHand
OnReserve(v) == IF stock[v] = NoRow THEN 0 ELSE stock[v].reserved

\* BooksAgree, also of a variant that has no balance yet.
Books(v) ==
    /\ IsFiniteSet(Received(v)) /\ IsFiniteSet(Sold(v)) /\ IsFiniteSet(Reserved(v))
    /\ OnHand(v) = Cardinality(Received(v)) - Cardinality(Sold(v))
    /\ OnReserve(v) = Cardinality(Reserved(v))
    /\ stock[v] # NoRow => Available(stock[v])

InvInv ==
    /\ InvTypeOK
    /\ RowsFit
    /\ \A p \in Process : CallReads(invCall[p], hold, batch, time)
    /\ \A a \in invAnswers : AnswerTrue(a, hold, batch, movement)
    /\ \A v \in Variant : Books(v)

-----------------------------------------------------------------------------
(* Sums as sets of pieces *)

LEMMA PiecesOfOne ==
    ASSUME NEW x, NEW n \in Int
    PROVE  /\ IsFiniteSet({x} \X (1 .. n))
           /\ Cardinality({x} \X (1 .. n)) = IF n > 0 THEN n ELSE 0
<1>1. IsFiniteSet({x}) /\ Cardinality({x}) = 1
  BY FS_Singleton
<1>2. IsFiniteSet(1 .. n) /\ Cardinality(1 .. n) = IF 1 > n THEN 0 ELSE n - 1 + 1
  BY FS_Interval
<1>3. Cardinality(1 .. n) = IF n > 0 THEN n ELSE 0
  BY <1>2
<1>4. IsFiniteSet({x} \X (1 .. n)) /\ Cardinality({x} \X (1 .. n)) = Cardinality({x}) * Cardinality(1 .. n)
  BY <1>1, <1>2, FS_Product
<1>5. QED
  BY <1>1, <1>3, <1>4

\* A sum with one more summand; either of the two sums is known to be finite.
LEMMA PiecesAdd ==
    ASSUME NEW q, NEW r, NEW x, x \notin DOMAIN q, DOMAIN r = DOMAIN q \union {x}, r[x] \in Int,
           \A y \in DOMAIN q : r[y] = q[y],
           IsFiniteSet(Pieces(q)) \/ IsFiniteSet(Pieces(r))
    PROVE  /\ IsFiniteSet(Pieces(q)) /\ IsFiniteSet(Pieces(r))
           /\ Cardinality(Pieces(q)) \in Nat /\ Cardinality(Pieces(r)) \in Nat
           /\ Cardinality(Pieces(r)) = Cardinality(Pieces(q)) + IF r[x] > 0 THEN r[x] ELSE 0
<1> DEFINE one == {x} \X (1 .. r[x])
<1>1. Pieces(r) = Pieces(q) \union one
  <2>1. ASSUME NEW u \in Pieces(r) PROVE u \in Pieces(q) \union one
    <3>1. PICK y \in DOMAIN r : u \in {y} \X (1 .. r[y])
      BY <2>1 DEF Pieces
    <3>2. CASE y = x
      BY <3>1, <3>2
    <3>3. CASE y \in DOMAIN q
      BY <3>1, <3>3 DEF Pieces
    <3>4. QED
      BY <3>1, <3>2, <3>3
  <2>2. Pieces(q) \subseteq Pieces(r)
    BY DEF Pieces
  <2>3. one \subseteq Pieces(r)
    BY DEF Pieces
  <2>4. QED
    BY <2>1, <2>2, <2>3
<1>2. Pieces(q) \intersect one = {}
  BY DEF Pieces
<1>3. IsFiniteSet(one) /\ Cardinality(one) = IF r[x] > 0 THEN r[x] ELSE 0
  BY PiecesOfOne
<1> HIDE DEF one
<1>4. IsFiniteSet(Pieces(q))
  BY <1>1, FS_Subset
<1>5. IsFiniteSet(Pieces(r)) /\ Cardinality(Pieces(r)) = Cardinality(Pieces(q)) + Cardinality(one) - Cardinality({})
  BY <1>1, <1>2, <1>3, <1>4, FS_Union
<1>6. Cardinality({}) = 0 /\ Cardinality(Pieces(q)) \in Nat /\ Cardinality(Pieces(r)) \in Nat
  BY <1>4, <1>5, FS_EmptySet, FS_CardinalityType
<1>7. QED
  BY <1>3, <1>4, <1>5, <1>6

-----------------------------------------------------------------------------
LEMMA InvCallFields ==
    ASSUME NEW c \in InvCall
    PROVE  /\ c.pc = "reserve" => c \in ReserveCall
           /\ c.pc = "record" => c \in RecordCall
           /\ c.pc = "releaseBatch" => c \in BatchCall
           /\ c.pc \in DOMAIN Ends => c \in EndCall
           /\ Idle \in InvCall /\ Idle.pc = "idle"
BY DEF InvCall, EndCall, ReserveCall, RecordCall, BatchCall, Idle, Ends

LEMMA InvInitHolds == InvInit => InvInv
<1> SUFFICES ASSUME InvInit PROVE InvInv
  OBVIOUS
<1>1. InvTypeOK
  BY DEF InvInit, InvTypeOK, InvCall, AllIdle
<1>2. RowsFit
  BY NoRowIsNone DEF InvInit, RowsFit
<1>3. ASSUME NEW p \in Process PROVE CallReads(invCall[p], hold, batch, time)
  BY DEF InvInit, AllIdle, Idle, CallReads, Ends
<1>4. ASSUME NEW v \in Variant PROVE Books(v)
  <2>1. Received(v) = {} /\ Sold(v) = {} /\ Reserved(v) = {}
    BY DEF InvInit, Received, Sold, Reserved, Pieces, MovementsOf, ActiveHolds
  <2>2. QED
    BY <2>1, FS_EmptySet DEF InvInit, Books, OnHand, OnReserve
<1>5. QED
  BY <1>1, <1>2, <1>3, <1>4 DEF InvInit, InvInv

\* What rows never lose.
Grown(rows, later) ==
    \A h \in Hold : rows[h] \in HoldRow =>
        /\ later[h] \in HoldRow /\ later[h].expiresAt = rows[h].expiresAt
        /\ rows[h].status # "ACTIVE" => later[h].status = rows[h].status

Kept(rows, later) ==
    \A c \in Code : rows[c] \in BatchRow =>
        /\ later[c] \in BatchRow /\ later[c].key = rows[c].key
        /\ later[c].variant = rows[c].variant /\ later[c].quantity = rows[c].quantity

LEMMA GrownIsReflexive ==
    /\ \A rows : Grown(rows, rows)
    /\ \A rows : Kept(rows, rows)
BY DEF Grown, Kept

\* What was read and what was answered stay true as the rows grow.
LEMMA ReadsStay ==
    ASSUME NEW c \in InvCall, NEW holds, NEW holds2, NEW batches, NEW batches2, NEW t \in Nat, NEW later \in Nat,
           CallReads(c, holds, batches, t), Grown(holds, holds2), Kept(batches, batches2), t <= later
    PROVE  CallReads(c, holds2, batches2, later)
<1>1. ASSUME c.pc \in DOMAIN Ends PROVE c.hold \in Hold /\ holds2[c.hold] \in HoldRow
  BY <1>1, InvCallFields DEF CallReads, Grown, EndCall
<1>2. ASSUME c.pc = "expire" PROVE holds2[c.hold].expiresAt <= later
  <2>1. c.pc \in DOMAIN Ends
    BY <1>2 DEF Ends
  <2>2. c.hold \in Hold /\ holds[c.hold] \in HoldRow
    BY <2>1, InvCallFields DEF CallReads, EndCall
  <2>3. holds2[c.hold].expiresAt = holds[c.hold].expiresAt /\ holds[c.hold].expiresAt \in Nat
    BY <2>2 DEF Grown, HoldRow
  <2>4. QED
    BY <1>2, <2>3 DEF CallReads
<1>3. ASSUME c.pc = "releaseBatch" PROVE batches2[c.code] \in BatchRow
  BY <1>3, InvCallFields DEF CallReads, Kept, BatchCall
<1>4. QED
  BY <1>1, <1>2, <1>3 DEF CallReads

LEMMA AnswersStay ==
    ASSUME NEW a, NEW holds, NEW holds2, NEW batches, NEW batches2, NEW moves, NEW moves2,
           AnswerTrue(a, holds, batches, moves), Grown(holds, holds2), Kept(batches, batches2), moves \subseteq moves2
    PROVE  AnswerTrue(a, holds2, batches2, moves2)
<1>1. CASE a[1] \in DOMAIN Ends /\ a[2] \in Hold /\ holds[a[2]] \in HoldRow /\ holds[a[2]].status # "ACTIVE"
           /\ (a[1] = "commit" => holds[a[2]].status = "COMMITTED")
  BY <1>1 DEF AnswerTrue, Grown
<1>2. CASE a[1] = "batch" /\ \E m \in moves : m.reference = a
  BY <1>2 DEF AnswerTrue
<1>3. CASE /\ a[1] = "record" /\ a[2] \in RecordRequest /\ batches[a[2].code] \in BatchRow
           /\ batches[a[2].code].key = a[2].key
           /\ batches[a[2].code].variant = a[2].variant
           /\ batches[a[2].code].quantity = a[2].quantity
  <2>1. a[2].code \in Code
    BY <1>3 DEF RecordRequest
  <2>2. QED
    BY <1>3, <2>1 DEF AnswerTrue, Kept
<1>4. QED
  BY <1>1, <1>2, <1>3 DEF AnswerTrue

\* A step of one request p: its rows, its next record and what it answers.
LEMMA RequestStep ==
    ASSUME InvInv, NEW p, NEW c \in InvCall, InvGoto(p, c),
           InvTypeOK', RowsFit', \A v \in Variant : Books(v)',
           CallReads(c, hold', batch', time'),
           Grown(hold, hold'), Kept(batch, batch'), movement \subseteq movement', UNCHANGED time,
           \A a \in invAnswers' \ invAnswers : AnswerTrue(a, hold', batch', movement')
    PROVE  InvInv'
<1>1. time \in Nat /\ time' = time /\ time <= time
  BY DEF InvInv, InvTypeOK
<1>2. ASSUME NEW q \in Process PROVE CallReads(invCall'[q], hold', batch', time')
  <2>1. CASE q = p
    BY <2>1 DEF InvGoto, InvInv, InvTypeOK
  <2>2. CASE q # p
    <3>1. invCall'[q] = invCall[q] /\ invCall[q] \in InvCall
      BY <2>2 DEF InvGoto, InvInv, InvTypeOK
    <3>2. CallReads(invCall[q], hold, batch, time)
      BY DEF InvInv
    <3>3. QED
      BY <1>1, <3>1, <3>2, ReadsStay
  <2>3. QED
    BY <2>1, <2>2
<1>3. ASSUME NEW a \in invAnswers' PROVE AnswerTrue(a, hold', batch', movement')
  <2>1. CASE a \in invAnswers
    BY <2>1, AnswersStay DEF InvInv
  <2>2. QED
    BY <2>1
<1>4. QED
  BY <1>2, <1>3 DEF InvInv

\* A step that changes no row.
LEMMA QuietStep ==
    ASSUME InvInv, NEW p, NEW c \in InvCall, InvGoto(p, c), UNCHANGED invRows, CallReads(c, hold, batch, time),
           \A a \in invAnswers' \ invAnswers : AnswerTrue(a, hold, batch, movement)
    PROVE  InvInv'
<1>1. /\ stock' = stock /\ hold' = hold /\ batch' = batch /\ movement' = movement /\ time' = time
  BY DEF invRows
<1>2. InvTypeOK'
  BY <1>1 DEF InvInv, InvTypeOK, InvGoto
<1>3. RowsFit'
  BY <1>1 DEF InvInv, RowsFit, SoldBy, ReceivedBy
<1>4. ASSUME NEW v \in Variant PROVE Books(v)'
  BY <1>1 DEF InvInv, Books, OnHand, OnReserve, Received, Sold, Reserved, MovementsOf, ActiveHolds
<1>5. QED
  BY <1>1, <1>2, <1>3, <1>4, RequestStep, GrownIsReflexive

-----------------------------------------------------------------------------
LEMMA TickHolds ==
    ASSUME InvInv, InvTick
    PROVE  InvInv'
<1>1. /\ stock' = stock /\ hold' = hold /\ batch' = batch /\ movement' = movement
      /\ invCall' = invCall /\ invAnswers' = invAnswers /\ time' = time + 1
  BY DEF InvTick
<1>2. time \in Nat /\ time' \in Nat /\ time <= time'
  BY <1>1 DEF InvInv, InvTypeOK
<1>3. InvTypeOK'
  BY <1>1, <1>2 DEF InvInv, InvTypeOK
<1>4. RowsFit'
  BY <1>1 DEF InvInv, RowsFit, SoldBy, ReceivedBy
<1>5. ASSUME NEW p \in Process PROVE CallReads(invCall'[p], hold', batch', time')
  <2>1. invCall[p] \in InvCall /\ CallReads(invCall[p], hold, batch, time)
    BY DEF InvInv, InvTypeOK
  <2>2. QED
    BY <1>1, <1>2, <2>1, ReadsStay, GrownIsReflexive
<1>6. ASSUME NEW v \in Variant PROVE Books(v)'
  BY <1>1 DEF InvInv, Books, OnHand, OnReserve, Received, Sold, Reserved, MovementsOf, ActiveHolds
<1>7. \A a \in invAnswers' : AnswerTrue(a, hold', batch', movement')
  BY <1>1 DEF InvInv
<1>8. QED
  BY <1>3, <1>4, <1>5, <1>6, <1>7 DEF InvInv

LEMMA ReserveCommitHolds ==
    ASSUME InvInv, NEW p \in Process, ReserveCommit(p)
    PROVE  InvInv'
<1>1. PICK r : r = invCall[p] /\ r.pc = "reserve"
  BY DEF ReserveCommit
<1>2. r.hold \in Hold /\ r.quantity \in Quantity /\ r.expiresAt \in Nat /\ r.onHand \in Nat
  <2>1. r \in InvCall
    BY <1>1 DEF InvInv, InvTypeOK
  <2>2. QED
    BY <1>1, <2>1, InvCallFields DEF ReserveCall
<1>3. PICK h, v : h = r.hold /\ v = h[2] /\ h \in Hold /\ v \in Variant
  BY <1>2 DEF Hold
<1>4. r.quantity \in Nat /\ r.quantity > 0
  <2>1. \A n \in Quantity : n \in Nat /\ n # 0
    BY InventoryAssumption
  <2>2. \A n \in Nat : n # 0 => n > 0
    OBVIOUS
  <2>3. QED
    BY <1>2, <2>1, <2>2
<1>5. stock[v] \in StockRow /\ stock[v].onHand \in Nat /\ stock[v].reserved \in Nat
  BY <1>1, <1>3 DEF ReserveCommit, ClaimsUnits, InvInv, InvTypeOK, StockRow
<1>6. PICK row : /\ row = [onHand |-> stock[v].onHand, reserved |-> stock[v].reserved + r.quantity]
                 /\ stock' = [stock EXCEPT ![v] = row] /\ Available(row)
  <2>1. PICK next : /\ next = [stock[v] EXCEPT !.reserved = stock[v].reserved + r.quantity]
                    /\ stock' = [stock EXCEPT ![v] = next] /\ Available(next)
    BY <1>1, <1>3 DEF ReserveCommit
  <2>2. next = [onHand |-> stock[v].onHand, reserved |-> stock[v].reserved + r.quantity]
    BY <1>5, <2>1 DEF StockRow
  <2>3. QED
    BY <2>1, <2>2
<1>7. row \in StockRow /\ row # NoRow /\ stock[v] # NoRow
  BY <1>4, <1>5, <1>6, NoRowIsNone DEF StockRow
<1>8. PICK held : /\ held = [quantity |-> r.quantity, status |-> "ACTIVE", expiresAt |-> r.expiresAt]
                  /\ hold' = [hold EXCEPT ![h] = held]
  BY <1>1, <1>3 DEF ReserveCommit
<1>9. held \in HoldRow /\ held # NoRow /\ hold[h] = NoRow /\ held.status = "ACTIVE" /\ held.quantity = r.quantity
  BY <1>1, <1>2, <1>3, <1>8, NoRowIsNone DEF HoldRow, ReserveCommit
<1>10. UNCHANGED <<batch, movement, time, invAnswers>> /\ InvGoto(p, Idle)
  BY DEF ReserveCommit
<1>11. /\ \A w \in Variant : stock'[w] = IF w = v THEN row ELSE stock[w]
       /\ \A g \in Hold : hold'[g] = IF g = h THEN held ELSE hold[g]
  BY <1>3, <1>6, <1>8 DEF InvInv, InvTypeOK
<1>12. InvTypeOK'
  BY <1>6, <1>7, <1>8, <1>9, <1>10, InvCallFields DEF InvInv, InvTypeOK, InvGoto, InvCall
<1>13. Grown(hold, hold')
  BY <1>9, <1>11, NoRowIsNone DEF Grown
<1>14. RowsFit'
  <2>1. ASSUME NEW g \in Hold, hold'[g] \in HoldRow PROVE stock'[g[2]] \in StockRow
    <3>1. g[2] \in Variant
      BY DEF Hold
    <3>2. CASE g = h
      BY <1>3, <1>7, <1>11, <3>2
    <3>3. CASE g # h
      <4>1. stock[g[2]] \in StockRow
        BY <1>11, <2>1, <3>3 DEF InvInv, RowsFit
      <4>2. QED
        BY <1>7, <1>11, <3>1, <4>1
    <3>4. QED
      BY <3>2, <3>3
  <2>2. ASSUME NEW m \in movement, NEW g \in Hold, hold[g] \in HoldRow, hold[g].status = "COMMITTED", m = SoldBy(g)
        PROVE  hold'[g] \in HoldRow /\ hold'[g].status = "COMMITTED" /\ m = SoldBy(g)'
    <3>1. hold'[g] = hold[g]
      BY <1>9, <1>11, <2>2, NoRowIsNone
    <3>2. QED
      BY <2>2, <3>1 DEF SoldBy
  <2>3. \A c \in Code : ReceivedBy(c)' = ReceivedBy(c)
    BY <1>10 DEF ReceivedBy
  <2>4. QED
    BY <1>10, <2>1, <2>2, <2>3 DEF InvInv, RowsFit
<1>15. ASSUME NEW w \in Variant PROVE Books(w)'
  <2>1. Received(w)' = Received(w) /\ Sold(w)' = Sold(w) /\ Books(w)
    BY <1>10 DEF Received, Sold, MovementsOf, InvInv
  <2>2. CASE w # v
    <3>1. stock'[w] = stock[w] /\ ActiveHolds(w)' = ActiveHolds(w)
      BY <1>3, <1>11, <2>2 DEF ActiveHolds
    <3>2. \A g \in ActiveHolds(w) : hold'[g] = hold[g]
      BY <1>3, <1>11, <2>2 DEF ActiveHolds
    <3>3. Reserved(w)' = Reserved(w)
      BY <3>1, <3>2 DEF Reserved
    <3>4. QED
      BY <2>1, <3>1, <3>3 DEF Books, OnHand, OnReserve
  <2>3. CASE w = v
    <3> DEFINE before == [g \in ActiveHolds(v) |-> hold[g].quantity]
               after == [g \in ActiveHolds(v)' |-> hold'[g].quantity]
    <3>1. ActiveHolds(v)' = ActiveHolds(v) \union {h} /\ h \notin ActiveHolds(v)
      BY <1>3, <1>9, <1>11 DEF ActiveHolds
    <3>2. Reserved(v) = Pieces(before) /\ Reserved(v)' = Pieces(after)
      BY DEF Reserved
    <3>3. DOMAIN before = ActiveHolds(v) /\ DOMAIN after = ActiveHolds(v) \union {h}
      BY <3>1
    <3>4. after[h] = r.quantity /\ after[h] \in Int
      BY <1>3, <1>4, <1>9, <1>11, <3>1
    <3>5. \A g \in ActiveHolds(v) : after[g] = before[g]
      BY <1>11, <3>1 DEF ActiveHolds
    <3>6. IsFiniteSet(Reserved(v)) /\ stock[v].reserved = Cardinality(Reserved(v))
      BY <1>7, <2>1, <2>3 DEF Books, OnReserve
    <3> HIDE DEF before, after
    <3>7. IsFiniteSet(Reserved(v)') /\ Cardinality(Reserved(v)') = Cardinality(Reserved(v)) + r.quantity
      BY <1>4, <3>1, <3>2, <3>3, <3>4, <3>5, <3>6, PiecesAdd
    <3>8. stock'[v] = row
      BY <1>11, <1>3
    <3>9. QED
      BY <1>6, <1>7, <2>1, <2>3, <3>6, <3>7, <3>8 DEF Books, OnHand, OnReserve
  <2>4. QED
    BY <2>2, <2>3
<1>16. CallReads(Idle, hold', batch', time') /\ Idle \in InvCall
  BY InvCallFields DEF CallReads, Idle, InvCall, Ends
<1>17. QED
  BY <1>10, <1>12, <1>13, <1>14, <1>15, <1>16, GrownIsReflexive, RequestStep

LEMMA QuietRequests ==
    ASSUME InvInv, NEW p \in Process,
           \/ InvAbandon(p)
           \/ \E h \in Hold, q \in Quantity : ReserveRead(p, h, q)
           \/ \E c \in Code, k \in BatchKey : ReleaseRead(p, c, k)
           \/ \E r \in RecordRequest : RecordRead(p, r)
           \/ \E op \in DOMAIN Ends, h \in Hold : EndRead(p, op, h) \/ EndLost(p, op, h)
    PROVE  InvInv'
<1>1. /\ Idle \in InvCall /\ CallReads(Idle, hold, batch, time)
      /\ invCall[p] \in InvCall /\ CallReads(invCall[p], hold, batch, time)
      /\ DOMAIN Ends = {"release", "expire", "commit"}
  BY InvCallFields DEF CallReads, Idle, InvCall, Ends, InvInv, InvTypeOK
<1>2. ASSUME NEW c \in InvCall, CallReads(c, hold, batch, time), InvGoto(p, c), UNCHANGED <<invRows, invAnswers>>
      PROVE  InvInv'
  BY <1>2, QuietStep
<1>3. CASE InvAbandon(p)
  BY <1>1, <1>2, <1>3 DEF InvAbandon
<1>4. ASSUME NEW h \in Hold, NEW q \in Quantity, ReserveRead(p, h, q) PROVE InvInv'
  <2>1. PICK c : /\ InvGoto(p, c)
                 /\ c = [pc |-> "reserve", hold |-> h, quantity |-> q, onHand |-> stock[h[2]].onHand,
                         expiresAt |-> time + 1]
    BY <1>4 DEF ReserveRead
  <2>2. h[2] \in Variant
    BY DEF Hold
  <2>3. stock[h[2]].onHand \in Nat /\ time + 1 \in Nat
    BY <1>4, <2>2 DEF ReserveRead, InvInv, InvTypeOK, StockRow
  <2>4. c \in ReserveCall
    BY <2>1, <2>3 DEF ReserveCall
  <2>5. c \in InvCall /\ CallReads(c, hold, batch, time)
    BY <1>1, <2>1, <2>4 DEF InvCall, CallReads
  <2>6. QED
    BY <1>2, <1>4, <2>1, <2>5 DEF ReserveRead
<1>5. ASSUME NEW c \in Code, NEW k \in BatchKey, ReleaseRead(p, c, k) PROVE InvInv'
  <2>1. batch[c] \in BatchRow
    BY <1>5 DEF ReleaseRead, InvInv, InvTypeOK
  <2>2. CASE batch[c].status = "RELEASED"
    <3>1. ReceivedBy(c) \in movement /\ ReceivedBy(c).reference = <<"batch", c>>
      BY <2>1, <2>2 DEF InvInv, RowsFit, ReceivedBy
    <3>2. AnswerTrue(<<"batch", c>>, hold, batch, movement)
      BY <3>1 DEF AnswerTrue
    <3>3. InvGoto(p, invCall[p])
      BY <1>5, <2>2 DEF ReleaseRead, InvGoto, InvInv, InvTypeOK
    <3>4. \A a \in invAnswers' \ invAnswers : a = <<"batch", c>>
      BY <1>5, <2>2 DEF ReleaseRead, InvAnswer
    <3>5. QED
      BY <1>1, <1>5, <3>2, <3>3, <3>4, QuietStep DEF ReleaseRead
  <2>3. CASE batch[c].status # "RELEASED"
    <3>1. PICK d : d = [pc |-> "releaseBatch", code |-> c, key |-> k] /\ InvGoto(p, d)
      BY <1>5, <2>3 DEF ReleaseRead
    <3>2. d \in BatchCall
      BY <3>1 DEF BatchCall
    <3>3. d \in InvCall /\ CallReads(d, hold, batch, time)
      BY <1>1, <2>1, <3>1, <3>2 DEF InvCall, CallReads
    <3>4. QED
      BY <1>2, <1>5, <2>3, <3>1, <3>3 DEF ReleaseRead
  <2>4. QED
    BY <2>2, <2>3
<1>6. ASSUME NEW r \in RecordRequest, RecordRead(p, r) PROVE InvInv'
  <2>1. CASE RecordedWith(r.key) = {}
    <3>1. PICK d : d = [pc |-> "record", request |-> r] /\ InvGoto(p, d)
      BY <1>6, <2>1 DEF RecordRead
    <3>2. d \in RecordCall
      BY <3>1 DEF RecordCall
    <3>3. d \in InvCall /\ CallReads(d, hold, batch, time)
      BY <1>1, <3>1, <3>2 DEF InvCall, CallReads
    <3>4. QED
      BY <1>2, <1>6, <2>1, <3>1, <3>3 DEF RecordRead
  <2>2. CASE RecordedWith(r.key) # {}
    <3>1. PICK c \in Code : RecordReplay(c, r)
      BY <1>6, <2>2 DEF RecordRead
    <3>2. /\ r.code = c /\ batch[c] \in BatchRow /\ batch[c].key = r.key
          /\ batch[c].variant = r.variant /\ batch[c].quantity = r.quantity
      BY <3>1 DEF RecordReplay, RecordedWith, IdenticalReplay, InvInv, InvTypeOK
    <3>3. AnswerTrue(<<"record", r>>, hold, batch, movement)
      BY <3>2 DEF AnswerTrue
    <3>4. InvGoto(p, invCall[p]) /\ UNCHANGED invRows
      BY <1>6, <2>2 DEF RecordRead, InvGoto, InvInv, InvTypeOK
    <3>5. \A a \in invAnswers' \ invAnswers : a = <<"record", r>>
      BY <3>1 DEF RecordReplay, InvAnswer
    <3>6. QED
      BY <1>1, <3>3, <3>4, <3>5, QuietStep
  <2>3. QED
    BY <2>1, <2>2
<1>7. ASSUME NEW op \in DOMAIN Ends, NEW h \in Hold, EndRead(p, op, h) PROVE InvInv'
  <2>1. PICK c : c = [pc |-> op, hold |-> h] /\ InvGoto(p, c)
    BY <1>7 DEF EndRead
  <2>2. c \in EndCall
    BY <2>1 DEF EndCall
  <2>3. hold[h] \in HoldRow /\ (op = "expire" => hold[h].expiresAt <= time)
    BY <1>7 DEF EndRead, MayEnd, InvInv, InvTypeOK
  <2>4. c \in InvCall /\ CallReads(c, hold, batch, time)
    BY <1>1, <2>1, <2>2, <2>3 DEF InvCall, CallReads
  <2>5. QED
    BY <1>2, <1>7, <2>1, <2>4 DEF EndRead
<1>8. ASSUME NEW op \in DOMAIN Ends, NEW h \in Hold, EndLost(p, op, h) PROVE InvInv'
  <2>1. /\ hold[h] \in HoldRow /\ (op = "expire" => hold[h].expiresAt <= time)
        /\ op # "commit" /\ ~MayEnd(op, h)
    BY <1>1, <1>8 DEF EndLost, CallReads, EndClaims
  <2>2. hold[h].status # "ACTIVE"
    BY <2>1 DEF MayEnd
  <2>3. AnswerTrue(<<op, h>>, hold, batch, movement)
    BY <2>1, <2>2 DEF AnswerTrue
  <2>4. \A a \in invAnswers' \ invAnswers : a = <<op, h>>
    BY <1>8 DEF EndLost, InvAnswer
  <2>5. QED
    BY <1>1, <1>8, <2>3, <2>4, QuietStep DEF EndLost
<1>9. QED
  BY <1>3, <1>4, <1>5, <1>6, <1>7, <1>8

LEMMA EndReplayHolds ==
    ASSUME InvInv, NEW op \in DOMAIN Ends, NEW h \in Hold, EndReplay(op, h)
    PROVE  InvInv'
<1>1. hold[h] \in HoldRow
  BY DEF EndReplay, InvInv, InvTypeOK
<1>2. AnswerTrue(<<op, h>>, hold, batch, movement)
  BY <1>1 DEF EndReplay, AlreadyEnded, AnswerTrue
<1>3. /\ stock' = stock /\ hold' = hold /\ batch' = batch /\ movement' = movement /\ time' = time
      /\ invCall' = invCall /\ invAnswers' = invAnswers \union {<<op, h>>}
  BY DEF EndReplay, invRows, InvAnswer
<1>4. InvTypeOK' /\ RowsFit'
  BY <1>3 DEF InvInv, InvTypeOK, RowsFit, SoldBy, ReceivedBy
<1>5. ASSUME NEW v \in Variant PROVE Books(v)'
  BY <1>3 DEF InvInv, Books, OnHand, OnReserve, Received, Sold, Reserved, MovementsOf, ActiveHolds
<1>6. \A p \in Process : CallReads(invCall'[p], hold', batch', time')
  BY <1>3 DEF InvInv
<1>7. \A a \in invAnswers' : AnswerTrue(a, hold', batch', movement')
  BY <1>2, <1>3 DEF InvInv
<1>8. QED
  BY <1>4, <1>5, <1>6, <1>7 DEF InvInv

\* A reservation that ends gives its units back, and a commit takes them away.
LEMMA EndCommitBooks ==
    ASSUME InvInv, NEW p \in Process, NEW op \in DOMAIN Ends, NEW h \in Hold, EndCommit(p, op, h),
           NEW v \in Variant
    PROVE  Books(v)'
<1> DEFINE quantity == hold[h].quantity
           sold == IF op = "commit" THEN quantity ELSE 0
           moved == [reference |-> <<op, h>>, variant |-> h[2], delta |-> -sold]
<1>1. op \in {"release", "expire", "commit"} /\ h[2] \in Variant
  BY DEF Ends, Hold
<1>2. hold[h] \in HoldRow /\ hold[h].status = "ACTIVE"
  BY DEF EndCommit, EndClaims, MayEnd, CallReads, InvInv
<1>3. quantity \in Nat /\ quantity > 0 /\ sold \in Nat
  <2>1. quantity \in Quantity
    BY <1>2 DEF HoldRow
  <2>2. \A n \in Quantity : n \in Nat /\ n # 0
    BY InventoryAssumption
  <2>3. \A n \in Nat : n # 0 => n > 0
    OBVIOUS
  <2>4. QED
    BY <2>1, <2>2, <2>3
<1>4. stock[h[2]] \in StockRow /\ stock[h[2]] # NoRow
  BY <1>2, NoRowIsNone DEF InvInv, RowsFit
<1>5. PICK row : /\ row = [onHand |-> stock[h[2]].onHand - sold, reserved |-> stock[h[2]].reserved - quantity]
                 /\ stock' = [stock EXCEPT ![h[2]] = row]
  BY DEF EndCommit
<1>6. /\ stock[h[2]].onHand \in Nat /\ stock[h[2]].reserved \in Nat
      /\ stock[h[2]].reserved >= quantity /\ stock[h[2]].onHand >= sold
  BY <1>4 DEF EndCommit, StockRow
<1>7. row \in StockRow /\ row # NoRow
  BY <1>3, <1>5, <1>6, NoRowIsNone DEF StockRow
<1>8. PICK ended : ended = [hold[h] EXCEPT !.status = Ends[op]] /\ hold' = [hold EXCEPT ![h] = ended]
  BY DEF EndCommit
<1>9. ended.status # "ACTIVE"
  BY <1>1, <1>2, <1>8 DEF HoldRow, Ends
<1>10. /\ \A w \in Variant : stock'[w] = IF w = h[2] THEN row ELSE stock[w]
       /\ \A g \in Hold : hold'[g] = IF g = h THEN ended ELSE hold[g]
       /\ movement' = IF op = "commit" THEN movement \union {moved} ELSE movement
  <2>1. movement' = IF sold = 0 THEN movement ELSE movement \union {moved}
    BY DEF EndCommit
  <2>2. sold = 0 <=> op # "commit"
    BY <1>3
  <2>3. QED
    BY <1>1, <1>5, <1>8, <2>1, <2>2 DEF InvInv, InvTypeOK
<1>11. Books(v)
  BY DEF InvInv
<1>12. CASE v # h[2]
  <2>1. stock'[v] = stock[v] /\ ActiveHolds(v)' = ActiveHolds(v)
    BY <1>10, <1>12 DEF ActiveHolds
  <2>2. \A g \in ActiveHolds(v) : hold'[g] = hold[g]
    BY <1>10, <1>12 DEF ActiveHolds
  <2>3. Reserved(v)' = Reserved(v)
    BY <2>1, <2>2 DEF Reserved
  <2>4. MovementsOf(v)' = MovementsOf(v)
    BY <1>10, <1>12 DEF MovementsOf
  <2>5. Received(v)' = Received(v) /\ Sold(v)' = Sold(v)
    BY <2>4 DEF Received, Sold
  <2>6. QED
    BY <1>11, <2>1, <2>3, <2>5 DEF Books, OnHand, OnReserve
<1>13. CASE v = h[2]
  <2>1. stock'[v] = row
    BY <1>10, <1>13
  <2>2. IsFiniteSet(Reserved(v)') /\ Cardinality(Reserved(v)') = stock[v].reserved - quantity
    <3> DEFINE before == [g \in ActiveHolds(v) |-> hold[g].quantity]
               after == [g \in ActiveHolds(v)' |-> hold'[g].quantity]
    <3>1. ActiveHolds(v) = ActiveHolds(v)' \union {h} /\ h \notin ActiveHolds(v)'
      BY <1>2, <1>9, <1>10, <1>13, NoRowIsNone DEF ActiveHolds
    <3>2. Reserved(v) = Pieces(before) /\ Reserved(v)' = Pieces(after)
      BY DEF Reserved
    <3>3. DOMAIN before = ActiveHolds(v)' \union {h} /\ DOMAIN after = ActiveHolds(v)'
      BY <3>1
    <3>4. before[h] = quantity /\ before[h] \in Int
      BY <1>3, <3>1
    <3>5. \A g \in ActiveHolds(v)' : before[g] = after[g]
      BY <1>10, <3>1 DEF ActiveHolds
    <3>6. IsFiniteSet(Pieces(before)) /\ stock[v].reserved = Cardinality(Pieces(before))
      BY <1>4, <1>11, <1>13, <3>2 DEF Books, OnReserve
    <3> HIDE DEF before, after, quantity
    <3>7. /\ IsFiniteSet(Pieces(after)) /\ Cardinality(Pieces(after)) \in Nat
          /\ Cardinality(Pieces(before)) = Cardinality(Pieces(after)) + quantity
      BY <1>3, <3>1, <3>3, <3>4, <3>5, <3>6, PiecesAdd
    <3>8. QED
      BY <1>3, <3>2, <3>6, <3>7
  <2>3. /\ IsFiniteSet(Received(v)') /\ IsFiniteSet(Sold(v)')
        /\ Cardinality(Received(v)') - Cardinality(Sold(v)') = stock[v].onHand - sold
    <3>1. /\ IsFiniteSet(Received(v)) /\ IsFiniteSet(Sold(v))
          /\ stock[v].onHand = Cardinality(Received(v)) - Cardinality(Sold(v))
      BY <1>4, <1>11, <1>13 DEF Books, OnHand
    <3>2. CASE op # "commit"
      <4>1. MovementsOf(v)' = MovementsOf(v) /\ sold = 0
        BY <1>10, <3>2 DEF MovementsOf
      <4>2. Received(v)' = Received(v) /\ Sold(v)' = Sold(v)
        BY <4>1 DEF Received, Sold
      <4>3. QED
        BY <1>6, <1>13, <3>1, <4>1, <4>2
    <3>3. CASE op = "commit"
      <4> DEFINE in == [m \in MovementsOf(v) |-> m.delta]
                 out == [m \in MovementsOf(v) |-> -m.delta]
                 in2 == [m \in MovementsOf(v)' |-> m.delta]
                 out2 == [m \in MovementsOf(v)' |-> -m.delta]
      <4>1. moved.reference = <<"commit", h>> /\ moved.delta = -quantity /\ moved.variant = v /\ sold = quantity
        BY <1>13, <3>3
      <4>2. moved \notin movement
        <5> SUFFICES ASSUME moved \in movement PROVE FALSE
          OBVIOUS
        <5>1. \A g \in Hold : hold[g].status = "COMMITTED" => g # h
          BY <1>2
        <5>2. \A g \in Hold : moved = SoldBy(g) => g = h
          BY <4>1 DEF SoldBy
        <5>3. \A c \in Code : moved # ReceivedBy(c)
          BY <4>1 DEF ReceivedBy
        <5>4. QED
          BY <5>1, <5>2, <5>3 DEF InvInv, RowsFit
      <4>3. MovementsOf(v)' = MovementsOf(v) \union {moved} /\ moved \notin MovementsOf(v)
        BY <1>10, <3>3, <4>1, <4>2 DEF MovementsOf
      <4>4. /\ Received(v) = Pieces(in) /\ Received(v)' = Pieces(in2)
            /\ Sold(v) = Pieces(out) /\ Sold(v)' = Pieces(out2)
        BY DEF Received, Sold
      <4>5. /\ DOMAIN in = MovementsOf(v) /\ DOMAIN in2 = MovementsOf(v) \union {moved}
            /\ DOMAIN out = MovementsOf(v) /\ DOMAIN out2 = MovementsOf(v) \union {moved}
        BY <4>3
      <4>6. /\ in2[moved] = -quantity /\ in2[moved] \in Int /\ ~(in2[moved] > 0)
            /\ out2[moved] = quantity /\ out2[moved] \in Int
        BY <1>3, <4>1, <4>3
      <4>7. \A m \in MovementsOf(v) : in2[m] = in[m] /\ out2[m] = out[m]
        BY <4>3
      <4> HIDE DEF in, out, in2, out2, quantity, moved
      <4>8. /\ IsFiniteSet(Pieces(in2)) /\ Cardinality(Pieces(in)) \in Nat
            /\ Cardinality(Pieces(in2)) = Cardinality(Pieces(in)) + 0
        BY <3>1, <4>3, <4>4, <4>5, <4>6, <4>7, PiecesAdd
      <4>9. /\ IsFiniteSet(Pieces(out2)) /\ Cardinality(Pieces(out)) \in Nat
            /\ Cardinality(Pieces(out2)) = Cardinality(Pieces(out)) + quantity
        BY <1>3, <3>1, <4>3, <4>4, <4>5, <4>6, <4>7, PiecesAdd
      <4>10. QED
        BY <1>3, <3>1, <4>1, <4>4, <4>8, <4>9
    <3>4. QED
      BY <3>2, <3>3
  <2>4. Available(row)
    <3>1. stock[v].reserved <= stock[v].onHand
      BY <1>4, <1>11, <1>13 DEF Books, Available
    <3>2. QED
      BY <1>3, <1>5, <1>6, <1>13, <3>1 DEF Available
  <2>5. QED
    BY <1>5, <1>7, <1>13, <2>1, <2>2, <2>3, <2>4 DEF Books, OnHand, OnReserve
<1>14. QED
  BY <1>12, <1>13

LEMMA EndCommitHolds ==
    ASSUME InvInv, NEW p \in Process, NEW op \in DOMAIN Ends, NEW h \in Hold, EndCommit(p, op, h)
    PROVE  InvInv'
<1> DEFINE quantity == hold[h].quantity
           sold == IF op = "commit" THEN quantity ELSE 0
<1>1. op \in {"release", "expire", "commit"} /\ h[2] \in Variant
  BY DEF Ends, Hold
<1>2. hold[h] \in HoldRow /\ hold[h].status = "ACTIVE"
  BY DEF EndCommit, EndClaims, MayEnd, CallReads, InvInv
<1>3. quantity \in Nat /\ sold \in Nat /\ quantity # 0
  <2>1. quantity \in Quantity
    BY <1>2 DEF HoldRow
  <2>2. QED
    BY <2>1, InventoryAssumption
<1>4. stock[h[2]] \in StockRow
  BY <1>2 DEF InvInv, RowsFit
<1>5. PICK row : /\ row = [onHand |-> stock[h[2]].onHand - sold, reserved |-> stock[h[2]].reserved - quantity]
                 /\ stock' = [stock EXCEPT ![h[2]] = row]
  BY DEF EndCommit
<1>6. /\ stock[h[2]].onHand \in Nat /\ stock[h[2]].reserved \in Nat
      /\ stock[h[2]].reserved >= quantity /\ stock[h[2]].onHand >= sold
  BY <1>4 DEF EndCommit, StockRow
<1>7. row \in StockRow
  BY <1>3, <1>5, <1>6 DEF StockRow
<1>8. PICK ended : ended = [hold[h] EXCEPT !.status = Ends[op]] /\ hold' = [hold EXCEPT ![h] = ended]
  BY DEF EndCommit
<1>9. /\ Ends[op] \in {"RELEASED", "EXPIRED", "COMMITTED"} /\ (op = "commit" => Ends[op] = "COMMITTED")
  BY <1>1 DEF Ends
<1>10. /\ ended \in HoldRow /\ ended.status = Ends[op] /\ ended.quantity = quantity
       /\ ended.expiresAt = hold[h].expiresAt
  BY <1>2, <1>8, <1>9 DEF HoldRow
<1>11. /\ \A w \in Variant : stock'[w] = IF w = h[2] THEN row ELSE stock[w]
       /\ \A g \in Hold : hold'[g] = IF g = h THEN ended ELSE hold[g]
  BY <1>1, <1>5, <1>8 DEF InvInv, InvTypeOK
<1>12. UNCHANGED <<batch, time>> /\ InvGoto(p, Idle) /\ invAnswers' = invAnswers \union {<<op, h>>}
  BY DEF EndCommit, InvAnswer
<1>13. InvTypeOK'
  BY <1>5, <1>7, <1>8, <1>10, <1>12, InvCallFields DEF InvInv, InvTypeOK, InvGoto, InvCall
<1>14. Grown(hold, hold')
  BY <1>2, <1>10, <1>11 DEF Grown
<1>15. /\ movement \subseteq movement'
       /\ \A m \in movement' \ movement : op = "commit" /\ m = SoldBy(h)
  BY <1>3 DEF EndCommit, SoldBy
<1>16. RowsFit'
  <2>1. ASSUME NEW g \in Hold, hold'[g] \in HoldRow PROVE stock'[g[2]] \in StockRow
    <3>1. g[2] \in Variant /\ hold[g] \in HoldRow
      BY <1>2, <1>11, <2>1 DEF Hold
    <3>2. stock[g[2]] \in StockRow
      BY <3>1 DEF InvInv, RowsFit
    <3>3. QED
      BY <1>7, <1>11, <3>1, <3>2
  <2>2. \A g \in Hold : hold[g] \in HoldRow /\ hold[g].status = "COMMITTED" => SoldBy(g)' = SoldBy(g)
    BY <1>2, <1>11 DEF SoldBy
  <2>3. SoldBy(h)' = SoldBy(h)
    BY <1>10, <1>11 DEF SoldBy
  <2>4. \A c \in Code : ReceivedBy(c)' = ReceivedBy(c)
    BY <1>12 DEF ReceivedBy
  <2>5. \A c \in Code : batch[c] \in BatchRow /\ batch[c].status = "RELEASED" => ReceivedBy(c) \in movement
    BY DEF InvInv, RowsFit
  <2>6. \A c \in Code : batch'[c] \in BatchRow /\ batch'[c].status = "RELEASED" => ReceivedBy(c)' \in movement'
    BY <1>12, <1>15, <2>4, <2>5
  <2>7. ASSUME NEW m \in movement'
        PROVE  \/ \E g \in Hold : hold'[g] \in HoldRow /\ hold'[g].status = "COMMITTED" /\ m = SoldBy(g)'
               \/ \E c \in Code : batch'[c] \in BatchRow /\ batch'[c].status = "RELEASED" /\ m = ReceivedBy(c)'
    <3>1. CASE m \notin movement
      BY <1>9, <1>10, <1>11, <1>15, <2>3, <3>1
    <3>2. ASSUME NEW g \in Hold, hold[g] \in HoldRow, hold[g].status = "COMMITTED", m = SoldBy(g)
          PROVE  hold'[g] \in HoldRow /\ hold'[g].status = "COMMITTED" /\ m = SoldBy(g)'
      BY <1>2, <1>11, <2>2, <3>2
    <3>3. QED
      BY <1>12, <2>4, <3>1, <3>2 DEF InvInv, RowsFit
  <2>8. \A c \in Code : batch'[c] \in BatchRow /\ batch'[c].status = "RECORDED" => batch'[c].releaseKey = NoRow
    BY <1>12 DEF InvInv, RowsFit
  <2>9. QED
    BY <2>1, <2>6, <2>7, <2>8 DEF RowsFit
<1>17. CallReads(Idle, hold', batch', time') /\ Idle \in InvCall
  BY InvCallFields DEF CallReads, Idle, InvCall, Ends
<1>18. AnswerTrue(<<op, h>>, hold', batch', movement')
  BY <1>1, <1>9, <1>10, <1>11 DEF AnswerTrue
<1>19. \A v \in Variant : Books(v)'
  BY EndCommitBooks
<1>20. QED
  BY <1>12, <1>13, <1>14, <1>15, <1>16, <1>17, <1>18, <1>19, GrownIsReflexive, RequestStep

LEMMA RecordCommitHolds ==
    ASSUME InvInv, NEW p \in Process, RecordCommit(p)
    PROVE  InvInv'
<1> DEFINE r == invCall[p].request
<1>1. r \in RecordRequest
  <2>1. invCall[p] \in InvCall /\ invCall[p].pc = "record"
    BY DEF RecordCommit, InvInv, InvTypeOK
  <2>2. QED
    BY <2>1, InvCallFields DEF RecordCall
<1>2. r.code \in Code /\ r.variant \in Variant /\ r.quantity \in Quantity /\ r.key \in BatchKey
  BY <1>1 DEF RecordRequest
<1>3. /\ stock' = stock /\ hold' = hold /\ movement' = movement /\ time' = time /\ InvGoto(p, Idle)
      /\ invAnswers' = invAnswers \union {<<"record", r>>}
  BY DEF RecordCommit, RecordReplay, InvAnswer
<1>4. PICK b : b = [variant |-> r.variant, quantity |-> r.quantity, key |-> r.key,
                    status |-> "RECORDED", releaseKey |-> NoRow]
  OBVIOUS
<1>5. /\ b \in BatchRow /\ b.status # "RELEASED"
      /\ b.variant = r.variant /\ b.quantity = r.quantity /\ b.key = r.key
  BY <1>2, <1>4 DEF BatchRow
<1>6. \/ batch[r.code] = NoRow /\ batch' = [batch EXCEPT ![r.code] = b]
      \/ batch' = batch /\ \E c \in Code : RecordReplay(c, r)
  BY <1>4 DEF RecordCommit
<1>7. \A c \in Code : batch'[c] = batch[c] \/ (c = r.code /\ batch[c] = NoRow /\ batch'[c] = b)
  BY <1>2, <1>6 DEF InvInv, InvTypeOK
<1>8. InvTypeOK'
  BY <1>3, <1>5, <1>6, InvCallFields DEF InvInv, InvTypeOK, InvGoto, InvCall
<1>9. Kept(batch, batch')
  BY <1>7, NoRowIsNone DEF Kept
<1>10. AnswerTrue(<<"record", r>>, hold', batch', movement')
  <2>1. CASE batch' = [batch EXCEPT ![r.code] = b]
    <3>1. batch'[r.code] = b
      BY <1>2, <2>1 DEF InvInv, InvTypeOK
    <3>2. QED
      BY <1>1, <1>5, <3>1 DEF AnswerTrue
  <2>2. ASSUME batch' = batch, NEW c \in Code, RecordReplay(c, r)
        PROVE  AnswerTrue(<<"record", r>>, hold', batch', movement')
    <3>1. /\ r.code = c /\ batch[c] \in BatchRow /\ batch[c].key = r.key
          /\ batch[c].variant = r.variant /\ batch[c].quantity = r.quantity
      BY <2>2 DEF RecordReplay, RecordedWith, IdenticalReplay, InvInv, InvTypeOK
    <3>2. QED
      BY <1>1, <2>2, <3>1 DEF AnswerTrue
  <2>3. QED
    BY <1>6, <2>1, <2>2
<1>11. RowsFit'
  <2>1. \A g \in Hold : SoldBy(g)' = SoldBy(g)
    BY <1>3 DEF SoldBy
  <2>2. ASSUME NEW c \in Code, batch'[c] \in BatchRow, batch'[c].status = "RELEASED"
        PROVE  ReceivedBy(c)' \in movement'
    <3>1. batch'[c] = batch[c]
      BY <1>5, <1>7, <2>2
    <3>2. QED
      BY <1>3, <2>2, <3>1 DEF InvInv, RowsFit, ReceivedBy
  <2>3. ASSUME NEW c \in Code, batch[c] \in BatchRow, batch[c].status = "RELEASED"
        PROVE  batch'[c] = batch[c] /\ ReceivedBy(c)' = ReceivedBy(c)
    <3>1. batch'[c] = batch[c]
      BY <1>7, <2>3, NoRowIsNone
    <3>2. QED
      BY <3>1 DEF ReceivedBy
  <2>4. \A c \in Code : batch'[c] \in BatchRow /\ batch'[c].status = "RECORDED" => batch'[c].releaseKey = NoRow
    BY <1>4, <1>7 DEF InvInv, RowsFit
  <2>5. QED
    BY <1>3, <2>1, <2>2, <2>3, <2>4 DEF InvInv, RowsFit
<1>12. ASSUME NEW v \in Variant PROVE Books(v)'
  BY <1>3 DEF InvInv, Books, OnHand, OnReserve, Received, Sold, Reserved, MovementsOf, ActiveHolds
<1>13. CallReads(Idle, hold', batch', time') /\ Idle \in InvCall
  BY InvCallFields DEF CallReads, Idle, InvCall, Ends
<1>14. \A a \in invAnswers' \ invAnswers : AnswerTrue(a, hold', batch', movement')
  BY <1>3, <1>10
<1>15. QED
  BY <1>3, <1>8, <1>9, <1>11, <1>12, <1>13, <1>14, GrownIsReflexive, RequestStep

LEMMA ReleaseCommitHolds ==
    ASSUME InvInv, NEW p \in Process, ReleaseCommit(p)
    PROVE  InvInv'
<1>1. PICK c : c = invCall[p].code
  OBVIOUS
<1>2. c \in Code /\ batch[c] \in BatchRow /\ invCall[p].key \in BatchKey
  <2>1. invCall[p] \in InvCall /\ invCall[p].pc = "releaseBatch" /\ CallReads(invCall[p], hold, batch, time)
    BY DEF ReleaseCommit, InvInv, InvTypeOK
  <2>2. QED
    BY <1>1, <2>1, InvCallFields DEF BatchCall, CallReads
<1>3. PICK b : b = batch[c] /\ b \in BatchRow
  BY <1>2
<1>4. b.variant \in Variant /\ b.quantity \in Nat /\ b.quantity > 0
  <2>1. b.variant \in Variant /\ b.quantity \in Quantity
    BY <1>3 DEF BatchRow
  <2>2. \A n \in Quantity : n \in Nat /\ n # 0
    BY InventoryAssumption
  <2>3. \A n \in Nat : n # 0 => n > 0
    OBVIOUS
  <2>4. QED
    BY <2>1, <2>2, <2>3
<1>5. /\ hold' = hold /\ time' = time /\ InvGoto(p, Idle) /\ invAnswers' = invAnswers \union {<<"batch", c>>}
  BY <1>1 DEF ReleaseCommit, InvAnswer
<1>6. CallReads(Idle, hold', batch', time') /\ Idle \in InvCall
  BY InvCallFields DEF CallReads, Idle, InvCall, Ends
<1>7. \A a \in invAnswers' \ invAnswers : a = <<"batch", c>>
  BY <1>5
<1>8. CASE ~ReleaseClaims(c)
  <2>1. batch' = batch /\ stock' = stock /\ movement' = movement
    BY <1>1, <1>8 DEF ReleaseCommit
  <2>2. QED
    <3>1. b.status = "RELEASED"
      <4>1. b.status \in {"RECORDED", "RELEASED"}
        BY <1>3 DEF BatchRow
      <4>2. b.status = "RECORDED" => b.releaseKey = NoRow
        BY <1>2, <1>3 DEF InvInv, RowsFit
      <4>3. QED
        BY <1>3, <1>8, <4>1, <4>2 DEF ReleaseClaims
    <3>2. ReceivedBy(c) \in movement /\ ReceivedBy(c).reference = <<"batch", c>>
      BY <1>2, <1>3, <3>1 DEF InvInv, RowsFit, ReceivedBy
    <3>3. AnswerTrue(<<"batch", c>>, hold, batch, movement)
      BY <3>2 DEF AnswerTrue
    <3>4. QED
      BY <1>5, <1>6, <1>7, <2>1, <3>3, QuietStep DEF invRows
<1>9. CASE ReleaseClaims(c)
  <2> DEFINE old == stock[b.variant]
             came == [reference |-> <<"batch", c>>, variant |-> b.variant, delta |-> b.quantity]
  <2>1. b.status = "RECORDED"
    BY <1>3, <1>9 DEF ReleaseClaims
  <2>2. PICK released : /\ released = [b EXCEPT !.status = "RELEASED", !.releaseKey = invCall[p].key]
                        /\ batch' = [batch EXCEPT ![c] = released]
    BY <1>1, <1>3, <1>9 DEF ReleaseCommit
  <2>3. /\ released \in BatchRow /\ released.status = "RELEASED" /\ released.key = b.key
        /\ released.variant = b.variant /\ released.quantity = b.quantity
    BY <1>2, <1>3, <2>2 DEF BatchRow
  <2>4. movement' = movement \union {came}
    BY <1>1, <1>3, <1>9 DEF ReleaseCommit
  <2>5. PICK row : /\ row = IF old = NoRow THEN [onHand |-> b.quantity, reserved |-> 0]
                            ELSE [old EXCEPT !.onHand = old.onHand + b.quantity]
                   /\ stock' = [stock EXCEPT ![b.variant] = row]
    BY <1>1, <1>3, <1>9 DEF ReleaseCommit
  <2>6. old \in StockRow \union {NoRow} /\ Books(b.variant)
    BY <1>4 DEF InvInv, InvTypeOK
  <2>7. /\ row \in StockRow /\ row # NoRow
        /\ row.onHand = OnHand(b.variant) + b.quantity /\ row.reserved = OnReserve(b.variant) /\ Available(row)
    <3>1. CASE old = NoRow
      <4>1. row = [onHand |-> b.quantity, reserved |-> 0]
        BY <2>5, <3>1
      <4>2. row \in StockRow
        BY <1>4, <4>1 DEF StockRow
      <4>3. OnHand(b.variant) = 0 /\ OnReserve(b.variant) = 0
        BY <3>1 DEF OnHand, OnReserve
      <4>4. QED
        BY <1>4, <4>1, <4>2, <4>3, NoRowIsNone DEF Available
    <3>2. CASE old # NoRow
      <4>1. old \in StockRow /\ OnHand(b.variant) = old.onHand /\ OnReserve(b.variant) = old.reserved
            /\ Available(old)
        BY <2>6, <3>2 DEF OnHand, OnReserve, Books
      <4>2. old.onHand \in Nat /\ old.reserved \in Nat /\ old.onHand + b.quantity \in Nat
        BY <1>4, <4>1 DEF StockRow
      <4>3. row = [onHand |-> old.onHand + b.quantity, reserved |-> old.reserved]
        BY <2>5, <3>2, <4>1 DEF StockRow
      <4>4. row \in StockRow
        BY <4>2, <4>3 DEF StockRow
      <4>5. QED
        BY <1>4, <4>1, <4>2, <4>3, <4>4, NoRowIsNone DEF Available
    <3>3. QED
      BY <3>1, <3>2
  <2>8. /\ \A w \in Variant : stock'[w] = IF w = b.variant THEN row ELSE stock[w]
        /\ \A d \in Code : batch'[d] = IF d = c THEN released ELSE batch[d]
    BY <1>2, <1>4, <2>2, <2>5 DEF InvInv, InvTypeOK
  <2>9. InvTypeOK'
    BY <1>5, <1>6, <2>2, <2>3, <2>5, <2>7 DEF InvInv, InvTypeOK, InvGoto
  <2>10. Kept(batch, batch')
    BY <1>3, <2>3, <2>8 DEF Kept
  <2>11. came = ReceivedBy(c)'
    BY <1>2, <2>3, <2>8 DEF ReceivedBy
  <2>12. RowsFit'
    <3>1. ASSUME NEW g \in Hold, hold'[g] \in HoldRow PROVE stock'[g[2]] \in StockRow
      <4>1. g[2] \in Variant /\ stock[g[2]] \in StockRow
        BY <1>5, <3>1 DEF Hold, InvInv, RowsFit
      <4>2. QED
        BY <2>7, <2>8, <4>1
    <3>2. \A g \in Hold : SoldBy(g)' = SoldBy(g)
      BY <1>5 DEF SoldBy
    <3>3. ASSUME NEW d \in Code, d # c
          PROVE  batch'[d] = batch[d] /\ ReceivedBy(d)' = ReceivedBy(d)
      BY <2>8, <3>3 DEF ReceivedBy
    <3>4. ASSUME NEW d \in Code, batch'[d] \in BatchRow, batch'[d].status = "RELEASED"
          PROVE  ReceivedBy(d)' \in movement'
      <4>1. CASE d = c
        BY <2>4, <2>11, <4>1
      <4>2. CASE d # c
        BY <2>4, <3>3, <3>4, <4>2 DEF InvInv, RowsFit
      <4>3. QED
        BY <4>1, <4>2
    <3>5. ASSUME NEW m \in movement'
          PROVE  \/ \E g \in Hold : hold'[g] \in HoldRow /\ hold'[g].status = "COMMITTED" /\ m = SoldBy(g)'
                 \/ \E d \in Code : batch'[d] \in BatchRow /\ batch'[d].status = "RELEASED" /\ m = ReceivedBy(d)'
      <4>1. CASE m = came
        BY <1>2, <2>3, <2>8, <2>11, <4>1
      <4>2. ASSUME NEW d \in Code, batch[d] \in BatchRow, batch[d].status = "RELEASED", m = ReceivedBy(d)
            PROVE  batch'[d] \in BatchRow /\ batch'[d].status = "RELEASED" /\ m = ReceivedBy(d)'
        BY <1>3, <2>1, <3>3, <4>2
      <4>3. QED
        BY <1>5, <2>4, <3>2, <4>1, <4>2 DEF InvInv, RowsFit
    <3>6. \A d \in Code : batch'[d] \in BatchRow /\ batch'[d].status = "RECORDED" => batch'[d].releaseKey = NoRow
      BY <2>3, <2>8 DEF InvInv, RowsFit
    <3>7. QED
      BY <3>1, <3>4, <3>5, <3>6 DEF RowsFit
  <2>13. AnswerTrue(<<"batch", c>>, hold', batch', movement')
    <3>1. came \in movement' /\ came.reference = <<"batch", c>>
      BY <2>4
    <3>2. QED
      BY <3>1 DEF AnswerTrue
  <2>14. came \notin movement
    <3>1. \A g \in Hold : came # SoldBy(g)
      BY DEF SoldBy
    <3>2. \A d \in Code : came = ReceivedBy(d) => d = c
      BY DEF ReceivedBy
    <3>3. QED
      BY <1>3, <2>1, <3>1, <3>2 DEF InvInv, RowsFit
  <2>15. ASSUME NEW v \in Variant PROVE Books(v)'
    <3>1. Reserved(v)' = Reserved(v) /\ Books(v)
      BY <1>5 DEF Reserved, ActiveHolds, InvInv
    <3>2. CASE v # b.variant
      <4>1. stock'[v] = stock[v] /\ MovementsOf(v)' = MovementsOf(v)
        BY <2>4, <2>8, <3>2 DEF MovementsOf
      <4>2. Received(v)' = Received(v) /\ Sold(v)' = Sold(v)
        BY <4>1 DEF Received, Sold
      <4>3. QED
        BY <3>1, <4>1, <4>2 DEF Books, OnHand, OnReserve
    <3>3. CASE v = b.variant
      <4> DEFINE in == [m \in MovementsOf(v) |-> m.delta]
                 out == [m \in MovementsOf(v) |-> -m.delta]
                 in2 == [m \in MovementsOf(v)' |-> m.delta]
                 out2 == [m \in MovementsOf(v)' |-> -m.delta]
      <4>1. came.delta = b.quantity /\ came.variant = v
        BY <3>3
      <4>2. MovementsOf(v)' = MovementsOf(v) \union {came} /\ came \notin MovementsOf(v)
        BY <2>4, <2>14, <4>1 DEF MovementsOf
      <4>3. /\ Received(v) = Pieces(in) /\ Received(v)' = Pieces(in2)
            /\ Sold(v) = Pieces(out) /\ Sold(v)' = Pieces(out2)
        BY DEF Received, Sold
      <4>4. /\ DOMAIN in = MovementsOf(v) /\ DOMAIN in2 = MovementsOf(v) \union {came}
            /\ DOMAIN out = MovementsOf(v) /\ DOMAIN out2 = MovementsOf(v) \union {came}
        BY <4>2
      <4>5. /\ out2[came] = -b.quantity /\ out2[came] \in Int /\ ~(out2[came] > 0)
            /\ in2[came] = b.quantity /\ in2[came] \in Int
        BY <1>4, <4>1, <4>2
      <4>6. \A m \in MovementsOf(v) : in2[m] = in[m] /\ out2[m] = out[m]
        BY <4>2
      <4>7. IsFiniteSet(Received(v)) /\ IsFiniteSet(Sold(v)) /\ OnHand(v) = Cardinality(Received(v)) - Cardinality(Sold(v))
        BY <3>1 DEF Books
      <4> HIDE DEF in, out, in2, out2, came
      <4>8. /\ IsFiniteSet(Pieces(out2)) /\ Cardinality(Pieces(out)) \in Nat
            /\ Cardinality(Pieces(out2)) = Cardinality(Pieces(out)) + 0
        BY <4>2, <4>3, <4>4, <4>5, <4>6, <4>7, PiecesAdd
      <4>9. /\ IsFiniteSet(Pieces(in2)) /\ Cardinality(Pieces(in)) \in Nat
            /\ Cardinality(Pieces(in2)) = Cardinality(Pieces(in)) + b.quantity
        BY <1>4, <4>2, <4>3, <4>4, <4>5, <4>6, <4>7, PiecesAdd
      <4>10. /\ IsFiniteSet(Received(v)') /\ IsFiniteSet(Sold(v)')
             /\ Cardinality(Received(v)') - Cardinality(Sold(v)') = OnHand(v) + b.quantity
        BY <1>4, <4>3, <4>7, <4>8, <4>9
      <4>11. stock'[v] = row
        BY <2>8, <3>3
      <4>12. OnHand(v)' = row.onHand /\ OnReserve(v)' = row.reserved
        BY <2>7, <4>11 DEF OnHand, OnReserve
      <4>13. IsFiniteSet(Reserved(v)') /\ OnReserve(v) = Cardinality(Reserved(v)')
        BY <3>1 DEF Books
      <4>14. QED
        BY <2>7, <3>3, <4>10, <4>11, <4>12, <4>13 DEF Books
    <3>4. QED
      BY <3>2, <3>3
  <2>16. Grown(hold, hold') /\ movement \subseteq movement'
    BY <1>5, <2>4, GrownIsReflexive
  <2>17. QED
    BY <1>5, <1>6, <1>7, <2>9, <2>10, <2>12, <2>13, <2>15, <2>16, RequestStep
<1>10. QED
  BY <1>8, <1>9

LEMMA InvNextHolds ==
    ASSUME InvInv, [InvNext]_invVars
    PROVE  InvInv'
<1>1. CASE InvNext
  BY <1>1, TickHolds, EndReplayHolds, QuietRequests, ReserveCommitHolds, EndCommitHolds, RecordCommitHolds,
     ReleaseCommitHolds DEF InvNext
<1>2. CASE UNCHANGED invVars
  <2>1. /\ stock' = stock /\ hold' = hold /\ batch' = batch /\ movement' = movement /\ time' = time
        /\ invCall' = invCall /\ invAnswers' = invAnswers
    BY <1>2 DEF invVars, invRows
  <2>2. InvTypeOK' /\ RowsFit'
    BY <2>1 DEF InvInv, InvTypeOK, RowsFit, SoldBy, ReceivedBy
  <2>3. ASSUME NEW v \in Variant PROVE Books(v)'
    BY <2>1 DEF InvInv, Books, OnHand, OnReserve, Received, Sold, Reserved, MovementsOf, ActiveHolds
  <2>4. QED
    BY <2>1, <2>2, <2>3 DEF InvInv
<1>3. QED
  BY <1>1, <1>2

\* The books of Inventory, row by row, with what each request under way has read.
THEOREM InventoryInvariant == InvSpec => []InvInv
<1>1. QED
  BY InvInitHolds, InvNextHolds, PTL DEF InvSpec

\* Every handler moves a balance together with its movement and its reservation:
\* units on hand and reserved are the sums of the rows, whatever races with it.
THEOREM BooksAgreeAlways == InvSpec => []BooksAgree
<1>1. InvInv => BooksAgree
  BY DEF InvInv, Books, OnHand, OnReserve, BooksAgree
<1>2. QED
  BY <1>1, InventoryInvariant, PTL

\* What a handler answered stays true: the guarded updates let a reservation end
\* once, and a batch's key and number name one recorded batch for good.
THEOREM InventoryAnswersHold == InvSpec => []InventoryAnswersStayTrue
<1>1. InvInv => InventoryAnswersStayTrue
  <2> SUFFICES ASSUME InvInv, NEW a \in invAnswers
               PROVE  CASE a[1] = "commit" -> hold[a[2]].status = "COMMITTED"
                        [] a[1] \in {"release", "expire"} -> hold[a[2]].status # "ACTIVE"
                        [] a[1] = "batch" -> \E m \in movement : m.reference = a
                        [] OTHER -> /\ batch[a[2].code] # NoRow
                                    /\ batch[a[2].code].key = a[2].key
                                    /\ batch[a[2].code].variant = a[2].variant
                                    /\ batch[a[2].code].quantity = a[2].quantity
    BY DEF InventoryAnswersStayTrue
  <2>1. AnswerTrue(a, hold, batch, movement)
    BY DEF InvInv
  <2>2. QED
    BY <2>1, NoRowIsNone DEF AnswerTrue, Ends
<1>2. QED
  BY <1>1, InventoryInvariant, PTL

\* One batch at most has a key, whatever copies of a request look for it at once.
KeysAreUnique(rows) ==
    \A c, d \in Code : rows[c] \in BatchRow /\ rows[d] \in BatchRow /\ rows[c].key = rows[d].key => c = d

RecInv == InvInv /\ KeysAreUnique(batch)

LEMMA BatchRows ==
    ASSUME InvInv, NEW c \in Code
    PROVE  batch[c] # NoRow <=> batch[c] \in BatchRow
BY NoRowIsNone DEF InvInv, InvTypeOK

\* What a step does to the recorded batches and what it answers of them.
LEMMA RecordingSteps ==
    ASSUME InvInv, [InvNext]_invVars
    PROVE  \/ UNCHANGED <<batch, RecordingsTold>>
           \/ UNCHANGED batch /\ \E c \in Code, r \in RecordRequest : RecordReplay(c, r)
           \/ \E p \in Process : RecordCommit(p) /\ RecordedWith(invCall[p].request.key) = {}
                                  /\ batch[invCall[p].request.code] = NoRow
           \/ \E p \in Process : ReleaseCommit(p)
<1>1. ASSUME NEW a, a[1] # "record", InvAnswer(a) PROVE UNCHANGED RecordingsTold
  BY <1>1 DEF RecordingsTold, InvAnswer
<1>2. ASSUME UNCHANGED invAnswers PROVE UNCHANGED RecordingsTold
  BY <1>2 DEF RecordingsTold
<1>3. DOMAIN Ends = {"release", "expire", "commit"}
  BY DEF Ends
<1>4. ASSUME UNCHANGED invVars \/ InvTick PROVE UNCHANGED <<batch, RecordingsTold>>
  BY <1>2, <1>4 DEF invVars, invRows, InvTick
<1>5. ASSUME NEW op \in DOMAIN Ends, NEW h \in Hold, EndReplay(op, h)
      PROVE  UNCHANGED <<batch, RecordingsTold>>
  <2>1. PICK a : a = <<op, h>> /\ InvAnswer(a) /\ UNCHANGED batch
    BY <1>5 DEF EndReplay, invRows
  <2>2. QED
    BY <1>1, <1>3, <2>1
<1>6. ASSUME NEW p \in Process,
             InvAbandon(p) \/ ReserveCommit(p) \/ \E h \in Hold, q \in Quantity : ReserveRead(p, h, q)
      PROVE  UNCHANGED <<batch, RecordingsTold>>
  BY <1>2, <1>6 DEF InvAbandon, ReserveCommit, ReserveRead, invRows
<1>7. ASSUME NEW p \in Process, NEW op \in DOMAIN Ends, NEW h \in Hold,
             EndRead(p, op, h) \/ EndCommit(p, op, h) \/ EndLost(p, op, h)
      PROVE  UNCHANGED <<batch, RecordingsTold>>
  <2>1. UNCHANGED batch /\ (UNCHANGED invAnswers \/ InvAnswer(<<op, h>>))
    BY <1>7 DEF EndRead, EndCommit, EndLost, invRows
  <2>2. PICK a : a = <<op, h>>
    OBVIOUS
  <2>3. QED
    BY <1>1, <1>2, <1>3, <2>1, <2>2
<1>8. ASSUME NEW p \in Process, NEW c \in Code, NEW k \in BatchKey, ReleaseRead(p, c, k)
      PROVE  UNCHANGED <<batch, RecordingsTold>>
  <2>1. UNCHANGED batch /\ (UNCHANGED invAnswers \/ InvAnswer(<<"batch", c>>))
    BY <1>8 DEF ReleaseRead, invRows
  <2>2. PICK a : a = <<"batch", c>>
    OBVIOUS
  <2>3. QED
    BY <1>1, <1>2, <2>1, <2>2
<1>9. ASSUME NEW p \in Process, NEW r \in RecordRequest, RecordRead(p, r)
      PROVE  \/ UNCHANGED <<batch, RecordingsTold>>
             \/ UNCHANGED batch /\ \E c \in Code : RecordReplay(c, r)
  BY <1>2, <1>9 DEF RecordRead, invRows
<1>10. ASSUME NEW p \in Process, RecordCommit(p)
       PROVE  \/ RecordedWith(invCall[p].request.key) = {} /\ batch[invCall[p].request.code] = NoRow
              \/ UNCHANGED batch /\ \E c \in Code, r \in RecordRequest : RecordReplay(c, r)
  <2>1. invCall[p].request \in RecordRequest
    <3>1. invCall[p] \in InvCall /\ invCall[p].pc = "record"
      BY <1>10 DEF RecordCommit, InvInv, InvTypeOK
    <3>2. QED
      BY <3>1, InvCallFields DEF RecordCall
  <2>2. QED
    BY <1>10, <2>1 DEF RecordCommit
<1>11. QED
  BY <1>4, <1>5, <1>6, <1>7, <1>8, <1>9, <1>10 DEF InvNext

\* One more recorded batch in the answers.
LEMMA RecordingTold ==
    ASSUME NEW r, InvAnswer(<<"record", r>>)
    PROVE  RecordingsTold' = RecordingsTold \union {<<r.key, {r}>>}
<1>1. PICK a : a = <<"record", r>> /\ invAnswers' = invAnswers \union {a}
  BY DEF InvAnswer
<1>2. a[1] = "record" /\ a[2] = r
  BY <1>1
<1>3. QED
  BY <1>1, <1>2 DEF RecordingsTold

\* What recordBatch inserts.
Inserted(r) ==
    [variant |-> r.variant, quantity |-> r.quantity, key |-> r.key, status |-> "RECORDED", releaseKey |-> NoRow]

LEMMA Insertion ==
    ASSUME InvInv, NEW p \in Process, RecordCommit(p), NEW r, r = invCall[p].request,
           RecordedWith(r.key) = {}, batch[r.code] = NoRow
    PROVE  /\ r \in RecordRequest /\ r.code \in Code /\ r.key \in BatchKey
           /\ InvAnswer(<<"record", r>>)
           /\ batch'[r.code] = Inserted(r) /\ Inserted(r) \in BatchRow /\ Inserted(r) # NoRow
           /\ \A c \in Code \ {r.code} : batch'[c] = batch[c]
<1>1. r \in RecordRequest
  <2>1. invCall[p] \in InvCall /\ invCall[p].pc = "record"
    BY DEF RecordCommit, InvInv, InvTypeOK
  <2>2. QED
    BY <2>1, InvCallFields DEF RecordCall
<1>2. r.code \in Code /\ r.key \in BatchKey /\ r.variant \in Variant /\ r.quantity \in Quantity
  BY <1>1 DEF RecordRequest
<1>3. batch' = [batch EXCEPT ![r.code] = Inserted(r)] /\ InvAnswer(<<"record", r>>)
  BY DEF RecordCommit, Inserted
<1>4. Inserted(r) \in BatchRow
  BY <1>2 DEF Inserted, BatchRow
<1>5. QED
  BY <1>1, <1>2, <1>3, <1>4, NoRowIsNone DEF InvInv, InvTypeOK

\* releaseBatch leaves what was recorded under a key.
LEMMA ReleaseKeeps ==
    ASSUME InvInv, NEW p \in Process, ReleaseCommit(p)
    PROVE  /\ \A c \in Code : batch[c] = NoRow => batch'[c] = NoRow
           /\ \A c \in Code : batch[c] \in BatchRow =>
                /\ batch'[c] \in BatchRow /\ batch'[c].key = batch[c].key
                /\ batch'[c].variant = batch[c].variant /\ batch'[c].quantity = batch[c].quantity
<1>1. PICK c : c = invCall[p].code
  OBVIOUS
<1>2. c \in Code /\ batch[c] \in BatchRow /\ invCall[p].key \in BatchKey
  <2>1. invCall[p] \in InvCall /\ invCall[p].pc = "releaseBatch" /\ CallReads(invCall[p], hold, batch, time)
    BY DEF ReleaseCommit, InvInv, InvTypeOK
  <2>2. QED
    BY <1>1, <2>1, InvCallFields DEF BatchCall, CallReads
<1>3. CASE ~ReleaseClaims(c)
  BY <1>1, <1>3 DEF ReleaseCommit
<1>4. CASE ReleaseClaims(c)
  <2>1. PICK released : /\ released = [batch[c] EXCEPT !.status = "RELEASED", !.releaseKey = invCall[p].key]
                        /\ batch' = [batch EXCEPT ![c] = released]
    BY <1>1, <1>4 DEF ReleaseCommit
  <2>2. /\ released \in BatchRow /\ released.key = batch[c].key
        /\ released.variant = batch[c].variant /\ released.quantity = batch[c].quantity
    BY <1>2, <2>1 DEF BatchRow
  <2>3. \A d \in Code : batch'[d] = IF d = c THEN released ELSE batch[d]
    BY <2>1 DEF InvInv, InvTypeOK
  <2>4. QED
    BY <1>2, <2>2, <2>3, NoRowIsNone
<1>5. QED
  BY <1>3, <1>4

LEMMA RecInvHolds ==
    ASSUME RecInv, [InvNext]_invVars
    PROVE  RecInv'
<1>1. InvInv /\ InvInv'
  BY InvNextHolds DEF RecInv
<1>2. ASSUME UNCHANGED batch PROVE KeysAreUnique(batch)'
  BY <1>2 DEF RecInv, KeysAreUnique
<1>3. ASSUME NEW p \in Process, RecordCommit(p), RecordedWith(invCall[p].request.key) = {},
             batch[invCall[p].request.code] = NoRow
      PROVE  KeysAreUnique(batch)'
  <2>1. PICK r : r = invCall[p].request
    OBVIOUS
  <2>2. /\ batch'[r.code] = Inserted(r) /\ Inserted(r).key = r.key
        /\ \A c \in Code \ {r.code} : batch'[c] = batch[c]
    BY <1>1, <1>3, <2>1, Insertion DEF Inserted
  <2>3. \A c \in Code : batch[c] \in BatchRow => batch[c].key # r.key
    BY <1>1, <1>3, <2>1, NoRowIsNone DEF RecordedWith
  <2>4. QED
    BY <2>2, <2>3 DEF RecInv, KeysAreUnique
<1>4. ASSUME NEW p \in Process, ReleaseCommit(p) PROVE KeysAreUnique(batch)'
  <2>1. \A c \in Code : batch'[c] \in BatchRow => batch[c] \in BatchRow /\ batch'[c].key = batch[c].key
    BY <1>1, <1>4, ReleaseKeeps, BatchRows, NoRowIsNone
  <2>2. QED
    BY <2>1 DEF RecInv, KeysAreUnique
<1>5. KeysAreUnique(batch)'
  BY <1>1, <1>2, <1>3, <1>4, RecordingSteps
<1>6. QED
  BY <1>1, <1>5 DEF RecInv

\* recordBatch keeps the promise of OnceOnly: the insert of a batch is the first
\* request under its key, an identical replay repeats it, and all else stutters.
THEOREM RecordingRefinement == InvSpec => RecordingsAreOnce
<1>1. ASSUME InvInit PROVE RecInv /\ Recordings!OnceInit
  BY <1>1, InvInitHolds, NoRowIsNone
     DEF RecInv, KeysAreUnique, InvInit, Recordings!OnceInit, RecordedAs, RecordedWith, RecordingsTold
<1>2. ASSUME RecInv, [InvNext]_invVars PROVE [Recordings!OnceNext]_(Recordings!onceVars)
  <2>0. InvInv
    BY <1>2 DEF RecInv
  <2>1. CASE UNCHANGED <<batch, RecordingsTold>>
    BY <2>1 DEF Recordings!onceVars, RecordedAs, RecordedWith, RequestOf
  <2>2. ASSUME UNCHANGED batch, NEW c \in Code, NEW r \in RecordRequest, RecordReplay(c, r)
        PROVE  Recordings!OnceNext
    <3>1. /\ batch[c] \in BatchRow /\ batch[c].key = r.key /\ r.code = c
          /\ batch[c].variant = r.variant /\ batch[c].quantity = r.quantity
      BY <2>0, <2>2, BatchRows DEF RecordReplay, RecordedWith, IdenticalReplay
    <3>2. r = RequestOf(c) /\ r.key \in BatchKey
      BY <3>1 DEF RequestOf, RecordRequest
    <3>3. RecordedWith(r.key) = {c}
      BY <1>2, <2>0, <3>1, BatchRows, NoRowIsNone DEF RecordedWith, RecInv, KeysAreUnique
    <3>4. RecordedAs(r.key) = {r}
      BY <3>2, <3>3 DEF RecordedAs
    <3>5. \A k \in BatchKey : RecordedAs(k)' = RecordedAs(k)
      BY <2>2 DEF RecordedAs, RecordedWith, RequestOf
    <3>6. RecordingsTold' = RecordingsTold \union {<<r.key, {r}>>}
      BY <2>2, RecordingTold DEF RecordReplay
    <3>7. Recordings!Repeat(r.key)
      BY <3>2, <3>4, <3>5, <3>6 DEF Recordings!Repeat
    <3>8. QED
      BY <3>2, <3>7 DEF Recordings!OnceNext
  <2>3. ASSUME NEW p \in Process, RecordCommit(p), RecordedWith(invCall[p].request.key) = {},
               batch[invCall[p].request.code] = NoRow
        PROVE  Recordings!OnceNext
    <3>1. PICK r : r = invCall[p].request
      OBVIOUS
    <3>2. /\ r \in RecordRequest /\ r.code \in Code /\ r.key \in BatchKey
          /\ InvAnswer(<<"record", r>>)
          /\ batch'[r.code] = Inserted(r) /\ Inserted(r) \in BatchRow /\ Inserted(r) # NoRow
          /\ \A c \in Code \ {r.code} : batch'[c] = batch[c]
      BY <2>0, <2>3, <3>1, Insertion
    <3>3. /\ Inserted(r).key = r.key /\ Inserted(r).variant = r.variant /\ Inserted(r).quantity = r.quantity
          /\ RequestOf(r.code)' = r
      BY <3>2 DEF Inserted, RequestOf, RecordRequest
    <3>4. /\ RecordedWith(r.key) = {} /\ RecordedWith(r.key)' = {r.code}
          /\ \A k \in BatchKey \ {r.key} : RecordedWith(k)' = RecordedWith(k)
      BY <2>3, <3>1, <3>2, <3>3 DEF RecordedWith
    <3>5. RecordedAs(r.key) = {} /\ RecordedAs(r.key)' = {r}
      BY <3>3, <3>4 DEF RecordedAs
    <3>6. \A c \in Code : batch[c] # NoRow => RequestOf(c)' = RequestOf(c)
      BY <2>3, <3>1, <3>2 DEF RequestOf
    <3>7. \A k \in BatchKey \ {r.key} : RecordedAs(k)' = RecordedAs(k)
      BY <3>4, <3>6 DEF RecordedAs, RecordedWith
    <3>8. RecordingsTold' = RecordingsTold \union {<<r.key, {r}>>}
      BY <3>2, RecordingTold
    <3>9. Recordings!Accept(r.key)
      BY <3>2, <3>5, <3>7, <3>8 DEF Recordings!Accept
    <3>10. QED
      BY <3>2, <3>9 DEF Recordings!OnceNext
  <2>4. ASSUME NEW p \in Process, ReleaseCommit(p)
        PROVE  UNCHANGED Recordings!onceVars
    <3>1. \A c \in Code : (batch'[c] # NoRow <=> batch[c] # NoRow)
              /\ (batch[c] # NoRow => batch'[c].key = batch[c].key /\ RequestOf(c)' = RequestOf(c))
      BY <2>0, <2>4, ReleaseKeeps, BatchRows, NoRowIsNone DEF RequestOf
    <3>2. \A k \in BatchKey : RecordedWith(k)' = RecordedWith(k)
      BY <3>1 DEF RecordedWith
    <3>3. \A k \in BatchKey : RecordedAs(k)' = RecordedAs(k)
      BY <3>1, <3>2 DEF RecordedAs, RecordedWith
    <3>4. PICK a : a = <<"batch", invCall[p].code>> /\ InvAnswer(a)
      BY <2>4 DEF ReleaseCommit
    <3>5. a[1] # "record"
      BY <3>4
    <3>6. RecordingsTold' = RecordingsTold
      BY <3>4, <3>5 DEF InvAnswer, RecordingsTold
    <3>7. QED
      BY <3>3, <3>6 DEF Recordings!onceVars
  <2>5. QED
    BY <1>2, <2>0, <2>1, <2>2, <2>3, <2>4, RecordingSteps
<1>3. QED
  BY <1>1, <1>2, RecInvHolds, PTL DEF InvSpec, RecordingsAreOnce, Recordings!OnceSpec

\* Each movement has a reference of its own: the unique index on references never
\* has to refuse what release, expire, commit and releaseBatch write, since the
\* claims on the rows' statuses come first.
THEOREM ReferencesAreUnique ==
    InvSpec => [](\A m, n \in movement : m.reference = n.reference => m = n)
<1>1. ASSUME InvInv PROVE \A m, n \in movement : m.reference = n.reference => m = n
  <2> SUFFICES ASSUME NEW m \in movement, NEW n \in movement, m.reference = n.reference PROVE m = n
    OBVIOUS
  <2>1. ASSUME NEW x \in movement
        PROVE  \/ \E h \in Hold : x = SoldBy(h) /\ x.reference = <<"commit", h>>
               \/ \E c \in Code : x = ReceivedBy(c) /\ x.reference = <<"batch", c>>
    BY <1>1 DEF InvInv, RowsFit, SoldBy, ReceivedBy
  <2>2. \A h, g, c : <<"commit", h>> # <<"batch", c>> /\ (<<"commit", h>> = <<"commit", g>> => h = g)
            /\ (<<"batch", h>> = <<"batch", g>> => h = g)
    OBVIOUS
  <2>3. QED
    BY <2>1, <2>2
<1>2. QED
  BY <1>1, InventoryInvariant, PTL

\* A reservation that has ended is never changed again, and what was received,
\* sold or answered is never taken back: two requests that end one reservation at
\* once end it once.
THEOREM EndsAreFinal ==
    InvSpec => [][/\ \A h \in Hold : hold[h] \in HoldRow /\ hold[h].status # "ACTIVE" => hold'[h] = hold[h]
                  /\ movement \subseteq movement' /\ invAnswers \subseteq invAnswers']_invVars
<1> DEFINE Final ==
      /\ \A h \in Hold : hold[h] \in HoldRow /\ hold[h].status # "ACTIVE" => hold'[h] = hold[h]
      /\ movement \subseteq movement' /\ invAnswers \subseteq invAnswers'
<1>1. ASSUME InvInv, InvNext PROVE Final
  <2>1. CASE InvTick \/ \E op \in DOMAIN Ends, h \in Hold : EndReplay(op, h)
    BY <2>1 DEF InvTick, EndReplay, invRows, InvAnswer
  <2>2. ASSUME NEW p \in Process,
               \/ InvAbandon(p)
               \/ \E h \in Hold, q \in Quantity : ReserveRead(p, h, q)
               \/ \E c \in Code, k \in BatchKey : ReleaseRead(p, c, k)
               \/ \E r \in RecordRequest : RecordRead(p, r)
               \/ \E op \in DOMAIN Ends, h \in Hold : EndRead(p, op, h) \/ EndLost(p, op, h)
        PROVE  Final
    BY <2>2 DEF InvAbandon, ReserveRead, ReleaseRead, RecordRead, RecordReplay, EndRead, EndLost, invRows, InvAnswer
  <2>3. ASSUME NEW p \in Process, ReserveCommit(p) PROVE Final
    <3>1. hold[invCall[p].hold] \notin HoldRow
      BY <2>3, NoRowIsNone DEF ReserveCommit
    <3>2. /\ \A h \in Hold : h # invCall[p].hold => hold'[h] = hold[h]
          /\ movement' = movement /\ invAnswers' = invAnswers
      BY <1>1, <2>3 DEF ReserveCommit, InvInv, InvTypeOK
    <3>3. QED
      BY <3>1, <3>2
  <2>4. ASSUME NEW p \in Process, NEW op \in DOMAIN Ends, NEW h \in Hold, EndCommit(p, op, h) PROVE Final
    <3>1. hold[h].status = "ACTIVE"
      BY <2>4 DEF EndCommit, EndClaims, MayEnd
    <3>2. \A g \in Hold : g # h => hold'[g] = hold[g]
      BY <1>1, <2>4 DEF EndCommit, InvInv, InvTypeOK
    <3>3. movement \subseteq movement' /\ invAnswers \subseteq invAnswers'
      BY <2>4 DEF EndCommit, InvAnswer
    <3>4. QED
      BY <3>1, <3>2, <3>3
  <2>5. ASSUME NEW p \in Process, RecordCommit(p) \/ ReleaseCommit(p) PROVE Final
    BY <2>5 DEF RecordCommit, RecordReplay, ReleaseCommit, InvAnswer
  <2>6. QED
    BY <1>1, <2>1, <2>2, <2>3, <2>4, <2>5 DEF InvNext
<1>2. QED
  BY <1>1, InventoryInvariant, PTL DEF InvSpec

-----------------------------------------------------------------------------
(* Runs of the population scripts *)

Manifest == [edition : Nat, entry : [Product -> Entries]]

\* A run has read a manifest; it writes what it has checked, and the quiz last.
RunOK(r) ==
    /\ r = [of |-> r.of, rows |-> r.rows, checked |-> r.checked, quiz |-> r.quiz]
    /\ r = NoRun \/ r.of \in Manifest
    /\ DOMAIN r.rows \subseteq r.checked
    /\ r.quiz # Missing => DOMAIN r.rows = Product

PnTypeOK ==
    /\ manifest \in Manifest
    /\ balance \in [Product -> Nat \union {Missing}]
    /\ movements \in [Product -> [opening : Nat \union {Missing}, sold : Nat]]
    /\ DOMAIN run = Process /\ run = [p \in Process |-> run[p]]
    /\ \A p \in Process : RunOK(run[p])

\* Nothing is booked of a product before it is installed.
BookFits(f) == balance[f] = Missing => movements[f].opening = Missing /\ movements[f].sold = 0

\* One run writes at a time, and its movements fit until it commits.
OneWriter ==
    /\ \A p, q \in Process : p # q => run[p].checked = {} \/ run[q].checked = {}
    /\ \A p \in Process : run[p] # NoRun =>
        \A f \in Product \intersect DOMAIN run[p].rows : MovementFits(f, run[p].of.entry[f])

PnInv ==
    /\ PnTypeOK
    /\ \A f \in Product : BookFits(f)
    /\ OneWriter
    /\ StockIsOpenedOnce

-----------------------------------------------------------------------------
LEMMA NoRunFields ==
    /\ NoRun.checked = {} /\ DOMAIN NoRun.rows = {} /\ NoRun.quiz = Missing
    /\ NoRun = [of |-> Missing, rows |-> NoRun.rows, checked |-> {}, quiz |-> Missing]
    /\ RunOK(NoRun)
BY DEF NoRun, RunOK

LEMMA PnInitHolds == PnInit => PnInv
<1> SUFFICES ASSUME PnInit PROVE PnInv
  OBVIOUS
<1>1. manifest \in Manifest
  BY DEF PnInit, Manifest, Entries, Availability
<1>2. /\ \A p \in Process : run[p] = NoRun
      /\ \A f \in Product : balance[f] = Missing /\ movements[f] = [opening |-> Missing, sold |-> 0]
  BY DEF PnInit
<1>3. PnTypeOK
  BY <1>1, <1>2, NoRunFields DEF PnInit, PnTypeOK
<1>4. OneWriter
  BY <1>2, NoRunFields DEF OneWriter
<1>5. QED
  BY <1>2, <1>3, <1>4 DEF PnInv, BookFits, StockIsOpenedOnce

\* One run makes a step, and neither the manifest nor the books change.
LEMMA RunStep ==
    ASSUME PnInv, NEW p \in Process, NEW r, PnGoto(p, r), UNCHANGED <<manifest, balance, movements>>,
           RunOK(r),
           r.checked = {} \/ \A q \in Process \ {p} : run[q].checked = {},
           r # NoRun => \A f \in Product \intersect DOMAIN r.rows : MovementFits(f, r.of.entry[f])
    PROVE  PnInv'
<1>1. /\ manifest' = manifest /\ balance' = balance /\ movements' = movements
      /\ \A q \in Process : run'[q] = IF q = p THEN r ELSE run[q]
  BY DEF PnInv, PnTypeOK, PnGoto
<1>2. PnTypeOK'
  BY <1>1 DEF PnInv, PnTypeOK, PnGoto
<1>3. ASSUME NEW f \in Product PROVE BookFits(f)'
  BY <1>1 DEF PnInv, BookFits
<1>4. OneWriter'
  <2>1. ASSUME NEW q \in Process, run'[q] # NoRun, NEW f \in Product \intersect DOMAIN run'[q].rows
        PROVE  MovementFits(f, run[q].of.entry[f])'
    <3>1. CASE q = p
      BY <1>1, <2>1, <3>1 DEF MovementFits
    <3>2. CASE q # p
      <4>1. run'[q] = run[q] /\ MovementFits(f, run[q].of.entry[f])
        BY <1>1, <2>1, <3>2 DEF PnInv, OneWriter
      <4>2. QED
        BY <1>1, <4>1 DEF MovementFits
    <3>3. QED
      BY <3>1, <3>2
  <2>2. \A q, s \in Process : q # s => run'[q].checked = {} \/ run'[s].checked = {}
    BY <1>1 DEF PnInv, OneWriter
  <2>3. QED
    BY <2>1, <2>2 DEF OneWriter
<1>5. StockIsOpenedOnce'
  BY <1>1 DEF PnInv, StockIsOpenedOnce
<1>6. QED
  BY <1>2, <1>3, <1>4, <1>5 DEF PnInv

\* A refused run, and one whose process ends.
LEMMA RunEnds ==
    ASSUME PnInv, NEW p \in Process, PnGoto(p, NoRun), UNCHANGED <<manifest, balance, movements>>
    PROVE  PnInv'
BY NoRunFields, RunStep

\* What the invariant says of a run, in parts.
RunFields(p) ==
    /\ run[p] = [of |-> run[p].of, rows |-> run[p].rows, checked |-> run[p].checked, quiz |-> run[p].quiz]
    /\ DOMAIN run[p].rows \subseteq run[p].checked
    /\ run[p].quiz # Missing => DOMAIN run[p].rows = Product
    /\ run[p].of \in Manifest

RunReads(p) ==
    /\ run[p].checked = {} \/ \A q \in Process \ {p} : run[q].checked = {}
    /\ \A f \in Product \intersect DOMAIN run[p].rows : MovementFits(f, run[p].of.entry[f])

LEMMA RunFacts ==
    ASSUME PnInv, NEW p \in Process, run[p] # NoRun
    PROVE  RunFields(p) /\ RunReads(p)
BY DEF PnInv, PnTypeOK, RunOK, BookFits, OneWriter, RunFields, RunReads

LEMMA StepsOfARun ==
    ASSUME PnInv, NEW p \in Process,
           \/ Validate(p) \/ WriteQuiz(p) \/ RollBack(p)
           \/ \E f \in Product : CheckProduct(p, f) \/ WriteProduct(p, f)
    PROVE  PnInv'
<1>1. CASE Validate(p)
  <2>1. PICK next : PnGoto(p, next) /\ next = [NoRun EXCEPT !.of = manifest]
    BY <1>1 DEF Validate
  <2>2. next = [of |-> manifest, rows |-> NoRun.rows, checked |-> {}, quiz |-> Missing]
    BY <2>1, NoRunFields
  <2>3. RunOK(next) /\ next.of = manifest /\ next.checked = {} /\ DOMAIN next.rows = {}
    BY <2>2, NoRunFields DEF RunOK, PnInv, PnTypeOK
  <2>4. QED
    BY <1>1, <2>1, <2>3, RunStep DEF Validate, pnRows
<1>2. CASE RollBack(p)
  BY <1>2, RunEnds DEF RollBack, pnRows
<1>3. CASE WriteQuiz(p)
  <2>1. CASE ~Answerable(Seen(p))
    BY <1>3, <2>1, RunEnds DEF WriteQuiz, pnRows
  <2>2. CASE Answerable(Seen(p))
    <3>1. PICK next : PnGoto(p, next) /\ next = [run[p] EXCEPT !.quiz = run[p].of.edition]
      BY <1>3, <2>2 DEF WriteQuiz
    <3>2. run[p] # NoRun /\ DOMAIN run[p].rows = Product
      BY <1>3 DEF WriteQuiz
    <3>0. RunFields(p) /\ RunReads(p)
      BY <3>2, RunFacts
    <3>3. /\ next = [of |-> run[p].of, rows |-> run[p].rows, checked |-> run[p].checked, quiz |-> run[p].of.edition]
      BY <3>0, <3>1 DEF RunFields
    <3>4. RunOK(next) /\ next.of = run[p].of /\ next.rows = run[p].rows /\ next.checked = run[p].checked
      BY <3>0, <3>2, <3>3 DEF RunOK, RunFields
    <3>5. QED
      BY <1>3, <3>0, <3>1, <3>2, <3>4, RunStep DEF WriteQuiz, pnRows, RunReads
  <2>3. QED
    BY <2>1, <2>2
<1>4. ASSUME NEW f \in Product, CheckProduct(p, f) PROVE PnInv'
  <2>1. run[p] # NoRun /\ \A q \in Process \ {p} : run[q].checked = {}
    BY <1>4 DEF CheckProduct, Holds
  <2>0. RunFields(p) /\ RunReads(p)
    BY <2>1, RunFacts
  <2>2. CASE PnGoto(p, NoRun)
    BY <1>4, <2>2, RunEnds DEF CheckProduct, pnRows
  <2>3. CASE PnGoto(p, [run[p] EXCEPT !.checked = run[p].checked \union {f}])
    <3>1. PICK next : PnGoto(p, next) /\ next = [run[p] EXCEPT !.checked = run[p].checked \union {f}]
      BY <2>3
    <3>2. next = [of |-> run[p].of, rows |-> run[p].rows, checked |-> run[p].checked \union {f}, quiz |-> run[p].quiz]
      BY <2>0, <3>1 DEF RunFields
    <3>3. RunOK(next) /\ next.of = run[p].of /\ next.rows = run[p].rows
      BY <2>0, <2>1, <3>2 DEF RunOK, RunFields
    <3>4. QED
      BY <1>4, <2>0, <2>1, <3>1, <3>3, RunStep DEF CheckProduct, pnRows, RunReads
  <2>4. QED
    BY <1>4, <2>2, <2>3 DEF CheckProduct
<1>5. ASSUME NEW f \in Product, WriteProduct(p, f) PROVE PnInv'
  <2>1. run[p] # NoRun /\ f \in run[p].checked
    BY <1>5 DEF WriteProduct
  <2>0. RunFields(p) /\ RunReads(p)
    BY <2>1, RunFacts
  <2>2. CASE PnGoto(p, NoRun)
    BY <1>5, <2>2, RunEnds DEF WriteProduct, pnRows
  <2>3. CASE MovementFits(f, run[p].of.entry[f]) /\ ~PnGoto(p, NoRun)
    <3>1. PICK rows, next :
              /\ rows = Over([g \in {f} |-> RowFor(p, f)], run[p].rows)
              /\ PnGoto(p, next) /\ next = [run[p] EXCEPT !.rows = rows]
      BY <1>5, <2>3 DEF WriteProduct
    <3>2. DOMAIN rows = {f} \union DOMAIN run[p].rows
      BY <3>1 DEF Over
    <3>3. next = [of |-> run[p].of, rows |-> rows, checked |-> run[p].checked, quiz |-> run[p].quiz]
      BY <2>0, <3>1 DEF RunFields
    <3>4. RunOK(next) /\ next.of = run[p].of /\ next.rows = rows /\ next.checked = run[p].checked
      BY <2>0, <2>1, <3>2, <3>3 DEF RunOK, RunFields
    <3>5. \A g \in Product \intersect DOMAIN next.rows : MovementFits(g, next.of.entry[g])
      BY <2>0, <2>3, <3>2, <3>4 DEF RunReads
    <3>6. UNCHANGED <<manifest, balance, movements>>
      BY <1>5 DEF WriteProduct, pnRows
    <3>7. next.checked = {} \/ \A q \in Process \ {p} : run[q].checked = {}
      BY <2>0, <3>4 DEF RunReads
    <3>8. QED
      BY <3>1, <3>4, <3>5, <3>6, <3>7, RunStep
  <2>4. QED
    BY <1>5, <2>2, <2>3 DEF WriteProduct
<1>6. QED
  BY <1>1, <1>2, <1>3, <1>4, <1>5

LEMMA ReviseManifestHolds ==
    ASSUME PnInv, NEW f \in Product, NEW e \in Entries, ReviseManifest(f, e)
    PROVE  PnInv'
<1>1. /\ balance' = balance /\ movements' = movements /\ run' = run
      /\ manifest' = [edition |-> manifest.edition + 1, entry |-> [manifest.entry EXCEPT ![f] = e]]
  BY DEF ReviseManifest, pnRows
<1>2. manifest' \in Manifest
  BY <1>1 DEF PnInv, PnTypeOK, Manifest
<1>3. PnTypeOK'
  BY <1>1, <1>2 DEF PnInv, PnTypeOK
<1>4. \A g \in Product : BookFits(g)'
  BY <1>1 DEF PnInv, BookFits
<1>5. OneWriter' /\ StockIsOpenedOnce'
  BY <1>1 DEF PnInv, OneWriter, StockIsOpenedOnce, MovementFits
<1>6. QED
  BY <1>3, <1>4, <1>5 DEF PnInv

LEMMA SellHolds ==
    ASSUME PnInv, NEW f \in Product, Sell(f)
    PROVE  PnInv'
<1>1. /\ balance[f] \in Nat /\ balance[f] > 0 /\ balance[f] # Missing
      /\ movements[f].sold \in Nat /\ movements[f].opening \in Nat \union {Missing}
  BY DEF Sell, PnInv, PnTypeOK
<1>2. balance[f] - 1 \in Nat /\ movements[f].sold + 1 \in Nat /\ balance[f] - 1 # Missing
  BY <1>1, PopulationAssumption
<1>3. PICK m : m = [movements[f] EXCEPT !.sold = movements[f].sold + 1] /\ movements' = [movements EXCEPT ![f] = m]
  BY DEF Sell
<1>4. m = [opening |-> movements[f].opening, sold |-> movements[f].sold + 1]
  BY <1>3 DEF PnInv, PnTypeOK
<1>5. /\ manifest' = manifest /\ run' = run /\ balance' = [balance EXCEPT ![f] = balance[f] - 1]
  BY DEF Sell
<1>6. /\ \A g \in Product : balance'[g] = IF g = f THEN balance[f] - 1 ELSE balance[g]
      /\ \A g \in Product : movements'[g] = IF g = f THEN m ELSE movements[g]
      /\ \A g \in Product : movements'[g].opening = movements[g].opening
  BY <1>3, <1>4, <1>5 DEF PnInv, PnTypeOK
<1>7. PnTypeOK'
  BY <1>1, <1>2, <1>3, <1>4, <1>5 DEF PnInv, PnTypeOK
<1>8. ASSUME NEW g \in Product PROVE BookFits(g)'
  BY <1>1, <1>2, <1>5, <1>6 DEF PnInv, BookFits
<1>9. OneWriter'
  BY <1>5, <1>6 DEF PnInv, OneWriter, MovementFits
<1>10. ASSUME NEW g \in Product, balance'[g] # Missing
       PROVE  \/ movements'[g].opening # Missing /\ balance'[g] = movements'[g].opening - movements'[g].sold
              \/ balance'[g] = 0 /\ movements'[g].sold = 0
  <2>1. CASE g # f
    BY <1>6, <1>10, <2>1 DEF PnInv, StockIsOpenedOnce
  <2>2. CASE g = f
    <3>1. movements[f].opening # Missing /\ balance[f] = movements[f].opening - movements[f].sold
      BY <1>1 DEF PnInv, StockIsOpenedOnce
    <3>2. balance'[g] = balance[f] - 1 /\ movements'[g].opening = movements[f].opening
          /\ movements'[g].sold = movements[f].sold + 1
      BY <1>4, <1>6, <2>2
    <3>3. movements[f].opening \in Nat
      BY <1>1, <3>1
    <3>4. QED
      BY <1>1, <3>1, <3>2, <3>3
  <2>3. QED
    BY <2>1, <2>2
<1>11. QED
  BY <1>7, <1>8, <1>9, <1>10 DEF PnInv, StockIsOpenedOnce

\* A commit opens what had no balance and leaves the others alone.  Its opening
\* movements fit those that are there, as no other run wrote meanwhile.
LEMMA CommitRunHolds ==
    ASSUME PnInv, NEW p \in Process, CommitRun(p)
    PROVE  PnInv'
<1>1. run[p] # NoRun /\ DOMAIN run[p].rows = Product /\ Product \subseteq run[p].checked
  BY RunFacts DEF CommitRun, RunFields
<1>0. RunFields(p) /\ RunReads(p)
  BY <1>1, RunFacts
<1>2. PICK declared : declared = [f \in Product |-> run[p].of.entry[f].stock]
  OBVIOUS
<1>3. ASSUME NEW f \in Product
      PROVE  /\ declared[f] \in Nat /\ declared[f] # Missing
             /\ declared[f] = 0 \/ movements[f].opening \in {Missing, declared[f]}
  <2>1. declared[f] = run[p].of.entry[f].stock
    BY <1>2
  <2>2. declared[f] \in Nat
    BY <1>0, <2>1 DEF Manifest, Entries, RunFields
  <2>3. MovementFits(f, run[p].of.entry[f])
    BY <1>0, <1>1 DEF RunReads
  <2>4. QED
    BY <2>1, <2>2, <2>3, PopulationAssumption DEF MovementFits
<1>4. manifest' = manifest /\ run' = [run EXCEPT ![p] = NoRun]
  BY DEF CommitRun, PnGoto
<1>5. \A q \in Process : run'[q] = IF q = p THEN NoRun ELSE run[q]
  BY <1>4 DEF PnInv, PnTypeOK
<1>6. ASSUME NEW f \in Product
      PROVE  /\ movements[f] \in [opening : Nat \union {Missing}, sold : Nat] /\ movements[f].sold \in Nat
             /\ balance[f] \in Nat \union {Missing}
             /\ balance'[f] = IF balance[f] = Missing THEN declared[f] ELSE balance[f]
             /\ declared[f] = 0 => movements'[f] = movements[f]
             /\ declared[f] # 0 => movements'[f] = [opening |-> declared[f], sold |-> movements[f].sold]
             /\ declared[f] # 0 => movements'[f].opening = declared[f] /\ movements'[f].sold = movements[f].sold
  <2>1. movements[f] \in [opening : Nat \union {Missing}, sold : Nat] /\ balance[f] \in Nat \union {Missing}
    BY DEF PnInv, PnTypeOK
  <2>2. balance'[f] = IF balance[f] = Missing THEN declared[f] ELSE balance[f]
    BY <1>2 DEF CommitRun, OpenedOrKept
  <2>3. movements'[f] = IF declared[f] = 0 THEN movements[f] ELSE [movements[f] EXCEPT !.opening = declared[f]]
    BY <1>2 DEF CommitRun
  <2>4. [movements[f] EXCEPT !.opening = declared[f]] = [opening |-> declared[f], sold |-> movements[f].sold]
    BY <2>1
  <2>5. QED
    BY <2>1, <2>2, <2>3, <2>4
<1>7. ASSUME NEW f \in Product
      PROVE  movements'[f] \in [opening : Nat \union {Missing}, sold : Nat]
  <2>1. CASE declared[f] = 0
    BY <1>6, <2>1
  <2>2. CASE declared[f] # 0
    <3>1. movements'[f] = [opening |-> declared[f], sold |-> movements[f].sold]
      BY <1>6, <2>2
    <3>2. declared[f] \in Nat /\ movements[f].sold \in Nat
      BY <1>3, <1>6
    <3>3. QED
      BY <3>1, <3>2
  <2>3. QED
    BY <2>1, <2>2
<1>8. PnTypeOK'
  <2>1. balance' \in [Product -> Nat \union {Missing}]
    <3>1. balance' = [f \in Product |-> balance'[f]]
      BY DEF CommitRun
    <3>2. \A f \in Product : balance'[f] \in Nat \union {Missing}
      BY <1>3, <1>6
    <3>3. QED
      BY <3>1, <3>2
  <2>2. movements' \in [Product -> [opening : Nat \union {Missing}, sold : Nat]]
    <3>1. movements' = [f \in Product |-> movements'[f]]
      BY DEF CommitRun
    <3>2. QED
      BY <1>7, <3>1
  <2>3. QED
    BY <1>4, <1>5, <2>1, <2>2, NoRunFields DEF PnInv, PnTypeOK
<1>9. ASSUME NEW f \in Product
      PROVE  /\ BookFits(f)'
             /\ \/ movements'[f].opening # Missing /\ balance'[f] = movements'[f].opening - movements'[f].sold
                \/ balance'[f] = 0 /\ movements'[f].sold = 0
  <2>1. balance[f] = Missing => movements[f].opening = Missing /\ movements[f].sold = 0
    BY DEF PnInv, BookFits
  <2>2. BookFits(f)'
    BY <1>3, <1>6 DEF BookFits
  <2>3. CASE balance[f] = Missing
    <3>1. movements[f].sold = 0 /\ balance'[f] = declared[f]
      BY <1>6, <2>1, <2>3
    <3>2. CASE declared[f] = 0
      BY <1>6, <2>2, <3>1, <3>2
    <3>3. CASE declared[f] # 0
      <4>1. movements'[f].opening = declared[f] /\ movements'[f].sold = 0
        BY <1>6, <3>1, <3>3
      <4>2. declared[f] \in Nat /\ declared[f] # Missing
        BY <1>3
      <4>3. QED
        BY <2>2, <3>1, <4>1, <4>2
    <3>4. QED
      BY <3>2, <3>3
  <2>4. CASE balance[f] # Missing
    <3>1. /\ balance'[f] = balance[f]
          /\ \/ movements[f].opening # Missing /\ balance[f] = movements[f].opening - movements[f].sold
             \/ balance[f] = 0 /\ movements[f].sold = 0
      BY <1>6, <2>4 DEF PnInv, StockIsOpenedOnce
    <3>2. CASE declared[f] = 0
      BY <1>6, <2>2, <3>1, <3>2
    <3>3. CASE declared[f] # 0
      BY <1>3, <1>6, <2>2, <3>1, <3>3
    <3>4. QED
      BY <3>2, <3>3
  <2>5. QED
    BY <2>3, <2>4
<1>10. OneWriter'
  <2>1. \A q \in Process \ {p} : Product # {} => run[q].checked = {}
    BY <1>0, <1>1 DEF RunReads
  <2>2. \A q \in Process \ {p} : Product \intersect DOMAIN run[q].rows = {}
    BY <2>1 DEF PnInv, PnTypeOK, RunOK
  <2>3. \A q, s \in Process : q # s => run'[q].checked = {} \/ run'[s].checked = {}
    BY <1>5, NoRunFields DEF PnInv, OneWriter
  <2>4. \A q \in Process : Product \intersect DOMAIN run'[q].rows = {}
    BY <1>5, <2>2, NoRunFields
  <2>5. QED
    BY <2>3, <2>4 DEF OneWriter
<1>11. QED
  BY <1>8, <1>9, <1>10 DEF PnInv, StockIsOpenedOnce

LEMMA PnNextHolds ==
    ASSUME PnInv, [PnNext]_pnVars
    PROVE  PnInv'
<1>1. ASSUME UNCHANGED <<manifest, balance, movements, run>> PROVE PnInv'
  BY <1>1 DEF PnInv, PnTypeOK, BookFits, OneWriter, MovementFits, StockIsOpenedOnce
<1>2. CASE UNCHANGED pnVars
  BY <1>1, <1>2 DEF pnVars, pnRows
<1>3. ASSUME NEW g, NEW slug, NEW notes, NEW active, AdministratorSaves(g, slug, notes, active) PROVE PnInv'
  BY <1>1, <1>3 DEF AdministratorSaves
<1>4. CASE PnNext
  BY <1>3, <1>4, SellHolds, ReviseManifestHolds, StepsOfARun, CommitRunHolds DEF PnNext
<1>5. QED
  BY <1>2, <1>4

\* One run writes the catalogue at a time, and what it has checked of the opening
\* movements stays as it was until it commits.
THEOREM PopulationInvariant == PnSpec => []PnInv
<1>1. QED
  BY PnInitHolds, PnNextHolds, PTL DEF PnSpec

\* A run opens a balance with its movement or leaves the balance alone: the units
\* on hand are those of the opening movement less what was sold, or the product
\* was installed without stock, after any number of runs of any editions.
THEOREM StockStaysOpenedOnce == PnSpec => []StockIsOpenedOnce
<1>1. PnInv => StockIsOpenedOnce
  BY DEF PnInv
<1>2. QED
  BY <1>1, PopulationInvariant, PTL

Perfumes == Product \union {Demo}

\* The quiz and the perfumes are of one edition of the manifest, but for the
\* perfumes that an administrator saved since.
WholeEdition == \A g \in Perfumes : catalog[g] # Missing => catalog[g].edition \in {0, quiz}

SlugsAreUnique ==
    \A g, h \in Perfumes : catalog[g] # Missing /\ catalog[h] # Missing /\ catalog[g].slug = catalog[h].slug => g = h

\* What a run has written is of its manifest, and nothing else takes its slugs.
RowFits(r, f) ==
    /\ r.rows[f] \in InstalledRow /\ r.rows[f].slug = f /\ r.rows[f].edition = r.of.edition
    /\ \A g \in Perfumes \ {f} : catalog[g] # Missing => catalog[g].slug # f

RunWrites(r) ==
    /\ DOMAIN r.rows \subseteq Product
    /\ r.quiz # Missing => r.quiz = r.of.edition
    /\ \A f \in DOMAIN r.rows : RowFits(r, f)

CatalogTypeOK ==
    /\ catalog = [g \in Perfumes |-> catalog[g]]
    /\ \A g \in Perfumes : catalog[g] \in InstalledRow \/ (catalog[g] = Missing /\ g # Demo)
    /\ catalog[Demo].edition = 0

CatalogInv ==
    /\ PnInv
    /\ CatalogTypeOK
    /\ WholeEdition
    /\ SlugsAreUnique
    /\ \A p \in Process : RunWrites(run[p])

LEMMA NoRunWrites == RunWrites(NoRun)
BY NoRunFields DEF RunWrites

LEMMA CatalogInitHolds == PnInit => CatalogInv
<1> SUFFICES ASSUME PnInit PROVE CatalogInv
  OBVIOUS
<1>1. /\ catalog = [g \in Perfumes |-> catalog[g]]
      /\ \A g \in Perfumes : catalog[g] = IF g # Demo THEN Missing ELSE
                [slug |-> Demo, active |-> TRUE, edition |-> 0, notes |-> {}, availability |-> "AVAILABLE"]
  BY DEF PnInit, Perfumes
<1>2. \A p \in Process : run[p] = NoRun
  BY DEF PnInit
<1>3. catalog[Demo].edition = 0 /\ catalog[Demo] \in InstalledRow
  <2>1. PICK row : row = [slug |-> Demo, active |-> TRUE, edition |-> 0, notes |-> {}, availability |-> "AVAILABLE"]
    OBVIOUS
  <2>2. row \in InstalledRow /\ row.edition = 0
    BY <2>1 DEF InstalledRow, Availability
  <2>3. QED
    BY <1>1, <2>1, <2>2 DEF Perfumes
<1>4. CatalogTypeOK
  BY <1>1, <1>3 DEF CatalogTypeOK
<1>5. WholeEdition /\ SlugsAreUnique
  BY <1>1, <1>3 DEF WholeEdition, SlugsAreUnique
<1>6. QED
  BY <1>2, <1>4, <1>5, NoRunWrites, PnInitHolds DEF CatalogInv

\* One run makes a step that neither reads nor writes the store.
LEMMA RunWritesStep ==
    ASSUME CatalogInv, PnInv', NEW p \in Process, NEW r, PnGoto(p, r), UNCHANGED <<catalog, quiz>>, RunWrites(r)
    PROVE  CatalogInv'
<1>1. \A q \in Process : run'[q] = IF q = p THEN r ELSE run[q]
  BY DEF CatalogInv, PnInv, PnTypeOK, PnGoto
<1>2. \A q \in Process : RunWrites(run[q])'
  BY <1>1 DEF CatalogInv, RunWrites, RowFits
<1>3. QED
  BY <1>2 DEF CatalogInv, CatalogTypeOK, WholeEdition, SlugsAreUnique

LEMMA CatalogRunSteps ==
    ASSUME CatalogInv, PnInv', NEW p \in Process,
           \/ Validate(p) \/ WriteQuiz(p) \/ RollBack(p)
           \/ \E f \in Product : CheckProduct(p, f) \/ WriteProduct(p, f)
    PROVE  CatalogInv'
<1>1. UNCHANGED <<catalog, quiz>>
  BY DEF Validate, WriteQuiz, RollBack, CheckProduct, WriteProduct, pnRows
<1>2. CASE PnGoto(p, NoRun)
  BY <1>1, <1>2, NoRunWrites, RunWritesStep
<1>3. CASE Validate(p)
  <2>1. PICK next : PnGoto(p, next) /\ next = [NoRun EXCEPT !.of = manifest]
    BY <1>3 DEF Validate
  <2>2. DOMAIN next.rows = {} /\ next.quiz = Missing
    BY <2>1, NoRunFields
  <2>3. RunWrites(next)
    BY <2>2 DEF RunWrites
  <2>4. QED
    BY <1>1, <2>1, <2>3, RunWritesStep
<1>4. CASE WriteQuiz(p) /\ ~PnGoto(p, NoRun)
  <2>1. RunFields(p)
    BY <1>4, RunFacts DEF CatalogInv, WriteQuiz
  <2>2. PICK next : PnGoto(p, next) /\ next = [run[p] EXCEPT !.quiz = run[p].of.edition]
    BY <1>4 DEF WriteQuiz
  <2>3. next.of = run[p].of /\ next.rows = run[p].rows /\ next.quiz = run[p].of.edition
    BY <2>1, <2>2 DEF RunFields
  <2>4. RunWrites(next)
    BY <2>3 DEF CatalogInv, RunWrites, RowFits
  <2>5. QED
    BY <1>1, <2>2, <2>4, RunWritesStep
<1>5. ASSUME NEW f \in Product, CheckProduct(p, f), ~PnGoto(p, NoRun) PROVE CatalogInv'
  <2>1. RunFields(p)
    BY <1>5, RunFacts DEF CatalogInv, CheckProduct
  <2>2. PICK next : PnGoto(p, next) /\ next = [run[p] EXCEPT !.checked = run[p].checked \union {f}]
    BY <1>5 DEF CheckProduct
  <2>3. next.of = run[p].of /\ next.rows = run[p].rows /\ next.quiz = run[p].quiz
    BY <2>1, <2>2 DEF RunFields
  <2>4. RunWrites(next)
    BY <2>3 DEF CatalogInv, RunWrites, RowFits
  <2>5. QED
    BY <1>1, <2>2, <2>4, RunWritesStep
<1>6. ASSUME NEW f \in Product, WriteProduct(p, f), ~PnGoto(p, NoRun) PROVE CatalogInv'
  <2>1. RunFields(p)
    BY <1>6, RunFacts DEF CatalogInv, WriteProduct
  <2>2. PICK row : row = RowFor(p, f)
    OBVIOUS
  <2>3. PICK rows, next :
            /\ rows = Over([g \in {f} |-> row], run[p].rows)
            /\ PnGoto(p, next) /\ next = [run[p] EXCEPT !.rows = rows]
    BY <1>6, <2>2 DEF WriteProduct
  <2>4. /\ DOMAIN rows = {f} \union DOMAIN run[p].rows
        /\ \A g \in DOMAIN rows : rows[g] = IF g = f THEN row ELSE run[p].rows[g]
    BY <2>3 DEF Over
  <2>5. next.of = run[p].of /\ next.rows = rows /\ next.quiz = run[p].quiz
    BY <2>1, <2>3 DEF RunFields
  <2>6. row \in InstalledRow /\ row.slug = f /\ row.edition = run[p].of.edition
    <3>1. /\ run[p].of.edition \in Nat /\ run[p].of.entry[f].notes \subseteq Note
          /\ run[p].of.entry[f].availability \in Availability
      BY <2>1 DEF RunFields, Manifest, Entries
    <3>2. Seen(p)[f] = Missing \/ Seen(p)[f] \in InstalledRow
      <4>1. f \in DOMAIN catalog /\ f \in Perfumes
        BY DEF CatalogInv, CatalogTypeOK, Perfumes
      <4>2. Seen(p)[f] = IF f \in DOMAIN run[p].rows THEN run[p].rows[f] ELSE catalog[f]
        BY <4>1 DEF Seen, Over
      <4>3. QED
        BY <4>1, <4>2 DEF CatalogInv, CatalogTypeOK, RunWrites, RowFits
    <3>3. PICK notes : notes \subseteq Note /\
            row = [slug |-> f, active |-> TRUE, edition |-> run[p].of.edition, notes |-> notes,
                   availability |-> run[p].of.entry[f].availability]
      BY <2>2, <3>1, <3>2 DEF RowFor, InstalledRow
    <3>4. QED
      BY <3>1, <3>3 DEF InstalledRow, Perfumes
  <2>7. \A g \in Perfumes \ {f} : catalog[g] # Missing => catalog[g].slug # f
    BY <1>6 DEF WriteProduct, CatalogInv, CatalogTypeOK
  <2>8. \A g \in DOMAIN rows : RowFits(next, g)
    <3>1. RowFits(next, f)
      BY <2>4, <2>5, <2>6, <2>7 DEF RowFits
    <3>2. ASSUME NEW g \in DOMAIN run[p].rows, g # f PROVE RowFits(next, g)
      BY <2>4, <2>5, <3>2 DEF CatalogInv, RunWrites, RowFits
    <3>3. QED
      BY <2>4, <3>1, <3>2
  <2>9. RunWrites(next)
    BY <2>4, <2>5, <2>8 DEF CatalogInv, RunWrites
  <2>10. QED
    BY <1>1, <2>3, <2>9, RunWritesStep
<1>7. CASE RollBack(p)
  BY <1>2, <1>7 DEF RollBack
<1>8. QED
  BY <1>2, <1>3, <1>4, <1>5, <1>6, <1>7

\* An administrator takes no slug that a run has written.
LEMMA SavesHold ==
    ASSUME CatalogInv, PnInv', NEW g \in Perfumes, NEW slug \in Perfumes, NEW notes \in SUBSET Note, NEW active \in BOOLEAN,
           AdministratorSaves(g, slug, notes, active)
    PROVE  CatalogInv'
<1>1. catalog[g] \in InstalledRow /\ catalog[g] # Missing
  BY DEF AdministratorSaves, CatalogInv, CatalogTypeOK
<1>2. PICK row : row = [catalog[g] EXCEPT !.slug = slug, !.notes = notes, !.active = active, !.edition = 0]
              /\ catalog' = [catalog EXCEPT ![g] = row]
  BY DEF AdministratorSaves
<1>3. row \in InstalledRow /\ row.slug = slug /\ row.edition = 0
  BY <1>1, <1>2 DEF InstalledRow, Perfumes
<1>4. /\ catalog' = [h \in Perfumes |-> catalog'[h]]
      /\ \A h \in Perfumes : catalog'[h] = IF h = g THEN row ELSE catalog[h]
  BY <1>2 DEF CatalogInv, CatalogTypeOK
<1>5. Demo \in Perfumes /\ UNCHANGED <<quiz, run>>
  BY DEF Perfumes, AdministratorSaves
<1>6. CatalogTypeOK' /\ WholeEdition'
  BY <1>3, <1>4, <1>5 DEF CatalogInv, CatalogTypeOK, WholeEdition
<1>7. \A h \in Perfumes \ {g} : catalog[h] # Missing => catalog[h].slug # slug
  BY DEF AdministratorSaves, CatalogInv, CatalogTypeOK
<1>8. SlugsAreUnique'
  BY <1>3, <1>4, <1>7 DEF CatalogInv, SlugsAreUnique
<1>9. ASSUME NEW p \in Process PROVE RunWrites(run[p])'
  <2>1. slug \notin DOMAIN run[p].rows
    BY DEF AdministratorSaves, Writing
  <2>2. QED
    BY <1>3, <1>4, <1>5, <2>1 DEF CatalogInv, RunWrites, RowFits
<1>10. QED
  BY <1>6, <1>8, <1>9 DEF CatalogInv

\* A commit replaces every product, and the quiz with them.
LEMMA CommitInstalls ==
    ASSUME CatalogInv, PnInv', NEW p \in Process, CommitRun(p)
    PROVE  CatalogInv'
<1>1. run[p] # NoRun /\ run[p].quiz # Missing
  BY DEF CommitRun
<1>2. RunFields(p) /\ RunReads(p) /\ RunWrites(run[p])
  BY <1>1, RunFacts DEF CatalogInv
<1>3. DOMAIN run[p].rows = Product /\ run[p].quiz = run[p].of.edition
  BY <1>1, <1>2 DEF RunFields, RunWrites
<1>4. /\ catalog = [g \in Perfumes |-> catalog[g]] /\ catalog[Demo] \in InstalledRow /\ catalog[Demo].edition = 0
      /\ Demo \in Perfumes /\ Demo \notin Product
  BY PopulationAssumption DEF CatalogInv, CatalogTypeOK, Perfumes
<1>5. PICK row : row = [catalog[Demo] EXCEPT !.active = FALSE]
  OBVIOUS
<1>6. row \in InstalledRow /\ row.slug = catalog[Demo].slug /\ row.edition = 0
  BY <1>4, <1>5 DEF InstalledRow
<1>7. /\ catalog' = [g \in Perfumes |-> catalog'[g]]
      /\ \A g \in Product : catalog'[g] = run[p].rows[g]
      /\ catalog'[Demo] = row
  <2>1. DOMAIN Seen(p) = Perfumes
    BY <1>3, <1>4 DEF Seen, Over, Perfumes
  <2>2. \A g \in Perfumes : Seen(p)[g] = IF g \in Product THEN run[p].rows[g] ELSE catalog[g]
    BY <1>3, <1>4 DEF Seen, Over, Perfumes
  <2>3. PICK seen : seen = Seen(p)
    OBVIOUS
  <2>4. catalog' = [seen EXCEPT ![Demo] = [seen[Demo] EXCEPT !.active = FALSE]]
    BY <2>3 DEF CommitRun
  <2>5. seen = [g \in Perfumes |-> seen[g]]
    BY <2>1, <2>3 DEF Seen, Over
  <2>6. seen[Demo] = catalog[Demo]
    BY <1>4, <2>2, <2>3
  <2>7. catalog' = [seen EXCEPT ![Demo] = row]
    BY <1>5, <2>4, <2>6
  <2>8. QED
    BY <1>4, <2>2, <2>3, <2>5, <2>7 DEF Perfumes
<1>8. ASSUME NEW g \in Product
      PROVE  /\ catalog'[g] \in InstalledRow /\ catalog'[g].slug = g /\ catalog'[g].edition = run[p].of.edition
             /\ catalog[Demo] # Missing => row.slug # g
  BY <1>2, <1>3, <1>4, <1>6, <1>7 DEF RunWrites, RowFits
<1>9. quiz' = run[p].of.edition
  BY <1>3 DEF CommitRun, WithQuiz
<1>10. CatalogTypeOK'
  BY <1>4, <1>6, <1>7, <1>8 DEF CatalogTypeOK, Perfumes
<1>11. WholeEdition'
  BY <1>6, <1>7, <1>8, <1>9 DEF WholeEdition, Perfumes
<1>12. catalog[Demo] # Missing
  BY <1>4, MissingIsNoPerfume
<1>13. SlugsAreUnique'
  BY <1>6, <1>7, <1>8, <1>12 DEF SlugsAreUnique, Perfumes
<1>14. ASSUME NEW q \in Process PROVE RunWrites(run[q])'
  <2>1. run'[q] = IF q = p THEN NoRun ELSE run[q]
    BY DEF CommitRun, PnGoto, CatalogInv, PnInv, PnTypeOK
  <2>2. CASE q = p
    BY <2>1, <2>2, NoRunFields DEF RunWrites
  <2>3. CASE q # p
    <3>1. DOMAIN run[q].rows = {}
      BY <1>2, <1>3, <2>3 DEF RunReads, RunFields, CatalogInv, PnInv, PnTypeOK, RunOK, RunWrites
    <3>2. QED
      BY <2>1, <2>3, <3>1 DEF CatalogInv, RunWrites
  <2>4. QED
    BY <2>2, <2>3
<1>15. QED
  BY <1>10, <1>11, <1>13, <1>14 DEF CatalogInv

LEMMA CatalogNextHolds ==
    ASSUME CatalogInv, PnInv', [PnNext]_pnVars
    PROVE  CatalogInv'
<1>1. ASSUME UNCHANGED <<catalog, quiz, run>> PROVE CatalogInv'
  BY <1>1 DEF CatalogInv, CatalogTypeOK, WholeEdition, SlugsAreUnique, RunWrites, RowFits
<1>2. CASE UNCHANGED pnVars
  BY <1>1, <1>2 DEF pnVars, pnRows
<1>3. ASSUME NEW f \in Product, Sell(f) \/ \E e \in Entries : ReviseManifest(f, e) PROVE CatalogInv'
  BY <1>1, <1>3 DEF Sell, ReviseManifest, pnRows
<1>4. CASE PnNext
  BY <1>3, <1>4, SavesHold, CatalogRunSteps, CommitInstalls DEF PnNext, Perfumes
<1>5. QED
  BY <1>2, <1>4

THEOREM CatalogInvariant == PnSpec => []CatalogInv
<1>1. QED
  BY CatalogInitHolds, CatalogNextHolds, PopulationInvariant, PTL DEF PnSpec

\* populateApprovedCatalogue and the quiz commit in one transaction, last run
\* wins: at every moment the quiz and the products are of one edition.
THEOREM EditionsAreWhole == PnSpec => []WholeEdition
<1>1. CatalogInv => WholeEdition
  BY DEF CatalogInv
<1>2. QED
  BY <1>1, CatalogInvariant, PTL

\* assertCatalogueIdentity reads the slugs before a run writes, and the rows it
\* wrote are locked: no administrator and no run makes two perfumes of one slug.
THEOREM NoSlugTwice == PnSpec => []SlugsAreUnique
<1>1. CatalogInv => SlugsAreUnique
  BY DEF CatalogInv
<1>2. QED
  BY <1>1, CatalogInvariant, PTL
=============================================================================
