----------------------------- MODULE MCPayments -----------------------------
(* Small instances of Payments. *)
EXTENDS Payments, TLC

CONSTANTS o1, o2, o3, v1, v2, c1

\* All want v1, and o1 has a second line.
ThreeOrders ==
    o1 :> (v1 :> 1 @@ v2 :> 2) @@ o2 :> (v1 :> 1 @@ v2 :> 0) @@ o3 :> (v1 :> 1 @@ v2 :> 0)

\* Enough v1 for one of them, and for two once a batch is released.
ScarceStock == v1 :> 1 @@ v2 :> 2

\* Orders of one unit each.
OneUnitEach == [o \in Order |-> [v \in Variant |-> 1]]

OneUnit == [v \in Variant |-> 1]
OneBuyer == [o \in Order |-> c1]
BatchOfV1 == [b \in Batch |-> v1]
OneUnitBatches == [b \in Batch |-> 1]

Touched(o) == order[o] # "NONE" \/ \E p \in Process : call[p] # Idle /\ call[p].o = o

Recorded == \A b \in Batch : batch[b] = "RECORDED"
TwoRequests == \E p \in Process : call[p] = Idle
FirstAttempts ==
    \A o \in Order :
        /\ payment[o].attemptSequence < 2
        /\ \A p \in Process : call[p].pc = "gateway" => call[p].n < 2

\* One order with two attempts and two ticks, of which the last with two requests
\* and the others with three; two orders with
\* two requests and either a second attempt, or a batch and a tick without a
\* declined one; three orders with two requests and no declined attempt.
OneTwoOrThreeOrders ==
    \/ ~Touched(o1) /\ ~Touched(o2) /\ Recorded /\ (TwoRequests \/ clock < 2)
    \/ /\ TwoRequests
       /\ \/ ~Touched(o3) /\ clock = 0 /\ Recorded
          \/ FirstAttempts /\ declined = {} /\ (clock = 0 \/ (~Touched(o3) /\ clock = 1))

\* Requests are interchangeable.
RequestSymmetry == Permutations(Process)
=============================================================================
