--------------------------- MODULE MCFulfilment -----------------------------
(* Small instances of Fulfilment. *)
EXTENDS Fulfilment, TLC

\* Requests, orders and keys are interchangeable.
Symmetry == Permutations(Process) \union Permutations(Order) \union Permutations(Key)
=============================================================================
