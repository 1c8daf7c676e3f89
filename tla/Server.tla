------------------------------- MODULE Server -------------------------------
(***************************************************************************)
(* What the services outside the order path share: the requests being      *)
(* served at once.  Every service reads rows, calls a provider or answers  *)
(* between its transactions; a call record is what a request remembers     *)
(* from its earlier reads.                                                 *)
(***************************************************************************)
EXTENDS Naturals

CONSTANT Process    \* concurrent requests

Idle == [pc |-> "idle"]
AllIdle == [p \in Process |-> Idle]
=============================================================================
