------------------------------ MODULE OnceOnly ------------------------------
(***************************************************************************)
(* What the services promise of an idempotency key, whatever copies of a   *)
(* request are in flight: the first request that is accepted under the key *)
(* decides its result for good, and every success that is answered under   *)
(* the key is that result.                                                 *)
(***************************************************************************)
CONSTANTS
    Key,
    None        \* the result of a key that no request has used

VARIABLES
    result,     \* result[k]: what was made under key k, or None
    answered    \* the successes that were answered: a key with its result

onceVars == <<result, answered>>

OnceInit ==
    /\ result = [k \in Key |-> None]
    /\ answered = {}

\* The key's first request is accepted, and its caller told.
Accept(k) ==
    /\ result[k] = None /\ result'[k] # None
    /\ result' = [result EXCEPT ![k] = result'[k]]
    /\ answered' = answered \union {<<k, result'[k]>>}

\* A repetition is told the same.
Repeat(k) ==
    /\ result[k] # None
    /\ answered' = answered \union {<<k, result[k]>>}
    /\ UNCHANGED result

OnceNext == \E k \in Key : Accept(k) \/ Repeat(k)

OnceSpec == OnceInit /\ [][OnceNext]_onceVars
=============================================================================
