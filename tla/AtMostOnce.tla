------------------------------ MODULE AtMostOnce ------------------------------
(***************************************************************************)
(* What an idempotency key promises its callers: attempts to run the       *)
(* guarded mutation follow one another, an attempt that did not succeed    *)
(* leaves the key open, and the first success fixes the result for good.   *)
(***************************************************************************)
CONSTANTS Keys, Results, NoResult

VARIABLES phase, result

vars == <<phase, result>>

Init ==
  /\ phase = [k \in Keys |-> "open"]
  /\ result = [k \in Keys |-> NoResult]

Begin(k) ==
  /\ phase[k] = "open"
  /\ phase' = [phase EXCEPT ![k] = "busy"]
  /\ UNCHANGED result

Succeed(k, x) ==
  /\ phase[k] = "busy"
  /\ phase' = [phase EXCEPT ![k] = "done"]
  /\ result' = [result EXCEPT ![k] = x]

Abandon(k) ==
  /\ phase[k] = "busy"
  /\ phase' = [phase EXCEPT ![k] = "open"]
  /\ UNCHANGED result

Next ==
  \E k \in Keys : Begin(k) \/ Abandon(k) \/ \E x \in Results : Succeed(k, x)

Spec == Init /\ [][Next]_vars

=============================================================================
