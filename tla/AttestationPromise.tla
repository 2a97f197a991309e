------------------------- MODULE AttestationPromise --------------------------
(***************************************************************************)
(* What calls of GetAttestationVC promise, each on its own and whatever    *)
(* else runs: the service grants a call's request at most once, for the    *)
(* payload and the DID the call asked with; a call that succeeds was       *)
(* granted its request; a call that ended stays as it is.                  *)
(***************************************************************************)
EXTENDS Naturals, Sequences

CONSTANT Requests

VARIABLES asked,   \* the request of every call
          granted, \* whether the service granted it
          result   \* "none" while the call runs, then "ok" or "error"

vars == <<asked, granted, result>>

Init == asked = <<>> /\ granted = <<>> /\ result = <<>>

Ask ==
    /\ \E r \in Requests : asked' = Append(asked, r)
    /\ granted' = Append(granted, FALSE)
    /\ \E outcome \in {"none", "error"} : result' = Append(result, outcome)

Granting(i) == ~granted[i] /\ granted' = [granted EXCEPT ![i] = TRUE]

Grant(i) == result[i] = "none" /\ Granting(i) /\ UNCHANGED <<asked, result>>

Succeed(i) ==
    /\ result[i] = "none" /\ granted[i]
    /\ result' = [result EXCEPT ![i] = "ok"]
    /\ UNCHANGED <<asked, granted>>

(* The grant may be the last thing that happened to a call that fails.        *)
Fail(i) ==
    /\ result[i] = "none"
    /\ result' = [result EXCEPT ![i] = "error"]
    /\ Granting(i) \/ UNCHANGED granted
    /\ UNCHANGED asked

Next == Ask \/ \E i \in DOMAIN asked : Grant(i) \/ Succeed(i) \/ Fail(i)

Spec == Init /\ [][Next]_vars
=============================================================================
