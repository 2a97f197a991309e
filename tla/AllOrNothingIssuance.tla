----------------------- MODULE AllOrNothingIssuance -------------------------
(***************************************************************************)
(* What a RequestCredential call promises the app that makes it: between   *)
(* calls the app settles which credential types it wants; a call, once     *)
(* started, returns exactly one credential of each wanted type, in their   *)
(* order, or none at all.                                                  *)
(***************************************************************************)
EXTENDS Naturals, Sequences

VARIABLES status, \* "working", or how the last call ended
          want,   \* the types wanted
          got     \* the types of the credentials returned

vars == <<status, want, got>>

Ended == {"none", "vcs", "error", "panic"}

Init == status = "none" /\ want \in Seq(Nat) /\ got = <<>>

Choose == /\ status \in Ended
          /\ want' \in Seq(Nat)
          /\ UNCHANGED <<status, got>>

Start == /\ status \in Ended
         /\ status' = "working" /\ got' = <<>>
         /\ UNCHANGED want

Return == /\ status = "working"
          /\ status' = "vcs" /\ got' = want
          /\ UNCHANGED want

(* A call may also be refused at once, and a crash may come at any time.      *)
Fail == /\ status' \in {"error", "panic"} /\ got' = <<>>
        /\ UNCHANGED want

Next == Choose \/ Start \/ Return \/ Fail

Spec == Init /\ [][Next]_vars
=============================================================================
