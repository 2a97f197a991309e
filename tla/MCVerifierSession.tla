-------------------------- MODULE MCVerifierSession --------------------------
(***************************************************************************)
(* The wallet and the verifiers of MCPresentation; details with two keys,  *)
(* of which a second object replaces one, and an empty object.             *)
(***************************************************************************)
EXTENDS MCPresentation, VerifierSession

MCDetails == {[visit |-> 1, desk |-> 1], [visit |-> 2], <<>>}

(* The objects pass the reason on as it is.                                   *)
MCReasons == {[error |-> "access_denied", description |-> "no_consent"]}
=============================================================================
