---------------------- MODULE MCIssuerAcknowledgment ------------------------
(***************************************************************************)
(* Instances of IssuerAcknowledgment for TLC.                              *)
(***************************************************************************)
EXTENDS IssuerAcknowledgment

(* Events are opaque to the objects.                                          *)
OneEvent == {1}
=============================================================================
