---------------------------- MODULE MCIssuance ------------------------------
(***************************************************************************)
(* Instances of Issuance for TLC: the offers and issuers of each run.      *)
(***************************************************************************)
EXTENDS Issuance

IssuerOffer(n, preAuth, auth, pin, state) ==
    [kind |-> "issuer", n |-> n, preAuth |-> preAuth, auth |-> auth, pin |-> pin,
     issuerState |-> state]

(* Authorization code flow: one and two credentials, and wallet-initiated.    *)
AuthOffers == {IssuerOffer(1, FALSE, TRUE, FALSE, 1),
               IssuerOffer(2, FALSE, TRUE, FALSE, 0),
               [IssuerOffer(1, FALSE, TRUE, FALSE, 0) EXCEPT !.kind = "wallet"]}

(* Pre-authorized flow: none to three credentials, with and without a PIN.    *)
PreAuthOffers == {IssuerOffer(0, TRUE, FALSE, FALSE, 0),
                  IssuerOffer(1, TRUE, FALSE, TRUE, 0),
                  IssuerOffer(3, TRUE, FALSE, FALSE, 0)}

SingleFlowOffers == AuthOffers \cup PreAuthOffers

(* Offers with both grants, of which an empty one can only crash, and a       *)
(* wallet-initiated flow.                                                     *)
MixedOffers == {IssuerOffer(0, TRUE, TRUE, FALSE, 0),
                IssuerOffer(2, TRUE, TRUE, FALSE, 0),
                [IssuerOffer(1, FALSE, TRUE, FALSE, 0) EXCEPT !.kind = "wallet"]}

(* One offer per divergence from the comments.                                *)
TwoPreAuthorized == {IssuerOffer(2, TRUE, FALSE, FALSE, 0)}

IssuerOf(batch, tokenEndpoint, oneTime, acks) ==
    [batch |-> batch, tokenEndpoint |-> tokenEndpoint, oneTimeNonce |-> oneTime,
     ackIDs |-> acks]

(* One by one with one-time nonces and notification IDs, one by one with      *)
(* neither, batching (which the authorization code flow ignores) with IDs,    *)
(* and without a token endpoint.                                              *)
AllIssuers == {IssuerOf(FALSE, TRUE, TRUE, TRUE), IssuerOf(FALSE, TRUE, FALSE, FALSE),
               IssuerOf(TRUE, TRUE, FALSE, TRUE), IssuerOf(FALSE, FALSE, FALSE, FALSE)}
OneByOneIssuer == {IssuerOf(FALSE, TRUE, FALSE, TRUE)}
AckingIssuers == {IssuerOf(b, TRUE, FALSE, TRUE) : b \in BOOLEAN}
=============================================================================
