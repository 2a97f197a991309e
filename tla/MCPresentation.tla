--------------------------- MODULE MCPresentation ---------------------------
(***************************************************************************)
(* A wallet with a JWT and an LD credential of one holder, an LD one of    *)
(* another and one without subject ID; a verifier that asks for two things.*)
(***************************************************************************)
EXTENDS Presentation

MCCredentials == {"jwt1", "ldp1", "ldp2", "nobody"}
MCDIDs == {"did1", "did2"}
MCHolder == [jwt1 |-> "did1", ldp1 |-> "did1", ldp2 |-> "did2", nobody |-> ""]
MCSatisfying == <<{"jwt1", "ldp1", "nobody"}, {"ldp1", "ldp2"}>>

Current == [scheme |-> "did", issuer |-> TRUE, proof |-> TRUE,
            response_uri |-> "https://verifier", redirect_uri |-> "",
            definition |-> TRUE, claims_definition |-> FALSE,
            formats |-> "ldp_vp", registration_formats |-> "none", id_token |-> TRUE]
Old == [Current EXCEPT !.scheme = "", !.response_uri = "", !.redirect_uri = "https://verifier",
                       !.definition = FALSE, !.claims_definition = TRUE,
                       !.formats = "none", !.registration_formats = "ldp_vp"]

MCRequestObjects ==
    {Current, Old,
     [Current EXCEPT !.formats = "jwt_vp", !.id_token = FALSE],
     [Current EXCEPT !.scheme = "redirect_uri", !.issuer = FALSE, !.proof = FALSE,
                     !.formats = "none"],
     [Current EXCEPT !.proof = FALSE], [Current EXCEPT !.issuer = FALSE],
     [Current EXCEPT !.scheme = "x509"],
     [Current EXCEPT !.scheme = "redirect_uri", !.response_uri = "https://other"]}
MCClientIDs == {"https://verifier"}
=============================================================================
