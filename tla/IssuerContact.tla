---------------------------- MODULE IssuerContact ----------------------------
(***************************************************************************)
(* What an interaction learns of an issuer before it asks for credentials: *)
(* the offer and its grants, the metadata the issuer publishes, and the    *)
(* domain that vouches for it (pkg/openid4ci, pkg/internal/issuermetadata, *)
(* pkg/did/wellknown).                                                     *)
(*                                                                         *)
(* The issuer may publish other metadata at any time; an interaction keeps *)
(* what it fetched first.  DID documents and the configurations of domains *)
(* are given.  Any request may fail.                                       *)
(***************************************************************************)
EXTENDS Outcomes, Sequences

CONSTANTS
    OfferURIs,     \* the URIs an app may be handed, see getCredentialOffer
    Metadata,      \* what the issuer may publish
    DIDDocs,       \* [did -> [resolvable, services]]
    DomainConfigs, \* [domain -> the DIDs its configuration lists]
    MaxPublished,  \* bound: versions of the metadata
    MaxCalls       \* bound: calls of the app

ASSUME ContactBoundsAssumption == MaxPublished \in Nat \ {0} /\ MaxCalls \in Nat

(* Parameters of a grant are never nil, nor an error.                         *)
ASSUME GrantsAssumption ==
    \A b \in BOOLEAN : {[pinRequired |-> b], [issuerState |-> b]} \intersect {None, Error} = {}

(* The services of a DID document and the IDs of an offer are lists.          *)
ASSUME DIDDocsAssumption == \A did \in DOMAIN DIDDocs : IsList(DIDDocs[did].services)
ASSUME OffersAssumption ==
    \A uri \in OfferURIs : uri.offer # Error => IsList(uri.offer.ids)

(* Published metadata is a record, whoever signs it, that names no key yet.   *)
ASSUME MetadataAssumption ==
    \A m \in Metadata :
        /\ DOMAIN m = {"version", "host", "signed", "jwtKID", "registration", "displays", "configs"}
        /\ m.jwtKID = None
        /\ \A n \in 1..MaxPublished : \A kid \in {None} \union DOMAIN DIDDocs :
              [m EXCEPT !.version = n, !.jwtKID = kid] # None
        /\ m.signed # None => m.signed.did \in DOMAIN DIDDocs

VARIABLES
    published,   \* the metadata the issuer serves, with its version
    interaction, \* the interaction object, None before it exists
    answer,      \* what the last call returned
    told,        \* versions of the metadata the interaction answered from
    calls        \* calls made

contactVars == <<published, interaction, answer, told, calls>>

-----------------------------------------------------------------------------
(* Issuer metadata, fetched as JSON.  With signed_metadata in it, the object  *)
(* is the payload of that JWT, whose signature must check, and it remembers   *)
(* the DID of the key.                                                        *)

issuerMetadataObjectFromJWT(m, verifier) ==
    IF verifier /\ m.signed.valid /\ m.signed.kid THEN [m EXCEPT !.jwtKID = m.signed.did] ELSE Error

responseBytesToIssuerMetadataObject(m, verifier) ==
    IF m.signed = None THEN m ELSE issuerMetadataObjectFromJWT(m, verifier)

(* Verifier: whether the caller can check signatures, as interactions can.    *)
Get(reached, verifier) ==
    IF reached THEN responseBytesToIssuerMetadataObject(published, verifier) ELSE Error

-----------------------------------------------------------------------------
(* Domain linkage: the first service of the type LinkedDomains counts, and a  *)
(* document with a service whose type is no string before it is refused.      *)

getLinkedDomainsService(services) ==
    LET odd    == {i \in DOMAIN services : services[i].type = None}
        linked == {i \in DOMAIN services : EqualFold(services[i].type, "LinkedDomains")}
        stops  == odd \union linked
    IN  IF stops = {} THEN None
        ELSE LET first == CHOOSE i \in stops : \A j \in stops : i <= j
             IN  IF first \in odd THEN Error ELSE services[first]

VerifyDIDAndDomain(did, domain) ==
    domain \in DOMAIN DomainConfigs /\ did \in DomainConfigs[domain]

ValidateLinkedDomainsUnchecked(did) ==
    LET service == getLinkedDomainsService(DIDDocs[did].services)
    IN  IF ~DIDDocs[did].resolvable \/ service = Error THEN Error
        ELSE IF service = None THEN [valid |-> FALSE, domain |-> None]
        ELSE IF service.uri = None THEN Error
        ELSE [valid |-> TRUE, domain |-> service.uri]
ValidateLinkedDomains(did) ==
    LET service == getLinkedDomainsService(DIDDocs[did].services)
    IN  IF ~DIDDocs[did].resolvable \/ service = Error THEN Error
        ELSE IF service = None THEN [valid |-> FALSE, domain |-> None]
        ELSE IF service.uri = None THEN Error
        ELSE [valid |-> VerifyDIDAndDomain(did, service.uri), domain |-> service.uri]

(* Without signed metadata only the host of the issuer's URI is known.        *)
issuerBasicTrustInfo(m) ==
    IF m.jwtKID = None THEN [did |-> None, domain |-> m.host, valid |-> FALSE]
    ELSE LET linked == ValidateLinkedDomains(m.jwtKID)
         IN  IF linked = Error THEN Error
             ELSE [did |-> m.jwtKID, domain |-> linked.domain, valid |-> linked.valid]

-----------------------------------------------------------------------------
(* A credential offer.  A URI has a scheme and carries the offer itself or    *)
(* its address; an offer has configuration IDs and the raw parameters of its  *)
(* grants: the fields present, each with the type of its value.               *)

getCredentialOffer(uri, reached) ==
    IF uri.scheme # "openid-credential-offer" THEN Error
    ELSE CASE uri.carries = "credential_offer"     -> uri.offer
           [] uri.carries = "credential_offer_uri" -> IF reached THEN uri.offer ELSE Error
           [] OTHER -> Error

processPreAuthorizedCodeGrantParams(raw) ==
    IF "pre-authorized_code" \notin DOMAIN raw THEN Error
    ELSE IF raw["pre-authorized_code"] # "string" THEN Error
    ELSE IF "tx_code" \notin DOMAIN raw THEN [pinRequired |-> FALSE]
    ELSE IF raw["tx_code"] = "object" THEN [pinRequired |-> TRUE] ELSE Error

processAuthorizationCodeGrantParams(raw) ==
    IF "issuer_state" \notin DOMAIN raw THEN [issuerState |-> FALSE]
    ELSE IF raw["issuer_state"] = "string" THEN [issuerState |-> TRUE] ELSE Error

preAuthorizedGrantType == "urn:ietf:params:oauth:grant-type:pre-authorized_code"
authorizationCodeGrantType == "authorization_code"

(* One bad grant spoils an offer, even when the other one is fine.            *)
determineIssuerGrantCapabilitiesGoodOnes(grants) ==
    LET known   == {preAuthorizedGrantType, authorizationCodeGrantType} \intersect DOMAIN grants
        preAuth == IF preAuthorizedGrantType \notin known THEN None
                   ELSE processPreAuthorizedCodeGrantParams(grants[preAuthorizedGrantType])
        auth    == IF authorizationCodeGrantType \notin known THEN None
                   ELSE processAuthorizationCodeGrantParams(grants[authorizationCodeGrantType])
    IN  IF {preAuth, auth} \subseteq {None, Error} THEN Error
        ELSE [preAuth |-> IF preAuth = Error THEN None ELSE preAuth,
              auth    |-> IF auth = Error THEN None ELSE auth]
determineIssuerGrantCapabilities(grants) ==
    LET known   == {preAuthorizedGrantType, authorizationCodeGrantType} \intersect DOMAIN grants
        preAuth == IF preAuthorizedGrantType \notin known THEN None
                   ELSE processPreAuthorizedCodeGrantParams(grants[preAuthorizedGrantType])
        auth    == IF authorizationCodeGrantType \notin known THEN None
                   ELSE processAuthorizationCodeGrantParams(grants[authorizationCodeGrantType])
    IN  IF known = {} \/ preAuth = Error \/ auth = Error THEN Error
        ELSE [preAuth |-> preAuth, auth |-> auth]

SupportedFormats == {"jwt_vc_json", "jwt_vc_json-ld", "ldp_vc"}

(* The IDs are looked up in their order, up to the first bad one.  A          *)
(* configuration without credential definition is dereferenced.               *)
ParameterFailure(id, configs) ==
    IF id \notin DOMAIN configs THEN Error
    ELSE IF configs[id].definition = None THEN Panic
    ELSE IF configs[id].format \notin SupportedFormats THEN Error
    ELSE None

ParametersFailure(ids, configs) ==
    LET bad == {i \in DOMAIN ids : ParameterFailure(ids[i], configs) # None}
    IN  IF bad = {} THEN None
        ELSE ParameterFailure(ids[CHOOSE i \in bad : \A j \in bad : i <= j], configs)

determineCredentialParameters(ids, configs) ==
    [types    |-> [i \in DOMAIN ids |-> configs[ids[i]].definition.types],
     formats  |-> [i \in DOMAIN ids |-> configs[ids[i]].format],
     contexts |-> [i \in DOMAIN ids |-> configs[ids[i]].format = "ldp_vc"]]

-----------------------------------------------------------------------------
(* The issuer and the app.                                                    *)

Versioned(m, n) == [m EXCEPT !.version = n]

(* What a call returns: a result, or a failure.                               *)
Answer(call) == [call |-> call, failure |-> None]
Failed(call, failure) == [call |-> "none", failed |-> call, failure |-> failure]

ContactInit ==
    /\ published \in {Versioned(m, 1) : m \in Metadata}
    /\ interaction = None /\ answer = Answer("none") /\ told = {} /\ calls = 0

Publish ==
    /\ answer.failure # Panic
    /\ published.version < MaxPublished
    /\ \E m \in Metadata :
          /\ Versioned(m, published.version) # published
          /\ published' = Versioned(m, published.version + 1)
    /\ UNCHANGED <<interaction, answer, told, calls>>

Running == answer.failure # Panic /\ calls < MaxCalls

Created(kind, uri, m, grants, params) ==
    [kind |-> kind, uri |-> uri, issuerMetadata |-> m,
     preAuth |-> grants.preAuth, auth |-> grants.auth,
     types |-> params.types, formats |-> params.formats, contexts |-> params.contexts]

NoGrants == [preAuth |-> None, auth |-> None]
NoParameters == [types |-> <<>>, formats |-> <<>>, contexts |-> <<>>]

(* What NewIssuerInitiatedInteraction makes of an offer, of the metadata and  *)
(* of the metrics logger's answer: a failure, or an interaction.              *)
CreationFailure(offer, m, logged) ==
    IF offer = Error \/ m = Error THEN Error
    ELSE IF determineIssuerGrantCapabilities(offer.grants) = Error THEN Error
    ELSE IF ParametersFailure(offer.ids, m.configs) # None THEN ParametersFailure(offer.ids, m.configs)
    ELSE IF logged THEN None ELSE Error

NewIssuerInitiatedInteraction(uri) ==
    /\ Running /\ interaction = None
    /\ \E offered, reached, logged \in BOOLEAN :
          LET offer   == getCredentialOffer(uri, offered)
              m       == Get(reached, TRUE)
              failure == CreationFailure(offer, m, logged)
          IN  IF failure # None
              THEN answer' = Failed("New", failure) /\ interaction' = None /\ told' = {}
              ELSE /\ answer' = Answer("New")
                   /\ interaction' = Created("issuer", uri, m,
                                             determineIssuerGrantCapabilities(offer.grants),
                                             determineCredentialParameters(offer.ids, m.configs))
                   /\ told' = {m.version}
    /\ calls' = calls + 1
    /\ UNCHANGED published

NewWalletInitiatedInteraction ==
    /\ Running /\ interaction = None
    /\ \E logged \in BOOLEAN :
          /\ answer' = IF logged THEN Answer("New") ELSE Failed("New", Error)
          /\ interaction' = IF logged THEN Created("wallet", None, None, NoGrants, NoParameters)
                            ELSE None
    /\ told' = {}
    /\ calls' = calls + 1
    /\ UNCHANGED published

populateIssuerMetadataAnew(reached) == Get(reached, TRUE)
populateIssuerMetadata(reached) ==
    IF interaction.issuerMetadata # None THEN interaction.issuerMetadata ELSE Get(reached, TRUE)

(* A call that needs the metadata fetches it at most once in the life of the  *)
(* interaction.  Reply gives its result from the metadata.                    *)
Ask(Reply(_)) ==
    /\ Running /\ interaction # None
    /\ \E reached \in BOOLEAN :
          LET m == populateIssuerMetadata(reached)
          IN  /\ answer' = IF m = Error THEN Failed("Fetch", Error) ELSE Reply(m)
              /\ interaction' = IF m = Error THEN interaction
                                ELSE [interaction EXCEPT !.issuerMetadata = m]
              /\ told' = IF m = Error THEN told ELSE told \union {m.version}
    /\ calls' = calls + 1
    /\ UNCHANGED published

IssuerMetadataReply(m) == [call |-> "IssuerMetadata", failure |-> None, metadata |-> m]
IssuerMetadata == Ask(IssuerMetadataReply)

(* Only for wallet-initiated interactions; the same nil definition as above.  *)
SupportedCredentialsReply(m) ==
    IF \E id \in DOMAIN m.configs : m.configs[id].definition = None THEN Failed("SupportedCredentials", Panic)
    ELSE [call |-> "SupportedCredentials", failure |-> None,
          supported |-> {<<m.configs[id].format, m.configs[id].definition.types>> :
                           id \in DOMAIN m.configs}]
SupportedCredentials == interaction # None /\ interaction.kind = "wallet" /\ Ask(SupportedCredentialsReply)

RegistrationSupportedReply(m) ==
    [call |-> "DynamicClientRegistrationSupported", failure |-> None, is |-> m.registration]
DynamicClientRegistrationSupported == Ask(RegistrationSupportedReply)

RegistrationEndpointReply(m) ==
    IF m.registration THEN Answer("DynamicClientRegistrationEndpoint")
    ELSE Failed("DynamicClientRegistrationEndpoint", Error)
DynamicClientRegistrationEndpoint == Ask(RegistrationEndpointReply)

VerifyIssuerReply(m) ==
    LET trust == issuerBasicTrustInfo(m)
    IN  IF trust = Error THEN Failed("VerifyIssuer", Error)
        ELSE IF trust.valid THEN [call |-> "VerifyIssuer", failure |-> None, domain |-> trust.domain]
        ELSE Failed("VerifyIssuer", Error)
VerifyIssuer == Ask(VerifyIssuerReply)

IssuerTrustInfoReply(m) ==
    LET trust == issuerBasicTrustInfo(m)
    IN  IF trust = Error THEN Failed("IssuerTrustInfo", Error)
        ELSE [call |-> "IssuerTrustInfo", failure |-> None, did |-> trust.did, domain |-> trust.domain,
              offers |-> {<<interaction.formats[i], interaction.types[i]>> :
                            i \in DOMAIN interaction.formats}]
IssuerTrustInfo == interaction # None /\ interaction.kind = "issuer" /\ Ask(IssuerTrustInfoReply)

(* Reading the grants of the offer.                                           *)
ReadGrant(grant) ==
    /\ Running /\ interaction # None /\ interaction.kind = "issuer"
    /\ answer' = IF grant = None THEN Failed("GrantParams", Error)
                 ELSE [call |-> "GrantParams", failure |-> None, params |-> grant]
    /\ calls' = calls + 1
    /\ UNCHANGED <<published, interaction, told>>

PreAuthorizedCodeGrantParams == interaction # None /\ ReadGrant(interaction.preAuth)
AuthorizationCodeGrantParams == interaction # None /\ ReadGrant(interaction.auth)

ContactNext ==
    \/ Publish
    \/ \E uri \in OfferURIs : NewIssuerInitiatedInteraction(uri)
    \/ NewWalletInitiatedInteraction
    \/ IssuerMetadata
    \/ SupportedCredentials
    \/ DynamicClientRegistrationSupported
    \/ DynamicClientRegistrationEndpoint
    \/ PreAuthorizedCodeGrantParams
    \/ AuthorizationCodeGrantParams
    \/ VerifyIssuer
    \/ IssuerTrustInfo

-----------------------------------------------------------------------------
(* Everything an interaction says of its issuer, and what it was made with,   *)
(* comes from one version of the metadata, however often the issuer replaces  *)
(* it (populateIssuerMetadata).                                               *)
OneVersionOfTheIssuer == Cardinality(told) <= 1

(* An issuer-initiated interaction exists only for an offer that names a      *)
(* known grant and spoils none: the pre-authorized code and the issuer state  *)
(* are strings, the transaction code is an object, and the interaction says   *)
(* that a PIN or a state is required where the offer has one.  It asks for    *)
(* configurations its metadata has in a format the SDK can request, and       *)
(* supports exactly the grants of the offer.                                  *)
MadeFromSoundOffers ==
    (interaction # None /\ interaction.kind = "issuer") =>
        LET offer == interaction.uri.offer
            m     == interaction.issuerMetadata
        IN  /\ interaction.preAuth # None \/ interaction.auth # None
            /\ (interaction.preAuth # None) <=>
                   (preAuthorizedGrantType \in DOMAIN offer.grants)
            /\ (interaction.auth # None) <=> (authorizationCodeGrantType \in DOMAIN offer.grants)
            /\ interaction.preAuth # None =>
                   LET raw == offer.grants[preAuthorizedGrantType]
                   IN  /\ "pre-authorized_code" \in DOMAIN raw
                       /\ raw["pre-authorized_code"] = "string"
                       /\ "tx_code" \in DOMAIN raw => raw["tx_code"] = "object"
                       /\ interaction.preAuth.pinRequired <=> ("tx_code" \in DOMAIN raw)
            /\ interaction.auth # None =>
                   LET raw == offer.grants[authorizationCodeGrantType]
                   IN  /\ "issuer_state" \in DOMAIN raw => raw["issuer_state"] = "string"
                       /\ interaction.auth.issuerState <=> ("issuer_state" \in DOMAIN raw)
            /\ Len(interaction.types) = Len(offer.ids)
            /\ \A i \in DOMAIN offer.ids :
                  /\ offer.ids[i] \in DOMAIN m.configs
                  /\ m.configs[offer.ids[i]].format \in {"jwt_vc_json", "jwt_vc_json-ld", "ldp_vc"}
                  /\ interaction.types[i] = m.configs[offer.ids[i]].definition.types

(* VerifyIssuer names a domain only when the key that signed the metadata the *)
(* interaction holds belongs to a DID that links to the domain, and the       *)
(* domain's own configuration lists that DID.                                 *)
VerifiedIssuerOwnsDomain ==
    answer.call = "VerifyIssuer" =>
        LET signed == interaction.issuerMetadata.signed
        IN  /\ signed # None /\ signed.valid
            /\ signed.did \in DomainConfigs[answer.domain]
            /\ \E i \in DOMAIN DIDDocs[signed.did].services :
                  /\ EqualFold(DIDDocs[signed.did].services[i].type, "LinkedDomains")
                  /\ DIDDocs[signed.did].services[i].uri = answer.domain
=============================================================================
