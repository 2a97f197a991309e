--------------------------- MODULE OnboardingProofs ---------------------------
(***************************************************************************)
(* Theorems about Onboarding, for any offers, metadata, domains and        *)
(* credentials: what an interaction says of its issuer is one version of   *)
(* it, and what an app is shown is what its credentials have.              *)
(***************************************************************************)
EXTENDS Onboarding, SequenceTheorems, FiniteSetTheorems, TLAPS

-----------------------------------------------------------------------------
(* Facts about data.                                                          *)

LEMMA Distinct == None # Error /\ None # Panic /\ Error # Panic
<1>1. ASSUME NEW a, NEW b PROVE Cardinality({a, b}) \in Nat /\ Cardinality({a, b}) <= 2
  <2>1. Cardinality({b}) = 1 /\ IsFiniteSet({b})
    BY FS_Singleton
  <2>2. {a, b} = {b} \cup {a}
    OBVIOUS
  <2>3. QED
    BY <2>1, <2>2, FS_AddElement
<1>2. ASSUME None = Error PROVE FALSE
  <2>1. {None, Error, Panic} = {None, Panic}
    BY <1>2
  <2>2. Cardinality({None, Panic}) <= 2
    BY <1>1, Zenon
  <2>3. QED
    BY <2>1, <2>2, OutcomesAssumption
<1>3. ASSUME None = Panic PROVE FALSE
  <2>1. {None, Error, Panic} = {None, Error}
    BY <1>3
  <2>2. QED
    BY <1>1, <2>1, OutcomesAssumption
<1>4. ASSUME Error = Panic PROVE FALSE
  <2>1. {None, Error, Panic} = {None, Error}
    BY <1>4
  <2>2. QED
    BY <1>1, <2>1, OutcomesAssumption
<1>5. QED
  BY <1>2, <1>3, <1>4

(* Stands in for induction: a set of numbers has a least one.                 *)
LEMMA LeastNatural ==
    ASSUME NEW S \in SUBSET Nat, S # {}
    PROVE  \E n \in S : \A m \in S : n <= m
<1>1. \A m, n \in Nat : <<m, n>> \in OpToRel(<, Nat) <=> m < n
  BY DEF OpToRel
<1>2. \E n \in S : \A m \in S : ~(<<m, n>> \in OpToRel(<, Nat))
  BY NatLessThanWellFounded, WFMin
<1>3. PICK n \in S : \A m \in S : ~(<<m, n>> \in OpToRel(<, Nat))
  BY <1>2, Zenon
<1>4. ASSUME NEW m \in S PROVE ~(m < n)
  <2>1. m \in Nat /\ n \in Nat
    OBVIOUS
  <2>2. QED
    BY <1>1, <1>3, <2>1, Zenon
<1>5. QED
  BY <1>4

(* The first place of a list that CHOOSE means.                               *)
LEMMA FirstIsThere ==
    ASSUME NEW S \in SUBSET Nat, S # {}
    PROVE  LET first == CHOOSE i \in S : \A j \in S : i <= j
           IN  first \in S /\ \A j \in S : first <= j
BY LeastNatural

LEMMA ListDomain ==
    ASSUME NEW s, IsList(s)
    PROVE  Len(s) \in Nat /\ DOMAIN s = 1..Len(s) /\ DOMAIN s \in SUBSET Nat
<1>1. PICK n \in Nat : n = Len(s) /\ s = [i \in 1..n |-> s[i]]
  BY DEF IsList
<1>2. DOMAIN s = 1..n
  BY <1>1
<1>3. QED
  BY <1>1, <1>2

LEMMA MappedList ==
    ASSUME NEW s, IsList(s), NEW t, t = [i \in DOMAIN s |-> t[i]]
    PROVE  IsList(t) /\ Len(t) = Len(s) /\ DOMAIN t = DOMAIN s
<1>1. PICK n \in Nat : n = Len(s) /\ DOMAIN s = 1..n
  BY ListDomain
<1>2. t = [i \in 1..n |-> t[i]] /\ Len(t) = n
  BY <1>1
<1>3. QED
  BY <1>1, <1>2 DEF IsList

-----------------------------------------------------------------------------
(* The interaction answers from one version of the metadata: what it was told *)
(* is of the version it holds, and it holds one as soon as it was told one.   *)

Published(m) == \E base \in Metadata, n \in 1..MaxPublished : m = Versioned(base, n)

InteractionFields == {"kind", "uri", "issuerMetadata", "preAuth", "auth", "types", "formats", "contexts"}

ToldInv ==
    /\ Published(published)
    /\ \A v, w \in told : v = w
    /\ interaction # None =>
          /\ interaction = [field \in InteractionFields |-> interaction[field]]
          /\ interaction.issuerMetadata = None => told = {}
          /\ \A v \in told : v = interaction.issuerMetadata.version

(* Metadata as a caller gets it: as published, perhaps with the DID that      *)
(* signed it.                                                                 *)
LEMMA Fetched ==
    ASSUME Published(published), NEW reached, NEW verifier, NEW m,
           m = Get(reached, verifier), m # Error
    PROVE  /\ \/ m = published
              \/ /\ published.signed # None /\ published.signed.valid
                 /\ published.signed.did \in DOMAIN DIDDocs
                 /\ m = [published EXCEPT !.jwtKID = published.signed.did]
           /\ m # None
           /\ published.jwtKID = None
           /\ DOMAIN m = DOMAIN published
           /\ \A field \in DOMAIN m \ {"jwtKID"} : m[field] = published[field]
<1>1. PICK base \in Metadata, n \in 1..MaxPublished : published = Versioned(base, n)
  BY DEF Published
<1>2. DOMAIN base = {"version", "host", "signed", "jwtKID", "registration", "displays", "configs"}
  BY MetadataAssumption
<1>3. published.signed = base.signed /\ published.jwtKID = base.jwtKID /\ published.jwtKID = None
  BY <1>1, <1>2, MetadataAssumption DEF Versioned
<1>4. \/ m = published
      \/ /\ published.signed # None /\ published.signed.valid
         /\ m = [published EXCEPT !.jwtKID = published.signed.did]
  BY DEF Get, responseBytesToIssuerMetadataObject, issuerMetadataObjectFromJWT
<1>5. [published EXCEPT !.jwtKID = published.jwtKID] = published
  BY <1>1, <1>2 DEF Versioned
<1>6. \A kid : [published EXCEPT !.jwtKID = kid] = [base EXCEPT !.version = n, !.jwtKID = kid]
  BY <1>1, <1>2 DEF Versioned
<1>7. \A kid \in {None} \cup DOMAIN DIDDocs : [published EXCEPT !.jwtKID = kid] # None
  <2>1. \A kid \in {None} \cup DOMAIN DIDDocs : [base EXCEPT !.version = n, !.jwtKID = kid] # None
    BY MetadataAssumption, Zenon
  <2>2. QED
    BY <1>6, <2>1
<1>8. published.signed # None => published.signed.did \in DOMAIN DIDDocs
  BY <1>3, MetadataAssumption
<1>9. m # None
  <2>1. CASE m = published
    BY <1>3, <1>5, <1>7, <2>1
  <2>2. CASE published.signed # None /\ m = [published EXCEPT !.jwtKID = published.signed.did]
    BY <1>7, <1>8, <2>2
  <2>3. QED
    BY <1>4, <2>1, <2>2
<1>10. QED
  BY <1>3, <1>4, <1>8, <1>9

(* What all questions have in common: the metadata they answer from is the    *)
(* one the interaction has, or is fetched and then kept.                      *)
Questions ==
    \/ IssuerMetadata
    \/ SupportedCredentials
    \/ DynamicClientRegistrationSupported
    \/ DynamicClientRegistrationEndpoint
    \/ VerifyIssuer
    \/ IssuerTrustInfo

AskedOnce(reached) ==
    LET m == populateIssuerMetadata(reached)
    IN  /\ interaction # None
        /\ published' = published
        /\ m = Error => interaction' = interaction /\ told' = told
        /\ m # Error => /\ interaction' = [interaction EXCEPT !.issuerMetadata = m]
                        /\ told' = told \cup {m.version}

LEMMA QuestionEffect ==
    ASSUME Questions
    PROVE  \E reached \in BOOLEAN : AskedOnce(reached)
<1>1. CASE IssuerMetadata
  BY <1>1 DEF IssuerMetadata, Ask, AskedOnce
<1>2. CASE SupportedCredentials
  BY <1>2 DEF SupportedCredentials, Ask, AskedOnce
<1>3. CASE DynamicClientRegistrationSupported
  BY <1>3 DEF DynamicClientRegistrationSupported, Ask, AskedOnce
<1>4. CASE DynamicClientRegistrationEndpoint
  BY <1>4 DEF DynamicClientRegistrationEndpoint, Ask, AskedOnce
<1>5. CASE VerifyIssuer
  BY <1>5 DEF VerifyIssuer, Ask, AskedOnce
<1>6. CASE IssuerTrustInfo
  BY <1>6 DEF IssuerTrustInfo, Ask, AskedOnce
<1>7. QED
  BY <1>1, <1>2, <1>3, <1>4, <1>5, <1>6 DEF Questions

Reading ==
    ReadIssuer \/ ReadLocalizedIssuer \/ ReadOverview \/ ReadLocalizedOverview \/ ReadClaim \/ ReadSubject

LEMMA OtherSteps ==
    ASSUME [Next]_vars
    PROVE  \/ Publish
           \/ \E uri \in OfferURIs : NewIssuerInitiatedInteraction(uri)
           \/ NewWalletInitiatedInteraction
           \/ Questions
           \/ UNCHANGED <<published, interaction, told>>
<1>1. CASE ContactNext
  BY <1>1 DEF ContactNext, Questions, PreAuthorizedCodeGrantParams, AuthorizationCodeGrantParams, ReadGrant
<1>2. CASE SetOptions
  BY <1>2 DEF SetOptions, contactVars
<1>3. CASE \E list \in Lists : ResolveList("Resolve", list) \/ ResolveList("ResolveCredential", list)
  BY <1>3 DEF ResolveList
<1>4. CASE \E list \in Lists : ResolveCredentialV2(list)
  BY <1>4 DEF ResolveCredentialV2
<1>5. CASE \E id \in DOMAIN Stored : ResolveFromReader(<<id>>)
  BY <1>5 DEF ResolveFromReader
<1>6. CASE DisplayOffer
  BY <1>6 DEF DisplayOffer
<1>7. CASE Save \/ Restore
  BY <1>7 DEF Save, Restore, contactVars
<1>8. CASE Reading
  BY <1>8 DEF Reading, ReadIssuer, ReadLocalizedIssuer, ReadOverview, ReadLocalizedOverview, ReadClaim, ReadSubject, Read
<1>9. CASE UNCHANGED vars
  BY <1>9 DEF vars, contactVars
<1>10. QED
  BY <1>1, <1>2, <1>3, <1>4, <1>5, <1>6, <1>7, <1>8, <1>9 DEF Next, Reading

LEMMA ToldInit == Init => ToldInv
<1>1. ASSUME Init PROVE ToldInv
  <2>1. Published(published)
    <3>1. 1 \in 1..MaxPublished
      BY ContactBoundsAssumption
    <3>2. QED
      BY <1>1, <3>1 DEF Init, ContactInit, Published
  <2>2. QED
    BY <1>1, <2>1 DEF Init, ContactInit, ToldInv
<1>2. QED
  BY <1>1

LEMMA ToldPublish ==
    ASSUME ToldInv, Publish
    PROVE  ToldInv'
<1>1. PICK base \in Metadata, n \in 1..MaxPublished : published = Versioned(base, n)
  BY DEF ToldInv, Published
<1>2. published.version = n
  BY <1>1, MetadataAssumption DEF Versioned
<1>3. n + 1 \in 1..MaxPublished
  BY <1>2, ContactBoundsAssumption DEF Publish
<1>4. Published(published')
  BY <1>2, <1>3 DEF Publish, Published
<1>5. QED
  BY <1>4 DEF ToldInv, Publish, Published

LEMMA ToldNew ==
    ASSUME ToldInv,
           \/ \E uri \in OfferURIs : NewIssuerInitiatedInteraction(uri)
           \/ NewWalletInitiatedInteraction
    PROVE  ToldInv'
<1>1. published' = published
  BY DEF NewIssuerInitiatedInteraction, NewWalletInitiatedInteraction
<1>2. CASE NewWalletInitiatedInteraction
  BY <1>1, <1>2 DEF NewWalletInitiatedInteraction, ToldInv, Created, InteractionFields, Published
<1>3. ASSUME NEW uri \in OfferURIs, NewIssuerInitiatedInteraction(uri)
      PROVE  ToldInv'
  <2>1. PICK offered, reached, logged \in BOOLEAN :
           LET offer   == getCredentialOffer(uri, offered)
               m       == Get(reached, TRUE)
               failure == CreationFailure(offer, m, logged)
           IN  IF failure # None THEN interaction' = None /\ told' = {}
               ELSE /\ interaction' = Created("issuer", uri, m,
                                             determineIssuerGrantCapabilities(offer.grants),
                                             determineCredentialParameters(offer.ids, m.configs))
                    /\ told' = {m.version}
    BY <1>3 DEF NewIssuerInitiatedInteraction
  <2>2. PICK m, offer : m = Get(reached, TRUE) /\ offer = getCredentialOffer(uri, offered)
    OBVIOUS
  <2>3. CASE CreationFailure(offer, m, logged) # None
    <3>1. interaction' = None /\ told' = {}
      BY <2>1, <2>2, <2>3
    <3>2. QED
      BY <1>1, <3>1 DEF ToldInv, Published
  <2>4. CASE CreationFailure(offer, m, logged) = None
    <3>1. m # Error
      BY <2>4, Distinct DEF CreationFailure
    <3>2. m # None
      BY <2>2, <3>1, Fetched DEF ToldInv
    <3>3. /\ interaction' = Created("issuer", uri, m, determineIssuerGrantCapabilities(offer.grants),
                                    determineCredentialParameters(offer.ids, m.configs))
          /\ told' = {m.version}
      BY <2>1, <2>2, <2>4
    <3>4. /\ interaction' = [field \in InteractionFields |-> interaction'[field]]
          /\ interaction'.issuerMetadata = m
      BY <3>3 DEF Created, InteractionFields
    <3>5. QED
      BY <1>1, <3>2, <3>3, <3>4 DEF ToldInv, Published
  <2>5. QED
    BY <2>3, <2>4
<1>4. QED
  BY <1>2, <1>3

LEMMA ToldQuestion ==
    ASSUME ToldInv, Questions
    PROVE  ToldInv'
<1>1. PICK reached \in BOOLEAN : AskedOnce(reached)
  BY QuestionEffect
<1>2. PICK m : m = populateIssuerMetadata(reached)
  OBVIOUS
<1>3. Published(published')
  BY <1>1 DEF AskedOnce, ToldInv
<1>4. CASE m = Error
  BY <1>1, <1>2, <1>3, <1>4 DEF AskedOnce, ToldInv
<1>5. CASE m # Error
  <2>1. interaction' = [interaction EXCEPT !.issuerMetadata = m] /\ told' = told \cup {m.version}
    BY <1>1, <1>2, <1>5 DEF AskedOnce
  <2>2. /\ interaction' = [field \in InteractionFields |-> interaction'[field]]
        /\ interaction'.issuerMetadata = m
    BY <1>1, <2>1 DEF ToldInv, AskedOnce, InteractionFields
  <2>3. m # None /\ (told = {} \/ m = interaction.issuerMetadata)
    BY <1>1, <1>2, <1>5, Fetched DEF ToldInv, AskedOnce, populateIssuerMetadata
  <2>4. told' = {m.version}
    BY <1>1, <2>1, <2>3 DEF ToldInv, AskedOnce
  <2>5. QED
    BY <1>3, <2>2, <2>3, <2>4 DEF ToldInv
<1>6. QED
  BY <1>4, <1>5

LEMMA ToldNext == ToldInv /\ [Next]_vars => ToldInv'
<1>1. ASSUME ToldInv, UNCHANGED <<published, interaction, told>> PROVE ToldInv'
  BY <1>1 DEF ToldInv, Published
<1>2. QED
  BY <1>1, OtherSteps, ToldPublish, ToldNew, ToldQuestion

LEMMA ToldAlways == Spec => []ToldInv
BY ToldInit, ToldNext, PTL DEF Spec

(* Everything an interaction says of its issuer, and what it was made with,   *)
(* comes from one version of the metadata (populateIssuerMetadata).           *)
THEOREM AnswersAreOfOneVersion == Spec => []OneVersionOfTheIssuer
<1>1. ToldInv => OneVersionOfTheIssuer
  <2>1. ASSUME \A v, w \in told : v = w PROVE Cardinality(told) <= 1
    <3>1. CASE told = {}
      BY <3>1, FS_EmptySet
    <3>2. CASE told # {}
      <4>1. PICK v \in told : TRUE
        BY <3>2
      <4>2. told = {v}
        BY <2>1, <4>1
      <4>3. Cardinality(told) = 1
        BY <4>2, FS_Singleton
      <4>4. QED
        BY <4>3
    <3>3. QED
      BY <3>1, <3>2
  <2>2. QED
    BY <2>1 DEF ToldInv, OneVersionOfTheIssuer
<1>2. QED
  BY <1>1, ToldAlways, PTL

-----------------------------------------------------------------------------
(* An interaction is made from a sound offer, and keeps what it was made from *)
(* with the metadata, which its calls do not fetch again.                     *)

(* What the raw parameters of a grant are, for the grant to be made of them.  *)
FitsPreAuth(grant, raw) ==
    /\ "pre-authorized_code" \in DOMAIN raw
    /\ raw["pre-authorized_code"] = "string"
    /\ "tx_code" \in DOMAIN raw => raw["tx_code"] = "object"
    /\ grant.pinRequired <=> ("tx_code" \in DOMAIN raw)
FitsAuth(grant, raw) ==
    /\ "issuer_state" \in DOMAIN raw => raw["issuer_state"] = "string"
    /\ grant.issuerState <=> ("issuer_state" \in DOMAIN raw)

LEMMA SoundPreAuth ==
    ASSUME NEW raw, processPreAuthorizedCodeGrantParams(raw) # Error
    PROVE  /\ processPreAuthorizedCodeGrantParams(raw) # None
           /\ FitsPreAuth(processPreAuthorizedCodeGrantParams(raw), raw)
<1>1. \A b \in BOOLEAN : [pinRequired |-> b] # None
  BY GrantsAssumption
<1>2. "pre-authorized_code" \in DOMAIN raw /\ raw["pre-authorized_code"] = "string"
  BY DEF processPreAuthorizedCodeGrantParams
<1>3. CASE "tx_code" \notin DOMAIN raw
  <2>1. processPreAuthorizedCodeGrantParams(raw) = [pinRequired |-> FALSE]
    BY <1>2, <1>3 DEF processPreAuthorizedCodeGrantParams
  <2>2. PICK grant : grant = processPreAuthorizedCodeGrantParams(raw) /\ grant.pinRequired = FALSE /\ grant # None
    <3>1. PICK grant : grant = [pinRequired |-> FALSE]
      OBVIOUS
    <3>2. grant.pinRequired = FALSE
      BY <3>1
    <3>3. grant # None
      BY <1>1, <3>1, Zenon
    <3>4. grant = processPreAuthorizedCodeGrantParams(raw)
      BY <2>1, <3>1, Zenon
    <3>5. QED
      BY <3>2, <3>3, <3>4, Zenon
  <2>3. QED
    BY <1>2, <1>3, <2>2, Zenon DEF FitsPreAuth
<1>4. CASE "tx_code" \in DOMAIN raw
  <2>1. raw["tx_code"] = "object" /\ processPreAuthorizedCodeGrantParams(raw) = [pinRequired |-> TRUE]
    BY <1>2, <1>4 DEF processPreAuthorizedCodeGrantParams
  <2>2. PICK grant : grant = processPreAuthorizedCodeGrantParams(raw) /\ grant.pinRequired = TRUE /\ grant # None
    <3>1. PICK grant : grant = [pinRequired |-> TRUE]
      OBVIOUS
    <3>2. grant.pinRequired = TRUE
      BY <3>1
    <3>3. grant # None
      BY <1>1, <3>1, Zenon
    <3>4. grant = processPreAuthorizedCodeGrantParams(raw)
      BY <2>1, <3>1, Zenon
    <3>5. QED
      BY <3>2, <3>3, <3>4, Zenon
  <2>3. QED
    BY <1>2, <1>4, <2>1, <2>2, Zenon DEF FitsPreAuth
<1>5. QED
  BY <1>3, <1>4

LEMMA SoundAuth ==
    ASSUME NEW raw, processAuthorizationCodeGrantParams(raw) # Error
    PROVE  /\ processAuthorizationCodeGrantParams(raw) # None
           /\ FitsAuth(processAuthorizationCodeGrantParams(raw), raw)
<1>1. \A b \in BOOLEAN : [issuerState |-> b] # None
  BY GrantsAssumption
<1>2. CASE "issuer_state" \notin DOMAIN raw
  <2>1. processAuthorizationCodeGrantParams(raw) = [issuerState |-> FALSE]
    BY <1>2 DEF processAuthorizationCodeGrantParams
  <2>2. PICK grant : grant = processAuthorizationCodeGrantParams(raw) /\ grant.issuerState = FALSE /\ grant # None
    <3>1. PICK grant : grant = [issuerState |-> FALSE]
      OBVIOUS
    <3>2. grant.issuerState = FALSE
      BY <3>1
    <3>3. grant # None
      BY <1>1, <3>1, Zenon
    <3>4. grant = processAuthorizationCodeGrantParams(raw)
      BY <2>1, <3>1, Zenon
    <3>5. QED
      BY <3>2, <3>3, <3>4, Zenon
  <2>3. QED
    BY <1>2, <2>2, Zenon DEF FitsAuth
<1>3. CASE "issuer_state" \in DOMAIN raw
  <2>1. raw["issuer_state"] = "string" /\ processAuthorizationCodeGrantParams(raw) = [issuerState |-> TRUE]
    BY <1>3 DEF processAuthorizationCodeGrantParams
  <2>2. PICK grant : grant = processAuthorizationCodeGrantParams(raw) /\ grant.issuerState = TRUE /\ grant # None
    <3>1. PICK grant : grant = [issuerState |-> TRUE]
      OBVIOUS
    <3>2. grant.issuerState = TRUE
      BY <3>1
    <3>3. grant # None
      BY <1>1, <3>1, Zenon
    <3>4. grant = processAuthorizationCodeGrantParams(raw)
      BY <2>1, <3>1, Zenon
    <3>5. QED
      BY <3>2, <3>3, <3>4, Zenon
  <2>3. QED
    BY <1>3, <2>1, <2>2, Zenon DEF FitsAuth
<1>4. QED
  BY <1>2, <1>3

LEMMA SoundGrants ==
    ASSUME NEW grants, NEW g, g = determineIssuerGrantCapabilities(grants), g # Error
    PROVE  /\ g.preAuth # None \/ g.auth # None
           /\ g.preAuth # None <=> preAuthorizedGrantType \in DOMAIN grants
           /\ g.auth # None <=> authorizationCodeGrantType \in DOMAIN grants
           /\ g.preAuth # None => FitsPreAuth(g.preAuth, grants[preAuthorizedGrantType])
           /\ g.auth # None => FitsAuth(g.auth, grants[authorizationCodeGrantType])
<1>1. PICK preAuth, auth, known :
         /\ known = {preAuthorizedGrantType, authorizationCodeGrantType} \cap DOMAIN grants
         /\ preAuth = IF preAuthorizedGrantType \notin known THEN None
                      ELSE processPreAuthorizedCodeGrantParams(grants[preAuthorizedGrantType])
         /\ auth = IF authorizationCodeGrantType \notin known THEN None
                   ELSE processAuthorizationCodeGrantParams(grants[authorizationCodeGrantType])
  OBVIOUS
<1>2. /\ known # {} /\ preAuth # Error /\ auth # Error
      /\ g = [preAuth |-> preAuth, auth |-> auth]
  BY <1>1 DEF determineIssuerGrantCapabilities
<1>3. preAuthorizedGrantType \in known =>
         preAuth # None /\ FitsPreAuth(preAuth, grants[preAuthorizedGrantType])
  BY <1>1, <1>2, SoundPreAuth
<1>4. authorizationCodeGrantType \in known =>
         auth # None /\ FitsAuth(auth, grants[authorizationCodeGrantType])
  BY <1>1, <1>2, SoundAuth
<1>5. g.preAuth = preAuth /\ g.auth = auth
  BY <1>2
<1>6. QED
  BY <1>1, <1>2, <1>3, <1>4, <1>5

LEMMA SoundParameters ==
    ASSUME NEW ids, IsList(ids), NEW configs, ParametersFailure(ids, configs) = None
    PROVE  \A i \in DOMAIN ids : ParameterFailure(ids[i], configs) = None
<1>1. PICK bad : bad = {i \in DOMAIN ids : ParameterFailure(ids[i], configs) # None}
  OBVIOUS
<1>2. CASE bad # {}
  <2>1. bad \in SUBSET Nat
    BY <1>1, ListDomain
  <2>2. PICK first : first = CHOOSE i \in bad : \A j \in bad : i <= j
    OBVIOUS
  <2>3. first \in bad
    BY <1>2, <2>1, <2>2, FirstIsThere
  <2>4. ParametersFailure(ids, configs) = ParameterFailure(ids[first], configs)
    BY <1>1, <1>2, <2>2 DEF ParametersFailure
  <2>5. QED
    BY <1>1, <2>3, <2>4
<1>3. CASE bad = {}
  BY <1>1, <1>3
<1>4. QED
  BY <1>2, <1>3

MadeInv ==
    /\ MadeFromSoundOffers
    /\ interaction # None /\ interaction.kind = "issuer" =>
          interaction.issuerMetadata \notin {None, Error} /\ IsList(interaction.types)

LEMMA MadeNew ==
    ASSUME ToldInv, NEW uri \in OfferURIs, NewIssuerInitiatedInteraction(uri)
    PROVE  MadeInv'
<1>1. PICK offered, reached, logged \in BOOLEAN :
         LET offer   == getCredentialOffer(uri, offered)
             m       == Get(reached, TRUE)
             failure == CreationFailure(offer, m, logged)
         IN  IF failure # None THEN interaction' = None
             ELSE interaction' = Created("issuer", uri, m,
                                         determineIssuerGrantCapabilities(offer.grants),
                                         determineCredentialParameters(offer.ids, m.configs))
  BY DEF NewIssuerInitiatedInteraction
<1>2. PICK m, offer : m = Get(reached, TRUE) /\ offer = getCredentialOffer(uri, offered)
  OBVIOUS
<1>3. CASE CreationFailure(offer, m, logged) # None
  BY <1>1, <1>2, <1>3 DEF MadeInv, MadeFromSoundOffers
<1>4. CASE CreationFailure(offer, m, logged) = None
  <2>1. PICK grants, params : /\ grants = determineIssuerGrantCapabilities(offer.grants)
                              /\ params = determineCredentialParameters(offer.ids, m.configs)
    OBVIOUS
  <2>2. /\ offer # Error /\ m # Error /\ grants # Error
        /\ ParametersFailure(offer.ids, m.configs) = None
    BY <1>4, <2>1, Distinct DEF CreationFailure
  <2>3. m # None
    BY <1>2, <2>2, Fetched DEF ToldInv
  <2>4. offer = uri.offer /\ IsList(offer.ids)
    BY <1>2, <2>2, OffersAssumption DEF getCredentialOffer
  <2>5. interaction' = Created("issuer", uri, m, grants, params)
    BY <1>1, <1>2, <1>4, <2>1
  <2>6. /\ interaction'.uri = uri /\ interaction'.issuerMetadata = m
        /\ interaction'.preAuth = grants.preAuth /\ interaction'.auth = grants.auth
        /\ interaction'.types = [i \in DOMAIN offer.ids |-> m.configs[offer.ids[i]].definition.types]
    BY <2>1, <2>5 DEF Created, determineCredentialParameters
  <2>7. Len(interaction'.types) = Len(offer.ids) /\ IsList(interaction'.types)
    BY <2>4, <2>6, MappedList
  <2>8. ASSUME NEW i \in DOMAIN offer.ids
        PROVE  /\ offer.ids[i] \in DOMAIN m.configs
               /\ m.configs[offer.ids[i]].format \in {"jwt_vc_json", "jwt_vc_json-ld", "ldp_vc"}
    BY <2>2, <2>4, SoundParameters, Distinct DEF ParameterFailure, SupportedFormats
  <2>9. /\ grants.preAuth # None \/ grants.auth # None
        /\ grants.preAuth # None <=> preAuthorizedGrantType \in DOMAIN offer.grants
        /\ grants.auth # None <=> authorizationCodeGrantType \in DOMAIN offer.grants
        /\ grants.preAuth # None => FitsPreAuth(grants.preAuth, offer.grants[preAuthorizedGrantType])
        /\ grants.auth # None => FitsAuth(grants.auth, offer.grants[authorizationCodeGrantType])
    BY <2>1, <2>2, SoundGrants
  <2>10. MadeFromSoundOffers'
    BY <2>4, <2>6, <2>7, <2>8, <2>9 DEF MadeFromSoundOffers, FitsPreAuth, FitsAuth
  <2>11. QED
    BY <2>2, <2>3, <2>6, <2>7, <2>10 DEF MadeInv
<1>5. QED
  BY <1>3, <1>4

(* The offer, the grants and the types never change again; metadata does only *)
(* when there was none, which an issuer-initiated interaction never lacks.    *)
LEMMA QuestionKeeps ==
    ASSUME ToldInv, MadeInv, Questions
    PROVE  /\ \A field \in InteractionFields \ {"issuerMetadata"} :
                 interaction'[field] = interaction[field]
           /\ interaction.issuerMetadata # None =>
                 interaction'.issuerMetadata = interaction.issuerMetadata
           /\ interaction # None
           /\ interaction.issuerMetadata # None => interaction' = interaction
<1>1. PICK reached \in BOOLEAN : AskedOnce(reached)
  BY QuestionEffect
<1>2. PICK m : m = populateIssuerMetadata(reached)
  OBVIOUS
<1>3. /\ interaction # None /\ DOMAIN interaction = InteractionFields
      /\ interaction = [field \in InteractionFields |-> interaction[field]]
  BY <1>1 DEF AskedOnce, ToldInv
<1>4. CASE m = Error
  BY <1>1, <1>2, <1>3, <1>4 DEF AskedOnce
<1>5. CASE m # Error
  <2>1. interaction' = [interaction EXCEPT !.issuerMetadata = m]
    BY <1>1, <1>2, <1>5 DEF AskedOnce
  <2>2. interaction.issuerMetadata # None => m = interaction.issuerMetadata
    BY <1>2 DEF populateIssuerMetadata
  <2>3. DOMAIN interaction' = DOMAIN interaction
    BY <2>1
  <2>4. \A field \in InteractionFields : interaction'[field] = IF field = "issuerMetadata" THEN m ELSE interaction[field]
    BY <1>3, <2>1 DEF InteractionFields
  <2>5. interaction.issuerMetadata # None => interaction' = interaction
    BY <1>3, <2>1, <2>2 DEF InteractionFields
  <2>6. QED
    BY <1>3, <2>2, <2>4, <2>5 DEF InteractionFields
<1>6. QED
  BY <1>4, <1>5

LEMMA MadeQuestion ==
    ASSUME ToldInv, MadeInv, Questions
    PROVE  MadeInv'
<1>1. /\ interaction # None
      /\ interaction'.kind = interaction.kind /\ interaction'.uri = interaction.uri
      /\ interaction'.preAuth = interaction.preAuth /\ interaction'.auth = interaction.auth
      /\ interaction'.types = interaction.types
      /\ interaction.issuerMetadata # None => interaction' = interaction
  BY QuestionKeeps DEF InteractionFields
<1>2. CASE interaction.kind # "issuer"
  BY <1>1, <1>2 DEF MadeInv, MadeFromSoundOffers
<1>3. CASE interaction.kind = "issuer"
  <2>1. interaction' = interaction
    BY <1>1, <1>3 DEF MadeInv
  <2>2. QED
    BY <2>1 DEF MadeInv, MadeFromSoundOffers
<1>4. QED
  BY <1>2, <1>3

LEMMA MadeNext == ToldInv /\ MadeInv /\ [Next]_vars => MadeInv'
<1>1. ASSUME MadeInv, interaction' = interaction PROVE MadeInv'
  BY <1>1 DEF MadeInv, MadeFromSoundOffers
<1>2. ASSUME MadeInv, Publish PROVE MadeInv'
  BY <1>1, <1>2 DEF Publish
<1>3. ASSUME NewWalletInitiatedInteraction PROVE MadeInv'
  BY <1>3 DEF NewWalletInitiatedInteraction, Created, MadeInv, MadeFromSoundOffers
<1>4. QED
  BY <1>1, <1>2, <1>3, OtherSteps, MadeNew, MadeQuestion

LEMMA MadeAlways == Spec => []MadeInv
<1>1. Init => MadeInv
  BY DEF Init, ContactInit, MadeInv, MadeFromSoundOffers
<1>2. QED
  BY <1>1, MadeNext, ToldAlways, PTL DEF Spec

(* An issuer-initiated interaction exists only for an offer with a known      *)
(* grant, whose parameters have their types and are what the interaction says *)
(* of PIN and state, and whose configurations its metadata has                *)
(* (NewIssuerInitiatedInteraction).                                           *)
THEOREM OffersAreSound == Spec => []MadeFromSoundOffers
<1>1. MadeInv => MadeFromSoundOffers
  BY DEF MadeInv
<1>2. QED
  BY <1>1, MadeAlways, PTL

-----------------------------------------------------------------------------
(* Verification of the issuer's domain.                                       *)

(* Metadata names a key only after its signature was checked with that key.   *)
Genuine(m) ==
    m.jwtKID # None => /\ m.signed # None /\ m.signed.valid
                       /\ m.jwtKID = m.signed.did /\ m.jwtKID \in DOMAIN DIDDocs

Describes(config) ==
    /\ config # None
    /\ IsList(config.displays)
    /\ config.definition # None =>
          \A name \in DOMAIN config.definition.claims :
              /\ name.kind \in {"id", "subjectPath", "vcPath", "plain"}
              /\ IsList(config.definition.claims[name].displays)
              /\ config.definition.claims[name].mask \in {None, "short", "invalid"} \cup DOMAIN Matches

DescribedMetadata(m) == IsList(m.displays) /\ \A id \in DOMAIN m.configs : Describes(m.configs[id])

AsFetched(m) == Genuine(m) /\ DescribedMetadata(m)

HeldInv ==
    interaction # None /\ interaction.issuerMetadata # None => AsFetched(interaction.issuerMetadata)

LEMMA FetchedAsSuch ==
    ASSUME Published(published), NEW reached, NEW verifier, Get(reached, verifier) # Error
    PROVE  AsFetched(Get(reached, verifier))
<1>1. PICK m : m = Get(reached, verifier)
  OBVIOUS
<1>2. PICK base \in Metadata, n \in 1..MaxPublished : published = Versioned(base, n)
  BY DEF Published
<1>3. /\ {"jwtKID", "configs", "displays"} \subseteq DOMAIN published
      /\ published.configs = base.configs /\ published.displays = base.displays
  BY <1>2, MetadataAssumption DEF Versioned
<1>4. /\ \/ m = published
         \/ /\ published.signed # None /\ published.signed.valid
            /\ published.signed.did \in DOMAIN DIDDocs
            /\ m = [published EXCEPT !.jwtKID = published.signed.did]
      /\ published.jwtKID = None
      /\ DOMAIN m = DOMAIN published
      /\ \A field \in DOMAIN m \ {"jwtKID"} : m[field] = published[field]
  BY <1>1, Fetched
<1>5. Genuine(m)
  <2>1. CASE m = published
    BY <1>4, <2>1 DEF Genuine
  <2>2. CASE /\ published.signed # None /\ published.signed.valid
             /\ published.signed.did \in DOMAIN DIDDocs
             /\ m = [published EXCEPT !.jwtKID = published.signed.did]
    BY <1>3, <1>4, <2>2 DEF Genuine
  <2>3. QED
    BY <1>4, <2>1, <2>2
<1>6. m.configs = base.configs /\ m.displays = base.displays
  BY <1>3, <1>4
<1>7. DescribedMetadata(m)
  BY <1>6, DescriptionsAssumption DEF DescribedMetadata, Describes
<1>8. QED
  BY <1>1, <1>5, <1>7 DEF AsFetched

LEMMA HeldNew ==
    ASSUME ToldInv, NEW uri \in OfferURIs, NewIssuerInitiatedInteraction(uri)
    PROVE  HeldInv'
<1>1. PICK offered, reached, logged \in BOOLEAN :
         LET offer   == getCredentialOffer(uri, offered)
             m       == Get(reached, TRUE)
             failure == CreationFailure(offer, m, logged)
         IN  IF failure # None THEN interaction' = None
             ELSE interaction' = Created("issuer", uri, m,
                                         determineIssuerGrantCapabilities(offer.grants),
                                         determineCredentialParameters(offer.ids, m.configs))
  BY DEF NewIssuerInitiatedInteraction
<1>2. PICK m, offer : m = Get(reached, TRUE) /\ offer = getCredentialOffer(uri, offered)
  OBVIOUS
<1>3. CASE CreationFailure(offer, m, logged) # None
  BY <1>1, <1>2, <1>3 DEF HeldInv
<1>4. CASE CreationFailure(offer, m, logged) = None
  <2>1. interaction'.issuerMetadata = m
    <3>1. interaction' = Created("issuer", uri, m, determineIssuerGrantCapabilities(offer.grants),
                                 determineCredentialParameters(offer.ids, m.configs))
      BY <1>1, <1>2, <1>4
    <3>2. QED
      BY <3>1 DEF Created
  <2>2. m # Error
    BY <1>4, Distinct DEF CreationFailure
  <2>3. AsFetched(m)
    BY <1>2, <2>2, FetchedAsSuch DEF ToldInv
  <2>4. QED
    BY <2>1, <2>3 DEF HeldInv
<1>5. QED
  BY <1>3, <1>4

LEMMA HeldAnswer ==
    ASSUME ToldInv, HeldInv, NEW reached, interaction # None, populateIssuerMetadata(reached) # Error
    PROVE  AsFetched(populateIssuerMetadata(reached))
BY FetchedAsSuch DEF ToldInv, HeldInv, populateIssuerMetadata

LEMMA HeldNext == ToldInv /\ HeldInv /\ [Next]_vars => HeldInv'
<1>1. ASSUME HeldInv, interaction' = interaction PROVE HeldInv'
  BY <1>1 DEF HeldInv
<1>2. ASSUME HeldInv, Publish PROVE HeldInv'
  BY <1>1, <1>2 DEF Publish
<1>3. ASSUME NewWalletInitiatedInteraction PROVE HeldInv'
  BY <1>3 DEF NewWalletInitiatedInteraction, Created, HeldInv
<1>4. ASSUME ToldInv, HeldInv, Questions PROVE HeldInv'
  <2>1. PICK reached \in BOOLEAN : AskedOnce(reached)
    BY <1>4, QuestionEffect
  <2>2. PICK m : m = populateIssuerMetadata(reached)
    OBVIOUS
  <2>3. CASE m = Error
    BY <1>1, <1>4, <2>1, <2>2, <2>3 DEF AskedOnce
  <2>4. CASE m # Error
    <3>1. interaction'.issuerMetadata = m
      BY <1>4, <2>1, <2>2, <2>4 DEF AskedOnce, ToldInv, InteractionFields
    <3>2. AsFetched(m)
      BY <1>4, <2>1, <2>2, <2>4, HeldAnswer DEF AskedOnce
    <3>3. QED
      BY <3>1, <3>2 DEF HeldInv
  <2>5. QED
    BY <2>3, <2>4
<1>5. QED
  BY <1>1, <1>2, <1>3, <1>4, OtherSteps, HeldNew

(* A domain is named for metadata that names a key: by the DID's document,    *)
(* and with the consent of the domain.                                        *)
LEMMA LinkedDomain ==
    ASSUME NEW did \in DOMAIN DIDDocs, NEW linked, linked = ValidateLinkedDomains(did),
           linked # Error, linked.valid
    PROVE  /\ did \in DomainConfigs[linked.domain]
           /\ \E i \in DOMAIN DIDDocs[did].services :
                 /\ EqualFold(DIDDocs[did].services[i].type, "LinkedDomains")
                 /\ DIDDocs[did].services[i].uri = linked.domain
<1>1. PICK services, service : /\ services = DIDDocs[did].services
                               /\ service = getLinkedDomainsService(services)
  OBVIOUS
<1>2. service \notin {None, Error} /\ linked.domain = service.uri /\ VerifyDIDAndDomain(did, service.uri)
  BY <1>1 DEF ValidateLinkedDomains
<1> DEFINE odd == {i \in DOMAIN services : services[i].type = None}
           links == {i \in DOMAIN services : EqualFold(services[i].type, "LinkedDomains")}
           stops == odd \cup links
           first == CHOOSE i \in stops : \A j \in stops : i <= j
<1>3. service = IF stops = {} THEN None ELSE IF first \in odd THEN Error ELSE services[first]
  BY <1>1 DEF getLinkedDomainsService
<1>4. stops # {} /\ first \notin odd /\ service = services[first]
  BY <1>2, <1>3
<1>5. first \in stops => first \in odd \/ (first \in DOMAIN services /\ EqualFold(services[first].type, "LinkedDomains"))
  OBVIOUS
<1>6. stops \in SUBSET Nat
  BY <1>1, DIDDocsAssumption, ListDomain
<1>7. first \in stops
  <2> HIDE DEF stops
  <2>1. QED
    BY <1>4, <1>6, FirstIsThere
<1>8. first \in DOMAIN services /\ EqualFold(services[first].type, "LinkedDomains")
  BY <1>4, <1>5, <1>7
<1> HIDE DEF first, stops, odd
<1>9. QED
  BY <1>1, <1>2, <1>4, <1>8 DEF VerifyDIDAndDomain

LEMMA VerifyStep ==
    ASSUME ToldInv, HeldInv, VerifyIssuer
    PROVE  VerifiedIssuerOwnsDomain'
<1>1. PICK reached, m :
         /\ interaction # None
         /\ m = populateIssuerMetadata(reached)
         /\ answer' = IF m = Error THEN Failed("Fetch", Error) ELSE VerifyIssuerReply(m)
         /\ interaction' = IF m = Error THEN interaction ELSE [interaction EXCEPT !.issuerMetadata = m]
  BY DEF VerifyIssuer, Ask
<1>2. CASE answer'.call # "VerifyIssuer"
  BY <1>2 DEF VerifiedIssuerOwnsDomain
<1>3. CASE answer'.call = "VerifyIssuer"
  <2>1. m # Error
    BY <1>1, <1>3 DEF Failed
  <2>2. interaction'.issuerMetadata = m
    BY <1>1, <2>1 DEF ToldInv, InteractionFields
  <2>3. PICK trust : trust = issuerBasicTrustInfo(m)
    OBVIOUS
  <2>4. trust # Error /\ trust.valid /\ answer'.domain = trust.domain
    BY <1>1, <1>3, <2>1, <2>3 DEF VerifyIssuerReply, Failed
  <2>5. m.jwtKID # None
    BY <2>3, <2>4 DEF issuerBasicTrustInfo
  <2>6. m.signed # None /\ m.signed.valid /\ m.jwtKID = m.signed.did /\ m.jwtKID \in DOMAIN DIDDocs
    BY <1>1, <2>1, <2>5, HeldAnswer DEF AsFetched, Genuine
  <2>7. PICK linked : linked = ValidateLinkedDomains(m.jwtKID)
    OBVIOUS
  <2>8. linked # Error /\ linked.valid /\ trust.domain = linked.domain
    BY <2>3, <2>4, <2>5, <2>7 DEF issuerBasicTrustInfo
  <2>9. /\ m.jwtKID \in DomainConfigs[linked.domain]
        /\ \E i \in DOMAIN DIDDocs[m.jwtKID].services :
              /\ EqualFold(DIDDocs[m.jwtKID].services[i].type, "LinkedDomains")
              /\ DIDDocs[m.jwtKID].services[i].uri = linked.domain
    BY <2>6, <2>7, <2>8, LinkedDomain
  <2>10. QED
    BY <2>2, <2>4, <2>6, <2>8, <2>9 DEF VerifiedIssuerOwnsDomain
<1>4. QED
  BY <1>2, <1>3

(* No other call answers as VerifyIssuer does.                                *)
LEMMA OtherAnswers ==
    ASSUME [Next]_vars, ~VerifyIssuer
    PROVE  answer'.call # "VerifyIssuer" \/ UNCHANGED <<answer, interaction>>
<1>1. CASE Publish \/ SetOptions \/ Save \/ Restore \/ UNCHANGED vars
  BY <1>1 DEF Publish, SetOptions, Save, Restore, vars, contactVars
<1>2. CASE \/ \E uri \in OfferURIs : NewIssuerInitiatedInteraction(uri)
           \/ NewWalletInitiatedInteraction
  <2>1. answer' = Answer("New") \/ \E failure : answer' = Failed("New", failure)
    <3>1. ASSUME NEW uri \in OfferURIs, NewIssuerInitiatedInteraction(uri)
          PROVE  answer' = Answer("New") \/ \E failure : answer' = Failed("New", failure)
      BY <3>1, Zenon DEF NewIssuerInitiatedInteraction
    <3>2. CASE NewWalletInitiatedInteraction
      BY <3>2 DEF NewWalletInitiatedInteraction
    <3>3. QED
      BY <1>2, <3>1, <3>2
  <2>2. QED
    BY <2>1 DEF Answer, Failed
<1>3. CASE \/ IssuerMetadata
           \/ SupportedCredentials
           \/ DynamicClientRegistrationSupported
           \/ DynamicClientRegistrationEndpoint
           \/ IssuerTrustInfo
  <2>1. CASE IssuerMetadata
    BY <2>1 DEF IssuerMetadata, Ask, IssuerMetadataReply, Failed
  <2>2. CASE SupportedCredentials
    BY <2>2 DEF SupportedCredentials, Ask, SupportedCredentialsReply, Failed
  <2>3. CASE DynamicClientRegistrationSupported
    BY <2>3 DEF DynamicClientRegistrationSupported, Ask, RegistrationSupportedReply, Failed
  <2>4. CASE DynamicClientRegistrationEndpoint
    BY <2>4 DEF DynamicClientRegistrationEndpoint, Ask, RegistrationEndpointReply, Failed, Answer
  <2>5. CASE IssuerTrustInfo
    BY <2>5 DEF IssuerTrustInfo, Ask, IssuerTrustInfoReply, Failed
  <2>6. QED
    BY <1>3, <2>1, <2>2, <2>3, <2>4, <2>5
<1>4. CASE PreAuthorizedCodeGrantParams \/ AuthorizationCodeGrantParams
  BY <1>4 DEF PreAuthorizedCodeGrantParams, AuthorizationCodeGrantParams, ReadGrant, Failed
<1>5. CASE ReadIssuer \/ ReadLocalizedIssuer \/ ReadOverview \/ ReadLocalizedOverview
  <2>1. ASSUME NEW display PROVE Named(display).call # "VerifyIssuer" /\ LogoReply(display).call # "VerifyIssuer"
    BY DEF Named, LogoReply, Failed
  <2>2. CASE ReadIssuer \/ ReadLocalizedIssuer
    BY <2>1, <2>2 DEF ReadIssuer, ReadLocalizedIssuer, Read, Failed, Answer
  <2>3. CASE ReadOverview \/ ReadLocalizedOverview
    BY <2>1, <2>3 DEF ReadOverview, ReadLocalizedOverview, Read, OverviewReplies
  <2>4. QED
    BY <1>5, <2>2, <2>3
<1>6. CASE ReadClaim \/ ReadSubject
  <2>1. ASSUME NEW claim PROVE ClaimReply(claim).call # "VerifyIssuer" /\ AttachmentReply(claim).call # "VerifyIssuer"
    BY DEF ClaimReply, AttachmentReply
  <2>2. QED
    BY <1>6, <2>1 DEF ReadClaim, ReadSubject, Read, ClaimReplies
<1>7. ASSUME NEW call, NEW outcome, NEW asked, Display(call, outcome, asked), call # "VerifyIssuer"
      PROVE  answer'.call # "VerifyIssuer"
  BY <1>7 DEF Display, Answer, Failed
<1>8. CASE \E list \in Lists : ResolveList("Resolve", list) \/ ResolveList("ResolveCredential", list)
  BY <1>7, <1>8 DEF ResolveList, ResolveWith
<1>9. CASE \E list \in Lists : ResolveCredentialV2(list)
  BY <1>7, <1>9 DEF ResolveCredentialV2, ResolveWith, Failed
<1>10. CASE \E id \in DOMAIN Stored : ResolveFromReader(<<id>>)
  BY <1>7, <1>10 DEF ResolveFromReader
<1>11. CASE DisplayOffer
  BY <1>7, <1>11 DEF DisplayOffer
<1>12. QED
  BY <1>1, <1>2, <1>3, <1>4, <1>5, <1>6, <1>8, <1>9, <1>10, <1>11 DEF Next, ContactNext

(* VerifyIssuer names a domain only for a DID that signed the metadata and    *)
(* links to the domain, which lists it (VerifyIssuer, ValidateLinkedDomains). *)
THEOREM VerifiedDomainsAreTheIssuers == Spec => []VerifiedIssuerOwnsDomain
<1>1. Init => HeldInv /\ VerifiedIssuerOwnsDomain
  BY DEF Init, ContactInit, HeldInv, VerifiedIssuerOwnsDomain, Answer
<1>2. ToldInv /\ HeldInv /\ VerifiedIssuerOwnsDomain /\ [Next]_vars => VerifiedIssuerOwnsDomain'
  <2>1. ASSUME VerifiedIssuerOwnsDomain, UNCHANGED <<answer, interaction>>
        PROVE  VerifiedIssuerOwnsDomain'
    BY <2>1 DEF VerifiedIssuerOwnsDomain
  <2>2. ASSUME answer'.call # "VerifyIssuer"
        PROVE  VerifiedIssuerOwnsDomain'
    BY <2>2 DEF VerifiedIssuerOwnsDomain
  <2>3. QED
    BY <2>1, <2>2, VerifyStep, OtherAnswers
<1>3. QED
  BY <1>1, <1>2, ToldAlways, HeldNext, PTL DEF Spec

-----------------------------------------------------------------------------
(* Outcomes of operations: what a sequence of operations returns, each of     *)
(* them returned, and how it fails, one of them failed.                       *)

LEMMA InOrderResults ==
    ASSUME NEW outcomes, NEW list \in InOrder(outcomes).results
    PROVE  /\ list = [i \in DOMAIN outcomes |-> list[i]]
           /\ \A i \in DOMAIN outcomes : list[i] \in outcomes[i].results
<1>1. PICK results : results = UNION {{i} \X outcomes[i].results : i \in DOMAIN outcomes}
  OBVIOUS
<1>2. /\ list \in [DOMAIN outcomes -> {r[2] : r \in results}]
      /\ \A i \in DOMAIN outcomes : <<i, list[i]>> \in results
  BY <1>1 DEF InOrder
<1>3. ASSUME NEW i \in DOMAIN outcomes PROVE list[i] \in outcomes[i].results
  <2>1. PICK j \in DOMAIN outcomes : <<i, list[i]>> \in {j} \X outcomes[j].results
    BY <1>1, <1>2
  <2>2. QED
    BY <2>1
<1>4. QED
  BY <1>2, <1>3

LEMMA InOrderFailures ==
    ASSUME NEW outcomes, NEW e \in InOrder(outcomes).failures
    PROVE  \E i \in DOMAIN outcomes : e \in outcomes[i].failures
<1>1. PICK failures : failures = UNION {{i} \X outcomes[i].failures : i \in DOMAIN outcomes}
  OBVIOUS
<1>2. PICK f \in failures : e = f[2]
  BY <1>1 DEF InOrder
<1>3. PICK i \in DOMAIN outcomes : f \in {i} \X outcomes[i].failures
  BY <1>1
<1>4. QED
  BY <1>2, <1>3

(* A configuration found for a credential is one of the issuer's.             *)
SoundConfig(config) ==
    /\ config.definition # None
    /\ \A name \in DOMAIN config.definition.claims :
          config.definition.claims[name].mask # "short"

SoundConfigs(configs) == \A id \in DOMAIN configs : SoundConfig(configs[id])

LEMMA SoundIsOfConfigs ==
    ASSUME NEW m
    PROVE  Sound(m) <=> SoundConfigs(m.configs)
BY DEF Sound, Defined, SoundConfigs, SoundConfig

LEMMA MatchingFinds ==
    ASSUME NEW configs, NEW vcTypes
    PROVE  /\ MatchingConfigs(configs, vcTypes).results
                 \subseteq {None} \cup {configs[id] : id \in DOMAIN configs}
           /\ SoundConfigs(configs) => MatchingConfigs(configs, vcTypes).failures = {}
BY DEF MatchingConfigs, SoundConfigs, SoundConfig

LEMMA ConfigForFinds ==
    ASSUME NEW configs, NEW vc, NEW configID
    PROVE  /\ ConfigFor(configs, vc, configID).results
                 \subseteq {None} \cup {configs[id] : id \in DOMAIN configs}
           /\ SoundConfigs(configs) => Panic \notin ConfigFor(configs, vc, configID).failures
<1>1. CASE configID = None
  BY <1>1, MatchingFinds DEF ConfigFor
<1>2. CASE configID # None
  BY <1>2, Distinct DEF ConfigFor, Result, Failure
<1>3. QED
  BY <1>1, <1>2

-----------------------------------------------------------------------------
(* Claims.                                                                    *)

(* The shown form of a claim, from a value the credential has.                *)
ResolvedFrom(c, config, name, labels, vc, maskingString) ==
    \E v \in getMatchingClaimValue(vc, name) :
        /\ ~IsNil(v) /\ ClaimFailure(config.definition.claims[name], v) = None
        /\ c = ResolvedClaim(config, name, labels, v, maskingString)

LEMMA ResolveClaimResults ==
    ASSUME NEW config, NEW name, NEW labels, NEW vc, NEW maskingString,
           NEW r \in resolveClaim(config, name, labels, vc, maskingString).results
    PROVE  \/ r = {} /\ \E v \in getMatchingClaimValue(vc, name) : IsNil(v)
           \/ \E c : r = {c} /\ ResolvedFrom(c, config, name, labels, vc, maskingString)
BY DEF resolveClaim, ResolvedFrom

LEMMA ResolveAllResults ==
    ASSUME NEW config, NEW labels, NEW vc, NEW maskingString,
           NEW claims \in ResolveAll(config, labels, vc, maskingString).results
    PROVE  /\ \A c \in claims : \E name \in DOMAIN labels :
                 ResolvedFrom(c, config, name, labels[name], vc, maskingString)
           /\ \A name \in DOMAIN labels :
                 {c \in claims : c.rawID = name}
                    \in resolveClaim(config, name, labels[name], vc, maskingString).results
<1>1. PICK outcomes : outcomes = [name \in DOMAIN labels |->
                                    resolveClaim(config, name, labels[name], vc, maskingString)]
  OBVIOUS
<1>2. PICK results : results = UNION {{name} \X outcomes[name].results : name \in DOMAIN labels}
  OBVIOUS
<1>3. /\ claims \in SUBSET UNION {r[2] : r \in results}
      /\ \A name \in DOMAIN labels : <<name, {c \in claims : c.rawID = name}>> \in results
  BY <1>1, <1>2 DEF ResolveAll
<1>4. ASSUME NEW c \in claims
      PROVE  \E name \in DOMAIN labels :
                ResolvedFrom(c, config, name, labels[name], vc, maskingString)
  <2>1. PICK r \in results : c \in r[2]
    BY <1>3
  <2>2. PICK name \in DOMAIN labels : r \in {name} \X outcomes[name].results
    BY <1>2
  <2>3. r[2] \in resolveClaim(config, name, labels[name], vc, maskingString).results
    BY <1>1, <2>2
  <2>4. QED
    BY <2>1, <2>3, ResolveClaimResults
<1>5. ASSUME NEW name \in DOMAIN labels
      PROVE  {c \in claims : c.rawID = name}
                \in resolveClaim(config, name, labels[name], vc, maskingString).results
  <2>1. PICK shown : shown = {c \in claims : c.rawID = name}
    OBVIOUS
  <2>2. PICK other \in DOMAIN labels : <<name, shown>> \in {other} \X outcomes[other].results
    BY <1>2, <1>3, <2>1
  <2>3. name = other /\ shown \in outcomes[name].results
    BY <2>2
  <2>4. QED
    BY <1>1, <2>1, <2>3
<1>6. QED
  BY <1>4, <1>5

LEMMA ResolveAllFailures ==
    ASSUME NEW config, SoundConfig(config), NEW labels, NEW vc, NEW maskingString,
           DOMAIN labels \subseteq DOMAIN config.definition.claims
    PROVE  Panic \notin ResolveAll(config, labels, vc, maskingString).failures
<1>1. ASSUME NEW name \in DOMAIN labels, NEW v
      PROVE  ClaimFailure(config.definition.claims[name], v) # Panic
  BY Distinct DEF SoundConfig, ClaimFailure, MaskFailure
<1>2. ASSUME NEW name \in DOMAIN labels
      PROVE  Panic \notin resolveClaim(config, name, labels[name], vc, maskingString).failures
  BY <1>1 DEF resolveClaim
<1>3. QED
  BY <1>2 DEF ResolveAll

(* Labels that an operation resolves claims with.                             *)
LabelsOf(config, labels) ==
    /\ DOMAIN labels \subseteq Labelled(config)
    /\ \A name \in DOMAIN labels :
          ToSet(labels[name]) \subseteq ToSet(config.definition.claims[name].displays)

LEMMA BestIsThere ==
    ASSUME NEW displays, IsList(displays), displays # <<>>, NEW preferred
    PROVE  BestDisplay(displays, preferred) \in ToSet(displays)
<1> DEFINE locale == IF preferred = "" THEN "en-US" ELSE preferred
           inLocale == {i \in DOMAIN displays : EqualFold(displays[i].locale, locale)}
           place == IF inLocale = {} THEN 1 ELSE CHOOSE i \in inLocale : \A j \in inLocale : i <= j
<1>1. BestDisplay(displays, preferred) = displays[place]
  BY DEF BestDisplay
<1>2. inLocale \subseteq DOMAIN displays
  OBVIOUS
<1>3. place \in DOMAIN displays
  <2> HIDE DEF inLocale
  <2>1. CASE inLocale = {}
    <3>1. Len(displays) # 0
      BY DEF IsList
    <3>2. QED
      BY <2>1, <3>1, ListDomain
  <2>2. CASE inLocale # {}
    <3>1. inLocale \in SUBSET Nat
      BY <1>2, ListDomain
    <3>2. QED
      BY <1>2, <2>2, <3>1, FirstIsThere
  <2>3. QED
    BY <2>1, <2>2
<1> HIDE DEF place
<1>4. QED
  BY <1>1, <1>3 DEF ToSet

-----------------------------------------------------------------------------
(* Values of claims.                                                          *)

IsJSON(value) ==
    /\ IsFiniteSet(DOMAIN value)
    /\ \A path \in DOMAIN value : IsList(path) /\ IsList(value[path].text)

HasSubject(vc) ==
    /\ IsList(vc.subjectID) /\ IsJSON(vc.fields) /\ IsJSON(vc.json)
    /\ <<>> \in DOMAIN vc.fields /\ IsObject(vc.fields)

LEMMA ListIsSequence ==
    ASSUME NEW s, IsList(s)
    PROVE  s \in Seq({s[i] : i \in DOMAIN s})
<1>1. PICK n \in Nat : n = Len(s) /\ s = [i \in 1..n |-> s[i]] /\ DOMAIN s = 1..n
  BY ListDomain DEF IsList
<1>2. QED
  BY <1>1

(* A fold over one element: the function FoldSet means exists and is the      *)
(* obvious one.                                                               *)
LEMMA RawText ==
    ASSUME NEW t, IsList(t)
    PROVE  RawValue(Just(Text(t))) = t
<1> DEFINE value == Just(Text(t))
           Key(path) == IF path = <<>> THEN <<>> ELSE <<Last(path)>>
           Step(path, text) == Key(path) \o value[path].text \o text
           Whole(g) == g = [s \in SUBSET {<<>>} |->
                             IF s = {} THEN <<>>
                             ELSE Step(CHOOSE x \in s : TRUE, g[s \ {CHOOSE x \in s : TRUE}])]
           whole == CHOOSE g : Whole(g)
<1>1. DOMAIN value = {<<>>} /\ value[<<>>].text = t
  BY DEF Just, Text
<1>2. RawValue(value) = whole[{<<>>}]
  BY <1>1 DEF RawValue, FoldSet, MapThenFoldSet
<1>3. Step(<<>>, <<>>) = t
  BY <1>1, ListIsSequence
<1>4. \A s \in SUBSET {<<>>} : s = {} \/ s = {<<>>}
  OBVIOUS
<1>5. (CHOOSE x \in {<<>>} : TRUE) = <<>>
  OBVIOUS
<1> HIDE DEF Step, value
<1>6. \E g : Whole(g)
  <2>1. PICK g : g = [s \in SUBSET {<<>>} |-> IF s = {} THEN <<>> ELSE Step(<<>>, <<>>)]
    OBVIOUS
  <2>2. g[{}] = <<>>
    BY <2>1
  <2>3. ASSUME NEW s \in SUBSET {<<>>}
        PROVE  (IF s = {} THEN <<>> ELSE Step(<<>>, <<>>))
                  = IF s = {} THEN <<>>
                    ELSE Step(CHOOSE x \in s : TRUE, g[s \ {CHOOSE x \in s : TRUE}])
    <3>1. CASE s = {}
      BY <3>1
    <3>2. CASE s = {<<>>}
      <4>1. s \ {CHOOSE x \in s : TRUE} = {}
        BY <1>5, <3>2
      <4>2. QED
        BY <1>5, <2>2, <3>2, <4>1
    <3>3. QED
      BY <1>4, <3>1, <3>2
  <2>4. QED
    BY <2>1, <2>3
<1>7. Whole(whole)
  BY <1>6
<1> HIDE DEF whole
<1>8. whole[{}] = <<>>
  BY <1>7
<1>9. whole[{<<>>}] = Step(CHOOSE x \in {<<>>} : TRUE, whole[{<<>>} \ {CHOOSE x \in {<<>>} : TRUE}])
  BY <1>7
<1>10. {<<>>} \ {<<>>} = {}
  OBVIOUS
<1>11. whole[{<<>>}] = Step(<<>>, <<>>)
  BY <1>5, <1>8, <1>9, <1>10
<1>12. QED
  BY <1>2, <1>3, <1>11 DEF value

LEMMA NilIsNowhere ==
    ASSUME NEW value, NEW path, ~IsNil(At(value, path))
    PROVE  path \in DOMAIN value
BY DEF IsNil, At, Just

LEMMA NullIsNil == IsNil(Just(Null))
BY DEF IsNil, Just

(* What a claim shows is somewhere in the credential.                         *)
LEMMA ValuesAreTexts ==
    ASSUME NEW vc, HasSubject(vc), NEW name, name.kind \in {"id", "subjectPath", "vcPath", "plain"},
           NEW v \in getMatchingClaimValue(vc, name), ~IsNil(v)
    PROVE  RawValue(v) \in TextsOf(vc)
<1>1. CASE name.kind = "id"
  <2>1. v = Just(IF vc.subjectID = <<>> THEN Null ELSE Text(vc.subjectID))
    BY <1>1 DEF getMatchingClaimValue
  <2>2. v = Just(Text(vc.subjectID))
    BY <2>1, NullIsNil
  <2>3. RawValue(v) = vc.subjectID
    BY <2>2, RawText DEF HasSubject
  <2>4. QED
    BY <2>3 DEF TextsOf
<1>2. CASE name.kind = "subjectPath"
  <2>1. v = At(vc.fields, name.path)
    BY <1>2 DEF getMatchingClaimValue, findMatchingClaimUsingJSONPath
  <2>2. QED
    BY <2>1, NilIsNowhere DEF TextsOf, TextsWithin
<1>3. CASE name.kind = "vcPath"
  <2>1. v = At(vc.json, name.path)
    BY <1>3 DEF getMatchingClaimValue, findMatchingClaimUsingJSONPath
  <2>2. QED
    BY <2>1, NilIsNowhere DEF TextsOf, TextsWithin
<1>4. CASE name.kind = "plain"
  <2>1. v \in findMatchingClaimValueInMap(vc.fields, name.path[1])
    BY <1>4 DEF getMatchingClaimValue
  <2>2. PICK path : v = At(vc.fields, path)
    BY <2>1, NullIsNil, Zenon DEF findMatchingClaimValueInMap
  <2>3. QED
    BY <2>2, NilIsNowhere DEF TextsOf, TextsWithin
<1>5. QED
  BY <1>1, <1>2, <1>3, <1>4

(* A claim at the top of the subject is found before the walk goes deeper.    *)
LEMMA TopIsFound ==
    ASSUME NEW vc, HasSubject(vc), NEW n, <<n>> \in DOMAIN vc.fields, vc.fields[<<n>>] # Null,
           NEW v \in findMatchingClaimValueInMap(vc.fields, n)
    PROVE  ~IsNil(v)
<1> DEFINE fields == vc.fields
           objects == {p \in DOMAIN fields : fields[p] = Object}
           having == {p \in objects : Append(p, n) \in DOMAIN fields}
           searched == {p \in objects : \A q \in having : ~IsStrictPrefix(q, p)}
           dead == {p \in searched \ having : \A q \in objects : ~IsStrictPrefix(p, q)}
<1>1. v \in {At(fields, Append(p, n)) : p \in searched \cap having} \cup {Just(Null) : p \in dead}
  BY DEF findMatchingClaimValueInMap
<1>2. Append(<<>>, n) = <<n>>
  OBVIOUS
<1>3. <<>> \in having
  BY <1>2 DEF HasSubject, IsObject
<1>4. ASSUME NEW p \in searched PROVE p = <<>>
  <2>1. IsList(p)
    BY DEF HasSubject, IsJSON
  <2>2. Len(<<>>) <= Len(p) /\ SubSeq(<<>>, 1, Len(<<>>)) = SubSeq(p, 1, Len(<<>>))
    BY <2>1, ListDomain, ListIsSequence
  <2>3. ~IsStrictPrefix(<<>>, p)
    BY <1>3
  <2>4. QED
    BY <2>2, <2>3 DEF IsStrictPrefix, IsPrefix
<1>5. dead = {}
  BY <1>3, <1>4
<1>6. v = At(fields, <<n>>)
  <2> HIDE DEF searched, having, dead
  <2>1. PICK p \in searched \cap having : v = At(fields, Append(p, n))
    BY <1>1, <1>5
  <2>2. QED
    BY <1>2, <1>4, <2>1
<1>7. At(fields, <<n>>)[<<>>] = fields[<<n>>]
  <2> DEFINE below == {q \in DOMAIN fields : IsPrefix(<<n>>, q)}
             rests == {SubSeq(p, Len(<<n>>) + 1, Len(p)) : p \in below}
  <2>1. <<n>> \in below
    BY DEF IsPrefix
  <2>2. SubSeq(<<n>>, Len(<<n>>) + 1, Len(<<n>>)) = <<>>
    OBVIOUS
  <2>3. <<>> \in rests
    BY <2>1, <2>2
  <2>4. At(fields, <<n>>) = [rest \in rests |-> fields[<<n>> \o rest]]
    BY DEF At
  <2>5. <<n>> \o <<>> = <<n>>
    OBVIOUS
  <2> HIDE DEF rests
  <2>6. QED
    BY <2>3, <2>4, <2>5
<1>8. QED
  BY <1>6, <1>7 DEF IsNil

LEMMA PlainIsFound ==
    ASSUME NEW vc, HasSubject(vc), NEW name, PlainlyThere(vc, name),
           NEW v \in getMatchingClaimValue(vc, name)
    PROVE  ~IsNil(v)
<1>1. CASE name.kind = "plain"
  BY <1>1, TopIsFound DEF PlainlyThere, getMatchingClaimValue
<1>2. CASE name.kind # "plain"
  BY <1>2 DEF PlainlyThere
<1>3. QED
  BY <1>1, <1>2

-----------------------------------------------------------------------------
(* Displays of credentials.                                                   *)

ClaimFields == {"rawID", "labels", "type", "order", "rawValue", "value", "mask", "attachment"}

Masks == {MaskOr(s.masking) : s \in Settings} \cup {DefaultMask}

WellFormedClaim(c) ==
    /\ c = [field \in ClaimFields |-> c[field]]
    /\ c.type = "attachment" => c.attachment # <<>>

MaskedWith(c, maskingString) ==
    c.mask # None => /\ c.mask \in DOMAIN Matches
                     /\ c.value = <<getMaskedValue(c.rawValue, c.mask, maskingString)>>

(* A display fits its credential and a configuration for it.                  *)
Complete(claims, vc, config, skip) ==
    \A name \in DOMAIN config.definition.claims :
        /\ config.definition.claims[name].displays # <<>>
        /\ PlainlyThere(vc, name)
        /\ ~(skip /\ name.kind = "vcPath")
        => Cardinality({c \in claims : c.rawID = name}) = 1

Fits(shown, vc, config, skip) ==
    /\ \A c \in shown.claims : c.rawValue \in TextsOf(vc)
    /\ IF config = None THEN \A c \in shown.claims : c.labels = <<>>
       ELSE /\ ToSet(shown.overviews) \subseteq ToSet(config.displays) \cup {EmptyDisplay}
            /\ \A c \in shown.claims :
                  ToSet(c.labels) \subseteq ToSet(config.definition.claims[c.rawID].displays)
            /\ Complete(shown.claims, vc, config, skip)

LEMMA ResolvedClaimsFit ==
    ASSUME NEW vc, HasSubject(vc), NEW config, Describes(config), config.definition # None,
           NEW labels, LabelsOf(config, labels), NEW maskingString, NEW skip,
           \A name \in Labelled(config) : ~(skip /\ name.kind = "vcPath") => name \in DOMAIN labels,
           NEW claims \in ResolveAll(config, labels, vc, maskingString).results
    PROVE  /\ \A c \in claims : /\ WellFormedClaim(c) /\ MaskedWith(c, maskingString)
                                /\ c.rawValue \in TextsOf(vc)
                                /\ ToSet(c.labels) \subseteq ToSet(config.definition.claims[c.rawID].displays)
           /\ Complete(claims, vc, config, skip)
<1>1. ASSUME NEW c \in claims
      PROVE  /\ WellFormedClaim(c) /\ MaskedWith(c, maskingString)
             /\ c.rawValue \in TextsOf(vc)
             /\ ToSet(c.labels) \subseteq ToSet(config.definition.claims[c.rawID].displays)
  <2>1. PICK name \in DOMAIN labels : ResolvedFrom(c, config, name, labels[name], vc, maskingString)
    BY ResolveAllResults
  <2>2. PICK v \in getMatchingClaimValue(vc, name) :
           /\ ~IsNil(v) /\ ClaimFailure(config.definition.claims[name], v) = None
           /\ c = ResolvedClaim(config, name, labels[name], v, maskingString)
    BY <2>1 DEF ResolvedFrom
  <2>3. name \in DOMAIN config.definition.claims
    BY DEF LabelsOf, Labelled
  <2>4. c.rawID = name /\ c.labels = labels[name] /\ c.rawValue = RawValue(v)
    BY <2>2 DEF ResolvedClaim
  <2>5. WellFormedClaim(c) /\ MaskedWith(c, maskingString)
    <3>1. PICK claim : claim = config.definition.claims[name]
      OBVIOUS
    <3>2. claim.mask # None => claim.mask \in DOMAIN Matches
      <4>1. claim.mask \in {None, "short", "invalid"} \cup DOMAIN Matches
        BY <2>3, <3>1 DEF Describes
      <4>2. claim.mask # None => MaskFailure(claim.mask) = None
        BY <2>2, <3>1, Distinct DEF ClaimFailure
      <4>3. QED
        BY <4>1, <4>2, Distinct DEF MaskFailure
    <3>3. /\ c.mask = claim.mask
          /\ c.mask # None => c.value = <<getMaskedValue(c.rawValue, c.mask, maskingString)>>
      BY <2>2, <3>1 DEF ResolvedClaim
    <3>4. WellFormedClaim(c)
      BY <2>2 DEF ResolvedClaim, WellFormedClaim, ClaimFields
    <3>5. QED
      BY <3>2, <3>3, <3>4 DEF MaskedWith
  <2>6. RawValue(v) \in TextsOf(vc)
    BY <2>2, <2>3, ValuesAreTexts DEF Describes
  <2>7. QED
    BY <2>4, <2>5, <2>6 DEF LabelsOf
<1>2. ASSUME NEW name \in DOMAIN config.definition.claims,
             config.definition.claims[name].displays # <<>>,
             PlainlyThere(vc, name), ~(skip /\ name.kind = "vcPath")
      PROVE  Cardinality({c \in claims : c.rawID = name}) = 1
  <2>1. name \in DOMAIN labels
    BY <1>2 DEF Labelled
  <2>2. {c \in claims : c.rawID = name}
           \in resolveClaim(config, name, labels[name], vc, maskingString).results
    BY <2>1, ResolveAllResults
  <2>3. PICK shown \in resolveClaim(config, name, labels[name], vc, maskingString).results :
           shown = {c \in claims : c.rawID = name}
    BY <2>2
  <2>4. ~\E v \in getMatchingClaimValue(vc, name) : IsNil(v)
    BY <1>2, PlainIsFound
  <2>5. \/ shown = {} /\ \E v \in getMatchingClaimValue(vc, name) : IsNil(v)
        \/ \E c : shown = {c} /\ ResolvedFrom(c, config, name, labels[name], vc, maskingString)
    BY ResolveClaimResults, Zenon
  <2>6. PICK c : shown = {c}
    BY <2>4, <2>5, Zenon
  <2>7. QED
    BY <2>3, <2>6, FS_Singleton
<1>3. QED
  BY <1>1, <1>2 DEF Complete

LEMMA OneLocaleLabels ==
    ASSUME NEW config, Describes(config), config.definition # None, NEW locale
    PROVE  LabelsOf(config, [n \in Labelled(config) |->
                               <<getLocalizedLabel(config.definition.claims[n], locale)>>])
<1>1. ASSUME NEW n \in Labelled(config)
      PROVE  getLocalizedLabel(config.definition.claims[n], locale)
                \in ToSet(config.definition.claims[n].displays)
  BY BestIsThere DEF Describes, Labelled, getLocalizedLabel
<1>2. \A x : ToSet(<<x>>) = {x}
  BY DEF ToSet
<1>3. QED
  BY <1>1, <1>2 DEF LabelsOf

(* A display of a credential, as the two operations build it.                 *)
LEMMA BuiltFits ==
    ASSUME NEW vc, HasSubject(vc), NEW config, config # None, Describes(config),
           NEW locale, NEW maskingString,
           NEW shown \in buildCredentialDisplay(config, vc, locale, maskingString).results
    PROVE  /\ shown = [overviews |-> shown.overviews, claims |-> shown.claims]
           /\ \A c \in shown.claims : WellFormedClaim(c) /\ MaskedWith(c, maskingString)
           /\ Fits(shown, vc, config, FALSE)
<1> DEFINE labels == [n \in Labelled(config) |->
                        <<getLocalizedLabel(config.definition.claims[n], locale)>>]
           overview == getOverviewDisplay(config, locale)
<1>1. config.definition # None
  BY DEF buildCredentialDisplay, Failure
<1>2. PICK claims \in ResolveAll(config, labels, vc, maskingString).results :
         shown = [overviews |-> <<overview>>, claims |-> claims]
  BY <1>1 DEF buildCredentialDisplay, WithClaims, resolveClaims
<1>3. overview \in ToSet(config.displays) \cup {EmptyDisplay}
  BY BestIsThere DEF Describes, getOverviewDisplay
<1>4. LabelsOf(config, labels)
  BY <1>1, OneLocaleLabels
<1>5. /\ \A c \in claims : /\ WellFormedClaim(c) /\ MaskedWith(c, maskingString)
                           /\ c.rawValue \in TextsOf(vc)
                           /\ ToSet(c.labels) \subseteq ToSet(config.definition.claims[c.rawID].displays)
      /\ Complete(claims, vc, config, FALSE)
  <2>1. \A name \in Labelled(config) : ~(FALSE /\ name.kind = "vcPath") => name \in DOMAIN labels
    OBVIOUS
  <2> HIDE DEF labels
  <2>2. QED
    BY <1>1, <1>2, <1>4, <2>1, ResolvedClaimsFit
<1>6. ToSet(shown.overviews) = {overview}
  BY <1>2 DEF ToSet
<1>7. shown = [overviews |-> shown.overviews, claims |-> shown.claims]
  BY <1>2
<1>8. shown.claims = claims
  BY <1>2
<1> HIDE DEF overview, labels
<1>9. ToSet(shown.overviews) \subseteq ToSet(config.displays) \cup {EmptyDisplay}
  BY <1>3, <1>6
<1>10. Fits(shown, vc, config, FALSE)
  BY <1>5, <1>8, <1>9 DEF Fits
<1>11. QED
  BY <1>5, <1>7, <1>8, <1>10

LEMMA BuiltAllLocaleFits ==
    ASSUME NEW vc, HasSubject(vc), NEW config, config # None, Describes(config),
           NEW maskingString, NEW skip \in BOOLEAN,
           NEW shown \in buildCredentialDisplayAllLocale(config, vc, maskingString, skip).results
    PROVE  /\ shown = [overviews |-> shown.overviews, claims |-> shown.claims]
           /\ \A c \in shown.claims : WellFormedClaim(c) /\ MaskedWith(c, maskingString)
           /\ Fits(shown, vc, config, skip)
<1> DEFINE labels == [n \in {l \in Labelled(config) : ~(skip /\ l.kind = "vcPath")}
                        |-> config.definition.claims[n].displays]
<1>1. config.definition # None
  BY DEF buildCredentialDisplayAllLocale, Failure
<1>2. PICK claims \in ResolveAll(config, labels, vc, maskingString).results :
         shown = [overviews |-> config.displays, claims |-> claims]
  BY <1>1 DEF buildCredentialDisplayAllLocale, WithClaims, resolveClaimsAllLocale
<1>3. LabelsOf(config, labels)
  BY DEF LabelsOf
<1>4. /\ \A c \in claims : /\ WellFormedClaim(c) /\ MaskedWith(c, maskingString)
                           /\ c.rawValue \in TextsOf(vc)
                           /\ ToSet(c.labels) \subseteq ToSet(config.definition.claims[c.rawID].displays)
      /\ Complete(claims, vc, config, skip)
  <2>1. \A name \in Labelled(config) : ~(skip /\ name.kind = "vcPath") => name \in DOMAIN labels
    OBVIOUS
  <2> HIDE DEF labels
  <2>2. QED
    BY <1>1, <1>2, <1>3, <2>1, ResolvedClaimsFit
<1>5. QED
  BY <1>2, <1>4 DEF Fits

LEMMA DefaultFits ==
    ASSUME NEW vc, HasSubject(vc), NEW shown, shown = buildDefaultCredentialDisplay(vc),
           NEW maskingString, NEW skip
    PROVE  /\ shown = [overviews |-> shown.overviews, claims |-> shown.claims]
           /\ \A c \in shown.claims : WellFormedClaim(c) /\ MaskedWith(c, maskingString)
           /\ Fits(shown, vc, None, skip)
<1>1. /\ shown = [overviews |-> shown.overviews, claims |-> shown.claims]
  BY DEF buildDefaultCredentialDisplay
<1>2. ASSUME NEW c \in shown.claims
      PROVE  \E name : \E raw \in TextsOf(vc) : c = PlainClaim(name, raw)
  <2>1. CASE \E p \in DOMAIN vc.fields :
                c = PlainClaim([kind |-> "plain", path |-> p], RawValue(At(vc.fields, p)))
    BY <2>1 DEF TextsOf, TextsWithin
  <2>2. CASE \E id \in {vc.subjectID} : c = PlainClaim([kind |-> "id", path |-> <<>>], id)
    BY <2>2 DEF TextsOf
  <2>3. QED
    BY <2>1, <2>2 DEF buildDefaultCredentialDisplay
<1>3. ASSUME NEW c \in shown.claims
      PROVE  /\ WellFormedClaim(c) /\ MaskedWith(c, maskingString)
             /\ c.rawValue \in TextsOf(vc) /\ c.labels = <<>>
  <2>1. PICK raw \in TextsOf(vc) : \E name : c = PlainClaim(name, raw)
    BY <1>2
  <2>2. PICK name : c = PlainClaim(name, raw)
    BY <2>1
  <2>3. c.mask = None /\ c.rawValue = raw /\ c.labels = <<>>
    BY <2>2 DEF PlainClaim
  <2>4. WellFormedClaim(c)
    BY <2>2 DEF PlainClaim, WellFormedClaim, ClaimFields
  <2>5. QED
    BY <2>3, <2>4 DEF MaskedWith
<1>4. QED
  BY <1>1, <1>3 DEF Fits

-----------------------------------------------------------------------------
(* Display data.  What holds of it depends on what it was asked for.          *)

ConfigsFor(r, i) ==
    IF r.configIDs # <<>> THEN {r.metadata.configs[r.configIDs[i]]}
    ELSE MatchingConfigs(r.metadata.configs, r.vcs[i].types).results

WellFormedDisplay(shown) ==
    /\ shown = [overviews |-> shown.overviews, claims |-> shown.claims]
    /\ \A c \in shown.claims : WellFormedClaim(c)

WellFormed(d) ==
    /\ d = [issuers |-> d.issuers, credentials |-> d.credentials]
    /\ d.credentials = [i \in DOMAIN d.credentials |-> d.credentials[i]]
    /\ \A i \in DOMAIN d.credentials : WellFormedDisplay(d.credentials[i])

ShowsCredentials(d, r) ==
    /\ r.given # <<>> => r.configIDs = r.given
    /\ IsList(r.vcs) /\ DOMAIN d.credentials = DOMAIN r.vcs
    /\ \A i \in DOMAIN d.credentials :
          /\ HasSubject(r.vcs[i])
          /\ \A c \in d.credentials[i].claims : \E mask \in Masks : MaskedWith(c, mask)
          /\ \E config \in ConfigsFor(r, i) :
                Fits(d.credentials[i], r.vcs[i], config, r.skip /\ r.call # "Resolve")

ShowsOffer(d, r) ==
    LET described == {k \in DOMAIN r.vcs :
                        None \notin MatchingConfigs(r.metadata.configs, r.vcs[k]).results}
    IN  /\ Len(d.credentials) = Cardinality(described)
        /\ \A k \in described : \E config \in MatchingConfigs(r.metadata.configs, r.vcs[k]).results :
              ToSet(d.credentials[Cardinality({j \in described : j <= k})].overviews)
                 \subseteq ToSet(config.displays) \cup {EmptyDisplay}

Shown(d, r) ==
    /\ WellFormed(d)
    /\ IF r.call = "ResolveCredentialOffer" THEN ShowsOffer(d, r) ELSE ShowsCredentials(d, r)

(* The credentials of a source.                                               *)
CredentialsOf(source) ==
    IF source.vcs # None THEN source.vcs ELSE [i \in DOMAIN source.ids |-> source.reader[source.ids[i]]]

SoundSource(source) ==
    /\ IsList(CredentialsOf(source))
    /\ \A i \in DOMAIN CredentialsOf(source) : HasSubject(CredentialsOf(source)[i])
    /\ source.configIDs # <<>> =>
          /\ source.vcs # None
          /\ validateVCOpts(source) => \A i \in DOMAIN CredentialsOf(source) : source.configIDs[i] # None

LEMMA MappedFits ==
    ASSUME NEW source, SoundSource(source), NEW m, DescribedMetadata(m),
           NEW mappings \in processOpts(source, m).results,
           NEW r, r.vcs = CredentialsOf(source), r.configIDs = source.configIDs, r.metadata = m
    PROVE  /\ mappings = [i \in DOMAIN r.vcs |-> mappings[i]]
           /\ \A i \in DOMAIN r.vcs :
                 /\ mappings[i].credential = r.vcs[i]
                 /\ mappings[i].config \in ConfigsFor(r, i)
                 /\ mappings[i].config # None => Describes(mappings[i].config)
<1> DEFINE vcs == processVCOpts(source)
           found(i) == ConfigFor(m.configs, vcs[i].credential, vcs[i].configID)
           outcomes == [i \in DOMAIN vcs |->
                          [results  |-> {[credential |-> vcs[i].credential, config |-> c] :
                                           c \in found(i).results},
                           failures |-> found(i).failures]]
<1>1. validateVCOpts(source)
  BY DEF processOpts, Failure
<1>2. mappings \in InOrder(outcomes).results
  BY DEF processOpts, processValidatedOpts, Failure
<1>3. /\ DOMAIN vcs = DOMAIN r.vcs
      /\ \A i \in DOMAIN vcs : /\ vcs[i].credential = r.vcs[i]
                               /\ vcs[i].configID = IF r.configIDs = <<>> THEN None ELSE r.configIDs[i]
  BY DEF processVCOpts, CredentialsOf, SoundSource
<1> HIDE DEF vcs
<1>4. /\ mappings = [i \in DOMAIN r.vcs |-> mappings[i]]
      /\ \A i \in DOMAIN r.vcs : mappings[i] \in outcomes[i].results
  <2>1. DOMAIN outcomes = DOMAIN r.vcs
    BY <1>3
  <2> HIDE DEF outcomes
  <2>2. QED
    BY <1>2, <2>1, InOrderResults
<1>5. ASSUME NEW i \in DOMAIN r.vcs
      PROVE  /\ mappings[i].credential = r.vcs[i]
             /\ mappings[i].config \in ConfigsFor(r, i)
             /\ mappings[i].config # None => Describes(mappings[i].config)
  <2>1. PICK c \in found(i).results : mappings[i] = [credential |-> vcs[i].credential, config |-> c]
    BY <1>3, <1>4
  <2>2. mappings[i].credential = r.vcs[i] /\ mappings[i].config = c
    BY <1>3, <2>1
  <2>3. c = None \/ \E id \in DOMAIN m.configs : c = m.configs[id]
    BY ConfigForFinds
  <2>4. c \in ConfigsFor(r, i)
    <3>1. CASE r.configIDs = <<>>
      BY <1>3, <3>1 DEF ConfigFor, ConfigsFor
    <3>2. CASE r.configIDs # <<>>
      <4>1. vcs[i].configID = r.configIDs[i] /\ r.configIDs[i] # None
        BY <1>1, <1>3, <3>2 DEF SoundSource
      <4>2. c = m.configs[r.configIDs[i]]
        BY <4>1 DEF ConfigFor, Result, Failure
      <4>3. QED
        BY <3>2, <4>2 DEF ConfigsFor
    <3>3. QED
      BY <3>1, <3>2
  <2>5. QED
    BY <2>2, <2>3, <2>4 DEF DescribedMetadata
<1>6. QED
  BY <1>4, <1>5

LEMMA ResolveShows ==
    ASSUME NEW source, SoundSource(source), NEW m, DescribedMetadata(m), NEW locale,
           NEW maskingString, MaskOr(maskingString) \in Masks,
           NEW d \in Resolve(source, m, locale, maskingString).results,
           NEW r, r.vcs = CredentialsOf(source), r.configIDs = source.configIDs, r.metadata = m,
           r.call = "Resolve", r.given # <<>> => r.configIDs = r.given
    PROVE  Shown(d, r)
<1>1. PICK mappings \in processOpts(source, m).results :
         d \in WithIssuers(getIssuerDisplay(m.displays, locale),
                           buildCredentialDisplays(mappings, locale, MaskOr(maskingString))).results
  BY DEF Resolve, Continue
<1>2. PICK mask \in Masks : mask = MaskOr(maskingString)
  OBVIOUS
<1>3. PICK displays \in buildCredentialDisplays(mappings, locale, mask).results :
         d = [issuers |-> getIssuerDisplay(m.displays, locale), credentials |-> displays]
  BY <1>1, <1>2 DEF WithIssuers
<1>4. /\ mappings = [i \in DOMAIN r.vcs |-> mappings[i]]
      /\ \A i \in DOMAIN r.vcs :
            /\ mappings[i].credential = r.vcs[i]
            /\ mappings[i].config \in ConfigsFor(r, i)
            /\ mappings[i].config # None => Describes(mappings[i].config)
  BY MappedFits
<1> DEFINE outcomes == [i \in DOMAIN mappings |->
              LET vc == mappings[i].credential
              IN  IF ~Displayable(vc) THEN Failure(Error)
                  ELSE IF mappings[i].config = None THEN Result(buildDefaultCredentialDisplay(vc))
                  ELSE buildCredentialDisplay(mappings[i].config, vc, locale, mask)]
<1>5. displays \in InOrder(outcomes).results
  BY DEF buildCredentialDisplays
<1>6. DOMAIN outcomes = DOMAIN r.vcs
  BY <1>4
<1>7. ASSUME NEW i \in DOMAIN r.vcs
      PROVE  \/ /\ mappings[i].config = None
                /\ outcomes[i].results \subseteq {buildDefaultCredentialDisplay(r.vcs[i])}
             \/ /\ mappings[i].config # None
                /\ outcomes[i].results \subseteq
                      buildCredentialDisplay(mappings[i].config, r.vcs[i], locale, mask).results
  BY <1>4 DEF Failure, Result
<1> HIDE DEF outcomes
<1>8. /\ displays = [i \in DOMAIN r.vcs |-> displays[i]]
      /\ \A i \in DOMAIN r.vcs : displays[i] \in outcomes[i].results
  BY <1>5, <1>6, InOrderResults
<1>9. ASSUME NEW i \in DOMAIN r.vcs
      PROVE  /\ displays[i] = [overviews |-> displays[i].overviews, claims |-> displays[i].claims]
             /\ \A c \in displays[i].claims : WellFormedClaim(c) /\ MaskedWith(c, mask)
             /\ Fits(displays[i], r.vcs[i], mappings[i].config, FALSE)
  <2>1. HasSubject(r.vcs[i])
    BY DEF SoundSource
  <2>2. CASE mappings[i].config = None
    BY <1>7, <1>8, <2>1, <2>2, DefaultFits
  <2>3. CASE mappings[i].config # None
    <3>1. displays[i] \in buildCredentialDisplay(mappings[i].config, r.vcs[i], locale, mask).results
      BY <1>7, <1>8, <2>3
    <3>2. Describes(mappings[i].config)
      BY <1>4, <2>3
    <3>3. QED
      BY <2>1, <2>3, <3>1, <3>2, BuiltFits
  <2>4. QED
    BY <2>2, <2>3
<1>10. d.credentials = displays /\ DOMAIN displays = DOMAIN r.vcs
  BY <1>3, <1>8
<1>11. WellFormed(d)
  BY <1>3, <1>8, <1>9, <1>10 DEF WellFormed, WellFormedDisplay
<1>12. ShowsCredentials(d, r)
  BY <1>4, <1>9, <1>10 DEF ShowsCredentials, SoundSource
<1>13. QED
  BY <1>11, <1>12 DEF Shown

LEMMA ResolveCredentialShows ==
    ASSUME NEW source, SoundSource(source), NEW m, DescribedMetadata(m), NEW skip \in BOOLEAN,
           NEW maskingString, MaskOr(maskingString) \in Masks,
           NEW d \in ResolveCredential(source, m, maskingString, skip).results,
           NEW r, r.vcs = CredentialsOf(source), r.configIDs = source.configIDs, r.metadata = m,
           r.call \in ResolvedCalls, r.skip = skip, r.given # <<>> => r.configIDs = r.given
    PROVE  Shown(d, r)
<1>1. PICK mappings \in processOpts(source, m).results :
         d \in WithIssuers(m.displays,
                           buildCredentialDisplaysAllLocale(mappings, MaskOr(maskingString), skip)).results
  BY DEF ResolveCredential, Continue
<1>2. PICK mask \in Masks : mask = MaskOr(maskingString)
  OBVIOUS
<1>3. PICK displays \in buildCredentialDisplaysAllLocale(mappings, mask, skip).results :
         d = [issuers |-> m.displays, credentials |-> displays]
  BY <1>1, <1>2 DEF WithIssuers
<1>4. /\ mappings = [i \in DOMAIN r.vcs |-> mappings[i]]
      /\ \A i \in DOMAIN r.vcs :
            /\ mappings[i].credential = r.vcs[i]
            /\ mappings[i].config \in ConfigsFor(r, i)
            /\ mappings[i].config # None => Describes(mappings[i].config)
  BY MappedFits
<1> DEFINE outcomes == [i \in DOMAIN mappings |->
              IF mappings[i].config = None \/ ~Displayable(mappings[i].credential) THEN Failure(Error)
              ELSE buildCredentialDisplayAllLocale(mappings[i].config, mappings[i].credential, mask, skip)]
<1>5. displays \in InOrder(outcomes).results
  BY DEF buildCredentialDisplaysAllLocale
<1>6. DOMAIN outcomes = DOMAIN r.vcs
  BY <1>4
<1>7. ASSUME NEW i \in DOMAIN r.vcs
      PROVE  IF mappings[i].config = None THEN outcomes[i].results = {}
             ELSE outcomes[i].results \subseteq
                     buildCredentialDisplayAllLocale(mappings[i].config, r.vcs[i], mask, skip).results
  BY <1>4 DEF Failure
<1> HIDE DEF outcomes
<1>8. /\ displays = [i \in DOMAIN r.vcs |-> displays[i]]
      /\ \A i \in DOMAIN r.vcs : displays[i] \in outcomes[i].results
  BY <1>5, <1>6, InOrderResults
<1>9. ASSUME NEW i \in DOMAIN r.vcs
      PROVE  /\ displays[i] = [overviews |-> displays[i].overviews, claims |-> displays[i].claims]
             /\ \A c \in displays[i].claims : WellFormedClaim(c) /\ MaskedWith(c, mask)
             /\ Fits(displays[i], r.vcs[i], mappings[i].config, skip)
  <2>1. HasSubject(r.vcs[i])
    BY DEF SoundSource
  <2>2. mappings[i].config # None
    BY <1>7, <1>8
  <2>3. displays[i] \in buildCredentialDisplayAllLocale(mappings[i].config, r.vcs[i], mask, skip).results
    BY <1>7, <1>8, <2>2
  <2>4. Describes(mappings[i].config)
    BY <1>4, <2>2
  <2>5. QED
    BY <2>1, <2>2, <2>3, <2>4, BuiltAllLocaleFits
<1>10. d.credentials = displays /\ DOMAIN displays = DOMAIN r.vcs
  BY <1>3, <1>8
<1>11. WellFormed(d)
  BY <1>3, <1>8, <1>9, <1>10 DEF WellFormed, WellFormedDisplay
<1>12. r.call # "Resolve" /\ r.call # "ResolveCredentialOffer"
  BY DEF ResolvedCalls
<1>13. ShowsCredentials(d, r)
  <2>1. \A i \in DOMAIN r.vcs : Fits(displays[i], r.vcs[i], mappings[i].config, r.skip /\ r.call # "Resolve")
    <3>1. (r.skip /\ r.call # "Resolve") = skip
      BY <1>12
    <3>2. QED
      BY <1>9, <3>1
  <2>2. QED
    BY <1>4, <1>9, <1>10, <2>1 DEF ShowsCredentials, SoundSource
<1>14. QED
  BY <1>11, <1>12, <1>13 DEF Shown

(* The place of each element of a set of numbers among them.                  *)
RankIn(S, k) == Cardinality({j \in S : j <= k})

LEMMA Ranks ==
    ASSUME NEW n \in Nat, NEW S \in SUBSET (1..n)
    PROVE  /\ IsFiniteSet(S) /\ Cardinality(S) \in Nat
           /\ \A k \in S : RankIn(S, k) \in 1..Cardinality(S)
           /\ \A j, k \in S : RankIn(S, j) = RankIn(S, k) => j = k
           /\ \A i \in 1..Cardinality(S) : \E k \in S : RankIn(S, k) = i
<1> DEFINE below(k) == {j \in S : j <= k}
           place == [k \in S |-> Cardinality(below(k))]
<1>0. \A j \in S : j \in Nat /\ 1 <= j
  OBVIOUS
<1>1. IsFiniteSet(S)
  <2>1. 1 \in Int /\ n \in Int
    OBVIOUS
  <2>2. IsFiniteSet(1..n)
    BY <2>1, FS_Interval
  <2>3. QED
    BY <2>2, FS_Subset
<1>2. Cardinality(S) \in Nat
  BY <1>1, FS_CardinalityType
<1>3. ASSUME NEW k \in S
      PROVE  /\ IsFiniteSet(below(k)) /\ Cardinality(below(k)) \in Nat
             /\ Cardinality(below(k)) <= k /\ Cardinality(below(k)) <= Cardinality(S)
             /\ Cardinality(below(k)) >= 1
  <2>1. below(k) \subseteq 1..k /\ below(k) \subseteq S /\ k \in below(k) /\ k \in Nat
    <3>1. k \in Nat /\ k <= k
      BY <1>0
    <3>2. \A j \in S : j <= k => j \in 1..k
      BY <1>0, <3>1
    <3>3. QED
      BY <3>1, <3>2
  <2>2. IsFiniteSet(1..k) /\ Cardinality(1..k) = k
    BY <2>1, FS_Interval
  <2>3. IsFiniteSet(below(k)) /\ Cardinality(below(k)) \in Nat
    BY <1>1, <2>1, FS_Subset, FS_CardinalityType
  <2>4. Cardinality(below(k)) <= k
    BY <2>1, <2>2, FS_Subset
  <2>5. Cardinality(below(k)) <= Cardinality(S)
    BY <1>1, <2>1, FS_Subset
  <2>6. Cardinality(below(k)) # 0
    BY <2>1, <2>3, FS_EmptySet
  <2>7. QED
    BY <2>3, <2>4, <2>5, <2>6
<1>4. ASSUME NEW j \in S, NEW k \in S, j < k
      PROVE  Cardinality(below(j)) < Cardinality(below(k))
  <2>1. below(j) \subseteq below(k) /\ k \in below(k) /\ k \notin below(j)
    <3>1. \A l \in S : l <= j => l <= k
      BY <1>0, <1>4
    <3>2. k <= k /\ ~(k <= j)
      BY <1>0, <1>4
    <3>3. QED
      BY <3>1, <3>2
  <2>2. below(j) # below(k)
    BY <2>1
  <2>3. IsFiniteSet(below(k)) /\ IsFiniteSet(below(j))
        /\ Cardinality(below(k)) \in Nat /\ Cardinality(below(j)) \in Nat
    BY <1>3
  <2> HIDE DEF below
  <2>4. Cardinality(below(j)) <= Cardinality(below(k))
    BY <2>1, <2>3, FS_Subset
  <2>5. Cardinality(below(j)) # Cardinality(below(k))
    BY <2>1, <2>2, <2>3, FS_Subset
  <2>6. QED
    BY <2>3, <2>4, <2>5
<1>5. place \in Injection(S, 1..Cardinality(S))
  <2>1. place \in [S -> 1..Cardinality(S)]
    BY <1>2, <1>3
  <2>2. ASSUME NEW j \in S, NEW k \in S, place[j] = place[k] PROVE j = k
    <3>1. j \in Nat /\ k \in Nat
      OBVIOUS
    <3>2. ~(j < k) /\ ~(k < j)
      BY <1>3, <1>4, <2>2
    <3>3. QED
      BY <3>1, <3>2
  <2>3. QED
    BY <2>1, <2>2 DEF Injection, IsInjective
<1>6. IsFiniteSet(1..Cardinality(S)) /\ Cardinality(1..Cardinality(S)) = Cardinality(S)
  BY <1>2, FS_Interval
<1>7. place \in Surjection(S, 1..Cardinality(S))
  <2> HIDE DEF place
  <2>1. QED
    BY <1>5, <1>6, FS_Injection
<1>8. \A i \in 1..Cardinality(S) : \E k \in S : place[k] = i
  BY <1>7 DEF Surjection
<1>9. \A j \in S : place[j] = RankIn(S, j)
  BY DEF RankIn
<1>10. \A j, k \in S : place[j] = place[k] => j = k
  BY <1>5, Zenon DEF Injection, IsInjective
<1>11. \A k \in S : place[k] \in 1..Cardinality(S)
  BY <1>5 DEF Injection
<1> HIDE DEF below, place
<1>12. QED
  BY <1>1, <1>2, <1>8, <1>9, <1>10, <1>11

(* The elements of a list at some of its places, in order.                    *)
LEMMA ElementsInOrder ==
    ASSUME NEW n \in Nat, NEW S \in SUBSET (1..n), NEW list, NEW chosen, chosen = ElementsAt(list, S)
    PROVE  /\ Cardinality(S) \in Nat
           /\ chosen = [i \in 1..Cardinality(S) |-> chosen[i]]
           /\ \A k \in S : RankIn(S, k) \in 1..Cardinality(S) /\ chosen[RankIn(S, k)] = list[k]
           /\ \A i \in 1..Cardinality(S) : \E k \in S : RankIn(S, k) = i /\ chosen[i] = list[k]
<1> DEFINE source(i) == CHOOSE k \in S : RankIn(S, k) = i
<1>1. chosen = [i \in 1..Cardinality(S) |-> list[source(i)]]
  BY DEF ElementsAt, RankIn
<1>2. \A i \in 1..Cardinality(S) : source(i) \in S /\ RankIn(S, source(i)) = i
  <2>1. \A i \in 1..Cardinality(S) : \E k \in S : RankIn(S, k) = i
    BY Ranks
  <2>2. QED
    BY <2>1
<1> HIDE DEF source
<1>3. \A i \in 1..Cardinality(S) : chosen[i] = list[source(i)]
  BY <1>1
<1>4. ASSUME NEW k \in S
      PROVE  RankIn(S, k) \in 1..Cardinality(S) /\ chosen[RankIn(S, k)] = list[k]
  <2>1. RankIn(S, k) \in 1..Cardinality(S)
    BY Ranks
  <2>2. source(RankIn(S, k)) = k
    <3>1. PICK i \in 1..Cardinality(S), j \in S : i = RankIn(S, k) /\ j = source(i) /\ RankIn(S, j) = i
      BY <1>2, <2>1
    <3>2. j = k
      BY <3>1, Ranks, Zenon
    <3>3. QED
      BY <3>1, <3>2
  <2>3. QED
    BY <1>3, <2>1, <2>2
<1>5. Cardinality(S) \in Nat
  BY Ranks
<1>6. QED
  BY <1>1, <1>2, <1>3, <1>4, <1>5

(* Whether a type has a configuration does not depend on the order in which   *)
(* Go walks them, and types without are left out.                             *)
LEMMA MatchedOrNot ==
    ASSUME NEW m, DescribedMetadata(m), NEW vcTypes,
           NEW config \in MatchingConfigs(m.configs, vcTypes).results
    PROVE  config = None <=> None \in MatchingConfigs(m.configs, vcTypes).results
<1>1. \A id \in DOMAIN m.configs : m.configs[id] # None
  BY DEF DescribedMetadata, Describes
<1>2. QED
  BY <1>1 DEF MatchingConfigs

LEMMA OfferShows ==
    ASSUME NEW m, DescribedMetadata(m), NEW types, IsList(types), NEW locale,
           NEW d \in ResolveCredentialOffer(m, types, locale).results,
           NEW r, r.vcs = types, r.metadata = m, r.call = "ResolveCredentialOffer"
    PROVE  Shown(d, r)
<1> DEFINE walks == InOrder([k \in DOMAIN types |-> MatchingConfigs(m.configs, types[k])])
<1>1. PICK list, displays :
         /\ list \in walks.results
         /\ displays = [i \in DOMAIN Matched(list) |->
                          [overviews |-> <<getOverviewDisplay(Matched(list)[i], locale)>>, claims |-> {}]]
         /\ d = [issuers |-> getIssuerDisplay(m.displays, locale), credentials |-> displays]
  BY DEF ResolveCredentialOffer, WithIssuers, buildCredentialOfferingDisplays
<1>2. /\ DOMAIN list = DOMAIN types
      /\ \A k \in DOMAIN types : list[k] \in MatchingConfigs(m.configs, types[k]).results
  <2>1. PICK outcomes : outcomes = [k \in DOMAIN types |-> MatchingConfigs(m.configs, types[k])]
    OBVIOUS
  <2>2. list = [k \in DOMAIN outcomes |-> list[k]] /\ \A k \in DOMAIN outcomes : list[k] \in outcomes[k].results
    BY <1>1, <2>1, InOrderResults
  <2>3. QED
    BY <2>1, <2>2
<1> HIDE DEF walks
<1>3. PICK n \in Nat : n = Len(types) /\ DOMAIN types = 1..n
  BY ListDomain
<1>4. PICK found, described :
         /\ found = {k \in DOMAIN list : list[k] # None}
         /\ described = {k \in DOMAIN r.vcs : None \notin MatchingConfigs(r.metadata.configs, r.vcs[k]).results}
  OBVIOUS
<1>5. found = described /\ found \in SUBSET (1..n)
  <2>1. \A k \in DOMAIN types :
           list[k] # None <=> None \notin MatchingConfigs(m.configs, types[k]).results
    BY <1>2, MatchedOrNot
  <2>2. QED
    BY <1>2, <1>3, <1>4, <2>1
<1>6. PICK chosen : chosen = ElementsAt(list, found)
  OBVIOUS
<1>7. /\ Cardinality(found) \in Nat
      /\ chosen = [i \in 1..Cardinality(found) |-> chosen[i]]
      /\ \A k \in found : RankIn(found, k) \in 1..Cardinality(found) /\ chosen[RankIn(found, k)] = list[k]
  BY <1>3, <1>5, <1>6, ElementsInOrder
<1>8. /\ displays = [i \in 1..Cardinality(found) |-> displays[i]]
      /\ \A i \in 1..Cardinality(found) :
            displays[i] = [overviews |-> <<getOverviewDisplay(chosen[i], locale)>>, claims |-> {}]
  <2>1. displays = [i \in DOMAIN chosen |->
                      [overviews |-> <<getOverviewDisplay(chosen[i], locale)>>, claims |-> {}]]
    BY <1>1, <1>4, <1>6 DEF Matched
  <2>2. DOMAIN chosen = 1..Cardinality(found)
    BY <1>7
  <2>3. QED
    BY <2>1, <2>2
<1>9. ASSUME NEW k \in found
      PROVE  \E config \in MatchingConfigs(m.configs, types[k]).results :
                ToSet(displays[RankIn(found, k)].overviews) \subseteq ToSet(config.displays) \cup {EmptyDisplay}
  <2>1. PICK config : config = list[k]
    OBVIOUS
  <2>2. displays[RankIn(found, k)] = [overviews |-> <<getOverviewDisplay(config, locale)>>, claims |-> {}]
    BY <1>7, <1>8, <2>1
  <2>3. k \in DOMAIN types /\ config \in MatchingConfigs(m.configs, types[k]).results /\ config # None
    BY <1>2, <1>4, <2>1
  <2>4. Describes(config)
    BY <2>3, MatchingFinds DEF DescribedMetadata
  <2>5. getOverviewDisplay(config, locale) \in ToSet(config.displays) \cup {EmptyDisplay}
    BY <2>4, BestIsThere DEF Describes, getOverviewDisplay
  <2>6. ToSet(displays[RankIn(found, k)].overviews) = {getOverviewDisplay(config, locale)}
    BY <2>2 DEF ToSet
  <2>7. QED
    BY <2>3, <2>5, <2>6
<1>10. d.credentials = displays /\ DOMAIN displays = 1..Cardinality(found) /\ Len(displays) = Cardinality(found)
  BY <1>1, <1>7, <1>8
<1>11. WellFormed(d)
  <2>1. d = [issuers |-> d.issuers, credentials |-> d.credentials]
    BY <1>1
  <2>2. \A i \in DOMAIN displays :
           /\ displays[i] = [overviews |-> displays[i].overviews, claims |-> displays[i].claims]
           /\ displays[i].claims = {}
    BY <1>8, <1>10
  <2>3. d.credentials = [i \in DOMAIN d.credentials |-> d.credentials[i]]
    BY <1>8, <1>10
  <2>4. QED
    BY <1>10, <2>1, <2>2, <2>3 DEF WellFormed, WellFormedDisplay
<1>12. ShowsOffer(d, r)
  <2>1. \A k \in described : \E config \in MatchingConfigs(r.metadata.configs, r.vcs[k]).results :
           ToSet(d.credentials[Cardinality({j \in described : j <= k})].overviews)
              \subseteq ToSet(config.displays) \cup {EmptyDisplay}
    BY <1>5, <1>9, <1>10 DEF RankIn
  <2>2. Len(d.credentials) = Cardinality(described)
    BY <1>5, <1>10
  <2>3. QED
    BY <1>4, <2>1, <2>2 DEF ShowsOffer
<1>13. QED
  BY <1>11, <1>12 DEF Shown

-----------------------------------------------------------------------------
(* Displaying panics for broken metadata only.                                *)

LEMMA MappedPanics ==
    ASSUME NEW source, NEW m, SoundConfigs(m.configs)
    PROVE  /\ Panic \notin processOpts(source, m).failures
           /\ \A mappings \in processOpts(source, m).results : \A i \in DOMAIN mappings :
                 mappings[i].config = None \/ SoundConfig(mappings[i].config)
<1> DEFINE vcs == processVCOpts(source)
           found(i) == ConfigFor(m.configs, vcs[i].credential, vcs[i].configID)
           outcomes == [i \in DOMAIN vcs |->
                          [results  |-> {[credential |-> vcs[i].credential, config |-> c] :
                                           c \in found(i).results},
                           failures |-> found(i).failures]]
<1>1. \/ processOpts(source, m) = Failure(Error)
      \/ processOpts(source, m) = InOrder(outcomes)
  BY DEF processOpts, processValidatedOpts
<1>2. \A i \in DOMAIN vcs : /\ Panic \notin found(i).failures
                            /\ found(i).results \subseteq {None} \cup {m.configs[id] : id \in DOMAIN m.configs}
  BY ConfigForFinds
<1>3. CASE processOpts(source, m) = Failure(Error)
  BY <1>3, Distinct DEF Failure
<1>4. CASE processOpts(source, m) = InOrder(outcomes)
  <2>1. Panic \notin InOrder(outcomes).failures
    <3>1. ASSUME Panic \in InOrder(outcomes).failures PROVE FALSE
      <4>1. PICK i \in DOMAIN outcomes : Panic \in outcomes[i].failures
        <5> HIDE DEF outcomes
        <5>1. QED
          BY <3>1, InOrderFailures
      <4>2. QED
        BY <1>2, <4>1
    <3>2. QED
      BY <3>1
  <2>2. ASSUME NEW mappings \in InOrder(outcomes).results, NEW i \in DOMAIN mappings
        PROVE  mappings[i].config = None \/ SoundConfig(mappings[i].config)
    <3>1. i \in DOMAIN outcomes /\ mappings[i] \in outcomes[i].results
      <4> HIDE DEF outcomes
      <4>1. mappings = [j \in DOMAIN outcomes |-> mappings[j]]
            /\ \A j \in DOMAIN outcomes : mappings[j] \in outcomes[j].results
        BY <2>2, InOrderResults
      <4>2. QED
        BY <4>1
    <3>2. PICK c \in found(i).results : mappings[i] = [credential |-> vcs[i].credential, config |-> c]
      BY <3>1
    <3>3. mappings[i].config = c
      BY <3>2
    <3>4. c = None \/ \E id \in DOMAIN m.configs : c = m.configs[id]
      BY <1>2, <3>1
    <3>5. QED
      BY <3>3, <3>4 DEF SoundConfigs
  <2>3. QED
    BY <1>4, <2>1, <2>2
<1>5. QED
  BY <1>1, <1>3, <1>4

LEMMA ResolvePanics ==
    ASSUME NEW source, NEW m, SoundConfigs(m.configs), NEW locale, NEW maskingString
    PROVE  Panic \notin Resolve(source, m, locale, maskingString).failures
<1>1. PICK mask : mask = MaskOr(maskingString)
  OBVIOUS
<1>2. ASSUME NEW mappings \in processOpts(source, m).results,
             Panic \in buildCredentialDisplays(mappings, locale, mask).failures
      PROVE  FALSE
  <2> DEFINE outcomes == [i \in DOMAIN mappings |->
                LET vc == mappings[i].credential
                IN  IF ~Displayable(vc) THEN Failure(Error)
                    ELSE IF mappings[i].config = None THEN Result(buildDefaultCredentialDisplay(vc))
                    ELSE buildCredentialDisplay(mappings[i].config, vc, locale, mask)]
  <2>1. Panic \in InOrder(outcomes).failures
    BY <1>2 DEF buildCredentialDisplays
  <2>2. PICK i \in DOMAIN outcomes : Panic \in outcomes[i].failures
    <3> HIDE DEF outcomes
    <3>1. QED
      BY <2>1, InOrderFailures
  <2>3. /\ mappings[i].config # None
        /\ Panic \in buildCredentialDisplay(mappings[i].config, mappings[i].credential, locale, mask).failures
    BY <2>2, Distinct DEF Failure, Result
  <2>4. PICK config : config = mappings[i].config /\ SoundConfig(config)
    BY <2>3, MappedPanics
  <2>5. Panic \in resolveClaims(config, mappings[i].credential, locale, mask).failures
    BY <2>3, <2>4 DEF buildCredentialDisplay, SoundConfig, WithClaims
  <2>6. QED
    BY <2>4, <2>5, ResolveAllFailures DEF resolveClaims, Labelled
<1>3. QED
  BY <1>1, <1>2, MappedPanics DEF Resolve, Continue, WithIssuers

LEMMA ResolveCredentialPanics ==
    ASSUME NEW source, NEW m, SoundConfigs(m.configs), NEW maskingString, NEW skip
    PROVE  Panic \notin ResolveCredential(source, m, maskingString, skip).failures
<1>1. PICK mask : mask = MaskOr(maskingString)
  OBVIOUS
<1>2. ASSUME NEW mappings \in processOpts(source, m).results,
             Panic \in buildCredentialDisplaysAllLocale(mappings, mask, skip).failures
      PROVE  FALSE
  <2> DEFINE outcomes == [i \in DOMAIN mappings |->
                IF mappings[i].config = None \/ ~Displayable(mappings[i].credential) THEN Failure(Error)
                ELSE buildCredentialDisplayAllLocale(mappings[i].config, mappings[i].credential, mask, skip)]
  <2>1. Panic \in InOrder(outcomes).failures
    BY <1>2 DEF buildCredentialDisplaysAllLocale
  <2>2. PICK i \in DOMAIN outcomes : Panic \in outcomes[i].failures
    <3> HIDE DEF outcomes
    <3>1. QED
      BY <2>1, InOrderFailures
  <2>3. /\ mappings[i].config # None
        /\ Panic \in buildCredentialDisplayAllLocale(mappings[i].config, mappings[i].credential,
                                                     mask, skip).failures
    BY <2>2, Distinct DEF Failure
  <2>4. PICK config : config = mappings[i].config /\ SoundConfig(config)
    BY <2>3, MappedPanics
  <2>5. Panic \in resolveClaimsAllLocale(config, mappings[i].credential, mask, skip).failures
    BY <2>3, <2>4 DEF buildCredentialDisplayAllLocale, SoundConfig, WithClaims
  <2>6. QED
    BY <2>4, <2>5, ResolveAllFailures DEF resolveClaimsAllLocale, Labelled
<1>3. QED
  BY <1>1, <1>2, MappedPanics DEF ResolveCredential, Continue, WithIssuers

LEMMA OfferPanics ==
    ASSUME NEW m, Defined(m.configs), NEW types, NEW locale
    PROVE  Panic \notin ResolveCredentialOffer(m, types, locale).failures
<1>1. PICK outcomes : outcomes = [k \in DOMAIN types |-> MatchingConfigs(m.configs, types[k])]
  OBVIOUS
<1>2. ResolveCredentialOffer(m, types, locale).failures = InOrder(outcomes).failures
  BY <1>1 DEF ResolveCredentialOffer, WithIssuers, buildCredentialOfferingDisplays
<1>3. \A k \in DOMAIN outcomes : outcomes[k].failures = {}
  BY <1>1 DEF MatchingConfigs, Defined
<1>4. QED
  BY <1>2, <1>3, InOrderFailures

-----------------------------------------------------------------------------
(* Saving: what is restored is what was saved.                                *)

LEMMA ClaimRoundTrip ==
    ASSUME NEW c, WellFormedClaim(c)
    PROVE  UnmarshalClaim(MarshalClaim(c)) = c
<1> DEFINE kept == {f \in DOMAIN c : f \in DOMAIN ZeroClaim => c[f] # ZeroClaim[f]}
           json == MarshalClaim(c)
<1>1. DOMAIN c = ClaimFields /\ DOMAIN ZeroClaim = ClaimFields \ {"rawID"}
  BY DEF WellFormedClaim, ClaimFields, ZeroClaim
<1>2. json = [f \in kept |-> c[f]]
  BY DEF MarshalClaim, Restrict
<1>3. "rawID" \in kept /\ kept \subseteq ClaimFields
  BY <1>1 DEF ClaimFields
<1>4. \A f \in ClaimFields \ kept : f \in DOMAIN ZeroClaim /\ c[f] = ZeroClaim[f]
  BY <1>1
<1> HIDE DEF kept
<1>5. DOMAIN json \cup DOMAIN ZeroClaim = ClaimFields
  BY <1>1, <1>2, <1>3
<1>6. \A f \in ClaimFields : (IF f \in DOMAIN json THEN json[f] ELSE ZeroClaim[f]) = c[f]
  BY <1>2, <1>4
<1> HIDE DEF json
<1>7. UnmarshalClaim(json) = [f \in ClaimFields |-> c[f]]
  BY <1>5, <1>6 DEF UnmarshalClaim
<1>8. QED
  BY <1>7 DEF WellFormedClaim, json

LEMMA ClaimsRoundTrip ==
    ASSUME NEW claims, \A c \in claims : WellFormedClaim(c), NEW stored,
           stored = {MarshalClaim(c) : c \in claims}
    PROVE  {UnmarshalClaim(j) : j \in stored} = claims
<1>1. \A c \in claims : MarshalClaim(c) \in stored /\ UnmarshalClaim(MarshalClaim(c)) = c
  BY ClaimRoundTrip
<1>2. \A j \in stored : \E c \in claims : j = MarshalClaim(c)
  OBVIOUS
<1>3. \A j \in stored : UnmarshalClaim(j) \in claims
  BY <1>1, <1>2
<1>4. \A c \in claims : \E j \in stored : UnmarshalClaim(j) = c
  BY <1>1
<1>5. QED
  BY <1>3, <1>4

LEMMA RoundTrip ==
    ASSUME NEW d, WellFormed(d)
    PROVE  ParseData(Serialize(d)) = d
<1>1. PICK list : list = d.credentials
  OBVIOUS
<1>2. /\ d = [issuers |-> d.issuers, credentials |-> list]
      /\ list = [i \in DOMAIN list |-> list[i]]
      /\ \A i \in DOMAIN list : WellFormedDisplay(list[i])
  BY <1>1 DEF WellFormed
<1> DEFINE M(i) == {MarshalClaim(c) : c \in list[i].claims}
<1>3. PICK json : json = Serialize(d)
  OBVIOUS
<1>4. /\ json.issuers = d.issuers
      /\ json.credentials = [i \in DOMAIN list |-> [overviews |-> list[i].overviews, claims |-> M(i)]]
  BY <1>1, <1>3 DEF Serialize, OnClaims
<1> DEFINE U(i) == {UnmarshalClaim(j) : j \in json.credentials[i].claims}
           parsed == [i \in DOMAIN json.credentials |->
                        [overviews |-> json.credentials[i].overviews, claims |-> U(i)]]
<1>5. ParseData(json) = [issuers |-> json.issuers, credentials |-> parsed]
  BY DEF ParseData, OnClaims
<1>6. DOMAIN json.credentials = DOMAIN list
  BY <1>4
<1>7. ASSUME NEW i \in DOMAIN list PROVE parsed[i] = list[i]
  <2>1. json.credentials[i].claims = M(i) /\ json.credentials[i].overviews = list[i].overviews
    BY <1>4
  <2>2. U(i) = list[i].claims
    BY <1>2, <2>1, ClaimsRoundTrip DEF WellFormedDisplay
  <2> HIDE DEF M, U
  <2>3. parsed[i] = [overviews |-> list[i].overviews, claims |-> U(i)]
    BY <1>6, <2>1
  <2>4. QED
    BY <1>2, <2>2, <2>3 DEF WellFormedDisplay
<1>8. parsed = [i \in DOMAIN list |-> parsed[i]]
  BY <1>6
<1> HIDE DEF parsed
<1>9. parsed = list
  BY <1>2, <1>7, <1>8
<1>10. QED
  BY <1>2, <1>3, <1>4, <1>5, <1>9

-----------------------------------------------------------------------------
(* The data an app holds, and the data it has saved, show what was asked for. *)

SoundOptions(o) ==
    /\ DOMAIN o = DOMAIN ZeroOpts
    /\ o.skip \in BOOLEAN
    /\ MaskOr(o.masking) \in Masks
    /\ o.configIDs = <<>> \/ \E list \in Lists : o.configIDs = ConfigIDs(list)

ShownInv ==
    /\ SoundOptions(OptsOr(opts))
    /\ data # None => Shown(data, request)
    /\ saved # None => Shown(ParseData(saved.json), saved.request)

LEMMA ListsAreSound ==
    ASSUME NEW list \in Lists, NEW o, SoundOptions(o), Credentials(list) # None
    PROVE  /\ SoundSource(DirectSource(list, o))
           /\ CredentialsOf(DirectSource(list, o)) = Credentials(list)
           /\ DirectSource(list, o).configIDs = o.configIDs
<1>1. PICK source : source = DirectSource(list, o)
  OBVIOUS
<1>2. /\ source.vcs = Credentials(list) /\ source.configIDs = o.configIDs
      /\ CredentialsOf(source) = Credentials(list)
  BY <1>1 DEF DirectSource, CredentialsOf
<1>3. /\ IsList(list)
      /\ \A i \in DOMAIN list : HasSubject(list[i].credential) /\ list[i].configID # None
  BY CredentialsAssumption DEF HasSubject, IsJSON
<1>4. IsList(Credentials(list)) /\ DOMAIN Credentials(list) = DOMAIN list
  BY <1>3, MappedList DEF Credentials
<1>5. \A i \in DOMAIN list : HasSubject(Credentials(list)[i])
  BY <1>3 DEF Credentials
<1>6. ASSUME source.configIDs # <<>>, validateVCOpts(source), NEW i \in DOMAIN Credentials(list)
      PROVE  source.configIDs[i] # None
  <2>1. Len(source.configIDs) = Len(source.vcs)
    BY <1>2, <1>6 DEF validateVCOpts
  <2>2. PICK other \in Lists : source.configIDs = ConfigIDs(other)
    BY <1>2, <1>6 DEF SoundOptions
  <2>3. IsList(other) /\ \A j \in DOMAIN other : other[j].configID # None
    BY CredentialsAssumption
  <2>4. IsList(ConfigIDs(other)) /\ DOMAIN ConfigIDs(other) = DOMAIN other
    BY <2>3, MappedList DEF ConfigIDs
  <2>5. i \in DOMAIN other
    BY <1>2, <1>4, <2>1, <2>2, <2>4, ListDomain
  <2>6. QED
    BY <2>2, <2>3, <2>5 DEF ConfigIDs
<1>7. SoundSource(source)
  BY <1>2, <1>4, <1>5, <1>6 DEF SoundSource
<1>8. QED
  BY <1>1, <1>2, <1>7

(* Without credentials, or without metadata, there is nothing to show.        *)
LEMMA NothingToShow ==
    ASSUME NEW source, NEW m, m = Error \/ (source.vcs = None /\ source.reader = None)
    PROVE  processOpts(source, m).results = {}
BY DEF processOpts, processValidatedOpts, validateVCOpts, Failure

LEMMA ListShows ==
    ASSUME Published(published), NEW list \in Lists, NEW o, SoundOptions(o), NEW reached, NEW m,
           m = Get(reached, o.resolver), NEW call \in {"Resolve"} \cup ResolvedCalls,
           NEW given, given # <<>> => given = o.configIDs, NEW d,
           d \in (IF call = "Resolve" THEN Resolve(DirectSource(list, o), m, o.locale, o.masking)
                  ELSE ResolveCredential(DirectSource(list, o), m, o.masking, o.skip)).results
    PROVE  Shown(d, Asked(call, Credentials(list), given, m, o))
<1>1. PICK source, r : /\ source = DirectSource(list, o)
                       /\ r = Asked(call, Credentials(list), given, m, o)
  OBVIOUS
<1>2. \E mappings \in processOpts(source, m).results : TRUE
  BY <1>1 DEF Resolve, ResolveCredential, Continue
<1>3. m # Error /\ Credentials(list) # None
  BY <1>1, <1>2, NothingToShow DEF DirectSource
<1>4. SoundSource(source) /\ CredentialsOf(source) = Credentials(list) /\ source.configIDs = o.configIDs
  BY <1>1, <1>3, ListsAreSound
<1>5. DescribedMetadata(m)
  BY <1>3, FetchedAsSuch DEF AsFetched
<1>6. /\ r.vcs = CredentialsOf(source) /\ r.configIDs = source.configIDs /\ r.metadata = m
      /\ r.call = call /\ r.skip = o.skip /\ (r.given # <<>> => r.configIDs = r.given)
  BY <1>1, <1>4 DEF Asked
<1>7. MaskOr(o.masking) \in Masks /\ o.skip \in BOOLEAN
  BY DEF SoundOptions
<1>8. CASE call = "Resolve"
  BY <1>1, <1>4, <1>5, <1>6, <1>7, <1>8, ResolveShows
<1>9. CASE call \in ResolvedCalls
  <2>1. call # "Resolve"
    BY <1>9 DEF ResolvedCalls
  <2>2. QED
    BY <1>1, <1>4, <1>5, <1>6, <1>7, <1>9, <2>1, ResolveCredentialShows
<1>10. QED
  BY <1>8, <1>9

LEMMA OneElement ==
    ASSUME NEW x
    PROVE  IsList(<<x>>) /\ \A i \in DOMAIN <<x>> : <<x>>[i] = x
<1>1. DOMAIN <<x>> = 1..1 /\ <<x>>[1] = x /\ Len(<<x>>) = 1
  OBVIOUS
<1>2. <<x>> = [i \in 1..1 |-> <<x>>[i]]
  OBVIOUS
<1>3. \A i \in 1..1 : i = 1
  OBVIOUS
<1>4. IsList(<<x>>)
  BY <1>1, <1>2 DEF IsList
<1>5. QED
  BY <1>1, <1>3, <1>4

LEMMA StoredAreSound ==
    ASSUME NEW id \in DOMAIN Stored, NEW ids, ids = <<id>>, NEW vcs,
           vcs = [i \in DOMAIN ids |-> Stored[ids[i]]]
    PROVE  IsList(vcs) /\ \A i \in DOMAIN vcs : HasSubject(vcs[i])
<1>1. IsList(ids) /\ \A i \in DOMAIN ids : ids[i] = id
  BY OneElement
<1>2. HasSubject(Stored[id])
  BY CredentialsAssumption DEF HasSubject, IsJSON
<1>3. DOMAIN vcs = DOMAIN ids /\ \A i \in DOMAIN ids : vcs[i] = Stored[ids[i]]
  OBVIOUS
<1>4. IsList(vcs)
  <2>1. vcs = [i \in DOMAIN ids |-> vcs[i]]
    BY <1>3
  <2>2. QED
    BY <1>1, <2>1, MappedList
<1>5. QED
  BY <1>1, <1>2, <1>3, <1>4

LEMMA StoredShows ==
    ASSUME Published(published), NEW id \in DOMAIN Stored, NEW m, NEW reached, m = Get(reached, TRUE),
           NEW ids, ids = <<id>>, NEW vcs, vcs = [i \in DOMAIN ids |-> Stored[ids[i]]],
           NEW source, source = [vcs |-> None, configIDs |-> <<>>, reader |-> Stored, ids |-> ids],
           NEW d \in Resolve(source, m, "", None).results
    PROVE  Shown(d, Asked("Resolve", vcs, <<>>, m, ZeroOpts))
<1>1. PICK r : r = Asked("Resolve", vcs, <<>>, m, ZeroOpts)
  OBVIOUS
<1>2. m # Error
  <2>1. \E mappings \in processOpts(source, m).results : TRUE
    BY DEF Resolve, Continue
  <2>2. m = Error => processOpts(source, m).results = {}
    BY DEF processOpts, processValidatedOpts, Failure
  <2>3. QED
    BY <2>1, <2>2
<1>3. DescribedMetadata(m)
  BY <1>2, FetchedAsSuch DEF AsFetched
<1>4. source.vcs = None /\ source.ids = ids /\ source.reader = Stored /\ source.configIDs = <<>>
  OBVIOUS
<1>5. CredentialsOf(source) = vcs
  BY <1>4 DEF CredentialsOf
<1>6. IsList(vcs) /\ \A i \in DOMAIN vcs : HasSubject(vcs[i])
  BY StoredAreSound
<1>7. SoundSource(source)
  BY <1>4, <1>5, <1>6 DEF SoundSource
<1>8. MaskOr(None) \in Masks
  BY DEF MaskOr, Masks
<1>9. /\ r.vcs = CredentialsOf(source) /\ r.configIDs = source.configIDs /\ r.metadata = m
      /\ r.call = "Resolve" /\ r.given = <<>>
  BY <1>1, <1>4, <1>5 DEF Asked, ZeroOpts
<1>10. QED
  BY <1>1, <1>3, <1>7, <1>8, <1>9, ResolveShows

(* Whatever a display call returns, the app holds data that shows it.         *)
LEMMA ShownDisplay ==
    ASSUME ShownInv, NEW call, NEW outcome, NEW asked, Display(call, outcome, asked),
           \A d \in outcome.results : Shown(d, asked),
           saved' = saved, SoundOptions(OptsOr(opts'))
    PROVE  ShownInv'
<1>1. CASE \E d \in outcome.results : data' = d /\ request' = asked
  BY <1>1 DEF ShownInv
<1>2. CASE UNCHANGED <<data, request>>
  BY <1>2 DEF ShownInv
<1>3. QED
  BY <1>1, <1>2 DEF Display

LEMMA ListStep ==
    ASSUME ToldInv, ShownInv, NEW list \in Lists, NEW o, SoundOptions(o), NEW reached,
           NEW call \in {"Resolve"} \cup ResolvedCalls, ResolveWith(call, list, o, reached),
           call = "ResolveCredentialV2" => o.configIDs = ConfigIDs(list),
           saved' = saved, SoundOptions(OptsOr(opts'))
    PROVE  ShownInv'
<1>1. PICK m : m = Get(reached, o.resolver)
  OBVIOUS
<1>2. PICK outcome : outcome = IF call = "Resolve" THEN Resolve(DirectSource(list, o), m, o.locale, o.masking)
                               ELSE ResolveCredential(DirectSource(list, o), m, o.masking, o.skip)
  OBVIOUS
<1>3. PICK given, asked : /\ given = IF call = "ResolveCredentialV2" THEN ConfigIDs(list) ELSE <<>>
                          /\ asked = Asked(call, Credentials(list), given, m, o)
  OBVIOUS
<1>4. Display(call, outcome, asked)
  BY <1>1, <1>2, <1>3 DEF ResolveWith
<1>5. \A d \in outcome.results : Shown(d, asked)
  BY <1>1, <1>2, <1>3, ListShows DEF ToldInv
<1>6. QED
  BY <1>4, <1>5, ShownDisplay

LEMMA ShownReader ==
    ASSUME ToldInv, ShownInv, NEW id \in DOMAIN Stored, ResolveFromReader(<<id>>)
    PROVE  ShownInv'
<1>1. PICK ids : ids = <<id>>
  OBVIOUS
<1>2. ResolveFromReader(ids)
  BY <1>1
<1>3. PICK reached, m, source, vcs :
         /\ m = Get(reached, TRUE)
         /\ source = [vcs |-> None, configIDs |-> <<>>, reader |-> Stored, ids |-> ids]
         /\ vcs = [i \in DOMAIN ids |-> Stored[ids[i]]]
         /\ Display("Resolve", Resolve(source, m, "", None), Asked("Resolve", vcs, <<>>, m, ZeroOpts))
  BY <1>2 DEF ResolveFromReader
<1>4. \A d \in Resolve(source, m, "", None).results : Shown(d, Asked("Resolve", vcs, <<>>, m, ZeroOpts))
  BY <1>1, <1>3, StoredShows DEF ToldInv
<1>5. saved' = saved /\ opts' = opts
  BY <1>2 DEF ResolveFromReader
<1>6. QED
  BY <1>3, <1>4, <1>5, ShownDisplay DEF ShownInv

LEMMA ShownOffer ==
    ASSUME MadeInv, HeldInv, ShownInv, DisplayOffer
    PROVE  ShownInv'
<1>1. PICK m, types, asked :
         /\ m = interaction.issuerMetadata /\ types = interaction.types
         /\ asked = Asked("ResolveCredentialOffer", types, <<>>, m, ZeroOpts)
  OBVIOUS
<1>2. Display("ResolveCredentialOffer", ResolveCredentialOffer(m, types, OptsOr(opts).locale), asked)
  BY <1>1 DEF DisplayOffer
<1>3. DescribedMetadata(m) /\ IsList(types)
  BY <1>1 DEF DisplayOffer, MadeInv, HeldInv, AsFetched
<1>4. asked.vcs = types /\ asked.metadata = m /\ asked.call = "ResolveCredentialOffer"
  BY <1>1 DEF Asked
<1>5. \A d \in ResolveCredentialOffer(m, types, OptsOr(opts).locale).results : Shown(d, asked)
  BY <1>3, <1>4, OfferShows
<1>6. saved' = saved /\ opts' = opts
  BY DEF DisplayOffer
<1>7. QED
  BY <1>2, <1>5, <1>6, ShownDisplay DEF ShownInv

LEMMA SoundZero == SoundOptions(ZeroOpts)
BY DEF SoundOptions, ZeroOpts, MaskOr, Masks

LEMMA ShownOptions ==
    ASSUME ShownInv, SetOptions
    PROVE  ShownInv'
<1>1. PICK s \in Settings :
         opts' = [locale |-> s.locale, masking |-> s.masking, skip |-> s.skip,
                  resolver |-> s.resolver, configIDs |-> OptsOr(opts).configIDs]
  BY DEF SetOptions
<1>2. SoundOptions(opts')
  BY <1>1, SettingsAssumption DEF ShownInv, SoundOptions, Masks, ZeroOpts
<1>3. SoundOptions(OptsOr(opts'))
  BY <1>2, SoundZero DEF OptsOr
<1>4. UNCHANGED <<data, request, saved>>
  BY DEF SetOptions
<1>5. QED
  BY <1>3, <1>4 DEF ShownInv

LEMMA ShownV2 ==
    ASSUME ToldInv, ShownInv, NEW list \in Lists, ResolveCredentialV2(list)
    PROVE  ShownInv'
<1>1. CASE opts = None
  <2>1. UNCHANGED <<opts, data, request, saved>>
    BY <1>1 DEF ResolveCredentialV2
  <2>2. QED
    BY <2>1 DEF ShownInv
<1>2. CASE opts # None
  <2>1. PICK reached, o : /\ opts' = o
                          /\ o = [opts EXCEPT !.configIDs = ConfigIDs(list)]
                          /\ ResolveWith("ResolveCredentialV2", list, o, reached)
    BY <1>2 DEF ResolveCredentialV2
  <2>2. SoundOptions(opts)
    BY <1>2 DEF ShownInv, OptsOr
  <2>3. SoundOptions(o)
    <3>1. /\ DOMAIN o = DOMAIN opts /\ o.skip = opts.skip /\ o.masking = opts.masking
          /\ o.configIDs = ConfigIDs(list)
      BY <2>1, <2>2 DEF SoundOptions, ZeroOpts
    <3>2. QED
      BY <2>2, <3>1 DEF SoundOptions
  <2>4. SoundOptions(OptsOr(opts'))
    BY <2>1, <2>3, SoundZero DEF OptsOr
  <2>5. saved' = saved
    BY DEF ResolveCredentialV2
  <2>6. "ResolveCredentialV2" \in {"Resolve"} \cup ResolvedCalls
    BY DEF ResolvedCalls
  <2>7. o.configIDs = ConfigIDs(list)
    BY <2>1, <2>2 DEF SoundOptions, ZeroOpts
  <2>8. QED
    BY <2>1, <2>3, <2>4, <2>5, <2>6, <2>7, ListStep
<1>3. QED
  BY <1>1, <1>2

LEMMA ShownList ==
    ASSUME ToldInv, ShownInv, NEW list \in Lists, NEW call \in {"Resolve", "ResolveCredential"},
           ResolveList(call, list)
    PROVE  ShownInv'
<1>1. PICK reached, o : o = OptsOr(opts) /\ ResolveWith(call, list, o, reached)
  BY DEF ResolveList
<1>2. saved' = saved /\ opts' = opts
  BY DEF ResolveList
<1>3. SoundOptions(o) /\ SoundOptions(OptsOr(opts'))
  BY <1>1, <1>2 DEF ShownInv
<1>4. call \in {"Resolve"} \cup ResolvedCalls
  BY DEF ResolvedCalls
<1>5. QED
  BY <1>1, <1>2, <1>3, <1>4, ListStep

LEMMA ShownSaved ==
    ASSUME ShownInv, Save
    PROVE  ShownInv'
<1>1. PICK json : json = Serialize(data)
  OBVIOUS
<1>2. saved' = [json |-> json, request |-> request] /\ UNCHANGED <<opts, data, request>> /\ data # None
  BY <1>1 DEF Save
<1>3. Shown(data, request)
  BY <1>2 DEF ShownInv
<1>4. ParseData(json) = data
  BY <1>1, <1>3, RoundTrip DEF Shown
<1>5. saved'.json = json /\ saved'.request = request
  BY <1>2
<1>6. Shown(ParseData(saved'.json), saved'.request)
  BY <1>3, <1>4, <1>5
<1>7. QED
  BY <1>2, <1>3, <1>6 DEF ShownInv

LEMMA ShownRestored ==
    ASSUME ShownInv, Restore
    PROVE  ShownInv'
BY DEF ShownInv, Restore

LEMMA ShownNext == ToldInv /\ MadeInv /\ HeldInv /\ ShownInv /\ [Next]_vars => ShownInv'
<1>1. ASSUME ShownInv, UNCHANGED displayVars PROVE ShownInv'
  BY <1>1 DEF ShownInv, displayVars
<1>2. ASSUME UNCHANGED vars PROVE UNCHANGED displayVars
  BY <1>2 DEF vars
<1>3. ASSUME Reading
      PROVE  UNCHANGED displayVars
  BY <1>3 DEF Reading, ReadIssuer, ReadLocalizedIssuer, ReadOverview, ReadLocalizedOverview, ReadClaim, ReadSubject, Read
<1>4. QED
  BY <1>1, <1>2, <1>3, ShownOptions, ShownList, ShownV2, ShownReader, ShownOffer, ShownSaved,
     ShownRestored DEF Next, Reading

LEMMA ShownInit == Init => ShownInv
BY SoundZero DEF Init, ShownInv, OptsOr

LEMMA ShownAlways == Spec => [](ToldInv /\ MadeInv /\ HeldInv /\ ShownInv)
<1>1. Init => HeldInv
  BY DEF Init, ContactInit, HeldInv
<1>2. QED
  BY <1>1, ToldAlways, MadeAlways, HeldNext, ShownInit, ShownNext, PTL DEF Spec

(* What the app holds shows the credentials, or the offer, it was asked for:  *)
(* values of its own credential, always; labels and overviews of one          *)
(* configuration of it, unless the options carried the IDs of another call;   *)
(* and, of an offer, every type that has a configuration, in the order of the *)
(* types (Resolve, ResolveCredential, ResolveCredentialV2,                    *)
(* ResolveCredentialOffer).                                                   *)
THEOREM DisplaysAreOfTheirCredentials == Spec => []DisplaysFitCredentials
<1>1. ASSUME ShownInv, OfCredentials
      PROVE  /\ Len(data.credentials) = Len(request.vcs)
             /\ \A i \in DOMAIN data.credentials :
                   /\ \A c \in ClaimsOf(i) : c.rawValue \in TextsOf(request.vcs[i])
                   /\ IDsLeftOver \/ \E config \in OwnConfigs(i) : DescribedBy(config, i)
  <2>1. ShowsCredentials(data, request) /\ WellFormed(data)
    BY <1>1 DEF ShownInv, OfCredentials, Shown
  <2>2. Len(data.credentials) = Len(request.vcs)
    <3>1. DOMAIN data.credentials = 1..Len(request.vcs) /\ Len(request.vcs) \in Nat
      BY <2>1, ListDomain DEF ShowsCredentials, IsList
    <3>2. QED
      BY <3>1
  <2>3. ASSUME NEW i \in DOMAIN data.credentials
        PROVE  /\ \A c \in ClaimsOf(i) : c.rawValue \in TextsOf(request.vcs[i])
               /\ IDsLeftOver \/ \E config \in OwnConfigs(i) : DescribedBy(config, i)
    <3>1. PICK config \in ConfigsFor(request, i) :
             Fits(data.credentials[i], request.vcs[i], config, request.skip /\ request.call # "Resolve")
      BY <2>1 DEF ShowsCredentials
    <3>2. \A c \in ClaimsOf(i) : c.rawValue \in TextsOf(request.vcs[i])
      BY <3>1 DEF Fits, ClaimsOf
    <3>3. DescribedBy(config, i)
      BY <3>1 DEF Fits, ClaimsOf, DescribedBy, OverviewsAreOf
    <3>4. IDsLeftOver \/ request.configIDs = request.given
      BY <2>1 DEF ShowsCredentials, IDsLeftOver
    <3>5. IDsLeftOver \/ config \in OwnConfigs(i)
      BY <3>1, <3>4 DEF ConfigsFor, OwnConfigs
    <3>6. QED
      BY <3>2, <3>3, <3>5
  <2>4. QED
    BY <2>2, <2>3
<1>2. ASSUME ShownInv, data # None, ~OfCredentials
      PROVE  ShowsOffer(data, request)
  BY <1>2 DEF ShownInv, OfCredentials, Shown
<1>3. ShownInv => DisplaysFitCredentials
  BY <1>1, <1>2 DEF DisplaysFitCredentials, ShowsOffer, OverviewsAreOf
<1>4. QED
  BY <1>3, ShownAlways, PTL

(* Every claim that a configuration describes and the credential plainly has  *)
(* is shown exactly once (resolveClaims and its variants).                    *)
THEOREM PlainClaimsAreShown == Spec => []NothingPlainIsMissing
<1>1. ASSUME ShownInv, OfCredentials, NEW i \in DOMAIN data.credentials
      PROVE  \E config \in ConfigsOf(i) :
                config # None =>
                    \A name \in DOMAIN config.definition.claims :
                        /\ config.definition.claims[name].displays # <<>>
                        /\ PlainlyThere(request.vcs[i], name)
                        /\ ~(request.skip /\ request.call # "Resolve" /\ name.kind = "vcPath")
                        => Cardinality({c \in ClaimsOf(i) : c.rawID = name}) = 1
  <2>1. ShowsCredentials(data, request)
    BY <1>1 DEF ShownInv, OfCredentials, Shown
  <2>2. PICK config \in ConfigsOf(i) :
           Fits(data.credentials[i], request.vcs[i], config, request.skip /\ request.call # "Resolve")
    BY <1>1, <2>1 DEF ShowsCredentials, ConfigsOf, ConfigsFor
  <2>3. config # None => Complete(ClaimsOf(i), request.vcs[i], config,
                                  request.skip /\ request.call # "Resolve")
    BY <2>2 DEF Fits, ClaimsOf
  <2>4. QED
    BY <2>2, <2>3 DEF Complete
<1>2. ShownInv => NothingPlainIsMissing
  BY <1>1 DEF NothingPlainIsMissing
<1>3. QED
  BY <1>2, ShownAlways, PTL

-----------------------------------------------------------------------------
(* Crashes.                                                                   *)

LEMMA FetchedConfigs ==
    ASSUME Published(published), NEW reached, NEW verifier, NEW m,
           m = Get(reached, verifier), m # Error
    PROVE  m.configs = published.configs
<1>1. DOMAIN m = DOMAIN published /\ \A field \in DOMAIN m \ {"jwtKID"} : m[field] = published[field]
  BY Fetched
<1>2. "configs" \in DOMAIN published
  BY MetadataAssumption DEF Published, Versioned
<1>3. QED
  BY <1>1, <1>2

LEMMA FetchedPanics ==
    ASSUME Published(published), NEW reached, NEW verifier, NEW m,
           m = Get(reached, verifier), m # Error, ~SoundConfigs(m.configs)
    PROVE  ~Sound(published)
BY FetchedConfigs, SoundIsOfConfigs

LEMMA ParametersPanics ==
    ASSUME NEW ids, NEW configs, Defined(configs), IsList(ids)
    PROVE  ParametersFailure(ids, configs) # Panic
<1>1. PICK bad : bad = {i \in DOMAIN ids : ParameterFailure(ids[i], configs) # None}
  OBVIOUS
<1>2. PICK first : first = CHOOSE i \in bad : \A j \in bad : i <= j
  OBVIOUS
<1>3. ParametersFailure(ids, configs) = IF bad = {} THEN None ELSE ParameterFailure(ids[first], configs)
  BY <1>1, <1>2 DEF ParametersFailure
<1>4. ParameterFailure(ids[first], configs) # Panic
  BY Distinct DEF ParameterFailure, Defined
<1>5. QED
  BY <1>3, <1>4, Distinct

(* A crash, with what explains it.                                            *)
CrashOf(call) == answer.failed = call /\ answer.failure = Panic

Explained ==
    \/ CrashOf("New") /\ ~Defined(published.configs)
    \/ CrashOf("SupportedCredentials") /\ ~Defined(interaction.issuerMetadata.configs)
    \/ CrashOf("ResolveCredentialOffer") /\ ~Defined(interaction.issuerMetadata.configs)
    \/ CrashOf("Resolve") /\ ~Sound(published)
    \/ CrashOf("ResolveCredential") /\ ~Sound(published)
    \/ CrashOf("ResolveCredentialV2") /\ (~Sound(published) \/ opts = None)
    \/ CrashOf("IssuerDisplay") /\ data.issuers = <<>>
    \/ CrashOf("Logo") /\ \E o \in AllOverviews : o.logo = None
    \/ CrashOf("Attachment") /\ answer.type # "attachment"

(* In a state that is about to change, with the state after.                  *)
LEMMA FailedCrash ==
    ASSUME NEW call, NEW failure
    PROVE  /\ (Failed(call, failure)).failed = call
           /\ (Failed(call, failure)).failure = failure
           /\ (Answer(call)).failure = None
BY DEF Failed, Answer

LEMMA NewPanics ==
    ASSUME ToldInv, NEW uri \in OfferURIs, NewIssuerInitiatedInteraction(uri), answer'.failure = Panic
    PROVE  CrashOf("New")' /\ ~Defined(published'.configs)
<1>1. PICK offered, reached, logged \in BOOLEAN :
         LET offer   == getCredentialOffer(uri, offered)
             m       == Get(reached, TRUE)
             failure == CreationFailure(offer, m, logged)
         IN  IF failure # None THEN answer' = Failed("New", failure) ELSE answer' = Answer("New")
  BY DEF NewIssuerInitiatedInteraction
<1>2. PICK m, offer : m = Get(reached, TRUE) /\ offer = getCredentialOffer(uri, offered)
  OBVIOUS
<1>3. PICK failure : failure = CreationFailure(offer, m, logged)
  OBVIOUS
<1>4. IF failure # None THEN answer' = Failed("New", failure) ELSE answer' = Answer("New")
  BY <1>1, <1>2, <1>3
<1>5. failure = Panic /\ answer' = Failed("New", Panic)
  BY <1>4, FailedCrash, Distinct
<1>6. m # Error /\ offer # Error /\ ParametersFailure(offer.ids, m.configs) = Panic
  BY <1>3, <1>5, Distinct DEF CreationFailure
<1>7. IsList(offer.ids)
  BY <1>2, <1>6, OffersAssumption DEF getCredentialOffer
<1>8. ~Defined(m.configs)
  BY <1>6, <1>7, ParametersPanics
<1>9. m.configs = published.configs
  BY <1>2, <1>6, FetchedConfigs DEF ToldInv
<1>10. published' = published
  BY DEF NewIssuerInitiatedInteraction
<1>11. QED
  BY <1>5, <1>8, <1>9, <1>10, FailedCrash DEF CrashOf

LEMMA SupportedPanics ==
    ASSUME ToldInv, SupportedCredentials, answer'.failure = Panic
    PROVE  CrashOf("SupportedCredentials")' /\ ~Defined(interaction'.issuerMetadata.configs)
<1>1. PICK reached, m :
         /\ interaction # None
         /\ m = populateIssuerMetadata(reached)
         /\ answer' = IF m = Error THEN Failed("Fetch", Error) ELSE SupportedCredentialsReply(m)
         /\ interaction' = IF m = Error THEN interaction ELSE [interaction EXCEPT !.issuerMetadata = m]
  BY DEF SupportedCredentials, Ask
<1>2. m # Error
  BY <1>1, FailedCrash, Distinct
<1>3. answer' = SupportedCredentialsReply(m)
  BY <1>1, <1>2
<1>4. ~Defined(m.configs) /\ answer' = Failed("SupportedCredentials", Panic)
  BY <1>3, Distinct DEF SupportedCredentialsReply, Defined
<1>5. interaction'.issuerMetadata = m
  BY <1>1, <1>2 DEF ToldInv, InteractionFields
<1>6. QED
  BY <1>4, <1>5, FailedCrash DEF CrashOf

LEMMA ContactPanics ==
    ASSUME ToldInv, answer.failure # Panic, ContactNext, answer'.failure = Panic
    PROVE  Explained'
<1>1. ASSUME Publish PROVE FALSE
  BY <1>1 DEF Publish
<1>2. ASSUME NEW uri \in OfferURIs, NewIssuerInitiatedInteraction(uri) PROVE Explained'
  BY <1>2, NewPanics DEF Explained
<1>3. ASSUME NewWalletInitiatedInteraction PROVE FALSE
  BY <1>3, Distinct DEF NewWalletInitiatedInteraction, Answer, Failed
<1>4. ASSUME SupportedCredentials PROVE Explained'
  BY <1>4, SupportedPanics DEF Explained
<1>5. ASSUME IssuerMetadata PROVE FALSE
  BY <1>5, Distinct DEF IssuerMetadata, Ask, IssuerMetadataReply, Failed
<1>6. ASSUME DynamicClientRegistrationSupported PROVE FALSE
  BY <1>6, Distinct DEF DynamicClientRegistrationSupported, Ask, RegistrationSupportedReply, Failed
<1>7. ASSUME DynamicClientRegistrationEndpoint PROVE FALSE
  BY <1>7, Distinct DEF DynamicClientRegistrationEndpoint, Ask, RegistrationEndpointReply, Failed, Answer
<1>8. ASSUME PreAuthorizedCodeGrantParams \/ AuthorizationCodeGrantParams PROVE FALSE
  BY <1>8, Distinct DEF PreAuthorizedCodeGrantParams, AuthorizationCodeGrantParams, ReadGrant, Failed
<1>9. ASSUME VerifyIssuer PROVE FALSE
  BY <1>9, Distinct DEF VerifyIssuer, Ask, VerifyIssuerReply, Failed
<1>10. ASSUME IssuerTrustInfo PROVE FALSE
  BY <1>10, Distinct DEF IssuerTrustInfo, Ask, IssuerTrustInfoReply, Failed
<1>11. QED
  BY <1>1, <1>2, <1>3, <1>4, <1>5, <1>6, <1>7, <1>8, <1>9, <1>10 DEF ContactNext

LEMMA DisplayPanics ==
    ASSUME NEW call, NEW outcome, NEW asked, Display(call, outcome, asked), answer'.failure = Panic
    PROVE  Panic \in outcome.failures /\ CrashOf(call)'
<1>1. ~\E d \in outcome.results : answer' = Answer(call)
  BY FailedCrash, Distinct
<1>2. PICK e \in outcome.failures : answer' = Failed(call, e)
  BY <1>1 DEF Display
<1>3. QED
  BY <1>2, FailedCrash DEF CrashOf

(* Without metadata no display call panics.                                   *)
LEMMA UnreachedPanics ==
    ASSUME NEW source, NEW locale, NEW maskingString, NEW skip
    PROVE  /\ Panic \notin Resolve(source, Error, locale, maskingString).failures
           /\ Panic \notin ResolveCredential(source, Error, maskingString, skip).failures
<1>1. processOpts(source, Error) = Failure(Error)
  BY DEF processOpts, processValidatedOpts
<1>2. (Failure(Error)).results = {} /\ Panic \notin (Failure(Error)).failures
  BY Distinct DEF Failure
<1>3. QED
  BY <1>1, <1>2 DEF Resolve, ResolveCredential, Continue

LEMMA ListPanics ==
    ASSUME ToldInv, NEW call, NEW list, NEW o, NEW reached,
           ResolveWith(call, list, o, reached), answer'.failure = Panic
    PROVE  ~Sound(published) /\ CrashOf(call)'
<1>1. PICK m : m = Get(reached, o.resolver)
  OBVIOUS
<1>2. PICK outcome : outcome = IF call = "Resolve" THEN Resolve(DirectSource(list, o), m, o.locale, o.masking)
                               ELSE ResolveCredential(DirectSource(list, o), m, o.masking, o.skip)
  OBVIOUS
<1>3. PICK asked : Display(call, outcome, asked)
  BY <1>1, <1>2 DEF ResolveWith
<1>4. Panic \in outcome.failures /\ CrashOf(call)'
  BY <1>3, DisplayPanics
<1>5. m # Error
  BY <1>2, <1>4, UnreachedPanics
<1>6. ~SoundConfigs(m.configs)
  BY <1>2, <1>4, ResolvePanics, ResolveCredentialPanics
<1>7. QED
  BY <1>1, <1>4, <1>5, <1>6, FetchedPanics DEF ToldInv

LEMMA ReaderPanics ==
    ASSUME ToldInv, NEW ids, ResolveFromReader(ids), answer'.failure = Panic
    PROVE  ~Sound(published) /\ CrashOf("Resolve")'
<1>1. PICK reached, verifier, m, source, asked :
         m = Get(reached, verifier) /\ Display("Resolve", Resolve(source, m, "", None), asked)
  BY DEF ResolveFromReader
<1>2. Panic \in Resolve(source, m, "", None).failures /\ CrashOf("Resolve")'
  BY <1>1, DisplayPanics
<1>3. m # Error /\ ~SoundConfigs(m.configs)
  BY <1>2, UnreachedPanics, ResolvePanics
<1>4. m = Get(reached, verifier) /\ Published(published)
  BY <1>1 DEF ToldInv
<1>5. QED
  <2>1. m = Get(reached, verifier) /\ m # Error /\ ~SoundConfigs(m.configs)
    BY <1>3, <1>4
  <2>2. ~Sound(published)
    BY <1>4, <2>1, FetchedPanics, Zenon
  <2>3. QED
    BY <1>2, <2>2

(* Getters crash on what is absent: of the claims the app holds, only those   *)
(* of another type have no attachment.                                        *)
LEMMA OverviewPanics ==
    ASSUME NEW reply \in OverviewReplies, reply.failure = Panic
    PROVE  reply.failed = "Logo" /\ \E o \in AllOverviews : o.logo = None
<1>1. ASSUME NEW o PROVE (Named(o)).failure = None
  BY DEF Named
<1>2. PICK o \in AllOverviews : reply = LogoReply(o)
  BY <1>1, Distinct DEF OverviewReplies
<1>3. o.logo = None
  BY <1>2, Distinct DEF LogoReply
<1>4. reply = Failed("Logo", Panic)
  BY <1>2, <1>3 DEF LogoReply
<1>5. QED
  BY <1>3, <1>4, FailedCrash

LEMMA ClaimPanics ==
    ASSUME data # None, Shown(data, request), NEW reply \in ClaimReplies, reply.failure = Panic
    PROVE  reply.failed = "Attachment" /\ reply.type # "attachment"
<1>1. ASSUME NEW c PROVE (ClaimReply(c)).failure = None
  BY DEF ClaimReply
<1>2. PICK c \in AllClaims : reply = AttachmentReply(c)
  BY <1>1, Distinct DEF ClaimReplies
<1>3. c.attachment = <<>>
  BY <1>2, Distinct DEF AttachmentReply
<1>4. reply.failed = "Attachment" /\ reply.type = c.type
  BY <1>2, <1>3 DEF AttachmentReply
<1>5. WellFormedClaim(c)
  BY <1>2 DEF AllClaims, Shown, WellFormed, WellFormedDisplay
<1>6. QED
  BY <1>3, <1>4, <1>5 DEF WellFormedClaim

LEMMA ReadPanics ==
    ASSUME ShownInv, Reading, answer'.failure = Panic
    PROVE  Explained'
<1>1. data # None /\ UNCHANGED displayVars
  BY DEF Reading, ReadIssuer, ReadLocalizedIssuer, ReadOverview, ReadLocalizedOverview, ReadClaim,
         ReadSubject, Read
<1>2. data' = data
  BY <1>1 DEF displayVars
<1>3. \A display : (Named(display)).failure = None
  BY DEF Named
<1>4. CASE ReadIssuer
  <2>1. answer' = IF data.issuers = <<>> THEN Failed("IssuerDisplay", Panic) ELSE Named(data.issuers[1])
    BY <1>4 DEF ReadIssuer, Read
  <2>2. data.issuers = <<>> /\ answer' = Failed("IssuerDisplay", Panic)
    BY <1>3, <2>1, Distinct
  <2>3. QED
    BY <1>2, <2>2, FailedCrash DEF Explained, CrashOf
<1>5. ASSUME ReadLocalizedIssuer PROVE FALSE
  <2>1. PICK i \in 1..2 : answer' = IF i \in DOMAIN data.issuers THEN Named(data.issuers[i])
                                    ELSE Answer("Name")
    BY <1>5 DEF ReadLocalizedIssuer, Read
  <2>2. QED
    BY <1>3, <2>1, FailedCrash, Distinct
<1>6. CASE ReadOverview \/ ReadLocalizedOverview
  <2>1. answer' \in OverviewReplies
    BY <1>6 DEF ReadOverview, ReadLocalizedOverview, Read
  <2>2. answer'.failed = "Logo" /\ \E o \in AllOverviews : o.logo = None
    BY <2>1, OverviewPanics
  <2>3. AllOverviews' = AllOverviews
    BY <1>2 DEF AllOverviews
  <2>4. QED
    BY <2>2, <2>3 DEF Explained, CrashOf
<1>7. CASE ReadClaim \/ ReadSubject
  <2>1. answer' \in ClaimReplies
    BY <1>7 DEF ReadClaim, ReadSubject, Read
  <2>2. answer'.failed = "Attachment" /\ answer'.type # "attachment"
    BY <1>1, <2>1, ClaimPanics DEF ShownInv
  <2>3. QED
    BY <2>2 DEF Explained, CrashOf
<1>8. QED
  BY <1>4, <1>5, <1>6, <1>7 DEF Reading

LEMMA PanicStep ==
    ASSUME ToldInv, MadeInv, ShownInv, answer.failure # Panic, [Next]_vars, answer'.failure = Panic
    PROVE  Explained'
<1>1. CASE ContactNext /\ UNCHANGED displayVars
  BY <1>1, ContactPanics
<1>2. ASSUME SetOptions \/ Save \/ Restore \/ UNCHANGED vars PROVE FALSE
  BY <1>2 DEF SetOptions, Save, Restore, vars, contactVars
<1>3. ASSUME NEW list \in Lists, NEW call \in {"Resolve", "ResolveCredential"}, ResolveList(call, list)
      PROVE  Explained'
  <2>1. PICK reached \in BOOLEAN : ResolveWith(call, list, OptsOr(opts), reached)
    BY <1>3 DEF ResolveList
  <2>2. published' = published
    BY <1>3 DEF ResolveList
  <2>3. ~Sound(published) /\ CrashOf(call)'
    BY <2>1, ListPanics
  <2>4. ~Sound(published)'
    BY <2>2, <2>3 DEF Sound, Defined
  <2>5. QED
    BY <2>3, <2>4 DEF Explained, CrashOf
<1>4. ASSUME NEW list \in Lists, ResolveCredentialV2(list) PROVE Explained'
  <2>1. CASE opts = None
    <3>1. answer' = Failed("ResolveCredentialV2", Panic) /\ opts' = opts
      BY <1>4, <2>1 DEF ResolveCredentialV2
    <3>2. QED
      BY <2>1, <3>1, FailedCrash DEF Explained, CrashOf
  <2>2. CASE opts # None
    <3>1. PICK reached, o : ResolveWith("ResolveCredentialV2", list, o, reached)
      BY <1>4, <2>2 DEF ResolveCredentialV2
    <3>2. published' = published
      BY <1>4 DEF ResolveCredentialV2
    <3>3. ~Sound(published) /\ CrashOf("ResolveCredentialV2")'
      BY <3>1, ListPanics
    <3>4. ~Sound(published)'
      BY <3>2, <3>3 DEF Sound, Defined
    <3>5. QED
      BY <3>3, <3>4 DEF Explained, CrashOf
  <2>3. QED
    BY <2>1, <2>2
<1>5. ASSUME NEW ids, ResolveFromReader(ids) PROVE Explained'
  <2>1. published' = published
    BY <1>5 DEF ResolveFromReader
  <2>2. ~Sound(published) /\ CrashOf("Resolve")'
    BY <1>5, ReaderPanics
  <2>3. ~Sound(published)'
    BY <2>1, <2>2 DEF Sound, Defined
  <2>4. QED
    BY <2>2, <2>3 DEF Explained, CrashOf
<1>6. ASSUME DisplayOffer PROVE Explained'
  <2>1. PICK m, asked : /\ m = interaction.issuerMetadata
                        /\ Display("ResolveCredentialOffer",
                                   ResolveCredentialOffer(m, interaction.types, OptsOr(opts).locale), asked)
    BY <1>6 DEF DisplayOffer
  <2>2. /\ Panic \in ResolveCredentialOffer(m, interaction.types, OptsOr(opts).locale).failures
        /\ CrashOf("ResolveCredentialOffer")'
    BY <2>1, DisplayPanics
  <2>3. ~Defined(m.configs)
    BY <2>2, OfferPanics
  <2>4. interaction' = interaction
    BY <1>6 DEF DisplayOffer
  <2>5. ~Defined(interaction'.issuerMetadata.configs)
    BY <2>1, <2>3, <2>4
  <2>6. QED
    BY <2>2, <2>5 DEF Explained, CrashOf
<1>7. ASSUME Reading PROVE Explained'
  BY <1>7, ReadPanics
<1>8. QED
  BY <1>1, <1>2, <1>3, <1>4, <1>5, <1>6, <1>7 DEF Next, Reading

(* A crashed app does nothing.                                                *)
LEMMA Crashed ==
    ASSUME [Next]_vars, answer.failure = Panic
    PROVE  UNCHANGED <<answer, published, interaction, data, opts>>
<1>1. ASSUME ContactNext PROVE FALSE
  BY <1>1 DEF ContactNext, Publish, NewIssuerInitiatedInteraction, NewWalletInitiatedInteraction,
              IssuerMetadata, SupportedCredentials, DynamicClientRegistrationSupported,
              DynamicClientRegistrationEndpoint, PreAuthorizedCodeGrantParams,
              AuthorizationCodeGrantParams, ReadGrant, VerifyIssuer, IssuerTrustInfo, Ask, Running
<1>2. ASSUME SetOptions \/ Save \/ Restore PROVE FALSE
  BY <1>2 DEF SetOptions, Save, Restore
<1>3. ASSUME \E list \in Lists : \/ ResolveList("Resolve", list)
                                 \/ ResolveList("ResolveCredential", list)
                                 \/ ResolveCredentialV2(list)
      PROVE  FALSE
  BY <1>3 DEF ResolveList, ResolveCredentialV2, Running
<1>4. ASSUME DisplayOffer \/ \E id \in DOMAIN Stored : ResolveFromReader(<<id>>) PROVE FALSE
  BY <1>4 DEF DisplayOffer, ResolveFromReader, Running
<1>5. ASSUME Reading PROVE FALSE
  BY <1>5 DEF Reading, ReadIssuer, ReadLocalizedIssuer, ReadOverview, ReadLocalizedOverview, ReadClaim,
              ReadSubject, Read, Running
<1>6. UNCHANGED vars
  BY <1>1, <1>2, <1>3, <1>4, <1>5 DEF Next, Reading
<1>7. QED
  BY <1>6 DEF vars, contactVars, displayVars

(* The app crashes only where what a call looks at is broken or absent:       *)
(* metadata without a definition, or with a mask too short to slice; the      *)
(* issuer of data without one; a nil logo; the attachment of a claim of       *)
(* another type; and ResolveCredentialV2 without options.                     *)
THEOREM CrashesAreExplained == Spec => []PanicsExplained
<1>1. Init => (answer.failure = Panic => Explained)
  BY Distinct DEF Init, ContactInit, Answer
<1>2. (answer.failure = Panic => Explained) => PanicsExplained
  BY DEF PanicsExplained, Explained, CrashOf
<1>3. ASSUME ToldInv, MadeInv, ShownInv, answer.failure = Panic => Explained, [Next]_vars
      PROVE  (answer.failure = Panic => Explained)'
  <2>1. CASE answer.failure = Panic
    BY <1>3, <2>1, Crashed DEF Explained, CrashOf, AllOverviews, Defined, Sound
  <2>2. CASE answer.failure # Panic
    BY <1>3, <2>2, PanicStep
  <2>3. QED
    BY <2>1, <2>2
<1>4. QED
  BY <1>1, <1>2, <1>3, ShownAlways, PTL DEF Spec

-----------------------------------------------------------------------------
(* Masks.  Recursion on smaller arguments has a solution: the operators on    *)
(* texts are defined that way.                                                *)

Descends(D, N, rank, R, base, body) ==
    /\ N \in Nat /\ rank \in [D -> 0..N]
    /\ base \in R /\ body \in [D -> [[D -> R] -> R]]
    /\ \A s \in D : \A g, h \in [D -> R] :
          (\A t \in D : rank[t] < rank[s] => g[t] = h[t]) => body[s][g] = body[s][h]

LEMMA RecursionHasSolution ==
    ASSUME NEW D, NEW N, NEW rank, NEW R, NEW base, NEW body, Descends(D, N, rank, R, base, body)
    PROVE  \E g \in [D -> R] : \A s \in D : g[s] = body[s][g]
<1> USE DEF Descends
<1> DEFINE Solves(g, n) == \A s \in D : rank[s] < n => g[s] = body[s][g]
           unsolved == {n \in Nat : ~\E g \in [D -> R] : Solves(g, n)}
<1>1. ASSUME NEW n \in unsolved, \A m \in unsolved : n <= m PROVE FALSE
  <2>1. CASE n = 0
    <3>1. PICK g : g = [s \in D |-> base]
      OBVIOUS
    <3>2. g \in [D -> R] /\ \A s \in D : ~(rank[s] < 0)
      BY <3>1
    <3>3. QED
      BY <2>1, <3>2
  <2>2. CASE n # 0
    <3>1. n \in Nat /\ n - 1 \in Nat /\ n - 1 < n
      BY <2>2
    <3>2. n - 1 \notin unsolved
      <4> HIDE DEF unsolved
      <4>1. QED
        BY <1>1, <3>1
    <3>3. PICK h \in [D -> R] : Solves(h, n - 1)
      BY <3>1, <3>2
    <3>4. PICK g : g = [s \in D |-> body[s][h]]
      OBVIOUS
    <3>5. g \in [D -> R] /\ \A s \in D : g[s] = body[s][h]
      BY <3>3, <3>4
    <3>6. ASSUME NEW s \in D, rank[s] < n PROVE g[s] = body[s][g]
      <4>1. ASSUME NEW t \in D, rank[t] < rank[s] PROVE g[t] = h[t]
        <5>1. rank[t] < n - 1
          BY <3>1, <3>6, <4>1
        <5>2. QED
          BY <3>3, <3>5, <5>1
      <4>2. body[s][g] = body[s][h]
        BY <3>3, <3>5, <4>1
      <4>3. QED
        BY <3>5, <4>2
    <3>7. QED
      BY <3>5, <3>6
  <2>3. QED
    BY <2>1, <2>2
<1>2. unsolved = {}
  <2>1. unsolved \in SUBSET Nat
    OBVIOUS
  <2> HIDE DEF unsolved
  <2>2. QED
    BY <1>1, <2>1, LeastNatural
<1>3. PICK g \in [D -> R] : Solves(g, N + 1)
  <2>1. N + 1 \in Nat
    OBVIOUS
  <2>2. QED
    BY <1>2, <2>1
<1>4. QED
  BY <1>3

(* A fold of texts is a text.                                                 *)
LEMMA RawIsText ==
    ASSUME NEW value, IsJSON(value)
    PROVE  IsList(RawValue(value))
<1> DEFINE S == DOMAIN value
           In(p) == {value[p].text[i] : i \in DOMAIN value[p].text}
           Keys == {Last(p) : p \in S}
           U == Keys \cup UNION {In(p) : p \in S}
           R == Seq(U)
           Key(path) == IF path = <<>> THEN <<>> ELSE <<Last(path)>>
           Step(path, text) == Key(path) \o value[path].text \o text
           Pick(s) == CHOOSE x \in s : TRUE
           Whole(g) == g = [s \in SUBSET S |-> IF s = {} THEN <<>> ELSE Step(Pick(s), g[s \ {Pick(s)}])]
           whole == CHOOSE g : Whole(g)
<1>1. RawValue(value) = whole[S]
  BY DEF RawValue, FoldSet, MapThenFoldSet
<1>2. \A p \in S : value[p].text \in R
  <2>1. ASSUME NEW p \in S PROVE value[p].text \in R
    <3>1. value[p].text \in Seq(In(p))
      BY ListIsSequence DEF IsJSON
    <3> HIDE DEF In
    <3>2. In(p) \subseteq U
      OBVIOUS
    <3>3. QED
      BY <3>1, <3>2
  <2>2. QED
    BY <2>1
<1>3. \A p \in S : Last(p) \in U
  <2>1. \A p \in S : Last(p) \in Keys
    BY Zenon
  <2>2. QED
    BY <2>1
<1>4. ASSUME NEW p \in S, NEW t \in R PROVE Step(p, t) \in R
  <2> HIDE DEF U
  <2>1. Key(p) \in Seq(U)
    BY <1>3
  <2>2. QED
    BY <1>2, <1>4, <2>1
<1>5. <<>> \in R
  OBVIOUS
<1> HIDE DEF Step, R
<1>6. ASSUME NEW s \in SUBSET S, s # {}
      PROVE  /\ Pick(s) \in S /\ s \ {Pick(s)} \in SUBSET S
             /\ Cardinality(s \ {Pick(s)}) \in Nat /\ Cardinality(s) \in Nat
             /\ Cardinality(s \ {Pick(s)}) < Cardinality(s)
  <2>1. Pick(s) \in s
    BY <1>6
  <2> HIDE DEF Pick
  <2>2. IsFiniteSet(s)
    BY FS_Subset DEF IsJSON
  <2>3. Cardinality(s \ {Pick(s)}) = Cardinality(s) - 1 /\ Cardinality(s) \in Nat
    BY <2>1, <2>2, FS_RemoveElement, FS_CardinalityType
  <2>4. IsFiniteSet(s \ {Pick(s)})
    BY <2>2, FS_RemoveElement
  <2>5. Cardinality(s \ {Pick(s)}) \in Nat
    BY <2>4, FS_CardinalityType
  <2>6. QED
    BY <2>1, <2>3, <2>5
<1> HIDE DEF Pick
<1>7. \E g : Whole(g)
  <2>1. PICK D, N : D = SUBSET S /\ N = Cardinality(S)
    OBVIOUS
  <2> DEFINE rank == [s \in D |-> Cardinality(s)]
             body == [s \in D |-> [g \in [D -> R] |->
                        IF s = {} THEN <<>> ELSE Step(Pick(s), g[s \ {Pick(s)}])]]
  <2>2. N \in Nat
    BY <2>1, FS_CardinalityType DEF IsJSON
  <2>3. rank \in [D -> 0..N]
    <3>1. ASSUME NEW s \in D PROVE Cardinality(s) \in 0..N
      <4>1. IsFiniteSet(s) /\ Cardinality(s) <= N
        BY <2>1, FS_Subset DEF IsJSON
      <4>2. Cardinality(s) \in Nat
        BY <4>1, FS_CardinalityType
      <4>3. QED
        BY <2>2, <4>1, <4>2
    <3>2. QED
      BY <3>1
  <2>4. \A s \in D : s # {} => /\ Pick(s) \in S /\ s \ {Pick(s)} \in D
                               /\ rank[s \ {Pick(s)}] < rank[s]
    BY <1>6, <2>1
  <2> HIDE DEF S
  <2>5. body \in [D -> [[D -> R] -> R]]
    BY <1>4, <1>5, <2>4
  <2>6. \A s \in D : \A g \in [D -> R] :
           body[s][g] = IF s = {} THEN <<>> ELSE Step(Pick(s), g[s \ {Pick(s)}])
    OBVIOUS
  <2> HIDE DEF rank, body
  <2>7. \A s \in D : \A g, h \in [D -> R] :
           (\A t \in D : rank[t] < rank[s] => g[t] = h[t]) => body[s][g] = body[s][h]
    <3>1. ASSUME NEW s \in D, NEW g \in [D -> R], NEW h \in [D -> R],
                 \A t \in D : rank[t] < rank[s] => g[t] = h[t]
          PROVE  body[s][g] = body[s][h]
      <4>1. s # {} => g[s \ {Pick(s)}] = h[s \ {Pick(s)}]
        BY <2>4, <3>1
      <4>2. body[s][g] = IF s = {} THEN <<>> ELSE Step(Pick(s), g[s \ {Pick(s)}])
        BY <2>6
      <4>3. body[s][h] = IF s = {} THEN <<>> ELSE Step(Pick(s), h[s \ {Pick(s)}])
        BY <2>6
      <4>4. QED
        BY <4>1, <4>2, <4>3
    <3>2. QED
      BY <3>1
  <2>8. PICK g \in [D -> R] : \A s \in D : g[s] = body[s][g]
    <3>1. Descends(D, N, rank, R, <<>>, body)
      BY <1>5, <2>2, <2>3, <2>5, <2>7 DEF Descends
    <3>2. QED
      BY <3>1, RecursionHasSolution
  <2>9. \A s \in D : body[s][g] = IF s = {} THEN <<>> ELSE Step(Pick(s), g[s \ {Pick(s)}])
    BY <2>6
  <2>10. Whole(g)
    BY <2>1, <2>8, <2>9
  <2>11. QED
    BY <2>10
<1>8. Whole(whole)
  BY <1>7
<1> HIDE DEF whole
<1>9. \A s \in SUBSET S : whole[s] \in R
  <2> DEFINE bad == {n \in Nat : \E s \in SUBSET S : Cardinality(s) = n /\ whole[s] \notin R}
  <2>1. ASSUME NEW n \in bad, \A m \in bad : n <= m PROVE FALSE
    <3>1. PICK s \in SUBSET S : Cardinality(s) = n /\ whole[s] \notin R
      OBVIOUS
    <3>2. whole[s] = IF s = {} THEN <<>> ELSE Step(Pick(s), whole[s \ {Pick(s)}])
      BY <1>8
    <3>3. s # {}
      BY <1>5, <3>1, <3>2
    <3>4. Cardinality(s \ {Pick(s)}) \notin bad
      BY <1>6, <2>1, <3>1, <3>3
    <3>5. whole[s \ {Pick(s)}] \in R
      BY <1>6, <3>3, <3>4
    <3>6. QED
      BY <1>4, <1>6, <3>1, <3>2, <3>3, <3>5
  <2>2. bad = {}
    <3>1. bad \in SUBSET Nat
      OBVIOUS
    <3> HIDE DEF bad
    <3>2. QED
      BY <2>1, <3>1, LeastNatural
  <2>3. ASSUME NEW s \in SUBSET S PROVE Cardinality(s) \in Nat
    BY FS_Subset, FS_CardinalityType DEF IsJSON
  <2>4. QED
    BY <2>2, <2>3
<1>10. whole[S] \in Seq(U)
  BY <1>9 DEF R
<1>11. QED
  <2> HIDE DEF U
  <2>1. QED
    BY <1>1, <1>10 DEF IsList

(* The characters of a text that are not filler.                              *)
Visible(text, filler) == {k \in DOMAIN text : text[k] \notin filler}

LEMMA VisibleOf ==
    ASSUME NEW U, NEW s \in Seq(U), NEW filler
    PROVE  /\ IsFiniteSet(Visible(s, filler)) /\ Cardinality(Visible(s, filler)) \in Nat
           /\ Cardinality(Visible(s, filler)) <= Len(s)
<1>1. PICK seen : seen = Visible(s, filler)
  OBVIOUS
<1>2. Len(s) \in Nat /\ seen \subseteq 1..Len(s)
  BY <1>1 DEF Visible
<1>3. IsFiniteSet(1..Len(s)) /\ Cardinality(1..Len(s)) = Len(s)
  <2>1. PICK n \in Nat : n = Len(s)
    BY <1>2
  <2>2. IsFiniteSet(1..n) /\ Cardinality(1..n) = IF 1 > n THEN 0 ELSE n - 1 + 1
    BY FS_Interval
  <2>3. QED
    BY <2>1, <2>2
<1>4. IsFiniteSet(seen) /\ Cardinality(seen) <= Len(s)
  BY <1>2, <1>3, FS_Subset
<1>5. Cardinality(seen) \in Nat
  BY <1>4, FS_CardinalityType
<1>6. QED
  BY <1>1, <1>4, <1>5

LEMMA VisibleJoin ==
    ASSUME NEW U, NEW s \in Seq(U), NEW t \in Seq(U), NEW filler
    PROVE  Cardinality(Visible(s \o t, filler))
              <= Cardinality(Visible(s, filler)) + Cardinality(Visible(t, filler))
<1>1. PICK A, B, C : A = Visible(s, filler) /\ B = Visible(t, filler) /\ C = Visible(s \o t, filler)
  OBVIOUS
<1>2. PICK moved, shift : moved = {Len(s) + k : k \in B} /\ shift = [k \in B |-> Len(s) + k]
  OBVIOUS
<1>3. IsFiniteSet(A) /\ Cardinality(A) \in Nat /\ IsFiniteSet(B) /\ Cardinality(B) \in Nat
  BY <1>1, VisibleOf
<1>4. shift \in Surjection(B, moved)
  BY <1>2 DEF Surjection
<1>5. IsFiniteSet(moved) /\ Cardinality(moved) <= Cardinality(B)
  BY <1>3, <1>4, FS_Surjection
<1>6. ASSUME NEW k \in C PROVE k \in A \cup moved
  <2>1. k \in 1..(Len(s) + Len(t)) /\ (s \o t)[k] \notin filler
    BY <1>1, <1>6 DEF Visible
  <2>2. CASE k <= Len(s)
    BY <1>1, <2>1, <2>2 DEF Visible
  <2>3. CASE k > Len(s)
    <3>1. k - Len(s) \in 1..Len(t) /\ (s \o t)[k] = t[k - Len(s)] /\ k = Len(s) + (k - Len(s))
      BY <2>1, <2>3
    <3>2. k - Len(s) \in B
      BY <1>1, <2>1, <3>1 DEF Visible
    <3>3. QED
      BY <1>2, <3>1, <3>2
  <2>4. QED
    BY <2>1, <2>2, <2>3
<1>7. /\ IsFiniteSet(A \cup moved)
      /\ Cardinality(A \cup moved) = Cardinality(A) + Cardinality(moved) - Cardinality(A \cap moved)
  BY <1>3, <1>5, FS_Union
<1>8. IsFiniteSet(A \cap moved) /\ Cardinality(A \cap moved) \in Nat /\ Cardinality(moved) \in Nat
  BY <1>3, <1>5, FS_Intersection, FS_CardinalityType
<1>9. IsFiniteSet(C) /\ Cardinality(C) <= Cardinality(A \cup moved)
  BY <1>6, <1>7, FS_Subset
<1>10. Cardinality(C) \in Nat /\ Cardinality(A \cup moved) \in Nat
  BY <1>7, <1>9, FS_CardinalityType
<1>11. QED
  BY <1>1, <1>3, <1>5, <1>7, <1>8, <1>9, <1>10

(* Replacing a text hides it wherever it is, whatever else it hides.          *)
LEMMA ReplacedHides ==
    ASSUME NEW U, NEW text \in Seq(U), NEW old \in Seq(U), NEW new \in Seq(U), NEW filler,
           Visible(new, filler) = {}, NEW r, r = ReplaceText(text, old, new)
    PROVE  /\ Cardinality(Visible(r, filler)) <= Len(text)
           /\ \A at \in 1..Len(text) :
                 old # <<>> /\ IsPrefix(old, SubSeq(text, at, Len(text))) =>
                    Cardinality(Visible(r, filler)) <= Len(text) - Len(old)
<1> DEFINE L == Len(text)
           D == 1..(L + 1)
           R == Seq(U)
           Found(i) == old # <<>> /\ IsPrefix(old, SubSeq(text, i, L))
           Solves(g) == g = [i \in D |-> IF i > L THEN <<>>
                                         ELSE IF Found(i) THEN new \o g[i + Len(old)]
                                         ELSE <<text[i]>> \o g[i + 1]]
           from == CHOOSE g : Solves(g)
<1>1. L \in Nat /\ Len(old) \in Nat
  OBVIOUS
<1>2. r = from[1]
  BY DEF ReplaceText
<1>3. ASSUME NEW i \in D, ~(i > L)
      PROVE  /\ i + 1 \in D
             /\ Found(i) => Len(old) >= 1 /\ i + Len(old) \in D
             /\ <<text[i]>> \in R
  <2>1. i \in 1..L
    BY <1>1, <1>3
  <2>2. Len(SubSeq(text, i, L)) = L - i + 1
    BY <2>1
  <2>3. ASSUME Found(i) PROVE Len(old) >= 1 /\ i + Len(old) \in D
    <3>1. Len(old) <= L - i + 1
      BY <2>2, <2>3 DEF IsPrefix
    <3>2. Len(old) # 0
      BY <2>3
    <3>3. QED
      BY <1>1, <2>1, <3>1, <3>2
  <2>4. i + 1 \in D /\ <<text[i]>> \in R
    BY <2>1
  <2>5. QED
    BY <2>3, <2>4
<1>4. \A g : Solves(g) => \A i \in D : g[i] = IF i > L THEN <<>>
                                             ELSE IF Found(i) THEN new \o g[i + Len(old)]
                                             ELSE <<text[i]>> \o g[i + 1]
  OBVIOUS
<1>5. 1 \in D /\ \A i \in D : i \in Nat /\ i <= L + 1
  BY <1>1
<1> HIDE DEF Found
<1>7. \E g : Solves(g)
  <2> DEFINE rank == [i \in D |-> L + 1 - i]
             body == [i \in D |-> [g \in [D -> R] |->
                        IF i > L THEN <<>> ELSE IF Found(i) THEN new \o g[i + Len(old)]
                        ELSE <<text[i]>> \o g[i + 1]]]
  <2>1. rank \in [D -> 0..L]
    BY <1>1
  <2>2. \A i \in D : ~(i > L) => /\ rank[i + 1] < rank[i]
                                 /\ Found(i) => rank[i + Len(old)] < rank[i]
    BY <1>1, <1>3
  <2>3. ASSUME NEW i \in D, NEW g \in [D -> R]
        PROVE  (IF i > L THEN <<>> ELSE IF Found(i) THEN new \o g[i + Len(old)]
                ELSE <<text[i]>> \o g[i + 1]) \in R
    <3>1. CASE i > L
      BY <3>1
    <3>2. CASE ~(i > L)
      <4>1. g[i + 1] \in R /\ <<text[i]>> \in R /\ (Found(i) => g[i + Len(old)] \in R)
        BY <1>3, <3>2
      <4>2. QED
        BY <3>2, <4>1
    <3>3. QED
      BY <3>1, <3>2
  <2>4. body \in [D -> [[D -> R] -> R]]
    BY <2>3
  <2>5. \A i \in D : \A g \in [D -> R] :
           body[i][g] = IF i > L THEN <<>> ELSE IF Found(i) THEN new \o g[i + Len(old)]
                        ELSE <<text[i]>> \o g[i + 1]
    OBVIOUS
  <2>6. <<>> \in R
    OBVIOUS
  <2> HIDE DEF rank, body, R, D
  <2>7. ASSUME NEW i \in D, NEW g \in [D -> R], NEW h \in [D -> R],
               \A t \in D : rank[t] < rank[i] => g[t] = h[t]
        PROVE  body[i][g] = body[i][h]
    <3>1. ~(i > L) => g[i + 1] = h[i + 1] /\ (Found(i) => g[i + Len(old)] = h[i + Len(old)])
      BY <1>3, <2>2, <2>7
    <3>2. body[i][g] = IF i > L THEN <<>> ELSE IF Found(i) THEN new \o g[i + Len(old)]
                       ELSE <<text[i]>> \o g[i + 1]
      BY <2>5
    <3>3. body[i][h] = IF i > L THEN <<>> ELSE IF Found(i) THEN new \o h[i + Len(old)]
                       ELSE <<text[i]>> \o h[i + 1]
      BY <2>5
    <3>4. QED
      BY <3>1, <3>2, <3>3
  <2>8. Descends(D, L, rank, R, <<>>, body)
    BY <1>1, <2>1, <2>4, <2>6, <2>7 DEF Descends
  <2>9. PICK g \in [D -> R] : \A i \in D : g[i] = body[i][g]
    BY <2>8, RecursionHasSolution
  <2>10. Solves(g)
    BY <2>5, <2>9
  <2>11. QED
    BY <2>10
<1>8. \A i \in D : from[i] = IF i > L THEN <<>> ELSE IF Found(i) THEN new \o from[i + Len(old)]
                             ELSE <<text[i]>> \o from[i + 1]
  <2>1. Solves(from)
    BY <1>7
  <2> HIDE DEF from
  <2>2. QED
    BY <1>4, <2>1
<1> HIDE DEF from
<1> DEFINE Hides(i) == from[i] \in R /\ Cardinality(Visible(from[i], filler)) <= L + 1 - i
<1>9. ASSUME NEW i \in D, Found(i), ~(i > L), Hides(i + Len(old))
      PROVE  from[i] \in R /\ Cardinality(Visible(from[i], filler)) <= L + 1 - (i + Len(old))
  <2>1. PICK rest : rest = from[i + Len(old)]
    OBVIOUS
  <2>2. rest \in Seq(U) /\ Cardinality(Visible(rest, filler)) <= L + 1 - (i + Len(old))
    BY <1>9, <2>1
  <2>3. from[i] = new \o rest
    BY <1>8, <1>9, <2>1
  <2>4. Cardinality(Visible(new, filler)) = 0
    BY FS_EmptySet
  <2>5. Cardinality(Visible(new \o rest, filler))
           <= Cardinality(Visible(new, filler)) + Cardinality(Visible(rest, filler))
    BY <2>2, VisibleJoin
  <2>6. new \o rest \in Seq(U)
    BY <2>2
  <2>7. Cardinality(Visible(rest, filler)) \in Nat /\ Cardinality(Visible(new \o rest, filler)) \in Nat
    BY <2>2, <2>6, VisibleOf
  <2>8. Cardinality(Visible(new \o rest, filler)) <= L + 1 - (i + Len(old))
    <3>1. i \in Nat
      BY <1>5
    <3>2. QED
      BY <1>1, <2>2, <2>4, <2>5, <2>7, <3>1
  <2>9. QED
    BY <2>3, <2>6, <2>8
<1>10. ASSUME NEW i \in D, ~Found(i), ~(i > L), Hides(i + 1)
       PROVE  Hides(i)
  <2>1. PICK rest, one : rest = from[i + 1] /\ one = <<text[i]>>
    OBVIOUS
  <2>2. rest \in Seq(U) /\ one \in Seq(U) /\ Cardinality(Visible(rest, filler)) <= L + 1 - (i + 1)
    BY <1>3, <1>10, <2>1
  <2>3. from[i] = one \o rest
    BY <1>8, <1>10, <2>1
  <2>4. Len(one) = 1
    BY <2>1
  <2>5. Cardinality(Visible(one, filler)) <= 1 /\ Cardinality(Visible(one, filler)) \in Nat
    BY <2>2, <2>4, VisibleOf
  <2>6. Cardinality(Visible(one \o rest, filler))
           <= Cardinality(Visible(one, filler)) + Cardinality(Visible(rest, filler))
    BY <2>2, VisibleJoin
  <2>7. one \o rest \in Seq(U)
    BY <2>2
  <2>8. Cardinality(Visible(rest, filler)) \in Nat /\ Cardinality(Visible(one \o rest, filler)) \in Nat
    BY <2>2, <2>7, VisibleOf
  <2>9. Cardinality(Visible(one \o rest, filler)) <= L + 1 - i
    <3>1. i \in Nat
      BY <1>5
    <3>2. QED
      BY <1>1, <2>2, <2>5, <2>6, <2>8, <3>1
  <2>10. QED
    BY <2>3, <2>7, <2>9
<1>11. ASSUME NEW i \in D, i > L PROVE Hides(i)
  <2>1. from[i] = <<>>
    BY <1>8, <1>11, Zenon
  <2>2. i = L + 1
    BY <1>1, <1>5, <1>11
  <2>3. Visible(<<>>, filler) = {} /\ <<>> \in Seq(U)
    BY DEF Visible
  <2>4. from[i] \in R
    BY <2>1, <2>3
  <2>5. Cardinality(Visible(from[i], filler)) = 0
    BY <2>1, <2>3, FS_EmptySet
  <2>6. L + 1 - i = 0
    BY <1>1, <2>2
  <2>7. QED
    BY <2>4, <2>5, <2>6
<1>12. ASSUME NEW i \in D, Found(i), ~(i > L), Hides(i + Len(old)) PROVE Hides(i)
  <2>1. from[i] \in R /\ Cardinality(Visible(from[i], filler)) <= L + 1 - (i + Len(old))
    BY <1>9, <1>12
  <2>2. Cardinality(Visible(from[i], filler)) \in Nat
    BY <2>1, VisibleOf
  <2>3. i \in Nat
    BY <1>5
  <2>4. QED
    BY <1>1, <2>1, <2>2, <2>3
<1> HIDE DEF Hides
<1>13. \A i \in D : Hides(i)
  <2> DEFINE bad == {n \in Nat : \E i \in D : L + 1 - i = n /\ ~Hides(i)}
  <2>1. ASSUME NEW n \in bad, \A m \in bad : n <= m PROVE FALSE
    <3>1. PICK i \in D : L + 1 - i = n /\ ~Hides(i)
      OBVIOUS
    <3>2. ~(i > L)
      BY <1>11, <3>1
    <3>3. i + 1 \in D /\ i \in Nat /\ (Found(i) => Len(old) >= 1 /\ i + Len(old) \in D)
      BY <1>3, <1>5, <3>2
    <3>4. ASSUME NEW j \in D, j > i PROVE Hides(j)
      <4>1. L + 1 - j \in Nat /\ L + 1 - j < n
        BY <1>1, <1>5, <3>1, <3>3, <3>4
      <4>2. L + 1 - j \notin bad
        <5> HIDE DEF bad
        <5>1. QED
          BY <2>1, <3>1, <3>3, <4>1
      <4>3. QED
        BY <4>1, <4>2
    <3>5. CASE Found(i)
      <4>1. Hides(i + Len(old))
        BY <1>1, <3>3, <3>4, <3>5
      <4>2. QED
        BY <1>12, <3>1, <3>2, <3>5, <4>1
    <3>6. CASE ~Found(i)
      <4>1. Hides(i + 1)
        BY <3>3, <3>4
      <4>2. QED
        BY <1>10, <3>1, <3>2, <3>6, <4>1
    <3>7. QED
      BY <3>5, <3>6
  <2>2. bad = {}
    <3>1. bad \in SUBSET Nat
      OBVIOUS
    <3> HIDE DEF bad
    <3>2. QED
      BY <2>1, <3>1, LeastNatural
  <2>3. \A i \in D : L + 1 - i \in Nat
    BY <1>1, <1>5
  <2>4. QED
    BY <2>2, <2>3
<1>14. Cardinality(Visible(r, filler)) <= Len(text)
  BY <1>1, <1>2, <1>5, <1>13 DEF Hides
<1> DEFINE Spares(i) == Cardinality(Visible(from[i], filler)) <= L + 1 - i - Len(old)
<1>15. ASSUME NEW i \in D, Found(i), ~(i > L) PROVE Spares(i)
  <2>1. Hides(i + Len(old)) /\ i \in Nat
    BY <1>3, <1>5, <1>13, <1>15
  <2>2. Cardinality(Visible(from[i], filler)) <= L + 1 - (i + Len(old))
    BY <1>9, <1>15, <2>1
  <2>3. from[i] \in R
    BY <1>13 DEF Hides
  <2>4. Cardinality(Visible(from[i], filler)) \in Nat
    BY <2>3, VisibleOf
  <2>5. QED
    BY <1>1, <2>1, <2>2, <2>4
<1>16. ASSUME NEW i \in D, ~Found(i), ~(i > L), Spares(i + 1) PROVE Spares(i)
  <2>1. PICK rest, one : rest = from[i + 1] /\ one = <<text[i]>>
    OBVIOUS
  <2>2. i + 1 \in D /\ i \in Nat
    BY <1>3, <1>5, <1>16
  <2>3. rest \in Seq(U) /\ one \in Seq(U) /\ Cardinality(Visible(rest, filler)) <= L + 1 - (i + 1) - Len(old)
    BY <1>3, <1>13, <1>16, <2>1, <2>2 DEF Hides
  <2>4. from[i] = one \o rest
    BY <1>8, <1>16, <2>1
  <2>5. Len(one) = 1
    BY <2>1
  <2>6. Cardinality(Visible(one, filler)) <= 1 /\ Cardinality(Visible(one, filler)) \in Nat
    BY <2>3, <2>5, VisibleOf
  <2>7. Cardinality(Visible(one \o rest, filler))
           <= Cardinality(Visible(one, filler)) + Cardinality(Visible(rest, filler))
    BY <2>3, VisibleJoin
  <2>8. one \o rest \in Seq(U)
    BY <2>3
  <2>9. Cardinality(Visible(rest, filler)) \in Nat /\ Cardinality(Visible(one \o rest, filler)) \in Nat
    BY <2>3, <2>8, VisibleOf
  <2>10. Cardinality(Visible(one \o rest, filler)) <= L + 1 - i - Len(old)
    BY <1>1, <2>2, <2>3, <2>6, <2>7, <2>9
  <2>11. QED
    BY <2>4, <2>10
<1> HIDE DEF Spares
<1>17. ASSUME NEW at \in 1..L, Found(at)
       PROVE  Cardinality(Visible(r, filler)) <= L - Len(old)
  <2> DEFINE bad == {n \in Nat : \E i \in 1..at : at - i = n /\ ~Spares(i)}
  <2>1. ASSUME NEW n \in bad, \A m \in bad : n <= m PROVE FALSE
    <3>1. PICK i \in 1..at : at - i = n /\ ~Spares(i)
      OBVIOUS
    <3>2. i \in D /\ ~(i > L) /\ i \in Nat /\ at \in Nat
      BY <1>1
    <3>3. ~Found(i) /\ i # at
      BY <1>15, <1>17, <3>1, <3>2
    <3>4. i + 1 \in 1..at /\ at - (i + 1) \in Nat /\ at - (i + 1) < n
      BY <3>1, <3>2, <3>3
    <3>5. at - (i + 1) \notin bad
      <4> HIDE DEF bad
      <4>1. n \in Nat
        BY <3>1, <3>2
      <4>2. QED
        BY <2>1, <3>4, <4>1
    <3>6. Spares(i + 1)
      BY <3>4, <3>5
    <3>7. QED
      BY <1>16, <3>1, <3>2, <3>3, <3>6
  <2>2. bad = {}
    <3>1. bad \in SUBSET Nat
      OBVIOUS
    <3> HIDE DEF bad
    <3>2. QED
      BY <2>1, <3>1, LeastNatural
  <2>3. 1 \in 1..at /\ at - 1 \in Nat
    BY <1>1
  <2>4. Spares(1)
    BY <2>2, <2>3
  <2>5. Cardinality(Visible(from[1], filler)) <= L + 1 - 1 - Len(old)
    BY <2>4 DEF Spares
  <2>6. L + 1 - 1 - Len(old) = L - Len(old)
    BY <1>1
  <2>7. QED
    BY <1>2, <2>5, <2>6
<1>18. QED
  BY <1>14, <1>17 DEF Found

(* What is at a path is again a JSON value.                                   *)
LEMMA SequenceIsList ==
    ASSUME NEW U, NEW s \in Seq(U)
    PROVE  IsList(s)
BY DEF IsList

LEMMA RestOfPath ==
    ASSUME NEW path, NEW p, IsList(path), IsList(p), IsPrefix(path, p)
    PROVE  /\ IsList(SubSeq(p, Len(path) + 1, Len(p)))
           /\ path \o SubSeq(p, Len(path) + 1, Len(p)) = p
<1>1. PICK U : U = {path[i] : i \in DOMAIN path} \cup {p[i] : i \in DOMAIN p}
  OBVIOUS
<1>2. path \in Seq(U) /\ p \in Seq(U)
  <2>1. PICK A, B : A = {path[i] : i \in DOMAIN path} /\ B = {p[i] : i \in DOMAIN p}
    OBVIOUS
  <2>2. path \in Seq(A) /\ p \in Seq(B) /\ A \subseteq U /\ B \subseteq U
    BY <1>1, <2>1, ListIsSequence
  <2>3. QED
    BY <2>2
<1>3. PICK m, n : m = Len(path) /\ n = Len(p) /\ m \in Nat /\ n \in Nat /\ m <= n
  BY <1>2 DEF IsPrefix
<1>4. SubSeq(p, 1, m) = path
  BY <1>2, <1>3, SubSeqFull DEF IsPrefix
<1>5. SubSeq(p, 1, m) \o SubSeq(p, m + 1, n) = SubSeq(p, 1, n)
  <2>1. 1 \in 1..Len(p) + 1 /\ m \in (1 - 1)..Len(p) /\ n \in m..Len(p)
    BY <1>3
  <2>2. QED
    BY <1>2, <2>1, ConcatAdjacentSubSeq
<1>6. SubSeq(p, 1, n) = p
  BY <1>2, <1>3, SubSeqFull
<1>7. SubSeq(p, m + 1, n) \in Seq(U)
  BY <1>2, <1>3
<1>8. QED
  BY <1>3, <1>4, <1>5, <1>6, <1>7, SequenceIsList

LEMMA AtIsJSON ==
    ASSUME NEW value, IsJSON(value), NEW path \in DOMAIN value
    PROVE  IsJSON(At(value, path))
<1> DEFINE Below == {q \in DOMAIN value : IsPrefix(path, q)}
           Rest(p) == SubSeq(p, Len(path) + 1, Len(p))
           Rests == {Rest(p) : p \in Below}
           rest == [p \in Below |-> Rest(p)]
<1>1. At(value, path) = [r \in Rests |-> value[path \o r]]
  BY Zenon DEF At
<1>2. \A p \in Below : IsList(Rest(p)) /\ path \o Rest(p) = p
  BY RestOfPath DEF IsJSON
<1>3. IsFiniteSet(Below)
  BY FS_Subset DEF IsJSON
<1> HIDE DEF Rest
<1>4. rest \in Surjection(Below, Rests)
  BY DEF Surjection
<1>5. IsFiniteSet(Rests)
  BY <1>3, <1>4, FS_Surjection
<1>6. ASSUME NEW r \in Rests PROVE IsList(r) /\ IsList(value[path \o r].text)
  <2>1. PICK p \in Below : r = Rest(p)
    OBVIOUS
  <2>2. IsList(value[p].text)
    BY DEF IsJSON
  <2>3. QED
    BY <1>2, <2>1, <2>2
<1> HIDE DEF Rests
<1>7. QED
  BY <1>1, <1>5, <1>6 DEF IsJSON

LEMMA TextsAreLists ==
    ASSUME NEW vc, HasSubject(vc), NEW t \in TextsOf(vc)
    PROVE  IsList(t)
<1>1. \A value : IsJSON(value) => \A u \in TextsWithin(value) : IsList(u)
  BY AtIsJSON, RawIsText DEF TextsWithin
<1>2. QED
  BY <1>1 DEF TextsOf, HasSubject

(* The filler of a mask, and what a mask hides.                               *)
Filler == ToSet(DefaultMask) \union UNION {ToSet(MaskOr(s.masking)) : s \in Settings}

LEMMA MasksAreFiller ==
    ASSUME NEW mask \in Masks
    PROVE  IsList(mask) /\ \A i \in DOMAIN mask : mask[i] \in Filler
<1>1. IsList(DefaultMask)
  BY DEF DefaultMask, IsList
<1>2. \A s \in Settings : IsList(MaskOr(s.masking))
  BY <1>1, SettingsAssumption DEF MaskOr
<1>3. ToSet(mask) \subseteq Filler
  BY Zenon DEF Masks, Filler
<1>4. QED
  BY <1>1, <1>2, <1>3 DEF Masks, ToSet

LEMMA RepeatIsFiller ==
    ASSUME NEW text, IsList(text), NEW n \in Nat, NEW filler, \A i \in DOMAIN text : text[i] \in filler
    PROVE  Repeat(text, n) \in Seq(filler) /\ Visible(Repeat(text, n), filler) = {}
<1>1. PICK L : L = Len(text) /\ L \in Nat /\ DOMAIN text = 1..L
  BY ListDomain DEF IsList
<1>2. n * L \in Nat
  BY <1>1
<1>3. ASSUME NEW i \in 1..(n * L) PROVE ((i - 1) % L) + 1 \in 1..L
  <2>1. L # 0
    BY <1>1, <1>3
  <2>2. (i - 1) % L \in 0..(L - 1)
    <3>1. i - 1 \in Int /\ L \in Nat \ {0}
      BY <1>1, <1>2, <1>3, <2>1
    <3>2. QED
      BY <3>1
  <2>3. QED
    BY <1>1, <2>2
<1>4. PICK m : m = n * L
  OBVIOUS
<1>5. PICK r : r = Repeat(text, n) /\ r = [i \in 1..m |-> text[((i - 1) % L) + 1]]
  BY <1>1, <1>4 DEF Repeat
<1>6. \A i \in 1..m : text[((i - 1) % L) + 1] \in filler
  BY <1>1, <1>3, <1>4
<1>7. r \in [1..m -> filler] /\ m \in Nat
  BY <1>2, <1>4, <1>5, <1>6
<1>8. QED
  BY <1>5, <1>7 DEF Visible

(* The places of an interval rank as they follow each other.                  *)
LEMMA IntervalRanks ==
    ASSUME NEW first \in Nat, NEW last \in Nat, last >= first - 1
    PROVE  /\ Cardinality(first..last) = last - first + 1
           /\ \A i \in 1..(last - first + 1) :
                 first + i - 1 \in first..last /\ RankIn(first..last, first + i - 1) = i
<1>1. Cardinality(first..last) = last - first + 1
  <2>1. Cardinality(first..last) = IF first > last THEN 0 ELSE last - first + 1
    BY FS_Interval
  <2>2. QED
    BY <2>1
<1>2. ASSUME NEW i \in 1..(last - first + 1)
      PROVE  first + i - 1 \in first..last /\ RankIn(first..last, first + i - 1) = i
  <2>1. PICK k : k = first + i - 1 /\ k \in Nat /\ first <= k /\ k <= last
    OBVIOUS
  <2>2. {j \in first..last : j <= k} = first..k
    BY <2>1
  <2>3. Cardinality(first..k) = i
    <3>1. Cardinality(first..k) = IF first > k THEN 0 ELSE k - first + 1
      BY <2>1, FS_Interval
    <3>2. QED
      BY <2>1, <3>1
  <2>4. RankIn(first..last, k) = i
    BY <2>2, <2>3, Zenon DEF RankIn
  <2>5. QED
    BY <2>1, <2>4
<1>3. QED
  BY <1>1, <1>2

(* The elements at those places follow each other.                            *)
LEMMA IntervalInOrder ==
    ASSUME NEW first \in Nat, NEW last \in Nat, first >= 1, last >= first - 1, NEW list
    PROVE  ElementsAt(list, first..last) = [i \in 1..(last - first + 1) |-> list[first + i - 1]]
<1> DEFINE source(i) == CHOOSE k \in first..last : RankIn(first..last, k) = i
<1>1. Cardinality(first..last) = last - first + 1
  BY IntervalRanks
<1>2. ElementsAt(list, first..last) = [i \in 1..(last - first + 1) |-> list[source(i)]]
  BY <1>1, Zenon DEF ElementsAt, RankIn
<1>3. ASSUME NEW i \in 1..(last - first + 1)
      PROVE  source(i) = first + i - 1
  <2>1. first + i - 1 \in first..last /\ RankIn(first..last, first + i - 1) = i
    BY IntervalRanks
  <2>2. PICK k : k = source(i) /\ k \in first..last /\ RankIn(first..last, k) = i
    BY <2>1, Zenon
  <2>3. PICK j : j = k - first + 1 /\ j \in 1..(last - first + 1) /\ k = first + j - 1
    <3>1. \A x \in first..last :
             x - first + 1 \in 1..(last - first + 1) /\ x = first + (x - first + 1) - 1
      OBVIOUS
    <3>2. k - first + 1 \in 1..(last - first + 1) /\ k = first + (k - first + 1) - 1
      BY <2>2, <3>1, Zenon
    <3>3. QED
      BY <3>2, Zenon
  <2>4. RankIn(first..last, k) = j
    BY <2>3, IntervalRanks
  <2>5. QED
    BY <2>2, <2>3, <2>4
<1> HIDE DEF source
<1>4. QED
  BY <1>2, <1>3

(* The elements at an interval of places are a part of the list.              *)
LEMMA ElementsOfInterval ==
    ASSUME NEW U, NEW list \in Seq(U), NEW first \in 1..(Len(list) + 1), NEW last \in (first - 1)..Len(list),
           NEW part, part = ElementsAt(list, first..last)
    PROVE  /\ Len(part) = last - first + 1
           /\ part # <<>> => first \in 1..Len(list) /\ IsPrefix(part, SubSeq(list, first, Len(list)))
<1>1. PICK n, m : n = Len(list) /\ n \in Nat /\ m = last - first + 1
  OBVIOUS
<1>2. /\ first \in Nat /\ last \in Nat
      /\ first >= 1 /\ last <= n /\ last >= first - 1
  <2>1. first \in Nat /\ last \in Int /\ first >= 1 /\ last >= first - 1
    OBVIOUS
  <2>2. last <= n
    BY <1>1
  <2>3. QED
    BY <2>1, <2>2
<1>3. /\ part = [i \in 1..m |-> part[i]]
      /\ \A i \in 1..m : part[i] = list[first + i - 1]
  <2>1. ElementsAt(list, first..last) = [i \in 1..(last - first + 1) |-> list[first + i - 1]]
    BY <1>2, IntervalInOrder
  <2>2. part = [i \in 1..m |-> list[first + i - 1]]
    BY <1>1, <2>1, Zenon
  <2>3. QED
    BY <2>2
<1>4. m \in Nat /\ m <= n - first + 1
  BY <1>1, <1>2
<1>5. Len(part) = m
  BY <1>3, <1>4
<1>6. ASSUME part # <<>>
      PROVE  first \in 1..Len(list) /\ IsPrefix(part, SubSeq(list, first, Len(list)))
  <2>1. m # 0
    <3>1. m = 0 => part = [i \in 1..0 |-> part[i]]
      BY <1>3
    <3>2. [i \in 1..0 |-> part[i]] = <<>>
      OBVIOUS
    <3>3. QED
      BY <1>6, <3>1, <3>2
  <2>2. first <= n
    <3>1. m >= 1
      BY <1>4, <2>1
    <3>2. last - first + 1 >= 1
      BY <1>1, <3>1
    <3>3. QED
      BY <1>1, <1>2, <3>2
  <2>3. PICK rest : rest = SubSeq(list, first, n)
    OBVIOUS
  <2>4. /\ rest \in Seq(U) /\ Len(rest) = n - first + 1
        /\ \A i \in 1..(n - first + 1) : rest[i] = list[first + i - 1]
    BY <1>1, <1>2, <2>2, <2>3
  <2>5. \A i \in 1..m : i \in 1..(n - first + 1)
    BY <1>1, <1>2, <1>4
  <2>6. \A i \in 1..m : part[i] = rest[i]
    BY <1>3, <2>4, <2>5
  <2>7. SubSeq(part, 1, m) = [i \in 1..m |-> part[i]]
    BY <1>3, <1>4
  <2>8. SubSeq(rest, 1, m) = [i \in 1..m |-> rest[i]]
    BY <1>1, <1>2, <1>4, <2>4
  <2>9. SubSeq(part, 1, m) = SubSeq(rest, 1, m)
    BY <2>6, <2>7, <2>8
  <2>10. m <= Len(rest)
    BY <1>4, <2>4
  <2>11. QED
    BY <1>1, <1>2, <1>5, <2>2, <2>3, <2>9, <2>10 DEF IsPrefix
<1>7. QED
  BY <1>1, <1>5, <1>6

(* What a mask makes of a value: of any, a text of its characters; and a part *)
(* of it that is as long as what the mask surely hides, if that is anything.  *)
LEMMA ReplacedIsThere ==
    ASSUME NEW U, NEW raw \in Seq(U), NEW mask \in DOMAIN Matches, NEW hidden,
           hidden = ReplacedByGroups(mask, raw)
    PROVE  /\ hidden \in Seq(U)
           /\ \/ SurelyHidden(mask, raw) = 0
              \/ /\ SurelyHidden(mask, raw) = Len(hidden) /\ hidden # <<>>
                 /\ \E at \in 1..Len(raw) : IsPrefix(hidden, SubSeq(raw, at, Len(raw)))
<1>1. PICK n, found : n = Len(raw) /\ n \in Nat /\ found = MatchesIn(mask, raw)
  OBVIOUS
<1>2. PICK places : places = {k \in DOMAIN raw : \A i \in DOMAIN found :
                                k \in found[i].from..found[i].to => k \in found[i].first..found[i].last}
  OBVIOUS
<1>3. hidden = ElementsAt(raw, places) /\ places \in SUBSET (1..n)
  BY <1>1, <1>2 DEF ReplacedByGroups
<1>4. hidden \in Seq(U)
  <2>1. PICK m : m = Cardinality(places)
    OBVIOUS
  <2>2. /\ m \in Nat /\ hidden = [i \in 1..m |-> hidden[i]]
        /\ \A i \in 1..m : \E k \in places : hidden[i] = raw[k]
    BY <1>1, <1>3, <2>1, ElementsInOrder
  <2>3. \A k \in places : raw[k] \in U
    BY <1>1, <1>3
  <2>4. \A i \in 1..m : hidden[i] \in U
    BY <2>2, <2>3
  <2>5. QED
    BY <2>2, <2>4
<1>5. ASSUME NEW first \in 1..(n + 1), NEW last \in (first - 1)..n, places = first..last,
             SurelyHidden(mask, raw) = last - first + 1
      PROVE  \/ SurelyHidden(mask, raw) = 0
             \/ /\ SurelyHidden(mask, raw) = Len(hidden) /\ hidden # <<>>
                /\ \E at \in 1..Len(raw) : IsPrefix(hidden, SubSeq(raw, at, Len(raw)))
  <2>1. /\ Len(hidden) = last - first + 1
        /\ hidden # <<>> => first \in 1..Len(raw) /\ IsPrefix(hidden, SubSeq(raw, first, Len(raw)))
    BY <1>1, <1>3, <1>5, ElementsOfInterval
  <2>2. hidden = <<>> => Len(hidden) = 0
    OBVIOUS
  <2>3. CASE hidden = <<>>
    BY <1>5, <2>1, <2>2, <2>3
  <2>4. CASE hidden # <<>>
    BY <1>5, <2>1, <2>4
  <2>5. QED
    BY <2>3, <2>4
<1>6. CASE found = <<>>
  <2>1. places = 1..n /\ SurelyHidden(mask, raw) = n
    BY <1>1, <1>2, <1>6 DEF SurelyHidden
  <2>2. 1 \in 1..(n + 1) /\ n \in (1 - 1)..n /\ n = n - 1 + 1
    BY <1>1
  <2>3. QED
    BY <1>4, <1>5, <2>1, <2>2
<1>7. CASE found # <<>> /\ ~(Len(found) = 1 /\ found[1].from = 1 /\ found[1].to = Len(raw))
  BY <1>1, <1>4, <1>7 DEF SurelyHidden
<1>8. CASE found # <<>> /\ Len(found) = 1 /\ found[1].from = 1 /\ found[1].to = Len(raw)
  <2>1. raw \in DOMAIN Matches[mask] /\ found = Matches[mask][raw]
    BY <1>1, <1>8 DEF MatchesIn
  <2>2. IsList(found) /\ \A i \in DOMAIN found : /\ found[i].first \in found[i].from..(found[i].to + 1)
                                                 /\ found[i].last \in (found[i].first - 1)..found[i].to
    BY <2>1, MatchesAssumption
  <2>3. DOMAIN found = 1..1
    BY <1>8, <2>2, ListDomain
  <2>4. PICK first, last : first = found[1].first /\ last = found[1].last
    OBVIOUS
  <2>5. first \in 1..(n + 1) /\ last \in (first - 1)..n
    BY <1>1, <1>8, <2>2, <2>3, <2>4
  <2>6. \A i \in DOMAIN found : i = 1
    BY <2>3
  <2>7. places = {k \in 1..n : k \in 1..n => k \in first..last}
    BY <1>1, <1>2, <1>8, <2>3, <2>4, <2>6
  <2>8. places = first..last
    BY <1>1, <2>5, <2>7
  <2>9. SurelyHidden(mask, raw) = last - first + 1
    BY <1>1, <1>8, <2>4 DEF SurelyHidden
  <2>10. QED
    BY <1>4, <1>5, <2>5, <2>8, <2>9
<1>9. QED
  BY <1>6, <1>7, <1>8

LEMMA MaskHides ==
    ASSUME NEW c, IsList(c.rawValue), NEW mask \in Masks, MaskedWith(c, mask), c.mask # None
    PROVE  Cardinality(Visible(Value(c), Filler)) <= Len(c.rawValue) - SurelyHidden(c.mask, c.rawValue)
<1>1. PICK raw, hidden, filler, n, new :
         /\ raw = c.rawValue /\ hidden = ReplacedByGroups(c.mask, c.rawValue) /\ filler = Filler
         /\ n = ByteLength(hidden) /\ new = Repeat(mask, n)
  OBVIOUS
<1>2. PICK U : U = {raw[i] : i \in DOMAIN raw} \cup filler
  OBVIOUS
<1>3. raw \in Seq(U) /\ filler \subseteq U
  <2>1. PICK A : A = {raw[i] : i \in DOMAIN raw}
    OBVIOUS
  <2>2. raw \in Seq(A) /\ A \subseteq U /\ filler \subseteq U
    BY <1>1, <1>2, <2>1, ListIsSequence
  <2>3. QED
    BY <2>2
<1>4. /\ hidden \in Seq(U)
      /\ \/ SurelyHidden(c.mask, raw) = 0
         \/ /\ SurelyHidden(c.mask, raw) = Len(hidden) /\ hidden # <<>>
            /\ \E at \in 1..Len(raw) : IsPrefix(hidden, SubSeq(raw, at, Len(raw)))
  BY <1>1, <1>3, ReplacedIsThere DEF MaskedWith
<1>5. n \in Nat
  <2>1. PICK wide : wide = {i \in DOMAIN hidden : hidden[i] \in Wide}
    OBVIOUS
  <2>2. Len(hidden) \in Nat /\ wide \subseteq 1..Len(hidden)
    BY <1>4, <2>1
  <2>3. Cardinality(wide) \in Nat
    <3>1. IsFiniteSet(1..Len(hidden))
      BY <2>2, FS_Interval
    <3>2. IsFiniteSet(wide)
      BY <2>2, <3>1, FS_Subset
    <3>3. QED
      BY <3>2, FS_CardinalityType
  <2>4. n = Len(hidden) + Cardinality(wide)
    BY <1>1, <2>1 DEF ByteLength
  <2>5. QED
    BY <2>2, <2>3, <2>4
<1>6. new \in Seq(filler) /\ Visible(new, filler) = {}
  BY <1>1, <1>5, MasksAreFiller, RepeatIsFiller
<1>7. new \in Seq(U)
  BY <1>3, <1>6
<1>8. PICK r : r = Value(c) /\ r = ReplaceText(raw, hidden, new)
  <2>1. PICK masked : masked = getMaskedValue(raw, c.mask, mask) /\ c.value = <<masked>>
    BY <1>1 DEF MaskedWith
  <2>2. Value(c) = masked
    BY <2>1 DEF Value
  <2>3. masked = ReplaceText(raw, hidden, new)
    BY <1>1, <2>1 DEF getMaskedValue
  <2>4. QED
    BY <2>2, <2>3
<1>9. /\ Cardinality(Visible(r, filler)) <= Len(raw)
      /\ \A at \in 1..Len(raw) :
            hidden # <<>> /\ IsPrefix(hidden, SubSeq(raw, at, Len(raw))) =>
               Cardinality(Visible(r, filler)) <= Len(raw) - Len(hidden)
  BY <1>3, <1>4, <1>6, <1>7, <1>8, ReplacedHides
<1>10. Len(raw) \in Nat
  BY <1>3
<1>11. Cardinality(Visible(r, filler)) <= Len(raw) - SurelyHidden(c.mask, raw)
  <2>1. CASE SurelyHidden(c.mask, raw) = 0
    BY <1>9, <1>10, <2>1
  <2>2. CASE SurelyHidden(c.mask, raw) # 0
    <3>1. PICK at \in 1..Len(raw) : IsPrefix(hidden, SubSeq(raw, at, Len(raw)))
      BY <1>4, <2>2
    <3>2. SurelyHidden(c.mask, raw) = Len(hidden) /\ hidden # <<>>
      BY <1>4, <2>2
    <3>3. QED
      BY <1>9, <3>1, <3>2
  <2>3. QED
    BY <2>1, <2>2
<1>12. QED
  BY <1>1, <1>8, <1>11

(* A masked claim shows no more characters of its value than its mask may     *)
(* leave: for an expression that matches the whole value, those outside its   *)
(* group; for one that does not match, none; for one that matches parts, any. *)
(* That holds for every masking string, and after the display was saved and   *)
(* restored (getMaskedValue, Claim.Value).                                    *)
THEOREM MaskedClaimsStayHidden == Spec => []MaskedStaysHidden
<1>1. ASSUME ShownInv, OfCredentials, NEW i \in DOMAIN data.credentials, NEW c \in ClaimsOf(i), IsMasked(c)
      PROVE  Cardinality(Visible(Value(c), Filler)) <= Len(c.rawValue) - SurelyHidden(c.mask, c.rawValue)
  <2>1. ShowsCredentials(data, request)
    BY <1>1 DEF ShownInv, OfCredentials, Shown
  <2>2. HasSubject(request.vcs[i]) /\ c.rawValue \in TextsOf(request.vcs[i])
    BY <2>1 DEF ShowsCredentials, Fits, ClaimsOf
  <2>3. IsList(c.rawValue)
    BY <2>2, TextsAreLists
  <2>4. PICK mask \in Masks : MaskedWith(c, mask)
    BY <2>1 DEF ShowsCredentials, ClaimsOf
  <2>5. c.mask # None
    BY <1>1 DEF IsMasked
  <2>6. QED
    BY <2>3, <2>4, <2>5, MaskHides
<1>2. ShownInv => MaskedStaysHidden
  BY <1>1, Zenon DEF MaskedStaysHidden, Visible, Filler
<1>3. QED
  BY <1>2, ShownAlways, PTL
=============================================================================
