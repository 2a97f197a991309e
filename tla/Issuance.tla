------------------------------ MODULE Issuance ------------------------------
(***************************************************************************)
(* One OpenID4CI interaction of the wallet with a credential issuer: the   *)
(* `interaction` object shared by IssuerInitiatedInteraction and           *)
(* WalletInitiatedInteraction (pkg/openid4ci), the calls an app makes on   *)
(* it, and the issuer's endpoints as those calls use them.                 *)
(*                                                                         *)
(* The object runs one call at a time.  While it waits for an HTTP answer  *)
(* it changes nothing, so each exchange with the issuer is one step whose  *)
(* answer the issuer chooses; between two exchanges the issuer may let a   *)
(* nonce expire.  URLs, nonces, tokens and credentials are numbered in the *)
(* order they are created; 0 stands for Go's nil or empty value.           *)
(***************************************************************************)
EXTENDS Naturals, Sequences, FiniteSets

CONSTANTS
    Offers,      \* what the interaction can be created from
    Issuers,     \* the issuer configurations considered
    WalletTypes, \* credential types a wallet-initiated flow can ask for
    MaxURLs,     \* bound: authorization URLs created
    MaxNonces,   \* bound: nonces the issuer makes up
    MaxCalls,    \* bound: RequestCredential calls
    MaxRefreshes \* bound: refreshes of the access token in a round

(* kind: which Go type wraps the interaction; n: configuration IDs offered;   *)
(* issuerState: the one in the offer's authorization_code grant (0: none).    *)
Offer == [kind: {"issuer", "wallet"}, n: Nat, preAuth: BOOLEAN, auth: BOOLEAN,
          pin: BOOLEAN, issuerState: Nat]

(* batch: metadata names a batch endpoint; tokenEndpoint: it names a token    *)
(* endpoint; oneTimeNonce: a c_nonce serves one request; ackIDs: credential   *)
(* responses carry a notification_id.                                         *)
Issuer == [batch: BOOLEAN, tokenEndpoint: BOOLEAN, oneTimeNonce: BOOLEAN,
           ackIDs: BOOLEAN]

ASSUME OffersAssumption ==
    /\ Offers \subseteq Offer
    /\ \A o \in Offers : /\ o.auth \/ o.preAuth
                         /\ o.kind = "wallet" => o.auth /\ ~o.preAuth
ASSUME IssuersAssumption == Issuers \subseteq Issuer
ASSUME WalletTypesAssumption == WalletTypes \subseteq Nat \ {0}
ASSUME BoundsAssumption ==
    /\ MaxURLs \in Nat /\ MaxNonces \in Nat
    /\ MaxCalls \in Nat /\ MaxRefreshes \in Nat

VARIABLES
    offer,                  \* the offer (or the choice to go wallet-initiated)
    issuer,                 \* the issuer behind issuerURI
    metadata,               \* issuerMetadata # nil
    authCodeURLState,       \* state value of the last authorization URL
    codeVerifier,           \* PKCE verifier of the last authorization URL
    clientID,               \* clientID # "" (and oAuth2Config # nil)
    wanted,                 \* the credential types a request will ask for
    authToken,              \* interaction.authToken
    authTokenResponseNonce, \* c_nonce that came with it
    preAuthToken,           \* IssuerInitiatedInteraction.authToken
    ackIDs,                 \* requestedAcknowledgment.ackIDs (nil: <<>>)
    \* the running call
    pc, flow, token, nonce, allowRetry, proof, responses,
    access,                 \* refreshes the OAuth2 client of this round made
    outcome,                \* what the last call returned
    \* the issuer
    urls,                   \* the authorization URLs created for it
    exchanges,              \* authorization codes sent to it, with the verifier
    redeemed,               \* codes it exchanged for a token (0: pre-authorized)
    tokens,                 \* the tokens it issued
    nonces,                 \* the nonces it made up: the token each is for
    issued,                 \* the credentials it issued
    \* history
    calls, posts

interactionVars == <<metadata, authCodeURLState, codeVerifier, clientID, wanted>>
tokenVars  == <<authToken, authTokenResponseNonce, preAuthToken>>
callVars   == <<pc, flow, token, nonce, allowRetry, proof, responses, access>>
issuerVars == <<urls, exchanges, redeemed, tokens, nonces, issued>>
vars == <<offer, issuer, interactionVars, tokenVars, ackIDs, callVars, outcome,
          issuerVars, calls, posts>>

-----------------------------------------------------------------------------
NoProof   == [nonce |-> 0, iss |-> FALSE]
NoOutcome == [status |-> "none", vcs |-> <<>>]
Failed    == [status |-> "error", vcs |-> <<>>]
Panicked  == [status |-> "panic", vcs |-> <<>>]

(* An element of the wallet's slice of credential responses: the issued       *)
(* credential it came with (0: the element was never filled), whether its     *)
(* `credential` member holds a credential, and its notification_id.           *)
EmptyResponse == [id |-> 0, credential |-> FALSE, ackID |-> 0]

(* determineCredentialParameters: one type per configuration ID offered.  A   *)
(* wallet-initiated interaction has no type until a URL was created.          *)
OfferedTypes(o) == IF o.kind = "issuer" THEN [i \in 1..o.n |-> i] ELSE <<0>>

(* NewIssuerInitiatedInteraction fetches the metadata before it returns an    *)
(* object; NewWalletInitiatedInteraction does not.                            *)
Init ==
    /\ offer \in Offers
    /\ issuer \in Issuers
    /\ metadata = (offer.kind = "issuer")
    /\ wanted = OfferedTypes(offer)
    /\ authCodeURLState = 0 /\ codeVerifier = 0 /\ clientID = FALSE
    /\ authToken = 0 /\ authTokenResponseNonce = 0 /\ preAuthToken = 0
    /\ ackIDs = <<>>
    /\ pc = "idle" /\ flow = "none" /\ token = 0 /\ nonce = 0
    /\ allowRetry = FALSE /\ proof = NoProof /\ responses = <<>> /\ access = 0
    /\ outcome = NoOutcome
    /\ urls = <<>> /\ exchanges = {} /\ redeemed = {}
    /\ tokens = <<>> /\ nonces = <<>> /\ issued = <<>>
    /\ calls = 0 /\ posts = 0

-----------------------------------------------------------------------------
(* Issuer metadata.                                                           *)

(* The first of SupportedCredentials, IssuerMetadata, VerifyIssuer,           *)
(* IssuerTrustInfo and the dynamic-registration getters to succeed caches the *)
(* metadata; a failed fetch leaves it nil.                                    *)
PopulateIssuerMetadata ==
    /\ pc = "idle" /\ ~metadata
    /\ metadata' = TRUE
    /\ UNCHANGED <<offer, issuer, authCodeURLState, codeVerifier, clientID, wanted,
                   tokenVars, ackIDs, callVars, outcome, issuerVars, calls, posts>>

-----------------------------------------------------------------------------
(* Authorization URLs.                                                        *)

(* determineIssuerStateToUse: the offer's issuer state wins, and a different  *)
(* one passed as an option is a usage error.                                  *)
IssuerStateConflict(option) ==
    offer.issuerState # 0 /\ option # 0 /\ option # offer.issuerState
IssuerStateToUse(option) ==
    IF offer.issuerState # 0 THEN offer.issuerState ELSE option

FreshURLOnce == 1
FreshURL == Len(urls) + 1

(* A wallet-initiated interaction requests what its last URL asked for; an    *)
(* issuer-initiated one requests the whole offer, and its URL only names the  *)
(* first type of it.                                                          *)
WantedAfter(type) == IF offer.kind = "wallet" THEN <<type>> ELSE wanted

CreateAuthorizationURL(type, option) ==
    /\ pc = "idle" /\ Len(urls) < MaxURLs
    /\ offer.auth /\ ~IssuerStateConflict(option)
    /\ wanted # <<>>
    /\ metadata' = TRUE
    /\ clientID' = TRUE
    /\ codeVerifier' = FreshURL
    /\ authCodeURLState' = FreshURL
    /\ wanted' = WantedAfter(type)
    /\ urls' = Append(urls, [state |-> FreshURL, challenge |-> FreshURL,
                             type |-> wanted'[1],
                             issuerState |-> IssuerStateToUse(option)])
    /\ UNCHANGED <<offer, issuer, tokenVars, ackIDs, callVars, outcome,
                   exchanges, redeemed, tokens, nonces, issued, calls, posts>>

(* i.credentialFormats[0] of an offer without configuration IDs.              *)
CreateAuthorizationURLPanics(option) ==
    /\ pc = "idle" /\ offer.auth /\ ~IssuerStateConflict(option)
    /\ wanted = <<>>
    /\ pc' = "crashed"
    /\ outcome' = Panicked
    /\ UNCHANGED <<offer, issuer, interactionVars, tokenVars, ackIDs, flow, token,
                   nonce, allowRetry, proof, responses, access, issuerVars, calls,
                   posts>>

-----------------------------------------------------------------------------
(* Starting and ending a RequestCredential call.                              *)

CanCall == pc = "idle" /\ calls < MaxCalls

StartCallWithOldToken(f, n) ==
    /\ pc' = "prove" /\ flow' = f /\ nonce' = n
    /\ token' = authToken
    /\ allowRetry' = TRUE /\ proof' = NoProof /\ responses' = <<>> /\ access' = 0
    /\ calls' = calls + 1 /\ posts' = 0
StartCall(f, n) ==
    /\ pc' = "prove" /\ flow' = f /\ nonce' = n
    /\ token' = Len(tokens) + 1
    /\ allowRetry' = TRUE /\ proof' = NoProof /\ responses' = <<>> /\ access' = 0
    /\ calls' = calls + 1 /\ posts' = 0

EndCall(result) ==
    /\ pc' = IF result.status = "panic" THEN "crashed" ELSE "idle"
    /\ flow' = "none" /\ token' = 0 /\ nonce' = 0 /\ allowRetry' = FALSE
    /\ proof' = NoProof /\ responses' = <<>> /\ access' = 0
    /\ outcome' = result

(* A call refused before it sent anything, or whose token request failed.     *)
CallFails ==
    /\ calls' = calls + 1
    /\ outcome' = Failed
    /\ UNCHANGED <<offer, issuer, interactionVars, tokenVars, ackIDs, callVars,
                   urls, tokens, nonces, issued, posts>>

(* The issuer's answer to a token request it grants: a new token, with or     *)
(* without a c_nonce to prove possession with.                                *)
IssueToken(f, code, n) ==
    /\ n # 0 => Len(nonces) < MaxNonces
    /\ redeemed' = redeemed \cup {code}
    /\ tokens' = Append(tokens, [flow |-> f, code |-> code, nonce |-> n, told |-> n,
                                 expired |-> FALSE])
    /\ nonces' = IF n = 0 THEN nonces ELSE Append(nonces, Len(tokens) + 1)
NewNonces == {0, Len(nonces) + 1}

-----------------------------------------------------------------------------
(* The authorization code flow up to the token.                               *)

(* What a browser brings back for a URL: the code and state, either of which  *)
(* may be missing (the user declined, or the server left the state out).      *)
Redirects == UNION {[code : {0, u}, state : {0, urls[u].state}] : u \in DOMAIN urls}

(* The checks of requestAccessToken.                                          *)
AcceptsAnyState(r) == clientID /\ r.code # 0 /\ r.state # 0
AcceptsRedirect(r) ==
    clientID /\ r.code # 0 /\ r.state # 0 /\ r.state = authCodeURLState

(* validateSignerKeyID is called by the issuer-initiated methods only.        *)
AcceptsSigner(keyHasDID) == offer.kind = "wallet" \/ keyHasDID

RequestCredentialWithAuthRefused(r, keyHasDID) ==
    /\ CanCall
    /\ \/ ~offer.auth
       \/ ~AcceptsSigner(keyHasDID)
       \/ ~AcceptsRedirect(r)
       \/ ~issuer.tokenEndpoint
    /\ CallFails
    /\ UNCHANGED <<exchanges, redeemed>>

(* The issuer keeps a code for one exchange, by the holder of its verifier.   *)
Exchangeable(r) == r.code \notin redeemed /\ urls[r.code].challenge = codeVerifier

TokenResponseNonceKept(n) ==
    IF authTokenResponseNonce # 0 THEN authTokenResponseNonce ELSE n
TokenResponseNonce(n) == n

RequestCredentialWithAuth(r, n) ==
    /\ CanCall /\ offer.auth
    /\ AcceptsRedirect(r) /\ issuer.tokenEndpoint
    /\ exchanges' = exchanges \cup {[code |-> r.code, verifier |-> codeVerifier]}
    /\ Exchangeable(r)
    /\ IssueToken("auth", r.code, n)
    /\ authToken' = Len(tokens) + 1
    /\ authTokenResponseNonce' = TokenResponseNonce(n)
    /\ StartCall("auth", authTokenResponseNonce')
    /\ UNCHANGED <<offer, issuer, interactionVars, preAuthToken, ackIDs, outcome,
                   urls, issued>>

(* The exchange fails: the issuer refuses it, or its answer is lost after it  *)
(* has used up the code.                                                      *)
ExchangeFails(r) ==
    /\ CanCall /\ offer.auth
    /\ AcceptsRedirect(r) /\ issuer.tokenEndpoint
    /\ exchanges' = exchanges \cup {[code |-> r.code, verifier |-> codeVerifier]}
    /\ \/ redeemed' = redeemed
       \/ Exchangeable(r) /\ redeemed' = redeemed \cup {r.code}
    /\ CallFails

-----------------------------------------------------------------------------
(* The pre-authorized code flow up to the token.                              *)

RequestCredentialWithPreAuthRefused(pin, keyHasDID) ==
    /\ CanCall
    /\ \/ ~offer.preAuth
       \/ offer.pin /\ ~pin
       \/ ~keyHasDID
       \/ ~issuer.tokenEndpoint
    /\ offer.kind = "issuer"
    /\ CallFails
    /\ UNCHANGED <<exchanges, redeemed>>

(* The offer's pre-authorized code (numbered 0) is good for one token.        *)
RequestCredentialWithPreAuth(n) ==
    /\ CanCall /\ offer.preAuth /\ issuer.tokenEndpoint
    /\ 0 \notin redeemed
    /\ IssueToken("pre", 0, n)
    /\ preAuthToken' = Len(tokens) + 1
    /\ StartCall("pre", n)
    /\ UNCHANGED <<offer, issuer, interactionVars, authToken, authTokenResponseNonce,
                   ackIDs, outcome, urls, exchanges, issued>>

(* The attestation VP cannot be made, the token request is refused (a wrong   *)
(* PIN, a used code), or its answer is lost.                                  *)
PreAuthTokenFails ==
    /\ CanCall /\ offer.preAuth
    /\ \/ redeemed' = redeemed
       \/ issuer.tokenEndpoint /\ redeemed' = redeemed \cup {0}
    /\ CallFails
    /\ UNCHANGED exchanges

-----------------------------------------------------------------------------
(* The credential requests, common to both flows (getCredentialResponse).     *)

StaleResponses == responses
FreshResponses == <<>>

(* A round: createClaimsProof takes the nonce of this attempt, and the client *)
(* ID whenever one was ever set; the authorization code flow makes an OAuth2  *)
(* client of the stored token.                                                *)
CreateClaimsProof ==
    /\ pc = "prove"
    /\ pc' = "post"
    /\ proof' = [nonce |-> nonce, iss |-> clientID]
    /\ responses' = FreshResponses
    /\ access' = 0
    /\ UNCHANGED <<offer, issuer, interactionVars, tokenVars, ackIDs, flow, token,
                   nonce, allowRetry, outcome, issuerVars, calls, posts>>

SigningFails ==
    /\ pc = "prove"
    /\ EndCall(Failed)
    /\ UNCHANGED <<offer, issuer, interactionVars, tokenVars, ackIDs, issuerVars,
                   calls, posts>>

(* Only the pre-authorized flow batches, and only for several credentials.    *)
UsesBatch == flow = "pre" /\ Len(wanted) > 1 /\ issuer.batch
Requesting == pc = "post" /\ Len(responses) < Len(wanted)
Requested == IF UsesBatch THEN wanted ELSE <<wanted[Len(responses) + 1]>>

(* posts counts this call's credential requests, up to one more than the two  *)
(* rounds the retry allows.                                                   *)
CountPost == posts' = IF posts > 2 * Len(wanted) THEN posts ELSE posts + 1

(* The OAuth2 client of the authorization code flow sends no request with an  *)
(* access token past its expiry: it first refreshes it, if the token response *)
(* had a refresh token.  What it gets stays in the client: authToken keeps    *)
(* the expired one, from which the client of a retry starts again.            *)
RefreshToken ==
    /\ Requesting /\ flow = "auth" /\ access < MaxRefreshes
    /\ tokens' = [tokens EXCEPT ![token].expired = TRUE]
    /\ access' = access + 1
    /\ UNCHANGED <<offer, issuer, interactionVars, tokenVars, ackIDs, pc, flow, token,
                   nonce, allowRetry, proof, responses, outcome, urls, exchanges,
                   redeemed, nonces, issued, calls, posts>>
TokenIsLive == flow = "auth" /\ tokens[token].expired => access # 0

IssuerAccepts == tokens[token].nonce \in {0, proof.nonce}

(* A one-time nonce is replaced when used; the answer carries the new one,    *)
(* which reaches the wallet unless the answer is lost.                        *)
UseNonce(answered) ==
    IF issuer.oneTimeNonce /\ tokens[token].nonce # 0
    THEN /\ Len(nonces) < MaxNonces
         /\ nonces' = Append(nonces, token)
         /\ tokens' = [tokens EXCEPT ![token].nonce = Len(nonces) + 1,
                                     ![token].told = IF answered THEN Len(nonces) + 1
                                                     ELSE @]
    ELSE UNCHANGED <<nonces, tokens>>

Credential(type, answered) ==
    [type |-> type, token |-> token, access |-> access, call |-> calls,
     retry |-> ~allowRetry, received |-> answered]
Credentials(types, answered) ==
    [i \in 1..Len(types) |-> Credential(types[i], answered)]
AckIDOf(id) == IF issuer.ackIDs THEN id ELSE 0

StoreAcknowledgmentIDIfAny(ids, id) == IF id = 0 THEN ids ELSE Append(ids, id)
StoreAcknowledgmentIDAnew(ids, id) == IF responses = <<>> THEN <<id>> ELSE Append(ids, id)
StoreAcknowledgmentID(ids, id) == Append(ids, id)

(* One credential request answered with a response.  Its `credential` member  *)
(* is missing when the issuer defers issuance or uses `credentials` instead.  *)
PostCredential(usable) ==
    /\ Requesting /\ ~UsesBatch /\ TokenIsLive
    /\ IssuerAccepts /\ UseNonce(TRUE)
    /\ LET id == Len(issued) + 1 IN
         /\ issued' = Append(issued, Credential(wanted[Len(responses) + 1], TRUE))
         /\ responses' = Append(responses, [id |-> id, credential |-> usable,
                                            ackID |-> AckIDOf(id)])
         /\ ackIDs' = StoreAcknowledgmentID(ackIDs, AckIDOf(id))
    /\ CountPost
    /\ UNCHANGED <<offer, issuer, interactionVars, tokenVars, pc, flow, token, nonce,
                   allowRetry, proof, access, outcome, urls, exchanges, redeemed,
                   calls>>

(* A batch answered with k responses, of as many as were asked for.           *)
PostBatch(k, usable) ==
    /\ Requesting /\ UsesBatch
    /\ IssuerAccepts /\ UseNonce(TRUE)
    /\ k \in 0..Len(wanted)
    /\ issued' = issued \o Credentials(SubSeq(wanted, 1, k), TRUE)
    /\ responses' = [i \in 1..Len(wanted) |->
                       IF i <= k
                       THEN [id |-> Len(issued) + i, credential |-> usable,
                             ackID |-> AckIDOf(Len(issued) + i)]
                       ELSE EmptyResponse]
    /\ ackIDs' = ackIDs \o [i \in 1..k |-> AckIDOf(Len(issued) + i)]
    /\ CountPost
    /\ UNCHANGED <<offer, issuer, interactionVars, tokenVars, pc, flow, token, nonce,
                   allowRetry, proof, access, outcome, urls, exchanges, redeemed,
                   calls>>

(* A batch answer without c_nonce is dereferenced at its first response.      *)
PostBatchWithoutNonce ==
    /\ Requesting /\ UsesBatch
    /\ IssuerAccepts /\ UseNonce(FALSE)
    /\ issued' = issued \o Credentials(wanted, FALSE)
    /\ EndCall(Panicked)
    /\ CountPost
    /\ UNCHANGED <<offer, issuer, interactionVars, tokenVars, ackIDs, urls, exchanges,
                   redeemed, calls>>

(* One with a response too many is indexed past the end of the slice, after   *)
(* the others were stored.                                                    *)
PostBatchOverrun ==
    /\ Requesting /\ UsesBatch
    /\ IssuerAccepts /\ UseNonce(TRUE)
    /\ issued' = issued \o Credentials(wanted, TRUE)
                       \o <<Credential(wanted[1], FALSE)>>
    /\ ackIDs' = ackIDs \o [i \in 1..Len(wanted) |-> AckIDOf(Len(issued) + i)]
    /\ EndCall(Panicked)
    /\ CountPost
    /\ UNCHANGED <<offer, issuer, interactionVars, tokenVars, urls, exchanges, redeemed,
                   calls>>

(* The nonce of the second attempt: each flow's deferred function picks it.   *)
RetryNoncePassedOn(answered) == nonce
RetryNonce(answered) == IF flow = "auth" THEN answered ELSE nonce

RetriesStillAllowed == allowRetry
RetriesAllowed == FALSE

(* The issuer answers invalid_proof, with the c_nonce it wants or without.    *)
PostInvalidProof(n) ==
    /\ Requesting /\ TokenIsLive
    /\ n # 0 => Len(nonces) < MaxNonces
    /\ nonces' = IF n = 0 THEN nonces ELSE Append(nonces, token)
    /\ tokens' = [tokens EXCEPT ![token].told = n,
                                ![token].nonce = IF n = 0 THEN @ ELSE n]
    /\ CountPost
    /\ IF allowRetry
       THEN /\ pc' = "prove"
            /\ nonce' = RetryNonce(n)
            /\ allowRetry' = RetriesAllowed
            /\ UNCHANGED <<flow, token, proof, responses, access, outcome>>
       ELSE EndCall(Failed)
    /\ UNCHANGED <<offer, issuer, interactionVars, tokenVars, ackIDs, urls, exchanges,
                   redeemed, issued, calls>>

(* Any other failure of the request.  The issuer has either done nothing, or  *)
(* issued what was asked for and its answer was lost, did not unmarshal, or   *)
(* was dropped because logging the metrics event failed.                      *)
PostFails ==
    /\ Requesting
    /\ \/ UNCHANGED <<issued, tokens, nonces>>
       \/ /\ TokenIsLive /\ IssuerAccepts /\ UseNonce(FALSE)
          /\ issued' = issued \o Credentials(Requested, FALSE)
    /\ EndCall(Failed)
    /\ CountPost
    /\ UNCHANGED <<offer, issuer, interactionVars, tokenVars, ackIDs, urls, exchanges,
                   redeemed, calls>>

-----------------------------------------------------------------------------
(* getVCsFromCredentialResponses and the end of the call.                     *)

AllRequested == pc = "post" /\ Len(responses) = Len(wanted)
ParsesFirst(rs) == rs # <<>> => rs[1].credential
Parses(rs) == \A i \in DOMAIN rs : rs[i].credential
VCsPrepended == [i \in 1..Len(responses) |-> responses[Len(responses) - i + 1].id]
VCs == [i \in 1..Len(responses) |-> responses[i].id]

Deliver ==
    /\ AllRequested /\ Parses(responses)
    /\ EndCall([status |-> "vcs", vcs |-> VCs])
    /\ UNCHANGED <<offer, issuer, interactionVars, tokenVars, ackIDs, issuerVars,
                   calls, posts>>

(* The activity logger's error is returned together with the credentials.     *)
DeliverWithError ==
    /\ AllRequested /\ Parses(responses)
    /\ EndCall([status |-> "error", vcs |-> VCs])
    /\ UNCHANGED <<offer, issuer, interactionVars, tokenVars, ackIDs, issuerVars,
                   calls, posts>>

(* A response does not parse, a proof does not check, or the metrics logger   *)
(* fails: none of the credentials is returned.                                *)
ParseFails ==
    /\ AllRequested
    /\ EndCall(Failed)
    /\ UNCHANGED <<offer, issuer, interactionVars, tokenVars, ackIDs, issuerVars,
                   calls, posts>>

-----------------------------------------------------------------------------
(* What the app reads off the interaction after a call.                       *)

(* RequestCredentialWithPreAuthV2 of the mobile API pairs the credentials     *)
(* with the offer's configuration IDs by position, if there are as many.      *)
MobileCredentials ==
    IF offer.kind = "issuer" /\ outcome.status = "vcs" /\ Len(outcome.vcs) = offer.n
    THEN [i \in 1..offer.n |-> [credential |-> outcome.vcs[i], configID |-> i]]
    ELSE <<>>

AcknowledgmentOfAuthToken == [ids |-> ackIDs, token |-> authToken, access |-> 0]
Acknowledgment == [ids |-> ackIDs,
                   token |-> IF preAuthToken # 0 THEN preAuthToken ELSE authToken,
                   access |-> 0]

-----------------------------------------------------------------------------
(* Around the calls.                                                          *)

(* The issuer lets the nonce of a token it issued expire for another.         *)
NonceExpires ==
    /\ pc \in {"prove", "post"}
    /\ tokens[token].nonce # 0 /\ Len(nonces) < MaxNonces
    /\ nonces' = Append(nonces, token)
    /\ tokens' = [tokens EXCEPT ![token].nonce = Len(nonces) + 1]
    /\ UNCHANGED <<offer, issuer, interactionVars, tokenVars, ackIDs, callVars,
                   outcome, urls, exchanges, redeemed, issued, calls, posts>>

(* The app drops the object, or the process died with it.                     *)
Discard ==
    /\ pc \in {"idle", "crashed"}
    /\ pc' = "discarded"
    /\ UNCHANGED <<offer, issuer, interactionVars, tokenVars, ackIDs, flow, token,
                   nonce, allowRetry, proof, responses, access, outcome, issuerVars,
                   calls, posts>>

Discarded == pc = "discarded" /\ UNCHANGED vars

AppCall ==
    \/ PopulateIssuerMetadata
    \/ \E type \in WalletTypes, option \in {0, 2} : CreateAuthorizationURL(type, option)
    \/ \E option \in {0, 2} : CreateAuthorizationURLPanics(option)
    \/ \E r \in Redirects, k \in BOOLEAN : RequestCredentialWithAuthRefused(r, k)
    \/ \E r \in Redirects, n \in NewNonces : RequestCredentialWithAuth(r, n)
    \/ \E r \in Redirects : ExchangeFails(r)
    \/ \E pin, k \in BOOLEAN : RequestCredentialWithPreAuthRefused(pin, k)
    \/ \E n \in NewNonces : RequestCredentialWithPreAuth(n)
    \/ PreAuthTokenFails

CallStep ==
    \/ CreateClaimsProof
    \/ SigningFails
    \/ RefreshToken
    \/ \E usable \in BOOLEAN : PostCredential(usable)
    \/ \E k \in 0..Len(wanted), usable \in BOOLEAN : PostBatch(k, usable)
    \/ PostBatchWithoutNonce
    \/ PostBatchOverrun
    \/ \E n \in NewNonces : PostInvalidProof(n)
    \/ PostFails
    \/ Deliver
    \/ DeliverWithError
    \/ ParseFails

Next == AppCall \/ CallStep \/ NonceExpires \/ Discard \/ Discarded

Spec == Init /\ [][Next]_vars

(* A call runs to its end once started: every HTTP request ends in an answer  *)
(* or the client's timeout, and nothing else blocks.                          *)
FairSpec == Spec /\ WF_vars(CallStep)

-----------------------------------------------------------------------------
(* Properties.                                                                *)

Outcome    == [status: {"none", "vcs", "error", "panic"}, vcs: Seq(Nat)]
Response   == [id: Nat, credential: BOOLEAN, ackID: Nat]
URL        == [state: Nat, challenge: Nat, type: Nat, issuerState: Nat]
Token      == [flow: {"auth", "pre"}, code: Nat, nonce: Nat, told: Nat,
               expired: BOOLEAN]
IssuedCredential ==
    [type: Nat, token: Nat, access: Nat, call: Nat, retry: BOOLEAN,
     received: BOOLEAN]
Running == pc \in {"prove", "post"}
Ids == 1..Len(issued)

TypeOfInteraction ==
    /\ offer \in Offers /\ issuer \in Issuers
    /\ metadata \in BOOLEAN /\ clientID \in BOOLEAN
    /\ authCodeURLState \in Nat /\ codeVerifier \in Nat
    /\ wanted \in Seq(Nat)
    /\ authToken \in 0..Len(tokens) /\ preAuthToken \in 0..Len(tokens)
    /\ authTokenResponseNonce \in Nat
    /\ ackIDs \in Seq(Nat)
TypeOfCall ==
    /\ pc \in {"idle", "prove", "post", "crashed", "discarded"}
    /\ flow \in {"none", "auth", "pre"}
    /\ token \in IF Running THEN 1..Len(tokens) ELSE {0}
    /\ nonce \in Nat /\ allowRetry \in BOOLEAN
    /\ proof \in [nonce: Nat, iss: BOOLEAN]
    /\ responses \in Seq(Response) /\ access \in Nat
    /\ outcome \in Outcome
    /\ calls \in Nat /\ posts \in Nat
TypeOfIssuer ==
    /\ urls \in Seq(URL)
    /\ exchanges \subseteq [code: Nat, verifier: Nat]
    /\ redeemed \subseteq Nat
    /\ tokens \in Seq(Token)
    /\ nonces \in Seq(Nat)
    /\ issued \in Seq(IssuedCredential)

(* Every field holds a value the code can give it, and a running call works   *)
(* with a token the issuer handed out.                                        *)
TypeOK == TypeOfInteraction /\ TypeOfCall /\ TypeOfIssuer

Delivered == outcome.status = "vcs"
TypeOf(id) == IF id \in Ids THEN issued[id].type ELSE 0
SameRound(c, d) == c.token = d.token /\ c.call = d.call /\ c.retry = d.retry

(* What a request returns is one credential per wanted type, in order, all    *)
(* issued under one authorization in the same round of the same call: a retry *)
(* never mixes credentials of the round it replaces into its result.          *)
DeliveredInOneRound ==
    Delivered =>
        /\ \A i \in DOMAIN outcome.vcs : outcome.vcs[i] \in Ids
        /\ \A i, j \in DOMAIN outcome.vcs :
               SameRound(issued[outcome.vcs[i]], issued[outcome.vcs[j]])

(* The notification IDs of the credentials just returned are the last ones    *)
(* stored, in the order of the credentials, whatever earlier rounds and       *)
(* failed calls left before them; an absent ID keeps its place.               *)
AcksEndWithDelivered ==
    Delivered /\ pc = "idle" =>
        LET n == Len(outcome.vcs) IN
          /\ n <= Len(ackIDs)
          /\ \A i \in 1..n : ackIDs[Len(ackIDs) - n + i] = AckIDOf(outcome.vcs[i])

(* A credential whose response the wallet read can be acknowledged, even when *)
(* the call went on to fail or to retry: its ID is still in the list.         *)
ReceivedCanBeAcknowledged ==
    issuer.ackIDs =>
        \A id \in Ids : issued[id].received => \E i \in DOMAIN ackIDs : ackIDs[i] = id

(* The app may create a second URL while the first is open in a browser: a    *)
(* code is only ever sent with the verifier whose challenge its URL carried.  *)
CodeSentWithItsVerifier ==
    \A e \in exchanges : urls[e.code].challenge = e.verifier

(* A wallet-initiated request asks for the type the user authorized at the    *)
(* URL its token's code came from, not for that of another URL.               *)
RequestsAuthorizedType ==
    offer.kind = "wallet" /\ Running =>
        urls[tokens[token].code].type = wanted[1]

(* A proof of possession is made with a nonce issued for the token it is used *)
(* with, also when an earlier token of the interaction left a nonce behind.   *)
NonceIsForToken ==
    pc = "post" /\ proof.nonce # 0 => nonces[proof.nonce] = token

(* After invalid_proof the authorization code flow proves possession with the *)
(* nonce of that answer.                                                      *)
AuthRetryUsesAnsweredNonce ==
    flow = "auth" /\ pc = "post" /\ ~allowRetry /\ responses = <<>> =>
        proof.nonce = tokens[token].told

(* A call makes at most two rounds of requests: an issuer that keeps          *)
(* answering invalid_proof cannot hold the wallet.                            *)
AtMostOneRetry == posts <= 2 * Len(wanted)

(* The app keeps the credentials of a request next to the configuration IDs   *)
(* of the offer: each credential is of the type its own ID was offered for.   *)
PairedWithOfferedConfig ==
    \A i \in DOMAIN MobileCredentials :
        TypeOf(MobileCredentials[i].credential) = OfferedTypes(offer)[MobileCredentials[i].configID]

AcknowledgedByAnother(t) == tokens[t].flow = "auth" /\ preAuthToken # 0

(* The acknowledgment of the credentials just returned is sent under the      *)
(* authorization they were issued under, unless they came with the            *)
(* authorization code flow on an interaction that had used its pre-authorized *)
(* code; and with the very access token, unless that one had expired.         *)
AcknowledgesWithIssuingToken ==
    Delivered /\ pc = "idle" =>
        \A i \in DOMAIN outcome.vcs :
            LET c == issued[outcome.vcs[i]] IN
              /\ c.token = Acknowledgment.token <=> ~AcknowledgedByAnother(c.token)
              /\ c.access # Acknowledgment.access => tokens[c.token].expired

(* What the program's own comments say and the code does not do.              *)

(* The c_nonce of an invalid_proof answer is the nonce to prove possession    *)
(* with (pkg/openid4ci/models.go), in the pre-authorized flow too.            *)
PreAuthRetryUsesAnsweredNonce ==
    flow = "pre" /\ pc = "post" /\ ~allowRetry /\ responses = <<>> =>
        proof.nonce = tokens[token].told

(* The n-th acknowledgment is for the n-th credential returned, and there are *)
(* as many as credentials (gomobile openid4ci/acknowledgment.go).             *)
AcksAreThoseDelivered ==
    Delivered /\ pc = "idle" => Len(ackIDs) = Len(outcome.vcs)

(* Every request call returns (or takes the process down with it).            *)
CallsReturn == Running ~> ~Running

(* What the caller relies on: see AllOrNothingIssuance.                       *)
Promise == INSTANCE AllOrNothingIssuance WITH
    status <- IF Running THEN "working" ELSE outcome.status,
    want   <- wanted,
    got    <- IF Delivered /\ ~Running
              THEN [i \in DOMAIN outcome.vcs |-> TypeOf(outcome.vcs[i])] ELSE <<>>
KeepsPromise == Promise!Spec
=============================================================================
