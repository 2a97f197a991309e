--------------------------- MODULE IssuanceProofs ---------------------------
(***************************************************************************)
(* What holds of an issuance interaction for every set of offers and       *)
(* issuers and every bound: its types, and four of the safety properties   *)
(* of Issuance.  Each of these rests on an inductive invariant of its own, *)
(* named ...Inv; [][Next]_vars preserves it together with TypeOK.          *)
(***************************************************************************)
EXTENDS Issuance, SequenceTheorems, TLAPS

(* Ending a call (EndCall) leaves well-typed call state behind.               *)
LEMMA EndCallType ==
    ASSUME TypeOfCall, NEW result \in Outcome, EndCall(result),
           calls' \in Nat, posts' \in Nat
    PROVE  TypeOfCall'
<1>1. allowRetry' \in BOOLEAN
  BY Zenon DEF EndCall
<1>2. proof' \in [nonce: Nat, iss: BOOLEAN]
  BY DEF EndCall, NoProof
<1>3. /\ pc' \in {"idle", "crashed"} /\ token' = 0 /\ flow' = "none"
      /\ nonce' = 0 /\ access' = 0
  BY DEF EndCall
<1>4. responses' \in Seq(Response) /\ outcome' \in Outcome
  BY DEF EndCall
<1>5. QED BY <1>1, <1>2, <1>3, <1>4 DEF TypeOfCall, Running

(* The ways a call ends without credentials are outcomes.                     *)
LEMMA EndedWell == Failed \in Outcome /\ Panicked \in Outcome /\ NoOutcome \in Outcome
BY DEF Failed, Panicked, NoOutcome, Outcome

(* Replacing the current nonce of a token leaves a sequence of tokens.        *)
LEMMA SetNonce ==
    ASSUME NEW ts \in Seq(Token), NEW t \in 1..Len(ts), NEW n \in Nat
    PROVE  /\ [ts EXCEPT ![t].nonce = n] \in Seq(Token)
           /\ Len([ts EXCEPT ![t].nonce = n]) = Len(ts)
<1>1. ts[t] \in Token
  OBVIOUS
<1>2. [ts[t] EXCEPT !.nonce = n] \in Token
  BY <1>1 DEF Token
<1>3. QED BY <1>2, ExceptSeq

(* So does marking one as expired.                                            *)
LEMMA SetExpired ==
    ASSUME NEW ts \in Seq(Token), NEW t \in 1..Len(ts)
    PROVE  /\ [ts EXCEPT ![t].expired = TRUE] \in Seq(Token)
           /\ Len([ts EXCEPT ![t].expired = TRUE]) = Len(ts)
<1>1. ts[t] \in Token
  OBVIOUS
<1>2. [ts[t] EXCEPT !.expired = TRUE] \in Token
  BY <1>1 DEF Token
<1>3. QED BY <1>2, ExceptSeq

(* The issuer's one-time nonce policy keeps tokens and nonces well typed.     *)
LEMMA UseNonceType ==
    ASSUME TypeOfIssuer, token \in 1..Len(tokens), NEW answered \in BOOLEAN,
           UseNonce(answered)
    PROVE  tokens' \in Seq(Token) /\ Len(tokens') = Len(tokens) /\ nonces' \in Seq(Nat)
<1>1. CASE UNCHANGED <<nonces, tokens>>
  BY <1>1 DEF TypeOfIssuer
<1>2. ASSUME nonces' = Append(nonces, token),
             tokens' = [tokens EXCEPT ![token].nonce = Len(nonces) + 1,
                                      ![token].told = IF answered THEN Len(nonces) + 1
                                                      ELSE @]
      PROVE  tokens' \in Seq(Token) /\ Len(tokens') = Len(tokens) /\ nonces' \in Seq(Nat)
  <2> DEFINE n == Len(nonces) + 1
             told == IF answered THEN n ELSE tokens[token].told
             updated == [[tokens[token] EXCEPT !.nonce = n] EXCEPT !.told = told]
  <2>1. tokens \in Seq(Token) /\ nonces \in Seq(Nat)
    BY DEF TypeOfIssuer
  <2>2. tokens[token] \in Token
    BY <2>1
  <2>3. n \in Nat /\ told \in Nat
    BY <2>1, <2>2 DEF Token
  <2>4. updated \in Token
    <3> HIDE DEF n, told
    <3>1. QED BY <2>2, <2>3 DEF Token
  <2>5. tokens' \in Seq(Token) /\ Len(tokens') = Len(tokens)
    <3>1. tokens' = [tokens EXCEPT ![token] = updated]
      BY <1>2
    <3> HIDE DEF updated
    <3>2. QED BY <2>1, <2>4, <3>1, ExceptSeq
  <2>6. nonces' \in Seq(Nat)
    BY <1>2, <2>1
  <2>7. QED BY <2>5, <2>6
<1>3. QED BY <1>1, <1>2 DEF UseNonce

(* What the issuer notes of a credential it issues is well typed.             *)
LEMMA CredentialType ==
    ASSUME TypeOK, NEW type \in Nat, NEW answered \in BOOLEAN
    PROVE  Credential(type, answered) \in IssuedCredential
<1>1. token \in Nat /\ access \in Nat /\ calls \in Nat
  BY DEF TypeOK, TypeOfCall, Running, TypeOfIssuer
<1>2. (~allowRetry) \in BOOLEAN
  BY DEF TypeOK, TypeOfCall
<1>3. QED BY <1>1, <1>2 DEF Credential, IssuedCredential

(* So are the credentials of one answer, and the list they extend.            *)
LEMMA CredentialsType ==
    ASSUME TypeOK, NEW types \in Seq(Nat), NEW answered \in BOOLEAN
    PROVE  /\ Credentials(types, answered) \in Seq(IssuedCredential)
           /\ issued \o Credentials(types, answered) \in Seq(IssuedCredential)
<1>1. \A i \in 1..Len(types) : types[i] \in Nat
  OBVIOUS
<1>2. \A i \in 1..Len(types) : Credential(types[i], answered) \in IssuedCredential
  BY <1>1, CredentialType
<1>3. Credentials(types, answered) \in Seq(IssuedCredential)
  BY <1>2, IsASeq DEF Credentials
<1>4. issued \in Seq(IssuedCredential)
  BY DEF TypeOK, TypeOfIssuer
<1>5. QED BY <1>3, <1>4, ConcatProperties

(* The notification IDs of a batch answer extend the stored list.             *)
LEMMA AckIDsType ==
    ASSUME TypeOK, NEW k \in Nat
    PROVE  ackIDs \o [i \in 1..k |-> AckIDOf(Len(issued) + i)] \in Seq(Nat)
<1>1. \A i \in 1..k : AckIDOf(Len(issued) + i) \in Nat
  BY DEF TypeOK, TypeOfIssuer, AckIDOf
<1>2. [i \in 1..k |-> AckIDOf(Len(issued) + i)] \in Seq(Nat)
  BY <1>1, IsASeq
<1>3. QED BY <1>2, ConcatProperties DEF TypeOK, TypeOfInteraction

(* What a call returns is a sequence of credential numbers.                   *)
LEMMA VCsType ==
    ASSUME responses \in Seq(Response)
    PROVE  VCs \in Seq(Nat)
<1>1. \A i \in 1..Len(responses) : responses[i].id \in Nat
  <2>1. \A i \in 1..Len(responses) : responses[i] \in Response
    OBVIOUS
  <2>2. QED BY <2>1 DEF Response
<1>2. QED BY <1>1, IsASeq DEF VCs

(* The code of a redirect is a number.                                        *)
LEMMA RedirectType ==
    ASSUME TypeOK, NEW r \in Redirects
    PROVE  r.code \in Nat
<1>1. PICK u \in DOMAIN urls : r \in [code : {0, u}, state : {0, urls[u].state}]
  BY DEF Redirects
<1>2. u \in Nat
  BY DEF TypeOK, TypeOfIssuer
<1>3. QED BY <1>1, <1>2

(* A granted token request adds one token, and keeps nonces numbers.          *)
LEMMA IssueTokenType ==
    ASSUME TypeOK, NEW f \in {"auth", "pre"}, NEW code \in Nat, NEW n \in Nat,
           IssueToken(f, code, n)
    PROVE  /\ redeemed' \subseteq Nat
           /\ tokens' \in Seq(Token) /\ Len(tokens') = Len(tokens) + 1
           /\ nonces' \in Seq(Nat)
<1>1. redeemed' \subseteq Nat
  BY DEF IssueToken, TypeOK, TypeOfIssuer
<1>2. [flow |-> f, code |-> code, nonce |-> n, told |-> n, expired |-> FALSE] \in Token
  BY DEF Token
<1>3. tokens' \in Seq(Token) /\ Len(tokens') = Len(tokens) + 1
  <2> DEFINE new == [flow |-> f, code |-> code, nonce |-> n, told |-> n, expired |-> FALSE]
  <2>1. tokens' = Append(tokens, new) /\ tokens \in Seq(Token)
    BY DEF IssueToken, TypeOK, TypeOfIssuer
  <2>2. new \in Token
    BY <1>2
  <2> HIDE DEF new
  <2>3. QED BY <2>1, <2>2
<1>4. nonces' \in Seq(Nat)
  BY DEF IssueToken, TypeOK, TypeOfIssuer
<1>5. QED BY <1>1, <1>3, <1>4

(* A call that starts with the new token has well-typed call state.           *)
LEMMA StartCallType ==
    ASSUME TypeOK, NEW f \in {"auth", "pre"}, NEW n \in Nat, StartCall(f, n),
           Len(tokens') = Len(tokens) + 1, outcome' = outcome
    PROVE  TypeOfCall'
<1>1. allowRetry' \in BOOLEAN
  BY Zenon DEF StartCall
<1>2. proof' \in [nonce: Nat, iss: BOOLEAN]
  BY DEF StartCall, NoProof
<1>3. pc' = "prove" /\ flow' = f /\ nonce' = n /\ responses' = <<>>
      /\ access' = 0 /\ posts' = 0
  BY DEF StartCall
<1>4. token' \in 1..Len(tokens') /\ calls' \in Nat /\ outcome' \in Outcome
  BY DEF StartCall, TypeOK, TypeOfCall, TypeOfIssuer
<1>5. QED BY <1>1, <1>2, <1>3, <1>4 DEF TypeOfCall, Running

(* The count of credential requests stays a number.                           *)
LEMMA CountPostType ==
    ASSUME posts \in Nat, CountPost
    PROVE  posts' \in Nat
BY DEF CountPost

(* A new interaction is well typed.                                           *)
LEMMA InitType == Init => TypeOK
<1> SUFFICES ASSUME Init PROVE TypeOK
  OBVIOUS
<1>1. wanted \in Seq(Nat)
  <2>1. offer.n \in Nat
    BY OffersAssumption DEF Init, Offer
  <2>2. CASE offer.kind = "issuer"
    BY <2>1, <2>2, \A i \in 1..offer.n : i \in Nat, IsASeq DEF Init, OfferedTypes
  <2>3. CASE offer.kind # "issuer"
    BY <2>3 DEF Init, OfferedTypes
  <2>4. QED BY <2>2, <2>3
<1>2. metadata \in BOOLEAN /\ clientID \in BOOLEAN /\ allowRetry \in BOOLEAN
    BY Zenon DEF Init
<1>3. /\ authCodeURLState \in Nat /\ codeVerifier \in Nat
    /\ authToken \in 0..Len(tokens) /\ preAuthToken \in 0..Len(tokens)
    /\ authTokenResponseNonce \in Nat
    /\ ackIDs \in Seq(Nat)
    BY  DEF Init
<1>4. TypeOfInteraction
  BY <1>1, <1>2, <1>3 DEF Init, TypeOfInteraction
<1>5. ~Running
  BY DEF Init, Running
<1>6. TypeOfCall
  <2>1. proof \in [nonce: Nat, iss: BOOLEAN]
    BY DEF Init, NoProof
  <2>2. outcome \in Outcome
    BY EndedWell DEF Init
  <2>3. responses \in Seq(Response)
    BY DEF Init
  <2>4. QED  BY <1>2, <1>5, <2>1, <2>2, <2>3 DEF Init, TypeOfCall
<1>7. TypeOfIssuer
  BY DEF Init, TypeOfIssuer
<1>8. QED BY <1>4, <1>6, <1>7 DEF TypeOK

(* Every step of the app, a call or the issuer keeps the types.               *)
LEMMA StepType == TypeOK /\ [Next]_vars => TypeOK'
<1> SUFFICES ASSUME TypeOK, [Next]_vars PROVE TypeOK'
  OBVIOUS
<1> USE DEF TypeOK, interactionVars, tokenVars, callVars, issuerVars
<1>1. CASE PopulateIssuerMetadata
  BY <1>1 DEF PopulateIssuerMetadata, TypeOfInteraction, TypeOfCall, TypeOfIssuer, Running
<1>2. ASSUME NEW type \in WalletTypes, NEW option \in {0, 2},
             CreateAuthorizationURL(type, option)
      PROVE TypeOK'
  <2>1. FreshURL \in Nat /\ type \in Nat /\ IssuerStateToUse(option) \in Nat
    BY OffersAssumption, WalletTypesAssumption
    DEF FreshURL, IssuerStateToUse, Offer, TypeOfInteraction, TypeOfIssuer
  <2>2. metadata' \in BOOLEAN /\ clientID' \in BOOLEAN
    BY <1>2, Zenon DEF CreateAuthorizationURL
  <2>3. wanted' \in Seq(Nat) /\ wanted' # <<>>
    BY <1>2, <2>1 DEF CreateAuthorizationURL, WantedAfter, TypeOfInteraction
  <2>4. TypeOfInteraction'
    BY <1>2, <2>1, <2>2, <2>3 DEF CreateAuthorizationURL, TypeOfInteraction
  <2>5. urls' \in Seq(URL)
    BY <1>2, <2>1, <2>3 DEF CreateAuthorizationURL, TypeOfIssuer, URL
  <2>6. TypeOfIssuer' /\ TypeOfCall'
    BY <1>2, <2>5 DEF CreateAuthorizationURL, TypeOfIssuer, TypeOfCall, Running
  <2>7. QED BY <2>4, <2>6
<1>3. ASSUME NEW option \in {0, 2}, CreateAuthorizationURLPanics(option)
      PROVE TypeOK'
  BY <1>3, EndedWell
  DEF CreateAuthorizationURLPanics, TypeOfInteraction, TypeOfCall, TypeOfIssuer, Running
<1>4. ASSUME NEW r \in Redirects, NEW k \in BOOLEAN, RequestCredentialWithAuthRefused(r, k)
      PROVE TypeOK'
  BY <1>4, EndedWell
  DEF RequestCredentialWithAuthRefused, CallFails, TypeOfInteraction, TypeOfCall, TypeOfIssuer, Running
<1>5. ASSUME NEW r \in Redirects, NEW n \in NewNonces, RequestCredentialWithAuth(r, n)
      PROVE TypeOK'
  <2>1. r.code \in Nat /\ n \in Nat
    BY RedirectType DEF NewNonces, TypeOfIssuer
  <2>2. TypeOfInteraction'
    BY <1>5, <2>1, IssueTokenType
    DEF RequestCredentialWithAuth, TypeOfInteraction, TokenResponseNonce, TypeOfIssuer
  <2>3. TypeOfCall'
    BY <1>5, <2>1, IssueTokenType, StartCallType
    DEF RequestCredentialWithAuth, TokenResponseNonce
  <2>4. exchanges' \subseteq [code: Nat, verifier: Nat]
    BY <1>5, <2>1 DEF RequestCredentialWithAuth, TypeOfIssuer, TypeOfInteraction
  <2>5. TypeOfIssuer'
    BY <1>5, <2>1, <2>4, IssueTokenType DEF RequestCredentialWithAuth, TypeOfIssuer
  <2>6. QED BY <2>2, <2>3, <2>5
<1>6. ASSUME NEW r \in Redirects, ExchangeFails(r)
      PROVE TypeOK'
  <2>1. r.code \in Nat
    BY RedirectType
  <2>2. exchanges' \subseteq [code: Nat, verifier: Nat]
    BY <1>6, <2>1 DEF ExchangeFails, TypeOfIssuer, TypeOfInteraction
  <2>3. redeemed' \subseteq Nat
    BY <1>6, <2>1 DEF ExchangeFails, TypeOfIssuer
  <2>4. QED BY <1>6, <2>2, <2>3, EndedWell
    DEF ExchangeFails, CallFails, TypeOfInteraction, TypeOfCall, TypeOfIssuer, Running
<1>7. ASSUME NEW pin \in BOOLEAN, NEW k \in BOOLEAN, RequestCredentialWithPreAuthRefused(pin, k)
      PROVE TypeOK'
  BY <1>7, EndedWell
  DEF RequestCredentialWithPreAuthRefused, CallFails, TypeOfInteraction, TypeOfCall, TypeOfIssuer, Running
<1>8. ASSUME NEW n \in NewNonces, RequestCredentialWithPreAuth(n)
      PROVE TypeOK'
  <2>1. n \in Nat
    BY DEF NewNonces, TypeOfIssuer
  <2>2. TypeOfInteraction'
    BY <1>8, <2>1, IssueTokenType
    DEF RequestCredentialWithPreAuth, TypeOfInteraction, TypeOfIssuer
  <2>3. TypeOfCall'
    BY <1>8, <2>1, IssueTokenType, StartCallType DEF RequestCredentialWithPreAuth
  <2>4. TypeOfIssuer'
    BY <1>8, <2>1, IssueTokenType DEF RequestCredentialWithPreAuth, TypeOfIssuer
  <2>5. QED BY <2>2, <2>3, <2>4
<1>9. CASE PreAuthTokenFails
  <2>1. redeemed' \subseteq Nat
    <3>1. redeemed' = redeemed \/ redeemed' = redeemed \cup {0}
      BY <1>9, Zenon DEF PreAuthTokenFails
    <3>2. redeemed \subseteq Nat /\ 0 \in Nat
      BY DEF TypeOfIssuer
    <3>3. QED BY <3>1, <3>2
  <2>2. QED BY <1>9, <2>1, EndedWell
    DEF PreAuthTokenFails, CallFails, TypeOfInteraction, TypeOfCall, TypeOfIssuer, Running
<1>10. CASE CreateClaimsProof
  BY <1>10 DEF CreateClaimsProof, FreshResponses, TypeOfInteraction, TypeOfCall, TypeOfIssuer, Running
<1>11. CASE SigningFails
  BY <1>11, EndedWell, EndCallType
  DEF SigningFails, TypeOfInteraction, TypeOfIssuer, TypeOfCall
<1>12. ASSUME NEW usable \in BOOLEAN, PostCredential(usable)
       PROVE TypeOK'
  <2>1. pc = "post" /\ token \in 1..Len(tokens) /\ wanted[Len(responses) + 1] \in Nat
    BY <1>12 DEF PostCredential, Requesting, TypeOfCall, TypeOfInteraction, Running
  <2>2. tokens' \in Seq(Token) /\ Len(tokens') = Len(tokens) /\ nonces' \in Seq(Nat)
    BY <1>12, <2>1, UseNonceType DEF PostCredential
  <2>3. AckIDOf(Len(issued) + 1) \in Nat /\ Len(issued) + 1 \in Nat
    BY DEF AckIDOf, TypeOfIssuer
  <2>4. TypeOfInteraction'
    BY <1>12, <2>2, <2>3 DEF PostCredential, StoreAcknowledgmentID, TypeOfInteraction
  <2>5. responses' \in Seq(Response)
    BY <1>12, <2>3 DEF PostCredential, TypeOfCall, Response
  <2>6. TypeOfCall'
    BY <1>12, <2>1, <2>2, <2>5, CountPostType DEF PostCredential, TypeOfCall, Running
  <2>7. TypeOfIssuer'
    <3>1. issued' \in Seq(IssuedCredential)
      <4> DEFINE c == Credential(wanted[Len(responses) + 1], TRUE)
      <4>1. issued' = Append(issued, c)
        BY <1>12 DEF PostCredential
      <4>2. c \in IssuedCredential
        BY <2>1, CredentialType
      <4> HIDE DEF c
      <4>3. QED BY <4>1, <4>2 DEF TypeOfIssuer
    <3>2. QED BY <1>12, <2>2, <3>1 DEF PostCredential, TypeOfIssuer
  <2>8. QED BY <2>4, <2>6, <2>7
<1>13. ASSUME NEW k \in 0..Len(wanted), NEW usable \in BOOLEAN, PostBatch(k, usable)
       PROVE TypeOK'
  <2>1. pc = "post" /\ token \in 1..Len(tokens) /\ Len(wanted) \in Nat /\ k \in Nat
    BY <1>13 DEF PostBatch, Requesting, TypeOfCall, TypeOfInteraction, Running
  <2>2. tokens' \in Seq(Token) /\ Len(tokens') = Len(tokens) /\ nonces' \in Seq(Nat)
    BY <1>13, <2>1, UseNonceType DEF PostBatch
  <2>3. issued' \in Seq(IssuedCredential)
    <3>1. SubSeq(wanted, 1, k) \in Seq(Nat)
      BY <2>1 DEF TypeOfInteraction
    <3>2. QED BY <1>13, <3>1, CredentialsType DEF PostBatch
  <2>4. ackIDs' \in Seq(Nat)
    BY <1>13, <2>1, AckIDsType DEF PostBatch
  <2>5. responses' \in Seq(Response)
    <3> DEFINE R(i) == IF i <= k
                       THEN [id |-> Len(issued) + i, credential |-> usable,
                             ackID |-> AckIDOf(Len(issued) + i)]
                       ELSE EmptyResponse
    <3>1. \A i \in 1..Len(wanted) : R(i) \in Response
      BY DEF AckIDOf, EmptyResponse, Response, TypeOfIssuer
    <3>2. responses' = [i \in 1..Len(wanted) |-> R(i)]
      BY <1>13 DEF PostBatch
    <3> HIDE DEF R
    <3>3. [i \in 1..Len(wanted) |-> R(i)] \in Seq(Response)
      BY <2>1, <3>1, IsASeq
    <3>4. QED BY <3>2, <3>3
  <2>6. TypeOfInteraction'
    BY <1>13, <2>2, <2>4 DEF PostBatch, TypeOfInteraction
  <2>7. TypeOfCall'
    BY <1>13, <2>1, <2>2, <2>5, CountPostType DEF PostBatch, TypeOfCall, Running
  <2>8. TypeOfIssuer'
    BY <1>13, <2>2, <2>3 DEF PostBatch, TypeOfIssuer
  <2>9. QED BY <2>6, <2>7, <2>8
<1>14. CASE PostBatchWithoutNonce
  <2>1. pc = "post" /\ token \in 1..Len(tokens) /\ Len(wanted) \in Nat
    BY <1>14 DEF PostBatchWithoutNonce, Requesting, TypeOfCall, TypeOfInteraction, Running
  <2>2. tokens' \in Seq(Token) /\ Len(tokens') = Len(tokens) /\ nonces' \in Seq(Nat)
    BY <1>14, <2>1, UseNonceType DEF PostBatchWithoutNonce
  <2>3. issued' \in Seq(IssuedCredential)
    BY <1>14, <2>1, CredentialsType DEF PostBatchWithoutNonce, TypeOfInteraction
  <2>4. TypeOfInteraction'
    BY <1>14, <2>2 DEF PostBatchWithoutNonce, TypeOfInteraction
  <2>5. TypeOfCall'
    BY <1>14, EndedWell, EndCallType, CountPostType DEF PostBatchWithoutNonce, TypeOfCall
  <2>6. TypeOfIssuer'
    BY <1>14, <2>2, <2>3 DEF PostBatchWithoutNonce, TypeOfIssuer
  <2>7. QED BY <2>4, <2>5, <2>6
<1>15. CASE PostBatchOverrun
  <2>1. pc = "post" /\ token \in 1..Len(tokens) /\ Len(wanted) \in Nat /\ wanted[1] \in Nat
    BY <1>15 DEF PostBatchOverrun, Requesting, UsesBatch, TypeOfCall, TypeOfInteraction, Running
  <2>2. tokens' \in Seq(Token) /\ Len(tokens') = Len(tokens) /\ nonces' \in Seq(Nat)
    BY <1>15, <2>1, UseNonceType DEF PostBatchOverrun
  <2>3. issued' \in Seq(IssuedCredential)
    <3>1. issued \o Credentials(wanted, TRUE) \in Seq(IssuedCredential)
      BY CredentialsType DEF TypeOfInteraction
    <3> DEFINE c == Credential(wanted[1], FALSE)
    <3>2. c \in IssuedCredential
      BY <2>1, CredentialType
    <3> HIDE DEF c
    <3>3. <<c>> \in Seq(IssuedCredential)
      BY <3>2
    <3>4. QED BY <1>15, <3>1, <3>3, ConcatProperties DEF PostBatchOverrun, c
  <2>4. ackIDs' \in Seq(Nat)
    BY <1>15, <2>1, AckIDsType DEF PostBatchOverrun
  <2>5. TypeOfInteraction'
    BY <1>15, <2>2, <2>4 DEF PostBatchOverrun, TypeOfInteraction
  <2>6. TypeOfCall'
    BY <1>15, EndedWell, EndCallType, CountPostType DEF PostBatchOverrun, TypeOfCall
  <2>7. TypeOfIssuer'
    BY <1>15, <2>2, <2>3 DEF PostBatchOverrun, TypeOfIssuer
  <2>8. QED BY <2>5, <2>6, <2>7
<1>16. ASSUME NEW n \in NewNonces, PostInvalidProof(n)
       PROVE TypeOK'
  <2>1. pc = "post" /\ token \in 1..Len(tokens) /\ n \in Nat
    BY <1>16 DEF PostInvalidProof, Requesting, NewNonces, TypeOfCall, TypeOfIssuer, Running
  <2>2. tokens' \in Seq(Token) /\ Len(tokens') = Len(tokens)
    <3> DEFINE m == IF n = 0 THEN tokens[token].nonce ELSE n
               updated == [[tokens[token] EXCEPT !.told = n] EXCEPT !.nonce = m]
    <3>1. tokens \in Seq(Token)
      BY DEF TypeOfIssuer
    <3>2. tokens[token] \in Token
      BY <2>1, <3>1
    <3>3. m \in Nat
      BY <2>1, <3>2 DEF Token
    <3>4. updated \in Token
      <4> HIDE DEF m
      <4>1. QED BY <2>1, <3>2, <3>3 DEF Token
    <3>5. tokens' = [tokens EXCEPT ![token] = updated]
      BY <1>16 DEF PostInvalidProof
    <3> HIDE DEF updated
    <3>6. QED BY <2>1, <3>1, <3>4, <3>5, ExceptSeq
  <2>3. nonces' \in Seq(Nat)
    BY <1>16, <2>1 DEF PostInvalidProof, TypeOfIssuer
  <2>4. TypeOfInteraction' /\ TypeOfIssuer'
    BY <1>16, <2>2, <2>3 DEF PostInvalidProof, TypeOfInteraction, TypeOfIssuer
  <2>5. TypeOfCall'
    <3>1. CASE allowRetry
      <4>1. RetryNonce(n) \in Nat
        BY <2>1 DEF RetryNonce, TypeOfCall
      <4>2. QED BY <1>16, <2>1, <2>2, <3>1, <4>1, CountPostType
        DEF PostInvalidProof, RetriesAllowed, TypeOfCall, Running
    <3>2. CASE ~allowRetry
      BY <1>16, <3>2, EndedWell, EndCallType, CountPostType DEF PostInvalidProof, TypeOfCall
    <3>3. QED BY <3>1, <3>2
  <2>6. QED BY <2>4, <2>5
<1>17. CASE PostFails
  <2>1. pc = "post" /\ token \in 1..Len(tokens)
    BY <1>17 DEF PostFails, Requesting, TypeOfCall, Running
  <2>2. tokens' \in Seq(Token) /\ Len(tokens') = Len(tokens) /\ nonces' \in Seq(Nat)
    BY <1>17, <2>1, UseNonceType DEF PostFails, TypeOfIssuer
  <2>3. Requested \in Seq(Nat)
    <3>1. wanted[Len(responses) + 1] \in Nat
      BY <1>17 DEF PostFails, Requesting, TypeOfInteraction, TypeOfCall
    <3>2. <<wanted[Len(responses) + 1]>> \in Seq(Nat)
      BY <3>1
    <3>3. QED BY <3>2 DEF Requested, TypeOfInteraction
  <2>4. issued' \in Seq(IssuedCredential)
    BY <1>17, <2>3, CredentialsType DEF PostFails, TypeOfIssuer
  <2>5. TypeOfInteraction'
    BY <1>17, <2>2 DEF PostFails, TypeOfInteraction
  <2>6. TypeOfCall'
    BY <1>17, EndedWell, EndCallType, CountPostType DEF PostFails, TypeOfCall
  <2>7. TypeOfIssuer'
    BY <1>17, <2>2, <2>4 DEF PostFails, TypeOfIssuer
  <2>8. QED BY <2>5, <2>6, <2>7
<1>18. ASSUME NEW status \in {"vcs", "error"}, AllRequested, Parses(responses),
              EndCall([status |-> status, vcs |-> VCs]),
              UNCHANGED <<offer, issuer, interactionVars, tokenVars, ackIDs, issuerVars,
                          calls, posts>>
       PROVE TypeOK'
  <2>1. [status |-> status, vcs |-> VCs] \in Outcome
    BY VCsType DEF Outcome, TypeOfCall
  <2>2. TypeOfCall'
    BY <1>18, <2>1, EndCallType DEF TypeOfCall
  <2>3. QED BY <1>18, <2>2 DEF TypeOfInteraction, TypeOfIssuer
<1>19. CASE ParseFails
  <2>1. TypeOfCall'
    BY <1>19, EndedWell, EndCallType DEF ParseFails, TypeOfCall
  <2>2. QED BY <1>19, <2>1 DEF ParseFails, TypeOfInteraction, TypeOfIssuer
<1>26. CASE RefreshToken
  <2>1. token \in 1..Len(tokens) /\ tokens \in Seq(Token)
    BY <1>26 DEF RefreshToken, Requesting, TypeOfCall, TypeOfIssuer, Running
  <2>2. tokens' \in Seq(Token) /\ Len(tokens') = Len(tokens)
    BY <1>26, <2>1, SetExpired DEF RefreshToken
  <2>3. TypeOfInteraction' /\ TypeOfIssuer'
    BY <1>26, <2>2 DEF RefreshToken, TypeOfInteraction, TypeOfIssuer
  <2>4. TypeOfCall'
    BY <1>26, <2>1, <2>2 DEF RefreshToken, TypeOfCall, Running
  <2>5. QED BY <2>3, <2>4
<1>20. CASE NonceExpires
  <2>1. token \in 1..Len(tokens) /\ Len(nonces) + 1 \in Nat
    BY <1>20 DEF NonceExpires, TypeOfCall, TypeOfIssuer, Running
  <2>2. tokens' \in Seq(Token) /\ Len(tokens') = Len(tokens)
    BY <1>20, <2>1, SetNonce DEF NonceExpires, TypeOfIssuer
  <2>3. nonces' \in Seq(Nat)
    BY <1>20, <2>1 DEF NonceExpires, TypeOfIssuer
  <2>4. QED BY <1>20, <2>2, <2>3
    DEF NonceExpires, TypeOfInteraction, TypeOfCall, TypeOfIssuer, Running
<1>21. CASE Discard
  BY <1>21 DEF Discard, TypeOfInteraction, TypeOfCall, TypeOfIssuer, Running
<1>22. CASE UNCHANGED vars
  BY <1>22 DEF vars, TypeOfInteraction, TypeOfCall, TypeOfIssuer, Running
<1>23. CASE AppCall
  BY <1>1, <1>2, <1>3, <1>4, <1>5, <1>6, <1>7, <1>8, <1>9, <1>23 DEF AppCall
<1>24. CASE CallStep
  <2>1. CASE Deliver
    BY <1>18, <2>1 DEF Deliver
  <2>2. CASE DeliverWithError
    BY <1>18, <2>2 DEF DeliverWithError
  <2>3. QED BY <1>10, <1>11, <1>12, <1>13, <1>14, <1>15, <1>16, <1>17, <1>19, <1>24,
      <1>26, <2>1, <2>2
    DEF CallStep
<1>25. QED
  BY <1>20, <1>21, <1>22, <1>23, <1>24 DEF Next, Discarded

(* Type correctness of every reachable state, for any offers and issuers.     *)
THEOREM TypeCorrect == Spec => []TypeOK
BY InitType, StepType, PTL DEF Spec

-----------------------------------------------------------------------------
(* What the steps of a running call leave alone: the interaction itself, its  *)
(* tokens, and what the issuer knows of URLs and codes.                       *)
LEMMA CallStepFrame ==
    ASSUME CallStep
    PROVE  UNCHANGED <<offer, issuer, interactionVars, tokenVars, urls, exchanges,
                       redeemed, calls>>
<1> USE DEF interactionVars, tokenVars, callVars, issuerVars
<1>1. CASE CreateClaimsProof
  BY <1>1 DEF CreateClaimsProof
<1>2. CASE SigningFails
  BY <1>2 DEF SigningFails
<1>3. CASE \E usable \in BOOLEAN : PostCredential(usable)
  BY <1>3 DEF PostCredential
<1>4. CASE \E k \in 0..Len(wanted), usable \in BOOLEAN : PostBatch(k, usable)
  BY <1>4 DEF PostBatch
<1>5. CASE PostBatchWithoutNonce
  BY <1>5 DEF PostBatchWithoutNonce
<1>6. CASE PostBatchOverrun
  BY <1>6 DEF PostBatchOverrun
<1>7. CASE \E n \in NewNonces : PostInvalidProof(n)
  BY <1>7 DEF PostInvalidProof
<1>8. CASE PostFails
  BY <1>8 DEF PostFails
<1>9. CASE Deliver \/ DeliverWithError \/ ParseFails
  BY <1>9 DEF Deliver, DeliverWithError, ParseFails
<1>10. CASE RefreshToken
  BY <1>10 DEF RefreshToken
<1>11. QED
  BY <1>1, <1>2, <1>3, <1>4, <1>5, <1>6, <1>7, <1>8, <1>9, <1>10 DEF CallStep

-----------------------------------------------------------------------------
(* Codes and verifiers.  The invariant: a URL's state and PKCE challenge are  *)
(* its own number, the verifier kept is that of the state kept, and so every  *)
(* code sent went with the verifier of its own URL.                           *)
URLsNumbered == \A u \in DOMAIN urls : urls[u].state = u /\ urls[u].challenge = u
VerifierOfState == authCodeURLState = codeVerifier /\ codeVerifier \in 0..Len(urls)
CodesMatched == \A e \in exchanges : e.code \in DOMAIN urls /\ e.verifier = e.code
CodeInv == URLsNumbered /\ VerifierOfState /\ CodesMatched

(* A redirect that passes requestAccessToken is one of the last URL.          *)
LEMMA AcceptedCode ==
    ASSUME TypeOK, CodeInv, NEW r \in Redirects, AcceptsRedirect(r)
    PROVE  r.code \in DOMAIN urls /\ r.code = codeVerifier /\ r.code = authCodeURLState
<1>1. PICK u \in DOMAIN urls : r \in [code : {0, u}, state : {0, urls[u].state}]
  BY DEF Redirects
<1>2. r.code = u /\ r.state = urls[u].state
  BY <1>1 DEF AcceptsRedirect
<1>3. QED
  BY <1>2 DEF AcceptsRedirect, CodeInv, URLsNumbered, VerifierOfState

(* Sending an accepted redirect's code keeps CodeInv.                         *)
LEMMA ExchangeMatched ==
    ASSUME TypeOK, CodeInv, NEW r \in Redirects, AcceptsRedirect(r),
           exchanges' = exchanges \cup {[code |-> r.code, verifier |-> codeVerifier]},
           UNCHANGED <<urls, authCodeURLState, codeVerifier>>
    PROVE  CodeInv'
<1>1. CodesMatched'
  BY AcceptedCode DEF CodeInv, CodesMatched
<1>2. QED
  BY <1>1 DEF CodeInv, URLsNumbered, VerifierOfState

(* CodeInv is inductive: only three actions touch what it speaks of.          *)
LEMMA CodeStep == TypeOK /\ CodeInv /\ [Next]_vars => CodeInv'
<1> SUFFICES ASSUME TypeOK, CodeInv, [Next]_vars PROVE CodeInv'
  OBVIOUS
<1> USE DEF interactionVars, tokenVars, callVars, issuerVars
<1>1. CASE UNCHANGED <<urls, exchanges, authCodeURLState, codeVerifier>>
  BY <1>1 DEF CodeInv, URLsNumbered, VerifierOfState, CodesMatched
<1>2. ASSUME NEW type \in WalletTypes, NEW option \in {0, 2},
             CreateAuthorizationURL(type, option)
      PROVE CodeInv'
  <2> DEFINE url == [state |-> FreshURL, challenge |-> FreshURL, type |-> wanted'[1],
                     issuerState |-> IssuerStateToUse(option)]
  <2>1. urls' = Append(urls, url) /\ codeVerifier' = FreshURL /\ authCodeURLState' = FreshURL
        /\ exchanges' = exchanges
    BY <1>2 DEF CreateAuthorizationURL
  <2>2. url.state = Len(urls) + 1 /\ url.challenge = Len(urls) + 1
    BY DEF FreshURL
  <2>3. Len(urls) \in Nat /\ Len(urls') = Len(urls) + 1 /\ DOMAIN urls = 1..Len(urls)
        /\ DOMAIN urls' = 1..Len(urls) + 1
    BY <2>1 DEF TypeOK, TypeOfIssuer
  <2> HIDE DEF url
  <2>4. URLsNumbered'
    BY <2>1, <2>2, <2>3 DEF CodeInv, URLsNumbered, TypeOK, TypeOfIssuer
  <2>5. VerifierOfState'
    BY <2>1, <2>3 DEF VerifierOfState, FreshURL
  <2>6. CodesMatched'
    BY <2>1, <2>3 DEF CodeInv, CodesMatched
  <2>7. QED BY <2>4, <2>5, <2>6 DEF CodeInv
<1>3. ASSUME NEW r \in Redirects, NEW n \in NewNonces, RequestCredentialWithAuth(r, n)
      PROVE CodeInv'
  BY <1>3, ExchangeMatched DEF RequestCredentialWithAuth
<1>4. ASSUME NEW r \in Redirects, ExchangeFails(r)
      PROVE CodeInv'
  BY <1>4, ExchangeMatched DEF ExchangeFails, CallFails
<1>5. CASE AppCall
  <2>1. CASE PopulateIssuerMetadata
    BY <1>1, <2>1 DEF PopulateIssuerMetadata
  <2>2. CASE \E option \in {0, 2} : CreateAuthorizationURLPanics(option)
    BY <1>1, <2>2 DEF CreateAuthorizationURLPanics
  <2>3. CASE \E r \in Redirects, k \in BOOLEAN : RequestCredentialWithAuthRefused(r, k)
    BY <1>1, <2>3 DEF RequestCredentialWithAuthRefused, CallFails
  <2>4. CASE \E pin, k \in BOOLEAN : RequestCredentialWithPreAuthRefused(pin, k)
    BY <1>1, <2>4 DEF RequestCredentialWithPreAuthRefused, CallFails
  <2>5. CASE \E n \in NewNonces : RequestCredentialWithPreAuth(n)
    BY <1>1, <2>5 DEF RequestCredentialWithPreAuth
  <2>6. CASE PreAuthTokenFails
    BY <1>1, <2>6 DEF PreAuthTokenFails, CallFails
  <2>7. QED
    BY <1>2, <1>3, <1>4, <1>5, <2>1, <2>2, <2>3, <2>4, <2>5, <2>6 DEF AppCall
<1>6. CASE CallStep
  BY <1>1, <1>6, CallStepFrame
<1>7. CASE NonceExpires \/ Discard \/ UNCHANGED vars
  BY <1>1, <1>7 DEF NonceExpires, Discard, vars
<1>8. QED
  BY <1>5, <1>6, <1>7 DEF Next, Discarded

(* A code is only sent with the verifier of its own authorization URL,        *)
(* however many URLs the app creates and whatever redirect it hands in.       *)
THEOREM CodesSentWithTheirVerifiers == Spec => []CodeSentWithItsVerifier
<1>1. Init => CodeInv
  BY DEF Init, CodeInv, URLsNumbered, VerifierOfState, CodesMatched
<1>2. CodeInv => CodeSentWithItsVerifier
  BY DEF CodeInv, URLsNumbered, CodesMatched, CodeSentWithItsVerifier
<1>3. QED
  BY TypeCorrect, CodeStep, <1>1, <1>2, PTL DEF Spec

(* What the issuer does to its tokens and nonces while a call runs.           *)
TokenKept == /\ Len(tokens') = Len(tokens)
             /\ \A t \in DOMAIN tokens : /\ tokens'[t].code = tokens[t].code
                                         /\ tokens'[t].flow = tokens[t].flow
NoncesKept == /\ Len(nonces') >= Len(nonces)
              /\ \A n \in DOMAIN nonces : nonces'[n] = nonces[n]

(* The tokens form a sequence of records with the same five fields.           *)
LEMMA FieldsOf ==
    ASSUME NEW ts \in Seq(Token), NEW t \in 1..Len(ts)
    PROVE  /\ DOMAIN ts = 1..Len(ts)
           /\ DOMAIN ts[t] = {"flow", "code", "nonce", "told", "expired"}
<1>1. ts[t] \in Token
  OBVIOUS
<1>2. QED BY <1>1 DEF Token

(* A replaced one-time nonce changes no code, flow or earlier nonce.          *)
LEMMA UseNonceKeeps ==
    ASSUME TypeOK, token \in 1..Len(tokens), NEW answered \in BOOLEAN, UseNonce(answered)
    PROVE  TokenKept /\ NoncesKept
<1>1. tokens \in Seq(Token) /\ nonces \in Seq(Nat)
  BY DEF TypeOK, TypeOfIssuer
<1>2. CASE UNCHANGED <<nonces, tokens>>
  BY <1>1, <1>2 DEF TokenKept, NoncesKept
<1>3. ASSUME nonces' = Append(nonces, token),
             tokens' = [tokens EXCEPT ![token].nonce = Len(nonces) + 1,
                                      ![token].told = IF answered THEN Len(nonces) + 1
                                                      ELSE @]
      PROVE  TokenKept /\ NoncesKept
  <2>1. TokenKept
    BY <1>1, <1>3, FieldsOf DEF TokenKept
  <2>2. NoncesKept
    BY <1>1, <1>3 DEF NoncesKept
  <2>3. QED BY <2>1, <2>2
<1>4. QED BY <1>2, <1>3 DEF UseNonce

(* The steps of a call are taken while it runs, with a token.                 *)
LEMMA RunningToken ==
    ASSUME TypeOK, CallStep
    PROVE  Running /\ token \in 1..Len(tokens)
<1>1. Running
  BY DEF CallStep, CreateClaimsProof, SigningFails, RefreshToken, PostCredential, PostBatch,
         PostBatchWithoutNonce, PostBatchOverrun, PostInvalidProof, PostFails, Requesting,
         Deliver, DeliverWithError, ParseFails, AllRequested, Running
<1>2. QED BY <1>1 DEF TypeOK, TypeOfCall

(* A call's steps keep its token, all codes and all earlier nonces.           *)
LEMMA CallStepKeeps ==
    ASSUME TypeOK, CallStep
    PROVE  TokenKept /\ NoncesKept /\ (Running' => token' = token)
<1> USE DEF interactionVars, tokenVars, callVars, issuerVars
<1>1. token \in 1..Len(tokens) /\ tokens \in Seq(Token) /\ nonces \in Seq(Nat)
  BY RunningToken DEF TypeOK, TypeOfIssuer
<1>2. (UNCHANGED <<tokens, nonces>>) => TokenKept /\ NoncesKept
  BY <1>1 DEF TokenKept, NoncesKept
<1>3. ASSUME NEW result, EndCall(result)
      PROVE  ~Running'
  BY <1>3 DEF EndCall, Running
<1>4. CASE CreateClaimsProof \/ SigningFails
  BY <1>2, <1>3, <1>4 DEF CreateClaimsProof, SigningFails
<1>5. CASE \E usable \in BOOLEAN : PostCredential(usable)
  BY <1>1, <1>5, UseNonceKeeps DEF PostCredential
<1>6. CASE \E k \in 0..Len(wanted), usable \in BOOLEAN : PostBatch(k, usable)
  BY <1>1, <1>6, UseNonceKeeps DEF PostBatch
<1>7. CASE PostBatchWithoutNonce \/ PostBatchOverrun
  BY <1>1, <1>3, <1>7, UseNonceKeeps DEF PostBatchWithoutNonce, PostBatchOverrun
<1>8. ASSUME NEW n \in NewNonces, PostInvalidProof(n)
      PROVE TokenKept /\ NoncesKept /\ (Running' => token' = token)
  <2>1. TokenKept
    <3> DEFINE m == IF n = 0 THEN tokens[token].nonce ELSE n
    <3>1. tokens' = [tokens EXCEPT ![token].told = n, ![token].nonce = m]
      BY <1>8 DEF PostInvalidProof
    <3> HIDE DEF m
    <3>2. QED BY <1>1, <3>1, FieldsOf DEF TokenKept
  <2>2. NoncesKept
    BY <1>1, <1>8 DEF PostInvalidProof, NoncesKept
  <2>3. Running' => token' = token
    BY <1>3, <1>8 DEF PostInvalidProof
  <2>4. QED BY <2>1, <2>2, <2>3
<1>9. CASE PostFails
  <2>1. ~Running'
    BY <1>3, <1>9 DEF PostFails
  <2>2. TokenKept /\ NoncesKept
    BY <1>1, <1>2, <1>9, UseNonceKeeps DEF PostFails
  <2>3. QED BY <2>1, <2>2
<1>10. CASE Deliver \/ DeliverWithError \/ ParseFails
  BY <1>2, <1>3, <1>10 DEF Deliver, DeliverWithError, ParseFails
<1>11. CASE RefreshToken
  <2>1. tokens' = [tokens EXCEPT ![token].expired = TRUE] /\ nonces' = nonces
        /\ token' = token
    BY <1>11 DEF RefreshToken
  <2>2. TokenKept
    BY <1>1, <2>1, FieldsOf DEF TokenKept
  <2>3. NoncesKept
    BY <1>1, <2>1 DEF NoncesKept
  <2>4. QED BY <2>1, <2>2, <2>3
<1>12. QED
  BY <1>4, <1>5, <1>6, <1>7, <1>8, <1>9, <1>10, <1>11 DEF CallStep

(* So does a nonce that expires.                                              *)
LEMMA NonceExpiresKeeps ==
    ASSUME TypeOK, NonceExpires
    PROVE  TokenKept /\ NoncesKept
<1>1. token \in 1..Len(tokens) /\ tokens \in Seq(Token) /\ nonces \in Seq(Nat)
  BY DEF NonceExpires, TypeOK, TypeOfCall, TypeOfIssuer, Running
<1>2. TokenKept
  <2>1. tokens' = [tokens EXCEPT ![token].nonce = Len(nonces) + 1]
    BY DEF NonceExpires
  <2>2. QED BY <1>1, <2>1, FieldsOf DEF TokenKept
<1>3. NoncesKept
  BY <1>1 DEF NonceExpires, NoncesKept
<1>4. QED BY <1>2, <1>3

-----------------------------------------------------------------------------
(* What a wallet-initiated interaction requests.  The invariant: it has one   *)
(* type, that of the last URL, and a running call's token came from a code of *)
(* that URL.                                                                  *)
AuthorizedInv ==
    offer.kind = "wallet" =>
        /\ Len(wanted) = 1
        /\ authCodeURLState # 0 => urls[authCodeURLState].type = wanted[1]
        /\ Running => authCodeURLState # 0 /\ tokens[token].code = authCodeURLState

(* AuthorizedInv is inductive relative to CodeInv.                            *)
LEMMA AuthorizedStep ==
    TypeOK /\ CodeInv /\ AuthorizedInv /\ [Next]_vars => AuthorizedInv'
<1> SUFFICES ASSUME TypeOK, CodeInv, AuthorizedInv, [Next]_vars PROVE AuthorizedInv'
  OBVIOUS
<1> USE DEF interactionVars, tokenVars, callVars, issuerVars
<1>1. ASSUME UNCHANGED <<offer, interactionVars, urls>>,
             Running' => Running /\ token' = token /\ TokenKept
      PROVE AuthorizedInv'
  <2>1. Running => token \in DOMAIN tokens
    BY DEF TypeOK, TypeOfCall, TypeOfIssuer
  <2>2. QED BY <1>1, <2>1 DEF AuthorizedInv, TokenKept
<1>2. ASSUME UNCHANGED <<offer, interactionVars, urls>>, ~Running'
      PROVE AuthorizedInv'
  BY <1>1, <1>2
<1>3. ASSUME UNCHANGED <<offer, interactionVars, urls, pc, token, tokens>>
      PROVE AuthorizedInv'
  BY <1>3 DEF AuthorizedInv, Running
<1>4. ASSUME NEW type \in WalletTypes, NEW option \in {0, 2},
             CreateAuthorizationURL(type, option)
      PROVE AuthorizedInv'
  <2> DEFINE url == [state |-> FreshURL, challenge |-> FreshURL, type |-> wanted'[1],
                     issuerState |-> IssuerStateToUse(option)]
  <2>1. /\ urls' = Append(urls, url) /\ authCodeURLState' = Len(urls) + 1
        /\ wanted' = WantedAfter(type) /\ offer' = offer /\ ~Running'
    BY <1>4 DEF CreateAuthorizationURL, FreshURL, Running
  <2>2. url.type = wanted'[1]
    OBVIOUS
  <2>3. urls \in Seq(URL)
    BY DEF TypeOK, TypeOfIssuer
  <2> HIDE DEF url
  <2>4. urls'[authCodeURLState'].type = wanted'[1]
    BY <2>1, <2>2, <2>3
  <2>5. offer.kind = "wallet" => Len(wanted') = 1
    BY <2>1 DEF WantedAfter
  <2>6. QED BY <2>1, <2>4, <2>5 DEF AuthorizedInv
<1>5. ASSUME NEW r \in Redirects, NEW n \in NewNonces, RequestCredentialWithAuth(r, n)
      PROVE AuthorizedInv'
  <2>1. r.code = authCodeURLState /\ authCodeURLState # 0
    BY <1>5, AcceptedCode DEF RequestCredentialWithAuth, AcceptsRedirect
  <2>2. tokens \in Seq(Token) /\ Len(tokens) \in Nat
    BY DEF TypeOK, TypeOfIssuer
  <2> DEFINE new == [flow |-> "auth", code |-> r.code, nonce |-> n, told |-> n,
                     expired |-> FALSE]
  <2>3. tokens' = Append(tokens, new) /\ token' = Len(tokens) + 1
    BY <1>5 DEF RequestCredentialWithAuth, IssueToken, StartCall
  <2>4. new.code = r.code
    OBVIOUS
  <2> HIDE DEF new
  <2>5. tokens'[token'].code = r.code
    BY <2>2, <2>3, <2>4
  <2>6. UNCHANGED <<offer, interactionVars, urls>>
    BY <1>5 DEF RequestCredentialWithAuth
  <2>7. QED BY <2>1, <2>5, <2>6 DEF AuthorizedInv
<1>6. CASE \E n \in NewNonces : RequestCredentialWithPreAuth(n)
  <2>1. offer.preAuth /\ offer' = offer
    BY <1>6 DEF RequestCredentialWithPreAuth
  <2>2. offer.kind # "wallet"
    BY <2>1, OffersAssumption DEF TypeOK, TypeOfInteraction
  <2>3. QED BY <2>1, <2>2 DEF AuthorizedInv
<1>7. CASE AppCall
  <2>1. CASE PopulateIssuerMetadata
    BY <2>1 DEF PopulateIssuerMetadata, AuthorizedInv, Running
  <2>2. CASE \E option \in {0, 2} : CreateAuthorizationURLPanics(option)
    BY <1>2, <2>2 DEF CreateAuthorizationURLPanics, Running
  <2>3. CASE \E r \in Redirects, k \in BOOLEAN : RequestCredentialWithAuthRefused(r, k)
    BY <1>3, <2>3 DEF RequestCredentialWithAuthRefused, CallFails
  <2>4. CASE \E r \in Redirects : ExchangeFails(r)
    BY <1>3, <2>4 DEF ExchangeFails, CallFails
  <2>5. CASE \E pin, k \in BOOLEAN : RequestCredentialWithPreAuthRefused(pin, k)
    BY <1>3, <2>5 DEF RequestCredentialWithPreAuthRefused, CallFails
  <2>6. CASE PreAuthTokenFails
    BY <1>3, <2>6 DEF PreAuthTokenFails, CallFails
  <2>7. QED
    BY <1>4, <1>5, <1>6, <1>7, <2>1, <2>2, <2>3, <2>4, <2>5, <2>6 DEF AppCall
<1>8. CASE CallStep
  <2>1. UNCHANGED <<offer, interactionVars, urls>>
    BY <1>8, CallStepFrame
  <2>2. Running /\ TokenKept /\ (Running' => token' = token)
    BY <1>8, RunningToken, CallStepKeeps
  <2>3. QED BY <1>1, <2>1, <2>2
<1>9. CASE NonceExpires
  <2>1. TokenKept /\ Running
    BY <1>9, NonceExpiresKeeps DEF NonceExpires, Running
  <2>2. QED BY <1>1, <1>9, <2>1 DEF NonceExpires
<1>10. CASE Discard
  BY <1>2, <1>10 DEF Discard, Running
<1>11. CASE UNCHANGED vars
  BY <1>3, <1>11 DEF vars
<1>12. QED
  BY <1>7, <1>8, <1>9, <1>10, <1>11 DEF Next, Discarded

(* A wallet-initiated request asks for the type of the URL its code came from, *)
(* whatever the order of URLs, redirects and calls.                           *)
THEOREM AuthorizedTypesRequested == Spec => []RequestsAuthorizedType
<1>1. Init => CodeInv /\ AuthorizedInv
  <2>1. Init => CodeInv
    BY DEF Init, CodeInv, URLsNumbered, VerifierOfState, CodesMatched
  <2>2. Init => AuthorizedInv
    BY DEF Init, AuthorizedInv, OfferedTypes, Running
  <2>3. QED BY <2>1, <2>2
<1>2. AuthorizedInv => RequestsAuthorizedType
  BY DEF AuthorizedInv, RequestsAuthorizedType
<1>3. QED
  BY TypeCorrect, CodeStep, AuthorizedStep, <1>1, <1>2, PTL DEF Spec

-----------------------------------------------------------------------------
(* Nonces.  The invariant: the nonce of a running call, and the one in its    *)
(* proof, were issued for the token the call works with.                      *)
IssuedForToken(n) == n # 0 => n \in DOMAIN nonces /\ nonces[n] = token
NonceInv == Running => /\ IssuedForToken(nonce)
                       /\ pc = "post" => IssuedForToken(proof.nonce)

(* NonceInv is inductive: nonces are only appended, for one token each.       *)
LEMMA NonceStep == TypeOK /\ NonceInv /\ [Next]_vars => NonceInv'
<1> SUFFICES ASSUME TypeOK, NonceInv, [Next]_vars PROVE NonceInv'
  OBVIOUS
<1> USE DEF interactionVars, tokenVars, callVars, issuerVars
<1>1. tokens \in Seq(Token) /\ nonces \in Seq(Nat) /\ Len(nonces) \in Nat
  BY DEF TypeOK, TypeOfIssuer
<1>2. ASSUME ~Running' PROVE NonceInv'
  BY <1>2 DEF NonceInv
<1>3. ASSUME NoncesKept, Running, UNCHANGED <<pc, nonce, proof, token>>, nonces' \in Seq(Nat)
      PROVE NonceInv'
  BY <1>1, <1>3 DEF NoncesKept, NonceInv, IssuedForToken, Running
<1>4. ASSUME UNCHANGED <<pc, nonce, proof, token, nonces>>
      PROVE NonceInv'
  BY <1>4 DEF NonceInv, IssuedForToken, Running
<1>5. ASSUME NEW f, NEW code, NEW n \in NewNonces, IssueToken(f, code, n), StartCall(f, n)
      PROVE NonceInv'
  <2>1. pc' = "prove" /\ nonce' = n /\ token' = Len(tokens) + 1
    BY <1>5 DEF StartCall
  <2>2. n # 0 => nonces' = Append(nonces, Len(tokens) + 1) /\ n = Len(nonces) + 1
    BY <1>5 DEF IssueToken, NewNonces
  <2>3. IssuedForToken(nonce)'
    BY <1>1, <2>1, <2>2 DEF IssuedForToken
  <2>4. QED BY <2>1, <2>3 DEF NonceInv
<1>6. CASE AppCall
  <2>1. CASE PopulateIssuerMetadata
    BY <1>4, <2>1 DEF PopulateIssuerMetadata
  <2>2. CASE \E type \in WalletTypes, option \in {0, 2} : CreateAuthorizationURL(type, option)
    BY <1>4, <2>2 DEF CreateAuthorizationURL
  <2>3. CASE \E option \in {0, 2} : CreateAuthorizationURLPanics(option)
    BY <1>2, <2>3 DEF CreateAuthorizationURLPanics, Running
  <2>4. CASE \E r \in Redirects, k \in BOOLEAN : RequestCredentialWithAuthRefused(r, k)
    BY <1>4, <2>4 DEF RequestCredentialWithAuthRefused, CallFails
  <2>5. CASE \E r \in Redirects, n \in NewNonces : RequestCredentialWithAuth(r, n)
    <3>1. PICK r \in Redirects, n \in NewNonces : RequestCredentialWithAuth(r, n)
      BY <2>5
    <3>2. authTokenResponseNonce' = n
      BY <3>1 DEF RequestCredentialWithAuth, TokenResponseNonce
    <3>3. IssueToken("auth", r.code, n) /\ StartCall("auth", n)
      BY <3>1, <3>2 DEF RequestCredentialWithAuth
    <3>4. QED BY <1>5, <3>3
  <2>6. CASE \E r \in Redirects : ExchangeFails(r)
    BY <1>4, <2>6 DEF ExchangeFails, CallFails
  <2>7. CASE \E pin, k \in BOOLEAN : RequestCredentialWithPreAuthRefused(pin, k)
    BY <1>4, <2>7 DEF RequestCredentialWithPreAuthRefused, CallFails
  <2>8. CASE \E n \in NewNonces : RequestCredentialWithPreAuth(n)
    BY <1>5, <2>8 DEF RequestCredentialWithPreAuth
  <2>9. CASE PreAuthTokenFails
    BY <1>4, <2>9 DEF PreAuthTokenFails, CallFails
  <2>10. QED
    BY <1>6, <2>1, <2>2, <2>3, <2>4, <2>5, <2>6, <2>7, <2>8, <2>9 DEF AppCall
<1>7. ASSUME CallStep, UNCHANGED <<pc, nonce, proof>>, nonces' \in Seq(Nat), token' = token
      PROVE NonceInv'
  BY <1>3, <1>7, RunningToken, CallStepKeeps
<1>8. CASE CallStep
  <2>1. TypeOK'
    BY StepType
  <2>2. nonces' \in Seq(Nat)
    BY <2>1 DEF TypeOK, TypeOfIssuer
  <2>3. CASE CreateClaimsProof
    BY <2>3 DEF CreateClaimsProof, NonceInv, IssuedForToken, Running
  <2>4. CASE \E usable \in BOOLEAN : PostCredential(usable)
    BY <1>7, <1>8, <2>2, <2>4 DEF PostCredential
  <2>5. CASE \E k \in 0..Len(wanted), usable \in BOOLEAN : PostBatch(k, usable)
    BY <1>7, <1>8, <2>2, <2>5 DEF PostBatch
  <2>6. ASSUME NEW n \in NewNonces, PostInvalidProof(n)
        PROVE NonceInv'
    <3>1. CASE allowRetry
      <4>1. pc' = "prove" /\ nonce' = RetryNonce(n) /\ token' = token
        BY <2>6, <3>1 DEF PostInvalidProof
      <4>2. n # 0 => nonces' = Append(nonces, token) /\ n = Len(nonces) + 1
        BY <2>6 DEF PostInvalidProof, NewNonces
      <4>3. NoncesKept /\ IssuedForToken(nonce)
        BY <1>8, CallStepKeeps, RunningToken DEF NonceInv
      <4>4. nonce' = n => IssuedForToken(nonce)'
        BY <1>1, <4>1, <4>2 DEF IssuedForToken
      <4>5. nonce' = nonce => IssuedForToken(nonce)'
        BY <1>1, <2>2, <4>1, <4>3 DEF IssuedForToken, NoncesKept
      <4>6. QED BY <4>1, <4>4, <4>5 DEF NonceInv, RetryNonce
    <3>2. CASE ~allowRetry
      BY <1>2, <2>6, <3>2 DEF PostInvalidProof, EndCall, Running
    <3>3. QED BY <3>1, <3>2
  <2>7. ASSUME NEW result, EndCall(result) PROVE NonceInv'
    BY <1>2, <2>7 DEF EndCall, Running
  <2>8. CASE SigningFails \/ PostBatchWithoutNonce \/ PostBatchOverrun \/ PostFails
    BY <2>7, <2>8 DEF SigningFails, PostBatchWithoutNonce, PostBatchOverrun, PostFails
  <2>9. CASE Deliver \/ DeliverWithError \/ ParseFails
    BY <2>7, <2>9 DEF Deliver, DeliverWithError, ParseFails
  <2>10. CASE RefreshToken
    BY <1>7, <1>8, <2>2, <2>10 DEF RefreshToken
  <2>11. QED BY <1>8, <2>3, <2>4, <2>5, <2>6, <2>8, <2>9, <2>10 DEF CallStep
<1>9. CASE NonceExpires
  <2>1. TypeOK'
    BY StepType
  <2>2. nonces' \in Seq(Nat)
    BY <2>1 DEF TypeOK, TypeOfIssuer
  <2>3. QED BY <1>3, <1>9, <2>2, NonceExpiresKeeps DEF NonceExpires, Running
<1>10. CASE Discard
  BY <1>2, <1>10 DEF Discard, Running
<1>11. CASE UNCHANGED vars
  BY <1>4, <1>11 DEF vars
<1>12. QED
  BY <1>6, <1>8, <1>9, <1>10, <1>11 DEF Next, Discarded

(* A proof of possession is made with a nonce issued for the very token it is *)
(* used with, through retries, expiring nonces and earlier calls.             *)
THEOREM NoncesAreForTheirTokens == Spec => []NonceIsForToken
<1>1. Init => NonceInv
  BY DEF Init, NonceInv, Running
<1>2. NonceInv => NonceIsForToken
  BY DEF NonceInv, IssuedForToken, NonceIsForToken, Running
<1>3. QED
  BY TypeCorrect, NonceStep, <1>1, <1>2, PTL DEF Spec

-----------------------------------------------------------------------------
(* Requests per call.  The invariant: those of the round in progress were all *)
(* answered with a response, and an earlier round made at most as many as     *)
(* there are types.                                                           *)
FirstRound == IF allowRetry THEN 0 ELSE Len(wanted)
RetryInv ==
    /\ offer.kind = "wallet" => Len(wanted) = 1
    /\ posts <= 2 * Len(wanted)
    /\ pc = "prove" => posts <= FirstRound
    /\ pc = "post" => posts <= FirstRound + Len(responses) /\ Len(responses) <= Len(wanted)

(* RetryInv is inductive: a retry starts over, once.                          *)
LEMMA RetryStep == TypeOK /\ RetryInv /\ [Next]_vars => RetryInv'
<1> SUFFICES ASSUME TypeOK, RetryInv, [Next]_vars PROVE RetryInv'
  OBVIOUS
<1> USE DEF interactionVars, tokenVars, callVars, issuerVars
<1>1. /\ posts \in Nat /\ Len(wanted) \in Nat /\ Len(responses) \in Nat
      /\ responses \in Seq(Response)
  BY DEF TypeOK, TypeOfCall, TypeOfInteraction
<1>2. ASSUME UNCHANGED <<offer, wanted, pc, allowRetry, responses, posts>>
      PROVE RetryInv'
  BY <1>2 DEF RetryInv, FirstRound
<1>3. ASSUME UNCHANGED <<offer, wanted, posts>>, ~Running'
      PROVE RetryInv'
  BY <1>3 DEF RetryInv, Running
<1>4. ASSUME NEW f, NEW n, StartCall(f, n), UNCHANGED <<offer, wanted>>
      PROVE RetryInv'
  BY <1>1, <1>4 DEF StartCall, RetryInv, FirstRound
<1>5. CASE AppCall
  <2>1. CASE PopulateIssuerMetadata
    BY <1>2, <2>1 DEF PopulateIssuerMetadata
  <2>2. ASSUME NEW type \in WalletTypes, NEW option \in {0, 2},
               CreateAuthorizationURL(type, option)
        PROVE RetryInv'
    <3>1. ~Running' /\ offer' = offer /\ posts' = posts /\ wanted' = WantedAfter(type)
      BY <2>2 DEF CreateAuthorizationURL, Running
    <3>2. Len(wanted') = Len(wanted)
      BY <3>1 DEF WantedAfter, RetryInv
    <3>3. QED BY <3>1, <3>2 DEF RetryInv, Running
  <2>3. CASE \E option \in {0, 2} : CreateAuthorizationURLPanics(option)
    BY <1>3, <2>3 DEF CreateAuthorizationURLPanics, Running
  <2>4. CASE \E r \in Redirects, k \in BOOLEAN : RequestCredentialWithAuthRefused(r, k)
    BY <1>2, <2>4 DEF RequestCredentialWithAuthRefused, CallFails
  <2>5. CASE \E r \in Redirects, n \in NewNonces : RequestCredentialWithAuth(r, n)
    BY <1>4, <2>5 DEF RequestCredentialWithAuth
  <2>6. CASE \E r \in Redirects : ExchangeFails(r)
    BY <1>2, <2>6 DEF ExchangeFails, CallFails
  <2>7. CASE \E pin, k \in BOOLEAN : RequestCredentialWithPreAuthRefused(pin, k)
    BY <1>2, <2>7 DEF RequestCredentialWithPreAuthRefused, CallFails
  <2>8. CASE \E n \in NewNonces : RequestCredentialWithPreAuth(n)
    BY <1>4, <2>8 DEF RequestCredentialWithPreAuth
  <2>9. CASE PreAuthTokenFails
    BY <1>2, <2>9 DEF PreAuthTokenFails, CallFails
  <2>10. QED
    BY <1>5, <2>1, <2>2, <2>3, <2>4, <2>5, <2>6, <2>7, <2>8, <2>9 DEF AppCall
<1>6. ASSUME Requesting, CountPost
      PROVE  /\ posts' = posts + 1 /\ posts' <= 2 * Len(wanted)
             /\ posts' <= FirstRound + Len(responses) + 1
  BY <1>1, <1>6 DEF Requesting, CountPost, RetryInv, FirstRound
<1>7. ASSUME Requesting, CountPost, UNCHANGED <<offer, wanted>>, NEW result, EndCall(result)
      PROVE RetryInv'
  BY <1>1, <1>6, <1>7 DEF RetryInv, EndCall
<1>8. CASE CallStep
  <2>1. UNCHANGED <<offer, wanted>>
    BY <1>8, CallStepFrame
  <2>2. CASE CreateClaimsProof
    BY <1>1, <2>1, <2>2 DEF CreateClaimsProof, FreshResponses, RetryInv, FirstRound
  <2>3. CASE SigningFails \/ Deliver \/ DeliverWithError \/ ParseFails
    BY <1>3, <2>1, <2>3
    DEF SigningFails, Deliver, DeliverWithError, ParseFails, EndCall, Running
  <2>4. ASSUME NEW usable \in BOOLEAN, PostCredential(usable)
        PROVE RetryInv'
    <3>1. /\ Requesting /\ CountPost /\ UNCHANGED <<pc, allowRetry>>
      BY <2>4 DEF PostCredential
    <3>2. Len(responses') = Len(responses) + 1
      BY <1>1, <2>4 DEF PostCredential
    <3>3. Len(responses') <= Len(wanted) /\ pc' = "post"
      BY <1>1, <3>1, <3>2 DEF Requesting
    <3>4. FirstRound' = FirstRound
      BY <2>1, <3>1 DEF FirstRound
    <3>5. /\ posts' <= 2 * Len(wanted)
          /\ posts' <= FirstRound + Len(responses')
      <4>1. FirstRound \in Nat
        BY <1>1 DEF FirstRound
      <4>2. /\ posts' <= 2 * Len(wanted)
            /\ posts' <= FirstRound + Len(responses) + 1
        BY <1>6, <3>1
      <4>3. QED BY <1>1, <3>2, <4>1, <4>2
    <3>6. QED BY <2>1, <3>3, <3>4, <3>5 DEF RetryInv
  <2>5. ASSUME NEW k \in 0..Len(wanted), NEW usable \in BOOLEAN, PostBatch(k, usable)
        PROVE RetryInv'
    <3>1. /\ Requesting /\ CountPost /\ UNCHANGED <<pc, allowRetry>>
      BY <2>5 DEF PostBatch
    <3>2. Len(responses') = Len(wanted)
      BY <1>1, <2>5 DEF PostBatch
    <3>3. QED BY <1>1, <1>6, <2>1, <3>1, <3>2 DEF RetryInv, FirstRound, Requesting
  <2>6. CASE PostBatchWithoutNonce \/ PostBatchOverrun \/ PostFails
    BY <1>7, <2>1, <2>6 DEF PostBatchWithoutNonce, PostBatchOverrun, PostFails
  <2>7. ASSUME NEW n \in NewNonces, PostInvalidProof(n)
        PROVE RetryInv'
    <3>1. Requesting /\ CountPost
      BY <2>7 DEF PostInvalidProof
    <3>2. CASE allowRetry
      <4>1. pc' = "prove" /\ allowRetry' = FALSE
        BY <2>7, <3>2 DEF PostInvalidProof, RetriesAllowed
      <4>2. posts' <= Len(wanted)
        BY <1>1, <1>6, <3>1, <3>2 DEF FirstRound, Requesting
      <4>3. QED BY <1>1, <1>6, <2>1, <3>1, <4>1, <4>2 DEF RetryInv, FirstRound
    <3>3. CASE ~allowRetry
      BY <1>7, <2>1, <2>7, <3>1, <3>3 DEF PostInvalidProof
    <3>4. QED BY <3>2, <3>3
  <2>8. CASE RefreshToken
    BY <1>2, <2>8 DEF RefreshToken
  <2>9. QED BY <1>8, <2>2, <2>3, <2>4, <2>5, <2>6, <2>7, <2>8 DEF CallStep
<1>9. CASE NonceExpires
  BY <1>2, <1>9 DEF NonceExpires
<1>10. CASE Discard
  BY <1>3, <1>10 DEF Discard, Running
<1>11. CASE UNCHANGED vars
  BY <1>2, <1>11 DEF vars
<1>12. QED
  BY <1>5, <1>8, <1>9, <1>10, <1>11 DEF Next, Discarded

(* No call makes more than two rounds of requests, for any number of types    *)
(* and whatever the issuer answers.                                           *)
THEOREM RetriesOnce == Spec => []AtMostOneRetry
<1>1. Init => RetryInv
  BY OffersAssumption DEF Init, OfferedTypes, Offer, RetryInv, FirstRound
<1>2. RetryInv => AtMostOneRetry
  BY DEF RetryInv, AtMostOneRetry
<1>3. QED
  BY TypeCorrect, RetryStep, <1>1, <1>2, PTL DEF Spec
=============================================================================
