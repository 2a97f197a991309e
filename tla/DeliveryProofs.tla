---------------------------- MODULE DeliveryProofs ----------------------------
(***************************************************************************)
(* What holds of the credentials and notification IDs an issuance          *)
(* interaction hands to the app, for every set of offers and issuers and   *)
(* every bound, and that its calls keep the promise of                     *)
(* AllOrNothingIssuance.  TypeOK and the frame lemmas come from            *)
(* IssuanceProofs.                                                         *)
(***************************************************************************)
EXTENDS IssuanceProofs, FiniteSetTheorems

-----------------------------------------------------------------------------
(* What steps leave alone.                                                    *)

IssuedKept == /\ issued' \in Seq(IssuedCredential)
              /\ Len(issued') >= Len(issued)
              /\ \A id \in Ids : issued'[id] = issued[id]

(* Credentials are only ever added to those issued.                           *)
LEMMA IssuedAppended ==
    ASSUME TypeOK, NEW new \in Seq(IssuedCredential), issued' = issued \o new
    PROVE  /\ IssuedKept
           /\ Len(issued') = Len(issued) + Len(new)
           /\ \A i \in 1..Len(new) : issued'[Len(issued) + i] = new[i]
<1>1. issued \in Seq(IssuedCredential)
  BY DEF TypeOK, TypeOfIssuer
<1>2. QED BY <1>1, ConcatProperties, LenProperties DEF IssuedKept, Ids

LEMMA OneIssued ==
    ASSUME TypeOK, NEW new \in IssuedCredential, issued' = Append(issued, new)
    PROVE  IssuedKept /\ Len(issued') = Len(issued) + 1 /\ issued'[Len(issued) + 1] = new
<1>1. issued \in Seq(IssuedCredential)
  BY DEF TypeOK, TypeOfIssuer
<1>2. QED BY <1>1, AppendProperties, LenProperties DEF IssuedKept, Ids

LEMMA SameIssued == ASSUME TypeOK, issued' = issued PROVE IssuedKept
BY DEF TypeOK, TypeOfIssuer, IssuedKept, Ids

LEMMA IssuedOnlyGrows ==
    ASSUME TypeOK, [Next]_vars
    PROVE  IssuedKept
<1> USE DEF issuerVars
<1>1. CASE AppCall \/ NonceExpires \/ Discard \/ UNCHANGED vars
  <2>1. issued' = issued
    BY <1>1 DEF AppCall, NonceExpires, Discard, vars, PopulateIssuerMetadata,
       CreateAuthorizationURL, CreateAuthorizationURLPanics,
       RequestCredentialWithAuthRefused, RequestCredentialWithAuth, ExchangeFails,
       RequestCredentialWithPreAuthRefused, RequestCredentialWithPreAuth,
       PreAuthTokenFails, CallFails
  <2>2. QED BY <2>1, SameIssued
<1>2. wanted \in Seq(Nat) /\ token \in Nat
  BY DEF TypeOK, TypeOfInteraction, TypeOfCall, Running
<1>3. CASE \/ CreateClaimsProof \/ SigningFails \/ RefreshToken
           \/ Deliver \/ DeliverWithError \/ ParseFails
  BY <1>3, SameIssued DEF CreateClaimsProof, SigningFails, RefreshToken, Deliver,
     DeliverWithError, ParseFails
<1>4. ASSUME NEW usable \in BOOLEAN, PostCredential(usable) PROVE IssuedKept
  <2>1. wanted[Len(responses) + 1] \in Nat
    BY <1>2, <1>4 DEF PostCredential, Requesting, TypeOK, TypeOfCall
  <2>2. Credential(wanted[Len(responses) + 1], TRUE) \in IssuedCredential
    BY <2>1, CredentialType
  <2>3. QED BY <1>4, <2>2, OneIssued DEF PostCredential
<1>5. ASSUME NEW k \in 0..Len(wanted), NEW usable \in BOOLEAN, PostBatch(k, usable)
      PROVE  IssuedKept
  <2>1. SubSeq(wanted, 1, k) \in Seq(Nat)
    BY <1>2
  <2>2. Credentials(SubSeq(wanted, 1, k), TRUE) \in Seq(IssuedCredential)
    BY <2>1, CredentialsType
  <2>3. QED BY <1>5, <2>2, IssuedAppended DEF PostBatch
<1>6. CASE PostBatchWithoutNonce
  BY <1>2, <1>6, CredentialsType, IssuedAppended DEF PostBatchWithoutNonce
<1>7. CASE PostBatchOverrun
  <2>1. wanted[1] \in Nat
    BY <1>2, <1>7 DEF PostBatchOverrun, Requesting, TypeOK, TypeOfCall
  <2>2. PICK c \in IssuedCredential : c = Credential(wanted[1], FALSE)
    BY <2>1, CredentialType
  <2>3. PICK b \in Seq(IssuedCredential) : b = Credentials(wanted, TRUE)
    BY <1>2, CredentialsType
  <2>4. PICK a \in Seq(IssuedCredential) : a = issued
    BY DEF TypeOK, TypeOfIssuer
  <2>5. issued' = (a \o b) \o <<c>>
    BY <1>7, <2>2, <2>3, <2>4 DEF PostBatchOverrun
  <2>6. b \o <<c>> \in Seq(IssuedCredential) /\ (a \o b) \o <<c>> = a \o (b \o <<c>>)
    <3>1. <<c>> \in Seq(IssuedCredential)
      OBVIOUS
    <3>2. QED BY <3>1, ConcatProperties, ConcatAssociative
  <2>7. QED BY <2>4, <2>5, <2>6, IssuedAppended
<1>8. CASE \E n \in NewNonces : PostInvalidProof(n)
  BY <1>8, SameIssued DEF PostInvalidProof
<1>9. CASE PostFails
  <2>1. CASE issued' = issued
    BY <2>1, SameIssued
  <2>2. CASE issued' = issued \o Credentials(Requested, FALSE)
    <3>1. Requested \in Seq(Nat)
      BY <1>2, <1>9 DEF PostFails, Requesting, Requested, TypeOK, TypeOfCall
    <3>2. QED BY <2>2, <3>1, CredentialsType, IssuedAppended
  <2>3. QED BY <1>9, <2>1, <2>2 DEF PostFails
<1>10. QED BY <1>1, <1>3, <1>4, <1>5, <1>6, <1>7, <1>8, <1>9
           DEF Next, CallStep, Discarded

(* The steps after which a round of requests is under way.                    *)
LEMMA RoundSteps ==
    ASSUME TypeOK, [Next]_vars, pc' = "post"
    PROVE  \/ CreateClaimsProof
           \/ \E usable \in BOOLEAN : PostCredential(usable)
           \/ \E k \in 0..Len(wanted), usable \in BOOLEAN : PostBatch(k, usable)
           \/ RefreshToken \/ NonceExpires
           \/ UNCHANGED vars
<1> USE DEF callVars
<1>1. CASE AppCall
  BY <1>1 DEF AppCall, PopulateIssuerMetadata,
     CreateAuthorizationURL, CreateAuthorizationURLPanics, CanCall, StartCall,
     RequestCredentialWithAuthRefused, RequestCredentialWithAuth, ExchangeFails,
     RequestCredentialWithPreAuthRefused, RequestCredentialWithPreAuth,
     PreAuthTokenFails, CallFails
<1>2. ASSUME NEW result, EndCall(result) PROVE FALSE
  BY <1>2 DEF EndCall
<1>3. CASE CallStep
  BY <1>2, <1>3 DEF CallStep, SigningFails, PostBatchWithoutNonce, PostBatchOverrun,
     PostInvalidProof, PostFails, Deliver, DeliverWithError, ParseFails
<1>4. CASE Discard
  BY <1>4 DEF Discard
<1>5. QED BY <1>1, <1>3, <1>4 DEF Next, Discarded

(* The steps after which the last call has returned credentials.              *)
LEMMA DeliveredSteps ==
    ASSUME TypeOK, [Next]_vars, Delivered'
    PROVE  \/ Deliver
           \/ /\ outcome' = outcome
              /\ pc' = "idle" => pc = "idle" /\ ackIDs' = ackIDs
<1> USE DEF callVars, issuerVars, tokenVars
<1>1. ASSUME NEW result, EndCall(result), result.status # "vcs" PROVE FALSE
  BY <1>1 DEF EndCall, Delivered
<1>2. Failed.status # "vcs" /\ Panicked.status # "vcs"
  BY DEF Failed, Panicked
<1>3. CASE AppCall
  BY <1>2, <1>3 DEF AppCall, PopulateIssuerMetadata, Delivered,
     CreateAuthorizationURL, CreateAuthorizationURLPanics, CanCall, StartCall,
     RequestCredentialWithAuthRefused, RequestCredentialWithAuth, ExchangeFails,
     RequestCredentialWithPreAuthRefused, RequestCredentialWithPreAuth,
     PreAuthTokenFails, CallFails
<1>4. CASE CreateClaimsProof \/ RefreshToken \/ NonceExpires \/ Discard \/ UNCHANGED vars
  BY <1>4 DEF CreateClaimsProof, RefreshToken, Requesting, NonceExpires, Discard, vars
<1>5. CASE SigningFails \/ PostBatchWithoutNonce \/ PostBatchOverrun \/ PostFails \/ ParseFails
  BY <1>1, <1>2, <1>5 DEF SigningFails, PostBatchWithoutNonce, PostBatchOverrun, PostFails,
     ParseFails
<1>6. CASE DeliverWithError
  <2>1. [status |-> "error", vcs |-> VCs].status # "vcs"
    OBVIOUS
  <2>2. QED BY <1>1, <1>6, <2>1 DEF DeliverWithError
<1>7. CASE \E usable \in BOOLEAN : PostCredential(usable)
  BY <1>7 DEF PostCredential, Requesting
<1>8. CASE \E k \in 0..Len(wanted), usable \in BOOLEAN : PostBatch(k, usable)
  BY <1>8 DEF PostBatch, Requesting
<1>9. CASE \E n \in NewNonces : PostInvalidProof(n)
  BY <1>1, <1>2, <1>9 DEF PostInvalidProof
<1>10. QED BY <1>3, <1>4, <1>5, <1>6, <1>7, <1>8, <1>9 DEF Next, CallStep, Discarded

-----------------------------------------------------------------------------
(* Rounds.                                                                    *)

ThisRound == [token |-> token, call |-> calls, retry |-> ~allowRetry]

(* One of the credentials is of that type and was issued in that round.       *)
OfRound(id, type, credentials, round) ==
    /\ id \in 1..Len(credentials)
    /\ credentials[id].type = type /\ SameRound(credentials[id], round)

(* What was issued for the requests of this round is of the types wanted.     *)
RoundInv ==
    pc = "post" =>
        /\ Len(responses) <= Len(wanted)
        /\ \A i \in DOMAIN responses : responses[i].credential =>
               OfRound(responses[i].id, wanted[i], issued, ThisRound)

LEMMA CredentialOfRound ==
    ASSUME NEW type, NEW answered
    PROVE  /\ Credential(type, answered).type = type
           /\ Credential(type, answered).received = answered
           /\ SameRound(Credential(type, answered), ThisRound)
BY Zenon DEF Credential, SameRound, ThisRound

LEMMA NewOfRound ==
    ASSUME NEW id, NEW type, NEW answered, NEW credentials, id \in 1..Len(credentials),
           credentials[id] = Credential(type, answered)
    PROVE  OfRound(id, type, credentials, ThisRound)
<1>1. /\ Credential(type, answered).type = type
      /\ SameRound(Credential(type, answered), ThisRound)
  BY CredentialOfRound
<1>2. QED BY <1>1, Zenon DEF OfRound

LEMMA OfRoundKept ==
    ASSUME TypeOK, IssuedKept, NEW id, NEW type, NEW round, OfRound(id, type, issued, round)
    PROVE  OfRound(id, type, issued', round)
<1>1. id \in 1..Len(issued') /\ issued'[id] = issued[id]
  BY DEF IssuedKept, OfRound, Ids, TypeOK, TypeOfIssuer
<1>2. QED BY <1>1, Zenon DEF OfRound

LEMMA SameRoundNext ==
    ASSUME UNCHANGED <<token, calls, allowRetry>>
    PROVE  ThisRound' = ThisRound
BY Zenon DEF ThisRound

(* One response more.                                                         *)
LEMMA PostedOne ==
    ASSUME TypeOK, NEW usable \in BOOLEAN, PostCredential(usable)
    PROVE  LET id == Len(issued) + 1
               n  == Len(responses) + 1
           IN  /\ n <= Len(wanted) /\ n \in DOMAIN wanted
               /\ DOMAIN responses' = DOMAIN responses \cup {n} /\ Len(responses') = n
               /\ \A i \in DOMAIN responses : responses'[i] = responses[i]
               /\ responses'[n].id = id
               /\ issued'[id] = Credential(wanted[n], TRUE)
               /\ Len(issued') = id
               /\ ackIDs' = Append(ackIDs, AckIDOf(id))
<1>1. /\ responses \in Seq(Response) /\ wanted \in Seq(Nat)
      /\ issued \in Seq(IssuedCredential)
  BY DEF TypeOK, TypeOfCall, TypeOfInteraction, TypeOfIssuer
<1> DEFINE id == Len(issued) + 1
           n == Len(responses) + 1
           new == [id |-> id, credential |-> usable, ackID |-> AckIDOf(id)]
<1>2. n <= Len(wanted) /\ n \in DOMAIN wanted /\ wanted[n] \in Nat
  BY <1>1 DEF PostCredential, Requesting
<1>3. responses' = Append(responses, new) /\ new.id = id
  BY DEF PostCredential
<1>4. issued' = Append(issued, Credential(wanted[n], TRUE))
  BY DEF PostCredential
<1>5. Credential(wanted[n], TRUE) \in IssuedCredential
  BY <1>2, CredentialType
<1>6. issued'[id] = Credential(wanted[n], TRUE) /\ Len(issued') = id
  BY <1>4, <1>5, OneIssued
<1>7. ackIDs' = Append(ackIDs, AckIDOf(id))
  BY DEF PostCredential, StoreAcknowledgmentID
<1> HIDE DEF new
<1>8. /\ DOMAIN responses' = DOMAIN responses \cup {n} /\ Len(responses') = n
      /\ \A i \in DOMAIN responses : responses'[i] = responses[i]
      /\ responses'[n] = new
  <2>1. TypeOK'
    BY StepType DEF Next, CallStep
  <2>2. responses' \in Seq(Response)
    BY <2>1 DEF TypeOK, TypeOfCall
  <2>3. QED BY <1>1, <1>3, <2>2
<1>9. QED BY <1>2, <1>3, <1>6, <1>7, <1>8

(* As many responses as a batch was answered with, and the rest empty.        *)
LEMMA PostedBatch ==
    ASSUME TypeOK, NEW k \in 0..Len(wanted), NEW usable \in BOOLEAN, PostBatch(k, usable)
    PROVE  /\ k \in Nat /\ Len(wanted) \in Nat /\ Len(wanted) > 1
           /\ DOMAIN responses' = 1..Len(wanted) /\ Len(responses') = Len(wanted)
           /\ \A i \in 1..k : /\ i \in 1..Len(wanted)
                              /\ responses'[i].id = Len(issued) + i
                              /\ issued'[Len(issued) + i] = Credential(wanted[i], TRUE)
           /\ Len(issued') = Len(issued) + k
           /\ \A i \in 1..Len(wanted) : i > k => ~responses'[i].credential
           /\ ackIDs' = ackIDs \o [i \in 1..k |-> AckIDOf(Len(issued) + i)]
<1>1. /\ wanted \in Seq(Nat) /\ issued \in Seq(IssuedCredential) /\ k \in Nat
      /\ Len(wanted) \in Nat /\ Len(wanted) > 1
  BY DEF TypeOK, TypeOfInteraction, TypeOfIssuer, PostBatch, UsesBatch
<1> DEFINE first == SubSeq(wanted, 1, k)
<1>2. first \in Seq(Nat) /\ Len(first) = k /\ \A i \in 1..k : first[i] = wanted[i]
  BY <1>1
<1>3. issued' = issued \o Credentials(first, TRUE)
  BY DEF PostBatch
<1> HIDE DEF first
<1>4. /\ Credentials(first, TRUE) \in Seq(IssuedCredential)
      /\ Len(Credentials(first, TRUE)) = k
      /\ \A i \in 1..k : Credentials(first, TRUE)[i] = Credential(wanted[i], TRUE)
  <2>1. Credentials(first, TRUE) \in Seq(IssuedCredential)
    BY <1>2, CredentialsType
  <2>2. Credentials(first, TRUE) = [i \in 1..k |-> Credential(first[i], TRUE)]
    BY <1>2 DEF Credentials
  <2>3. Len(Credentials(first, TRUE)) = k
    <3>1. DOMAIN Credentials(first, TRUE) = 1..k
      BY <2>2
    <3>2. PICK c \in Seq(IssuedCredential) : c = Credentials(first, TRUE)
      BY <2>1
    <3>3. PICK n \in Nat : n = Len(c) /\ 1..n = 1..k
      BY <3>1, <3>2, LenProperties
    <3>4. n \in 1..n => n \in 1..k
      BY <3>3, Zenon
    <3>5. k \in 1..k => k \in 1..n
      BY <3>3, Zenon
    <3>6. n = k
      BY <1>1, <3>4, <3>5
    <3>7. QED BY <3>2, <3>3, <3>6
  <2>4. \A i \in 1..k : Credentials(first, TRUE)[i] = Credential(wanted[i], TRUE)
    BY <1>2, <2>2, Zenon
  <2>5. QED BY <2>1, <2>3, <2>4
<1>5. /\ \A i \in 1..k : issued'[Len(issued) + i] = Credential(wanted[i], TRUE)
      /\ Len(issued') = Len(issued) + k
  BY <1>3, <1>4, IssuedAppended
<1>6. responses' = [i \in 1..Len(wanted) |->
                       IF i <= k
                       THEN [id |-> Len(issued) + i, credential |-> usable,
                             ackID |-> AckIDOf(Len(issued) + i)]
                       ELSE EmptyResponse]
  BY DEF PostBatch
<1>7. DOMAIN responses' = 1..Len(wanted)
  BY <1>6
<1>8. Len(responses') = Len(wanted)
  BY <1>1, <1>7
<1>9. \A i \in 1..k : i \in 1..Len(wanted) /\ responses'[i].id = Len(issued) + i
  BY <1>1, <1>6
<1>10. \A i \in 1..Len(wanted) : i > k => ~responses'[i].credential
  <2>1. \A i \in 1..Len(wanted) : i > k => responses'[i] = EmptyResponse
    BY <1>1, <1>6
  <2>2. ~EmptyResponse.credential
    BY Zenon DEF EmptyResponse
  <2>3. QED BY <2>1, <2>2, Zenon
<1>11. QED BY <1>1, <1>5, <1>7, <1>8, <1>9, <1>10 DEF PostBatch

(* RoundInv is inductive: a round starts without responses, and its requests  *)
(* go through the wanted types in order.                                      *)
LEMMA RoundStep == TypeOK /\ RoundInv /\ [Next]_vars => RoundInv'
<1> SUFFICES ASSUME TypeOK, RoundInv, [Next]_vars, pc' = "post" PROVE RoundInv'
  BY DEF RoundInv
<1> USE DEF interactionVars, tokenVars, callVars, issuerVars
<1>1. IssuedKept /\ wanted \in Seq(Nat) /\ Len(wanted) \in Nat /\ Len(issued) \in Nat
  BY IssuedOnlyGrows DEF TypeOK, TypeOfInteraction, TypeOfIssuer
<1>2. CASE CreateClaimsProof
  <2>1. responses' = <<>> /\ wanted' = wanted
    BY <1>2 DEF CreateClaimsProof, FreshResponses
  <2>2. QED BY <1>1, <2>1 DEF RoundInv
<1>3. ASSUME NEW usable \in BOOLEAN, PostCredential(usable)
      PROVE  RoundInv'
  <2>1. wanted' = wanted /\ ThisRound' = ThisRound /\ pc = "post"
    BY <1>3, SameRoundNext DEF PostCredential, Requesting
  <2> DEFINE n == Len(responses) + 1
             id == Len(issued) + 1
  <2>2. /\ n <= Len(wanted) /\ Len(issued') = id
        /\ DOMAIN responses' = DOMAIN responses \cup {n} /\ Len(responses') = n
        /\ \A i \in DOMAIN responses : responses'[i] = responses[i]
        /\ responses'[n].id = id
        /\ issued'[id] = Credential(wanted[n], TRUE)
    BY <1>1, <1>3, PostedOne
  <2>8. id \in 1..Len(issued')
    BY <1>1, <2>2
  <2> HIDE DEF n, id
  <2>3. OfRound(id, wanted[n], issued', ThisRound)
    BY <2>2, <2>8, NewOfRound
  <2>4. ASSUME NEW i \in DOMAIN responses, responses[i].credential
        PROVE  OfRound(responses[i].id, wanted[i], issued', ThisRound)
    <3>1. OfRound(responses[i].id, wanted[i], issued, ThisRound)
      BY <2>1, <2>4, Zenon DEF RoundInv
    <3>2. QED BY <1>1, <3>1, OfRoundKept
  <2>5. ASSUME NEW i \in DOMAIN responses', responses'[i].credential
        PROVE  OfRound(responses'[i].id, wanted[i], issued', ThisRound)
    <3>1. CASE i = n
      BY <2>2, <2>3, <3>1
    <3>2. CASE i \in DOMAIN responses
      BY <2>2, <2>4, <2>5, <3>2, Zenon
    <3>3. QED BY <2>2, <3>1, <3>2
  <2>6. Len(responses') <= Len(wanted')
    BY <2>1, <2>2
  <2>7. QED BY <2>1, <2>5, <2>6, Zenon DEF RoundInv
<1>4. ASSUME NEW k \in 0..Len(wanted), NEW usable \in BOOLEAN, PostBatch(k, usable)
      PROVE  RoundInv'
  <2>1. wanted' = wanted /\ ThisRound' = ThisRound
    BY <1>4, SameRoundNext DEF PostBatch
  <2>2. /\ k \in Nat
        /\ DOMAIN responses' = 1..Len(wanted) /\ Len(responses') = Len(wanted)
        /\ \A i \in 1..k : /\ responses'[i].id = Len(issued) + i
                           /\ issued'[Len(issued) + i] = Credential(wanted[i], TRUE)
        /\ Len(issued') = Len(issued) + k
        /\ \A i \in 1..Len(wanted) : i > k => ~responses'[i].credential
    BY <1>4, PostedBatch
  <2>3. ASSUME NEW i \in 1..k
        PROVE  OfRound(responses'[i].id, wanted[i], issued', ThisRound)
    <3>1. PICK m \in Nat : m = Len(issued) + i
      BY <1>1
    <3>2. m \in 1..Len(issued')
      BY <1>1, <2>2, <3>1
    <3>3. issued'[m] = Credential(wanted[i], TRUE) /\ responses'[i].id = m
      BY <2>2, <3>1, Zenon
    <3>4. OfRound(m, wanted[i], issued', ThisRound)
      BY <3>2, <3>3, NewOfRound
    <3>5. QED BY <3>3, <3>4, Zenon
  <2>4. ASSUME NEW i \in DOMAIN responses', responses'[i].credential
        PROVE  OfRound(responses'[i].id, wanted[i], issued', ThisRound)
    <3>1. i \in 1..Len(wanted) /\ (i > k => ~responses'[i].credential)
      BY <2>2
    <3>2. ~(i > k)
      BY <2>4, <3>1, Zenon
    <3>3. i \in 1..k
      BY <1>1, <2>2, <3>1, <3>2
    <3>4. QED BY <2>3, <3>3
  <2>5. Len(responses') <= Len(wanted')
    BY <1>1, <2>1, <2>2
  <2>6. QED BY <2>1, <2>4, <2>5, Zenon DEF RoundInv
<1>5. CASE RefreshToken \/ NonceExpires \/ UNCHANGED vars
  <2>1. UNCHANGED <<wanted, responses, pc>> /\ ThisRound' = ThisRound
    BY <1>5, SameRoundNext DEF RefreshToken, NonceExpires, vars
  <2>2. ASSUME NEW i \in DOMAIN responses, responses[i].credential
        PROVE  OfRound(responses[i].id, wanted[i], issued', ThisRound)
    <3>1. OfRound(responses[i].id, wanted[i], issued, ThisRound)
      BY <2>1, <2>2, Zenon DEF RoundInv
    <3>2. QED BY <1>1, <3>1, OfRoundKept
  <2>3. Len(responses) <= Len(wanted)
    BY <2>1 DEF RoundInv
  <2>4. QED BY <2>1, <2>2, <2>3, Zenon DEF RoundInv
<1>6. QED BY <1>2, <1>3, <1>4, <1>5, RoundSteps

-----------------------------------------------------------------------------
(* What a call returns.                                                       *)

(* An issuer-initiated interaction requests what was offered, always.  Each   *)
(* credential returned was issued, all in one round, and one per wanted type. *)
DeliveredInv ==
    /\ offer.kind = "issuer" => wanted = OfferedTypes(offer)
    /\ Delivered => \E round :
          \A i \in DOMAIN outcome.vcs :
             \E type : /\ OfRound(outcome.vcs[i], type, issued, round)
                       /\ offer.kind = "issuer" => i \in DOMAIN wanted /\ type = wanted[i]

(* The wanted types change with an authorization URL of a wallet-initiated    *)
(* interaction only.                                                          *)
LEMMA WantedKept ==
    ASSUME [Next]_vars
    PROVE  offer' = offer /\ (offer.kind = "issuer" => wanted' = wanted)
<1> USE DEF interactionVars
<1>1. ASSUME NEW type \in WalletTypes, NEW option \in {0, 2},
             CreateAuthorizationURL(type, option)
      PROVE  offer' = offer /\ (offer.kind = "issuer" => wanted' = wanted)
  <2>1. offer' = offer /\ wanted' = WantedAfter(type)
    BY <1>1 DEF CreateAuthorizationURL
  <2>2. offer.kind = "issuer" => offer.kind # "wallet"
    OBVIOUS
  <2>3. QED BY <2>1, <2>2 DEF WantedAfter
<1>2. CASE CallStep
  BY <1>2, CallStepFrame
<1>3. CASE NonceExpires \/ Discard \/ UNCHANGED vars
  BY <1>3 DEF NonceExpires, Discard, vars
<1>4. CASE AppCall
  <2>1. CASE \E type \in WalletTypes, option \in {0, 2} : CreateAuthorizationURL(type, option)
    BY <1>1, <2>1
  <2>2. ASSUME ~(\E type \in WalletTypes, option \in {0, 2} :
                    CreateAuthorizationURL(type, option))
        PROVE  offer' = offer /\ wanted' = wanted
    BY <1>4, <2>2 DEF AppCall, PopulateIssuerMetadata, CreateAuthorizationURLPanics,
       RequestCredentialWithAuthRefused, RequestCredentialWithAuth, ExchangeFails,
       RequestCredentialWithPreAuthRefused, RequestCredentialWithPreAuth,
       PreAuthTokenFails, CallFails
  <2>3. QED BY <2>1, <2>2
<1>5. QED BY <1>2, <1>3, <1>4 DEF Next, Discarded

(* A call that succeeds returns its responses, of which none is missing.      *)
LEMMA DeliverEffect ==
    ASSUME TypeOK, Deliver
    PROVE  /\ pc = "post" /\ pc' = "idle" /\ outcome'.status = "vcs" /\ outcome'.vcs = VCs
           /\ UNCHANGED <<offer, issuer, wanted, ackIDs, issued>>
           /\ Len(responses) = Len(wanted) /\ DOMAIN responses = DOMAIN wanted
           /\ VCs \in Seq(Nat) /\ Len(VCs) = Len(responses) /\ DOMAIN VCs = DOMAIN responses
           /\ \A i \in DOMAIN responses :
                 responses[i].credential /\ VCs[i] = responses[i].id
<1> USE DEF interactionVars, issuerVars
<1>1. responses \in Seq(Response) /\ wanted \in Seq(Nat) /\ Len(responses) = Len(wanted)
  BY DEF TypeOK, TypeOfCall, TypeOfInteraction, Deliver, AllRequested
<1>2. DOMAIN responses = 1..Len(responses) /\ DOMAIN wanted = 1..Len(wanted)
  BY <1>1
<1>3. VCs \in Seq(Nat)
  BY <1>1, VCsType
<1>4. /\ DOMAIN VCs = DOMAIN responses /\ Len(VCs) = Len(responses)
      /\ \A i \in DOMAIN responses : VCs[i] = responses[i].id
  BY <1>1, <1>2 DEF VCs
<1>5. \A i \in DOMAIN responses : responses[i].credential
  BY Zenon DEF Deliver, Parses
<1> DEFINE result == [status |-> "vcs", vcs |-> VCs]
<1>6. result.status = "vcs" /\ result.vcs = VCs
  OBVIOUS
<1>7. EndCall(result) /\ pc = "post" /\ UNCHANGED <<offer, issuer, wanted, ackIDs, issued>>
  BY DEF Deliver, AllRequested
<1> HIDE DEF result
<1>8. pc' = "idle" /\ outcome' = result
  BY <1>6, <1>7 DEF EndCall
<1>9. QED BY <1>1, <1>2, <1>3, <1>4, <1>5, <1>6, <1>7, <1>8, Zenon

LEMMA DeliveredStep ==
    TypeOK /\ RoundInv /\ DeliveredInv /\ [Next]_vars => DeliveredInv'
<1> SUFFICES ASSUME TypeOK, RoundInv, DeliveredInv, [Next]_vars PROVE DeliveredInv'
  OBVIOUS
<1>1. offer' = offer /\ (offer.kind = "issuer" => wanted' = wanted)
  BY WantedKept
<1>2. offer'.kind = "issuer" => wanted' = OfferedTypes(offer')
  BY <1>1 DEF DeliveredInv
<1>3. IssuedKept
  BY IssuedOnlyGrows
<1>4. CASE Deliver
  <2>1. \A i \in DOMAIN VCs : /\ i \in DOMAIN wanted
                              /\ OfRound(VCs[i], wanted[i], issued, ThisRound)
    BY <1>4, DeliverEffect, Zenon DEF RoundInv
  <2>2. issued' = issued /\ wanted' = wanted /\ outcome'.vcs = VCs
    BY <1>4, DeliverEffect
  <2>3. \A i \in DOMAIN outcome'.vcs :
            \E type : /\ OfRound(outcome'.vcs[i], type, issued', ThisRound)
                      /\ offer'.kind = "issuer" => i \in DOMAIN wanted' /\ type = wanted'[i]
    BY <2>1, <2>2, Zenon
  <2>4. QED BY <1>2, <2>3, Zenon DEF DeliveredInv
<1>5. CASE Delivered' /\ outcome' = outcome
  <2>1. Delivered
    BY <1>5 DEF Delivered
  <2>2. PICK round :
          \A i \in DOMAIN outcome.vcs :
             \E type : /\ OfRound(outcome.vcs[i], type, issued, round)
                       /\ offer.kind = "issuer" => i \in DOMAIN wanted /\ type = wanted[i]
    BY <2>1, Zenon DEF DeliveredInv
  <2>3. ASSUME NEW i \in DOMAIN outcome.vcs
        PROVE  \E type : /\ OfRound(outcome.vcs[i], type, issued', round)
                         /\ offer.kind = "issuer" => i \in DOMAIN wanted' /\ type = wanted'[i]
    <3>1. PICK type : /\ OfRound(outcome.vcs[i], type, issued, round)
                      /\ offer.kind = "issuer" => i \in DOMAIN wanted /\ type = wanted[i]
      BY <2>2
    <3>2. OfRound(outcome.vcs[i], type, issued', round)
      BY <1>3, <3>1, OfRoundKept
    <3>3. QED BY <1>1, <3>1, <3>2
  <2>4. QED BY <1>1, <1>2, <1>5, <2>3, Zenon DEF DeliveredInv
<1>6. CASE ~Delivered'
  BY <1>2, <1>6, Zenon DEF DeliveredInv
<1>7. QED BY <1>4, <1>5, <1>6, DeliveredSteps

LEMMA RoundAndDelivered == Spec => [](TypeOK /\ RoundInv /\ DeliveredInv)
<1>1. Init => RoundInv
  BY DEF Init, RoundInv
<1>2. Init => DeliveredInv
  <2>1. NoOutcome.status # "vcs"
    BY DEF NoOutcome
  <2>2. QED BY <2>1 DEF Init, DeliveredInv, Delivered
<1>3. QED BY <1>1, <1>2, TypeCorrect, RoundStep, DeliveredStep, PTL DEF Spec

(* What a request returns was issued in one round of one call, with one       *)
(* token, also when a retry replaced an earlier round.                        *)
THEOREM ReturnsOneRound == Spec => []DeliveredInOneRound
<1>1. DeliveredInv => DeliveredInOneRound
  <2> SUFFICES ASSUME DeliveredInv, Delivered
               PROVE  /\ \A i \in DOMAIN outcome.vcs : outcome.vcs[i] \in Ids
                      /\ \A i, j \in DOMAIN outcome.vcs :
                            SameRound(issued[outcome.vcs[i]], issued[outcome.vcs[j]])
    BY Zenon DEF DeliveredInOneRound
  <2>1. PICK round : \A i \in DOMAIN outcome.vcs :
                        \E type : OfRound(outcome.vcs[i], type, issued, round)
    BY Zenon DEF DeliveredInv
  <2>2. \A i \in DOMAIN outcome.vcs :
            outcome.vcs[i] \in Ids /\ SameRound(issued[outcome.vcs[i]], round)
    BY <2>1, Zenon DEF OfRound, Ids
  <2>3. QED BY <2>2, Zenon DEF SameRound
<1>2. QED BY <1>1, RoundAndDelivered, PTL

(* The app pairs credentials with the configuration IDs of the offer by their *)
(* place, and each is of the type its configuration was offered for.          *)
THEOREM PairsAreRight == Spec => []PairedWithOfferedConfig
<1>1. TypeOK /\ DeliveredInv => PairedWithOfferedConfig
  <2> SUFFICES ASSUME TypeOK, DeliveredInv, NEW i \in DOMAIN MobileCredentials
               PROVE  TypeOf(MobileCredentials[i].credential)
                        = OfferedTypes(offer)[MobileCredentials[i].configID]
    BY DEF PairedWithOfferedConfig
  <2>1. CASE ~(offer.kind = "issuer" /\ Delivered /\ Len(outcome.vcs) = offer.n)
    <3>1. MobileCredentials = <<>>
      BY <2>1 DEF MobileCredentials, Delivered
    <3>2. QED BY <3>1, EmptySeq
  <2>2. CASE offer.kind = "issuer" /\ Delivered /\ Len(outcome.vcs) = offer.n
    <3>1. outcome.vcs \in Seq(Nat)
      BY DEF TypeOK, TypeOfCall, Outcome
    <3>2. MobileCredentials = [c \in 1..offer.n |-> [credential |-> outcome.vcs[c],
                                                     configID |-> c]]
      BY <2>2 DEF MobileCredentials, Delivered
    <3>3. /\ i \in DOMAIN outcome.vcs
          /\ MobileCredentials[i].credential = outcome.vcs[i]
          /\ MobileCredentials[i].configID = i
      BY <2>2, <3>1, <3>2
    <3>4. PICK round, type : /\ OfRound(outcome.vcs[i], type, issued, round)
                             /\ i \in DOMAIN wanted /\ type = wanted[i]
      BY <2>2, <3>3, Zenon DEF DeliveredInv
    <3>5. TypeOf(outcome.vcs[i]) = type
      BY <3>4 DEF OfRound, TypeOf, Ids
    <3>6. wanted = OfferedTypes(offer)
      BY <2>2 DEF DeliveredInv
    <3>7. QED BY <3>3, <3>4, <3>5, <3>6
  <2>3. QED BY <2>1, <2>2
<1>2. QED BY <1>1, RoundAndDelivered, PTL

-----------------------------------------------------------------------------
(* Acknowledgment IDs.                                                        *)

(* The issuer is who it is.                                                   *)
LEMMA SameIssuer == ASSUME [Next]_vars PROVE issuer' = issuer
<1>1. CASE CallStep
  BY <1>1, CallStepFrame
<1>2. CASE AppCall
  BY <1>2 DEF AppCall, PopulateIssuerMetadata,
     CreateAuthorizationURL, CreateAuthorizationURLPanics,
     RequestCredentialWithAuthRefused, RequestCredentialWithAuth, ExchangeFails,
     RequestCredentialWithPreAuthRefused, RequestCredentialWithPreAuth,
     PreAuthTokenFails, CallFails
<1>3. CASE NonceExpires \/ Discard \/ UNCHANGED vars
  BY <1>3 DEF NonceExpires, Discard, vars
<1>4. QED BY <1>1, <1>2, <1>3 DEF Next, Discarded

LEMMA AckIDKept == ASSUME issuer' = issuer, NEW id PROVE AckIDOf(id)' = AckIDOf(id)
BY Zenon DEF AckIDOf

(* The list ends with the IDs of these credentials.                           *)
AcksEnd(ids, n, credentials) ==
    /\ n <= Len(ids)
    /\ \A i \in 1..n : ids[Len(ids) - n + i] = AckIDOf(credentials[i])

CredentialsOf(rs) == [i \in DOMAIN rs |-> rs[i].id]

(* As long as no response of the round is unusable, the IDs stored last are   *)
(* those of its responses; a batch that is short leaves an unusable one.      *)
AckInv ==
    /\ pc = "post" /\ (\A i \in DOMAIN responses : responses[i].credential) =>
          AcksEnd(ackIDs, Len(responses), CredentialsOf(responses))
    /\ Delivered /\ pc = "idle" => AcksEnd(ackIDs, Len(outcome.vcs), outcome.vcs)

LEMMA OneMoreAck ==
    ASSUME NEW ids \in Seq(Nat), NEW n \in Nat, NEW cs, NEW ds, NEW id \in Nat,
           AcksEnd(ids, n, cs), \A i \in 1..n : ds[i] = cs[i], ds[n + 1] = id
    PROVE  AcksEnd(Append(ids, AckIDOf(id)), n + 1, ds)
<1> DEFINE a == AckIDOf(id)
           new == Append(ids, a)
<1>1. a \in Nat
  BY DEF AckIDOf
<1> HIDE DEF a
<1>2. PICK l \in Nat : l = Len(ids)
  OBVIOUS
<1>3. Len(new) = l + 1 /\ new[l + 1] = a /\ \A i \in 1..l : new[i] = ids[i]
  BY <1>1, <1>2, AppendProperties
<1> HIDE DEF new
<1>4. n <= l /\ \A i \in 1..n : ids[l - n + i] = AckIDOf(cs[i])
  BY <1>2 DEF AcksEnd
<1>5. ASSUME NEW i \in 1..(n + 1) PROVE new[(l + 1) - (n + 1) + i] = AckIDOf(ds[i])
  <2>1. CASE i = n + 1
    <3>1. (l + 1) - (n + 1) + i = l + 1
      BY <2>1, <1>4
    <3>2. QED BY <1>3, <2>1, <3>1 DEF a
  <2>2. CASE i \in 1..n
    <3>1. (l + 1) - (n + 1) + i = l - n + i /\ l - n + i \in 1..l
      BY <1>4, <2>2
    <3>2. new[l - n + i] = AckIDOf(cs[i])
      BY <1>3, <1>4, <2>2, <3>1
    <3>3. QED BY <2>2, <3>1, <3>2
  <2>3. QED BY <2>1, <2>2
<1>6. QED BY <1>3, <1>4, <1>5 DEF AcksEnd, new, a

LEMMA MoreAcks ==
    ASSUME NEW ids \in Seq(Nat), NEW n \in Nat, NEW cs,
           \A i \in 1..n : cs[i] \in Nat
    PROVE  AcksEnd(ids \o [i \in 1..n |-> AckIDOf(cs[i])], n, cs)
<1> DEFINE new == [i \in 1..n |-> AckIDOf(cs[i])]
<1>1. new \in Seq(Nat) /\ Len(new) = n
  <2>1. \A i \in 1..n : AckIDOf(cs[i]) \in Nat
    BY DEF AckIDOf
  <2>2. QED BY <2>1, IsASeq
<1>2. \A i \in 1..n : new[i] = AckIDOf(cs[i])
  OBVIOUS
<1> HIDE DEF new
<1>3. PICK l \in Nat : l = Len(ids)
  OBVIOUS
<1>4. Len(ids \o new) = l + n /\ \A i \in 1..n : (ids \o new)[l + i] = new[i]
  <2>1. PICK s \in Seq(Nat) : s = new /\ Len(s) = n
    BY <1>1
  <2>2. Len(ids \o s) = l + n
    BY <1>3, <2>1, ConcatProperties
  <2>3. ASSUME NEW i \in 1..n PROVE (ids \o s)[l + i] = s[i]
    BY <1>3, <2>1
  <2>4. QED BY <2>1, <2>2, <2>3
<1>5. \A i \in 1..n : (l + n) - n + i = l + i
  BY <1>1, <1>3
<1>6. n <= l + n
  OBVIOUS
<1>7. QED BY <1>2, <1>4, <1>5, <1>6 DEF AcksEnd, new

(* AckInv is inductive.                                                       *)
LEMMA AckStep == TypeOK /\ AckInv /\ [Next]_vars => AckInv'
<1> SUFFICES ASSUME TypeOK, AckInv, [Next]_vars PROVE AckInv'
  OBVIOUS
<1> USE DEF interactionVars, tokenVars, callVars, issuerVars
<1>1. issuer' = issuer /\ ackIDs \in Seq(Nat) /\ responses \in Seq(Response)
      /\ Len(wanted) \in Nat /\ Len(issued) \in Nat
  BY SameIssuer DEF TypeOK, TypeOfInteraction, TypeOfCall, TypeOfIssuer
<1> DEFINE Usable(rs) == \A i \in DOMAIN rs : rs[i].credential
           Kept(ids, n, cs) ==
               /\ n <= Len(ids)
               /\ \A i \in 1..n : ids[Len(ids) - n + i] = AckIDOf(cs[i])
<1>2. pc' = "post" /\ Usable(responses') =>
          Kept(ackIDs', Len(responses'), CredentialsOf(responses'))
  <2> SUFFICES ASSUME pc' = "post", Usable(responses')
               PROVE  Kept(ackIDs', Len(responses'), CredentialsOf(responses'))
    OBVIOUS
  <2>1. CASE CreateClaimsProof
    <3>1. responses' = <<>> /\ ackIDs' = ackIDs
      BY <2>1 DEF CreateClaimsProof, FreshResponses
    <3>2. QED BY <1>1, <3>1
  <2>2. ASSUME NEW usable \in BOOLEAN, PostCredential(usable)
        PROVE  Kept(ackIDs', Len(responses'), CredentialsOf(responses'))
    <3> DEFINE id == Len(issued) + 1
               n  == Len(responses) + 1
    <3>1. /\ DOMAIN responses' = DOMAIN responses \cup {n} /\ Len(responses') = n
          /\ \A i \in DOMAIN responses : responses'[i] = responses[i]
          /\ responses'[n].id = id
          /\ ackIDs' = Append(ackIDs, AckIDOf(id))
      BY <2>2, PostedOne
    <3>2. id \in Nat /\ Len(responses) \in Nat /\ DOMAIN responses = 1..Len(responses)
      BY <1>1
    <3> HIDE DEF id, n
    <3>3. Usable(responses)
      BY <2>2, <3>1
    <3>4. pc = "post"
      BY <2>2 DEF PostCredential, Requesting
    <3>5. AcksEnd(ackIDs, Len(responses), CredentialsOf(responses))
      BY <3>3, <3>4, Zenon DEF AckInv
    <3>6. \A i \in 1..Len(responses) :
              CredentialsOf(responses')[i] = CredentialsOf(responses)[i]
      BY <3>1, <3>2 DEF CredentialsOf
    <3>7. CredentialsOf(responses')[Len(responses) + 1] = id
      BY <3>1 DEF CredentialsOf, n
    <3>8. AcksEnd(ackIDs', Len(responses) + 1, CredentialsOf(responses'))
      BY <1>1, <3>1, <3>2, <3>5, <3>6, <3>7, OneMoreAck
    <3>9. QED BY <3>1, <3>8 DEF AcksEnd, n
  <2>3. ASSUME NEW k \in 0..Len(wanted), NEW usable \in BOOLEAN, PostBatch(k, usable)
        PROVE  Kept(ackIDs', Len(responses'), CredentialsOf(responses'))
    <3>1. /\ k \in Nat /\ Len(wanted) > 1
          /\ DOMAIN responses' = 1..Len(wanted) /\ Len(responses') = Len(wanted)
          /\ \A i \in 1..k : responses'[i].id = Len(issued) + i
          /\ \A i \in 1..Len(wanted) : i > k => ~responses'[i].credential
          /\ ackIDs' = ackIDs \o [i \in 1..k |-> AckIDOf(Len(issued) + i)]
      BY <2>3, PostedBatch
    <3>2. k = Len(wanted)
      <4>1. Len(wanted) > k => ~responses'[Len(wanted)].credential
        BY <1>1, <3>1
      <4>2. responses'[Len(wanted)].credential
        BY <1>1, <3>1
      <4>3. ~(Len(wanted) > k)
        BY <4>1, <4>2, Zenon
      <4>4. QED BY <1>1, <3>1, <4>3
    <3> DEFINE cs == CredentialsOf(responses')
    <3>3. \A i \in 1..k : cs[i] = Len(issued) + i
      BY <3>1, <3>2 DEF CredentialsOf
    <3>4. \A i \in 1..k : cs[i] \in Nat
      BY <1>1, <3>3
    <3> HIDE DEF cs
    <3>5. ackIDs' = ackIDs \o [i \in 1..k |-> AckIDOf(cs[i])]
      BY <3>1, <3>3
    <3>6. AcksEnd(ackIDs', k, cs)
      BY <1>1, <3>1, <3>4, <3>5, MoreAcks
    <3>7. QED BY <3>1, <3>2, <3>6 DEF AcksEnd, cs
  <2>4. CASE RefreshToken \/ NonceExpires \/ UNCHANGED vars
    <3>1. UNCHANGED <<pc, responses, ackIDs>>
      BY <2>4 DEF RefreshToken, NonceExpires, vars
    <3>2. AcksEnd(ackIDs, Len(responses), CredentialsOf(responses))
      BY <3>1, Zenon DEF AckInv
    <3>3. QED BY <3>1, <3>2 DEF AcksEnd
  <2>5. QED BY <2>1, <2>2, <2>3, <2>4, RoundSteps
<1>3. Delivered' /\ pc' = "idle" => Kept(ackIDs', Len(outcome'.vcs), outcome'.vcs)
  <2> SUFFICES ASSUME Delivered', pc' = "idle"
               PROVE  Kept(ackIDs', Len(outcome'.vcs), outcome'.vcs)
    OBVIOUS
  <2>1. CASE Deliver
    <3>1. AcksEnd(ackIDs, Len(responses), CredentialsOf(responses))
      BY <2>1, DeliverEffect, Zenon DEF AckInv
    <3>2. /\ outcome'.vcs = VCs /\ Len(VCs) = Len(responses) /\ ackIDs' = ackIDs
          /\ \A i \in DOMAIN responses : VCs[i] = responses[i].id
      BY <2>1, DeliverEffect
    <3>3. \A i \in 1..Len(responses) : VCs[i] = CredentialsOf(responses)[i]
      BY <1>1, <3>2 DEF CredentialsOf
    <3>4. QED BY <3>1, <3>2, <3>3, Zenon DEF AcksEnd
  <2>2. CASE outcome' = outcome /\ pc = "idle" /\ ackIDs' = ackIDs
    <3>1. Delivered
      BY <2>2 DEF Delivered
    <3>2. AcksEnd(ackIDs, Len(outcome.vcs), outcome.vcs)
      BY <2>2, <3>1, Zenon DEF AckInv
    <3>3. QED BY <2>2, <3>2 DEF AcksEnd
  <2>3. QED BY <2>1, <2>2, DeliveredSteps
<1>4. (pc = "post" /\ Usable(responses) =>
          AcksEnd(ackIDs, Len(responses), CredentialsOf(responses)))'
  BY <1>1, <1>2 DEF AcksEnd, AckIDOf
<1>5. (Delivered /\ pc = "idle" => AcksEnd(ackIDs, Len(outcome.vcs), outcome.vcs))'
  BY <1>1, <1>3 DEF AcksEnd, AckIDOf
<1>6. QED BY <1>4, <1>5 DEF AckInv

(* Right after a successful call the notification IDs of what it returned end *)
(* the list, in the order of the credentials: the IDs of failed calls and     *)
(* replaced rounds stay in front of them.                                     *)
THEOREM AcknowledgmentsEndTheList == Spec => []AcksEndWithDelivered
<1>1. Init => AckInv
  <2>1. NoOutcome.status # "vcs"
    BY DEF NoOutcome
  <2>2. QED BY <2>1 DEF Init, AckInv, Delivered
<1>2. AckInv => AcksEndWithDelivered
  BY Zenon DEF AckInv, AcksEnd, AcksEndWithDelivered
<1>3. QED BY <1>1, <1>2, TypeCorrect, AckStep, PTL DEF Spec

LEMMA ConcatElements ==
    ASSUME NEW s \in Seq(Nat), NEW t \in Seq(Nat)
    PROVE  /\ DOMAIN (s \o t) = 1..(Len(s) + Len(t))
           /\ \A i \in DOMAIN s : i \in DOMAIN (s \o t) /\ (s \o t)[i] = s[i]
           /\ \A j \in 1..Len(t) : /\ Len(s) + j \in DOMAIN (s \o t)
                                  /\ (s \o t)[Len(s) + j] = t[j]
<1>1. /\ Len(s) \in Nat /\ DOMAIN s = 1..Len(s) /\ Len(t) \in Nat
      /\ Len(s \o t) = Len(s) + Len(t) /\ DOMAIN (s \o t) = 1..Len(s \o t)
  BY LenProperties, ConcatProperties
<1>2. \A i \in 1..Len(s) + Len(t) :
          (s \o t)[i] = IF i <= Len(s) THEN s[i] ELSE t[i - Len(s)]
  BY ConcatProperties
<1>3. PICK st : st = s \o t
  OBVIOUS
<1>4. \A i \in DOMAIN s : i \in DOMAIN st /\ st[i] = s[i]
  BY <1>1, <1>2, <1>3
<1>5. \A j \in 1..Len(t) : Len(s) + j \in DOMAIN st /\ st[Len(s) + j] = t[j]
  <2>1. TAKE j \in 1..Len(t)
  <2>2. /\ Len(s) + j \in 1..Len(s) + Len(t) /\ ~(Len(s) + j <= Len(s))
        /\ (Len(s) + j) - Len(s) = j
    BY <1>1
  <2>3. QED BY <1>1, <1>2, <1>3, <2>2
<1>6. QED BY <1>1, <1>3, <1>4, <1>5

(* A step keeps ReceivedCanBeAcknowledged when what it issues and the wallet  *)
(* receives is among what it adds to the list.                                *)
LEMMA ReceivedKept ==
    ASSUME TypeOK, ReceivedCanBeAcknowledged, [Next]_vars, NEW new \in Seq(Nat),
           ackIDs' = ackIDs \o new,
           issuer.ackIDs => \A id \in Len(issued) + 1..Len(issued') :
               issued'[id].received => \E j \in 1..Len(new) : new[j] = id
    PROVE  ReceivedCanBeAcknowledged'
<1>1. /\ issuer' = issuer /\ IssuedKept
      /\ ackIDs \in Seq(Nat) /\ Len(ackIDs) \in Nat /\ Len(new) \in Nat
      /\ Len(issued) \in Nat /\ Len(issued') \in Nat
  BY SameIssuer, IssuedOnlyGrows DEF TypeOK, TypeOfInteraction, TypeOfIssuer, IssuedKept
<1>2. /\ DOMAIN ackIDs' = 1..(Len(ackIDs) + Len(new))
      /\ \A i \in DOMAIN ackIDs : i \in DOMAIN ackIDs' /\ ackIDs'[i] = ackIDs[i]
      /\ \A j \in 1..Len(new) : Len(ackIDs) + j \in DOMAIN ackIDs'
                                /\ ackIDs'[Len(ackIDs) + j] = new[j]
  BY <1>1, ConcatElements
<1> SUFFICES ASSUME issuer.ackIDs, NEW id \in 1..Len(issued'), issued'[id].received
             PROVE  \E i \in DOMAIN ackIDs' : ackIDs'[i] = id
  BY <1>1, Zenon DEF ReceivedCanBeAcknowledged, Ids
<1>3. CASE id \in Ids
  <2>1. issued[id].received
    BY <1>1, <1>3 DEF IssuedKept
  <2>2. PICK i \in DOMAIN ackIDs : ackIDs[i] = id
    BY <1>3, <2>1, Zenon DEF ReceivedCanBeAcknowledged
  <2>3. QED BY <1>2, <2>2
<1>4. CASE id \notin Ids
  <2>1. id \in Len(issued) + 1..Len(issued')
    BY <1>1, <1>4 DEF Ids
  <2>2. PICK j \in 1..Len(new) : new[j] = id
    BY <2>1
  <2>3. QED BY <1>2, <2>2
<1>5. QED BY <1>3, <1>4

LEMMA NotReceived ==
    ASSUME NEW type, NEW answered, ~answered
    PROVE  ~Credential(type, answered).received
<1>1. Credential(type, answered).received = answered
  BY CredentialOfRound
<1>2. QED BY <1>1, Zenon

(* Nothing is added to the list by a step that issues nothing, or only what   *)
(* the wallet does not receive.                                               *)
LEMMA NothingReceived ==
    ASSUME TypeOK, ReceivedCanBeAcknowledged, [Next]_vars, ackIDs' = ackIDs,
           \/ issued' = issued
           \/ \E types \in Seq(Nat) : issued' = issued \o Credentials(types, FALSE)
    PROVE  ReceivedCanBeAcknowledged'
<1>1. ackIDs' = ackIDs \o <<>> /\ <<>> \in Seq(Nat) /\ Len(issued) \in Nat
  BY ConcatEmptySeq DEF TypeOK, TypeOfInteraction, TypeOfIssuer
<1>2. CASE issued' = issued
  <2>1. Len(issued) + 1..Len(issued') = {}
    BY <1>1, <1>2
  <2>2. QED BY <1>1, <2>1, ReceivedKept
<1>3. ASSUME NEW types \in Seq(Nat), issued' = issued \o Credentials(types, FALSE)
      PROVE  ReceivedCanBeAcknowledged'
  <2>1. PICK cs \in Seq(IssuedCredential) : cs = Credentials(types, FALSE)
    BY CredentialsType
  <2>2. /\ Len(issued') = Len(issued) + Len(cs) /\ Len(cs) \in Nat
        /\ \A i \in 1..Len(cs) : issued'[Len(issued) + i] = cs[i]
    <3>1. issued' = issued \o cs
      BY <1>3, <2>1, Zenon
    <3>2. QED BY <3>1, IssuedAppended, LenProperties
  <2>3. \A i \in 1..Len(cs) : ~cs[i].received
    <3>1. cs = [i \in 1..Len(types) |-> Credential(types[i], FALSE)]
      BY <2>1 DEF Credentials
    <3>2. \A i \in 1..Len(cs) : i \in DOMAIN cs
      BY LenProperties
    <3>3. \A i \in 1..Len(cs) : cs[i] = Credential(types[i], FALSE)
      BY <3>1, <3>2, Zenon
    <3>4. \A i \in 1..Len(cs) : ~Credential(types[i], FALSE).received
      BY NotReceived
    <3>5. QED BY <3>3, <3>4, Zenon
  <2>4. ASSUME NEW id \in Len(issued) + 1..Len(issued') PROVE ~issued'[id].received
    <3>1. PICK i \in 1..Len(cs) : id = Len(issued) + i
      <4>1. id - Len(issued) \in 1..Len(cs) /\ id = Len(issued) + (id - Len(issued))
        BY <1>1, <2>2
      <4>2. QED BY <4>1
    <3>2. QED BY <2>2, <2>3, <3>1
  <2>5. QED BY <1>1, <2>4, ReceivedKept
<1>4. QED BY <1>2, <1>3

(* ReceivedCanBeAcknowledged is inductive as it stands.                       *)
LEMMA ReceivedStep ==
    TypeOK /\ ReceivedCanBeAcknowledged /\ [Next]_vars => ReceivedCanBeAcknowledged'
<1> SUFFICES ASSUME TypeOK, ReceivedCanBeAcknowledged, [Next]_vars
             PROVE  ReceivedCanBeAcknowledged'
  OBVIOUS
<1> USE DEF interactionVars, tokenVars, callVars, issuerVars
<1>1. /\ ackIDs \in Seq(Nat) /\ wanted \in Seq(Nat) /\ Len(wanted) \in Nat
      /\ issued \in Seq(IssuedCredential) /\ Len(issued) \in Nat
  BY DEF TypeOK, TypeOfInteraction, TypeOfIssuer
<1>2. CASE AppCall \/ NonceExpires \/ Discard \/ UNCHANGED vars
  <2>1. issued' = issued /\ ackIDs' = ackIDs
    BY <1>2 DEF AppCall, NonceExpires, Discard, vars, PopulateIssuerMetadata,
       CreateAuthorizationURL, CreateAuthorizationURLPanics,
       RequestCredentialWithAuthRefused, RequestCredentialWithAuth, ExchangeFails,
       RequestCredentialWithPreAuthRefused, RequestCredentialWithPreAuth,
       PreAuthTokenFails, CallFails
  <2>2. QED BY <2>1, NothingReceived
<1>3. CASE CreateClaimsProof \/ SigningFails \/ Deliver \/ DeliverWithError \/ ParseFails
           \/ RefreshToken \/ \E n \in NewNonces : PostInvalidProof(n)
  <2>1. issued' = issued /\ ackIDs' = ackIDs
    BY <1>3 DEF CreateClaimsProof, SigningFails, RefreshToken, Deliver, DeliverWithError, ParseFails,
       PostInvalidProof
  <2>2. QED BY <2>1, NothingReceived
<1>4. ASSUME NEW usable \in BOOLEAN, PostCredential(usable)
      PROVE  ReceivedCanBeAcknowledged'
  <2>1. /\ ackIDs' = Append(ackIDs, AckIDOf(Len(issued) + 1))
        /\ Len(issued') = Len(issued) + 1
    BY <1>4, PostedOne
  <2> DEFINE new == <<AckIDOf(Len(issued) + 1)>>
  <2>2. AckIDOf(Len(issued) + 1) \in Nat
    BY <1>1 DEF AckIDOf
  <2>3. new \in Seq(Nat) /\ Len(new) = 1 /\ ackIDs' = ackIDs \o new
    BY <1>1, <2>1, <2>2
  <2>4. issuer.ackIDs => new[1] = Len(issued) + 1
    BY DEF AckIDOf
  <2> HIDE DEF new
  <2>5. issuer.ackIDs => \A id \in Len(issued) + 1..Len(issued') :
            \E j \in 1..Len(new) : new[j] = id
    BY <1>1, <2>1, <2>3, <2>4
  <2>6. QED BY <2>3, <2>5, ReceivedKept
<1>5. ASSUME NEW k \in Nat, NEW n \in {k, k + 1},
             ackIDs' = ackIDs \o [i \in 1..k |-> AckIDOf(Len(issued) + i)],
             Len(issued') = Len(issued) + n,
             n = k + 1 => ~issued'[Len(issued) + n].received
      PROVE  ReceivedCanBeAcknowledged'
  <2> DEFINE new == [i \in 1..k |-> AckIDOf(Len(issued) + i)]
  <2>1. new \in Seq(Nat) /\ Len(new) = k
    <3>1. \A i \in 1..k : AckIDOf(Len(issued) + i) \in Nat
      BY <1>1 DEF AckIDOf
    <3>2. QED BY <3>1, IsASeq
  <2>2. issuer.ackIDs => \A i \in 1..k : new[i] = Len(issued) + i
    BY DEF AckIDOf
  <2>3. ackIDs' = ackIDs \o new
    BY <1>5
  <2> HIDE DEF new
  <2>4. ASSUME issuer.ackIDs, NEW id \in Len(issued) + 1..Len(issued'),
               issued'[id].received
        PROVE  \E j \in 1..Len(new) : new[j] = id
    <3>1. (n = k \/ n = k + 1) /\ Len(issued') = Len(issued) + n
      BY <1>5
    <3>2. PICK l \in Nat : l = Len(issued) /\ id \in l + 1..l + n
      BY <1>1, <3>1
    <3>3. n = k + 1 => id # l + n
      BY <1>5, <2>4, <3>2, Zenon
    <3>4. id - l \in 1..k /\ id = l + (id - l)
      BY <3>1, <3>2, <3>3
    <3>5. QED BY <2>1, <2>2, <2>4, <3>2, <3>4
  <2>5. QED BY <2>1, <2>3, <2>4, ReceivedKept
<1>6. ASSUME NEW k \in 0..Len(wanted), NEW usable \in BOOLEAN, PostBatch(k, usable)
      PROVE  ReceivedCanBeAcknowledged'
  <2>1. /\ ackIDs' = ackIDs \o [i \in 1..k |-> AckIDOf(Len(issued) + i)]
        /\ Len(issued') = Len(issued) + k /\ k \in Nat
    BY <1>6, PostedBatch
  <2>2. k # k + 1 /\ k \in {k, k + 1}
    BY <2>1
  <2>3. QED BY <1>5, <2>1, <2>2, Zenon
<1>7. CASE PostBatchWithoutNonce
  BY <1>1, <1>7, NothingReceived DEF PostBatchWithoutNonce
<1>8. CASE PostBatchOverrun
  <2>1. wanted[1] \in Nat
    BY <1>1, <1>8 DEF PostBatchOverrun, Requesting, TypeOK, TypeOfCall
  <2>2. PICK c \in IssuedCredential : c = Credential(wanted[1], FALSE)
    BY <2>1, CredentialType
  <2>3. PICK b \in Seq(IssuedCredential) : b = Credentials(wanted, TRUE)
    BY <1>1, CredentialsType
  <2>4. Len(b) = Len(wanted)
    <3>1. DOMAIN b = 1..Len(wanted)
      BY <2>3 DEF Credentials
    <3>2. DOMAIN b = 1..Len(b) /\ Len(b) \in Nat
      BY LenProperties
    <3>3. QED BY <1>1, <3>1, <3>2
  <2>5. issued' = (issued \o b) \o <<c>>
    BY <1>8, <2>2, <2>3, Zenon DEF PostBatchOverrun
  <2>6. /\ Len(issued') = Len(issued) + (Len(wanted) + 1)
        /\ issued'[Len(issued) + (Len(wanted) + 1)] = c
    <3>1. PICK a \in Seq(IssuedCredential) : a = issued \o b
      BY <1>1, ConcatProperties
    <3>2. Len(a) = Len(issued) + Len(wanted)
      <4>1. Len(issued \o b) = Len(issued) + Len(b)
        BY <1>1, ConcatProperties
      <4>2. QED BY <2>4, <3>1, <4>1
    <3>3. Len(a \o <<c>>) = Len(a) + 1 /\ (a \o <<c>>)[Len(a) + 1] = c
      OBVIOUS
    <3>4. Len(a) + 1 = Len(issued) + (Len(wanted) + 1)
      BY <1>1, <3>2
    <3>5. QED BY <2>5, <3>1, <3>3, <3>4
  <2>7. ~c.received
    BY <2>2, NotReceived
  <2>8. ackIDs' = ackIDs \o [i \in 1..Len(wanted) |-> AckIDOf(Len(issued) + i)]
    BY <1>8 DEF PostBatchOverrun
  <2>9. QED BY <1>1, <1>5, <2>6, <2>7, <2>8
<1>9. CASE PostFails
  <2>1. Requested \in Seq(Nat) /\ ackIDs' = ackIDs
    BY <1>1, <1>9 DEF PostFails, Requesting, Requested, TypeOK, TypeOfCall
  <2>2. issued' = issued \/ issued' = issued \o Credentials(Requested, FALSE)
    BY <1>9 DEF PostFails
  <2>3. QED BY <2>1, <2>2, NothingReceived
<1>10. QED BY <1>2, <1>3, <1>4, <1>6, <1>7, <1>8, <1>9 DEF Next, CallStep, Discarded

(* What the wallet read of the issuer's answers it can acknowledge, whatever  *)
(* became of the call: IDs are stored as the responses come in, and nothing   *)
(* takes one off the list.                                                    *)
THEOREM WhatWasReceivedCanBeAcknowledged == Spec => []ReceivedCanBeAcknowledged
<1>1. Init => ReceivedCanBeAcknowledged
  BY DEF Init, ReceivedCanBeAcknowledged, Ids
<1>2. QED BY <1>1, TypeCorrect, ReceivedStep, PTL DEF Spec

-----------------------------------------------------------------------------
(* The second round of the authorization code flow.  The invariant: it is     *)
(* made with the nonce of the answer to the first, from the moment that       *)
(* answer came.                                                               *)
AnsweredInv ==
    flow = "auth" /\ ~allowRetry =>
        /\ pc = "prove" => nonce = tokens[token].told
        /\ pc = "post" /\ responses = <<>> => proof.nonce = tokens[token].told

LEMMA AnsweredStep == TypeOK /\ AnsweredInv /\ [Next]_vars => AnsweredInv'
<1> SUFFICES ASSUME TypeOK, AnsweredInv, [Next]_vars,
                    flow' = "auth", ~allowRetry'
             PROVE  AnsweredInv'
  BY DEF AnsweredInv
<1> USE DEF interactionVars, tokenVars, callVars, issuerVars
<1>1. ASSUME NEW f, NEW n, StartCall(f, n) PROVE FALSE
  BY <1>1 DEF StartCall
<1>2. ASSUME NEW result, EndCall(result) PROVE FALSE
  BY <1>2 DEF EndCall
<1>3. ASSUME UNCHANGED <<flow, allowRetry, pc, nonce, token, tokens, responses, proof>>
      PROVE  AnsweredInv'
  BY <1>3, Zenon DEF AnsweredInv
<1>4. CASE AppCall
  <2>1. ASSUME pc = "idle" \/ pc' = "crashed", pc' = pc \/ pc' = "crashed"
        PROVE  AnsweredInv'
    BY <2>1 DEF AnsweredInv
  <2>2. QED BY <1>1, <1>4, <2>1 DEF AppCall, PopulateIssuerMetadata,
     CreateAuthorizationURL, CreateAuthorizationURLPanics, CanCall,
     RequestCredentialWithAuthRefused, RequestCredentialWithAuth, ExchangeFails,
     RequestCredentialWithPreAuthRefused, RequestCredentialWithPreAuth,
     PreAuthTokenFails, CallFails
<1>5. CASE CreateClaimsProof
  <2>1. /\ pc = "prove" /\ pc' = "post" /\ UNCHANGED <<flow, allowRetry, token, tokens>>
        /\ proof'.nonce = nonce
    <3> DEFINE new == [nonce |-> nonce, iss |-> clientID]
    <3>1. new.nonce = nonce
      OBVIOUS
    <3> HIDE DEF new
    <3>2. QED BY <1>5, <3>1 DEF CreateClaimsProof, new
  <2>2. nonce = tokens[token].told
    BY <2>1, Zenon DEF AnsweredInv
  <2>3. QED BY <2>1, <2>2 DEF AnsweredInv
<1>6. CASE SigningFails \/ PostBatchWithoutNonce \/ PostBatchOverrun \/ PostFails
           \/ Deliver \/ DeliverWithError \/ ParseFails
  BY <1>2, <1>6 DEF SigningFails, PostBatchWithoutNonce, PostBatchOverrun, PostFails,
     Deliver, DeliverWithError, ParseFails
<1>7. ASSUME NEW usable \in BOOLEAN, PostCredential(usable) PROVE AnsweredInv'
  <2>1. pc' = "post"
    BY <1>7 DEF PostCredential, Requesting
  <2>2. Len(responses') = Len(responses) + 1 /\ Len(responses) \in Nat
    <3>1. Len(responses') = Len(responses) + 1
      BY <1>7, PostedOne
    <3>2. QED BY <3>1, LenProperties DEF TypeOK, TypeOfCall
  <2>3. responses' # <<>>
    BY <2>2
  <2>4. QED BY <2>1, <2>3 DEF AnsweredInv
<1>8. ASSUME NEW k \in 0..Len(wanted), NEW usable \in BOOLEAN, PostBatch(k, usable)
      PROVE  AnsweredInv'
  <2>1. pc' = "post"
    BY <1>8 DEF PostBatch, Requesting
  <2>2. Len(responses') = Len(wanted) /\ Len(wanted) > 1 /\ Len(wanted) \in Nat
    BY <1>8, PostedBatch
  <2>3. responses' # <<>>
    BY <2>2
  <2>4. QED BY <2>1, <2>3 DEF AnsweredInv
<1>9. ASSUME NEW n \in NewNonces, PostInvalidProof(n) PROVE AnsweredInv'
  <2>1. CASE allowRetry
    <3>1. pc' = "prove" /\ UNCHANGED <<flow, token>> /\ nonce' = RetryNonce(n)
      BY <1>9, <2>1 DEF PostInvalidProof
    <3>2. nonce' = n
      BY <3>1 DEF RetryNonce
    <3>3. tokens'[token].told = n
      <4>1. token \in 1..Len(tokens) /\ tokens \in Seq(Token)
        BY <1>9, RunningToken DEF CallStep, TypeOK, TypeOfIssuer
      <4> DEFINE m == IF n = 0 THEN tokens[token].nonce ELSE n
      <4>2. tokens' = [tokens EXCEPT ![token].told = n, ![token].nonce = m]
        BY <1>9 DEF PostInvalidProof
      <4> HIDE DEF m
      <4>3. QED BY <4>1, <4>2, FieldsOf
    <3>4. QED BY <3>1, <3>2, <3>3 DEF AnsweredInv
  <2>2. CASE ~allowRetry
    BY <1>2, <1>9, <2>2 DEF PostInvalidProof
  <2>3. QED BY <2>1, <2>2
<1>10. CASE NonceExpires
  <2>1. UNCHANGED <<flow, allowRetry, pc, nonce, token, responses, proof>>
    BY <1>10 DEF NonceExpires
  <2>2. tokens'[token].told = tokens[token].told
    <3>1. token \in 1..Len(tokens) /\ tokens \in Seq(Token)
      BY <1>10 DEF NonceExpires, TypeOK, TypeOfCall, TypeOfIssuer, Running
    <3>2. tokens' = [tokens EXCEPT ![token].nonce = Len(nonces) + 1]
      BY <1>10 DEF NonceExpires
    <3>3. QED BY <3>1, <3>2, FieldsOf
  <2>3. QED BY <2>1, <2>2, Zenon DEF AnsweredInv
<1>14. CASE RefreshToken
  <2>1. UNCHANGED <<flow, allowRetry, pc, nonce, token, responses, proof>>
    BY <1>14 DEF RefreshToken
  <2>2. tokens'[token].told = tokens[token].told
    <3>1. token \in 1..Len(tokens) /\ tokens \in Seq(Token)
      BY <1>14 DEF RefreshToken, Requesting, TypeOK, TypeOfCall, TypeOfIssuer, Running
    <3>2. tokens' = [tokens EXCEPT ![token].expired = TRUE]
      BY <1>14 DEF RefreshToken
    <3>3. QED BY <3>1, <3>2, FieldsOf
  <2>3. QED BY <2>1, <2>2, Zenon DEF AnsweredInv
<1>11. CASE Discard
  BY <1>11 DEF Discard, AnsweredInv
<1>12. CASE UNCHANGED vars
  BY <1>3, <1>12 DEF vars
<1>13. QED
  BY <1>4, <1>5, <1>6, <1>7, <1>8, <1>9, <1>10, <1>11, <1>12, <1>14
  DEF Next, CallStep, Discarded

(* The authorization code flow answers invalid_proof with the nonce it was    *)
(* given: getCredentialResponse passes the c_nonce of the error on to the     *)
(* one retry, and nothing replaces it before the proof is made.               *)
THEOREM AuthRetriesUseTheAnsweredNonce == Spec => []AuthRetryUsesAnsweredNonce
<1>1. Init => AnsweredInv
  BY DEF Init, AnsweredInv
<1>2. AnsweredInv => AuthRetryUsesAnsweredNonce
  BY Zenon DEF AnsweredInv, AuthRetryUsesAnsweredNonce
<1>3. QED BY <1>1, <1>2, TypeCorrect, AnsweredStep, PTL DEF Spec

-----------------------------------------------------------------------------
(* Calls are all or nothing: the steps of an interaction are steps of         *)
(* AllOrNothingIssuance, or change nothing it speaks of.                      *)

LEMMA Chooses ==
    ASSUME TypeOK, [Next]_vars, ~Running, ~Running', UNCHANGED <<outcome, issued>>
    PROVE  Promise!Choose
<1>1. wanted' \in Seq(Nat)
  BY StepType DEF TypeOK, TypeOfInteraction
<1>2. outcome.status \in {"none", "vcs", "error", "panic"}
  BY DEF TypeOK, TypeOfCall, Outcome
<1>3. QED BY <1>1, <1>2 DEF Promise!Choose, Promise!Ended, Delivered, TypeOf, Ids

LEMMA Fails ==
    ASSUME ~Running', outcome'.status \in {"error", "panic"}, wanted' = wanted
    PROVE  Promise!Fail
BY DEF Promise!Fail, Delivered

LEMMA StaysWorking ==
    ASSUME Running, Running', wanted' = wanted
    PROVE  UNCHANGED Promise!vars
BY DEF Promise!vars

LEMMA Starts ==
    ASSUME TypeOK, ~Running, Running', wanted' = wanted
    PROVE  Promise!Start
BY DEF Promise!Start, Promise!Ended, TypeOK, TypeOfCall, Outcome

(* The call returns one credential of each wanted type, in their order.       *)
LEMMA Returns ==
    ASSUME TypeOK, RoundInv, Deliver
    PROVE  Promise!Return
<1>1. /\ pc = "post" /\ pc' = "idle" /\ outcome'.status = "vcs" /\ outcome'.vcs = VCs
      /\ wanted' = wanted /\ issued' = issued
      /\ DOMAIN VCs = DOMAIN responses /\ DOMAIN responses = DOMAIN wanted
      /\ \A i \in DOMAIN responses : responses[i].credential /\ VCs[i] = responses[i].id
  BY DeliverEffect
<1>2. \A i \in DOMAIN wanted : TypeOf(VCs[i]) = wanted[i]
  <2> SUFFICES ASSUME NEW i \in DOMAIN wanted PROVE TypeOf(VCs[i]) = wanted[i]
    OBVIOUS
  <2>1. OfRound(VCs[i], wanted[i], issued, ThisRound)
    BY <1>1, Zenon DEF RoundInv
  <2>2. QED BY <2>1 DEF OfRound, TypeOf, Ids
<1>3. [i \in DOMAIN VCs |-> TypeOf(VCs[i])] = wanted
  <2>1. wanted = [i \in DOMAIN wanted |-> wanted[i]]
    BY DEF TypeOK, TypeOfInteraction
  <2>2. QED BY <1>1, <1>2, <2>1
<1>4. ([i \in DOMAIN outcome.vcs |-> TypeOf(outcome.vcs[i])])' = wanted
  <2>1. PICK vcs : vcs = outcome'.vcs /\ vcs = VCs
    BY <1>1
  <2>2. \A i : TypeOf(i)' = TypeOf(i)
    BY <1>1, Zenon DEF TypeOf, Ids
  <2>3. [i \in DOMAIN vcs |-> TypeOf(vcs[i])'] = [i \in DOMAIN vcs |-> TypeOf(vcs[i])]
    BY <2>2
  <2>4. QED BY <1>3, <2>1, <2>3
<1>5. Running /\ ~Running' /\ Delivered'
  BY <1>1 DEF Running, Delivered
<1>6. (IF Delivered /\ ~Running
       THEN [i \in DOMAIN outcome.vcs |-> TypeOf(outcome.vcs[i])] ELSE <<>>)' = wanted
  BY <1>4, <1>5
<1>7. QED BY <1>1, <1>5, <1>6 DEF Promise!Return

LEMMA StepMaps ==
    TypeOK /\ RoundInv /\ [Next]_vars => [Promise!Next]_(Promise!vars)
<1> SUFFICES ASSUME TypeOK, RoundInv, [Next]_vars
             PROVE  Promise!Next \/ UNCHANGED Promise!vars
  OBVIOUS
<1> USE DEF interactionVars, tokenVars, callVars, issuerVars
<1>1. ASSUME NEW result, EndCall(result), result.status \in {"error", "panic"},
             wanted' = wanted
      PROVE  Promise!Next
  <2>1. ~Running' /\ outcome' = result
    BY <1>1 DEF EndCall, Running
  <2>2. QED BY <1>1, <2>1, Fails DEF Promise!Next
<1>2. Failed.status \in {"error", "panic"} /\ Panicked.status \in {"error", "panic"}
  BY DEF Failed, Panicked
<1>3. CASE AppCall
  <2>1. pc = "idle" /\ ~Running
    BY <1>3 DEF AppCall, PopulateIssuerMetadata, CreateAuthorizationURL,
       CreateAuthorizationURLPanics, CanCall, RequestCredentialWithAuthRefused,
       RequestCredentialWithAuth, ExchangeFails, RequestCredentialWithPreAuthRefused,
       RequestCredentialWithPreAuth, PreAuthTokenFails, Running
  <2>2. CASE PopulateIssuerMetadata \/ \E type \in WalletTypes, option \in {0, 2} :
                                           CreateAuthorizationURL(type, option)
    <3>1. UNCHANGED <<pc, outcome, issued>>
      BY <2>2 DEF PopulateIssuerMetadata, CreateAuthorizationURL
    <3>2. ~Running'
      BY <2>1, <3>1 DEF Running
    <3>3. QED BY <2>1, <3>1, <3>2, Chooses DEF Promise!Next
  <2>3. CASE \E option \in {0, 2} : CreateAuthorizationURLPanics(option)
    <3>1. wanted' = wanted /\ outcome' = Panicked /\ pc' = "crashed"
      BY <2>3 DEF CreateAuthorizationURLPanics
    <3>2. ~Running'
      BY <3>1 DEF Running
    <3>3. QED BY <1>2, <3>1, <3>2, Fails DEF Promise!Next
  <2>4. ASSUME CallFails PROVE Promise!Next
    <3>1. wanted' = wanted /\ outcome' = Failed /\ pc' = pc
      BY <2>4 DEF CallFails
    <3>2. ~Running'
      BY <2>1, <3>1 DEF Running
    <3>3. QED BY <1>2, <3>1, <3>2, Fails DEF Promise!Next
  <2>5. ASSUME NEW f, NEW n, StartCall(f, n), wanted' = wanted PROVE Promise!Next
    <3>1. Running'
      BY <2>5 DEF StartCall, Running
    <3>2. QED BY <2>1, <2>5, <3>1, Starts DEF Promise!Next
  <2>6. CASE \E r \in Redirects, n \in NewNonces : RequestCredentialWithAuth(r, n)
    BY <2>5, <2>6 DEF RequestCredentialWithAuth
  <2>7. CASE \E n \in NewNonces : RequestCredentialWithPreAuth(n)
    BY <2>5, <2>7 DEF RequestCredentialWithPreAuth
  <2>8. QED
    BY <1>3, <2>2, <2>3, <2>4, <2>6, <2>7
    DEF AppCall, RequestCredentialWithAuthRefused, ExchangeFails,
        RequestCredentialWithPreAuthRefused, PreAuthTokenFails
<1>4. CASE CallStep
  <2>1. Running /\ wanted' = wanted
    BY <1>4, RunningToken, CallStepFrame
  <2>2. ASSUME Running' PROVE UNCHANGED Promise!vars
    BY <2>1, <2>2, StaysWorking
  <2>3. CASE CreateClaimsProof \/ RefreshToken \/ (\E usable \in BOOLEAN : PostCredential(usable))
             \/ (\E k \in 0..Len(wanted), usable \in BOOLEAN : PostBatch(k, usable))
    <3>1. Running'
      BY <2>1, <2>3 DEF CreateClaimsProof, RefreshToken, PostCredential, PostBatch, Running
    <3>2. QED BY <2>2, <3>1
  <2>4. CASE SigningFails \/ PostBatchWithoutNonce \/ PostBatchOverrun \/ PostFails
             \/ ParseFails
    BY <1>1, <1>2, <2>1, <2>4 DEF SigningFails, PostBatchWithoutNonce, PostBatchOverrun,
       PostFails, ParseFails
  <2>5. CASE DeliverWithError
    <3>1. [status |-> "error", vcs |-> VCs].status \in {"error", "panic"}
      OBVIOUS
    <3>2. QED BY <1>1, <2>1, <2>5, <3>1 DEF DeliverWithError
  <2>6. CASE Deliver
    BY <2>6, Returns DEF Promise!Next
  <2>7. CASE \E n \in NewNonces : PostInvalidProof(n)
    <3>1. pc' = "prove" \/ EndCall(Failed)
      BY <2>7 DEF PostInvalidProof
    <3>2. CASE pc' = "prove"
      BY <2>2, <3>2 DEF Running
    <3>3. QED BY <1>1, <1>2, <2>1, <3>1, <3>2
  <2>8. QED BY <1>4, <2>3, <2>4, <2>5, <2>6, <2>7 DEF CallStep
<1>5. CASE NonceExpires
  <2>1. Running /\ Running' /\ wanted' = wanted
    BY <1>5 DEF NonceExpires, Running
  <2>2. QED BY <2>1, StaysWorking
<1>6. CASE Discard
  <2>1. ~Running /\ ~Running' /\ UNCHANGED <<outcome, issued>>
    BY <1>6 DEF Discard, Running
  <2>2. QED BY <2>1, Chooses DEF Promise!Next
<1>7. CASE UNCHANGED vars
  BY <1>7 DEF vars, Promise!vars, Running, Delivered, TypeOf, Ids
<1>8. QED BY <1>3, <1>4, <1>5, <1>6, <1>7 DEF Next, Discarded

(* A request call returns exactly one credential of each wanted type, in      *)
(* their order, or none at all, whatever the issuer answers and the network   *)
(* loses: Issuance implements AllOrNothingIssuance.                           *)
THEOREM CallsAreAllOrNothing == Spec => KeepsPromise
<1>1. Init => Promise!Init
  <2> SUFFICES ASSUME Init PROVE Promise!Init
    OBVIOUS
  <2>1. wanted \in Seq(Nat)
    BY InitType DEF TypeOK, TypeOfInteraction
  <2>2. ~Running /\ outcome.status = "none"
    BY DEF Init, Running, NoOutcome
  <2>3. QED BY <2>1, <2>2 DEF Promise!Init, Delivered
<1>2. QED
  BY <1>1, StepMaps, RoundAndDelivered, PTL DEF Spec, KeepsPromise, Promise!Spec

-----------------------------------------------------------------------------
(* Tokens of an interaction.  The invariant: each of its two fields holds a   *)
(* token of its own flow; a running call uses the one its flow has just set;  *)
(* and what a call returns was issued with one of the two.                    *)
FlowOf(t) == tokens[t].flow
TokenOf(f) == IF f = "auth" THEN authToken ELSE preAuthToken
TokensInv ==
    /\ authToken # 0 => FlowOf(authToken) = "auth"
    /\ preAuthToken # 0 => FlowOf(preAuthToken) = "pre"
    /\ Running => token = TokenOf(flow)
    /\ Delivered /\ pc = "idle" => \A i \in DOMAIN outcome.vcs :
           /\ outcome.vcs[i] \in Ids
           /\ issued[outcome.vcs[i]].token \in {authToken, preAuthToken} \ {0}

(* TokenKept, read off the fields.                                            *)
LEMMA FlowsKept ==
    ASSUME TypeOK, TokenKept, NEW t \in 0..Len(tokens), t # 0
    PROVE  FlowOf(t)' = FlowOf(t)
BY DEF TokenKept, FlowOf, TypeOK, TypeOfIssuer

(* A granted token request leaves earlier tokens alone.                       *)
LEMMA IssueTokenFlows ==
    ASSUME TypeOK, NEW f, NEW code, NEW n, IssueToken(f, code, n)
    PROVE  /\ \A t \in 1..Len(tokens) : tokens'[t] = tokens[t]
           /\ tokens'[Len(tokens) + 1].flow = f
<1> DEFINE new == [flow |-> f, code |-> code, nonce |-> n, told |-> n, expired |-> FALSE]
<1>1. tokens \in Seq(Token) /\ tokens' = Append(tokens, new)
  BY DEF IssueToken, TypeOK, TypeOfIssuer
<1>2. new.flow = f
  OBVIOUS
<1> HIDE DEF new
<1>3. /\ \A t \in 1..Len(tokens) : tokens'[t] = tokens[t]
      /\ tokens'[Len(tokens) + 1] = new
  BY <1>1
<1>4. QED BY <1>2, <1>3

LEMMA TokensStep ==
    TypeOK /\ RoundInv /\ TokensInv /\ [Next]_vars => TokensInv'
<1> SUFFICES ASSUME TypeOK, RoundInv, TokensInv, [Next]_vars PROVE TokensInv'
  OBVIOUS
<1> USE DEF interactionVars, tokenVars, callVars, issuerVars
<1>1. authToken \in 0..Len(tokens) /\ preAuthToken \in 0..Len(tokens) /\ IssuedKept
      /\ Len(tokens) \in Nat
  BY IssuedOnlyGrows DEF TypeOK, TypeOfInteraction, TypeOfIssuer
<1>2. ASSUME TokenKept, UNCHANGED tokenVars, Running' => Running /\ UNCHANGED <<token, flow>>
      PROVE  /\ authToken' # 0 => FlowOf(authToken)' = "auth"
             /\ preAuthToken' # 0 => FlowOf(preAuthToken)' = "pre"
             /\ Running' => token' = TokenOf(flow)'
  <2>1. /\ authToken # 0 => FlowOf(authToken)' = FlowOf(authToken)
        /\ preAuthToken # 0 => FlowOf(preAuthToken)' = FlowOf(preAuthToken)
    BY <1>1, <1>2, FlowsKept DEF TokenKept, FlowOf, TypeOK, TypeOfIssuer
  <2>2. QED BY <1>2, <2>1 DEF TokensInv, TokenOf
<1>3. ASSUME UNCHANGED tokenVars, UNCHANGED <<outcome, pc>>, Delivered, pc = "idle"
      PROVE  \A i \in DOMAIN outcome'.vcs :
               /\ outcome'.vcs[i] \in Ids'
               /\ issued'[outcome'.vcs[i]].token \in {authToken', preAuthToken'} \ {0}
  <2>1. \A id \in Ids : id \in Ids' /\ issued'[id] = issued[id]
    BY <1>1 DEF IssuedKept, Ids, TypeOK, TypeOfIssuer
  <2>2. QED BY <1>3, <2>1 DEF TokensInv
<1>4. ASSUME TokenKept, UNCHANGED tokenVars, Running' => Running /\ UNCHANGED <<token, flow>>,
             Delivered' /\ pc' = "idle" => Delivered /\ UNCHANGED <<outcome, pc>>
      PROVE  TokensInv'
  BY <1>2, <1>3, <1>4 DEF TokensInv
<1>5. UNCHANGED tokens => TokenKept
  BY DEF TokenKept, TypeOK, TypeOfIssuer
<1>6. CASE AppCall
  <2>1. pc = "idle"
    BY <1>6 DEF AppCall, PopulateIssuerMetadata, CreateAuthorizationURL,
       CreateAuthorizationURLPanics, CanCall, RequestCredentialWithAuthRefused,
       RequestCredentialWithAuth, ExchangeFails, RequestCredentialWithPreAuthRefused,
       RequestCredentialWithPreAuth, PreAuthTokenFails
  <2>2. ~Running /\ Failed.status # "vcs" /\ Panicked.status # "vcs"
    BY <2>1 DEF Running, Failed, Panicked
  <2>3. ASSUME UNCHANGED tokenVars, UNCHANGED tokens,
               \/ UNCHANGED <<outcome, pc>>
               \/ pc' = "crashed"
               \/ outcome' = Failed /\ pc' = pc
        PROVE  TokensInv'
    <3>1. ~Running'
      BY <2>1, <2>3 DEF Running
    <3>2. Delivered' /\ pc' = "idle" => Delivered /\ UNCHANGED <<outcome, pc>>
      BY <2>2, <2>3 DEF Delivered
    <3>3. QED BY <1>4, <1>5, <2>3, <3>1, <3>2
  <2>4. ASSUME NEW r \in Redirects, NEW n \in NewNonces, RequestCredentialWithAuth(r, n)
        PROVE  TokensInv'
    <3>1. /\ authToken' = Len(tokens) + 1 /\ preAuthToken' = preAuthToken
          /\ token' = Len(tokens) + 1 /\ flow' = "auth" /\ pc' = "prove"
          /\ IssueToken("auth", r.code, n)
      BY <2>4 DEF RequestCredentialWithAuth, StartCall
    <3>2. FlowOf(authToken)' = "auth" /\ (preAuthToken' # 0 => FlowOf(preAuthToken)' = "pre")
      BY <1>1, <3>1, IssueTokenFlows DEF TokensInv, FlowOf
    <3>3. QED BY <3>1, <3>2 DEF TokensInv, TokenOf
  <2>5. ASSUME NEW n \in NewNonces, RequestCredentialWithPreAuth(n)
        PROVE  TokensInv'
    <3>1. /\ preAuthToken' = Len(tokens) + 1 /\ authToken' = authToken
          /\ token' = Len(tokens) + 1 /\ flow' = "pre" /\ pc' = "prove"
          /\ IssueToken("pre", 0, n)
      BY <2>5 DEF RequestCredentialWithPreAuth, StartCall
    <3>2. FlowOf(preAuthToken)' = "pre" /\ (authToken' # 0 => FlowOf(authToken)' = "auth")
      BY <1>1, <3>1, IssueTokenFlows DEF TokensInv, FlowOf
    <3>3. QED BY <3>1, <3>2 DEF TokensInv, TokenOf
  <2>6. QED
    BY <1>6, <2>3, <2>4, <2>5 DEF AppCall, PopulateIssuerMetadata, CreateAuthorizationURL,
       CreateAuthorizationURLPanics, RequestCredentialWithAuthRefused, ExchangeFails,
       RequestCredentialWithPreAuthRefused, PreAuthTokenFails, CallFails
<1>7. CASE CallStep
  <2>1. TokenKept /\ UNCHANGED tokenVars /\ (Running' => token' = token) /\ Running
    BY <1>7, CallStepKeeps, CallStepFrame, RunningToken
  <2>2. Running' => flow' = flow
    <3>1. ASSUME NEW result, EndCall(result) PROVE ~Running'
      BY <3>1 DEF EndCall, Running
    <3>2. QED BY <1>7, <3>1 DEF CallStep, CreateClaimsProof, SigningFails, RefreshToken,
       PostCredential, PostBatch, PostBatchWithoutNonce, PostBatchOverrun, PostInvalidProof, PostFails,
       Deliver, DeliverWithError, ParseFails
  <2>3. CASE Deliver
    <3>1. /\ pc = "post" /\ pc' = "idle" /\ outcome'.vcs = VCs /\ issued' = issued
          /\ DOMAIN VCs = DOMAIN responses
          /\ \A i \in DOMAIN responses : responses[i].credential /\ VCs[i] = responses[i].id
      BY <2>3, DeliverEffect
    <3>2. token = TokenOf(flow) /\ token # 0
      BY <2>1 DEF TokensInv, TypeOK, TypeOfCall, TypeOfIssuer
    <3>3. token \in {authToken, preAuthToken} \ {0}
      BY <3>2 DEF TokenOf
    <3>4. ASSUME NEW i \in DOMAIN VCs PROVE VCs[i] \in Ids /\ issued[VCs[i]].token = token
      <4>1. OfRound(VCs[i], wanted[i], issued, ThisRound)
        BY <3>1, Zenon DEF RoundInv
      <4>2. ThisRound.token = token
        BY DEF ThisRound
      <4>3. QED BY <4>1, <4>2 DEF OfRound, SameRound, Ids
    <3>5. \A i \in DOMAIN outcome'.vcs :
             /\ outcome'.vcs[i] \in Ids'
             /\ issued'[outcome'.vcs[i]].token \in {authToken', preAuthToken'} \ {0}
      BY <2>1, <3>1, <3>3, <3>4 DEF Ids
    <3>6. ~Running'
      BY <3>1 DEF Running
    <3>7. QED BY <1>2, <2>1, <3>5, <3>6 DEF TokensInv
  <2>4. CASE ~Deliver
    <3>1. ~(Delivered' /\ pc' = "idle")
      BY <2>1, <2>4, DeliveredSteps DEF Running
    <3>2. QED BY <1>4, <2>1, <2>2, <3>1
  <2>5. QED BY <2>3, <2>4
<1>8. CASE NonceExpires
  <2>1. TokenKept /\ UNCHANGED tokenVars /\ UNCHANGED <<pc, token, flow, outcome>>
    BY <1>8, NonceExpiresKeeps DEF NonceExpires
  <2>2. QED BY <1>4, <2>1 DEF Running, Delivered
<1>9. CASE Discard
  <2>1. UNCHANGED tokenVars /\ UNCHANGED tokens /\ pc' = "discarded"
    BY <1>9 DEF Discard
  <2>2. QED BY <1>4, <1>5, <2>1 DEF Running
<1>10. CASE UNCHANGED vars
  BY <1>4, <1>5, <1>10 DEF vars, Running, Delivered
<1>11. QED BY <1>6, <1>7, <1>8, <1>9, <1>10 DEF Next, Discarded

-----------------------------------------------------------------------------
(* Refreshed tokens.  The invariant: a round has refreshed its access token   *)
(* only if the one of its authorization had expired, and so has every         *)
(* credential issued under a refreshed one.                                   *)
ExpiredIfRefreshed(t, refreshes) ==
    t \in DOMAIN tokens /\ (refreshes # 0 => tokens[t].expired)
RefreshInv ==
    /\ Running => ExpiredIfRefreshed(token, access)
    /\ \A id \in Ids : ExpiredIfRefreshed(issued[id].token, issued[id].access)

(* No step takes a token away or lets an expired one live again.              *)
LEMMA ExpiredKept ==
    ASSUME TypeOK, [Next]_vars, NEW t, NEW refreshes, ExpiredIfRefreshed(t, refreshes)
    PROVE  ExpiredIfRefreshed(t, refreshes)'
<1> USE DEF tokenVars, callVars, issuerVars
<1>1. tokens \in Seq(Token) /\ t \in 1..Len(tokens) /\ DOMAIN tokens = 1..Len(tokens)
  BY DEF ExpiredIfRefreshed, TypeOK, TypeOfIssuer
<1>2. CASE UNCHANGED tokens
  BY <1>2 DEF ExpiredIfRefreshed
<1>3. ASSUME NEW f, NEW code, NEW n, IssueToken(f, code, n)
      PROVE  ExpiredIfRefreshed(t, refreshes)'
  <2>1. tokens'[t] = tokens[t]
    BY <1>1, <1>3, IssueTokenFlows
  <2>2. t \in DOMAIN tokens'
    <3> DEFINE new == [flow |-> f, code |-> code, nonce |-> n, told |-> n,
                       expired |-> FALSE]
    <3>1. tokens' = Append(tokens, new)
      BY <1>3 DEF IssueToken
    <3> HIDE DEF new
    <3>2. QED BY <1>1, <3>1
  <2>3. QED BY <2>1, <2>2 DEF ExpiredIfRefreshed
<1>4. ASSUME tokens' \in Seq(Token), Len(tokens') = Len(tokens),
             tokens'[t].expired = tokens[t].expired
      PROVE  ExpiredIfRefreshed(t, refreshes)'
  BY <1>1, <1>4 DEF ExpiredIfRefreshed
<1>5. TypeOK'
  BY StepType
<1>6. tokens' \in Seq(Token)
  BY <1>5 DEF TypeOK, TypeOfIssuer
<1>7. ASSUME NEW answered \in BOOLEAN, UseNonce(answered)
      PROVE  ExpiredIfRefreshed(t, refreshes)'
  <2>1. CASE UNCHANGED <<nonces, tokens>>
    BY <1>2, <2>1
  <2>2. ASSUME NEW told, NEW n,
               tokens' = [tokens EXCEPT ![token].nonce = n, ![token].told = told]
        PROVE  ExpiredIfRefreshed(t, refreshes)'
    BY <1>1, <1>4, <1>6, <2>2, FieldsOf
  <2>3. QED BY <1>7, <2>1, <2>2 DEF UseNonce
<1>8. ASSUME NEW n \in NewNonces, PostInvalidProof(n)
      PROVE  ExpiredIfRefreshed(t, refreshes)'
  <2> DEFINE m == IF n = 0 THEN tokens[token].nonce ELSE n
  <2>1. tokens' = [tokens EXCEPT ![token].told = n, ![token].nonce = m]
    BY <1>8 DEF PostInvalidProof
  <2> HIDE DEF m
  <2>2. QED BY <1>1, <1>4, <1>6, <2>1, FieldsOf
<1>9. CASE NonceExpires
  <2>1. tokens' = [tokens EXCEPT ![token].nonce = Len(nonces) + 1]
    BY <1>9 DEF NonceExpires
  <2>2. QED BY <1>1, <1>4, <1>6, <2>1, FieldsOf
<1>10. CASE RefreshToken
  <2>1. tokens' = [tokens EXCEPT ![token].expired = TRUE]
    BY <1>10 DEF RefreshToken
  <2>2. /\ Len(tokens') = Len(tokens)
        /\ tokens'[t].expired = (IF t = token THEN TRUE ELSE tokens[t].expired)
    BY <1>1, <2>1, FieldsOf
  <2>3. t \in DOMAIN tokens'
    BY <1>1, <1>6, <2>2
  <2>4. tokens[t].expired => tokens'[t].expired
    BY <2>2
  <2>5. QED BY <2>3, <2>4 DEF ExpiredIfRefreshed
<1>11. CASE AppCall
  BY <1>2, <1>3, <1>11 DEF AppCall, PopulateIssuerMetadata, CreateAuthorizationURL,
     CreateAuthorizationURLPanics, RequestCredentialWithAuthRefused, ExchangeFails,
     RequestCredentialWithAuth, RequestCredentialWithPreAuth,
     RequestCredentialWithPreAuthRefused, PreAuthTokenFails, CallFails
<1>12. CASE CallStep
  <2>1. CASE \/ \E usable \in BOOLEAN : PostCredential(usable)
             \/ \E k \in 0..Len(wanted), usable \in BOOLEAN : PostBatch(k, usable)
             \/ PostBatchWithoutNonce \/ PostBatchOverrun \/ PostFails
    BY <1>2, <1>7, <2>1 DEF PostCredential, PostBatch, PostBatchWithoutNonce,
       PostBatchOverrun, PostFails
  <2>2. CASE CreateClaimsProof \/ SigningFails \/ Deliver \/ DeliverWithError \/ ParseFails
    BY <1>2, <2>2 DEF CreateClaimsProof, SigningFails, Deliver, DeliverWithError, ParseFails
  <2>3. QED BY <1>8, <1>10, <1>12, <2>1, <2>2 DEF CallStep
<1>13. CASE Discard \/ UNCHANGED vars
  BY <1>2, <1>13 DEF Discard, vars
<1>14. QED BY <1>9, <1>11, <1>12, <1>13 DEF Next, Discarded

(* What a step issues is issued under the token of the running round.         *)
NewUnderToken ==
    \A id \in Ids' : id \in Ids \/ /\ Running
                                   /\ issued'[id].token = token
                                   /\ issued'[id].access = access
LEMMA CredentialUnderToken ==
    ASSUME NEW type, NEW answered
    PROVE  Credential(type, answered).token = token /\ Credential(type, answered).access = access
BY Zenon DEF Credential

LEMMA CredentialsUnderToken ==
    ASSUME NEW types \in Seq(Nat), NEW answered, NEW i \in 1..Len(types)
    PROVE  /\ Credentials(types, answered)[i].token = token
           /\ Credentials(types, answered)[i].access = access
<1>1. Credentials(types, answered)[i] = Credential(types[i], answered)
  BY DEF Credentials
<1>2. QED BY <1>1, CredentialUnderToken, Zenon

LEMMA IssuedUnderToken ==
    ASSUME TypeOK, [Next]_vars
    PROVE  NewUnderToken
<1> USE DEF issuerVars
<1>1. ASSUME issued' = issued PROVE NewUnderToken
  BY <1>1 DEF NewUnderToken, Ids
<1>2. ASSUME Running, NEW new \in Seq(IssuedCredential), issued' = issued \o new,
             \A i \in 1..Len(new) : new[i].token = token /\ new[i].access = access
      PROVE  NewUnderToken
  <2>1. /\ Len(issued') = Len(issued) + Len(new)
        /\ \A i \in 1..Len(new) : issued'[Len(issued) + i] = new[i]
    BY <1>2, IssuedAppended
  <2>2. Len(issued) \in Nat /\ Len(new) \in Nat
    BY <1>2 DEF TypeOK, TypeOfIssuer
  <2>3. ASSUME NEW id \in Ids', id \notin Ids
        PROVE  \E i \in 1..Len(new) : id = Len(issued) + i
    <3>1. id - Len(issued) \in 1..Len(new) /\ id = Len(issued) + (id - Len(issued))
      BY <2>1, <2>2, <2>3 DEF Ids
    <3>2. QED BY <3>1
  <2>4. QED BY <1>2, <2>1, <2>3 DEF NewUnderToken
<1>3. wanted \in Seq(Nat)
  BY DEF TypeOK, TypeOfInteraction
<1>4. Requesting => Running
  BY DEF Requesting, Running
<1>5. ASSUME Requesting, NEW types \in Seq(Nat), NEW answered \in BOOLEAN,
             issued' = issued \o Credentials(types, answered)
      PROVE  NewUnderToken
  <2>1. PICK new \in Seq(IssuedCredential) : new = Credentials(types, answered)
    BY CredentialsType
  <2>2. Len(new) = Len(types)
    <3>1. DOMAIN new = 1..Len(types)
      BY <2>1 DEF Credentials
    <3>2. QED BY <2>1, <3>1
  <2>3. \A i \in 1..Len(new) : new[i].token = token /\ new[i].access = access
    BY <2>1, <2>2, CredentialsUnderToken
  <2>4. QED BY <1>2, <1>4, <1>5, <2>1, <2>3
<1>6. ASSUME NEW usable \in BOOLEAN, PostCredential(usable) PROVE NewUnderToken
  <2>1. wanted[Len(responses) + 1] \in Nat
    BY <1>3, <1>6 DEF PostCredential, Requesting, TypeOK, TypeOfCall
  <2>2. PICK c \in IssuedCredential : c = Credential(wanted[Len(responses) + 1], TRUE)
    BY <2>1, CredentialType
  <2>3. issued' = Append(issued, c) /\ Running
    BY <1>4, <1>6, <2>2 DEF PostCredential
  <2>4. c.token = token /\ c.access = access
    BY <2>2, CredentialUnderToken, Zenon
  <2>5. /\ Len(issued') = Len(issued) + 1 /\ issued'[Len(issued) + 1] = c
        /\ Len(issued) \in Nat
    BY <2>3, OneIssued DEF TypeOK, TypeOfIssuer
  <2>6. \A id \in Ids' : id \in Ids \/ id = Len(issued) + 1
    BY <2>5 DEF Ids
  <2>7. QED BY <2>3, <2>4, <2>5, <2>6 DEF NewUnderToken
<1>7. ASSUME NEW k \in 0..Len(wanted), NEW usable \in BOOLEAN, PostBatch(k, usable)
      PROVE  NewUnderToken
  BY <1>3, <1>5, <1>7, SubSeq(wanted, 1, k) \in Seq(Nat) DEF PostBatch
<1>8. CASE PostBatchWithoutNonce
  BY <1>3, <1>5, <1>8 DEF PostBatchWithoutNonce
<1>9. CASE PostBatchOverrun
  <2>1. wanted[1] \in Nat
    BY <1>3, <1>9 DEF PostBatchOverrun, Requesting, TypeOK, TypeOfCall
  <2>2. PICK c \in IssuedCredential : c = Credential(wanted[1], FALSE)
    BY <2>1, CredentialType
  <2>3. PICK b \in Seq(IssuedCredential) : b = Credentials(wanted, TRUE)
    BY <1>3, CredentialsType
  <2>4. PICK a \in Seq(IssuedCredential) : a = issued
    BY DEF TypeOK, TypeOfIssuer
  <2>5. issued' = (a \o b) \o <<c>>
    BY <1>9, <2>2, <2>3, <2>4 DEF PostBatchOverrun
  <2>6. b \o <<c>> \in Seq(IssuedCredential) /\ (a \o b) \o <<c>> = a \o (b \o <<c>>)
    <3>1. <<c>> \in Seq(IssuedCredential)
      OBVIOUS
    <3>2. QED BY <3>1, ConcatProperties, ConcatAssociative
  <2>7. Len(b) = Len(wanted)
    <3>1. DOMAIN b = 1..Len(wanted)
      BY <2>3 DEF Credentials
    <3>2. QED BY <1>3, <3>1
  <2>8. \A i \in 1..Len(b) : b[i].token = token /\ b[i].access = access
    BY <1>3, <2>3, <2>7, CredentialsUnderToken
  <2>9. c.token = token /\ c.access = access
    BY <2>2, CredentialUnderToken, Zenon
  <2>10. \A i \in 1..Len(b \o <<c>>) :
            (b \o <<c>>)[i].token = token /\ (b \o <<c>>)[i].access = access
    <3>1. Len(b \o <<c>>) = Len(b) + 1 /\ Len(b) \in Nat
      OBVIOUS
    <3>2. \A i \in 1..Len(b) : (b \o <<c>>)[i] = b[i]
      OBVIOUS
    <3>3. (b \o <<c>>)[Len(b) + 1] = c
      OBVIOUS
    <3>4. \A i \in 1..Len(b) + 1 : i \in 1..Len(b) \/ i = Len(b) + 1
      BY <3>1
    <3>5. QED BY <2>8, <2>9, <3>1, <3>2, <3>3, <3>4
  <2>11. Running
    BY <1>4, <1>9 DEF PostBatchOverrun
  <2>12. QED BY <1>2, <2>4, <2>5, <2>6, <2>10, <2>11
<1>10. CASE PostFails
  <2>1. CASE issued' = issued
    BY <1>1, <2>1
  <2>2. CASE issued' = issued \o Credentials(Requested, FALSE)
    <3>1. Requested \in Seq(Nat)
      BY <1>3, <1>10 DEF PostFails, Requesting, Requested, TypeOK, TypeOfCall
    <3>2. QED BY <1>5, <1>10, <2>2, <3>1 DEF PostFails
  <2>3. QED BY <1>10, <2>1, <2>2 DEF PostFails
<1>11. CASE AppCall \/ NonceExpires \/ Discard \/ UNCHANGED vars
  BY <1>1, <1>11 DEF AppCall, NonceExpires, Discard, vars, PopulateIssuerMetadata,
     CreateAuthorizationURL, CreateAuthorizationURLPanics,
     RequestCredentialWithAuthRefused, RequestCredentialWithAuth, ExchangeFails,
     RequestCredentialWithPreAuthRefused, RequestCredentialWithPreAuth,
     PreAuthTokenFails, CallFails
<1>12. CASE \/ CreateClaimsProof \/ SigningFails \/ RefreshToken \/ Deliver
            \/ DeliverWithError \/ ParseFails \/ \E n \in NewNonces : PostInvalidProof(n)
  BY <1>1, <1>12 DEF CreateClaimsProof, SigningFails, RefreshToken, Deliver,
     DeliverWithError, ParseFails, PostInvalidProof
<1>13. QED BY <1>6, <1>7, <1>8, <1>9, <1>10, <1>11, <1>12 DEF Next, CallStep, Discarded

LEMMA RefreshStep == TypeOK /\ RefreshInv /\ [Next]_vars => RefreshInv'
<1> SUFFICES ASSUME TypeOK, RefreshInv, [Next]_vars PROVE RefreshInv'
  OBVIOUS
<1> USE DEF tokenVars, callVars, issuerVars
<1>1. ASSUME NEW id \in Ids'
      PROVE  ExpiredIfRefreshed(issued[id].token, issued[id].access)'
  <2>1. PICK t : t = issued'[id].token
    OBVIOUS
  <2>2. PICK a : a = issued'[id].access
    OBVIOUS
  <2>3. ExpiredIfRefreshed(t, a)
    <3>1. CASE id \in Ids
      <4>1. issued'[id] = issued[id]
        BY <3>1, IssuedOnlyGrows DEF IssuedKept
      <4>2. t = issued[id].token /\ a = issued[id].access
        BY <2>1, <2>2, <4>1
      <4>3. QED BY <3>1, <4>2 DEF RefreshInv
    <3>2. CASE id \notin Ids
      <4>1. Running /\ t = token /\ a = access
        BY <1>1, <2>1, <2>2, <3>2, IssuedUnderToken DEF NewUnderToken
      <4>2. QED BY <4>1 DEF RefreshInv
    <3>3. QED BY <3>1, <3>2
  <2>4. ExpiredIfRefreshed(t, a)'
    BY <2>3, ExpiredKept
  <2>5. QED BY <2>1, <2>2, <2>4 DEF ExpiredIfRefreshed
<1>2. ASSUME Running' PROVE ExpiredIfRefreshed(token, access)'
  <2>1. TypeOK'
    BY StepType
  <2>2. token' \in DOMAIN tokens'
    BY <1>2, <2>1 DEF TypeOK, TypeOfCall, TypeOfIssuer
  <2>3. CASE access' = 0
    BY <2>2, <2>3 DEF ExpiredIfRefreshed
  <2>4. CASE RefreshToken
    <3>1. tokens \in Seq(Token) /\ token \in 1..Len(tokens) /\ token' = token
          /\ tokens' = [tokens EXCEPT ![token].expired = TRUE]
      BY <2>4 DEF RefreshToken, Requesting, Running, TypeOK, TypeOfCall, TypeOfIssuer
    <3>2. tokens'[token'].expired
      BY <3>1, FieldsOf
    <3>3. QED BY <2>2, <3>2 DEF ExpiredIfRefreshed
  <2>5. CASE Running /\ UNCHANGED <<token, access>>
    <3>1. PICK t : t = token
      OBVIOUS
    <3>2. PICK a : a = access
      OBVIOUS
    <3>3. ExpiredIfRefreshed(t, a)
      BY <2>5, <3>1, <3>2 DEF RefreshInv
    <3>4. ExpiredIfRefreshed(t, a)'
      BY <3>3, ExpiredKept
    <3>5. QED BY <2>5, <3>1, <3>2, <3>4 DEF ExpiredIfRefreshed
  <2>6. access' = 0 \/ RefreshToken \/ (Running /\ UNCHANGED <<token, access>>)
    <3>1. ASSUME NEW result, EndCall(result) PROVE access' = 0
      BY <3>1 DEF EndCall
    <3>2. CASE CallStep
      BY <1>2, <3>1, <3>2, RunningToken DEF CallStep, CreateClaimsProof, SigningFails,
         PostCredential, PostBatch, PostBatchWithoutNonce, PostBatchOverrun,
         PostInvalidProof, PostFails, Deliver, DeliverWithError, ParseFails
    <3>3. CASE AppCall
      BY <1>2, <3>3 DEF AppCall, PopulateIssuerMetadata, CreateAuthorizationURL,
         CreateAuthorizationURLPanics, RequestCredentialWithAuthRefused, ExchangeFails,
         RequestCredentialWithAuth, RequestCredentialWithPreAuth, StartCall,
         RequestCredentialWithPreAuthRefused, PreAuthTokenFails, CallFails, Running
    <3>4. CASE NonceExpires \/ Discard \/ UNCHANGED vars
      BY <1>2, <3>4 DEF NonceExpires, Discard, vars, Running
    <3>5. QED BY <3>2, <3>3, <3>4 DEF Next, Discarded
  <2>7. QED BY <2>3, <2>4, <2>5, <2>6
<1>3. QED BY <1>1, <1>2 DEF RefreshInv

(* The acknowledgment is sent under the authorization the credentials were    *)
(* issued under, but for those of the authorization code flow once the        *)
(* pre-authorized code was used; and with the access token they were issued   *)
(* with, unless it had expired.                                               *)
THEOREM AcknowledgedWithTheirToken == Spec => []AcknowledgesWithIssuingToken
<1>1. Init => TokensInv /\ RefreshInv
  <2>1. NoOutcome.status # "vcs"
    BY DEF NoOutcome
  <2>2. QED BY <2>1 DEF Init, TokensInv, RefreshInv, Running, Delivered, Ids
<1>2. TypeOK /\ TokensInv /\ RefreshInv => AcknowledgesWithIssuingToken
  <2> SUFFICES ASSUME TypeOK, TokensInv, RefreshInv, Delivered, pc = "idle",
                      NEW i \in DOMAIN outcome.vcs
               PROVE  LET c == issued[outcome.vcs[i]] IN
                        /\ c.token = Acknowledgment.token <=> ~AcknowledgedByAnother(c.token)
                        /\ c.access # Acknowledgment.access => tokens[c.token].expired
    BY DEF AcknowledgesWithIssuingToken
  <2> DEFINE c == issued[outcome.vcs[i]]
  <2>1. PICK used : used = c.token
    OBVIOUS
  <2>2. used \in {authToken, preAuthToken} \ {0} /\ outcome.vcs[i] \in Ids
    BY <2>1 DEF TokensInv
  <2>3. /\ Acknowledgment.token = IF preAuthToken # 0 THEN preAuthToken ELSE authToken
        /\ Acknowledgment.access = 0
    BY DEF Acknowledgment
  <2>6. used = Acknowledgment.token <=> ~AcknowledgedByAnother(used)
    <3>1. CASE preAuthToken = 0
      BY <2>2, <2>3, <3>1 DEF AcknowledgedByAnother
    <3>2. CASE preAuthToken # 0
      <4>1. tokens[preAuthToken].flow = "pre" /\ Acknowledgment.token = preAuthToken
        BY <2>3, <3>2 DEF TokensInv, FlowOf
      <4>2. used # preAuthToken => tokens[used].flow = "auth"
        BY <2>2 DEF TokensInv, FlowOf
      <4>3. QED BY <3>2, <4>1, <4>2 DEF AcknowledgedByAnother
    <3>3. QED BY <3>1, <3>2
  <2>7. c.access # 0 => tokens[used].expired
    BY <2>1, <2>2 DEF RefreshInv, ExpiredIfRefreshed
  <2>8. QED BY <2>1, <2>3, <2>6, <2>7
<1>3. QED
  BY <1>1, <1>2, RoundAndDelivered, TokensStep, RefreshStep, PTL DEF Spec
=============================================================================
