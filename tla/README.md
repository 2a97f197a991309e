# Verification of the wallet SDK

TLA+ models of the Go core of the wallet SDK (`pkg/`) and of the mobile API
over it (`cmd/wallet-sdk-gomobile/`), checked with TLC and proved with TLAPS.
Paths below are relative to the repository root.

## 1. The system

The SDK is a library inside a wallet app. The app creates *interaction*
objects, calls their methods from its own threads, and the methods talk to
issuers, verifiers, DID resolvers and registries over HTTP. Nothing runs in the
background and nothing is persisted by the SDK: what an app wants to keep
(credentials, acknowledgment objects) it serializes itself.

| Component | State it keeps | Operations | Interacts with |
|---|---|---|---|
| OpenID4CI interactions (`pkg/openid4ci/interaction.go`, `issuerinitiated…`, `walletinitiated…`) | issuer metadata, state and PKCE verifier of the last URL, OAuth2 configuration, client ID, tokens of both grants and their nonce, notification IDs | create an authorization URL, request credentials with a code or a pre-authorized code, acknowledgment, registration, metadata, trust info | issuer (metadata, token, credential, batch endpoints), browser, DID and key code, activity log |
| OpenID4CI acknowledgment (`acknowledgment.go`, mobile `openid4ci/acknowledgment.go`) | list of IDs still to acknowledge, token, interaction details | acknowledge, set details, serialize, restore | notification endpoint; made by the interaction |
| Offers and grants (`issuerinitiatedinteraction.go`, `grants.go`) | none after creation | parse or fetch an offer, derive grants and credential parameters | issuer |
| OpenID4VP interaction (`pkg/openid4vp/openid4vp.go`, `request_object.go`) | request object, with a presentation definition all calls share | query, present, present without constraints, presented claims, trust info, display data | verifier, DID resolver, keys, vc-go, activity and metrics logs |
| OpenID4VP acknowledgment | response URI, state, details | refuse, set details, serialize, restore | verifier |
| Legacy in-memory storage (`pkg/memstorage/legacy`) | stores by name; entries with tags; a lock per store and one of the provider | open, close, put, get, delete, batch, query, configuration | JSON-LD document loader (did-go) |
| Credential storage (`pkg/memstorage`, mobile `credential/inmemorydb.go`) | credentials by ID, no lock | add, get, list, remove | inquirer |
| Credential query and submission requirements | none | match credentials with a definition | storage, OpenID4VP, vc-go |
| Credential display (`pkg/credentialschema`, mobile `display`) | none | resolve display data | issuer metadata |
| Attestation (`pkg/attestation`) | session of a handshake | init, complete | attestation service, keys |
| Domain linkage, trust registry, credential status, OAuth2 registration | none | one exchange or one check per call | remote services |
| DIDs, keys, proofs (`pkg/did`, `pkg/localkms`, `pkg/credentialsigner`, `pkg/ldproof`, `pkg/common`) | key map | create, resolve, sign | Tink, did-go, vc-go |
| HTTP (`pkg/internal/httprequest`, `issuermetadata`), errors, loggers | activity list | send and parse; map errors; log | everything |
| Mobile wrappers (`cmd/wallet-sdk-gomobile`) | Go objects behind the mobile API | the same, with mobile types | everything |
| Demo app, tests | – | – | – |

What is hard in this code, by kind:

* **Order of legal calls.** The interaction objects are state machines whose
  methods an app may call in any order and repeatedly: a second authorization
  URL while the first is in a browser, both grants on one object, a call after
  a failed one. Almost every field outlives the call that set it.
* **Partial failure and retry.** A request for several credentials can fail
  half way, and is repeated once when the issuer answers `invalid_proof`;
  issuers see requests whose answers the wallet never reads; loggers fail after
  the effect they were to log.
* **Staleness.** Nonces and tokens expire between calls, redirects come late,
  acknowledgment objects are restored after a crash, store handles outlive
  their store, a shared presentation definition changes under its readers.
* **Threads.** The storage takes locks, and takes them several times for one
  query; the interaction objects and the credential map have none.

The list with lines and the properties aimed at each entry is `hazards` in
`PROJECT.json`.

What makes each component correct:

* OpenID4CI interactions: a request yields one credential of each wanted type
  or none; codes, verifiers, nonces, tokens, types and notification IDs that
  belong together stay together over any sequence of calls; every call returns.
* Acknowledgments: the n-th call is about the n-th credential, whatever fails,
  is saved, restored or lost; success is reported only for what arrived.
* OpenID4VP: what is presented meets the request unless the app asked to skip
  that; holders sign what is theirs; success means accepted and logged.
* Storage: queries return what was stored and miss nothing that stayed;
  batches are atomic; closing a store concerns that store only.
* Offers and metadata: an interaction is made only from an offer whose every
  configuration the issuer publishes, answers from one version of the metadata
  for its whole life, and calls an issuer verified only when its domain lists
  the DID that signed the metadata.
* Display: the i-th display is about the i-th credential, shows what the issuer
  describes and the credential has, and keeps masked values masked.
* Attestation: a call gets its own payload attested for the DID of its own key,
  whatever other calls run on the client.

## 2. Modules

| Module | Models | Checked by |
|---|---|---|
| `Issuance` | an interaction object of either kind, the app's calls, the issuer | `issuance`, `issuance_mixed`, two divergences |
| `AllOrNothingIssuance` | what a request for credentials promises the app | `KeepsPromise` of `issuance_mixed` |
| `IssuerAcknowledgment` | acknowledgment objects, their saved forms, the notification endpoint | `issuer_acknowledgment` |
| `Presentation` | an OpenID4VP interaction, its calls, the verifier | `presentation`, one divergence |
| `VerifierSession` | `Presentation` together with OpenID4VP acknowledgment objects | `presentation` |
| `LegacyStore` | the legacy storage provider and its threads | `legacy_store` |
| `AtomicStores` | what stores promise those who write to them | `KeepsPromise` of `legacy_store` |
| `Outcomes` | nil, an error, a panic as values; case folding | the runs of `Onboarding` |
| `IssuerContact` | offers, grants, metadata, domain linkage: how an interaction is made and what it answers | `onboarding` |
| `CredentialDisplay` | the display algorithms, as operators | the runs of `Onboarding` |
| `Onboarding` | composes `IssuerContact` and `CredentialDisplay`: options object, displays, saved displays | `onboarding`, two divergences |
| `Attestation` | the handshake with the attestation service, overlapping calls | `attestation` |
| `AttestationPromise` | what one attestation call promises | `KeepsPromise` of `attestation` |
| `MC…` | instances for TLC: offers, issuers, requests, credentials, entries | |
| `IssuanceProofs`, `DeliveryProofs` | theorems about `Issuance` | TLAPS |
| `IssuerAcknowledgmentProofs` | theorems about `IssuerAcknowledgment` | TLAPS |
| `PresentationProofs`, `VerifierSessionProofs` | theorems about `Presentation` and `VerifierSession` | TLAPS |
| `LegacyStoreProofs`, `AttestationProofs` | theorems about `LegacyStore` and `Attestation` | TLAPS |
| `OnboardingProofs` | theorems about `Onboarding`, that is of `IssuerContact` and `CredentialDisplay` together | TLAPS |

### Issuance

The state is the fields of `interaction` and `IssuerInitiatedInteraction`
under their own names, the local variables of the running call (`pc`, `flow`,
`token`, `nonce`, `allowRetry`, `proof`, `responses`), what it returned
(`outcome`) and the issuer's memory (`urls`, `exchanges`, `tokens`, `nonces`,
`issued`). Values an issuer or the wallet makes up are numbered in the order of
their creation, which makes "belongs to" an equation between numbers.

One call runs at a time; the objects have no locks and their documentation
tells apps to use one per flow. A call waits for HTTP answers without having
changed anything since it sent the request, so an exchange is one step, whose
answer the issuer (or the network: lost before, lost after it was acted on)
chooses. Between exchanges nonces may expire, redirects of any URL may come
back and, between calls, the app may drop the object. A panic is a state
(`crashed`), reached where the code indexes an empty slice, dereferences a
missing `c_nonce` or gets more batch answers than it asked for.

The credential requests of the authorization code flow go through an OAuth2
client, which replaces an access token past its expiry by itself
(`RefreshToken`). The client lives as long as the round; `authToken` keeps the
expired token, from which a retry and the acknowledgment start. So a token of
the model is an authorization, `access` counts the access tokens of it, and a
credential knows both. The pre-authorized flow sends its token in a header and
refreshes nothing. An issuer whose tokens expire without a refresh token fails
the call, as any other failure of a request does.

A wallet-initiated interaction has no method that returns an acknowledgment,
neither in `pkg` nor in the mobile API, although it collects the IDs; what the
properties say of acknowledgments is about the issuer-initiated kind.

Actions and code: `CreateAuthorizationURL` = `createAuthorizationURL` with
`instantiateCodeVerifier` and `determineIssuerStateToUse`;
`RequestCredentialWithAuth` / `…WithPreAuth` = checks, token request and start
of the call; `CreateClaimsProof`, `PostCredential`, `PostBatch`,
`PostInvalidProof`, `PostFails` = the loop of `getCredentialResponse`,
`getCredentialResponsesBatch` and the deferred retry; `Deliver`,
`DeliverWithError`, `ParseFails` = `getVCsFromCredentialResponses` and the
logging after it.

Runs:

* `issuance` (2 492 000 states): each flow on its own. Authorization code flow
  with one and two offered credentials and the wallet-initiated kind;
  pre-authorized flow with none, one and three credentials; every kind of
  issuer (batch or not, one-time nonces or not, with and without notification
  IDs, without token endpoint). Two URLs and two calls, so that codes,
  verifiers, types and nonces of one authorization can meet those of the other
  and the second call meets what a failed or delivered first one left; three
  nonces are one with the token, one with an answer and one for the retry, and
  one refresh is what tells a round with a refreshed token from one without.
* `issuance_mixed` (1 121 452 states): offers with both grants and the
  wallet-initiated kind, three calls on one object.
  `AcknowledgesWithIssuingToken` is checked here: `Acknowledgment` takes the
  token of the pre-authorized flow whenever there is one
  (`AcknowledgedByAnother`), and the property says that this is the only case
  in which an acknowledgment goes under another authorization, and expiry the
  only one in which it goes with another access token. `KeepsPromise` is
  refinement: the implementation's steps map to `Choose`, `Start`, `Return`,
  `Fail` of `AllOrNothingIssuance` or stutter. `CallsReturn` is checked under
  weak fairness of the steps of a running call (`FairSpec`). That is justified
  by the HTTP client's timeout: a started call waits for nothing but answers,
  which come or time out. Nothing is assumed of the app or of the issuer's
  goodwill.

### IssuerAcknowledgment

Objects made by the interaction or restored from a saved state, each with the
IDs it has left, details and token expiry. A call takes the first ID off the
list *before* it sends; the request may be lost, the answer may be lost, the
process may die in between (`CrashWhileSending`). The OAuth client refuses a
token it knows to be expired. The run has two credentials, two objects, one
saved state, three calls: enough for an object, its restored twin and a call
beyond the end of the list. It allows deadlock, because all objects and calls
of the bounds may be used up.

### Presentation and VerifierSession

A request object goes through the checks and fall-backs of
`parseRequestObject`. Calls are started by several threads and go through
`clear` (one descriptor at a time, only for `PresentCredentialUnsafe`),
`evaluate`, `create`, `send`, `metrics`, `activity`. vc-go's evaluation of a definition is
external: a set of credentials *covers* the definition when every descriptor
has one that meets its constraints, and the credentials that meet some
descriptor are *chosen*. What it reads is shared with the loop of
`PresentCredentialUnsafe`, so a call walks the descriptors one by one
(`evaluate`) and remembers which constraints it found (`asked`) before the
response is made of them; that it reads each descriptor once and in their order
is this model's abstraction of vc-go. A definition that is missing altogether
would be dereferenced as nil; the model starts no call then.

`VerifierSession` adds the acknowledgment objects an app tells the verifier
through that it does not present: `Acknowledgment` makes one, interaction
details are decoded into the map that is already in the object (so keys add up
and JSON null resets them), objects are saved (an empty map is omitted) and
restored, and any number of refusals is sent, of which some are lost. Each
object carries, for the property, the history of what was set on it.

The run `presentation` (1 247 810 states) checks both: credentials of both
formats, of two holders and of none, two descriptors that overlap, eight
request objects in the new and the old layout, two threads. A session has two
presentations, or one and three acts with acknowledgments, or six acts. A third
presentation would only repeat what two show, since calls meet in the shared
constraints alone; details need four acts to be set twice and sent, and six to
be saved and restored in between. Deadlock is allowed for the same reason as
above.

### LegacyStore

Stores are objects; callers hold handles and the provider maps a (lower-cased)
name to one of them. `Batch` locks, looks at all keys, applies one operation
per step and unlocks, so atomicity comes from the locks and not from the model.
`Query` scans once per term under the read lock and then intersects by key;
the entry returned is that of an arbitrary result, as Go's map iteration has
it. A query remembers (for the properties only) the contents the store had
while it ran. The run (508 757 states) has two threads, two keys, two
writing calls and one name in two spellings, under which a second store may be
opened after the first was closed; threads are interchangeable (symmetry). Two
writes are what a query can meet between its two scans, and what one of them
can tear from a batch of three operations. One batch moves an entry and names its new key
twice, one is refused at its last key. The run checks for deadlock, which the
locks could cause.

Towards those who write, the module implements `AtomicStores`, where a writing
call takes effect as a whole and at once. Under the mapping a batch takes
effect when it gets the lock: from then on `Contents` is what the rest of the
batch will leave in the store, or what is there if an empty key will refuse it,
so that the operations of a batch and the unlock after them are stutters.
Closing parts a name from its store and no more: the store that is opened next
under the name is new and empty, and a handle to the old one still works on what
that one holds.

### IssuerContact, CredentialDisplay, Onboarding

`IssuerContact` translates how an interaction is made: the offer by value or by
reference, both grants with required and optional parts, the configurations the
offer names and the parameters taken from each, metadata that is signed or not
and whose signature is checked or not, metrics that fail. An interaction keeps
the metadata it fetched first (`populateIssuerMetadata`); the issuer may
publish others at any time. The questions an app may ask (metadata, supported
credentials, registration, verification, trust info, grants) are one action
each, with a pure reply.

`CredentialDisplay` has the display package as operators on values: the choice
of the configuration for a credential, locales with case folding, claims found
at the top, in nested objects and by JSON path, masks, order. Go walks maps in
any order, so an operation has the set of its possible `results` and the set of
its possible `failures`, an error or a panic; `InOrder` and `Continue` put
operations after each other. A JSON value is the function from the paths within
it to what is there. A text is a sequence of characters of one or two bytes,
because a mask is as long as what it hides has bytes. What an app gets from a
call (`answer`) says how the call failed, if it did.

A mask is a regular expression, and the code hides, wherever it occurs, what
`ReplaceAllString(value, "$1")` makes of the value: every match replaced by its
group, and the text outside the matches kept (`ReplacedByGroups`). `Matches` is
a constant that says what an expression matches in which text and where its
group is, so expressions that match all of a value, parts of it, nothing, or
have no group are all there. `SurelyHidden` is what a mask must hide: the group
of an expression that matches the whole value, all of the value if it matches
nothing, and nothing for an expression that matches parts, whose replacement
need not occur in the value.

`Onboarding` composes the two. One options object serves all display calls (and
`ResolveCredentialV2` writes to it); displays can be serialized, restored and
read, logos and attachments included, whose getters return wrappers around nil
where there is none. The run `onboarding` (167 802 states) has thirteen offers,
sound and broken metadata, two versions of it, and two calls of the app that may each be followed
by saving and restoring. Two calls are what it takes for an interaction made
from one version to answer after the next is published, and for one display
call to meet the options another one left behind; a third multiplies the data
combinations beyond what TLC enumerates in reasonable time and meets no state
variable the second does not.

`request` remembers what a call was given (`given`, the IDs that came with its
credentials) apart from what its options carried (`configIDs`). A display must
fit what was given; `DisplaysFitCredentials` says so of every call that found no
other call's IDs in the options, and `DisplaysFitWhateverCameBefore` of all,
which the code does not keep (section 3).

### Attestation

`GetAttestationVC` opens a session for its payload, signs the session's
challenge with the key it was given, sends the proof and parses the answer, each
exchange with a service that may refuse and a network that loses requests and
answers. Sessions are numbered by the service, which takes each challenge once.
Calls overlap freely: the client keeps nothing between steps but what the call
has on its stack, and that is what the properties are about
(`KeptInClient` in a mutant shows what a field of the client would do). The run
(5 211 states) has two overlapping calls, keys of two DIDs and one without
DID, and two payloads. `FairSpec` is weak fairness of the steps of each
call, again justified by the HTTP timeout.

## 3. What the runs found

Each is a run with `expect: violation`, with the line it contradicts in
`findings`:

* `preauth_retry_nonce`: the retry after `invalid_proof` in the pre-authorized
  flow uses the rejected nonce again.
* `stale_ack_ids`: a retry leaves the IDs of the first round in the list, so
  acknowledgments do not start with the first credential returned.
* `constraints_stay_cleared`: after one `PresentCredentialUnsafe`, however it
  ended, `PresentCredential` validates no constraints.
* `stale_config_ids`: `ResolveCredentialV2` leaves the configuration IDs of its
  credentials in the options of the caller, and a later call with these options
  describes other credentials by them.
* `nested_claims`: a claim in the second of two nested objects is found or not
  depending on Go's map order.

Smaller ones are in the models without a run of their own:

* A query for two tags during writes can return an entry that never had both
  (`legacy/mem.go`, `Query`), though a query is described as meeting all its
  terms.
* Closing an old store handle a second time removes the store opened under its
  name since.
* "All data within the store is deleted" (`legacy/mem.go:355`) is not what
  `Close` does: it forgets the name, and handles still held read and write what
  the store holds. `AtomicStores` promises the latter, so `KeepsPromise` does not
  speak for that comment.
* A batch answer without `c_nonce` panics: `getCredentialResponsesBatch`
  (`issuerinitiatedinteraction.go:540`) dereferences what `models.go:117` has as
  optional.
* The client ID of an authorization URL goes into pre-authorized proofs too
  (`interaction.go`, `createClaimsProof`), and interaction details set for "the
  next" acknowledgment go into all later ones.
* A masked text is as long as the hidden one has bytes, and every occurrence of
  it is masked; an expression that matches nothing masks everything, one without
  groups masks nothing, and a mask too short to be sliced panics. An expression
  that matches parts of the value may hide nothing at all: 123-45-6789 with the
  expression `-(\d{2})-` is to hide 123456789, which does not occur in it. The
  guide speaks of "each individual character to be masked"
  (`cmd/wallet-sdk-gomobile/docs/usage.md:1128`) and not of such expressions.
* Displays of an offer skip types without configuration, so those after them
  move up: "correspond to the offered credential types passed in and are in the
  same order" (`display/resolve.go:86`, `credentialschema.go:72`) holds for the
  types that have one, and a caller cannot tell from the result which these are.
* A configuration without `credential_definition` panics where an offer or the
  supported credentials are read.
* `IssuerTrustInfo` returns the domain of an issuer whose domain does not list
  it, as `VerifyIssuer` does not.
* `ResolveCredentialV2` panics without options.
* `Logo` of an overview without logo and `Attachment` of a claim that has none
  return a wrapper whose getters dereference nil (`display/displaydata.go:180`
  and `:293`). Of `Attachment` its comment says to look at the type first; of
  `Logo` no comment says anything.

One comment says less of the code than is true. "TODO: Fix this issue: the
vpToken always uses the last presentation from the loop above"
(`openid4vp.go:711`) is about a loop that is no longer there:
`SignedByHolders` says that each VP token shows the credential it was made for,
is checked with responses of one and of several tokens, and is proved.

## 4. What is proved

Every safety property the passing runs check is also a theorem, for every value
of the constants. The assumptions are the named ones of the component's module
and nothing else.

`IssuanceProofs` (from `OffersAssumption`, `IssuersAssumption`,
`WalletTypesAssumption`, `BoundsAssumption`):

* `TypeCorrect`: `TypeOK` is inductive. One lemma per action, joined by a case
  split on `Next`; the sequence facts (an append keeps `Seq`, a tail is
  shorter) come from `SequenceTheorems`.
* `CodesSentWithTheirVerifiers`: the invariant adds that the current state and
  verifier are those of *one* URL, the last, and that states of URLs are
  distinct. Only together do they show that a redirect which carries the
  current state carries a code of the URL whose verifier is sent.
* `AuthorizedTypesRequested`: on top of that, every token's code belongs to a
  URL, and while a wallet-initiated call runs the wanted type is that URL's.
* `NoncesAreForTheirTokens`: besides the proof in flight, the nonce of the
  call, the one that came with the token and the one told with `invalid_proof`
  are for the token of the call.
* `RetriesOnce`: counts posts against the wanted types in the first and in the
  second round, since the bound on the sum is not inductive.

`DeliveryProofs` extends it with what depends on the answers:

* `ReturnsOneRound`, `PairsAreRight`: `RoundInv` says that the usable
  responses a call holds were issued in its present round, the i-th for the
  i-th wanted type; `DeliveredInv` keeps that past the return.
* `AcknowledgmentsEndTheList`: `AckInv` says that the end of `ackIDs` is,
  position by position, that of the responses of the round as long as none of
  them is unusable.
* `WhatWasReceivedCanBeAcknowledged`: inductive as it stands.
* `AuthRetriesUseTheAnsweredNonce` (`AnsweredInv`: the second round has the
  nonce of the answer to the first from the moment that came).
* `AcknowledgedWithTheirToken`: `TokensInv` says that each flow keeps a token of
  its own, that a call uses that of its flow, and that what it returns was issued
  under one of the two; `RefreshInv`, that a round, and any credential of it, has
  a refreshed access token only if the one of its authorization had expired.
* `CallsAreAllOrNothing`: `Issuance` implements `AllOrNothingIssuance`.

`IssuerAcknowledgmentProofs` (from `DetailsAssumption` and
`AckBoundsAssumption`):

* `RestoredAcknowledgmentsDoNotRepeat`: `IDInv` says that lists increase, that
  every object and every saved state is past the IDs its calls took, and that a
  restored object only has IDs of its saved state.
* `ExpiredTokensAreNotSent`: `ExpiryInv`, objects and saved states know when
  the token expires. `SuccessMeansNotified` is inductive.
* `CallsFollowTheList`: `ListInv` counts. What an object has left is its
  handed-out list from the number of its calls on, and each call took the
  element at its own count; a result that is added changes no earlier count.
* `TypeCorrect`: every ID in a list, a saved state, a notification or a result
  is one the interaction stored.

`PresentationProofs` (from `HolderAssumption`, `DescriptorsAssumption` and
`RequestsAssumption`). Two facts carry the proofs: a step of a call changes no
other call, and a call's response changes only where it is made
(`CallStepEffect`).

* `TypeCorrect`: inductive.
* `VerifierGetsWhatItAskedFor`: `AskedInv` says that the definition is whole
  until a `PresentCredentialUnsafe` call begins, because only such calls are
  ever at the loop that removes constraints; and, while a call walks the
  descriptors, that it has found every constraint still there of those it has
  passed (`ReadSoFar`), since constraints only go. So a response is matched with
  at least what is left when it is made, and with all of the request if no
  unsafe call has begun. `ChosenCovers` carries the match from the credentials
  given to those shown.
* `HoldersSign`, `FormatsSuitVerifiers`: responses are right when they are
  made, and the request does not change under them (`SignedInv`, `FormatInv`).
* `SuccessIsAcceptedAndLogged`: `LoggedInv` follows the calls past the POST.
* `AnswersToQueriesAreTaken`: constraints only ever go, so what a query named
  includes what is still asked (`QueryInv`).

`VerifierSessionProofs` (also from `SessionAssumption`):

* `SessionsPresent`: a session is a behaviour of `Presentation`, so all of the
  above holds in sessions, where the run checks it.
* `DetailsAmountToHistory`: what an object tells is what its history amounts
  to. The value "set last" is a `CHOOSE`; that the place exists is carried
  along as part of the invariant (`SetSomewhere`), since finding it in a finite
  history would take an induction.

`LegacyStoreProofs` (from the assumptions on names, expressions, batches and
bounds): `LocksAreHeldByOne` (types, and a writer excludes everyone),
`QueriesInventNothing`, `QueriesMissNothing`, `OneTagQueriesAreSnapshots` and
`WritesAreAtomic`.
The invariant `ResultsOK` says that each result of a running query is the scan
for its term of what the store held at *some* time since the query began. One
term gives one time, hence the snapshot; several give several, hence the query
noted in section 3. `WritesAreAtomic` is the refinement to `AtomicStores`, step by
step. It needs that at most one thread is in a batch on a store (part of
`LocksAreHeldByOne`), and that applying the first operation of a batch does not
change what the batch leaves (`AfterFirst`), which follows from the place of the
last operation on each key and not by induction over the batch.

`AttestationProofs` (from `DIDPartAssumption` and
`AttestationBoundAssumption`): `IInv` is types, sessions that belong to one
call, distinct for distinct calls, and grants that match their session. From it
follow `AttestationsAreTheirs` and, step by step under the mapping of calls to
their results, `CallsKeepTheirPromise`, the refinement to `AttestationPromise`.

`OnboardingProofs` (from `OutcomesAssumption`; `ContactBoundsAssumption`,
`GrantsAssumption`, `OffersAssumption`, `MetadataAssumption` and
`DIDDocsAssumption` of `IssuerContact`; `SettingsAssumption`,
`DescriptionsAssumption` and `CredentialsAssumption` of `Onboarding`). The
assumptions give the data the shape Go's types and parsers give it: slices are
lists, a credential is a finite JSON value with an object as subject, claim
names and masks are of the kinds the code tells apart. Which metadata is signed,
complete or matches which credential stays open. The invariant has four parts,
each on top of those before it:

* `ToldInv`: the interaction is told of no version before it holds one, and of
  no other then. Hence `AnswersAreOfOneVersion`; the bound of one version is not
  inductive by itself, since nothing in it ties `told` to the metadata held.
* `MadeInv`: the offer was sound when the interaction was made, and the metadata
  it was judged by is still the one it holds. Hence `OffersAreSound`, of both
  grants: their parameters have their types, and the PIN and the issuer state
  are there exactly where the offer has them.
* `HeldInv`: metadata held is metadata as fetched. If it names a key, that is
  the key that signed it, of a DID whose document exists. Hence, with the two
  ends of the link checked in `VerifyStep`, `VerifiedDomainsAreTheIssuers`.
* `ShownInv`: the data the app holds, and the data its saved form *would*
  restore to, fit the credentials or the offer asked for; the options object
  holds no IDs but those of one list of credentials, and a call that was given
  IDs goes by these and no others. It says of every claim that
  its value is in its credential (`ValuesAreTexts`), that its labels are of one
  configuration with those of the other claims, and that its masked value was
  made with a masking string of the app or the default one.
  `DisplaysAreOfTheirCredentials`, `PlainClaimsAreShown` and
  `MaskedClaimsStayHidden` follow.

Below these are lemmas on the operators. `InOrderResults` and `InOrderFailures`
say that a sequence of operations returns what each returned, or fails as one
did; `TopIsFound`, that a claim at the top of the subject is found in every
order of the walk; `Ranks` and `ElementsInOrder`, that the elements a list keeps
stay in their order, which places the displays of an offer; `RoundTrip`, that saved data is restored as it
was, which is what masked values that are empty need. For masks, `ReplacedIsThere`
says that what an expression surely hides is a part of the value (an interval,
by `ElementsOfInterval`), `ReplacedHides` bounds what is visible after every
occurrence of it was replaced from left to right, and `AtIsJSON` and `RawIsText` that a value printed is a
text at all. The operators on texts are recursive functions, so each such proof
first shows that the function exists (`RecursionHasSolution`), and then takes
the least argument at which the claim fails: `LeastNatural` stands in for
induction.

`CrashesAreExplained` is over steps: where the answer becomes a panic, the excuse
of *that* call holds then (a mask too short is none for reading an issuer), and
no step leads on from a panic.

Only model-checked:

* Liveness, `CallsReturn` of `Issuance` and of `Attestation`: fairness and
  `ENABLED` are outside what the prover does.
* That a run finds each divergence of section 3: a counterexample is one
  behaviour, which TLC shows.

## 5. What is not modelled

`components` in `PROJECT.json` lists every part. Cryptography, JSON, JSON-LD,
vc-go's matching, DID methods and Tink are taken as external and appear only
through what the wallet does with their result.

* Credential storage, key map, reads of the activity log: single operations on
  one map or list. Concurrent use is undefined in Go and promised nowhere, so a
  model could only restate the map.
* Credential query, submission requirements, proofs, credential status, trust
  registry, OAuth2 registration, DID creation and resolution: stateless, one
  call into a library or one exchange each.
* Client configuration, data types, document loader, error codes and wording,
  telemetry: data without behaviour of their own.
* OpenID4VP: attestation VPs and presentation details, which travel with a
  response, and the read-only getters.
* Legacy storage: store configurations, the validation of keys and tags, and
  the iterator over a query that has ended.
* Concurrent use of an issuance interaction or of one acknowledgment object:
  they hold no locks and promise nothing.
* The demo application and the tests.

## 6. What could follow

* A way to clear the configuration IDs in the options, or IDs that travel with
  the credentials: `DisplaysFitWhateverCameBefore` would then be a theorem.
* A third call in `onboarding`, with the display data split from the contact
  with the issuer, for a longer life of one options object.
* The verifier side of domain linkage (`TrustInfo`), next to `VerifierSession`;
  it makes the calls `IssuerContact` has.
* Queries in `AtomicStores`: a query for one tag as a reading call that takes
  effect at once, for which the snapshot theorem is the main step.
