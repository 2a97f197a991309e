---------------------------- MODULE Presentation ----------------------------
(***************************************************************************)
(* Presenting credentials to a verifier (pkg/openid4vp): one interaction,  *)
(* made from one request object, on which the app calls GetQuery,          *)
(* PresentCredential and PresentCredentialUnsafe, from Threads threads.    *)
(*                                                                         *)
(* The presentation definition lives in the request object and is shared   *)
(* by all calls; PresentCredentialUnsafe removes the constraints of its    *)
(* input descriptors there, one after the other, while other calls read    *)
(* them one after the other.  What vc-go makes of the descriptors it reads *)
(* (CreateVP, CreateVPArray) is modelled as Covers and Chosen.             *)
(***************************************************************************)
EXTENDS Naturals, Sequences, FiniteSets

CONSTANTS
    Credentials,     \* the credentials of the wallet
    DIDs,            \* the DIDs of their holders
    Holder,          \* the subject DID of a credential, "" when it has none
    JWTCredentials,  \* those that are JWTs
    NumDescriptors,  \* how many input descriptors the definition has
    Satisfying,      \* the credentials that meet a descriptor's constraints
    RequestObjects,  \* the request objects verifiers send
    ClientIDs,       \* the client_id an authorization request may carry
    Threads,         \* bound: calls in progress at a time
    MaxCalls         \* bound: calls made on the interaction

Descriptors == 1..NumDescriptors
URIs == {"", "https://verifier", "https://other"}
Formats == {"none", "jwt_vp", "ldp_vp"}

(* A request object: what OID4VP puts at its top level, and the places where *)
(* older verifiers put the same.  "formats" is vp_formats, "none" when it is  *)
(* absent; "ldp_vp" when it lists ldp_vp.                                     *)
RequestObject ==
    [scheme : {"", "did", "redirect_uri", "x509"}, issuer : BOOLEAN, proof : BOOLEAN,
     response_uri : URIs, redirect_uri : URIs,
     definition : BOOLEAN, claims_definition : BOOLEAN,
     formats : Formats, registration_formats : Formats,
     id_token : BOOLEAN]

ASSUME HolderAssumption == Holder \in [Credentials -> DIDs \cup {""}] /\ "" \notin DIDs
ASSUME CredentialsAssumption == IsFiniteSet(Credentials) /\ JWTCredentials \subseteq Credentials
ASSUME DescriptorsAssumption ==
    /\ NumDescriptors \in Nat \ {0}
    /\ Satisfying \in [Descriptors -> SUBSET Credentials]
ASSUME RequestsAssumption == RequestObjects \subseteq RequestObject /\ ClientIDs \subseteq URIs
ASSUME PresentationBoundsAssumption == Threads \in Nat /\ MaxCalls \in Nat

VARIABLES
    sent,        \* the request object as the verifier sent it
    request,     \* the interaction's requestObject, or NoRequest
    constrained, \* the descriptors of its definition that have Constraints
    query,       \* the constrained descriptors of the last GetQuery, or NoQuery
    calls,       \* every PresentCredential(Unsafe) call, in their order
    verifier,    \* what arrived at the response URI
    activities   \* the calls the activity log names

vars == <<sent, request, constrained, query, calls, verifier, activities>>

NoRequest == [made |-> FALSE]
NoQuery == {0}
NoResponse == [made |-> FALSE]

Init ==
    /\ sent \in RequestObjects
    /\ request = NoRequest /\ constrained = {} /\ query = NoQuery
    /\ calls = <<>> /\ verifier = <<>> /\ activities = {}

-----------------------------------------------------------------------------
(* Making the interaction.                                                    *)

(* The client_id of the authorization request is compared with response_uri   *)
(* before redirect_uri can stand in for it.                                   *)
matchClientIDAndResponseURI(clientID, r) == clientID = r.response_uri

Accepted(clientID, r) ==
    \/ r.scheme \in {"", "did"} /\ r.issuer /\ r.proof
    \/ r.scheme = "redirect_uri" /\ matchClientIDAndResponseURI(clientID, r)

(* The fields the interaction goes on with.                                   *)
Filled(r) ==
    [made |-> TRUE, id_token |-> r.id_token,
     response_uri |-> IF r.response_uri = "" THEN r.redirect_uri ELSE r.response_uri,
     definition |-> r.definition \/ r.claims_definition,
     formats |-> IF r.formats = "none" THEN r.registration_formats ELSE r.formats]

NewInteraction ==
    /\ request = NoRequest
    /\ \E clientID \in ClientIDs : Accepted(clientID, sent)
    /\ request' = Filled(sent) /\ constrained' = Descriptors
    /\ UNCHANGED <<sent, query, calls, verifier, activities>>

(* The app asks what to present; it gets the definition as it is by now.      *)
GetQuery ==
    /\ request # NoRequest
    /\ query' = constrained
    /\ UNCHANGED <<sent, request, constrained, calls, verifier, activities>>

-----------------------------------------------------------------------------
(* The definition and the credentials it takes.                               *)

Meets(asked, d, c) == d \in asked => c \in Satisfying[d]
Covers(asked, C) == \A d \in Descriptors : \E c \in C : Meets(asked, d, c)
Chosen(asked, C) == {c \in C : \E d \in Descriptors : Meets(asked, d, c)}

(* A JWT credential cannot go into an ldp_vp; the formats of all credentials  *)
(* of the call count, chosen or not.                                          *)
FormatOfVerifier(C) == IF request.formats = "ldp_vp" THEN "ldp_vp" ELSE "jwt_vp"
Format(C) ==
    IF request.formats = "ldp_vp" /\ C \cap JWTCredentials = {} THEN "ldp_vp" ELSE "jwt_vp"

(* The VP tokens, one for each presentation, that is for each credential in   *)
(* chosen: the credential that it shows and the DID that signs it.            *)
TokensOfTheLast(chosen) ==
    {[c \in chosen |-> [vp |-> last, iss |-> Holder[c]]] : last \in chosen}
Tokens(chosen) == {[c \in chosen |-> [vp |-> c, iss |-> Holder[c]]]}

(* The DID that signs the ID token: one of the signers, picked at random.     *)
IDTokenSigners(tokens) ==
    IF request.id_token THEN {tokens[c].iss : c \in DOMAIN tokens} ELSE {""}

-----------------------------------------------------------------------------
(* The calls.                                                                 *)

InProgress == {i \in DOMAIN calls : calls[i].pc \notin {"ok", "error"}}

NewCall(op, C, pc) ==
    [op |-> op, credentials |-> C, pc |-> pc, next |-> 1, asked |-> {},
     response |-> NoResponse]

(* Without a definition in either place the call would dereference nil.       *)
Start(op, C, pc) ==
    /\ request # NoRequest /\ request.definition
    /\ Len(calls) < MaxCalls /\ Cardinality(InProgress) < Threads
    /\ calls' = Append(calls, NewCall(op, C, pc))
    /\ UNCHANGED <<sent, request, constrained, query, verifier, activities>>

PresentCredential(C) == Start("PresentCredential", C, "evaluate")
PresentCredentialUnsafe(c) == Start("PresentCredentialUnsafe", {c}, "clear")

(* A call walks the descriptors, a descriptor at a time, and goes on.         *)
Advanced(call, walking, done) ==
    IF call.next + 1 \in Descriptors
    THEN [call EXCEPT !.next = @ + 1, !.pc = walking]
    ELSE [call EXCEPT !.next = 1, !.pc = done]

(* The loop that sets Constraints to nil.                                     *)
ClearPastTheEnd(i) ==
    /\ calls[i].pc = "clear"
    /\ constrained' = constrained \ {calls[i].next}
    /\ calls' = [calls EXCEPT
                   ![i].next = IF calls[i].next \in Descriptors THEN @ + 1 ELSE 1,
                   ![i].pc = IF calls[i].next \in Descriptors THEN "clear" ELSE "evaluate"]
    /\ UNCHANGED <<sent, request, query, verifier, activities>>
ClearConstraints(i) ==
    /\ calls[i].pc = "clear"
    /\ constrained' = constrained \ {calls[i].next}
    /\ calls' = [calls EXCEPT ![i] = Advanced(@, "clear", "evaluate")]
    /\ UNCHANGED <<sent, request, query, verifier, activities>>

(* vc-go walks the descriptors, too, and filters the credentials by the       *)
(* constraints that it finds: not all at a time.                              *)
Evaluate(i) ==
    /\ calls[i].pc = "evaluate"
    /\ LET read == [calls[i] EXCEPT !.asked = @ \cup ({calls[i].next} \cap constrained)]
       IN  calls' = [calls EXCEPT ![i] = Advanced(read, "evaluate", "create")]
    /\ UNCHANGED <<sent, request, constrained, query, verifier, activities>>

UnsafeBegun == \E i \in DOMAIN calls : calls[i].op = "PresentCredentialUnsafe"

(* createAuthorizedResponse: the definition as it was read must be covered by *)
(* the given credentials, and the holders of those it takes must be able to   *)
(* sign.  The response remembers, for the properties, which constraints the   *)
(* definition has by then and whether a call that removes them had begun.     *)
MadeResponse(i) ==
    /\ calls[i].pc = "create"
    /\ Covers(calls[i].asked, calls[i].credentials)
    /\ \E tokens \in Tokens(Chosen(calls[i].asked, calls[i].credentials)) :
       \E signer \in IDTokenSigners(tokens) :
         /\ \A c \in DOMAIN tokens : tokens[c].iss # ""
         /\ calls' = [calls EXCEPT ![i].pc = "send", ![i].response =
                        [made |-> TRUE, tokens |-> tokens, id_token |-> signer,
                         format |-> Format(calls[i].credentials),
                         left |-> constrained, unsafe |-> UnsafeBegun]]
CreateAndRestore(i) ==
    /\ MadeResponse(i)
    /\ constrained' = Descriptors
    /\ UNCHANGED <<sent, request, query, verifier, activities>>
CreateResponse(i) ==
    /\ MadeResponse(i)
    /\ UNCHANGED <<sent, request, constrained, query, verifier, activities>>

(* No credentials, a descriptor none of them meets, a holder DID that is      *)
(* missing or cannot be resolved now, a signer that fails: the call returns.  *)
RestoreConstraints(i) ==
    /\ calls[i].pc = "create"
    /\ calls' = [calls EXCEPT ![i].pc = "error"]
    /\ constrained' = Descriptors
    /\ UNCHANGED <<sent, request, query, verifier, activities>>
CreateFails(i) ==
    /\ calls[i].pc = "create"
    /\ calls' = [calls EXCEPT ![i].pc = "error"]
    /\ UNCHANGED <<sent, request, constrained, query, verifier, activities>>

(* The POST: it may not arrive, the verifier may reject it, its answer may    *)
(* get lost, and the metrics logger may fail after it.                        *)
AfterAnyAnswer(accepted, read) == IF read THEN "metrics" ELSE "error"
AfterAnswer(accepted, read) == IF accepted /\ read THEN "metrics" ELSE "error"

sendAuthorizedResponse(i) ==
    /\ calls[i].pc = "send"
    /\ \E received, accepted, read \in BOOLEAN :
         /\ (accepted \/ read) => received
         /\ received => request.response_uri # ""
         /\ verifier' = IF received
                        THEN Append(verifier, [call |-> i, accepted |-> accepted])
                        ELSE verifier
         /\ calls' = [calls EXCEPT ![i].pc = AfterAnswer(accepted, read)]
    /\ UNCHANGED <<sent, request, constrained, query, activities>>

LogMetrics(i) ==
    /\ calls[i].pc = "metrics"
    /\ \E next \in {"activity", "error"} : calls' = [calls EXCEPT ![i].pc = next]
    /\ UNCHANGED <<sent, request, constrained, query, verifier, activities>>

(* The activity is the last thing: what the logger returns, the call returns. *)
LogActivity(i) ==
    /\ calls[i].pc = "activity"
    /\ \/ /\ activities' = activities \cup {i}
          /\ calls' = [calls EXCEPT ![i].pc = "ok"]
       \/ /\ activities' = activities
          /\ calls' = [calls EXCEPT ![i].pc = "error"]
    /\ UNCHANGED <<sent, request, constrained, query, verifier>>

CallStep(i) ==
    \/ ClearConstraints(i) \/ Evaluate(i) \/ CreateResponse(i) \/ CreateFails(i)
    \/ sendAuthorizedResponse(i) \/ LogMetrics(i) \/ LogActivity(i)

Next ==
    \/ NewInteraction
    \/ GetQuery
    \/ \E C \in SUBSET Credentials : PresentCredential(C)
    \/ \E c \in Credentials : PresentCredentialUnsafe(c)
    \/ \E i \in DOMAIN calls : CallStep(i)

Spec == Init /\ [][Next]_vars

-----------------------------------------------------------------------------
(* Properties.                                                                *)

Request == [made : {TRUE}, formats : Formats, id_token : BOOLEAN,
            response_uri : URIs, definition : BOOLEAN]
Token == [vp : Credentials, iss : DIDs]
TokensOfType == UNION {[C -> Token] : C \in (SUBSET Credentials) \ {{}}}
Response == [made : {TRUE}, tokens : TokensOfType, id_token : DIDs \cup {""},
             format : {"jwt_vp", "ldp_vp"}, left : SUBSET Descriptors, unsafe : BOOLEAN]
Call == [op : {"PresentCredential", "PresentCredentialUnsafe"},
         credentials : SUBSET Credentials,
         pc : {"clear", "evaluate", "create", "send", "metrics", "activity", "ok", "error"},
         next : Nat, asked : SUBSET Descriptors,
         response : Response \cup {NoResponse}]

(* The types of the state: among others, the loops over the input descriptors *)
(* look at none past their end, and what the verifier gets was made before.   *)
TypeOK ==
    /\ sent \in RequestObjects
    /\ request \in Request \cup {NoRequest}
    /\ constrained \subseteq Descriptors
    /\ query \in (SUBSET Descriptors) \cup {NoQuery}
    /\ calls \in Seq(Call)
    /\ \A i \in DOMAIN calls :
         /\ calls[i].pc \in {"clear", "evaluate"} => calls[i].next \in Descriptors
         /\ calls[i].pc \in {"send", "metrics", "activity", "ok"} => calls[i].response.made
    /\ verifier \in Seq([call : Nat, accepted : BOOLEAN])
    /\ \A k \in DOMAIN verifier : LET i == verifier[k].call
                                  IN  i \in DOMAIN calls /\ calls[i].response.made
    /\ activities \subseteq DOMAIN calls

Received == {verifier[k].call : k \in DOMAIN verifier}
Shown(i) ==
    LET tokens == calls[i].response.tokens IN {tokens[c].vp : c \in DOMAIN tokens}
Shows(i, asked) == Covers(asked, Shown(i)) /\ Chosen(asked, Shown(i)) = Shown(i)

(* The verifier gets what it asked for: the credentials of a response meet    *)
(* whatever constraints the definition still has when the response is made,   *)
(* every descriptor and every credential, although other calls may have taken *)
(* constraints away while this one read them; and as long as no               *)
(* PresentCredentialUnsafe call of the interaction has begun, these are all   *)
(* the constraints of the request.                                            *)
PresentsWhatWasAskedFor ==
    \A i \in Received : LET r == calls[i].response IN
        /\ Shows(i, r.left)
        /\ ~r.unsafe => r.left = Descriptors

(* Every VP token shows the credential it was made for, one for each that was *)
(* chosen, and is signed with the DID that credential was issued to; the ID   *)
(* token is signed with a DID that also signs a VP token of the same          *)
(* response.  A comment of createAuthorizedResponseMultiCred (openid4vp.go    *)
(* 711: "the vpToken always uses the last presentation from the loop above")  *)
(* says otherwise, but is about a loop that is no longer there.               *)
SignedByHolders ==
    \A i \in Received : LET r == calls[i].response IN
        /\ \A c \in DOMAIN r.tokens : r.tokens[c] = [vp |-> c, iss |-> Holder[c]]
        /\ IF request.id_token THEN \E c \in DOMAIN r.tokens : r.id_token = Holder[c]
                               ELSE r.id_token = ""

(* A response has the format the verifier named, in the new place or the old  *)
(* one: ldp_vp if it takes that and no JWT credential is given, else jwt_vp.  *)
FormatSuitsVerifier ==
    LET named == IF sent.formats = "none" THEN sent.registration_formats ELSE sent.formats
    IN  \A i \in Received : LET r == calls[i].response IN
            /\ r.format = "ldp_vp" => named = "ldp_vp" /\ Shown(i) \cap JWTCredentials = {}
            /\ named = "ldp_vp" /\ calls[i].credentials \cap JWTCredentials = {}
                 => r.format = "ldp_vp"

(* A call that returns no error had its own response accepted and logged, and *)
(* the log names no other calls' responses than accepted ones.                *)
OkMeansAcceptedAndLogged ==
    /\ \A i \in DOMAIN calls : calls[i].pc = "ok" => i \in activities
    /\ \A i \in activities :
          \E k \in DOMAIN verifier : verifier[k] = [call |-> i, accepted |-> TRUE]

(* Credentials that match what GetQuery said match for PresentCredential too, *)
(* whatever was called, and failed, since.                                    *)
AnswerToQueryIsTaken ==
    query # NoQuery =>
        \A C \in SUBSET Credentials : Covers(query, C) => Covers(constrained, C)

(* PresentCredential validates the constraints; PresentCredentialUnsafe is    *)
(* "this variant of PresentCredential [that] will skip client-side            *)
(* presentation definition constraint validation".                            *)
PresentCredentialValidates ==
    \A i \in Received :
        calls[i].op = "PresentCredential" => Shows(i, Descriptors)
=============================================================================
