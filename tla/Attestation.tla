----------------------------- MODULE Attestation -----------------------------
(***************************************************************************)
(* A wallet gets itself attested (pkg/attestation and its mobile wrapper): *)
(* GetAttestationVC opens a session at the attestation service, proves     *)
(* possession of a key with the challenge of the session, and parses the   *)
(* credential the service answers with.  An app may make several calls on  *)
(* one client at a time, for keys and payloads of their own.               *)
(*                                                                         *)
(* The service is external: it numbers its sessions, whose challenges it   *)
(* takes once, and may refuse any request.  Requests and answers get lost. *)
(***************************************************************************)
EXTENDS Naturals, Sequences

CONSTANTS
    KeyIDs,   \* key IDs of the verification methods an app signs with
    DIDs,     \* the DIDs in them
    DIDPart,  \* [key ID -> the part before "#", or NoDID when it has no "#"]
    NoDID,
    Payloads, \* what an app asks to have attested
    MaxCalls  \* bound: calls of GetAttestationVC

ASSUME DIDPartAssumption == NoDID \notin DIDs /\ DIDPart \in [KeyIDs -> DIDs \cup {NoDID}]
ASSUME AttestationBoundAssumption == MaxCalls \in Nat

VARIABLES
    calls,    \* every call of GetAttestationVC, in their order
    sessions, \* at the service: every session, with its payload
    attested  \* at the service: every attestation made

vars == <<calls, sessions, attested>>

Init == calls = <<>> /\ sessions = <<>> /\ attested = <<>>

-----------------------------------------------------------------------------
(* The calls.  A number stands for the session ID, another for its challenge; *)
(* both are 0 before the service gave them, as is the attestation received.   *)

NewCall(keyID, payload, pc) ==
    [keyID |-> keyID, payload |-> payload, pc |-> pc,
     sessionID |-> 0, challenge |-> 0, iss |-> NoDID, vc |-> 0]

(* The mobile API ends a call at once for a verification method it cannot     *)
(* sign with and a payload that is no JSON object.                            *)
GetAttestationVC(keyID, payload) ==
    /\ Len(calls) < MaxCalls
    /\ \E pc \in {"init", "error"} : calls' = Append(calls, NewCall(keyID, payload, pc))
    /\ UNCHANGED <<sessions, attested>>

(* The service opens a session for the payload, unless it refuses or the      *)
(* request gets lost; its answer may get lost, too, or not be read.           *)
KeptInClient(i, s) ==
    [j \in DOMAIN calls |->
        IF j = i \/ calls[j].pc \in {"complete", "send"}
        THEN [calls[j] EXCEPT !.pc = IF j = i THEN "complete" ELSE @,
                              !.sessionID = s, !.challenge = s]
        ELSE calls[j]]
KeptInCall(i, s) ==
    [calls EXCEPT ![i].pc = "complete", ![i].sessionID = s, ![i].challenge = s]

AttestationInit(i) ==
    /\ calls[i].pc = "init"
    /\ \E opened, read \in BOOLEAN :
         /\ read => opened
         /\ sessions' = IF opened THEN Append(sessions, calls[i].payload) ELSE sessions
         /\ calls' = IF read THEN KeptInCall(i, Len(sessions) + 1)
                     ELSE [calls EXCEPT ![i].pc = "error"]
    /\ UNCHANGED attested

(* The proof: issued by the DID of the key, with the challenge as its nonce.  *)
(* Signing fails for a key ID without DID, and may fail otherwise.            *)
SignProof(i) ==
    /\ calls[i].pc = "complete"
    /\ DIDPart[calls[i].keyID] # NoDID
    /\ calls' = [calls EXCEPT ![i].pc = "send", ![i].iss = DIDPart[calls[i].keyID]]
    /\ UNCHANGED <<sessions, attested>>

SigningFails(i) ==
    /\ calls[i].pc = "complete"
    /\ calls' = [calls EXCEPT ![i].pc = "error"]
    /\ UNCHANGED <<sessions, attested>>

(* The service takes a proof that carries the challenge of the session, once  *)
(* in the life of the session.                                                *)
Takes(s, nonce) ==
    /\ s \in DOMAIN sessions /\ nonce = s
    /\ \A v \in DOMAIN attested : attested[v].session # s

Attest(s, did) == [session |-> s, did |-> did, payload |-> sessions[s]]

(* The answer: the credential was read, or the call is over, attested or not. *)
Retried(i, read) ==
    IF read THEN [calls[i] EXCEPT !.pc = "parse", !.vc = Len(attested) + 1]
            ELSE [calls[i] EXCEPT !.pc = "complete"]
Completed(i, read) ==
    IF read THEN [calls[i] EXCEPT !.pc = "parse", !.vc = Len(attested) + 1]
            ELSE [calls[i] EXCEPT !.pc = "error"]

AttestationComplete(i) ==
    /\ calls[i].pc = "send"
    /\ \E accepted, read \in BOOLEAN :
         /\ read => accepted
         /\ accepted => Takes(calls[i].sessionID, calls[i].challenge)
         /\ attested' = IF accepted
                        THEN Append(attested, Attest(calls[i].sessionID, calls[i].iss))
                        ELSE attested
         /\ calls' = [calls EXCEPT ![i] = Completed(i, read)]
    /\ UNCHANGED sessions

(* The credential is parsed, without a check of its proof.                    *)
ParseCredential(i) ==
    /\ calls[i].pc = "parse"
    /\ \E pc \in {"ok", "error"} : calls' = [calls EXCEPT ![i].pc = pc]
    /\ UNCHANGED <<sessions, attested>>

CallStep(i) ==
    \/ AttestationInit(i)
    \/ SignProof(i)
    \/ SigningFails(i)
    \/ AttestationComplete(i)
    \/ ParseCredential(i)

Next ==
    \/ \E keyID \in KeyIDs, payload \in Payloads : GetAttestationVC(keyID, payload)
    \/ \E i \in DOMAIN calls : CallStep(i)

Spec == Init /\ [][Next]_vars

(* A request is answered or times out, and nothing else is waited for.        *)
FairSpec == Spec /\ \A i \in 1..MaxCalls : WF_vars(i \in DOMAIN calls /\ CallStep(i))

-----------------------------------------------------------------------------
(* Properties.                                                                *)

(* The credential a call returns attests the payload of that call for the DID *)
(* of its key, however many calls run on the client at a time.                *)
AttestsWhatWasAsked ==
    \A i \in DOMAIN calls : calls[i].pc = "ok" =>
        /\ calls[i].vc \in DOMAIN attested
        /\ attested[calls[i].vc].payload = calls[i].payload
        /\ attested[calls[i].vc].did = DIDPart[calls[i].keyID]
        /\ attested[calls[i].vc].did # NoDID

(* Every call returns, whatever the service answers or fails to answer.       *)
CallsReturn ==
    \A i \in 1..MaxCalls :
        (i \in DOMAIN calls) ~> (i \in DOMAIN calls /\ calls[i].pc \in {"ok", "error"})

(* The request of a call, and whether the service attested it.                *)
RequestOf(i) == [payload |-> calls[i].payload, did |-> DIDPart[calls[i].keyID]]
Granted(i) ==
    \E v \in DOMAIN attested :
        attested[v] = [session |-> calls[i].sessionID, did |-> RequestOf(i).did,
                       payload |-> RequestOf(i).payload]

Asked == [i \in DOMAIN calls |-> RequestOf(i)]
GrantedTo == [i \in DOMAIN calls |-> Granted(i)]
ResultOf(c) == IF c.pc \in {"ok", "error"} THEN c.pc ELSE "none"
Results == [i \in DOMAIN calls |-> ResultOf(calls[i])]

(* Concurrent calls behave like calls on their own (AttestationPromise).      *)
Promise == INSTANCE AttestationPromise WITH
    Requests <- [payload : Payloads, did : DIDs \cup {NoDID}],
    asked <- Asked, granted <- GrantedTo, result <- Results
KeepsPromise == Promise!Spec
=============================================================================
