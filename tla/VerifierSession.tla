--------------------------- MODULE VerifierSession ---------------------------
(***************************************************************************)
(* An app in front of a verifier: besides presenting (Presentation) it     *)
(* tells the verifier through Acknowledgment objects why it does not       *)
(* (pkg/openid4vp/acknowledgment.go and its mobile wrapper).  An object    *)
(* may be saved, restored later and used any number of times; its          *)
(* interaction details are decoded into a map that is already there.       *)
(***************************************************************************)
EXTENDS Presentation

CONSTANTS
    Keys,      \* the keys of interaction details
    Values,    \* their values
    Details,   \* the JSON objects an app sets as details: functions on some keys
    NoDetails, \* no details: a nil map, and the JSON null that makes one
    Reasons,   \* the errors an app reports: [error, description]
    MaxActs    \* bound: acts on the session, a presentation counting as ActsOfACall

AnyDetails == UNION {[K -> Values] : K \in SUBSET Keys}

ASSUME SessionAssumption ==
    Details \subseteq AnyDetails /\ NoDetails \notin AnyDetails /\ MaxActs \in Nat

VARIABLES
    acks,      \* every Acknowledgment object, in the order they were made
    savedAcks, \* the serialized ones
    notices,   \* what reached the verifier through them
    acts       \* acts so far

ackVars == <<acks, savedAcks, notices>>
sessionVars == <<vars, ackVars, acts>>

(* With every object, for the properties, the details that were set on it or  *)
(* on the object it was restored from, in their order.                        *)
NewAck(uri, details, history) == [uri |-> uri, details |-> details, history |-> history]

SessionInit == Init /\ acks = <<>> /\ savedAcks = {} /\ notices = {} /\ acts = 0

-----------------------------------------------------------------------------
(* The interaction hands out a new object at every call; its address is the   *)
(* one responses go to, old layout or new.                                    *)
Acknowledgment ==
    /\ request # NoRequest
    /\ acks' = Append(acks, NewAck(request.response_uri, NoDetails, <<>>))
    /\ UNCHANGED <<savedAcks, notices>>

(* json.Unmarshal into the map of the object: the keys of an object are added *)
(* or replaced, null resets the map.  Anything else is an error that changes  *)
(* nothing.                                                                   *)
Merged(set, into) ==
    [k \in DOMAIN set \cup DOMAIN into |-> IF k \in DOMAIN set THEN set[k] ELSE into[k]]
DecodedAnew(set, into) == set
Decoded(set, into) ==
    IF set = NoDetails \/ into = NoDetails THEN set ELSE Merged(set, into)

SetInteractionDetails(a, set) ==
    /\ acks' = [acks EXCEPT ![a].details = Decoded(set, @), ![a].history = Append(@, set)]
    /\ UNCHANGED <<savedAcks, notices>>

(* NoConsent, NoMatchingCredential and WithCode: one POST, which may not      *)
(* arrive, and never changes the object.                                      *)
AcknowledgeVerifier(a, reason) ==
    /\ notices' = IF acks[a].uri = "" THEN notices
                  ELSE notices \cup {[uri |-> acks[a].uri, reason |-> reason,
                                      details |-> acks[a].details, history |-> acks[a].history]}
    /\ UNCHANGED <<acks, savedAcks>>

(* An empty map is omitted, so it comes back as nil.                          *)
SerializedWithoutDetails(a) == [acks[a] EXCEPT !.details = NoDetails]
Serialized(a) ==
    IF acks[a].details = <<>> THEN [acks[a] EXCEPT !.details = NoDetails] ELSE acks[a]

Serialize(a) ==
    /\ savedAcks' = savedAcks \cup {Serialized(a)}
    /\ UNCHANGED <<acks, notices>>

NewAcknowledgment(s) ==
    /\ acks' = Append(acks, s)
    /\ UNCHANGED <<savedAcks, notices>>

Act ==
    \/ Acknowledgment
    \/ \E a \in DOMAIN acks :
         \/ \E d \in Details \cup {NoDetails} : SetInteractionDetails(a, d)
         \/ \E r \in Reasons : AcknowledgeVerifier(a, r)
         \/ Serialize(a)
    \/ \E s \in savedAcks : NewAcknowledgment(s)

ActsOfACall == 3

SessionNext ==
    \/ /\ Next /\ acts + ActsOfACall * Len(calls') <= MaxActs
       /\ UNCHANGED <<ackVars, acts>>
    \/ /\ acts + ActsOfACall * Len(calls) < MaxActs
       /\ Act /\ acts' = acts + 1
       /\ UNCHANGED vars

SessionSpec == SessionInit /\ [][SessionNext]_sessionVars

-----------------------------------------------------------------------------
(* What details set in this order amount to: since the last null, for every   *)
(* key the value it was given last.                                           *)
Since(history) ==
    {i \in DOMAIN history :
        \A r \in DOMAIN history : history[r] = NoDetails => i > r}
KeysSet(history) == UNION {DOMAIN history[i] : i \in Since(history)}
SetsLast(history, k, i) ==
    /\ k \in DOMAIN history[i]
    /\ \A j \in Since(history) : k \in DOMAIN history[j] => j <= i
LastSet(history, k) == CHOOSE i \in Since(history) : SetsLast(history, k, i)
AmountTo(history) == [k \in KeysSet(history) |-> history[LastSet(history, k)][k]]

(* A nil map is sent as no details, as an empty one is.                       *)
Told(details) == IF details = NoDetails THEN <<>> ELSE details

(* SetInteractionDetails "extends" an acknowledgment: whatever was set before *)
(* it goes to the verifier with what was set last, also after the object was  *)
(* saved and restored in between.                                             *)
DetailsReachTheVerifier == \A n \in notices : Told(n.details) = AmountTo(n.history)
=============================================================================
