------------------------ MODULE IssuerAcknowledgment ------------------------
(***************************************************************************)
(* Telling the issuer what became of its credentials: the Acknowledgment   *)
(* objects an interaction hands out (pkg/openid4ci/acknowledgment.go), the *)
(* mobile wrapper that saves and restores them, and the issuer's           *)
(* notification endpoint.                                                  *)
(*                                                                         *)
(* The interaction's notification IDs are numbered in the order they were  *)
(* stored, so an ID is also the position of its credential.  The app uses  *)
(* an object from one thread; a call sends one request, which the network  *)
(* may lose, and the process may die at any time, during a call too.       *)
(***************************************************************************)
EXTENDS Naturals, Sequences, FiniteSets

CONSTANTS
    Details,    \* interaction details an app may set; none is 0
    Events,     \* event statuses an app may report
    MaxIDs,     \* bound: notification IDs stored by the interaction
    MaxObjects, \* bound: Acknowledgment objects made
    MaxSaved,   \* bound: objects serialized
    MaxSets,    \* bound: SetInteractionDetails calls on one object
    MaxCalls    \* bound: calls made on the objects

ASSUME DetailsAssumption == Details \subseteq Nat \ {0}
ASSUME AckBoundsAssumption ==
    /\ MaxIDs \in Nat /\ MaxObjects \in Nat
    /\ MaxSaved \in Nat /\ MaxSets \in Nat /\ MaxCalls \in Nat

VARIABLES
    endpoint,      \* the issuer metadata names a notification endpoint
    expiresIn,     \* the token response said when the token expires
    expired,       \* that time has come
    interaction,   \* the interaction object still exists
    stored,        \* requestedAcknowledgment.ackIDs is 1..stored
    objects,       \* every Acknowledgment object, in the order they were made
    saved,         \* the serialized ones
    notifications, \* what reached the issuer
    results        \* what the calls returned, in their order

vars == <<endpoint, expiresIn, expired, interaction, stored, objects, saved,
          notifications, results>>

(* An object: its AckIDs, InteractionDetails and AuthToken.ExpiresAt (whether *)
(* it is set), and, for the properties, the saved object it was restored from *)
(* (0: none), the IDs it started with and how often details were set on it.   *)
NewObject(from, ids, details, expiry) ==
    [ids |-> ids, details |-> details, expiry |-> expiry, live |-> TRUE,
     from |-> from, handed |-> ids, sets |-> IF details = 0 THEN 0 ELSE 1]

Init ==
    /\ endpoint \in BOOLEAN /\ expiresIn \in BOOLEAN
    /\ expired = FALSE /\ interaction = TRUE /\ stored = 0
    /\ objects = <<>> /\ saved = <<>>
    /\ notifications = <<>> /\ results = <<>>

LiveObjects == {o \in DOMAIN objects : objects[o].live}

-----------------------------------------------------------------------------
(* A credential response was received (see Issuance).                         *)
storeAcknowledgmentID ==
    /\ interaction /\ stored < MaxIDs
    /\ stored' = stored + 1
    /\ UNCHANGED <<endpoint, expiresIn, expired, interaction, objects, saved,
                   notifications, results>>

(* requestedAcknowledgmentObj: a new object with every ID stored so far, or   *)
(* an error before anything was stored and for an issuer without endpoint.    *)
Acknowledgment ==
    /\ interaction /\ stored > 0 /\ endpoint
    /\ Len(objects) < MaxObjects
    /\ objects' = Append(objects, NewObject(0, [i \in 1..stored |-> i], 0, expiresIn))
    /\ UNCHANGED <<endpoint, expiresIn, expired, interaction, stored, saved,
                   notifications, results>>

-----------------------------------------------------------------------------
(* The calls on an object.                                                    *)

SetInteractionDetails(o, details) ==
    /\ objects[o].sets < MaxSets
    /\ objects' = [objects EXCEPT ![o].details = details, ![o].sets = @ + 1]
    /\ UNCHANGED <<endpoint, expiresIn, expired, interaction, stored, saved,
                   notifications, results>>

(* The OAuth client refuses to send a token it knows to be expired; its empty *)
(* configuration leaves it no way to refresh one.                             *)
TokenIsValid(o) == ~(objects[o].expiry /\ expired)

NotificationOfNext(o, event) ==
    [object |-> o, id |-> Head(objects[o].ids) + 1, event |-> event,
     details |-> objects[o].details, expired |-> expired]
Notification(o, event) ==
    [object |-> o, id |-> Head(objects[o].ids), event |-> event,
     details |-> objects[o].details, expired |-> expired]
Result(o, event, ok) ==
    [object |-> o, id |-> Head(objects[o].ids), event |-> event, ok |-> ok]

(* AcknowledgeIssuer takes the first ID off the list before it sends, and     *)
(* leaves it off whatever comes back.  Only a 204 that is read is a success;  *)
(* any other end is an error, with the notification received or not.          *)
KeepIDUnlessSent(o, ok) == IF ok THEN Tail(objects[o].ids) ELSE objects[o].ids
RemainingIDs(o, ok) == Tail(objects[o].ids)

AnyReceivedIsOk(received) == {TRUE, FALSE}
Returns(received) == IF received THEN {TRUE, FALSE} ELSE {FALSE}

CanCall == Len(results) < MaxCalls

AcknowledgeIssuer(o, event, received) ==
    /\ CanCall /\ objects[o].ids # <<>>
    /\ received => TokenIsValid(o)
    /\ \E ok \in Returns(received) :
         /\ objects' = [objects EXCEPT ![o].ids = RemainingIDs(o, ok)]
         /\ results' = Append(results, Result(o, event, ok))
    /\ notifications' = IF received THEN Append(notifications, Notification(o, event))
                        ELSE notifications
    /\ UNCHANGED <<endpoint, expiresIn, expired, interaction, stored, saved>>

(* The error "ack list is empty".                                             *)
AcknowledgeIssuerEmpty(o) ==
    /\ CanCall /\ objects[o].ids = <<>>
    /\ results' = Append(results, [object |-> o, id |-> 0, event |-> 0, ok |-> FALSE])
    /\ UNCHANGED <<endpoint, expiresIn, expired, interaction, stored, objects, saved,
                   notifications>>

-----------------------------------------------------------------------------
(* Saving and restoring.                                                      *)

StateAsHandedOut(o) ==
    [ids |-> objects[o].handed, details |-> objects[o].details,
     expiry |-> objects[o].expiry]
StateWithoutExpiry(o) ==
    [ids |-> objects[o].ids, details |-> objects[o].details, expiry |-> FALSE]
State(o) == [ids |-> objects[o].ids, details |-> objects[o].details,
             expiry |-> objects[o].expiry]

Serialize(o) ==
    /\ Len(saved) < MaxSaved
    /\ saved' = Append(saved, [object |-> o, since |-> Len(results), state |-> State(o)])
    /\ UNCHANGED <<endpoint, expiresIn, expired, interaction, stored, objects,
                   notifications, results>>

NewAcknowledgment(s) ==
    /\ Len(objects) < MaxObjects
    /\ LET state == saved[s].state
       IN  objects' = Append(objects, NewObject(s, state.ids, state.details, state.expiry))
    /\ UNCHANGED <<endpoint, expiresIn, expired, interaction, stored, saved,
                   notifications, results>>

-----------------------------------------------------------------------------
(* Around the calls.                                                          *)

TokenExpires ==
    /\ ~expired /\ expiresIn
    /\ expired' = TRUE
    /\ UNCHANGED <<endpoint, expiresIn, interaction, stored, objects, saved,
                   notifications, results>>

(* The process dies, and the objects and the interaction with it.             *)
Die ==
    /\ interaction' = FALSE
    /\ objects' = [o \in DOMAIN objects |-> [objects[o] EXCEPT !.live = FALSE]]
    /\ UNCHANGED <<endpoint, expiresIn, expired, stored, saved, results>>

Crash == /\ interaction \/ LiveObjects # {}
         /\ Die /\ UNCHANGED notifications

CrashWhileSending(o, event) ==
    /\ CanCall /\ objects[o].ids # <<>> /\ TokenIsValid(o)
    /\ notifications' = Append(notifications, Notification(o, event))
    /\ Die

Next ==
    \/ storeAcknowledgmentID
    \/ Acknowledgment
    \/ \E o \in LiveObjects :
         \/ \E d \in Details \cup {0} : SetInteractionDetails(o, d)
         \/ \E e \in Events, received \in BOOLEAN : AcknowledgeIssuer(o, e, received)
         \/ AcknowledgeIssuerEmpty(o)
         \/ Serialize(o)
         \/ \E e \in Events : CrashWhileSending(o, e)
    \/ \E s \in DOMAIN saved : NewAcknowledgment(s)
    \/ TokenExpires
    \/ Crash

Spec == Init /\ [][Next]_vars

-----------------------------------------------------------------------------
(* Properties.                                                                *)

StateType == [ids: Seq(Nat), details: Details \cup {0}, expiry: BOOLEAN]
ObjectType ==
    [ids: Seq(Nat), details: Details \cup {0}, expiry: BOOLEAN, live: BOOLEAN,
     from: Nat, handed: Seq(Nat), sets: Nat]

(* Every object lists IDs the interaction stored.                             *)
TypeOK ==
    /\ endpoint \in BOOLEAN /\ expiresIn \in BOOLEAN /\ expired \in BOOLEAN
    /\ interaction \in BOOLEAN /\ stored \in 0..MaxIDs
    /\ objects \in Seq(ObjectType)
    /\ saved \in Seq([object: DOMAIN objects, since: 0..Len(results), state: StateType])
    /\ notifications \in Seq([object: DOMAIN objects, id: 1..stored,
                              event: Events, details: Details \cup {0},
                              expired: BOOLEAN])
    /\ results \in Seq([object: DOMAIN objects, id: 0..stored,
                        event: Events \cup {0}, ok: BOOLEAN])

(* The calls that took an ID off the list of an object, up to the r-th result *)
(* and altogether.                                                            *)
CallsOn(o) == {r \in DOMAIN results : results[r].object = o /\ results[r].id # 0}
CallsUpTo(o, r) == {q \in CallsOn(o) : q <= r}

(* The n-th call on an object is for the n-th credential it was made for, and *)
(* what is left of the list are the credentials no call was for, however many *)
(* calls failed: no credential is acknowledged in another's place.            *)
CallsGoThroughTheList ==
    \A o \in DOMAIN objects :
        LET handed == objects[o].handed
        IN  /\ \A r \in CallsOn(o) : results[r].id = handed[Cardinality(CallsUpTo(o, r))]
            /\ objects[o].ids =
                  SubSeq(handed, Cardinality(CallsOn(o)) + 1, Len(handed))

(* A call that reported success reached the issuer with that event.           *)
OkMeansNotified ==
    \A r \in DOMAIN results : results[r].ok =>
        \E n \in DOMAIN notifications :
            /\ notifications[n].object = results[r].object
            /\ notifications[n].id = results[r].id
            /\ notifications[n].event = results[r].event

(* What was acknowledged before an object was saved is not acknowledged again *)
(* by an object restored from it, before or after a crash.                    *)
RestoredDoesNotRepeat ==
    \A r, q \in DOMAIN results :
        LET original == results[r].object
            s        == objects[results[q].object].from
        IN  s # 0 /\ saved[s].object = original /\ r <= saved[s].since
              => results[q].id = 0 \/ results[q].id # results[r].id

(* Nothing is sent with a token known to be expired, by a restored object no  *)
(* more than by the original.                                                 *)
NothingSentAfterExpiry ==
    \A n \in DOMAIN notifications : notifications[n].expired => ~expiresIn
=============================================================================
