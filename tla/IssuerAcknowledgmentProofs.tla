---------------------- MODULE IssuerAcknowledgmentProofs ----------------------
(***************************************************************************)
(* Theorems about IssuerAcknowledgment, for any number of IDs, objects,    *)
(* saved states, crashes and calls: success is reported for what arrived,  *)
(* nothing is sent with an expired token, and what was acknowledged before *)
(* an object was saved is not acknowledged again by one restored from it.  *)
(* The last part is about its types, and the order of the calls.           *)
(***************************************************************************)
EXTENDS IssuerAcknowledgment, SequenceTheorems, FiniteSetTheorems, TLAPS

USE DetailsAssumption, AckBoundsAssumption

IDSeq == Seq(Nat \ {0})
StateOf == [ids : IDSeq, details : Details \cup {0}, expiry : BOOLEAN]
Object == [ids : IDSeq, details : Details \cup {0}, expiry : BOOLEAN, live : BOOLEAN,
           from : Nat, handed : IDSeq, sets : Nat]
Saved == [object : Nat, since : Nat, state : StateOf]
Sent == [object : Nat, id : Nat, event : Events, details : Details \cup {0}, expired : BOOLEAN]
Answer == [object : Nat, id : Nat, event : Events \cup {0}, ok : BOOLEAN]

(* The types, with the objects that saved states and calls refer to.          *)
Types ==
    /\ expiresIn \in BOOLEAN /\ expired \in BOOLEAN /\ stored \in Nat
    /\ objects \in Seq(Object)
    /\ saved \in Seq(Saved)
    /\ notifications \in Seq(Sent)
    /\ results \in Seq(Answer)

(* The IDs that are left are in the order they were stored in.                *)
Increasing(ids) == \A j, k \in DOMAIN ids : j < k => ids[j] < ids[k]
(* All of them are of later credentials than id.                              *)
After(ids, id) == \A k \in DOMAIN ids : id < ids[k]
Among(id, ids) == \E k \in DOMAIN ids : ids[k] = id

(* An object has taken every ID it was called with off its list, in order.    *)
ObjectInv ==
    /\ \A o \in DOMAIN objects : Increasing(objects[o].ids)
    /\ \A r \in DOMAIN results :
          /\ results[r].object \in DOMAIN objects
          /\ After(objects[results[r].object].ids, results[r].id)

(* A saved state has only IDs the object was not called with until then.      *)
SavedInv ==
    \A s \in DOMAIN saved :
        /\ saved[s].since \in 0..Len(results)
        /\ Increasing(saved[s].state.ids)
        /\ \A r \in DOMAIN results :
              r <= saved[s].since /\ results[r].object = saved[s].object
                  => After(saved[s].state.ids, results[r].id)

(* A restored object is called with IDs of its saved state only.              *)
RestoredInv ==
    /\ \A o \in DOMAIN objects : objects[o].from # 0 =>
          /\ objects[o].from \in DOMAIN saved
          /\ \A k \in DOMAIN objects[o].ids :
                Among(objects[o].ids[k], saved[objects[o].from].state.ids)
    /\ \A r \in DOMAIN results :
          LET s == objects[results[r].object].from
          IN  s # 0 /\ results[r].id # 0 => Among(results[r].id, saved[s].state.ids)

IDInv == ObjectInv /\ SavedInv /\ RestoredInv

(* Objects and saved states know when the token expires if the issuer said.   *)
ExpiryInv ==
    /\ expired => expiresIn
    /\ \A o \in DOMAIN objects : objects[o].expiry = expiresIn
    /\ \A s \in DOMAIN saved : saved[s].state.expiry = expiresIn
    /\ \A n \in DOMAIN notifications : ~notifications[n].expired

-----------------------------------------------------------------------------
(* Sequences.                                                                 *)

LEMMA AppendGrows ==
    ASSUME NEW S, NEW s \in Seq(S), NEW e \in S
    PROVE  /\ Append(s, e) \in Seq(S)
           /\ Len(s) + 1 \notin DOMAIN s
           /\ DOMAIN Append(s, e) = DOMAIN s \cup {Len(s) + 1}
           /\ \A n \in DOMAIN s : Append(s, e)[n] = s[n]
           /\ Append(s, e)[Len(s) + 1] = e
BY AppendProperties, LenProperties

LEMMA ElementOf ==
    ASSUME NEW S, NEW s \in Seq(S), NEW n \in DOMAIN s
    PROVE  s[n] \in S /\ n \in Nat /\ n # 0 /\ n <= Len(s)
BY LenProperties

LEMMA ObjectFields ==
    ASSUME NEW x \in Object
    PROVE  /\ x.ids \in IDSeq /\ x.details \in Details \cup {0} /\ x.expiry \in BOOLEAN
           /\ x.from \in Nat /\ x.handed \in IDSeq /\ x.sets \in Nat
BY DEF Object

LEMMA TailShifts ==
    ASSUME NEW ids \in IDSeq, ids # <<>>
    PROVE  /\ Tail(ids) \in IDSeq
           /\ 1 \in DOMAIN ids /\ Head(ids) = ids[1] /\ Head(ids) \in Nat \ {0}
           /\ \A k \in DOMAIN Tail(ids) : k + 1 \in DOMAIN ids /\ Tail(ids)[k] = ids[k + 1]
           /\ DOMAIN Tail(ids) \subseteq Nat \ {0}
BY HeadTailProperties, LenProperties, EmptySeq DEF IDSeq

LEMMA SavedFields ==
    ASSUME NEW x \in Saved
    PROVE  x.object \in Nat /\ x.since \in Nat /\ x.state \in StateOf
BY DEF Saved

(* Taking the first of increasing IDs leaves later ones, still increasing.    *)
LEMMA TailIncreases ==
    ASSUME NEW ids \in IDSeq, ids # <<>>, Increasing(ids)
    PROVE  /\ Increasing(Tail(ids)) /\ After(Tail(ids), Head(ids))
           /\ \A id \in Nat : After(ids, id) => After(Tail(ids), id)
           /\ \A k \in DOMAIN Tail(ids) : \E n \in DOMAIN ids : Tail(ids)[k] = ids[n]
<1>1. Increasing(Tail(ids))
  BY TailShifts DEF Increasing
<1>2. After(Tail(ids), Head(ids))
  BY TailShifts DEF Increasing, After
<1>3. QED BY <1>1, <1>2, TailShifts DEF After

-----------------------------------------------------------------------------
(* Effects of the actions.                                                    *)

(* Objects keep what the IDs and the token depend on.                         *)
ObjectsKeep ==
    /\ objects' \in Seq(Object)
    /\ DOMAIN objects' = DOMAIN objects
    /\ \A o \in DOMAIN objects : /\ objects'[o].ids = objects[o].ids
                                 /\ objects'[o].from = objects[o].from
                                 /\ objects'[o].expiry = objects[o].expiry

LEMMA ReplaceObject ==
    ASSUME objects \in Seq(Object), NEW o \in DOMAIN objects, NEW new \in Object,
           objects' = [objects EXCEPT ![o] = new]
    PROVE  /\ objects' \in Seq(Object) /\ DOMAIN objects' = DOMAIN objects
           /\ objects'[o] = new
           /\ \A p \in DOMAIN objects \ {o} : objects'[p] = objects[p]
BY ExceptSeq, LenProperties

LEMMA DieKeeps ==
    ASSUME Types, Die
    PROVE  ObjectsKeep
<1>1. objects' = [o \in DOMAIN objects |-> [objects[o] EXCEPT !.live = FALSE]]
  BY DEF Die
<1>2. PICK n \in Nat : n = Len(objects) /\ DOMAIN objects = 1..n
  BY LenProperties DEF Types
<1>3. ASSUME NEW o \in 1..n
      PROVE  /\ objects'[o] \in Object /\ objects'[o].ids = objects[o].ids
             /\ objects'[o].from = objects[o].from /\ objects'[o].expiry = objects[o].expiry
  <2>1. objects[o] \in Object
    BY <1>2 DEF Types
  <2>2. objects'[o] = [objects[o] EXCEPT !.live = FALSE]
    BY <1>1, <1>2
  <2>3. QED BY <2>1, <2>2 DEF Object
<1>4. objects' \in [1..n -> Object]
  BY <1>1, <1>2, <1>3
<1>5. objects' \in Seq(Object) /\ DOMAIN objects' = 1..n
  BY <1>4
<1>6. QED BY <1>2, <1>3, <1>5 DEF ObjectsKeep

LEMMA DetailsChange ==
    ASSUME NEW x \in Object, NEW d \in Details \cup {0}
    PROVE  LET new == [x EXCEPT !.details = d, !.sets = @ + 1]
           IN  /\ new \in Object /\ new.ids = x.ids /\ new.from = x.from
               /\ new.expiry = x.expiry
<1>1. x.sets + 1 \in Nat
  BY ObjectFields
<1>2. PICK k \in Nat : k = x.sets + 1
  BY <1>1
<1>3. /\ [x EXCEPT !.details = d, !.sets = k] \in Object
      /\ [x EXCEPT !.details = d, !.sets = k].ids = x.ids
      /\ [x EXCEPT !.details = d, !.sets = k].from = x.from
      /\ [x EXCEPT !.details = d, !.sets = k].expiry = x.expiry
  BY DEF Object
<1>4. QED BY <1>2, <1>3

LEMMA SetKeeps ==
    ASSUME Types, NEW o \in DOMAIN objects, NEW d \in Details \cup {0},
           SetInteractionDetails(o, d)
    PROVE  ObjectsKeep
<1> DEFINE new == [objects[o] EXCEPT !.details = d, !.sets = @ + 1]
<1>1. objects[o] \in Object
  BY ElementOf DEF Types
<1>2. /\ new \in Object /\ new.ids = objects[o].ids /\ new.from = objects[o].from
      /\ new.expiry = objects[o].expiry
  BY <1>1, DetailsChange
<1>3. objects' = [objects EXCEPT ![o] = new]
  BY DEF SetInteractionDetails
<1> HIDE DEF new
<1>4. QED BY <1>2, <1>3, ReplaceObject DEF Types, ObjectsKeep

(* A new object has the IDs it was handed.                                    *)
LEMMA ObjectAdded ==
    ASSUME Types, NEW from \in Nat, NEW ids \in IDSeq, NEW d \in Details \cup {0},
           NEW e \in BOOLEAN, objects' = Append(objects, NewObject(from, ids, d, e))
    PROVE  /\ objects' \in Seq(Object)
           /\ Len(objects) + 1 \notin DOMAIN objects
           /\ DOMAIN objects' = DOMAIN objects \cup {Len(objects) + 1}
           /\ \A o \in DOMAIN objects : objects'[o] = objects[o]
           /\ objects'[Len(objects) + 1].ids = ids
           /\ objects'[Len(objects) + 1].from = from
           /\ objects'[Len(objects) + 1].expiry = e
<1>1. /\ NewObject(from, ids, d, e) \in Object
      /\ NewObject(from, ids, d, e).ids = ids
      /\ NewObject(from, ids, d, e).from = from
      /\ NewObject(from, ids, d, e).expiry = e
  BY DEF NewObject, Object
<1>2. QED BY <1>1, AppendGrows DEF Types

LEMMA HandedOut ==
    ASSUME Types, stored > 0
    PROVE  [i \in 1..stored |-> i] \in IDSeq /\ Increasing([i \in 1..stored |-> i])
BY DEF Types, IDSeq, Increasing

(* A call: what it takes off the list, sends and returns.                     *)
LEMMA CallEffect ==
    ASSUME Types, NEW o \in DOMAIN objects, NEW event \in Events, NEW received \in BOOLEAN,
           AcknowledgeIssuer(o, event, received)
    PROVE  /\ objects' \in Seq(Object) /\ DOMAIN objects' = DOMAIN objects
           /\ \A p \in DOMAIN objects \ {o} : objects'[p] = objects[p]
           /\ objects[o].ids \in IDSeq /\ objects[o].ids # <<>>
           /\ objects'[o].ids = Tail(objects[o].ids)
           /\ objects'[o].from = objects[o].from /\ objects'[o].expiry = objects[o].expiry
           /\ \E ok \in BOOLEAN :
                /\ ok => received
                /\ Result(o, event, ok) \in Answer
                /\ results' = Append(results, Result(o, event, ok))
           /\ Notification(o, event) \in Sent
<1>1. objects[o] \in Object /\ objects[o].ids \in IDSeq /\ objects[o].ids # <<>> /\ o \in Nat
  BY ElementOf, ObjectFields DEF Types, AcknowledgeIssuer
<1> DEFINE new == [objects[o] EXCEPT !.ids = Tail(objects[o].ids)]
<1>2. /\ new \in Object /\ new.ids = Tail(objects[o].ids)
      /\ new.from = objects[o].from /\ new.expiry = objects[o].expiry
  BY <1>1, TailShifts DEF Object
<1>3. objects' = [objects EXCEPT ![o] = new]
  BY DEF AcknowledgeIssuer, RemainingIDs
<1>4. Head(objects[o].ids) \in Nat
  BY <1>1, TailShifts
<1>5. PICK ok \in Returns(received) : results' = Append(results, Result(o, event, ok))
  BY DEF AcknowledgeIssuer
<1>6. ok \in BOOLEAN /\ (ok => received)
  BY <1>5 DEF Returns
<1>7. Result(o, event, ok) \in Answer
  BY <1>1, <1>4, <1>6 DEF Result, Answer
<1>8. Notification(o, event) \in Sent
  BY <1>1, <1>4 DEF Notification, Sent, Object, Types
<1> HIDE DEF new
<1>9. QED BY <1>1, <1>2, <1>3, <1>5, <1>6, <1>7, <1>8, ReplaceObject DEF Types

-----------------------------------------------------------------------------
(* Types.                                                                     *)

LEMMA TypesStep == Types /\ [Next]_vars => Types'
<1> SUFFICES ASSUME Types, [Next]_vars PROVE Types'
  OBVIOUS
<1>1. CASE storeAcknowledgmentID
  BY <1>1 DEF storeAcknowledgmentID, Types
<1>11. CASE TokenExpires
  BY <1>11, Zenon DEF TokenExpires, Types
<1>12. CASE UNCHANGED vars
  BY <1>12, Zenon DEF vars, Types
<1>2. CASE Acknowledgment
  BY <1>2, ObjectAdded, HandedOut DEF Acknowledgment, Types
<1>3. CASE Crash
  BY <1>3, DieKeeps DEF Crash, Die, ObjectsKeep, Types
<1>4. ASSUME NEW s \in DOMAIN saved, NewAcknowledgment(s) PROVE Types'
  <2>1. saved[s].state \in StateOf /\ s \in Nat
    BY ElementOf, SavedFields DEF Types
  <2>2. /\ saved[s].state.ids \in IDSeq /\ saved[s].state.details \in Details \cup {0}
        /\ saved[s].state.expiry \in BOOLEAN
    BY <2>1 DEF StateOf
  <2>3. QED BY <1>4, <2>1, <2>2, ObjectAdded DEF NewAcknowledgment, Types
<1>5. ASSUME NEW o \in LiveObjects, NEW d \in Details \cup {0}, SetInteractionDetails(o, d)
      PROVE  Types'
  BY <1>5, SetKeeps DEF SetInteractionDetails, LiveObjects, ObjectsKeep, Types
<1>6. ASSUME NEW o \in LiveObjects, NEW e \in Events, NEW received \in BOOLEAN,
             AcknowledgeIssuer(o, e, received)
      PROVE  Types'
  <2>1. o \in DOMAIN objects
    BY DEF LiveObjects
  <2>5. PICK ok \in BOOLEAN :
               Result(o, e, ok) \in Answer /\ results' = Append(results, Result(o, e, ok))
    BY <1>6, <2>1, CallEffect
  <2>2. objects' \in Seq(Object) /\ results' \in Seq(Answer)
    BY <1>6, <2>1, <2>5, CallEffect, AppendGrows, Zenon DEF Types
  <2>3. notifications' \in Seq(Sent)
    BY <1>6, <2>1, CallEffect, AppendGrows DEF AcknowledgeIssuer, Types
  <2>4. QED BY <1>6, <2>2, <2>3 DEF AcknowledgeIssuer, Types
<1>7. ASSUME NEW o \in LiveObjects, AcknowledgeIssuerEmpty(o) PROVE Types'
  <2>1. [object |-> o, id |-> 0, event |-> 0, ok |-> FALSE] \in Answer
    BY DEF LiveObjects, Answer, Types
  <2>2. QED BY <1>7, <2>1, AppendGrows DEF AcknowledgeIssuerEmpty, Types
<1>8. ASSUME NEW o \in LiveObjects, Serialize(o) PROVE Types'
  <2>1. objects[o] \in Object /\ o \in Nat /\ Len(results) \in Nat
    BY DEF LiveObjects, Types
  <2>2. State(o) \in StateOf
    BY <2>1 DEF State, StateOf, Object
  <2>3. [object |-> o, since |-> Len(results), state |-> State(o)] \in Saved
    BY <2>1, <2>2 DEF Saved
  <2>4. QED BY <1>8, <2>3, AppendGrows DEF Serialize, Types
<1>9. ASSUME NEW o \in LiveObjects, NEW e \in Events, CrashWhileSending(o, e) PROVE Types'
  <2>1. objects[o] \in Object /\ objects[o].ids \in IDSeq /\ o \in Nat
    BY ElementOf, ObjectFields DEF LiveObjects, Types
  <2>2. Notification(o, e) \in Sent
    BY <1>9, <2>1, TailShifts DEF CrashWhileSending, Notification, Sent, Object, Types
  <2>3. QED BY <1>9, <2>2, DieKeeps, AppendGrows
            DEF CrashWhileSending, Die, ObjectsKeep, Types
<1>10. QED BY <1>1, <1>2, <1>3, <1>4, <1>5, <1>6, <1>7, <1>8, <1>9, <1>11, <1>12 DEF Next

LEMMA TypesInvariant == Spec => []Types
<1>1. Init => Types
  <2>1. Init => expiresIn \in BOOLEAN /\ expired \in BOOLEAN
    BY Zenon DEF Init
  <2>2. \A S : <<>> \in Seq(S)
    BY EmptySeq
  <2>3. QED BY <2>1, <2>2 DEF Init, Types
<1>2. QED BY <1>1, TypesStep, PTL DEF Spec

-----------------------------------------------------------------------------
(* IDs.                                                                       *)

LEMMA IDsKept ==
    ASSUME Types, IDInv, ObjectsKeep, saved' = saved, results' = results
    PROVE  IDInv'
<1>1. ObjectInv'
  BY DEF IDInv, ObjectInv, ObjectsKeep
<1>2. SavedInv'
  BY DEF IDInv, SavedInv
<1>3. RestoredInv'
  BY DEF IDInv, ObjectInv, RestoredInv, ObjectsKeep
<1>4. QED BY <1>1, <1>2, <1>3 DEF IDInv

LEMMA IDsOfNewObject ==
    ASSUME Types, IDInv, saved' = saved, results' = results,
           NEW from \in Nat, NEW ids \in IDSeq, NEW d \in Details \cup {0}, NEW e \in BOOLEAN,
           objects' = Append(objects, NewObject(from, ids, d, e)),
           Increasing(ids),
           from # 0 => from \in DOMAIN saved /\ ids = saved[from].state.ids
    PROVE  IDInv'
<1> DEFINE n == Len(objects) + 1
<1>1. /\ n \notin DOMAIN objects /\ DOMAIN objects' = DOMAIN objects \cup {n}
      /\ \A o \in DOMAIN objects : objects'[o] = objects[o]
      /\ objects'[n].ids = ids /\ objects'[n].from = from
  BY ObjectAdded
<1> HIDE DEF n
<1>2. ObjectInv'
  BY <1>1 DEF IDInv, ObjectInv
<1>3. SavedInv'
  BY DEF IDInv, SavedInv
<1>4. from # 0 => \A k \in DOMAIN ids : Among(ids[k], saved[from].state.ids)
  BY DEF Among
<1>5. RestoredInv'
  BY <1>1, <1>4 DEF IDInv, ObjectInv, RestoredInv
<1>6. QED BY <1>2, <1>3, <1>5 DEF IDInv

LEMMA IDsSaved ==
    ASSUME Types, IDInv, NEW o \in LiveObjects, Serialize(o)
    PROVE  IDInv'
<1> DEFINE n == Len(saved) + 1
           new == [object |-> o, since |-> Len(results), state |-> State(o)]
<1>1. objects' = objects /\ results' = results /\ saved' = Append(saved, new)
  BY DEF Serialize
<1>2. objects[o] \in Object /\ o \in Nat /\ o \in DOMAIN objects /\ Len(results) \in Nat
  BY ElementOf, LenProperties DEF LiveObjects, Types
<1>3. State(o) \in StateOf
  BY <1>2, ObjectFields DEF State, StateOf
<1>4. new \in Saved /\ new.object = o /\ new.since = Len(results)
      /\ new.state.ids = objects[o].ids
  BY <1>2, <1>3 DEF Saved, State
<1> HIDE DEF new
<1>5. /\ n \notin DOMAIN saved /\ DOMAIN saved' = DOMAIN saved \cup {n}
      /\ \A s \in DOMAIN saved : saved'[s] = saved[s]
      /\ saved'[n] = new
  BY <1>1, <1>4, AppendGrows DEF Types
<1> HIDE DEF n
<1>6. ObjectInv'
  BY <1>1 DEF IDInv, ObjectInv
<1>7. SavedInv'
  BY <1>1, <1>2, <1>4, <1>5 DEF IDInv, ObjectInv, SavedInv
<1>8. RestoredInv'
  BY <1>1, <1>5 DEF IDInv, ObjectInv, RestoredInv
<1>9. QED BY <1>6, <1>7, <1>8 DEF IDInv

(* What both kinds of call add to the results.                                *)
LEMMA IDsAnswered ==
    ASSUME Types, IDInv, NEW a \in Answer, results' = Append(results, a), saved' = saved,
           NEW n, n = Len(results) + 1
    PROVE  /\ SavedInv'
           /\ n \notin DOMAIN results /\ DOMAIN results' = DOMAIN results \cup {n}
           /\ \A r \in DOMAIN results : results'[r] = results[r]
           /\ results'[n] = a
<1>1. /\ n \notin DOMAIN results /\ DOMAIN results' = DOMAIN results \cup {n}
      /\ \A r \in DOMAIN results : results'[r] = results[r]
      /\ results'[n] = a
  BY AppendGrows DEF Types
<1>2. Len(results) \in Nat /\ Len(results') = Len(results) + 1
  BY LenProperties, AppendProperties DEF Types
<1>3. SavedInv'
  BY <1>1, <1>2 DEF IDInv, SavedInv
<1>4. QED BY <1>1, <1>3

LEMMA IDsCalled ==
    ASSUME Types, IDInv, NEW o \in DOMAIN objects, NEW event \in Events,
           NEW received \in BOOLEAN, AcknowledgeIssuer(o, event, received)
    PROVE  IDInv'
<1> DEFINE ids == objects[o].ids
<1>1. /\ DOMAIN objects' = DOMAIN objects
      /\ \A p \in DOMAIN objects \ {o} : objects'[p] = objects[p]
      /\ ids \in IDSeq /\ ids # <<>>
      /\ objects'[o].ids = Tail(ids) /\ objects'[o].from = objects[o].from
  BY CallEffect
<1>2. PICK ok \in BOOLEAN : /\ Result(o, event, ok) \in Answer
                            /\ results' = Append(results, Result(o, event, ok))
  BY CallEffect
<1>3. saved' = saved
  BY DEF AcknowledgeIssuer
<1>4. PICK n : n = Len(results) + 1
  OBVIOUS
<1>5. /\ SavedInv'
      /\ n \notin DOMAIN results /\ DOMAIN results' = DOMAIN results \cup {n}
      /\ \A r \in DOMAIN results : results'[r] = results[r]
      /\ results'[n] = Result(o, event, ok)
  BY <1>2, <1>3, <1>4, IDsAnswered
<1>6. results'[n].object = o /\ results'[n].id = Head(ids)
  BY <1>5 DEF Result
<1>7. \A r \in DOMAIN results : results[r].id \in Nat /\ results[r].object \in DOMAIN objects
  <2>1. \A x \in Answer : x.id \in Nat
    BY DEF Answer
  <2>2. QED BY <2>1, ElementOf DEF Types, IDInv, ObjectInv
<1>8. Increasing(ids)
  BY DEF IDInv, ObjectInv
<1>9. /\ Increasing(Tail(ids)) /\ After(Tail(ids), Head(ids))
      /\ \A id \in Nat : After(ids, id) => After(Tail(ids), id)
      /\ \A k \in DOMAIN Tail(ids) : \E m \in DOMAIN ids : Tail(ids)[k] = ids[m]
      /\ 1 \in DOMAIN ids /\ Head(ids) = ids[1]
  BY <1>1, <1>8, TailIncreases, TailShifts
<1>10. ObjectInv'
  <2>1. \A p \in DOMAIN objects' : Increasing(objects'[p].ids)
    BY <1>1, <1>9 DEF IDInv, ObjectInv
  <2>2. \A r \in DOMAIN results :
           /\ results'[r].object \in DOMAIN objects'
           /\ After(objects'[results'[r].object].ids, results'[r].id)
    BY <1>1, <1>5, <1>7, <1>9 DEF IDInv, ObjectInv
  <2>3. results'[n].object \in DOMAIN objects'
        /\ After(objects'[results'[n].object].ids, results'[n].id)
    BY <1>1, <1>6, <1>9
  <2>4. QED BY <1>5, <2>1, <2>2, <2>3 DEF ObjectInv
<1>11. RestoredInv'
  <2>1. \A p \in DOMAIN objects : objects[p].from # 0 =>
          /\ objects[p].from \in DOMAIN saved
          /\ \A k \in DOMAIN objects[p].ids :
                Among(objects[p].ids[k], saved[objects[p].from].state.ids)
    BY DEF IDInv, RestoredInv
  <2>2. \A p \in DOMAIN objects' : objects'[p].from # 0 =>
          /\ objects'[p].from \in DOMAIN saved'
          /\ \A k \in DOMAIN objects'[p].ids :
                Among(objects'[p].ids[k], saved'[objects'[p].from].state.ids)
    <3>1. TAKE p \in DOMAIN objects'
    <3>2. CASE p # o
      BY <3>2, <2>1, <1>1, <1>3
    <3>3. CASE p = o
      BY <3>3, <2>1, <1>1, <1>3, <1>9
    <3>4. QED BY <3>2, <3>3
  <2>3. \A p \in DOMAIN objects : objects'[p].from = objects[p].from
    BY <1>1
  <2>4. \A r \in DOMAIN results :
          LET s == objects'[results'[r].object].from
          IN  s # 0 /\ results'[r].id # 0 => Among(results'[r].id, saved'[s].state.ids)
    BY <1>3, <1>5, <1>7, <2>3 DEF IDInv, RestoredInv
  <2>5. LET s == objects'[results'[n].object].from
        IN  s # 0 /\ results'[n].id # 0 => Among(results'[n].id, saved'[s].state.ids)
    BY <1>3, <1>6, <1>9, <2>1, <2>3
  <2>6. QED BY <1>5, <2>2, <2>4, <2>5 DEF RestoredInv
<1>12. QED BY <1>5, <1>10, <1>11 DEF IDInv

LEMMA IDsNotCalled ==
    ASSUME Types, IDInv, NEW o \in DOMAIN objects, AcknowledgeIssuerEmpty(o)
    PROVE  IDInv'
<1> DEFINE a == [object |-> o, id |-> 0, event |-> 0, ok |-> FALSE]
<1>1. objects' = objects /\ saved' = saved /\ results' = Append(results, a)
  BY DEF AcknowledgeIssuerEmpty
<1>2. o \in Nat /\ objects[o].ids = <<>>
  BY ElementOf DEF Types, AcknowledgeIssuerEmpty
<1>3. a \in Answer /\ a.object = o /\ a.id = 0
  BY <1>2 DEF Answer
<1> HIDE DEF a
<1>4. PICK n : n = Len(results) + 1
  OBVIOUS
<1>5. /\ SavedInv'
      /\ n \notin DOMAIN results /\ DOMAIN results' = DOMAIN results \cup {n}
      /\ \A r \in DOMAIN results : results'[r] = results[r]
      /\ results'[n] = a
  BY <1>1, <1>3, <1>4, IDsAnswered
<1>6. After(objects[o].ids, 0)
  BY <1>2, EmptySeq DEF After
<1>7. ObjectInv'
  BY <1>1, <1>3, <1>5, <1>6 DEF IDInv, ObjectInv
<1>8. RestoredInv'
  BY <1>1, <1>3, <1>5 DEF IDInv, RestoredInv
<1>9. QED BY <1>5, <1>7, <1>8 DEF IDInv

LEMMA IDsStep == Types /\ IDInv /\ [Next]_vars => IDInv'
<1> SUFFICES ASSUME Types, IDInv, [Next]_vars PROVE IDInv'
  OBVIOUS
<1>1. CASE storeAcknowledgmentID \/ TokenExpires \/ UNCHANGED vars
  <2>1. objects' = objects /\ saved' = saved /\ results' = results
    BY <1>1 DEF storeAcknowledgmentID, TokenExpires, vars
  <2>2. ObjectsKeep
    BY <2>1 DEF ObjectsKeep, Types
  <2>3. QED BY <2>1, <2>2, IDsKept
<1>2. CASE Acknowledgment
  <2>1. /\ saved' = saved /\ results' = results /\ stored > 0
        /\ objects' = Append(objects, NewObject(0, [i \in 1..stored |-> i], 0, expiresIn))
    BY <1>2 DEF Acknowledgment
  <2>2. expiresIn \in BOOLEAN
    BY DEF Types
  <2>3. QED BY <2>1, <2>2, HandedOut, IDsOfNewObject
<1>3. CASE Crash
  BY <1>3, DieKeeps, IDsKept DEF Crash, Die
<1>4. ASSUME NEW s \in DOMAIN saved, NewAcknowledgment(s) PROVE IDInv'
  <2>1. saved[s].state \in StateOf /\ s \in Nat
    BY ElementOf, SavedFields DEF Types
  <2>2. /\ saved[s].state.ids \in IDSeq /\ saved[s].state.details \in Details \cup {0}
        /\ saved[s].state.expiry \in BOOLEAN
    BY <2>1 DEF StateOf
  <2>3. Increasing(saved[s].state.ids)
    BY DEF IDInv, SavedInv
  <2>4. QED BY <1>4, <2>1, <2>2, <2>3, IDsOfNewObject DEF NewAcknowledgment
<1>5. ASSUME NEW o \in LiveObjects, NEW d \in Details \cup {0}, SetInteractionDetails(o, d)
      PROVE  IDInv'
  <2>1. o \in DOMAIN objects
    BY DEF LiveObjects
  <2>2. QED BY <1>5, <2>1, SetKeeps, IDsKept DEF SetInteractionDetails
<1>6. ASSUME NEW o \in LiveObjects, NEW e \in Events, NEW received \in BOOLEAN,
             AcknowledgeIssuer(o, e, received)
      PROVE  IDInv'
  BY <1>6, IDsCalled DEF LiveObjects
<1>7. ASSUME NEW o \in LiveObjects, AcknowledgeIssuerEmpty(o) PROVE IDInv'
  BY <1>7, IDsNotCalled DEF LiveObjects
<1>8. ASSUME NEW o \in LiveObjects, Serialize(o) PROVE IDInv'
  BY <1>8, IDsSaved
<1>9. ASSUME NEW o \in LiveObjects, NEW e \in Events, CrashWhileSending(o, e) PROVE IDInv'
  BY <1>9, DieKeeps, IDsKept DEF CrashWhileSending, Die
<1>10. QED BY <1>1, <1>2, <1>3, <1>4, <1>5, <1>6, <1>7, <1>8, <1>9 DEF Next

(* What was acknowledged before an object was saved is not acknowledged again *)
(* by one restored from it: NewAcknowledgment restores what Serialize wrote,  *)
(* and AcknowledgeIssuer takes each ID off the list before it sends it.       *)
THEOREM RestoredAcknowledgmentsDoNotRepeat == Spec => []RestoredDoesNotRepeat
<1>1. Init => IDInv
  BY EmptySeq DEF Init, IDInv, ObjectInv, SavedInv, RestoredInv
<1>2. Types /\ IDInv => RestoredDoesNotRepeat
  <2> SUFFICES ASSUME Types, IDInv, NEW r \in DOMAIN results, NEW q \in DOMAIN results,
                      NEW s, s = objects[results[q].object].from, s # 0,
                      saved[s].object = results[r].object, r <= saved[s].since,
                      results[q].id # 0
               PROVE  results[q].id # results[r].id
    BY DEF RestoredDoesNotRepeat
  <2>1. results[q].object \in DOMAIN objects
    BY DEF IDInv, ObjectInv
  <2>2. s \in DOMAIN saved
    BY <2>1 DEF IDInv, RestoredInv
  <2>3. After(saved[s].state.ids, results[r].id)
    BY <2>2 DEF IDInv, SavedInv
  <2>4. Among(results[q].id, saved[s].state.ids)
    BY DEF IDInv, RestoredInv
  <2>5. PICK k \in DOMAIN saved[s].state.ids : saved[s].state.ids[k] = results[q].id
    BY <2>4 DEF Among
  <2>6. results[r].id < results[q].id
    BY <2>3, <2>5 DEF After
  <2>7. results[r].id \in Nat
    <3>1. \A x \in Answer : x.id \in Nat
      BY DEF Answer
    <3>2. QED BY <3>1, ElementOf DEF Types
  <2>8. QED BY <2>6, <2>7
<1>3. QED BY <1>1, <1>2, IDsStep, TypesInvariant, PTL DEF Spec

-----------------------------------------------------------------------------
(* Expiry.                                                                    *)

(* No variable but the objects, the saved states and the notifications.       *)
LEMMA ExpiryOfNewObject ==
    ASSUME Types, ExpiryInv, expired' = expired, expiresIn' = expiresIn,
           saved' = saved, notifications' = notifications,
           NEW from \in Nat, NEW ids \in IDSeq, NEW d \in Details \cup {0}, NEW e \in BOOLEAN,
           objects' = Append(objects, NewObject(from, ids, d, e)), e = expiresIn
    PROVE  ExpiryInv'
<1> DEFINE n == Len(objects) + 1
<1>1. /\ DOMAIN objects' = DOMAIN objects \cup {n}
      /\ \A o \in DOMAIN objects : objects'[o] = objects[o]
      /\ objects'[n].expiry = e
  BY ObjectAdded
<1> HIDE DEF n
<1>2. \A o \in DOMAIN objects' : objects'[o].expiry = expiresIn'
  BY <1>1, Zenon DEF ExpiryInv
<1>3. QED BY <1>2, Zenon DEF ExpiryInv

(* A notification that is sent while the token is valid.                      *)
LEMMA ExpiryOfNotification ==
    ASSUME Types, ExpiryInv, NEW o \in DOMAIN objects, NEW event \in Events,
           Notification(o, event) \in Sent, TokenIsValid(o),
           notifications' = Append(notifications, Notification(o, event))
    PROVE  \A n \in DOMAIN notifications' : ~notifications'[n].expired
<1>1. ~expired
  BY Zenon DEF TokenIsValid, ExpiryInv
<1>2. ~Notification(o, event).expired
  BY <1>1, Zenon DEF Notification
<1> DEFINE sent == Len(notifications) + 1
<1>3. /\ DOMAIN notifications' = DOMAIN notifications \cup {sent}
      /\ \A n \in DOMAIN notifications : notifications'[n] = notifications[n]
      /\ notifications'[sent] = Notification(o, event)
  BY AppendGrows DEF Types
<1> HIDE DEF sent
<1>4. ASSUME NEW n \in DOMAIN notifications PROVE ~notifications'[n].expired
  BY <1>3, Zenon DEF ExpiryInv
<1>5. QED BY <1>2, <1>3, <1>4, Zenon

LEMMA ExpiryStep == Types /\ ExpiryInv /\ [Next]_vars => ExpiryInv'
<1> SUFFICES ASSUME Types, ExpiryInv, [Next]_vars PROVE ExpiryInv'
  OBVIOUS
<1>1. CASE storeAcknowledgmentID \/ UNCHANGED vars
  <2>1. /\ objects' = objects /\ saved' = saved /\ notifications' = notifications
        /\ expired' = expired /\ expiresIn' = expiresIn
    BY <1>1, Zenon DEF storeAcknowledgmentID, vars
  <2>2. QED BY <2>1, Zenon DEF ExpiryInv
<1>11. CASE TokenExpires
  BY <1>11, Zenon DEF TokenExpires, ExpiryInv
<1>2. CASE Acknowledgment
  <2>1. /\ saved' = saved /\ notifications' = notifications /\ stored > 0
        /\ expired' = expired /\ expiresIn' = expiresIn
        /\ objects' = Append(objects, NewObject(0, [i \in 1..stored |-> i], 0, expiresIn))
    BY <1>2 DEF Acknowledgment
  <2>2. expiresIn \in BOOLEAN
    BY DEF Types
  <2>3. QED BY <2>1, <2>2, HandedOut, ExpiryOfNewObject
<1>3. CASE Crash
  <2>1. ObjectsKeep
    BY <1>3, DieKeeps DEF Crash
  <2>2. QED BY <1>3, <2>1, Zenon DEF Crash, Die, ObjectsKeep, ExpiryInv
<1>4. ASSUME NEW s \in DOMAIN saved, NewAcknowledgment(s) PROVE ExpiryInv'
  <2>1. saved[s].state \in StateOf /\ s \in Nat
    BY ElementOf, SavedFields DEF Types
  <2>2. /\ saved[s].state.ids \in IDSeq /\ saved[s].state.details \in Details \cup {0}
        /\ saved[s].state.expiry \in BOOLEAN
    BY <2>1 DEF StateOf
  <2>3. saved[s].state.expiry = expiresIn
    BY DEF ExpiryInv
  <2>4. QED BY <1>4, <2>1, <2>2, <2>3, ExpiryOfNewObject DEF NewAcknowledgment
<1>5. ASSUME NEW o \in LiveObjects, NEW d \in Details \cup {0}, SetInteractionDetails(o, d)
      PROVE  ExpiryInv'
  <2>1. ObjectsKeep
    BY <1>5, SetKeeps DEF LiveObjects
  <2>2. QED BY <1>5, <2>1, Zenon DEF SetInteractionDetails, ObjectsKeep, ExpiryInv
<1>6. ASSUME NEW o \in LiveObjects, NEW e \in Events, NEW received \in BOOLEAN,
             AcknowledgeIssuer(o, e, received)
      PROVE  ExpiryInv'
  <2>1. o \in DOMAIN objects
    BY DEF LiveObjects
  <2>2. /\ DOMAIN objects' = DOMAIN objects
        /\ \A p \in DOMAIN objects : objects'[p].expiry = objects[p].expiry
        /\ Notification(o, e) \in Sent
    <3>1. /\ DOMAIN objects' = DOMAIN objects
          /\ \A p \in DOMAIN objects \ {o} : objects'[p] = objects[p]
          /\ objects'[o].expiry = objects[o].expiry
          /\ Notification(o, e) \in Sent
      BY <1>6, <2>1, CallEffect
    <3>2. QED BY <3>1, Zenon
  <2>3. \A n \in DOMAIN notifications' : ~notifications'[n].expired
    <3>1. CASE received
      BY <1>6, <2>1, <2>2, <3>1, ExpiryOfNotification DEF AcknowledgeIssuer
    <3>2. CASE ~received
      BY <1>6, <3>2, Zenon DEF AcknowledgeIssuer, ExpiryInv
    <3>3. QED BY <3>1, <3>2
  <2>4. expired' = expired /\ expiresIn' = expiresIn /\ saved' = saved
    BY <1>6 DEF AcknowledgeIssuer
  <2>5. QED BY <2>2, <2>3, <2>4, Zenon DEF ExpiryInv
<1>7. ASSUME NEW o \in LiveObjects, AcknowledgeIssuerEmpty(o) PROVE ExpiryInv'
  BY <1>7, Zenon DEF AcknowledgeIssuerEmpty, ExpiryInv
<1>8. ASSUME NEW o \in LiveObjects, Serialize(o) PROVE ExpiryInv'
  <2> DEFINE n == Len(saved) + 1
             new == [object |-> o, since |-> Len(results), state |-> State(o)]
  <2>1. /\ objects' = objects /\ expired' = expired /\ expiresIn' = expiresIn
        /\ notifications' = notifications /\ saved' = Append(saved, new)
    BY <1>8 DEF Serialize
  <2>2. objects[o] \in Object /\ o \in Nat /\ o \in DOMAIN objects /\ Len(results) \in Nat
    BY ElementOf, LenProperties DEF LiveObjects, Types
  <2>3. State(o) \in StateOf
    BY <2>2, ObjectFields DEF State, StateOf
  <2>4. new \in Saved
    BY <2>2, <2>3 DEF Saved
  <2>5. new.state.expiry = expiresIn
    BY <2>2, Zenon DEF State, ExpiryInv
  <2> HIDE DEF new
  <2>6. /\ DOMAIN saved' = DOMAIN saved \cup {n}
        /\ \A s \in DOMAIN saved : saved'[s] = saved[s]
        /\ saved'[n] = new
    BY <2>1, <2>4, AppendGrows DEF Types
  <2> HIDE DEF n
  <2>7. \A s \in DOMAIN saved' : saved'[s].state.expiry = expiresIn
    BY <2>5, <2>6, Zenon DEF ExpiryInv
  <2>8. QED BY <2>1, <2>7, Zenon DEF ExpiryInv
<1>9. ASSUME NEW o \in LiveObjects, NEW e \in Events, CrashWhileSending(o, e) PROVE ExpiryInv'
  <2>1. ObjectsKeep
    BY <1>9, DieKeeps DEF CrashWhileSending
  <2>2. objects[o] \in Object /\ objects[o].ids \in IDSeq /\ o \in Nat /\ o \in DOMAIN objects
    BY ElementOf, ObjectFields DEF LiveObjects, Types
  <2>3. Notification(o, e) \in Sent
    BY <1>9, <2>2, TailShifts, ObjectFields
       DEF CrashWhileSending, Notification, Sent, Types
  <2>4. \A n \in DOMAIN notifications' : ~notifications'[n].expired
    BY <1>9, <2>2, <2>3, ExpiryOfNotification DEF CrashWhileSending
  <2>5. QED BY <1>9, <2>1, <2>4, Zenon DEF CrashWhileSending, Die, ObjectsKeep, ExpiryInv
<1>10. QED BY <1>1, <1>2, <1>3, <1>4, <1>5, <1>6, <1>7, <1>8, <1>9, <1>11 DEF Next

(* Nothing is sent with a token known to be expired: Serialize keeps when the *)
(* token expires, so the OAuth client of a restored object refuses as well.   *)
THEOREM ExpiredTokensAreNotSent == Spec => []NothingSentAfterExpiry
<1>1. Init => ExpiryInv
  <2>1. DOMAIN <<>> = {}
    BY EmptySeq
  <2>2. QED BY <2>1, Zenon DEF Init, ExpiryInv
<1>2. ExpiryInv => NothingSentAfterExpiry
  BY Zenon DEF ExpiryInv, NothingSentAfterExpiry
<1>3. QED BY <1>1, <1>2, ExpiryStep, TypesInvariant, PTL DEF Spec

-----------------------------------------------------------------------------
(* Success.                                                                   *)

(* x was told to the issuer in one of the notifications sent.                 *)
IsTold(x, sent) ==
    \E n \in DOMAIN sent :
        sent[n].object = x.object /\ sent[n].id = x.id /\ sent[n].event = x.event

LEMMA OkMeansTold ==
    /\ OkMeansNotified <=> \A r \in DOMAIN results :
           results[r].ok => IsTold(results[r], notifications)
    /\ OkMeansNotified' <=> \A r \in DOMAIN results' :
           results'[r].ok => IsTold(results'[r], notifications')
BY Zenon DEF OkMeansNotified, IsTold

LEMMA OkMeansNotifiedStep == Types /\ OkMeansNotified /\ [Next]_vars => OkMeansNotified'
<1> SUFFICES ASSUME Types, [Next]_vars,
                    \A r \in DOMAIN results :
                        results[r].ok => IsTold(results[r], notifications)
             PROVE  \A r \in DOMAIN results' :
                        results'[r].ok => IsTold(results'[r], notifications')
  BY OkMeansTold, Zenon
<1> DEFINE Told == \A r \in DOMAIN results' :
                       results'[r].ok => IsTold(results'[r], notifications')
<1>1. ASSUME results' = results, notifications' = notifications PROVE Told
  BY <1>1, Zenon
<1>2. ASSUME NEW o \in LiveObjects, NEW e \in Events, NEW received \in BOOLEAN,
             AcknowledgeIssuer(o, e, received)
      PROVE  Told
  <2> DEFINE n == Len(results) + 1
             sent == Len(notifications) + 1
  <2>1. o \in DOMAIN objects
    BY DEF LiveObjects
  <2>2. PICK ok \in BOOLEAN : /\ ok => received
                              /\ Result(o, e, ok) \in Answer
                              /\ results' = Append(results, Result(o, e, ok))
    BY <1>2, <2>1, CallEffect
  <2>3. /\ DOMAIN results' = DOMAIN results \cup {n}
        /\ \A r \in DOMAIN results : results'[r] = results[r]
        /\ results'[n] = Result(o, e, ok)
    BY <2>2, AppendGrows DEF Types
  <2>4. ASSUME received
        PROVE  /\ sent \in DOMAIN notifications'
               /\ \A m \in DOMAIN notifications :
                     m \in DOMAIN notifications' /\ notifications'[m] = notifications[m]
               /\ notifications'[sent] = Notification(o, e)
    <3>1. notifications' = Append(notifications, Notification(o, e))
      BY <1>2, <2>4, Zenon DEF AcknowledgeIssuer
    <3>2. Notification(o, e) \in Sent
      BY <1>2, <2>1, CallEffect
    <3>3. QED BY <3>1, <3>2, AppendGrows DEF Types
  <2>5. ASSUME ~received
        PROVE  notifications' = notifications
    BY <1>2, <2>5, Zenon DEF AcknowledgeIssuer
  <2> HIDE DEF n, sent
  <2>6. \A m \in DOMAIN notifications :
            m \in DOMAIN notifications' /\ notifications'[m] = notifications[m]
    BY <2>4, <2>5, Zenon
  <2>7. ASSUME NEW r \in DOMAIN results, results'[r].ok
        PROVE  IsTold(results'[r], notifications')
    <3>1. results'[r] = results[r]
      BY <2>3
    <3>2. IsTold(results[r], notifications)
      BY <2>7, <3>1, Zenon
    <3>3. QED BY <2>6, <3>1, <3>2, Zenon DEF IsTold
  <2>8. ASSUME results'[n].ok
        PROVE  IsTold(results'[n], notifications')
    <3>1. results'[n] = Result(o, e, ok)
      BY <2>3
    <3>2. Result(o, e, ok).ok = ok
      BY Zenon DEF Result
    <3>3. received
      BY <2>2, <2>8, <3>1, <3>2, Zenon
    <3>4. /\ Result(o, e, ok).object = o /\ Result(o, e, ok).id = Head(objects[o].ids)
          /\ Result(o, e, ok).event = e
      BY DEF Result
    <3>5. /\ Notification(o, e).object = o /\ Notification(o, e).id = Head(objects[o].ids)
          /\ Notification(o, e).event = e
      BY DEF Notification
    <3>6. IsTold(Result(o, e, ok), notifications')
      BY <2>4, <3>3, <3>4, <3>5, Zenon DEF IsTold
    <3>7. QED BY <3>1, <3>6, Zenon
  <2>9. QED BY <2>3, <2>7, <2>8, Zenon
<1>3. ASSUME NEW o \in LiveObjects, AcknowledgeIssuerEmpty(o) PROVE Told
  <2> DEFINE n == Len(results) + 1
             a == [object |-> o, id |-> 0, event |-> 0, ok |-> FALSE]
  <2>1. notifications' = notifications /\ results' = Append(results, a)
    BY <1>3 DEF AcknowledgeIssuerEmpty
  <2>2. o \in Nat
    BY ElementOf DEF LiveObjects, Types
  <2>3. a \in Answer
    BY <2>2 DEF Answer
  <2>4. ~a.ok
    BY Zenon
  <2> HIDE DEF a
  <2>5. /\ DOMAIN results' = DOMAIN results \cup {n}
        /\ \A r \in DOMAIN results : results'[r] = results[r]
        /\ results'[n] = a
    BY <2>1, <2>3, AppendGrows DEF Types
  <2> HIDE DEF n
  <2>6. ~results'[n].ok
    BY <2>4, <2>5, Zenon
  <2>7. ASSUME NEW r \in DOMAIN results, results'[r].ok
        PROVE  IsTold(results'[r], notifications')
    <3>1. results'[r] = results[r]
      BY <2>5
    <3>2. QED BY <2>1, <2>7, <3>1, Zenon
  <2>8. QED BY <2>5, <2>6, <2>7, Zenon
<1>4. ASSUME NEW o \in LiveObjects, NEW e \in Events, CrashWhileSending(o, e)
      PROVE  Told
  <2>1. objects[o] \in Object /\ objects[o].ids \in IDSeq /\ o \in Nat /\ o \in DOMAIN objects
    BY ElementOf, ObjectFields DEF LiveObjects, Types
  <2>2. Notification(o, e) \in Sent
    BY <1>4, <2>1, TailShifts, ObjectFields
       DEF CrashWhileSending, Notification, Sent, Types
  <2>3. results' = results /\ notifications' = Append(notifications, Notification(o, e))
    BY <1>4 DEF CrashWhileSending, Die
  <2>4. \A m \in DOMAIN notifications :
            m \in DOMAIN notifications' /\ notifications'[m] = notifications[m]
    BY <2>2, <2>3, AppendGrows DEF Types
  <2>5. ASSUME NEW r \in DOMAIN results, results[r].ok
        PROVE  IsTold(results[r], notifications')
    <3>1. IsTold(results[r], notifications)
      BY <2>5, Zenon
    <3>2. QED BY <2>4, <3>1, Zenon DEF IsTold
  <2>6. QED BY <2>3, <2>5, Zenon
<1>5. ASSUME storeAcknowledgmentID \/ Acknowledgment \/ TokenExpires \/ Crash
                \/ UNCHANGED vars
      PROVE  Told
  BY <1>1, <1>5 DEF storeAcknowledgmentID, Acknowledgment, TokenExpires, Crash, Die, vars
<1>6. ASSUME NEW s \in DOMAIN saved, NewAcknowledgment(s) PROVE Told
  BY <1>1, <1>6 DEF NewAcknowledgment
<1>7. ASSUME NEW o \in LiveObjects, NEW d \in Details \cup {0}, SetInteractionDetails(o, d)
      PROVE  Told
  BY <1>1, <1>7 DEF SetInteractionDetails
<1>8. ASSUME NEW o \in LiveObjects, Serialize(o) PROVE Told
  BY <1>1, <1>8 DEF Serialize
<1> HIDE DEF Told
<1>9. Told
  BY <1>2, <1>3, <1>4, <1>5, <1>6, <1>7, <1>8 DEF Next
<1>10. QED BY <1>9 DEF Told

(* A call that reported success reached the issuer with that event: only a    *)
(* response that was read makes AcknowledgeIssuer succeed.                    *)
THEOREM SuccessMeansNotified == Spec => []OkMeansNotified
<1>1. Init => OkMeansNotified
  <2>1. DOMAIN <<>> = {}
    BY EmptySeq
  <2>2. QED BY <2>1, Zenon DEF Init, OkMeansNotified
<1>2. QED BY <1>1, OkMeansNotifiedStep, TypesInvariant, PTL DEF Spec

-----------------------------------------------------------------------------
(* The n-th call on an object is about the n-th credential it was made for.   *)

Called(o) == Cardinality(CallsOn(o))

(* What is left of an object's list follows what calls took off it.           *)
Leaves(handed, called, ids) ==
    /\ Len(handed) = called + Len(ids)
    /\ \A k \in DOMAIN ids : ids[k] = handed[called + k]

(* The r-th result, if it took an ID, took the one whose turn it was.         *)
TookItsTurn(o, r) == results[r].id = objects[o].handed[Cardinality(CallsUpTo(o, r))]

ListInv ==
    \A o \in DOMAIN objects :
        /\ Leaves(objects[o].handed, Called(o), objects[o].ids)
        /\ \A r \in CallsOn(o) : TookItsTurn(o, r)

-----------------------------------------------------------------------------
(* Counting calls.                                                            *)

LEMMA CallsAreFinite ==
    ASSUME Types, NEW o
    PROVE  IsFiniteSet(CallsOn(o)) /\ Called(o) \in Nat
<1>1. PICK n \in Nat : DOMAIN results = 1..n
  BY LenProperties DEF Types
<1>2. IsFiniteSet(1..n)
  BY FS_Interval
<1>3. CallsOn(o) \in SUBSET (1..n)
  BY <1>1 DEF CallsOn
<1>4. IsFiniteSet(CallsOn(o))
  BY <1>2, <1>3, FS_Subset
<1>5. QED BY <1>4, FS_CardinalityType DEF Called

(* A result that is added counts for its object if it took an ID, and leaves  *)
(* the count up to earlier results alone.                                     *)
LEMMA CallsGrow ==
    ASSUME Types, NEW a \in Answer, results' = Append(results, a),
           NEW n, n = Len(results) + 1, NEW p
    PROVE  /\ CallsOn(p)' = IF a.object = p /\ a.id # 0 THEN CallsOn(p) \cup {n}
                            ELSE CallsOn(p)
           /\ n \notin CallsOn(p) /\ CallsUpTo(p, n)' = CallsOn(p)'
           /\ \A r \in CallsOn(p) : /\ r \in DOMAIN results /\ results'[r] = results[r]
                                    /\ CallsUpTo(p, r)' = CallsUpTo(p, r)
<1>1. /\ n \notin DOMAIN results /\ DOMAIN results' = DOMAIN results \cup {n}
      /\ \A r \in DOMAIN results : results'[r] = results[r]
      /\ results'[n] = a
  BY AppendGrows DEF Types
<1>2. n \in Nat /\ \A r \in DOMAIN results : r \in Nat /\ r < n
  BY LenProperties DEF Types
<1>3. CallsOn(p)' = IF a.object = p /\ a.id # 0 THEN CallsOn(p) \cup {n} ELSE CallsOn(p)
  BY <1>1 DEF CallsOn
<1>4. CallsOn(p) \subseteq DOMAIN results /\ CallsOn(p)' \subseteq DOMAIN results \cup {n}
  BY <1>1 DEF CallsOn
<1>5. CallsUpTo(p, n)' = CallsOn(p)'
  BY <1>2, <1>4 DEF CallsUpTo
<1>6. \A r \in CallsOn(p) : CallsUpTo(p, r)' = CallsUpTo(p, r)
  BY <1>2, <1>3, <1>4 DEF CallsUpTo
<1>7. QED BY <1>1, <1>3, <1>4, <1>5, <1>6

-----------------------------------------------------------------------------
(* Effects of the actions on the lists.                                       *)

ListsKeep ==
    /\ DOMAIN objects' = DOMAIN objects
    /\ \A o \in DOMAIN objects : /\ objects'[o].ids = objects[o].ids
                                 /\ objects'[o].handed = objects[o].handed

LEMMA ListsKept ==
    ASSUME ListInv, ListsKeep, results' = results
    PROVE  ListInv'
<1>1. \A o : CallsOn(o)' = CallsOn(o) /\ Called(o)' = Called(o)
  BY Zenon DEF CallsOn, Called
<1>2. ASSUME NEW o \in DOMAIN objects
      PROVE  /\ Leaves(objects'[o].handed, Called(o)', objects'[o].ids)
             /\ \A r \in CallsOn(o)' : TookItsTurn(o, r)'
  <2>1. objects'[o].ids = objects[o].ids /\ objects'[o].handed = objects[o].handed
    BY DEF ListsKeep
  <2>2. ASSUME NEW r \in CallsOn(o) PROVE TookItsTurn(o, r)'
    <3>1. TookItsTurn(o, r)
      BY DEF ListInv
    <3>2. CallsUpTo(o, r)' = CallsUpTo(o, r)
      BY <1>1 DEF CallsUpTo
    <3>3. QED BY <2>1, <3>1, <3>2, Zenon DEF TookItsTurn
  <2>3. Leaves(objects[o].handed, Called(o), objects[o].ids)
    BY DEF ListInv
  <2>4. QED BY <1>1, <2>1, <2>2, <2>3
<1>3. QED BY <1>2, Zenon DEF ListInv, ListsKeep

LEMMA DieKeepsLists ==
    ASSUME Types, Die
    PROVE  ListsKeep
<1>1. \A x \in Object : [x EXCEPT !.live = FALSE].ids = x.ids
                        /\ [x EXCEPT !.live = FALSE].handed = x.handed
  BY DEF Object
<1>2. \A o \in DOMAIN objects : objects[o] \in Object
  BY ElementOf DEF Types
<1>3. QED BY <1>1, <1>2, Zenon DEF Die, ListsKeep

LEMMA SetKeepsLists ==
    ASSUME Types, NEW o \in DOMAIN objects, NEW d \in Details \cup {0},
           SetInteractionDetails(o, d)
    PROVE  ListsKeep
<1> DEFINE new == [objects[o] EXCEPT !.details = d, !.sets = @ + 1]
<1>1. objects[o] \in Object
  BY ElementOf DEF Types
<1>2. new \in Object /\ new.ids = objects[o].ids /\ new.handed = objects[o].handed
  <2>1. PICK k \in Nat : k = objects[o].sets + 1
    BY <1>1, ObjectFields
  <2>2. new = [objects[o] EXCEPT !.details = d, !.sets = k]
    BY <2>1
  <2>3. QED BY <1>1, <2>2 DEF Object
<1>3. objects' = [objects EXCEPT ![o] = new]
  BY DEF SetInteractionDetails
<1> HIDE DEF new
<1>4. QED BY <1>2, <1>3, ReplaceObject DEF Types, ListsKeep

(* A new object has its whole list, and no call is on it yet.                 *)
LEMMA NewObjectLists ==
    ASSUME Types, IDInv, ListInv, results' = results,
           NEW from \in Nat, NEW ids \in IDSeq, NEW d \in Details \cup {0}, NEW e \in BOOLEAN,
           objects' = Append(objects, NewObject(from, ids, d, e))
    PROVE  ListInv'
<1>0. PICK n : n = Len(objects) + 1
  OBVIOUS
<1>1. /\ n \notin DOMAIN objects /\ DOMAIN objects' = DOMAIN objects \cup {n}
      /\ \A o \in DOMAIN objects : objects'[o] = objects[o]
      /\ objects'[n].ids = ids
  BY <1>0, ObjectAdded
<1>2. objects'[n].handed = ids
  <2>1. NewObject(from, ids, d, e) \in Object /\ NewObject(from, ids, d, e).handed = ids
    BY DEF NewObject, Object
  <2>2. QED BY <1>0, <2>1, AppendGrows DEF Types
<1>3. CallsOn(n) = {}
  BY <1>1 DEF CallsOn, IDInv, ObjectInv
<1>4. Called(n) = 0
  BY <1>3, FS_EmptySet DEF Called
<1>5. Leaves(ids, 0, ids)
  BY LenProperties DEF Leaves, IDSeq
<1>6. \A o : CallsOn(o)' = CallsOn(o) /\ Called(o)' = Called(o)
             /\ \A r : CallsUpTo(o, r)' = CallsUpTo(o, r)
  BY Zenon DEF CallsOn, CallsUpTo, Called
<1>7. ASSUME NEW o \in DOMAIN objects
      PROVE  /\ Leaves(objects'[o].handed, Called(o)', objects'[o].ids)
             /\ \A r \in CallsOn(o)' : TookItsTurn(o, r)'
  <2>1. ASSUME NEW r \in CallsOn(o) PROVE TookItsTurn(o, r)'
    BY <1>1, <1>6, Zenon DEF ListInv, TookItsTurn
  <2>2. QED BY <1>1, <1>6, <2>1, Zenon DEF ListInv
<1>8. /\ Leaves(objects'[n].handed, Called(n)', objects'[n].ids)
      /\ \A r \in CallsOn(n)' : TookItsTurn(n, r)'
  <2>1. CallsOn(n)' = {} /\ Called(n)' = 0
    BY <1>3, <1>4, <1>6
  <2>2. Leaves(objects'[n].handed, Called(n)', objects'[n].ids)
    BY <1>1, <1>2, <1>5, <2>1
  <2>3. QED BY <2>1, <2>2
<1>9. ASSUME NEW o \in DOMAIN objects'
      PROVE  /\ Leaves(objects'[o].handed, Called(o)', objects'[o].ids)
             /\ \A r \in CallsOn(o)' : TookItsTurn(o, r)'
  BY <1>1, <1>7, <1>8, Zenon
<1>10. QED BY <1>9, Zenon DEF ListInv

(* A call takes the first ID that is left.                                    *)
LEMMA CallTakesNext ==
    ASSUME Types, ListInv, NEW o \in DOMAIN objects, NEW event \in Events,
           NEW received \in BOOLEAN, AcknowledgeIssuer(o, event, received)
    PROVE  ListInv'
<1> DEFINE ids == objects[o].ids
           handed == objects[o].handed
<1>1. /\ DOMAIN objects' = DOMAIN objects
      /\ \A p \in DOMAIN objects \ {o} : objects'[p] = objects[p]
      /\ ids \in IDSeq /\ ids # <<>>
      /\ objects'[o].ids = Tail(ids)
  BY CallEffect
<1>2. objects'[o].handed = handed /\ handed \in IDSeq
  <2>1. objects[o] \in Object
    BY ElementOf DEF Types
  <2>2. /\ [objects[o] EXCEPT !.ids = Tail(ids)].handed = handed
        /\ [objects[o] EXCEPT !.ids = Tail(ids)] \in Object
    BY <2>1, <1>1, TailShifts DEF Object
  <2>3. QED BY <2>1, <2>2, ReplaceObject, ObjectFields
            DEF Types, AcknowledgeIssuer, RemainingIDs
<1>3. PICK ok \in BOOLEAN : /\ Result(o, event, ok) \in Answer
                            /\ results' = Append(results, Result(o, event, ok))
  BY CallEffect
<1>4. /\ Result(o, event, ok).object = o /\ Result(o, event, ok).id = Head(ids)
      /\ Head(ids) \in Nat \ {0} /\ Head(ids) = ids[1] /\ 1 \in DOMAIN ids
  BY <1>1, TailShifts DEF Result
<1>5. PICK n : n = Len(results) + 1
  OBVIOUS
<1>6. results'[n] = Result(o, event, ok)
  BY <1>3, <1>5, AppendGrows DEF Types
<1>7. ASSUME NEW p \in DOMAIN objects, p # o
      PROVE  /\ Leaves(objects'[p].handed, Called(p)', objects'[p].ids)
             /\ \A r \in CallsOn(p)' : TookItsTurn(p, r)'
  <2>1. /\ CallsOn(p)' = CallsOn(p)
        /\ \A r \in CallsOn(p) : /\ results'[r] = results[r]
                                 /\ CallsUpTo(p, r)' = CallsUpTo(p, r)
    BY <1>3, <1>4, <1>5, <1>7, CallsGrow
  <2>2. objects'[p] = objects[p]
    BY <1>1, <1>7
  <2>3. Called(p)' = Called(p)
    BY <2>1, Zenon DEF Called
  <2>4. ASSUME NEW r \in CallsOn(p) PROVE TookItsTurn(p, r)'
    BY <2>1, <2>2, Zenon DEF ListInv, TookItsTurn
  <2>5. QED BY <2>1, <2>2, <2>3, <2>4, Zenon DEF ListInv
<1>8. /\ CallsOn(o)' = CallsOn(o) \cup {n} /\ n \notin CallsOn(o)
      /\ CallsUpTo(o, n)' = CallsOn(o)'
      /\ \A r \in CallsOn(o) : /\ results'[r] = results[r]
                               /\ CallsUpTo(o, r)' = CallsUpTo(o, r)
  BY <1>3, <1>4, <1>5, CallsGrow
<1>9. Called(o)' = Called(o) + 1 /\ Called(o) \in Nat
  BY <1>8, CallsAreFinite, FS_AddElement DEF Called
<1>10. Leaves(handed, Called(o), ids)
  BY DEF ListInv
<1>11. Leaves(handed, Called(o) + 1, Tail(ids))
  <2>1. Len(ids) \in Nat /\ Len(Tail(ids)) = Len(ids) - 1
    BY <1>1, HeadTailProperties, LenProperties DEF IDSeq
  <2>2. \A k \in DOMAIN Tail(ids) : /\ k \in Nat /\ k + 1 \in DOMAIN ids
                                    /\ Tail(ids)[k] = ids[k + 1]
    BY <1>1, TailShifts
  <2>3. ASSUME NEW k \in DOMAIN Tail(ids)
        PROVE  Tail(ids)[k] = handed[Called(o) + 1 + k]
    <3>1. ids[k + 1] = handed[Called(o) + (k + 1)]
      BY <1>10, <2>2, Zenon DEF Leaves
    <3>2. Called(o) + (k + 1) = Called(o) + 1 + k
      BY <1>9, <2>2
    <3>3. QED BY <2>2, <3>1, <3>2
  <2>4. Len(handed) = Called(o) + 1 + Len(Tail(ids))
    BY <1>9, <1>10, <2>1 DEF Leaves
  <2>5. QED BY <2>3, <2>4 DEF Leaves
<1>12. Head(ids) = handed[Called(o) + 1]
  BY <1>4, <1>10, Zenon DEF Leaves
<1>13. \A r \in CallsOn(o)' : TookItsTurn(o, r)'
  <2>1. TookItsTurn(o, n)'
    BY <1>2, <1>4, <1>6, <1>8, <1>9, <1>12 DEF TookItsTurn, Called
  <2>2. \A r \in CallsOn(o) : TookItsTurn(o, r)'
    BY <1>2, <1>8, Zenon DEF ListInv, TookItsTurn
  <2>3. QED BY <1>8, <2>1, <2>2
<1>14. Leaves(objects'[o].handed, Called(o)', objects'[o].ids)
  BY <1>1, <1>2, <1>9, <1>11
<1>15. QED BY <1>1, <1>7, <1>13, <1>14, Zenon DEF ListInv

LEMMA EmptyCallTakesNone ==
    ASSUME Types, ListInv, NEW o \in DOMAIN objects, AcknowledgeIssuerEmpty(o)
    PROVE  ListInv'
<1> DEFINE a == [object |-> o, id |-> 0, event |-> 0, ok |-> FALSE]
<1>1. objects' = objects /\ results' = Append(results, a)
  BY DEF AcknowledgeIssuerEmpty
<1>2. a \in Answer /\ a.id = 0
  BY ElementOf DEF Types, Answer
<1> HIDE DEF a
<1>3. PICK n : n = Len(results) + 1
  OBVIOUS
<1>4. ASSUME NEW p \in DOMAIN objects
      PROVE  /\ Leaves(objects[p].handed, Called(p)', objects[p].ids)
             /\ \A r \in CallsOn(p)' : TookItsTurn(p, r)'
  <2>1. /\ CallsOn(p)' = CallsOn(p)
        /\ \A r \in CallsOn(p) : /\ results'[r] = results[r]
                                 /\ CallsUpTo(p, r)' = CallsUpTo(p, r)
    BY <1>1, <1>2, <1>3, CallsGrow
  <2>2. Called(p)' = Called(p)
    BY <2>1, Zenon DEF Called
  <2>3. ASSUME NEW r \in CallsOn(p) PROVE TookItsTurn(p, r)'
    BY <1>1, <2>1, Zenon DEF ListInv, TookItsTurn
  <2>4. QED BY <2>1, <2>2, <2>3, Zenon DEF ListInv
<1>5. QED BY <1>1, <1>4, Zenon DEF ListInv

LEMMA ListStep == Types /\ IDInv /\ ListInv /\ [Next]_vars => ListInv'
<1> SUFFICES ASSUME Types, IDInv, ListInv, [Next]_vars PROVE ListInv'
  OBVIOUS
<1>1. ASSUME objects' = objects, results' = results PROVE ListInv'
  BY <1>1, ListsKept, Zenon DEF ListsKeep
<1>2. CASE storeAcknowledgmentID \/ TokenExpires \/ UNCHANGED vars
  BY <1>1, <1>2, Zenon DEF storeAcknowledgmentID, TokenExpires, vars
<1>3. CASE Acknowledgment
  <2>1. /\ results' = results /\ stored > 0
        /\ objects' = Append(objects, NewObject(0, [i \in 1..stored |-> i], 0, expiresIn))
    BY <1>3 DEF Acknowledgment
  <2>2. expiresIn \in BOOLEAN
    BY DEF Types
  <2>3. QED BY <2>1, <2>2, HandedOut, NewObjectLists
<1>4. CASE Crash
  BY <1>4, DieKeepsLists, ListsKept DEF Crash, Die
<1>5. ASSUME NEW s \in DOMAIN saved, NewAcknowledgment(s) PROVE ListInv'
  <2>1. saved[s].state \in StateOf /\ s \in Nat
    BY ElementOf, SavedFields DEF Types
  <2>2. /\ saved[s].state.ids \in IDSeq /\ saved[s].state.details \in Details \cup {0}
        /\ saved[s].state.expiry \in BOOLEAN
    BY <2>1 DEF StateOf
  <2>3. QED BY <1>5, <2>1, <2>2, NewObjectLists DEF NewAcknowledgment
<1>6. ASSUME NEW o \in LiveObjects, NEW d \in Details \cup {0}, SetInteractionDetails(o, d)
      PROVE  ListInv'
  <2>1. o \in DOMAIN objects
    BY DEF LiveObjects
  <2>2. QED BY <1>6, <2>1, SetKeepsLists, ListsKept DEF SetInteractionDetails
<1>7. ASSUME NEW o \in LiveObjects, NEW e \in Events, NEW received \in BOOLEAN,
             AcknowledgeIssuer(o, e, received)
      PROVE  ListInv'
  BY <1>7, CallTakesNext DEF LiveObjects
<1>8. ASSUME NEW o \in LiveObjects, AcknowledgeIssuerEmpty(o) PROVE ListInv'
  BY <1>8, EmptyCallTakesNone DEF LiveObjects
<1>9. ASSUME NEW o \in LiveObjects, Serialize(o) PROVE ListInv'
  BY <1>1, <1>9, Zenon DEF Serialize
<1>10. ASSUME NEW o \in LiveObjects, NEW e \in Events, CrashWhileSending(o, e) PROVE ListInv'
  BY <1>10, DieKeepsLists, ListsKept DEF CrashWhileSending, Die
<1>11. QED BY <1>2, <1>3, <1>4, <1>5, <1>6, <1>7, <1>8, <1>9, <1>10 DEF Next

LEMMA IDsInvariant == Spec => []IDInv
<1>1. Init => IDInv
  BY EmptySeq DEF Init, IDInv, ObjectInv, SavedInv, RestoredInv
<1>2. QED BY <1>1, IDsStep, TypesInvariant, PTL DEF Spec

(* What is left is the end of the list that was handed out.                   *)
LEMMA LeavesTheEnd ==
    ASSUME NEW handed \in IDSeq, NEW ids \in IDSeq, NEW called \in Nat,
           Leaves(handed, called, ids)
    PROVE  ids = SubSeq(handed, called + 1, Len(handed))
<1>1. /\ Len(handed) \in Nat /\ Len(ids) \in Nat /\ Len(handed) = called + Len(ids)
      /\ DOMAIN ids = 1..Len(ids)
  BY LenProperties DEF Leaves, IDSeq
<1>2. ids = [k \in 1..Len(ids) |-> ids[k]]
  BY <1>1, LenProperties DEF IDSeq
<1>3. SubSeq(handed, called + 1, Len(handed)) = [k \in 1..Len(ids) |-> handed[called + k]]
  BY <1>1, SubSeqProperties DEF IDSeq
<1>4. \A k \in 1..Len(ids) : ids[k] = handed[called + k]
  BY <1>1 DEF Leaves
<1>5. QED BY <1>2, <1>3, <1>4

(* The n-th call on an object is for the n-th credential it was made for,     *)
(* whatever failed, was saved, restored or lost: AcknowledgeIssuer takes one  *)
(* ID off AckIDs before it sends, and nothing else touches them.              *)
THEOREM CallsFollowTheList == Spec => []CallsGoThroughTheList
<1>1. Init => ListInv
  BY EmptySeq DEF Init, ListInv
<1>2. Types /\ ListInv => CallsGoThroughTheList
  <2> SUFFICES ASSUME Types, ListInv, NEW o \in DOMAIN objects
               PROVE  /\ \A r \in CallsOn(o) : TookItsTurn(o, r)
                      /\ objects[o].ids = SubSeq(objects[o].handed, Called(o) + 1,
                                                 Len(objects[o].handed))
    BY Zenon DEF CallsGoThroughTheList, TookItsTurn, Called
  <2>1. objects[o].ids \in IDSeq /\ objects[o].handed \in IDSeq
    BY ElementOf, ObjectFields DEF Types
  <2>2. QED BY <2>1, CallsAreFinite, LeavesTheEnd DEF ListInv
<1>3. QED BY <1>1, <1>2, ListStep, IDsInvariant, TypesInvariant, PTL DEF Spec

-----------------------------------------------------------------------------
(* Types: everything that is listed, saved, sent or returned is about an ID   *)
(* the interaction stored and an object it made.                              *)

AtMost(ids, bound) == \A k \in DOMAIN ids : ids[k] <= bound

BoundInv ==
    /\ endpoint \in BOOLEAN /\ interaction \in BOOLEAN /\ stored <= MaxIDs
    /\ \A o \in DOMAIN objects : AtMost(objects[o].ids, stored)
    /\ \A s \in DOMAIN saved : /\ saved[s].object \in DOMAIN objects
                               /\ AtMost(saved[s].state.ids, stored)
    /\ \A n \in DOMAIN notifications : /\ notifications[n].object \in DOMAIN objects
                                       /\ notifications[n].id \in 1..stored
    /\ \A r \in DOMAIN results : results[r].id <= stored

LEMMA BoundsKept ==
    ASSUME BoundInv, interaction' \in BOOLEAN, endpoint' = endpoint, stored' = stored,
           DOMAIN objects' = DOMAIN objects,
           \A o \in DOMAIN objects : objects'[o].ids = objects[o].ids,
           saved' = saved, results' = results, notifications' = notifications
    PROVE  BoundInv'
BY DEF BoundInv

(* What the head of an object's list is sent as.                              *)
LEMMA NextIsStored ==
    ASSUME Types, BoundInv, NEW o \in DOMAIN objects, objects[o].ids # <<>>
    PROVE  Head(objects[o].ids) \in 1..stored
<1>1. objects[o].ids \in IDSeq
  BY ElementOf, ObjectFields DEF Types
<1>2. /\ Head(objects[o].ids) \in Nat \ {0}
      /\ 1 \in DOMAIN objects[o].ids /\ Head(objects[o].ids) = objects[o].ids[1]
  BY <1>1, TailShifts
<1>3. Head(objects[o].ids) <= stored
  BY <1>2 DEF BoundInv, AtMost
<1>4. QED BY <1>2, <1>3 DEF Types

LEMMA BoundsOfNewObject ==
    ASSUME Types, BoundInv, interaction' = interaction, endpoint' = endpoint,
           stored' = stored, saved' = saved, results' = results,
           notifications' = notifications,
           NEW from \in Nat, NEW ids \in IDSeq, NEW d \in Details \cup {0}, NEW e \in BOOLEAN,
           objects' = Append(objects, NewObject(from, ids, d, e)), AtMost(ids, stored)
    PROVE  BoundInv'
<1>1. PICK n : n = Len(objects) + 1
  OBVIOUS
<1>2. /\ DOMAIN objects' = DOMAIN objects \cup {n}
      /\ \A o \in DOMAIN objects : objects'[o] = objects[o]
      /\ objects'[n].ids = ids
  BY <1>1, ObjectAdded
<1>3. QED BY <1>2 DEF BoundInv

(* Any of the ends a notification has: sent or not, the process alive or not. *)
LEMMA BoundsOfNotification ==
    ASSUME Types, BoundInv, NEW o \in DOMAIN objects, NEW event \in Events,
           objects[o].ids # <<>>, Notification(o, event) \in Sent,
           \/ notifications' = notifications
           \/ notifications' = Append(notifications, Notification(o, event))
    PROVE  \A n \in DOMAIN notifications' :
              /\ notifications'[n].object \in DOMAIN objects
              /\ notifications'[n].id \in 1..stored
<1>1. CASE notifications' = notifications
  BY <1>1, Zenon DEF BoundInv
<1>2. CASE notifications' = Append(notifications, Notification(o, event))
  <2> DEFINE n == Len(notifications) + 1
  <2>1. /\ DOMAIN notifications' = DOMAIN notifications \cup {n}
        /\ \A m \in DOMAIN notifications : notifications'[m] = notifications[m]
        /\ notifications'[n] = Notification(o, event)
    BY <1>2, AppendGrows DEF Types
  <2> HIDE DEF n
  <2>2. /\ Notification(o, event).object = o
        /\ Notification(o, event).id = Head(objects[o].ids)
    BY DEF Notification
  <2>3. \A m \in DOMAIN notifications : /\ notifications[m].object \in DOMAIN objects
                                        /\ notifications[m].id \in 1..stored
    BY Zenon DEF BoundInv
  <2>4. QED BY <2>1, <2>2, <2>3, NextIsStored
<1>3. QED BY <1>1, <1>2

LEMMA BoundsCalled ==
    ASSUME Types, BoundInv, NEW o \in DOMAIN objects, NEW event \in Events,
           NEW received \in BOOLEAN, AcknowledgeIssuer(o, event, received)
    PROVE  BoundInv'
<1>1. /\ DOMAIN objects' = DOMAIN objects
      /\ \A p \in DOMAIN objects \ {o} : objects'[p] = objects[p]
      /\ objects[o].ids \in IDSeq /\ objects[o].ids # <<>>
      /\ objects'[o].ids = Tail(objects[o].ids)
      /\ Notification(o, event) \in Sent
  BY CallEffect
<1>2. PICK ok \in BOOLEAN : /\ Result(o, event, ok) \in Answer
                            /\ results' = Append(results, Result(o, event, ok))
  BY CallEffect
<1>3. /\ endpoint' = endpoint /\ interaction' = interaction /\ stored' = stored
      /\ saved' = saved
      /\ \/ notifications' = notifications
         \/ notifications' = Append(notifications, Notification(o, event))
  BY Zenon DEF AcknowledgeIssuer
<1>4. AtMost(objects'[o].ids, stored)
  BY <1>1, TailShifts DEF BoundInv, AtMost
<1>5. \A p \in DOMAIN objects' : AtMost(objects'[p].ids, stored')
  BY <1>1, <1>3, <1>4 DEF BoundInv
<1>6. \A n \in DOMAIN notifications' : /\ notifications'[n].object \in DOMAIN objects'
                                       /\ notifications'[n].id \in 1..stored'
  BY <1>1, <1>3, BoundsOfNotification
<1>7. \A r \in DOMAIN results' : results'[r].id <= stored'
  <2> DEFINE n == Len(results) + 1
  <2>1. /\ DOMAIN results' = DOMAIN results \cup {n}
        /\ \A r \in DOMAIN results : results'[r] = results[r]
        /\ results'[n] = Result(o, event, ok)
    BY <1>2, AppendGrows DEF Types
  <2> HIDE DEF n
  <2>2. Result(o, event, ok).id \in 1..stored
    BY <1>1, NextIsStored DEF Result
  <2>3. QED BY <1>3, <2>1, <2>2 DEF BoundInv
<1>8. QED BY <1>1, <1>3, <1>5, <1>6, <1>7 DEF BoundInv

LEMMA BoundsNotCalled ==
    ASSUME Types, BoundInv, NEW o \in DOMAIN objects, AcknowledgeIssuerEmpty(o)
    PROVE  BoundInv'
<1> DEFINE a == [object |-> o, id |-> 0, event |-> 0, ok |-> FALSE]
           n == Len(results) + 1
<1>1. a \in Answer /\ a.id = 0
  BY ElementOf DEF Types, Answer
<1>2. /\ results' = Append(results, a)
      /\ endpoint' = endpoint /\ interaction' = interaction /\ stored' = stored
      /\ saved' = saved /\ objects' = objects /\ notifications' = notifications
  BY DEF AcknowledgeIssuerEmpty
<1> HIDE DEF a
<1>3. /\ DOMAIN results' = DOMAIN results \cup {n}
      /\ \A r \in DOMAIN results : results'[r] = results[r]
      /\ results'[n] = a
  BY <1>1, <1>2, AppendGrows DEF Types
<1> HIDE DEF n
<1>4. \A r \in DOMAIN results' : results'[r].id <= stored
  BY <1>1, <1>3 DEF BoundInv, Types
<1>5. QED BY <1>2, <1>4 DEF BoundInv

LEMMA BoundsSaved ==
    ASSUME Types, BoundInv, NEW o \in LiveObjects, Serialize(o)
    PROVE  BoundInv'
<1> DEFINE n == Len(saved) + 1
           new == [object |-> o, since |-> Len(results), state |-> State(o)]
<1>1. /\ saved' = Append(saved, new) /\ objects' = objects /\ results' = results
      /\ endpoint' = endpoint /\ interaction' = interaction /\ stored' = stored
      /\ notifications' = notifications
  BY DEF Serialize
<1>2. objects[o] \in Object /\ o \in Nat /\ o \in DOMAIN objects /\ Len(results) \in Nat
  BY ElementOf, LenProperties DEF LiveObjects, Types
<1>3. State(o) \in StateOf
  BY <1>2, ObjectFields DEF State, StateOf
<1>4. new \in Saved /\ new.object = o /\ new.state.ids = objects[o].ids
  BY <1>2, <1>3 DEF Saved, State
<1> HIDE DEF new
<1>5. /\ DOMAIN saved' = DOMAIN saved \cup {n}
      /\ \A s \in DOMAIN saved : saved'[s] = saved[s]
      /\ saved'[n] = new
  BY <1>1, <1>4, AppendGrows DEF Types
<1> HIDE DEF n
<1>6. QED BY <1>1, <1>2, <1>4, <1>5 DEF BoundInv

LEMMA BoundsStep == Types /\ BoundInv /\ [Next]_vars => BoundInv'
<1> SUFFICES ASSUME Types, BoundInv, [Next]_vars PROVE BoundInv'
  OBVIOUS
<1>1. CASE storeAcknowledgmentID
  <2>1. stored' = stored + 1 /\ stored' <= MaxIDs
    BY <1>1, AckBoundsAssumption DEF storeAcknowledgmentID, Types
  <2>2. ASSUME NEW ids \in IDSeq, AtMost(ids, stored) PROVE AtMost(ids, stored')
    BY <2>1, <2>2 DEF AtMost, IDSeq, Types
  <2>3. \A o \in DOMAIN objects : objects[o].ids \in IDSeq
    BY ElementOf, ObjectFields DEF Types
  <2>4. \A s \in DOMAIN saved : saved[s].state.ids \in IDSeq
    BY ElementOf, SavedFields DEF Types, StateOf
  <2>5. \A r \in DOMAIN results : results[r].id \in Nat
    <3>1. \A x \in Answer : x.id \in Nat
      BY DEF Answer
    <3>2. QED BY <3>1, ElementOf DEF Types
  <2>6. QED BY <1>1, <2>1, <2>2, <2>3, <2>4, <2>5 DEF storeAcknowledgmentID, BoundInv, Types
<1>2. CASE TokenExpires \/ UNCHANGED vars
  BY <1>2, BoundsKept DEF TokenExpires, vars, BoundInv
<1>3. CASE Acknowledgment
  <2>1. /\ stored > 0 /\ interaction' = interaction /\ endpoint' = endpoint
        /\ stored' = stored /\ saved' = saved /\ results' = results
        /\ notifications' = notifications
        /\ objects' = Append(objects, NewObject(0, [i \in 1..stored |-> i], 0, expiresIn))
    BY <1>3 DEF Acknowledgment
  <2>2. expiresIn \in BOOLEAN /\ AtMost([i \in 1..stored |-> i], stored)
    BY DEF Types, AtMost
  <2>3. QED BY <2>1, <2>2, HandedOut, BoundsOfNewObject
<1>4. CASE Crash
  <2>1. ObjectsKeep
    BY <1>4, DieKeeps DEF Crash
  <2>2. QED BY <1>4, <2>1, BoundsKept DEF Crash, Die, ObjectsKeep
<1>5. ASSUME NEW s \in DOMAIN saved, NewAcknowledgment(s) PROVE BoundInv'
  <2>1. saved[s].state \in StateOf /\ s \in Nat
    BY ElementOf, SavedFields DEF Types
  <2>2. /\ saved[s].state.ids \in IDSeq /\ saved[s].state.details \in Details \cup {0}
        /\ saved[s].state.expiry \in BOOLEAN
    BY <2>1 DEF StateOf
  <2>3. AtMost(saved[s].state.ids, stored)
    BY DEF BoundInv
  <2>4. QED BY <1>5, <2>1, <2>2, <2>3, BoundsOfNewObject DEF NewAcknowledgment
<1>6. ASSUME NEW o \in LiveObjects, NEW d \in Details \cup {0}, SetInteractionDetails(o, d)
      PROVE  BoundInv'
  <2>1. ObjectsKeep
    BY <1>6, SetKeeps DEF LiveObjects
  <2>2. interaction' \in BOOLEAN
    BY <1>6 DEF SetInteractionDetails, BoundInv
  <2>3. QED BY <1>6, <2>1, <2>2, BoundsKept DEF SetInteractionDetails, ObjectsKeep
<1>7. ASSUME NEW o \in LiveObjects, NEW e \in Events, NEW received \in BOOLEAN,
             AcknowledgeIssuer(o, e, received)
      PROVE  BoundInv'
  BY <1>7, BoundsCalled DEF LiveObjects
<1>8. ASSUME NEW o \in LiveObjects, AcknowledgeIssuerEmpty(o) PROVE BoundInv'
  BY <1>8, BoundsNotCalled DEF LiveObjects
<1>9. ASSUME NEW o \in LiveObjects, Serialize(o) PROVE BoundInv'
  BY <1>9, BoundsSaved
<1>10. ASSUME NEW o \in LiveObjects, NEW e \in Events, CrashWhileSending(o, e) PROVE BoundInv'
  <2>1. ObjectsKeep
    BY <1>10, DieKeeps DEF CrashWhileSending
  <2>2. o \in DOMAIN objects /\ objects[o] \in Object /\ objects[o].ids \in IDSeq /\ o \in Nat
    BY ElementOf, ObjectFields DEF LiveObjects, Types
  <2>3. Notification(o, e) \in Sent
    BY <1>10, <2>2, TailShifts, ObjectFields
       DEF CrashWhileSending, Notification, Sent, Types
  <2>4. \A n \in DOMAIN notifications' : /\ notifications'[n].object \in DOMAIN objects
                                         /\ notifications'[n].id \in 1..stored
    BY <1>10, <2>2, <2>3, BoundsOfNotification DEF CrashWhileSending
  <2>5. /\ interaction' \in BOOLEAN /\ endpoint' = endpoint /\ stored' = stored
        /\ saved' = saved /\ results' = results
    BY <1>10 DEF CrashWhileSending, Die
  <2>6. QED BY <2>1, <2>4, <2>5 DEF BoundInv, ObjectsKeep
<1>11. QED BY <1>1, <1>2, <1>3, <1>4, <1>5, <1>6, <1>7, <1>8, <1>9, <1>10 DEF Next

LEMMA SeqNarrows ==
    ASSUME NEW S, NEW T, NEW s \in Seq(S), \A n \in DOMAIN s : s[n] \in T
    PROVE  s \in Seq(T)
BY LenProperties

(* Every object lists IDs the interaction stored, and every saved state,      *)
(* notification and result refers to an object and to such an ID.             *)
THEOREM TypeCorrect == Spec => []TypeOK
<1>1. Init => BoundInv
  <2>1. DOMAIN <<>> = {}
    BY EmptySeq
  <2>2. Init => endpoint \in BOOLEAN /\ interaction \in BOOLEAN
    BY Zenon DEF Init
  <2>3. Init => stored <= MaxIDs
    BY AckBoundsAssumption DEF Init
  <2>4. QED BY <2>1, <2>2, <2>3, Zenon DEF Init, BoundInv
<1>2. Types /\ IDInv /\ BoundInv => TypeOK
  <2> SUFFICES ASSUME Types, IDInv, BoundInv PROVE TypeOK
    OBVIOUS
  <2>1. objects \in Seq(ObjectType)
    <3>1. \A x \in Object : x \in ObjectType
      <4>1. \A ids \in IDSeq : ids \in Seq(Nat)
        BY DEF IDSeq
      <4>2. QED BY <4>1 DEF Object, ObjectType
    <3>2. QED BY <3>1, ElementOf, SeqNarrows DEF Types
  <2>2. saved \in Seq([object : DOMAIN objects, since : 0..Len(results), state : StateType])
    <3>1. ASSUME NEW s \in DOMAIN saved
          PROVE  saved[s] \in [object : DOMAIN objects, since : 0..Len(results),
                               state : StateType]
      <4>1. saved[s] \in Saved
        BY ElementOf DEF Types
      <4>2. saved[s].state \in StateType
        BY <4>1 DEF Saved, StateOf, StateType, IDSeq
      <4>3. saved[s].object \in DOMAIN objects /\ saved[s].since \in 0..Len(results)
        BY Zenon DEF BoundInv, IDInv, SavedInv
      <4>4. QED BY <4>1, <4>2, <4>3 DEF Saved
    <3>2. QED BY <3>1, SeqNarrows DEF Types
  <2>3. notifications \in Seq([object : DOMAIN objects, id : 1..stored, event : Events,
                               details : Details \cup {0}, expired : BOOLEAN])
    <3>1. ASSUME NEW n \in DOMAIN notifications
          PROVE  notifications[n] \in [object : DOMAIN objects, id : 1..stored,
                     event : Events, details : Details \cup {0}, expired : BOOLEAN]
      <4>1. notifications[n] \in Sent
        BY ElementOf DEF Types
      <4>2. notifications[n].object \in DOMAIN objects /\ notifications[n].id \in 1..stored
        BY Zenon DEF BoundInv
      <4>3. QED BY <4>1, <4>2 DEF Sent
    <3>2. QED BY <3>1, SeqNarrows DEF Types
  <2>4. results \in Seq([object : DOMAIN objects, id : 0..stored,
                         event : Events \cup {0}, ok : BOOLEAN])
    <3>1. ASSUME NEW r \in DOMAIN results
          PROVE  results[r] \in [object : DOMAIN objects, id : 0..stored,
                                 event : Events \cup {0}, ok : BOOLEAN]
      <4>1. results[r] \in Answer
        BY ElementOf DEF Types
      <4>2. results[r].object \in DOMAIN objects /\ results[r].id <= stored
        BY Zenon DEF BoundInv, IDInv, ObjectInv
      <4>3. results[r].id \in 0..stored
        BY <4>1, <4>2 DEF Answer, Types
      <4>4. QED BY <4>1, <4>2, <4>3 DEF Answer
    <3>2. QED BY <3>1, SeqNarrows DEF Types
  <2>5. /\ endpoint \in BOOLEAN /\ expiresIn \in BOOLEAN /\ expired \in BOOLEAN
        /\ interaction \in BOOLEAN /\ stored \in 0..MaxIDs
    BY DEF Types, BoundInv
  <2>6. QED BY <2>1, <2>2, <2>3, <2>4, <2>5 DEF TypeOK
<1>3. QED BY <1>1, <1>2, BoundsStep, IDsInvariant, TypesInvariant, PTL DEF Spec
=============================================================================
