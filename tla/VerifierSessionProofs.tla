------------------------ MODULE VerifierSessionProofs ------------------------
(***************************************************************************)
(* Theorems about VerifierSession, for every wallet, verifier and set of   *)
(* details and any number of acts: acknowledging changes nothing that      *)
(* presenting depends on, and the verifier is told what all the details    *)
(* set on an object amount to.                                             *)
(***************************************************************************)
EXTENDS VerifierSession, PresentationProofs

(* A session presents as Presentation says: Acknowledgment objects share no   *)
(* state with the interaction that made them, so every theorem about          *)
(* Presentation is one about sessions.                                        *)
THEOREM SessionsPresent == SessionSpec => Spec
<1>1. SessionInit => Init
  BY DEF SessionInit
<1>2. [SessionNext]_sessionVars => [Next]_vars
  BY DEF SessionNext, sessionVars
<1>3. QED BY <1>1, <1>2, PTL DEF SessionSpec, Spec

-----------------------------------------------------------------------------
(* Histories of details.                                                      *)

Settable == Details \cup {NoDetails}
History == Seq(Settable)

(* Every key that counts was set last at some place.  That a place exists is  *)
(* kept by every append; it cannot be had from the finiteness of a history    *)
(* without induction.                                                         *)
SetSomewhere(h) == \A k \in KeysSet(h) : \E i \in Since(h) : SetsLast(h, k, i)

LEMMA LastIsUnique ==
    ASSUME NEW h \in History, NEW k, NEW i \in Since(h), SetsLast(h, k, i)
    PROVE  LastSet(h, k) = i
<1>1. LastSet(h, k) \in Since(h) /\ SetsLast(h, k, LastSet(h, k))
  BY Zenon DEF LastSet
<1>2. \A j \in Since(h) : j \in Nat
  BY LenProperties DEF Since, History
<1>3. LastSet(h, k) <= i /\ i <= LastSet(h, k)
  BY <1>1 DEF SetsLast
<1>4. QED BY <1>1, <1>2, <1>3

LEMMA MergedType ==
    ASSUME NEW f \in AnyDetails, NEW g \in AnyDetails
    PROVE  Merged(f, g) \in AnyDetails
<1>1. PICK K \in SUBSET Keys, L \in SUBSET Keys : f \in [K -> Values] /\ g \in [L -> Values]
  BY DEF AnyDetails
<1>2. Merged(f, g) \in [K \cup L -> Values]
  BY <1>1 DEF Merged
<1>3. K \cup L \in SUBSET Keys
  BY <1>1
<1>4. QED BY <1>2, <1>3 DEF AnyDetails

(* Setting null forgets everything.                                           *)
LEMMA NullResets ==
    ASSUME NEW h \in History
    PROVE  /\ Since(Append(h, NoDetails)) = {}
           /\ SetSomewhere(Append(h, NoDetails))
           /\ AmountTo(Append(h, NoDetails)) = <<>>
<1> DEFINE g == Append(h, NoDetails)
<1>1. PICK n \in Nat : /\ n = Len(h) + 1 /\ DOMAIN g = 1..n /\ g[n] = NoDetails
  BY AppendProperties, LenProperties DEF History, Settable
<1>2. Since(g) = {}
  BY <1>1 DEF Since
<1>3. KeysSet(g) = {}
  BY <1>2 DEF KeysSet
<1>4. AmountTo(g) = <<>>
  BY <1>3 DEF AmountTo
<1>5. QED BY <1>2, <1>3, <1>4 DEF SetSomewhere

(* Setting an object adds its keys to what counts and replaces their values.  *)
LEMMA ObjectExtends ==
    ASSUME NEW h \in History, NEW set \in Details, SetSomewhere(h)
    PROVE  /\ SetSomewhere(Append(h, set))
           /\ AmountTo(Append(h, set)) = Merged(set, AmountTo(h))
<1>1. PICK g : g = Append(h, set)
  OBVIOUS
<1>2. PICK n \in Nat :
          /\ n = Len(h) + 1 /\ DOMAIN g = DOMAIN h \cup {n} /\ g[n] = set
          /\ \A i \in DOMAIN h : g[i] = h[i] /\ i \in Nat /\ i < n
  BY <1>1, AppendProperties, LenProperties DEF History, Settable
<1>3. g \in History
  BY <1>1, AppendProperties DEF History, Settable
<1>4. set # NoDetails
  BY SessionAssumption
<1>5. Since(g) = Since(h) \cup {n}
  BY <1>2, <1>4 DEF Since
<1>6. \A i \in Since(h) : i \in DOMAIN h
  BY DEF Since
<1>7. KeysSet(g) = KeysSet(h) \cup DOMAIN set
  BY <1>2, <1>5, <1>6 DEF KeysSet
<1>8. ASSUME NEW k \in DOMAIN set PROVE SetsLast(g, k, n)
  BY <1>2, <1>5, <1>6 DEF SetsLast
<1>9. ASSUME NEW k \in KeysSet(h), k \notin DOMAIN set, NEW i \in Since(h), SetsLast(h, k, i)
      PROVE  SetsLast(g, k, i)
  BY <1>2, <1>5, <1>6, <1>9 DEF SetsLast
<1>10. SetSomewhere(g)
  BY <1>5, <1>7, <1>8, <1>9 DEF SetSomewhere
<1>11. ASSUME NEW k \in DOMAIN set PROVE g[LastSet(g, k)][k] = set[k]
  BY <1>2, <1>3, <1>5, <1>8, LastIsUnique
<1>12. ASSUME NEW k \in KeysSet(h), k \notin DOMAIN set
       PROVE  g[LastSet(g, k)][k] = AmountTo(h)[k]
  <2>1. PICK i \in Since(h) : SetsLast(h, k, i)
    BY DEF SetSomewhere
  <2>2. LastSet(h, k) = i
    BY <2>1, LastIsUnique
  <2>3. LastSet(g, k) = i
    BY <1>3, <1>5, <1>9, <1>12, <2>1, LastIsUnique
  <2>4. QED BY <1>2, <1>6, <2>1, <2>2, <2>3 DEF AmountTo
<1>13. AmountTo(g) = Merged(set, AmountTo(h))
  <2>1. DOMAIN AmountTo(h) = KeysSet(h)
    BY DEF AmountTo
  <2>2. \A k \in KeysSet(g) :
            g[LastSet(g, k)][k] = IF k \in DOMAIN set THEN set[k] ELSE AmountTo(h)[k]
    BY <1>7, <1>11, <1>12
  <2>3. QED BY <1>7, <2>1, <2>2 DEF AmountTo, Merged
<1>14. QED BY <1>1, <1>10, <1>13

-----------------------------------------------------------------------------
(* The objects.                                                               *)

Ack == [uri : URIs, details : AnyDetails \cup {NoDetails}, history : History]

(* What x tells is what its history amounts to.                               *)
Faithful(x) == SetSomewhere(x.history) /\ Told(x.details) = AmountTo(x.history)

AckInv ==
    /\ acks \in Seq(Ack) /\ \A a \in DOMAIN acks : Faithful(acks[a])
    /\ \A s \in savedAcks : s \in Ack /\ Faithful(s)
    /\ \A n \in notices : Told(n.details) = AmountTo(n.history)

LEMMA NothingTold ==
    /\ <<>> \in History /\ SetSomewhere(<<>>) /\ AmountTo(<<>>) = <<>>
    /\ Told(NoDetails) = <<>>
<1>1. DOMAIN <<>> = {} /\ <<>> \in History
  BY EmptySeq DEF History
<1>2. Since(<<>>) = {}
  BY <1>1 DEF Since
<1>3. KeysSet(<<>>) = {}
  BY <1>2 DEF KeysSet
<1>4. QED BY <1>1, <1>3 DEF SetSomewhere, AmountTo, Told

LEMMA SetIsFaithful ==
    ASSUME NEW x \in Ack, Faithful(x), NEW set \in Settable
    PROVE  LET y == [x EXCEPT !.details = Decoded(set, @), !.history = Append(@, set)]
           IN  y \in Ack /\ Faithful(y)
<1> DEFINE y == [x EXCEPT !.details = Decoded(set, @), !.history = Append(@, set)]
<1>1. /\ x.details \in AnyDetails \cup {NoDetails} /\ x.history \in History
      /\ x.uri \in URIs
  BY DEF Ack
<1>2. Append(x.history, set) \in History
  BY <1>1, AppendProperties DEF History
<1>3. Decoded(set, x.details) \in AnyDetails \cup {NoDetails}
  BY <1>1, MergedType, SessionAssumption DEF Decoded, Settable
<1>4. y \in Ack /\ y.details = Decoded(set, x.details) /\ y.history = Append(x.history, set)
  BY <1>2, <1>3 DEF Ack
<1> HIDE DEF y
<1>5. ASSUME set = NoDetails PROVE Faithful(y)
  <2>1. y.details = NoDetails
    BY <1>4, <1>5 DEF Decoded
  <2>2. SetSomewhere(y.history) /\ AmountTo(y.history) = <<>>
    BY <1>1, <1>4, <1>5, NullResets
  <2>3. QED BY <2>1, <2>2, NothingTold DEF Faithful
<1>6. ASSUME set \in Details PROVE Faithful(y)
  <2>1. /\ SetSomewhere(y.history)
        /\ AmountTo(y.history) = Merged(set, AmountTo(x.history))
    BY <1>1, <1>4, <1>6, ObjectExtends DEF Faithful
  <2>2. Told(y.details) = Merged(set, Told(x.details))
    <3>1. set \in AnyDetails /\ set # NoDetails
      BY <1>6, SessionAssumption
    <3>2. CASE x.details = NoDetails
      <4>1. PICK K \in SUBSET Keys : set \in [K -> Values]
        BY <3>1 DEF AnyDetails
      <4>2. Merged(set, <<>>) = set
        BY <4>1 DEF Merged
      <4>3. QED BY <1>4, <3>1, <3>2, <4>2 DEF Decoded, Told
    <3>3. CASE x.details # NoDetails
      <4>1. x.details \in AnyDetails
        BY <1>1, <3>3
      <4>2. Merged(set, x.details) # NoDetails
        BY <3>1, <4>1, MergedType, SessionAssumption
      <4>3. QED BY <1>4, <3>1, <3>3, <4>2 DEF Decoded, Told
    <3>4. QED BY <3>2, <3>3
  <2>3. QED BY <2>1, <2>2 DEF Faithful
<1>7. QED BY <1>4, <1>5, <1>6 DEF Settable, y

LEMMA SavedIsFaithful ==
    ASSUME NEW a \in DOMAIN acks, acks[a] \in Ack, Faithful(acks[a])
    PROVE  Serialized(a) \in Ack /\ Faithful(Serialized(a))
<1>1. CASE acks[a].details = <<>>
  <2>1. /\ [acks[a] EXCEPT !.details = NoDetails] \in Ack
        /\ [acks[a] EXCEPT !.details = NoDetails].details = NoDetails
        /\ [acks[a] EXCEPT !.details = NoDetails].history = acks[a].history
    BY DEF Ack
  <2>2. Serialized(a) = [acks[a] EXCEPT !.details = NoDetails]
    BY <1>1 DEF Serialized
  <2>3. Told(acks[a].details) = Told(NoDetails)
    BY <1>1 DEF Told
  <2>4. QED BY <2>1, <2>2, <2>3 DEF Faithful
<1>2. CASE acks[a].details # <<>>
  BY <1>2 DEF Serialized
<1>3. QED BY <1>1, <1>2

LEMMA AckAdded ==
    ASSUME AckInv, NEW x \in Ack, Faithful(x), acks' = Append(acks, x),
           savedAcks' = savedAcks, notices' = notices
    PROVE  AckInv'
<1>1. /\ acks' \in Seq(Ack) /\ DOMAIN acks' = DOMAIN acks \cup {Len(acks) + 1}
      /\ \A a \in DOMAIN acks : acks'[a] = acks[a]
      /\ acks'[Len(acks) + 1] = x
  BY AppendProperties, LenProperties DEF AckInv
<1>2. \A a \in DOMAIN acks' : Faithful(acks'[a])
  BY <1>1 DEF AckInv
<1>3. QED BY <1>1, <1>2 DEF AckInv

LEMMA AckStep == TypeOK /\ AckInv /\ [SessionNext]_sessionVars => AckInv'
<1> SUFFICES ASSUME TypeOK, AckInv, [SessionNext]_sessionVars PROVE AckInv'
  OBVIOUS
<1>1. CASE UNCHANGED ackVars
  BY <1>1 DEF ackVars, AckInv
<1>2. CASE Acknowledgment
  <2> DEFINE x == NewAck(request.response_uri, NoDetails, <<>>)
  <2>1. request.response_uri \in URIs
    BY <1>2 DEF Acknowledgment, TypeOK, Request
  <2>2. x \in Ack /\ x.details = NoDetails /\ x.history = <<>>
    BY <2>1, NothingTold DEF NewAck, Ack
  <2>3. acks' = Append(acks, x) /\ savedAcks' = savedAcks /\ notices' = notices
    BY <1>2 DEF Acknowledgment
  <2> HIDE DEF x
  <2>4. Faithful(x)
    BY <2>2, NothingTold DEF Faithful
  <2>5. QED BY <2>2, <2>3, <2>4, AckAdded
<1>3. ASSUME NEW a \in DOMAIN acks, NEW d \in Settable, SetInteractionDetails(a, d)
      PROVE  AckInv'
  <2> DEFINE y == [acks[a] EXCEPT !.details = Decoded(d, @), !.history = Append(@, d)]
  <2>1. acks \in Seq(Ack) /\ acks[a] \in Ack /\ Faithful(acks[a])
    BY DEF AckInv
  <2>2. y \in Ack /\ Faithful(y)
    BY <2>1, SetIsFaithful
  <2>3. /\ acks' = [acks EXCEPT ![a] = y]
        /\ savedAcks' = savedAcks /\ notices' = notices
    BY <1>3 DEF SetInteractionDetails
  <2> HIDE DEF y
  <2>4. /\ acks' \in Seq(Ack) /\ DOMAIN acks' = DOMAIN acks
        /\ \A b \in DOMAIN acks : acks'[b] = IF b = a THEN y ELSE acks[b]
    BY <2>1, <2>2, <2>3, ExceptSeq, LenProperties
  <2>5. QED BY <2>2, <2>3, <2>4 DEF AckInv
<1>4. ASSUME NEW a \in DOMAIN acks, NEW r \in Reasons, AcknowledgeVerifier(a, r)
      PROVE  AckInv'
  <2> DEFINE new == [uri |-> acks[a].uri, reason |-> r, details |-> acks[a].details,
                     history |-> acks[a].history]
  <2>1. Told(new.details) = AmountTo(new.history)
    BY DEF AckInv, Faithful
  <2>2. notices' \subseteq notices \cup {new}
    BY <1>4 DEF AcknowledgeVerifier
  <2> HIDE DEF new
  <2>3. \A n \in notices' : Told(n.details) = AmountTo(n.history)
    BY <2>1, <2>2, Zenon DEF AckInv
  <2>4. QED BY <1>4, <2>3 DEF AcknowledgeVerifier, AckInv
<1>5. ASSUME NEW a \in DOMAIN acks, Serialize(a) PROVE AckInv'
  <2>1. acks[a] \in Ack /\ Faithful(acks[a])
    BY DEF AckInv
  <2>2. Serialized(a) \in Ack /\ Faithful(Serialized(a))
    BY <2>1, SavedIsFaithful
  <2>3. QED BY <1>5, <2>2 DEF Serialize, AckInv
<1>6. ASSUME NEW s \in savedAcks, NewAcknowledgment(s) PROVE AckInv'
  BY <1>6, AckAdded DEF NewAcknowledgment, AckInv
<1>7. QED BY <1>1, <1>2, <1>3, <1>4, <1>5, <1>6 DEF SessionNext, Act, sessionVars, Settable

(* Details are decoded into the map of the object, which saving and restoring *)
(* keeps: so the verifier is told, for every key, the value set last since    *)
(* the last null, however often the object was saved and restored.            *)
THEOREM DetailsAmountToHistory == SessionSpec => []DetailsReachTheVerifier
<1>1. SessionInit => AckInv
  BY EmptySeq DEF SessionInit, AckInv
<1>2. AckInv => DetailsReachTheVerifier
  BY DEF AckInv, DetailsReachTheVerifier
<1>3. SessionSpec => []TypeOK
  BY SessionsPresent, TypeCorrect, PTL
<1>4. QED BY <1>1, <1>2, <1>3, AckStep, PTL DEF SessionSpec
=============================================================================
