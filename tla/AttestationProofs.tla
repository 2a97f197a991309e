-------------------------- MODULE AttestationProofs --------------------------
(***************************************************************************)
(* Theorems about Attestation, for any keys, payloads and number of calls: *)
(* sessions of concurrent calls are not mixed up, and calls implement      *)
(* AttestationPromise.                                                     *)
(***************************************************************************)
EXTENDS Attestation, SequenceTheorems, TLAPS

USE DIDPartAssumption, AttestationBoundAssumption

Call == [keyID : KeyIDs, payload : Payloads,
         pc : {"init", "complete", "send", "parse", "ok", "error"},
         sessionID : Nat, challenge : Nat, iss : DIDs \cup {NoDID}, vc : Nat]
Attested == [session : Nat, did : DIDs \cup {NoDID}, payload : Payloads]

TypeOK ==
    /\ calls \in Seq(Call)
    /\ sessions \in Seq(Payloads)
    /\ attested \in Seq(Attested)

(* A call that waits for the service or for its key holds the session that    *)
(* was opened for it, and has not been attested before it sent its proof.     *)
HoldsItsSession(i) ==
    /\ calls[i].sessionID \in DOMAIN sessions
    /\ calls[i].challenge = calls[i].sessionID
    /\ sessions[calls[i].sessionID] = calls[i].payload

SessionOK(i) ==
    /\ calls[i].pc = "init" => calls[i].sessionID = 0
    /\ calls[i].sessionID \in 0..Len(sessions)
    /\ calls[i].pc \in {"complete", "send", "parse", "ok"} => HoldsItsSession(i)
    /\ calls[i].pc = "send" => /\ calls[i].iss = DIDPart[calls[i].keyID]
                               /\ calls[i].iss # NoDID
SessionInv == \A i \in DOMAIN calls : SessionOK(i)

(* No two calls have a session in common, and every attestation is for one    *)
(* of the sessions.                                                           *)
DistinctInv ==
    /\ \A i, j \in DOMAIN calls :
          calls[i].sessionID # 0 /\ calls[i].sessionID = calls[j].sessionID => i = j
    /\ \A v \in DOMAIN attested : attested[v].session \in DOMAIN sessions

(* A call that has read its attestation was granted its request with it.      *)
GrantOK(i) ==
    calls[i].pc \in {"parse", "ok"} =>
        /\ calls[i].vc \in DOMAIN attested
        /\ attested[calls[i].vc] = [session |-> calls[i].sessionID,
                                    did |-> DIDPart[calls[i].keyID],
                                    payload |-> calls[i].payload]
        /\ DIDPart[calls[i].keyID] # NoDID
GrantInv == \A i \in DOMAIN calls : GrantOK(i)

IInv == TypeOK /\ SessionInv /\ DistinctInv /\ GrantInv

-----------------------------------------------------------------------------
(* The calls a step is not a step of keep what holds of them.                 *)
ChangesOnly(i) ==
    /\ DOMAIN calls' = DOMAIN calls
    /\ \A j \in DOMAIN calls : j # i => calls'[j] = calls[j]

(* The service forgets nothing.                                               *)
Grows(s) ==
    /\ DOMAIN s \subseteq DOMAIN s'
    /\ Len(s) <= Len(s')
    /\ \A n \in DOMAIN s : s'[n] = s[n]

LEMMA AppendGrows ==
    ASSUME NEW S, NEW s \in Seq(S), NEW e \in S
    PROVE  LET t == Append(s, e)
           IN  /\ t \in Seq(S) /\ Len(t) = Len(s) + 1
               /\ DOMAIN t = DOMAIN s \cup {Len(s) + 1}
               /\ \A n \in DOMAIN s : t[n] = s[n]
               /\ t[Len(s) + 1] = e
OBVIOUS

LEMMA OthersKeep ==
    ASSUME TypeOK, NEW j \in DOMAIN calls, calls'[j] = calls[j],
           Grows(sessions), Grows(attested), SessionOK(j), GrantOK(j)
    PROVE  SessionOK(j)' /\ GrantOK(j)'
<1>1. calls[j] \in Call
  BY DEF TypeOK
<1>2. SessionOK(j)'
  BY <1>1 DEF SessionOK, HoldsItsSession, Grows, Call, TypeOK
<1>3. GrantOK(j)'
  BY <1>1 DEF GrantOK, Grows, Call, TypeOK
<1>4. QED BY <1>2, <1>3

-----------------------------------------------------------------------------
(* One lemma per action.                                                      *)

LEMMA InitIInv == Init => IInv
BY DEF Init, IInv, TypeOK, SessionInv, DistinctInv, GrantInv

LEMMA StartStep ==
    ASSUME IInv, NEW keyID \in KeyIDs, NEW payload \in Payloads,
           GetAttestationVC(keyID, payload)
    PROVE  IInv'
<1>1. PICK pc \in {"init", "error"} : calls' = Append(calls, NewCall(keyID, payload, pc))
  BY DEF GetAttestationVC
<1>0. PICK new \in Nat : new = Len(calls) + 1
  BY DEF IInv, TypeOK
<1>2. NewCall(keyID, payload, pc) \in Call
  BY DEF NewCall, Call
<1>3. sessions' = sessions /\ attested' = attested
  BY DEF GetAttestationVC
<1>4. /\ calls' \in Seq(Call)
      /\ DOMAIN calls' = DOMAIN calls \cup {new}
      /\ \A i \in DOMAIN calls : calls'[i] = calls[i]
      /\ calls'[new] = NewCall(keyID, payload, pc)
  BY <1>0, <1>1, <1>2, AppendGrows DEF IInv, TypeOK
<1>5. /\ calls'[new].sessionID = 0 /\ calls'[new].pc \in {"init", "error"}
  BY <1>4 DEF NewCall
<1>6. Grows(sessions) /\ Grows(attested)
  BY <1>3 DEF Grows, IInv, TypeOK
<1>7. SessionOK(new)' /\ GrantOK(new)'
  BY <1>3, <1>5 DEF SessionOK, GrantOK, IInv, TypeOK
<1>8. TypeOK'
  BY <1>3, <1>4 DEF IInv, TypeOK
<1>9. SessionInv' /\ GrantInv'
  BY <1>4, <1>6, <1>7, OthersKeep DEF IInv, SessionInv, GrantInv
<1>10. DistinctInv'
  BY <1>3, <1>4, <1>5 DEF IInv, DistinctInv
<1>11. QED BY <1>8, <1>9, <1>10 DEF IInv

(* What the steps of a call have in common.                                   *)
LEMMA CallStepKeeps ==
    ASSUME IInv, NEW i \in DOMAIN calls, ChangesOnly(i), calls' \in Seq(Call),
           sessions' \in Seq(Payloads), attested' \in Seq(Attested),
           Grows(sessions), Grows(attested), SessionOK(i)', GrantOK(i)',
           calls'[i].sessionID \in {calls[i].sessionID, 0} \cup (Nat \ 0..Len(sessions)),
           \A v \in DOMAIN attested' : attested'[v].session \in DOMAIN sessions'
    PROVE  IInv'
<1>1. TypeOK'
  BY DEF TypeOK
<1>2. SessionInv' /\ GrantInv'
  <2>1. SUFFICES ASSUME NEW j \in DOMAIN calls PROVE SessionOK(j)' /\ GrantOK(j)'
    BY DEF SessionInv, GrantInv, ChangesOnly
  <2>2. CASE j = i
    BY <2>2
  <2>3. CASE j # i
    BY <2>3, OthersKeep DEF IInv, SessionInv, GrantInv, ChangesOnly
  <2>4. QED BY <2>2, <2>3
<1>3. DistinctInv'
  <2>1. \A j \in DOMAIN calls : calls[j] \in Call /\ calls[j].sessionID \in 0..Len(sessions)
    BY DEF IInv, TypeOK, SessionInv, SessionOK
  <2>2. QED BY <2>1 DEF IInv, DistinctInv, ChangesOnly
<1>4. QED BY <1>1, <1>2, <1>3 DEF IInv

LEMMA InitStep ==
    ASSUME IInv, NEW i \in DOMAIN calls, AttestationInit(i)
    PROVE  IInv'
<1> DEFINE s == Len(sessions) + 1
<1>1. PICK opened, read \in BOOLEAN :
         /\ read => opened
         /\ sessions' = IF opened THEN Append(sessions, calls[i].payload) ELSE sessions
         /\ calls' = IF read THEN KeptInCall(i, s) ELSE [calls EXCEPT ![i].pc = "error"]
  BY DEF AttestationInit
<1>2. /\ calls[i] \in Call /\ calls[i].pc = "init" /\ attested' = attested
      /\ calls[i].sessionID = 0
  BY DEF AttestationInit, IInv, TypeOK, SessionInv, SessionOK
<1>3. calls[i].payload \in Payloads
  BY <1>2 DEF Call
<1>4. /\ sessions' \in Seq(Payloads) /\ Grows(sessions)
      /\ opened => s \in DOMAIN sessions' /\ sessions'[s] = calls[i].payload
  BY <1>1, <1>3, AppendGrows DEF IInv, TypeOK, Grows
<1>5. Grows(attested) /\ attested' \in Seq(Attested)
  BY <1>2 DEF Grows, IInv, TypeOK
<1>6. \A v \in DOMAIN attested' : attested'[v].session \in DOMAIN sessions'
  BY <1>2, <1>4 DEF Grows, IInv, DistinctInv
<1>7. CASE read
  <2>0. s \in Nat
    BY DEF IInv, TypeOK
  <2>1. calls' = [calls EXCEPT ![i] = [calls[i] EXCEPT !.pc = "complete", !.sessionID = s,
                                                       !.challenge = s]]
    BY <1>1, <1>7 DEF KeptInCall
  <2>2. /\ calls'[i].pc = "complete" /\ calls'[i].sessionID = s /\ calls'[i].challenge = s
        /\ calls'[i].payload = calls[i].payload /\ calls'[i] \in Call
    BY <2>0, <2>1, <1>2 DEF Call, IInv, TypeOK
  <2>3. ChangesOnly(i) /\ calls' \in Seq(Call)
    BY <2>1, <2>2 DEF ChangesOnly, IInv, TypeOK
  <2>4. SessionOK(i)' /\ GrantOK(i)'
    BY <1>1, <1>4, <1>7, <2>2 DEF SessionOK, HoldsItsSession, GrantOK, IInv, TypeOK
  <2>5. s \in Nat \ 0..Len(sessions)
    BY DEF IInv, TypeOK
  <2>6. QED BY <1>4, <1>5, <1>6, <2>2, <2>3, <2>4, <2>5, CallStepKeeps
<1>8. CASE ~read
  <2>1. calls' = [calls EXCEPT ![i] = [calls[i] EXCEPT !.pc = "error"]]
    BY <1>1, <1>8
  <2>2. calls'[i].pc = "error" /\ calls'[i].sessionID = 0 /\ calls'[i] \in Call
    BY <2>1, <1>2 DEF Call, IInv, TypeOK
  <2>3. ChangesOnly(i) /\ calls' \in Seq(Call)
    BY <2>1, <2>2 DEF ChangesOnly, IInv, TypeOK
  <2>4. SessionOK(i)' /\ GrantOK(i)'
    BY <1>4, <2>2 DEF SessionOK, GrantOK
  <2>5. QED BY <1>4, <1>5, <1>6, <2>2, <2>3, <2>4, CallStepKeeps
<1>9. QED BY <1>7, <1>8

(* Signing, failing and parsing change nothing at the service.                *)
LEMMA ServiceIdle ==
    ASSUME IInv, UNCHANGED <<sessions, attested>>
    PROVE  /\ sessions' \in Seq(Payloads) /\ attested' \in Seq(Attested)
           /\ Grows(sessions) /\ Grows(attested)
           /\ \A v \in DOMAIN attested' : attested'[v].session \in DOMAIN sessions'
BY DEF IInv, TypeOK, DistinctInv, Grows

LEMMA SignStep ==
    ASSUME IInv, NEW i \in DOMAIN calls, SignProof(i)
    PROVE  IInv'
<1>1. /\ calls[i] \in Call /\ SessionOK(i) /\ calls[i].pc = "complete"
      /\ UNCHANGED <<sessions, attested>>
  BY DEF SignProof, IInv, TypeOK, SessionInv
<1>2. calls[i].keyID \in KeyIDs /\ DIDPart[calls[i].keyID] \in DIDs
  BY <1>1 DEF SignProof, Call
<1>3. calls' = [calls EXCEPT ![i] = [calls[i] EXCEPT !.pc = "send",
                                                     !.iss = DIDPart[calls[i].keyID]]]
  BY DEF SignProof
<1>4. /\ calls'[i].pc = "send" /\ calls'[i].iss = DIDPart[calls[i].keyID]
      /\ calls'[i].sessionID = calls[i].sessionID /\ calls'[i].challenge = calls[i].challenge
      /\ calls'[i].payload = calls[i].payload /\ calls'[i].keyID = calls[i].keyID
      /\ calls'[i] \in Call
  BY <1>1, <1>2, <1>3 DEF Call, IInv, TypeOK
<1>5. ChangesOnly(i) /\ calls' \in Seq(Call)
  BY <1>3, <1>4 DEF ChangesOnly, IInv, TypeOK
<1>6. SessionOK(i)' /\ GrantOK(i)'
  BY <1>1, <1>2, <1>4 DEF SessionOK, HoldsItsSession, GrantOK
<1>7. QED BY <1>1, <1>4, <1>5, <1>6, ServiceIdle, CallStepKeeps

(* A call that ends in an error, before or after the service was asked.       *)
LEMMA FailureStep ==
    ASSUME IInv, NEW i \in DOMAIN calls, calls' = [calls EXCEPT ![i].pc = "error"],
           UNCHANGED <<sessions, attested>>
    PROVE  IInv'
<1>1. calls[i] \in Call /\ SessionOK(i)
  BY DEF IInv, TypeOK, SessionInv
<1>2. /\ calls'[i].pc = "error" /\ calls'[i].sessionID = calls[i].sessionID
      /\ calls'[i] \in Call
  BY <1>1 DEF Call, IInv, TypeOK
<1>3. ChangesOnly(i) /\ calls' \in Seq(Call)
  BY <1>2 DEF ChangesOnly, IInv, TypeOK
<1>4. SessionOK(i)' /\ GrantOK(i)'
  BY <1>1, <1>2 DEF SessionOK, GrantOK
<1>5. QED BY <1>2, <1>3, <1>4, ServiceIdle, CallStepKeeps

LEMMA CompleteStep ==
    ASSUME IInv, NEW i \in DOMAIN calls, AttestationComplete(i)
    PROVE  IInv'
<1>1. PICK accepted, read \in BOOLEAN :
         /\ read => accepted
         /\ accepted => Takes(calls[i].sessionID, calls[i].challenge)
         /\ attested' = IF accepted
                        THEN Append(attested, Attest(calls[i].sessionID, calls[i].iss))
                        ELSE attested
         /\ calls' = [calls EXCEPT ![i] = Completed(i, read)]
  BY DEF AttestationComplete
<1>2. /\ calls[i] \in Call /\ SessionOK(i) /\ calls[i].pc = "send" /\ HoldsItsSession(i)
      /\ sessions' = sessions
  BY DEF AttestationComplete, IInv, TypeOK, SessionInv, SessionOK
<1>3. Attest(calls[i].sessionID, calls[i].iss) =
        [session |-> calls[i].sessionID, did |-> DIDPart[calls[i].keyID],
         payload |-> calls[i].payload]
  BY <1>2 DEF Attest, SessionOK, HoldsItsSession
<1>4. Attest(calls[i].sessionID, calls[i].iss) \in Attested
  BY <1>2, <1>3 DEF Attested, Call
<1>5. PICK new \in Nat : new = Len(attested) + 1
  BY DEF IInv, TypeOK
<1>6. /\ attested' \in Seq(Attested) /\ Grows(attested)
      /\ accepted => /\ DOMAIN attested' = DOMAIN attested \cup {new}
                     /\ attested'[new] = Attest(calls[i].sessionID, calls[i].iss)
      /\ ~accepted => attested' = attested
  BY <1>1, <1>4, <1>5, AppendGrows DEF IInv, TypeOK, Grows
<1>7. sessions' \in Seq(Payloads) /\ Grows(sessions)
  BY <1>2 DEF Grows, IInv, TypeOK
<1>8. \A v \in DOMAIN attested' : attested'[v].session \in DOMAIN sessions'
  BY <1>2, <1>3, <1>6 DEF HoldsItsSession, Grows, IInv, DistinctInv
<1>9. /\ calls'[i].sessionID = calls[i].sessionID /\ calls'[i].challenge = calls[i].challenge
      /\ calls'[i].payload = calls[i].payload /\ calls'[i].keyID = calls[i].keyID
      /\ calls'[i] \in Call /\ calls'[i] = Completed(i, read)
      /\ IF read THEN calls'[i].pc = "parse" /\ calls'[i].vc = new ELSE calls'[i].pc = "error"
  <2>1. calls'[i] = Completed(i, read)
    BY <1>1 DEF IInv, TypeOK
  <2>2. CASE read
    BY <1>2, <1>5, <2>1, <2>2 DEF Completed, Call
  <2>3. CASE ~read
    BY <1>2, <2>1, <2>3 DEF Completed, Call
  <2>4. QED BY <2>1, <2>2, <2>3
<1>10. ChangesOnly(i) /\ calls' \in Seq(Call)
  BY <1>1, <1>9 DEF ChangesOnly, IInv, TypeOK
<1>11. SessionOK(i)' /\ GrantOK(i)'
  <2>1. CASE read
    BY <1>1, <1>2, <1>3, <1>6, <1>9, <2>1 DEF SessionOK, HoldsItsSession, GrantOK
  <2>2. CASE ~read
    BY <1>2, <1>9, <2>2 DEF SessionOK, GrantOK
  <2>3. QED BY <2>1, <2>2
<1>12. QED BY <1>6, <1>7, <1>8, <1>9, <1>10, <1>11, CallStepKeeps

LEMMA ParseStep ==
    ASSUME IInv, NEW i \in DOMAIN calls, ParseCredential(i)
    PROVE  IInv'
<1>1. PICK pc \in {"ok", "error"} : calls' = [calls EXCEPT ![i].pc = pc]
  BY DEF ParseCredential
<1>2. /\ calls[i] \in Call /\ SessionOK(i) /\ GrantOK(i) /\ calls[i].pc = "parse"
      /\ UNCHANGED <<sessions, attested>>
  BY DEF ParseCredential, IInv, TypeOK, SessionInv, GrantInv
<1>3. /\ calls'[i] = [calls[i] EXCEPT !.pc = pc] /\ calls'[i] \in Call
  BY <1>1, <1>2 DEF Call, IInv, TypeOK
<1>4. ChangesOnly(i) /\ calls' \in Seq(Call)
  BY <1>1, <1>3 DEF ChangesOnly, IInv, TypeOK
<1>5. SessionOK(i)' /\ GrantOK(i)'
  BY <1>2, <1>3 DEF SessionOK, HoldsItsSession, GrantOK, Call
<1>6. calls'[i].sessionID = calls[i].sessionID
  BY <1>2, <1>3 DEF Call
<1>7. QED BY <1>2, <1>3, <1>4, <1>5, <1>6, ServiceIdle, CallStepKeeps

LEMMA StepIInv == IInv /\ [Next]_vars => IInv'
<1>1. SUFFICES ASSUME IInv, [Next]_vars PROVE IInv'
  OBVIOUS
<1>2. CASE \E keyID \in KeyIDs, payload \in Payloads : GetAttestationVC(keyID, payload)
  BY <1>1, <1>2, StartStep
<1>3. ASSUME NEW i \in DOMAIN calls, CallStep(i) PROVE IInv'
  <2>1. CASE AttestationInit(i)
    BY <1>1, <2>1, InitStep
  <2>2. CASE SignProof(i)
    BY <1>1, <2>2, SignStep
  <2>3. CASE SigningFails(i)
    BY <1>1, <2>3, FailureStep DEF SigningFails
  <2>4. CASE AttestationComplete(i)
    BY <1>1, <2>4, CompleteStep
  <2>5. CASE ParseCredential(i)
    BY <1>1, <2>5, ParseStep
  <2>6. QED BY <1>3, <2>1, <2>2, <2>3, <2>4, <2>5 DEF CallStep
<1>4. CASE UNCHANGED vars
  <2>1. UNCHANGED <<calls, sessions, attested>>
    BY <1>4 DEF vars
  <2>2. TypeOK' /\ DistinctInv'
    BY <1>1, <2>1 DEF IInv, TypeOK, DistinctInv
  <2>3. SessionInv'
    BY <1>1, <2>1 DEF IInv, SessionInv, SessionOK, HoldsItsSession
  <2>4. GrantInv'
    BY <1>1, <2>1 DEF IInv, GrantInv, GrantOK
  <2>5. QED BY <2>2, <2>3, <2>4 DEF IInv
<1>5. QED BY <1>1, <1>2, <1>3, <1>4 DEF Next

LEMMA Invariance == Spec => []IInv
BY InitIInv, StepIInv, PTL DEF Spec

(* However many calls run on a client: one that succeeds returns the          *)
(* attestation of its own payload, for the DID of its own key.                *)
THEOREM AttestationsAreTheirs == Spec => []AttestsWhatWasAsked
<1>1. ASSUME IInv, NEW i \in DOMAIN calls, calls[i].pc = "ok"
      PROVE  /\ calls[i].vc \in DOMAIN attested
             /\ attested[calls[i].vc].payload = calls[i].payload
             /\ attested[calls[i].vc].did = DIDPart[calls[i].keyID]
             /\ DIDPart[calls[i].keyID] # NoDID
  <2>1. GrantOK(i)
    BY <1>1 DEF IInv, GrantInv
  <2>2. QED BY <1>1, <2>1 DEF GrantOK
<1>2. IInv => AttestsWhatWasAsked
  BY <1>1 DEF AttestsWhatWasAsked
<1>3. QED BY <1>2, Invariance, PTL

-----------------------------------------------------------------------------
(* Refinement.                                                                *)

(* What a step of call i must do to them.                                     *)
Maps(i) ==
    /\ Asked' = Asked
    /\ \/ GrantedTo' = GrantedTo
       \/ /\ ~GrantedTo[i] /\ Results[i] = "none"
          /\ GrantedTo' = [GrantedTo EXCEPT ![i] = TRUE]
    /\ \/ Results' = Results
       \/ /\ Results[i] = "none" /\ Results' = [Results EXCEPT ![i] = "error"]
       \/ /\ Results[i] = "none" /\ Results' = [Results EXCEPT ![i] = "ok"]
          /\ GrantedTo[i] /\ GrantedTo' = GrantedTo

(* The service attested nothing: the grants stay what they were.              *)
LEMMA GrantsStay ==
    ASSUME IInv, NEW i \in DOMAIN calls, ChangesOnly(i), attested' = attested,
           calls'[i].payload = calls[i].payload, calls'[i].keyID = calls[i].keyID,
           \/ calls'[i].sessionID = calls[i].sessionID
           \/ /\ calls[i].sessionID = 0
              /\ calls'[i].sessionID \notin DOMAIN sessions
    PROVE  Asked' = Asked /\ GrantedTo' = GrantedTo
<1>1. \A j \in DOMAIN calls : RequestOf(j)' = RequestOf(j)
  BY DEF RequestOf, ChangesOnly
<1>2. ASSUME NEW j \in DOMAIN calls PROVE Granted(j)' <=> Granted(j)
  <2>1. CASE calls'[j].sessionID = calls[j].sessionID
    BY <1>1, <2>1 DEF Granted
  <2>2. CASE calls'[j].sessionID # calls[j].sessionID
    <3>1. j = i /\ calls[j].sessionID = 0 /\ calls'[j].sessionID \notin DOMAIN sessions
      BY <2>2 DEF ChangesOnly
    <3>2. 0 \notin DOMAIN sessions
      BY DEF IInv, TypeOK
    <3>3. ~Granted(j) /\ ~Granted(j)'
      BY <3>1, <3>2 DEF Granted, IInv, DistinctInv
    <3>4. QED BY <3>3
  <2>3. QED BY <2>1, <2>2
<1>3. Asked' = Asked
  BY <1>1 DEF Asked, ChangesOnly
<1>4. GrantedTo' = GrantedTo
  <2>1. \A j \in DOMAIN calls : Granted(j)' = Granted(j)
    BY <1>2 DEF Granted
  <2>2. DOMAIN calls' = DOMAIN calls
    BY DEF ChangesOnly
  <2>3. QED BY <2>1, <2>2, Zenon DEF GrantedTo
<1>5. QED BY <1>3, <1>4

LEMMA ResultsOfStep ==
    ASSUME IInv, NEW i \in DOMAIN calls, ChangesOnly(i)
    PROVE  Results' = [Results EXCEPT ![i] = ResultOf(calls'[i])]
<1>1. \A j \in DOMAIN calls : j # i => ResultOf(calls[j])' = ResultOf(calls[j])
  BY DEF ChangesOnly, ResultOf
<1>2. Results' = [j \in DOMAIN calls |-> ResultOf(calls'[j])]
  BY DEF Results, ResultOf, ChangesOnly
<1>3. \A j \in DOMAIN calls : j # i => ResultOf(calls'[j]) = ResultOf(calls[j])
  BY DEF ChangesOnly
<1>4. QED BY <1>2, <1>3 DEF Results

(* The steps that only end a call, or leave it running.                       *)
LEMMA QuietStep ==
    ASSUME IInv, NEW i \in DOMAIN calls, ChangesOnly(i), attested' = attested,
           calls'[i].payload = calls[i].payload, calls'[i].keyID = calls[i].keyID,
           \/ calls'[i].sessionID = calls[i].sessionID
           \/ /\ calls[i].sessionID = 0
              /\ calls'[i].sessionID \notin DOMAIN sessions,
           ResultOf(calls[i]) = "none",
           \/ ResultOf(calls'[i]) \in {"none", "error"}
           \/ ResultOf(calls'[i]) = "ok" /\ Granted(i)
    PROVE  Maps(i)
<1>1. Asked' = Asked /\ GrantedTo' = GrantedTo
  BY GrantsStay
<1>2. Results' = [Results EXCEPT ![i] = ResultOf(calls'[i])] /\ Results[i] = "none"
  BY ResultsOfStep DEF Results
<1>3. CASE ResultOf(calls'[i]) = "none"
  <2>1. Results' = Results
    BY <1>2, <1>3 DEF Results
  <2>2. QED BY <1>1, <2>1 DEF Maps
<1>4. CASE ResultOf(calls'[i]) = "error"
  BY <1>1, <1>2, <1>4 DEF Maps
<1>5. CASE ResultOf(calls'[i]) = "ok" /\ Granted(i)
  <2>1. GrantedTo[i]
    BY <1>5 DEF GrantedTo
  <2>2. QED BY <1>1, <1>2, <1>5, <2>1 DEF Maps
<1>6. QED BY <1>3, <1>4, <1>5

(* The service takes the proof of a call, which grants its request only, or   *)
(* turns it down.                                                             *)
LEMMA AttestationMaps ==
    ASSUME IInv, NEW i \in DOMAIN calls, AttestationComplete(i)
    PROVE  Maps(i)
<1>1. PICK accepted, read \in BOOLEAN :
         /\ read => accepted
         /\ accepted => Takes(calls[i].sessionID, calls[i].challenge)
         /\ attested' = IF accepted
                        THEN Append(attested, Attest(calls[i].sessionID, calls[i].iss))
                        ELSE attested
         /\ calls' = [calls EXCEPT ![i] = Completed(i, read)]
  BY DEF AttestationComplete
<1>2. /\ calls \in Seq(Call) /\ calls[i] \in Call /\ calls[i].pc = "send"
      /\ SessionOK(i) /\ HoldsItsSession(i)
  BY DEF AttestationComplete, IInv, TypeOK, SessionInv, SessionOK
<1>3. ChangesOnly(i) /\ calls'[i] = Completed(i, read)
  BY <1>1, <1>2 DEF ChangesOnly
<1>4. /\ calls'[i].payload = calls[i].payload /\ calls'[i].keyID = calls[i].keyID
      /\ calls'[i].sessionID = calls[i].sessionID
      /\ calls'[i].pc \in {"parse", "error"}
  <2>1. CASE read
    BY <1>2, <1>3, <2>1 DEF Completed, Call
  <2>2. CASE ~read
    BY <1>2, <1>3, <2>2 DEF Completed, Call
  <2>3. QED BY <2>1, <2>2
<1>5. ResultOf(calls[i]) = "none" /\ ResultOf(calls'[i]) \in {"none", "error"}
  BY <1>2, <1>4 DEF ResultOf
<1>6. CASE ~accepted
  BY <1>1, <1>3, <1>4, <1>5, <1>6, QuietStep
<1>7. CASE accepted
  <2>1. Attest(calls[i].sessionID, calls[i].iss) =
          [session |-> calls[i].sessionID, did |-> RequestOf(i).did,
           payload |-> RequestOf(i).payload]
    BY <1>2 DEF Attest, SessionOK, HoldsItsSession, RequestOf
  <2>2. Attest(calls[i].sessionID, calls[i].iss) \in Attested
    BY <1>2, <2>1 DEF Attested, Call, RequestOf
  <2>3. PICK new \in Nat : new = Len(attested) + 1
    BY DEF IInv, TypeOK
  <2>4. /\ DOMAIN attested' = DOMAIN attested \cup {new}
        /\ \A v \in DOMAIN attested : attested'[v] = attested[v]
        /\ attested'[new] = Attest(calls[i].sessionID, calls[i].iss)
    BY <1>1, <1>7, <2>2, <2>3, AppendGrows DEF IInv, TypeOK
  <2>5. \A j \in DOMAIN calls : /\ RequestOf(j)' = RequestOf(j)
                                /\ calls'[j].sessionID = calls[j].sessionID
    BY <1>3, <1>4 DEF RequestOf, ChangesOnly
  <2>6. ~Granted(i)
    BY <1>1, <1>7 DEF Takes, Granted
  <2>7. Granted(i)'
    BY <2>1, <2>4, <2>5 DEF Granted
  <2>8. ASSUME NEW j \in DOMAIN calls, j # i PROVE Granted(j)' <=> Granted(j)
    <3>1. calls[i].sessionID # 0
      BY <1>2 DEF HoldsItsSession, IInv, TypeOK
    <3>2. calls[j].sessionID # calls[i].sessionID
      BY <2>8, <3>1 DEF IInv, DistinctInv
    <3>3. attested'[new].session = calls[i].sessionID
      BY <2>1, <2>4
    <3>4. QED BY <2>4, <2>5, <3>2, <3>3 DEF Granted
  <2>9. Asked' = Asked
    BY <1>3, <2>5 DEF Asked, ChangesOnly
  <2>10. ~GrantedTo[i] /\ GrantedTo' = [GrantedTo EXCEPT ![i] = TRUE]
    <3>1. ASSUME NEW j \in DOMAIN calls
          PROVE  Granted(j)' = IF j = i THEN TRUE ELSE Granted(j)
      BY <2>7, <2>8 DEF Granted
    <3>2. DOMAIN calls' = DOMAIN calls
      BY <1>3 DEF ChangesOnly
    <3>3. GrantedTo' = [j \in DOMAIN calls |-> IF j = i THEN TRUE ELSE Granted(j)]
      BY <3>1, <3>2, Zenon DEF GrantedTo
    <3>4. QED BY <2>6, <3>3, Zenon DEF GrantedTo
  <2>11. Results[i] = "none" /\ Results' = [Results EXCEPT ![i] = ResultOf(calls'[i])]
    BY <1>3, <1>5, ResultsOfStep DEF Results
  <2>12. CASE ResultOf(calls'[i]) = "none"
    <3>1. Results' = Results
      BY <2>11, <2>12 DEF Results
    <3>2. QED BY <2>9, <2>10, <2>11, <3>1 DEF Maps
  <2>13. CASE ResultOf(calls'[i]) = "error"
    BY <2>9, <2>10, <2>11, <2>13 DEF Maps
  <2>14. QED BY <1>5, <2>12, <2>13
<1>8. QED BY <1>6, <1>7

LEMMA CallStepMaps ==
    ASSUME IInv, NEW i \in DOMAIN calls, CallStep(i)
    PROVE  Maps(i)
<1>0. calls \in Seq(Call) /\ calls[i] \in Call /\ SessionOK(i) /\ GrantOK(i)
  BY DEF IInv, TypeOK, SessionInv, GrantInv
<1>1. CASE AttestationInit(i)
  <2>1. PICK opened, read \in BOOLEAN :
           calls' = IF read THEN KeptInCall(i, Len(sessions) + 1)
                    ELSE [calls EXCEPT ![i].pc = "error"]
    BY <1>1 DEF AttestationInit
  <2>2. calls[i].pc = "init" /\ calls[i].sessionID = 0 /\ attested' = attested
    BY <1>0, <1>1 DEF AttestationInit, SessionOK
  <2>3. Len(sessions) + 1 \notin DOMAIN sessions
    BY DEF IInv, TypeOK
  <2>4. ChangesOnly(i)
    BY <1>0, <2>1 DEF KeptInCall, ChangesOnly
  <2>5. /\ calls'[i].payload = calls[i].payload /\ calls'[i].keyID = calls[i].keyID
        /\ calls'[i].pc \in {"complete", "error"}
        /\ calls'[i].sessionID \in {0, Len(sessions) + 1}
    BY <1>0, <2>1, <2>2 DEF KeptInCall, Call
  <2>6. QED BY <2>2, <2>3, <2>4, <2>5, QuietStep DEF ResultOf
<1>2. CASE SignProof(i)
  <2>1. /\ ChangesOnly(i) /\ attested' = attested
        /\ calls'[i].payload = calls[i].payload /\ calls'[i].keyID = calls[i].keyID
        /\ calls'[i].sessionID = calls[i].sessionID
        /\ calls[i].pc = "complete" /\ calls'[i].pc = "send"
    BY <1>0, <1>2 DEF SignProof, ChangesOnly, Call
  <2>2. QED BY <2>1, QuietStep DEF ResultOf
<1>3. CASE SigningFails(i)
  <2>1. /\ ChangesOnly(i) /\ attested' = attested
        /\ calls'[i].payload = calls[i].payload /\ calls'[i].keyID = calls[i].keyID
        /\ calls'[i].sessionID = calls[i].sessionID
        /\ calls[i].pc = "complete" /\ calls'[i].pc = "error"
    BY <1>0, <1>3 DEF SigningFails, ChangesOnly, Call
  <2>2. QED BY <2>1, QuietStep DEF ResultOf
<1>5. CASE ParseCredential(i)
  <2>1. PICK pc \in {"ok", "error"} : calls' = [calls EXCEPT ![i].pc = pc]
    BY <1>5 DEF ParseCredential
  <2>2. /\ ChangesOnly(i) /\ attested' = attested
        /\ calls'[i].payload = calls[i].payload /\ calls'[i].keyID = calls[i].keyID
        /\ calls'[i].sessionID = calls[i].sessionID
        /\ calls[i].pc = "parse" /\ calls'[i].pc \in {"ok", "error"}
    BY <1>0, <1>5, <2>1 DEF ParseCredential, ChangesOnly, Call
  <2>3. Granted(i)
    BY <1>0, <2>2 DEF GrantOK, Granted, RequestOf
  <2>4. QED BY <2>2, <2>3, QuietStep DEF ResultOf
<1>4. CASE AttestationComplete(i)
  BY <1>4, AttestationMaps
<1>6. QED BY <1>1, <1>2, <1>3, <1>4, <1>5 DEF CallStep

(* A function on the calls, seen as a sequence, when a call is added.         *)
LEMMA OneMore ==
    ASSUME NEW S, NEW n \in Nat, NEW f \in [1..n -> S], NEW e \in S,
           NEW g \in [1..(n + 1) -> S], \A j \in 1..n : g[j] = f[j], g[n + 1] = e
    PROVE  g = Append(f, e)
<1>1. f \in Seq(S) /\ Len(f) = n
  OBVIOUS
<1>2. g \in Seq(S) /\ Len(g) = n + 1
  OBVIOUS
<1>3. /\ Append(f, e) \in Seq(S) /\ Len(Append(f, e)) = n + 1
      /\ \A j \in 1..(n + 1) : Append(f, e)[j] = IF j = n + 1 THEN e ELSE f[j]
  BY <1>1
<1>4. \A j \in 1..(n + 1) : g[j] = Append(f, e)[j]
  BY <1>3
<1>5. QED BY <1>2, <1>3, <1>4, SeqEqual

Request == [payload : Payloads, did : DIDs \cup {NoDID}]

LEMMA StartMaps ==
    ASSUME IInv, NEW keyID \in KeyIDs, NEW payload \in Payloads,
           GetAttestationVC(keyID, payload)
    PROVE  Promise!Ask
<1>1. PICK pc \in {"init", "error"} : calls' = Append(calls, NewCall(keyID, payload, pc))
  BY DEF GetAttestationVC
<1>2. PICK n \in Nat : n = Len(calls) /\ DOMAIN calls = 1..n
  BY DEF IInv, TypeOK
<1>3. NewCall(keyID, payload, pc) \in Call
  BY DEF NewCall, Call
<1>4. /\ DOMAIN calls' = 1..(n + 1) /\ calls' \in Seq(Call)
      /\ \A j \in 1..n : calls'[j] = calls[j]
      /\ calls'[n + 1] = NewCall(keyID, payload, pc)
  BY <1>1, <1>2, <1>3, AppendGrows DEF IInv, TypeOK
<1>5. attested' = attested /\ sessions' = sessions
  BY DEF GetAttestationVC
<1>0. ASSUME NEW c \in Call
      PROVE  [payload |-> c.payload, did |-> DIDPart[c.keyID]] \in Request
  BY DEF Request, Call
<1>6. ASSUME NEW j \in 1..(n + 1) PROVE RequestOf(j)' \in Request
  <2>1. calls'[j] \in Call
    BY <1>4
  <2>2. QED BY <1>0, <2>1 DEF RequestOf
<1>7. ASSUME NEW j \in 1..n PROVE RequestOf(j) \in Request /\ RequestOf(j)' = RequestOf(j)
  <2>1. calls'[j] = calls[j] /\ calls[j] \in Call
    BY <1>2, <1>4 DEF IInv, TypeOK
  <2>2. QED BY <1>0, <2>1 DEF RequestOf
<1>8. Asked' = Append(Asked, RequestOf(n + 1)')
  <2>1. Asked \in [1..n -> Request] /\ \A j \in 1..n : Asked[j] = RequestOf(j)
    BY <1>2, <1>7 DEF Asked
  <2>2. Asked' = [j \in 1..(n + 1) |-> RequestOf(j)']
    BY <1>4 DEF Asked
  <2>3. /\ Asked' \in [1..(n + 1) -> Request]
        /\ \A j \in 1..(n + 1) : Asked'[j] = RequestOf(j)'
    BY <1>6, <2>2
  <2>4. QED BY <1>6, <1>7, <2>1, <2>3, OneMore
<1>9. GrantedTo' = Append(GrantedTo, FALSE)
  <2>1. ~Granted(n + 1)'
    <3>1. calls'[n + 1].sessionID = 0
      BY <1>4 DEF NewCall
    <3>2. 0 \notin DOMAIN sessions
      BY DEF IInv, TypeOK
    <3>3. QED BY <1>5, <3>1, <3>2 DEF Granted, IInv, DistinctInv
  <2>2. \A j \in 1..n : Granted(j)' = Granted(j)
    BY <1>4, <1>5, <1>7 DEF Granted
  <2>3. GrantedTo \in [1..n -> BOOLEAN] /\ \A j \in 1..n : GrantedTo[j] = Granted(j)
    BY <1>2, Zenon DEF GrantedTo, Granted
  <2>4. GrantedTo' = [j \in 1..(n + 1) |-> Granted(j)']
    BY <1>4, Zenon DEF GrantedTo
  <2>5. \A j \in 1..(n + 1) : Granted(j)' \in BOOLEAN
    BY Zenon DEF Granted
  <2>6. /\ GrantedTo' \in [1..(n + 1) -> BOOLEAN]
        /\ \A j \in 1..(n + 1) : GrantedTo'[j] = Granted(j)'
    BY <2>4, <2>5, Zenon
  <2>7. n + 1 \in 1..(n + 1) /\ 1..n \subseteq 1..(n + 1)
    OBVIOUS
  <2>8. GrantedTo'[n + 1] = FALSE
    BY <2>1, <2>6, <2>7, Zenon
  <2>9. \A j \in 1..n : GrantedTo'[j] = GrantedTo[j]
    BY <2>2, <2>3, <2>6, <2>7, Zenon
  <2>10. PICK no, f, g : no = FALSE /\ f = GrantedTo /\ g = GrantedTo'
    OBVIOUS
  <2>11. /\ no \in BOOLEAN /\ f \in [1..n -> BOOLEAN] /\ g \in [1..(n + 1) -> BOOLEAN]
         /\ g[n + 1] = no /\ \A j \in 1..n : g[j] = f[j]
    BY <2>3, <2>6, <2>8, <2>9, <2>10, Zenon
  <2>12. g = Append(f, no)
    BY <2>11, OneMore
  <2>13. QED BY <2>10, <2>12, Zenon
<1>10. \E outcome \in {"none", "error"} : Results' = Append(Results, outcome)
  <2> DEFINE Outcome == {"none", "ok", "error"}
  <2>1. \A c : ResultOf(c) \in Outcome
    BY DEF ResultOf
  <2>2. Results \in [1..n -> Outcome] /\ \A j \in 1..n : Results[j] = ResultOf(calls[j])
    BY <1>2, <2>1 DEF Results
  <2>3. Results' = [j \in 1..(n + 1) |-> ResultOf(calls'[j])]
    BY <1>4 DEF Results, ResultOf
  <2>4. /\ Results' \in [1..(n + 1) -> Outcome]
        /\ \A j \in 1..(n + 1) : Results'[j] = ResultOf(calls'[j])
    BY <2>1, <2>3
  <2>5. ResultOf(calls'[n + 1]) \in {"none", "error"}
    BY <1>4 DEF ResultOf, NewCall
  <2>6. \A j \in 1..n : Results'[j] = Results[j]
    BY <1>4, <2>2, <2>4
  <2>7. Results' = Append(Results, ResultOf(calls'[n + 1]))
    BY <2>1, <2>2, <2>4, <2>6, OneMore
  <2>8. QED BY <2>5, <2>7
<1>11. RequestOf(n + 1)' \in Request
  BY <1>6, n + 1 \in 1..(n + 1)
<1>12. QED BY <1>8, <1>9, <1>10, <1>11 DEF Promise!Ask, Request

LEMMA InitMaps == Init => Promise!Init
<1>1. SUFFICES ASSUME Init PROVE Promise!Init
  OBVIOUS
<1>2. calls = <<>> /\ DOMAIN calls = {}
  BY <1>1 DEF Init
<1>4. Asked = <<>>
  BY <1>2 DEF Asked
<1>5. GrantedTo = <<>>
  BY <1>2 DEF GrantedTo
<1>6. Results = <<>>
  BY <1>2 DEF Results
<1>7. QED BY <1>4, <1>5, <1>6 DEF Promise!Init

LEMMA StepMaps == IInv /\ [Next]_vars => [Promise!Next]_(Promise!vars)
<1>1. SUFFICES ASSUME IInv, [Next]_vars PROVE Promise!Next \/ UNCHANGED Promise!vars
  OBVIOUS
<1>2. CASE \E keyID \in KeyIDs, payload \in Payloads : GetAttestationVC(keyID, payload)
  BY <1>1, <1>2, StartMaps DEF Promise!Next
<1>3. ASSUME NEW i \in DOMAIN calls, CallStep(i) PROVE Promise!Next \/ UNCHANGED Promise!vars
  <2>1. Maps(i)
    BY <1>1, <1>3, CallStepMaps
  <2>2. i \in DOMAIN Asked
    BY DEF Asked
  <2>3. CASE Results' = Results
    BY <2>1, <2>2, <2>3 DEF Maps, Promise!Next, Promise!Grant, Promise!Granting, Promise!vars
  <2>4. CASE Results[i] = "none" /\ Results' = [Results EXCEPT ![i] = "error"]
    BY <2>1, <2>2, <2>4 DEF Maps, Promise!Next, Promise!Fail, Promise!Granting
  <2>5. CASE /\ Results[i] = "none" /\ Results' = [Results EXCEPT ![i] = "ok"]
             /\ GrantedTo[i] /\ GrantedTo' = GrantedTo
    BY <2>1, <2>2, <2>5 DEF Maps, Promise!Next, Promise!Succeed
  <2>6. QED BY <2>1, <2>3, <2>4, <2>5 DEF Maps
<1>4. CASE UNCHANGED vars
  BY <1>4 DEF vars, Asked, GrantedTo, Results, RequestOf, Granted, Promise!vars
<1>5. QED BY <1>1, <1>2, <1>3, <1>4 DEF Next

(* Concurrent calls on one client implement what calls promise on their own:  *)
(* each is granted its own request at most once, and succeeds only then.      *)
THEOREM CallsKeepTheirPromise == Spec => KeepsPromise
BY InitMaps, StepMaps, Invariance, PTL DEF Spec, KeepsPromise, Promise!Spec
=============================================================================
