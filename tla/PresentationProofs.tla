------------------------- MODULE PresentationProofs -------------------------
(***************************************************************************)
(* What holds of an interaction with a verifier for every wallet, every    *)
(* presentation definition, any number of threads and calls: its types,    *)
(* that the verifier gets what it asked for, signed by the holders, and    *)
(* that a call without error was accepted and logged.                      *)
(***************************************************************************)
EXTENDS Presentation, SequenceTheorems, TLAPS

PCs == {"clear", "evaluate", "create", "send", "metrics", "activity", "ok", "error"}

(* A step of call i changes no other call and makes none.                     *)
ChangesOnly(i) ==
    /\ calls' \in Seq(Call)
    /\ DOMAIN calls' = DOMAIN calls
    /\ \A j \in DOMAIN calls \ {i} : calls'[j] = calls[j]

LEMMA ReplaceCall ==
    ASSUME calls \in Seq(Call), NEW i \in DOMAIN calls, NEW c \in Call,
           calls' = [calls EXCEPT ![i] = c]
    PROVE  ChangesOnly(i) /\ calls'[i] = c
BY ExceptSeq, LenProperties DEF ChangesOnly

(* Most steps of a call only move its control.                                *)
LEMMA MoveCall ==
    ASSUME calls \in Seq(Call), NEW i \in DOMAIN calls, NEW p \in PCs,
           calls' = [calls EXCEPT ![i].pc = p]
    PROVE  /\ ChangesOnly(i)
           /\ calls'[i].pc = p
           /\ calls'[i].response = calls[i].response
           /\ calls'[i].op = calls[i].op
           /\ calls'[i].credentials = calls[i].credentials
           /\ calls'[i].next = calls[i].next
           /\ calls'[i].asked = calls[i].asked
<1> DEFINE c == [calls[i] EXCEPT !.pc = p]
<1>1. calls[i] \in Call
  OBVIOUS
<1>2. /\ c \in Call /\ c.pc = p /\ c.response = calls[i].response
      /\ c.op = calls[i].op /\ c.next = calls[i].next
      /\ c.credentials = calls[i].credentials /\ c.asked = calls[i].asked
  BY <1>1 DEF Call, PCs
<1>3. calls' = [calls EXCEPT ![i] = c]
  OBVIOUS
<1> HIDE DEF c
<1>4. QED BY <1>2, <1>3, ReplaceCall

LEMMA SomeDescriptor == 1 \in Descriptors
BY DescriptorsAssumption DEF Descriptors

(* A step along the descriptors stays within them.                            *)
LEMMA Walk ==
    ASSUME NEW c \in Call, c.next \in Descriptors, NEW p \in PCs, NEW q \in PCs
    PROVE  LET n == Advanced(c, p, q) IN
           /\ n \in Call /\ n.next \in Descriptors
           /\ n.response = c.response /\ n.op = c.op
           /\ n.credentials = c.credentials /\ n.asked = c.asked
           /\ \/ n.pc = p /\ n.next = c.next + 1
              \/ n.pc = q /\ n.next = 1 /\ c.next + 1 \notin Descriptors
<1>1. c.next + 1 \in Nat /\ 1 \in Nat
  BY DEF Descriptors
<1>2. CASE c.next + 1 \in Descriptors
  <2> DEFINE n == [c EXCEPT !.next = c.next + 1, !.pc = p]
  <2>1. Advanced(c, p, q) = n
    BY <1>2 DEF Advanced
  <2>2. n \in Call /\ n.next = c.next + 1 /\ n.pc = p /\ n.response = c.response
        /\ n.op = c.op /\ n.credentials = c.credentials /\ n.asked = c.asked
    BY <1>1 DEF Call, PCs
  <2>3. QED BY <1>2, <2>1, <2>2
<1>3. CASE c.next + 1 \notin Descriptors
  <2> DEFINE n == [c EXCEPT !.next = 1, !.pc = q]
  <2>1. Advanced(c, p, q) = n
    BY <1>3 DEF Advanced
  <2>2. n \in Call /\ n.next = 1 /\ n.pc = q /\ n.response = c.response
        /\ n.op = c.op /\ n.credentials = c.credentials /\ n.asked = c.asked
    BY <1>1 DEF Call, PCs
  <2>3. QED BY <1>3, <2>1, <2>2, SomeDescriptor
<1>4. QED BY <1>2, <1>3

(* A step of the loop that removes the constraints.                           *)
LEMMA ClearCall ==
    ASSUME TypeOK, NEW i \in DOMAIN calls, ClearConstraints(i)
    PROVE  /\ ChangesOnly(i)
           /\ calls'[i].pc \in {"clear", "evaluate"} /\ calls'[i].next \in Descriptors
           /\ calls'[i].pc = "evaluate" => calls'[i].next = 1
           /\ calls'[i].response = calls[i].response
           /\ calls'[i].op = calls[i].op
           /\ calls'[i].credentials = calls[i].credentials
<1>1. calls \in Seq(Call) /\ calls[i] \in Call /\ calls[i].next \in Descriptors
  BY DEF TypeOK, ClearConstraints
<1>2. PICK c : c = Advanced(calls[i], "clear", "evaluate")
  OBVIOUS
<1>3. /\ c \in Call /\ c.next \in Descriptors
      /\ c.response = calls[i].response /\ c.op = calls[i].op
      /\ c.credentials = calls[i].credentials
      /\ \/ c.pc = "clear"
         \/ c.pc = "evaluate" /\ c.next = 1
  <2>1. "clear" \in PCs /\ "evaluate" \in PCs
    BY DEF PCs
  <2>2. PICK b : b = calls[i]
    OBVIOUS
  <2>3. b \in Call /\ b.next \in Descriptors
    BY <1>1, <2>2
  <2>4. LET m == Advanced(b, "clear", "evaluate") IN
           /\ m \in Call /\ m.next \in Descriptors
           /\ m.response = b.response /\ m.op = b.op
           /\ m.credentials = b.credentials /\ m.asked = b.asked
           /\ \/ m.pc = "clear" /\ m.next = b.next + 1
              \/ m.pc = "evaluate" /\ m.next = 1 /\ b.next + 1 \notin Descriptors
    BY <2>1, <2>3, Walk, Zenon
  <2>5. QED
    BY <1>2, <2>2, <2>4, Zenon
<1>4. calls' = [calls EXCEPT ![i] = c]
  BY <1>2 DEF ClearConstraints
<1>5. QED BY <1>1, <1>3, <1>4, ReplaceCall

(* A step of the evaluation.                                                  *)
LEMMA EvaluateCall ==
    ASSUME TypeOK, NEW i \in DOMAIN calls, Evaluate(i)
    PROVE  /\ ChangesOnly(i)
           /\ calls[i].next \in Descriptors /\ calls'[i].next \in Descriptors
           /\ \/ calls'[i].pc = "evaluate" /\ calls'[i].next = calls[i].next + 1
              \/ calls'[i].pc = "create" /\ calls[i].next + 1 \notin Descriptors
           /\ calls'[i].asked = calls[i].asked \cup ({calls[i].next} \cap constrained)
           /\ calls'[i].response = calls[i].response
           /\ calls'[i].op = calls[i].op
           /\ calls'[i].credentials = calls[i].credentials
<1>1. calls \in Seq(Call) /\ calls[i] \in Call /\ calls[i].next \in Descriptors
  BY DEF TypeOK, Evaluate
<1>2. PICK a : a = calls[i].asked \cup ({calls[i].next} \cap constrained)
  OBVIOUS
<1>3. a \in SUBSET Descriptors
  BY <1>1, <1>2 DEF TypeOK, Call
<1>4. PICK c : c = [calls[i] EXCEPT !.asked = a]
  OBVIOUS
<1>5. /\ c \in Call /\ c.next = calls[i].next /\ c.response = calls[i].response
      /\ c.op = calls[i].op /\ c.credentials = calls[i].credentials /\ c.asked = a
  BY <1>1, <1>3, <1>4 DEF Call
<1>6. PICK n : n = Advanced(c, "evaluate", "create")
  OBVIOUS
<1>7. /\ n \in Call /\ n.next \in Descriptors
      /\ n.response = c.response /\ n.op = c.op
      /\ n.credentials = c.credentials /\ n.asked = a
      /\ \/ n.pc = "evaluate" /\ n.next = c.next + 1
         \/ n.pc = "create" /\ c.next + 1 \notin Descriptors
  <2>1. "evaluate" \in PCs /\ "create" \in PCs
    BY DEF PCs
  <2>2. c \in Call /\ c.next \in Descriptors
    BY <1>1, <1>5
  <2>3. LET m == Advanced(c, "evaluate", "create") IN
           /\ m \in Call /\ m.next \in Descriptors
           /\ m.response = c.response /\ m.op = c.op
           /\ m.credentials = c.credentials /\ m.asked = c.asked
           /\ \/ m.pc = "evaluate" /\ m.next = c.next + 1
              \/ m.pc = "create" /\ m.next = 1 /\ c.next + 1 \notin Descriptors
    BY <2>1, <2>2, Walk, Zenon
  <2>4. QED
    BY <1>5, <1>6, <2>3, Zenon
<1>8. ChangesOnly(i) /\ calls'[i] = n
  <2>1. calls' = [calls EXCEPT ![i] = n]
    BY <1>2, <1>4, <1>6 DEF Evaluate
  <2>2. QED BY <1>1, <1>7, <2>1, ReplaceCall
<1>9. QED BY <1>1, <1>2, <1>5, <1>7, <1>8

(* A call that begins joins the others, which stay as they are.               *)
LEMMA StartCall ==
    ASSUME calls \in Seq(Call), NEW op, NEW C, NEW p, Start(op, C, p),
           NewCall(op, C, p) \in Call
    PROVE  /\ calls' \in Seq(Call)
           /\ Len(calls) + 1 \notin DOMAIN calls
           /\ DOMAIN calls' = DOMAIN calls \cup {Len(calls) + 1}
           /\ calls'[Len(calls) + 1] = NewCall(op, C, p)
           /\ \A j \in DOMAIN calls : calls'[j] = calls[j]
<1>1. calls' = Append(calls, NewCall(op, C, p))
  BY DEF Start
<1>2. QED BY <1>1, AppendProperties, LenProperties

LEMMA NewCallType ==
    ASSUME NEW op \in {"PresentCredential", "PresentCredentialUnsafe"},
           NEW C \in SUBSET Credentials, NEW p \in PCs
    PROVE  /\ NewCall(op, C, p) \in Call
           /\ NewCall(op, C, p).pc = p /\ NewCall(op, C, p).op = op
           /\ NewCall(op, C, p).next = 1 /\ 1 \in Descriptors
           /\ NewCall(op, C, p).response = NoResponse
BY SomeDescriptor DEF NewCall, Call, PCs

(* A response is made of tokens that the holders of the chosen credentials    *)
(* sign; a definition that is covered takes at least one credential.          *)
LEMMA TokensType ==
    ASSUME NEW C \in SUBSET Credentials, NEW asked, Covers(asked, C),
           NEW tokens \in Tokens(Chosen(asked, C)), \A c \in DOMAIN tokens : tokens[c].iss # ""
    PROVE  /\ tokens \in TokensOfType
           /\ DOMAIN tokens = Chosen(asked, C)
           /\ \A c \in DOMAIN tokens : tokens[c] = [vp |-> c, iss |-> Holder[c]]
           /\ DOMAIN tokens # {}
<1>1. tokens = [c \in Chosen(asked, C) |-> [vp |-> c, iss |-> Holder[c]]]
  BY DEF Tokens
<1>2. Chosen(asked, C) \subseteq Credentials
  BY DEF Chosen
<1>3. Chosen(asked, C) # {}
  BY SomeDescriptor DEF Covers, Chosen
<1>4. \A c \in Chosen(asked, C) : Holder[c] \in DIDs
  BY <1>1, <1>2, HolderAssumption
<1>5. tokens \in [Chosen(asked, C) -> Token]
  BY <1>1, <1>2, <1>4 DEF Token
<1>6. tokens \in TokensOfType
  BY <1>2, <1>3, <1>5 DEF TokensOfType
<1>7. QED BY <1>1, <1>3, <1>6

LEMMA ShownByTokens ==
    ASSUME NEW D, NEW tokens, DOMAIN tokens = D,
           \A c \in D : tokens[c] = [vp |-> c, iss |-> Holder[c]]
    PROVE  {tokens[c].vp : c \in DOMAIN tokens} = D
<1>1. \A c \in D : tokens[c].vp = c
  OBVIOUS
<1>2. QED BY <1>1

LEMMA CreateCall ==
    ASSUME TypeOK, NEW i \in DOMAIN calls, CreateResponse(i)
    PROVE  /\ ChangesOnly(i)
           /\ calls[i].pc = "create"
           /\ calls'[i].pc = "send" /\ calls'[i].op = calls[i].op
           /\ calls'[i].response \in Response
           /\ calls'[i].response.unsafe = UnsafeBegun
           /\ calls'[i].response.left = constrained
           /\ calls'[i].response.format = Format(calls[i].credentials)
           /\ calls'[i].credentials = calls[i].credentials
           /\ Covers(calls[i].asked, calls[i].credentials)
           /\ Shown(i)' = Chosen(calls[i].asked, calls[i].credentials)
           /\ Shown(i)' \subseteq calls[i].credentials
           /\ \A c \in DOMAIN calls'[i].response.tokens :
                calls'[i].response.tokens[c] = [vp |-> c, iss |-> Holder[c]]
           /\ IF request.id_token
              THEN \E c \in DOMAIN calls'[i].response.tokens :
                      calls'[i].response.id_token = Holder[c]
              ELSE calls'[i].response.id_token = ""
<1>1. calls \in Seq(Call) /\ calls[i] \in Call
  BY DEF TypeOK
<1>2. PICK C \in SUBSET Credentials : C = calls[i].credentials
  BY <1>1 DEF Call
<1>3. PICK tokens \in Tokens(Chosen(calls[i].asked, C)) : \E signer \in IDTokenSigners(tokens) :
        /\ \A c \in DOMAIN tokens : tokens[c].iss # ""
        /\ calls' = [calls EXCEPT ![i].pc = "send", ![i].response =
                       [made |-> TRUE, tokens |-> tokens, id_token |-> signer,
                        format |-> Format(C), left |-> constrained, unsafe |-> UnsafeBegun]]
  BY <1>2 DEF CreateResponse, MadeResponse
<1>4. PICK signer \in IDTokenSigners(tokens) :
        /\ \A c \in DOMAIN tokens : tokens[c].iss # ""
        /\ calls' = [calls EXCEPT ![i].pc = "send", ![i].response =
                       [made |-> TRUE, tokens |-> tokens, id_token |-> signer,
                        format |-> Format(C), left |-> constrained, unsafe |-> UnsafeBegun]]
  BY <1>3
<1> DEFINE r == [made |-> TRUE, tokens |-> tokens, id_token |-> signer,
                 format |-> Format(C), left |-> constrained, unsafe |-> UnsafeBegun]
           n == [calls[i] EXCEPT !.pc = "send", !.response = r]
<1>5. Covers(calls[i].asked, C) /\ calls[i].pc = "create"
  BY <1>2 DEF CreateResponse, MadeResponse
<1>6. /\ tokens \in TokensOfType
      /\ DOMAIN tokens = Chosen(calls[i].asked, C)
      /\ \A c \in DOMAIN tokens : tokens[c] = [vp |-> c, iss |-> Holder[c]]
  BY <1>4, <1>5, TokensType
<1>7. IF request.id_token THEN \E c \in DOMAIN tokens : signer = Holder[c] ELSE signer = ""
  <2>1. \A c \in DOMAIN tokens : tokens[c].iss = Holder[c]
    BY <1>6
  <2>2. QED BY <2>1 DEF IDTokenSigners
<1>8. signer \in DIDs \cup {""}
  <2>1. \A c \in DOMAIN tokens : c \in Credentials
    BY <1>6, <1>2 DEF Chosen
  <2>2. QED BY <1>7, <2>1, HolderAssumption
<1>9. r \in Response
  <2>1. Format(C) \in {"jwt_vp", "ldp_vp"}
    BY DEF Format
  <2>2. UnsafeBegun \in BOOLEAN /\ constrained \in SUBSET Descriptors
    BY DEF UnsafeBegun, TypeOK
  <2>3. QED BY <1>6, <1>8, <2>1, <2>2 DEF Response
<1>10. /\ n \in Call /\ n.pc = "send" /\ n.response = r /\ n.op = calls[i].op
       /\ n.credentials = calls[i].credentials
  <2> HIDE DEF r
  <2>1. QED BY <1>1, <1>9 DEF Call
<1>11. ChangesOnly(i) /\ calls'[i] = n
  <2>1. calls' = [calls EXCEPT ![i] = n]
    BY <1>4
  <2> HIDE DEF n
  <2>2. QED BY <1>1, <1>10, <2>1, ReplaceCall
<1>12. calls'[i].response = r
  BY <1>10, <1>11
<1>13. /\ r.tokens = tokens /\ r.id_token = signer /\ r.unsafe = UnsafeBegun
       /\ r.format = Format(C) /\ r.left = constrained
  OBVIOUS
<1>14. Shown(i)' = DOMAIN tokens /\ DOMAIN tokens \subseteq C
  <2>1. {tokens[c].vp : c \in DOMAIN tokens} = DOMAIN tokens
    BY <1>6, ShownByTokens
  <2>2. Shown(i)' = {tokens[c].vp : c \in DOMAIN tokens}
    BY <1>12, <1>13, Zenon DEF Shown
  <2>3. QED BY <1>6, <2>1, <2>2 DEF Chosen
<1> HIDE DEF r, n
<1>15. QED BY <1>2, <1>5, <1>6, <1>7, <1>9, <1>10, <1>11, <1>12, <1>13, <1>14

-----------------------------------------------------------------------------
(* Types.                                                                     *)

(* The part of TypeOK about single calls, and about what the verifier and the *)
(* activity log know of them.                                                 *)
CallOK(i) ==
    /\ calls[i].pc \in {"clear", "evaluate"} => calls[i].next \in Descriptors
    /\ calls[i].pc \in {"send", "metrics", "activity", "ok"} => calls[i].response.made
CallsOK ==
    /\ calls \in Seq(Call)
    /\ \A i \in DOMAIN calls : CallOK(i)
    /\ \A k \in DOMAIN verifier : LET i == verifier[k].call
                                  IN  i \in DOMAIN calls /\ calls[i].response.made
    /\ activities \subseteq DOMAIN calls

(* A step of one call that forgets no response keeps all calls well typed.    *)
LEMMA CallsStayOK ==
    ASSUME CallsOK, NEW i \in DOMAIN calls, ChangesOnly(i), CallOK(i)',
           calls[i].response.made => calls'[i].response.made,
           UNCHANGED <<verifier, activities>>
    PROVE  CallsOK'
<1>1. \A j \in DOMAIN calls' : CallOK(j)'
  BY DEF CallsOK, ChangesOnly, CallOK
<1>2. \A j \in DOMAIN calls : calls[j].response.made => calls'[j].response.made
  BY DEF ChangesOnly
<1>3. QED BY <1>1, <1>2 DEF CallsOK, ChangesOnly

LEMMA StartType ==
    ASSUME TypeOK, NEW op \in {"PresentCredential", "PresentCredentialUnsafe"},
           NEW C \in SUBSET Credentials, NEW p \in {"clear", "evaluate"}, Start(op, C, p)
    PROVE  TypeOK'
<1> DEFINE c == NewCall(op, C, p)
           n == Len(calls) + 1
<1>1. c \in Call /\ c.next = 1 /\ 1 \in Descriptors /\ c.pc = p
  BY NewCallType DEF PCs
<1>2. /\ calls' \in Seq(Call) /\ n \notin DOMAIN calls
      /\ DOMAIN calls' = DOMAIN calls \cup {n}
      /\ calls'[n] = c /\ \A j \in DOMAIN calls : calls'[j] = calls[j]
  BY <1>1, StartCall DEF TypeOK
<1> HIDE DEF n, c
<1>3. UNCHANGED <<sent, request, constrained, query, verifier, activities>>
  BY DEF Start
<1>4. QED BY <1>1, <1>2, <1>3 DEF TypeOK

(* Appending to what arrived at the verifier.                                 *)
LEMMA ReceiveType ==
    ASSUME TypeOK, NEW i \in DOMAIN calls, NEW a \in BOOLEAN,
           verifier' = Append(verifier, [call |-> i, accepted |-> a])
    PROVE  /\ verifier' \in Seq([call : Nat, accepted : BOOLEAN])
           /\ DOMAIN verifier' = DOMAIN verifier \cup {Len(verifier) + 1}
           /\ \A k \in DOMAIN verifier : verifier'[k] = verifier[k]
           /\ verifier'[Len(verifier) + 1] = [call |-> i, accepted |-> a]
<1>1. i \in Nat
  BY DEF TypeOK
<1>2. [call |-> i, accepted |-> a] \in [call : Nat, accepted : BOOLEAN]
  BY <1>1
<1>3. verifier \in Seq([call : Nat, accepted : BOOLEAN])
  BY DEF TypeOK
<1>4. QED BY <1>2, <1>3, AppendProperties, LenProperties

LEMMA CallStepType ==
    ASSUME TypeOK, NEW i \in DOMAIN calls, CallStep(i)
    PROVE  TypeOK'
<1>1. CallsOK
  BY DEF TypeOK, CallsOK, CallOK
<1>2. calls \in Seq(Call) /\ calls[i] \in Call
  BY DEF TypeOK
<1>3. SUFFICES CallsOK' /\ constrained' \subseteq Descriptors
               /\ verifier' \in Seq([call : Nat, accepted : BOOLEAN])
               /\ UNCHANGED <<sent, request, query>>
  BY DEF TypeOK, CallsOK, CallOK
<1>4. UNCHANGED <<sent, request, query>>
  BY DEF CallStep, ClearConstraints, Evaluate, CreateResponse, CreateFails,
         sendAuthorizedResponse, LogMetrics, LogActivity
<1>5. CASE ClearConstraints(i) \/ Evaluate(i)
  <2>1. UNCHANGED <<verifier, activities>> /\ constrained' \subseteq Descriptors
    BY <1>5 DEF ClearConstraints, Evaluate, TypeOK
  <2>2. /\ ChangesOnly(i) /\ calls'[i].pc \in {"clear", "evaluate", "create"}
        /\ calls'[i].next \in Descriptors
        /\ calls'[i].response = calls[i].response
    BY <1>5, ClearCall, EvaluateCall
  <2>3. CallOK(i)'
    BY <2>2 DEF CallOK
  <2>4. CallsOK'
    BY <1>1, <2>1, <2>2, <2>3, CallsStayOK
  <2>5. QED BY <1>4, <2>1, <2>4 DEF TypeOK
<1>6. CASE CreateResponse(i)
  <2>1. UNCHANGED <<verifier, activities, constrained>>
    BY <1>6 DEF CreateResponse
  <2>2. ChangesOnly(i) /\ calls'[i].pc = "send" /\ calls'[i].response \in Response
    BY <1>6, CreateCall
  <2>3. CallOK(i)' /\ calls'[i].response.made
    BY <2>2 DEF CallOK, Response
  <2>4. CallsOK'
    BY <1>1, <2>1, <2>2, <2>3, CallsStayOK
  <2>5. QED BY <1>4, <2>1, <2>4 DEF TypeOK
<1>7. CASE CreateFails(i) \/ LogMetrics(i)
  <2>1. UNCHANGED <<verifier, activities, constrained>>
    BY <1>7 DEF CreateFails, LogMetrics
  <2>2. PICK p \in {"activity", "error"} :
          /\ calls' = [calls EXCEPT ![i].pc = p]
          /\ p = "activity" => calls[i].pc = "metrics"
    BY <1>7 DEF CreateFails, LogMetrics
  <2>3. ChangesOnly(i) /\ calls'[i].pc = p /\ calls'[i].response = calls[i].response
    BY <1>2, <2>2, MoveCall DEF PCs
  <2>4. CallOK(i)'
    BY <1>1, <2>2, <2>3 DEF CallsOK, CallOK
  <2>5. CallsOK'
    BY <1>1, <2>1, <2>3, <2>4, CallsStayOK
  <2>6. QED BY <1>4, <2>1, <2>5 DEF TypeOK
<1>8. CASE sendAuthorizedResponse(i)
  <2>1. UNCHANGED <<activities, constrained>> /\ calls[i].response.made
    BY <1>8 DEF sendAuthorizedResponse, TypeOK
  <2>2. PICK p \in {"metrics", "error"} : calls' = [calls EXCEPT ![i].pc = p]
    BY <1>8 DEF sendAuthorizedResponse, AfterAnswer
  <2>3. ChangesOnly(i) /\ calls'[i].pc = p /\ calls'[i].response = calls[i].response
    BY <1>2, <2>2, MoveCall DEF PCs
  <2>4. \A j \in DOMAIN calls : j \in DOMAIN calls' /\ calls'[j].response = calls[j].response
    BY <2>3 DEF ChangesOnly
  <2>5. calls' \in Seq(Call) /\ \A j \in DOMAIN calls' : CallOK(j)'
    BY <1>1, <2>1, <2>3 DEF CallsOK, CallOK, ChangesOnly
  <2>6. activities' \subseteq DOMAIN calls'
    BY <1>1, <2>1, <2>3 DEF CallsOK, ChangesOnly
  <2>7. PICK a \in BOOLEAN : \/ verifier' = verifier
                             \/ verifier' = Append(verifier, [call |-> i, accepted |-> a])
    BY <1>8 DEF sendAuthorizedResponse
  <2>8. /\ verifier' \in Seq([call : Nat, accepted : BOOLEAN])
        /\ \A k \in DOMAIN verifier' : LET j == verifier'[k].call
                                       IN  j \in DOMAIN calls /\ calls[j].response.made
    <3>1. CASE verifier' = verifier
      BY <1>1, <3>1 DEF CallsOK, TypeOK
    <3>2. CASE verifier' = Append(verifier, [call |-> i, accepted |-> a])
      BY <1>1, <2>1, <3>2, ReceiveType DEF CallsOK
    <3>3. QED BY <2>7, <3>1, <3>2
  <2>9. QED BY <1>4, <2>1, <2>4, <2>5, <2>6, <2>8 DEF TypeOK, CallsOK
<1>9. CASE LogActivity(i)
  <2>1. /\ UNCHANGED <<verifier, constrained>> /\ calls[i].response.made
        /\ activities' \subseteq activities \cup {i}
    BY <1>9 DEF LogActivity, TypeOK
  <2>2. PICK p \in {"ok", "error"} : calls' = [calls EXCEPT ![i].pc = p]
    BY <1>9 DEF LogActivity
  <2>3. ChangesOnly(i) /\ calls'[i].pc = p /\ calls'[i].response = calls[i].response
    BY <1>2, <2>2, MoveCall DEF PCs
  <2>4. \A j \in DOMAIN calls : j \in DOMAIN calls' /\ calls'[j].response = calls[j].response
    BY <2>3 DEF ChangesOnly
  <2>5. \A j \in DOMAIN calls' : CallOK(j)'
    BY <1>1, <2>1, <2>3 DEF CallsOK, CallOK, ChangesOnly
  <2>6. CallsOK'
    BY <1>1, <2>1, <2>3, <2>4, <2>5 DEF CallsOK, ChangesOnly
  <2>7. QED BY <1>4, <2>1, <2>6 DEF TypeOK
<1>10. QED BY <1>5, <1>6, <1>7, <1>8, <1>9 DEF CallStep

LEMMA StepType == TypeOK /\ [Next]_vars => TypeOK'
<1> SUFFICES ASSUME TypeOK, [Next]_vars PROVE TypeOK'
  OBVIOUS
<1>1. CASE NewInteraction
  <2>1. sent \in RequestObject /\ request' = Filled(sent) /\ constrained' = Descriptors
        /\ UNCHANGED <<sent, query, calls, verifier, activities>>
    BY <1>1, RequestsAssumption DEF NewInteraction, TypeOK
  <2>2. Filled(sent) \in Request
    BY <2>1 DEF Filled, Request, RequestObject
  <2>3. QED BY <2>1, <2>2 DEF TypeOK
<1>2. CASE GetQuery
  BY <1>2 DEF GetQuery, TypeOK
<1>3. CASE \E C \in SUBSET Credentials : PresentCredential(C)
  BY <1>3, StartType DEF PresentCredential
<1>4. CASE \E c \in Credentials : PresentCredentialUnsafe(c)
  BY <1>4, StartType DEF PresentCredentialUnsafe
<1>5. CASE \E i \in DOMAIN calls : CallStep(i)
  BY <1>5, CallStepType
<1>6. CASE UNCHANGED vars
  BY <1>6 DEF vars, TypeOK
<1>7. QED BY <1>1, <1>2, <1>3, <1>4, <1>5, <1>6 DEF Next

(* Type correctness, for all constants that meet the assumptions: also, the   *)
(* loop of createAuthorizedResponseOneCred stays within the descriptors, and  *)
(* nothing is sent before it was made.                                        *)
THEOREM TypeCorrect == Spec => []TypeOK
<1>1. Init => TypeOK
  BY DEF Init, TypeOK, NoRequest, NoQuery
<1>2. QED BY <1>1, StepType, PTL DEF Spec

-----------------------------------------------------------------------------
(* What the verifier gets.                                                    *)

(* The two kinds of steps that touch calls: a step of a call either leaves    *)
(* its response alone or makes it, and a new call has none.                   *)
LEMMA CallStepEffect ==
    ASSUME TypeOK, NEW i \in DOMAIN calls, CallStep(i)
    PROVE  /\ ChangesOnly(i) /\ request' = request /\ sent' = sent
           /\ calls'[i].op = calls[i].op
           /\ calls'[i].credentials = calls[i].credentials
           /\ calls'[i].pc = "clear" => calls[i].pc = "clear"
           /\ calls'[i].pc \in {"evaluate", "create"} => ClearConstraints(i) \/ Evaluate(i)
           /\ \/ calls'[i].response = calls[i].response
              \/ CreateResponse(i)
<1>1. calls \in Seq(Call)
  BY DEF TypeOK
<1>2. CASE ClearConstraints(i) \/ Evaluate(i)
  BY <1>2, ClearCall, EvaluateCall DEF ClearConstraints, Evaluate
<1>3. CASE CreateResponse(i)
  BY <1>3, CreateCall DEF CreateResponse
<1>4. CASE CreateFails(i) \/ sendAuthorizedResponse(i) \/ LogMetrics(i) \/ LogActivity(i)
  <2>1. PICK p \in PCs \ {"clear", "evaluate", "create"} : calls' = [calls EXCEPT ![i].pc = p]
    BY <1>4 DEF CreateFails, sendAuthorizedResponse, AfterAnswer, LogMetrics, LogActivity, PCs
  <2>2. request' = request /\ sent' = sent
    BY <1>4 DEF CreateFails, sendAuthorizedResponse, LogMetrics, LogActivity
  <2>3. p \in PCs /\ p \notin {"clear", "evaluate", "create"}
    OBVIOUS
  <2>4. /\ ChangesOnly(i) /\ calls'[i].pc = p /\ calls'[i].op = calls[i].op
        /\ calls'[i].response = calls[i].response
        /\ calls'[i].credentials = calls[i].credentials
    BY <1>1, <2>1, <2>3, MoveCall
  <2>5. QED BY <2>2, <2>3, <2>4
<1>5. QED BY <1>2, <1>3, <1>4 DEF CallStep

Begin ==
    \/ \E C \in SUBSET Credentials : PresentCredential(C)
    \/ \E c \in Credentials : PresentCredentialUnsafe(c)

LEMMA BeginEffect ==
    ASSUME TypeOK, Begin
    PROVE  \E n : /\ n \notin DOMAIN calls
                  /\ DOMAIN calls' = DOMAIN calls \cup {n}
                  /\ \A j \in DOMAIN calls : calls'[j] = calls[j]
                  /\ ~calls'[n].response.made
                  /\ calls'[n].pc \in {"clear", "evaluate"} /\ calls'[n].next = 1
                  /\ calls'[n].pc = "clear" => calls'[n].op = "PresentCredentialUnsafe"
                  /\ request # NoRequest
                  /\ UNCHANGED <<sent, request, constrained, query, verifier, activities>>
<1>1. PICK op \in {"PresentCredential", "PresentCredentialUnsafe"},
           C \in SUBSET Credentials, p \in {"clear", "evaluate"} :
             /\ Start(op, C, p)
             /\ p = "clear" => op = "PresentCredentialUnsafe"
  BY DEF Begin, PresentCredential, PresentCredentialUnsafe
<1> DEFINE c == NewCall(op, C, p)
           n == Len(calls) + 1
<1>2. /\ c \in Call /\ c.pc = p /\ c.op = op /\ c.response = NoResponse
      /\ c.next = 1
  BY NewCallType DEF PCs
<1>3. Start(op, C, p) /\ calls \in Seq(Call)
  BY <1>1 DEF TypeOK
<1>4. /\ n \notin DOMAIN calls
      /\ DOMAIN calls' = DOMAIN calls \cup {n}
      /\ calls'[n] = c /\ \A j \in DOMAIN calls : calls'[j] = calls[j]
  BY <1>2, <1>3, StartCall
<1>5. /\ request # NoRequest
      /\ UNCHANGED <<sent, request, constrained, query, verifier, activities>>
  BY <1>3 DEF Start
<1>6. ~c.response.made
  BY <1>2 DEF NoResponse
<1> HIDE DEF n, c
<1>7. QED BY <1>1, <1>2, <1>4, <1>5, <1>6

(* Constraints only ever go, so what a call has read of the definition is at  *)
(* least what is left of the part that it read: up to its next descriptor     *)
(* while it reads, all of it after that.                                      *)
ReadSoFar(i) ==
    /\ calls[i].pc = "evaluate" =>
          \A d \in constrained : d < calls[i].next => d \in calls[i].asked
    /\ calls[i].pc = "create" => constrained \subseteq calls[i].asked

(* A response shows what is left to ask for when it is made; only unsafe      *)
(* calls remove constraints, and nobody calls before there is a request.      *)
ShowsEnough(i) ==
    /\ Shows(i, calls[i].response.left)
    /\ ~calls[i].response.unsafe => calls[i].response.left = Descriptors
AskedInv ==
    /\ request # NoRequest /\ ~UnsafeBegun => constrained = Descriptors
    /\ DOMAIN calls # {} => request # NoRequest
    /\ \A i \in DOMAIN calls :
         /\ calls[i].pc = "clear" => calls[i].op = "PresentCredentialUnsafe"
         /\ ReadSoFar(i)
         /\ calls[i].response.made => ShowsEnough(i)

(* What is chosen for a covered definition covers, and is chosen for, any     *)
(* definition that asks for less.                                             *)
LEMMA ChosenCovers ==
    ASSUME NEW asked, NEW C, Covers(asked, C), NEW left \in SUBSET asked
    PROVE  /\ Covers(left, Chosen(asked, C))
           /\ Chosen(left, Chosen(asked, C)) = Chosen(asked, C)
BY DEF Covers, Chosen, Meets

LEMMA ResponseKept ==
    ASSUME NEW j, calls'[j].response = calls[j].response, ShowsEnough(j)
    PROVE  ShowsEnough(j)'
<1>1. Shown(j)' = Shown(j)
  BY DEF Shown
<1>2. QED BY <1>1 DEF ShowsEnough, Shows, Covers, Chosen, Meets

(* The loops keep what ReadSoFar says, of their own call and of the others.   *)
LEMMA FewerConstraints ==
    ASSUME NEW j \in DOMAIN calls, ReadSoFar(j), constrained' \subseteq constrained,
           calls'[j] = calls[j]
    PROVE  ReadSoFar(j)'
BY DEF ReadSoFar

LEMMA ReadsOn ==
    ASSUME TypeOK, NEW i \in DOMAIN calls, ReadSoFar(i), CallStep(i)
    PROVE  ReadSoFar(i)'
<1>1. CASE ClearConstraints(i)
  <2>1. /\ calls'[i].pc \in {"clear", "evaluate"}
        /\ calls'[i].pc = "evaluate" => calls'[i].next = 1
        /\ constrained' \subseteq Descriptors
    BY <1>1, ClearCall DEF ClearConstraints, TypeOK
  <2>2. \A d \in Descriptors : ~(d < 1)
    BY DEF Descriptors
  <2>3. QED BY <2>1, <2>2 DEF ReadSoFar
<1>2. CASE Evaluate(i)
  <2>1. PICK n \in Descriptors : n = calls[i].next
    BY <1>2, EvaluateCall
  <2>2. /\ calls'[i].asked = calls[i].asked \cup ({n} \cap constrained)
        /\ \/ calls'[i].pc = "evaluate" /\ calls'[i].next = n + 1
           \/ calls'[i].pc = "create" /\ n + 1 \notin Descriptors
        /\ constrained' = constrained
        /\ \A d \in constrained : d < n => d \in calls[i].asked
    BY <1>2, <2>1, EvaluateCall DEF Evaluate, ReadSoFar
  <2>3. \A d \in constrained : d \in Descriptors /\ d \in Nat /\ n \in Nat
    BY DEF TypeOK, Descriptors
  <2>4. ASSUME NEW d \in constrained, d < n + 1 PROVE d \in calls'[i].asked
    BY <2>2, <2>3, <2>4
  <2>5. ASSUME n + 1 \notin Descriptors, NEW d \in constrained PROVE d < n + 1
    BY <2>3, <2>5, DescriptorsAssumption DEF Descriptors
  <2>6. QED BY <2>2, <2>4, <2>5 DEF ReadSoFar
<1>3. CASE ~ClearConstraints(i) /\ ~Evaluate(i)
  BY <1>3, CallStepEffect DEF ReadSoFar
<1>4. QED BY <1>1, <1>2, <1>3

LEMMA AskedStep == TypeOK /\ AskedInv /\ [Next]_vars => AskedInv'
<1> SUFFICES ASSUME TypeOK, AskedInv, [Next]_vars PROVE AskedInv'
  OBVIOUS
<1>1. CASE NewInteraction
  <2>1. DOMAIN calls = {} /\ calls' = calls /\ constrained' = Descriptors
    BY <1>1 DEF NewInteraction, AskedInv
  <2>2. QED BY <2>1 DEF AskedInv, UnsafeBegun
<1>2. CASE GetQuery \/ UNCHANGED vars
  <2>1. UNCHANGED <<request, constrained, calls>>
    BY <1>2 DEF GetQuery, vars
  <2>2. \A i \in DOMAIN calls : ShowsEnough(i) => ShowsEnough(i)'
    BY <2>1, ResponseKept
  <2>3. QED BY <2>1, <2>2 DEF AskedInv, UnsafeBegun, ReadSoFar
<1>3. CASE Begin
  <2>1. PICK n : /\ n \notin DOMAIN calls
                 /\ DOMAIN calls' = DOMAIN calls \cup {n}
                 /\ \A j \in DOMAIN calls : calls'[j] = calls[j]
                 /\ ~calls'[n].response.made
                 /\ calls'[n].pc \in {"clear", "evaluate"} /\ calls'[n].next = 1
                 /\ calls'[n].pc = "clear" => calls'[n].op = "PresentCredentialUnsafe"
                 /\ request # NoRequest
                 /\ UNCHANGED <<request, constrained>>
    BY <1>3, BeginEffect
  <2>2. UnsafeBegun => UnsafeBegun'
    BY <2>1 DEF UnsafeBegun
  <2>3. ReadSoFar(n)'
    <3>1. \A d \in constrained : ~(d < 1)
      BY DEF TypeOK, Descriptors
    <3>2. QED BY <2>1, <3>1 DEF ReadSoFar
  <2>4. \A j \in DOMAIN calls : ReadSoFar(j)'
    BY <2>1, FewerConstraints DEF AskedInv
  <2>5. \A j \in DOMAIN calls : calls'[j].response.made => ShowsEnough(j)'
    BY <2>1, ResponseKept DEF AskedInv
  <2>6. QED BY <2>1, <2>2, <2>3, <2>4, <2>5 DEF AskedInv
<1>4. CASE \E i \in DOMAIN calls : CallStep(i)
  <2>1. PICK i \in DOMAIN calls : CallStep(i)
    BY <1>4
  <2>2. /\ ChangesOnly(i) /\ request' = request /\ calls'[i].op = calls[i].op
        /\ calls'[i].pc = "clear" => calls[i].pc = "clear"
        /\ calls'[i].response = calls[i].response \/ CreateResponse(i)
    BY <2>1, CallStepEffect
  <2>3. UnsafeBegun' <=> UnsafeBegun
    BY <2>2 DEF UnsafeBegun, ChangesOnly
  <2>4. request # NoRequest
    BY DEF AskedInv
  <2>5. /\ ~UnsafeBegun => constrained' = Descriptors
        /\ constrained' \subseteq constrained
    <3>1. CASE ClearConstraints(i)
      BY <3>1 DEF ClearConstraints, AskedInv, UnsafeBegun
    <3>2. CASE ~ClearConstraints(i)
      <4>1. constrained' = constrained
        BY <2>1, <3>2 DEF CallStep, Evaluate, CreateResponse, CreateFails,
                          sendAuthorizedResponse, LogMetrics, LogActivity
      <4>2. QED BY <2>4, <4>1 DEF AskedInv
    <3>3. QED BY <3>1, <3>2
  <2>6. ASSUME calls'[i].response.made PROVE ShowsEnough(i)'
    <3>1. CASE calls'[i].response = calls[i].response
      BY <2>6, <3>1, ResponseKept DEF AskedInv
    <3>2. CASE CreateResponse(i)
      <4>1. PICK r : r = calls'[i].response
        OBVIOUS
      <4>2. r.unsafe = UnsafeBegun /\ r.left = constrained /\ calls[i].pc = "create"
        BY <3>2, <4>1, CreateCall
      <4>3. PICK C, asked : C = calls[i].credentials /\ asked = calls[i].asked
        OBVIOUS
      <4>4. Covers(asked, C) /\ Shown(i)' = Chosen(asked, C)
        BY <3>2, <4>3, CreateCall
      <4>5. r.left \in SUBSET asked
        BY <4>2, <4>3 DEF AskedInv, ReadSoFar
      <4>6. Covers(r.left, Shown(i)') /\ Chosen(r.left, Shown(i)') = Shown(i)'
        BY <4>4, <4>5, ChosenCovers
      <4>7. ~r.unsafe => r.left = Descriptors
        BY <2>4, <4>2 DEF AskedInv
      <4>8. QED BY <4>1, <4>6, <4>7 DEF ShowsEnough, Shows, Covers, Chosen, Meets
    <3>3. QED BY <2>2, <3>1, <3>2
  <2>7. \A j \in DOMAIN calls \ {i} : ShowsEnough(j) => ShowsEnough(j)'
    BY <2>2, ResponseKept DEF ChangesOnly
  <2>8. ReadSoFar(i)'
    BY <2>1, ReadsOn DEF AskedInv
  <2>9. \A j \in DOMAIN calls \ {i} : ReadSoFar(j)'
    BY <2>2, <2>5, FewerConstraints DEF AskedInv, ChangesOnly
  <2>10. \A j \in DOMAIN calls' :
            /\ calls'[j].pc = "clear" => calls'[j].op = "PresentCredentialUnsafe"
            /\ calls'[j].response.made => ShowsEnough(j)'
    BY <2>2, <2>6, <2>7 DEF AskedInv, ChangesOnly
  <2>11. QED BY <2>2, <2>3, <2>4, <2>5, <2>8, <2>9, <2>10 DEF AskedInv, ChangesOnly
<1>5. QED BY <1>1, <1>2, <1>3, <1>4 DEF Next, Begin

(* Whatever the definition, the credentials and the interleaving of the       *)
(* calls: a response meets what the definition still asks for when it is      *)
(* made, and that is all of it before a PresentCredentialUnsafe call began.   *)
THEOREM VerifierGetsWhatItAskedFor == Spec => []PresentsWhatWasAskedFor
<1>1. Init => AskedInv
  BY DEF Init, AskedInv
<1>2. TypeOK /\ AskedInv => PresentsWhatWasAskedFor
  BY DEF TypeOK, AskedInv, ShowsEnough, PresentsWhatWasAskedFor, Received
<1>3. QED BY <1>1, <1>2, AskedStep, TypeCorrect, PTL DEF Spec

(* Who signs: a response is signed from the moment it is made, and the        *)
(* request says then what it says later.                                      *)
SignedBy(r, asked) ==
    /\ \A c \in DOMAIN r.tokens : r.tokens[c] = [vp |-> c, iss |-> Holder[c]]
    /\ IF asked THEN \E c \in DOMAIN r.tokens : r.id_token = Holder[c] ELSE r.id_token = ""
Signed(i) == SignedBy(calls[i].response, request.id_token)
SignedInv ==
    /\ DOMAIN calls # {} => request # NoRequest
    /\ \A i \in DOMAIN calls : calls[i].response.made => Signed(i)

LEMMA SignedStep == TypeOK /\ SignedInv /\ [Next]_vars => SignedInv'
<1> SUFFICES ASSUME TypeOK, SignedInv, [Next]_vars PROVE SignedInv'
  OBVIOUS
<1>1. CASE NewInteraction
  BY <1>1 DEF NewInteraction, SignedInv
<1>2. CASE GetQuery \/ UNCHANGED vars
  BY <1>2 DEF GetQuery, vars, SignedInv, Signed
<1>3. CASE Begin
  <2>1. PICK n : /\ DOMAIN calls' = DOMAIN calls \cup {n}
                 /\ \A j \in DOMAIN calls : calls'[j] = calls[j]
                 /\ ~calls'[n].response.made
                 /\ request # NoRequest /\ request' = request
    BY <1>3, BeginEffect
  <2>2. QED BY <2>1 DEF SignedInv, Signed
<1>4. CASE \E i \in DOMAIN calls : CallStep(i)
  <2>1. PICK i \in DOMAIN calls : CallStep(i)
    BY <1>4
  <2>2. /\ ChangesOnly(i) /\ request' = request
        /\ calls'[i].response = calls[i].response \/ CreateResponse(i)
    BY <2>1, CallStepEffect
  <2>3. calls'[i].response.made => Signed(i)'
    <3>1. CASE calls'[i].response = calls[i].response
      BY <2>2, <3>1 DEF SignedInv, Signed
    <3>2. CASE CreateResponse(i)
      BY <2>2, <3>2, CreateCall DEF Signed, SignedBy
    <3>3. QED BY <2>2, <3>1, <3>2
  <2>4. \A j \in DOMAIN calls \ {i} : calls'[j].response.made => Signed(j)'
    BY <2>2 DEF SignedInv, Signed, ChangesOnly
  <2>5. QED BY <2>2, <2>3, <2>4 DEF SignedInv, ChangesOnly
<1>5. QED BY <1>1, <1>2, <1>3, <1>4 DEF Next, Begin

(* Every VP token the verifier gets shows the credential it was made for and  *)
(* is signed by its holder, and the ID token by one of these holders.         *)
THEOREM HoldersSign == Spec => []SignedByHolders
<1>1. Init => SignedInv
  BY DEF Init, SignedInv
<1>2. TypeOK /\ SignedInv => SignedByHolders
  BY DEF TypeOK, SignedInv, Signed, SignedBy, SignedByHolders, Received
<1>3. QED BY <1>1, <1>2, SignedStep, TypeCorrect, PTL DEF Spec

-----------------------------------------------------------------------------
(* What a call's success means.                                               *)

(* The verifier accepted the response of call i.                              *)
AcceptedByVerifier(i) ==
    \E k \in DOMAIN verifier : verifier[k] = [call |-> i, accepted |-> TRUE]
LoggedInv ==
    /\ \A i \in DOMAIN calls :
         /\ calls[i].pc \in {"metrics", "activity"} => AcceptedByVerifier(i)
         /\ calls[i].pc = "ok" => i \in activities
    /\ \A i \in activities : AcceptedByVerifier(i)

LEMMA SendLogged ==
    ASSUME TypeOK, LoggedInv, NEW i \in DOMAIN calls, sendAuthorizedResponse(i)
    PROVE  LoggedInv'
<1>1. PICK received, accepted, read \in BOOLEAN :
        /\ (accepted \/ read) => received
        /\ verifier' = IF received
                       THEN Append(verifier, [call |-> i, accepted |-> accepted])
                       ELSE verifier
        /\ calls' = [calls EXCEPT ![i].pc = AfterAnswer(accepted, read)]
  BY DEF sendAuthorizedResponse
<1>2. AfterAnswer(accepted, read) \in {"metrics", "error"}
  BY DEF AfterAnswer
<1>3. ChangesOnly(i) /\ calls'[i].pc = AfterAnswer(accepted, read)
  BY <1>1, <1>2, MoveCall DEF PCs, TypeOK
<1>4. \A j : AcceptedByVerifier(j) => AcceptedByVerifier(j)'
  <2>1. CASE received
    BY <1>1, <2>1, ReceiveType DEF AcceptedByVerifier
  <2>2. CASE ~received
    BY <1>1, <2>2 DEF AcceptedByVerifier
  <2>3. QED BY <2>1, <2>2
<1>5. calls'[i].pc = "metrics" => AcceptedByVerifier(i)'
  <2> SUFFICES ASSUME calls'[i].pc = "metrics" PROVE AcceptedByVerifier(i)'
    OBVIOUS
  <2>1. accepted = TRUE /\ received
    BY <1>1, <1>3 DEF AfterAnswer
  <2>2. verifier' = Append(verifier, [call |-> i, accepted |-> TRUE])
    BY <1>1, <2>1
  <2>3. QED BY <2>2, ReceiveType DEF AcceptedByVerifier
<1>6. activities' = activities
  BY DEF sendAuthorizedResponse
<1>7. QED BY <1>2, <1>3, <1>4, <1>5, <1>6 DEF LoggedInv, ChangesOnly

LEMMA LoggedStep == TypeOK /\ LoggedInv /\ [Next]_vars => LoggedInv'
<1> SUFFICES ASSUME TypeOK, LoggedInv, [Next]_vars PROVE LoggedInv'
  OBVIOUS
<1>1. CASE NewInteraction \/ GetQuery \/ UNCHANGED vars
  BY <1>1 DEF NewInteraction, GetQuery, vars, LoggedInv, AcceptedByVerifier
<1>2. CASE Begin
  <2>1. PICK n : /\ DOMAIN calls' = DOMAIN calls \cup {n}
                 /\ \A j \in DOMAIN calls : calls'[j] = calls[j]
                 /\ calls'[n].pc \in {"clear", "evaluate"}
                 /\ UNCHANGED <<verifier, activities>>
    BY <1>2, BeginEffect
  <2>2. QED BY <2>1 DEF LoggedInv, AcceptedByVerifier
<1>3. CASE \E i \in DOMAIN calls : CallStep(i)
  <2>1. PICK i \in DOMAIN calls : CallStep(i)
    BY <1>3
  <2>2. ChangesOnly(i) /\ calls \in Seq(Call)
    BY <2>1, CallStepEffect DEF TypeOK
  <2>3. CASE ClearConstraints(i) \/ Evaluate(i) \/ CreateResponse(i) \/ CreateFails(i)
    <3>1. calls'[i].pc \in {"clear", "evaluate", "create", "send", "error"}
      BY <2>2, <2>3, ClearCall, EvaluateCall, CreateCall, MoveCall DEF CreateFails, PCs
    <3>2. UNCHANGED <<verifier, activities>>
      BY <2>3 DEF ClearConstraints, Evaluate, CreateResponse, CreateFails
    <3>3. QED BY <2>2, <3>1, <3>2 DEF LoggedInv, AcceptedByVerifier, ChangesOnly
  <2>4. CASE sendAuthorizedResponse(i)
    BY <2>4, SendLogged
  <2>5. CASE LogMetrics(i)
    <3>1. calls'[i].pc \in {"activity", "error"} /\ AcceptedByVerifier(i)
      BY <2>2, <2>5, MoveCall DEF LogMetrics, PCs, LoggedInv
    <3>2. UNCHANGED <<verifier, activities>>
      BY <2>5 DEF LogMetrics
    <3>3. QED BY <2>2, <3>1, <3>2 DEF LoggedInv, AcceptedByVerifier, ChangesOnly
  <2>6. CASE LogActivity(i)
    <3>1. AcceptedByVerifier(i) /\ verifier' = verifier
      BY <2>6 DEF LogActivity, LoggedInv
    <3>2. \/ activities' = activities \cup {i} /\ calls'[i].pc = "ok"
          \/ activities' = activities /\ calls'[i].pc = "error"
      BY <2>2, <2>6, MoveCall DEF LogActivity, PCs
    <3>3. QED BY <2>2, <3>1, <3>2 DEF LoggedInv, AcceptedByVerifier, ChangesOnly
  <2>7. QED BY <2>1, <2>3, <2>4, <2>5, <2>6 DEF CallStep
<1>4. QED BY <1>1, <1>2, <1>3 DEF Next, Begin

(* A call without error was accepted by the verifier and is in the activity   *)
(* log, which names no call whose response was not accepted.                  *)
THEOREM SuccessIsAcceptedAndLogged == Spec => []OkMeansAcceptedAndLogged
<1>1. Init => LoggedInv
  BY DEF Init, LoggedInv
<1>2. LoggedInv => OkMeansAcceptedAndLogged
  BY DEF LoggedInv, OkMeansAcceptedAndLogged, AcceptedByVerifier
<1>3. QED BY <1>1, <1>2, LoggedStep, TypeCorrect, PTL DEF Spec

-----------------------------------------------------------------------------
(* The format of a response, and what GetQuery says.                          *)

(* The format the request object names, in the new place or the old one.      *)
Named == IF sent.formats = "none" THEN sent.registration_formats ELSE sent.formats
Suits(i) ==
    LET r == calls[i].response IN
        /\ r.format = "ldp_vp" => Named = "ldp_vp" /\ Shown(i) \cap JWTCredentials = {}
        /\ Named = "ldp_vp" /\ calls[i].credentials \cap JWTCredentials = {}
             => r.format = "ldp_vp"
FormatInv ==
    /\ request # NoRequest => request.formats = Named
    /\ DOMAIN calls # {} => request # NoRequest
    /\ \A i \in DOMAIN calls : calls[i].response.made => Suits(i)

LEMMA FormatStep == TypeOK /\ FormatInv /\ [Next]_vars => FormatInv'
<1> SUFFICES ASSUME TypeOK, FormatInv, [Next]_vars PROVE FormatInv'
  OBVIOUS
<1>1. CASE NewInteraction
  <2>1. request' = Filled(sent) /\ sent' = sent /\ calls' = calls /\ DOMAIN calls = {}
    BY <1>1 DEF NewInteraction, FormatInv
  <2>2. request'.formats = Named' /\ request' # NoRequest
    BY <2>1 DEF Filled, Named, NoRequest
  <2>3. QED BY <2>1, <2>2 DEF FormatInv
<1>2. CASE GetQuery \/ UNCHANGED vars
  BY <1>2 DEF GetQuery, vars, FormatInv, Suits, Named, Shown
<1>3. CASE Begin
  <2>1. PICK n : /\ DOMAIN calls' = DOMAIN calls \cup {n}
                 /\ \A j \in DOMAIN calls : calls'[j] = calls[j]
                 /\ ~calls'[n].response.made
                 /\ request # NoRequest /\ UNCHANGED <<sent, request>>
    BY <1>3, BeginEffect
  <2>2. QED BY <2>1 DEF FormatInv, Suits, Named, Shown
<1>4. CASE \E i \in DOMAIN calls : CallStep(i)
  <2>1. PICK i \in DOMAIN calls : CallStep(i)
    BY <1>4
  <2>2. /\ ChangesOnly(i) /\ request' = request /\ sent' = sent
        /\ calls'[i].credentials = calls[i].credentials
        /\ calls'[i].response = calls[i].response \/ CreateResponse(i)
    BY <2>1, CallStepEffect
  <2>3. calls'[i].response.made => Suits(i)'
    <3>1. CASE calls'[i].response = calls[i].response
      BY <2>2, <3>1 DEF FormatInv, Suits, Named, Shown
    <3>2. CASE CreateResponse(i)
      <4>1. /\ calls'[i].response.format = Format(calls[i].credentials)
            /\ Shown(i)' \subseteq calls[i].credentials
        BY <3>2, CreateCall
      <4>2. request.formats = Named
        BY DEF FormatInv
      <4>3. QED BY <2>2, <4>1, <4>2 DEF Format, Suits, Named, Shown
    <3>3. QED BY <2>2, <3>1, <3>2
  <2>4. \A j \in DOMAIN calls \ {i} : calls'[j].response.made => Suits(j)'
    BY <2>2 DEF FormatInv, Suits, Named, Shown, ChangesOnly
  <2>5. Named' = Named
    BY <2>2 DEF Named
  <2>6. QED BY <2>2, <2>3, <2>4, <2>5 DEF FormatInv, ChangesOnly
<1>5. QED BY <1>1, <1>2, <1>3, <1>4 DEF Next, Begin

(* The verifier gets ldp_vp only if it named that, in the new place or the    *)
(* old one, and never around a JWT credential.                                *)
THEOREM FormatsSuitVerifiers == Spec => []FormatSuitsVerifier
<1>1. Init => FormatInv
  BY DEF Init, FormatInv
<1>2. TypeOK /\ FormatInv => FormatSuitsVerifier
  BY DEF TypeOK, FormatInv, Suits, Named, FormatSuitsVerifier, Received
<1>3. QED BY <1>1, <1>2, FormatStep, TypeCorrect, PTL DEF Spec

(* The definition an interaction keeps only ever loses constraints, so what   *)
(* the app was shown is never weaker than what calls go by afterwards.        *)
QueryInv == query # NoQuery => request # NoRequest /\ constrained \subseteq query

LEMMA QueryStep == TypeOK /\ QueryInv /\ [Next]_vars => QueryInv'
<1> SUFFICES ASSUME TypeOK, QueryInv, [Next]_vars PROVE QueryInv'
  OBVIOUS
<1>1. CASE NewInteraction
  BY <1>1 DEF NewInteraction, QueryInv
<1>2. CASE GetQuery \/ UNCHANGED vars
  BY <1>2 DEF GetQuery, vars, QueryInv
<1>3. CASE Begin
  <2>1. UNCHANGED <<request, constrained, query>>
    BY <1>3, BeginEffect
  <2>2. QED BY <2>1 DEF QueryInv
<1>4. CASE \E i \in DOMAIN calls : CallStep(i)
  <2>1. PICK i \in DOMAIN calls : CallStep(i)
    BY <1>4
  <2>2. constrained' \subseteq constrained /\ UNCHANGED <<request, query>>
    BY <2>1 DEF CallStep, ClearConstraints, Evaluate, CreateResponse, CreateFails,
                sendAuthorizedResponse, LogMetrics, LogActivity
  <2>3. QED BY <2>2 DEF QueryInv
<1>5. QED BY <1>1, <1>2, <1>3, <1>4 DEF Next, Begin

(* Credentials that match what GetQuery returned match for every later call,  *)
(* whichever calls ran, failed or are in progress.                            *)
THEOREM AnswersToQueriesAreTaken == Spec => []AnswerToQueryIsTaken
<1>1. Init => QueryInv
  BY DEF Init, QueryInv
<1>2. QueryInv => AnswerToQueryIsTaken
  BY DEF QueryInv, AnswerToQueryIsTaken, Covers, Meets
<1>3. QED BY <1>1, <1>2, QueryStep, TypeCorrect, PTL DEF Spec
=============================================================================
