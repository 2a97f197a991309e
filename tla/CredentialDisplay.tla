--------------------------- MODULE CredentialDisplay ---------------------------
(***************************************************************************)
(* What an app shows for credentials: configurations of the issuer are     *)
(* matched with credentials, and their claims with values, labels and      *)
(* masks (pkg/credentialschema, cmd/wallet-sdk-gomobile/display).          *)
(*                                                                         *)
(* Go walks its maps in any order, so an operation has a set of possible   *)
(* results and a set of possible failures, and the claims of a credential  *)
(* are a set.  A text is a sequence of characters.                         *)
(***************************************************************************)
EXTENDS Outcomes, Sequences, SequencesExt

CONSTANTS
    Wide,   \* characters of two bytes; all others have one
    Matches \* [expression -> [text -> what a valid mask's expression matches in it]]

(* A match has the characters from..to, and its first group first..last among *)
(* them; the group is empty for an expression without one.                    *)
ASSUME MatchesAssumption ==
    /\ {None, "short", "invalid"} \intersect DOMAIN Matches = {}
    /\ \A expression \in DOMAIN Matches : \A text \in DOMAIN Matches[expression] :
          LET found == Matches[expression][text]
          IN  /\ IsList(text) /\ IsList(found)
              /\ \A i \in DOMAIN found :
                    /\ found[i].from \in 1..(Len(text) + 1) /\ found[i].to \in 0..Len(text)
                    /\ found[i].first \in found[i].from..(found[i].to + 1)
                    /\ found[i].last \in (found[i].first - 1)..found[i].to
                    /\ i > 1 => found[i - 1].to < found[i].from

(* Outcomes of an operation, and of several in a row, which end with the      *)
(* first failure.                                                             *)
Result(r) == [results |-> {r}, failures |-> {}]
Failure(e) == [results |-> {}, failures |-> {e}]

InOrder(outcomes) ==
    LET results  == UNION {{i} \X outcomes[i].results : i \in DOMAIN outcomes}
        failures == UNION {{i} \X outcomes[i].failures : i \in DOMAIN outcomes}
    IN  [results  |-> {list \in [DOMAIN outcomes -> {r[2] : r \in results}] :
                         \A i \in DOMAIN outcomes : <<i, list[i]>> \in results},
         failures |-> {f[2] : f \in {g \in failures :
                                      \A j \in 1..(g[1] - 1) : \E r \in results : r[1] = j}}]

(* An operation on whatever results another one has.                          *)
Continue(outcome, outcomes) ==
    [results  |-> UNION {outcomes[r].results : r \in outcome.results},
     failures |-> outcome.failures \union UNION {outcomes[r].failures : r \in outcome.results}]

(* The elements of a list at some places, in their order.                     *)
ElementsAt(list, places) ==
    LET Place(k) == Cardinality({j \in places : j <= k})
    IN  [i \in 1..Cardinality(places) |-> list[CHOOSE k \in places : Place(k) = i]]

-----------------------------------------------------------------------------
(* Locales: the display in the preferred locale, else the first one.          *)

BestDisplay(displays, preferred) ==
    LET locale   == IF preferred = "" THEN "en-US" ELSE preferred
        inLocale == {i \in DOMAIN displays : EqualFold(displays[i].locale, locale)}
    IN  displays[IF inLocale = {} THEN 1 ELSE CHOOSE i \in inLocale : \A j \in inLocale : i <= j]

getLocalizedLabel(claim, preferred) == BestDisplay(claim.displays, preferred)

EmptyDisplay == [name |-> "", locale |-> "", logo |-> None]

getOverviewDisplay(config, preferred) ==
    IF config.displays = <<>> THEN EmptyDisplay ELSE BestDisplay(config.displays, preferred)

getIssuerDisplay(displays, preferred) ==
    IF displays = <<>> THEN <<>> ELSE <<BestDisplay(displays, preferred)>>

-----------------------------------------------------------------------------
(* Configurations: one type in common, VerifiableCredential aside.  Matching  *)
(* dereferences the credential definition of every configuration it visits.   *)

OwnTypes(vcTypes) == {t \in ToSet(vcTypes) : ~EqualFold(t, "VerifiableCredential")}

haveMatchingTypes(config, vcTypes) ==
    \E t \in OwnTypes(vcTypes), u \in ToSet(config.definition.types) : EqualFold(t, u)

(* The walk of the configurations up to the first match, None without one.    *)
MatchingConfigs(configs, vcTypes) ==
    LET undefined == {id \in DOMAIN configs : configs[id].definition = None}
        matching  == {id \in DOMAIN configs \ undefined : haveMatchingTypes(configs[id], vcTypes)}
        failures  == {Panic : id \in {i \in undefined : OwnTypes(vcTypes) # {}}}
    IN  [results  |-> IF matching \union failures = {} THEN {None} ELSE {configs[id] : id \in matching},
         failures |-> failures]

-----------------------------------------------------------------------------
(* Values.  A JSON value is the function from the paths within it to what is  *)
(* there: a text, null, or an object, whose fields are at the longer paths.   *)
(* A claim name is "id", a path into the subject or into the credential, or   *)
(* plain.                                                                     *)

Text(t) == [kind |-> "text", text |-> t]
Null == [kind |-> "null", text |-> <<"<nil>">>]
Object == [kind |-> "object", text |-> <<>>]

Just(node) == [path \in {<<>>} |-> node]
IsNil(value) == value[<<>>] = Null
IsObject(value) == value[<<>>] = Object

(* What is at a path; no value counts as null.                                *)
At(value, path) ==
    IF path \notin DOMAIN value THEN Just(Null)
    ELSE [rest \in {SubSeq(p, Len(path) + 1, Len(p)) : p \in {q \in DOMAIN value : IsPrefix(path, q)}}
            |-> value[path \o rest]]

findMatchingClaimUsingJSONPath(fields, path) == At(fields, path)

(* A walk searches the subject, and below an object without the name only the *)
(* first nested object it meets.                                              *)
findMatchingClaimValueInMap(fields, name) ==
    LET objects  == {p \in DOMAIN fields : fields[p] = Object}
        having   == {p \in objects : Append(p, name) \in DOMAIN fields}
        searched == {p \in objects : \A q \in having : ~IsStrictPrefix(q, p)}
        dead     == {p \in searched \ having : \A q \in objects : ~IsStrictPrefix(p, q)}
    IN  {At(fields, Append(p, name)) : p \in searched \intersect having} \union {Just(Null) : p \in dead}

getMatchingClaimValue(vc, name) ==
    CASE name.kind = "id" -> {Just(IF vc.subjectID = <<>> THEN Null ELSE Text(vc.subjectID))}
      [] name.kind = "subjectPath" -> {findMatchingClaimUsingJSONPath(vc.fields, name.path)}
      [] name.kind = "vcPath" -> {findMatchingClaimUsingJSONPath(vc.json, name.path)}
      [] name.kind = "plain" -> findMatchingClaimValueInMap(vc.fields, name.path[1])

(* fmt.Sprintf("%v"): the text itself, or the keys and texts of an object.    *)
RawValue(value) ==
    LET Key(path) == IF path = <<>> THEN <<>> ELSE <<Last(path)>>
    IN  FoldSet(LAMBDA path, text : Key(path) \o value[path].text \o text, <<>>, DOMAIN value)

(* The fields an attachment has, as far as the object gives them as texts.    *)
AttachmentOf(object) ==
    LET known == {"id", "mimeType", "description", "uri", "hash", "hash-alg"}
        given == {f \in known : <<f>> \in DOMAIN object /\ object[<<f>>] \notin {Null, Object}}
    IN  [f \in given |-> object[<<f>>].text]

-----------------------------------------------------------------------------
(* Masks.  A mask is a regular expression, or no valid one.  Every match is   *)
(* replaced by its group and the rest of the value kept; what comes out is    *)
(* hidden wherever it occurs in the value.  An expression that matches parts  *)
(* of a value only need not hide anything.                                    *)

MatchesIn(expression, text) ==
    IF text \in DOMAIN Matches[expression] THEN Matches[expression][text] ELSE <<>>

ReplacedByGroups(expression, text) ==
    LET found == MatchesIn(expression, text)
    IN  ElementsAt(text, {k \in DOMAIN text :
                            \A i \in DOMAIN found : k \in found[i].from..found[i].to
                                                     => k \in found[i].first..found[i].last})

ReplaceText(text, old, new) ==
    LET from[i \in 1..(Len(text) + 1)] ==
            IF i > Len(text) THEN <<>>
            ELSE IF old # <<>> /\ IsPrefix(old, SubSeq(text, i, Len(text))) THEN new \o from[i + Len(old)]
            ELSE <<text[i]>> \o from[i + 1]
    IN  from[1]

ByteLength(text) == Len(text) + Cardinality({i \in DOMAIN text : text[i] \in Wide})

Repeat(text, n) == [i \in 1..(n * Len(text)) |-> text[((i - 1) % Len(text)) + 1]]

(* A mask shorter than what is sliced off it panics, a bad expression fails.  *)
MaskFailureMust(mask) == IF mask \in {"short", "invalid"} THEN Panic ELSE None
MaskFailure(mask) == IF mask = "short" THEN Panic ELSE IF mask = "invalid" THEN Error ELSE None

getMaskedValue(raw, mask, maskingString) ==
    LET hidden == ReplacedByGroups(mask, raw)
    IN  ReplaceText(raw, hidden, Repeat(maskingString, ByteLength(hidden)))

-----------------------------------------------------------------------------
(* Claims.  One without displays or value is left out; a failing one fails    *)
(* the whole call.                                                            *)

(* Value, order and attachment are pointers: empty for nil.                   *)
ClaimOrderAsInt(config, name) ==
    LET at == {i \in DOMAIN config.order : config.order[i] = name}
    IN  IF at = {} THEN <<>> ELSE <<(CHOOSE i \in at : \A j \in at : i <= j) - 1>>

ClaimFailure(claim, value) ==
    IF IsNil(value) THEN None
    ELSE IF claim.type = "attachment" /\ ~IsObject(value) THEN Error
    ELSE IF claim.mask = None THEN None ELSE MaskFailure(claim.mask)

ResolvedClaim(config, name, labels, value, maskingString) ==
    LET claim == config.definition.claims[name]
        raw   == RawValue(value)
    IN  [rawID |-> name, labels |-> labels, type |-> claim.type, order |-> ClaimOrderAsInt(config, name),
         rawValue |-> raw, mask |-> claim.mask,
         value |-> IF claim.mask = None THEN <<>> ELSE <<getMaskedValue(raw, claim.mask, maskingString)>>,
         attachment |-> IF claim.type = "attachment" THEN <<AttachmentOf(value)>> ELSE <<>>]

(* The results are sets of at most one claim.                                 *)
resolveClaim(config, name, labels, vc, maskingString) ==
    LET claim  == config.definition.claims[name]
        values == getMatchingClaimValue(vc, name)
        good   == {v \in values : ClaimFailure(claim, v) = None}
    IN  [results  |-> {IF IsNil(v) THEN {} ELSE {ResolvedClaim(config, name, labels, v, maskingString)} :
                         v \in good},
         failures |-> {ClaimFailure(claim, v) : v \in values \ good}]

(* The claims of all names, in any order; labels gives those of each name.    *)
ResolveAll(config, labels, vc, maskingString) ==
    LET outcomes == [name \in DOMAIN labels |-> resolveClaim(config, name, labels[name], vc, maskingString)]
        results  == UNION {{name} \X outcomes[name].results : name \in DOMAIN labels}
    IN  [results  |-> {claims \in SUBSET UNION {r[2] : r \in results} :
                         \A name \in DOMAIN labels :
                            <<name, {c \in claims : c.rawID = name}>> \in results},
         failures |-> UNION {outcomes[name].failures : name \in DOMAIN labels}]

Labelled(config) ==
    {n \in DOMAIN config.definition.claims : config.definition.claims[n].displays # <<>>}

resolveClaims(config, vc, locale, maskingString) ==
    ResolveAll(config, [n \in Labelled(config) |->
                          <<getLocalizedLabel(config.definition.claims[n], locale)>>], vc, maskingString)

resolveClaimsAllLocaleNoPath(config, vc, maskingString, skipNonClaimData) ==
    ResolveAll(config,
               [n \in {l \in Labelled(config) : ~(skipNonClaimData /\ l.kind \in {"vcPath", "subjectPath"})}
                  |-> config.definition.claims[n].displays], vc, maskingString)
resolveClaimsAllLocale(config, vc, maskingString, skipNonClaimData) ==
    ResolveAll(config, [n \in {l \in Labelled(config) : ~(skipNonClaimData /\ l.kind = "vcPath")}
                          |-> config.definition.claims[n].displays], vc, maskingString)

-----------------------------------------------------------------------------
(* Credentials.                                                               *)

Displayable(vc) == vc.disclosable /\ vc.subjects = 1

(* Displays with the same overviews, of the possible sets of claims.          *)
WithClaims(overviews, outcome) ==
    [results  |-> {[overviews |-> overviews, claims |-> claims] : claims \in outcome.results},
     failures |-> outcome.failures]

buildCredentialDisplay(config, vc, locale, maskingString) ==
    IF config.definition = None THEN Failure(Panic)
    ELSE WithClaims(<<getOverviewDisplay(config, locale)>>, resolveClaims(config, vc, locale, maskingString))

PlainClaim(name, raw) ==
    [rawID |-> name, labels |-> <<>>, type |-> IF name.kind = "id" THEN "string" ELSE "",
     order |-> <<>>, rawValue |-> raw, value |-> <<>>, mask |-> None, attachment |-> <<>>]

buildDefaultCredentialDisplay(vc) ==
    [overviews |-> <<[EmptyDisplay EXCEPT !.name = vc.id]>>,
     claims    |-> {PlainClaim([kind |-> "plain", path |-> p], RawValue(At(vc.fields, p))) :
                      p \in {q \in DOMAIN vc.fields : Len(q) = 1}}
                   \union {PlainClaim([kind |-> "id", path |-> <<>>], id) :
                             id \in {vc.subjectID} \ {<<>>}}]

buildCredentialDisplayAllLocale(config, vc, maskingString, skipNonClaimData) ==
    IF config.definition = None THEN Failure(Panic)
    ELSE WithClaims(config.displays, resolveClaimsAllLocale(config, vc, maskingString, skipNonClaimData))

buildCredentialDisplays(mappings, locale, maskingString) ==
    InOrder([i \in DOMAIN mappings |->
        LET vc == mappings[i].credential
        IN  IF ~Displayable(vc) THEN Failure(Error)
            ELSE IF mappings[i].config = None THEN Result(buildDefaultCredentialDisplay(vc))
            ELSE buildCredentialDisplay(mappings[i].config, vc, locale, maskingString)])

buildCredentialDisplaysAllLocale(mappings, maskingString, skipNonClaimData) ==
    InOrder([i \in DOMAIN mappings |->
        IF mappings[i].config = None \/ ~Displayable(mappings[i].credential) THEN Failure(Error)
        ELSE buildCredentialDisplayAllLocale(mappings[i].config, mappings[i].credential,
                                             maskingString, skipNonClaimData)])

(* Offered types without a configuration get no display, so those that follow *)
(* move up.                                                                   *)
Matched(configs) == ElementsAt(configs, {k \in DOMAIN configs : configs[k] # None})

buildCredentialOfferingDisplays(offeringTypes, configs, locale) ==
    LET walks == InOrder([k \in DOMAIN offeringTypes |-> MatchingConfigs(configs, offeringTypes[k])])
    IN  [results  |-> {[i \in DOMAIN Matched(list) |->
                          [overviews |-> <<getOverviewDisplay(Matched(list)[i], locale)>>, claims |-> {}]] :
                         list \in walks.results},
         failures |-> walks.failures]

-----------------------------------------------------------------------------
(* Options: credentials, or a reader with their IDs, each credential with the *)
(* configuration ID the caller gives it, if any.                              *)

validateVCOpts(source) ==
    /\ source.vcs # None \/ source.reader # None
    /\ source.vcs # None =>
          /\ source.reader = None
          /\ source.configIDs # <<>> => Len(source.configIDs) = Len(source.vcs)
    /\ source.reader # None => source.ids # <<>>

VCsFailure(source) ==
    IF source.vcs # None \/ ToSet(source.ids) \subseteq DOMAIN source.reader THEN None ELSE Error

processVCOptsFirstID(source) ==
    IF source.vcs # None
    THEN [i \in DOMAIN source.vcs |->
            [credential |-> source.vcs[i],
             configID   |-> IF source.configIDs = <<>> THEN None ELSE source.configIDs[1]]]
    ELSE [i \in DOMAIN source.ids |-> [credential |-> source.reader[source.ids[i]], configID |-> None]]
processVCOpts(source) ==
    IF source.vcs # None
    THEN [i \in DOMAIN source.vcs |->
            [credential |-> source.vcs[i],
             configID   |-> IF source.configIDs = <<>> THEN None ELSE source.configIDs[i]]]
    ELSE [i \in DOMAIN source.ids |-> [credential |-> source.reader[source.ids[i]], configID |-> None]]

ConfigFor(configs, vc, configID) ==
    IF configID = None THEN MatchingConfigs(configs, vc.types)
    ELSE IF configID \in DOMAIN configs THEN Result(configs[configID]) ELSE Failure(Error)

processValidatedOpts(source, metadata) ==
    IF VCsFailure(source) # None \/ metadata = Error THEN Failure(Error)
    ELSE LET vcs == processVCOpts(source)
         IN  InOrder([i \in DOMAIN vcs |->
               LET found == ConfigFor(metadata.configs, vcs[i].credential, vcs[i].configID)
               IN  [results  |-> {[credential |-> vcs[i].credential, config |-> c] : c \in found.results},
                    failures |-> found.failures]])

processOpts(source, metadata) ==
    IF validateVCOpts(source) THEN processValidatedOpts(source, metadata) ELSE Failure(Error)

DefaultMask == <<"*">>
MaskOr(maskingString) == IF maskingString = None THEN DefaultMask ELSE maskingString

(* Display data with the same issuer, of the possible lists of displays.      *)
WithIssuers(issuers, outcome) ==
    [results  |-> {[issuers |-> issuers, credentials |-> displays] : displays \in outcome.results},
     failures |-> outcome.failures]

Resolve(source, metadata, locale, maskingString) ==
    LET mapped == processOpts(source, metadata)
    IN  Continue(mapped, [mappings \in mapped.results |->
          WithIssuers(getIssuerDisplay(metadata.displays, locale),
                      buildCredentialDisplays(mappings, locale, MaskOr(maskingString)))])

ResolveCredential(source, metadata, maskingString, skipNonClaimData) ==
    LET mapped == processOpts(source, metadata)
    IN  Continue(mapped, [mappings \in mapped.results |->
          WithIssuers(metadata.displays,
                      buildCredentialDisplaysAllLocale(mappings, MaskOr(maskingString), skipNonClaimData))])

ResolveCredentialOffer(metadata, offeredTypes, locale) ==
    WithIssuers(getIssuerDisplay(metadata.displays, locale),
                buildCredentialOfferingDisplays(offeredTypes, metadata.configs, locale))

-----------------------------------------------------------------------------
(* Saved displays: encoding/json leaves out the fields with omitempty that    *)
(* hold their zero value, and a field it does not find keeps that value.  A   *)
(* pointer is zero only when it is nil, whatever it points to.                *)

ZeroClaim == [labels |-> <<>>, type |-> "", order |-> <<>>, rawValue |-> <<>>, value |-> <<>>,
              mask |-> None, attachment |-> <<>>]

MarshalClaimByValue(claim) ==
    Restrict(claim, {f \in DOMAIN claim :
                       /\ f \in DOMAIN ZeroClaim => claim[f] # ZeroClaim[f]
                       /\ ~(f = "value" /\ claim[f] = << <<>> >>)})
MarshalClaim(claim) ==
    Restrict(claim, {f \in DOMAIN claim : f \in DOMAIN ZeroClaim => claim[f] # ZeroClaim[f]})
UnmarshalClaim(json) ==
    [f \in DOMAIN json \union DOMAIN ZeroClaim |-> IF f \in DOMAIN json THEN json[f] ELSE ZeroClaim[f]]

OnClaims(data, Op(_)) ==
    [issuers     |-> data.issuers,
     credentials |-> [i \in DOMAIN data.credentials |->
        [overviews |-> data.credentials[i].overviews,
         claims    |-> {Op(c) : c \in data.credentials[i].claims}]]]

Serialize(data) == OnClaims(data, MarshalClaim)
ParseData(json) == OnClaims(json, UnmarshalClaim)

(* What an app reads of a claim.                                              *)
IsMasked(claim) == claim.mask # None
Value(claim) == IF claim.value = <<>> THEN claim.rawValue ELSE claim.value[1]
=============================================================================
