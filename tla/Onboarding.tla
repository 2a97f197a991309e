------------------------------ MODULE Onboarding ------------------------------
(***************************************************************************)
(* An app that meets an issuer, gets its credentials and shows them: the   *)
(* interaction of IssuerContact, the display package, and the issuer that  *)
(* replaces its metadata between the two.                                  *)
(*                                                                         *)
(* One options object serves all display calls of the app.  Displays may   *)
(* be saved and restored.                                                  *)
(***************************************************************************)
EXTENDS IssuerContact, CredentialDisplay

CONSTANTS
    Settings, \* what an app sets in its options: [locale, masking, skip, resolver]
    Lists,    \* lists of credentials to display: sequences of [credential, configID]
    Stored    \* [id -> credential] in the reader's storage

(* A masking string is a text, if set.                                        *)
ASSUME SettingsAssumption ==
    \A s \in Settings : s.skip \in BOOLEAN /\ (s.masking # None => IsList(s.masking))

(* What an issuer describes: configurations, none of them nil, whose claims   *)
(* have names of the known kinds, masks, and lists of displays.               *)
ASSUME DescriptionsAssumption ==
    \A m \in Metadata :
        /\ IsList(m.displays)
        /\ \A id \in DOMAIN m.configs :
              /\ m.configs[id] # None /\ IsList(m.configs[id].displays)
              /\ m.configs[id].definition # None =>
                    \A name \in DOMAIN m.configs[id].definition.claims :
                        /\ name.kind \in {"id", "subjectPath", "vcPath", "plain"}
                        /\ IsList(m.configs[id].definition.claims[name].displays)
                        /\ m.configs[id].definition.claims[name].mask
                              \in {None, "short", "invalid"} \union DOMAIN Matches

(* A credential is a finite JSON value with an object as subject.  An ID is a *)
(* string, maybe empty.                                                       *)
ASSUME CredentialsAssumption ==
    LET IsJSON(value) == /\ IsFiniteSet(DOMAIN value)
                         /\ \A path \in DOMAIN value : IsList(path) /\ IsList(value[path].text)
        HasSubject(vc) == /\ IsList(vc.subjectID) /\ IsJSON(vc.fields) /\ IsJSON(vc.json)
                          /\ <<>> \in DOMAIN vc.fields /\ IsObject(vc.fields)
    IN  /\ \A list \in Lists :
              /\ IsList(list)
              /\ \A i \in DOMAIN list : HasSubject(list[i].credential) /\ list[i].configID # None
        /\ \A id \in DOMAIN Stored : HasSubject(Stored[id])

VARIABLES
    opts,    \* the options object, None before it exists
    data,    \* the display data the app holds, None without
    request, \* what the data was asked for
    saved    \* serialized display data

displayVars == <<opts, data, request, saved>>
vars == <<contactVars, displayVars>>

Init ==
    /\ ContactInit
    /\ opts = None /\ data = None /\ request = None /\ saved = None

-----------------------------------------------------------------------------

ZeroOpts == [locale |-> "", masking |-> None, skip |-> FALSE, resolver |-> FALSE, configIDs |-> <<>>]
OptsOr(o) == IF o = None THEN ZeroOpts ELSE o

(* The setters of an options object; none of them touches configIDs.          *)
SetOptions ==
    /\ answer.failure # Panic
    /\ \E s \in Settings :
          opts' = [locale |-> s.locale, masking |-> s.masking, skip |-> s.skip,
                   resolver |-> s.resolver, configIDs |-> OptsOr(opts).configIDs]
    /\ UNCHANGED <<contactVars, data, request, saved>>

Credentials(list) == [i \in DOMAIN list |-> list[i].credential]
ConfigIDs(list) == [i \in DOMAIN list |-> list[i].configID]

(* The app keeps what a call returns, or what it had when the call fails.     *)
Display(call, outcome, asked) ==
    \/ \E d \in outcome.results : answer' = Answer(call) /\ data' = d /\ request' = asked
    \/ \E e \in outcome.failures : answer' = Failed(call, e) /\ UNCHANGED <<data, request>>

DirectSource(list, o) == [vcs |-> Credentials(list), configIDs |-> o.configIDs, reader |-> None, ids |-> <<>>]

(* Given: the IDs that came with the credentials, none but for                *)
(* ResolveCredentialV2; configIDs: those the options carry.                   *)
Asked(call, vcs, given, m, o) ==
    [call |-> call, vcs |-> vcs, given |-> given, configIDs |-> o.configIDs,
     metadata |-> m, skip |-> o.skip]

(* Resolve and ResolveCredential fetch the metadata anew, and take the IDs    *)
(* the options object carries.                                                *)
ResolveWith(call, list, o, reached) ==
    LET m == Get(reached, o.resolver)
    IN  Display(call,
                IF call = "Resolve" THEN Resolve(DirectSource(list, o), m, o.locale, o.masking)
                ELSE ResolveCredential(DirectSource(list, o), m, o.masking, o.skip),
                Asked(call, Credentials(list),
                      IF call = "ResolveCredentialV2" THEN ConfigIDs(list) ELSE <<>>, m, o))

ResolveList(call, list) ==
    /\ Running
    /\ \E reached \in BOOLEAN : ResolveWith(call, list, OptsOr(opts), reached)
    /\ calls' = calls + 1
    /\ UNCHANGED <<published, interaction, told, opts, saved>>

(* ResolveCredentialV2 writes the IDs of its credentials into the options of  *)
(* the caller, which it dereferences.                                         *)
ResolveCredentialV2(list) ==
    /\ Running
    /\ IF opts = None
       THEN answer' = Failed("ResolveCredentialV2", Panic) /\ UNCHANGED <<opts, data, request>>
       ELSE /\ opts' = [opts EXCEPT !.configIDs = ConfigIDs(list)]
            /\ \E reached \in BOOLEAN : ResolveWith("ResolveCredentialV2", list, opts', reached)
    /\ calls' = calls + 1
    /\ UNCHANGED <<published, interaction, told, saved>>

(* The Go API with a reader, on stored credentials.                           *)
ResolveFromReader(ids) ==
    /\ Running
    /\ \E reached \in BOOLEAN :
          LET m == Get(reached, TRUE)
              source == [vcs |-> None, configIDs |-> <<>>, reader |-> Stored, ids |-> ids]
          IN  Display("Resolve", Resolve(source, m, "", None),
                      Asked("Resolve", [i \in DOMAIN ids |-> Stored[ids[i]]], <<>>, m, ZeroOpts))
    /\ calls' = calls + 1
    /\ UNCHANGED <<published, interaction, told, opts, saved>>

(* The types an interaction offers, displayed from the metadata it holds.     *)
DisplayOffer ==
    /\ Running /\ interaction # None /\ interaction.kind = "issuer"
    /\ Display("ResolveCredentialOffer",
               ResolveCredentialOffer(interaction.issuerMetadata, interaction.types, OptsOr(opts).locale),
               Asked("ResolveCredentialOffer", interaction.types, <<>>, interaction.issuerMetadata, ZeroOpts))
    /\ calls' = calls + 1
    /\ UNCHANGED <<published, interaction, told, opts, saved>>

Save ==
    /\ answer.failure # Panic /\ data # None
    /\ saved' = [json |-> Serialize(data), request |-> request]
    /\ UNCHANGED <<contactVars, opts, data, request>>

Restore ==
    /\ answer.failure # Panic /\ saved # None
    /\ data' = ParseData(saved.json) /\ request' = saved.request
    /\ UNCHANGED <<contactVars, opts, saved>>

(* Reading displays.  Reply is what the getters return.                       *)
Read(kinds, Replies) ==
    /\ Running /\ data # None /\ request.call \in kinds
    /\ \E reply \in Replies : answer' = reply
    /\ calls' = calls + 1
    /\ UNCHANGED <<published, interaction, told, displayVars>>

DataCalls == {"Resolve", "ResolveCredentialOffer"}
ResolvedCalls == {"ResolveCredential", "ResolveCredentialV2"}

Named(display) == [call |-> "Name", failure |-> None, name |-> display.name]

(* The issuer display of Data is never nil, but what it holds is, for an      *)
(* issuer without displays.  That of Resolved is nil instead.                 *)
ReadIssuer ==
    Read(DataCalls, {IF data.issuers = <<>> THEN Failed("IssuerDisplay", Panic) ELSE Named(data.issuers[1])})
ReadLocalizedIssuer ==
    Read(ResolvedCalls, {IF i \in DOMAIN data.issuers THEN Named(data.issuers[i]) ELSE Answer("Name") :
                           i \in 1..2})

(* The logo and the attachment that getters return are never nil, but what    *)
(* they hold is, where there is none.                                         *)
LogoReply(overview) ==
    IF overview.logo = None THEN Failed("Logo", Panic)
    ELSE [call |-> "Logo", failure |-> None, url |-> overview.logo]
AllOverviews == UNION {ToSet(data.credentials[i].overviews) : i \in DOMAIN data.credentials}
OverviewReplies == {Named(o) : o \in AllOverviews} \union {LogoReply(o) : o \in AllOverviews}
ReadOverview == Read(DataCalls, OverviewReplies)
ReadLocalizedOverview == Read(ResolvedCalls, OverviewReplies)

ClaimReply(claim) ==
    [call |-> "Claim", failure |-> None, value |-> Value(claim), masked |-> IsMasked(claim),
     order |-> claim.order, labels |-> claim.labels]
AttachmentReply(claim) ==
    IF claim.attachment = <<>>
    THEN [call |-> "none", failed |-> "Attachment", failure |-> Panic, type |-> claim.type]
    ELSE [call |-> "Attachment", failure |-> None, attachment |-> claim.attachment[1]]
AllClaims == UNION {data.credentials[i].claims : i \in DOMAIN data.credentials}
ClaimReplies == {ClaimReply(c) : c \in AllClaims} \union {AttachmentReply(c) : c \in AllClaims}
ReadClaim == Read(DataCalls, ClaimReplies)
ReadSubject == Read(ResolvedCalls, ClaimReplies)

Next ==
    \/ ContactNext /\ UNCHANGED displayVars
    \/ SetOptions
    \/ \E list \in Lists :
          \/ ResolveList("Resolve", list)
          \/ ResolveList("ResolveCredential", list)
          \/ ResolveCredentialV2(list)
    \/ \E id \in DOMAIN Stored : ResolveFromReader(<<id>>)
    \/ DisplayOffer
    \/ Save
    \/ Restore
    \/ ReadIssuer
    \/ ReadLocalizedIssuer
    \/ ReadOverview
    \/ ReadLocalizedOverview
    \/ ReadClaim
    \/ ReadSubject

Spec == Init /\ [][Next]_vars

-----------------------------------------------------------------------------
OfCredentials == data # None /\ request.call # "ResolveCredentialOffer"

ClaimsOf(i) == data.credentials[i].claims

(* The configurations the call may have taken for the i-th credential: the    *)
(* one of the ID in the options, else one with a type in common, else none.   *)
ConfigsOf(i) ==
    IF request.configIDs # <<>> THEN {request.metadata.configs[request.configIDs[i]]}
    ELSE MatchingConfigs(request.metadata.configs, request.vcs[i].types).results

(* Those it should take: of the ID that came with the credential, else one    *)
(* with a type in common, else none.                                          *)
OwnConfigs(i) ==
    IF request.given # <<>> THEN {request.metadata.configs[request.given[i]]}
    ELSE MatchingConfigs(request.metadata.configs, request.vcs[i].types).results

OverviewsAreOf(config, i) ==
    ToSet(data.credentials[i].overviews) \subseteq ToSet(config.displays) \union {EmptyDisplay}

(* All overviews and labels of the i-th display are those of a configuration. *)
DescribedBy(config, i) ==
    IF config = None THEN \A c \in ClaimsOf(i) : c.labels = <<>>
    ELSE /\ OverviewsAreOf(config, i)
         /\ \A c \in ClaimsOf(i) :
               ToSet(c.labels) \subseteq ToSet(config.definition.claims[c.rawID].displays)

TextsWithin(value) == {RawValue(At(value, path)) : path \in DOMAIN value}
TextsOf(vc) == TextsWithin(vc.fields) \union {vc.subjectID} \union TextsWithin(vc.json)

(* A call that was given no configuration IDs found another call's in the     *)
(* options.                                                                   *)
IDsLeftOver == request.given = <<>> /\ request.configIDs # <<>>

(* The k-th display is about the k-th credential (resolve.go, "in the same    *)
(* order"): its values are values of that credential whatever IDs the options *)
(* carry, and its labels and overviews are all of one configuration of that   *)
(* credential unless the IDs are another call's.  An offer has a display for  *)
(* every type with a configuration, of that configuration and in the order of *)
(* the types: types without one are skipped.                                  *)
DisplaysFitCredentials ==
    /\ OfCredentials =>
         /\ Len(data.credentials) = Len(request.vcs)
         /\ \A i \in DOMAIN data.credentials :
               /\ \A c \in ClaimsOf(i) : c.rawValue \in TextsOf(request.vcs[i])
               /\ IDsLeftOver \/ \E config \in OwnConfigs(i) : DescribedBy(config, i)
    /\ (data # None /\ ~OfCredentials) =>
         LET described == {k \in DOMAIN request.vcs :
                             None \notin MatchingConfigs(request.metadata.configs, request.vcs[k]).results}
             Place(k)  == Cardinality({j \in described : j <= k})
         IN  /\ Len(data.credentials) = Cardinality(described)
             /\ \A k \in described :
                   \E config \in MatchingConfigs(request.metadata.configs, request.vcs[k]).results :
                      OverviewsAreOf(config, Place(k))

(* "The CredentialDisplays in the returned Data object correspond to the VCs  *)
(* passed in" (resolve.go), also when the options object has served an        *)
(* earlier ResolveCredentialV2.                                               *)
DisplaysFitWhateverCameBefore ==
    OfCredentials => \A i \in DOMAIN data.credentials : \E config \in OwnConfigs(i) : DescribedBy(config, i)

(* How many characters of a text a mask is sure to hide: what the group       *)
(* matches, for an expression that matches the whole text once; the whole     *)
(* text, for one that does not match; none, for one that matches parts of it. *)
SurelyHidden(mask, text) ==
    LET found == MatchesIn(mask, text)
    IN  IF found = <<>> THEN Len(text)
        ELSE IF Len(found) = 1 /\ found[1].from = 1 /\ found[1].to = Len(text)
             THEN found[1].last - found[1].first + 1
        ELSE 0

(* Of a masked claim, the app is shown at most the characters its mask does   *)
(* not surely hide, besides the masking string: also after the display was    *)
(* saved and restored, and with an empty masking string, whose masked value   *)
(* is "" (getMaskedValue, Claim.Value).                                       *)
MaskedStaysHidden ==
    OfCredentials =>
        \A i \in DOMAIN data.credentials : \A c \in ClaimsOf(i) :
            IsMasked(c) =>
                LET filler  == ToSet(DefaultMask) \union UNION {ToSet(MaskOr(s.masking)) : s \in Settings}
                    visible == {k \in DOMAIN Value(c) : Value(c)[k] \notin filler}
                IN  Cardinality(visible) <= Len(c.rawValue) - SurelyHidden(c.mask, c.rawValue)

(* Where a claim is: at the top of the subject, or at the end of its path.    *)
PlainlyThere(vc, name) ==
    CASE name.kind = "plain" -> <<name.path[1]>> \in DOMAIN vc.fields /\ vc.fields[<<name.path[1]>>] # Null
      [] OTHER -> \A v \in getMatchingClaimValue(vc, name) : ~IsNil(v)

(* Every claim the configuration describes and the credential has is shown,   *)
(* once, unless the app skips what is no claim of the subject.                *)
NothingPlainIsMissing ==
    OfCredentials =>
        \A i \in DOMAIN data.credentials : \E config \in ConfigsOf(i) :
            config # None =>
                \A name \in DOMAIN config.definition.claims :
                    /\ config.definition.claims[name].displays # <<>>
                    /\ PlainlyThere(request.vcs[i], name)
                    /\ ~(request.skip /\ request.call # "Resolve" /\ name.kind = "vcPath")
                    => Cardinality({c \in ClaimsOf(i) : c.rawID = name}) = 1

(* A claim whose value is anywhere in the subject is found: "If nil is        *)
(* returned, then no matching claim was found" (credentialdisplay.go).        *)
NestedClaimsFound ==
    OfCredentials =>
        \A i \in DOMAIN data.credentials : \A config \in ConfigsOf(i) \ {None} :
            \A name \in DOMAIN config.definition.claims :
                /\ name.kind = "plain"
                /\ \E v \in findMatchingClaimValueInMap(request.vcs[i].fields, name.path[1]) : ~IsNil(v)
                /\ \E c \in ClaimsOf(i) : TRUE
                => \E c \in ClaimsOf(i) : c.rawID = name

(* A call crashes the app only where what it looks at is broken or absent:    *)
(* metadata with a configuration that has no definition or, when claims are   *)
(* masked, with a mask too short to slice; the issuer of data without one;    *)
(* the logo of an overview without one; the attachment of a claim whose type  *)
(* is not "attachment" (the comment of Attachment says to look at the type);  *)
(* and ResolveCredentialV2 without options.                                   *)
Defined(configs) == \A id \in DOMAIN configs : configs[id].definition # None
Sound(m) ==
    /\ Defined(m.configs)
    /\ \A id \in DOMAIN m.configs : \A name \in DOMAIN m.configs[id].definition.claims :
          m.configs[id].definition.claims[name].mask # "short"

PanicsExplained ==
    answer.failure = Panic =>
        CASE answer.failed = "New" -> ~Defined(published.configs)
          [] answer.failed \in {"SupportedCredentials", "ResolveCredentialOffer"} ->
                ~Defined(interaction.issuerMetadata.configs)
          [] answer.failed \in {"Resolve", "ResolveCredential"} -> ~Sound(published)
          [] answer.failed = "ResolveCredentialV2" -> ~Sound(published) \/ opts = None
          [] answer.failed = "IssuerDisplay" -> data.issuers = <<>>
          [] answer.failed = "Logo" -> \E o \in AllOverviews : o.logo = None
          [] answer.failed = "Attachment" -> answer.type # "attachment"
=============================================================================
