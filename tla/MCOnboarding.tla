----------------------------- MODULE MCOnboarding -----------------------------
(***************************************************************************)
(* An ID card and a diploma: offers for them, issuers that publish sound   *)
(* or broken metadata, and the credentials to display.                     *)
(***************************************************************************)
EXTENDS Onboarding

-----------------------------------------------------------------------------
(* Credentials.  The card has two nested objects, of which one has the phone  *)
(* number, a name with a wide character, and a photo.                         *)
Credential(types, id, subjectID, fields, json) ==
    [types |-> <<"VerifiableCredential">> \o types, id |-> id, subjectID |-> subjectID,
     fields |-> (<<>> :> Object) @@ fields, json |-> (<<>> :> Object) @@ json,
     subjects |-> 1, disclosable |-> TRUE]

Card == Credential(<<"IDCard">>, "vc1", <<"d", "1">>,
    (<<"name">> :> Text(<<"e'", "b", "e'", "b", "c">>)) @@
    (<<"address">> :> Object) @@ (<<"address", "city">> :> Text(<<"u">>)) @@
    (<<"contact">> :> Object) @@ (<<"contact", "phone">> :> Text(<<"7">>)) @@
    (<<"photo">> :> Object) @@ (<<"photo", "uri">> :> Text(<<"p">>)) @@
    (<<"photo", "size">> :> Text(<<"9">>)),
    <<"expires">> :> Text(<<"y">>))
Diploma == Credential(<<"diploma">>, "vc2", <<>>, (<<"grade">> :> Text(<<"A">>)) @@ (<<"note">> :> Null), <<"expires">> :> Null)
TwoSubjects == [Card EXCEPT !.subjects = 2]

Pair(vc, id) == [credential |-> vc, configID |-> id]
MCLists == {<<Pair(Card, "card"), Pair(Diploma, "diploma")>>, <<Pair(Diploma, "diploma")>>,
            <<Pair(Card, "gone")>>, <<Pair(Diploma, "diploma"), Pair(TwoSubjects, "card")>>}
MCStored == [s1 |-> Card, s2 |-> Diploma]
CardList == {<<Pair(Card, "card")>>}
CardOrDiploma == {<<Pair(Card, "card")>>, <<Pair(Diploma, "diploma")>>}

-----------------------------------------------------------------------------
(* Metadata.                                                                  *)
ClaimName(kind, path) == [kind |-> kind, path |-> path]
Claim(label, type, mask) ==
    [displays |-> <<[name |-> label, locale |-> "fr-FR"], [name |-> label, locale |-> "en-us"]>>,
     type |-> type, mask |-> mask]

(* Expressions, for texts of at least as many characters as they speak of:    *)
(* the first two, three or the middle two of the whole value are the group;   *)
(* no group; parts of the value match, with the middle of a part as group.    *)
Match(from, first, last, to) == [from |-> from, first |-> first, last |-> last, to |-> to]
MaskedTexts == {<<"e'", "b", "e'", "b", "c">>, <<"7">>, <<"A">>}
Longer(n) == {text \in MaskedTexts : Len(text) >= n}
MCMatches ==
    [first2  |-> [text \in Longer(2) |-> <<Match(1, 1, 2, Len(text))>>],
     first3  |-> [text \in Longer(3) |-> <<Match(1, 1, 3, Len(text))>>],
     middle  |-> [text \in Longer(3) |-> <<Match(1, 2, 3, Len(text))>>],
     noGroup |-> [text \in Longer(0) |-> <<Match(1, 1, 0, Len(text))>>],
     parts   |-> [text \in Longer(4) |-> <<Match(1, 1, 0, 1), Match(2, 3, 3, 4)>>]]

CardClaims(mask, nameType) ==
    (ClaimName("id", <<>>) :> Claim("ID", "string", None)) @@
    (ClaimName("plain", <<"name">>) :> Claim("Name", nameType, mask)) @@
    (ClaimName("plain", <<"phone">>) :> Claim("Phone", "string", "noGroup")) @@
    (ClaimName("plain", <<"photo">>) :> Claim("Photo", "attachment", None)) @@
    (ClaimName("plain", <<"address">>) :> [Claim("Address", "string", None) EXCEPT !.displays = <<>>]) @@
    (ClaimName("subjectPath", <<"address", "city">>) :> Claim("City", "string", None)) @@
    (ClaimName("vcPath", <<"expires">>) :> Claim("Expires", "string", None))

Config(types, claims, format, order) ==
    [definition |-> [types |-> <<"VerifiableCredential">> \o types, claims |-> claims],
     format |-> format, order |-> order,
     displays |-> <<[name |-> types[1], locale |-> "fr-FR", logo |-> "logo"],
                    [name |-> types[1], locale |-> "en-US", logo |-> None]>>]

CardConfig(mask, nameType) ==
    Config(<<"IDCard">>, CardClaims(mask, nameType), "ldp_vc",
           <<ClaimName("plain", <<"phone">>), ClaimName("plain", <<"name">>)>>)
DiplomaConfig ==
    [Config(<<"Diploma">>, ClaimName("plain", <<"grade">>) :> Claim("Grade", "string", "first3") @@
                           ClaimName("plain", <<"note">>) :> Claim("Note", "string", None),
            "jwt_vc_json", <<>>) EXCEPT !.displays = <<>>]

(* A configuration of no type in particular: nothing is matched with it.      *)
AnyConfig == [DiplomaConfig EXCEPT !.definition.types = <<"VerifiableCredential">>]

Signed(did, valid) == [did |-> did, valid |-> valid, kid |-> TRUE]
Sound1 == [version |-> 1, host |-> "issuer.example", signed |-> Signed("did:a", TRUE),
           jwtKID |-> None, registration |-> TRUE,
           displays |-> <<[name |-> "Issuer", locale |-> "de-DE", logo |-> None]>>,
           configs |-> [card |-> CardConfig("first2", "string"), diploma |-> DiplomaConfig]]

MCMetadata ==
    {Sound1,
     [Sound1 EXCEPT !.signed = Signed("did:b", TRUE),
                    !.configs = [diploma |-> [definition |-> None, format |-> "mso_mdoc", order |-> <<>>,
                                              displays |-> <<>>],
                                 card |-> CardConfig("parts", "string")]],
     [Sound1 EXCEPT !.signed = None, !.displays = <<>>, !.registration = FALSE,
                    !.configs.diploma.format = "mso_mdoc",
                    !.configs.card = CardConfig("short", "string")],
     [Sound1 EXCEPT !.signed = None, !.configs.card = CardConfig("invalid", "string")],
     [Sound1 EXCEPT !.signed = None, !.configs = [card |-> CardConfig(None, "attachment")]],
     [Sound1 EXCEPT !.signed = Signed("did:c", TRUE),
                    !.configs = [card |-> CardConfig("middle", "string"), any |-> AnyConfig]],
     [Sound1 EXCEPT !.signed = Signed("did:a", FALSE)]}
JustSound == {Sound1}

(* did:a links, in its own spelling, to the domain that lists it, did:b to    *)
(* one that does not, did:c has a service without usable type before.         *)
Link(uri) == [type |-> "LinkedDomains", uri |-> uri]
Odd == [type |-> None, uri |-> "x"]
MCDIDDocs == ("did:a" :> [resolvable |-> TRUE, services |-> <<[Link("a.example") EXCEPT !.type = "linkedDomains"], Odd>>]) @@
             ("did:b" :> [resolvable |-> TRUE, services |-> <<Link("a.example")>>]) @@
             ("did:c" :> [resolvable |-> TRUE, services |-> <<Odd, Link("a.example")>>])
MCDomainConfigs == "a.example" :> {"did:a"}

-----------------------------------------------------------------------------
(* Offers.                                                                    *)
Code == "pre-authorized_code" :> "string"
PreAuth(raw) == preAuthorizedGrantType :> raw
Auth(raw) == authorizationCodeGrantType :> raw
None0 == [f \in {} |-> None]

URI(ids, grants) == [scheme |-> "openid-credential-offer", carries |-> "credential_offer",
                     offer |-> [ids |-> ids, grants |-> grants]]
Both == URI(<<"card", "diploma">>, PreAuth(Code) @@ Auth("issuer_state" :> "string"))
MCOfferURIs ==
    {Both, [Both EXCEPT !.carries = "credential_offer_uri"], [Both EXCEPT !.scheme = "https"],
     [Both EXCEPT !.carries = "other"], [Both EXCEPT !.offer = Error],
     URI(<<"diploma">>, PreAuth(Code @@ "tx_code" :> "object")),
     URI(<<"card">>, PreAuth(Code @@ "tx_code" :> "string")),
     URI(<<"card">>, PreAuth("pre-authorized_code" :> "object") @@ Auth(None0)),
     URI(<<"card">>, Auth(None0)), URI(<<"card">>, Auth("issuer_state" :> "object")),
     URI(<<"card", "gone">>, PreAuth(Code)), URI(<<"any", "card">>, PreAuth(Code)), URI(<<"card">>, "unknown" :> Code)}
NoOffers == {}

Set(locale, masking, skip) == [locale |-> locale, masking |-> masking, skip |-> skip, resolver |-> TRUE]
MCSettings == {Set("fr-fr", <<>>, TRUE), Set("en-US", <<"?", "?">>, FALSE),
               [Set("", None, FALSE) EXCEPT !.resolver = FALSE]}
MCFolded == ("en-us" :> "en-US") @@ ("fr-fr" :> "fr-FR") @@ ("diploma" :> "Diploma") @@
            ("linkedDomains" :> "LinkedDomains")
=============================================================================
