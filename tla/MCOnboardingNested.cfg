\* A claim in the second of two nested objects.
CONSTANTS
    None = None
    Error = Error
    Panic = Panic
    OfferURIs <- NoOffers
    Metadata <- JustSound
    DIDDocs <- MCDIDDocs
    DomainConfigs <- MCDomainConfigs
    Settings <- MCSettings
    Lists <- CardList
    Stored <- MCStored
    Folded <- MCFolded
    Matches <- MCMatches
    Wide = {"e'"}
    MaxPublished = 1
    MaxCalls = 1
SPECIFICATION Spec
INVARIANTS
    NestedClaimsFound
CHECK_DEADLOCK FALSE
