\* An issuer that changes its metadata once, two calls of the app, displays saved and restored.
CONSTANTS
    None = None
    Error = Error
    Panic = Panic
    OfferURIs <- MCOfferURIs
    Metadata <- MCMetadata
    DIDDocs <- MCDIDDocs
    DomainConfigs <- MCDomainConfigs
    Settings <- MCSettings
    Lists <- MCLists
    Stored <- MCStored
    Folded <- MCFolded
    Matches <- MCMatches
    Wide = {"e'"}
    MaxPublished = 2
    MaxCalls = 2
SPECIFICATION Spec
INVARIANTS
    OneVersionOfTheIssuer
    MadeFromSoundOffers
    VerifiedIssuerOwnsDomain
    DisplaysFitCredentials
    MaskedStaysHidden
    NothingPlainIsMissing
    PanicsExplained
CHECK_DEADLOCK FALSE
