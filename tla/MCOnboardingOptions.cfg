\* A diploma, displayed with the options that have served a card.
CONSTANTS
    None = None
    Error = Error
    Panic = Panic
    OfferURIs <- NoOffers
    Metadata <- JustSound
    DIDDocs <- MCDIDDocs
    DomainConfigs <- MCDomainConfigs
    Settings <- MCSettings
    Lists <- CardOrDiploma
    Stored <- MCStored
    Folded <- MCFolded
    Matches <- MCMatches
    Wide = {"e'"}
    MaxPublished = 1
    MaxCalls = 2
SPECIFICATION Spec
INVARIANTS
    DisplaysFitWhateverCameBefore
CHECK_DEADLOCK FALSE
