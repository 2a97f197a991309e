\* Offers with both grants, the app switching flows on one interaction.
CONSTANTS
    Offers <- MixedOffers
    Issuers <- AckingIssuers
    WalletTypes = {1}
    MaxURLs = 1
    MaxNonces = 3
    MaxCalls = 3
    MaxRefreshes = 1
SPECIFICATION FairSpec
INVARIANTS
    AcknowledgesWithIssuingToken
PROPERTIES
    KeepsPromise
    CallsReturn
