\* A retry leaves the IDs of the round it replaces in the list.
CONSTANTS
    Offers <- TwoPreAuthorized
    Issuers <- OneByOneIssuer
    WalletTypes = {1}
    MaxURLs = 0
    MaxNonces = 3
    MaxCalls = 1
    MaxRefreshes = 0
SPECIFICATION Spec
INVARIANTS
    AcksAreThoseDelivered
