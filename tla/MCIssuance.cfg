\* Both flows, each on its own: one and two credentials with the authorization
\* code flow, none to three with the pre-authorized one, batched or not.
CONSTANTS
    Offers <- SingleFlowOffers
    Issuers <- AllIssuers
    WalletTypes = {1, 2}
    MaxURLs = 2
    MaxNonces = 3
    MaxCalls = 2
    MaxRefreshes = 1
SPECIFICATION Spec
INVARIANTS
    TypeOK
    DeliveredInOneRound
    AcksEndWithDelivered
    ReceivedCanBeAcknowledged
    CodeSentWithItsVerifier
    RequestsAuthorizedType
    NonceIsForToken
    AuthRetryUsesAnsweredNonce
    AtMostOneRetry
    PairedWithOfferedConfig
