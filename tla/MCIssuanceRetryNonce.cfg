\* The second attempt of the pre-authorized flow keeps the rejected nonce.
CONSTANTS
    Offers <- TwoPreAuthorized
    Issuers <- OneByOneIssuer
    WalletTypes = {1}
    MaxURLs = 0
    MaxNonces = 3
    MaxCalls = 1
    MaxRefreshes = 0
SPECIFICATION Spec
INVARIANTS
    PreAuthRetryUsesAnsweredNonce
