SPECIFICATION Spec
CONSTANTS
    Credentials <- MCCredentials
    DIDs <- MCDIDs
    Holder <- MCHolder
    JWTCredentials = {"jwt1"}
    NumDescriptors = 2
    Satisfying <- MCSatisfying
    RequestObjects <- MCRequestObjects
    ClientIDs <- MCClientIDs
    Threads = 1
    MaxCalls = 2
INVARIANTS
    PresentCredentialValidates
CHECK_DEADLOCK FALSE
