\* Two presentations in progress, or one and three other acts, or six of these.
SPECIFICATION SessionSpec
CONSTANTS
    Credentials <- MCCredentials
    DIDs <- MCDIDs
    Holder <- MCHolder
    JWTCredentials = {"jwt1"}
    NumDescriptors = 2
    Satisfying <- MCSatisfying
    RequestObjects <- MCRequestObjects
    ClientIDs <- MCClientIDs
    Threads = 2
    MaxCalls = 2
    Keys = {"visit", "desk"}
    Values = {1, 2}
    Details <- MCDetails
    NoDetails = NoDetails
    Reasons <- MCReasons
    MaxActs = 6
INVARIANTS
    TypeOK
    PresentsWhatWasAskedFor
    SignedByHolders
    FormatSuitsVerifier
    OkMeansAcceptedAndLogged
    AnswerToQueryIsTaken
    DetailsReachTheVerifier
CHECK_DEADLOCK FALSE
