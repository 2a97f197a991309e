\* Two credentials, two live or restored objects, three calls.
CONSTANTS
    Details = {1}
    Events <- OneEvent
    MaxIDs = 2
    MaxObjects = 2
    MaxSaved = 1
    MaxSets = 1
    MaxCalls = 3
SPECIFICATION Spec
INVARIANTS
    TypeOK
    CallsGoThroughTheList
    OkMeansNotified
    RestoredDoesNotRepeat
    NothingSentAfterExpiry
CHECK_DEADLOCK FALSE
