\* Two calls, both of which may be in progress at a time.
CONSTANTS
    KeyIDs = {"key1", "key2", "bare"}
    DIDs = {"did1", "did2"}
    NoDID = NoDID
    DIDPart <- MCDIDPart
    Payloads = {"p1", "p2"}
    MaxCalls = 2
SPECIFICATION FairSpec
INVARIANTS
    AttestsWhatWasAsked
PROPERTIES
    KeepsPromise
    CallsReturn
CHECK_DEADLOCK FALSE
