SPECIFICATION Spec
CONSTANTS
    t1 = t1
    t2 = t2
    Threads = {t1, t2}
    Names = {"contexts", "Contexts"}
    Lower <- MCLower
    Keys = {"k1", "k2"}
    Entries <- MCEntries
    Expressions <- MCExpressions
    Batches <- MCBatches
    NoEntry = NoEntry
    MaxStores = 2
    MaxWrites = 2
SYMMETRY ThreadSymmetry
INVARIANTS
    TypeOK
    AnswersWereStored
    AnswerHasWhatStayed
    SingleTagQueriesAreSnapshots
PROPERTIES
    KeepsPromise
