SPECIFICATION HSpec
CONSTANTS
    MowerA = MowerA
    MowerB = MowerB
    NoMower = NoMower
    Mowers <- OneMower
    Rechecks <- ManualOrAuto
    WakeRetry = 1
    ConfirmRecheck = 1
    LostContact = 2
    HoldAfterWake = 1
    HoldAfterCmd = 1
    ConfirmMax = 2
    PollFailLimit = 2
    Calls = {"wake","park","other","target","forget","suspend","scan","recheck"}
    MaxCalls = 2
    MaxTries = 4
INVARIANTS TypeOK RetriesAreBounded NoStrandedAttempt RetryIsRealWake LinkFlagTruthful UnattendedIsLate
