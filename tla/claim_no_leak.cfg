SPECIFICATION HSpec
CONSTANTS
    MowerA = MowerA
    MowerB = MowerB
    NoMower = NoMower
    Mowers <- OneMower
    Rechecks <- ManualOrAuto
    WakeRetry = 1
    ConfirmRecheck = 1
    LostContact = 2
    HoldAfterWake = 1
    HoldAfterCmd = 1
    ConfirmMax = 2
    PollFailLimit = 2
    Calls = {"wake"}
    MaxCalls = 1
    MaxTries = 4
INVARIANT NoUnattendedLink
