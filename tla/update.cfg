SPECIFICATION FairSpec
CHECK_DEADLOCK FALSE
CONSTANTS
    Web = Web
    GitHub = {gh1}
    None = None
    MaxUpdates = 3
    MaxResets = 2
INVARIANTS OneImageIsWhole NoPanicAfterUpdate
PROPERTIES BootEnds
