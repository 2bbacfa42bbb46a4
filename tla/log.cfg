SPECIFICATION FairSpec
CONSTANTS
    Tasks = {t1, t2}
    Lines = 3
    ReplayMax = 2
    QueueMax = 2
    NoLine = NoLine
    MaxSeq = 5
    MaxClients = 2
INVARIANTS ReplayIsTheTail NoLineIsMissed SlotIsAWorker
PROPERTIES SlotIsReleased
CHECK_DEADLOCK FALSE
