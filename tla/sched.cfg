SPECIFICATION FairSpec
CONSTANTS
    WebTask = WebTask
    Morning = Morning
    Evening = Evening
    NoTask = NoTask
    NoDraft = NoDraft
    NoJob = NoJob
    Writers <- OneWriter
    Tasks <- TwoTasks
    MaxTasks = 2
    MaxPlan = 3
    MaxDraft = 3
    LostAnswers = FALSE
INVARIANTS TypeOK CacheIsFilled
PROPERTIES SavesWhole SaveReturns
