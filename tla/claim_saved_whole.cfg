SPECIFICATION Spec
CONSTANTS
    WebTask = WebTask
    Morning = Morning
    Evening = Evening
    NoTask = NoTask
    NoDraft = NoDraft
    NoJob = NoJob
    Writers <- OneWriter
    Tasks <- TwoTasks
    MaxTasks = 1
    MaxPlan = 1
    MaxDraft = 3
    LostAnswers = TRUE
PROPERTY SavedPlanIsAList
