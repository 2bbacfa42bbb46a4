SPECIFICATION Spec
CONSTANTS
    ConnTask = ConnTask
    Saver = Saver
    Nobody = Nobody
    NoJob = NoJob
    Parts = 2
    RxParts = 3
    MaxLag = 2
    MaxJobs = 2
INVARIANTS TypeOK OneQuestionAtATime
PROPERTIES AnswerIsOurs AnswerIsWhole OkIsAchieved
