SPECIFICATION Spec
CONSTANTS
    Channels <- SomeChannels
    Tasks <- SomeTasks
    Results <- SomeResults
    Chunks <- SomeChunks
    Guarded <- HeaderBytes
INVARIANTS RequestIsUnderstood WokenByTheLastByte AnswerIsRead DamageIsNoticed
