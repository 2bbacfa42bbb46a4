SPECIFICATION FairSpec
CONSTANTS
    Fields = {start, duration}
    Values = {v1, v2}
    None = None
    MaxEdits = 2
INVARIANTS NoEditForgotten
PROPERTIES EditorConverges
