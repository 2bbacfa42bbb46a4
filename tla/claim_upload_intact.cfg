SPECIFICATION BodySpec
CONSTANTS
    h = h
    nl = nl
    b1 = b1
    b2 = b2
    x = x
    y = y
    Bytes <- AllBytes
    Bodies <- Requests
    Blank <- BlankLine
    Marker <- Boundary
    BufMax = 6
    PreMax = 6
    SplitHeader = TRUE
INVARIANTS FlashedIsTheImage
CHECK_DEADLOCK FALSE
