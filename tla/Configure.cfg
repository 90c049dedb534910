SPECIFICATION MCSpec
CONSTANTS
    Xs = {0, 1}
    Widths = {1, 2}
    MaxWidth = 3
    Available = 2
    Fallback = 0
    None = None
    MaxSerial = 4
    LateSerial = 3
INVARIANTS
    ViewsAgree
PROPERTIES
    RightEdgeStays
    LateAnswerKeepsRequest
    RequestsEnd
\* A destroyed window takes no further step.
CHECK_DEADLOCK FALSE
