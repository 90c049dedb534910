SPECIFICATION MCSpec
CONSTANTS
    Views = {v1, v2}
    LayerSurfaces = {}
    LockSurfaces = {l1, l2}
    None = None
    Workspaces = {w1}
    FirstWorkspace = w1
    Modal = {}
    Outputs = {o1, o2}
INVARIANTS
    OutputsAreLocked
    KeyboardIsWithTheLock
PROPERTIES
    FocusIsHandedOn
    LockGetsKeyboard
\* Nothing is said of the system after it used a freed lock output.
CHECK_DEADLOCK FALSE
