SPECIFICATION MCSpec
CONSTANTS
    Views = {r, d, x}
    LayerSurfaces = {}
    LockSurfaces = {}
    None = None
    MaxWorkspaces = 3
    Workspaces = {1, 2, 3}
    FirstWorkspace = 1
    Modal = {d}
    Third = x
INVARIANTS
    ServerIsCoherent
    WorkspacesAreLive
    OccupiedGoesAround
PROPERTIES
    StackingIsKept
    KeyboardStaysWithWindows
    DialogTakesFocus
    ShowDesktopIsUndone
