SPECIFICATION MCSpec
CONSTANTS
    Views = {v1, v2}
    LayerSurfaces = {}
    LockSurfaces = {}
    None = None
    Workspaces = {w1, w2}
    FirstWorkspace = w1
    Modal = {}
    PreviewTree = preview
SYMMETRY Symmetry
INVARIANTS
    SwitcherIsCoherent
PROPERTIES
    SwitchReachesSelected
