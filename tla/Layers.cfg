SPECIFICATION MCSpec
CONSTANTS
    p1 = p1
    p2 = p2
    launcher = launcher
    LayerSurfaces = {p1, p2, launcher}
    Views = {v1}
    LockSurfaces = {}
    None = None
    Workspaces = {w1}
    FirstWorkspace = w1
    Modal = {}
    Outputs = {o1}
SYMMETRY Symmetry
INVARIANTS
    FocusedLayerIsRight
PROPERTIES
    ExclusiveYieldsUpwards
    FocusIsPassedOn
