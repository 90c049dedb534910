SPECIFICATION KeysSpec
CONSTANTS
    Views = {v1}
    LayerSurfaces = {}
    LockSurfaces = {l1}
    None = None
    alt = alt
    tab = tab
    super = super
    esc = esc
    Keys <- MCKeys
    ModifierKeys = {alt, super}
    VTKeys = {}
    EscapeKeys = {esc}
    ArrowKeys = {}
    Keybinds <- MCKeybinds
    OtherEffects = {"menu", "focus", "none"}
    MaxSize = 3
INVARIANTS
    OnlySwallowedDisagree
    SetsAreRight
    WaitsForAKey
