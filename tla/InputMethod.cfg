SPECIFICATION ImeSpec
CONSTANTS
    a1 = a1
    a2 = a2
    b1 = b1
    t1 = t1
    t2 = t2
    u1 = u1
    Surfaces <- MCSurfaces
    TextInputs <- MCTextInputs
    Client <- MCClient
    Popups = {p}
    None = None
INVARIANTS
    RelayAgrees
    NoTextGoesAstray
    PopupsAreAtTheCursor
