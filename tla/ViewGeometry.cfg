SPECIFICATION MCSpec
CONSTANTS
    Outputs = {o1, o2}
    None = None
    Widths = {"a", "b"}
    Heights = {"a"}
    SnapEdges = {{"left"}, {"top"}}
    First = o1
    Layouts <- MCLayouts
INVARIANTS
    PlacedOnOutputs
    SizeIsAsked
    OutputsComeBack
PROPERTIES
    SpecialIsShown
    NaturalComesBack
