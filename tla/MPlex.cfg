SPECIFICATION Spec
CONSTANTS
    Regions = {r1, r2, r3}
    PHolders = {p1, p2}
    Temp = temp
    None = None
    Indices <- MCIndices
SYMMETRY Alike
INVARIANTS
    SeenAsMeant
    ReturnsInPlace
PROPERTIES
    KeepsLine
