SPECIFICATION ActivitySpec
CONSTANTS
    g1 = g1
    g2 = g2
    g3 = g3
    w = w
    Regions = {g1, g2, g3, w}
    Windows = {g3, w}
    Roots = {w}
    None = None
    Dead = Dead
    MaxNodes = 4
INVARIANTS
    CountsMatch
    ActiveIsSilent
    ListedHaveActivity
SYMMETRY Alike
