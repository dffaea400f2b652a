SPECIFICATION Spec
CONSTANTS
    Inf = 1000
    FrameMin = 1
    StMin = 1
    Frames = {f1, f2, f3}
    Sizes <- MCSizes
    Wants <- MCWants
    SplitMins = {1}
    Steps <- MCSteps
    Places <- MCPlaces
SYMMETRY Alike
INVARIANTS
    StdispInCorner
PROPERTIES
    StaysTiled
    KeepsLayout
