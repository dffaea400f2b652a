SPECIFICATION Spec
CONSTANTS
    root = root
    f1 = f1
    f2 = f2
    c = c
    m1 = m1
    m2 = m2
    None = None
    Root = root
    Frames = {f1, f2}
    Clients = {c}
    Inputs = {m1, m2}
    Buttons <- MCButtons
INVARIANTS
    ModeHasEnd
    GrabsServe
PROPERTIES
    ResizeTimesOut
