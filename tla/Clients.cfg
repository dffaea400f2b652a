SPECIFICATION Spec
CONSTANTS
    a = a
    b = b
    f1 = f1
    f2 = f2
    Windows = {a}
    Kinds = {"plain", "override", "acrobatic"}
    Frames = {f1, f2}
    Screen = Screen
    None = None
    MaxActs = 4
    MaxStops = 1
INVARIANTS
    KnowsClients
    ServerAgrees
    NoneTakenAlong
CHECK_DEADLOCK FALSE
