SPECIFICATION FairSpec
CONSTANTS
    root = root
    f = f
    a = a
    b = b
    Frames <- MCFrames
    Clients <- MCClients
    Root = root
    None = None
    Home <- MCHome
    MaxActs = 3
INVARIANTS RefersToLive BeliefTrue
PROPERTIES FocusRestored RequestServed
CHECK_DEADLOCK FALSE
