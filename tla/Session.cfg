SPECIFICATION SessionSpec
CONSTANTS
    wa = wa
    wb = wb
    Windows <- MCWindows
    Attr <- MCAttr
    Places = {f1, f2}
    Defaults = {f1}
    None = None
    MaxActs = 4
    MaxStarts = 2
INVARIANTS
    AnsweredOnce
    InPlace
PROPERTIES
    LeavesAsAsked
    Settles
\* When the acts and starts are used up and Ion has ended, nothing is left to do.
CHECK_DEADLOCK FALSE
