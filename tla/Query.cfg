SPECIFICATION Spec
CONSTANTS
    Character = {"a", "-"}
    Alnum = {"a"}
    Chars = {"a", "-"}
    HISTORY_SIZE = 3
    AnyContext = AnyContext
    NoEntry = NoEntry
    Contexts = {AnyContext, "c"}
    Initial <- MCInitial
    Saved <- MCSaved
    Pastes <- MCPastes
    Answers <- MCAnswers
    MaxText = 3
    MaxActs = 3

INVARIANTS
    LineAsShown
    OwnTextReturns
PROPERTIES
    AnsweredAsAsked
    KeepsRecent
    ListSettles
CHECK_DEADLOCK FALSE
