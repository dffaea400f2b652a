SPECIFICATION TagsSpec
CONSTANTS
    r1 = r1
    r2 = r2
    r3 = r3
    Regions = {r1, r2, r3}
    Dead = Dead
    MaxNodes = 5
\* An assertion that fails ends the program.
CHECK_DEADLOCK FALSE
INVARIANTS
    ListedAreTagged
PROPERTIES
    TagOrderKept
