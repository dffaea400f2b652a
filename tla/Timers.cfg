SPECIFICATION LiveTimersSpec
CONSTANTS
    UsecsInSec = 2
    UsecsInMsec = 1
    UintMod = 1000
    WTimers = {t1, t2}
    Msecs = {0, 1}
    KillSigs = {"TERM", "USR1"}
    Builds = {TRUE, FALSE}
    SessionManager = TRUE
    Start <- MCStart
    MaxUsecs = 3
    MaxChildren = 2
INVARIANTS
    NothingSleptThrough
PROPERTIES
    FiresOnTime
    TimersFire
\* The program may end.
CHECK_DEADLOCK FALSE
