------------------------------- MODULE TimeVals -------------------------------
(***************************************************************************)
(* The arithmetic on struct timeval of libmainloop/signal.c.  A timeval is *)
(* a record of seconds and microseconds, the latter below UsecsInSec.      *)
(***************************************************************************)
EXTENDS Integers

CONSTANTS
    UsecsInSec,   \* USECS_IN_SEC
    UsecsInMsec,  \* 1000: what milliseconds are multiplied by
    UintMod       \* 2^32: one more than the largest uint

ASSUME TimeAssumption ==
    /\ UsecsInSec \in Nat \ {0}
    /\ UsecsInMsec \in Nat \ {0}
    /\ UintMod \in Nat \ {0}

TimeVal == [sec: Nat, usec: 0 .. (UsecsInSec - 1)]
Usecs(a) == a.sec * UsecsInSec + a.usec

\* Faulty variant: the comparison is not strict.
LaterOrEqual(a, b) ==
    a.sec > b.sec \/ (a.sec = b.sec /\ a.usec >= b.usec)

\* TIMEVAL_LATER.
Later(a, b) == a.sec > b.sec \/ (a.sec = b.sec /\ a.usec > b.usec)

\* Faulty variant: no second is borrowed.
DifferenceUnborrowed(a, b) ==
    IF a.usec < b.usec
    THEN [sec |-> a.sec - b.sec, usec |-> a.usec + UsecsInSec - b.usec]
    ELSE [sec |-> a.sec - b.sec, usec |-> a.usec - b.usec]

\* libmainloop_get_timeout: a - b, where a is later than b.
Difference(a, b) ==
    IF a.usec < b.usec
    THEN [sec |-> a.sec - 1 - b.sec, usec |-> a.usec + UsecsInSec - b.usec]
    ELSE [sec |-> a.sec - b.sec, usec |-> a.usec - b.usec]

\* Faulty variant: the microseconds are left to overflow.
AddMsecsUncarried(now, msecs) ==
    [now EXCEPT !.usec = @ + ((msecs * UsecsInMsec) % UintMod)]

\* add_to_current_time: msecs * 1000 is a product of uints.
AddMsecs(now, msecs) ==
    LET usec == now.usec + ((msecs * UsecsInMsec) % UintMod) IN
    [sec |-> now.sec + (usec \div UsecsInSec), usec |-> usec % UsecsInSec]
===============================================================================
