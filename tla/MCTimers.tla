------------------------------- MODULE MCTimers -------------------------------
(***************************************************************************)
(* Instances of Timers for TLC.                                            *)
(***************************************************************************)
EXTENDS Timers

\* So late in a second that what is added must be carried.
MCStart == [sec |-> 0, usec |-> UsecsInSec - 1]
===============================================================================
