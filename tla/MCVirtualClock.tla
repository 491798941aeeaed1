---------------------------- MODULE MCVirtualClock ----------------------------
(* Bounds for model-checking VirtualClock.                                    *)
EXTENDS VirtualClock

CONSTANTS t1, t2, t3

\* Within a tick, at its end, over a tick and a half; zero returns at once
SomeDelays == {0, 1, 2, 3}

===============================================================================
