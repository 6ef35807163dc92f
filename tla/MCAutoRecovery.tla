---------------------------- MODULE MCAutoRecovery ----------------------------
EXTENDS AutoRecovery

CONSTANTS f, u, t1, t2, t3

\* Something fails and the recovery after a crash may crash, or be followed by a
\* crash, or the settings change.
UseScenarios ==
    {[maxFailures |-> 1, maxCrashes |-> 2, turns |-> 1, maySet |-> FALSE],
     [maxFailures |-> 0, maxCrashes |-> 1, turns |-> 1, maySet |-> TRUE]}
=============================================================================
