---------------------------- MODULE MCTimerManager ----------------------------
(* A second has three nanoseconds.  The clock goes from the last of one second
   to the second of the next, and a repeating timer has a period of two: put
   back at the start, its time is not normalized.  The two timers are alike, so
   of two beginnings that differ in which timer is which one is enough. *)
EXTENDS TimerManager

CONSTANTS t1, t2

Time(s, n) == [Seconds |-> s, Nanosec |-> n]
SomeTimeOuts == {Zero, Time(0, 1)}
SomePeriod == Time(0, 2)
SomeTimePoints == {Time(1, 0)}
First == Time(0, 2)
Last == Time(1, 1)

Kind(t) == m_aTimeOut[t].Nanosec + m_aRepeatDelta[t].Nanosec
MCInit == Init /\ Kind(t1) <= Kind(t2)
MCSpec == MCInit /\ [][Next]_vars /\ Fairness
=============================================================================
