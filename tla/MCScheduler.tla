----------------------------- MODULE MCScheduler -----------------------------
(* Days of 16 units of half a second: long enough for several samples, two    *)
(* daily times and a nap that crosses midnight; a clock off by a unit.        *)
EXTENDS Scheduler

CONSTANTS s1, s2
MCSlots == {s1, s2}
MCOneSlot == {s1}
MCIntervals == {4, 9}
MCOneInterval == {4}
MCDailyTimes == {4, 9}
MCLateTime == {15}
MCOffsets == {-2, 6}
MCErrors == {0, 1}
MCWorks == {2}
MCOutages == {5}
MCTails == {1}
=============================================================================
