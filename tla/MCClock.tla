------------------------------- MODULE MCClock -------------------------------
(* The constants of clock.h and power.c in milliseconds, except that the       *)
(* plausible epochs start at 100 s and the longest credible sleep is minutes.  *)
EXTENDS Clock

\* Naps long enough for the drift to outweigh the lag of the boot, and syncs so
\* far off that a ring's head can be ahead of the next by all of the slack.
MCErrors == {-22490, -2490, 2490}
MCLongNaps == {200000, 410000}
MCLongSteps == {200000}
MCLongDrifts == {-600, 603}

MCFreshErrors == {-2000, 2000}
MCGarbage == {0, 900000}
MCSteps == {15000}

\* SAVIA_DEEP_SLEEP_MIN_S, and with it naps the button cut short.
MCTimerNaps == {20000}

\* Sources that are never late, for which EveryNapIsResumed holds: with these,
\* MCFreshErrors and MCTimerDrifts, Jitter = 2000, Delay = 0, MaxSlept = 40000 and
\* MaxNow = 173000.
MCShortNaps == {4000, 20000}
MCNoSteps == {}
MCTimerDrifts == {-63, -9, 9, 63}
=============================================================================
