---- MODULE PeriodicTimer ----
(***************************************************************************)
(* platform::PeriodicTimer (modules/runtime): absolute deadlines that keep  *)
(* the phase of the first one.  A thread that wakes up too late skips the   *)
(* periods it missed instead of running them in a burst.                    *)
(***************************************************************************)
EXTENDS Integers

\* The periods wait_next() gives up when it returns at actual for a deadline scheduled.
SkippedPeriods(scheduled, actual, period) ==
    IF actual > scheduled + period THEN (actual - scheduled) \div period ELSE 0

\* The deadline of the next call.
NextDeadline(scheduled, actual, period) ==
    scheduled + (SkippedPeriods(scheduled, actual, period) + 1) * period

====
