--------------------------- MODULE AdaptiveCpuStats ---------------------------
(***************************************************************************)
(* AdaptiveCpuStats (AdaptiveCpuStats.h/.cpp): the counters kept for      *)
(* dumpsys.  The object is a record; RegisterStartRun and                  *)
(* RegisterSuccessfulRun are operators from a record to the next one, so  *)
(* that the controller module applies them inside the loop step that      *)
(* calls them.  Times are wall-clock values (TimeSource::GetTime).        *)
(***************************************************************************)
EXTENDS Integers

CONSTANTS
    ThrottleDecisions   \* the ThrottleDecision values of the model

\* The nanosecond fields mStartTime, mLastRunStartTime, mLastRunSuccessTime
\* and mTotalRunDuration have no initialiser: the constructor leaves them
\* with whatever the allocation held.  `u` is that (nondeterministic) value.
InitialStats(u) ==
    [ numStartedRuns     |-> 0,
      numSuccessfulRuns  |-> 0,
      startTime          |-> u.startTime,
      lastRunStartTime   |-> u.lastRunStartTime,
      lastRunSuccessTime |-> u.lastRunSuccessTime,
      totalRunDuration   |-> u.totalRunDuration,
      numThrottles       |-> [d \in ThrottleDecisions |-> 0],
      throttleDurations  |-> [d \in ThrottleDecisions |-> 0],
      numDurations       |-> [d \in ThrottleDecisions |-> 0],
      numMissedDeadlines |-> [d \in ThrottleDecisions |-> 0] ]

MinOfUncapped(a, b) == a

MinOf(a, b) == IF a < b THEN a ELSE b

RegisterStartRunWithoutCount(s, t) ==
    [s EXCEPT !.lastRunStartTime = t,
              !.startTime        = IF s.startTime = 0 THEN t ELSE @]

RegisterStartRunAlwaysStamp(s, t) ==
    [s EXCEPT !.numStartedRuns   = @ + 1,
              !.lastRunStartTime = t,
              !.startTime        = t]

\* RegisterStartRun at wall time t: the first start is recognised by the
\* (possibly never initialised) start time being zero.
RegisterStartRun(s, t) ==
    [s EXCEPT !.numStartedRuns   = @ + 1,
              !.lastRunStartTime = t,
              !.startTime        = IF s.startTime = 0 THEN t ELSE @]

RegisterSuccessfulRunAlways(s, prev, cur, work, hintTimeout, t) ==
    [s EXCEPT
       !.numSuccessfulRuns  = @ + 1,
       !.numThrottles       = [@ EXCEPT ![cur] = @ + 1],
       !.totalRunDuration   = @ + (t - s.lastRunStartTime),
       !.throttleDurations  =
           [@ EXCEPT ![prev] = @ + MinOf(t - s.lastRunSuccessTime, hintTimeout)],
       !.numDurations       = [@ EXCEPT ![prev] = @ + work.count],
       !.numMissedDeadlines = [@ EXCEPT ![prev] = @ + work.missed],
       !.lastRunSuccessTime = t]

\* RegisterSuccessfulRun(previousThrottleDecision, throttleDecision,
\* workDurationFeatures, config) at wall time t.  The per-previous-decision
\* entries are skipped while mLastRunSuccessTime is zero.
RegisterSuccessfulRun(s, prev, cur, work, hintTimeout, t) ==
    LET first == s.lastRunSuccessTime = 0
    IN [s EXCEPT
          !.numSuccessfulRuns  = @ + 1,
          !.numThrottles       = [@ EXCEPT ![cur] = @ + 1],
          !.totalRunDuration   = @ + (t - s.lastRunStartTime),
          !.throttleDurations  =
              IF first THEN @
              ELSE [@ EXCEPT ![prev] =
                      @ + MinOf(t - s.lastRunSuccessTime, hintTimeout)],
          !.numDurations       =
              IF first THEN @ ELSE [@ EXCEPT ![prev] = @ + work.count],
          !.numMissedDeadlines =
              IF first THEN @ ELSE [@ EXCEPT ![prev] = @ + work.missed],
          !.lastRunSuccessTime = t]

=============================================================================
