----------------------- MODULE MCAdaptiveCpuStatsRuns -----------------------
(***************************************************************************)
(* AdaptiveCpuStatsRuns for TLC: two kinds of successful run, and the      *)
(* values the uninitialised time fields may hold.                          *)
(***************************************************************************)
EXTENDS AdaptiveCpuStatsRuns

MCWorks == {[count |-> 1, missed |-> 0], [count |-> 2, missed |-> 1]}

\* Allocation that happened to be zeroed.
MCZeroStats ==
    {[startTime |-> 0, lastRunStartTime |-> 0, lastRunSuccessTime |-> 0,
      totalRunDuration |-> 0]}

\* Allocation holding leftovers: a nonzero last success time and start time.
MCGarbageStats ==
    {[startTime |-> 0, lastRunStartTime |-> 0, lastRunSuccessTime |-> 7,
      totalRunDuration |-> 0],
     [startTime |-> 9, lastRunStartTime |-> 0, lastRunSuccessTime |-> 0,
      totalRunDuration |-> 0]}

\* The wall clock set back.
MCWallJumpsBack == {-2}

=============================================================================
