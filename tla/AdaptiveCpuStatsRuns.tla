------------------------- MODULE AdaptiveCpuStatsRuns -------------------------
(***************************************************************************)
(* AdaptiveCpuStats as RunMainLoop drives it (AdaptiveCpu.cpp 142-206):   *)
(* each loop iteration that reaches "compute" calls RegisterStartRun; it   *)
(* then either ends early (reader Init fails, no accepted duration, or    *)
(* GetRecentCpuFeatures fails) or chooses a decision, updates             *)
(* previousThrottleDecision and calls RegisterSuccessfulRun with it.  Both *)
(* calls read TimeSource::GetTime, the wall clock, which can be set while *)
(* the loop runs.  The rest of the controller (enable, config, hints) is   *)
(* modelled in AdaptiveCpu; this module keeps the stats in the state, with *)
(* ghosts for what the dumpsys numbers are meant to count.                 *)
(***************************************************************************)
EXTENDS Integers, Functions

CONSTANTS
    ThrottleDecisions,  \* ThrottleDecision values used
    Works,              \* workDurationFeatures of a successful run, as [count, missed]
    HintTimeout,        \* config.hintTimeout
    UninitStats,        \* values of the uninitialised time fields
    WallStart,          \* system_clock when the process starts
    WallJumps,          \* adjustments of the wall clock
    MaxTime,            \* bound on elapsed time
    MaxJumps,           \* bound on wall-clock adjustments
    MaxRuns             \* bound on started runs

NO_THROTTLE == 0

Stats == INSTANCE AdaptiveCpuStats

VARIABLES
    now,           \* elapsed (monotonic) time
    wallOffset,    \* system_clock minus WallStart + now
    jumps,         \* wall-clock adjustments so far
    pc,            \* "idle" between runs, "run" after RegisterStartRun
    prevDecision,  \* previousThrottleDecision
    stats,         \* mAdaptiveCpuStats
    succeeded,     \* ghost: a run has succeeded before
    credited,      \* ghost: durations of the successful runs after the first
    held           \* ghost: holding periods credited to each decision

vars == <<now, wallOffset, jumps, pc, prevDecision, stats, succeeded,
          credited, held>>

\* TimeSource::GetTime.
Wall == WallStart + now + wallOffset

\* DumpToStream's "Running time fraction", as numerator and denominator.
RunningTimeFraction(s, t) ==
    [num |-> s.totalRunDuration, den |-> t - s.startTime]

Init ==
    /\ now = 0 /\ wallOffset = 0 /\ jumps = 0
    /\ pc = "idle"
    /\ prevDecision = NO_THROTTLE
    /\ \E u \in UninitStats : stats = Stats!InitialStats(u)
    /\ succeeded = FALSE
    /\ credited = 0
    /\ held = [d \in ThrottleDecisions |-> 0]

\* ATRACE_BEGIN("compute"); mAdaptiveCpuStats.RegisterStartRun().
StartRun ==
    /\ pc = "idle" /\ stats.numStartedRuns < MaxRuns
    /\ stats' = Stats!RegisterStartRun(stats, Wall)
    /\ pc' = "run"
    /\ UNCHANGED <<now, wallOffset, jumps, prevDecision, succeeded,
                   credited, held>>

\* One of the three `continue`s after RegisterStartRun: no further stats call.
RunAbandoned ==
    /\ pc = "run"
    /\ pc' = "idle"
    /\ UNCHANGED <<now, wallOffset, jumps, prevDecision, stats, succeeded,
                   credited, held>>

\* The model chose d; previousThrottleDecision is set to d when it changed
\* (and already equals it otherwise) before RegisterSuccessfulRun is called
\* with it.
RunSucceeded ==
    /\ pc = "run"
    /\ \E d \in ThrottleDecisions, w \in Works :
          /\ prevDecision' = d
          /\ stats' = Stats!RegisterSuccessfulRun(stats, d, d, w, HintTimeout, Wall)
          /\ credited' = IF succeeded THEN credited + w.count ELSE credited
          /\ held' = IF succeeded THEN [held EXCEPT ![d] = @ + 1] ELSE held
    /\ succeeded' = TRUE
    /\ pc' = "idle"
    /\ UNCHANGED <<now, wallOffset, jumps>>

Tick ==
    /\ now < MaxTime
    /\ now' = now + 1
    /\ UNCHANGED <<wallOffset, jumps, pc, prevDecision, stats, succeeded,
                   credited, held>>

AdjustWallClock ==
    /\ jumps < MaxJumps
    /\ \E j \in WallJumps : wallOffset' = wallOffset + j
    /\ jumps' = jumps + 1
    /\ UNCHANGED <<now, pc, prevDecision, stats, succeeded, credited, held>>

Next ==
    \/ StartRun \/ RunAbandoned \/ RunSucceeded
    \/ Tick \/ AdjustWallClock

Spec == Init /\ [][Next]_vars

-----------------------------------------------------------------------------
(* Properties.                                                             *)

TypeOK ==
    /\ now \in 0..MaxTime /\ jumps \in 0..MaxJumps
    /\ pc \in {"idle", "run"}
    /\ prevDecision \in ThrottleDecisions
    /\ stats.numSuccessfulRuns \in 0..stats.numStartedRuns
    /\ stats.numStartedRuns \in 0..MaxRuns

\* The work-duration rollups ignore the first successful run's work (spec
\* 4.7 and the stats-accounting scenario) and count every later one's: the
\* first run is told by mLastRunSuccessTime still being zero.
WorkCreditedAfterFirstRun ==
    SumFunction(stats.numDurations) = credited

\* Each holding period RegisterSuccessfulRun credits to a decision is
\* between zero and the hint timeout: the min(..., hintTimeout) cap keeps
\* a long gap between runs from inflating the time attributed.
HoldingTimeCapped ==
    \A d \in ThrottleDecisions :
        0 <= stats.throttleDurations[d]
        /\ stats.throttleDurations[d] <= HintTimeout * held[d]

\* The running-time fraction DumpToStream prints lies in [0, 1]: the total
\* of the completed runs' durations is never negative and, once positive,
\* at most the time since the first RegisterStartRun.  (A zero total over
\* no elapsed time prints NaN, which says nothing wrong.)
RunningFractionInRange ==
    stats.numStartedRuns > 0 =>
        LET f == RunningTimeFraction(stats, Wall)
        IN 0 <= f.num /\ (f.num > 0 => f.num <= f.den)

=============================================================================
