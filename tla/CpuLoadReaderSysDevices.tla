----------------------- MODULE CpuLoadReaderSysDevices -----------------------
(***************************************************************************)
(* CpuLoadReaderSysDevices (CpuLoadReaderSysDevices.cpp): an alternative  *)
(* CPU-load reader.  Init lists the idle states of cpu0 and takes a first *)
(* sample; GetRecentCpuLoads takes a sample and reports, per core, the    *)
(* idle time since the previous sample over the total time since then,   *)
(* the idle time capped at the total.                                      *)
(*                                                                         *)
(* A sample is one step: ReadCpuTimes stamps the total time with           *)
(* mTimeSource->GetTime(), which is TimeSource::GetTime, the wall clock    *)
(* (system_clock), and sums for each core the `time` files of the idle    *)
(* states into a local that is never initialised.  The kernel credits a   *)
(* core's idle time to a state's counter when the core leaves idle, so a  *)
(* counter can jump by idle time that began before the previous sample;   *)
(* this is the mismatch the cap is for.  A fraction is kept as the pair   *)
(* numerator / denominator of the division at line 77.                     *)
(***************************************************************************)
EXTENDS Integers, Sequences, Functions

CONSTANTS
    Cores,       \* CPU indices of the model (NUM_CPU_CORES)
    States,      \* idle-state directory names that have a `time` file
    Listing,     \* readdir of /sys/devices/system/cpu/cpu0/cpuidle
    HasTime,     \* the entries of Listing whose directory has a `time` file
    UninitIdle,  \* values an uninitialised microseconds local can hold
    WallJumps,   \* adjustments of the wall clock
    MaxJumps,    \* bound on wall-clock adjustments
    MaxTime      \* bound on the monotonic clock

ASSUME HasTime \subseteq States

VARIABLES
    now,             \* CLOCK_MONOTONIC
    wallOffset,      \* system_clock minus CLOCK_MONOTONIC
    jumps,           \* wall-clock adjustments so far
    counter,         \* the kernel's idle `time` of each core and state
    pending,         \* idle time of each core not yet credited to a state
    pc,              \* "init" until Init succeeds, then "get"
    idleStateNames,  \* mIdleStateNames
    prevTimes,       \* mPreviousCpuTimes
    loads,           \* the last successful output, per core [num, den]
    prevRef,         \* ghost: monotonic time and credited idle at prevTimes
    wallSet          \* ghost: the wall clock was set since prevTimes

vars == <<now, wallOffset, jumps, counter, pending, pc, idleStateNames,
          prevTimes, loads, prevRef, wallSet>>
kernelVars == <<now, wallOffset, jumps, counter, pending>>
readerVars == <<pc, idleStateNames, prevTimes, loads, prevRef>>

Wall == now + wallOffset
NoLoads == [c \in Cores |-> [num |-> 0, den |-> 0]]

\* ReadIdleStateNames (lines 120-144): the names that are not dotfiles and
\* have a `time` file, in listing order.  The emptiness test is on the raw
\* listing, not on the result.
UsableNamesUnfiltered == Listing
UsableNames == SelectSeq(Listing, LAMBDA n : n \in HasTime)
ReadIdleStateNamesFails == Len(Listing) = 0

\* ReadCpuTimes (lines 92-118) with idle-state names `names`: the wall
\* time, and per core the uninitialised local `u[c]` plus the time of every
\* listed state.
CpuTimes(names, u) ==
    [c \in Cores |-> [idle  |-> u[c] + SumFunctionOnSet(counter[c], Range(names)),
                   total |-> Wall]]

\* The idle time the kernel credited to core c, over the usable states.
Credited(c) == SumFunctionOnSet(counter[c], Range(UsableNames))

Init ==
    /\ now = 0 /\ wallOffset = 0 /\ jumps = 0
    /\ counter = [c \in Cores |-> [s \in States |-> 0]]
    /\ pending = [c \in Cores |-> 0]
    /\ pc = "init"
    /\ idleStateNames = <<>>
    \* never read before Init has written them
    /\ prevTimes = [c \in Cores |-> [idle |-> 0, total |-> 0]]
    /\ loads = NoLoads
    /\ prevRef = [mono |-> 0, idle |-> [c \in Cores |-> 0]]
    /\ wallSet = FALSE

ReaderStep == UNCHANGED kernelVars

\* ReadCpuTimes(&mPreviousCpuTimes): all cores, or the cores before the one
\* whose `time` file cannot be opened.
ReadCpuTimesIntoPrevious ==
    /\ \E u \in [Cores -> UninitIdle] :
         \/ /\ prevTimes' = CpuTimes(UsableNames, u) /\ pc' = "get"
            /\ prevRef' = [mono |-> now, idle |-> [c \in Cores |-> Credited(c)]]
            /\ wallSet' = FALSE
         \/ /\ Len(UsableNames) > 0
            /\ \E k \in Cores :
                 prevTimes' = [c \in Cores |-> IF c < k THEN CpuTimes(UsableNames, u)[c]
                                                        ELSE prevTimes[c]]
            /\ UNCHANGED <<pc, prevRef, wallSet>>

\* Init (lines 43-49): the idle-state names are pushed straight into
\* mIdleStateNames, then a sample is written straight into
\* mPreviousCpuTimes.  A state directory that cannot be listed fails Init
\* with the names before it kept; a `time` file that cannot be opened fails
\* the sample after the cores before it were written.
InitSysDevices ==
    /\ pc = "init" /\ ReaderStep
    /\ ~ReadIdleStateNamesFails
    /\ \/ /\ \E k \in 0..(Len(UsableNames) - 1) :
               idleStateNames' = SubSeq(UsableNames, 1, k)
          /\ UNCHANGED <<pc, prevTimes, prevRef, wallSet>>
       \/ /\ idleStateNames' = UsableNames
          /\ ReadCpuTimesIntoPrevious
    /\ UNCHANGED loads

\* The per-core load: idle over total since the previous sample, idle
\* capped at the total (lines 69-77).
LoadUncapped(cur, prev) ==
    [num |-> cur.idle - prev.idle, den |-> cur.total - prev.total]
Load(cur, prev) ==
    LET idle == cur.idle - prev.idle
        total == cur.total - prev.total
    IN [num |-> IF idle > total THEN total ELSE idle, den |-> total]

\* GetRecentCpuLoads (lines 51-82).  CLOCK_MONOTONIC has nanosecond
\* resolution, so two samples are never at the same monotonic time.
GetRecentCpuLoads ==
    /\ pc = "get" /\ ReaderStep
    /\ now > prevRef.mono
    /\ \E u \in [Cores -> UninitIdle] :
         LET cur == CpuTimes(idleStateNames, u)
         IN /\ loads' = [c \in Cores |-> Load(cur[c], prevTimes[c])]
            /\ prevTimes' = cur
    /\ prevRef' = [mono |-> now, idle |-> [c \in Cores |-> Credited(c)]]
    /\ wallSet' = FALSE
    /\ UNCHANGED <<pc, idleStateNames>>

\* A `time` file cannot be opened: the call returns false, nothing kept.
GetRecentCpuLoadsFailed ==
    /\ pc = "get" /\ ReaderStep
    /\ Len(idleStateNames) > 0
    /\ UNCHANGED <<pc, idleStateNames, prevTimes, loads, prevRef, wallSet>>

\* The kernel: a time unit passes, each core idle or busy in it.
Tick ==
    /\ now < MaxTime
    /\ now' = now + 1
    /\ \E idle \in [Cores -> {0, 1}] : pending' = [c \in Cores |-> pending[c] + idle[c]]
    /\ UNCHANGED <<wallOffset, jumps, counter, wallSet>>
    /\ UNCHANGED readerVars

\* A core leaves idle: its idle time is credited to the state it was in.
CreditIdle ==
    /\ \E c \in Cores, s \in States :
         /\ pending[c] > 0
         /\ counter' = [counter EXCEPT ![c][s] = @ + pending[c]]
         /\ pending' = [pending EXCEPT ![c] = 0]
    /\ UNCHANGED <<now, wallOffset, jumps, wallSet>>
    /\ UNCHANGED readerVars

\* The wall clock is set (NTP, user, network time).
AdjustWallClock ==
    /\ jumps < MaxJumps
    /\ jumps' = jumps + 1
    /\ \E j \in WallJumps : wallOffset' = wallOffset + j
    /\ wallSet' = TRUE
    /\ UNCHANGED <<now, counter, pending>>
    /\ UNCHANGED readerVars

Next ==
    \/ InitSysDevices \/ GetRecentCpuLoads \/ GetRecentCpuLoadsFailed
    \/ Tick \/ CreditIdle \/ AdjustWallClock

Spec == Init /\ [][Next]_vars

-----------------------------------------------------------------------------

TypeOK ==
    /\ now \in 0..MaxTime
    /\ pc \in {"init", "get"}
    /\ idleStateNames \in Seq(States)
    /\ counter \in [Cores -> [States -> Nat]]
    /\ loads \in [Cores -> [num : Int, den : Int]]

\* Section 4.5 of the spec: the load of a core is the idle time the kernel
\* credited since the previous sample, capped at the elapsed monotonic time,
\* over that elapsed time.  Both fractions are compared cross-multiplied.
SpecLoad(c) ==
    LET total == now - prevRef.mono
        idle == Credited(c) - prevRef.idle[c]
    IN [num |-> IF idle > total THEN total ELSE idle, den |-> total]

LoadIsSpecLoad(c) ==
    /\ loads'[c].den # 0
    /\ loads'[c].num * SpecLoad(c).den = SpecLoad(c).num * loads'[c].den

\* Every load GetRecentCpuLoads reports is the spec's load: idle time
\* since the previous sample, capped at the monotonic time elapsed, over
\* that time.
LoadsAsSpecified ==
    [][GetRecentCpuLoads => \A c \in Cores : LoadIsSpecLoad(c)]_vars

\* The same, for every sample over an interval in which nobody set the wall
\* clock: GetRecentCpuLoads (with ReadCpuTimes and the cap) then computes
\* the spec's load, late-credited idle time and failed samples included.
SteadyLoadsAsSpecified ==
    [][GetRecentCpuLoads /\ ~wallSet => \A c \in Cores : LoadIsSpecLoad(c)]_vars

\* The idle-state list Init keeps is never empty: the code's own error
\* path ("Found no idle state names", line 140) means to refuse that case.
FoundIdleStates == pc = "get" => idleStateNames # <<>>

=============================================================================
