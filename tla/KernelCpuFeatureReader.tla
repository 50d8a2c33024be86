------------------------ MODULE KernelCpuFeatureReader ------------------------
(***************************************************************************)
(* KernelCpuFeatureReader (KernelCpuFeatureReader.cpp): the reader the     *)
(* controller uses for CPU features.  The kernel exposes, per core, two    *)
(* cumulative counters (acpu_stats: weighted_sum_freq, total_idle_time_ns) *)
(* that in principle only grow.  The reader keeps the previous sample and  *)
(* the monotonic time it was stamped with, and reports per-policy and      *)
(* per-core deltas.  A regressed counter is clamped: the previous sample   *)
(* is raised to the new one, so the delta is 0.                            *)
(*                                                                         *)
(* The caller is the controller's loop: Init until it succeeds, then one   *)
(* GetRecentCpuFeatures per iteration, any time apart.  ReadStats stamps   *)
(* the time before it reads the file, so the kernel can move between the  *)
(* two; the stamp and the read are separate steps.  A delta is kept as the *)
(* numerator of the division; `dt` is its denominator.                     *)
(***************************************************************************)
EXTENDS Integers

CONSTANTS
    Cores,           \* the CPU indices of the model (NUM_CPU_CORES)
    PolicyIndices,   \* CPU_POLICY_INDICES: the core read for each policy
    FreqRates,       \* weighted_sum_freq a core gains in one time unit
    CounterModulus,  \* 2^64 of uint64_t, scaled: above every counter reached
    MaxTime,         \* bound on the monotonic clock
    MaxResets        \* bound on kernel counter regressions

ASSUME PolicyIndices \subseteq Cores

VARIABLES
    now,            \* CLOCK_MONOTONIC, read by TimeSource::GetKernelTime
    acpu,           \* the kernel's acpu_stats of each core
    real,           \* ghost: what each core really accumulated, never reset
    resets,         \* regressions so far
    pc,             \* where the caller is in Init / GetRecentCpuFeatures
    isInitialized,  \* the controller's mIsInitialized
    fileOpen,       \* mStatsFile holds an open stream
    prevStats,      \* mPreviousStats
    prevReadTime,   \* mPreviousReadTime
    readTime,       \* GetRecentCpuFeatures' local readTime
    features,       \* the last successful output
    prevReal,       \* ghost: `real` when mPreviousStats was read
    regressed       \* ghost: cores whose counters regressed since then

vars == <<now, acpu, real, resets, pc, isInitialized, fileOpen, prevStats,
          prevReadTime, readTime, features, prevReal, regressed>>
kernelVars == <<now, acpu, real, resets>>

Fields == {"freq", "idle"}
Zero == [c \in Cores |-> [f \in Fields |-> 0]]
NoFeatures == [dt |-> 0, freq |-> [p \in PolicyIndices |-> 0],
               idle |-> [c \in Cores |-> 0], window |-> Zero, regressed |-> {}]

\* uint64_t subtraction.
U64Sub(a, b) == (a - b) % CounterModulus

\* Lines 60-65 and 72-77: a counter below the previous sample raises the
\* previous sample to it.
Clamped(prev, new) == IF new < prev THEN new ELSE prev

\* The delta the reader reports for field f of core c against sample `old`.
DeltaUnclamped(old, c, f) == U64Sub(acpu[c][f], old[c][f])
Delta(old, c, f) == U64Sub(acpu[c][f], Clamped(old[c][f], acpu[c][f]))

Init ==
    /\ now = 0
    /\ acpu = Zero
    /\ real = Zero
    /\ resets = 0
    /\ pc = "idle"
    /\ isInitialized = FALSE
    /\ fileOpen = FALSE
    \* never read before Init has overwritten them
    /\ prevStats = Zero
    /\ prevReadTime = 0
    /\ readTime = 0
    /\ features = NoFeatures
    /\ prevReal = Zero
    /\ regressed = {}

ReaderOnly(from, to) ==
    /\ pc = from /\ pc' = to
    /\ UNCHANGED kernelVars

\* Init: OpenStatsFile (fails: Init returns false).
OpenStatsFileFailedNoReturn ==
    /\ ~isInitialized
    /\ ReaderOnly("idle", "initStamp")
    /\ UNCHANGED <<isInitialized, fileOpen, prevStats, prevReadTime, readTime,
                   features, prevReal, regressed>>

OpenStatsFile ==
    /\ ~isInitialized
    /\ ReaderOnly("idle", "initStamp")
    /\ fileOpen' = TRUE
    /\ UNCHANGED <<isInitialized, prevStats, prevReadTime, readTime, features,
                   prevReal, regressed>>

OpenStatsFileFailed ==
    /\ ~isInitialized
    /\ ReaderOnly("idle", "idle")
    /\ UNCHANGED <<isInitialized, fileOpen, prevStats, prevReadTime, readTime,
                   features, prevReal, regressed>>

\* ReadStats(&mPreviousStats, &mPreviousReadTime): the time is written to the
\* member before the file is read.
InitStamp ==
    /\ ReaderOnly("initStamp", "initRead")
    /\ prevReadTime' = now
    /\ UNCHANGED <<isInitialized, fileOpen, prevStats, readTime, features,
                   prevReal, regressed>>

InitRead ==
    /\ ReaderOnly("initRead", "idle")
    /\ prevStats' = acpu
    /\ prevReal' = real
    /\ regressed' = {}
    /\ isInitialized' = TRUE
    /\ UNCHANGED <<fileOpen, prevReadTime, readTime, features>>

\* ResetFileStream fails, or a short read: the call returns false; Init
\* has already overwritten mPreviousReadTime.  (readTime is a local.)
ReadFailed(from) ==
    /\ ReaderOnly(from, "idle")
    /\ readTime' = 0
    /\ UNCHANGED <<isInitialized, fileOpen, prevStats, prevReadTime,
                   features, prevReal, regressed>>

\* GetRecentCpuFeatures: ReadStats(&stats, &readTime).  CLOCK_MONOTONIC has
\* nanosecond resolution, so a later stamp is a larger one.
GetStamp ==
    /\ isInitialized
    /\ now > prevReadTime
    /\ ReaderOnly("idle", "getRead")
    /\ readTime' = now
    /\ UNCHANGED <<isInitialized, fileOpen, prevStats, prevReadTime, features,
                   prevReal, regressed>>

\* Lines 54-86: the deltas against the clamped previous sample, then the
\* new sample and its time become the previous ones.
GetRecentCpuFeatures ==
    /\ ReaderOnly("getRead", "idle")
    /\ features' =
         [dt        |-> readTime - prevReadTime,
          freq      |-> [p \in PolicyIndices |-> Delta(prevStats, p, "freq")],
          idle      |-> [c \in Cores |-> Delta(prevStats, c, "idle")],
          window    |-> [c \in Cores |-> [f \in Fields |->
                                            real[c][f] - prevReal[c][f]]],
          regressed |-> regressed]
    /\ prevStats' = acpu
    /\ prevReadTime' = readTime
    /\ prevReal' = real
    /\ regressed' = {}
    /\ readTime' = 0
    /\ UNCHANGED <<isInitialized, fileOpen>>

\* The kernel: one time unit passes; each core is idle or not and gains
\* weighted frequency.
Tick ==
    /\ now < MaxTime
    /\ now' = now + 1
    /\ \E inc \in [Cores -> [idle : {0, 1}, freq : FreqRates]] :
         /\ acpu' = [c \in Cores |-> [f \in Fields |-> acpu[c][f] + inc[c][f]]]
         /\ real' = [c \in Cores |-> [f \in Fields |-> real[c][f] + inc[c][f]]]
    /\ UNCHANGED <<resets, pc, isInitialized, fileOpen, prevStats,
                   prevReadTime, readTime, features, prevReal, regressed>>

\* The kernel's counters of a core start again from zero.
Regress ==
    /\ resets < MaxResets
    /\ resets' = resets + 1
    /\ \E c \in Cores :
         /\ acpu' = [acpu EXCEPT ![c] = [f \in Fields |-> 0]]
         /\ regressed' = regressed \cup {c}
    /\ UNCHANGED <<now, real, pc, isInitialized, fileOpen, prevStats,
                   prevReadTime, readTime, features, prevReal>>

Next ==
    \/ OpenStatsFile \/ OpenStatsFileFailed
    \/ InitStamp \/ InitRead \/ ReadFailed("initRead")
    \/ GetStamp \/ GetRecentCpuFeatures \/ ReadFailed("getRead")
    \/ Tick \/ Regress

Spec == Init /\ [][Next]_vars

-----------------------------------------------------------------------------

TypeOK ==
    /\ now \in 0..MaxTime
    /\ pc \in {"idle", "initStamp", "initRead", "getRead"}
    /\ acpu \in [Cores -> [Fields -> Nat]]
    /\ prevStats \in [Cores -> [Fields -> Nat]]
    /\ regressed \subseteq Cores
    /\ features.dt \in Nat
    \* the stream is read only once it was opened
    /\ (isInitialized \/ pc \in {"initStamp", "initRead"}) => fileOpen

\* The reported deltas never exceed what the cores really did between the
\* two samples (no uint64 wrap-around from a regressed counter: lines
\* 60-65, 72-77), and are exactly that while no counter of the core
\* regressed in between.
DeltasFaithful ==
    \A c \in Cores :
      LET w == features.window[c]
          ok(d, f) == IF c \in features.regressed THEN d <= w[f] ELSE d = w[f]
      IN /\ ok(features.idle[c], "idle")
         /\ c \in PolicyIndices => ok(features.freq[c], "freq")

=============================================================================
