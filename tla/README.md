# TLA+ models of Adaptive CPU (power-libperfmgr/adaptivecpu)

This directory holds TLA+ models of the Adaptive CPU controller in
`src/power-libperfmgr/adaptivecpu`, and the TLC configurations that check
them. `PROJECT.json` lists the following:

- the components;
- the runs and the properties each run checks;
- the mutants that show each property can fail;
- the map from every TLA+ definition to the source lines it models;
- the findings;
- the hazards.

## 1. The system

Adaptive CPU lowers CPU frequency limits ("throttle" power hints) while the
frames of the foreground app still meet their deadlines.

| Part | Source | State | Operations |
|------|--------|-------|------------|
| Controller | `AdaptiveCpu.cpp/.h` | `mIsEnabled`, `mShouldReloadConfig`, `mLastEnabledHintTime`, `mIsInitialized`, `mConfig`, `mLastThrottleHintTime`, the loop thread, and in the loop `previousThrottleDecision` | `HintReceived` → `StartThread`/`SuspendThread` (power HAL hint thread); `ReportWorkDurations` (binder threads of the apps); `RunMainLoop` (its own thread) |
| Work-duration mailbox | `WorkDurationProcessor.cpp` | vector of batches under a mutex, capped at `kMaxUnprocessedBatches` = 1000 | push (clears everything and fails at the cap); `GetFeatures` swaps out and reduces; `HasWorkDurations` |
| Config | `AdaptiveCpuConfig.cpp` | `mConfig` (iteration sleep, hint timeout, random throttle options, enabled-hint timeout) | `ReadFromSystemProperties`, which writes fields one after another and can fail half-way; `ParseThrottleDecisions`, `FormatThrottleDecisions` |
| Stats | `AdaptiveCpuStats.cpp` | counters, per-decision maps and four time fields that are never initialised | `RegisterStartRun`, `RegisterSuccessfulRun`, `DumpToStream` |
| Kernel reader | `KernelCpuFeatureReader.cpp` | open stats stream, previous sample and its monotonic time | `Init` (open, then `ReadStats`), `GetRecentCpuFeatures` (delta, with regressions clamped) |
| Model | `Model.cpp`, with the loop's `historicalModelInputs` | `ModelInput`, the random engine; in the loop a deque of the last 3 inputs | `Run`: a decision tree, generated and not in the tree, or a random option; `ModelInput::SetCpuFreqiencies` |
| Decisions | `ThrottleDecision.h/.cpp` | enum and decision→hint-name table | none |
| Time | `TimeSource.cpp` | none | `GetTime` uses **system_clock** (wall clock); `GetKernelTime` uses the monotonic clock |
| Load reader (/proc/stat) | `CpuLoadReaderProcStat.cpp` | `mPreviousCpuTimes` (map by CPU id) | `Init`, `GetRecentCpuLoads`, `ReadCpuTimes`, `JiffiesToMs` |
| Load reader (cpuidle) | `CpuLoadReaderSysDevices.cpp` | `mIdleStateNames`, `mPreviousCpuTimes` | `Init`, `GetRecentCpuLoads`, `ReadCpuTimes`, `ReadIdleStateNames` |
| Frequency reader | `CpuFrequencyReader.cpp` | `mCpuPolicyIds`, `mPreviousCpuPolicyFrequencies` | `Init`, `GetRecentCpuPolicyFrequencies`, `ReadCpuPolicyFrequencies`, `ReadCpuPolicyIds` |
| I/O | `RealFilesystem.cpp`, `Device.cpp` | none | file open, property lookup |

**How the parts interact.** The three kinds of thread share the flags of the
controller without a common lock:

- The hint thread writes `mIsEnabled`, `mShouldReloadConfig` and
  `mLastEnabledHintTime`. It does this in three separate statements, and
  never notifies the worker.
- Producers push batches into the mailbox under its mutex. When a push fails,
  they clear `mIsEnabled`. After a push they call `notify_one` without holding
  `mWaitMutex`.
- The worker waits on the condition variable with the predicate
  `mIsEnabled && HasWorkDurations()`. Each iteration it then:
  1. checks the enabled-hint timeout against the wall clock;
  2. reloads the config if asked to;
  3. reduces the batches;
  4. runs the model;
  5. sends `DoHint(name, hintTimeout)` for the new decision when the decision
     changed or half the hint timeout has passed since the last send. When
     the decision changed, it also sends `EndHint` for the old one;
  6. records the stats and sleeps.

The three other readers are not called by the controller, which uses only
`KernelCpuFeatureReader`; nothing in the tree calls them. They are modelled
on their own, each with the kernel files it reads as an environment. The
frequency reader's output is meant for `ModelInput::SetCpuFreqiencies`,
and its module composes the two.

The HintManager is outside this repository. Its behaviour, taken from the
spec, is that a hint sent with a timeout stays in force for that long unless
it is ended.

## 2. Modules

| Module | Models |
|--------|--------|
| `AdaptiveCpuStats` | The stats object as a record. `RegisterStartRun` and `RegisterSuccessfulRun` are operators, applied inside the controller step that calls them. |
| `AdaptiveCpu` | The controller, with the mailbox, config loading, the kernel reader's success or failure, the model's choice, the HintManager's hint expiry and both clocks. |
| `MCAdaptiveCpu` | Model values and records for TLC: batches, property stores, the default config, wall-clock jumps and uninitialised stats. |
| `AdaptiveCpuConfig` | `ReadFromSystemProperties` over a store of the five properties, with `ParseThrottleDecisions` and `FormatThrottleDecisions` as operators, and the spec's section 4.2 as a reference definition. |
| `MCAdaptiveCpuConfig` | The option-string alphabets. |
| `KernelCpuFeatureReader` | The kernel reader's `Init` and `GetRecentCpuFeatures` against growing and regressing `acpu_stats` counters. |
| `CpuLoadReaderSysDevices` | The cpuidle reader against idle time credited late, a settable wall clock and an uninitialised accumulator. |
| `MCCpuLoadReaderSysDevices` | Directory listings for TLC. |
| `CpuLoadReaderProcStat` | The /proc/stat reader against ticking, hot-plugged CPUs and iowait that steps back. |
| `CpuFrequencyReader` | The frequency reader and `ModelInput::SetCpuFreqiencies` against time_in_state counters that grow and can be reset. |
| `MCCpuFrequencyReader` | The policy listing and frequency tables for TLC. |
| `WorkDurationProcessor` | The mailbox with concrete batches (durations and a target): `ReportWorkDurations`, the worker's `HasWorkDurations` wait and `GetFeatures` with its whole reduction; spec 4.3's reduction as a reference definition; the refinement mapping onto `WorkDurationMailbox`. |
| `WorkDurationMailbox` | The abstract mailbox: a bounded list of `[count, missed]` batch summaries, as `AdaptiveCpu` keeps them, with report, overflow clear and take. |
| `MCWorkDurationProcessor` | The scaled durations for TLC. |
| `Model` | `Model::Run` (random override over the config's option list, or the decision tree as a free choice) and the loop's `historicalModelInputs`, composed with the real loader of `AdaptiveCpuConfig`. |
| `MCModel` | Option strings for TLC: valid ones and one that fails after its first token. |
| `AdaptiveCpuStatsRuns` | The stats object as `RunMainLoop` drives it: started, abandoned and successful runs, the wall clock they read, and ghosts for what `DumpToStream`'s numbers are meant to count. |
| `MCAdaptiveCpuStatsRuns` | Batch summaries, zeroed and garbage initial time fields, and a backward wall jump for TLC. |

### How `AdaptiveCpu` corresponds to the code

- **Hint thread** (`hpc`). `HintReceived(true)` is three steps:
  1. `StartThreadEnable` sets `mIsEnabled`;
  2. `StartThreadReload` sets `mShouldReloadConfig`;
  3. `StartThreadTime` sets `mLastEnabledHintTime` to the wall time, and
     starts the loop thread the first time.

  This follows the code, which makes three unsynchronised writes.
  `SuspendThread` clears `mIsEnabled`. `hints` counts enable hints, up to
  `MaxHints`.
- **Producers** (`ppc[p]`). Each producer has four steps:
  1. `ReportWorkDurations` returns early when `mIsEnabled` is false, and
     otherwise picks a batch;
  2. `PushBatch` is the locked push. At the cap it clears the mailbox;
  3. `RejectedPush` clears `mIsEnabled`;
  4. `NotifyWorker` is `notify_one`. It wakes the worker only if the worker
     is already `blocked`.
- **Worker** (`wpc`). Waiting is `wait` → `parking` → `blocked`:
  - `WaitCheck` evaluates the predicate. If the predicate is false, the
    worker is `parking`. It has released nothing yet, so a notification at
    this point is lost.
  - `Park` blocks the worker.
  - `SpuriousWakeup` wakes it without a notification.

  The rest of the loop body is one action per stretch of code between two
  points where another thread can interleave:
  - `EnabledHintTimedOut` and `EnabledHintFresh`;
  - `NoConfigReload`, `ConfigReadFailed`, `ConfigRead`, then `ClearReloadFlag`;
  - `KernelReaderInitFailed`;
  - `ComputeStep`, which covers `RegisterStartRun`, Init, `GetFeatures`,
    the count-0 `continue`, reader failure and the model;
  - `SendHints`, which covers the two hint loops, the `previousThrottleDecision`
    update and `RegisterSuccessfulRun`;
  - `FinishSleep`.
- **Hints**. `hintExpiry[d]` is the monotonic time at which the hints of
  decision `d` lapse: `DoHint` sets it to `now + hintTimeout`, and `EndHint`
  sets it to 0. `lastThrottleHintTime` is the code's member, a wall-clock
  value.
- **Time**. `now` is the monotonic clock, measured in steps of the 20 ms
  floor of the iteration sleep. It advances through `Tick` up to `MaxTime`.
  The wall clock is `now + wallOffset`. `AdjustWallClock` moves it by a
  member of `WallJumps`, at most `MaxJumps` times.
- **Environment**. `SetProperty` changes the system properties. A store is a
  record of the four values and of whether parsing them succeeds.
- **Undefined initial values**. `mLastThrottleHintTime` starts at any member
  of `UninitHintTimes`. The stats time fields start at any member of
  `UninitStats`.
- **Ghost variables**. These only observe the model:
  - `disabled` records why and when `mIsEnabled` was last cleared;
  - `pendingReload` marks a reload that was requested and not yet performed;
  - `attributed` counts the work durations produced while each decision was
    in force.

A batch is abstracted to `[count, missed]`, the number of durations the
filter accepts and the number that missed their deadline. The mailbox's
reduction `Reduce` sums these.

### How the reader and config modules correspond to the code

Each reader module has the same shape. `pc` is "init" until `Init`
succeeds and then "get". There is one action per outcome of each member
function: success, and each early return. The kernel's counters are
environment actions that are bounded by named constants (`MaxTime`,
`MaxResets`, `MaxHotplugs`, `MaxIowaitDips`, `MaxJumps`). uint64
arithmetic is `% CounterModulus` (or `% U64Modulus`), a stand-in for
2^64 that lies above every counter the bounds reach, so a negative
difference wraps to a large value as it does in the code. Loads and
averages are kept as the numerator and denominator of the code's
division, and are compared cross-multiplied. A ghost variable holds the
kernel's state at the previous sample, so the properties can say what a
delta should be without reusing the code's own computation.

- **`KernelCpuFeatureReader`**:
  - Init is split as the code splits it: `OpenStatsFile` or
    `OpenStatsFileFailed`, then `InitStamp`, which writes
    `mPreviousReadTime` before the file is read, then `InitRead` or
    `ReadFailed`.
  - `GetRecentCpuFeatures` is `GetStamp` followed by the delta step.
  - `Delta` is the uint64 difference against the previous sample, which
    `Clamped` raises first.
  - `Regress` resets a core's counters to 0.
  - The ghosts are `real`, `prevReal` and `regressed`.
- **`CpuLoadReaderSysDevices`**:
  - `InitSysDevices` pushes the kept names straight into `mIdleStateNames`,
    so a failure keeps a prefix. It then writes a sample straight into
    `mPreviousCpuTimes`, so a failed sample keeps the cores before the
    failure.
  - `CpuTimes(names, u)` stamps the wall clock, and adds the kernel's
    state times to `u`, a free choice from `UninitIdle` that stands for
    the uninitialised local.
  - `Load` caps idle at the total.
  - On the kernel side, `Tick` accrues idle time that `CreditIdle` later
    credits to a state, and `AdjustWallClock` sets the wall clock.
  - The ghosts are `prevRef` (the monotonic time and credited idle at the
    previous sample) and `wallSet`.
- **`CpuLoadReaderProcStat`**:
  - `CpuTimes` is `ReadCpuTimes`: idle + iowait and the total, both passed
    through `JiffiesToMs`.
  - `GetRecentCpuLoads` walks the CPUs in ascending id order (the
    `std::map`). Its first failing CPU, which is missing from the previous
    times or has idle above total, ends the call after the CPUs before it
    were written to the caller's array. On success the previous times are
    replaced.
  - On the kernel side, `Hotplug` takes a non-boot CPU off the listing or
    puts it back, and `IowaitDip` makes iowait step back.
- **`CpuFrequencyReader`**:
  - `ReadCpuPolicyIds` keeps the `policyN` entries of the listing and sorts
    their ids.
  - `InitReader` reads the policies in order. A policy over the
    500-frequency cap, or a file that fails to open, stops the read after
    the policies before it were written.
  - `GetRecentCpuPolicyFrequencies` pushes one `[policyId, hz]` per policy.
    `Average` is the uint64 weighted sum over the uint64 time sum, with 0
    when the time sum is 0. A policy or frequency missing from the
    previous sample fails the call.
  - A successful call feeds its result to `SetCpuFreqiencies`, the model
    input, which checks the size and the strictly increasing policy ids.
  - `ResetStats` sets one policy's time_in_state back to 0.
- **`AdaptiveCpuConfig`**:
  - `ReadFromSystemProperties` writes the sleep (floored at 20 ms), the
    hint timeout and the percent. It then fails if the percent is above
    100. Otherwise it clears the options and parses into them, and then
    writes the enabled timeout.
  - `ParseThrottleDecisions` is the getline loop (`GetLines`, with the
    `eof` and trailing-comma cases), then `ScanU32`, which is `sscanf %u%n`
    with its leading white space and sign, then the range check. It pushes
    up to the first bad token.
  - `FormatThrottleDecisions` gives the default string.
  - Strings are sequences of one-character strings.
  - `SpecConfig` and `SpecValid` are the spec's grammar, and are used only
    by the property.
- **`AdaptiveCpu`** gains the ghost `configLoaded`, which is FALSE from a
  failed `ReadFromSystemProperties` until the next successful one.

### How `WorkDurationProcessor` corresponds to the code

- `batches` is `mWorkDurationBatches`. A batch is a record of the reported
  durations (up to `MaxBatchLen`) and the target. Durations are in a scaled
  unit where `NormalTarget` (3) stands for `kNormalTargetDuration`, so
  `kMaxDuration` is 1800.
- `ReportWorkDurations(b)` is the whole locked body: a list holding
  `MaxUnprocessedBatches` is cleared and the call fails; otherwise the batch
  is appended.
- `HasWorkDurations` is the worker's wait predicate returning true; the
  worker (`wpc`) then goes on to `GetFeatures` in a later step, so reports
  can run in between, exactly as between the controller's wait and its
  `GetFeatures` call.
- `GetFeatures` swaps the list out (one step, as the swap is the only
  access under the mutex) and reduces the copy. `Reduction` is the two
  nested loops as `RECURSIVE` operators: `Rejected` is
  `duration < kMinDuration || duration > kMaxDuration`, `Normalized` the
  integer `d * kNormalTargetDuration / target`, and `AddDuration` the
  sum, `std::max`, the missed test against the batch's own target and the
  count. `FeaturesOf` is the final division; for a count of 0 the result
  is any member of `DivByZeroResults`, because the division by zero is
  undefined (the run uses {0}, what arm64's `sdiv` gives and what the
  `GetFeatures_noFrames` test expects).
- `SpecFeatures` is spec 4.3's reduction written from the spec: the
  accepted entries of the flattened batches (`0 < d <= kMaxDuration`),
  their normalised values, and the zero record when none is accepted.
- `Mailbox == INSTANCE WorkDurationMailbox WITH ...` maps each batch to
  `Summary(b)`, its count of accepted and of missed durations, and the
  returned features to their count and missed count. `MailboxSpec` is the
  abstract `Spec`, checked as a property: the processor implements the
  `[count, missed]` mailbox that `AdaptiveCpu` assumes when it keeps only
  those two numbers of a batch.

### How `Model` corresponds to the code

- `store`, `output` and `lastLoad` are those of `AdaptiveCpuConfig`, which
  is instantiated (`Config == INSTANCE AdaptiveCpuConfig`). `output` is
  `mConfig`, and `SetProperty` and `ReadFromSystemProperties` are the
  loader's own actions.
- `StartThread` sets `mIsEnabled` and `mShouldReloadConfig` in one step.
  Their interleaving with the worker is checked in `AdaptiveCpu`.
  `SuspendThread` is the disable hint and every `mIsEnabled = false;
  continue;` after the reload.
- `Reload` is lines 132-139: a failed load disables the controller and
  leaves the flag set, and a successful one clears it.
- `Step` is a loop iteration that reaches the model (lines 153-202).
  - It pushes a `ModelInput` of the step's work and
    `previousThrottleDecision` with `PushInput` (`push_back`, then
    `pop_front` above `kNumHistoricalModelInputs`).
  - It draws from `RunOutcomes(mConfig)`: the random override when the
    percent is positive, the tree when it is under 100.
  - It sets `previousThrottleDecision` when the decision changed.
- `RandomOptions` is the `uniform_int_distribution` over the option list.
  An empty list makes `size() - 1` wrap, and the element read is
  undefined (`UndefinedDecision`).
- The ghosts `inputs`, `decisions` and `loadedOptions` record every input,
  every decision, and spec 4.2's option list for the store at the last
  successful load.

### How `AdaptiveCpuStatsRuns` corresponds to the code

- `stats` is `mAdaptiveCpuStats`; its time fields have no initialiser
  (`AdaptiveCpuStats.h`), so `Init` takes them from `UninitStats`. The
  passing run uses zeros, the `_Uninit` cfg leftover values.
- `StartRun` is `RegisterStartRun` at the top of the compute step. `Wall`
  is `TimeSource::GetTime`, the system clock, which `AdjustWallClock` sets;
  `Tick` advances elapsed time.
- `RunAbandoned` is one of the three `continue`s that follow (reader
  `Init` failed, no accepted duration, `GetRecentCpuFeatures` failed): the
  run was started and is never registered as successful.
- `RunSucceeded` chooses a decision and a batch summary, sets
  `previousThrottleDecision` and calls `RegisterSuccessfulRun` with it as
  both previous and current decision, as lines 201 and 205 do.
- The ghosts `succeeded`, `credited` and `held` count what spec 4.7 says
  the numbers mean: the work of every successful run but the first, and
  the holding periods credited to each decision.

## 3. Runs

| Run | cfg | Expect | Shows |
|-----|-----|--------|-------|
| controller_safety | `MCAdaptiveCpu.cfg` | pass | `TypeOK`; `SingleClampLevel` (at most one decision's hints are active, and that decision is `previousThrottleDecision`); `ThrottleInForce` (when a step ends, the decision it chose is in force at the HintManager); `ComputeUsesLoadedConfig` (after a failed reload the worker never reaches the compute step, which in the code would draw from the emptied option list); `ClampHeldWhileSleeping` (while the worker sleeps after a throttling step, the clamp it left stays active). The run covers all interleavings of the hint thread, one producer and the worker, including config failures, overflow and forward wall-clock jumps. |
| enable_hint_race | `MCAdaptiveCpu_EnableRace.cfg` | violation | `EnableHonoured`: a fresh enable hint is undone by the timeout check, which sees the new flag with the old time. The property also rejects an overflow-disable whose push was rejected before the hint; this cfg keeps the mailbox from overflowing so that the trace is the timeout race. |
| reload_request_lost | `MCAdaptiveCpu_ReloadLost.cfg` | violation | `ReloadRequestNotLost`: the flag is cleared after the properties were read, which erases a concurrent request. |
| lost_wakeup | `MCAdaptiveCpu_LostWakeup.cfg` | violation | `WorkConsumed`: the notification is lost between predicate and block, so the worker blocks with work queued. |
| kernel_reader_deltas | `KernelCpuFeatureReader.cfg` | pass | `TypeOK` (also: the stream is read only once it was opened); `DeltasFaithful`: each delta equals what the core really accumulated between the two samples, and is at most that when the counter regressed in between. |
| sysdevices_loads | `MCCpuLoadReaderSysDevices.cfg` | pass | `TypeOK`; `SteadyLoadsAsSpecified`: over an interval in which nobody set the wall clock, each load is the credited idle time, capped at the elapsed monotonic time, over that time. This holds with a zero accumulator. |
| procstat_loads | `CpuLoadReaderProcStat.cfg` | pass | `TypeOK` (also: a sample never has more idle than total time); `LoadsMatchKernel`: a successful call reports each listed CPU's idle+iowait share of the jiffies since the last success. |
| frequency_reader | `MCCpuFrequencyReader.cfg` | pass | `TypeOK` (also: every average is a uint64); `AverageAsSpecified`: for a policy not reset since the last success, the average is the time-weighted frequency of the time spent since then; `ModelAcceptsFrequencies`: `SetCpuFreqiencies` accepts every successful result and copies it in. |
| config_loader | `MCAdaptiveCpuConfig.cfg` | pass | `TypeOK` (also: the sleep is at least 20 ms and the options are decisions); `LoadAsSpecified`: a load succeeds exactly when the store is valid by spec 4.2, and then gives the spec's config, whatever the config held before. |
| work_duration_processor | `MCWorkDurationProcessor.cfg` | pass | `TypeOK` (also: missed never exceeds the count); `FeaturesAsSpecified`: every `GetFeatures` returns spec 4.3's features of the batches it swapped out, the zero record when none is accepted; `MailboxSpec`: the refinement onto `WorkDurationMailbox`. All orders of reports, overflow clears, the wait and `GetFeatures` are covered. |
| model_run | `MCModel.cfg` | pass | `TypeOK`; `HistoryAsSpecified`: the history given to `Model::Run` is the last three inputs that reached the model, most recent last, each carrying the previous step's decision; `RandomFromLoadedOptions`: a random override returns an option of the store as spec 4.2 reads it at the last successful load, even after a load that fails after clearing or partly parsing the list. |
| stats_runs | `MCAdaptiveCpuStatsRuns.cfg` | pass | `TypeOK`; `WorkCreditedAfterFirstRun`: the per-decision duration counts sum to the work of every successful run but the first; `HoldingTimeCapped`: each decision is credited between 0 and a hint timeout per run; `RunningFractionInRange`: the running-time fraction lies in [0, 1]. All orders of started, abandoned and successful runs, ticks and a forward wall jump are covered. |

**Further configurations.** These cfgs are kept beside the runs. Each one
narrows the constants of a passing run so that one property fails, and
TLC finds a violation under each. The runs listed above each ask a
question of their own; these reproduce further disagreements, and the
hazards in `PROJECT.json` point to them.

| Name | cfg | Expect | Shows |
|-----|-----|--------|-------|
| features_zero_division | `MCAdaptiveCpu_ZeroDivision.cfg` | violation | `FeaturesDefined`: `GetFeatures` divides by a count of 0. |
| stats_attribution | `MCAdaptiveCpu_StatsAttribution.cfg` | violation | `StatsAttribution`: durations are credited to the new decision. |
| hint_timeout_raised | `MCAdaptiveCpu_RaisedHintTimeout.cfg` | violation | `ThrottleInForce`: after a reload raises `hint_timeout`, the resend test uses the new value and the clamp lapses. |
| sysdevices_wall_clock | `MCCpuLoadReaderSysDevices_WallClock.cfg` | violation | `LoadsAsSpecified`: a wall-clock jump between samples gives the wrong denominator. |
| sysdevices_uninit_idle | `MCCpuLoadReaderSysDevices_UninitIdle.cfg` | violation | `LoadsAsSpecified`: the uninitialised idle local enters the load. |
| sysdevices_no_idle_states | `MCCpuLoadReaderSysDevices_NoIdleStates.cfg` | violation | `FoundIdleStates`: a listing of only `.` and `..` passes the emptiness test. |
| procstat_zero_interval | `CpuLoadReaderProcStat_ZeroInterval.cfg` | violation | `LoadsAreFractions`: two samples with no jiffy between give 0/0. |
| frequency_reset | `MCCpuFrequencyReader_Reset.cfg` | violation | `AverageInRange`: after a time_in_state reset the average is no frequency of the policy. |
| config_default_options | `MCAdaptiveCpuConfig_DefaultOptions.cfg` | violation | `DefaultOptionsAsSpecified`: the code's default options include THROTTLE_50. |
| config_loose_options | `MCAdaptiveCpuConfig_Loose.cfg` | violation | `LoadAsSpecified`: `sscanf %u` accepts `" 5"` and `"+5"`, which spec 4.2 refuses. |
| long_sleep | `MCAdaptiveCpu_LongSleep.cfg` | violation | `ClampHeldWhileSleeping`: a setprop lengthens the sleep to 2 with a hint timeout of 2; the step right after a send does not resend, and the clamp times out mid-sleep. |
| wall_clock_back | `MCAdaptiveCpu_WallClockBack.cfg` | violation | `ThrottleInForce`: setting the wall clock back suppresses the resend. |
| stats_uninit | `MCAdaptiveCpuStatsRuns_Uninit.cfg` | violation | `WorkCreditedAfterFirstRun`: a leftover `mLastRunSuccessTime` hides the first run, whose work is credited. |
| stats_wall_clock_back | `MCAdaptiveCpuStatsRuns_WallClockBack.cfg` | violation | `RunningFractionInRange`: the clock set back by 2 during a run makes `mTotalRunDuration` -2. |
| procstat_hotplug | `CpuLoadReaderProcStat_Hotplug.cfg` | violation | `ReaderRecovers`: after a CPU comes back online, every call fails forever. |
| overflow_race | `MCAdaptiveCpu_OverflowRace.cfg` | violation | `EnableHonoured`: a push rejected before a second enable hint clears `mIsEnabled` after the hint completed. The enabled-hint timeout (50) outlasts the run, so the timeout race cannot be the cause. |
| zero_duration | `MCWorkDurationProcessor_ZeroDuration.cfg` | violation | `FeaturesAsSpecified`: a zero duration passes the `d < kMinDuration` filter and is counted; spec 4.3 rejects `d <= 0`. |

**Bounds of the passing run** (1 unit is 20 ms):

- Decisions are {NO_THROTTLE, 2, 3}. Two hinted decisions are needed for a
  change between clamps.
- There is one producer. With one worker and one producer, the lost-wakeup
  window is already present.
- `MaxUnprocessedBatches` is 1, so the overflow path is reached.
- A batch is either count 1 or count 0.
- There are two property stores, one valid and one failing. The valid store
  sets sleep to 1, hint timeout to 2 and enabled timeout to 4. The default
  config sets sleep to 2, hint timeout to 4 and enabled timeout to 50.
- `MaxTime` is 5, with at most 2 enable hints and 3 reports, and one forward
  wall jump of 2.
- `mLastThrottleHintTime` starts at 0 or 5.

These bounds reach the cases the following need: a resend at half the
timeout (a timeout of 2 or 4 within 5 units), a decision change, the
enabled-hint timeout (4 within 5), a config reload and failure, and
overflow.

A `VIEW` leaves out the stats and the ghost variables, which no property of
this run reads. The run takes about 60-140 s and reaches about 3.2 million
distinct states.

Each violation cfg narrows the constants to the ones its trace needs.

**Bounds of the other passing runs.**

- **kernel_reader_deltas.** 2 cores, one of them a policy core, and
  frequency rates {1, 2}. `MaxTime` is 3 and `MaxResets` is 1. These
  bounds reach a regression between two samples, a regression before
  Init, and a failed read between two samples. The run has about
  1.3 million states and takes about 20 s.
- **sysdevices_loads.** 2 cores, and a listing of `.`, `..` and two
  states. Idle time is credited late, so the cap is reached. `MaxTime`
  is 3. The wall clock is set once, by -1 or +2, and the accumulator
  starts at 0. `LoadsAsSpecified`, which judges every interval, fails once
  the clock is set (the `_WallClock` cfg) or the accumulator holds garbage
  (the `_UninitIdle` cfg). The run has about 166,000 states.
- **procstat_loads.** 2 CPUs with `USER_HZ` = 100. `MaxTime` is 3, with
  2 hotplugs and 1 iowait dip, so a dip makes the uint64 idle wrap and
  fail the call. The run has about 280,000 states and takes about 45 s.
- **frequency_reader.** The listing is `policy4`, `schedutil`, `policy0`,
  `policy6`, which is unsorted and has a non-policy entry. There are 3
  policies, with tables {1,3}, {2,5} and {4}, and `MaxTime` is 3.
  `MaxResets` is 1, so the resets the property excludes do happen, and
  `AverageSigned` is reachable. The cap is 500, above every table, so
  the cap path is not taken. The run has about 16,000 states.
- **work_duration_processor.** Durations {-1, 3, 9, 1801} with targets
  {3, 6}: a negative and an over-long duration (both rejected), one on the
  target and one missing it; target 6 halves them and truncates 9 to 4, so
  an unnormalised max or a missed test against the normalised value shows.
  Up to 2 durations per report and a cap of 2 batches, so the overflow
  clear happens, also between the wait and `GetFeatures`. The run has
  about 184,000 states and takes about 1.5 min, most of it checking the
  refinement on every step.
- **stats_runs.** Decisions {NO_THROTTLE, 2, 3}, two batch summaries
  (counts 1 and 2), a hint timeout of 2, `MaxTime` 5, up to 4 started
  runs and one forward wall jump of 2. The wall clock starts at 1, as the
  real system clock is never 0, so the first run is told by the zero
  `mLastRunSuccessTime`. Gaps between runs longer than the hint timeout
  happen, so the `min` cap is used. The model stops when the bounds run
  out, hence `CHECK_DEADLOCK FALSE`. The run has about 3 million states and
  takes about 30 s.
- **model_run.** The option strings are `3` and `4,9`. The second fails
  after pushing 4, so the partial list `<<4>>` differs from `3`, the last
  successful list. The percent is unset (0: tree only) or 50 (both
  branches). With the options unset, the default list of all six
  decisions is drawn from. There are 4 steps, one more than the history
  holds. The tree returns NO_THROTTLE, so a changed previous decision
  comes from a random override. Work is a single value, because the order
  of the inputs shows through their previous decisions. Each of the
  module's three mutants is caught under these bounds. The run has about 260,000 states and takes about 40 s.
- **config_loader.** The option strings are every non-empty string of up
  to 3 characters over {`0`, `5`, `,`}, so they cover empty tokens, a
  trailing comma, multi-digit tokens (`50`, `55`) and a value out of
  range. The other properties are each unset or set to one value: a
  sleep of 10 (below the floor) and a percent of 101 (above 100). The run
  reaches every previous config, so a parse that did not start from an
  empty list would show. It has about 93,000 states and takes about
  1.5 min.

In the three other reader models, time is bounded, and once the bound is
reached the model can stop: Init can no longer be retried, or no call is
left. The caller may also really stop calling. These cfgs therefore set
`CHECK_DEADLOCK FALSE`. The `frequency_reader` and `config_loader` runs
keep the deadlock check, because a call or a `setprop` is always possible
in those models.

The mutants are listed in `PROJECT.json`:

- resending at the full timeout, instead of half of it, breaks
  `ThrottleInForce`;
- dropping the `EndHint` loop breaks `SingleClampLevel`;
- a push cap check that is off by one breaks `TypeOK`;
- a failed reload that does not return breaks `ComputeUsesLoadedConfig`;
- an unclamped delta breaks `DeltasFaithful`, and a missing early return
  after `OpenStatsFile` fails breaks the reader's `TypeOK`;
- an uncapped load breaks `LoadsAsSpecified`, and keeping every listing
  entry breaks the cpuidle reader's `TypeOK`;
- idle without iowait breaks `LoadsMatchKernel`, and a total without idle
  breaks the /proc/stat reader's `TypeOK`;
- averaging the cumulative times breaks `AverageAsSpecified`, and signed
  arithmetic breaks the frequency reader's `TypeOK`;
- a policy-id check seeded with 0 breaks `ModelAcceptsFrequencies`;
- not clearing the options before parsing breaks `LoadAsSpecified`, and
  dropping the 20 ms floor breaks the config's `TypeOK`;
- swapping the sleep and hint-timeout fields of the loaded config breaks
  `ClampHeldWhileSleeping` (a sleep above the hint timeout);
- a report cap check that is off by one breaks the processor's `TypeOK`;
  an unnormalised max breaks `FeaturesAsSpecified`; a `GetFeatures` that
  copies the list instead of swapping it breaks `MailboxSpec`;
- a push without the `pop_front` breaks the model's `TypeOK`, a pop at
  3 instead of above it breaks `HistoryAsSpecified`, and a reload whose
  failure neither disables nor keeps the flag breaks
  `RandomFromLoadedOptions`;
- a `RegisterStartRun` that does not count breaks the stats' `TypeOK`, one
  that always restamps `mStartTime` breaks `RunningFractionInRange`; a
  `RegisterSuccessfulRun` without the first-run check breaks
  `WorkCreditedAfterFirstRun`; a `min` that ignores the hint timeout
  breaks `HoldingTimeCapped`.

## 4. Fairness

- **The worker** (`WF(WorkerStep)`) is a dedicated thread that never stops
  on its own. The blocked state has no enabled worker step, so fairness
  cannot wake it. `SpuriousWakeup` is deliberately not fair, because the
  standard does not guarantee spurious wakeups.
- **The hint thread** is fair on the rest of `StartThread` once it has
  begun.
- **Each producer** is fair on completing a report it began.
- **Time** is fair, so it advances.

Nothing forces new hints or new reports, because they come from outside.
`WorkConsumed` is checked under exactly this fairness.

`CpuLoadReaderProcStat` assumes weak fairness on the reader's own calls
(`InitProcStat \/ GetRecentCpuLoads`). A caller that keeps sampling is the
only use that makes a reader worth having, and `ReaderRecovers` asks what
happens under it. It is checked in the further configuration
`CpuLoadReaderProcStat_Hotplug.cfg`, where it is violated. `ProcStatUnreadable` (/proc/stat that cannot be opened)
and the kernel's steps are not fair. The other reader modules and the
config module check only safety, and assume no fairness.

## 5. What is not modelled, and why

- **Formatting.** `DumpToFd`, `DumpToStream`, `ThrottleString` and the
  `operator<<` functions only format text.
- **The decision tree.** `RunDecisionTree` is generated
  (`models/model.inc`) and is not in the repository, so its decision is a
  free choice. The random override and the history are modelled in
  `Model`; in `AdaptiveCpu` the whole of `Model::Run` is a free choice.
- **The alternative readers in the controller.** `CpuLoadReaderProcStat`,
  `CpuLoadReaderSysDevices` and `CpuFrequencyReader` are not used by the
  controller, so they have modules of their own and are not composed with
  `AdaptiveCpu`.
- **`sscanf %u` overflow.** A token of 2^32 or more wraps (`4294967297`
  loads as THROTTLE_50). TLC's integers are 32-bit signed, so the model's
  tokens stay below 2^32. A negative token is kept as `-v`, which like
  2^32 - v is above `LAST`.
- **The 500-frequency cap** of `ReadCpuPolicyFrequencies` is modelled, but
  the tables of the passing run are far below it.
- **`GetPreviousCpuPolicyFrequencies`** and the `DumpToStream` functions
  only read state. Its integer division by `mNumSuccessfulRuns`, zero
  before the first successful run, and its uninitialised
  `totalThrottleDuration` only affect the printed text.
- **The `nullptr` output checks** of the load readers. Every caller passes
  an array.
- **I/O.** `RealFilesystem` and `Device` are I/O. Their failures appear as
  the reader's failure.
- **Kernel reader data.** In the controller, the kernel reader's data is
  abstracted to success or failure.
- **The width of the duration arithmetic.** `GetFeatures` computes in
  int64 nanoseconds. The model scales `kNormalTargetDuration` down to 3,
  because TLC's integers are 32-bit, so the overflow of `durationsSum` that
  a very small target could cause is not reachable. Targets are positive:
  the caller that supplies them (the hint session) is outside `src/`, and
  spec 2 requires `target_ns > 0`.

## 6. Plan

1. An abstract "throttle clamp" specification (the active clamp is the last
   decision while it is fresh), and `AdaptiveCpu` shown to implement it with
   `INSTANCE ... WITH` under the passing bounds.
2. A liveness property of the controller that holds. Every model here
   bounds time (`MaxTime`) or the number of steps, and a behaviour that
   has used its bound stutters. "Eventually" then holds or fails by where
   the bound falls, not by what the code does. A liveness property needs a
   model in which time is abstracted to "the timeout has passed" or not,
   with no counter.
3. `AdaptiveCpu` on top of `WorkDurationMailbox` itself, so the refinement
   checked here is used directly by the controller model.
4. `Model` composed into `AdaptiveCpu`, so that the history and the random
   override are checked against the hint thread's real interleavings. Today
   the composition is only with the config loader.
