----------------------------- MODULE AdaptiveCpu -----------------------------
(***************************************************************************)
(* The Adaptive CPU controller (AdaptiveCpu.cpp) and the parts of the     *)
(* system it shares state with:                                            *)
(*   - the hint thread calling HintReceived(enable);                       *)
(*   - producer threads calling ReportWorkDurations, which push into the   *)
(*     WorkDurationProcessor mailbox and notify the worker;                *)
(*   - the worker thread running RunMainLoop;                              *)
(*   - the HintManager, which keeps each DoHint active until its timeout   *)
(*     (by the monotonic clock) or an EndHint;                             *)
(*   - the system property store read by AdaptiveCpuConfig, and the clocks.*)
(*                                                                         *)
(* Each thread has a program counter; a label is a point in the code at   *)
(* which another thread may run.  Data is abstracted: a work-duration     *)
(* batch is its reduced count of accepted and missed durations, the model  *)
(* (decision tree or random override) is a free choice of decision, and   *)
(* the CPU readers only succeed or fail.  The three hint names of one      *)
(* ThrottleDecision are always sent and ended together by the same loop,  *)
(* so the HintManager state is kept per decision.                         *)
(***************************************************************************)
EXTENDS Integers, Sequences, FiniteSets

CONSTANTS
    ThrottleDecisions,      \* ThrottleDecision values used (0 = NO_THROTTLE)
    Producers,              \* threads calling ReportWorkDurations
    Batches,                \* reported batches, as [count, missed] after filtering
    MaxUnprocessedBatches,  \* kMaxUnprocessedBatches (1000 in the code)
    StoreValues,            \* contents the property store may hold
    DefaultConfig,          \* AdaptiveCpuConfig::DEFAULT
    IterationSleepMin,      \* kIterationSleepDurationMin
    UninitHintTimes,        \* values the uninitialised mLastThrottleHintTime may hold
    UninitStats,            \* values of AdaptiveCpuStats' uninitialised time fields
    WallJumps,              \* adjustments of the wall clock (system_clock)
    MaxTime,                \* bound on the monotonic clock
    MaxJumps,               \* bound on wall-clock adjustments
    MaxHints,               \* bound on HintReceived calls
    MaxReports              \* bound on ReportWorkDurations calls

NO_THROTTLE == 0

\* Decisions that have hint names (THROTTLE_DECISION_TO_HINT_NAMES is empty
\* for NO_THROTTLE).
HintedDecisions == ThrottleDecisions \ {NO_THROTTLE}

Stats == INSTANCE AdaptiveCpuStats

VARIABLES
    now,                  \* monotonic time: HintManager timeouts, sleep_for
    wallOffset,           \* system_clock minus monotonic clock
    jumps,                \* wall-clock adjustments so far
    store,                \* the debug.adaptivecpu.* properties
    isEnabled,            \* mIsEnabled
    shouldReloadConfig,   \* mShouldReloadConfig
    lastEnabledHintTime,  \* mLastEnabledHintTime
    threadStarted,        \* mLoopThread.joinable()
    isInitialized,        \* mIsInitialized
    config,               \* mConfig
    batches,              \* WorkDurationProcessor::mWorkDurationBatches
    wpc,                  \* worker thread's position in RunMainLoop
    sleepUntil,           \* end of the worker's sleep_for
    features,             \* modelInput.workDurationFeatures of the current step
    decision,             \* throttleDecision of the current step
    prevDecision,         \* previousThrottleDecision
    lastThrottleHintTime, \* mLastThrottleHintTime
    hintExpiry,           \* HintManager: hints of d active while hintExpiry[d] > now
    hpc,                  \* hint thread's position in HintReceived
    ppc,                  \* each producer's position in ReportWorkDurations
    pbatch,               \* the batch each producer is reporting
    stats,                \* mAdaptiveCpuStats
    hints, reports,       \* calls made so far (bounds)
    disabled,             \* ghost: why and when isEnabled was last cleared
    pendingReload,        \* ghost: an enable hint requested a reload after the last read
    attributed,           \* ghost: durations processed under each decision in force
    configLoaded,         \* ghost: mConfig was written by a load that succeeded
    rejectStale           \* ghost: each producer's rejected push predates the last enable hint

vars == <<now, wallOffset, jumps, store, isEnabled, shouldReloadConfig,
          lastEnabledHintTime, threadStarted, isInitialized, config, batches,
          wpc, sleepUntil, features, decision, prevDecision,
          lastThrottleHintTime, hintExpiry, hpc, ppc, pbatch, stats, hints,
          reports, disabled, pendingReload, attributed, configLoaded,
          rejectStale>>

clockVars   == <<now, wallOffset, jumps>>
workerVars  == <<isInitialized, config, wpc, sleepUntil, features, decision,
                 prevDecision, stats>>
hintVars    == <<hintExpiry, lastThrottleHintTime>>
hintThread  == <<hpc, hints>>
prodVars    == <<ppc, pbatch, reports>>
ghostVars   == <<disabled, pendingReload, attributed, configLoaded,
                 rejectStale>>

NoWork == [count |-> 0, missed |-> 0]

\* TimeSource::GetTime() reads system_clock.
Wall == now + wallOffset

Active(d) == hintExpiry[d] > now

\* The features of a list of batches (WorkDurationProcessor::GetFeatures).
RECURSIVE Reduce(_)
Reduce(bs) ==
    IF bs = <<>> THEN NoWork
    ELSE LET r == Reduce(Tail(bs))
         IN [count |-> Head(bs).count + r.count,
             missed |-> Head(bs).missed + r.missed]

LoadedConfigSwapped(s) ==
    [ iterationSleep     |-> IF s.hintTimeout < IterationSleepMin
                             THEN IterationSleepMin ELSE s.hintTimeout,
      hintTimeout        |-> s.iterationSleep,
      enabledHintTimeout |-> s.enabledHintTimeout ]

\* AdaptiveCpuConfig::ReadFromSystemProperties on a valid store.
LoadedConfig(s) ==
    [ iterationSleep     |-> IF s.iterationSleep < IterationSleepMin
                             THEN IterationSleepMin ELSE s.iterationSleep,
      hintTimeout        |-> s.hintTimeout,
      enabledHintTimeout |-> s.enabledHintTimeout ]

\* ReadFromSystemProperties failing on the percent or the options: the
\* sleep and hint timeout have already been written to the output.
PartiallyLoadedConfig(c, s) ==
    [c EXCEPT !.iterationSleep = LoadedConfig(s).iterationSleep,
              !.hintTimeout    = s.hintTimeout]

Disable(cause) ==
    /\ isEnabled' = FALSE
    /\ disabled' = [cause |-> cause, at |-> Wall]

-----------------------------------------------------------------------------
(* Init: the process has started, no thread runs the loop yet.             *)

Init ==
    /\ now = 0
    /\ wallOffset = 0
    /\ jumps = 0
    /\ store \in StoreValues
    /\ isEnabled = FALSE
    /\ shouldReloadConfig = FALSE
    /\ lastEnabledHintTime = 0
    /\ threadStarted = FALSE
    /\ isInitialized = FALSE
    /\ config = DefaultConfig
    /\ batches = <<>>
    /\ wpc = "wait"
    /\ sleepUntil = 0
    /\ features = NoWork
    /\ decision = NO_THROTTLE
    /\ prevDecision = NO_THROTTLE
    /\ lastThrottleHintTime \in UninitHintTimes
    /\ hintExpiry = [d \in HintedDecisions |-> 0]
    /\ hpc = "idle"
    /\ ppc = [p \in Producers |-> "idle"]
    /\ pbatch = [p \in Producers |-> NoWork]
    /\ \E u \in UninitStats : stats = Stats!InitialStats(u)
    /\ hints = 0
    /\ reports = 0
    /\ disabled = [cause |-> "none", at |-> 0]
    /\ pendingReload = FALSE
    /\ attributed = [d \in ThrottleDecisions |-> 0]
    /\ configLoaded = TRUE
    /\ rejectStale = [p \in Producers |-> FALSE]

-----------------------------------------------------------------------------
(* Hint thread: HintReceived(true) runs StartThread, whose three writes    *)
(* the worker can observe one at a time; HintReceived(false) runs          *)
(* SuspendThread.                                                          *)

StartThreadEnable ==
    /\ hpc = "idle" /\ hints < MaxHints
    /\ hints' = hints + 1
    /\ isEnabled' = TRUE
    /\ disabled' = [cause |-> "none", at |-> Wall]
    /\ hpc' = "reload"
    /\ rejectStale' = [p \in Producers |-> ppc[p] = "reject"]
    /\ UNCHANGED <<clockVars, store, shouldReloadConfig, lastEnabledHintTime,
                   threadStarted, batches, workerVars, hintVars, prodVars,
                   pendingReload, attributed,
                   configLoaded>>

StartThreadReload ==
    /\ hpc = "reload"
    /\ shouldReloadConfig' = TRUE
    /\ pendingReload' = TRUE
    /\ hpc' = "time"
    /\ UNCHANGED <<clockVars, store, isEnabled, lastEnabledHintTime,
                   threadStarted, batches, workerVars, hintVars, prodVars,
                   hints, disabled, attributed, rejectStale,
                   configLoaded>>

\* Records the enable time, then creates the worker if it does not exist.
StartThreadTime ==
    /\ hpc = "time"
    /\ lastEnabledHintTime' = Wall
    /\ threadStarted' = TRUE
    /\ hpc' = "idle"
    /\ UNCHANGED <<clockVars, store, isEnabled, shouldReloadConfig, batches,
                   workerVars, hintVars, prodVars, hints, ghostVars>>

SuspendThread ==
    /\ hpc = "idle" /\ hints < MaxHints
    /\ hints' = hints + 1
    /\ Disable("hint")
    /\ UNCHANGED <<clockVars, store, shouldReloadConfig, lastEnabledHintTime,
                   threadStarted, batches, workerVars, hintVars, hpc, prodVars,
                   pendingReload, attributed, rejectStale,
                   configLoaded>>

-----------------------------------------------------------------------------
(* Producer threads: AdaptiveCpu::ReportWorkDurations.  A call that finds  *)
(* the controller disabled returns without effect and is not a step.       *)

ReportWorkDurations(p) ==
    /\ ppc[p] = "idle" /\ reports < MaxReports
    /\ isEnabled
    /\ \E b \in Batches : pbatch' = [pbatch EXCEPT ![p] = b]
    /\ reports' = reports + 1
    /\ ppc' = [ppc EXCEPT ![p] = "push"]
    /\ UNCHANGED <<clockVars, store, isEnabled, shouldReloadConfig,
                   lastEnabledHintTime, threadStarted, batches, workerVars,
                   hintVars, hintThread, ghostVars>>

PushBatchPastCap(p) ==
    /\ ppc[p] = "push"
    /\ \/ /\ Len(batches) > MaxUnprocessedBatches
          /\ batches' = <<>>
          /\ ppc' = [ppc EXCEPT ![p] = "reject"]
       \/ /\ Len(batches) <= MaxUnprocessedBatches
          /\ batches' = Append(batches, pbatch[p])
          /\ ppc' = [ppc EXCEPT ![p] = "notify"]
    /\ UNCHANGED <<clockVars, store, isEnabled, shouldReloadConfig,
                   lastEnabledHintTime, threadStarted, workerVars, hintVars,
                   hintThread, pbatch, reports, ghostVars>>

\* WorkDurationProcessor::ReportWorkDurations, under its mutex: a full
\* mailbox is cleared and the push rejected.
PushBatch(p) ==
    /\ ppc[p] = "push"
    /\ \/ /\ Len(batches) >= MaxUnprocessedBatches
          /\ batches' = <<>>
          /\ ppc' = [ppc EXCEPT ![p] = "reject"]
       \/ /\ Len(batches) < MaxUnprocessedBatches
          /\ batches' = Append(batches, pbatch[p])
          /\ ppc' = [ppc EXCEPT ![p] = "notify"]
    /\ UNCHANGED <<clockVars, store, isEnabled, shouldReloadConfig,
                   lastEnabledHintTime, threadStarted, workerVars, hintVars,
                   hintThread, pbatch, reports, ghostVars>>

RejectedPush(p) ==
    /\ ppc[p] = "reject"
    /\ Disable(IF rejectStale[p] THEN "staleOverflow" ELSE "overflow")
    /\ ppc' = [ppc EXCEPT ![p] = "idle"]
    /\ rejectStale' = [rejectStale EXCEPT ![p] = FALSE]
    /\ UNCHANGED <<clockVars, store, shouldReloadConfig, lastEnabledHintTime,
                   threadStarted, batches, workerVars, hintVars, hintThread,
                   pbatch, reports, pendingReload, attributed,
                   configLoaded>>

\* notify_one without holding mWaitMutex: it wakes the worker only if the
\* worker is already blocked in wait().
NotifyWorker(p) ==
    /\ ppc[p] = "notify"
    /\ wpc' = IF wpc = "blocked" THEN "wait" ELSE wpc
    /\ ppc' = [ppc EXCEPT ![p] = "idle"]
    /\ UNCHANGED <<clockVars, store, isEnabled, shouldReloadConfig,
                   lastEnabledHintTime, threadStarted, isInitialized, config,
                   sleepUntil, features, decision, prevDecision, stats,
                   batches, hintVars, hintThread, pbatch, reports, ghostVars>>

-----------------------------------------------------------------------------
(* Worker thread: RunMainLoop.                                             *)

\* Worker steps that change only its own position.
WorkerMoves(from, to) ==
    /\ threadStarted
    /\ wpc = from
    /\ wpc' = to

WorkerOnly ==
    UNCHANGED <<clockVars, store, isEnabled, shouldReloadConfig,
                lastEnabledHintTime, threadStarted, isInitialized, config,
                sleepUntil, features, decision, prevDecision, stats, batches,
                hintVars, hintThread, prodVars, ghostVars>>

\* WaitForEnabledAndWorkDurations: the predicate is evaluated under
\* mWaitMutex; when false the thread goes on to block in wait().
WaitCheck ==
    /\ WorkerMoves("wait", IF isEnabled /\ batches # <<>> THEN "timeout"
                                                        ELSE "parking")
    /\ WorkerOnly

\* The predicate was false and the thread now blocks.  A notify sent
\* between the evaluation and this step finds no waiter.
Park == WorkerMoves("parking", "blocked") /\ WorkerOnly

SpuriousWakeup == WorkerMoves("blocked", "wait") /\ WorkerOnly

EnabledHintTimedOut ==
    /\ WorkerMoves("timeout", "wait")
    /\ lastEnabledHintTime + config.enabledHintTimeout < Wall
    /\ Disable("timeout")
    /\ UNCHANGED <<clockVars, store, shouldReloadConfig, lastEnabledHintTime,
                   threadStarted, isInitialized, config, sleepUntil, features,
                   decision, prevDecision, stats, batches, hintVars,
                   hintThread, prodVars, pendingReload, attributed, rejectStale,
                   configLoaded>>

EnabledHintFresh ==
    /\ WorkerMoves("timeout", "reload")
    /\ ~(lastEnabledHintTime + config.enabledHintTimeout < Wall)
    /\ WorkerOnly

NoConfigReload ==
    /\ WorkerMoves("reload", "compute")
    /\ ~shouldReloadConfig
    /\ WorkerOnly

ConfigReadFailedNoReturn ==
    /\ WorkerMoves("reload", "clearReload")
    /\ shouldReloadConfig /\ ~store.valid
    /\ config' = PartiallyLoadedConfig(config, store)
    /\ Disable("config")
    /\ pendingReload' = FALSE
    /\ configLoaded' = FALSE
    /\ UNCHANGED <<clockVars, store, shouldReloadConfig, lastEnabledHintTime,
                   threadStarted, isInitialized, sleepUntil, features,
                   decision, prevDecision, stats, batches, hintVars,
                   hintThread, prodVars, attributed, rejectStale>>

ConfigReadFailed ==
    /\ WorkerMoves("reload", "wait")
    /\ shouldReloadConfig /\ ~store.valid
    /\ config' = PartiallyLoadedConfig(config, store)
    /\ Disable("config")
    /\ pendingReload' = FALSE
    /\ configLoaded' = FALSE
    /\ UNCHANGED <<clockVars, store, shouldReloadConfig, lastEnabledHintTime,
                   threadStarted, isInitialized, sleepUntil, features,
                   decision, prevDecision, stats, batches, hintVars,
                   hintThread, prodVars, attributed, rejectStale>>

ConfigRead ==
    /\ WorkerMoves("reload", "clearReload")
    /\ shouldReloadConfig /\ store.valid
    /\ config' = LoadedConfig(store)
    /\ pendingReload' = FALSE
    /\ configLoaded' = TRUE
    /\ UNCHANGED <<clockVars, store, isEnabled, shouldReloadConfig,
                   lastEnabledHintTime, threadStarted, isInitialized,
                   sleepUntil, features, decision, prevDecision, stats,
                   batches, hintVars, hintThread, prodVars, disabled,
                   attributed, rejectStale>>

ClearReloadFlag ==
    /\ WorkerMoves("clearReload", "compute")
    /\ shouldReloadConfig' = FALSE
    /\ UNCHANGED <<clockVars, store, isEnabled, lastEnabledHintTime,
                   threadStarted, isInitialized, config, sleepUntil,
                   features, decision, prevDecision, stats, batches,
                   hintVars, hintThread, prodVars, ghostVars>>

\* The start of the "compute" section: RegisterStartRun, then the one-time
\* initialisation of the kernel reader (KernelCpuFeatureReader::Init, which
\* may fail on the stats file) and ReadDevice.
KernelReaderInitFailed ==
    /\ WorkerMoves("compute", "wait")
    /\ ~isInitialized
    /\ stats' = Stats!RegisterStartRun(stats, Wall)
    /\ Disable("init")
    /\ UNCHANGED <<clockVars, store, shouldReloadConfig, lastEnabledHintTime,
                   threadStarted, isInitialized, config, sleepUntil,
                   features, decision, prevDecision, batches, hintVars,
                   hintThread, prodVars, pendingReload, attributed, rejectStale,
                   configLoaded>>

\* The rest of a step up to the decision: the reader is (now) initialised,
\* GetFeatures swaps the mailbox out under its mutex and reduces it; a step
\* with no accepted duration ends there; GetRecentCpuFeatures may fail on
\* the stats file; otherwise Model::Run chooses the decision.
ComputeStep ==
    /\ threadStarted /\ wpc = "compute"
    /\ LET f == Reduce(batches) IN
       /\ isInitialized' = TRUE
       /\ batches' = <<>>
       /\ \/ /\ f.count = 0
             /\ wpc' = "wait"
             /\ UNCHANGED <<isEnabled, disabled, features, decision>>
          \/ /\ f.count > 0
             /\ wpc' = "wait"
             /\ Disable("read")
             /\ UNCHANGED <<features, decision>>
          \/ /\ f.count > 0
             /\ features' = f
             /\ \E d \in ThrottleDecisions : decision' = d
             /\ wpc' = "emit"
             /\ UNCHANGED <<isEnabled, disabled>>
    /\ stats' = Stats!RegisterStartRun(stats, Wall)
    /\ UNCHANGED <<clockVars, store, shouldReloadConfig, lastEnabledHintTime,
                   threadStarted, config, sleepUntil, prevDecision, hintVars,
                   hintThread, prodVars, pendingReload, attributed, rejectStale,
                   configLoaded>>

\* throttleHintMayTimeout: the last send is more than half a hint timeout
\* old by the wall clock.
HintMayTimeoutAtFullTimeout(t) ==
    t - lastThrottleHintTime > config.hintTimeout
HintMayTimeout(t) ==
    t - lastThrottleHintTime > config.hintTimeout \div 2

\* The HintManager after the DoHint loop for the new decision (when `send`)
\* and the EndHint loop for the previous one (when `changed`).
HintsAfterStepWithoutEnd(send, changed) ==
    [d \in HintedDecisions |->
        IF d = decision /\ send THEN now + config.hintTimeout
        ELSE hintExpiry[d]]
HintsAfterStep(send, changed) ==
    [d \in HintedDecisions |->
        IF d = decision /\ send THEN now + config.hintTimeout
        ELSE IF d = prevDecision /\ changed THEN 0
        ELSE hintExpiry[d]]

\* The "sendHints" block, RegisterSuccessfulRun and the start of sleep_for.
\* New hints are sent when the decision changed or may time out; the
\* previous decision's hints are ended only on a change.
\* previousThrottleDecision is updated before RegisterSuccessfulRun is
\* called with it.
SendHints ==
    /\ WorkerMoves("emit", "sleep")
    /\ LET t       == Wall
           changed == decision # prevDecision
           send    == changed \/ HintMayTimeout(t)
       IN /\ hintExpiry' = HintsAfterStep(send, changed)
          /\ lastThrottleHintTime' = IF send THEN t ELSE lastThrottleHintTime
          /\ prevDecision' = decision
          \* the step's locals (modelInput, throttleDecision) end with it
          /\ features' = NoWork
          /\ decision' = NO_THROTTLE
          /\ stats' = Stats!RegisterSuccessfulRun(stats, decision, decision,
                                                  features, config.hintTimeout, t)
          /\ attributed' =
                IF stats.lastRunSuccessTime = 0 THEN attributed
                ELSE [attributed EXCEPT ![prevDecision] = @ + features.count]
    /\ sleepUntil' = now + config.iterationSleep
    /\ UNCHANGED <<clockVars, store, isEnabled, shouldReloadConfig,
                   lastEnabledHintTime, threadStarted, isInitialized, config,
                   batches, hintThread, prodVars, disabled, pendingReload,
                   configLoaded, rejectStale>>

FinishSleep ==
    /\ WorkerMoves("sleep", "wait")
    /\ now >= sleepUntil
    /\ WorkerOnly

-----------------------------------------------------------------------------
(* Environment: time, wall-clock adjustments, setprop.                     *)

Tick ==
    /\ now < MaxTime
    /\ now' = now + 1
    /\ UNCHANGED <<wallOffset, jumps, store, isEnabled, shouldReloadConfig,
                   lastEnabledHintTime, threadStarted, batches, workerVars,
                   hintVars, hintThread, prodVars, ghostVars>>

AdjustWallClock ==
    /\ jumps < MaxJumps
    /\ \E j \in WallJumps : wallOffset' = wallOffset + j
    /\ jumps' = jumps + 1
    /\ UNCHANGED <<now, store, isEnabled, shouldReloadConfig,
                   lastEnabledHintTime, threadStarted, batches, workerVars,
                   hintVars, hintThread, prodVars, ghostVars>>

SetProperty ==
    /\ \E s \in StoreValues \ {store} : store' = s
    /\ UNCHANGED <<clockVars, isEnabled, shouldReloadConfig,
                   lastEnabledHintTime, threadStarted, batches, workerVars,
                   hintVars, hintThread, prodVars, ghostVars>>

-----------------------------------------------------------------------------

WorkerStep ==
    \/ WaitCheck \/ Park
    \/ EnabledHintTimedOut \/ EnabledHintFresh
    \/ NoConfigReload \/ ConfigReadFailed \/ ConfigRead \/ ClearReloadFlag
    \/ KernelReaderInitFailed \/ ComputeStep \/ SendHints \/ FinishSleep

HintThreadStep ==
    \/ StartThreadEnable \/ StartThreadReload \/ StartThreadTime
    \/ SuspendThread

ProducerStep(p) ==
    \/ ReportWorkDurations(p) \/ PushBatch(p) \/ RejectedPush(p)
    \/ NotifyWorker(p)

Next ==
    \/ WorkerStep
    \/ SpuriousWakeup
    \/ HintThreadStep
    \/ \E p \in Producers : ProducerStep(p)
    \/ Tick \/ AdjustWallClock \/ SetProperty

\* The worker, a call in progress on the hint thread or a producer, and
\* time all keep going; new hints, reports, setprop and spurious wakeups
\* may never come.
Fairness ==
    /\ WF_vars(WorkerStep)
    /\ WF_vars(StartThreadReload \/ StartThreadTime)
    /\ \A p \in Producers : WF_vars(PushBatch(p) \/ RejectedPush(p) \/ NotifyWorker(p))
    /\ WF_vars(Tick)

Spec == Init /\ [][Next]_vars /\ Fairness

-----------------------------------------------------------------------------
(* Properties.                                                             *)

TypeOK ==
    /\ now \in 0..MaxTime /\ jumps \in 0..MaxJumps
    /\ store \in StoreValues
    /\ isEnabled \in BOOLEAN /\ shouldReloadConfig \in BOOLEAN
    /\ threadStarted \in BOOLEAN /\ isInitialized \in BOOLEAN
    /\ batches \in Seq(Batches) /\ Len(batches) <= MaxUnprocessedBatches
    /\ wpc \in {"wait", "parking", "blocked", "timeout", "reload",
                "clearReload", "compute", "emit", "sleep"}
    /\ decision \in ThrottleDecisions /\ prevDecision \in ThrottleDecisions
    /\ hintExpiry \in [HintedDecisions -> Int]
    /\ hpc \in {"idle", "reload", "time"}
    /\ ppc \in [Producers -> {"idle", "push", "reject", "notify"}]
    /\ pbatch \in [Producers -> Batches \cup {NoWork}]

\* When a loop step finishes its sendHints block, the clamp it decided on
\* is active at the HintManager: a decision kept from the last step is only
\* left un-refreshed while the earlier DoHint is still running.  This is
\* what the "half the hint timeout" resend in RunMainLoop is for.
ThrottleInForce ==
    [][ (wpc = "emit" /\ wpc' = "sleep")
          => (decision = NO_THROTTLE \/ hintExpiry'[decision] > now) ]_vars

\* While the worker sleeps after a step that throttled, the clamp it left in
\* place stays active at the HintManager: the sleep_for(iterationSleepDuration)
\* at the end of RunMainLoop ends before the hint it sent, or chose not to
\* resend, times out.  Nothing in the config loader relates the two
\* durations: a sleep above the hint timeout, or above half of it right
\* after a reload that lengthened it, lets the clamp lapse mid-sleep.
ClampHeldWhileSleeping ==
    (wpc = "sleep" /\ now < sleepUntil /\ prevDecision # NO_THROTTLE)
        => Active(prevDecision)

\* The HintManager never holds the clamps of two throttle levels, nor of a
\* level other than previousThrottleDecision: a change of decision ends
\* the hints of the decision it replaces.
SingleClampLevel ==
    \A d \in HintedDecisions : Active(d) => d = prevDecision

\* An enable hint that has completed keeps the controller enabled until a
\* disable hint, a failure met after it, or the enabled-hint timeout
\* measured from that hint: a timeout-disable in force was decided after
\* the timeout elapsed, and an overflow-disable in force comes from a push
\* rejected after the hint began, not from one whose mailbox was cleared
\* before it (ReportWorkDurations writes mIsEnabled = false after leaving
\* the processor's lock).
EnableHonoured ==
    (hpc = "idle" /\ ~isEnabled) =>
        /\ disabled.cause = "timeout"
              => disabled.at > lastEnabledHintTime + config.enabledHintTimeout
        /\ disabled.cause # "staleOverflow"

\* A config reload requested by an enable hint after the worker last read
\* the properties is still pending (mShouldReloadConfig is set).
ReloadRequestNotLost == pendingReload => shouldReloadConfig

\* Work reported while enabled is eventually consumed by the worker, or the
\* controller becomes disabled.
WorkConsumed ==
    (isEnabled /\ batches # <<>> /\ wpc \in {"wait", "parking", "blocked"})
        ~> (batches = <<>> \/ ~isEnabled)

\* GetFeatures is only called on a mailbox holding an accepted duration: it
\* divides the sum by the number of accepted durations.
FeaturesDefined ==
    [][ (wpc = "compute" /\ wpc' # "compute" /\ isInitialized') => Reduce(batches).count > 0 ]_vars

\* The stats attribute the durations processed in a step to the decision
\* that was in force while they were produced (the previous decision).
StatsAttribution ==
    \A d \in ThrottleDecisions : stats.numDurations[d] = attributed[d]

\* The loop step computes, sends hints and sleeps only with a config that a
\* load wrote completely: a ReadFromSystemProperties that fails part-way
\* (its option list cleared and partly parsed) disables the controller and
\* ends the iteration, and the reload flag stays set for the next one.
ComputeUsesLoadedConfig ==
    wpc \in {"clearReload", "compute", "emit", "sleep"} => configLoaded

\* The state without the dumpsys statistics and the ghosts, which no step
\* of the controller reads: the fingerprint for runs whose properties do
\* not mention them.
ControlView ==
    <<now, wallOffset, jumps, store, isEnabled, shouldReloadConfig,
      lastEnabledHintTime, threadStarted, isInitialized, config, batches,
      wpc, sleepUntil, features, decision, prevDecision,
      lastThrottleHintTime, hintExpiry, hpc, ppc, pbatch, hints, reports,
      configLoaded>>

=============================================================================
