-------------------------------- MODULE Model --------------------------------
(***************************************************************************)
(* Model::Run (Model.cpp) as RunMainLoop calls it, composed with the       *)
(* config loader it reads: the worker keeps historicalModelInputs, a deque *)
(* of at most kNumHistoricalModelInputs ModelInputs, pushes the input of   *)
(* each step that reaches the model, and asks Model::Run for the decision, *)
(* which either draws from mConfig.randomThrottleOptions or runs the      *)
(* decision tree.  mConfig is written by AdaptiveCpuConfig's real loader   *)
(* (the module AdaptiveCpuConfig, over option strings), so a load that     *)
(* fails part-way leaves a partly parsed option list behind.               *)
(*                                                                         *)
(* The generated decision tree (models/model.inc) is not in the           *)
(* repository: its result is a free choice from TreeDecisions.  A          *)
(* ModelInput is kept as the step's work features and previous decision;  *)
(* the CPU features are the kernel reader's (KernelCpuFeatureReader).      *)
(* The hint thread and the worker's wait are modelled in AdaptiveCpu; here *)
(* an enable hint is one step.                                             *)
(***************************************************************************)
EXTENDS Integers, Sequences, SequencesExt

CONSTANTS
    Absent, SleepValues, HintTimeoutValues, PercentValues, OptionValues,
    EnabledValues,      \* the property store, as in AdaptiveCpuConfig
    Works,              \* workDurationFeatures of a step that reached the model
    TreeDecisions,      \* what RunDecisionTree may return
    MaxSteps            \* bound on the steps that reach the model

VARIABLES
    store, output, lastLoad,  \* the property store and mConfig (AdaptiveCpuConfig)
    isEnabled,                \* mIsEnabled
    shouldReloadConfig,       \* mShouldReloadConfig
    history,                  \* historicalModelInputs
    prevDecision,             \* previousThrottleDecision
    drew,                     \* how the last Run decided: "none", "random", "tree"
    inputs,                   \* ghost: every ModelInput pushed, in order
    decisions,                \* ghost: the decision of each of those steps
    loadedOptions             \* ghost: the option list of the store at the last good load

vars == <<store, output, lastLoad, isEnabled, shouldReloadConfig, history,
          prevDecision, drew, inputs, decisions, loadedOptions>>

Config == INSTANCE AdaptiveCpuConfig

NO_THROTTLE == Config!FIRST

kNumHistoricalModelInputs == 3

\* A ModelInput, as far as the decision depends on the worker's own state.
ModelInputs == [work : Works, previousThrottleDecision : Config!FIRST..Config!LAST]

\* What indexing randomThrottleOptions out of its bounds yields (undefined).
UndefinedDecision == -1

-----------------------------------------------------------------------------
(* Model::Run.                                                             *)

\* uniform_int_distribution(0, size() - 1) over the option list: an empty
\* list makes the upper bound wrap, and the element read is undefined.
RandomOptions(c) ==
    IF c.options = <<>> THEN {UndefinedDecision} ELSE Range(c.options)

\* RunDecisionTree: generated code, not in the repository.
RunDecisionTree == TreeDecisions

\* The draw from U[0, 1) is below percent / 100 for some draw exactly when
\* the percent is positive, and not below it for some draw exactly when the
\* percent is under 100.
RunOutcomes(c) ==
    (IF c.percent > 0 THEN [how : {"random"}, d : RandomOptions(c)] ELSE {})
    \cup (IF c.percent < 100 THEN [how : {"tree"}, d : RunDecisionTree] ELSE {})

PushInputNoPop(h, in) == Append(h, in)

PushInputPopAtCap(h, in) ==
    IF Len(h) + 1 >= kNumHistoricalModelInputs THEN Tail(Append(h, in))
    ELSE Append(h, in)

\* push_back, then pop_front while the deque is over its size.
PushInput(h, in) ==
    IF Len(h) + 1 > kNumHistoricalModelInputs THEN Tail(Append(h, in))
    ELSE Append(h, in)

-----------------------------------------------------------------------------

Init ==
    /\ Config!Init
    /\ isEnabled = FALSE
    /\ shouldReloadConfig = FALSE
    /\ history = <<>>
    /\ prevDecision = NO_THROTTLE
    /\ drew = "none"
    /\ inputs = <<>>
    /\ decisions = <<>>
    /\ loadedOptions = Config!DEFAULT.options

\* setprop of one debug.adaptivecpu.* property.
SetProperty ==
    /\ Config!SetProperty
    /\ UNCHANGED <<isEnabled, shouldReloadConfig, history, prevDecision, drew,
                   inputs, decisions, loadedOptions>>

\* HintReceived(true): StartThread sets mIsEnabled and mShouldReloadConfig.
StartThread ==
    /\ isEnabled' = TRUE
    /\ shouldReloadConfig' = TRUE
    /\ UNCHANGED <<store, output, lastLoad, history, prevDecision, drew,
                   inputs, decisions, loadedOptions>>

\* HintReceived(false), and every `mIsEnabled = false; continue;` of the
\* loop after the reload (reader Init or GetRecentCpuFeatures failing).
SuspendThread ==
    /\ isEnabled
    /\ isEnabled' = FALSE
    /\ UNCHANGED <<store, output, lastLoad, shouldReloadConfig, history,
                   prevDecision, drew, inputs, decisions, loadedOptions>>

ReloadIgnoringFailure ==
    /\ isEnabled /\ shouldReloadConfig
    /\ Config!ReadFromSystemProperties
    /\ shouldReloadConfig' = FALSE
    /\ loadedOptions' = IF lastLoad' = "ok" THEN Config!SpecOptions ELSE loadedOptions
    /\ UNCHANGED <<isEnabled, history, prevDecision, drew, inputs, decisions>>

\* The reload at the top of a loop step: a failed ReadFromSystemProperties
\* disables the controller and ends the step with the flag still set.
Reload ==
    /\ isEnabled /\ shouldReloadConfig
    /\ Config!ReadFromSystemProperties
    /\ \/ /\ lastLoad' = "ok"
          /\ shouldReloadConfig' = FALSE
          /\ loadedOptions' = Config!SpecOptions
          /\ UNCHANGED isEnabled
       \/ /\ lastLoad' = "failed"
          /\ isEnabled' = FALSE
          /\ UNCHANGED <<shouldReloadConfig, loadedOptions>>
    /\ UNCHANGED <<history, prevDecision, drew, inputs, decisions>>

\* A step that reaches the model: the ModelInput with the step's work and
\* previousThrottleDecision is pushed, Model::Run decides, and the sendHints
\* block sets previousThrottleDecision to the decision when it changed.
Step ==
    /\ isEnabled /\ ~shouldReloadConfig
    /\ Len(inputs) < MaxSteps
    /\ \E w \in Works, r \in RunOutcomes(output) :
          LET in == [work |-> w, previousThrottleDecision |-> prevDecision]
          IN /\ history' = PushInput(history, in)
             /\ inputs' = Append(inputs, in)
             /\ decisions' = Append(decisions, r.d)
             /\ drew' = r.how
             /\ prevDecision' = IF r.d # prevDecision THEN r.d ELSE prevDecision
    /\ UNCHANGED <<store, output, lastLoad, isEnabled, shouldReloadConfig,
                   loadedOptions>>

Next == SetProperty \/ StartThread \/ SuspendThread \/ Reload \/ Step

Spec == Init /\ [][Next]_vars

-----------------------------------------------------------------------------
(* Properties.                                                             *)

TypeOK ==
    /\ isEnabled \in BOOLEAN /\ shouldReloadConfig \in BOOLEAN
    /\ history \in Seq(ModelInputs) /\ Len(history) <= kNumHistoricalModelInputs
    /\ drew \in {"none", "random", "tree"}

\* The history passed to Model::Run is spec 4.1 step 7's bounded FIFO: the
\* inputs of the last (up to) three steps that reached the model, most
\* recent last, each carrying the decision of the step before it
\* (NO_THROTTLE for the first), whatever loads, failures and suspensions
\* happened in between.
HistoryAsSpecified ==
    LET n == Len(inputs)
    IN /\ history = SubSeq(inputs, IF n > kNumHistoricalModelInputs
                                   THEN n - kNumHistoricalModelInputs + 1 ELSE 1, n)
       /\ \A i \in 1..n :
             inputs[i].previousThrottleDecision =
                IF i = 1 THEN NO_THROTTLE ELSE decisions[i - 1]

\* A random override returns one of the options spec 4.2 reads from the
\* store at the last load that succeeded (or the default list): a load that
\* fails after clearing mConfig.randomThrottleOptions, or stops part-way
\* through the list, never feeds the model, whose draw from an empty list
\* would index out of bounds.
RandomFromLoadedOptions ==
    [][ drew' = "random" /\ inputs' # inputs
          => Last(decisions') \in Range(loadedOptions) ]_vars

=============================================================================
