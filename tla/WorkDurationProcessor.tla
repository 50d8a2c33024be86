------------------------ MODULE WorkDurationProcessor ------------------------
(***************************************************************************)
(* WorkDurationProcessor (WorkDurationProcessor.cpp/.h) with the data the  *)
(* producers give it: each batch is the list of reported durations and the *)
(* target they were reported against.  Producers call ReportWorkDurations; *)
(* the controller's worker waits for HasWorkDurations and then calls       *)
(* GetFeatures.  Every call takes mMutex for its whole access to           *)
(* mWorkDurationBatches (GetFeatures only for the swap; the reduction runs *)
(* on its local copy), so each call is one step, and the worker's wait     *)
(* and its GetFeatures are two steps that producers may run between.      *)
(*                                                                         *)
(* Durations are in a scaled unit: NormalTarget stands for                 *)
(* kNormalTargetDuration, and kMaxDuration is 600 of them as in the code.  *)
(***************************************************************************)
EXTENDS Integers, Sequences, SequencesExt

CONSTANTS
    Durations,              \* WorkDuration::durationNanos values reported
    Targets,                \* targetDuration values reported
    MaxBatchLen,            \* bound on the durations in one report
    NormalTarget,           \* kNormalTargetDuration
    MaxUnprocessedBatches,  \* kMaxUnprocessedBatches (1000 in the code)
    DivByZeroResults        \* what durationsSum / 0 yields in the build

ASSUME Targets \subseteq Nat \ {0}

kMinDuration == 0
kMaxDuration == 600 * NormalTarget

\* The WorkDurationBatch values a report can create.
BatchValues == [durations : BoundedSeq(Durations, MaxBatchLen), target : Targets]

\* The WorkDurationFeatures returned for no accepted duration by a build in
\* which the division by zero yields 0.
ZeroFeatures ==
    [averageDuration |-> 0, maxDuration |-> 0,
     numMissedDeadlines |-> 0, numDurations |-> 0]

VARIABLES
    batches,    \* mWorkDurationBatches
    wpc,        \* the worker: "wait" for work, or "get" after HasWorkDurations
    features    \* the WorkDurationFeatures the last GetFeatures returned

vars == <<batches, wpc, features>>

-----------------------------------------------------------------------------
(* The reduction of GetFeatures, in the code's order.                      *)

\* The loop's locals before the final division.
NoSums == [sum |-> 0, max |-> 0, missed |-> 0, num |-> 0]

Rejected(d) == d < kMinDuration \/ d > kMaxDuration

Normalized(d, target) == (d * NormalTarget) \div target

AddDurationMaxUnnormalized(acc, d, t) ==
    IF Rejected(d) THEN acc
    ELSE [sum    |-> acc.sum + Normalized(d, t),
          max    |-> IF acc.max > d THEN acc.max ELSE d,
          missed |-> acc.missed + (IF d > t THEN 1 ELSE 0),
          num    |-> acc.num + 1]

\* One iteration of the inner loop, for duration d of a batch with target t.
AddDuration(acc, d, t) ==
    IF Rejected(d) THEN acc
    ELSE [sum    |-> acc.sum + Normalized(d, t),
          max    |-> IF acc.max > Normalized(d, t) THEN acc.max
                     ELSE Normalized(d, t),
          missed |-> acc.missed + (IF d > t THEN 1 ELSE 0),
          num    |-> acc.num + 1]

\* The inner loop over the durations ds of a batch with target t.
RECURSIVE AddBatch(_, _, _)
AddBatch(acc, ds, t) ==
    IF ds = <<>> THEN acc
    ELSE AddBatch(AddDuration(acc, Head(ds), t), Tail(ds), t)

\* The outer loop over the swapped-out batches.
RECURSIVE AddBatches(_, _)
AddBatches(acc, bs) ==
    IF bs = <<>> THEN acc
    ELSE AddBatches(AddBatch(acc, Head(bs).durations, Head(bs).target), Tail(bs))

Reduction(bs) == AddBatches(NoSums, bs)

\* The returned features; the average of no durations is whatever the
\* division by zero yields.
FeaturesOf(r) ==
    { [averageDuration |-> avg, maxDuration |-> r.max,
       numMissedDeadlines |-> r.missed, numDurations |-> r.num] :
        avg \in IF r.num = 0 THEN DivByZeroResults ELSE {r.sum \div r.num} }

-----------------------------------------------------------------------------

Init ==
    /\ batches = <<>>
    /\ wpc = "wait"
    /\ features = ZeroFeatures

ReportWorkDurationsPastCap(b) ==
    /\ \/ /\ Len(batches) > MaxUnprocessedBatches
          /\ batches' = <<>>
       \/ /\ Len(batches) <= MaxUnprocessedBatches
          /\ batches' = Append(batches, b)
    /\ UNCHANGED <<wpc, features>>

\* ReportWorkDurations: a full list is cleared and the report refused.
ReportWorkDurations(b) ==
    /\ \/ /\ Len(batches) >= MaxUnprocessedBatches
          /\ batches' = <<>>
       \/ /\ Len(batches) < MaxUnprocessedBatches
          /\ batches' = Append(batches, b)
    /\ UNCHANGED <<wpc, features>>

\* The worker's wait predicate (AdaptiveCpu::WaitForEnabledAndWorkDurations)
\* calls HasWorkDurations; the worker goes on once it returns true.
HasWorkDurations ==
    /\ wpc = "wait"
    /\ batches # <<>>
    /\ wpc' = "get"
    /\ UNCHANGED <<batches, features>>

GetFeaturesWithoutSwap ==
    /\ wpc = "get"
    /\ features' \in FeaturesOf(Reduction(batches))
    /\ wpc' = "wait"
    /\ UNCHANGED batches

\* GetFeatures swaps the list out under the mutex and reduces the copy.
GetFeatures ==
    /\ wpc = "get"
    /\ features' \in FeaturesOf(Reduction(batches))
    /\ batches' = <<>>
    /\ wpc' = "wait"

Next ==
    \/ \E b \in BatchValues : ReportWorkDurations(b)
    \/ HasWorkDurations
    \/ GetFeatures

Spec == Init /\ [][Next]_vars

-----------------------------------------------------------------------------
(* Properties.                                                             *)

TypeOK ==
    /\ batches \in Seq(BatchValues)
    /\ Len(batches) <= MaxUnprocessedBatches
    /\ wpc \in {"wait", "get"}
    /\ features.numDurations \in Nat
    /\ features.numMissedDeadlines \in 0..features.numDurations

\* The reduction as spec 4.3 states it: the accepted durations are those
\* with 0 < d <= kMaxDuration, each normalised to the 60 Hz target; the
\* features are their mean, maximum, count of durations above their own
\* batch's target, and number; with none accepted, the zero record.
Entries(bs) ==
    FlattenSeq([i \in DOMAIN bs |->
        [j \in DOMAIN bs[i].durations |->
            [d |-> bs[i].durations[j], target |-> bs[i].target]]])

SpecFeatures(bs) ==
    LET acc   == SelectSeq(Entries(bs), LAMBDA e : e.d > 0 /\ e.d <= kMaxDuration)
        norm  == [i \in DOMAIN acc |-> (acc[i].d * NormalTarget) \div acc[i].target]
        count == Len(acc)
    IN IF count = 0 THEN ZeroFeatures
       ELSE [averageDuration |-> FoldLeft(+, 0, norm) \div count,
             maxDuration |-> Max(Range(norm)),
             numMissedDeadlines |-> Len(SelectSeq(acc, LAMBDA e : e.d > e.target)),
             numDurations |-> count]

\* Every GetFeatures returns the features spec 4.3 defines for the batches
\* it swapped out, including the zero record the GetFeatures_noFrames test
\* expects when none of their durations is accepted.
FeaturesAsSpecified ==
    [][ wpc = "get" /\ wpc' = "wait" => features' = SpecFeatures(batches) ]_vars

\* The refinement: each batch seen as its count of accepted and of missed
\* durations (what the controller model keeps of a batch), and the
\* returned features as their totals.
Summary(b) ==
    LET r == Reduction(<<b>>) IN [count |-> r.num, missed |-> r.missed]

Mailbox == INSTANCE WorkDurationMailbox
    WITH Batches  <- [count : 0..MaxBatchLen, missed : 0..MaxBatchLen],
         pending  <- [i \in DOMAIN batches |-> Summary(batches[i])],
         features <- [count  |-> features.numDurations,
                      missed |-> features.numMissedDeadlines]

\* The processor implements the mailbox the controller model assumes:
\* reports, the overflow clear and GetFeatures move the batch summaries
\* exactly as WorkDurationMailbox does, and HasWorkDurations changes none.
MailboxSpec == Mailbox!Spec

=============================================================================
