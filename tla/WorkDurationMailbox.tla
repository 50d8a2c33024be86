------------------------- MODULE WorkDurationMailbox -------------------------
(***************************************************************************)
(* What WorkDurationProcessor promises its callers, at the level the      *)
(* controller model (AdaptiveCpu) uses it: a bounded list of batches, each *)
(* known only by how many of its durations are accepted and how many of   *)
(* those missed their target.  A report appends a batch, or empties the    *)
(* list when it already holds MaxUnprocessedBatches; taking the features   *)
(* empties the list and hands out the totals of what it held.              *)
(***************************************************************************)
EXTENDS Naturals, Sequences

CONSTANTS
    Batches,                \* batch summaries: [count, missed]
    MaxUnprocessedBatches

ASSUME MaxUnprocessedBatches \in Nat \ {0}

VARIABLES
    pending,    \* the batches reported since the last take
    features    \* the totals handed out by the last take

vars == <<pending, features>>

NoWork == [count |-> 0, missed |-> 0]

\* The totals of a list of batch summaries.
RECURSIVE Totals(_)
Totals(bs) ==
    IF bs = <<>> THEN NoWork
    ELSE [count  |-> Head(bs).count  + Totals(Tail(bs)).count,
          missed |-> Head(bs).missed + Totals(Tail(bs)).missed]

Init ==
    /\ pending = <<>>
    /\ features = NoWork

Report(b) ==
    /\ \/ /\ Len(pending) >= MaxUnprocessedBatches
          /\ pending' = <<>>
       \/ /\ Len(pending) < MaxUnprocessedBatches
          /\ pending' = Append(pending, b)
    /\ UNCHANGED features

Take ==
    /\ features' = Totals(pending)
    /\ pending' = <<>>

Next == (\E b \in Batches : Report(b)) \/ Take

Spec == Init /\ [][Next]_vars

=============================================================================
