---------------------------- MODULE MCAdaptiveCpu ----------------------------
(***************************************************************************)
(* Instantiates AdaptiveCpu for TLC.  One time unit stands for the 20 ms  *)
(* floor of the iteration sleep; the other durations are small multiples  *)
(* of it, keeping their ordering (sleep <= hint timeout / 2 < hint         *)
(* timeout < enabled-hint timeout) as in the shipped defaults.            *)
(***************************************************************************)
EXTENDS AdaptiveCpu

MCBatches ==
    { [count |-> 1, missed |-> 0],    \* a frame within its target
      [count |-> 0, missed |-> 0] }   \* every duration filtered out

Good == [valid |-> TRUE, iterationSleep |-> 1, hintTimeout |-> 2,
         enabledHintTimeout |-> 4]

\* A store the loader rejects (percent > 100 or a bad option list).
Bad == [Good EXCEPT !.valid = FALSE]

MCStoreValues == {Good, Bad}

MCStoreValuesGood == {Good}

\* A store whose hint timeout is raised by setprop.
MCStoreValuesRaised ==
    {Good, [Good EXCEPT !.hintTimeout = 6]}

\* A store whose iteration sleep (2) exceeds half its hint timeout (2).
MCStoreValuesLongSleep ==
    {Good, [Good EXCEPT !.iterationSleep = 2]}

\* A store whose enabled-hint timeout outlasts the run.
MCStoreValuesLongEnable == {[Good EXCEPT !.enabledHintTimeout = 50]}

\* The wall clock set back (NTP or user time change).
MCWallJumpsBack == {-3}

MCDefaultConfig ==
    [iterationSleep |-> 2, hintTimeout |-> 4, enabledHintTimeout |-> 50]

ZeroStats ==
    [startTime |-> 0, lastRunStartTime |-> 0, lastRunSuccessTime |-> 0,
     totalRunDuration |-> 0]

MCUninitStats == {ZeroStats}

=============================================================================
