----------------------- MODULE MCWorkDurationProcessor -----------------------
(***************************************************************************)
(* WorkDurationProcessor for TLC.  With NormalTarget 3, kMaxDuration is    *)
(* 1800: the durations cover a negative one, one on the target, one that   *)
(* misses it and the smallest rejected above the bound; target 6 makes     *)
(* normalisation halve (and truncate 9 to 4).                              *)
(***************************************************************************)
EXTENDS WorkDurationProcessor

MCDurations == {-1, 3, 9, 1801}

\* Including the zero duration the spec rejects and the code accepts.
MCDurationsWithZero == {-1, 0, 3, 9}

=============================================================================
