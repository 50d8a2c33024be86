-------------------------- MODULE CpuFrequencyReader --------------------------
(***************************************************************************)
(* CpuFrequencyReader (CpuFrequencyReader.cpp): the average frequency of   *)
(* each CPU policy since the previous call, from the kernel's cumulative   *)
(* time_in_state table (time spent at each frequency, in 10 ms units), and *)
(* ModelInput::SetCpuFreqiencies (Model.cpp), which takes its output.      *)
(*                                                                         *)
(* The kernel side: time passes on every policy at one of the frequencies  *)
(* of its table; the table's counters can be reset (the cpufreq `stats/    *)
(* reset` file).  A read of a policy's file can fail at any policy, after  *)
(* the policies before it were written to the map the caller passed.  The  *)
(* caller calls Init until it succeeds, then GetRecentCpuPolicyFrequencies *)
(* with an empty vector, and gives a successful result to                 *)
(* SetCpuFreqiencies.  Frequencies are abstract numbers.                  *)
(***************************************************************************)
EXTENDS Integers, Sequences, SequencesExt

CONSTANTS
    Listing,         \* readdir of /sys/devices/system/cpu/cpufreq
    PolicyIdOf,      \* the entries sscanf("policy%d") matches, and their id
    FreqTable,       \* the frequencies of each policy's time_in_state
    MaxFrequencies,  \* the cap of line 115 (500)
    NumCpuPolicies,  \* NUM_CPU_POLICIES: the size of the model's array
    U64Modulus,      \* 2^64 of uint64_t, scaled: above every sum reached
    MaxTime,         \* bound on time units elapsed
    MaxResets        \* bound on time_in_state resets

Policies == DOMAIN FreqTable

VARIABLES
    now,          \* time units elapsed
    tis,          \* the kernel's time_in_state of each policy, 10 ms units
    resets,       \* resets so far
    pc,           \* "init" until Init succeeds, then "get"
    policyIds,    \* mCpuPolicyIds
    prev,         \* mPreviousCpuPolicyFrequencies: a function on the ids read
    result,       \* the caller's vector after the last call
    modelHz,      \* ModelInput::cpuPolicyAverageFrequencyHz
    lastCall,     \* ghost: outcome of the last call and of SetCpuFreqiencies
    prevTis,      \* ghost: the kernel's table when prev was last fully read
    resetSince    \* ghost: policies whose table was reset since then

vars == <<now, tis, resets, pc, policyIds, prev, result, modelHz, lastCall, prevTis,
          resetSince>>
kernelVars == <<now, tis, resets>>

\* ReadCpuPolicyIds (lines 125-142): the ids of the entries that match,
\* sorted.
ReadCpuPolicyIds ==
    LET matching == SelectSeq(Listing, LAMBDA e : e \in DOMAIN PolicyIdOf)
    IN SetToSortSeq({PolicyIdOf[matching[i]] : i \in DOMAIN matching},
                    LAMBDA a, b : a < b)

\* One policy's time_in_state as the map frequency -> milliseconds (line 113).
PolicyFrequencies(p) == [f \in FreqTable[p] |-> tis[p][f] * 10]

\* ReadCpuPolicyFrequencies (lines 90-123) into map `m`: the first k ids
\* are written; the call fails at id k+1 (file unreadable, a line sscanf
\* rejects, or more than MaxFrequencies frequencies) or succeeds when
\* k = Len(ids).
ReadUpTo(m, ids, k) ==
    LET done == {ids[i] : i \in 1..k}
    IN [p \in DOMAIN m \cup done |-> IF p \in done THEN PolicyFrequencies(p) ELSE m[p]]
OverCap(p) == Cardinality(FreqTable[p]) > MaxFrequencies
ReadReaches(ids, k) == \A i \in 1..k : ~OverCap(ids[i])

Init ==
    /\ now = 0
    /\ tis = [p \in Policies |-> [f \in FreqTable[p] |-> 0]]
    /\ resets = 0
    /\ pc = "init"
    /\ policyIds = <<>>
    /\ prev = <<>>
    /\ result = <<>>
    /\ modelHz = [i \in 1..NumCpuPolicies |-> 0]
    /\ lastCall = "none"
    /\ prevTis = tis
    /\ resetSince = {}

ReaderStep == UNCHANGED <<kernelVars, modelHz, result>>

\* Init (lines 41-49), the listing fails: mCpuPolicyIds was cleared.
InitListFailed ==
    /\ pc = "init" /\ ReaderStep
    /\ policyIds' = <<>>
    /\ UNCHANGED <<pc, prev, lastCall, prevTis, resetSince>>

\* Init: the ids are read, the previous map cleared and read into; a read
\* that stops at an id leaves the ids before it in the map.
InitReader ==
    /\ pc = "init" /\ ReaderStep
    /\ LET ids == ReadCpuPolicyIds
       IN /\ policyIds' = ids
          /\ \E k \in 0..Len(ids) :
               /\ ReadReaches(ids, k)
               /\ prev' = ReadUpTo(<<>>, ids, k)
               /\ IF k = Len(ids)
                  THEN pc' = "get" /\ prevTis' = tis /\ resetSince' = {}
                  ELSE UNCHANGED <<pc, prevTis, resetSince>>
    /\ UNCHANGED lastCall

\* Lines 73-78: the weighted average of policy p's recent frequencies.
\* recentTime is a signed millisecond count, the weighted sum a uint64_t,
\* and the division converts the signed time sum to uint64_t.
AverageSigned(cur, p) ==
    LET recent(f) == cur[p][f] - prev[p][f]
        w == MapThenSumSet(LAMBDA f : f * recent(f), DOMAIN cur[p])
        t == MapThenSumSet(LAMBDA f : recent(f), DOMAIN cur[p])
    IN IF t # 0 THEN w \div t ELSE 0
AverageOfTotals(cur, p) ==
    LET w == MapThenSumSet(LAMBDA f : f * cur[p][f], DOMAIN cur[p])
        t == MapThenSumSet(LAMBDA f : cur[p][f], DOMAIN cur[p])
    IN IF t # 0 THEN (w % U64Modulus) \div (t % U64Modulus) ELSE 0
Average(cur, p) ==
    LET recent(f) == cur[p][f] - prev[p][f]
        w == MapThenSumSet(LAMBDA f : f * recent(f), DOMAIN cur[p])
        t == MapThenSumSet(LAMBDA f : recent(f), DOMAIN cur[p])
    IN IF t # 0 THEN (w % U64Modulus) \div (t % U64Modulus) ELSE 0

\* SetCpuFreqiencies (Model.cpp lines 32-52): the list must have one entry
\* per policy and strictly increasing ids; the array is written entry by
\* entry until an id is out of order.
PreviousPolicyIdFromZero(out, i) == IF i = 1 THEN 0 ELSE out[i - 1].policyId
PreviousPolicyId(out, i) == IF i = 1 THEN -1 ELSE out[i - 1].policyId
SetCpuFreqiencies(out) ==
    LET unsorted == {i \in 1..Len(out) : PreviousPolicyId(out, i) >= out[i].policyId}
        stop == IF unsorted = {} THEN Len(out) + 1 ELSE Min(unsorted)
    IN IF Len(out) # NumCpuPolicies
       THEN [ok |-> FALSE, hz |-> modelHz]
       ELSE [ok |-> unsorted = {},
             hz |-> [i \in 1..NumCpuPolicies |-> IF i < stop THEN out[i].hz
                                                             ELSE modelHz[i]]]

\* GetRecentCpuPolicyFrequencies (lines 51-83): a read that stops at some
\* policy returns false with nothing pushed.
GetReadFailed ==
    /\ pc = "get" /\ UNCHANGED <<kernelVars, modelHz>>
    /\ result' = <<>>
    /\ \E k \in 0..(Len(policyIds) - 1) : ReadReaches(policyIds, k)
    /\ lastCall' = "failed"
    /\ UNCHANGED <<pc, policyIds, prev, prevTis, resetSince>>

\* A full read: each policy in the map's ascending order is pushed with
\* its average, until one, or one of its frequencies, is missing from the
\* previous map (lines 59-72); on success the new map becomes the previous
\* one, and the caller hands the vector to SetCpuFreqiencies.
GetRecentCpuPolicyFrequencies ==
    /\ pc = "get" /\ UNCHANGED kernelVars
    /\ ReadReaches(policyIds, Len(policyIds))
    /\ LET cur == ReadUpTo(<<>>, policyIds, Len(policyIds))
           ids == SetToSortSeq(DOMAIN cur, LAMBDA a, b : a < b)
           missing == {i \in 1..Len(ids) : \/ ids[i] \notin DOMAIN prev
                                           \/ ~(DOMAIN cur[ids[i]] \subseteq DOMAIN prev[ids[i]])}
           n == IF missing = {} THEN Len(ids) ELSE Min(missing) - 1
           out == [i \in 1..n |-> [policyId |-> ids[i], hz |-> Average(cur, ids[i])]]
       IN /\ result' = out
          /\ IF missing = {}
             THEN /\ prev' = cur /\ prevTis' = tis /\ resetSince' = {}
                  /\ modelHz' = SetCpuFreqiencies(out).hz
                  /\ lastCall' = IF SetCpuFreqiencies(out).ok THEN "accepted" ELSE "rejected"
             ELSE /\ lastCall' = "failed"
                  /\ UNCHANGED <<prev, prevTis, resetSince, modelHz>>
    /\ UNCHANGED <<pc, policyIds>>

\* The kernel: one time unit passes on every policy, at one of its
\* frequencies.
Tick ==
    /\ now < MaxTime
    /\ now' = now + 1
    /\ \E sel \in [Policies -> UNION Range(FreqTable)] :
         /\ \A p \in Policies : sel[p] \in FreqTable[p]
         /\ tis' = [p \in Policies |-> [tis[p] EXCEPT ![sel[p]] = @ + 1]]
    /\ UNCHANGED <<resets, pc, policyIds, prev, result, modelHz, lastCall,
                   prevTis, resetSince>>

\* A policy's time_in_state is reset to zero.
ResetStats ==
    /\ resets < MaxResets
    /\ resets' = resets + 1
    /\ \E p \in Policies :
         /\ tis' = [tis EXCEPT ![p] = [f \in FreqTable[p] |-> 0]]
         /\ resetSince' = resetSince \cup {p}
    /\ UNCHANGED <<now, pc, policyIds, prev, result, modelHz, lastCall, prevTis>>

Next ==
    \/ InitListFailed \/ InitReader
    \/ GetReadFailed \/ GetRecentCpuPolicyFrequencies
    \/ Tick \/ ResetStats

Spec == Init /\ [][Next]_vars

-----------------------------------------------------------------------------

TypeOK ==
    /\ now \in 0..MaxTime
    /\ pc \in {"init", "get"}
    /\ lastCall \in {"none", "failed", "accepted", "rejected"}
    /\ modelHz \in [1..NumCpuPolicies -> Nat]
    /\ resetSince \subseteq Policies
    /\ result \in Seq([policyId : Policies, hz : Nat])

\* The milliseconds policy p spent at frequency f since the previous full
\* read, by the kernel's table.
Spent(p, f) == (tis[p][f] - prevTis[p][f]) * 10

\* Every average a successful call reports is the time-weighted mean of
\* the frequencies the policy ran at since the previous successful call
\* (0 when no time passed), as long as its table was not reset meanwhile.
AverageAsSpecified ==
    [][GetRecentCpuPolicyFrequencies /\ lastCall' # "failed" =>
         \A i \in DOMAIN result' :
            LET p == result'[i].policyId
                w == MapThenSumSet(LAMBDA f : f * Spent(p, f), FreqTable[p])
                t == MapThenSumSet(LAMBDA f : Spent(p, f), FreqTable[p])
            IN p \notin resetSince => result'[i].hz = IF t = 0 THEN 0 ELSE w \div t]_vars

\* A successful call gives the model one average per policy, in policy
\* order: SetCpuFreqiencies accepts the reader's vector (spec section 6,
\* the policy-order invariant) and stores the averages as reported.
ModelAcceptsFrequencies ==
    [][GetRecentCpuPolicyFrequencies /\ lastCall' # "failed" =>
         /\ lastCall' = "accepted"
         /\ modelHz' = [i \in 1..NumCpuPolicies |-> result'[i].hz]]_vars

\* Every average reported is a frequency of the policy's table range, or 0
\* when no time passed: a weighted mean of the frequencies the policy ran at.
AverageInRange ==
    \A i \in DOMAIN result :
        LET table == FreqTable[result[i].policyId]
        IN \/ result[i].hz = 0
           \/ Min(table) <= result[i].hz /\ result[i].hz <= Max(table)

====
