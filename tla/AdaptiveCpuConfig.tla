--------------------------- MODULE AdaptiveCpuConfig ---------------------------
(***************************************************************************)
(* AdaptiveCpuConfig (AdaptiveCpuConfig.cpp): the loader that reads the    *)
(* debug.adaptivecpu.* system properties into the controller's config, and *)
(* the parser and formatter of the random-throttle option list.            *)
(*                                                                         *)
(* The state is the property store, which setprop can change at any time,  *)
(* and the config the loader writes into (the controller's mConfig, which  *)
(* starts as DEFAULT).  The loader writes field by field, so a load that   *)
(* fails leaves the fields before the failure written.  An option string   *)
(* is a sequence of one-character strings; an integer property is a       *)
(* number or Absent (GetUintProperty treats a value it cannot parse as      *)
(* absent).  Durations are milliseconds; the probability is kept as the    *)
(* percent it is divided from.                                             *)
(***************************************************************************)
EXTENDS Integers, Sequences, SequencesExt

CONSTANTS
    Absent,            \* a property that is not set
    SleepValues,       \* values of debug.adaptivecpu.iteration_sleep_duration_ms
    HintTimeoutValues, \* ... hint_timeout_ms
    PercentValues,     \* ... random_throttle_decision_percent
    OptionValues,      \* ... random_throttle_options (non-empty strings)
    EnabledValues      \* ... enabled_hint_timeout_ms

\* ThrottleDecision (ThrottleDecision.h): NO_THROTTLE = FIRST = 0 ..
\* THROTTLE_90 = LAST = 5.
FIRST == 0
LAST == 5

DigitChars == <<"0", "1", "2", "3", "4", "5", "6", "7", "8", "9">>
Digit(d) == DigitChars[d + 1]
IsDigit(c) == c \in Range(DigitChars)
DigitValue(c) == CHOOSE d \in 0..9 : Digit(d) = c
WhiteSpace == {" ", "\t", "\n"}

\* Lines 55-65, in milliseconds.
DEFAULT == [iterationSleep |-> 1000, hintTimeout |-> 2000, percent |-> 0,
            options |-> <<0, 1, 2, 3, 4, 5>>, enabledHintTimeout |-> 7200000]
IterationSleepMin == 20

Keys == {"sleep", "hintTimeout", "percent", "options", "enabled"}

VARIABLES
    store,     \* the property store
    output,    \* the config the loader writes into
    lastLoad   \* outcome of the last ReadFromSystemProperties

vars == <<store, output, lastLoad>>

-----------------------------------------------------------------------------
(* FormatThrottleDecisions (lines 158-167).                                *)

RECURSIVE Decimal(_)
Decimal(n) == IF n < 10 THEN <<Digit(n)>> ELSE Decimal(n \div 10) \o <<Digit(n % 10)>>

FormatThrottleDecisions(ds) ==
    FoldLeft(LAMBDA acc, i : acc \o Decimal(ds[i]) \o (IF i < Len(ds) THEN <<",">> ELSE <<>>),
             <<>>, [i \in 1..Len(ds) |-> i])

-----------------------------------------------------------------------------
(* ParseThrottleDecisions (lines 126-156).                                 *)

\* The getline(ss, token, ',') loop on the unread part r of the stream:
\* getline fails when nothing is left to extract; a token that ends at the
\* end of the input sets eof, which ends the loop.
RECURSIVE GetLines(_)
GetLines(r) ==
    IF r = <<>> THEN [ok |-> FALSE, tokens |-> <<>>]
    ELSE LET i == SelectInSeq(r, LAMBDA c : c = ",")
         IN IF i = 0 THEN [ok |-> TRUE, tokens |-> <<r>>]
            ELSE LET rest == GetLines(SubSeq(r, i + 1, Len(r)))
                 IN [ok |-> rest.ok, tokens |-> <<SubSeq(r, 1, i - 1)>> \o rest.tokens]

\* sscanf(token, "%u%n") = 1 and scanEnd = size (lines 136-138): leading
\* white space is skipped, a sign is accepted, then at least one digit,
\* and the digits must end the token.  A negated nonzero value wraps to
\* 2^32 - v, kept here as -v: above LAST like every value 2^32 - v.
ScanU32(t) ==
    LET start == SelectInSeq(t, LAMBDA c : c \notin WhiteSpace)
        signed == start > 0 /\ t[start] \in {"+", "-"}
        from == IF signed THEN start + 1 ELSE start
        digits == IF start = 0 \/ from > Len(t) THEN <<>>
                  ELSE LET stop == SelectInSubSeq(t, from, Len(t), LAMBDA c : ~IsDigit(c))
                       IN SubSeq(t, from, IF stop = 0 THEN Len(t) ELSE stop - 1)
        v == FoldLeft(LAMBDA acc, c : acc * 10 + DigitValue(c), 0, digits)
    IN [ok    |-> digits # <<>> /\ from + Len(digits) - 1 = Len(t),
        value |-> IF signed /\ t[start] = "-" THEN -v ELSE v]

\* Line 143-144: the range check.
InRange(x) == x >= FIRST /\ x <= LAST

\* Every token is scanned and pushed in turn onto `out`; the first that does
\* not scan or is out of range fails the call with the tokens before it
\* pushed, and a failed getline fails it after all of them.
ParseThrottleDecisions(input, out) ==
    LET g == GetLines(input)
        toks == g.tokens
        bad == {i \in DOMAIN toks : ~ScanU32(toks[i]).ok \/ ~InRange(ScanU32(toks[i]).value)}
        k == IF bad = {} THEN Len(toks) ELSE Min(bad) - 1
        pushed == out \o [i \in 1..k |-> ScanU32(toks[i]).value]
    IN [ok |-> bad = {} /\ g.ok /\ pushed # <<>>, output |-> pushed]

-----------------------------------------------------------------------------
(* ReadFromSystemProperties (lines 67-103).                                *)

\* GetUintProperty<uint32_t>(key, default).
GetUint(k, default) == IF store[k] = Absent THEN default ELSE store[k]
\* GetProperty(key, default): an unset property gives the default.
GetString(k, default) == IF store[k] = Absent THEN default ELSE store[k]

\* Lines 73-74: the iteration sleep is at least 20 ms.
IterationSleepUnclamped(v) == v
IterationSleepFloor(v) == IF v < IterationSleepMin THEN IterationSleepMin ELSE v

\* Line 93: the option list is cleared before it is parsed into.
OptionsBeforeParseNotCleared(c) == c.options
OptionsBeforeParse(c) == <<>>

Init ==
    /\ store = [k \in Keys |-> Absent]
    /\ output = DEFAULT
    /\ lastLoad = "none"

PropertyValues ==
    [sleep |-> SleepValues, hintTimeout |-> HintTimeoutValues,
     percent |-> PercentValues, options |-> OptionValues, enabled |-> EnabledValues]

\* setprop of one property.
SetProperty ==
    /\ \E k \in Keys : \E v \in {Absent} \cup PropertyValues[k] :
         store' = [store EXCEPT ![k] = v]
    /\ UNCHANGED <<output, lastLoad>>

ReadFromSystemProperties ==
    LET sleep == GetUint("sleep", DEFAULT.iterationSleep)
        c1 == [output EXCEPT
                 !.iterationSleep = IterationSleepFloor(sleep),
                 !.hintTimeout = GetUint("hintTimeout", DEFAULT.hintTimeout),
                 !.percent = GetUint("percent", DEFAULT.percent)]
        parsed == ParseThrottleDecisions(
                     GetString("options", FormatThrottleDecisions(DEFAULT.options)),
                     OptionsBeforeParse(c1))
        c2 == [c1 EXCEPT !.options = parsed.output]
    IN /\ \/ /\ c1.percent > 100
             /\ output' = c1 /\ lastLoad' = "failed"
          \/ /\ c1.percent <= 100 /\ ~parsed.ok
             /\ output' = c2 /\ lastLoad' = "failed"
          \/ /\ c1.percent <= 100 /\ parsed.ok
             /\ output' = [c2 EXCEPT !.enabledHintTimeout =
                                     GetUint("enabled", DEFAULT.enabledHintTimeout)]
             /\ lastLoad' = "ok"
       /\ UNCHANGED store

Next == SetProperty \/ ReadFromSystemProperties

Spec == Init /\ [][Next]_vars

-----------------------------------------------------------------------------

TypeOK ==
    /\ lastLoad \in {"none", "ok", "failed"}
    /\ output.iterationSleep >= IterationSleepMin
    /\ output.options \in Seq(FIRST..LAST)

(* Section 4.2 of the spec, written from its grammar: the option list is  *)
(* the comma-separated segments, each a non-empty run of decimal digits    *)
(* whose value is a ThrottleDecision.                                       *)
SpecTokens(s) ==
    LET cuts == SetToSortSeq({0, Len(s) + 1} \cup {i \in DOMAIN s : s[i] = ","},
                             LAMBDA a, b : a < b)
    IN [j \in 1..(Len(cuts) - 1) |-> SubSeq(s, cuts[j] + 1, cuts[j + 1] - 1)]
SpecValue(t) == MapThenSumSet(LAMBDA i : DigitValue(t[i]) * 10 ^ (Len(t) - i), DOMAIN t)
SpecOptionsValid(s) ==
    \A j \in DOMAIN SpecTokens(s) :
        LET t == SpecTokens(s)[j]
        IN t # <<>> /\ (\A i \in DOMAIN t : IsDigit(t[i])) /\ InRange(SpecValue(t))
SpecOptions ==
    IF store["options"] = Absent THEN DEFAULT.options
    ELSE [j \in DOMAIN SpecTokens(store["options"]) |-> SpecValue(SpecTokens(store["options"])[j])]
SpecValid ==
    /\ GetUint("percent", DEFAULT.percent) <= 100
    /\ store["options"] # Absent => SpecOptionsValid(store["options"])
SpecConfig ==
    [iterationSleep |-> Max({IterationSleepMin, GetUint("sleep", DEFAULT.iterationSleep)}),
     hintTimeout |-> GetUint("hintTimeout", DEFAULT.hintTimeout),
     percent |-> GetUint("percent", DEFAULT.percent),
     options |-> SpecOptions,
     enabledHintTimeout |-> GetUint("enabled", DEFAULT.enabledHintTimeout)]

\* A load succeeds exactly when the store holds a valid configuration by
\* section 4.2 of the spec, and then yields that configuration, whatever
\* the config held before (ReadFromSystemProperties, ParseThrottleDecisions
\* and the round trip of the default option list through
\* FormatThrottleDecisions).
LoadAsSpecified ==
    [][ReadFromSystemProperties =>
         /\ (lastLoad' = "ok") = SpecValid
         /\ lastLoad' = "ok" => output' = SpecConfig]_vars

\* With the option property unset, a load yields the spec's default option
\* list {0,2,3,4,5} (section 3, random_options), which leaves out
\* THROTTLE_50.
DefaultOptionsAsSpecified ==
    [][ReadFromSystemProperties /\ store["options"] = Absent /\ lastLoad' = "ok" =>
         output'.options = <<0, 2, 3, 4, 5>>]_vars

====
