------------------------ MODULE CpuLoadReaderProcStat ------------------------
(***************************************************************************)
(* CpuLoadReaderProcStat (CpuLoadReaderProcStat.cpp): an alternative CPU- *)
(* load reader over /proc/stat.  The kernel lists one line per online CPU *)
(* with cumulative jiffies per kind; the reader converts idle (idle +      *)
(* iowait) and total (all ten kinds) to milliseconds and reports, per CPU, *)
(* the idle over the total since the previous sample.                      *)
(*                                                                         *)
(* The kernel side: time passes in jiffies on the online CPUs; a CPU other *)
(* than the boot CPU can be hot-unplugged and plugged back, its counters   *)
(* kept; the iowait counter can step back (nohz iowait accounting).  The  *)
(* caller's output array is a variable, since the reader writes it CPU by  *)
(* CPU before it can fail.  A fraction is the pair numerator/denominator   *)
(* of the division at line 72.                                             *)
(***************************************************************************)
EXTENDS Integers

CONSTANTS
    Cpus,          \* CPU ids of the model (the lines cpuN of /proc/stat)
    BootCpu,       \* the CPU that is never unplugged
    ClkTck,        \* sysconf(_SC_CLK_TCK): jiffies per second (USER_HZ)
    CounterModulus,\* 2^64 of uint64_t, scaled: above every counter reached
    MaxTime,       \* bound on jiffies elapsed
    MaxHotplugs,   \* bound on hotplug events
    MaxIowaitDips  \* bound on iowait steps back

ASSUME BootCpu \in Cpus

Kinds == {"busy", "idle", "iowait"}
Missing == [idleMs |-> -1, totalMs |-> -1]

VARIABLES
    now,         \* jiffies elapsed
    jiffies,     \* per CPU and kind, the kernel's cumulative jiffies
    online,      \* the CPUs /proc/stat lists
    hotplugs, dips,
    pc,          \* "init" until Init succeeds, then "get"
    prevTimes,   \* mPreviousCpuTimes; Missing where the map has no entry
    loads,       \* the caller's output array
    lastCall,    \* ghost: outcome of the last GetRecentCpuLoads
    prevJ        \* ghost: the kernel's jiffies at prevTimes

vars == <<now, jiffies, online, hotplugs, dips, pc, prevTimes, loads,
          lastCall, prevJ>>
kernelVars == <<now, jiffies, online, hotplugs, dips>>
readerVars == <<pc, prevTimes, loads, lastCall, prevJ>>

\* JiffiesToMs (lines 123-125), in uint64_t.
JiffiesToMs(j) == ((j * 1000) \div ClkTck) % CounterModulus
U64Sub(a, b) == (a - b) % CounterModulus

IdleJiffiesWithoutIowait(c) == jiffies[c]["idle"]
\* Line 105: idle is idle + iowait.
IdleJiffies(c) == jiffies[c]["idle"] + jiffies[c]["iowait"]
TotalJiffiesWithoutIdle(c) == jiffies[c]["busy"]
TotalJiffies(c) == jiffies[c]["busy"] + jiffies[c]["idle"] + jiffies[c]["iowait"]

\* ReadCpuTimes (lines 81-113): an entry for each CPU listed.
CpuTimes ==
    [c \in Cpus |-> IF c \in online
                    THEN [idleMs  |-> JiffiesToMs(IdleJiffies(c)),
                          totalMs |-> JiffiesToMs(TotalJiffies(c))]
                    ELSE Missing]

Init ==
    /\ now = 0
    /\ jiffies = [c \in Cpus |-> [k \in Kinds |-> 0]]
    /\ online = Cpus
    /\ hotplugs = 0 /\ dips = 0
    /\ pc = "init"
    /\ prevTimes = [c \in Cpus |-> Missing]
    /\ loads = [c \in Cpus |-> [num |-> 0, den |-> 1]]
    /\ lastCall = "none"
    /\ prevJ = jiffies

\* Init (lines 38-41): clear the previous times and read them; /proc/stat
\* that cannot be opened leaves them empty.
InitProcStat ==
    /\ pc = "init"
    /\ \/ /\ prevTimes' = CpuTimes /\ prevJ' = jiffies /\ pc' = "get"
       \/ /\ prevTimes' = [c \in Cpus |-> Missing] /\ UNCHANGED <<pc, prevJ>>
    /\ UNCHANGED <<loads, lastCall>>
    /\ UNCHANGED kernelVars

\* The loop of lines 58-76 over the CPUs in ascending order: the first CPU
\* that is missing from the previous times, or whose recent idle exceeds
\* its recent total, ends the call with false after the CPUs before it
\* were written to the output.
Recent(c, cur) ==
    [num |-> U64Sub(cur[c].idleMs, prevTimes[c].idleMs),
     den |-> U64Sub(cur[c].totalMs, prevTimes[c].totalMs)]
Fails(c, cur) ==
    /\ cur[c] # Missing
    /\ \/ prevTimes[c] = Missing
       \/ Recent(c, cur).num > Recent(c, cur).den

GetRecentCpuLoads ==
    /\ pc = "get"
    /\ LET cur == CpuTimes
           failing == {c \in Cpus : Fails(c, cur)}
           firstFail == CHOOSE c \in failing : \A d \in failing : c <= d
           written == {c \in Cpus : cur[c] # Missing
                                    /\ (failing = {} \/ c < firstFail)}
       IN /\ loads' = [c \in Cpus |-> IF c \in written THEN Recent(c, cur)
                                                       ELSE loads[c]]
          /\ IF failing = {}
             THEN /\ prevTimes' = cur /\ prevJ' = jiffies
                  /\ lastCall' = "ok"
             ELSE /\ lastCall' = "failed"
                  /\ UNCHANGED <<prevTimes, prevJ>>
    /\ UNCHANGED pc
    /\ UNCHANGED kernelVars

\* /proc/stat cannot be opened.
ProcStatUnreadable ==
    /\ pc = "get"
    /\ lastCall' = "failed"
    /\ UNCHANGED <<pc, prevTimes, loads, prevJ>>
    /\ UNCHANGED kernelVars

\* One jiffy passes on every online CPU, spent in some kind.
Tick ==
    /\ now < MaxTime
    /\ now' = now + 1
    /\ \E kind \in [online -> Kinds] :
         jiffies' = [c \in Cpus |-> IF c \in online
                                    THEN [jiffies[c] EXCEPT ![kind[c]] = @ + 1]
                                    ELSE jiffies[c]]
    /\ UNCHANGED <<online, hotplugs, dips>>
    /\ UNCHANGED readerVars

\* A CPU other than the boot CPU goes offline or comes back online.
Hotplug ==
    /\ hotplugs < MaxHotplugs
    /\ hotplugs' = hotplugs + 1
    /\ \E c \in Cpus \ {BootCpu} :
         online' = IF c \in online THEN online \ {c} ELSE online \cup {c}
    /\ UNCHANGED <<now, jiffies, dips>>
    /\ UNCHANGED readerVars

\* The iowait counter of a CPU steps back.
IowaitDip ==
    /\ dips < MaxIowaitDips
    /\ dips' = dips + 1
    /\ \E c \in online :
         /\ jiffies[c]["iowait"] > 0
         /\ jiffies' = [jiffies EXCEPT ![c]["iowait"] = @ - 1]
    /\ UNCHANGED <<now, online, hotplugs>>
    /\ UNCHANGED readerVars

Next ==
    \/ InitProcStat \/ GetRecentCpuLoads \/ ProcStatUnreadable
    \/ Tick \/ Hotplug \/ IowaitDip

\* The caller keeps calling the reader.
Fairness == WF_vars(InitProcStat \/ GetRecentCpuLoads)

Spec == Init /\ [][Next]_vars /\ Fairness

-----------------------------------------------------------------------------

TypeOK ==
    /\ now \in 0..MaxTime
    /\ online \subseteq Cpus /\ BootCpu \in online
    /\ pc \in {"init", "get"}
    /\ lastCall \in {"none", "ok", "failed"}
    /\ loads \in [Cpus -> [num : Int, den : Int]]
    \* a sample never holds more idle time than total time
    /\ \A c \in Cpus : prevTimes[c] = Missing
                        \/ (0 <= prevTimes[c].idleMs /\ prevTimes[c].idleMs <= prevTimes[c].totalMs)

\* A successful GetRecentCpuLoads reports, for every CPU listed, the share
\* of its jiffies since the previous successful sample that were idle or
\* iowait (spec 4.5), compared cross-multiplied.
LoadsMatchKernel ==
    [][(GetRecentCpuLoads /\ lastCall' = "ok") =>
         \A c \in online :
            LET since(k) == jiffies[c][k] - prevJ[c][k]
                idle == since("idle") + since("iowait")
                total == idle + since("busy")
            IN loads'[c].num * total = idle * loads'[c].den]_vars

\* Every load written to the output is a fraction in [0, 1] (spec section
\* 3, core_idle_frac): its denominator is not zero.
LoadsAreFractions ==
    \A c \in Cpus : loads[c].den > 0 /\ 0 <= loads[c].num /\ loads[c].num <= loads[c].den

\* A reader error is transient (spec section 7, TransientReaderError): after
\* a failed call, a later call succeeds.
ReaderRecovers == (lastCall = "failed") ~> (lastCall = "ok")

=============================================================================
