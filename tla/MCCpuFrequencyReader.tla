------------------------ MODULE MCCpuFrequencyReader ------------------------
(* Pixel 6 has three policies, over cores 0-3, 4-5 and 6-7; the cpufreq    *)
(* directory lists them in readdir order beside other entries.  Each      *)
(* policy has two frequencies but the last, which has one.                 *)
EXTENDS CpuFrequencyReader

MCListing == <<"policy4", "schedutil", "policy0", "policy6">>
MCPolicyIdOf == ("policy0" :> 0) @@ ("policy4" :> 4) @@ ("policy6" :> 6)
MCFreqTable == (0 :> {1, 3}) @@ (4 :> {2, 5}) @@ (6 :> {4})
====
