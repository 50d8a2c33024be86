--------------------- MODULE MCCpuLoadReaderSysDevices ---------------------
(* Instances of CpuLoadReaderSysDevices for TLC. *)
EXTENDS CpuLoadReaderSysDevices

\* readdir of cpu0/cpuidle always has "." and ".."; two states with a
\* `time` file, as on the device.
MCListing == <<".", "..", "state0", "state1">>
\* A cpuidle directory without idle states (cpuidle driver with no states).
MCListingNoTime == <<".", "..">>
MCWallJumpsBack == {-2}
\* One setting of the clock, back or forward.
MCWallJumps == {-1, 2}
=============================================================================
