---------------------------- MODULE MCCpuProfiler ---------------------------
(* Instances of CpuProfiler for TLC: a short, a long and a capped duration. *)
EXTENDS CpuProfiler

ThreeDurations == {1, 2, 4}
=============================================================================
