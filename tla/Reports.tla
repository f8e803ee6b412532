------------------------------- MODULE Reports ------------------------------
(***************************************************************************)
(* The reports that are made in one pass over data of several kinds: on    *)
(* pools of databases, on locks, on the functions of a CPU profile and on  *)
(* groups of goroutines.                                                   *)
(***************************************************************************)
EXTENDS PoolRisk, LockRisk, CpuFunctions, GoroutineGroups

\* Reports do not contradict themselves, nor what they were made of: a risk is
\* that of its worst finding (detect_pool_leaks), a deadlock that is waited in
\* is told (detect_deadlock), times and groups are those of the samples
\* (parseCPUProfile) and of the dump (groupGoroutineStacks).
ReportsAgree == WorstRiskWins /\ DeadlockTold /\ FunctionsRight /\ GroupsRight
=============================================================================
