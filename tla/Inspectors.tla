----------------------------- MODULE Inspectors -----------------------------
(***************************************************************************)
(* The inspectors that keep state, with their tools, and the scheduler,    *)
(* beside each other.  Each keeps its own; what a metric snapshot reads of *)
(* the others is in MetricSnapshots as the levels it finds.                *)
(***************************************************************************)
EXTENDS CpuProfiler, RecordBuffers, LogWriter, LoggerLevels, WebSocket, HeapSnapshots,
        MetricSnapshots, OutboundHttp, HealthChecks, CacheTools, EndpointTests,
        Scheduler, Reports

\* The type invariant of all of them: what each keeps is what its code can hold.
EveryTypeOK ==
    /\ TypeOK /\ BufTypeOK /\ LogTypeOK /\ LevelTypeOK /\ WsTypeOK /\ HeapTypeOK
    /\ SnapTypeOK /\ OutTypeOK /\ HealthTypeOK /\ CacheTypeOK /\ PoolTypeOK /\ LockTypeOK
    /\ TestTypeOK /\ JobTypeOK /\ FuncTypeOK /\ GroupTypeOK
=============================================================================
