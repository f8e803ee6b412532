--------------------------- MODULE InspectorProofs --------------------------
(***************************************************************************)
(* All inspectors and the scheduler beside each other.                     *)
(***************************************************************************)
EXTENDS Inspectors, RecorderProofs, ReportProofs

\* Whatever the inspectors and the jobs do beside each other, the state of each has its type.
THEOREM EveryTypeKept ==
    /\ Spec /\ BufSpec /\ LogSpec /\ LevelSpec /\ WsSpec /\ OutSpec
    /\ HeapSpec /\ SnapSpec /\ HealthSpec /\ CacheSpec /\ TestSpec
    /\ JobSpec /\ PoolSpec /\ LockSpec /\ FuncSpec /\ GroupSpec
    => []EveryTypeOK
<1>1. /\ TypeOK /\ BufTypeOK /\ LogTypeOK /\ LevelTypeOK
      /\ WsTypeOK /\ OutTypeOK /\ HeapTypeOK /\ SnapTypeOK /\ HealthTypeOK /\ CacheTypeOK /\ TestTypeOK
      /\ JobTypeOK /\ PoolTypeOK /\ LockTypeOK /\ FuncTypeOK /\ GroupTypeOK
      => EveryTypeOK
  BY DEF EveryTypeOK
<1> QED
  BY RecordTypesKept, WsTypesKept, OutTypesKept, HeapTypesKept, SnapTypesKept, HealthTypesKept,
     CacheTypesKept, TestTypesKept, SchedulerTypes, ReportTypesKept, <1>1, PTL
=============================================================================
