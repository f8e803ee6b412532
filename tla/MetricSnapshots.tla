--------------------------- MODULE MetricSnapshots --------------------------
(***************************************************************************)
(* The snapshots of all inspectors' metrics (inspector_snapshot.go).  The  *)
(* metrics are gathered first, each registry under its own lock and none   *)
(* of them under snapshotMu; numbering and storing hold snapshotMu.  Of    *)
(* the metrics the model has one that only grows (total_alloc_bytes, ...)  *)
(* and one that goes up and down (goroutine_count, ...).                   *)
(***************************************************************************)
EXTENDS Integers, Sequences, FiniteSets, SequencesExt, GoData

CONSTANTS SnapTakers,   \* goroutines that take snapshots
          Levels,       \* values of the metric that goes up and down
          SnapMax,      \* 50 snapshots
          MaxSnapshots, \* bound: snapshots taken
          MaxMeter      \* bound: growth of the other metric

ASSUME SnapAssumption ==
    /\ Levels \subseteq Int
    /\ SnapMax \in Nat \ {0} /\ MaxSnapshots \in Nat /\ MaxMeter \in Nat

VARIABLES
    snapshotSeq,
    snapshots,
    gathered,     \* the data each taker has gathered and not yet stored, if any
    meter,        \* the metric that only grows
    snapOverlap   \* some taker stored what it had gathered before another did (auxiliary)

snapVars == <<snapshotSeq, snapshots, gathered, meter, snapOverlap>>

Metrics == {"grows", "varies"}

\* The data of a snapshot, by metric; a gathering that panicked has none.
NoData   == [m \in {} |-> 0]
AllData  == {[m \in Metrics |-> IF m = "grows" THEN g ELSE v] : g \in 0..MaxMeter, v \in Levels}

SnapInit ==
    /\ snapshotSeq = 0
    /\ snapshots = <<>>
    /\ gathered = [t \in SnapTakers |-> {}]
    /\ meter = 0
    /\ snapOverlap = FALSE

Work ==
    /\ meter < MaxMeter
    /\ meter' = meter + 1
    /\ UNCHANGED <<snapshotSeq, snapshots, gathered, snapOverlap>>

\* gatherAllMetrics.
GatherAllMetrics(t, level) ==
    /\ gathered[t] = {}
    /\ gathered' = [gathered EXCEPT ![t] =
                      {[m \in Metrics |-> IF m = "grows" THEN meter ELSE level]}]
    /\ snapOverlap' = (snapOverlap \/ \E u \in SnapTakers : gathered[u] # {})
    /\ UNCHANGED <<snapshotSeq, snapshots, meter>>

\* A metric that panics: recover leaves no data at all, stored like any other.
GatherFails(t) ==
    /\ gathered[t] = {}
    /\ gathered' = [gathered EXCEPT ![t] = {NoData}]
    /\ snapOverlap' = (snapOverlap \/ \E u \in SnapTakers : gathered[u] # {})
    /\ UNCHANGED <<snapshotSeq, snapshots, meter>>

\* Mutant: the snapshots are cut before the new one is added.
KeptSnapshots_Before(s) == Append(Bounded(snapshots, SnapMax), s)

KeptSnapshots(s) == Bounded(Append(snapshots, s), SnapMax)

TakeSnapshot(t) ==
    /\ snapshotSeq < MaxSnapshots
    /\ \E data \in gathered[t] :
          snapshots' = KeptSnapshots([id |-> snapshotSeq + 1, data |-> data])
    /\ snapshotSeq' = snapshotSeq + 1
    /\ gathered' = [gathered EXCEPT ![t] = {}]
    /\ UNCHANGED <<meter, snapOverlap>>

SnapNext ==
    \/ Work
    \/ \E t \in SnapTakers :
          \/ \E level \in Levels : GatherAllMetrics(t, level)
          \/ GatherFails(t) \/ TakeSnapshot(t)

SnapSpec == SnapInit /\ [][SnapNext]_snapVars

-----------------------------------------------------------------------------
(* compare_snapshots and list_snapshots answer under the lock.             *)

\* toFloat64: what is missing counts as 0.
ValueOf(data, m) == IF m \in DOMAIN data THEN data[m] ELSE 0

\* compareSnapshotData: the metrics that differ, with what they differ by.
\* Mutant: only metrics that both snapshots have.
Compared_Both(d1, d2) == DOMAIN d1 \cap DOMAIN d2

Compared(d1, d2) == DOMAIN d1 \cup DOMAIN d2

Changes(d1, d2) ==
    [m \in {k \in Compared(d1, d2) : ValueOf(d1, k) # ValueOf(d2, k)} |->
        ValueOf(d2, m) - ValueOf(d1, m)]

SnapshotById(id) == SelectLastInSeq(snapshots, LAMBDA s : s.id = id)

CompareSnapshots(id1, id2) ==
    Changes(snapshots[SnapshotById(id1)].data, snapshots[SnapshotById(id2)].data)

ListSnapshots == [i \in DOMAIN snapshots |-> snapshots[i].id]

-----------------------------------------------------------------------------
(* Properties.                                                             *)

SnapTypeOK ==
    /\ snapshotSeq \in 0..MaxSnapshots
    /\ snapshots \in Seq([id : 1..MaxSnapshots, data : {NoData} \cup AllData])
    /\ gathered \in [SnapTakers -> SUBSET ({NoData} \cup AllData)]
    /\ meter \in 0..MaxMeter
    /\ snapOverlap \in BOOLEAN

\* The newest snapshots are kept under consecutive numbers, whoever takes them;
\* and while takers do not overlap a later number is a later reading: what only
\* grows has not shrunk.  (A taker that gathers early and stores late is
\* numbered after snapshots that are newer than its data.)
SnapshotsInOrder ==
    /\ Len(snapshots) = IF snapshotSeq < SnapMax THEN snapshotSeq ELSE SnapMax
    /\ \A i \in DOMAIN snapshots : ListSnapshots[i] = snapshotSeq - Len(snapshots) + i
    /\ ~snapOverlap =>
          \A i, j \in DOMAIN snapshots :
             i < j /\ "grows" \in DOMAIN snapshots[i].data \cap DOMAIN snapshots[j].data
                => snapshots[i].data["grows"] <= snapshots[j].data["grows"]

\* Comparisons add up: what changed from the first to the second and from the
\* second to the third has changed from the first to the third, also through a
\* snapshot without data.
ChangesAddUp ==
    \A i, j, k \in DOMAIN snapshots : \A m \in Metrics :
       ValueOf(CompareSnapshots(snapshots[i].id, snapshots[j].id), m)
         + ValueOf(CompareSnapshots(snapshots[j].id, snapshots[k].id), m)
         = ValueOf(CompareSnapshots(snapshots[i].id, snapshots[k].id), m)

\* Numbers and comparisons can be relied on.
SnapshotReportsRight == SnapshotsInOrder /\ ChangesAddUp
=============================================================================
