---------------------------- MODULE HeapSnapshots ---------------------------
(***************************************************************************)
(* The heap leak detector (inspector_leak.go).  Chats call its tools from  *)
(* goroutines of their own.  A snapshot is numbered and read without the   *)
(* lock, then stored under it; the numbering is a load, a store and, for   *)
(* the id, another load, which two takers may interleave.  A heap class    *)
(* ("type" in the tools) is a model value.                                 *)
(***************************************************************************)
EXTENDS Integers, Sequences, FiniteSets, SequencesExt, GoData

CONSTANTS HeapTakers,   \* goroutines that take snapshots
          HeapClasses,  \* memory classes
          HeapBytes,    \* sizes a class is found to have
          HeapMax,      \* 50 snapshots
          MaxHeapTakes  \* bound: snapshots taken

ASSUME HeapAssumption ==
    HeapBytes \subseteq Nat /\ HeapMax \in Nat \ {0} /\ MaxHeapTakes \in Nat

VARIABLES
    heapSnapshotSeq,
    heapSnapshots,
    heapTaker,    \* where each goroutine is in captureHeapSnapshot
    heapTakes,    \* calls so far, for the bound and the order of the readings
    heapOverlap   \* some call began while another was under way (auxiliary)

heapVars == <<heapSnapshotSeq, heapSnapshots, heapTaker, heapTakes, heapOverlap>>

Resting == [at |-> "rest"]

HeapInit ==
    /\ heapSnapshotSeq = 0
    /\ heapSnapshots = <<>>
    /\ heapTaker = [t \in HeapTakers |-> Resting]
    /\ heapTakes = 0
    /\ heapOverlap = FALSE

\* heapSnapshotSeq++ loads ...
LoadHeapSeq(t) ==
    /\ heapTaker[t] = Resting
    /\ heapTakes < MaxHeapTakes
    /\ heapTakes' = heapTakes + 1
    /\ heapTaker' = [heapTaker EXCEPT ![t] = [at |-> "load", seq |-> heapSnapshotSeq]]
    /\ heapOverlap' = (heapOverlap \/ \E u \in HeapTakers \ {t} : heapTaker[u] # Resting)
    /\ UNCHANGED <<heapSnapshotSeq, heapSnapshots>>

\* ... and stores.
\* Mutant: the number is taken and not counted.
Counted_Not(t) == heapSnapshotSeq

Counted(t) == heapTaker[t].seq + 1

StoreHeapSeq(t) ==
    /\ heapTaker[t].at = "load"
    /\ heapSnapshotSeq' = Counted(t)
    /\ heapTaker' = [heapTaker EXCEPT ![t] = [at |-> "store"]]
    /\ UNCHANGED <<heapSnapshots, heapTakes, heapOverlap>>

\* The id is made from the shared number; ReadMemStats and metrics.Read follow.
CaptureHeap(t, bytes) ==
    /\ heapTaker[t].at = "store"
    /\ heapTaker' = [heapTaker EXCEPT ![t] =
                       [at |-> "captured", id |-> heapSnapshotSeq, bytes |-> bytes]]
    /\ UNCHANGED <<heapSnapshotSeq, heapSnapshots, heapTakes, heapOverlap>>

\* Under the lock; the last 50 are kept.
KeepHeap(t) ==
    /\ heapTaker[t].at = "captured"
    /\ heapSnapshots' = Bounded(Append(heapSnapshots, [id    |-> heapTaker[t].id,
                                                       bytes |-> heapTaker[t].bytes]), HeapMax)
    /\ heapTaker' = [heapTaker EXCEPT ![t] = Resting]
    /\ UNCHANGED <<heapSnapshotSeq, heapTakes, heapOverlap>>

HeapNext ==
    \E t \in HeapTakers :
       \/ LoadHeapSeq(t) \/ StoreHeapSeq(t) \/ KeepHeap(t)
       \/ \E bytes \in [HeapClasses -> HeapBytes] : CaptureHeap(t, bytes)

HeapSpec == HeapInit /\ [][HeapNext]_heapVars

-----------------------------------------------------------------------------
(* compare_heap_snapshots and get_leak_candidates answer under the lock.   *)

KnownHeapIds == {heapSnapshots[i].id : i \in DOMAIN heapSnapshots}

\* The scan does not stop at a match: the last one of an id is compared.
HeapById(id) == SelectLastInSeq(heapSnapshots, LAMBDA s : s.id = id)

\* Rounded down here.
GrowthPercent(first, last) ==
    IF first > 0 THEN (100 * (last - first)) \div first ELSE IF last > 0 THEN 100 ELSE 0

CompareHeap(id1, id2) ==
    LET b1 == heapSnapshots[HeapById(id1)].bytes
        b2 == heapSnapshots[HeapById(id2)].bytes
    IN  [c \in HeapClasses |-> [bytes |-> b2[c] - b1[c], percent |-> GrowthPercent(b1[c], b2[c])]]

\* The flag of detectLeakCandidates: set by a growth, cleared by a loss, and
\* so decided by the last change.
\* Mutant: a loss does not clear it.
AfterStep_Sticky(grows, before, b) == b > before \/ grows

AfterStep(grows, before, b) == IF b > before THEN TRUE ELSE IF b < before THEN FALSE ELSE grows

MonotonicGrowth(b) ==
    FoldLeft(LAMBDA grows, i : AfterStep(grows, b[i], b[i + 1]),
             FALSE, [i \in 1..Len(b) - 1 |-> i])

BytesOf(c) == [i \in DOMAIN heapSnapshots |-> heapSnapshots[i].bytes[c]]

\* growthPct > 50; growth from nothing is 100.
Significant(first, last) == first > 0 => 2 * (last - first) > first

Severity(b) ==
    IF MonotonicGrowth(b) THEN "high"
    ELSE IF Significant(b[1], b[Len(b)]) THEN "medium" ELSE "low"

\* Only classes that have grown from the first snapshot to the last.
LeakCandidates ==
    LET suspects == {c \in HeapClasses : BytesOf(c)[Len(heapSnapshots)] > BytesOf(c)[1]}
    IN  [c \in suspects |-> Severity(BytesOf(c))]

-----------------------------------------------------------------------------
(* Properties.                                                             *)

HeapTypeOK ==
    /\ heapSnapshotSeq \in 0..MaxHeapTakes
    /\ heapSnapshots \in Seq([id : 0..MaxHeapTakes, bytes : [HeapClasses -> HeapBytes]])
    /\ Len(heapSnapshots) <= HeapMax
    /\ heapTaker \in [HeapTakers -> {Resting} \cup [at : {"load"}, seq : 0..MaxHeapTakes]
                        \cup [at : {"store"}]
                        \cup [at : {"captured"}, id : 0..MaxHeapTakes,
                              bytes : [HeapClasses -> HeapBytes]]]
    /\ heapTakes \in 0..MaxHeapTakes
    /\ heapOverlap \in BOOLEAN

\* While takers do not overlap an id names one snapshot, and the buffer is in
\* the order of the ids, so that a comparison is about the snapshots it names.
\* (Two takers at once may get one id.)
HeapIdsTell ==
    ~heapOverlap =>
        /\ \A i, j \in DOMAIN heapSnapshots : i < j => heapSnapshots[i].id < heapSnapshots[j].id
        /\ \A i \in DOMAIN heapSnapshots : HeapById(heapSnapshots[i].id) = i

NeverShrank(b) == \A i \in 1..Len(b) - 1 : b[i] <= b[i + 1]

\* The last change is a growth.
GrewLast(b) ==
    \E i \in 1..Len(b) - 1 : b[i] < b[i + 1] /\ \A j \in i + 1..Len(b) - 1 : b[j] = b[j + 1]

\* The report of leaks follows from the snapshots: the suspects are the classes
\* that end above where they began, one that never shrank is "high", a "high" one
\* grew at its last change, and of the others "medium" ones grew by more than
\* half.  Comparing the first snapshot with the last tells the same growth.
LeaksFollow ==
    Len(heapSnapshots) >= 2 =>
        \A c \in HeapClasses :
            LET b == BytesOf(c)
                n == Len(b)
            IN  /\ c \in DOMAIN LeakCandidates <=> b[n] > b[1]
                /\ c \in DOMAIN LeakCandidates =>
                      /\ NeverShrank(b) => LeakCandidates[c] = "high"
                      /\ LeakCandidates[c] = "high" => GrewLast(b)
                      /\ LeakCandidates[c] = "medium" => 2 * b[n] > 3 * b[1]
                      /\ LeakCandidates[c] = "low" => 2 * b[n] <= 3 * b[1]
                /\ HeapIdsTell /\ ~heapOverlap =>
                      CompareHeap(heapSnapshots[1].id, heapSnapshots[n].id)[c].bytes = b[n] - b[1]

\* Ids name snapshots, and the reports follow from the snapshots (get_leak_candidates,
\* compare_heap_snapshots).
HeapReportsRight == HeapIdsTell /\ LeaksFollow

\* What the tool says of a "high" suspect ("Monotonic growth across all
\* snapshots"): it never shrank.  The code does not keep to it: the flag is
\* decided by the last change alone.
MonotonicThroughout ==
    Len(heapSnapshots) >= 2 =>
        \A c \in DOMAIN LeakCandidates : LeakCandidates[c] = "high" => NeverShrank(BytesOf(c))
=============================================================================
