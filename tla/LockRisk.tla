------------------------------ MODULE LockRisk ------------------------------
(***************************************************************************)
(* detect_deadlock (inspector_locks.go): what it says of the goroutines'   *)
(* stacks.  What a stack shows depends on what the goroutine waits for     *)
(* and on GOTRACEBACK, without which the runtime's own frames are hidden.  *)
(***************************************************************************)
EXTENDS Integers, FiniteSets

CONSTANTS Goroutines

ASSUME GoroutinesAssumption == IsFiniteSet(Goroutines)

Waits == {"nothing", "mutex", "channel", "waitgroup", "semaphore"}

VARIABLES
    runtimeFrames,  \* GOTRACEBACK=system
    waitsFor        \* what each goroutine waits for

lockVars == <<runtimeFrames, waitsFor>>

LockInit ==
    /\ runtimeFrames \in BOOLEAN
    /\ waitsFor = [g \in Goroutines |-> "nothing"]

Sets(g, w) == waitsFor' = [waitsFor EXCEPT ![g] = w] /\ UNCHANGED runtimeFrames

LockNext ==
    \E g \in Goroutines :
       \/ waitsFor[g] = "nothing" /\ \E w \in Waits \ {"nothing"} : Sets(g, w)
       \/ waitsFor[g] # "nothing" /\ Sets(g, "nothing")

LockSpec == LockInit /\ [][LockNext]_lockVars

-----------------------------------------------------------------------------
(* The words that detectDeadlockPatterns looks for in a stack.             *)

Shows(g) ==
    (CASE waitsFor[g] = "mutex"     -> {"sync.(*Mutex)"}
       [] waitsFor[g] = "waitgroup" -> {"sync.(*WaitGroup)"}
       [] OTHER -> {})
    \cup (IF runtimeFrames
          THEN CASE waitsFor[g] = "channel" -> {"chanrecv"}
                 [] waitsFor[g] \in {"mutex", "waitgroup", "semaphore"} -> {"semacquire"}
                 [] OTHER -> {}
          ELSE {})

\* The state in the header names the semaphore if nothing more is known.
StateIsSemacquire(g) == waitsFor[g] = "semaphore"

Showing(word) == {g \in Goroutines : word \in Shows(g)}

BlockedOnMutex == Cardinality(Showing("sync.(*Mutex)"))

Flagged == {g \in Goroutines : \/ "sync.(*Mutex)" \in Shows(g)
                               \/ "semacquire" \in Shows(g) /\ StateIsSemacquire(g)}

RiskLevel == IF BlockedOnMutex >= 3 THEN "high"
             ELSE IF BlockedOnMutex >= 1 THEN "medium" ELSE "none"

\* Mutant: without the second condition.
NothingFound_NoFindings(findings) == findings = {}

NothingFound(findings) == findings = {} /\ BlockedOnMutex = 0

Findings ==
    LET found == {f \in {"potential_circular_wait", "semacquire_blocking", "channel_blocking"} :
                    CASE f = "potential_circular_wait" -> BlockedOnMutex >= 2
                      [] f = "semacquire_blocking"     -> Showing("semacquire") # {}
                      [] f = "channel_blocking"        -> Showing("chanrecv") # {}}
    IN  IF NothingFound(found) THEN {"no_deadlock_detected"} ELSE found

-----------------------------------------------------------------------------
(* Properties.                                                             *)

LockTypeOK ==
    /\ runtimeFrames \in BOOLEAN
    /\ waitsFor \in [Goroutines -> Waits]

\* The parts of a report do not contradict each other: it says that no deadlock
\* was detected only if nobody waits for a mutex and nobody is flagged, every
\* goroutine that waits for a mutex is flagged and raises the risk, and what
\* could be a circle of them is a finding, whatever the stacks show.
DeadlockTold ==
    LET waiting == {g \in Goroutines : waitsFor[g] = "mutex"}
    IN  /\ "no_deadlock_detected" \in Findings => waiting = {} /\ Flagged = {} /\ RiskLevel = "none"
        /\ waiting \subseteq Flagged
        /\ waiting # {} => RiskLevel # "none"
        /\ Cardinality(waiting) > 1 => "potential_circular_wait" \in Findings
        /\ Flagged # {} => RiskLevel # "none" \/ Findings # {}
=============================================================================
