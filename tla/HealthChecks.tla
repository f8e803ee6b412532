---------------------------- MODULE HealthChecks ----------------------------
(***************************************************************************)
(* The registry of health checks (inspector_health.go).  The tools hold    *)
(* the read lock while they run the application's checks.  The lock is     *)
(* Go's RWMutex: a writer that waits keeps new readers out, also one that  *)
(* reads already.  So a check that registers a check, or asks for the      *)
(* health itself while somebody registers one, never returns.              *)
(***************************************************************************)
EXTENDS Integers, FiniteSets, GoData

CONSTANTS HealthTools,      \* goroutines that run a health tool
          HealthRegistrars, \* goroutines that register a check
          CheckNames,
          MaxHealthCalls    \* bound: registrations and tool calls

ASSUME HealthAssumption == MaxHealthCalls \in Nat

\* What a check does: it answers a status, panics, is nil, or re-enters.
CheckKinds == {"UP", "DOWN", "", "panic", "nil", "registers", "asks"}

VARIABLES
    healthChecks,  \* the kind of each registered check
    asking,        \* where each tool call is
    enrolling,     \* what each registrar waits to register
    report,        \* the last report
    healthCalls

healthVars == <<healthChecks, asking, enrolling, report, healthCalls>>

NotAsking    == [at |-> "none"]
NotEnrolling == [name |-> "none", kind |-> ""]
NoReport     == [tool |-> "none"]

HealthInit ==
    /\ healthChecks = <<>>
    /\ asking = [g \in HealthTools |-> NotAsking]
    /\ enrolling = [u \in HealthRegistrars |-> NotEnrolling]
    /\ report = NoReport
    /\ healthCalls = 0

-----------------------------------------------------------------------------
(* The lock.                                                               *)

Reads(g) == asking[g].at \in {"checks", "registers", "asks"}

WriterWaits ==
    \/ \E u \in HealthRegistrars : enrolling[u] # NotEnrolling
    \/ \E g \in HealthTools : asking[g].at = "registers"

-----------------------------------------------------------------------------
(* RegisterHealthCheck.                                                    *)

EnrollCheck(u, name, kind) ==
    /\ enrolling[u] = NotEnrolling
    /\ healthCalls < MaxHealthCalls
    /\ healthCalls' = healthCalls + 1
    /\ enrolling' = [enrolling EXCEPT ![u] = [name |-> name, kind |-> kind]]
    /\ report' = NoReport
    /\ UNCHANGED <<healthChecks, asking>>

\* Mutants: it does not wait for readers; it waits for those that wait, too.
MayWrite_Always == TRUE

MayWrite_AfterAll == \A g \in HealthTools : asking[g].at = "none"

MayWrite == \A g \in HealthTools : ~Reads(g)

RegisterHealthCheck(u) ==
    /\ enrolling[u] # NotEnrolling
    /\ MayWrite
    /\ healthChecks' = Put(healthChecks, enrolling[u].name, enrolling[u].kind)
    /\ enrolling' = [enrolling EXCEPT ![u] = NotEnrolling]
    /\ report' = NoReport
    /\ UNCHANGED <<asking, healthCalls>>

-----------------------------------------------------------------------------
(* get_health_status and run_health_check run all checks, in the map's     *)
(* order, which is any; get_health_detail and run_health_check run one.    *)

AskHealth(g, names) ==
    /\ asking[g].at = "none"
    /\ healthCalls < MaxHealthCalls
    /\ healthCalls' = healthCalls + 1
    /\ asking' = [asking EXCEPT ![g] = [at |-> "waits", names |-> names]]
    /\ report' = NoReport
    /\ UNCHANGED <<healthChecks, enrolling>>

\* RLock.  With no such check the tool says so and is done.
BeginChecks(g) ==
    /\ asking[g].at = "waits"
    /\ ~WriterWaits
    /\ LET known == asking[g].names \cap DOMAIN healthChecks
       IN  asking' = [asking EXCEPT ![g] =
             IF known = {} THEN NotAsking
             ELSE [at |-> "checks", left |-> known, statuses |-> <<>>,
                   overall |-> "UP", up |-> 0, down |-> 0]]
    /\ report' = NoReport
    /\ UNCHANGED <<healthChecks, enrolling, healthCalls>>

\* executeHealthCheck.
StatusOf(kind) == CASE kind = "panic" -> "DOWN"
                    [] kind \in {"nil", ""} -> "UNKNOWN"
                    [] kind = "asks" -> "UP"
                    [] OTHER -> kind

\* The loop's tallies.
\* Mutant: only a check that is down degrades.
Tallied_OnlyDown(a, name, status) ==
    [a EXCEPT !.left = @ \ {name}, !.statuses = Put(@, name, status),
              !.up = IF status = "UP" THEN @ + 1 ELSE @,
              !.down = IF status = "DOWN" THEN @ + 1 ELSE @,
              !.overall = IF status = "DOWN" THEN "DEGRADED" ELSE @]

Tallied(a, name, status) ==
    [a EXCEPT !.left = @ \ {name}, !.statuses = Put(@, name, status),
              !.up = IF status = "UP" THEN @ + 1 ELSE @,
              !.down = IF status # "UP" THEN @ + 1 ELSE @,
              !.overall = IF status # "UP" THEN "DEGRADED" ELSE @]

\* A check that asks for the health returns if no writer waits.
RunCheck(g, name) ==
    /\ asking[g].at = "checks" /\ name \in asking[g].left
    /\ healthChecks[name] # "registers"
    /\ healthChecks[name] = "asks" => ~WriterWaits
    /\ asking' = [asking EXCEPT ![g] = Tallied(@, name, StatusOf(healthChecks[name]))]
    /\ report' = NoReport
    /\ UNCHANGED <<healthChecks, enrolling, healthCalls>>

\* A check that waits for the lock its caller holds.
Reenters(g, name) ==
    /\ asking[g].at = "checks" /\ name \in asking[g].left
    /\ \/ healthChecks[name] = "registers"
       \/ healthChecks[name] = "asks" /\ WriterWaits
    /\ asking' = [asking EXCEPT ![g].at = healthChecks[name]]
    /\ report' = NoReport
    /\ UNCHANGED <<healthChecks, enrolling, healthCalls>>

ReportHealth(g) ==
    /\ asking[g].at = "checks" /\ asking[g].left = {}
    /\ report' = [tool |-> g, statuses |-> asking[g].statuses,
                  overall |-> IF asking[g].down > 0 /\ asking[g].up = 0 THEN "DOWN"
                              ELSE asking[g].overall,
                  total |-> Cardinality(DOMAIN healthChecks)]
    /\ asking' = [asking EXCEPT ![g] = NotAsking]
    /\ UNCHANGED <<healthChecks, enrolling, healthCalls>>

HealthNext ==
    \/ \E u \in HealthRegistrars :
          \/ \E name \in CheckNames, kind \in CheckKinds : EnrollCheck(u, name, kind)
          \/ RegisterHealthCheck(u)
    \/ \E g \in HealthTools :
          \/ AskHealth(g, CheckNames)
          \/ \E name \in CheckNames :
                AskHealth(g, {name}) \/ RunCheck(g, name) \/ Reenters(g, name)
          \/ BeginChecks(g) \/ ReportHealth(g)

HealthSpec == HealthInit /\ [][HealthNext]_healthVars

\* Goroutines that can go on do, and get the lock when it is free.
Answering(g) ==
    BeginChecks(g) \/ ReportHealth(g) \/ \E name \in CheckNames : RunCheck(g, name) \/ Reenters(g, name)

HealthFairSpec ==
    /\ HealthSpec
    /\ \A u \in HealthRegistrars : WF_healthVars(RegisterHealthCheck(u))
    /\ \A g \in HealthTools : WF_healthVars(Answering(g))

-----------------------------------------------------------------------------
(* Properties.                                                             *)

HealthTypeOK ==
    /\ DOMAIN healthChecks \subseteq CheckNames
    /\ \A name \in DOMAIN healthChecks : healthChecks[name] \in CheckKinds
    /\ \A g \in HealthTools :
          /\ asking[g].at \in {"none", "waits", "checks", "registers", "asks"}
          /\ Reads(g) => asking[g].left \cup DOMAIN asking[g].statuses \subseteq CheckNames
    /\ \A u \in HealthRegistrars :
          enrolling[u] \in {NotEnrolling} \cup [name : CheckNames, kind : CheckKinds]
    /\ healthCalls \in 0..MaxHealthCalls

\* A report is of one state of the registry, whatever is registered meanwhile:
\* it gives each of its checks the status that this check has, and the overall
\* status sums them up.  A check that panics, is nil or says nothing is not up.
ReportTells ==
    report # NoReport =>
        LET ok == {name \in DOMAIN report.statuses : report.statuses[name] = "UP"}
        IN  /\ \A name \in DOMAIN report.statuses :
                  /\ name \in DOMAIN healthChecks
                  /\ name \in ok <=> healthChecks[name] \in {"UP", "asks"}
            /\ report.overall = "UP" <=> ok = DOMAIN report.statuses
            /\ report.overall = "DOWN" <=> ok = {}
            /\ Cardinality(DOMAIN report.statuses) <= report.total

Reentered(g) == asking[g].at \in {"registers", "asks"}

\* Every tool that was asked answers, and what is registered takes effect,
\* unless some check has re-entered the registry: however readers and writers
\* queue for the lock, nothing else makes them wait for each other.  (There are
\* MaxHealthCalls calls, so in the end all have been answered.)
HealthAnswers ==
    []<>(\/ \E g \in HealthTools : Reentered(g)
         \/ /\ \A g \in HealthTools : asking[g] = NotAsking
            /\ \A u \in HealthRegistrars : enrolling[u] = NotEnrolling)
=============================================================================
