------------------------------ MODULE PoolRisk ------------------------------
(***************************************************************************)
(* The reports on database pools (inspector_pool.go): heuristics that turn *)
(* the counters of sql.DB into issues, each database's issues into a risk, *)
(* and the risks into an overall one.  Each tool answers under the lock of *)
(* the registry.                                                           *)
(***************************************************************************)
EXTENDS Integers, Sequences, FiniteSets, SequencesExt, GoData

CONSTANTS DbNames,      \* a sequence: the tools go through the names in order
          MaxPoolSteps  \* bound: registrations and steps of the databases

ASSUME PoolAssumption == DbNames \in Seq(ToSet(DbNames)) /\ MaxPoolSteps \in Nat

VARIABLES
    pools,     \* sql.DB's counters by name; a set, empty for a nil database
    poolSteps

poolVars == <<pools, poolSteps>>

Unused == [maxOpen |-> 0, open |-> 0, inUse |-> 0, waitCount |-> 0, waited |-> 0,
           lifetimeClosed |-> 0, idleClosed |-> 0]

PoolInit == pools = <<>> /\ poolSteps = 0

PoolStep == poolSteps < MaxPoolSteps /\ poolSteps' = poolSteps + 1

RegisterDatabase(name, db) == PoolStep /\ pools' = Put(pools, name, db)

\* What a database does between two reports: a connection is taken, maybe after
\* a wait of so many seconds, or returned, or connections are closed and opened anew.
PoolChanges(s, waited, closed) ==
    {[s EXCEPT !.open = 1, !.inUse = 1], [s EXCEPT !.inUse = 0],
     [s EXCEPT !.open = 1, !.inUse = 1, !.waitCount = @ + 1, !.waited = @ + waited],
     [s EXCEPT !.lifetimeClosed = @ + closed], [s EXCEPT !.idleClosed = @ + closed]}

DatabaseRuns(name, waited, closed) ==
    /\ PoolStep
    /\ \E s \in pools[name] : \E t \in PoolChanges(s, waited, closed) :
          pools' = [pools EXCEPT ![name] = {t}]

PoolNext ==
    \E name \in ToSet(DbNames) :
       \/ \E db \in {{}, {Unused}, {[Unused EXCEPT !.maxOpen = 1]}} : RegisterDatabase(name, db)
       \/ /\ name \in DOMAIN pools
          /\ \E waited \in {1, 31}, closed \in {10, 11} : DatabaseRuns(name, waited, closed)

PoolSpec == PoolInit /\ [][PoolNext]_poolVars

-----------------------------------------------------------------------------
(* detect_pool_leaks.                                                      *)

\* The checks, in their order, with what each makes of the risk so far.
IfNone(risk, level) == IF risk = "none" THEN level ELSE risk

\* Mutant: as after the other checks, a saturated pool does not raise the risk.
AfterSaturation_IfNone(risk) == IfNone(risk, "high")

AfterSaturation(risk) == "high"

Checks(s) ==
    <<[type |-> "high_wait_ratio", severity |-> "warning",
       found |-> s.waitCount > 0 /\ s.open > 0 /\ 2 * s.waitCount > s.waitCount + s.open],
      [type |-> "long_wait_duration", severity |-> "warning", found |-> s.waited > 30],
      [type |-> "pool_saturation", severity |-> "critical",
       found |-> s.maxOpen > 0 /\ s.inUse = s.maxOpen /\ s.waitCount > 0],
      [type |-> "high_connection_churn", severity |-> "info",
       found |-> s.lifetimeClosed > 10 * s.open /\ s.open > 0],
      [type |-> "high_idle_churn", severity |-> "info",
       found |-> s.idleClosed > 10 * s.open /\ s.open > 0]>>

RiskAfter(risk, check) ==
    IF ~check.found THEN risk
    ELSE CASE check.type = "high_wait_ratio"    -> "elevated"
           [] check.type = "long_wait_duration" -> IfNone(risk, "elevated")
           [] check.type = "pool_saturation"    -> AfterSaturation(risk)
           [] OTHER                             -> IfNone(risk, "low")

Issues(s) == {check \in ToSet(Checks(s)) : check.found}

Risk(s) == FoldLeft(RiskAfter, "none", Checks(s))

\* The overall assessment; its loop ends at the first high risk, and a nil
\* database has none.
OverallAfter(overall, risk) ==
    IF overall = "high" \/ risk = "high" THEN "high"
    ELSE IF risk = "elevated" THEN "elevated"
    ELSE IF risk = "low" /\ overall = "none" THEN "low" ELSE overall

NoRisk == ""

RiskOf(name) == IF pools[name] = {} THEN NoRisk ELSE Risk(CHOOSE s \in pools[name] : TRUE)

Reported == Filtered(DbNames, {i \in DOMAIN DbNames : DbNames[i] \in DOMAIN pools})

OverallRisk == FoldLeft(OverallAfter, "none", [i \in DOMAIN Reported |-> RiskOf(Reported[i])])

\* get_pool_wait_stats, in thousandths of a second.
AvgWait(s) == IF s.waitCount > 0 THEN (1000 * s.waited) \div s.waitCount ELSE 0
P95Wait(s) == (AvgWait(s) * 5) \div 2
MaxWait(s) == IF AvgWait(s) = 0 THEN 1000 * s.waited ELSE AvgWait(s) * 5
Assessment(s) == IF s.open > 0 /\ 100 * s.waitCount > 10 * (s.waitCount + s.open)
                 THEN "high_wait_ratio" ELSE "normal"

-----------------------------------------------------------------------------
(* Properties.                                                             *)

PoolStats == [maxOpen : Nat, open : Nat, inUse : Nat, waitCount : Nat, waited : Nat,
              lifetimeClosed : Nat, idleClosed : Nat]

PoolTypeOK ==
    /\ DOMAIN pools \subseteq ToSet(DbNames)
    /\ \A name \in DOMAIN pools :
          /\ pools[name] \subseteq PoolStats /\ Cardinality(pools[name]) <= 1
          /\ \A s \in pools[name] : s.inUse <= s.open
    /\ poolSteps \in 0..MaxPoolSteps

Rank == [none |-> 0, low |-> 1, elevated |-> 2, high |-> 3]
Weight == [info |-> 1, warning |-> 2, critical |-> 3]

Worst(levels) == CHOOSE n \in levels \cup {0} : \A k \in levels \cup {0} : k <= n

\* A report never reads better than its parts, in whatever order they are found:
\* a database's risk is that of its worst issue, the overall risk is that of its
\* worst database, and the two tools do not contradict each other on waiting.
WorstRiskWins ==
    /\ \A name \in DOMAIN pools : \A s \in pools[name] :
          /\ Rank[Risk(s)] = Worst({Weight[i.severity] : i \in Issues(s)})
          /\ AvgWait(s) <= P95Wait(s) /\ P95Wait(s) <= MaxWait(s)
          /\ "high_wait_ratio" \in {i.type : i \in Issues(s)}
                => Assessment(s) = "high_wait_ratio"
    /\ Rank[OverallRisk] =
          Worst({Rank[RiskOf(name)] : name \in {n \in DOMAIN pools : pools[n] # {}}})
=============================================================================
