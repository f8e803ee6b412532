----------------------------- MODULE ReportProofs ---------------------------
(***************************************************************************)
(* What the inspectors find when they are asked, for any number of callers *)
(* and registrations: health checks, caches, the routes of the registered  *)
(* engines, and the snapshots of the metrics and of the heap.              *)
(***************************************************************************)
EXTENDS HealthChecks, CacheTools, EndpointTests, MetricSnapshots, HeapSnapshots, Reports,
        GoDataProofs

-----------------------------------------------------------------------------
(* Health checks.                                                          *)

\* What a tool that holds the read lock knows of the registry: the checks it
\* has run and those left are registered, a status is that of the check, and
\* the tallies tell whether a check was up, and whether one was not.
Tallies(a) ==
    LET ran == DOMAIN a.statuses
    IN  /\ DOMAIN a = {"at", "left", "statuses", "overall", "up", "down"}
        /\ a.left \cup ran \subseteq DOMAIN healthChecks
        /\ a.left \cup ran # {}
        /\ \A name \in ran : a.statuses[name] = StatusOf(healthChecks[name])
        /\ a.up \in Nat /\ a.down \in Nat
        /\ a.up > 0 <=> \E name \in ran : a.statuses[name] = "UP"
        /\ a.down > 0 <=> \E name \in ran : a.statuses[name] # "UP"
        /\ a.overall = IF a.down > 0 THEN "DEGRADED" ELSE "UP"

AskingTold == \A g \in HealthTools : Reads(g) => Tallies(asking[g])

HealthInv == /\ IsFiniteSet(DOMAIN healthChecks)
             /\ DOMAIN asking = HealthTools
             /\ AskingTold
             /\ ReportTells

\* No check is registered, no tool runs and nothing is reported at first.
LEMMA InitHealth == HealthInit => HealthInv
<1> SUFFICES ASSUME HealthInit PROVE HealthInv
  OBVIOUS
<1>1. DOMAIN healthChecks = {}
  BY DEF HealthInit
<1>2. IsFiniteSet(DOMAIN healthChecks)
  BY <1>1, FS_EmptySet
<1>3. \A g \in HealthTools : ~Reads(g)
  BY DEF HealthInit, Reads, NotAsking
<1>4. DOMAIN asking = HealthTools /\ report = NoReport
  BY DEF HealthInit
<1> QED
  BY <1>2, <1>3, <1>4 DEF HealthInv, AskingTold, ReportTells

\* A status is "UP" exactly when the check says so, or asks and is answered.
LEMMA UpStatus == \A kind : StatusOf(kind) = "UP" <=> kind \in {"UP", "asks"}
  BY DEF StatusOf

\* A run check leaves tallies that tell of it, too.
LEMMA TalliedTells ==
    ASSUME NEW a, Tallies(a), NEW name \in a.left
    PROVE  Tallies(Tallied(a, name, StatusOf(healthChecks[name])))
<1> DEFINE status == StatusOf(healthChecks[name])
           b == Tallied(a, name, status)
           ran == DOMAIN a.statuses
<1>1. /\ b.left = a.left \ {name}
      /\ b.statuses = Put(a.statuses, name, status)
      /\ b.up = IF status = "UP" THEN a.up + 1 ELSE a.up
      /\ b.down = IF status # "UP" THEN a.down + 1 ELSE a.down
      /\ b.overall = IF status # "UP" THEN "DEGRADED" ELSE a.overall
      /\ DOMAIN b = DOMAIN a
  BY DEF Tallied, Tallies
<1>2. /\ DOMAIN b.statuses = ran \cup {name}
      /\ b.statuses[name] = status
      /\ \A n \in ran : b.statuses[n] = IF n = name THEN status ELSE a.statuses[n]
  BY <1>1 DEF Put
<1>3. \A n \in ran : b.statuses[n] = a.statuses[n]
  BY <1>2 DEF Tallies
<1> HIDE DEF b, status
<1>4. \A n \in ran \cup {name} : b.statuses[n] = StatusOf(healthChecks[n])
  BY <1>2, <1>3 DEF Tallies, status
<1>5. b.left \cup DOMAIN b.statuses = a.left \cup ran
  BY <1>1, <1>2
<1>6. b.up \in Nat /\ b.down \in Nat
  BY <1>1 DEF Tallies
<1>7. b.up > 0 <=> \E n \in DOMAIN b.statuses : b.statuses[n] = "UP"
  <2>1. CASE status = "UP"
    <3>1. b.up > 0
      BY <1>1, <2>1 DEF Tallies
    <3> QED
      BY <1>2, <2>1, <3>1
  <2>2. CASE status # "UP"
    <3>1. b.up = a.up
      BY <1>1, <2>2
    <3>2. (\E n \in DOMAIN b.statuses : b.statuses[n] = "UP") <=> \E n \in ran : a.statuses[n] = "UP"
      BY <1>2, <1>3, <2>2
    <3> QED
      BY <3>1, <3>2 DEF Tallies
  <2> QED
    BY <2>1, <2>2
<1>8. b.down > 0 <=> \E n \in DOMAIN b.statuses : b.statuses[n] # "UP"
  <2>1. CASE status # "UP"
    <3>1. b.down > 0
      BY <1>1, <2>1 DEF Tallies
    <3> QED
      BY <1>2, <2>1, <3>1
  <2>2. CASE status = "UP"
    <3>1. b.down = a.down
      BY <1>1, <2>2
    <3>2. (\E n \in DOMAIN b.statuses : b.statuses[n] # "UP") <=> \E n \in ran : a.statuses[n] # "UP"
      BY <1>2, <1>3, <2>2
    <3> QED
      BY <3>1, <3>2 DEF Tallies
  <2> QED
    BY <2>1, <2>2
<1>9. b.overall = IF b.down > 0 THEN "DEGRADED" ELSE "UP"
  BY <1>1 DEF Tallies
<1> QED
  BY <1>1, <1>2, <1>4, <1>5, <1>6, <1>7, <1>8, <1>9 DEF Tallies, b, status

\* A report made of such tallies tells of the registry as it is.
LEMMA ReportIsTrue ==
    ASSUME HealthInv, NEW g \in HealthTools, ReportHealth(g)
    PROVE  ReportTells'
<1> DEFINE a == asking[g]
           ran == DOMAIN a.statuses
           ok == {name \in ran : a.statuses[name] = "UP"}
<1>1. Tallies(a) /\ a.left = {} /\ healthChecks' = healthChecks
  BY DEF HealthInv, AskingTold, ReportHealth, Reads
<1>2. report' = [tool |-> g, statuses |-> a.statuses,
                 overall |-> IF a.down > 0 /\ a.up = 0 THEN "DOWN" ELSE a.overall,
                 total |-> Cardinality(DOMAIN healthChecks)]
  BY DEF ReportHealth
<1> HIDE DEF a
<1>3. ran \subseteq DOMAIN healthChecks /\ ran # {}
  BY <1>1 DEF Tallies
<1>4. \A name \in ran : name \in ok <=> healthChecks[name] \in {"UP", "asks"}
  BY <1>1, UpStatus DEF Tallies
<1>5. Cardinality(ran) <= Cardinality(DOMAIN healthChecks)
  BY <1>3, FS_Subset DEF HealthInv
<1>6. a.up \in Nat /\ a.down \in Nat /\ (a.up > 0 <=> ok # {}) /\ (a.down > 0 <=> ok # ran)
      /\ a.overall = IF a.down > 0 THEN "DEGRADED" ELSE "UP"
  BY <1>1 DEF Tallies
<1> HIDE DEF ok, ran
<1>7. (report'.overall = "UP" <=> ok = ran) /\ (report'.overall = "DOWN" <=> ok = {})
  BY <1>2, <1>3, <1>6 DEF ok
<1>8. report'.statuses = a.statuses /\ report'.total = Cardinality(DOMAIN healthChecks)
  BY <1>2
<1>9. ok = {name \in DOMAIN report'.statuses : report'.statuses[name] = "UP"}
      /\ ran = DOMAIN report'.statuses
  BY <1>8 DEF ok, ran
<1> QED
  BY <1>1, <1>3, <1>4, <1>5, <1>7, <1>8, <1>9 DEF ReportTells

\* Every step keeps the invariant.  A registration waits until no tool reads;
\* every other step leaves the registry alone and is about one tool.
LEMMA StepKeepsHealth == HealthInv /\ [HealthNext]_healthVars => HealthInv'
<1> SUFFICES ASSUME HealthInv, [HealthNext]_healthVars PROVE HealthInv'
  OBVIOUS
<1> USE DEF HealthInv
<1>1. ASSUME report' = NoReport PROVE ReportTells'
  BY <1>1 DEF ReportTells
<1>2. ASSUME NEW g \in HealthTools, NEW next,
             asking' = [asking EXCEPT ![g] = next],
             next.at \in {"checks", "registers", "asks"} => Tallies(next),
             UNCHANGED healthChecks
      PROVE  DOMAIN asking' = HealthTools /\ AskingTold'
  <2>1. DOMAIN asking' = HealthTools
    BY <1>2
  <2>2. ASSUME NEW h \in HealthTools, Reads(h)' PROVE Tallies(asking[h])'
    <3>1. CASE h = g
      <4>1. asking'[h] = next
        BY <1>2, <3>1
      <4> QED
        BY <1>2, <2>2, <4>1 DEF Reads, Tallies
    <3>2. CASE h # g
      <4>1. asking'[h] = asking[h]
        BY <1>2, <3>2
      <4>2. Tallies(asking[h])
        BY <2>2, <4>1 DEF Reads, AskingTold
      <4> QED
        BY <1>2, <4>1, <4>2 DEF Tallies
    <3> QED
      BY <3>1, <3>2
  <2> QED
    BY <2>1, <2>2 DEF AskingTold
<1>3. ASSUME NEW u \in HealthRegistrars, RegisterHealthCheck(u) PROVE HealthInv'
  <2>1. /\ healthChecks' = Put(healthChecks, enrolling[u].name, enrolling[u].kind)
        /\ UNCHANGED asking /\ report' = NoReport
        /\ \A g \in HealthTools : ~Reads(g)
    BY <1>3 DEF RegisterHealthCheck, MayWrite
  <2>2. DOMAIN healthChecks' = DOMAIN healthChecks \cup {enrolling[u].name}
    BY <2>1 DEF Put
  <2>3. IsFiniteSet(DOMAIN healthChecks')
    BY <2>2, FS_AddElement
  <2>4. AskingTold'
    BY <2>1 DEF AskingTold, Reads
  <2> QED
    BY <1>1, <2>1, <2>3, <2>4
<1>4. ASSUME NEW u \in HealthRegistrars, NEW name \in CheckNames, NEW kind \in CheckKinds,
             EnrollCheck(u, name, kind)
      PROVE  HealthInv'
  <2>1. UNCHANGED <<healthChecks, asking>> /\ report' = NoReport
    BY <1>4 DEF EnrollCheck
  <2> QED
    BY <1>1, <2>1 DEF AskingTold, Reads, Tallies
<1>5. ASSUME NEW g \in HealthTools, NEW names, AskHealth(g, names) PROVE HealthInv'
  <2>1. asking' = [asking EXCEPT ![g] = [at |-> "waits", names |-> names]]
        /\ UNCHANGED healthChecks /\ report' = NoReport
    BY <1>5 DEF AskHealth
  <2> QED
    BY <1>1, <1>2, <2>1
<1>6. ASSUME NEW g \in HealthTools, BeginChecks(g) PROVE HealthInv'
  <2> DEFINE known == asking[g].names \cap DOMAIN healthChecks
             begun == [at |-> "checks", left |-> known, statuses |-> <<>>,
                       overall |-> "UP", up |-> 0, down |-> 0]
  <2>1. asking' = [asking EXCEPT ![g] = IF known = {} THEN NotAsking ELSE begun]
        /\ UNCHANGED healthChecks /\ report' = NoReport
    BY <1>6 DEF BeginChecks
  <2>2. known # {} => Tallies(begun)
    BY DEF Tallies
  <2> HIDE DEF known, begun
  <2>3. CASE known = {}
    <3>1. asking' = [asking EXCEPT ![g] = NotAsking] /\ UNCHANGED healthChecks
      BY <2>1, <2>3
    <3>2. NotAsking.at \notin {"checks", "registers", "asks"}
      BY DEF NotAsking
    <3>3. DOMAIN asking' = HealthTools /\ AskingTold'
      BY <1>2, <3>1, <3>2
    <3> QED
      BY <1>1, <2>1, <3>3
  <2>4. CASE known # {}
    BY <1>1, <1>2, <2>1, <2>2, <2>4
  <2> QED
    BY <2>3, <2>4
<1>7. ASSUME NEW g \in HealthTools, NEW name \in CheckNames, RunCheck(g, name) PROVE HealthInv'
  <2> DEFINE next == Tallied(asking[g], name, StatusOf(healthChecks[name]))
  <2>1. asking' = [asking EXCEPT ![g] = next]
        /\ UNCHANGED healthChecks /\ report' = NoReport
    BY <1>7 DEF RunCheck
  <2>2. Tallies(asking[g]) /\ name \in asking[g].left
    BY <1>7 DEF RunCheck, AskingTold, Reads
  <2>3. Tallies(next)
    BY <2>2, TalliedTells
  <2> HIDE DEF next
  <2> QED
    BY <1>1, <1>2, <2>1, <2>3
<1>8. ASSUME NEW g \in HealthTools, NEW name \in CheckNames, Reenters(g, name) PROVE HealthInv'
  <2> DEFINE next == [asking[g] EXCEPT !.at = healthChecks[name]]
  <2>1. asking' = [asking EXCEPT ![g] = next]
        /\ UNCHANGED healthChecks /\ report' = NoReport
    BY <1>8 DEF Reenters
  <2>2. Tallies(asking[g])
    BY <1>8 DEF Reenters, AskingTold, Reads
  <2>3. Tallies(next)
    BY <2>2 DEF Tallies
  <2> HIDE DEF next
  <2> QED
    BY <1>1, <1>2, <2>1, <2>3
<1>9. ASSUME NEW g \in HealthTools, ReportHealth(g) PROVE HealthInv'
  <2>1. asking' = [asking EXCEPT ![g] = NotAsking] /\ UNCHANGED healthChecks
    BY <1>9 DEF ReportHealth
  <2>2. DOMAIN asking' = HealthTools /\ AskingTold'
    BY <1>2, <2>1 DEF NotAsking
  <2> QED
    BY <1>9, <2>1, <2>2, ReportIsTrue
<1>10. CASE UNCHANGED healthVars
  BY <1>10 DEF healthVars, AskingTold, Reads, Tallies, ReportTells
<1> QED
  BY <1>3, <1>4, <1>5, <1>6, <1>7, <1>8, <1>9, <1>10 DEF HealthNext

\* Every health report is of one state of the registry, and is right about it.
THEOREM ReportsAreTrue == HealthSpec => []ReportTells
<1>1. HealthInv => ReportTells
  BY DEF HealthInv
<1> QED
  BY InitHealth, StepKeepsHealth, <1>1, PTL DEF HealthSpec

\* What is registered, asked for and waited for are checks with a kind.
HealthNames ==
    /\ DOMAIN healthChecks \subseteq CheckNames
    /\ \A name \in DOMAIN healthChecks : healthChecks[name] \in CheckKinds
    /\ \A g \in HealthTools : asking[g].at \in {"none", "waits", "checks", "registers", "asks"}
    /\ enrolling \in [HealthRegistrars -> {NotEnrolling} \cup [name : CheckNames, kind : CheckKinds]]
    /\ healthCalls \in 0..MaxHealthCalls

LEMMA HealthNamesStep == HealthInv /\ HealthNames /\ [HealthNext]_healthVars => HealthNames'
<1> SUFFICES ASSUME HealthInv, HealthNames, [HealthNext]_healthVars PROVE HealthNames'
  OBVIOUS
<1> DEFINE Places == {"none", "waits", "checks", "registers", "asks"}
<1>0. /\ DOMAIN asking = HealthTools /\ MaxHealthCalls \in Nat
      /\ \A g \in HealthTools : asking[g].at \in Places
  BY HealthAssumption DEF HealthInv, HealthNames
<1>1. ASSUME NEW g \in HealthTools, NEW next, asking' = [asking EXCEPT ![g] = next],
             next.at \in Places
      PROVE  \A h \in HealthTools : asking'[h].at \in Places
  <2> TAKE h \in HealthTools
  <2>1. asking'[h] = IF h = g THEN next ELSE asking[h]
    BY <1>0, <1>1
  <2> QED
    BY <1>0, <1>1, <2>1
<1>2. ASSUME NEW u \in HealthRegistrars, RegisterHealthCheck(u) PROVE HealthNames'
  <2>1. enrolling[u] \in [name : CheckNames, kind : CheckKinds]
    BY <1>2 DEF HealthNames, RegisterHealthCheck
  <2>2. healthChecks' = Put(healthChecks, enrolling[u].name, enrolling[u].kind)
        /\ enrolling' = [enrolling EXCEPT ![u] = NotEnrolling]
        /\ asking' = asking /\ healthCalls' = healthCalls
    BY <1>2 DEF RegisterHealthCheck
  <2>3. /\ DOMAIN healthChecks' = DOMAIN healthChecks \cup {enrolling[u].name}
        /\ \A name \in DOMAIN healthChecks' :
              healthChecks'[name] = IF name = enrolling[u].name THEN enrolling[u].kind
                                    ELSE healthChecks[name]
    BY <2>2 DEF Put
  <2>4. /\ DOMAIN healthChecks' \subseteq CheckNames
        /\ \A name \in DOMAIN healthChecks' : healthChecks'[name] \in CheckKinds
    BY <2>1, <2>3 DEF HealthNames
  <2> QED
    BY <2>2, <2>4 DEF HealthNames
<1>3. ASSUME NEW u \in HealthRegistrars, NEW name \in CheckNames, NEW kind \in CheckKinds,
             EnrollCheck(u, name, kind)
      PROVE  HealthNames'
  <2>1. healthCalls' \in 0..MaxHealthCalls
    BY <1>0, <1>3 DEF EnrollCheck, HealthNames
  <2> QED
    BY <1>3, <2>1 DEF EnrollCheck, HealthNames
<1>4. ASSUME NEW g \in HealthTools, NEW names, AskHealth(g, names) PROVE HealthNames'
  <2>1. healthCalls' \in 0..MaxHealthCalls
    BY <1>0, <1>4 DEF AskHealth, HealthNames
  <2>2. \A h \in HealthTools : asking'[h].at \in Places
    BY <1>1, <1>4 DEF AskHealth
  <2> QED
    BY <1>4, <2>1, <2>2 DEF AskHealth, HealthNames
<1>5. ASSUME NEW g \in HealthTools, BeginChecks(g) PROVE HealthNames'
  <2> DEFINE known == asking[g].names \cap DOMAIN healthChecks
             begun  == [at |-> "checks", left |-> known, statuses |-> <<>>,
                        overall |-> "UP", up |-> 0, down |-> 0]
             next   == IF known = {} THEN NotAsking ELSE begun
  <2>0. begun.at \in Places /\ NotAsking.at \in Places
    BY DEF NotAsking
  <2>1. asking' = [asking EXCEPT ![g] = next]
    BY <1>5 DEF BeginChecks
  <2> HIDE DEF known, begun
  <2>1a. next.at \in Places
    BY <2>0
  <2> HIDE DEF next
  <2>2. \A h \in HealthTools : asking'[h].at \in Places
    BY <1>1, <2>1, <2>1a
  <2> QED
    BY <1>5, <2>2 DEF BeginChecks, HealthNames
<1>6. ASSUME NEW g \in HealthTools, NEW name \in CheckNames, RunCheck(g, name) PROVE HealthNames'
  <2> DEFINE next == Tallied(asking[g], name, StatusOf(healthChecks[name]))
  <2>1. asking' = [asking EXCEPT ![g] = next]
    BY <1>6 DEF RunCheck
  <2>2. next.at = asking[g].at
    <3>1. Tallies(asking[g])
      BY <1>6 DEF RunCheck, HealthInv, AskingTold, Reads
    <3> QED
      BY <3>1 DEF Tallied, Tallies
  <2> HIDE DEF next
  <2>3. \A h \in HealthTools : asking'[h].at \in Places
    BY <1>0, <1>1, <2>1, <2>2
  <2> QED
    BY <1>6, <2>3 DEF RunCheck, HealthNames
<1>7. ASSUME NEW g \in HealthTools, NEW name \in CheckNames, Reenters(g, name) PROVE HealthNames'
  <2> DEFINE next == [asking[g] EXCEPT !.at = healthChecks[name]]
  <2>1. asking' = [asking EXCEPT ![g] = next]
    BY <1>7 DEF Reenters
  <2>2. Tallies(asking[g]) /\ healthChecks[name] \in {"registers", "asks"}
    BY <1>7 DEF Reenters, HealthInv, AskingTold, Reads
  <2>3. next.at = healthChecks[name]
    BY <2>2 DEF Tallies
  <2> HIDE DEF next
  <2>4. \A h \in HealthTools : asking'[h].at \in Places
    BY <1>1, <2>1, <2>2, <2>3
  <2> QED
    BY <1>7, <2>4 DEF Reenters, HealthNames
<1>8. ASSUME NEW g \in HealthTools, ReportHealth(g) PROVE HealthNames'
  <2>1. NotAsking.at \in Places /\ asking' = [asking EXCEPT ![g] = NotAsking]
    BY <1>8 DEF ReportHealth, NotAsking
  <2>2. \A h \in HealthTools : asking'[h].at \in Places
    BY <1>1, <2>1
  <2> QED
    BY <1>8, <2>2 DEF ReportHealth, HealthNames
<1>9. CASE UNCHANGED healthVars
  BY <1>9 DEF healthVars, HealthNames
<1> QED
  BY <1>2, <1>3, <1>4, <1>5, <1>6, <1>7, <1>8, <1>9 DEF HealthNext

\* The types of the registry, the tool calls and the registrations.
LEMMA HealthTypesKept == HealthSpec => []HealthTypeOK
<1>1. HealthInit => HealthNames
  BY HealthAssumption DEF HealthInit, HealthNames, NotAsking
<1>2. HealthInv /\ HealthNames => HealthTypeOK
  <2> SUFFICES ASSUME HealthInv, HealthNames PROVE HealthTypeOK
    OBVIOUS
  <2>1. ASSUME NEW g \in HealthTools, Reads(g)
        PROVE  asking[g].left \cup DOMAIN asking[g].statuses \subseteq CheckNames
    <3>1. Tallies(asking[g])
      BY <2>1 DEF HealthInv, AskingTold
    <3> QED
      BY <3>1 DEF Tallies, HealthNames
  <2> QED
    BY <2>1 DEF HealthNames, HealthTypeOK
<1> QED
  BY InitHealth, StepKeepsHealth, HealthNamesStep, <1>1, <1>2, PTL DEF HealthSpec

-----------------------------------------------------------------------------
(* The cache tools.                                                        *)

Scan == [tool : CacheScans, cache : Nat, first : SUBSET CacheKeys, must : SUBSET CacheKeys,
         may : SUBSET CacheKeys, seen : SUBSET CacheKeys, deleting : SUBSET CacheKeys,
         on : BOOLEAN, stored : SUBSET CacheKeys, gone : SUBSET CacheKeys]

\* What holds of a scan on the way, when the caches are cs: what was there all
\* the time has been visited or must be, and clear_cache has yet to delete what
\* was not stored since it began.
ScanRight(s, cs) ==
    /\ s.cache \in DOMAIN cs
    /\ s.must \subseteq s.may
    /\ s.may \cap s.seen = {}
    /\ s.may \cup s.seen \subseteq s.first \cup s.stored
    /\ s.first \ s.gone \subseteq s.seen \cup s.must
    /\ s.tool = "clear_cache" =>
          s.on /\ cs[s.cache] \subseteq s.stored \cup s.must \cup s.deleting
    /\ s.tool = "get_cache_stats" => s.on /\ s.cache = Len(cs)
    /\ s.tool = "get_cache_keys" =>
          /\ Cardinality(Listed(s.seen)) <= KeyLimit
          /\ s.on <=> Cardinality(Listed(s.seen)) < KeyLimit

CachesTyped ==
    /\ caches \in Seq(SUBSET CacheKeys) /\ Len(caches) <= MaxCaches
    /\ scans \in [CacheCallers -> Scan \cup {NoScan}]
    /\ cacheOps \in 0..MaxCacheOps

ScansRight == \A t \in CacheCallers : scans[t] \in Scan => ScanRight(scans[t], caches)

CacheInv == CachesTyped /\ ScansRight /\ CacheRight

\* A scan is none of the records that stand for no scan.
LEMMA ScanOrNone == \A s \in Scan \cup {NoScan} :
    /\ s \in Scan <=> s # NoScan
    /\ s \in Scan <=> s.tool \in CacheScans
    /\ s \in Scan <=> s.tool # "none"
  BY DEF Scan, NoScan, CacheScans

\* Some keys of a cache are a finite set, no larger than one that holds them.
LEMMA KeysCount ==
    ASSUME NEW A \in SUBSET CacheKeys, NEW B \in SUBSET A
    PROVE  IsFiniteSet(A) /\ Cardinality(A) \in Nat /\ Cardinality(B) \in Nat
           /\ Cardinality(B) <= Cardinality(A)
<1>1. IsFiniteSet(A)
  BY CacheAssumption, FS_Subset
<1>2. IsFiniteSet(B) /\ Cardinality(B) <= Cardinality(A)
  BY <1>1, FS_Subset
<1> QED
  BY <1>1, <1>2, FS_CardinalityType

\* A visit adds at most one key to those that get_cache_keys lists.
LEMMA VisitLists ==
    ASSUME NEW seen \in SUBSET CacheKeys, NEW k \in CacheKeys
    PROVE  /\ Cardinality(Listed(seen)) \in Nat
           /\ Cardinality(Listed(seen \cup {k}))
                \in {Cardinality(Listed(seen)), Cardinality(Listed(seen)) + 1}
<1>1. IsFiniteSet(Listed(seen)) /\ Cardinality(Listed(seen)) \in Nat
  <2>1. Listed(seen) \in SUBSET CacheKeys
    BY DEF Listed
  <2> QED
    BY <2>1, KeysCount
<1>2. CASE k \in PrefixKeys
  <2>1. Listed(seen \cup {k}) = Listed(seen) \cup {k}
    BY <1>2 DEF Listed
  <2> QED
    BY <1>1, <2>1, FS_AddElement
<1>3. CASE k \notin PrefixKeys
  <2>1. Listed(seen \cup {k}) = Listed(seen)
    BY <1>3 DEF Listed
  <2> QED
    BY <1>1, <2>1
<1> QED
  BY <1>2, <1>3

\* What becomes of a scan s of which another goroutine changes the cache.
Noticed(s, r, cs) ==
    IF s = NoScan THEN r = NoScan
    ELSE /\ r \in Scan /\ ScanRight(r, cs)
         /\ r.tool = s.tool /\ r.deleting = s.deleting /\ r.cache = s.cache

\* A change of a cache leaves the scans right, with what they notice of it.
LEMMA NoticingRight ==
    ASSUME CachesTyped, ScansRight, NEW n \in DOMAIN caches,
           NEW st \in SUBSET CacheKeys, NEW go \in SUBSET CacheKeys, st \cap go = {},
           NEW t \in CacheCallers, NEW cs \in Seq(SUBSET CacheKeys),
           cs = [caches EXCEPT ![n] = (@ \cup st) \ go]
    PROVE  Noticed(scans[t], Noticing(n, st, go)[t], cs)
<1> DEFINE s == scans[t]
           r == Noticing(n, st, go)[t]
<1>1. s \in Scan \cup {NoScan}
  BY DEF CachesTyped
<1>2. DOMAIN cs = DOMAIN caches /\ Len(cs) = Len(caches) /\ caches \in Seq(SUBSET CacheKeys)
  BY DEF CachesTyped
<1>3. CASE s = NoScan
  BY <1>1, <1>3, ScanOrNone DEF Noticed, Noticing, NoScan, CacheScans
<1>4. CASE s \in Scan /\ s.cache # n
  <2>1. r = s
    BY <1>4 DEF Noticing
  <2>2. ScanRight(s, caches)
    BY <1>4 DEF ScansRight
  <2>3. cs[s.cache] = caches[s.cache]
    BY <1>2, <1>4, <2>2 DEF ScanRight
  <2>4. ScanRight(s, cs)
    BY <1>2, <2>2, <2>3 DEF ScanRight
  <2> QED
    BY <1>1, <1>4, <2>1, <2>4, ScanOrNone DEF Noticed
<1>5. CASE s \in Scan /\ s.cache = n
  <2>1. s.tool \in CacheScans
    BY <1>5 DEF Scan
  <2>2. r = [s EXCEPT !.may = (@ \cup st) \ s.seen, !.must = @ \ go,
                      !.stored = @ \cup st, !.gone = @ \cup go]
    BY <1>5, <2>1 DEF Noticing
  <2>3. /\ r \in Scan
        /\ r.tool = s.tool /\ r.cache = s.cache /\ r.first = s.first /\ r.seen = s.seen
        /\ r.deleting = s.deleting /\ r.on = s.on
        /\ r.may = (s.may \cup st) \ s.seen /\ r.must = s.must \ go
        /\ r.stored = s.stored \cup st /\ r.gone = s.gone \cup go
    <3> HIDE DEF r
    <3> QED
      BY <1>5, <2>2 DEF Scan
  <2>4. ScanRight(s, caches)
    BY <1>5 DEF ScansRight
  <2>5. cs[s.cache] = (caches[s.cache] \cup st) \ go
    BY <1>2, <1>5, <2>4 DEF ScanRight
  <2> HIDE DEF r, s
  <2>6. r.cache \in DOMAIN cs /\ r.must \subseteq r.may /\ r.may \cap r.seen = {}
    BY <1>2, <2>3, <2>4 DEF ScanRight
  <2>7. r.may \cup r.seen \subseteq r.first \cup r.stored
    BY <2>3, <2>4 DEF ScanRight
  <2>8. r.first \ r.gone \subseteq r.seen \cup r.must
    BY <2>3, <2>4 DEF ScanRight
  <2>9. ScanRight(r, cs)
    BY <1>2, <2>3, <2>4, <2>5, <2>6, <2>7, <2>8 DEF ScanRight
  <2>10. s # NoScan
    BY <1>1, <1>5, ScanOrNone
  <2> QED
    BY <2>3, <2>9, <2>10 DEF Noticed, s, r
<1> QED
  BY <1>1, <1>3, <1>4, <1>5

\* A store or a deletion by the application.
LEMMA ChangeRight ==
    ASSUME CacheInv, NEW n \in DOMAIN caches, NEW st \in SUBSET CacheKeys,
           NEW go \in SUBSET CacheKeys, st \cap go = {},
           caches' = [caches EXCEPT ![n] = (@ \cup st) \ go],
           scans' = Noticing(n, st, go), Operation
    PROVE  CacheInv'
<1>1. CachesTyped /\ ScansRight /\ caches \in Seq(SUBSET CacheKeys)
  BY DEF CacheInv, CachesTyped
<1>2. caches' \in Seq(SUBSET CacheKeys) /\ Len(caches') = Len(caches)
  <2>1. (caches[n] \cup st) \ go \in SUBSET CacheKeys
    BY <1>1, ElementOfSeq
  <2> QED
    BY <1>1, <2>1, ExceptSeq
<1>3. ASSUME NEW t \in CacheCallers
      PROVE  /\ scans'[t] \in Scan \cup {NoScan}
             /\ scans'[t] \in Scan => ScanRight(scans'[t], caches')
  <2>1. scans[t] \in Scan \cup {NoScan}
    BY <1>1 DEF CachesTyped
  <2>2. Noticed(scans[t], Noticing(n, st, go)[t], caches')
    BY <1>1, <1>2, NoticingRight
  <2>3. NoScan \notin Scan
    BY ScanOrNone
  <2> QED
    BY <2>1, <2>2, <2>3 DEF Noticed
<1>4. scans' \in [CacheCallers -> Scan \cup {NoScan}]
  <2>1. scans' = [t \in CacheCallers |-> Noticing(n, st, go)[t]]
    BY DEF Noticing
  <2> QED
    BY <1>3, <2>1
<1>5. ScansRight'
  BY <1>3 DEF ScansRight
<1>6. cacheOps' \in 0..MaxCacheOps
  BY <1>1, CacheAssumption DEF CachesTyped, Operation
<1>7. CachesTyped'
  BY <1>1, <1>2, <1>4, <1>6 DEF CachesTyped
<1>8. CacheRight'
  BY DEF Operation, CacheRight, NoScan
<1> QED
  BY <1>5, <1>7, <1>8 DEF CacheInv

\* With no answer there is nothing to be wrong.
LEMMA NoCacheAnswer == cacheAnswer' = NoScan => CacheRight'
  BY DEF CacheRight, NoScan

\* Every step of the tools and of the application preserves the invariant.
LEMMA CacheStep == CacheInv /\ [CacheNext]_cacheVars => CacheInv'
<1> SUFFICES ASSUME CacheInv, [CacheNext]_cacheVars PROVE CacheInv'
  OBVIOUS
<1>0. CachesTyped /\ ScansRight /\ CacheRight
  BY DEF CacheInv
<1> USE CacheAssumption
<1>1. ASSUME NEW keys \in {{}, CacheKeys}, RegisterCache(keys) PROVE CacheInv'
  <2>1. /\ caches' \in Seq(SUBSET CacheKeys) /\ Len(caches') = Len(caches) + 1
        /\ \A i \in DOMAIN caches : i \in DOMAIN caches' /\ caches'[i] = caches[i]
        /\ Len(caches') <= MaxCaches
    BY <1>0, <1>1 DEF RegisterCache, CachesTyped
  <2>2. ASSUME NEW t \in CacheCallers, scans'[t] \in Scan PROVE ScanRight(scans'[t], caches')
    <3>1. scans'[t] = scans[t] /\ scans[t].tool # "get_cache_stats"
      BY <1>1 DEF RegisterCache
    <3>2. ScanRight(scans[t], caches)
      BY <1>0, <2>2, <3>1 DEF ScansRight
    <3> QED
      BY <2>1, <3>1, <3>2 DEF ScanRight
  <2>3. CachesTyped'
    BY <1>0, <1>1, <2>1 DEF RegisterCache, CachesTyped
  <2> QED
    BY <1>1, <2>2, <2>3, NoCacheAnswer DEF RegisterCache, CacheInv, ScansRight
<1>2. ASSUME NEW n \in DOMAIN caches, NEW k \in CacheKeys, AppStores(n, k) PROVE CacheInv'
  <2>1. /\ caches' = [caches EXCEPT ![n] = (@ \cup {k}) \ {}]
        /\ scans' = Noticing(n, {k}, {}) /\ Operation
    BY <1>2 DEF AppStores
  <2>2. {k} \in SUBSET CacheKeys /\ {} \in SUBSET CacheKeys /\ {k} \cap {} = {}
    OBVIOUS
  <2> QED
    BY <2>1, <2>2, ChangeRight
<1>3. ASSUME NEW n \in DOMAIN caches, NEW k \in CacheKeys, AppDeletes(n, k) PROVE CacheInv'
  <2>1. /\ caches' = [caches EXCEPT ![n] = (@ \cup {}) \ {k}]
        /\ scans' = Noticing(n, {}, {k}) /\ Operation
    BY <1>3 DEF AppDeletes
  <2>2. {} \in SUBSET CacheKeys /\ {k} \in SUBSET CacheKeys /\ {} \cap {k} = {}
    OBVIOUS
  <2> QED
    BY <2>1, <2>2, ChangeRight
<1>4. ASSUME NEW t \in CacheCallers, NEW tool \in CacheScans, BeginScan(t, tool) PROVE CacheInv'
  <2> DEFINE c == caches[Len(caches)]
             s == [tool |-> tool, cache |-> Len(caches), first |-> c, must |-> c,
                   may |-> c, seen |-> {}, deleting |-> {}, on |-> TRUE,
                   stored |-> {}, gone |-> {}]
  <2>1. /\ scans' = [scans EXCEPT ![t] = s] /\ caches' = caches /\ Operation
        /\ caches # <<>>
    BY <1>4 DEF BeginScan
  <2>2. Len(caches) \in DOMAIN caches /\ Len(caches) \in Nat /\ c \in SUBSET CacheKeys
    BY <1>0, <2>1 DEF CachesTyped
  <2> HIDE DEF c
  <2>3. s \in Scan
    BY <2>2 DEF Scan
  <2>4. ScanRight(s, caches)
    <3>1. Cardinality(Listed({})) = 0
      BY FS_EmptySet DEF Listed
    <3> QED
      BY <2>2, <3>1 DEF ScanRight, c
  <2> HIDE DEF s
  <2>5. scans' \in [CacheCallers -> Scan \cup {NoScan}] /\ ScansRight'
    BY <1>0, <2>1, <2>3, <2>4 DEF CachesTyped, ScansRight
  <2> QED
    BY <1>0, <2>1, <2>5, NoCacheAnswer DEF CacheInv, CachesTyped, Operation
<1>5. ASSUME NEW t \in CacheCallers, NEW k \in CacheKeys, Visit(t, k) PROVE CacheInv'
  <2> DEFINE s == scans[t]
             r == scans'[t]
  <2>1. s \in Scan /\ s.on /\ s.deleting = {} /\ k \in s.may
    BY <1>0, <1>5, ScanOrNone DEF Visit, CachesTyped
  <2>2. ScanRight(s, caches)
    BY <1>0, <2>1 DEF ScansRight
  <2>3. r = [s EXCEPT !.seen = @ \cup {k}, !.may = @ \ {k}, !.must = @ \ {k},
                      !.deleting = IF s.tool = "clear_cache" THEN {k} ELSE {},
                      !.on = GoesOn(s.tool, s.seen \cup {k})]
    BY <1>0, <1>5 DEF Visit, CachesTyped
  <2>4. UNCHANGED <<caches, cacheOps>> /\ cacheAnswer' = NoScan
        /\ scans' = [scans EXCEPT ![t] = r]
    BY <1>0, <1>5 DEF Visit, CachesTyped
  <2>5. GoesOn(s.tool, s.seen \cup {k}) \in BOOLEAN
    BY DEF GoesOn
  <2> HIDE DEF r, s
  <2>6. /\ r \in Scan
        /\ r.tool = s.tool /\ r.cache = s.cache /\ r.first = s.first
        /\ r.seen = s.seen \cup {k} /\ r.may = s.may \ {k} /\ r.must = s.must \ {k}
        /\ r.stored = s.stored /\ r.gone = s.gone
        /\ r.deleting = (IF s.tool = "clear_cache" THEN {k} ELSE {})
        /\ r.on = GoesOn(s.tool, s.seen \cup {k})
    BY <2>1, <2>3, <2>5 DEF Scan
  <2>7. s.seen \in SUBSET CacheKeys
    BY <2>1 DEF Scan
  <2>8. ASSUME s.tool = "get_cache_keys"
        PROVE  /\ Cardinality(Listed(r.seen)) <= KeyLimit
               /\ r.on <=> Cardinality(Listed(r.seen)) < KeyLimit
    <3>1. /\ Cardinality(Listed(s.seen)) \in Nat
          /\ Cardinality(Listed(s.seen \cup {k}))
                \in {Cardinality(Listed(s.seen)), Cardinality(Listed(s.seen)) + 1}
      BY <2>7, VisitLists
    <3>2. Cardinality(Listed(s.seen)) < KeyLimit
      BY <2>1, <2>2, <2>8 DEF ScanRight
    <3>3. r.on <=> Cardinality(Listed(s.seen \cup {k})) < KeyLimit
      BY <2>6, <2>8 DEF GoesOn
    <3>4. r.seen = s.seen \cup {k}
      BY <2>6
    <3> QED
      BY <3>1, <3>2, <3>3, <3>4
  <2>9. r.must \subseteq r.may /\ r.may \cap r.seen = {}
        /\ r.may \cup r.seen \subseteq r.first \cup r.stored
        /\ r.first \ r.gone \subseteq r.seen \cup r.must
    BY <2>1, <2>2, <2>6 DEF ScanRight
  <2>10. s.tool # "get_cache_keys" => r.on
    BY <2>6 DEF GoesOn
  <2>11. ScanRight(r, caches)
    BY <2>1, <2>2, <2>6, <2>8, <2>9, <2>10 DEF ScanRight
  <2>12. scans' \in [CacheCallers -> Scan \cup {NoScan}] /\ ScansRight'
    BY <1>0, <2>4, <2>6, <2>11 DEF CachesTyped, ScansRight
  <2> QED
    BY <1>0, <2>4, <2>12, NoCacheAnswer DEF CacheInv, CachesTyped
<1>6. ASSUME NEW t \in CacheCallers, DeleteVisited(t) PROVE CacheInv'
  <2> DEFINE s == scans[t]
             go == s.deleting
             n == s.cache
             sc == Noticing(n, {}, go)
             r == [sc[t] EXCEPT !.deleting = {}]
  <2>1. s \in Scan /\ s.tool = "clear_cache"
    BY <1>0, <1>6, ScanOrNone DEF DeleteVisited, CachesTyped, CacheScans
  <2>2. ScanRight(s, caches) /\ go \in SUBSET CacheKeys
    BY <1>0, <2>1 DEF ScansRight, Scan
  <2>3. n \in DOMAIN caches
    BY <2>2 DEF ScanRight
  <2>4. /\ caches' = [caches EXCEPT ![n] = (@ \cup {}) \ go]
        /\ scans' = [sc EXCEPT ![t].deleting = {}]
        /\ cacheAnswer' = NoScan /\ cacheOps' = cacheOps
    BY <1>6 DEF DeleteVisited
  <2>5. caches' \in Seq(SUBSET CacheKeys) /\ Len(caches') = Len(caches)
    <3>1. caches \in Seq(SUBSET CacheKeys)
      BY <1>0 DEF CachesTyped
    <3>2. (caches[n] \cup {}) \ go \in SUBSET CacheKeys
      BY <2>3, <3>1, ElementOfSeq
    <3> QED
      BY <2>3, <2>4, <3>1, <3>2, ExceptSeq
  <2>6. ASSUME NEW u \in CacheCallers PROVE Noticed(scans[u], sc[u], caches')
    <3>1. /\ CachesTyped /\ ScansRight /\ n \in DOMAIN caches
          /\ {} \in SUBSET CacheKeys /\ go \in SUBSET CacheKeys /\ {} \cap go = {}
          /\ caches' \in Seq(SUBSET CacheKeys)
          /\ caches' = [caches EXCEPT ![n] = (@ \cup {}) \ go]
      BY <1>0, <2>2, <2>3, <2>4, <2>5
    <3> HIDE DEF n, go, s
    <3> QED
      BY <3>1, NoticingRight
  <2>7. sc[t] \in Scan /\ ScanRight(sc[t], caches') /\ sc[t].tool = "clear_cache"
        /\ sc[t].deleting = go /\ sc[t].cache = n
    BY <2>1, <2>6, ScanOrNone DEF Noticed
  <2>8. caches'[n] = caches[n] \ go
    BY <2>3, <2>4, <1>0 DEF CachesTyped
  <2>9. sc = [u \in CacheCallers |-> sc[u]]
    BY DEF Noticing
  <2>10. scans' = [sc EXCEPT ![t] = r]
    BY <2>4, <2>9
  <2> HIDE DEF sc, n, go, s
  <2>11. /\ r \in Scan
         /\ r.tool = sc[t].tool /\ r.cache = sc[t].cache /\ r.first = sc[t].first
         /\ r.seen = sc[t].seen /\ r.may = sc[t].may /\ r.must = sc[t].must
         /\ r.stored = sc[t].stored /\ r.gone = sc[t].gone /\ r.deleting = {}
         /\ r.on = sc[t].on
    BY <2>7 DEF Scan
  <2> HIDE DEF r
  <2>12. ScanRight(r, caches')
    BY <2>7, <2>8, <2>11 DEF ScanRight
  <2>13. \A u \in CacheCallers : scans[u] \in Scan \cup {NoScan}
    BY <1>0 DEF CachesTyped
  <2>14. ASSUME NEW u \in CacheCallers
         PROVE  /\ scans'[u] \in Scan \cup {NoScan}
                /\ scans'[u] \in Scan => ScanRight(scans'[u], caches')
    <3>1. u = t => scans'[u] = r
      BY <2>9, <2>10
    <3>2. u # t => scans'[u] = sc[u]
      BY <2>9, <2>10
    <3>3. NoScan \notin Scan
      BY ScanOrNone
    <3> QED
      BY <2>6, <2>11, <2>12, <2>13, <3>1, <3>2, <3>3 DEF Noticed
  <2>15. scans' \in [CacheCallers -> Scan \cup {NoScan}]
    <3>1. scans' = [u \in CacheCallers |-> scans'[u]]
      BY <2>9, <2>10
    <3> QED
      BY <2>14, <3>1
  <2>16. ScansRight'
    BY <2>14 DEF ScansRight
  <2> QED
    BY <1>0, <2>4, <2>5, <2>15, <2>16, NoCacheAnswer DEF CacheInv, CachesTyped
<1>7. ASSUME NEW t \in CacheCallers, EndScan(t) PROVE CacheInv'
  <2> DEFINE s == scans[t]
  <2>1. s \in Scan /\ s.deleting = {} /\ (s.on => s.must = {})
    BY <1>0, <1>7, ScanOrNone DEF EndScan, CachesTyped
  <2>2. ScanRight(s, caches)
    BY <1>0, <2>1 DEF ScansRight
  <2>3. cacheAnswer' = s /\ caches' = caches /\ cacheOps' = cacheOps
        /\ scans' = [scans EXCEPT ![t] = NoScan]
    BY <1>7 DEF EndScan
  <2>4. CachesTyped' /\ ScansRight'
    <3>1. NoScan \notin Scan
      BY ScanOrNone
    <3> QED
      BY <1>0, <2>3, <3>1 DEF CachesTyped, ScansRight
  <2> HIDE DEF s
  <2>5. /\ s.seen \in SUBSET CacheKeys /\ s.first \in SUBSET CacheKeys
        /\ s.stored \in SUBSET CacheKeys
    BY <2>1 DEF Scan
  <2>6. s.tool = "clear_cache" => caches[s.cache] \subseteq s.stored
    BY <2>1, <2>2 DEF ScanRight
  <2>7. s.tool = "get_cache_stats" =>
          /\ Cardinality(s.seen) \in Cardinality(s.first \ s.gone)..Cardinality(s.first \cup s.stored)
          /\ s.cache = Len(caches)
    <3> SUFFICES ASSUME s.tool = "get_cache_stats"
                 PROVE  /\ Cardinality(s.seen)
                             \in Cardinality(s.first \ s.gone)..Cardinality(s.first \cup s.stored)
                        /\ s.cache = Len(caches)
      OBVIOUS
    <3>1. /\ s.first \ s.gone \in SUBSET s.seen /\ s.seen \in SUBSET (s.first \cup s.stored)
          /\ s.cache = Len(caches)
      BY <2>1, <2>2 DEF ScanRight
    <3>2. Cardinality(s.first \ s.gone) <= Cardinality(s.seen)
          /\ Cardinality(s.first \ s.gone) \in Nat /\ Cardinality(s.seen) \in Nat
      BY <2>5, <3>1, KeysCount
    <3>3. s.first \cup s.stored \in SUBSET CacheKeys
      BY <2>5
    <3>4. Cardinality(s.seen) <= Cardinality(s.first \cup s.stored)
          /\ Cardinality(s.first \cup s.stored) \in Nat
      BY <3>1, <3>3, KeysCount
    <3> QED
      BY <3>1, <3>2, <3>4
  <2>8. s.tool = "get_cache_keys" =>
          /\ Listed(s.seen) \subseteq s.first \cup s.stored
          /\ Cardinality(Listed(s.seen)) <= KeyLimit
          /\ \/ Listed(s.first \ s.gone) \subseteq Listed(s.seen)
             \/ Cardinality(Listed(s.seen)) = KeyLimit
    <3>1. Cardinality(Listed(s.seen)) \in Nat
      <4>1. Listed(s.seen) \in SUBSET CacheKeys
        BY <2>5 DEF Listed
      <4> QED
        BY <4>1, KeysCount
    <3>2. Listed(s.seen) \subseteq s.seen
      BY DEF Listed
    <3>3. s.on => Listed(s.first \ s.gone) \subseteq Listed(s.seen)
      BY <2>1, <2>2 DEF ScanRight, Listed
    <3> QED
      BY <2>2, <3>1, <3>2, <3>3 DEF ScanRight
  <2>9. CacheRight'
    BY <2>3, <2>6, <2>7, <2>8 DEF CacheRight, Ever, Always
  <2> QED
    BY <2>4, <2>9 DEF CacheInv
<1>8. CASE UNCHANGED cacheVars
  <2>1. CachesTyped' /\ ScansRight'
    BY <1>0, <1>8 DEF CachesTyped, ScansRight, cacheVars
  <2>2. CacheRight'
    BY <1>0, <1>8 DEF CacheRight, Ever, Always, cacheVars
  <2> QED
    BY <2>1, <2>2 DEF CacheInv
<1> QED
  BY <1>1, <1>2, <1>3, <1>4, <1>5, <1>6, <1>7, <1>8 DEF CacheNext

\* No caches at first.
LEMMA InitCaches == CacheInit => CacheInv
<1> SUFFICES ASSUME CacheInit PROVE CacheInv
  OBVIOUS
<1>1. CachesTyped
  BY CacheAssumption DEF CacheInit, CachesTyped
<1>2. ScansRight
  BY ScanOrNone DEF CacheInit, ScansRight
<1>3. CacheRight
  BY DEF CacheInit, CacheRight, NoScan
<1> QED
  BY <1>1, <1>2, <1>3 DEF CacheInv

\* The cache tools answer what was true at some moment, however many of them and
\* of the application's operations overlap and whatever the cache holds.
THEOREM CacheAnswersTrue == CacheSpec => []CacheRight
<1>1. CacheInv => CacheRight
  BY DEF CacheInv
<1> QED
  BY InitCaches, <1>1, CacheStep, PTL DEF CacheSpec

\* The types of the caches and of the walks through them.
LEMMA CacheTypesKept == CacheSpec => []CacheTypeOK
<1>1. CacheInv => CacheTypeOK
  <2> SUFFICES ASSUME CacheInv PROVE CacheTypeOK
    OBVIOUS
  <2>1. ASSUME NEW t \in CacheCallers, scans[t] # NoScan
        PROVE  /\ scans[t].cache \in DOMAIN caches
               /\ scans[t].must \subseteq scans[t].may
               /\ scans[t].may \cup scans[t].seen \subseteq CacheKeys
    <3>1. scans[t] \in Scan
      BY <2>1 DEF CacheInv, CachesTyped
    <3>2. ScanRight(scans[t], caches)
      BY <3>1 DEF CacheInv, ScansRight
    <3> QED
      BY <3>1, <3>2 DEF Scan, ScanRight
  <2> QED
    BY <2>1 DEF CacheInv, CachesTyped, CacheTypeOK
<1> QED
  BY InitCaches, CacheStep, <1>1, PTL DEF CacheSpec

-----------------------------------------------------------------------------
(* The endpoint tester.                                                    *)

Answers == {0, 200, 500}

BatchCall == [at : {"batch"}, tests : TestBatches, done : Nat, answers : Seq(Answers),
              passed : Nat, failed : Nat]
CoverageCall == [at : {"coverage"}, tested : SUBSET (Paths \X BOOLEAN), before : SUBSET Tests]

\* The tests of a batch so far that were answered as expected.
Good(b) == {i \in DOMAIN b.answers :
              /\ b.answers[i] # 0
              /\ b.tests[i].expected \in {0, b.answers[i]}}

\* What holds of a batch on the way, when the paths in seen count as tested.
BatchRight(b, seen) ==
    /\ Len(b.answers) = b.done /\ b.done <= Len(b.tests)
    /\ b.passed = Cardinality(Good(b))
    /\ b.passed + b.failed = b.done
    /\ \A i \in Good(b) : Key(b.tests[i]) \in seen

\* Each of the paths in seen was answered.
AllAnswered(seen, answered) == \A k \in seen : \E r \in answered : Key(r) = k

\* Each of the answered requests has its path in seen.
Marked(answered, seen) == \A r \in answered : Key(r) \in seen

\* What holds of a coverage call that has its copy.
CoverageRight(c, answered) == AllAnswered(c.tested, answered) /\ Marked(c.before, c.tested)

TestsTyped ==
    /\ routes \in [Engines -> SUBSET Paths]
    /\ tested \subseteq Paths \X BOOLEAN
    /\ testing \in [Testers -> {Idling} \cup BatchCall \cup CoverageCall]
    /\ responded \subseteq Tests
    /\ batches \in 0..MaxBatches

CallsRight ==
    \A t \in Testers :
       /\ testing[t] \in BatchCall => BatchRight(testing[t], tested)
       /\ testing[t] \in CoverageCall => CoverageRight(testing[t], responded)

EndpointInv ==
    /\ TestsTyped
    /\ AllAnswered(tested, responded) /\ Marked(responded, tested)
    /\ CallsRight
    /\ EndpointsRight

\* Which call a goroutine is in shows in its field "at".
LEMMA KindOfCall == \A b \in {Idling} \cup BatchCall \cup CoverageCall :
    /\ b.at = "none" <=> b = Idling
    /\ b.at = "batch" <=> b \in BatchCall
    /\ b.at = "coverage" <=> b \in CoverageCall
  BY DEF Idling, BatchCall, CoverageCall

\* The tests of a batch are tests.
LEMMA TestsOfBatch == \A ts \in TestBatches :
    /\ ts \in Seq(Tests) /\ Len(ts) \in Nat
    /\ \A i \in 1..Len(ts) : ts[i] \in Tests /\ ts[i].expected \in {0, 200}
<1> SUFFICES ASSUME NEW ts \in TestBatches
             PROVE  /\ ts \in Seq(Tests) /\ Len(ts) \in Nat
                    /\ \A i \in 1..Len(ts) : ts[i] \in Tests /\ ts[i].expected \in {0, 200}
  OBVIOUS
<1>1. ts \in Seq(Tests)
  BY BatchAssumption
<1>2. \A x \in Tests : x.expected \in {0, 200}
  BY DEF Tests, Malformed
<1> HIDE DEF Tests
<1> QED
  BY <1>1, <1>2

\* More of the paths may count as tested meanwhile.
LEMMA BatchKept ==
    \A b \in BatchCall : \A seen, more :
       seen \subseteq more /\ BatchRight(b, seen) => BatchRight(b, more)
  BY DEF BatchRight

LEMMA AnsweredKept ==
    \A seen, answered, more :
       answered \subseteq more /\ AllAnswered(seen, answered) => AllAnswered(seen, more)
  BY DEF AllAnswered

LEMMA CoverageKept ==
    \A c, answered, more :
       answered \subseteq more /\ CoverageRight(c, answered) => CoverageRight(c, more)
  BY AnsweredKept DEF CoverageRight

\* Tally counts the next test as passed exactly if it was answered as expected.
LEMMA TallyRight ==
    ASSUME NEW b \in BatchCall, NEW seen, BatchRight(b, seen), b.done < Len(b.tests),
           NEW status \in Answers, NEW passed \in BOOLEAN, NEW more,
           seen \subseteq more,
           passed <=> status # 0 /\ b.tests[b.done + 1].expected \in {0, status},
           passed => Key(b.tests[b.done + 1]) \in more
    PROVE  /\ Tally(b, status, passed) \in BatchCall
           /\ BatchRight(Tally(b, status, passed), more)
<1> DEFINE c == Tally(b, status, passed)
<1>1. b.done \in Nat /\ b.passed \in Nat /\ b.failed \in Nat /\ b.answers \in Seq(Answers)
      /\ b.tests \in TestBatches
  BY DEF BatchCall
<1>2. /\ c \in BatchCall
      /\ c.tests = b.tests /\ c.done = b.done + 1 /\ c.answers = Append(b.answers, status)
      /\ c.passed = (IF passed THEN b.passed + 1 ELSE b.passed)
      /\ c.failed = (IF passed THEN b.failed ELSE b.failed + 1)
  <2>1. Append(b.answers, status) \in Seq(Answers)
    BY <1>1
  <2>2. c = [b EXCEPT !.done = b.done + 1, !.answers = Append(b.answers, status),
                      !.passed = IF passed THEN b.passed + 1 ELSE b.passed,
                      !.failed = IF passed THEN b.failed ELSE b.failed + 1]
    BY DEF Tally
  <2> HIDE DEF c
  <2>3. c = [at |-> "batch", tests |-> b.tests, done |-> b.done + 1,
             answers |-> Append(b.answers, status),
             passed |-> IF passed THEN b.passed + 1 ELSE b.passed,
             failed |-> IF passed THEN b.failed ELSE b.failed + 1]
    BY <2>2 DEF BatchCall
  <2>4. b.done + 1 \in Nat /\ (IF passed THEN b.passed + 1 ELSE b.passed) \in Nat
        /\ (IF passed THEN b.failed ELSE b.failed + 1) \in Nat
    BY <1>1
  <2>5. c \in BatchCall
    BY <1>1, <2>1, <2>3, <2>4 DEF BatchCall
  <2> QED
    BY <2>3, <2>5
<1> HIDE DEF c
<1>3. /\ Len(b.answers) = b.done /\ b.done + 1 <= Len(b.tests)
      /\ b.passed = Cardinality(Good(b)) /\ b.passed + b.failed = b.done
      /\ \A i \in Good(b) : Key(b.tests[i]) \in seen
  BY <1>1, TestsOfBatch DEF BatchRight
<1>4. /\ Len(c.answers) = b.done + 1
      /\ \A i \in 1..b.done : c.answers[i] = b.answers[i]
      /\ c.answers[b.done + 1] = status
      /\ DOMAIN c.answers = 1..(b.done + 1) /\ DOMAIN b.answers = 1..b.done
  BY <1>1, <1>2, <1>3
<1>5. Good(c) = IF passed THEN Good(b) \cup {b.done + 1} ELSE Good(b)
  BY SMTT(30), <1>1, <1>2, <1>4 DEF Good
<1>6. IsFiniteSet(Good(b)) /\ b.done + 1 \notin Good(b)
  <2>1. Good(b) \subseteq 1..b.done /\ IsFiniteSet(1..b.done)
    BY <1>1, <1>4, FS_Interval DEF Good
  <2> QED
    BY <1>1, <2>1, FS_Subset
<1>7. c.passed = Cardinality(Good(c))
  <2>1. Cardinality(Good(b) \cup {b.done + 1}) = Cardinality(Good(b)) + 1
    BY <1>6, FS_AddElement
  <2> QED
    BY <1>2, <1>3, <1>5, <2>1
<1>8. \A i \in Good(c) : Key(c.tests[i]) \in more
  BY <1>2, <1>3, <1>5
<1>9. c.passed + c.failed = c.done /\ Len(c.answers) = c.done /\ c.done <= Len(c.tests)
  BY <1>1, <1>2, <1>3, <1>4
<1> QED
  BY <1>2, <1>7, <1>8, <1>9 DEF BatchRight, c

\* Without an answer there is nothing to be wrong.
LEMMA NoOutcome == outcome' = Idling => EndpointsRight'
  BY DEF EndpointsRight, Idling

\* The calls stay right when one of them goes on and more is tested.
LEMMA CallGoesOn ==
    ASSUME TestsTyped, CallsRight, NEW t \in Testers, NEW c,
           testing' = [testing EXCEPT ![t] = c],
           tested \subseteq tested', responded \subseteq responded',
           c \in {Idling} \cup BatchCall \cup CoverageCall,
           c \in BatchCall => BatchRight(c, tested'),
           c \in CoverageCall => CoverageRight(c, responded')
    PROVE  /\ testing' \in [Testers -> {Idling} \cup BatchCall \cup CoverageCall]
           /\ CallsRight'
<1>1. testing \in [Testers -> {Idling} \cup BatchCall \cup CoverageCall]
  BY DEF TestsTyped
<1>2. ASSUME NEW u \in Testers
      PROVE  /\ testing'[u] \in BatchCall => BatchRight(testing'[u], tested')
             /\ testing'[u] \in CoverageCall => CoverageRight(testing'[u], responded')
  <2>1. CASE u = t
    BY <1>1, <2>1
  <2>2. CASE u # t
    <3>1. testing'[u] = testing[u]
      BY <1>1, <2>2
    <3>2. /\ testing[u] \in BatchCall => BatchRight(testing[u], tested)
          /\ testing[u] \in CoverageCall => CoverageRight(testing[u], responded)
      BY DEF CallsRight
    <3> QED
      BY <3>1, <3>2, BatchKept, CoverageKept
  <2> QED
    BY <2>1, <2>2
<1> QED
  BY <1>1, <1>2 DEF CallsRight

\* Every step of the tools and of the server preserves the invariant.
LEMMA EndpointStep == EndpointInv /\ [TestNext]_testVars => EndpointInv'
<1> SUFFICES ASSUME EndpointInv, [TestNext]_testVars PROVE EndpointInv'
  OBVIOUS
<1>0. /\ TestsTyped /\ AllAnswered(tested, responded) /\ Marked(responded, tested)
      /\ CallsRight /\ EndpointsRight
  BY DEF EndpointInv
<1>1. ASSUME NEW e \in Engines, NEW served \in SUBSET Paths, RegisterEngine(e, served)
      PROVE  EndpointInv'
  BY <1>0, <1>1, NoOutcome DEF RegisterEngine, EndpointInv, TestsTyped, CallsRight
<1>2. ASSUME NEW t \in Testers, NEW c \in BatchCall \cup CoverageCall, BeginTool(t, c),
             c \in BatchCall => BatchRight(c, tested),
             c \in CoverageCall => CoverageRight(c, responded)
      PROVE  EndpointInv'
  <2>1. /\ testing' = [testing EXCEPT ![t] = c] /\ outcome' = Idling
        /\ UNCHANGED <<routes, tested, responded>>
        /\ batches' = batches + 1 /\ batches < MaxBatches
    BY <1>2 DEF BeginTool
  <2>2. testing' \in [Testers -> {Idling} \cup BatchCall \cup CoverageCall] /\ CallsRight'
    BY <1>0, <1>2, <2>1, CallGoesOn
  <2> QED
    BY <1>0, <2>1, <2>2, NoOutcome, EndpointAssumption DEF EndpointInv, TestsTyped
<1>3. ASSUME NEW t \in Testers, NEW tests \in TestBatches, BeginBatch(t, tests)
      PROVE  EndpointInv'
  <2> DEFINE b == [at |-> "batch", tests |-> tests, done |-> 0, answers |-> <<>>,
                   passed |-> 0, failed |-> 0]
  <2>1. b \in BatchCall
    BY DEF BatchCall
  <2>2. Good(b) = {} /\ Cardinality({}) = 0
    BY FS_EmptySet DEF Good
  <2>3. BatchRight(b, tested)
    <3>1. b.answers = <<>> /\ b.tests = tests /\ b.done = 0 /\ b.passed = 0 /\ b.failed = 0
      OBVIOUS
    <3>2. Len(tests) \in Nat
      BY TestsOfBatch
    <3> HIDE DEF b
    <3> QED
      BY <2>2, <3>1, <3>2 DEF BatchRight
  <2>4. b \notin CoverageCall /\ BeginTool(t, b)
    BY <1>3 DEF BeginBatch, CoverageCall
  <2> HIDE DEF b
  <2> QED
    BY <1>2, <2>1, <2>3, <2>4
<1>4. ASSUME NEW t \in Testers, CopyTested(t) PROVE EndpointInv'
  <2> DEFINE c == [at |-> "coverage", tested |-> tested, before |-> responded]
  <2>1. /\ c \in CoverageCall /\ c \notin BatchCall
        /\ c.tested = tested /\ c.before = responded
    BY <1>0 DEF TestsTyped, CoverageCall, BatchCall
  <2>2. BeginTool(t, c)
    BY <1>4 DEF CopyTested
  <2> HIDE DEF c
  <2>3. CoverageRight(c, responded)
    BY <1>0, <2>1 DEF CoverageRight
  <2> QED
    BY <1>2, <2>1, <2>2, <2>3
<1>5. ASSUME NEW t \in Testers, InBatch(t)
      PROVE  /\ testing[t] \in BatchCall /\ BatchRight(testing[t], tested)
             /\ NextTest(t) \in Tests /\ NextTest(t).expected \in {0, 200}
             /\ NextTest(t) = testing[t].tests[testing[t].done + 1]
             /\ testing[t].done < Len(testing[t].tests)
  <2>1. testing[t] \in BatchCall /\ testing[t].done < Len(testing[t].tests)
    BY <1>0, <1>5, KindOfCall DEF TestsTyped, InBatch
  <2>2. testing[t].done + 1 \in 1..Len(testing[t].tests) /\ testing[t].tests \in TestBatches
    BY <2>1, TestsOfBatch DEF BatchCall
  <2> QED
    BY <1>0, <2>1, <2>2, TestsOfBatch DEF NextTest, CallsRight
<1>6. ASSUME NEW t \in Testers, NEW c, testing' = [testing EXCEPT ![t] = c], outcome' = Idling,
             c \in BatchCall, BatchRight(c, tested'),
             tested \subseteq tested', responded \subseteq responded',
             tested' \subseteq Paths \X BOOLEAN, responded' \subseteq Tests,
             AllAnswered(tested', responded'), Marked(responded', tested'),
             UNCHANGED <<routes, batches>>
      PROVE  EndpointInv'
  <2>1. c \notin CoverageCall
    BY <1>6 DEF BatchCall, CoverageCall
  <2>2. testing' \in [Testers -> {Idling} \cup BatchCall \cup CoverageCall] /\ CallsRight'
    BY <1>0, <1>6, <2>1, CallGoesOn
  <2> QED
    BY <1>0, <1>6, <2>2, NoOutcome DEF EndpointInv, TestsTyped
<1>7. ASSUME NEW t \in Testers, TestFails(t) PROVE EndpointInv'
  <2> DEFINE c == Tally(testing[t], 0, FALSE)
  <2>1. InBatch(t) /\ testing' = [testing EXCEPT ![t] = c] /\ outcome' = Idling
        /\ UNCHANGED <<routes, tested, responded, batches>>
    BY <1>7 DEF TestFails
  <2>2. c \in BatchCall /\ BatchRight(c, tested)
    <3>1. 0 \in Answers /\ FALSE \in BOOLEAN /\ tested \subseteq tested
      BY DEF Answers
    <3>2. testing[t] \in BatchCall /\ BatchRight(testing[t], tested)
          /\ testing[t].done < Len(testing[t].tests)
      BY <1>5, <2>1
    <3>3. ASSUME NEW zero \in Answers, zero = 0, NEW no \in BOOLEAN, ~no
          PROVE  /\ Tally(testing[t], zero, no) \in BatchCall
                 /\ BatchRight(Tally(testing[t], zero, no), tested)
      BY <3>1, <3>2, <3>3, TallyRight
    <3> QED
      BY <3>1, <3>3
  <2> HIDE DEF c
  <2> QED
    BY <1>0, <1>6, <2>1, <2>2 DEF TestsTyped
<1>8. ASSUME NEW t \in Testers, NEW status \in {200, 500}, TestAnswered(t, status)
      PROVE  EndpointInv'
  <2> DEFINE b == testing[t]
             ok == AsExpected(NextTest(t), status)
             c == Tally(b, status, ok)
  <2>1. /\ InBatch(t) /\ NextTest(t) # Malformed /\ outcome' = Idling
        /\ testing' = [testing EXCEPT ![t] = c]
        /\ tested' = tested \cup {Key(NextTest(t))}
        /\ responded' = responded \cup {NextTest(t)}
        /\ UNCHANGED <<routes, batches>>
    BY <1>8 DEF TestAnswered
  <2>2. ok \in BOOLEAN /\ (ok <=> status # 0 /\ b.tests[b.done + 1].expected \in {0, status})
    BY <1>5, <2>1 DEF AsExpected
  <2>3. status \in Answers /\ tested \subseteq tested' /\ responded \subseteq responded'
        /\ Key(b.tests[b.done + 1]) \in tested'
    BY <1>5, <2>1 DEF Answers
  <2>4. NextTest(t) \in [path : Paths, varied : BOOLEAN, expected : {0, 200}]
    BY <1>5, <2>1 DEF Tests
  <2>5. tested' \subseteq Paths \X BOOLEAN /\ responded' \subseteq Tests
    BY <1>0, <2>1, <2>4 DEF TestsTyped, Key, Tests
  <2>6. AllAnswered(tested', responded') /\ Marked(responded', tested')
    BY <1>0, <2>1 DEF AllAnswered, Marked
  <2>7. c \in BatchCall /\ BatchRight(c, tested')
    <3>1. b \in BatchCall /\ BatchRight(b, tested) /\ b.done < Len(b.tests)
      BY <1>5, <2>1
    <3> HIDE DEF ok, b
    <3> QED
      BY <2>2, <2>3, <3>1, TallyRight
  <2> HIDE DEF c
  <2> QED
    BY <1>6, <2>1, <2>3, <2>5, <2>6, <2>7
<1>9. ASSUME NEW t \in Testers, testing' = [testing EXCEPT ![t] = Idling],
             UNCHANGED <<routes, tested, responded, batches>>
      PROVE  /\ TestsTyped' /\ CallsRight'
             /\ AllAnswered(tested, responded)' /\ Marked(responded, tested)'
  <2>1. Idling \notin BatchCall /\ Idling \notin CoverageCall
    BY DEF Idling, BatchCall, CoverageCall
  <2>2. testing' \in [Testers -> {Idling} \cup BatchCall \cup CoverageCall] /\ CallsRight'
    BY <1>0, <1>9, <2>1, CallGoesOn
  <2> QED
    BY <1>0, <1>9, <2>2 DEF TestsTyped
<1>10. ASSUME NEW t \in Testers, EndBatch(t) PROVE EndpointInv'
  <2> DEFINE b == testing[t]
  <2>1. b.at = "batch" /\ ~(b.done < Len(b.tests)) /\ outcome' = b
        /\ testing' = [testing EXCEPT ![t] = Idling]
        /\ UNCHANGED <<routes, tested, responded, batches>>
    BY <1>10 DEF EndBatch, InBatch
  <2>2. b \in BatchCall /\ BatchRight(b, tested)
    BY <1>0, <2>1, KindOfCall DEF TestsTyped, CallsRight
  <2> HIDE DEF b
  <2>3. b.done = Len(b.tests) /\ Len(b.answers) = Len(b.tests)
        /\ DOMAIN b.tests = DOMAIN b.answers
    BY <2>1, <2>2, TestsOfBatch DEF BatchCall, BatchRight
  <2>4. Good(b) = {i \in DOMAIN b.tests :
                     /\ b.answers[i] # 0
                     /\ b.tests[i].expected \in {0, b.answers[i]}}
    BY <2>3 DEF Good
  <2>5. EndpointsRight'
    BY <2>1, <2>2, <2>3, <2>4 DEF EndpointsRight, BatchRight
  <2> QED
    BY <1>9, <2>1, <2>5 DEF EndpointInv
<1>11. ASSUME NEW t \in Testers, EndCoverage(t) PROVE EndpointInv'
  <2> DEFINE c    == testing[t]
             yes  == Covered(c.tested)
             no   == AllRoutes \ yes
  <2>1. /\ c.at = "coverage" /\ testing' = [testing EXCEPT ![t] = Idling]
        /\ outcome' = [at |-> "coverage", before |-> c.before, total |-> Cardinality(AllRoutes),
                       covered |-> yes, uncovered |-> no]
        /\ UNCHANGED <<routes, tested, responded, batches>>
    BY <1>11 DEF EndCoverage
  <2>2. /\ c \in CoverageCall /\ c.before \in SUBSET Tests
        /\ AllAnswered(c.tested, responded) /\ Marked(c.before, c.tested)
    <3>1. c \in CoverageCall
      BY <1>0, <2>1, KindOfCall DEF TestsTyped
    <3>2. CoverageRight(c, responded)
      BY <1>0, <3>1 DEF CallsRight
    <3> QED
      BY <3>1, <3>2 DEF CoverageRight, CoverageCall
  <2>3. AllRoutes \subseteq Engines \X Paths /\ IsFiniteSet(AllRoutes)
    <3>1. AllRoutes \subseteq Engines \X Paths
      BY <1>0 DEF TestsTyped, AllRoutes
    <3>2. IsFiniteSet(Engines \X Paths)
      BY EndpointAssumption, FS_Product
    <3> QED
      BY <3>1, <3>2, FS_Subset
  <2>4. yes \subseteq AllRoutes /\ yes \cap no = {} /\ yes \cup no = AllRoutes
    BY DEF Covered
  <2>5. Cardinality(yes) + Cardinality(no) = Cardinality(AllRoutes)
    <3>1. IsFiniteSet(yes) /\ IsFiniteSet(no)
      BY <2>3, <2>4, FS_Subset
    <3>2. Cardinality(yes \cup no)
            = Cardinality(yes) + Cardinality(no) - Cardinality(yes \cap no)
      BY <3>1, FS_Union
    <3>3. Cardinality(yes \cap no) = 0
      BY <2>4, FS_EmptySet
    <3>4. Cardinality(yes) \in Nat /\ Cardinality(no) \in Nat
      BY <3>1, FS_CardinalityType
    <3>5. yes \cup no = AllRoutes
      BY <2>4
    <3> HIDE DEF yes, no
    <3>6. Cardinality(AllRoutes) = Cardinality(yes) + Cardinality(no) - 0
      BY <3>2, <3>3, <3>5
    <3> QED
      BY <3>4, <3>6
  <2>6. \A r \in yes : RequestsFor(r[2], responded) # {}
    <3> SUFFICES ASSUME NEW r \in yes PROVE \E test \in responded : test.path = r[2]
      BY DEF RequestsFor
    <3>1. <<r[2], FALSE>> \in c.tested
      BY DEF Covered
    <3>2. PICK test \in responded : <<test.path, test.varied>> = <<r[2], FALSE>>
      BY <2>2, <3>1 DEF AllAnswered, Key
    <3> QED
      BY <3>2
  <2>7. \A r \in no : \A test \in RequestsFor(r[2], c.before) : test.varied
    <3> SUFFICES ASSUME NEW r \in AllRoutes, NEW test \in c.before, test.path = r[2], ~test.varied
                 PROVE  r \in yes
      BY DEF RequestsFor
    <3>1. test.varied \in BOOLEAN
      <4>1. test \in Tests
        BY <2>2
      <4>2. \A x \in [path : Paths, varied : BOOLEAN, expected : {0, 200}] : x.varied \in BOOLEAN
        OBVIOUS
      <4>3. Malformed.varied \in BOOLEAN
        BY DEF Malformed
      <4> QED
        BY <4>1, <4>2, <4>3 DEF Tests
    <3>2. <<test.path, test.varied>> \in c.tested
      BY <2>2 DEF Marked, Key
    <3>3. test.varied = FALSE
      BY <3>1
    <3> QED
      BY <3>2, <3>3 DEF Covered
  <2>8. AllRoutes' = AllRoutes /\ responded' = responded
    BY <2>1 DEF AllRoutes
  <2>9. EndpointsRight'
    <3> HIDE DEF yes, no
    <3> QED
      BY <2>1, <2>4, <2>5, <2>6, <2>7, <2>8 DEF EndpointsRight
  <2> QED
    BY <1>9, <2>1, <2>9 DEF EndpointInv
<1>12. CASE UNCHANGED testVars
  <2>1. /\ TestsTyped' /\ CallsRight'
        /\ AllAnswered(tested, responded)' /\ Marked(responded, tested)'
    BY <1>0, <1>12 DEF testVars, TestsTyped, CallsRight
  <2>2. EndpointsRight'
    BY <1>0, <1>12 DEF testVars, EndpointsRight, AllRoutes
  <2> QED
    BY <2>1, <2>2 DEF EndpointInv
<1> QED
  BY <1>1, <1>3, <1>4, <1>7, <1>8, <1>10, <1>11, <1>12 DEF TestNext

\* Nothing is tested at first.
LEMMA InitTests == TestInit => EndpointInv
<1> SUFFICES ASSUME TestInit PROVE EndpointInv
  OBVIOUS
<1>1. Idling \notin BatchCall /\ Idling \notin CoverageCall
  BY DEF Idling, BatchCall, CoverageCall
<1>2. TestsTyped
  BY EndpointAssumption DEF TestInit, TestsTyped
<1>3. AllAnswered(tested, responded) /\ Marked(responded, tested) /\ CallsRight
  BY <1>1 DEF TestInit, AllAnswered, Marked, CallsRight
<1>4. EndpointsRight
  BY DEF TestInit, EndpointsRight, Idling
<1> QED
  BY <1>2, <1>3, <1>4 DEF EndpointInv

\* A batch passes the tests that were answered as expected and no others.
\* Coverage tells of every route of every engine: as covered only if a request
\* for it was answered, as uncovered only if none written like the route was
\* answered before; for any routes, batches and overlap.
THEOREM EndpointReportsTrue == TestSpec => []EndpointsRight
<1>1. EndpointInv => EndpointsRight
  BY DEF EndpointInv
<1> QED
  BY InitTests, <1>1, EndpointStep, PTL DEF TestSpec

\* The types of the routes, the tests and the calls.
LEMMA TestTypesKept == TestSpec => []TestTypeOK
<1>1. EndpointInv => TestTypeOK
  BY DEF EndpointInv, TestsTyped, TestTypeOK, Idling, BatchCall, CoverageCall
<1> QED
  BY InitTests, EndpointStep, <1>1, PTL DEF TestSpec

-----------------------------------------------------------------------------
(* A bounded buffer after an append.                                       *)

\* c ends with r; the elements before it are those of b, without the oldest if
\* there were n.
Continues(c, b, r, n) ==
    /\ Len(c) = IF Len(b) < n THEN Len(b) + 1 ELSE n
    /\ c[Len(c)] = r
    /\ \A i \in 1..Len(c) - 1 :
          i + (Len(b) + 1 - Len(c)) \in 1..Len(b) /\ c[i] = b[i + (Len(b) + 1 - Len(c))]

\* So does a bounded buffer after an append.
LEMMA BoundedAppend ==
    ASSUME NEW S, NEW b \in Seq(S), NEW r \in S, NEW n \in Nat \ {0}, Len(b) <= n
    PROVE  Bounded(Append(b, r), n) \in Seq(S) /\ Continues(Bounded(Append(b, r), n), b, r, n)
<1> DEFINE a == Append(b, r)
           c == Bounded(a, n)
<1>1. /\ a \in Seq(S) /\ Len(a) = Len(b) + 1 /\ a[Len(b) + 1] = r
      /\ \A i \in 1..Len(b) : a[i] = b[i]
  OBVIOUS
<1> HIDE DEF a
<1>2. CASE Len(b) < n
  <2>1. c = a
    BY <1>1, <1>2 DEF Bounded
  <2> QED
    BY <1>1, <1>2, <2>1 DEF a, Continues
<1>3. CASE Len(b) = n
  <2>1. c = SubSeq(a, 2, n + 1)
    BY <1>1, <1>3 DEF Bounded, LastOf
  <2>2. /\ SubSeq(a, 2, n + 1) \in Seq(S)
        /\ Len(SubSeq(a, 2, n + 1)) = IF 2 <= n + 1 THEN n + 1 - 2 + 1 ELSE 0
        /\ \A i \in 1..n + 1 - 2 + 1 : SubSeq(a, 2, n + 1)[i] = a[2 + i - 1]
    <3>1. \A i \in 2..n + 1 : a[i] \in S
      BY <1>1, <1>3
    <3>2. 2 \in Int /\ n + 1 \in Int
      OBVIOUS
    <3> HIDE DEF c
    <3> QED
      BY ONLY <3>1, <3>2, SubSeqProperties
  <2>3. c \in Seq(S) /\ Len(c) = n
    <3>1. (IF 2 <= n + 1 THEN n + 1 - 2 + 1 ELSE 0) = n
      OBVIOUS
    <3> HIDE DEF c
    <3> QED
      BY <2>1, <2>2, <3>1
  <2>4. \A i \in 1..n : c[i] = a[i + 1]
    <3>1. \A i \in 1..n : 2 + i - 1 = i + 1 /\ i \in 1..n + 1 - 2 + 1
      OBVIOUS
    <3> HIDE DEF c
    <3> QED
      BY <2>1, <2>2, <3>1
  <2> HIDE DEF c
  <2>5. Len(b) + 1 - Len(c) = 1
    BY <1>3, <2>3
  <2>6. c[Len(c)] = r
    BY <1>1, <1>3, <2>3, <2>4
  <2>7. \A i \in 1..Len(c) - 1 : i + 1 \in 1..Len(b) /\ c[i] = b[i + 1]
    BY <1>1, <1>3, <2>3, <2>4
  <2>8. \A i \in 1..Len(c) - 1 : i + (Len(b) + 1 - Len(c)) = i + 1
    BY <2>5
  <2> QED
    BY <1>3, <2>3, <2>5, <2>6, <2>7, <2>8 DEF c, a, Continues
<1> QED
  BY <1>2, <1>3

-----------------------------------------------------------------------------
(* The snapshots of metrics.                                               *)

SnapData == {NoData} \cup AllData

\* Data are numbers; those of a gathering that panicked have no metric.
LEMMA DataAreNumbers ==
    /\ NoData \in SnapData /\ DOMAIN NoData = {}
    /\ \A g \in 0..MaxMeter, v \in Levels :
          [m \in Metrics |-> IF m = "grows" THEN g ELSE v] \in SnapData
    /\ \A d \in SnapData :
          /\ DOMAIN d \subseteq Metrics
          /\ \A m \in DOMAIN d : d[m] \in Int
          /\ "grows" \in DOMAIN d => d["grows"] \in 0..MaxMeter
<1>1. \A d \in AllData :
        /\ DOMAIN d \subseteq Metrics
        /\ \A m \in DOMAIN d : d[m] \in Int
        /\ "grows" \in DOMAIN d => d["grows"] \in 0..MaxMeter
  BY SnapAssumption DEF AllData, Metrics
<1>2. DOMAIN NoData = {}
  BY DEF NoData
<1>3. \A g \in 0..MaxMeter, v \in Levels :
          [m \in Metrics |-> IF m = "grows" THEN g ELSE v] \in AllData
  BY DEF AllData
<1> QED
  BY <1>1, <1>2, <1>3 DEF SnapData

\* What a comparison tells of a metric is the difference of its values.
LEMMA ChangeIsDifference ==
    ASSUME NEW d1 \in SnapData, NEW d2 \in SnapData, NEW m \in Metrics
    PROVE  /\ ValueOf(d1, m) \in Int /\ ValueOf(d2, m) \in Int
           /\ ValueOf(Changes(d1, d2), m) = ValueOf(d2, m) - ValueOf(d1, m)
<1>1. ValueOf(d1, m) \in Int /\ ValueOf(d2, m) \in Int
  BY DataAreNumbers DEF ValueOf
<1>2. CASE m \in Compared(d1, d2) /\ ValueOf(d1, m) # ValueOf(d2, m)
  <2>1. m \in DOMAIN Changes(d1, d2)
        /\ Changes(d1, d2)[m] = ValueOf(d2, m) - ValueOf(d1, m)
    BY <1>2 DEF Changes
  <2> QED
    BY <1>1, <2>1 DEF ValueOf
<1>3. CASE ~(m \in Compared(d1, d2) /\ ValueOf(d1, m) # ValueOf(d2, m))
  <2>1. m \notin DOMAIN Changes(d1, d2)
    BY <1>3 DEF Changes
  <2>2. ValueOf(d1, m) = ValueOf(d2, m)
    BY <1>3 DEF Compared, ValueOf
  <2>3. ValueOf(Changes(d1, d2), m) = 0
    BY <2>1 DEF ValueOf
  <2> QED
    BY <1>1, <2>2, <2>3
<1> QED
  BY <1>1, <1>2, <1>3

Snapshot == [id : Nat, data : SnapData]

SnapTyped ==
    /\ snapshotSeq \in Nat
    /\ snapshots \in Seq(Snapshot)
    /\ gathered \in [SnapTakers -> SUBSET SnapData]
    /\ meter \in 0..MaxMeter
    /\ snapOverlap \in BOOLEAN

\* The readings are in order: nobody has read more than there is, and while no
\* takers overlap, one that has gathered has read no less than what is stored.
Reading(d) == IF "grows" \in DOMAIN d THEN {d["grows"]} ELSE {}

ReadingsInOrder ==
    /\ \A i \in DOMAIN snapshots : \A g \in Reading(snapshots[i].data) : g <= meter
    /\ \A t \in SnapTakers : \A d \in gathered[t] : \A g \in Reading(d) : g <= meter
    /\ ~snapOverlap =>
          /\ \A t, u \in SnapTakers : gathered[t] # {} /\ gathered[u] # {} => t = u
          /\ \A t \in SnapTakers : \A d \in gathered[t] : \A g \in Reading(d) :
                \A i \in DOMAIN snapshots : \A h \in Reading(snapshots[i].data) : h <= g

SnapInv == SnapTyped /\ SnapshotsInOrder /\ ReadingsInOrder

\* A reading is a number that the metric can have.
LEMMA ReadingIsNumber == \A d \in SnapData : Reading(d) \subseteq 0..MaxMeter
  BY DataAreNumbers DEF Reading

\* Nothing but storing a snapshot changes the order of those that are stored.
LEMMA OrderKept == SnapshotsInOrder /\ UNCHANGED <<snapshotSeq, snapshots>>
                   /\ (snapOverlap => snapOverlap') => SnapshotsInOrder'
  BY DEF SnapshotsInOrder, ListSnapshots

\* Every step preserves the invariant.
LEMMA SnapStep == SnapInv /\ [SnapNext]_snapVars => SnapInv'
<1> SUFFICES ASSUME SnapInv, [SnapNext]_snapVars PROVE SnapInv'
  OBVIOUS
<1>0. SnapTyped /\ SnapshotsInOrder /\ ReadingsInOrder
  BY DEF SnapInv
<1>1. CASE Work
  <2>1. meter' = meter + 1 /\ meter < MaxMeter
        /\ UNCHANGED <<snapshotSeq, snapshots, gathered, snapOverlap>>
    BY <1>1 DEF Work
  <2>2. SnapTyped'
    BY <1>0, <2>1, SnapAssumption DEF SnapTyped
  <2>3. \A g \in 0..MaxMeter : g <= meter => g <= meter'
    BY <1>0, <2>1, SnapAssumption DEF SnapTyped
  <2>4. \A i \in DOMAIN snapshots : snapshots[i].data \in SnapData
    <3>1. \A i \in DOMAIN snapshots : snapshots[i] \in Snapshot
      BY <1>0 DEF SnapTyped
    <3> QED
      BY <3>1 DEF Snapshot
  <2>5. \A t \in SnapTakers : gathered[t] \subseteq SnapData
    BY <1>0 DEF SnapTyped
  <2>6. ReadingsInOrder'
    BY <1>0, <2>1, <2>3, <2>4, <2>5, ReadingIsNumber DEF ReadingsInOrder
  <2> QED
    BY <1>0, <2>1, <2>2, <2>6, OrderKept DEF SnapInv
<1>2. ASSUME NEW t \in SnapTakers, NEW d \in SnapData, gathered[t] = {},
             gathered' = [gathered EXCEPT ![t] = {d}],
             snapOverlap' = (snapOverlap \/ \E u \in SnapTakers : gathered[u] # {}),
             UNCHANGED <<snapshotSeq, snapshots, meter>>,
             Reading(d) \subseteq {meter}
      PROVE  SnapInv'
  <2>1. SnapTyped'
    BY <1>0, <1>2 DEF SnapTyped
  <2>2. /\ gathered'[t] = {d}
        /\ \A u \in SnapTakers \ {t} : gathered'[u] = gathered[u]
    BY <1>0, <1>2 DEF SnapTyped
  <2>3. meter <= meter
    BY <1>0 DEF SnapTyped
  <2>4. \A u \in SnapTakers : \A e \in gathered'[u] : \A g \in Reading(e) : g <= meter
    BY <1>0, <1>2, <2>2, <2>3 DEF ReadingsInOrder
  <2>5. ASSUME ~snapOverlap'
        PROVE  /\ \A u, v \in SnapTakers : gathered'[u] # {} /\ gathered'[v] # {} => u = v
               /\ \A u \in SnapTakers : \A e \in gathered'[u] : \A g \in Reading(e) :
                    \A i \in DOMAIN snapshots : \A h \in Reading(snapshots[i].data) : h <= g
    <3>1. ~snapOverlap /\ \A u \in SnapTakers : gathered[u] = {}
      BY <1>2, <2>5
    <3>2. \A u \in SnapTakers \ {t} : gathered'[u] = {}
      BY <2>2, <3>1
    <3> QED
      BY <1>0, <1>2, <2>2, <3>2 DEF ReadingsInOrder
  <2>6. ReadingsInOrder'
    BY <1>0, <1>2, <2>4, <2>5 DEF ReadingsInOrder
  <2> QED
    BY <1>0, <1>2, <2>1, <2>6, OrderKept DEF SnapInv
<1>3. ASSUME NEW t \in SnapTakers, NEW level \in Levels, GatherAllMetrics(t, level)
      PROVE  SnapInv'
  <2> DEFINE d == [m \in Metrics |-> IF m = "grows" THEN meter ELSE level]
  <2>1. d \in SnapData
    BY <1>0, DataAreNumbers DEF SnapTyped
  <2>2. Reading(d) \subseteq {meter}
    BY DEF Reading, Metrics
  <2>3. /\ gathered[t] = {} /\ gathered' = [gathered EXCEPT ![t] = {d}]
        /\ snapOverlap' = (snapOverlap \/ \E u \in SnapTakers : gathered[u] # {})
        /\ UNCHANGED <<snapshotSeq, snapshots, meter>>
    BY <1>3 DEF GatherAllMetrics
  <2> HIDE DEF d
  <2> QED
    BY <1>2, <2>1, <2>2, <2>3
<1>4. ASSUME NEW t \in SnapTakers, GatherFails(t) PROVE SnapInv'
  <2>1. NoData \in SnapData /\ Reading(NoData) = {}
    BY DataAreNumbers DEF Reading
  <2>2. /\ gathered[t] = {} /\ gathered' = [gathered EXCEPT ![t] = {NoData}]
        /\ snapOverlap' = (snapOverlap \/ \E u \in SnapTakers : gathered[u] # {})
        /\ UNCHANGED <<snapshotSeq, snapshots, meter>>
    BY <1>4 DEF GatherFails
  <2> QED
    BY <1>2, <2>1, <2>2
<1>5. ASSUME NEW t \in SnapTakers, TakeSnapshot(t) PROVE SnapInv'
  <2>1. PICK data \in gathered[t] :
          snapshots' = Bounded(Append(snapshots, [id |-> snapshotSeq + 1, data |-> data]), SnapMax)
    BY <1>5 DEF TakeSnapshot, KeptSnapshots
  <2>2. /\ snapshotSeq' = snapshotSeq + 1 /\ gathered' = [gathered EXCEPT ![t] = {}]
        /\ UNCHANGED <<meter, snapOverlap>>
    BY <1>5 DEF TakeSnapshot
  <2> DEFINE s == [id |-> snapshotSeq + 1, data |-> data]
             n == Len(snapshots)
             l == Len(snapshots')
  <2>3. /\ data \in SnapData /\ s \in Snapshot /\ s.id = snapshotSeq + 1 /\ s.data = data
        /\ snapshots \in Seq(Snapshot) /\ snapshotSeq \in Nat /\ n \in Nat
        /\ n = IF snapshotSeq < SnapMax THEN snapshotSeq ELSE SnapMax
    BY <1>0 DEF SnapTyped, Snapshot, SnapshotsInOrder
  <2>4. snapshots' = Bounded(Append(snapshots, s), SnapMax)
    BY <2>1
  <2> HIDE DEF s
  <2>5. /\ snapshots' \in Seq(Snapshot) /\ l = IF n < SnapMax THEN n + 1 ELSE SnapMax
        /\ snapshots'[l] = s
        /\ \A i \in 1..l - 1 :
              i + (n + 1 - l) \in 1..n /\ snapshots'[i] = snapshots[i + (n + 1 - l)]
    <3>1. n <= SnapMax
      BY <2>3, SnapAssumption
    <3>2. snapshots' \in Seq(Snapshot) /\ Continues(snapshots', snapshots, s, SnapMax)
      BY <2>3, <2>4, <3>1, BoundedAppend, SnapAssumption
    <3> QED
      BY <3>2 DEF Continues
  <2>6. l \in Nat \ {0} /\ DOMAIN snapshots' = 1..l /\ DOMAIN snapshots = 1..n
    BY <2>3, <2>5, SnapAssumption
  <2> HIDE DEF n, l
  <2>7. \A i \in 1..l : i = l \/ i \in 1..l - 1
    BY <2>6
  <2>8. SnapTyped'
    BY <1>0, <2>2, <2>3, <2>5 DEF SnapTyped
  \* The readings that are stored, the new one last.
  <2>9. \A i \in 1..l - 1 : \A h \in Reading(snapshots'[i].data) :
          \E j \in 1..n : h \in Reading(snapshots[j].data)
    BY <2>5
  <2>10. \A g \in Reading(data) : g <= meter
    BY <1>0, <2>1 DEF ReadingsInOrder
  <2>11. ~snapOverlap =>
           \A g \in Reading(data) : \A j \in 1..n : \A h \in Reading(snapshots[j].data) : h <= g
    BY <1>0, <2>1, <2>6 DEF ReadingsInOrder
  <2>12. ReadingsInOrder'
    <3>1. \A i \in 1..l : \A g \in Reading(snapshots'[i].data) : g <= meter
      BY <1>0, <2>3, <2>5, <2>6, <2>7, <2>9, <2>10 DEF ReadingsInOrder
    <3>2. /\ gathered'[t] = {}
          /\ \A u \in SnapTakers \ {t} : gathered'[u] = gathered[u]
      BY <1>0, <2>2 DEF SnapTyped
    <3>3. \A u \in SnapTakers : \A d \in gathered'[u] : \A g \in Reading(d) : g <= meter
      BY <1>0, <3>2 DEF ReadingsInOrder
    <3>4. ~snapOverlap => \A u \in SnapTakers : gathered'[u] = {}
      BY <1>0, <2>1, <3>2 DEF ReadingsInOrder
    <3> QED
      BY <2>2, <2>6, <3>1, <3>3, <3>4 DEF ReadingsInOrder
  <2>13. SnapshotsInOrder'
    <3>1. l = IF snapshotSeq' < SnapMax THEN snapshotSeq' ELSE SnapMax
      BY <2>2, <2>3, <2>5, SnapAssumption
    <3>2. ASSUME NEW i \in 1..l PROVE snapshots'[i].id = snapshotSeq' - l + i
      <4>1. CASE i = l
        BY SMTT(30), <2>2, <2>3, <2>5, <2>6, <4>1
      <4>2. CASE i \in 1..l - 1
        <5>1. snapshots[i + (n + 1 - l)].id = snapshotSeq - n + (i + (n + 1 - l))
          BY <1>0, <2>5, <2>6, <4>2 DEF SnapshotsInOrder, ListSnapshots, n
        <5>2. snapshotSeq - n + (i + (n + 1 - l)) = snapshotSeq + 1 - l + i
          BY <2>3, <2>6
        <5>3. snapshots'[i] = snapshots[i + (n + 1 - l)]
          BY <2>5, <4>2
        <5>4. snapshots'[i].id = snapshotSeq + 1 - l + i
          BY <5>1, <5>2, <5>3
        <5>5. snapshotSeq' = snapshotSeq + 1
          BY <2>2
        <5> QED
          BY <2>3, <2>6, <5>4, <5>5
      <4> QED
        BY <2>7, <4>1, <4>2
    <3>3. ASSUME ~snapOverlap', NEW i \in 1..l, NEW j \in 1..l, i < j,
                 "grows" \in DOMAIN snapshots'[i].data \cap DOMAIN snapshots'[j].data
          PROVE  snapshots'[i].data["grows"] <= snapshots'[j].data["grows"]
      <4>1. i \in 1..l - 1
        BY <2>6, <3>3
      <4>2. CASE j = l
        <5>1. snapshots'[j].data["grows"] \in Reading(data)
          BY <2>3, <2>5, <3>3, <4>2 DEF Reading
        <5>2. snapshots'[i].data["grows"] \in Reading(snapshots'[i].data)
          BY <3>3 DEF Reading
        <5> QED
          BY <2>2, <2>9, <2>11, <3>3, <4>1, <5>1, <5>2
      <4>3. CASE j \in 1..l - 1
        <5> DEFINE a == i + (n + 1 - l)
                   b == j + (n + 1 - l)
        <5>1. a \in 1..n /\ b \in 1..n /\ snapshots'[i] = snapshots[a]
              /\ snapshots'[j] = snapshots[b]
          BY <2>5, <4>1, <4>3
        <5>2. a < b
          <6>1. i \in Int /\ j \in Int /\ n \in Int /\ l \in Int
            BY <2>3, <2>6
          <6> QED
            BY <3>3, <6>1
        <5> HIDE DEF a, b
        <5> QED
          BY <1>0, <2>2, <2>6, <3>3, <5>1, <5>2 DEF SnapshotsInOrder
      <4> QED
        BY <2>7, <4>2, <4>3
    <3> QED
      BY <2>6, <3>1, <3>2, <3>3 DEF SnapshotsInOrder, ListSnapshots, l
  <2> QED
    BY <2>8, <2>12, <2>13 DEF SnapInv
<1>6. CASE UNCHANGED snapVars
  <2>1. SnapTyped' /\ ReadingsInOrder'
    BY <1>0, <1>6 DEF snapVars, SnapTyped, ReadingsInOrder
  <2> QED
    BY <1>0, <1>6, <2>1, OrderKept DEF snapVars, SnapInv
<1> QED
  BY <1>1, <1>3, <1>4, <1>5, <1>6 DEF SnapNext

\* The id of a snapshot finds that snapshot.
LEMMA IdFindsSnapshot ==
    ASSUME SnapInv, NEW i \in DOMAIN snapshots
    PROVE  SnapshotById(snapshots[i].id) = i
<1> DEFINE I == {j \in 1..Len(snapshots) : snapshots[j].id = snapshots[i].id}
<1>1. \A j \in DOMAIN snapshots : snapshots[j].id = snapshotSeq - Len(snapshots) + j
  BY DEF SnapInv, SnapshotsInOrder, ListSnapshots
<1>2. DOMAIN snapshots = 1..Len(snapshots) /\ snapshotSeq \in Int /\ Len(snapshots) \in Nat
  BY DEF SnapInv, SnapTyped
<1>3. I = {i}
  BY <1>1, <1>2
<1>4. Max(I) = i
  BY <1>2, <1>3 DEF Max
<1>5. SnapshotById(snapshots[i].id) = IF I # {} THEN Max(I) ELSE 0
  BY DEF SnapshotById, SelectLastInSeq
<1> QED
  BY <1>3, <1>4, <1>5

\* Comparisons of stored snapshots add up.
LEMMA ComparisonsAddUp == SnapInv => ChangesAddUp
<1> SUFFICES ASSUME SnapInv, NEW i \in DOMAIN snapshots, NEW j \in DOMAIN snapshots,
                    NEW k \in DOMAIN snapshots, NEW m \in Metrics
             PROVE  ValueOf(CompareSnapshots(snapshots[i].id, snapshots[j].id), m)
                      + ValueOf(CompareSnapshots(snapshots[j].id, snapshots[k].id), m)
                      = ValueOf(CompareSnapshots(snapshots[i].id, snapshots[k].id), m)
  BY DEF ChangesAddUp
<1>1. \A x \in DOMAIN snapshots : snapshots[x].data \in SnapData
  <2>1. \A x \in DOMAIN snapshots : snapshots[x] \in Snapshot
    BY DEF SnapInv, SnapTyped
  <2> QED
    BY <2>1 DEF Snapshot
<1>2. /\ SnapshotById(snapshots[i].id) = i /\ SnapshotById(snapshots[j].id) = j
      /\ SnapshotById(snapshots[k].id) = k
  BY IdFindsSnapshot
<1> QED
  BY <1>1, <1>2, ChangeIsDifference DEF CompareSnapshots

\* No snapshots at first.
LEMMA InitSnapshots == SnapInit => SnapInv
<1> SUFFICES ASSUME SnapInit PROVE SnapInv
  OBVIOUS
<1>1. SnapTyped
  <2>1. gathered \in [SnapTakers -> SUBSET SnapData]
    BY DEF SnapInit
  <2>2. snapshots \in Seq(Snapshot)
    BY DEF SnapInit
  <2>3. meter \in 0..MaxMeter /\ snapshotSeq \in Nat
    BY SnapAssumption DEF SnapInit
  <2>4. snapOverlap \in BOOLEAN
    BY DEF SnapInit
  <2> QED
    BY <2>1, <2>2, <2>3, <2>4 DEF SnapTyped
<1>2. SnapshotsInOrder
  BY SnapAssumption DEF SnapInit, SnapshotsInOrder
<1>3. ReadingsInOrder
  BY DEF SnapInit, ReadingsInOrder
<1> QED
  BY <1>1, <1>2, <1>3 DEF SnapInv

\* Numbers and comparisons can be relied on, for any number of snapshots, of
\* goroutines that take them, and for any bound on those that are kept.
THEOREM SnapshotsTold == SnapSpec => []SnapshotReportsRight
<1>1. SnapInv => SnapshotReportsRight
  BY ComparisonsAddUp DEF SnapInv, SnapshotReportsRight
<1> QED
  BY InitSnapshots, <1>1, SnapStep, PTL DEF SnapSpec

SnapNumbers == snapshotSeq <= MaxSnapshots

\* The types of the snapshots: the numbers kept are the last ones drawn.
LEMMA SnapTypesKept == SnapSpec => []SnapTypeOK
<1>1. SnapInit => SnapNumbers
  BY SnapAssumption DEF SnapInit, SnapNumbers
<1>2. SnapInv /\ SnapNumbers /\ [SnapNext]_snapVars => SnapNumbers'
  <2> SUFFICES ASSUME SnapInv, SnapNumbers, [SnapNext]_snapVars PROVE SnapNumbers'
    OBVIOUS
  <2>1. \/ snapshotSeq' = snapshotSeq
        \/ snapshotSeq < MaxSnapshots /\ snapshotSeq' = snapshotSeq + 1
    BY DEF SnapNext, snapVars, Work, GatherAllMetrics, GatherFails, TakeSnapshot
  <2> QED
    BY <2>1, SnapAssumption DEF SnapInv, SnapTyped, SnapNumbers
<1>3. SnapInv /\ SnapNumbers => SnapTypeOK
  <2> SUFFICES ASSUME SnapInv, SnapNumbers PROVE SnapTypeOK
    OBVIOUS
  <2> DEFINE n == Len(snapshots)
             Kept == [id : 1..MaxSnapshots, data : SnapData]
  <2>1. /\ snapshots \in Seq(Snapshot) /\ n \in Nat /\ snapshotSeq \in 0..MaxSnapshots
        /\ n <= snapshotSeq
        /\ \A i \in 1..n : snapshots[i].id = snapshotSeq - n + i
    <3>1. snapshots \in Seq(Snapshot) /\ n \in Nat /\ snapshotSeq \in Nat
      BY DEF SnapInv, SnapTyped
    <3>2. n = IF snapshotSeq < SnapMax THEN snapshotSeq ELSE SnapMax
      BY DEF SnapInv, SnapshotsInOrder
    <3>3. \A i \in 1..n : snapshots[i].id = snapshotSeq - n + i
      BY <3>1 DEF SnapInv, SnapshotsInOrder, ListSnapshots
    <3> HIDE DEF n
    <3>4. snapshotSeq \in 0..MaxSnapshots /\ n <= snapshotSeq
      BY <3>1, <3>2, SnapAssumption DEF SnapNumbers
    <3> QED
      BY <3>1, <3>3, <3>4
  <2> HIDE DEF n
  <2>2. \A i \in 1..n : snapshots[i] \in Snapshot /\ snapshots[i].id \in 1..MaxSnapshots
    <3> TAKE i \in 1..n
    <3>1. snapshotSeq - n + i \in 1..MaxSnapshots
      BY <2>1, SnapAssumption
    <3> QED
      BY <2>1, <3>1 DEF n
  <2>3. \A i \in 1..n : snapshots[i] \in Kept
    BY <2>2 DEF Snapshot
  <2> HIDE DEF Kept
  <2>4. snapshots \in Seq(Kept)
    <3>1. snapshots = [i \in 1..n |-> snapshots[i]]
      BY <2>1 DEF n
    <3>2. [i \in 1..n |-> snapshots[i]] \in Seq(Kept)
      BY <2>1, <2>3
    <3> QED
      BY <3>1, <3>2
  <2> QED
    BY <2>1, <2>4 DEF SnapInv, SnapTyped, SnapTypeOK, SnapData, Kept
<1> QED
  BY InitSnapshots, SnapStep, <1>1, <1>2, <1>3, PTL DEF SnapSpec

-----------------------------------------------------------------------------
(* The flag of detectLeakCandidates.                                       *)

\* The last change among the steps in s is a growth.
LastGrows(b, s) == \E i \in s : b[i + 1] > b[i] /\ \A j \in s : j > i => b[j + 1] = b[j]

LEMMA LastGrowsIs ==
    ASSUME NEW b \in Seq(Int)
    PROVE  LastGrows(b, 1..Len(b) - 1) <=> GrewLast(b)
<1> DEFINE n == Len(b)
<1>1. n \in Nat /\ \A i \in 1..n - 1 : b[i] \in Int /\ b[i + 1] \in Int /\ i \in Int
  <2>1. n \in Nat /\ \A i \in 1..n : b[i] \in Int
    OBVIOUS
  <2> HIDE DEF n
  <2>2. \A i \in 1..n - 1 : i \in 1..n /\ i + 1 \in 1..n
    BY <2>1
  <2> QED
    BY <2>1, <2>2
<1> HIDE DEF n
<1>2. \A i \in 1..n - 1 : \A j \in 1..n - 1 : j > i <=> j \in i + 1..n - 1
  BY <1>1
<1>3. \A i \in 1..n - 1 : \A j \in i + 1..n - 1 : j \in 1..n - 1
  BY <1>1
<1>4. \A i \in 1..n - 1 : b[i + 1] > b[i] <=> b[i] < b[i + 1]
  BY <1>1
<1> QED
  BY <1>2, <1>3, <1>4 DEF LastGrows, GrewLast, n

\* The last step decides, or, if it changes nothing, the steps before it.
LEMMA LastDecides ==
    ASSUME NEW b \in Seq(Int), NEW s \in SUBSET (1..Len(b) - 1), s # {}
    PROVE  AfterStep(LastGrows(b, s \ {Max(s)}), b[Max(s)], b[Max(s) + 1]) = LastGrows(b, s)
<1> DEFINE x == Max(s)
<1>1. Len(b) - 1 \in Int
  OBVIOUS
<1>2. x \in s /\ \A y \in s : y <= x
  <2> HIDE DEF x
  <2> QED
    BY <1>1, MaxIsGreatest DEF x
<1> HIDE DEF x
<1>3. \A i \in s : b[i] \in Int /\ b[i + 1] \in Int /\ i \in Int
  <2> TAKE i \in s
  <2>1. i \in 1..Len(b) /\ i + 1 \in 1..Len(b)
    BY <1>1
  <2> QED
    BY <2>1
<1>4. CASE b[x + 1] > b[x]
  <2>1. LastGrows(b, s)
    BY <1>2, <1>3, <1>4 DEF LastGrows
  <2> QED
    BY <1>4, <2>1 DEF AfterStep, x
<1>5. CASE b[x + 1] < b[x]
  <2>1. LastGrows(b, s) = FALSE
    BY <1>2, <1>3, <1>5 DEF LastGrows
  <2>2. ~(b[x + 1] > b[x])
    BY <1>2, <1>3, <1>5
  <2> QED
    BY <1>5, <2>1, <2>2 DEF AfterStep, x
<1>6. CASE b[x + 1] = b[x]
  <2>1. ~(b[x + 1] > b[x]) /\ ~(b[x + 1] < b[x])
    BY <1>2, <1>3, <1>6
  <2>2. LastGrows(b, s \ {x}) <=> LastGrows(b, s)
    BY <1>2, <1>3, <1>6, <2>1 DEF LastGrows
  <2>3. LastGrows(b, s) \in BOOLEAN /\ LastGrows(b, s \ {x}) \in BOOLEAN
    BY DEF LastGrows
  <2>4. LastGrows(b, s \ {x}) = LastGrows(b, s)
    BY <2>2, <2>3
  <2> QED
    BY <2>1, <2>4 DEF AfterStep, x
<1> QED
  BY <1>2, <1>3, <1>4, <1>5, <1>6

\* The pass over all steps sets the flag if the last change is a growth.
LEMMA FlagIsLastChange ==
    ASSUME NEW b \in Seq(Int)
    PROVE  MonotonicGrowth(b) = LastGrows(b, 1..Len(b) - 1)
<1> DEFINE D == 1..Len(b) - 1
           q == [i \in D |-> i]
           Step(g, s) == IF s = {} THEN FALSE
                         ELSE AfterStep(g[s \ {Max(s)}], b[q[Max(s)]], b[q[Max(s)] + 1])
           IsPass(g) == g = [s \in SUBSET (DOMAIN q) |-> Step(g, s)]
           w == [s \in SUBSET D |-> LastGrows(b, s)]
           f == CHOOSE g : IsPass(g)
<1>1. MonotonicGrowth(b) = f[DOMAIN q]
  BY DEF MonotonicGrowth, FoldLeft, MapThenFoldSet
<1>2. DOMAIN q = D /\ IsFiniteSet(D)
  BY FS_Interval
<1>3. \A s \in SUBSET D : s # {} => Max(s) \in s /\ q[Max(s)] = Max(s)
  <2> SUFFICES ASSUME NEW s \in SUBSET D, s # {} PROVE Max(s) \in s
    OBVIOUS
  <2>1. Len(b) - 1 \in Int
    OBVIOUS
  <2> QED
    BY <2>1, MaxIsGreatest
<1>4. \A s \in SUBSET D : LastGrows(b, s) = Step(w, s)
  <2> TAKE s \in SUBSET D
  <2>1. CASE s = {}
    BY <2>1 DEF LastGrows
  <2>2. CASE s # {}
    <3>1. w[s \ {Max(s)}] = LastGrows(b, s \ {Max(s)})
      OBVIOUS
    <3> HIDE DEF w, q
    <3> QED
      BY <1>3, <2>2, <3>1, LastDecides
  <2> QED
    BY <2>1, <2>2
<1> HIDE DEF q
<1>5. IsPass(w)
  <2> HIDE DEF Step
  <2> QED
    BY <1>2, <1>4
<1>6. f = [s \in SUBSET D |-> Step(f, s)]
  <2>1. IsPass(f)
    <3> HIDE DEF IsPass
    <3> QED
      BY <1>5
  <2> HIDE DEF f, Step
  <2> QED
    BY <1>2, <2>1
<1> HIDE DEF f
<1>7. \A s \in SUBSET D : f[s] = w[s]
  <2> DEFINE T == {s \in SUBSET D : f[s] # w[s]}
             R == StrictSubsetOrdering(D)
  <2> SUFFICES ASSUME T # {} PROVE FALSE
    OBVIOUS
  <2>1. IsWellFoundedOn(R, FiniteSubsetsOf(D))
    BY FS_StrictSubsetOrderingWellFounded
  <2>2. T \subseteq FiniteSubsetsOf(D)
    BY <1>2, FS_FiniteSubsetsOfFinite
  <2>3. PICK m \in T : \A s \in T : ~(<<s, m>> \in R)
    <3> HIDE DEF T, R
    <3> QED
      BY <2>1, <2>2, WFMin
  <2>4. f[m] = Step(f, m) /\ w[m] = Step(w, m)
    <3> HIDE DEF Step
    <3> QED
      BY <1>4, <1>6
  <2>5. m # {}
    BY <2>4
  <2>6. m \ {Max(m)} \in SUBSET D /\ <<m \ {Max(m)}, m>> \in R
    BY <1>3, <2>5 DEF StrictSubsetOrdering
  <2>7. f[m \ {Max(m)}] = w[m \ {Max(m)}]
    <3> HIDE DEF w, R
    <3> QED
      BY <2>3, <2>6
  <2> HIDE DEF w
  <2> QED
    BY <2>4, <2>5, <2>7
<1> QED
  BY <1>1, <1>2, <1>7

-----------------------------------------------------------------------------
(* The snapshots of the heap.                                              *)

HeapSnapshot == [id : Nat, bytes : [HeapClasses -> HeapBytes]]

Loading   == [at : {"load"}, seq : Nat]
Storing   == [at : {"store"}]
Capturing == [at : {"captured"}, id : Nat, bytes : [HeapClasses -> HeapBytes]]

HeapTyped ==
    /\ heapSnapshotSeq \in Nat
    /\ heapSnapshots \in Seq(HeapSnapshot) /\ Len(heapSnapshots) <= HeapMax
    /\ heapTaker \in [HeapTakers -> {Resting} \cup Loading \cup Storing \cup Capturing]
    /\ heapOverlap \in BOOLEAN

\* While takers do not overlap there is one at most, what it loaded is the
\* number of the newest snapshot, and what it stored is a new one.
NumbersInOrder ==
    ~heapOverlap =>
        /\ \A t, u \in HeapTakers : heapTaker[t] # Resting /\ heapTaker[u] # Resting => t = u
        /\ \A i \in DOMAIN heapSnapshots : heapSnapshots[i].id <= heapSnapshotSeq
        /\ \A i, j \in DOMAIN heapSnapshots : i < j => heapSnapshots[i].id < heapSnapshots[j].id
        /\ \A t \in HeapTakers :
              /\ heapTaker[t] \in Loading => heapTaker[t].seq = heapSnapshotSeq
              /\ heapTaker[t] \in Storing \cup Capturing =>
                   \A i \in DOMAIN heapSnapshots : heapSnapshots[i].id < heapSnapshotSeq
              /\ heapTaker[t] \in Capturing => heapTaker[t].id = heapSnapshotSeq

HeapInv == HeapTyped /\ NumbersInOrder

\* Where a taker is shows in its field "at".
LEMMA TakerAt == \A h \in {Resting} \cup Loading \cup Storing \cup Capturing :
    /\ h.at = "load" <=> h \in Loading
    /\ h.at = "store" <=> h \in Storing
    /\ h.at = "captured" <=> h \in Capturing
    /\ h.at = "rest" <=> h = Resting
  BY DEF Resting, Loading, Storing, Capturing

LEMMA HeapStep == HeapInv /\ [HeapNext]_heapVars => HeapInv'
<1> SUFFICES ASSUME HeapInv, [HeapNext]_heapVars PROVE HeapInv'
  OBVIOUS
<1>0. HeapTyped /\ NumbersInOrder
  BY DEF HeapInv
<1> DEFINE Places == {Resting} \cup Loading \cup Storing \cup Capturing
<1>1. ASSUME NEW t \in HeapTakers, LoadHeapSeq(t) PROVE HeapInv'
  <2> DEFINE h == [at |-> "load", seq |-> heapSnapshotSeq]
  <2>1. /\ heapTaker' = [heapTaker EXCEPT ![t] = h]
        /\ heapOverlap' = (heapOverlap \/ \E u \in HeapTakers \ {t} : heapTaker[u] # Resting)
        /\ heapSnapshotSeq' = heapSnapshotSeq /\ heapSnapshots' = heapSnapshots
    BY <1>1 DEF LoadHeapSeq
  <2>2. h \in Loading /\ h \notin Storing /\ h \notin Capturing /\ h.seq = heapSnapshotSeq
    BY <1>0 DEF HeapTyped, Loading, Storing, Capturing
  <2> HIDE DEF h
  <2>3. heapTaker'[t] = h /\ \A u \in HeapTakers \ {t} : heapTaker'[u] = heapTaker[u]
    BY <1>0, <2>1 DEF HeapTyped
  <2>4. heapOverlap' \in BOOLEAN
    BY <1>0, <2>1 DEF HeapTyped
  <2>5. HeapTyped'
    BY <1>0, <2>1, <2>2, <2>4 DEF HeapTyped
  <2>6. NumbersInOrder'
    <3> SUFFICES ASSUME ~heapOverlap' PROVE NumbersInOrder'
      BY DEF NumbersInOrder
    <3>1. ~heapOverlap /\ \A u \in HeapTakers \ {t} : heapTaker[u] = Resting
      BY <2>1
    <3>2. Resting \notin Loading /\ Resting \notin Storing /\ Resting \notin Capturing
      BY DEF Resting, Loading, Storing, Capturing
    <3> QED
      BY <1>0, <2>1, <2>2, <2>3, <3>1, <3>2 DEF NumbersInOrder
  <2> QED
    BY <2>5, <2>6 DEF HeapInv
\* A taker goes on with what is stored or numbered as before.
<1>2. ASSUME NEW t \in HeapTakers, NEW h \in Places, heapTaker[t] # Resting,
             heapTaker' = [heapTaker EXCEPT ![t] = h],
             heapOverlap' = heapOverlap, HeapTyped',
             ~heapOverlap =>
                /\ \A i \in DOMAIN heapSnapshots' : heapSnapshots'[i].id <= heapSnapshotSeq'
                /\ \A i, j \in DOMAIN heapSnapshots' :
                      i < j => heapSnapshots'[i].id < heapSnapshots'[j].id
                /\ h \notin Loading
                /\ h \in Storing \cup Capturing =>
                     \A i \in DOMAIN heapSnapshots' : heapSnapshots'[i].id < heapSnapshotSeq'
                /\ h \in Capturing => h.id = heapSnapshotSeq'
      PROVE  HeapInv'
  <2> HIDE DEF Places
  <2>1. heapTaker'[t] = h /\ \A u \in HeapTakers \ {t} : heapTaker'[u] = heapTaker[u]
    BY <1>0, <1>2 DEF HeapTyped
  <2>2. NumbersInOrder'
    <3> SUFFICES ASSUME ~heapOverlap' PROVE NumbersInOrder'
      BY DEF NumbersInOrder
    <3>1. \A u \in HeapTakers \ {t} : heapTaker'[u] = Resting
      BY <1>0, <1>2, <2>1 DEF NumbersInOrder
    <3>2. Resting \notin Loading /\ Resting \notin Storing /\ Resting \notin Capturing
      BY DEF Resting, Loading, Storing, Capturing
    <3> QED
      BY <1>2, <2>1, <3>1, <3>2 DEF NumbersInOrder
  <2> QED
    BY <1>2, <2>2 DEF HeapInv
<1>3. ASSUME NEW t \in HeapTakers, StoreHeapSeq(t) PROVE HeapInv'
  <2> DEFINE h == [at |-> "store"]
  <2>1. /\ heapTaker[t].at = "load" /\ heapSnapshotSeq' = heapTaker[t].seq + 1
        /\ heapTaker' = [heapTaker EXCEPT ![t] = h]
        /\ heapSnapshots' = heapSnapshots /\ heapOverlap' = heapOverlap
    BY <1>3 DEF StoreHeapSeq, Counted
  <2>2. h \in Storing /\ h \notin Loading /\ h \notin Capturing
    BY DEF Loading, Storing, Capturing
  <2>3. heapTaker[t] \in Loading /\ heapTaker[t] # Resting /\ heapTaker[t].seq \in Nat
    BY <1>0, <2>1, TakerAt DEF HeapTyped, Loading, Resting
  <2> HIDE DEF h
  <2>4. HeapTyped'
    BY <1>0, <2>1, <2>2, <2>3 DEF HeapTyped
  <2>5. \A i \in DOMAIN heapSnapshots : heapSnapshots[i].id \in Nat
    <3>1. \A i \in DOMAIN heapSnapshots : heapSnapshots[i] \in HeapSnapshot
      BY <1>0 DEF HeapTyped
    <3> QED
      BY <3>1 DEF HeapSnapshot
  <2>6. ~heapOverlap =>
          /\ heapSnapshotSeq' = heapSnapshotSeq + 1 /\ heapSnapshotSeq \in Nat
          /\ \A i \in DOMAIN heapSnapshots : heapSnapshots[i].id <= heapSnapshotSeq
    BY <1>0, <2>1, <2>3 DEF NumbersInOrder, HeapTyped
  <2>7. ~heapOverlap => \A i \in DOMAIN heapSnapshots :
          heapSnapshots[i].id <= heapSnapshotSeq' /\ heapSnapshots[i].id < heapSnapshotSeq'
    BY <2>5, <2>6
  <2> QED
    BY <1>0, <1>2, <2>1, <2>2, <2>3, <2>4, <2>7 DEF NumbersInOrder
<1>4. ASSUME NEW t \in HeapTakers, NEW bytes \in [HeapClasses -> HeapBytes],
             CaptureHeap(t, bytes)
      PROVE  HeapInv'
  <2> DEFINE h == [at |-> "captured", id |-> heapSnapshotSeq, bytes |-> bytes]
  <2>1. /\ heapTaker[t].at = "store" /\ heapSnapshotSeq' = heapSnapshotSeq
        /\ heapTaker' = [heapTaker EXCEPT ![t] = h]
        /\ heapSnapshots' = heapSnapshots /\ heapOverlap' = heapOverlap
    BY <1>4 DEF CaptureHeap
  <2>2. h \in Capturing /\ h \notin Loading /\ h \notin Storing /\ h.id = heapSnapshotSeq
    BY <1>0 DEF HeapTyped, Loading, Storing, Capturing
  <2>3. heapTaker[t] \in Storing /\ heapTaker[t] # Resting
    BY <1>0, <2>1, TakerAt DEF HeapTyped, Resting
  <2> HIDE DEF h
  <2>4. HeapTyped'
    BY <1>0, <2>1, <2>2 DEF HeapTyped
  <2> QED
    BY <1>0, <1>2, <2>1, <2>2, <2>3, <2>4 DEF NumbersInOrder
<1>5. ASSUME NEW t \in HeapTakers, KeepHeap(t) PROVE HeapInv'
  <2> DEFINE s == [id |-> heapTaker[t].id, bytes |-> heapTaker[t].bytes]
             n == Len(heapSnapshots)
             l == Len(heapSnapshots')
  <2>1. /\ heapTaker[t].at = "captured" /\ heapSnapshotSeq' = heapSnapshotSeq
        /\ heapTaker' = [heapTaker EXCEPT ![t] = Resting]
        /\ heapSnapshots' = Bounded(Append(heapSnapshots, s), HeapMax)
        /\ heapOverlap' = heapOverlap
    BY <1>5 DEF KeepHeap
  <2>2. heapTaker[t] \in Capturing /\ heapTaker[t] # Resting
    BY <1>0, <2>1, TakerAt DEF HeapTyped, Resting
  <2>3. s \in HeapSnapshot /\ s.id = heapTaker[t].id
    BY <2>2 DEF Capturing, HeapSnapshot
  <2>4. heapSnapshots \in Seq(HeapSnapshot) /\ n <= HeapMax /\ heapSnapshotSeq \in Nat
    BY <1>0 DEF HeapTyped
  <2> HIDE DEF s
  <2>5. /\ heapSnapshots' \in Seq(HeapSnapshot)
        /\ Continues(heapSnapshots', heapSnapshots, s, HeapMax)
    BY <2>1, <2>3, <2>4, BoundedAppend, HeapAssumption
  <2>6. /\ l = (IF n < HeapMax THEN n + 1 ELSE HeapMax) /\ heapSnapshots'[l] = s
        /\ \A i \in 1..l - 1 :
              i + (n + 1 - l) \in 1..n /\ heapSnapshots'[i] = heapSnapshots[i + (n + 1 - l)]
        /\ DOMAIN heapSnapshots' = 1..l /\ DOMAIN heapSnapshots = 1..n
        /\ l \in Nat /\ n \in Nat
    BY <2>4, <2>5 DEF Continues
  <2>7. HeapTyped'
    <3>1. l <= HeapMax
      BY <2>4, <2>6, HeapAssumption
    <3> QED
      BY <1>0, <2>1, <2>5, <3>1 DEF HeapTyped
  <2> HIDE DEF n, l
  <2>8. ASSUME ~heapOverlap
        PROVE  /\ \A i \in DOMAIN heapSnapshots' : heapSnapshots'[i].id <= heapSnapshotSeq'
               /\ \A i, j \in DOMAIN heapSnapshots' :
                     i < j => heapSnapshots'[i].id < heapSnapshots'[j].id
    <3>1. /\ s.id = heapSnapshotSeq
          /\ \A i \in 1..n : heapSnapshots[i].id < s.id
          /\ \A i, j \in 1..n : i < j => heapSnapshots[i].id < heapSnapshots[j].id
      BY <1>0, <2>2, <2>3, <2>6, <2>8 DEF NumbersInOrder
    <3>2. \A i \in 1..l : i = l \/ i \in 1..l - 1
      BY <2>6
    <3>3. \A i \in 1..l - 1 : heapSnapshots'[i].id < s.id
      BY <2>6, <3>1
    <3>4. \A i \in 1..n : heapSnapshots[i].id \in Nat
      <4>1. \A i \in 1..n : heapSnapshots[i] \in HeapSnapshot
        BY <2>4, <2>6
      <4> QED
        BY <4>1 DEF HeapSnapshot
    <3>5. \A i \in 1..l - 1 : heapSnapshots'[i].id \in Nat
      BY <2>6, <3>4
    <3>6. \A i \in 1..l : heapSnapshots'[i].id <= heapSnapshotSeq'
      BY <2>1, <2>4, <2>6, <3>1, <3>2, <3>3, <3>5
    <3>7. ASSUME NEW i \in 1..l, NEW j \in 1..l, i < j
          PROVE  heapSnapshots'[i].id < heapSnapshots'[j].id
      <4>1. i \in 1..l - 1
        BY <2>6, <3>7
      <4>2. CASE j = l
        BY <2>6, <3>3, <4>1, <4>2
      <4>3. CASE j \in 1..l - 1
        <5>1. i + (n + 1 - l) \in 1..n /\ j + (n + 1 - l) \in 1..n
              /\ heapSnapshots'[i] = heapSnapshots[i + (n + 1 - l)]
              /\ heapSnapshots'[j] = heapSnapshots[j + (n + 1 - l)]
          BY <2>6, <4>1, <4>3
        <5>2. i + (n + 1 - l) < j + (n + 1 - l)
          BY <2>6, <3>7
        <5> QED
          BY <3>1, <5>1, <5>2
      <4> QED
        BY <3>2, <4>2, <4>3
    <3> QED
      BY <2>6, <3>6, <3>7
  <2>9. Resting \in Places /\ Resting \notin Loading /\ Resting \notin Storing
        /\ Resting \notin Capturing
    BY DEF Resting, Loading, Storing, Capturing
  <2> QED
    BY <1>2, <2>1, <2>2, <2>7, <2>8, <2>9
<1>6. CASE UNCHANGED heapVars
  BY <1>0, <1>6 DEF heapVars, HeapInv, HeapTyped, NumbersInOrder
<1> QED
  BY <1>1, <1>3, <1>4, <1>5, <1>6 DEF HeapNext

\* While takers do not overlap an id finds its snapshot.
LEMMA IdFindsHeap ==
    ASSUME HeapInv, ~heapOverlap, NEW i \in DOMAIN heapSnapshots
    PROVE  HeapById(heapSnapshots[i].id) = i
<1> DEFINE I == {j \in 1..Len(heapSnapshots) : heapSnapshots[j].id = heapSnapshots[i].id}
<1>1. /\ \A j, k \in DOMAIN heapSnapshots : j < k => heapSnapshots[j].id < heapSnapshots[k].id
      /\ DOMAIN heapSnapshots = 1..Len(heapSnapshots)
      /\ heapSnapshots \in Seq(HeapSnapshot)
  BY DEF HeapInv, HeapTyped, NumbersInOrder
<1>2. \A j \in DOMAIN heapSnapshots : heapSnapshots[j].id \in Nat
  <2>1. \A j \in DOMAIN heapSnapshots : heapSnapshots[j] \in HeapSnapshot
    BY <1>1
  <2> QED
    BY <2>1 DEF HeapSnapshot
<1>3. I = {i}
  <2>1. ASSUME NEW j \in I PROVE j = i
    <3>1. j < i \/ j = i \/ i < j
      BY <1>1
    <3> QED
      BY <1>1, <1>2, <3>1
  <2> QED
    BY <1>1, <2>1
<1>4. Max(I) = i
  BY <1>1, <1>3 DEF Max
<1>5. HeapById(heapSnapshots[i].id) = IF I # {} THEN Max(I) ELSE 0
  BY DEF HeapById, SelectLastInSeq
<1> QED
  BY <1>3, <1>4, <1>5

LEMMA HeapIdsAreTold == HeapInv => HeapIdsTell
  BY IdFindsHeap DEF HeapInv, NumbersInOrder, HeapIdsTell

\* The report of leaks follows from the snapshots.
LEMMA LeaksAreTold == HeapInv => LeaksFollow
<1> SUFFICES ASSUME HeapInv, Len(heapSnapshots) >= 2, NEW c \in HeapClasses
             PROVE  LET b == BytesOf(c)
                        n == Len(b)
                    IN  /\ c \in DOMAIN LeakCandidates <=> b[n] > b[1]
                        /\ c \in DOMAIN LeakCandidates =>
                              /\ NeverShrank(b) => LeakCandidates[c] = "high"
                              /\ LeakCandidates[c] = "high" => GrewLast(b)
                              /\ LeakCandidates[c] = "medium" => 2 * b[n] > 3 * b[1]
                              /\ LeakCandidates[c] = "low" => 2 * b[n] <= 3 * b[1]
                        /\ HeapIdsTell /\ ~heapOverlap =>
                              CompareHeap(heapSnapshots[1].id, heapSnapshots[n].id)[c].bytes
                                = b[n] - b[1]
  BY DEF LeaksFollow
<1> DEFINE b == BytesOf(c)
           n == Len(b)
<1>1. heapSnapshots \in Seq(HeapSnapshot) /\ DOMAIN heapSnapshots = 1..Len(heapSnapshots)
  BY DEF HeapInv, HeapTyped
<1>2. \A i \in DOMAIN heapSnapshots : heapSnapshots[i].bytes[c] \in Nat
  <2>1. \A i \in DOMAIN heapSnapshots : heapSnapshots[i] \in HeapSnapshot
    BY <1>1
  <2> QED
    BY <2>1, HeapAssumption DEF HeapSnapshot
<1>3. /\ b \in Seq(Int) /\ n = Len(heapSnapshots) /\ n \in Nat /\ n >= 2
      /\ \A i \in 1..n : b[i] \in Nat /\ b[i] = heapSnapshots[i].bytes[c]
  <2>1. b = [i \in 1..Len(heapSnapshots) |-> heapSnapshots[i].bytes[c]]
    BY <1>1 DEF BytesOf
  <2> QED
    BY <1>1, <1>2, <2>1
<1>4. /\ c \in DOMAIN LeakCandidates <=> b[n] > b[1]
      /\ b[n] > b[1] => LeakCandidates[c] = Severity(b)
  <2> HIDE DEF b, n
  <2>1. BytesOf(c)[Len(heapSnapshots)] = b[n] /\ BytesOf(c) = b
    BY <1>3 DEF b
  <2> QED
    BY <2>1 DEF LeakCandidates
<1> HIDE DEF b, n
<1>5. MonotonicGrowth(b) <=> LastGrows(b, 1..n - 1)
  BY <1>3, FlagIsLastChange DEF n
<1>6. b[1] \in Nat /\ b[n] \in Nat
  BY <1>3
<1>7. ASSUME \A i \in 1..n - 1 : b[i] <= b[i + 1], b[1] < b[n]
      PROVE  LeakCandidates[c] = "high"
  <2> DEFINE I == {i \in 1..n - 1 : b[i + 1] > b[i]}
             T == {i \in 1..n : b[i] # b[1]}
  <2>1. T \in SUBSET Nat /\ n \in T
    BY <1>3, <1>7
  <2>2. PICK k \in T : \A i \in T : k <= i
    <3> HIDE DEF T
    <3> QED
      BY <2>1, LeastNumber
  <2>3. k - 1 \in 1..n - 1 /\ b[k - 1] = b[1] /\ b[k] # b[1] /\ (k - 1) + 1 = k
    <3>1. k \in 1..n /\ k # 1
      BY <2>2
    <3>2. k - 1 \in 1..n - 1 /\ k - 1 \in 1..n /\ ~(k <= k - 1) /\ (k - 1) + 1 = k
      BY <1>3, <3>1
    <3>3. k - 1 \notin T
      BY <2>2, <3>2
    <3> QED
      BY <2>2, <3>2, <3>3
  <2>4. k - 1 \in I
    <3>1. b[k - 1] <= b[k] /\ b[k] \in Nat
      BY <1>3, <1>7, <2>2, <2>3
    <3> QED
      BY <1>6, <2>3, <3>1
  <2>5. Max(I) \in I /\ \A y \in I : y <= Max(I)
    <3>1. I \in SUBSET (1..n - 1)
      OBVIOUS
    <3>2. I # {}
      BY <2>4
    <3>3. n - 1 \in Int
      BY <1>3
    <3> HIDE DEF I
    <3> QED
      BY <3>1, <3>2, <3>3, MaxIsGreatest
  <2>6. \A j \in 1..n - 1 : j > Max(I) => b[j + 1] = b[j]
    <3> TAKE j \in 1..n - 1
    <3>1. j \in 1..n /\ j + 1 \in 1..n
      BY <1>3
    <3>2. b[j] \in Int /\ b[j + 1] \in Int /\ b[j] <= b[j + 1] /\ j \in Int
      BY <1>3, <1>7, <3>1
    <3>3. Max(I) \in Int
      BY <2>5
    <3>4. j > Max(I) => j \notin I
      BY <2>5, <3>2, <3>3
    <3> QED
      BY <3>2, <3>4
  <2>7. LastGrows(b, 1..n - 1)
    BY <2>5, <2>6 DEF LastGrows
  <2>8. b[n] > b[1]
    BY <1>6, <1>7
  <2> QED
    BY <1>4, <1>5, <2>7, <2>8 DEF Severity
<1>8. ASSUME c \in DOMAIN LeakCandidates, LeakCandidates[c] = "high"
      PROVE  GrewLast(b)
  <2>1. LastGrows(b, 1..n - 1)
    BY <1>4, <1>5, <1>8 DEF Severity
  <2> QED
    BY <1>3, <2>1, LastGrowsIs DEF n
<1>11. ASSUME c \in DOMAIN LeakCandidates, LeakCandidates[c] = "medium"
       PROVE  2 * b[n] > 3 * b[1]
  <2>1. Significant(b[1], b[n]) /\ b[n] > b[1]
    BY <1>4, <1>11 DEF Severity, n
  <2> QED
    BY <1>6, <2>1 DEF Significant
<1>9. ASSUME c \in DOMAIN LeakCandidates, LeakCandidates[c] = "low"
      PROVE  2 * b[n] <= 3 * b[1]
  <2>1. ~Significant(b[1], b[n])
    BY <1>4, <1>9 DEF Severity, n
  <2> QED
    BY <1>6, <2>1 DEF Significant
<1>10. ASSUME ~heapOverlap
       PROVE  CompareHeap(heapSnapshots[1].id, heapSnapshots[n].id)[c].bytes = b[n] - b[1]
  <2>1. 1 \in DOMAIN heapSnapshots /\ n \in DOMAIN heapSnapshots /\ 1 \in 1..n /\ n \in 1..n
    BY <1>1, <1>3
  <2>2. HeapById(heapSnapshots[1].id) = 1 /\ HeapById(heapSnapshots[n].id) = n
    BY <1>10, <2>1, IdFindsHeap
  <2> QED
    BY <1>3, <2>1, <2>2 DEF CompareHeap
<1>12. c \in DOMAIN LeakCandidates /\ NeverShrank(b) => LeakCandidates[c] = "high"
  BY <1>4, <1>6, <1>7 DEF NeverShrank, n
<1> QED
  BY <1>4, <1>8, <1>9, <1>10, <1>11, <1>12 DEF b, n

\* No snapshots of the heap at first.
LEMMA InitHeap == HeapInit => HeapInv
<1> SUFFICES ASSUME HeapInit PROVE HeapInv
  OBVIOUS
<1>1. Resting \notin Loading /\ Resting \notin Storing /\ Resting \notin Capturing
  BY DEF Resting, Loading, Storing, Capturing
<1>2. /\ heapSnapshotSeq = 0 /\ heapSnapshots = <<>> /\ heapOverlap = FALSE
      /\ heapTaker = [t \in HeapTakers |-> Resting]
  BY DEF HeapInit
<1>3. HeapTyped
  <2>1. heapSnapshots \in Seq(HeapSnapshot) /\ Len(heapSnapshots) <= HeapMax
    BY <1>2, HeapAssumption
  <2>2. heapTaker \in [HeapTakers -> {Resting} \cup Loading \cup Storing \cup Capturing]
    BY <1>2
  <2>3. heapSnapshotSeq \in Nat
    BY <1>2
  <2>4. heapOverlap \in BOOLEAN
    BY <1>2
  <2> QED
    BY <2>1, <2>2, <2>3, <2>4 DEF HeapTyped
<1>4. NumbersInOrder
  BY <1>1, <1>2 DEF NumbersInOrder
<1> QED
  BY <1>3, <1>4 DEF HeapInv

\* Ids name snapshots, and suspects, their growth and their severities follow
\* from the snapshots, for any number of snapshots and classes, any sizes and any
\* bound on what is kept.
THEOREM HeapReportsTold == HeapSpec => []HeapReportsRight
<1>1. HeapInv => HeapReportsRight
  BY HeapIdsAreTold, LeaksAreTold DEF HeapReportsRight
<1> QED
  BY InitHeap, <1>1, HeapStep, PTL DEF HeapSpec

\* A suspect is "high" just when its last change is a growth, whatever it did
\* before, for any snapshots.
THEOREM HighGrewLast ==
    HeapSpec => [](Len(heapSnapshots) >= 2 =>
                      \A c \in DOMAIN LeakCandidates :
                         LeakCandidates[c] = "high" <=> GrewLast(BytesOf(c)))
<1>1. HeapInv => (Len(heapSnapshots) >= 2 =>
                    \A c \in DOMAIN LeakCandidates :
                       LeakCandidates[c] = "high" <=> GrewLast(BytesOf(c)))
  <2> SUFFICES ASSUME HeapInv, NEW c \in DOMAIN LeakCandidates
               PROVE  LeakCandidates[c] = "high" <=> GrewLast(BytesOf(c))
    OBVIOUS
  <2>1. c \in HeapClasses /\ LeakCandidates[c] = Severity(BytesOf(c))
    BY DEF LeakCandidates
  <2>2. \A i \in DOMAIN heapSnapshots : heapSnapshots[i].bytes[c] \in Nat
    <3>1. \A i \in DOMAIN heapSnapshots : heapSnapshots[i] \in HeapSnapshot
      BY DEF HeapInv, HeapTyped
    <3> QED
      BY <2>1, <3>1, HeapAssumption DEF HeapSnapshot
  <2>3. BytesOf(c) \in Seq(Int)
    <3>1. heapSnapshots \in Seq(HeapSnapshot)
      BY DEF HeapInv, HeapTyped
    <3> QED
      BY <2>2, <3>1 DEF BytesOf
  <2>4. MonotonicGrowth(BytesOf(c)) <=> GrewLast(BytesOf(c))
    BY <2>3, FlagIsLastChange, LastGrowsIs
  <2> QED
    BY <2>1, <2>4 DEF Severity
<1> QED
  BY InitHeap, <1>1, HeapStep, PTL DEF HeapSpec

\* A number is drawn by a call: none is larger than the number of calls, though
\* overlapping calls may draw one twice.
HeapNumbers ==
    /\ heapTakes \in 0..MaxHeapTakes
    /\ heapSnapshotSeq <= heapTakes
    /\ \A t \in HeapTakers :
          /\ heapTaker[t] \in Loading => heapTaker[t].seq < heapTakes
          /\ heapTaker[t] \in Capturing => heapTaker[t].id <= heapTakes
    /\ \A i \in DOMAIN heapSnapshots : heapSnapshots[i].id <= heapTakes

LEMMA HeapNumbersStep == HeapInv /\ HeapNumbers /\ [HeapNext]_heapVars => HeapNumbers'
<1> SUFFICES ASSUME HeapInv, HeapNumbers, [HeapNext]_heapVars PROVE HeapNumbers'
  OBVIOUS
<1> DEFINE Places == {Resting} \cup Loading \cup Storing \cup Capturing
<1>0. /\ heapTaker \in [HeapTakers -> Places] /\ heapSnapshotSeq \in Nat /\ heapTakes \in Nat
      /\ heapTakes <= MaxHeapTakes /\ MaxHeapTakes \in Nat
      /\ heapSnapshots \in Seq(HeapSnapshot)
      /\ \A i \in DOMAIN heapSnapshots : heapSnapshots[i].id \in Nat
  <2>1. heapSnapshots \in Seq(HeapSnapshot)
    BY DEF HeapInv, HeapTyped
  <2>2. \A i \in DOMAIN heapSnapshots : heapSnapshots[i] \in HeapSnapshot
    BY <2>1
  <2>3. heapTakes \in Nat /\ heapTakes <= MaxHeapTakes /\ MaxHeapTakes \in Nat
    BY HeapAssumption DEF HeapNumbers
  <2> QED
    BY <2>1, <2>2, <2>3 DEF HeapInv, HeapTyped, HeapSnapshot
<1>1. \A t \in HeapTakers : /\ heapTaker[t] \in Loading => heapTaker[t].seq \in Nat
                            /\ heapTaker[t] \in Capturing => heapTaker[t].id \in Nat
  BY DEF Loading, Capturing
<1>2. /\ Resting \notin Loading /\ Resting \notin Capturing
      /\ \A h \in Storing : h \notin Loading /\ h \notin Capturing
      /\ \A h \in Capturing : h \notin Loading
      /\ \A h \in Loading : h \notin Capturing
  BY DEF Resting, Loading, Storing, Capturing
<1> HIDE DEF Places
<1>3. ASSUME NEW t \in HeapTakers, NEW h, heapTaker' = [heapTaker EXCEPT ![t] = h],
             heapTakes' \in 0..MaxHeapTakes, heapTakes' >= heapTakes,
             heapSnapshotSeq' <= heapTakes',
             h \in Loading => h.seq < heapTakes',
             h \in Capturing => h.id <= heapTakes',
             \A i \in DOMAIN heapSnapshots' : heapSnapshots'[i].id <= heapTakes'
      PROVE  HeapNumbers'
  <2>1. \A u \in HeapTakers : heapTaker'[u] = IF u = t THEN h ELSE heapTaker[u]
    BY <1>0, <1>3
  <2>2. \A u \in HeapTakers :
           /\ heapTaker'[u] \in Loading => heapTaker'[u].seq < heapTakes'
           /\ heapTaker'[u] \in Capturing => heapTaker'[u].id <= heapTakes'
    <3> TAKE u \in HeapTakers
    <3>1. CASE u = t
      BY <1>3, <2>1, <3>1
    <3>2. CASE u # t
      <4>1. heapTaker'[u] = heapTaker[u]
        BY <2>1, <3>2
      <4>2. /\ heapTaker[u] \in Loading => heapTaker[u].seq < heapTakes
            /\ heapTaker[u] \in Capturing => heapTaker[u].id <= heapTakes
        BY DEF HeapNumbers
      <4> QED
        BY <1>0, <1>1, <1>3, <4>1, <4>2
    <3> QED
      BY <3>1, <3>2
  <2> QED
    BY <1>3, <2>2 DEF HeapNumbers
<1>4. ASSUME NEW t \in HeapTakers, LoadHeapSeq(t) PROVE HeapNumbers'
  <2> DEFINE h == [at |-> "load", seq |-> heapSnapshotSeq]
  <2>1. /\ heapTaker' = [heapTaker EXCEPT ![t] = h] /\ heapTakes' = heapTakes + 1
        /\ heapTakes < MaxHeapTakes
        /\ heapSnapshotSeq' = heapSnapshotSeq /\ heapSnapshots' = heapSnapshots
    BY <1>4 DEF LoadHeapSeq
  <2>2. h \notin Capturing /\ h.seq = heapSnapshotSeq
    BY DEF Capturing
  <2> HIDE DEF h
  <2>3. /\ heapTakes' \in 0..MaxHeapTakes /\ heapTakes' >= heapTakes
        /\ heapSnapshotSeq' <= heapTakes' /\ heapSnapshotSeq < heapTakes'
    BY <1>0, <2>1 DEF HeapNumbers
  <2>4. \A i \in DOMAIN heapSnapshots' : heapSnapshots'[i].id <= heapTakes'
    BY <1>0, <2>1 DEF HeapNumbers
  <2> QED
    BY <1>3, <2>1, <2>2, <2>3, <2>4
<1>5. ASSUME NEW t \in HeapTakers, StoreHeapSeq(t) PROVE HeapNumbers'
  <2> DEFINE h == [at |-> "store"]
  <2>1. /\ heapTaker[t].at = "load" /\ heapSnapshotSeq' = heapTaker[t].seq + 1
        /\ heapTaker' = [heapTaker EXCEPT ![t] = h]
        /\ heapSnapshots' = heapSnapshots /\ heapTakes' = heapTakes
    BY <1>5 DEF StoreHeapSeq, Counted
  <2>2. h \notin Loading /\ h \notin Capturing
    BY DEF Loading, Capturing
  <2> HIDE DEF h
  <2>3. heapTaker[t] \in Loading
    BY <1>0, <2>1, TakerAt DEF Places
  <2>4. heapSnapshotSeq' <= heapTakes'
    BY <1>0, <1>1, <2>1, <2>3 DEF HeapNumbers
  <2>5. heapTakes' \in 0..MaxHeapTakes /\ heapTakes' >= heapTakes
    BY <1>0, <2>1
  <2>6. \A i \in DOMAIN heapSnapshots' : heapSnapshots'[i].id <= heapTakes'
    BY <2>1 DEF HeapNumbers
  <2> QED
    BY <1>3, <2>1, <2>2, <2>4, <2>5, <2>6
<1>6. ASSUME NEW t \in HeapTakers, NEW bytes \in [HeapClasses -> HeapBytes], CaptureHeap(t, bytes)
      PROVE  HeapNumbers'
  <2> DEFINE h == [at |-> "captured", id |-> heapSnapshotSeq, bytes |-> bytes]
  <2>1. /\ heapTaker' = [heapTaker EXCEPT ![t] = h]
        /\ heapSnapshots' = heapSnapshots /\ heapTakes' = heapTakes
        /\ heapSnapshotSeq' = heapSnapshotSeq
    BY <1>6 DEF CaptureHeap
  <2>2. h \notin Loading /\ h.id = heapSnapshotSeq
    BY DEF Loading
  <2> HIDE DEF h
  <2>3. heapTakes' \in 0..MaxHeapTakes /\ heapTakes' >= heapTakes /\ heapSnapshotSeq' <= heapTakes'
    BY <1>0, <2>1 DEF HeapNumbers
  <2>4. \A i \in DOMAIN heapSnapshots' : heapSnapshots'[i].id <= heapTakes'
    BY <2>1 DEF HeapNumbers
  <2> QED
    BY <1>3, <2>1, <2>2, <2>3, <2>4 DEF HeapNumbers
<1>7. ASSUME NEW t \in HeapTakers, KeepHeap(t) PROVE HeapNumbers'
  <2> DEFINE s == [id |-> heapTaker[t].id, bytes |-> heapTaker[t].bytes]
             n == Len(heapSnapshots)
             l == Len(heapSnapshots')
  <2>1. /\ heapTaker[t].at = "captured"
        /\ heapSnapshots' = Bounded(Append(heapSnapshots, s), HeapMax)
        /\ heapTaker' = [heapTaker EXCEPT ![t] = Resting]
        /\ heapSnapshotSeq' = heapSnapshotSeq /\ heapTakes' = heapTakes
    BY <1>7 DEF KeepHeap
  <2>2. heapTaker[t] \in Capturing
    BY <1>0, <2>1, TakerAt DEF Places
  <2>3. s \in HeapSnapshot /\ s.id <= heapTakes
    BY <2>2 DEF Capturing, HeapSnapshot, HeapNumbers
  <2> HIDE DEF s
  <2>4. n <= HeapMax
    BY DEF HeapInv, HeapTyped
  <2>5. heapSnapshots' \in Seq(HeapSnapshot) /\ Continues(heapSnapshots', heapSnapshots, s, HeapMax)
    BY <1>0, <2>1, <2>3, <2>4, BoundedAppend, HeapAssumption
  <2>6. \A i \in 1..l : heapSnapshots'[i].id <= heapTakes
    <3> TAKE i \in 1..l
    <3>1. CASE i = l
      BY <2>3, <2>5, <3>1 DEF Continues
    <3>2. CASE i # l
      <4>1. i \in 1..l - 1
        BY <2>5, <3>2
      <4>2. i + (n + 1 - l) \in 1..n /\ heapSnapshots'[i] = heapSnapshots[i + (n + 1 - l)]
        BY <2>5, <4>1 DEF Continues
      <4> QED
        BY <1>0, <4>2 DEF HeapNumbers
    <3> QED
      BY <3>1, <3>2
  <2>7. \A i \in DOMAIN heapSnapshots' : heapSnapshots'[i].id <= heapTakes'
    BY <2>1, <2>5, <2>6
  <2>8. heapTakes' \in 0..MaxHeapTakes /\ heapTakes' >= heapTakes /\ heapSnapshotSeq' <= heapTakes'
    BY <1>0, <2>1 DEF HeapNumbers
  <2> HIDE DEF l, n
  <2> QED
    BY <1>2, <1>3, <2>1, <2>7, <2>8
<1>8. CASE UNCHANGED heapVars
  BY <1>8 DEF heapVars, HeapNumbers
<1> QED
  BY <1>4, <1>5, <1>6, <1>7, <1>8 DEF HeapNext

\* The types of the heap's snapshots and of the calls that take them.
LEMMA HeapTypesKept == HeapSpec => []HeapTypeOK
<1>1. HeapInit => HeapNumbers
  BY HeapAssumption DEF HeapInit, HeapNumbers, Resting, Loading, Capturing
<1>2. HeapInv /\ HeapNumbers => HeapTypeOK
  <2> SUFFICES ASSUME HeapInv, HeapNumbers PROVE HeapTypeOK
    OBVIOUS
  <2> DEFINE n == Len(heapSnapshots)
             Kept == [id : 0..MaxHeapTakes, bytes : [HeapClasses -> HeapBytes]]
             Places == {Resting} \cup [at : {"load"}, seq : 0..MaxHeapTakes]
                          \cup [at : {"store"}]
                          \cup [at : {"captured"}, id : 0..MaxHeapTakes,
                                bytes : [HeapClasses -> HeapBytes]]
  <2>1. /\ heapSnapshots \in Seq(HeapSnapshot) /\ n \in Nat /\ heapSnapshotSeq \in 0..MaxHeapTakes
        /\ heapTakes \in Nat /\ heapTakes <= MaxHeapTakes /\ MaxHeapTakes \in Nat
        /\ heapTaker \in [HeapTakers -> {Resting} \cup Loading \cup Storing \cup Capturing]
    BY HeapAssumption DEF HeapInv, HeapTyped, HeapNumbers
  <2> HIDE DEF n
  <2>2. \A i \in 1..n : heapSnapshots[i] \in HeapSnapshot /\ heapSnapshots[i].id <= heapTakes
    BY <2>1 DEF HeapNumbers, n
  <2>3. \A i \in 1..n : heapSnapshots[i] \in Kept
    BY <2>1, <2>2 DEF HeapSnapshot
  <2> HIDE DEF Kept
  <2>4. heapSnapshots \in Seq(Kept)
    <3>1. heapSnapshots = [i \in 1..n |-> heapSnapshots[i]]
      BY <2>1 DEF n
    <3>2. [i \in 1..n |-> heapSnapshots[i]] \in Seq(Kept)
      BY <2>1, <2>3
    <3> QED
      BY <3>1, <3>2
  <2>5. \A t \in HeapTakers : heapTaker[t] \in Places
    <3> TAKE t \in HeapTakers
    <3>1. CASE heapTaker[t] = Resting
      BY <3>1
    <3>2. CASE heapTaker[t] \in Loading
      BY <2>1, <3>2 DEF Loading, HeapNumbers
    <3>3. CASE heapTaker[t] \in Storing
      BY <3>3 DEF Storing
    <3>4. CASE heapTaker[t] \in Capturing
      BY <2>1, <3>4 DEF Capturing, HeapNumbers
    <3> HIDE DEF Places
    <3> QED
      BY <2>1, <3>1, <3>2, <3>3, <3>4
  <2> HIDE DEF Places
  <2>6. heapTaker \in [HeapTakers -> Places]
    BY <2>1, <2>5
  <2> QED
    BY <2>1, <2>4, <2>6 DEF HeapInv, HeapTyped, HeapNumbers, HeapTypeOK, Kept, Places
<1> QED
  BY InitHeap, HeapStep, HeapNumbersStep, <1>1, <1>2, PTL DEF HeapSpec

-----------------------------------------------------------------------------
(* Goroutines that wait for a lock.                                        *)

\* A stack shows the mutex of a goroutine that waits for one, and of no other.
LEMMA MutexShown ==
    ASSUME LockTypeOK
    PROVE  /\ Showing("sync.(*Mutex)") = {g \in Goroutines : waitsFor[g] = "mutex"}
           /\ IsFiniteSet(Showing("sync.(*Mutex)"))
<1>1. \A g \in Goroutines : "sync.(*Mutex)" \in Shows(g) <=> waitsFor[g] = "mutex"
  BY DEF Shows, LockTypeOK, Waits
<1> QED
  BY <1>1, GoroutinesAssumption, FS_Subset DEF Showing

LEMMA LockTells == LockTypeOK => DeadlockTold
<1> SUFFICES ASSUME LockTypeOK PROVE DeadlockTold
  OBVIOUS
<1> DEFINE waiting == {g \in Goroutines : waitsFor[g] = "mutex"}
           found == {f \in {"potential_circular_wait", "semacquire_blocking", "channel_blocking"} :
                       CASE f = "potential_circular_wait" -> BlockedOnMutex >= 2
                         [] f = "semacquire_blocking"     -> Showing("semacquire") # {}
                         [] f = "channel_blocking"        -> Showing("chanrecv") # {}}
<1>1. waiting = Showing("sync.(*Mutex)") /\ IsFiniteSet(waiting)
  BY MutexShown
<1>2. BlockedOnMutex = Cardinality(waiting) /\ BlockedOnMutex \in Nat
  BY <1>1, FS_CardinalityType DEF BlockedOnMutex
<1>3. BlockedOnMutex = 0 <=> waiting = {}
  BY <1>1, <1>2, FS_EmptySet
<1>4. /\ "potential_circular_wait" \in found <=> BlockedOnMutex >= 2
      /\ "semacquire_blocking" \in found <=> Showing("semacquire") # {}
      /\ "no_deadlock_detected" \notin found
  OBVIOUS
<1>5. Findings = IF NothingFound(found) THEN {"no_deadlock_detected"} ELSE found
  BY DEF Findings
<1>6. waiting \subseteq Flagged
  BY <1>1 DEF Flagged, Showing
<1>7. found = {} /\ waiting = {} => Flagged = {}
  BY <1>1, <1>4 DEF Flagged, Showing
<1> HIDE DEF found, waiting
<1>8. NothingFound(found) <=> found = {} /\ waiting = {}
  BY <1>3 DEF NothingFound
<1>9. RiskLevel = "none" <=> waiting = {}
  BY <1>2, <1>3 DEF RiskLevel
<1>10. Cardinality(waiting) > 1 => "potential_circular_wait" \in Findings
  <2>1. Cardinality(waiting) > 1 => BlockedOnMutex >= 2 /\ waiting # {}
    BY <1>2, <1>3
  <2> QED
    BY <1>4, <1>5, <1>8, <2>1
<1>11. Flagged # {} => RiskLevel # "none" \/ Findings # {}
  BY <1>5, <1>7, <1>8, <1>9
<1> QED
  BY <1>4, <1>5, <1>6, <1>7, <1>8, <1>9, <1>10, <1>11 DEF DeadlockTold, waiting

LEMMA LockTypes == LockTypeOK /\ [LockNext]_lockVars => LockTypeOK'
  BY DEF LockTypeOK, LockNext, lockVars, Sets, Waits

LEMMA InitLocks == LockInit => LockTypeOK
  BY DEF LockInit, LockTypeOK, Waits

-----------------------------------------------------------------------------
(* The risks of the database pools.                                        *)

Rating == INSTANCE Loops WITH Step <- RiskAfter

Overall == INSTANCE Loops WITH Step <- OverallAfter

LEMMA WorstIs ==
    ASSUME NEW levels, NEW n \in Nat, n \in levels \cup {0}, \A k \in levels : k \in Nat /\ k <= n
    PROVE  Worst(levels) = n
<1>1. \A k \in levels \cup {0} : k \in Nat /\ k <= n
  OBVIOUS
<1>2. \A m \in levels \cup {0} : (\A k \in levels \cup {0} : k <= m) => m = n
  BY <1>1
<1> QED
  BY <1>1, <1>2 DEF Worst

\* The checks one after the other.
LEMMA RiskIs ==
    ASSUME NEW s
    PROVE  LET c == Checks(s)
           IN  Risk(s) = IF c[3].found THEN "high"
                         ELSE IF c[1].found \/ c[2].found THEN "elevated"
                         ELSE IF c[4].found \/ c[5].found THEN "low" ELSE "none"
<1> DEFINE c == Checks(s)
<1>1. /\ DOMAIN c = 1..5
      /\ c[1].type = "high_wait_ratio" /\ c[2].type = "long_wait_duration"
      /\ c[3].type = "pool_saturation" /\ c[4].type = "high_connection_churn"
      /\ c[5].type = "high_idle_churn"
  BY DEF Checks
<1> HIDE DEF c
<1>2. PICK q : Rating!Runs(q, "none", c, 5)
  BY <1>1, Rating!LoopRuns
<1>3. Risk(s) = q[5]
  BY <1>2 DEF Risk, c, Rating!Runs, Rating!FoldLeft, Rating!MapThenFoldSet, Rating!Max,
              FoldLeft, MapThenFoldSet, Max
<1>4. /\ q[0] = "none"
      /\ q[1] = RiskAfter(q[0], c[1]) /\ q[2] = RiskAfter(q[1], c[2]) /\ q[3] = RiskAfter(q[2], c[3])
      /\ q[4] = RiskAfter(q[3], c[4]) /\ q[5] = RiskAfter(q[4], c[5])
  <2>1. q[0] = "none" /\ \A i \in 1..5 : q[i] = RiskAfter(q[i - 1], c[i])
    BY <1>2 DEF Rating!Runs
  <2>2. /\ 1 \in 1..5 /\ 2 \in 1..5 /\ 3 \in 1..5 /\ 4 \in 1..5 /\ 5 \in 1..5
        /\ 1 - 1 = 0 /\ 2 - 1 = 1 /\ 3 - 1 = 2 /\ 4 - 1 = 3 /\ 5 - 1 = 4
    OBVIOUS
  <2> QED
    BY <2>1, <2>2, Zenon
<1>5. q[1] = IF c[1].found THEN "elevated" ELSE "none"
  BY <1>1, <1>4 DEF RiskAfter
<1>6. q[2] = IF c[1].found \/ c[2].found THEN "elevated" ELSE "none"
  BY <1>1, <1>4, <1>5 DEF RiskAfter, IfNone
<1>7. q[3] = IF c[3].found THEN "high" ELSE q[2]
  BY <1>1, <1>4 DEF RiskAfter, AfterSaturation
<1>8. q[4] = IF c[4].found /\ q[3] = "none" THEN "low" ELSE q[3]
  BY <1>1, <1>4 DEF RiskAfter, IfNone
<1>9. q[5] = IF c[5].found /\ q[4] = "none" THEN "low" ELSE q[4]
  BY <1>1, <1>4 DEF RiskAfter, IfNone
<1> QED
  BY <1>3, <1>6, <1>7, <1>8, <1>9 DEF c

Ranks == \A r \in {"none", "low", "elevated", "high"} :
            Rank[r] = IF r = "none" THEN 0 ELSE IF r = "low" THEN 1
                      ELSE IF r = "elevated" THEN 2 ELSE 3

LEMMA RanksAre == Ranks
  BY DEF Ranks, Rank

\* A database is at the risk of its worst issue.
LEMMA DatabaseRisk ==
    ASSUME NEW s
    PROVE  /\ Risk(s) \in {"none", "low", "elevated", "high"}
           /\ Rank[Risk(s)] = Worst({Weight[i.severity] : i \in Issues(s)})
<1> DEFINE c == Checks(s)
           levels == {Weight[i.severity] : i \in Issues(s)}
           n == IF c[3].found THEN 3 ELSE IF c[1].found \/ c[2].found THEN 2
                ELSE IF c[4].found \/ c[5].found THEN 1 ELSE 0
<1>1. /\ DOMAIN c = 1..5
      /\ c[1].severity = "warning" /\ c[2].severity = "warning" /\ c[3].severity = "critical"
      /\ c[4].severity = "info" /\ c[5].severity = "info"
  BY DEF Checks
<1>2. /\ Risk(s) \in {"none", "low", "elevated", "high"}
      /\ Rank[Risk(s)] = n
  BY RiskIs, RanksAre DEF Ranks
<1>3. Weight["info"] = 1 /\ Weight["warning"] = 2 /\ Weight["critical"] = 3
  BY DEF Weight
<1>4. Issues(s) = {c[i] : i \in {j \in 1..5 : c[j].found}}
  BY <1>1 DEF Issues, ToSet, c
<1> HIDE DEF c
<1>5. levels = {Weight[c[i].severity] : i \in {j \in 1..5 : c[j].found}}
  BY <1>4
<1>6. \A i \in 1..5 : i = 1 \/ i = 2 \/ i = 3 \/ i = 4 \/ i = 5
  OBVIOUS
<1>7. \A i \in 1..5 : c[i].found => Weight[c[i].severity] \in Nat /\ Weight[c[i].severity] <= n
  BY <1>1, <1>3, <1>6
<1>8. n # 0 => \E i \in 1..5 : c[i].found /\ Weight[c[i].severity] = n
  BY <1>1, <1>3, <1>6
<1>9. n \in Nat /\ n \in levels \cup {0} /\ \A k \in levels : k \in Nat /\ k <= n
  <2>1. n \in Nat
    OBVIOUS
  <2> HIDE DEF n
  <2> QED
    BY <1>5, <1>7, <1>8, <2>1
<1> HIDE DEF n, levels
<1>10. Worst(levels) = n
  BY <1>9, WorstIs
<1> QED
  BY <1>2, <1>10 DEF levels

RiskLevels == {"none", "low", "elevated", "high"}

LEMMA NoRiskIsNone == NoRisk \notin RiskLevels
  BY Zenon DEF NoRisk, RiskLevels

LEMMA RiskOfIs ==
    ASSUME NEW name
    PROVE  IF pools[name] = {} THEN RiskOf(name) = NoRisk ELSE RiskOf(name) \in RiskLevels
<1>1. \A s : Risk(s) \in RiskLevels
  BY DatabaseRisk DEF RiskLevels
<1> QED
  BY <1>1 DEF RiskOf

\* The tools go through the databases that are registered.
LEMMA ReportedAre ==
    ASSUME PoolTypeOK
    PROVE  /\ Len(Reported) \in Nat /\ DOMAIN Reported = 1..Len(Reported)
           /\ {Reported[i] : i \in 1..Len(Reported)} = DOMAIN pools
<1> DEFINE S == ToSet(DbNames)
           chosen == {i \in DOMAIN DbNames : DbNames[i] \in DOMAIN pools}
           n == Cardinality(chosen)
<1>1. DbNames \in Seq(S) /\ chosen \in SUBSET (DOMAIN DbNames) /\ DOMAIN pools \subseteq S
  BY PoolAssumption DEF PoolTypeOK
<1>2. \A name \in DOMAIN pools : \E i \in chosen : DbNames[i] = name
  BY <1>1 DEF ToSet
<1>3. \A i \in chosen : DbNames[i] \in DOMAIN pools
  OBVIOUS
<1>4. Reported = Filtered(DbNames, chosen)
  BY DEF Reported
<1> HIDE DEF S, chosen
<1>5. /\ Reported \in Seq(S) /\ Len(Reported) = n /\ n \in Nat
      /\ \A k \in 1..n : Nth(chosen, k) \in chosen /\ Reported[k] = DbNames[Nth(chosen, k)]
      /\ \A i \in chosen : \E k \in 1..n : Nth(chosen, k) = i
  BY <1>1, <1>4, FilteredIs
<1> HIDE DEF n
<1>6. \A k \in 1..n : Reported[k] \in DOMAIN pools
  BY <1>3, <1>5
<1>7. \A name \in DOMAIN pools : \E k \in 1..n : Reported[k] = name
  BY <1>2, <1>5
<1>8. {Reported[i] : i \in 1..n} = DOMAIN pools
  BY <1>6, <1>7
<1> QED
  BY <1>5, <1>8

LEMMA OverallIsWorst ==
    ASSUME PoolTypeOK
    PROVE  Rank[OverallRisk] =
             Worst({Rank[RiskOf(name)] : name \in {n \in DOMAIN pools : pools[n] # {}}})
<1> DEFINE l == Len(Reported)
           risks == [i \in DOMAIN Reported |-> RiskOf(Reported[i])]
           levels == {Rank[RiskOf(name)] : name \in {n \in DOMAIN pools : pools[n] # {}}}
<1>1. l \in Nat /\ DOMAIN risks = 1..l /\ \A i \in 1..l : risks[i] = RiskOf(Reported[i])
  BY ReportedAre
<1>2. OverallRisk = FoldLeft(OverallAfter, "none", risks)
  BY DEF OverallRisk
<1>3. \A i \in 1..l : risks[i] \in RiskLevels \cup {NoRisk}
  BY <1>1, RiskOfIs
<1>4. levels = {Rank[risks[i]] : i \in {j \in 1..l : risks[j] # NoRisk}}
  <2>1. NoRisk \notin RiskLevels
    BY NoRiskIsNone
  <2>2. \A name : pools[name] # {} <=> RiskOf(name) # NoRisk
    BY <2>1, RiskOfIs
  <2>3. {Reported[i] : i \in 1..l} = DOMAIN pools
    BY ReportedAre
  <2>4. levels = {Rank[RiskOf(name)] : name \in {n \in {Reported[i] : i \in 1..l} : RiskOf(n) # NoRisk}}
    BY <2>2, <2>3
  <2> HIDE DEF levels
  <2>5. {Rank[RiskOf(name)] : name \in {n \in {Reported[i] : i \in 1..l} : RiskOf(n) # NoRisk}}
           = {Rank[RiskOf(Reported[i])] : i \in {j \in 1..l : RiskOf(Reported[j]) # NoRisk}}
    OBVIOUS
  <2> QED
    BY <1>1, <2>4, <2>5
<1> HIDE DEF l, risks, levels
<1>5. PICK q : Overall!Runs(q, "none", risks, l)
  BY <1>1, Overall!LoopRuns
<1>6. q[l] = OverallRisk
  BY <1>2, <1>5 DEF Overall!Runs, Overall!FoldLeft, Overall!MapThenFoldSet, Overall!Max,
                    FoldLeft, MapThenFoldSet, Max
<1>7. q[0] = "none" /\ \A i \in 1..l : q[i] = OverallAfter(q[i - 1], risks[i])
  BY <1>5 DEF Overall!Runs
<1>8. /\ Rank["none"] = 0 /\ Rank["low"] = 1 /\ Rank["elevated"] = 2 /\ Rank["high"] = 3
  BY RanksAre DEF Ranks
<1>9. ASSUME NEW r \in RiskLevels, NEW risk \in RiskLevels \cup {NoRisk}
      PROVE  LET next == OverallAfter(r, risk)
             IN  /\ next \in RiskLevels /\ Rank[r] <= Rank[next]
                 /\ risk # NoRisk => Rank[risk] <= Rank[next]
                 /\ next = r \/ next = risk
  <2> DEFINE next == OverallAfter(r, risk)
  <2>1. /\ next \in RiskLevels /\ (next = r \/ next = risk)
        /\ next # r => (risk = "high" \/ (risk = "elevated" /\ r # "high")
                           \/ (risk = "low" /\ r = "none"))
        /\ next # risk => (risk \in {NoRisk, "none"} \/ r = "high" \/ (risk = "low" /\ r = "elevated"))
    BY DEF OverallAfter, RiskLevels
  <2> HIDE DEF next
  <2>2. \A x \in RiskLevels : Rank[x] \in 0..3
    BY ONLY <1>8 DEF RiskLevels
  <2>3. r \in RiskLevels /\ risk \in RiskLevels \cup {NoRisk}
    BY <1>9
  <2>4. Rank[r] <= Rank[next]
    BY ONLY <1>8, <2>1, <2>2, <2>3 DEF RiskLevels
  <2>5. risk # NoRisk => Rank[risk] <= Rank[next]
    BY ONLY <1>8, <2>1, <2>2, <2>3 DEF RiskLevels
  <2> QED
    BY <2>1, <2>4, <2>5 DEF next
<1> DEFINE SoFar(i) == /\ q[i] \in RiskLevels
                       /\ \A j \in 1..i : risks[j] # NoRisk => Rank[risks[j]] <= Rank[q[i]]
                       /\ q[i] # "none" => \E j \in 1..i : risks[j] = q[i]
           T == {i \in 0..l : SoFar(i)}
<1>10. 0 \in T
  <2>1. 0 \in 0..l /\ 1..0 = {} /\ q[0] \in RiskLevels
    BY <1>1, <1>7 DEF RiskLevels
  <2> QED
    BY <1>7, <2>1
<1>11. ASSUME NEW i \in 1..l, i - 1 \in T PROVE i \in T
  <2>1. i \in 0..l /\ i \in 1..i /\ 1..i = (1..i - 1) \cup {i}
    BY <1>1
  <2>2. SoFar(i - 1)
    BY <1>11
  <2>3. \A r \in RiskLevels : Rank[r] \in Nat
    BY <1>8 DEF RiskLevels
  <2>4. /\ q[i] \in RiskLevels /\ Rank[q[i - 1]] <= Rank[q[i]]
        /\ risks[i] # NoRisk => Rank[risks[i]] <= Rank[q[i]]
        /\ q[i] = q[i - 1] \/ q[i] = risks[i]
    BY <1>3, <1>7, <1>9, <2>2
  <2>5. \A j \in 1..i : risks[j] # NoRisk => Rank[risks[j]] <= Rank[q[i]]
    <3>1. \A j \in 1..i - 1 : j \in 1..l
      BY <1>1
    <3>2. \A j \in 1..i - 1 : risks[j] # NoRisk => Rank[risks[j]] \in Nat
      BY <1>3, <2>3, <3>1
    <3>3. Rank[q[i - 1]] \in Nat /\ Rank[q[i]] \in Nat
      BY <2>2, <2>3, <2>4
    <3> QED
      BY <2>1, <2>2, <2>4, <3>2, <3>3
  <2>6. q[i] # "none" => \E j \in 1..i : risks[j] = q[i]
    BY <2>1, <2>2, <2>4
  <2> QED
    BY <2>1, <2>4, <2>5, <2>6
<1>12. SoFar(l)
  <2>1. l \in 0..l
    BY <1>1
  <2> HIDE DEF T
  <2>2. \A i \in 0..l : i \in T
    BY <1>1, <1>10, <1>11, EachNumber
  <2> QED
    BY <2>1, <2>2 DEF T
<1>13. /\ Rank[q[l]] \in Nat
       /\ Rank[q[l]] \in levels \cup {0}
       /\ \A k \in levels : k \in Nat /\ k <= Rank[q[l]]
  <2>0. \A r \in RiskLevels : Rank[r] \in Nat
    BY <1>8 DEF RiskLevels
  <2>1. q[l] \in RiskLevels
    BY <1>12
  <2>2. \A j \in 1..l : risks[j] # NoRisk => Rank[risks[j]] \in Nat
    BY <1>3, <2>0
  <2>3. Rank[q[l]] \in Nat
    BY <2>0, <2>1
  <2>4. Rank[q[l]] \in levels \cup {0}
    <3>1. NoRisk \notin RiskLevels
      BY NoRiskIsNone
    <3>2. CASE q[l] = "none"
      BY <1>8, <3>2
    <3>3. CASE q[l] # "none"
      <4>1. PICK j \in 1..l : risks[j] = q[l]
        BY <1>12, <3>3
      <4> QED
        BY <1>4, <2>1, <3>1, <4>1
    <3> QED
      BY <3>2, <3>3
  <2> QED
    BY <1>4, <1>12, <2>2, <2>3, <2>4
<1> QED
  BY <1>6, <1>13, WorstIs DEF levels

-----------------------------------------------------------------------------

\* What the two tools say of waiting.
LEMMA WaitsAgree ==
    ASSUME NEW s \in PoolStats
    PROVE  /\ AvgWait(s) <= P95Wait(s) /\ P95Wait(s) <= MaxWait(s)
           /\ "high_wait_ratio" \in {i.type : i \in Issues(s)} => Assessment(s) = "high_wait_ratio"
<1>1. s.waitCount \in Nat /\ s.waited \in Nat /\ s.open \in Nat
  BY DEF PoolStats
<1>2. AvgWait(s) \in Nat
  <2>1. \A a \in Nat, b \in Nat \ {0} : a \div b \in Nat
    OBVIOUS
  <2> QED
    BY <1>1, <2>1 DEF AvgWait
<1>3. \A a \in Nat : a <= (a * 5) \div 2 /\ (a * 5) \div 2 <= a * 5
  OBVIOUS
<1>4. AvgWait(s) <= P95Wait(s)
  BY <1>2, <1>3 DEF P95Wait
<1>5. P95Wait(s) <= MaxWait(s)
  BY <1>1, <1>2, <1>3 DEF P95Wait, MaxWait
<1>6. ASSUME "high_wait_ratio" \in {i.type : i \in Issues(s)}
      PROVE  Assessment(s) = "high_wait_ratio"
  <2> DEFINE c == Checks(s)
  <2>1. c[1].found <=> s.waitCount > 0 /\ s.open > 0 /\ 2 * s.waitCount > s.waitCount + s.open
    BY DEF Checks
  <2>2. /\ DOMAIN c = 1..5
        /\ c[2].type # "high_wait_ratio" /\ c[3].type # "high_wait_ratio"
        /\ c[4].type # "high_wait_ratio" /\ c[5].type # "high_wait_ratio"
    BY DEF Checks
  <2>3. \A i \in 1..5 : i = 1 \/ i = 2 \/ i = 3 \/ i = 4 \/ i = 5
    OBVIOUS
  <2>4. PICK i \in 1..5 : c[i].found /\ c[i].type = "high_wait_ratio"
    BY <1>6, <2>2 DEF Issues, ToSet
  <2> HIDE DEF c
  <2>5. c[1].found
    BY <2>2, <2>3, <2>4
  <2> QED
    BY <1>1, <2>1, <2>5 DEF Assessment
<1> QED
  BY <1>4, <1>5, <1>6

LEMMA PoolsTell == PoolTypeOK => WorstRiskWins
  BY DatabaseRisk, OverallIsWorst, WaitsAgree DEF WorstRiskWins, PoolTypeOK

LEMMA InitPools == PoolInit => PoolTypeOK
  BY PoolAssumption DEF PoolInit, PoolTypeOK

LEMMA PoolTypes == PoolTypeOK /\ [PoolNext]_poolVars => PoolTypeOK'
<1> SUFFICES ASSUME PoolTypeOK, [PoolNext]_poolVars PROVE PoolTypeOK'
  OBVIOUS
<1>1. ASSUME NEW name \in ToSet(DbNames), NEW db \in {{}, {Unused}, {[Unused EXCEPT !.maxOpen = 1]}},
             RegisterDatabase(name, db)
      PROVE  PoolTypeOK'
  <2>1. db \subseteq PoolStats /\ \A s \in db : s.inUse <= s.open
    BY DEF PoolStats, Unused
  <2>2. Cardinality(db) <= 1
    <3>1. Cardinality({}) = 0 /\ \A x : Cardinality({x}) = 1
      BY FS_EmptySet, FS_Singleton, Zenon
    <3>2. CASE db = {}
      BY <3>1, <3>2
    <3>3. CASE db # {}
      <4>1. PICK x : db = {x}
        BY <3>3
      <4>2. Cardinality({x}) = 1
        BY <3>1
      <4> QED
        BY <4>1, <4>2
    <3> QED
      BY <3>2, <3>3
  <2> QED
    BY <1>1, <2>1, <2>2, PoolAssumption DEF RegisterDatabase, PoolStep, PoolTypeOK, Put
<1>2. ASSUME NEW name \in DOMAIN pools, NEW waited \in {1, 31}, NEW closed \in {10, 11},
             DatabaseRuns(name, waited, closed)
      PROVE  PoolTypeOK'
  <2>0. PICK s \in pools[name] : \E t \in PoolChanges(s, waited, closed) :
            pools' = [pools EXCEPT ![name] = {t}]
    BY <1>2 DEF DatabaseRuns
  <2>1. PICK t \in PoolChanges(s, waited, closed) : pools' = [pools EXCEPT ![name] = {t}]
    BY <2>0
  <2>2. s \in PoolStats /\ s.inUse <= s.open
    BY DEF PoolTypeOK
  <2>3. t \in PoolStats /\ t.inUse <= t.open
    <3>1. waited \in Nat /\ closed \in Nat
      OBVIOUS
    <3>2. CASE t = [s EXCEPT !.open = 1, !.inUse = 1]
      <4>1. t \in PoolStats
        BY <2>2, <3>2 DEF PoolStats
      <4>2. t.open = 1 /\ t.inUse = 1
        BY <2>2, <3>2 DEF PoolStats
      <4> QED
        BY <4>1, <4>2
    <3>3. CASE t = [s EXCEPT !.inUse = 0]
      BY <2>2, <3>3 DEF PoolStats
    <3>4. CASE t = [s EXCEPT !.open = 1, !.inUse = 1, !.waitCount = @ + 1, !.waited = @ + waited]
      <4>1. s.waitCount + 1 \in Nat /\ s.waited + waited \in Nat
        BY <2>2, <3>1 DEF PoolStats
      <4>2. t \in PoolStats
        BY <2>2, <3>4, <4>1 DEF PoolStats
      <4>3. t.open = 1 /\ t.inUse = 1
        BY <2>2, <3>4 DEF PoolStats
      <4> QED
        BY <4>2, <4>3
    <3>5. CASE t = [s EXCEPT !.lifetimeClosed = @ + closed]
      BY <2>2, <3>1, <3>5 DEF PoolStats
    <3>6. CASE t = [s EXCEPT !.idleClosed = @ + closed]
      BY <2>2, <3>1, <3>6 DEF PoolStats
    <3> QED
      BY <3>2, <3>3, <3>4, <3>5, <3>6 DEF PoolChanges
  <2>4. Cardinality({t}) <= 1
    <3>1. Cardinality({t}) = 1
      BY FS_Singleton, Zenon
    <3> QED
      BY <3>1
  <2>5. DOMAIN pools' = DOMAIN pools
    BY <2>1
  <2>6. \A other \in DOMAIN pools : pools'[other] = IF other = name THEN {t} ELSE pools[other]
    BY <2>1
  <2>7. poolSteps' \in 0..MaxPoolSteps
    BY <1>2, PoolAssumption DEF DatabaseRuns, PoolStep, PoolTypeOK
  <2>8. ASSUME NEW other \in DOMAIN pools
        PROVE  /\ pools'[other] \subseteq PoolStats /\ Cardinality(pools'[other]) <= 1
               /\ \A u \in pools'[other] : u.inUse <= u.open
    <3>1. CASE other = name
      <4>1. pools'[other] = {t}
        BY <2>6, <3>1
      <4> QED
        BY <2>3, <2>4, <4>1
    <3>2. CASE other # name
      <4>1. pools'[other] = pools[other]
        BY <2>6, <3>2
      <4> QED
        BY <4>1 DEF PoolTypeOK
    <3> QED
      BY <3>1, <3>2
  <2> QED
    BY <2>5, <2>7, <2>8 DEF PoolTypeOK
<1>3. CASE UNCHANGED poolVars
  BY <1>3 DEF PoolTypeOK, poolVars
<1> QED
  BY <1>1, <1>2, <1>3 DEF PoolNext

-----------------------------------------------------------------------------
(* The functions of a CPU profile.                                         *)

Timing == INSTANCE Loops WITH Step <- AddTime

Summing == INSTANCE Loops WITH Step <- AddSample

\* Adding to a map's entry adds to it and to no other.
LEMMA AddToAdds ==
    ASSUME NEW m, Numbers(m), NEW k, NEW v \in Nat
    PROVE  /\ Numbers(AddTo(m, k, v))
           /\ \A f : /\ ValueIn(m, f) \in Nat
                     /\ ValueIn(AddTo(m, k, v), f) = ValueIn(m, f) + (IF f = k THEN v ELSE 0)
<1> DEFINE new == AddTo(m, k, v)
<1>1. \A f : ValueIn(m, f) \in Nat
  BY DEF Numbers, ValueIn
<1>2. DOMAIN new = DOMAIN m \cup {k}
  BY DEF AddTo, Put
<1>3. \A f \in DOMAIN new : new[f] = IF f = k THEN ValueIn(m, k) + v ELSE m[f]
  BY DEF AddTo, Put
<1> HIDE DEF new
<1>4. IsFiniteSet(DOMAIN new)
  <2>1. IsFiniteSet(DOMAIN m)
    BY DEF Numbers
  <2> QED
    BY <1>2, <2>1, FS_AddElement
<1>5. \A f \in DOMAIN new : new[f] \in Nat
  <2> TAKE f \in DOMAIN new
  <2>1. f # k => m[f] \in Nat
    BY <1>2 DEF Numbers
  <2>2. ValueIn(m, k) \in Nat
    BY <1>1
  <2> QED
    BY <1>3, <2>1, <2>2
<1>6. Numbers(new)
  BY <1>4, <1>5 DEF Numbers
<1>7. ASSUME NEW f PROVE ValueIn(new, f) = ValueIn(m, f) + (IF f = k THEN v ELSE 0)
  <2>1. ValueIn(m, f) \in Nat /\ ValueIn(m, k) \in Nat
    BY <1>1
  <2>2. CASE f = k
    <3>1. ValueIn(new, f) = ValueIn(m, f) + v
      BY <1>2, <1>3, <2>2 DEF ValueIn
    <3> QED
      BY <2>2, <3>1
  <2>3. CASE f # k
    <3>1. ValueIn(new, f) = ValueIn(m, f)
      BY <1>2, <1>3, <2>3 DEF ValueIn
    <3> QED
      BY <2>1, <2>3, <3>1
  <2> QED
    BY <2>2, <2>3
<1> QED
  BY <1>1, <1>6, <1>7 DEF new

\* What the first n functions of a stack add to the cumulative times.
Timings(old, new, called, v, n) ==
    /\ Numbers(new)
    /\ \A f : /\ ValueIn(new, f) \in Nat
              /\ Among(called, f, n) = 0 => ValueIn(new, f) = ValueIn(old, f)
              /\ Among(called, f, n) = 1 => ValueIn(new, f) = ValueIn(old, f) + v
              /\ Among(called, f, n) > 0 => ValueIn(new, f) >= ValueIn(old, f) + v

LEMMA TimingsGoOn ==
    ASSUME NEW old, Numbers(old), NEW new, NEW called, NEW v \in Nat, NEW n \in Nat,
           Timings(old, new, called, v, n)
    PROVE  Timings(old, AddTo(new, called[n + 1], v), called, v, n + 1)
<1> DEFINE k == called[n + 1]
           next == AddTo(new, k, v)
<1>1. Numbers(new)
  BY DEF Timings
<1>2. Numbers(next)
  BY <1>1, AddToAdds
<1>3. ASSUME NEW f
      PROVE  /\ ValueIn(next, f) \in Nat
             /\ Among(called, f, n + 1) = 0 => ValueIn(next, f) = ValueIn(old, f)
             /\ Among(called, f, n + 1) = 1 => ValueIn(next, f) = ValueIn(old, f) + v
             /\ Among(called, f, n + 1) > 0 => ValueIn(next, f) >= ValueIn(old, f) + v
  <2> DEFINE a == Among(called, f, n)
             b == Among(called, f, n + 1)
             o == ValueIn(old, f)
             w == ValueIn(new, f)
             x == ValueIn(next, f)
  <2>1. a \in Nat /\ b = a + (IF k = f THEN 1 ELSE 0)
    BY AmongOneMore
  <2>2. w \in Nat /\ x = w + (IF f = k THEN v ELSE 0)
    BY <1>1, AddToAdds
  <2>3. o \in Nat
    BY AddToAdds
  <2>4. /\ a = 0 => w = o
        /\ a = 1 => w = o + v
        /\ a > 0 => w >= o + v
    BY DEF Timings
  <2> HIDE DEF a, b, o, w, x, k, next
  <2>5. /\ x \in Nat
        /\ b = 0 => x = o
        /\ b = 1 => x = o + v
        /\ b > 0 => x >= o + v
    BY <2>1, <2>2, <2>3, <2>4
  <2> QED
    BY <2>5 DEF a, b, o, w, x
<1> HIDE DEF next
<1> QED
  BY <1>2, <1>3 DEF Timings, next

\* A sample has a stack of functions and takes time.
LEMMA SampleIs ==
    ASSUME NEW s \in ProfileSamples
    PROVE  /\ s.stack \in Seq(Seq(Shown)) /\ FlattenSeq(s.stack) \in Seq(Shown)
           /\ s.taken \in Nat /\ NanosecondsOf(s) \in Nat
           /\ SampleValue(s) = NanosecondsOf(s) + s.taken /\ SampleValue(s) \in Nat
<1>1. s.stack \in Stacks /\ s.taken \in Nat /\ Period \in Nat
  BY FunctionsAssumption DEF ProfileSamples
<1>2. s.stack \in Seq(Seq(Shown))
  BY <1>1, FunctionsAssumption
<1>3. /\ NanosecondsOf(s) \in Nat
      /\ SampleValue(s) = NanosecondsOf(s) + s.taken /\ SampleValue(s) \in Nat
  <2>1. \A m, n \in Nat : m * n \in Nat
    OBVIOUS
  <2>2. NanosecondsOf(s) \in Nat
    BY <1>1, <2>1 DEF NanosecondsOf
  <2> QED
    BY <1>1, <2>2 DEF SampleValue
<1> QED
  BY <1>1, <1>2, <1>3, FlattenTyped

LEMMA TimeAdded ==
    ASSUME NEW old, Numbers(old), NEW s \in ProfileSamples
    PROVE  LET new == FoldLeft(AddTime, old, Timed(s))
           IN  /\ Numbers(new)
               /\ \A f : /\ ValueIn(new, f) \in Nat
                         /\ OnStack(f, s.stack) \in Nat
                         /\ OnStack(f, s.stack) = 0 => ValueIn(new, f) = ValueIn(old, f)
                         /\ OnStack(f, s.stack) = 1 => ValueIn(new, f) = ValueIn(old, f) + SampleValue(s)
                         /\ OnStack(f, s.stack) > 0 => ValueIn(new, f) >= ValueIn(old, f) + SampleValue(s)
<1> DEFINE called == FlattenSeq(s.stack)
           l == Len(called)
           v == SampleValue(s)
           timed == Timed(s)
           new == FoldLeft(AddTime, old, timed)
<1>1. called \in Seq(Shown) /\ v \in Nat
  BY SampleIs
<1>2. l \in Nat /\ DOMAIN called = 1..l
  BY <1>1
<1>3. /\ DOMAIN timed = 1..l
      /\ \A i \in 1..l : timed[i].function = called[i] /\ timed[i].time = v
  BY DEF Timed
<1> HIDE DEF timed
<1>4. PICK q : Timing!Runs(q, old, timed, l)
  BY <1>2, <1>3, Timing!LoopRuns
<1>5. new = q[l]
  BY <1>4 DEF Timing!Runs, Timing!FoldLeft, Timing!MapThenFoldSet, Timing!Max,
              FoldLeft, MapThenFoldSet, Max
<1>6. q[0] = old /\ \A i \in 1..l : q[i] = AddTime(q[i - 1], timed[i])
  BY <1>4 DEF Timing!Runs
<1> HIDE DEF called, l, v, new
<1> DEFINE T == {i \in 0..l : Timings(old, q[i], called, v, i)}
<1>7. 0 \in T
  <2>1. \A f : Among(called, f, 0) = 0 /\ ValueIn(old, f) \in Nat
    BY AmongOneMore, AddToAdds
  <2>2. Timings(old, old, called, v, 0)
    BY <2>1 DEF Timings
  <2> QED
    BY <1>2, <1>6, <2>2
<1>8. ASSUME NEW i \in 1..l, i - 1 \in T PROVE i \in T
  <2>1. i - 1 \in Nat /\ (i - 1) + 1 = i /\ i \in 0..l
    BY <1>2
  <2>2. Timings(old, q[i - 1], called, v, i - 1)
    BY <1>8
  <2>3. q[i] = AddTo(q[i - 1], called[i], v)
    BY <1>3, <1>6 DEF AddTime
  <2>4. Timings(old, AddTo(q[i - 1], called[(i - 1) + 1], v), called, v, (i - 1) + 1)
    BY <1>1, <2>1, <2>2, TimingsGoOn
  <2> QED
    BY <2>1, <2>3, <2>4
<1>9. \A i \in 0..l : i \in T
  <2> HIDE DEF T
  <2> QED
    BY <1>2, <1>7, <1>8, EachNumber
<1>10. Timings(old, new, called, v, l)
  <2>1. l \in 0..l
    BY <1>2
  <2> QED
    BY <1>5, <1>9, <2>1
<1>11. \A f : OnStack(f, s.stack) = Among(called, f, l)
  BY <1>2 DEF OnStack, Among, called
<1>12. \A f : Among(called, f, l) \in Nat
  BY <1>2, AmongOneMore
<1> QED
  BY <1>10, <1>11, <1>12 DEF Timings, new, v, timed

\* The times of the first n samples: in f, and in f or below it.
InTime(f, s) == IF HasLeaf(s.stack) /\ f = Leaf(s.stack) THEN SampleValue(s) ELSE 0

BelowTime(f, s) == IF OnStack(f, s.stack) > 0 THEN SampleValue(s) ELSE 0

SelfOf(f, all, n) == Total([i \in 1..n |-> InTime(f, all[i])])

BelowOf(f, all, n) == Total([i \in 1..n |-> BelowTime(f, all[i])])

\* The samples of f among the first n.
RecordsOf(f, all, n) == Cardinality({k \in 1..n : In(f, all[k])})

\* What the sums tell of a function after n samples.
Tells(sums, f, all, n) ==
    /\ ValueIn(sums.self, f) \in Nat /\ ValueIn(sums.counts, f) \in Nat
    /\ ValueIn(sums.cumulative, f) \in Nat
    /\ ValueIn(sums.self, f) = SelfOf(f, all, n)
    /\ ValueIn(sums.counts, f) = RecordsOf(f, all, n)
    /\ ValueIn(sums.cumulative, f) >= ValueIn(sums.self, f)
    /\ (\A i \in 1..n : OnStack(f, all[i].stack) < 2)
          => ValueIn(sums.cumulative, f) = BelowOf(f, all, n)

SumsTell(sums, all, n) ==
    /\ Numbers(sums.self) /\ Numbers(sums.counts) /\ Numbers(sums.cumulative)
    /\ \A f : Tells(sums, f, all, n)

\* One sample more.
LEMMA TimesGrow ==
    ASSUME NEW all \in Seq(ProfileSamples), NEW n \in Nat, n + 1 <= Len(all), NEW f
    PROVE  /\ SelfOf(f, all, n) \in Nat
           /\ SelfOf(f, all, n + 1) = SelfOf(f, all, n) + InTime(f, all[n + 1])
           /\ BelowOf(f, all, n) \in Nat
           /\ BelowOf(f, all, n + 1) = BelowOf(f, all, n) + BelowTime(f, all[n + 1])
<1>1. \A i \in 1..n + 1 : all[i] \in ProfileSamples
  <2>1. Len(all) \in Nat /\ \A i \in 1..Len(all) : all[i] \in ProfileSamples
    OBVIOUS
  <2>2. \A i \in 1..n + 1 : i \in 1..Len(all)
    BY <2>1
  <2> QED
    BY <2>1, <2>2
<1>2. \A i \in 1..n + 1 : InTime(f, all[i]) \in Nat /\ BelowTime(f, all[i]) \in Nat
  <2> TAKE i \in 1..n + 1
  <2>1. SampleValue(all[i]) \in Nat
    BY <1>1, SampleIs
  <2> QED
    BY <2>1 DEF InTime, BelowTime
<1>3. \A i \in 1..n : i \in 1..n + 1
  OBVIOUS
<1>4. n + 1 \in 1..n + 1
  OBVIOUS
<1> DEFINE few == [i \in 1..n |-> InTime(f, all[i])]
           more == [i \in 1..n + 1 |-> InTime(f, all[i])]
           few2 == [i \in 1..n |-> BelowTime(f, all[i])]
           more2 == [i \in 1..n + 1 |-> BelowTime(f, all[i])]
<1>5. /\ few \in [1..n -> Nat] /\ more \in [1..n + 1 -> Nat] /\ \A i \in 1..n : more[i] = few[i]
      /\ few2 \in [1..n -> Nat] /\ more2 \in [1..n + 1 -> Nat] /\ \A i \in 1..n : more2[i] = few2[i]
      /\ more[n + 1] = InTime(f, all[n + 1]) /\ more2[n + 1] = BelowTime(f, all[n + 1])
  BY <1>2, <1>3, <1>4
<1> HIDE DEF few, more, few2, more2
<1>6. Total(few) \in Nat /\ Total(more) = Total(few) + more[n + 1]
  BY ONLY <1>5, n \in Nat, TotalOneMore
<1>7. Total(few2) \in Nat /\ Total(more2) = Total(few2) + more2[n + 1]
  BY ONLY <1>5, n \in Nat, TotalOneMore
<1> QED
  BY <1>5, <1>6, <1>7 DEF SelfOf, BelowOf, few, more, few2, more2

LEMMA RecordsGrow ==
    ASSUME NEW all, NEW n \in Nat, NEW f
    PROVE  /\ RecordsOf(f, all, 0) = 0
           /\ RecordsOf(f, all, n) \in Nat
           /\ RecordsOf(f, all, n + 1)
                = RecordsOf(f, all, n) + (IF In(f, all[n + 1]) THEN 1 ELSE 0)
<1> DEFINE few == {k \in 1..n : In(f, all[k])}
           more == {k \in 1..n + 1 : In(f, all[k])}
<1>1. IsFiniteSet(few) /\ Cardinality(few) \in Nat
  <2>1. IsFiniteSet(1..n) /\ few \subseteq 1..n
    BY FS_Interval
  <2> QED
    BY <2>1, FS_Subset, FS_CardinalityType
<1>2. n + 1 \notin few
  OBVIOUS
<1>3. more = IF In(f, all[n + 1]) THEN few \cup {n + 1} ELSE few
  <2>1. 1..n + 1 = (1..n) \cup {n + 1}
    OBVIOUS
  <2> QED
    BY <2>1
<1> HIDE DEF few, more
<1>4. Cardinality(more) = Cardinality(few) + (IF In(f, all[n + 1]) THEN 1 ELSE 0)
  <2>1. CASE In(f, all[n + 1])
    <3>1. Cardinality(few \cup {n + 1}) = Cardinality(few) + 1
      BY <1>1, <1>2, FS_AddElement
    <3> QED
      BY <1>3, <2>1, <3>1
  <2>2. CASE ~In(f, all[n + 1])
    BY <1>1, <1>3, <2>2
  <2> QED
    BY <2>1, <2>2
<1>5. {k \in 1..0 : In(f, all[k])} = {}
  OBVIOUS
<1> QED
  BY <1>1, <1>4, <1>5, FS_EmptySet DEF RecordsOf, few, more

LEMMA SumsGoOn ==
    ASSUME NEW all \in Seq(ProfileSamples), NEW n \in Nat, n + 1 <= Len(all),
           NEW sums, SumsTell(sums, all, n)
    PROVE  SumsTell(AddSample(sums, all[n + 1]), all, n + 1)
<1> DEFINE s == all[n + 1]
           next == AddSample(sums, s)
           leaf == HasLeaf(s.stack)
           v == SampleValue(s)
<1>1. s \in ProfileSamples
  BY n + 1 \in 1..Len(all)
<1>2. v \in Nat /\ s.stack \in Seq(Seq(Shown)) /\ FlattenSeq(s.stack) \in Seq(Shown)
  BY <1>1, SampleIs
<1>3. Numbers(sums.self) /\ Numbers(sums.counts) /\ Numbers(sums.cumulative)
  BY DEF SumsTell
<1>4. /\ next.self = IF leaf THEN AddTo(sums.self, Leaf(s.stack), v) ELSE sums.self
      /\ next.counts = IF leaf THEN AddTo(sums.counts, Leaf(s.stack), 1) ELSE sums.counts
      /\ next.cumulative = FoldLeft(AddTime, sums.cumulative, Timed(s))
  BY DEF AddSample
<1>5. ASSUME leaf PROVE OnStack(Leaf(s.stack), s.stack) > 0
  <2> DEFINE called == FlattenSeq(s.stack)
             there == {i \in DOMAIN called : called[i] = Leaf(s.stack)}
  <2>1. Len(called) > 0 /\ called[1] = Leaf(s.stack)
    BY <1>2, <1>5, FlattenTyped DEF HasLeaf, Leaf
  <2>2. DOMAIN called = 1..Len(called) /\ Len(called) \in Nat
    BY <1>2
  <2>3. 1 \in there
    BY <2>1, <2>2
  <2>4. IsFiniteSet(there)
    <3>1. there \subseteq 1..Len(called) /\ IsFiniteSet(1..Len(called))
      BY <2>2, FS_Interval
    <3> HIDE DEF there
    <3> QED
      BY <3>1, FS_Subset
  <2> HIDE DEF there
  <2>5. Cardinality(there) \in Nat /\ Cardinality(there) # 0
    BY <2>3, <2>4, FS_CardinalityType, FS_EmptySet
  <2> QED
    BY <2>5 DEF OnStack, there
<1> HIDE DEF next, s, leaf, v
<1>6. /\ Numbers(next.self)
      /\ \A f : ValueIn(next.self, f)
                  = ValueIn(sums.self, f) + (IF leaf /\ f = Leaf(s.stack) THEN v ELSE 0)
  <2>1. \A f : ValueIn(sums.self, f) \in Nat
    BY <1>3, AddToAdds
  <2>2. CASE leaf
    BY <1>2, <1>3, <1>4, <2>2, AddToAdds
  <2>3. CASE ~leaf
    BY <1>3, <1>4, <2>1, <2>3
  <2> QED
    BY <2>2, <2>3
<1>7. /\ Numbers(next.counts)
      /\ \A f : ValueIn(next.counts, f)
                  = ValueIn(sums.counts, f) + (IF leaf /\ f = Leaf(s.stack) THEN 1 ELSE 0)
  <2>1. \A f : ValueIn(sums.counts, f) \in Nat
    BY <1>3, AddToAdds
  <2>2. CASE leaf
    BY <1>3, <1>4, <2>2, AddToAdds
  <2>3. CASE ~leaf
    BY <1>3, <1>4, <2>1, <2>3
  <2> QED
    BY <2>2, <2>3
<1>8. /\ Numbers(next.cumulative)
      /\ \A f : LET k == OnStack(f, s.stack)
                IN  /\ ValueIn(next.cumulative, f) \in Nat
                    /\ k \in Nat
                    /\ k = 0 => ValueIn(next.cumulative, f) = ValueIn(sums.cumulative, f)
                    /\ k = 1 => ValueIn(next.cumulative, f) = ValueIn(sums.cumulative, f) + v
                    /\ k > 0 => ValueIn(next.cumulative, f) >= ValueIn(sums.cumulative, f) + v
  BY <1>1, <1>3, <1>4, TimeAdded DEF v
<1>9. ASSUME NEW f PROVE Tells(next, f, all, n + 1)
  <2> DEFINE k == OnStack(f, s.stack)
             S == ValueIn(sums.self, f)
             C == ValueIn(sums.counts, f)
             M == ValueIn(sums.cumulative, f)
             S2 == ValueIn(next.self, f)
             C2 == ValueIn(next.counts, f)
             M2 == ValueIn(next.cumulative, f)
             P == leaf /\ f = Leaf(s.stack)
             inT == SelfOf(f, all, n)
             inT2 == SelfOf(f, all, n + 1)
             below == BelowOf(f, all, n)
             below2 == BelowOf(f, all, n + 1)
             records == RecordsOf(f, all, n)
             records2 == RecordsOf(f, all, n + 1)
             few == \A i \in 1..n : OnStack(f, all[i].stack) < 2
             few2 == \A i \in 1..n + 1 : OnStack(f, all[i].stack) < 2
  <2>1. Tells(sums, f, all, n)
    BY DEF SumsTell
  <2>2. /\ S \in Nat /\ C \in Nat /\ M \in Nat /\ S = inT /\ C = records /\ M >= S
        /\ few => M = below
    BY <2>1 DEF Tells
  <2>3. S2 = S + (IF P THEN v ELSE 0) /\ C2 = C + (IF P THEN 1 ELSE 0)
    BY <1>6, <1>7
  <2>4. /\ M2 \in Nat /\ k \in Nat
        /\ k = 0 => M2 = M
        /\ k = 1 => M2 = M + v
        /\ k > 0 => M2 >= M + v
    BY <1>8
  <2>5. P => k > 0
    BY <1>5
  <2>6. inT2 = inT + (IF P THEN v ELSE 0)
    BY TimesGrow DEF InTime, s, leaf, v
  <2>7. below \in Nat /\ below2 = below + (IF k > 0 THEN v ELSE 0)
    BY TimesGrow DEF BelowTime, s, v
  <2>8. few2 => few /\ k < 2
    <3>1. n + 1 \in 1..n + 1 /\ \A i \in 1..n : i \in 1..n + 1
      OBVIOUS
    <3> QED
      BY <3>1 DEF s
  <2>12. records2 = records + (IF P THEN 1 ELSE 0)
    <3>1. P <=> In(f, s)
      BY DEF In, HasLeaf, Leaf, s, leaf
    <3> QED
      BY <3>1, RecordsGrow DEF s
  <2> HIDE DEF k, S, C, M, S2, C2, M2, P, inT, inT2, below, below2, few, few2, records, records2
  <2>9. S2 \in Nat /\ C2 \in Nat /\ S2 = inT2 /\ C2 = records2
    BY <1>2, <2>2, <2>3, <2>6, <2>12
  <2>10. M2 >= S2
    BY <1>2, <2>2, <2>3, <2>4, <2>5
  <2>11. few2 => M2 = below2
    <3> SUFFICES ASSUME few2 PROVE M2 = below2
      OBVIOUS
    <3>1. M = below /\ k < 2
      BY <2>2, <2>8
    <3>2. k = 0 \/ k = 1
      BY <2>4, <3>1
    <3> QED
      BY <2>2, <2>4, <2>7, <3>1, <3>2
  <2> QED
    BY <2>4, <2>9, <2>10, <2>11 DEF Tells, S2, C2, M2, inT2, below2, few2, records2
<1> QED
  BY <1>6, <1>7, <1>8, <1>9 DEF SumsTell, next, s

\* The sums after all samples.
AllSums(all) == FoldLeft(AddSample, NoSums, all)

LEMMA SumsAre ==
    ASSUME NEW all \in Seq(ProfileSamples)
    PROVE  SumsTell(AllSums(all), all, Len(all))
<1> DEFINE l == Len(all)
<1>1. l \in Nat /\ DOMAIN all = 1..l
  OBVIOUS
<1>2. PICK q : Summing!Runs(q, NoSums, all, l)
  BY <1>1, Summing!LoopRuns
<1>3. AllSums(all) = q[l]
  BY <1>2 DEF AllSums, Summing!Runs, Summing!FoldLeft, Summing!MapThenFoldSet, Summing!Max,
              FoldLeft, MapThenFoldSet, Max
<1>4. q[0] = NoSums /\ \A i \in 1..l : q[i] = AddSample(q[i - 1], all[i])
  BY <1>2 DEF Summing!Runs
<1> HIDE DEF l
<1> DEFINE T == {i \in 0..l : SumsTell(q[i], all, i)}
<1>5. 0 \in T
  <2>1. /\ NoSums.self = <<>> /\ NoSums.counts = <<>> /\ NoSums.cumulative = <<>>
        /\ DOMAIN <<>> = {}
    BY DEF NoSums
  <2>2. Numbers(<<>>) /\ \A f : ValueIn(<<>>, f) = 0
    BY <2>1, NothingCounted DEF ValueIn
  <2>3. \A f : SelfOf(f, all, 0) = 0 /\ BelowOf(f, all, 0) = 0
    <3>1. 1..0 = {}
      OBVIOUS
    <3>2. \A f : /\ DOMAIN [i \in 1..0 |-> InTime(f, all[i])] = {}
                 /\ DOMAIN [i \in 1..0 |-> BelowTime(f, all[i])] = {}
      BY <3>1
    <3> QED
      BY <3>2, NothingCounted DEF SelfOf, BelowOf
  <2>4. \A f : Tells(NoSums, f, all, 0)
    BY <2>1, <2>2, <2>3, RecordsGrow DEF Tells
  <2>5. SumsTell(NoSums, all, 0)
    BY <2>1, <2>2, <2>4 DEF SumsTell
  <2> QED
    BY <1>1, <1>4, <2>5
<1>6. ASSUME NEW i \in 1..l, i - 1 \in T PROVE i \in T
  <2>1. i - 1 \in Nat /\ (i - 1) + 1 = i /\ i \in 0..l /\ i <= Len(all)
    BY <1>1 DEF l
  <2>2. SumsTell(q[i - 1], all, i - 1)
    BY <1>6
  <2>3. SumsTell(AddSample(q[i - 1], all[(i - 1) + 1]), all, (i - 1) + 1)
    BY <2>1, <2>2, SumsGoOn
  <2> QED
    BY <1>4, <2>1, <2>3
<1>7. \A i \in 0..l : i \in T
  <2> HIDE DEF T
  <2> QED
    BY <1>1, <1>5, <1>6, EachNumber
<1>8. l \in 0..l
  BY <1>1
<1> QED
  BY <1>3, <1>7, <1>8 DEF l

\* Two sums are the sum of the pairs.
LEMMA TotalsAdd ==
    ASSUME NEW l \in Nat, NEW a \in [1..l -> Nat], NEW b \in [1..l -> Nat]
    PROVE  Total([i \in 1..l |-> a[i] + b[i]]) = Total(a) + Total(b)
<1> DEFINE A(n) == [i \in 1..n |-> a[i]]
           B(n) == [i \in 1..n |-> b[i]]
           C(n) == [i \in 1..n |-> a[i] + b[i]]
           T == {n \in 0..l : Total(C(n)) = Total(A(n)) + Total(B(n))}
<1>1. 0 \in T
  <2>1. DOMAIN A(0) = {} /\ DOMAIN B(0) = {} /\ DOMAIN C(0) = {}
    OBVIOUS
  <2>2. Total(A(0)) = 0 /\ Total(B(0)) = 0 /\ Total(C(0)) = 0
    BY <2>1, NothingCounted
  <2> QED
    BY <2>2
<1>2. ASSUME NEW n \in 1..l, n - 1 \in T PROVE n \in T
  <2> DEFINE m == n - 1
  <2>1. m \in Nat /\ m + 1 = n /\ 1..m \subseteq 1..n /\ 1..n \subseteq 1..l
    OBVIOUS
  <2>2. /\ A(m) \in [1..m -> Nat] /\ A(n) \in [1..n -> Nat] /\ A(n)[n] = a[n]
        /\ \A i \in 1..m : A(n)[i] = A(m)[i]
    BY <2>1
  <2>3. /\ B(m) \in [1..m -> Nat] /\ B(n) \in [1..n -> Nat] /\ B(n)[n] = b[n]
        /\ \A i \in 1..m : B(n)[i] = B(m)[i]
    BY <2>1
  <2>4. /\ C(m) \in [1..m -> Nat] /\ C(n) \in [1..n -> Nat] /\ C(n)[n] = a[n] + b[n]
        /\ \A i \in 1..m : C(n)[i] = C(m)[i]
    <3>1. \A i \in 1..n : a[i] \in Nat /\ b[i] \in Nat /\ a[i] + b[i] \in Nat
      BY <2>1
    <3> QED
      BY <2>1, <3>1
  <2>5. Total(C(m)) = Total(A(m)) + Total(B(m))
    BY <1>2
  <2>6. a[n] \in Nat /\ b[n] \in Nat /\ n \in 0..l
    BY <2>1
  <2> HIDE DEF A, B, C, m
  <2>7. Total(A(m)) \in Nat /\ Total(A(n)) = Total(A(m)) + a[n]
    BY <2>1, <2>2, TotalOneMore
  <2>8. Total(B(m)) \in Nat /\ Total(B(n)) = Total(B(m)) + b[n]
    BY <2>1, <2>3, TotalOneMore
  <2>9. Total(C(n)) = Total(C(m)) + (a[n] + b[n])
    BY <2>1, <2>4, TotalOneMore
  <2>10. Total(C(n)) = Total(A(n)) + Total(B(n))
    BY <2>5, <2>6, <2>7, <2>8, <2>9
  <2> QED
    BY <2>6, <2>10
<1>3. \A n \in 0..l : n \in T
  <2> HIDE DEF T
  <2> QED
    BY <1>1, <1>2, EachNumber
<1>4. Total(C(l)) = Total(A(l)) + Total(B(l))
  <2>1. l \in 0..l
    OBVIOUS
  <2> QED
    BY <1>3, <2>1
<1>5. A(l) = a /\ B(l) = b
  OBVIOUS
<1> QED
  BY <1>4, <1>5

\* The time of a function is its nanoseconds and how often it was seen.
LEMMA TimesAre ==
    ASSUME NEW all \in Seq(ProfileSamples), NEW f
    PROVE  /\ SelfOf(f, all, Len(all)) = NanosecondsIn(f, all) + SeenIn(f, all)
           /\ BelowOf(f, all, Len(all)) = NanosecondsBelow(f, all) + SeenBelow(f, all)
<1> DEFINE l == Len(all)
           inNs == [i \in 1..l |-> IF In(f, all[i]) THEN NanosecondsOf(all[i]) ELSE 0]
           inSeen == [i \in 1..l |-> IF In(f, all[i]) THEN all[i].taken ELSE 0]
           ns == [i \in 1..l |-> IF OnStack(f, all[i].stack) > 0 THEN NanosecondsOf(all[i]) ELSE 0]
           seen == [i \in 1..l |-> IF OnStack(f, all[i].stack) > 0 THEN all[i].taken ELSE 0]
<1>1. l \in Nat /\ DOMAIN all = 1..l /\ \A i \in 1..l : all[i] \in ProfileSamples
  OBVIOUS
<1>2. \A i \in 1..l : /\ NanosecondsOf(all[i]) \in Nat /\ all[i].taken \in Nat
                     /\ SampleValue(all[i]) = NanosecondsOf(all[i]) + all[i].taken
  BY <1>1, SampleIs
<1>3. /\ inNs \in [1..l -> Nat] /\ inSeen \in [1..l -> Nat]
      /\ ns \in [1..l -> Nat] /\ seen \in [1..l -> Nat]
  BY <1>2
<1>4. \A i \in 1..l : InTime(f, all[i]) = inNs[i] + inSeen[i]
  <2> TAKE i \in 1..l
  <2>1. In(f, all[i]) <=> HasLeaf(all[i].stack) /\ f = Leaf(all[i].stack)
    BY DEF In, HasLeaf, Leaf
  <2> QED
    BY <1>2, <2>1 DEF InTime
<1>5. \A i \in 1..l : BelowTime(f, all[i]) = ns[i] + seen[i]
  BY <1>2 DEF BelowTime
<1>6. /\ NanosecondsIn(f, all) = Total(inNs) /\ SeenIn(f, all) = Total(inSeen)
      /\ NanosecondsBelow(f, all) = Total(ns) /\ SeenBelow(f, all) = Total(seen)
  BY <1>1 DEF NanosecondsIn, SeenIn, NanosecondsBelow, SeenBelow
<1> HIDE DEF l, inNs, inSeen, ns, seen
<1>7. /\ [i \in 1..l |-> InTime(f, all[i])] = [i \in 1..l |-> inNs[i] + inSeen[i]]
      /\ [i \in 1..l |-> BelowTime(f, all[i])] = [i \in 1..l |-> ns[i] + seen[i]]
  BY <1>4, <1>5
<1>8. /\ SelfOf(f, all, l) = Total([i \in 1..l |-> inNs[i] + inSeen[i]])
      /\ BelowOf(f, all, l) = Total([i \in 1..l |-> ns[i] + seen[i]])
  BY <1>7 DEF SelfOf, BelowOf
<1> QED
  BY <1>1, <1>3, <1>6, <1>8, TotalsAdd DEF l

\* What a list says of a function is what the samples say.
EntryRight(e, all) ==
    /\ e.self = NanosecondsIn(e.name, all) + SeenIn(e.name, all)
    /\ (\A s \in ToSet(all) : OnStack(e.name, s.stack) < 2)
          => e.cumulative = NanosecondsBelow(e.name, all) + SeenBelow(e.name, all)
    /\ e.cumulative >= e.self
    /\ e.count = Cardinality({k \in DOMAIN all : In(e.name, all[k])})
    /\ e.cumulative \in Nat /\ e.self \in Nat /\ e.count \in Nat

LEMMA EntriesRight ==
    ASSUME NEW all \in Seq(ProfileSamples)
    PROVE  /\ IsFiniteSet(FunctionEntries(all))
           /\ \A e \in FunctionEntries(all) : EntryRight(e, all)
           /\ \A e, d \in FunctionEntries(all) : e.name = d.name => e = d
<1> DEFINE sums == AllSums(all)
           n == Len(all)
           entry(f) == [name |-> f, cumulative |-> sums.cumulative[f],
                        self |-> ValueIn(sums.self, f), count |-> ValueIn(sums.counts, f)]
<1>1. SumsTell(sums, all, n) /\ n \in Nat /\ DOMAIN all = 1..n
  BY SumsAre
<1>2. FunctionEntries(all) = {entry(f) : f \in DOMAIN sums.cumulative}
  BY DEF FunctionEntries, AllSums
<1> HIDE DEF sums
<1>3. IsFiniteSet(FunctionEntries(all))
  <2>1. IsFiniteSet(DOMAIN sums.cumulative)
    BY <1>1 DEF SumsTell, Numbers
  <2> DEFINE told == [f \in DOMAIN sums.cumulative |-> entry(f)]
             image == {told[f] : f \in DOMAIN sums.cumulative}
  <2>2. IsFiniteSet(image)
    <3>1. told \in Surjection(DOMAIN sums.cumulative, image)
      <4> HIDE DEF entry
      <4> QED
        BY DEF Surjection
    <3> HIDE DEF told, image
    <3> QED
      BY <2>1, <3>1, FS_Surjection
  <2>3. \A f \in DOMAIN sums.cumulative : told[f] = entry(f)
    <3> HIDE DEF entry
    <3> QED
      OBVIOUS
  <2> HIDE DEF entry, told
  <2> QED
    BY <1>2, <2>2, <2>3
<1>4. ASSUME NEW f \in DOMAIN sums.cumulative PROVE EntryRight(entry(f), all)
  <2>1. Tells(sums, f, all, n)
    BY <1>1 DEF SumsTell
  <2>2. sums.cumulative[f] = ValueIn(sums.cumulative, f)
    BY DEF ValueIn
  <2>3. SelfOf(f, all, n) = NanosecondsIn(f, all) + SeenIn(f, all)
    BY TimesAre
  <2>4. /\ BelowOf(f, all, n) = NanosecondsBelow(f, all) + SeenBelow(f, all)
        /\ RecordsOf(f, all, n) = Cardinality({k \in DOMAIN all : In(f, all[k])})
    BY <1>1, TimesAre DEF RecordsOf
  <2>5. (\A s \in ToSet(all) : OnStack(f, s.stack) < 2) => \A i \in 1..n : OnStack(f, all[i].stack) < 2
    BY <1>1 DEF ToSet
  <2>6. /\ entry(f).name = f /\ entry(f).cumulative = ValueIn(sums.cumulative, f)
        /\ entry(f).self = ValueIn(sums.self, f) /\ entry(f).count = ValueIn(sums.counts, f)
    BY <2>2
  <2> HIDE DEF entry, n
  <2> QED
    BY <2>1, <2>3, <2>4, <2>5, <2>6 DEF Tells, EntryRight
<1>5. \A f : entry(f).name = f
  OBVIOUS
<1> HIDE DEF entry
<1> QED
  BY <1>2, <1>3, <1>4, <1>5

\* What is kept and what is told are orders of the functions of the samples.
ToldInOrder(told) ==
    \E by \in Orders, limit \in Nat \ {0} : \E order \in SortedBy(FunctionEntries(measured), by) :
        told = [by |-> by, top |-> Shorter(order, limit), limit |-> limit]

FuncInv ==
    /\ FuncTypeOK
    /\ measured \in Seq(ProfileSamples)
    /\ functions \in SortedBy(FunctionEntries(measured), "cumulative")
    /\ shownTop = NoTop \/ ToldInOrder(shownTop)

\* Nothing is sampled, measured or told at first.
LEMMA InitFunctions == FuncInit => FuncInv
<1> SUFFICES ASSUME FuncInit PROVE FuncInv
  OBVIOUS
<1>1. sampling = FALSE /\ samples = <<>> /\ functions = <<>> /\ measured = <<>> /\ shownTop = NoTop
  BY DEF FuncInit
<1>2. FuncTypeOK
  <2>1. samples \in Seq(ProfileSamples) /\ Len(samples) <= MaxSamples
    BY <1>1, FunctionsAssumption
  <2>2. DOMAIN functions = {}
    BY <1>1
  <2>3. shownTop.by \in Orders \cup {"none"}
    BY <1>1 DEF NoTop
  <2> QED
    BY <1>1, <2>1, <2>2, <2>3 DEF FuncTypeOK
<1>3. FunctionEntries(<<>>) = {}
  <2>1. PICK q : Summing!Runs(q, NoSums, <<>>, 0)
    <3>1. DOMAIN <<>> = 1..0
      OBVIOUS
    <3> QED
      BY <3>1, Summing!LoopRuns
  <2>2. FoldLeft(AddSample, NoSums, <<>>) = q[0] /\ q[0] = NoSums
    BY <2>1 DEF Summing!Runs, Summing!FoldLeft, Summing!MapThenFoldSet, Summing!Max,
                FoldLeft, MapThenFoldSet, Max
  <2>3. DOMAIN NoSums.cumulative = {}
    BY DEF NoSums
  <2> QED
    BY <2>2, <2>3 DEF FunctionEntries
<1>4. functions \in SortedBy(FunctionEntries(measured), "cumulative")
  <2>1. <<>> \in SetToSeqs({})
    <3>1. Cardinality({}) = 0 /\ 1..0 = {}
      BY FS_EmptySet
    <3>2. <<>> \in [1..0 -> {}]
      BY <3>1
    <3> QED
      BY <3>1, <3>2 DEF SetToSeqs
  <2>2. DOMAIN <<>> = {}
    OBVIOUS
  <2> QED
    BY <1>1, <1>3, <2>1, <2>2 DEF SortedBy
<1> QED
  BY <1>1, <1>2, <1>4 DEF FuncInv

LEMMA SortedEntries ==
    ASSUME NEW all \in Seq(ProfileSamples), NEW by, NEW order \in SortedBy(FunctionEntries(all), by)
    PROVE  /\ Len(order) \in Nat /\ DOMAIN order = 1..Len(order)
           /\ \A i \in 1..Len(order) : order[i] \in FunctionEntries(all)
           /\ \A i, j \in 1..Len(order) : i # j => order[i] # order[j]
           /\ \A i, j \in 1..Len(order) : i < j => order[i][by] >= order[j][by]
           /\ \A e \in FunctionEntries(all) : \E i \in 1..Len(order) : order[i] = e
           /\ ToSet(order) = FunctionEntries(all)
<1> DEFINE S == FunctionEntries(all)
<1>1. IsFiniteSet(S)
  BY EntriesRight
<1>2. order \in SetToSeqs(S) /\ \A i, j \in DOMAIN order : i < j => order[i][by] >= order[j][by]
  BY DEF SortedBy
<1> HIDE DEF S
<1>3. /\ order \in Seq(S)
      /\ \A i, j \in 1..Len(order) : i # j => order[i] # order[j]
      /\ \A e \in S : \E i \in 1..Len(order) : order[i] = e
      /\ ToSet(order) = S
  BY <1>1, <1>2, OrderIs
<1>4. Len(order) \in Nat /\ DOMAIN order = 1..Len(order) /\ \A i \in 1..Len(order) : order[i] \in S
  BY <1>3
<1> QED
  BY <1>2, <1>3, <1>4 DEF S

\* What is kept of a profile are numbers.
LEMMA FunctionsAreNumbers ==
    ASSUME NEW all \in Seq(ProfileSamples), NEW by, NEW order \in SortedBy(FunctionEntries(all), by)
    PROVE  \A i \in DOMAIN order : /\ order[i].cumulative \in Nat
                                   /\ order[i].self \in Nat /\ order[i].count \in Nat
<1> TAKE i \in DOMAIN order
<1>1. order[i] \in FunctionEntries(all)
  BY SortedEntries
<1> QED
  BY <1>1, EntriesRight DEF EntryRight

LEMMA FunctionStep == FuncInv /\ [FuncNext]_funcVars => FuncInv'
<1> SUFFICES ASSUME FuncInv, [FuncNext]_funcVars PROVE FuncInv'
  OBVIOUS
<1>1. /\ sampling \in BOOLEAN /\ samples \in Seq(ProfileSamples) /\ Len(samples) <= MaxSamples
      /\ measured \in Seq(ProfileSamples)
      /\ functions \in SortedBy(FunctionEntries(measured), "cumulative")
      /\ shownTop = NoTop \/ ToldInOrder(shownTop)
  BY DEF FuncInv, FuncTypeOK
<1>2. TopShown \in Nat \ {0} /\ MaxSamples \in Nat
  BY FunctionsAssumption
<1>3. ASSUME sampling' \in BOOLEAN, samples' \in Seq(ProfileSamples), Len(samples') <= MaxSamples,
             measured' \in Seq(ProfileSamples),
             functions' \in SortedBy(FunctionEntries(measured'), "cumulative"),
             shownTop' = NoTop \/ ToldInOrder(shownTop)'
      PROVE  FuncInv'
  <2>1. \A i \in DOMAIN functions' : /\ functions'[i].cumulative \in Nat
                                     /\ functions'[i].self \in Nat /\ functions'[i].count \in Nat
    BY <1>3, FunctionsAreNumbers
  <2>2. shownTop'.by \in Orders \cup {"none"}
    BY <1>3 DEF ToldInOrder, NoTop
  <2> QED
    BY <1>3, <2>1, <2>2 DEF FuncInv, FuncTypeOK
<1>4. ASSUME UNCHANGED <<functions, measured>>
      PROVE  /\ measured' \in Seq(ProfileSamples)
             /\ functions' \in SortedBy(FunctionEntries(measured'), "cumulative")
  BY <1>1, <1>4
<1>5. ASSUME NEW stack \in Stacks, TakesSample(stack) PROVE FuncInv'
  <2>1. sampling' = sampling /\ shownTop' = NoTop /\ UNCHANGED <<functions, measured>>
    BY <1>5 DEF TakesSample
  <2>2. samples' \in Seq(ProfileSamples) /\ Len(samples') <= MaxSamples
    <3>1. CASE Len(samples) < MaxSamples /\ samples' = Append(samples, [stack |-> stack, taken |-> 1])
      <4>1. [stack |-> stack, taken |-> 1] \in ProfileSamples
        BY FunctionsAssumption DEF ProfileSamples
      <4> QED
        BY <1>1, <1>2, <3>1, <4>1
    <3>2. ASSUME NEW i \in DOMAIN samples, samples[i].taken < MaxTaken,
                 samples' = [samples EXCEPT ![i].taken = @ + 1]
          PROVE  samples' \in Seq(ProfileSamples) /\ Len(samples') <= MaxSamples
      <4> DEFINE s == [samples[i] EXCEPT !.taken = @ + 1]
      <4>1. samples[i] \in ProfileSamples
        BY <1>1
      <4>2. s \in ProfileSamples
        <5> DEFINE t == samples[i]
        <5>1. t \in [stack : Stacks, taken : 1..MaxTaken] /\ t.taken < MaxTaken
          BY <3>2, <4>1 DEF ProfileSamples
        <5>2. t.taken + 1 \in 1..MaxTaken
          <6>1. t.taken \in 1..MaxTaken /\ MaxTaken \in Nat
            BY <5>1, FunctionsAssumption
          <6> HIDE DEF t
          <6> QED
            BY <5>1, <6>1
        <5> HIDE DEF t
        <5>3. [t EXCEPT !.taken = @ + 1] \in [stack : Stacks, taken : 1..MaxTaken]
          BY <5>1, <5>2
        <5> QED
          BY <5>3 DEF t, ProfileSamples
      <4>3. samples' = [samples EXCEPT ![i] = s]
        BY <3>2
      <4> HIDE DEF s
      <4> QED
        BY <1>1, <4>2, <4>3
    <3> QED
      BY <1>5, <3>1, <3>2 DEF TakesSample
  <2> QED
    BY <1>1, <1>3, <1>4, <2>1, <2>2
<1>6. ASSUME StartSampling PROVE FuncInv'
  <2>1. /\ samples' = <<>> /\ sampling' = TRUE /\ shownTop' = NoTop
        /\ UNCHANGED <<functions, measured>>
    BY <1>6 DEF StartSampling
  <2>2. samples' \in Seq(ProfileSamples) /\ Len(samples') <= MaxSamples
    BY <1>2, <2>1
  <2> QED
    BY <1>3, <1>4, <2>1, <2>2
<1>7. ASSUME EndSampling
      PROVE  /\ sampling' \in BOOLEAN /\ samples' \in Seq(ProfileSamples)
             /\ Len(samples') <= MaxSamples /\ measured' \in Seq(ProfileSamples)
             /\ functions' \in SortedBy(FunctionEntries(measured'), "cumulative")
  <2>1. /\ sampling' = FALSE /\ samples' = samples /\ measured' = samples
        /\ functions' \in SortedBy(FunctionEntries(samples), "cumulative")
    BY <1>7 DEF EndSampling
  <2> QED
    BY <1>1, <2>1
<1>8. ASSUME StopSampling PROVE FuncInv'
  <2>1. /\ EndSampling
        /\ shownTop' = [by |-> "cumulative", top |-> Shorter(functions', TopShown),
                        limit |-> TopShown]
    BY <1>8 DEF StopSampling
  <2>2. ToldInOrder(shownTop)'
    <3>1. functions' \in SortedBy(FunctionEntries(measured'), "cumulative") /\ "cumulative" \in Orders
      BY <1>7, <2>1 DEF Orders
    <3> QED
      BY <1>2, <2>1, <3>1 DEF ToldInOrder
  <2> QED
    BY <1>3, <1>7, <2>1, <2>2
<1>9. ASSUME TimerEndsSampling PROVE FuncInv'
  BY <1>3, <1>7, <1>9 DEF TimerEndsSampling
<1>10. ASSUME NEW by \in Orders, NEW limit \in 1..(TopShown + 1), GetTopFunctions(by, limit)
       PROVE  FuncInv'
  <2>1. PICK order \in SortedBy(ToSet(functions), by) :
           shownTop' = [by |-> by, top |-> Shorter(order, limit), limit |-> limit]
    BY <1>10 DEF GetTopFunctions
  <2>2. UNCHANGED <<sampling, samples, functions, measured>>
    BY <1>10 DEF GetTopFunctions
  <2>3. ToSet(functions) = FunctionEntries(measured)
    BY <1>1, SortedEntries
  <2>4. limit \in Nat \ {0}
    BY <1>2
  <2>5. ToldInOrder(shownTop)'
    BY <2>1, <2>2, <2>3, <2>4 DEF ToldInOrder
  <2> QED
    BY <1>1, <1>3, <1>4, <2>2, <2>5
<1>11. CASE UNCHANGED funcVars
  <2>1. UNCHANGED <<sampling, samples, functions, measured, shownTop>>
    BY <1>11 DEF funcVars
  <2>2. shownTop' = NoTop \/ ToldInOrder(shownTop)'
    BY <1>1, <2>1 DEF ToldInOrder
  <2> QED
    BY <1>1, <1>3, <1>4, <2>1, <2>2
<1> QED
  BY <1>5, <1>6, <1>8, <1>9, <1>10, <1>11 DEF FuncNext

\* What is told follows from the order it is told in.
LEMMA FunctionsTell == FuncInv => FunctionsRight
<1> SUFFICES ASSUME FuncInv, shownTop # NoTop PROVE FunctionsRight
  BY DEF FunctionsRight
<1> DEFINE all == measured
           S == FunctionEntries(all)
           top == shownTop.top
<1>1. all \in Seq(ProfileSamples) /\ functions \in SortedBy(S, "cumulative")
  BY DEF FuncInv
<1>2. PICK by \in Orders, limit \in Nat \ {0} : \E order \in SortedBy(S, by) :
         shownTop = [by |-> by, top |-> Shorter(order, limit), limit |-> limit]
  BY DEF FuncInv, ToldInOrder
<1>3. PICK order \in SortedBy(S, by) :
         shownTop = [by |-> by, top |-> Shorter(order, limit), limit |-> limit]
  BY <1>2
<1>4. shownTop.by = by /\ top = Shorter(order, limit) /\ shownTop.limit = limit
  BY <1>3
<1> DEFINE n == Len(order)
<1>5. /\ n \in Nat /\ DOMAIN order = 1..n
      /\ \A i \in 1..n : order[i] \in S
      /\ \A i, j \in 1..n : i # j => order[i] # order[j]
      /\ \A i, j \in 1..n : i < j => order[i][by] >= order[j][by]
      /\ \A e \in S : \E i \in 1..n : order[i] = e
  BY <1>1, SortedEntries
<1>6. ToSet(functions) = S
  BY <1>1, SortedEntries
<1>7. /\ \A e \in S : EntryRight(e, all)
      /\ \A e, d \in S : e.name = d.name => e = d
  BY <1>1, EntriesRight
<1> DEFINE m == IF limit < n THEN limit ELSE n
<1>8. m \in Nat /\ m <= n /\ (m < n => m = limit)
  <2> HIDE DEF n
  <2> QED
    BY <1>5
<1>9. order \in Seq(S)
  <2>1. IsFiniteSet(S) /\ order \in SetToSeqs(S)
    BY <1>1, EntriesRight DEF SortedBy
  <2> HIDE DEF S
  <2> QED
    BY <2>1, OrderIs
<1> HIDE DEF S
<1>10. Len(top) = m /\ DOMAIN top = 1..m /\ \A i \in 1..m : top[i] = order[i]
  <2>1. CASE limit < n
    <3>1. top = SubSeq(order, 1, limit) /\ m = limit
      BY <1>4, <2>1 DEF Shorter
    <3> QED
      BY <1>5, <1>9, <2>1, <3>1
  <2>2. CASE ~(limit < n)
    <3>1. top = order /\ m = n
      BY <1>4, <2>2 DEF Shorter
    <3> QED
      BY <1>5, <3>1
  <2> QED
    BY <2>1, <2>2
<1> HIDE DEF all, top, n, m
<1>11. \A i \in 1..m : i \in 1..n /\ top[i] \in S
  BY <1>5, <1>8, <1>10
<1>12. \A i \in DOMAIN top :
          LET f == top[i].name IN
          /\ top[i].self = NanosecondsIn(f, all) + SeenIn(f, all)
          /\ (\A s \in ToSet(all) : OnStack(f, s.stack) < 2)
                => top[i].cumulative = NanosecondsBelow(f, all) + SeenBelow(f, all)
          /\ top[i].cumulative >= top[i].self
          /\ top[i].count = Cardinality({k \in DOMAIN all : In(f, all[k])})
  BY <1>7, <1>10, <1>11 DEF EntryRight
<1>13. \A i, j \in DOMAIN top : i < j => top[i][by] >= top[j][by] /\ top[i].name # top[j].name
  <2> SUFFICES ASSUME NEW i \in 1..m, NEW j \in 1..m, i < j
               PROVE  top[i][by] >= top[j][by] /\ top[i].name # top[j].name
    BY <1>10
  <2>1. i \in 1..n /\ j \in 1..n /\ i # j
    BY <1>8, <1>11
  <2>2. order[i][by] >= order[j][by] /\ order[i] # order[j] /\ order[i] \in S /\ order[j] \in S
    BY <1>5, <2>1
  <2>3. order[i].name # order[j].name
    BY <1>7, <2>2
  <2> QED
    BY <1>10, <2>2, <2>3
<1>14. \A e \in ToSet(functions) \ ToSet(top) :
          Len(top) = limit /\ \A i \in DOMAIN top : top[i][by] >= e[by]
  <2> SUFFICES ASSUME NEW e \in S, e \notin ToSet(top)
               PROVE  Len(top) = limit /\ \A i \in 1..m : top[i][by] >= e[by]
    BY <1>6, <1>10
  <2>1. PICK k \in 1..n : order[k] = e
    BY <1>5
  <2>2. k \notin 1..m
    BY <1>10, <2>1 DEF ToSet
  <2>3. m < k /\ m < n
    BY <1>5, <1>8, <2>2
  <2>4. \A i \in 1..m : i \in 1..n /\ i < k
    BY <1>8, <1>11, <2>3
  <2> QED
    BY <1>5, <1>8, <1>10, <2>1, <2>3, <2>4
<1> QED
  BY <1>4, <1>12, <1>13, <1>14 DEF FunctionsRight, all, top

-----------------------------------------------------------------------------
(* The groups of the goroutines.                                           *)

\* The lines of a stack without the one that names the creator.
LEMMA OwnLinesAre ==
    ASSUME NEW g \in StackDumps
    PROVE  LET l == Len(g.lines) IN
           /\ l \in Nat /\ l >= 4 /\ DOMAIN g.lines = 1..l
           /\ Len(OwnLines(g.lines)) = l - 1 /\ DOMAIN OwnLines(g.lines) = 1..(l - 1)
           /\ \A i \in 1..l - 2 : OwnLines(g.lines)[i] = g.lines[i]
<1> DEFINE lines == g.lines
           S == UNION {ToSet(h.lines) : h \in StackDumps}
           l == Len(lines)
           chosen == {i \in DOMAIN lines : lines[i] # CreatedBy}
           frames == 1..(l - 2)
<1>1. /\ lines \in Seq(S) /\ l >= 4
      /\ \A i \in DOMAIN lines : lines[i] = CreatedBy <=> i = l - 1
  BY StacksAssumption
<1> HIDE DEF S, lines
<1>2. l \in Nat /\ DOMAIN lines = 1..l
  BY <1>1
<1> HIDE DEF l
<1>3. chosen = frames \cup {l} /\ l \notin frames /\ chosen \in SUBSET (1..l) /\ l \in chosen
  <2>1. \A i : i \in 1..l /\ i # l - 1 <=> i \in 1..(l - 2) \/ i = l
    BY <1>1, <1>2
  <2>2. \A i : i \in chosen <=> i \in 1..l /\ i # l - 1
    BY <1>1, <1>2
  <2> HIDE DEF chosen
  <2>3. l \notin 1..(l - 2)
    BY <1>2
  <2> QED
    BY <2>1, <2>2, <2>3
<1> HIDE DEF chosen
<1>4. Cardinality(chosen) = l - 1
  <2>1. l - 2 \in Nat
    BY <1>1, <1>2
  <2>2. IsFiniteSet(frames) /\ Cardinality(frames) = l - 2
    BY <2>1, FS_Interval
  <2>3. Cardinality(frames \cup {l}) = Cardinality(frames) + 1
    BY <1>3, <2>2, FS_AddElement
  <2> QED
    BY <1>2, <1>3, <2>2, <2>3
<1>0. \A k \in chosen : Nth(chosen, Cardinality({j \in chosen : j <= k})) = k
  <2>1. l \in Nat /\ chosen \in SUBSET (1..l)
    BY <1>2, <1>3
  <2> HIDE DEF frames
  <2> QED
    BY ONLY <2>1, NthIs
<1>5. \A i \in 1..l - 2 : Nth(chosen, i) = i
  <2> TAKE i \in 1..l - 2
  <2>1. i \in chosen /\ {j \in chosen : j <= i} = 1..i
    <3>1. i \in frames /\ i \in Nat /\ i < l
      BY <1>2
    <3>2. \A j : j \in frames \/ j = l => (j <= i <=> j \in 1..i)
      BY <1>2, <3>1
    <3>3. \A j \in 1..i : j \in frames
      BY <1>2, <3>1
    <3> HIDE DEF frames
    <3> QED
      BY <1>3, <3>1, <3>2, <3>3
  <2>2. Cardinality(1..i) = i
    BY <1>2, FS_Interval
  <2>3. Nth(chosen, Cardinality({j \in chosen : j <= i})) = i
    BY <1>0, <2>1
  <2> QED
    BY <2>1, <2>2, <2>3
<1>6. OwnLines(lines) = Filtered(lines, chosen) /\ chosen \in SUBSET (DOMAIN lines)
  BY <1>2, <1>3 DEF OwnLines, chosen
<1>7. /\ Filtered(lines, chosen) \in Seq(S) /\ Len(Filtered(lines, chosen)) = Cardinality(chosen)
      /\ \A k \in 1..Cardinality(chosen) : Filtered(lines, chosen)[k] = lines[Nth(chosen, k)]
  BY <1>1, <1>6, FilteredIs
<1>8. \A i \in 1..l - 2 : i \in 1..l - 1
  BY <1>2
<1>9. Len(OwnLines(lines)) = l - 1 /\ DOMAIN OwnLines(lines) = 1..(l - 1)
      /\ \A i \in 1..l - 2 : OwnLines(lines)[i] = lines[i]
  <2> DEFINE own == OwnLines(lines)
  <2>1. own \in Seq(S) /\ Len(own) = l - 1 /\ \A k \in 1..l - 1 : own[k] = lines[Nth(chosen, k)]
    BY <1>4, <1>6, <1>7
  <2> HIDE DEF own
  <2>2. DOMAIN own = 1..(l - 1)
    BY <2>1
  <2>3. \A i \in 1..l - 2 : own[i] = lines[i]
    BY <1>5, <1>8, <2>1
  <2> QED
    BY <2>1, <2>2, <2>3 DEF own
<1> QED
  BY <1>1, <1>2, <1>9 DEF lines, l

\* A signature has three lines, those of the first frames if there are several.
LEMMA SignatureIs ==
    ASSUME NEW g \in StackDumps
    PROVE  /\ Signature(g.lines) = SubSeq(OwnLines(g.lines), 1, 3)
           /\ Len(Signature(g.lines)) = 3
           /\ Len(Frames(g.lines)) = Len(g.lines) - 2
           /\ Len(g.lines) >= 6 => Signature(g.lines) = [i \in 1..3 |-> Frames(g.lines)[i]]
<1> DEFINE lines == g.lines
           l == Len(lines)
           own == OwnLines(lines)
<1>1. /\ l \in Nat /\ l >= 4 /\ DOMAIN lines = 1..l /\ Len(own) = l - 1 /\ DOMAIN own = 1..(l - 1)
      /\ \A i \in 1..l - 2 : own[i] = lines[i]
  BY OwnLinesAre
<1>2. Min({3, Len(own)}) = 3
  <2> HIDE DEF own, l
  <2>1. Len(own) \in Int /\ 3 <= Len(own) /\ 3 \in Int
    BY <1>1
  <2> QED
    BY <2>1, MinOfTwo
<1>3. Signature(lines) = SubSeq(own, 1, 3)
  BY <1>2 DEF Signature
<1> HIDE DEF own, l, lines
<1>4. SubSeq(own, 1, 3) = [i \in 1..3 |-> own[i]]
  OBVIOUS
<1>5. Len(SubSeq(own, 1, 3)) = 3
  BY <1>4
<1>6. SubSeq(lines, 1, l - 2) = [i \in 1..(l - 2) |-> lines[i]] /\ l - 2 \in Nat
  BY <1>1
<1>7. Frames(lines) = [i \in 1..(l - 2) |-> lines[i]]
  BY <1>6 DEF Frames, l
<1>8. Len(Frames(lines)) = l - 2
  BY <1>6, <1>7
<1>9. ASSUME l >= 6 PROVE SubSeq(own, 1, 3) = [i \in 1..3 |-> Frames(lines)[i]]
  <2>1. \A i \in 1..3 : i \in 1..(l - 2)
    BY <1>1, <1>9
  <2>2. \A i \in 1..3 : own[i] = Frames(lines)[i]
    BY <1>1, <1>7, <2>1
  <2> QED
    BY <1>4, <2>2
<1> QED
  BY <1>3, <1>5, <1>8, <1>9 DEF lines, l, own

Grouping == INSTANCE Loops WITH Step <- AddToGroup

Counting == INSTANCE Loops WITH Step <- CountState

SignaturesOf(dump) == [i \in DOMAIN dump |-> Signature(dump[i].lines)]

CountsOf(groups) == [sig \in DOMAIN groups |-> groups[sig].count]

\* What the groups of the first n goroutines tell.
GroupTells(group, sig, dump, n) ==
    /\ DOMAIN group = {"count", "state", "first"}
    /\ group.first = sig
    /\ \E i \in 1..n : SignaturesOf(dump)[i] = sig /\ group.state = dump[i].state

GroupsTell(groups, dump, n) ==
    /\ Numbers(CountsOf(groups)) /\ Total(CountsOf(groups)) = n
    /\ \A sig : Among(SignaturesOf(dump), sig, n) = At(CountsOf(groups), sig)
    /\ \A i \in 1..n : SignaturesOf(dump)[i] \in DOMAIN groups
    /\ \A sig \in DOMAIN groups : GroupTells(groups[sig], sig, dump, n)

LEMMA GroupingGoesOn ==
    ASSUME NEW dump \in Seq(StackDumps), NEW n \in Nat, n + 1 <= Len(dump),
           NEW groups, GroupsTell(groups, dump, n)
    PROVE  GroupsTell(AddToGroup(groups, dump[n + 1]), dump, n + 1)
<1> DEFINE g == dump[n + 1]
           sig == Signature(g.lines)
           new == AddToGroup(groups, g)
           counts == CountsOf(groups)
           next == CountsOf(new)
           sigs == SignaturesOf(dump)
           group == IF sig \in DOMAIN groups THEN [groups[sig] EXCEPT !.count = @ + 1]
                    ELSE [count |-> 1, state |-> g.state, first |-> sig]
<1>1. /\ Numbers(counts) /\ Total(counts) = n
      /\ \A x : Among(sigs, x, n) = At(counts, x)
      /\ \A i \in 1..n : sigs[i] \in DOMAIN groups
      /\ \A x \in DOMAIN groups : GroupTells(groups[x], x, dump, n)
  BY DEF GroupsTell
<1>2. /\ n + 1 \in 1..Len(dump) /\ DOMAIN dump = 1..Len(dump)
      /\ n + 1 \in 1..n + 1 /\ \A i \in 1..n : i \in 1..n + 1
      /\ \A i \in 1..n + 1 : i \in 1..n \/ i = n + 1
  OBVIOUS
<1>3. sigs[n + 1] = sig
  BY <1>2 DEF SignaturesOf
<1>4. DOMAIN new = DOMAIN groups \cup {sig} /\ new = [x \in DOMAIN groups \cup {sig} |-> IF x = sig THEN group ELSE groups[x]]
  BY DEF AddToGroup, Put
<1> HIDE DEF new
<1>5. new[sig] = group /\ \A x \in DOMAIN groups : x # sig => new[x] = groups[x]
  <2> HIDE DEF group, sig
  <2> QED
    BY <1>4
<1>6. counts = [x \in DOMAIN groups |-> groups[x].count] /\ DOMAIN counts = DOMAIN groups
  BY DEF CountsOf
<1>7. next = [x \in DOMAIN new |-> new[x].count] /\ DOMAIN next = DOMAIN groups \cup {sig}
  BY <1>4 DEF CountsOf
<1>8. GroupTells(group, sig, dump, n + 1) /\ group.count = At(counts, sig) + 1
  <2>1. CASE sig \in DOMAIN groups
    <3>1. /\ DOMAIN groups[sig] = {"count", "state", "first"} /\ groups[sig].first = sig
          /\ \E i \in 1..n : sigs[i] = sig /\ groups[sig].state = dump[i].state
      BY <1>1, <2>1 DEF GroupTells
    <3>2. group = [groups[sig] EXCEPT !.count = @ + 1]
      BY <2>1
    <3> HIDE DEF group, sig, sigs, counts
    <3>3. /\ DOMAIN group = {"count", "state", "first"} /\ group.first = groups[sig].first
          /\ group.state = groups[sig].state /\ group.count = groups[sig].count + 1
      BY <3>1, <3>2
    <3>4. \E i \in 1..n + 1 : sigs[i] = sig /\ group.state = dump[i].state
      BY <1>2, <3>1, <3>3
    <3>5. At(counts, sig) = groups[sig].count
      BY <1>6, <2>1 DEF At
    <3> QED
      BY <3>1, <3>3, <3>4, <3>5 DEF GroupTells, sigs
  <2>2. CASE sig \notin DOMAIN groups
    <3>1. group = [count |-> 1, state |-> g.state, first |-> sig]
      BY <2>2
    <3> HIDE DEF group, sig, sigs, counts
    <3>2. /\ DOMAIN group = {"count", "state", "first"} /\ group.first = sig
          /\ group.state = dump[n + 1].state /\ group.count = 1
      BY <3>1
    <3>3. At(counts, sig) = 0
      BY <1>6, <2>2 DEF At
    <3> QED
      BY <1>2, <1>3, <3>2, <3>3 DEF GroupTells, sigs
  <2> QED
    BY <2>1, <2>2
<1> HIDE DEF group, sigs, sig, counts, next
<1>9. \A x \in DOMAIN new : GroupTells(new[x], x, dump, n + 1)
  <2> TAKE x \in DOMAIN new
  <2>1. CASE x = sig
    BY <1>5, <1>8, <2>1
  <2>2. CASE x # sig
    <3>1. x \in DOMAIN groups /\ new[x] = groups[x] /\ GroupTells(groups[x], x, dump, n)
      BY <1>1, <1>4, <1>5, <2>2
    <3> QED
      BY <1>2, <3>1 DEF GroupTells
  <2> QED
    BY <2>1, <2>2
<1>10. next[sig] = At(counts, sig) + 1 /\ \A x \in DOMAIN groups : x # sig => next[x] = counts[x]
  <2>1. sig \in DOMAIN new /\ \A x \in DOMAIN groups : x \in DOMAIN new
    BY <1>4
  <2> QED
    BY <1>5, <1>6, <1>7, <1>8, <2>1
<1>11. At(counts, sig) \in Nat
  BY <1>1 DEF At, Numbers
<1>12. Numbers(next)
  <2>1. IsFiniteSet(DOMAIN groups \cup {sig})
    BY <1>1, <1>6, FS_AddElement DEF Numbers
  <2>2. \A x \in DOMAIN groups : counts[x] \in Nat
    BY <1>1, <1>6 DEF Numbers
  <2>3. next[sig] \in Nat
    BY <1>10, <1>11
  <2> QED
    BY <1>7, <1>10, <2>1, <2>2, <2>3 DEF Numbers
<1>13. Total(next) = n + 1
  <2>1. /\ (DOMAIN next) \ {sig} = (DOMAIN counts) \ {sig}
        /\ \A x \in (DOMAIN counts) \ {sig} : next[x] = counts[x]
    BY <1>6, <1>7, <1>10
  <2>2. Total(next) = Total(counts) - At(counts, sig) + At(next, sig)
    BY <1>1, <1>12, <2>1, TotalChanges
  <2>3. At(next, sig) = At(counts, sig) + 1
    BY <1>7, <1>10 DEF At
  <2> QED
    BY <1>1, <1>11, <2>2, <2>3
<1>14. ASSUME NEW x PROVE Among(sigs, x, n + 1) = At(next, x)
  <2>0. /\ Among(sigs, x, n) \in Nat
        /\ Among(sigs, x, n + 1) = Among(sigs, x, n) + (IF sigs[n + 1] = x THEN 1 ELSE 0)
    <3>1. \A s, y : /\ Among(s, y, n) \in Nat
                    /\ Among(s, y, n + 1) = Among(s, y, n) + (IF s[n + 1] = y THEN 1 ELSE 0)
      BY AmongOneMore
    <3> QED
      BY <3>1
  <2>1. /\ Among(sigs, x, n) \in Nat
        /\ Among(sigs, x, n + 1) = Among(sigs, x, n) + (IF sig = x THEN 1 ELSE 0)
    BY <1>3, <2>0
  <2>2. Among(sigs, x, n) = At(counts, x)
    BY <1>1
  <2>3. CASE x = sig
    <3>1. At(next, x) = At(counts, x) + 1
      BY <1>7, <1>10, <2>3 DEF At
    <3> QED
      BY <2>1, <2>2, <2>3, <3>1
  <2>4. CASE x # sig
    <3>1. At(next, x) = At(counts, x)
      BY <1>6, <1>7, <1>10, <2>4 DEF At
    <3> QED
      BY <2>1, <2>2, <2>4, <3>1
  <2> QED
    BY <2>3, <2>4
<1>15. \A i \in 1..n + 1 : sigs[i] \in DOMAIN new
  BY <1>1, <1>2, <1>3, <1>4
<1> QED
  BY <1>9, <1>12, <1>13, <1>14, <1>15 DEF GroupsTell, next, new, g, sigs

GroupsMade(dump) == FoldLeft(AddToGroup, <<>>, dump)

LEMMA GroupsAre ==
    ASSUME NEW dump \in Seq(StackDumps)
    PROVE  GroupsTell(GroupsMade(dump), dump, Len(dump))
<1> DEFINE l == Len(dump)
<1>1. l \in Nat /\ DOMAIN dump = 1..l
  OBVIOUS
<1>2. PICK q : Grouping!Runs(q, <<>>, dump, l)
  BY <1>1, Grouping!LoopRuns
<1>3. GroupsMade(dump) = q[l]
  BY <1>2 DEF GroupsMade, Grouping!Runs, Grouping!FoldLeft, Grouping!MapThenFoldSet, Grouping!Max,
              FoldLeft, MapThenFoldSet, Max
<1>4. q[0] = <<>> /\ \A i \in 1..l : q[i] = AddToGroup(q[i - 1], dump[i])
  BY <1>2 DEF Grouping!Runs
<1> HIDE DEF l
<1> DEFINE T == {i \in 0..l : GroupsTell(q[i], dump, i)}
<1>5. 0 \in T
  <2>1. DOMAIN <<>> = {} /\ 1..0 = {}
    OBVIOUS
  <2>2. DOMAIN CountsOf(<<>>) = {}
    BY <2>1 DEF CountsOf
  <2>3. Numbers(CountsOf(<<>>)) /\ Total(CountsOf(<<>>)) = 0
    BY <2>2, NothingCounted
  <2>4. \A sig : Among(SignaturesOf(dump), sig, 0) = At(CountsOf(<<>>), sig)
    BY <2>2, AmongOneMore DEF At
  <2>5. GroupsTell(<<>>, dump, 0)
    BY <2>1, <2>3, <2>4 DEF GroupsTell
  <2> QED
    BY <1>1, <1>4, <2>5
<1>6. ASSUME NEW i \in 1..l, i - 1 \in T PROVE i \in T
  <2>1. i - 1 \in Nat /\ (i - 1) + 1 = i /\ i \in 0..l /\ i <= Len(dump)
    BY <1>1 DEF l
  <2>2. GroupsTell(q[i - 1], dump, i - 1)
    BY <1>6
  <2>3. GroupsTell(AddToGroup(q[i - 1], dump[(i - 1) + 1]), dump, (i - 1) + 1)
    BY <2>1, <2>2, GroupingGoesOn
  <2> QED
    BY <1>4, <2>1, <2>3
<1>7. \A i \in 0..l : i \in T
  <2> HIDE DEF T
  <2> QED
    BY <1>1, <1>5, <1>6, EachNumber
<1>8. l \in 0..l
  BY <1>1
<1> QED
  BY <1>3, <1>7, <1>8 DEF l

\* One more goroutine is counted.
LEMMA StateCounted ==
    ASSUME NEW counts, Numbers(counts), NEW g
    PROVE  Numbers(CountState(counts, g)) /\ Total(CountState(counts, g)) = Total(counts) + 1
<1> DEFINE k == g.state
           new == CountState(counts, g)
<1>1. DOMAIN new = DOMAIN counts \cup {k}
  BY DEF CountState, Put
<1>2. new[k] = At(counts, k) + 1 /\ \A x \in DOMAIN counts : x # k => new[x] = counts[x]
  BY DEF CountState, Put, At
<1> HIDE DEF new, k
<1>3. At(counts, k) \in Nat /\ Total(counts) \in Nat
  <2>1. At(counts, k) \in Nat
    BY DEF At, Numbers
  <2> QED
    BY <2>1, TotalIsNumber
<1>4. Numbers(new)
  <2>1. IsFiniteSet(DOMAIN counts \cup {k})
    BY FS_AddElement DEF Numbers
  <2>2. \A x \in DOMAIN counts : counts[x] \in Nat
    BY DEF Numbers
  <2>3. new[k] \in Nat
    BY <1>2, <1>3
  <2> QED
    BY <1>1, <1>2, <2>1, <2>2, <2>3 DEF Numbers
<1>5. Total(new) = Total(counts) - At(counts, k) + At(new, k)
  <2>1. /\ (DOMAIN new) \ {k} = (DOMAIN counts) \ {k}
        /\ \A x \in (DOMAIN counts) \ {k} : new[x] = counts[x]
    BY <1>1, <1>2
  <2> QED
    BY <1>4, <2>1, TotalChanges
<1>6. At(new, k) = At(counts, k) + 1
  BY <1>1, <1>2 DEF At
<1> QED
  BY <1>3, <1>4, <1>5, <1>6 DEF new

LEMMA StatesCounted ==
    ASSUME NEW dump \in Seq(StackDumps)
    PROVE  Total(FoldLeft(CountState, <<>>, dump)) = Len(dump)
<1> DEFINE l == Len(dump)
           made == FoldLeft(CountState, <<>>, dump)
<1>1. l \in Nat /\ DOMAIN dump = 1..l
  OBVIOUS
<1>2. PICK q : Counting!Runs(q, <<>>, dump, l)
  BY <1>1, Counting!LoopRuns
<1>3. made = q[l]
  BY <1>2 DEF Counting!Runs, Counting!FoldLeft, Counting!MapThenFoldSet, Counting!Max,
              FoldLeft, MapThenFoldSet, Max
<1>4. q[0] = <<>> /\ \A i \in 1..l : q[i] = CountState(q[i - 1], dump[i])
  BY <1>2 DEF Counting!Runs
<1> HIDE DEF l, made
<1> DEFINE T == {i \in 0..l : Numbers(q[i]) /\ Total(q[i]) = i}
<1>5. 0 \in T
  <2>1. DOMAIN <<>> = {}
    OBVIOUS
  <2>2. Numbers(<<>>) /\ Total(<<>>) = 0
    BY <2>1, NothingCounted
  <2> QED
    BY <1>1, <1>4, <2>2
<1>6. ASSUME NEW i \in 1..l, i - 1 \in T PROVE i \in T
  <2>1. i \in 0..l /\ (i - 1) + 1 = i
    BY <1>1
  <2>2. Numbers(q[i - 1]) /\ Total(q[i - 1]) = i - 1
    BY <1>6
  <2>3. Numbers(q[i]) /\ Total(q[i]) = (i - 1) + 1
    BY <1>4, <2>2, StateCounted
  <2> QED
    BY <2>1, <2>3
<1>7. \A i \in 0..l : i \in T
  <2> HIDE DEF T
  <2> QED
    BY <1>1, <1>5, <1>6, EachNumber
<1>8. l \in 0..l
  BY <1>1
<1> QED
  BY <1>3, <1>7, <1>8 DEF l, made

\* In whatever order they come, the groups are those of the signatures.
OrderTells(order, dump) ==
    /\ Len(order) \in Nat /\ DOMAIN order = 1..Len(order) /\ order \in Seq(Groups(dump))
    /\ \A k \in 1..Len(order) :
          /\ order[k].count \in Nat
          /\ order[k].count = Among(SignaturesOf(dump), order[k].first, Len(dump))
          /\ \E i \in 1..Len(dump) : /\ SignaturesOf(dump)[i] = order[k].first
                                     /\ order[k].state = dump[i].state
    /\ \A k, j \in 1..Len(order) : k # j => order[k].first # order[j].first
    /\ \A i \in 1..Len(dump) : \E k \in 1..Len(order) : order[k].first = SignaturesOf(dump)[i]
    /\ Total([k \in 1..Len(order) |-> order[k].count]) = Len(dump)

LEMMA OrdersTell ==
    ASSUME NEW dump \in Seq(StackDumps), NEW order \in SetToSeqs(Groups(dump))
    PROVE  OrderTells(order, dump)
<1> DEFINE groups == GroupsMade(dump)
           counts == CountsOf(groups)
           sigs == SignaturesOf(dump)
           N == Len(dump)
           S == Groups(dump)
           m == Len(order)
<1>1. /\ Numbers(counts) /\ Total(counts) = N
      /\ \A x : Among(sigs, x, N) = At(counts, x)
      /\ \A i \in 1..N : sigs[i] \in DOMAIN groups
      /\ \A x \in DOMAIN groups : GroupTells(groups[x], x, dump, N)
  BY GroupsAre DEF GroupsTell
<1>2. S = {groups[x] : x \in DOMAIN groups}
  BY DEF Groups, GroupsMade
<1>3. counts = [x \in DOMAIN groups |-> groups[x].count] /\ DOMAIN counts = DOMAIN groups
  BY DEF CountsOf
<1> HIDE DEF groups, counts, sigs, N, S
<1>4. \A x \in DOMAIN groups : /\ groups[x].first = x /\ groups[x].count = counts[x]
                               /\ \E i \in 1..N : sigs[i] = x /\ groups[x].state = dump[i].state
  BY <1>1, <1>3 DEF GroupTells, sigs
<1>5. IsFiniteSet(S)
  <2> DEFINE made == [x \in DOMAIN groups |-> groups[x]]
  <2>1. made \in Surjection(DOMAIN groups, S)
    BY <1>2 DEF Surjection
  <2>2. IsFiniteSet(DOMAIN groups)
    BY <1>1, <1>3 DEF Numbers
  <2> HIDE DEF made
  <2> QED
    BY <2>1, <2>2, FS_Surjection
<1>6. /\ order \in Seq(S) /\ m \in Nat
      /\ \A i, j \in 1..m : i # j => order[i] # order[j]
      /\ \A e \in S : \E i \in 1..m : order[i] = e
  BY <1>5, OrderIs DEF S
<1>7. DOMAIN order = 1..m /\ \A k \in 1..m : order[k] \in S
  BY <1>6
<1> HIDE DEF m
<1>8. \A k \in 1..m : order[k].first \in DOMAIN groups /\ order[k] = groups[order[k].first]
  BY <1>2, <1>4, <1>7
<1>9. \A x \in DOMAIN groups : counts[x] \in Nat /\ At(counts, x) = counts[x]
  BY <1>1, <1>3 DEF Numbers, At
<1>10. ASSUME NEW k \in 1..m
       PROVE  /\ order[k].count \in Nat /\ order[k].count = counts[order[k].first]
              /\ order[k].count = Among(sigs, order[k].first, N)
              /\ \E i \in 1..N : sigs[i] = order[k].first /\ order[k].state = dump[i].state
  <2> DEFINE x == order[k].first
  <2>1. x \in DOMAIN groups /\ order[k] = groups[x]
    BY <1>8
  <2> HIDE DEF x
  <2>2. order[k].count = counts[x] /\ counts[x] \in Nat /\ Among(sigs, x, N) = counts[x]
    BY <1>1, <1>4, <1>9, <2>1
  <2>3. \E i \in 1..N : sigs[i] = x /\ order[k].state = dump[i].state
    BY <1>4, <2>1
  <2> QED
    BY <2>2, <2>3 DEF x
<1>11. \A k, j \in 1..m : k # j => order[k].first # order[j].first
  BY <1>6, <1>8
<1>12. \A x \in DOMAIN groups : \E k \in 1..m : order[k].first = x
  <2> TAKE x \in DOMAIN groups
  <2>1. groups[x] \in S
    BY <1>2
  <2>2. PICK k \in 1..m : order[k] = groups[x]
    BY <1>6, <2>1
  <2> QED
    BY <1>4, <2>2
<1> DEFINE sizes == [k \in 1..m |-> order[k].count]
           firsts == [k \in 1..m |-> order[k].first]
<1>13. Numbers(sizes) /\ DOMAIN sizes = 1..m /\ \A k \in 1..m : sizes[k] = order[k].count
  <2>1. IsFiniteSet(1..m)
    BY <1>6, FS_Interval
  <2>2. DOMAIN sizes = 1..m /\ \A k \in 1..m : sizes[k] = order[k].count
    OBVIOUS
  <2> HIDE DEF sizes
  <2> QED
    BY <1>10, <2>1, <2>2 DEF Numbers
<1>14. firsts \in Bijection(1..m, DOMAIN groups) /\ \A k \in 1..m : firsts[k] = order[k].first
  <2>1. DOMAIN firsts = 1..m /\ \A k \in 1..m : firsts[k] = order[k].first
    OBVIOUS
  <2>2. firsts \in [1..m -> DOMAIN groups]
    BY <1>8
  <2> HIDE DEF firsts
  <2>3. \A k, j \in 1..m : firsts[k] = firsts[j] => k = j
    BY <1>11, <2>1
  <2>4. \A x \in DOMAIN groups : \E k \in 1..m : firsts[k] = x
    BY <1>12, <2>1
  <2> QED
    BY <2>1, <2>2, <2>3, <2>4 DEF Bijection, Injection, Surjection, IsInjective
<1> HIDE DEF sizes, firsts
<1>15. \A k \in 1..m : counts[firsts[k]] = sizes[k]
  BY <1>10, <1>13, <1>14
<1>16. Total(sizes) = Total(counts)
  <2>1. firsts \in Bijection(DOMAIN sizes, DOMAIN counts)
    BY <1>3, <1>13, <1>14
  <2>2. \A k \in DOMAIN sizes : counts[firsts[k]] = sizes[k]
    BY <1>13, <1>15
  <2> QED
    BY ONLY <1>1, <1>13, <2>1, <2>2, TotalReindexed
<1>17. \A i \in 1..N : \E k \in 1..m : order[k].first = sigs[i]
  BY <1>1, <1>12
<1> QED
  BY <1>1, <1>6, <1>7, <1>10, <1>11, <1>16, <1>17 DEF OrderTells, S, m, sigs, N, sizes

\* What the groups shown tell of a dump.
BeginsWith(g, first) == SubSeq(OwnLines(g.lines), 1, Len(first)) = first

TopTells(dump, top, asked) ==
    /\ \A k \in DOMAIN top :
          /\ top[k].count = Cardinality({i \in DOMAIN dump : BeginsWith(dump[i], top[k].first)})
          /\ \E i \in DOMAIN dump : BeginsWith(dump[i], top[k].first) /\ top[k].state = dump[i].state
    /\ \A k, l \in DOMAIN top : k < l => /\ top[k].first # top[l].first
                                          /\ top[k].count >= top[l].count
    /\ \A i \in DOMAIN dump :
          Len(Frames(dump[i].lines)) >= 4 =>
             \E k \in DOMAIN top :
                top[k].count >= Cardinality({j \in DOMAIN dump :
                                               Frames(dump[j].lines) = Frames(dump[i].lines)})
    /\ Len(top) < asked => Total([k \in DOMAIN top |-> top[k].count]) = Len(dump)

LEMMA MakingUp ==
    GroupsMakeUpDump <=> (grouping.tool = "get_goroutine_stacks" =>
                             TopTells(grouping.dump, grouping.top, grouping.asked))
  BY DEF GroupsMakeUpDump, TopTells, BeginsWith, HowMany

\* The largest groups tell of the dump.
LEMMA LargestTell ==
    ASSUME NEW dump \in Seq(StackDumps), NEW order, OrderTells(order, dump), NEW n \in Nat \ {0},
           \A i, j \in DOMAIN order : i < j => order[i].count >= order[j].count,
           NEW top, top = SubSeq(order, 1, Min({n, Len(order)}))
    PROVE  TopTells(dump, top, n)
<1> DEFINE sigs == SignaturesOf(dump)
           N == Len(dump)
           m == Len(order)
           t == IF n <= m THEN n ELSE m
           S == Groups(dump)
<1>1. /\ N \in Nat /\ DOMAIN dump = 1..N /\ \A i \in 1..N : dump[i] \in StackDumps
      /\ \A i \in 1..N : sigs[i] = Signature(dump[i].lines)
  BY DEF SignaturesOf
<1>2. /\ m \in Nat /\ DOMAIN order = 1..m /\ order \in Seq(S)
      /\ \A k \in 1..m :
            /\ order[k].count \in Nat
            /\ order[k].count = Among(sigs, order[k].first, N)
            /\ \E i \in 1..N : sigs[i] = order[k].first /\ order[k].state = dump[i].state
      /\ \A k, j \in 1..m : k # j => order[k].first # order[j].first
      /\ \A i \in 1..N : \E k \in 1..m : order[k].first = sigs[i]
  BY DEF OrderTells
<1>13. Total([k \in 1..m |-> order[k].count]) = N
  BY DEF OrderTells
<1>14. \A i, j \in 1..m : i < j => order[i].count >= order[j].count
  BY <1>2
<1> HIDE DEF sigs, m, S
<1>4. Min({n, m}) = t
  BY <1>2, MinOfTwo
<1>5. t \in Nat /\ t <= m /\ (t < m => t = n /\ 1 \in 1..t) /\ (t < n => t = m)
  BY <1>2
<1> HIDE DEF t
<1>6. Len(top) = t /\ DOMAIN top = 1..t /\ \A k \in 1..t : top[k] = order[k]
  <2>1. top = SubSeq(order, 1, t)
    BY <1>4 DEF m
  <2>2. Len(order) = m /\ order \in Seq(S) /\ m \in Nat
    BY <1>2 DEF m
  <2> QED
    BY ONLY <1>5, <2>1, <2>2
<1>7. \A k \in 1..t : k \in 1..m
  BY <1>2, <1>5
<1> HIDE DEF N
<1>8. ASSUME NEW k \in 1..t
      PROVE  /\ top[k].count = Cardinality({j \in DOMAIN dump : BeginsWith(dump[j], top[k].first)})
             /\ \E i \in DOMAIN dump : BeginsWith(dump[i], top[k].first) /\ top[k].state = dump[i].state
  <2> DEFINE first == order[k].first
  <2>1. PICK i \in 1..N : sigs[i] = first /\ order[k].state = dump[i].state
    BY <1>2, <1>7
  <2>2. order[k].count = Among(sigs, first, N)
    BY <1>2, <1>7
  <2>3. Len(first) = 3
    <3>1. dump[i] \in StackDumps /\ Signature(dump[i].lines) = first
      BY <1>1, <2>1
    <3> QED
      BY <3>1, SignatureIs
  <2> HIDE DEF first
  <2>4. \A j \in 1..N : BeginsWith(dump[j], first) <=> sigs[j] = first
    BY <1>1, <2>3, SignatureIs DEF BeginsWith
  <2>5. {j \in DOMAIN dump : BeginsWith(dump[j], first)} = {j \in 1..N : sigs[j] = first}
    BY <1>1, <2>4
  <2>6. Cardinality({j \in DOMAIN dump : BeginsWith(dump[j], first)}) = Among(sigs, first, N)
    BY <2>5 DEF Among
  <2>7. top[k] = order[k] /\ top[k].first = first
    BY <1>6 DEF first
  <2>8. top[k].count = Cardinality({j \in DOMAIN dump : BeginsWith(dump[j], top[k].first)})
    BY <2>2, <2>6, <2>7
  <2> QED
    BY <1>1, <2>1, <2>4, <2>7, <2>8
<1>9. \A k, l \in DOMAIN top : k < l => /\ top[k].first # top[l].first
                                        /\ top[k].count >= top[l].count
  <2> SUFFICES ASSUME NEW k \in 1..t, NEW l \in 1..t, k < l
               PROVE  top[k].first # top[l].first /\ top[k].count >= top[l].count
    BY <1>6
  <2>1. k \in 1..m /\ l \in 1..m /\ k # l
    BY <1>5, <1>7
  <2>2. order[k].count >= order[l].count /\ order[k].first # order[l].first
    BY <1>2, <1>14, <2>1
  <2> QED
    BY <1>6, <2>2
<1>10. ASSUME NEW i \in 1..N, Len(Frames(dump[i].lines)) >= 4
       PROVE  \E k \in DOMAIN top :
                 top[k].count >= Cardinality({j \in DOMAIN dump :
                                                Frames(dump[j].lines) = Frames(dump[i].lines)})
  <2> DEFINE frames == Frames(dump[i].lines)
             alike == {j \in DOMAIN dump : Frames(dump[j].lines) = frames}
             same == {j \in 1..N : sigs[j] = sigs[i]}
  <2>1. PICK o \in 1..m : order[o].first = sigs[i]
    BY <1>2
  <2>2. order[o].count = Cardinality(same) /\ order[o].count \in Nat
    <3>1. order[o].count = Among(sigs, order[o].first, N) /\ order[o].count \in Nat
      BY <1>2
    <3>2. Among(sigs, sigs[i], N) = Cardinality(same)
      BY DEF Among
    <3> QED
      BY <2>1, <3>1, <3>2
  <2>3. \A j \in 1..N : Frames(dump[j].lines) = frames => sigs[j] = sigs[i]
    <3> TAKE j \in 1..N
    <3>1. SUFFICES ASSUME Frames(dump[j].lines) = frames PROVE sigs[j] = sigs[i]
      OBVIOUS
    <3>2. dump[j] \in StackDumps /\ dump[i] \in StackDumps
      BY <1>1
    <3>3. /\ Len(dump[j].lines) \in Nat /\ Len(dump[i].lines) \in Nat
          /\ Len(Frames(dump[j].lines)) = Len(dump[j].lines) - 2
          /\ Len(Frames(dump[i].lines)) = Len(dump[i].lines) - 2
      BY <3>2, OwnLinesAre, SignatureIs
    <3>4. Len(dump[j].lines) >= 6 /\ Len(dump[i].lines) >= 6
      BY <1>10, <3>1, <3>3
    <3>5. /\ Signature(dump[j].lines) = [x \in 1..3 |-> Frames(dump[j].lines)[x]]
          /\ Signature(dump[i].lines) = [x \in 1..3 |-> Frames(dump[i].lines)[x]]
      BY <3>2, <3>4, SignatureIs
    <3> QED
      BY <1>1, <3>1, <3>5
  <2>4. alike \subseteq same /\ IsFiniteSet(same)
    <3>1. alike \subseteq same
      <4> HIDE DEF frames
      <4> QED
        BY <1>1, <2>3
    <3>2. IsFiniteSet(1..N) /\ same \subseteq 1..N
      BY <1>1, FS_Interval
    <3> HIDE DEF alike, same
    <3> QED
      BY <3>1, <3>2, FS_Subset
  <2> HIDE DEF alike, same
  <2>5. Cardinality(alike) <= Cardinality(same) /\ Cardinality(alike) \in Nat
    BY <2>4, FS_Subset, FS_CardinalityType
  <2>6. Cardinality({j \in DOMAIN dump : Frames(dump[j].lines) = frames}) = Cardinality(alike)
    BY DEF alike
  <2>7. CASE o \in 1..t
    BY <1>6, <2>2, <2>5, <2>6, <2>7
  <2>8. CASE o \notin 1..t
    <3>1. 1 \in 1..t /\ 1 \in 1..m /\ 1 < o
      BY <1>2, <1>5, <1>7, <2>8
    <3>2. order[1].count >= order[o].count /\ order[1].count \in Nat
      BY <1>2, <1>14, <3>1
    <3>3. top[1].count >= Cardinality(alike)
      <4>1. top[1] = order[1]
        BY <1>6, <3>1
      <4> QED
        BY ONLY <2>2, <2>5, <3>2, <4>1
    <3> QED
      BY <1>6, <2>6, <3>1, <3>3
  <2> QED
    BY <2>7, <2>8
<1>11. Len(top) < n => Total([k \in DOMAIN top |-> top[k].count]) = Len(dump)
  <2> SUFFICES ASSUME t < n PROVE Total([k \in DOMAIN top |-> top[k].count]) = N
    BY <1>6 DEF N
  <2>1. t = m
    BY <1>5
  <2>2. [k \in DOMAIN top |-> top[k].count] = [k \in 1..m |-> order[k].count]
    BY <1>6, <2>1
  <2> QED
    BY <1>13, <2>2
<1>12. DOMAIN dump = 1..N /\ DOMAIN top = 1..t
  BY <1>1, <1>6
<1> HIDE DEF N
<1> QED
  BY ZenonT(60), <1>8, <1>9, <1>10, <1>11, <1>12 DEF TopTells

GroupInv ==
    /\ GroupTypeOK
    /\ dumped = NoDump \/ dumped.dump \in Seq(StackDumps)
    /\ GroupsRight

\* No goroutine runs and nothing is told at first.
LEMMA InitGroups == GroupInit => GroupInv
<1> SUFFICES ASSUME GroupInit PROVE GroupInv
  OBVIOUS
<1>1. running = <<>> /\ dumped = NoDump /\ grouping = NoGrouping
  BY DEF GroupInit
<1>2. running \in Seq(StackDumps) /\ Len(running) <= MaxGoroutines
  BY <1>1, StacksAssumption
<1>3. GroupTypeOK
  BY <1>1, <1>2 DEF GroupTypeOK, NoDump
<1>4. GroupsRight
  BY <1>1 DEF GroupsRight, GroupsMakeUpDump, StatesAddUp, NoGrouping
<1> QED
  BY <1>1, <1>3, <1>4 DEF GroupInv

LEMMA GroupStep == GroupInv /\ [GroupNext]_groupVars => GroupInv'
<1> SUFFICES ASSUME GroupInv, [GroupNext]_groupVars PROVE GroupInv'
  OBVIOUS
<1>1. /\ running \in Seq(StackDumps) /\ Len(running) <= MaxGoroutines
      /\ dumped.tool \in {"none", "get_goroutine_stacks", "get_goroutine_states"}
      /\ dumped = NoDump \/ dumped.dump \in Seq(StackDumps)
      /\ GroupsRight
  BY DEF GroupInv, GroupTypeOK
<1>2. MaxGoroutines \in Nat /\ GroupsAsked \subseteq Nat \ {0}
  BY StacksAssumption
<1>3. NoDump.tool = "none" /\ NoGrouping.tool = "none"
  BY DEF NoDump, NoGrouping
<1>0. /\ GroupsMakeUpDump' <=> (grouping'.tool = "get_goroutine_stacks" =>
                                   TopTells(grouping'.dump, grouping'.top, grouping'.asked))
      /\ StatesAddUp' <=> (grouping'.tool = "get_goroutine_states" =>
                              Total(grouping'.states) = Len(grouping'.dump))
  BY DEF GroupsMakeUpDump, StatesAddUp, TopTells, BeginsWith, HowMany
<1>4. grouping' = NoGrouping => GroupsRight'
  BY <1>3 DEF GroupsRight, GroupsMakeUpDump, StatesAddUp
<1>5. ASSUME running' = running PROVE running' \in Seq(StackDumps) /\ Len(running') <= MaxGoroutines
  BY <1>1, <1>5
<1>6. ASSUME dumped' = NoDump PROVE dumped'.tool \in {"none", "get_goroutine_stacks", "get_goroutine_states"}
  BY <1>3, <1>6
<1>7. ASSUME NEW g \in StackDumps, GoroutineStarts(g) PROVE GroupInv'
  <2>1. /\ running' = Append(running, g) /\ Len(running) < MaxGoroutines
        /\ grouping' = NoGrouping /\ dumped' = dumped
    BY <1>7 DEF GoroutineStarts
  <2>2. running' \in Seq(StackDumps) /\ Len(running') <= MaxGoroutines
    BY <1>1, <1>2, <2>1
  <2> QED
    BY <1>1, <1>4, <2>1, <2>2 DEF GroupInv, GroupTypeOK
<1>8. ASSUME NEW i \in DOMAIN running, GoroutineEnds(i) PROVE GroupInv'
  <2>1. running' = RemoveAt(running, i) /\ grouping' = NoGrouping /\ dumped' = dumped
    BY <1>8 DEF GoroutineEnds
  <2> DEFINE n == Len(running)
             before == SubSeq(running, 1, i - 1)
             after == SubSeq(running, i + 1, n)
  <2>2. n \in Nat /\ i \in 1..n
    BY <1>1
  <2>3. before \in Seq(StackDumps) /\ Len(before) = i - 1
    BY <1>1, <2>2
  <2>4. after \in Seq(StackDumps) /\ Len(after) = n - i
    <3>1. i < n => after \in Seq(StackDumps) /\ Len(after) = n - i
      BY <1>1, <2>2
    <3>2. i = n => after = <<>>
      BY <1>1, <2>2
    <3> QED
      BY <2>2, <3>1, <3>2
  <2>5. running' = before \o after
    BY <2>1 DEF RemoveAt
  <2> HIDE DEF before, after
  <2>6. running' \in Seq(StackDumps) /\ Len(running') = n - 1
    BY <2>2, <2>3, <2>4, <2>5
  <2>7. Len(running') <= MaxGoroutines
    BY <1>1, <1>2, <2>2, <2>6
  <2> QED
    BY <1>1, <1>4, <2>1, <2>6, <2>7 DEF GroupInv, GroupTypeOK
<1>9. ASSUME NEW tool \in {"get_goroutine_stacks", "get_goroutine_states"}, TakeDump(tool)
      PROVE  GroupInv'
  <2>1. /\ dumped' = [tool |-> tool, dump |-> running] /\ grouping' = NoGrouping
        /\ running' = running
    BY <1>9 DEF TakeDump
  <2>2. /\ dumped'.tool \in {"none", "get_goroutine_stacks", "get_goroutine_states"}
        /\ dumped'.dump \in Seq(StackDumps)
    BY <1>1, <2>1
  <2> QED
    BY <1>4, <1>5, <2>1, <2>2 DEF GroupInv, GroupTypeOK
<1>10. ASSUME NEW n \in GroupsAsked, TellGroups(n) PROVE GroupInv'
  <2> DEFINE dump == dumped.dump
             shown(order) == SubSeq(order, 1, Min({n, Len(order)}))
  <2>1. /\ dumped.tool = "get_goroutine_stacks" /\ dumped' = NoDump /\ running' = running
        /\ \E order \in SetToSeqs(Groups(dump)) :
              /\ \A i, j \in DOMAIN order : i < j => order[i].count >= order[j].count
              /\ grouping' = [tool |-> dumped.tool, dump |-> dump, asked |-> n, total |-> Len(running),
                              unique |-> Len(shown(order)), top |-> shown(order)]
    BY <1>10 DEF TellGroups
  <2>2. dump \in Seq(StackDumps)
    BY <1>1, <1>3, <2>1
  <2>3. PICK order \in SetToSeqs(Groups(dump)) :
           /\ \A i, j \in DOMAIN order : i < j => order[i].count >= order[j].count
           /\ grouping' = [tool |-> dumped.tool, dump |-> dump, asked |-> n, total |-> Len(running),
                           unique |-> Len(shown(order)), top |-> shown(order)]
    BY <2>1
  <2>4. /\ grouping'.tool = "get_goroutine_stacks" /\ grouping'.dump = dump
        /\ grouping'.asked = n /\ grouping'.top = shown(order)
    <3> HIDE DEF dump, shown
    <3> QED
      BY <2>1, <2>3
  <2>5. TopTells(dump, shown(order), n)
    <3> HIDE DEF dump
    <3>1. OrderTells(order, dump)
      BY <2>2, <2>3, OrdersTell
    <3>2. n \in Nat \ {0}
      BY <1>2
    <3> QED
      BY <2>2, <2>3, <3>1, <3>2, LargestTell
  <2> HIDE DEF dump, shown
  <2>6. GroupsMakeUpDump'
    BY <1>0, <2>4, <2>5
  <2>7. StatesAddUp'
    BY <2>4 DEF StatesAddUp
  <2> QED
    BY <1>5, <1>6, <2>1, <2>6, <2>7 DEF GroupInv, GroupTypeOK, GroupsRight
<1>11. ASSUME TellStates PROVE GroupInv'
  <2>1. /\ dumped.tool = "get_goroutine_states" /\ dumped' = NoDump /\ running' = running
        /\ grouping' = [tool |-> dumped.tool, dump |-> dumped.dump, total |-> Len(running),
                        states |-> FoldLeft(CountState, <<>>, dumped.dump)]
    BY <1>11 DEF TellStates
  <2>2. dumped.dump \in Seq(StackDumps)
    BY <1>1, <1>3, <2>1
  <2>3. /\ grouping'.tool = "get_goroutine_states" /\ grouping'.dump = dumped.dump
        /\ grouping'.states = FoldLeft(CountState, <<>>, dumped.dump)
    BY <2>1
  <2>4. Total(grouping'.states) = Len(grouping'.dump)
    BY <2>2, <2>3, StatesCounted
  <2>5. GroupsRight'
    BY <2>3, <2>4 DEF GroupsRight, GroupsMakeUpDump, StatesAddUp
  <2> QED
    BY <1>5, <1>6, <2>1, <2>5 DEF GroupInv, GroupTypeOK
<1>12. CASE UNCHANGED groupVars
  <2>1. running' = running /\ dumped' = dumped /\ grouping' = grouping
    BY <1>12 DEF groupVars
  <2>2. GroupsRight'
    <3>1. GroupsMakeUpDump => GroupsMakeUpDump'
      BY <1>0, <2>1, MakingUp
    <3>2. StatesAddUp => StatesAddUp'
      BY <1>0, <2>1 DEF StatesAddUp
    <3> QED
      BY <1>1, <3>1, <3>2 DEF GroupsRight
  <2> QED
    BY <1>1, <2>1, <2>2 DEF GroupInv, GroupTypeOK
<1> QED
  BY <1>7, <1>8, <1>9, <1>10, <1>11, <1>12 DEF GroupNext

\* The reports on pools, locks, profiles and goroutines: detect_pool_leaks,
\* detect_deadlock, get_top_functions, get_goroutine_stacks.
THEOREM ReportsTold == PoolSpec /\ LockSpec /\ FuncSpec /\ GroupSpec => []ReportsAgree
<1>1. PoolInit => PoolTypeOK
  BY InitPools
<1>2. PoolTypeOK /\ [PoolNext]_poolVars => PoolTypeOK'
  BY PoolTypes
<1>3. LockInit => LockTypeOK
  BY InitLocks
<1>4. LockTypeOK /\ [LockNext]_lockVars => LockTypeOK'
  BY LockTypes
<1>5. FuncInit => FuncInv
  BY InitFunctions
<1>6. FuncInv /\ [FuncNext]_funcVars => FuncInv'
  BY FunctionStep
<1>7. GroupInit => GroupInv
  BY InitGroups
<1>8. GroupInv /\ [GroupNext]_groupVars => GroupInv'
  BY GroupStep
<1>9. PoolTypeOK /\ LockTypeOK /\ FuncInv /\ GroupInv => ReportsAgree
  BY PoolsTell, LockTells, FunctionsTell DEF GroupInv, ReportsAgree
<1> QED
  BY <1>1, <1>2, <1>3, <1>4, <1>5, <1>6, <1>7, <1>8, <1>9, PTL
     DEF PoolSpec, LockSpec, FuncSpec, GroupSpec

\* The types of databases, goroutines, profiles and dumps.
LEMMA ReportTypesKept ==
    PoolSpec /\ LockSpec /\ FuncSpec /\ GroupSpec =>
        [](PoolTypeOK /\ LockTypeOK /\ FuncTypeOK /\ GroupTypeOK)
<1>1. FuncInv => FuncTypeOK
  BY DEF FuncInv
<1>2. GroupInv => GroupTypeOK
  BY DEF GroupInv
<1> QED
  BY InitPools, PoolTypes, InitLocks, LockTypes, InitFunctions, FunctionStep,
     InitGroups, GroupStep, <1>1, <1>2, PTL DEF PoolSpec, LockSpec, FuncSpec, GroupSpec
=============================================================================
