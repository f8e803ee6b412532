---------------------------- MODULE EndpointTests ---------------------------
(***************************************************************************)
(* The endpoint tester (inspector_endpoint_test_inspector.go).  Chats call *)
(* its tools at the same time: batches of tests that send one request      *)
(* after another, and the coverage, which copies what was tested under one *)
(* lock and then reads the routes under another.  test_endpoint is a batch *)
(* of one test without an expectation.                                     *)
(***************************************************************************)
EXTENDS Integers, Sequences, FiniteSets, FiniteSetsExt

CONSTANTS Testers,     \* goroutines that call a tool
          Engines,     \* the registries: a Gin engine, an Echo app
          Paths,       \* of the routes; a method is part of it
          TestBatches, \* the batches that are asked for
          MaxBatches   \* bound: batches and coverage reports

\* A test that is no object or has no path, or a request for a route, with the
\* status that is expected.  It is varied if it is not written like the route: it
\* has a query, or values where the route has parameters.
Malformed == [path |-> "none", varied |-> FALSE, expected |-> 0]
Tests == {Malformed} \cup [path : Paths, varied : BOOLEAN, expected : {0, 200}]

ASSUME BatchAssumption == TestBatches \subseteq Seq(Tests) \ {<<>>}

ASSUME EndpointAssumption ==
    IsFiniteSet(Engines) /\ IsFiniteSet(Paths) /\ MaxBatches \in Nat

Idling == [at |-> "none"]

VARIABLES
    routes,     \* that the engine in each registry serves
    tested,     \* testedEndpoints
    testing,    \* the tool call of each goroutine
    outcome,    \* the last answer
    responded,  \* tests whose answer a batch has had (auxiliary)
    batches

testVars == <<routes, tested, testing, outcome, responded, batches>>

TestInit ==
    /\ routes = [e \in Engines |-> {}]
    /\ tested = {}
    /\ testing = [t \in Testers |-> Idling]
    /\ outcome = Idling
    /\ responded = {}
    /\ batches = 0

\* The key of a test, which is the path of the request.
Key(test) == <<test.path, test.varied>>

\* RegisterGinEngine and RegisterEchoApp put an engine in the place of the one
\* before; an engine that is there may get routes.
RegisterEngine(e, served) ==
    /\ routes' = [routes EXCEPT ![e] = served]
    /\ outcome' = Idling
    /\ UNCHANGED <<tested, testing, responded, batches>>

BeginTool(t, call) ==
    /\ testing[t] = Idling
    /\ batches < MaxBatches
    /\ batches' = batches + 1
    /\ testing' = [testing EXCEPT ![t] = call]
    /\ outcome' = Idling
    /\ UNCHANGED <<routes, tested, responded>>

-----------------------------------------------------------------------------
(* batch_test_endpoints.                                                   *)

BeginBatch(t, tests) ==
    BeginTool(t, [at |-> "batch", tests |-> tests, done |-> 0, answers |-> <<>>,
                   passed |-> 0, failed |-> 0])

\* The next test, with the answer it gets: a status, or 0 for none.
Tally(b, status, passed) ==
    [b EXCEPT !.done = @ + 1, !.answers = Append(@, status),
              !.passed = IF passed THEN @ + 1 ELSE @,
              !.failed = IF passed THEN @ ELSE @ + 1]

NextTest(t) == testing[t].tests[testing[t].done + 1]

InBatch(t) == testing[t].at = "batch" /\ testing[t].done < Len(testing[t].tests)

\* Mutant: a test that fails counts its path as tested.
TestFails_Marks(t) ==
    /\ InBatch(t)
    /\ testing' = [testing EXCEPT ![t] = Tally(@, 0, FALSE)]
    /\ tested' = tested \cup {Key(NextTest(t))}
    /\ outcome' = Idling
    /\ UNCHANGED <<routes, responded, batches>>

\* A test that can not be sent, or is not answered in time.
TestFails(t) ==
    /\ InBatch(t)
    /\ testing' = [testing EXCEPT ![t] = Tally(@, 0, FALSE)]
    /\ outcome' = Idling
    /\ UNCHANGED <<routes, tested, responded, batches>>

\* Mutant: whatever is answered is a pass.
AsExpected_Always(test, status) == TRUE

AsExpected(test, status) == test.expected # 0 => status = test.expected

\* A path counts as tested once there is a response, the expected one or not.
TestAnswered(t, status) ==
    /\ InBatch(t) /\ NextTest(t) # Malformed
    /\ testing' = [testing EXCEPT ![t] = Tally(@, status, AsExpected(NextTest(t), status))]
    /\ tested' = tested \cup {Key(NextTest(t))}
    /\ responded' = responded \cup {NextTest(t)}
    /\ outcome' = Idling
    /\ UNCHANGED <<routes, batches>>

EndBatch(t) ==
    /\ testing[t].at = "batch" /\ ~InBatch(t)
    /\ outcome' = testing[t]
    /\ testing' = [testing EXCEPT ![t] = Idling]
    /\ UNCHANGED <<routes, tested, responded, batches>>

-----------------------------------------------------------------------------
(* get_endpoint_coverage.                                                  *)

CopyTested(t) == BeginTool(t, [at |-> "coverage", tested |-> tested, before |-> responded])

\* The code's list of the routes: what two engines serve is in it twice.
AllRoutes == UNION {{e} \X routes[e] : e \in Engines}

Covered(seen) == {r \in AllRoutes : <<r[2], FALSE>> \in seen}

\* What was answered before the copy is told beside it (auxiliary).
EndCoverage(t) ==
    /\ testing[t].at = "coverage"
    /\ LET covered == Covered(testing[t].tested)
       IN  outcome' = [at |-> "coverage", before |-> testing[t].before,
                       total |-> Cardinality(AllRoutes),
                       covered |-> covered, uncovered |-> AllRoutes \ covered]
    /\ testing' = [testing EXCEPT ![t] = Idling]
    /\ UNCHANGED <<routes, tested, responded, batches>>

TestNext ==
    \/ \E e \in Engines, served \in SUBSET Paths : RegisterEngine(e, served)
    \/ \E t \in Testers :
          \/ \E tests \in TestBatches : BeginBatch(t, tests)
          \/ TestFails(t) \/ \E status \in {200, 500} : TestAnswered(t, status)
          \/ EndBatch(t) \/ CopyTested(t) \/ EndCoverage(t)

TestSpec == TestInit /\ [][TestNext]_testVars

-----------------------------------------------------------------------------
(* Properties.                                                             *)

TestTypeOK ==
    /\ routes \in [Engines -> SUBSET Paths]
    /\ tested \subseteq Paths \X BOOLEAN
    /\ \A t \in Testers : testing[t].at \in {"none", "batch", "coverage"}
    /\ responded \subseteq Tests
    /\ batches \in 0..MaxBatches

\* Requests for p among those that were answered.
RequestsFor(p, answered) == {test \in answered : test.path = p}

\* A batch passes no test that was not answered as expected, and tells of every
\* test once.  Coverage, which reads the tested paths under one lock and the
\* routes under another, tells of every route of every engine: as covered only
\* if a request for it was answered, as uncovered only if none that is written
\* like the route was answered before the coverage was asked for.
EndpointsRight ==
    CASE outcome.at = "batch" ->
           LET good == {i \in DOMAIN outcome.tests :
                          /\ outcome.answers[i] # 0
                          /\ outcome.tests[i].expected \in {0, outcome.answers[i]}}
           IN  /\ Len(outcome.answers) = Len(outcome.tests)
               /\ outcome.passed = Cardinality(good)
               /\ outcome.passed + outcome.failed = Len(outcome.tests)
               /\ \A i \in good : Key(outcome.tests[i]) \in tested
      [] outcome.at = "coverage" ->
           /\ outcome.covered \cap outcome.uncovered = {}
           /\ outcome.covered \cup outcome.uncovered = AllRoutes
           /\ Cardinality(outcome.covered) + Cardinality(outcome.uncovered) = outcome.total
           /\ \A r \in outcome.covered : RequestsFor(r[2], responded) # {}
           /\ \A r \in outcome.uncovered :
                 \A test \in RequestsFor(r[2], outcome.before) : test.varied
      [] OTHER -> TRUE

\* A route that is told untested was not requested before, as the description of
\* get_endpoint_coverage says.  The code compares the path of the request with the
\* route as texts, so this does not hold.
TestedRoutesTold ==
    outcome.at = "coverage" =>
        \A r \in outcome.uncovered : RequestsFor(r[2], outcome.before) = {}
=============================================================================
