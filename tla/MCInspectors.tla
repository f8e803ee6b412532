----------------------------- MODULE MCInspectors ---------------------------
(* The inspectors that keep state, for TLC.  None writes what another keeps, *)
(* so a behaviour is about one of them, which; the others stay as they were. *)
EXTENDS Inspectors, MCCpuFunctions, MCEndpointTests

CONSTANTS j1, n1

VARIABLE which

OneJob  == {j1}
OneName == {n1}
ThreeDurations == {1, 2, 4}
FourLimits == {-1, 0, 1, 9}
FourPieces == {<<"text", "nl">>, <<"error">>, <<"nl", "debug">>, <<"json", "nl", "nl">>}
TwoDatabases == <<"main", "audit">>
G(state, frames, creator) == [state |-> state, lines |-> frames \o <<CreatedBy, creator>>]
ThreeStackDumps == {G("running", <<"f", "f.go:1">>, "m.go:7"),
                    G("running", <<"f", "f.go:1", "g", "g.go:2">>, "m.go:7"),
                    G("select", <<"f", "f.go:1", "g", "g.go:2">>, "n.go:8")}

Kinds == {"cpu", "buf", "log", "level", "ws", "heap", "snap", "out", "health", "cache",
          "pool", "lock", "test", "job", "func", "group"}

\* Everything else keeps its value.
Rest(kind) ==
    /\ which = kind
    /\ which' = kind
    /\ kind # "cpu"    => UNCHANGED vars
    /\ kind # "buf"    => UNCHANGED bufVars
    /\ kind # "log"    => UNCHANGED logVars
    /\ kind # "level"  => UNCHANGED levelVars
    /\ kind # "ws"     => UNCHANGED wsVars
    /\ kind # "heap"   => UNCHANGED heapVars
    /\ kind # "snap"   => UNCHANGED snapVars
    /\ kind # "out"    => UNCHANGED outVars
    /\ kind # "health" => UNCHANGED healthVars
    /\ kind # "cache"  => UNCHANGED cacheVars
    /\ kind # "pool"   => UNCHANGED poolVars
    /\ kind # "lock"   => UNCHANGED lockVars
    /\ kind # "test"   => UNCHANGED testVars
    /\ kind # "job"    => UNCHANGED jobVars
    /\ kind # "func"   => UNCHANGED funcVars
    /\ kind # "group"  => UNCHANGED groupVars

\* What a component that is not meant may choose is fixed.
AllInit ==
    /\ which \in Kinds
    /\ Init /\ BufInit /\ LogInit /\ LevelInit /\ WsInit /\ HeapInit /\ SnapInit
    /\ OutInit /\ HealthInit /\ CacheInit /\ PoolInit /\ LockInit /\ TestInit
    /\ JobInit /\ FuncInit /\ GroupInit
    /\ which # "buf" => bufKind = "http"
    /\ which # "lock" => ~runtimeFrames

AllNext ==
    \/ Rest("cpu") /\ Next
    \/ Rest("buf") /\ BufNext
    \/ Rest("log") /\ LogNext
    \/ Rest("level") /\ LevelNext
    \/ Rest("ws") /\ WsNext
    \/ Rest("heap") /\ HeapNext
    \/ Rest("snap") /\ SnapNext
    \/ Rest("out") /\ OutNext
    \/ Rest("health") /\ HealthNext
    \/ Rest("cache") /\ CacheNext
    \/ Rest("pool") /\ PoolNext
    \/ Rest("lock") /\ LockNext
    \/ Rest("test") /\ TestNext
    \/ Rest("job") /\ JobNext
    \/ Rest("func") /\ FuncNext
    \/ Rest("group") /\ GroupNext

allVars == <<which, vars, bufVars, logVars, levelVars, wsVars, heapVars, snapVars, outVars,
             healthVars, cacheVars, poolVars, lockVars, testVars, jobVars, funcVars, groupVars>>

AllSpec == AllInit /\ [][AllNext]_allVars

\* The fairness of CpuProfiler, HealthChecks and Scheduler; nothing is assumed of the
\* others.
AllFairSpec ==
    /\ AllSpec
    /\ WF_allVars(Rest("cpu") /\ Tick)
    /\ \A p \in Profiles : WF_allVars(Rest("cpu") /\ (TimerStops(p) \/ TimerFindsNothing(p)))
    /\ \A u \in HealthRegistrars : WF_allVars(Rest("health") /\ RegisterHealthCheck(u))
    /\ \A g \in HealthTools : WF_allVars(Rest("health") /\ Answering(g))
    /\ \A n \in Starts : WF_allVars(Rest("job") /\ Fires(n)) /\ WF_allVars(Rest("job") /\ Goroutine(n))
=============================================================================
