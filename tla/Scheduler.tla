------------------------------ MODULE Scheduler -----------------------------
(***************************************************************************)
(* Scheduled jobs (inspector_scheduler.go): RegisterScheduledJob, the      *)
(* ticker goroutine of StartTicker, Stop, and the recording of runs.       *)
(*                                                                         *)
(* StartTicker and Stop hold schedulerMu, so each is one action.  The      *)
(* goroutine does not: each turn of its select reads j.ticker and then     *)
(* j.done without the lock, two actions here, and blocks on what it read.  *)
(* The n-th call of StartTicker makes ticker n, done channel n and         *)
(* goroutine n.                                                            *)
(***************************************************************************)
EXTENDS Integers, Sequences

CONSTANTS Jobs,        \* ScheduledJob objects
          JobNames,    \* names jobs are registered under
          MaxStarts,   \* bound: calls of StartTicker
          MaxHistory,  \* runs kept in the history, 100 in the code
          NoJob, NoChannel

ASSUME SchedulerAssumption ==
    /\ MaxStarts \in Nat
    /\ MaxHistory \in Nat \ {0}
    /\ NoJob \notin Jobs
    /\ NoChannel \notin 1..MaxStarts

Starts == 1..MaxStarts

\* How fn ended: nil, an error, a panic that runScheduledJob recovers.
FnOutcomes == {"ok", "error", "panic"}

VARIABLES
    scheduledJobs,  \* the registry: name -> job
    name,           \* of each job, NoJob until RegisterScheduledJob returned it
    ticker, done,   \* j.ticker and j.done
    history,        \* j.History
    lastError,      \* j.LastError, "" is "ok"
    owner,          \* the job of goroutine n, NoJob before StartTicker n
    closed,         \* channel n was closed
    ticking, tick,  \* ticker n runs, and its channel holds a tick
    pc, onTicker, onDone  \* goroutine n, and the channels it selects on

fieldVars == <<scheduledJobs, name, ticker, done, history, lastError>>
chanVars == <<owner, closed, ticking, tick>>
jobVars == <<fieldVars, chanVars, pc, onTicker, onDone>>

JobInit ==
    /\ scheduledJobs = [m \in JobNames |-> NoJob]
    /\ name      = [j \in Jobs |-> NoJob]
    /\ ticker    = [j \in Jobs |-> NoChannel]
    /\ done      = [j \in Jobs |-> NoChannel]
    /\ history   = [j \in Jobs |-> <<>>]
    /\ lastError = [j \in Jobs |-> "ok"]
    /\ owner     = [n \in Starts |-> NoJob]
    /\ closed    = [n \in Starts |-> FALSE]
    /\ ticking   = [n \in Starts |-> FALSE]
    /\ tick      = [n \in Starts |-> FALSE]
    /\ pc        = [n \in Starts |-> "none"]
    /\ onTicker  = [n \in Starts |-> NoChannel]
    /\ onDone    = [n \in Starts |-> NoChannel]

-----------------------------------------------------------------------------
(* The application's calls.                                                *)

\* A second job of the same name takes the first one's place in the registry.
RegisterJob(j) ==
    /\ name[j] = NoJob
    /\ \E m \in JobNames :
         /\ name' = [name EXCEPT ![j] = m]
         /\ scheduledJobs' = [scheduledJobs EXCEPT ![m] = j]
    /\ UNCHANGED <<ticker, done, history, lastError, chanVars, pc, onTicker, onDone>>

UnusedStart(n) == owner[n] = NoJob /\ \A m \in 1..(n-1) : owner[m] # NoJob

StartTicker(j, n) ==
    /\ name[j] # NoJob
    /\ UnusedStart(n)
    /\ ticker'  = [ticker EXCEPT ![j] = n]
    /\ done'    = [done EXCEPT ![j] = n]
    /\ owner'   = [owner EXCEPT ![n] = j]
    /\ ticking' = [ticking EXCEPT ![n] = TRUE]
    /\ pc'      = [pc EXCEPT ![n] = "loop"]
    /\ UNCHANGED <<scheduledJobs, name, history, lastError, closed, tick, onTicker, onDone>>

\* Mutant: j.done is not set to nil.
StopJob_KeepsChannel(j) ==
    /\ done[j] # NoChannel
    /\ closed' = [closed EXCEPT ![done[j]] = TRUE]
    /\ UNCHANGED <<fieldVars, owner, ticking, tick, pc, onTicker, onDone>>

StopJob(j) ==
    /\ done[j] # NoChannel
    /\ closed' = [closed EXCEPT ![done[j]] = TRUE]
    /\ done' = [done EXCEPT ![j] = NoChannel]
    /\ UNCHANGED <<scheduledJobs, name, ticker, history, lastError,
                   owner, ticking, tick, pc, onTicker, onDone>>

-----------------------------------------------------------------------------
(* Tickers and goroutines.                                                 *)

\* A tick that nobody has taken yet is not followed by another.
Fires(n) ==
    /\ ticking[n] /\ ~tick[n]
    /\ tick' = [tick EXCEPT ![n] = TRUE]
    /\ UNCHANGED <<fieldVars, owner, closed, ticking, pc, onTicker, onDone>>

ReadTicker(n) ==
    /\ pc[n] = "loop"
    /\ onTicker' = [onTicker EXCEPT ![n] = ticker[owner[n]]]
    /\ pc' = [pc EXCEPT ![n] = "read"]
    /\ UNCHANGED <<fieldVars, chanVars, onDone>>

ReadDone(n) ==
    /\ pc[n] = "read"
    /\ onDone' = [onDone EXCEPT ![n] = done[owner[n]]]
    /\ pc' = [pc EXCEPT ![n] = "select"]
    /\ UNCHANGED <<fieldVars, chanVars, onTicker>>

TakeTick(n) ==
    /\ pc[n] = "select"
    /\ tick[onTicker[n]]
    /\ tick' = [tick EXCEPT ![onTicker[n]] = FALSE]
    /\ pc' = [pc EXCEPT ![n] = "fn"]
    /\ UNCHANGED <<fieldVars, owner, closed, ticking, onTicker, onDone>>

\* j.ticker is read again here.  Stopping a ticker also drops its tick.
TakeDone(n) ==
    /\ pc[n] = "select"
    /\ onDone[n] # NoChannel /\ closed[onDone[n]]
    /\ LET t == ticker[owner[n]] IN /\ ticking' = [ticking EXCEPT ![t] = FALSE]
                                    /\ tick' = [tick EXCEPT ![t] = FALSE]
    /\ pc' = [pc EXCEPT ![n] = "gone"]
    /\ UNCHANGED <<fieldVars, owner, closed, onTicker, onDone>>

\* Mutant: nothing is cut off.
KeptRuns_All(runs) == runs

\* appendHistory keeps the last MaxHistory runs.
KeptRuns(runs) ==
    IF Len(runs) > MaxHistory
    THEN SubSeq(runs, Len(runs) - MaxHistory + 1, Len(runs)) ELSE runs

\* Mutant: a success leaves the last error in place.
ErrorAfter_Sticky(j, o) == IF o = "ok" THEN lastError[j] ELSE o

ErrorAfter(j, o) == o

\* Mutant: no deferred recover.
AfterFn_NoRecover(o) == IF o = "panic" THEN "gone" ELSE "loop"

AfterFn(o) == "loop"

\* fn ends, in any way, and the run is recorded under the lock.
FnEnds(n) ==
    /\ pc[n] = "fn"
    /\ \E o \in FnOutcomes : LET j == owner[n] IN
         /\ history' = [history EXCEPT ![j] = KeptRuns(Append(@, o))]
         /\ lastError' = [lastError EXCEPT ![j] = ErrorAfter(j, o)]
         /\ pc' = [pc EXCEPT ![n] = AfterFn(o)]
    /\ UNCHANGED <<scheduledJobs, name, ticker, done, chanVars, onTicker, onDone>>

Goroutine(n) == \/ ReadTicker(n) \/ ReadDone(n)
                \/ TakeTick(n) \/ TakeDone(n) \/ FnEnds(n)

JobNext == \/ \E j \in Jobs : RegisterJob(j) \/ StopJob(j) \/ \E n \in Starts : StartTicker(j, n)
        \/ \E n \in Starts : Fires(n) \/ Goroutine(n)

JobSpec == JobInit /\ [][JobNext]_jobVars

\* Tickers tick, goroutines are scheduled, fn returns.  The application owes
\* nothing.
JobFairSpec == JobSpec /\ \A n \in Starts : WF_jobVars(Fires(n)) /\ WF_jobVars(Goroutine(n))

-----------------------------------------------------------------------------
(* Properties.                                                             *)

JobTypeOK ==
    /\ scheduledJobs \in [JobNames -> Jobs \cup {NoJob}]
    /\ name \in [Jobs -> JobNames \cup {NoJob}]
    /\ ticker \in [Jobs -> Starts \cup {NoChannel}]
    /\ done \in [Jobs -> Starts \cup {NoChannel}]
    /\ history \in [Jobs -> Seq(FnOutcomes)]
    /\ \A j \in Jobs : Len(history[j]) <= MaxHistory
    /\ lastError \in [Jobs -> FnOutcomes]
    /\ owner \in [Starts -> Jobs \cup {NoJob}]
    /\ closed \in [Starts -> BOOLEAN]
    /\ ticking \in [Starts -> BOOLEAN]
    /\ tick \in [Starts -> BOOLEAN]
    /\ pc \in [Starts -> {"none", "loop", "read", "select", "fn", "gone"}]
    /\ onTicker \in [Starts -> Starts \cup {NoChannel}]
    /\ onDone \in [Starts -> Starts \cup {NoChannel}]

\* Stop never closes a channel that is closed already, which would panic,
\* whatever starts and stops came before and wherever the goroutines are.
NoDoubleClose == \A j \in Jobs : done[j] # NoChannel => ~closed[done[j]]

\* get_scheduled_jobs and get_job_history agree: last_error is that of the
\* newest run in the history, also when several goroutines of a job record.
ErrorsAgree ==
    \A j \in Jobs : history[j] # <<>> => lastError[j] = history[j][Len(history[j])]

Running(j) == \E n \in Starts : owner[n] = j /\ pc[n] = "fn"

NeverStopped(j) == \A n \in Starts : owner[n] = j => ~closed[n]

\* A job that was started and is never stopped runs again and again, through
\* errors, panics and further calls of StartTicker.
RunsOn == \A j \in Jobs : []<>(done[j] # NoChannel /\ NeverStopped(j) => Running(j))

\* Stop stops the job: unless it is started again, its goroutines end
\* (inspector_scheduler.go, "Stop stops the scheduled job's ticker if running").
StopStops ==
    \A j \in Jobs : ticker[j] # NoChannel /\ done[j] = NoChannel
        ~> \/ done[j] # NoChannel
           \/ \A n \in Starts : owner[n] = j => pc[n] = "gone"

\* A job that was started runs, unless it is stopped (inspector_scheduler.go,
\* "StartTicker starts a goroutine that runs fn at the given interval").
StartedRuns == \A j \in Jobs : done[j] # NoChannel ~> Running(j) \/ done[j] = NoChannel
=============================================================================
