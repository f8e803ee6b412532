----------------------------- MODULE CpuProfiler ----------------------------
(***************************************************************************)
(* start_cpu_profile, stop_cpu_profile and get_top_functions               *)
(* (inspector_cpu_profile.go).  Each tool call and each timer callback     *)
(* holds cpuProfileMu from beginning to end, so each is one action.        *)
(* Profiles are numbered by the call that started them; a timer belongs to *)
(* the profile that armed it and is never cancelled.                       *)
(***************************************************************************)
EXTENDS Integers

CONSTANTS Durations,    \* what clients ask for, in ticks of the clock
          MaxDuration,  \* the tool's cap, 120 s
          MaxTime,      \* bound: ticks of the clock
          MaxProfiles   \* bound: successful starts

ASSUME ProfilerAssumption ==
    /\ Durations \subseteq Nat \ {0}
    /\ MaxDuration \in Nat \ {0}
    /\ MaxTime \in Nat
    /\ MaxProfiles \in Nat

Profiles == 1..MaxProfiles

VARIABLES
    now,
    pprof,     \* who records in runtime/pprof: "off", "agent" or "app"
    active,    \* cpuProfilingActive
    current,   \* number of the last profile started
    buf,       \* cpuProfileBuf: the profiles whose samples it holds
    deadline,  \* when the timer of each profile is due
    timers,    \* timers that have not fired
    last       \* lastTopFunctions: the profiles it was computed from

vars == <<now, pprof, active, current, buf, deadline, timers, last>>

Init ==
    /\ now = 0
    /\ pprof = "off"
    /\ active = FALSE
    /\ current = 0
    /\ buf = {}
    /\ deadline = [p \in Profiles |-> 0]
    /\ timers = {}
    /\ last = {}

-----------------------------------------------------------------------------
\* Mutant: the bytes of the last profile stay in the buffer.
Reset_Not == buf

Reset == {}

\* Mutant: any duration goes.
Capped_Not(d) == d

Capped(d) == IF d > MaxDuration THEN MaxDuration ELSE d

\* Mutant: no timer is armed.
Armed_Not == timers

Armed == timers \cup {current + 1}

\* Without an active profile: pprof starts to write into the emptied buffer.
Start(d) ==
    /\ ~active
    /\ pprof = "off"
    /\ current < MaxProfiles
    /\ current' = current + 1
    /\ buf' = Reset \cup {current + 1}
    /\ pprof' = "agent"
    /\ active' = TRUE
    /\ deadline' = [deadline EXCEPT ![current + 1] = now + Capped(d)]
    /\ timers' = Armed
    /\ UNCHANGED <<now, last>>

\* Mutant: the flag is set before pprof is asked.
StartRefused_SetsFlag ==
    /\ ~active
    /\ pprof = "app"
    /\ buf' = Reset
    /\ active' = TRUE
    /\ UNCHANGED <<now, pprof, current, deadline, timers, last>>

\* pprof.StartCPUProfile returns an error: the buffer is emptied all the same.
StartRefused ==
    /\ ~active
    /\ pprof = "app"
    /\ buf' = Reset
    /\ UNCHANGED <<now, pprof, active, current, deadline, timers, last>>

\* What stop_cpu_profile and the timer's callback do.
Finish ==
    /\ active
    /\ pprof' = "off"
    /\ active' = FALSE
    /\ last' = buf
    /\ UNCHANGED <<now, current, buf, deadline>>

Stop == Finish /\ UNCHANGED timers

Due(p) == p \in timers /\ now >= deadline[p]

TimerStops(p) ==
    /\ Due(p)
    /\ timers' = timers \ {p}
    /\ Finish

TimerFindsNothing(p) ==
    /\ Due(p)
    /\ ~active
    /\ timers' = timers \ {p}
    /\ UNCHANGED <<now, pprof, active, current, buf, deadline, last>>

\* The application, or net/http/pprof, profiles by itself.
AppStarts ==
    /\ pprof = "off"
    /\ pprof' = "app"
    /\ UNCHANGED <<now, active, current, buf, deadline, timers, last>>

AppStops ==
    /\ pprof = "app"
    /\ pprof' = "off"
    /\ UNCHANGED <<now, active, current, buf, deadline, timers, last>>

Tick ==
    /\ now < MaxTime
    /\ now' = now + 1
    /\ UNCHANGED <<pprof, active, current, buf, deadline, timers, last>>

Next == \/ \E d \in Durations : Start(d)
        \/ StartRefused \/ Stop
        \/ \E p \in Profiles : TimerStops(p) \/ TimerFindsNothing(p)
        \/ AppStarts \/ AppStops \/ Tick

Spec == Init /\ [][Next]_vars

\* Time passes and a timer that is due fires.
FairSpec == /\ Spec
            /\ WF_vars(Tick)
            /\ \A p \in Profiles : WF_vars(TimerStops(p) \/ TimerFindsNothing(p))

-----------------------------------------------------------------------------
(* Properties.                                                             *)

TypeOK ==
    /\ now \in 0..MaxTime
    /\ pprof \in {"off", "agent", "app"}
    /\ active \in BOOLEAN
    /\ current \in 0..MaxProfiles
    /\ buf \subseteq Profiles
    /\ deadline \in [Profiles -> Nat]
    /\ \A p \in Profiles : deadline[p] <= MaxTime + MaxDuration
    /\ timers \subseteq Profiles
    /\ last \subseteq Profiles

\* The flag and the runtime agree whatever the application profiles and
\* whichever of stop_cpu_profile and the timers comes first: pprof never runs
\* without the agent knowing, nor is the application's profile cut off.
FlagIsTrue == active <=> pprof = "agent"

\* The top functions are those of one profile, the last that was started, or
\* the one before while the last is running: never of two at once.
LastIsOneProfile ==
    /\ buf \in {{}, {current}}
    /\ last # {} => last = {IF active THEN current - 1 ELSE current}

\* Profiling ends even if nobody calls stop_cpu_profile: whatever older timers
\* did, its own timer is armed and finds it.  (A profile that is due only after
\* the time that is modelled need not end.)
EndsInTime == []<>(active => deadline[current] > MaxTime)

\* A profile that a timer ends has run for the duration that was asked for
\* (inspector_cpu_profile.go, "profiling started, will run for %d seconds").
RunsFullDuration ==
    [][\A p \in Profiles : TimerStops(p) => now >= deadline[current]]_vars
=============================================================================
