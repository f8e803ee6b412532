----------------------------- MODULE CpuFunctions ---------------------------
(***************************************************************************)
(* What a CPU profile says of the functions (inspector_cpu_profile.go):    *)
(* parseCPUProfile adds up the samples per function, stop_cpu_profile and  *)
(* get_top_functions show the first of them.  CpuProfiler has the flag,    *)
(* the timers and whose samples these are; all of it is under one lock.    *)
(*                                                                         *)
(* A sample is a stack, innermost location first.  A location has several  *)
(* functions where calls were inlined, innermost first.  A sample of a CPU *)
(* profile is a record of a stack, with two values: how often the stack    *)
(* was seen, and that times the nanoseconds between two looks.             *)
(***************************************************************************)
EXTENDS Integers, Sequences, FiniteSets, FiniteSetsExt, SequencesExt, GoData

CONSTANTS Stacks,      \* stacks that samples may have
          Period,      \* nanoseconds from one look to the next, 10 ms
          TopShown,    \* 20 functions
          MaxSamples,  \* bound: samples of a profile
          MaxTaken     \* bound: how often one is taken

\* The functions that samples show, each with its file and line.
Shown == UNION {ToSet(location) : location \in UNION {ToSet(stack) : stack \in Stacks}}

ASSUME FunctionsAssumption ==
    /\ Stacks \subseteq Seq(Seq(Shown))
    /\ Period \in Nat \ {0}
    /\ TopShown \in Nat \ {0}
    /\ MaxSamples \in Nat /\ MaxTaken \in Nat \ {0}

ProfileSamples == [stack : Stacks, taken : 1..MaxTaken]

Orders == {"cumulative", "self", "count"}

VARIABLES
    sampling,     \* cpuProfilingActive
    samples,      \* of the profile that is being taken or was taken last
    functions,    \* lastTopFunctions
    measured,     \* the samples they are made of (auxiliary)
    shownTop      \* the last answer

funcVars == <<sampling, samples, functions, measured, shownTop>>

NoTop == [by |-> "none"]

FuncInit ==
    /\ sampling = FALSE
    /\ samples = <<>>
    /\ functions = <<>>
    /\ measured = <<>>
    /\ shownTop = NoTop

-----------------------------------------------------------------------------
(* parseCPUProfile.                                                        *)

ValueIn(m, k) == IF k \in DOMAIN m THEN m[k] ELSE 0

AddTo(m, k, v) == Put(m, k, ValueIn(m, k) + v)

NanosecondsOf(s) == s.taken * Period

\* Both values of a sample are added.
SampleValue(s) == s.taken + NanosecondsOf(s)

\* Mutant: the outermost location.
Leaf_Outermost(stack) == stack[Len(stack)][1]

Leaf(stack) == stack[1][1]

HasLeaf(stack) == stack # <<>> /\ stack[1] # <<>>

\* Each function of a sample's stack with the sample's time.
Timed(s) ==
    LET called == FlattenSeq(s.stack)
    IN  [i \in 1..Len(called) |-> [function |-> called[i], time |-> SampleValue(s)]]

AddTime(sums, timed) == AddTo(sums, timed.function, timed.time)

\* A function that is on the stack twice gets the time twice.
AddSample(sums, s) ==
    [self       |-> IF HasLeaf(s.stack) THEN AddTo(sums.self, Leaf(s.stack), SampleValue(s))
                                        ELSE sums.self,
     counts     |-> IF HasLeaf(s.stack) THEN AddTo(sums.counts, Leaf(s.stack), 1) ELSE sums.counts,
     cumulative |-> FoldLeft(AddTime, sums.cumulative, Timed(s))]

NoSums == [self |-> <<>>, counts |-> <<>>, cumulative |-> <<>>]

FunctionEntries(all) ==
    LET sums == FoldLeft(AddSample, NoSums, all)
    IN  {[name |-> f, cumulative |-> sums.cumulative[f], self |-> ValueIn(sums.self, f),
          count |-> ValueIn(sums.counts, f)] : f \in DOMAIN sums.cumulative}

\* sort.Slice: equal entries may come in any order.
SortedBy(entries, by) ==
    {order \in SetToSeqs(entries) : \A i, j \in DOMAIN order : i < j => order[i][by] >= order[j][by]}

-----------------------------------------------------------------------------
\* The runtime looks at a thread.  The stack is counted in a record of it, or
\* gets one: the profile's records of a stack may differ in labels.
TakesSample(stack) ==
    /\ sampling
    /\ \/ /\ Len(samples) < MaxSamples
          /\ samples' = Append(samples, [stack |-> stack, taken |-> 1])
       \/ \E i \in DOMAIN samples :
             /\ samples[i].stack = stack /\ samples[i].taken < MaxTaken
             /\ samples' = [samples EXCEPT ![i].taken = @ + 1]
    /\ shownTop' = NoTop
    /\ UNCHANGED <<sampling, functions, measured>>

\* start_cpu_profile, when the runtime lets it.
StartSampling ==
    /\ ~sampling
    /\ sampling' = TRUE
    /\ samples' = <<>>
    /\ shownTop' = NoTop
    /\ UNCHANGED <<functions, measured>>

Shorter(s, limit) == IF limit < Len(s) THEN SubSeq(s, 1, limit) ELSE s

\* What stop_cpu_profile and the timer do.
EndSampling ==
    /\ sampling
    /\ sampling' = FALSE
    /\ functions' \in SortedBy(FunctionEntries(samples), "cumulative")
    /\ measured' = samples
    /\ UNCHANGED samples

StopSampling ==
    /\ EndSampling
    /\ shownTop' = [by |-> "cumulative", top |-> Shorter(functions', TopShown),
                    limit |-> TopShown]

TimerEndsSampling == EndSampling /\ shownTop' = NoTop

\* get_top_functions sorts a copy.
GetTopFunctions(by, limit) ==
    /\ functions # <<>>
    /\ \E order \in SortedBy(ToSet(functions), by) :
          shownTop' = [by |-> by, top |-> Shorter(order, limit), limit |-> limit]
    /\ UNCHANGED <<sampling, samples, functions, measured>>

FuncNext ==
    \/ \E stack \in Stacks : TakesSample(stack)
    \/ StartSampling \/ StopSampling \/ TimerEndsSampling
    \/ \E by \in Orders, limit \in 1..(TopShown + 1) : GetTopFunctions(by, limit)

FuncSpec == FuncInit /\ [][FuncNext]_funcVars

-----------------------------------------------------------------------------
(* Properties.                                                             *)

FuncTypeOK ==
    /\ sampling \in BOOLEAN
    /\ samples \in Seq(ProfileSamples) /\ Len(samples) <= MaxSamples
    /\ \A i \in DOMAIN functions : /\ functions[i].cumulative \in Nat
                                   /\ functions[i].self \in Nat /\ functions[i].count \in Nat
    /\ shownTop.by \in Orders \cup {"none"}

\* How often f is on a stack.
OnStack(f, stack) == Cardinality({i \in DOMAIN FlattenSeq(stack) : FlattenSeq(stack)[i] = f})

In(f, s) == s.stack # <<>> /\ s.stack[1] # <<>> /\ f = s.stack[1][1]

\* The nanoseconds of f itself, and with what it calls.
NanosecondsIn(f, all) ==
    Total([i \in DOMAIN all |-> IF In(f, all[i]) THEN NanosecondsOf(all[i]) ELSE 0])
NanosecondsBelow(f, all) ==
    Total([i \in DOMAIN all |-> IF OnStack(f, all[i].stack) > 0 THEN NanosecondsOf(all[i]) ELSE 0])

\* How often f was seen running, and how often it or what it calls.
SeenIn(f, all) == Total([i \in DOMAIN all |-> IF In(f, all[i]) THEN all[i].taken ELSE 0])
SeenBelow(f, all) ==
    Total([i \in DOMAIN all |-> IF OnStack(f, all[i].stack) > 0 THEN all[i].taken ELSE 0])

\* What is shown of a function is what the samples say: its self time is its
\* nanoseconds, and one more for each time it was seen; its cumulative time, if
\* it is not recursive, is that with what it calls, so it is no less.  The count
\* is of the records of it, not of the times it was seen.  Nothing that is left
\* out comes before what is shown.
FunctionsRight ==
    shownTop # NoTop =>
        LET all == measured
            top == shownTop.top
            by  == shownTop.by
        IN  /\ \A i \in DOMAIN top :
                  LET f == top[i].name IN
                  /\ top[i].self = NanosecondsIn(f, all) + SeenIn(f, all)
                  /\ (\A s \in ToSet(all) : OnStack(f, s.stack) < 2)
                        => top[i].cumulative = NanosecondsBelow(f, all) + SeenBelow(f, all)
                  /\ top[i].cumulative >= top[i].self
                  /\ top[i].count = Cardinality({k \in DOMAIN all : In(f, all[k])})
            /\ \A i, j \in DOMAIN top : i < j => top[i][by] >= top[j][by] /\ top[i].name # top[j].name
            /\ \A e \in ToSet(functions) \ ToSet(top) :
                  Len(top) = shownTop.limit /\ \A i \in DOMAIN top : top[i][by] >= e[by]

\* A function's self time is its nanoseconds, as the field "self_ns" says.  The
\* code adds how often the function was seen, so this does not hold.
TimesAreNanoseconds ==
    shownTop # NoTop =>
        \A i \in DOMAIN shownTop.top :
            shownTop.top[i].self = NanosecondsIn(shownTop.top[i].name, measured)
=============================================================================
