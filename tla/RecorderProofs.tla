---------------------------- MODULE RecorderProofs --------------------------
(***************************************************************************)
(* What the inspectors record as it happens, for any sizes, limits and     *)
(* numbers of records: CPU profiles, the bounded buffers of requests, logs *)
(* and errors, outbound calls, WebSocket connections and rooms, and the    *)
(* runs of scheduled jobs.                                                 *)
(***************************************************************************)
EXTENDS CpuProfiler, RecordBuffers, LogWriter, OutboundHttp, WebSocket, Scheduler, GoDataProofs

-----------------------------------------------------------------------------
(* The CPU profiler: the flag, the buffer and the results.                 *)

USE ProfilerAssumption

\* Besides the properties: while the agent profiles, the buffer holds the
\* samples of the profile it started last.  LastIsOneProfile needs it, for a
\* stop takes its result from the buffer.
ProfilerInv ==
    /\ TypeOK
    /\ FlagIsTrue
    /\ LastIsOneProfile
    /\ active => buf = {current}

\* Every initial state satisfies the invariant.
LEMMA InitProfiler == Init => ProfilerInv
<1> SUFFICES ASSUME Init PROVE ProfilerInv
  OBVIOUS
<1>1. deadline \in [Profiles -> Nat] /\ \A p \in Profiles : deadline[p] <= MaxTime + MaxDuration
  BY DEF Init
<1>2. active \in BOOLEAN /\ buf \subseteq Profiles /\ timers \subseteq Profiles
      /\ last \subseteq Profiles
  BY DEF Init
<1>3. now \in 0..MaxTime /\ pprof \in {"off", "agent", "app"} /\ current \in 0..MaxProfiles
  BY DEF Init
<1>4. TypeOK
  BY <1>1, <1>2, <1>3 DEF TypeOK
<1>5. FlagIsTrue /\ LastIsOneProfile /\ ~active
  BY DEF Init, FlagIsTrue, LastIsOneProfile
<1> QED
  BY <1>4, <1>5 DEF ProfilerInv

\* The cap keeps a duration in its range.
LEMMA CappedRange ==
    ASSUME NEW d \in Durations
    PROVE  Capped(d) \in 0..MaxDuration
  BY DEF Capped

\* Every step keeps it: one that starts a profile, and that is allowed to only
\* when pprof is off, one that ends a profile by hand or by any timer, and those
\* that leave the profile alone.
LEMMA StepKeepsProfiler == ProfilerInv /\ [Next]_vars => ProfilerInv'
<1> SUFFICES ASSUME ProfilerInv, [Next]_vars PROVE ProfilerInv'
  OBVIOUS
<1> USE DEF ProfilerInv, TypeOK, FlagIsTrue, LastIsOneProfile, Profiles
<1>1. ASSUME NEW d \in Durations, Start(d) PROVE ProfilerInv'
  <2>1. Capped(d) \in 0..MaxDuration
    BY CappedRange
  <2>2. current + 1 \in 1..MaxProfiles /\ now + Capped(d) \in 0..(MaxTime + MaxDuration)
    BY <1>1, <2>1 DEF Start
  <2>3. deadline' \in [1..MaxProfiles -> Nat]
        /\ \A p \in 1..MaxProfiles : deadline'[p] <= MaxTime + MaxDuration
    BY <1>1, <2>2 DEF Start
  <2>4. timers' \subseteq 1..MaxProfiles /\ buf' = {current'} /\ current' - 1 = current
    BY <1>1, <2>2 DEF Start, Armed, Reset
  <2> QED
    BY <1>1, <2>2, <2>3, <2>4 DEF Start
<1>2. CASE StartRefused
  BY <1>2 DEF StartRefused, Reset
<1>3. ASSUME Finish, timers' \subseteq timers PROVE ProfilerInv'
  BY <1>3 DEF Finish
<1>4. CASE Stop
  BY <1>3, <1>4 DEF Stop
<1>5. ASSUME NEW p \in Profiles, TimerStops(p) PROVE ProfilerInv'
  BY <1>3, <1>5 DEF TimerStops
<1>6. ASSUME NEW p \in Profiles, TimerFindsNothing(p) PROVE ProfilerInv'
  BY <1>6 DEF TimerFindsNothing
<1>7. CASE AppStarts
  BY <1>7 DEF AppStarts
<1>8. CASE AppStops
  BY <1>8 DEF AppStops
<1>9. CASE Tick
  BY <1>9 DEF Tick
<1>10. CASE UNCHANGED vars
  BY <1>10 DEF vars
<1> QED
  BY <1>1, <1>2, <1>4, <1>5, <1>6, <1>7, <1>8, <1>9, <1>10 DEF Next

\* cpuProfilingActive is true exactly while the agent's profile records, in
\* every order of calls, timers and profiles of the application.
THEOREM FlagTrue == Spec => []FlagIsTrue
<1>1. ProfilerInv => FlagIsTrue
  BY DEF ProfilerInv
<1> QED
  BY InitProfiler, StepKeepsProfiler, <1>1, PTL DEF Spec

\* The result is always of one profile, the last one that has ended.
THEOREM OneProfile == Spec => []LastIsOneProfile
<1>1. ProfilerInv => LastIsOneProfile
  BY DEF ProfilerInv
<1> QED
  BY InitProfiler, StepKeepsProfiler, <1>1, PTL DEF Spec

\* The types and bounds of the profiler's state.
THEOREM ProfilerTypes == Spec => []TypeOK
<1>1. ProfilerInv => TypeOK
  BY DEF ProfilerInv
<1> QED
  BY InitProfiler, StepKeepsProfiler, <1>1, PTL DEF Spec

HIDE ProfilerAssumption

-----------------------------------------------------------------------------
(* The buffers of requests, logs and errors: they hold the newest records. *)

USE BufferAssumption

\* b is the newest elements of s, as many as there are and fit.
IsNewest(b, s, n) ==
    /\ Len(b) = IF Len(s) < n THEN Len(s) ELSE n
    /\ \A i \in 1..Len(b) : b[i] = s[Len(s) - Len(b) + i]

\* The newest elements are a sequence.
LEMMA NewestIsSeq ==
    ASSUME NEW S, NEW s \in Seq(S), NEW n \in Nat
    PROVE  NewestOf(s, n) \in Seq(S) /\ IsNewest(NewestOf(s, n), s, n)
<1> DEFINE k == IF Len(s) < n THEN Len(s) ELSE n
<1>1. k \in Nat /\ k <= Len(s)
  OBVIOUS
<1>2. \A i \in 1..k : s[Len(s) - k + i] \in S
  <2> TAKE i \in 1..k
  <2> HIDE DEF k
  <2>1. Len(s) - k + i \in 1..Len(s)
    BY <1>1
  <2> QED
    BY <2>1
<1>3. NewestOf(s, n) = [i \in 1..k |-> s[Len(s) - k + i]]
  BY DEF NewestOf
<1> HIDE DEF k
<1>4. [i \in 1..k |-> s[Len(s) - k + i]] \in Seq(S)
  BY <1>1, <1>2
<1>5. Len([i \in 1..k |-> s[Len(s) - k + i]]) = k
  BY <1>1
<1> QED
  BY <1>3, <1>4, <1>5 DEF k, IsNewest

\* Appending to the newest n elements and cutting gives the newest n elements
\* of the longer sequence, below the limit, when it is reached, and beyond it.
LEMMA CutKeepsNewest ==
    ASSUME NEW S, NEW s \in Seq(S), NEW r \in S, NEW n \in Nat \ {0},
           NEW b \in Seq(S), IsNewest(b, s, n),
           NEW u \in Seq(S), IsNewest(u, Append(s, r), n)
    PROVE  Bounded(Append(b, r), n) = u
<1>1. Len(Append(s, r)) = Len(s) + 1 /\ Append(s, r)[Len(s) + 1] = r
      /\ \A i \in 1..Len(s) : Append(s, r)[i] = s[i]
  OBVIOUS
<1>2. Append(b, r) \in Seq(S) /\ Len(Append(b, r)) = Len(b) + 1 /\ Append(b, r)[Len(b) + 1] = r
      /\ \A i \in 1..Len(b) : Append(b, r)[i] = b[i]
  OBVIOUS
<1>3. CASE Len(s) < n
  <2>1. Len(b) = Len(s) /\ Len(u) = Len(s) + 1
    BY <1>1, <1>3 DEF IsNewest
  <2>2. Bounded(Append(b, r), n) = Append(b, r)
    BY <1>2, <1>3, <2>1 DEF Bounded
  <2>3. ASSUME NEW i \in 1..Len(u) PROVE Append(b, r)[i] = u[i]
    <3>1. u[i] = Append(s, r)[i]
      <4>1. Len(Append(s, r)) - Len(u) + i = i
        BY <1>1, <2>1
      <4> QED
        BY <4>1 DEF IsNewest
    <3>2. ASSUME i \in 1..Len(s) PROVE b[i] = s[i]
      <4>1. Len(s) - Len(b) + i = i
        BY <2>1, <3>2
      <4>2. i \in 1..Len(b)
        BY <2>1, <3>2
      <4> QED
        BY <4>1, <4>2 DEF IsNewest
    <3> QED
      BY <1>1, <1>2, <2>1, <3>1, <3>2
  <2> QED
    BY <1>2, <2>1, <2>2, <2>3, SeqEqual
<1>4. CASE Len(s) >= n
  <2>1. Len(b) = n /\ Len(u) = n
    BY <1>1, <1>4 DEF IsNewest
  <2> DEFINE c == SubSeq(Append(b, r), 2, n + 1)
  <2>2. Bounded(Append(b, r), n) = c
    BY <1>2, <2>1 DEF Bounded, LastOf
  <2>3. \A i \in 2..n + 1 : Append(b, r)[i] \in S
    BY <1>2, <2>1, ElementOfSeq
  <2>4. c \in Seq(S) /\ Len(c) = n /\ \A i \in 1..n : c[i] = Append(b, r)[i + 1]
    <3>1. 2 \in 1..Len(Append(b, r)) + 1 /\ n + 1 \in 1..Len(Append(b, r)) /\ 2 \in Int /\ n + 1 \in Int
      BY <1>2, <2>1
    <3>2. c \in Seq(S)
      BY <1>2, <3>1
    <3>3. n + 1 - 2 + 1 = n
      OBVIOUS
    <3>4. Len(c) = n
      BY <1>2, <2>1, <3>1, <3>3
    <3>5. ASSUME NEW i \in 1..n PROVE c[i] = Append(b, r)[i + 1]
      <4>1. 2 + i - 1 = i + 1
        OBVIOUS
      <4>2. i \in 1..(n + 1 - 2 + 1)
        BY <3>3
      <4> QED
        BY <1>2, <2>1, <4>1, <4>2
    <3> HIDE DEF c
    <3> QED
      BY <3>2, <3>4, <3>5
  <2>5. ASSUME NEW i \in 1..n PROVE c[i] = u[i]
    <3>0. Len(Append(s, r)) - Len(u) + i = Len(s) + 1 - n + i
      BY <1>1, <2>1
    <3>1. u[i] = Append(s, r)[Len(s) + 1 - n + i]
      BY <2>1, <3>0 DEF IsNewest
    <3>2. c[i] = Append(b, r)[i + 1]
      BY <2>4
    <3> HIDE DEF c
    <3>3. CASE i < n
      <4>1. i + 1 \in 1..Len(b) /\ Len(s) + 1 - n + i \in 1..Len(s)
        BY <1>4, <2>1, <3>3
      <4>2. b[i + 1] = s[Len(s) - n + (i + 1)]
        BY <2>1, <4>1 DEF IsNewest
      <4>3. Len(s) - n + (i + 1) = Len(s) + 1 - n + i
        OBVIOUS
      <4> QED
        BY <1>1, <1>2, <3>1, <3>2, <4>1, <4>2, <4>3
    <3>4. CASE i = n
      <4>1. Len(s) + 1 - n + i = Len(s) + 1 /\ i + 1 = Len(b) + 1
        BY <2>1, <3>4
      <4> QED
        BY <1>1, <1>2, <3>1, <3>2, <4>1
    <3> QED
      BY <3>3, <3>4
  <2> HIDE DEF c
  <2> QED
    BY <2>1, <2>2, <2>4, <2>5, SeqEqual
<1> QED
  BY <1>3, <1>4

\* What is recorded and what is kept have their types, and the newest is kept.
BufferInv == BufTypeOK /\ NewestKept

\* Every initial state satisfies the invariant: both sequences are empty.
LEMMA InitBuffers == BufInit => BufferInv
<1> SUFFICES ASSUME BufInit PROVE BufferInv
  OBVIOUS
<1>1. BufTypeOK
  BY DEF BufInit, BufTypeOK
<1>2. NewestOf(<<>>, BufferMax) = <<>>
  BY DEF NewestOf
<1> QED
  BY <1>1, <1>2 DEF BufInit, BufferInv, NewestKept

\* Every step keeps it.  Only recording changes the buffer; the tools answer
\* from it, in one step or two, whatever is recorded in between.
LEMMA StepKeepsBuffers == BufferInv /\ [BufNext]_bufVars => BufferInv'
<1> SUFFICES ASSUME BufferInv, [BufNext]_bufVars PROVE BufferInv'
  OBVIOUS
<1>1. ASSUME NEW r \in Recordable(bufKind), Record(r) PROVE BufferInv'
  <2>1. recorded' = Append(recorded, r) /\ buffer' = Bounded(Append(buffer, r), BufferMax)
        /\ bufKind' = bufKind
    BY <1>1 DEF Record, Kept
  <2>2. buffer' = NewestOf(recorded', BufferMax)
    <3> DEFINE S == Recordable(bufKind)
               u == NewestOf(Append(recorded, r), BufferMax)
    <3>1. r \in S /\ recorded \in Seq(S) /\ Append(recorded, r) \in Seq(S) /\ buffer \in Seq(S)
      BY DEF BufferInv, BufTypeOK
    <3>2. IsNewest(buffer, recorded, BufferMax)
      <4>1. NewestOf(recorded, BufferMax) = buffer
        BY DEF BufferInv, NewestKept
      <4> HIDE DEF S
      <4> QED
        BY <3>1, <4>1, NewestIsSeq
    <3> HIDE DEF S
    <3>3. u \in Seq(S) /\ IsNewest(u, Append(recorded, r), BufferMax)
      BY <3>1, NewestIsSeq
    <3> HIDE DEF u
    <3>4. Bounded(Append(buffer, r), BufferMax) = u
      BY <3>1, <3>2, <3>3, CutKeepsNewest
    <3> QED
      BY <2>1, <3>4 DEF u
  <2>3. recorded' \in Seq(Recordable(bufKind))
    BY <2>1 DEF BufferInv, BufTypeOK
  <2>4. buffer' \in Seq(Recordable(bufKind))
    BY <2>2, <2>3, NewestIsSeq
  <2> QED
    BY <2>1, <2>2, <2>3, <2>4 DEF BufferInv, BufTypeOK, NewestKept
<1>2. ASSUME UNCHANGED <<bufKind, recorded, buffer>> PROVE BufferInv'
  BY <1>2 DEF BufferInv, BufTypeOK, NewestKept
<1>3. ASSUME NEW limit \in BufLimits, CopyRequests(limit) PROVE BufferInv'
  BY <1>2, <1>3 DEF CopyRequests, Copy
<1>4. ASSUME NEW limit \in BufLimits,
             NEW level \in AskedLevels, NEW source \in {Unfiltered} \cup LogSources,
             CopyEntries(limit, level, source)
      PROVE  BufferInv'
  BY <1>2, <1>4 DEF CopyEntries, Copy
<1>5. CASE Tell \/ TellPanics
  BY <1>2, <1>5 DEF Tell, TellPanics
<1>6. ASSUME NEW limit \in BufLimits, TellErrors(limit) PROVE BufferInv'
  BY <1>2, <1>6 DEF TellErrors, TellAtOnce
<1>7. ASSUME NEW threshold \in Thresholds, TellSlow(threshold) PROVE BufferInv'
  BY <1>2, <1>7 DEF TellSlow, TellAtOnce
<1>8. CASE TellErrorRequests \/ TellStats \/ TellErrorStats \/ TellPatterns
  BY <1>2, <1>8 DEF TellErrorRequests, TellStats, TellErrorStats, TellPatterns, TellAtOnce
<1>9. CASE UNCHANGED bufVars
  BY <1>2, <1>9 DEF bufVars
<1> QED
  BY <1>1, <1>3, <1>4, <1>5, <1>6, <1>7, <1>8, <1>9 DEF BufNext

\* The buffers of requests, errors and log entries hold the newest records in
\* their order, for any size and any number of records.
THEOREM NewestAreKept == BufSpec => []NewestKept
<1>1. BufferInv => NewestKept
  BY DEF BufferInv
<1> QED
  BY InitBuffers, StepKeepsBuffers, <1>1, PTL DEF BufSpec

HIDE BufferAssumption

-----------------------------------------------------------------------------
(* The answers of the tools: sorts, limits, percentiles and patterns.      *)

Exchanging == INSTANCE Loops WITH Step <- Exchange

Passing == INSTANCE Loops WITH Step <- ExchangePass

Noting == INSTANCE Loops WITH Step <- NotePattern

\* t has the elements of s in an order of its own.
Rearranged(t, s, n) ==
    \E f \in Bijection(1..n, 1..n) : \A k \in 1..n : t[k] = s[f[k]]

\* The exchange sort of s has got to i and j: the first i - 1 elements are in
\* place, and none up to j has a smaller key than the i-th.
Partly(t, s, S, n, i, j) ==
    /\ t \in [1..n -> S]
    /\ Rearranged(t, s, n)
    /\ \A a \in 1..i - 1 : \A b \in a + 1..n : t[a].key <= t[b].key
    /\ \A b \in i + 1..j : t[i].key <= t[b].key

\* Elements that are compared by numbers.
Keyed(S) == \A x \in S : x.key \in Int

\* Exchanging two elements rearranges.
LEMMA SwapRearranges ==
    ASSUME NEW s, NEW t, NEW n \in Nat, DOMAIN t = 1..n, Rearranged(t, s, n),
           NEW i \in 1..n, NEW j \in 1..n
    PROVE  Rearranged(Swap(t, i, j), s, n)
<1>1. PICK f \in Bijection(1..n, 1..n) : \A k \in 1..n : t[k] = s[f[k]]
  BY DEF Rearranged
<1> DEFINE g == [k \in 1..n |-> IF k = i THEN f[j] ELSE IF k = j THEN f[i] ELSE f[k]]
           u == Swap(t, i, j)
<1>2. /\ \A k \in 1..n : f[k] \in 1..n
      /\ \A k, l \in 1..n : f[k] = f[l] => k = l
      /\ \A y \in 1..n : \E k \in 1..n : f[k] = y
  BY DEF Bijection, Injection, Surjection, IsInjective
<1>3. g \in [1..n -> 1..n]
  BY <1>2
<1>4. \A k, l \in 1..n : g[k] = g[l] => k = l
  BY <1>2
<1>5. \A y \in 1..n : \E k \in 1..n : g[k] = y
  <2> TAKE y \in 1..n
  <2>1. PICK k \in 1..n : f[k] = y
    BY <1>2
  <2>2. g[IF k = i THEN j ELSE IF k = j THEN i ELSE k] = y
    BY <2>1
  <2>3. (IF k = i THEN j ELSE IF k = j THEN i ELSE k) \in 1..n
    OBVIOUS
  <2> QED
    BY <2>2, <2>3
<1>6. \A k \in 1..n : u[k] = s[g[k]]
  BY <1>1 DEF Swap
<1>7. g \in Bijection(1..n, 1..n)
  <2> HIDE DEF g
  <2> QED
    BY <1>3, <1>4, <1>5 DEF Bijection, Injection, Surjection, IsInjective
<1> HIDE DEF g, u
<1>8. Rearranged(u, s, n)
  BY <1>6, <1>7 DEF Rearranged
<1> QED
  BY <1>8 DEF u

\* One comparison.
LEMMA ExchangeStep ==
    ASSUME NEW S, Keyed(S), NEW n \in Nat, NEW s, NEW t, NEW i \in 1..n, NEW j \in i + 1..n,
           Partly(t, s, S, n, i, j - 1)
    PROVE  Partly(Exchange(t, [i |-> i, j |-> j]), s, S, n, i, j)
<1> DEFINE u == Exchange(t, [i |-> i, j |-> j])
<1>1. /\ t \in [1..n -> S] /\ DOMAIN t = 1..n /\ j \in 1..n /\ i < j
      /\ \A a \in 1..n : t[a].key \in Int
      /\ \A a \in 1..i - 1 : \A b \in a + 1..n : t[a].key <= t[b].key
      /\ \A b \in i + 1..j - 1 : t[i].key <= t[b].key
  BY DEF Partly, Keyed
<1>2. CASE ~(t[j].key < t[i].key)
  <2>1. u = t
    BY <1>2 DEF Exchange
  <2>2. \A b \in i + 1..j : t[i].key <= t[b].key
    BY <1>1, <1>2
  <2> HIDE DEF u
  <2> QED
    BY <2>1, <2>2 DEF Partly, u
<1>3. CASE t[j].key < t[i].key
  <2>1. u = Swap(t, i, j)
    BY <1>3 DEF Exchange
  <2>2. u \in [1..n -> S] /\ u[i] = t[j] /\ u[j] = t[i]
        /\ \A a \in 1..n : a # i /\ a # j => u[a] = t[a]
    BY <1>1, <2>1 DEF Swap
  <2>3. Rearranged(u, s, n)
    BY <1>1, <2>1, SwapRearranges DEF Partly
  <2> HIDE DEF u
  <2>4. ASSUME NEW a \in 1..i - 1, NEW b \in a + 1..n PROVE u[a].key <= u[b].key
    <3>1. a \in 1..n /\ b \in 1..n /\ a # i /\ a # j /\ i \in a + 1..n /\ j \in a + 1..n
      BY <1>1
    <3>2. u[a] = t[a] /\ (u[b] = t[b] \/ u[b] = t[i] \/ u[b] = t[j])
      BY <2>2, <3>1
    <3> QED
      BY <1>1, <3>1, <3>2
  <2>5. ASSUME NEW b \in i + 1..j PROVE u[i].key <= u[b].key
    <3>1. CASE b = j
      BY <1>1, <1>3, <2>2, <3>1
    <3>2. CASE b # j
      <4>1. b \in i + 1..j - 1 /\ b \in 1..n /\ b # i
        BY <1>1, <3>2
      <4>2. u[b] = t[b] /\ t[i].key <= t[b].key /\ t[b].key \in Int /\ t[i].key \in Int /\ t[j].key \in Int
        BY <1>1, <2>2, <3>2, <4>1
      <4> QED
        BY <1>3, <2>2, <4>2
    <3> QED
      BY <3>1, <3>2
  <2> QED
    BY <2>2, <2>3, <2>4, <2>5 DEF Partly, u
<1> QED
  BY <1>2, <1>3

\* One pass puts the i-th element in its place.
LEMMA ExchangePassStep ==
    ASSUME NEW S, Keyed(S), NEW n \in Nat, NEW s, NEW t, NEW i \in 1..n,
           Partly(t, s, S, n, i, i)
    PROVE  Partly(ExchangePass(t, i), s, S, n, i + 1, i + 1)
<1> DEFINE pairs == [k \in 1..n - i |-> [i |-> i, j |-> i + k]]
<1>1. t \in [1..n -> S] /\ Len(t) = n /\ n - i \in Nat
  BY DEF Partly
<1>2. PICK q : Exchanging!Runs(q, t, pairs, n - i)
  <2>1. DOMAIN pairs = 1..n - i
    OBVIOUS
  <2> HIDE DEF pairs
  <2> QED
    BY <1>1, <2>1, Exchanging!LoopRuns
<1>3. ExchangePass(t, i) = q[n - i]
  <2>1. ExchangePass(t, i) = FoldLeft(Exchange, t, pairs)
    BY <1>1 DEF ExchangePass
  <2> HIDE DEF pairs
  <2> QED
    BY <1>2, <2>1 DEF Exchanging!Runs, Exchanging!FoldLeft, Exchanging!MapThenFoldSet,
                      Exchanging!Max, FoldLeft, MapThenFoldSet, Max
<1> DEFINE T == {k \in 0..n - i : Partly(q[k], s, S, n, i, i + k)}
<1>4. 0 \in T
  <2>1. q[0] = t /\ 0 \in 0..n - i /\ i + 0 = i
    BY <1>1, <1>2 DEF Exchanging!Runs
  <2> QED
    BY <2>1
<1>5. ASSUME NEW k \in 1..n - i, k - 1 \in T PROVE k \in T
  <2>1. q[k] = Exchange(q[k - 1], pairs[k]) /\ pairs[k] = [i |-> i, j |-> i + k]
    BY <1>2 DEF Exchanging!Runs
  <2>2. i + k \in i + 1..n /\ i + (k - 1) = (i + k) - 1 /\ k \in 0..n - i
    BY <1>1
  <2>3. Partly(q[k - 1], s, S, n, i, (i + k) - 1)
    BY <1>5, <2>2
  <2> DEFINE j == i + k
  <2>4. j \in i + 1..n /\ Partly(q[k - 1], s, S, n, i, j - 1)
    BY <2>2, <2>3
  <2> HIDE DEF j, pairs, T
  <2>5. Partly(Exchange(q[k - 1], [i |-> i, j |-> j]), s, S, n, i, j)
    BY <2>4, ExchangeStep
  <2> QED
    BY <2>1, <2>2, <2>5 DEF T, j
<1>6. n - i \in T
  <2> HIDE DEF T
  <2>1. \A k \in 0..n - i : k \in T
    BY <1>1, <1>4, <1>5, EachNumber
  <2> QED
    BY <1>1, <2>1
<1> DEFINE u == ExchangePass(t, i)
<1>7. Partly(u, s, S, n, i, n)
  <2>1. i + (n - i) = n
    BY <1>1
  <2> QED
    BY <1>3, <1>6, <2>1
<1> HIDE DEF u, T, pairs
<1>8. \A a \in 1..(i + 1) - 1 : \A b \in a + 1..n : u[a].key <= u[b].key
  <2> TAKE a \in 1..(i + 1) - 1
  <2>1. a = i \/ a \in 1..i - 1
    OBVIOUS
  <2> QED
    BY <1>7, <2>1 DEF Partly
<1>9. (i + 1) + 1..i + 1 = {}
  OBVIOUS
<1>10. Partly(u, s, S, n, i + 1, i + 1)
  BY <1>7, <1>8, <1>9 DEF Partly
<1> QED
  BY <1>10 DEF u

\* The exchange sort rearranges, and leaves smaller keys first.
LEMMA SortIs ==
    ASSUME NEW S, Keyed(S), NEW n \in Nat, NEW s \in [1..n -> S]
    PROVE  /\ ExchangeSort(s) \in [1..n -> S]
           /\ Rearranged(ExchangeSort(s), s, n)
           /\ \A a, b \in 1..n : a < b => ExchangeSort(s)[a].key <= ExchangeSort(s)[b].key
<1> DEFINE turns == [i \in 1..n |-> i]
           u == ExchangeSort(s)
<1>1. Len(s) = n
  OBVIOUS
<1>2. PICK q : Passing!Runs(q, s, turns, n)
  <2>1. DOMAIN turns = 1..n
    OBVIOUS
  <2> HIDE DEF turns
  <2> QED
    BY <2>1, Passing!LoopRuns
<1>3. u = q[n]
  <2>1. u = FoldLeft(ExchangePass, s, turns)
    BY <1>1 DEF ExchangeSort
  <2> HIDE DEF turns
  <2> QED
    BY <1>2, <2>1 DEF Passing!Runs, Passing!FoldLeft, Passing!MapThenFoldSet,
                      Passing!Max, FoldLeft, MapThenFoldSet, Max
<1> DEFINE T == {k \in 0..n : Partly(q[k], s, S, n, k + 1, k + 1)}
<1>4. 0 \in T
  <2>1. q[0] = s
    BY <1>2 DEF Passing!Runs
  <2>2. Rearranged(s, s, n)
    <3> DEFINE f == [k \in 1..n |-> k]
    <3>1. f \in Bijection(1..n, 1..n)
      BY DEF Bijection, Injection, Surjection, IsInjective
    <3>2. \A k \in 1..n : s[k] = s[f[k]]
      OBVIOUS
    <3> HIDE DEF f
    <3> QED
      BY <3>1, <3>2 DEF Rearranged
  <2>3. 1..(0 + 1) - 1 = {} /\ (0 + 1) + 1..0 + 1 = {}
    OBVIOUS
  <2>4. Partly(s, s, S, n, 0 + 1, 0 + 1)
    BY <2>2, <2>3 DEF Partly
  <2> QED
    BY <2>1, <2>4
<1>5. ASSUME NEW k \in 1..n, k - 1 \in T PROVE k \in T
  <2>1. q[k] = ExchangePass(q[k - 1], k)
    BY <1>2 DEF Passing!Runs
  <2>2. Partly(q[k - 1], s, S, n, k, k)
    <3>1. (k - 1) + 1 = k
      OBVIOUS
    <3> QED
      BY <1>5, <3>1
  <2> HIDE DEF T
  <2>3. Partly(ExchangePass(q[k - 1], k), s, S, n, k + 1, k + 1)
    BY <2>2, ExchangePassStep
  <2> QED
    BY <2>1, <2>3 DEF T
<1>6. n \in T
  <2> HIDE DEF T
  <2>1. \A k \in 0..n : k \in T
    BY <1>4, <1>5, EachNumber
  <2> QED
    BY <2>1
<1>7. Partly(u, s, S, n, n + 1, n + 1)
  BY <1>3, <1>6
<1> HIDE DEF u, T
<1>8. ASSUME NEW a \in 1..n, NEW b \in 1..n, a < b PROVE u[a].key <= u[b].key
  <2>1. a \in 1..(n + 1) - 1 /\ b \in a + 1..n
    BY <1>8
  <2> QED
    BY <1>7, <2>1 DEF Partly
<1> QED
  BY <1>7, <1>8 DEF Partly, u
\* get_slow_requests sorts the slowest first.
LEMMA SlowestIs ==
    ASSUME NEW S, \A x \in S : x.ms \in Int, NEW n \in Nat, NEW s \in [1..n -> S]
    PROVE  /\ SlowestFirst(s) \in [1..n -> S]
           /\ Rearranged(SlowestFirst(s), s, n)
           /\ \A a, b \in 1..n : a < b => SlowestFirst(s)[a].ms >= SlowestFirst(s)[b].ms
<1> DEFINE K == [key : Int, of : S]
           keyed == [i \in 1..n |-> [key |-> -s[i].ms, of |-> s[i]]]
           sorted == ExchangeSort(keyed)
           u == SlowestFirst(s)
<1>1. keyed \in [1..n -> K] /\ Keyed(K)
  <2>1. \A i \in 1..n : s[i] \in S /\ s[i].ms \in Int
    OBVIOUS
  <2> QED
    BY <2>1 DEF Keyed
<1>2. /\ Rearranged(sorted, keyed, n)
      /\ \A a, b \in 1..n : a < b => sorted[a].key <= sorted[b].key
  <2> HIDE DEF keyed, K
  <2> QED
    BY <1>1, SortIs
<1>3. u = [i \in 1..n |-> sorted[i].of]
  <2>1. Len(s) = n
    OBVIOUS
  <2> QED
    BY <2>1 DEF SlowestFirst
<1>4. PICK f \in Bijection(1..n, 1..n) : \A k \in 1..n : sorted[k] = keyed[f[k]]
  BY <1>2 DEF Rearranged
<1>5. \A k \in 1..n : f[k] \in 1..n
  BY DEF Bijection, Injection
<1> HIDE DEF sorted, u
<1>6. \A k \in 1..n : u[k] = s[f[k]] /\ sorted[k].key = -u[k].ms /\ u[k] \in S /\ u[k].ms \in Int
  <2> TAKE k \in 1..n
  <2>1. sorted[k] = [key |-> -s[f[k]].ms, of |-> s[f[k]]]
    BY <1>4, <1>5
  <2>2. u[k] = sorted[k].of
    BY <1>3
  <2>3. s[f[k]] \in S
    BY <1>5
  <2> QED
    BY <2>1, <2>2, <2>3
<1>7. Rearranged(u, s, n)
  BY <1>6 DEF Rearranged
<1>8. u \in [1..n -> S]
  BY <1>3, <1>6
<1>9. ASSUME NEW a \in 1..n, NEW b \in 1..n, a < b PROVE u[a].ms >= u[b].ms
  <2>1. sorted[a].key <= sorted[b].key
    BY <1>2, <1>9
  <2>2. -u[a].ms <= -u[b].ms /\ u[a].ms \in Int /\ u[b].ms \in Int
    BY <1>6, <2>1
  <2> QED
    BY <2>2
<1> QED
  BY <1>7, <1>8, <1>9 DEF u

\* get_request_stats sorts the shortest first.
LEMMA AscendingIs ==
    ASSUME NEW n \in Nat, NEW s \in [1..n -> Int]
    PROVE  /\ Ascending(s) \in [1..n -> Int]
           /\ Rearranged(Ascending(s), s, n)
           /\ \A a, b \in 1..n : a < b => Ascending(s)[a] <= Ascending(s)[b]
<1> DEFINE K == [key : Int, of : Int]
           keyed == [i \in 1..n |-> [key |-> s[i], of |-> s[i]]]
           sorted == ExchangeSort(keyed)
           u == Ascending(s)
<1>1. keyed \in [1..n -> K] /\ Keyed(K)
  BY DEF Keyed
<1>2. /\ Rearranged(sorted, keyed, n)
      /\ \A a, b \in 1..n : a < b => sorted[a].key <= sorted[b].key
  <2> HIDE DEF keyed, K
  <2> QED
    BY <1>1, SortIs
<1>3. u = [i \in 1..n |-> sorted[i].of]
  <2>1. Len(s) = n
    OBVIOUS
  <2> QED
    BY <2>1 DEF Ascending
<1>4. PICK f \in Bijection(1..n, 1..n) : \A k \in 1..n : sorted[k] = keyed[f[k]]
  BY <1>2 DEF Rearranged
<1>5. \A k \in 1..n : f[k] \in 1..n
  BY DEF Bijection, Injection
<1> HIDE DEF sorted, u
<1>6. \A k \in 1..n : u[k] = s[f[k]] /\ sorted[k].key = u[k] /\ u[k] \in Int
  <2> TAKE k \in 1..n
  <2>1. sorted[k] = [key |-> s[f[k]], of |-> s[f[k]]]
    BY <1>4, <1>5
  <2>2. u[k] = sorted[k].of
    BY <1>3
  <2>3. s[f[k]] \in Int
    BY <1>5
  <2> QED
    BY <2>1, <2>2, <2>3
<1>7. Rearranged(u, s, n)
  BY <1>6 DEF Rearranged
<1>8. u \in [1..n -> Int]
  BY <1>3, <1>6
<1>9. ASSUME NEW a \in 1..n, NEW b \in 1..n, a < b PROVE u[a] <= u[b]
  <2>1. sorted[a].key <= sorted[b].key
    BY <1>2, <1>9
  <2> QED
    BY <1>6, <2>1
<1> QED
  BY <1>7, <1>8, <1>9 DEF u

\* A map that is one-to-one onto keeps the number of elements.
LEMMA SameNumber ==
    ASSUME NEW A, NEW B, IsFiniteSet(A), NEW f, \A x \in A : f[x] \in B,
           \A x, y \in A : f[x] = f[y] => x = y,
           \A y \in B : \E x \in A : f[x] = y
    PROVE  IsFiniteSet(B) /\ Cardinality(A) = Cardinality(B)
<1> DEFINE g == [x \in A |-> f[x]]
<1>1. g \in Bijection(A, B)
  <2>1. g \in [A -> B] /\ \A x, y \in A : g[x] = g[y] => x = y
    OBVIOUS
  <2>2. \A y \in B : \E x \in A : g[x] = y
    OBVIOUS
  <2> HIDE DEF g
  <2> QED
    BY <2>1, <2>2 DEF Bijection, Injection, Surjection, IsInjective
<1>2. ExistsBijection(A, B)
  BY <1>1 DEF ExistsBijection
<1> QED
  BY <1>2, FS_Bijection

\* Rearranging keeps how often each element occurs.
LEMMA RearrangedCounts ==
    ASSUME NEW n \in Nat, NEW s, NEW t, Rearranged(t, s, n), NEW x
    PROVE  Among(t, x, n) = Among(s, x, n)
<1> DEFINE A == {i \in 1..n : t[i] = x}
           B == {i \in 1..n : s[i] = x}
<1>1. PICK f \in Bijection(1..n, 1..n) : \A k \in 1..n : t[k] = s[f[k]]
  BY DEF Rearranged
<1>2. /\ \A k \in 1..n : f[k] \in 1..n
      /\ \A k, l \in 1..n : f[k] = f[l] => k = l
      /\ \A y \in 1..n : \E k \in 1..n : f[k] = y
  BY DEF Bijection, Injection, Surjection, IsInjective
<1>3. IsFiniteSet(A)
  <2>1. IsFiniteSet(1..n) /\ A \subseteq 1..n
    BY FS_Interval
  <2> HIDE DEF A
  <2> QED
    BY <2>1, FS_Subset
<1>4. \A k \in A : f[k] \in B
  BY <1>1, <1>2
<1>5. \A k, l \in A : f[k] = f[l] => k = l
  BY <1>2
<1>6. \A y \in B : \E k \in A : f[k] = y
  <2> TAKE y \in B
  <2>1. PICK k \in 1..n : f[k] = y
    BY <1>2
  <2>2. k \in A
    BY <1>1, <2>1
  <2> QED
    BY <2>1, <2>2
<1> HIDE DEF A, B
<1>7. Cardinality(A) = Cardinality(B)
  BY <1>3, <1>4, <1>5, <1>6, SameNumber
<1> QED
  BY <1>7 DEF A, B, Among

\* A filter that takes all that are equal to x keeps how often x occurs.
LEMMA FilteredCounts ==
    ASSUME NEW S, NEW s \in Seq(S), NEW chosen \in SUBSET (DOMAIN s), NEW x,
           \A i \in DOMAIN s : s[i] = x => i \in chosen
    PROVE  Among(Filtered(s, chosen), x, Cardinality(chosen)) = Among(s, x, Len(s))
<1> DEFINE size == Cardinality(chosen)
           f == [k \in 1..size |-> Nth(chosen, k)]
           A == {k \in 1..size : Filtered(s, chosen)[k] = x}
           B == {i \in 1..Len(s) : s[i] = x}
<1>1. /\ size \in Nat
      /\ \A k \in 1..size : Nth(chosen, k) \in chosen /\ Filtered(s, chosen)[k] = s[Nth(chosen, k)]
      /\ \A k, l \in 1..size : k < l => Nth(chosen, k) < Nth(chosen, l)
      /\ \A i \in chosen : \E k \in 1..size : Nth(chosen, k) = i
      /\ \A i \in chosen : i \in Nat
  <2>1. chosen \in SUBSET (1..Len(s)) /\ Len(s) \in Nat
    OBVIOUS
  <2> QED
    BY <2>1, FilteredIs
<1> HIDE DEF size
<1>2. \A k \in 1..size : f[k] = Nth(chosen, k)
  OBVIOUS
<1> HIDE DEF f
<1>3. IsFiniteSet(A)
  <2>1. IsFiniteSet(1..size) /\ A \subseteq 1..size
    BY <1>1, FS_Interval
  <2> HIDE DEF A
  <2> QED
    BY <2>1, FS_Subset
<1>4. \A k \in A : f[k] \in B
  BY <1>1, <1>2
<1>5. ASSUME NEW k \in A, NEW l \in A, f[k] = f[l] PROVE k = l
  <2>1. k \in 1..size /\ l \in 1..size /\ Nth(chosen, k) = Nth(chosen, l) /\ Nth(chosen, k) \in Nat
    BY <1>1, <1>2, <1>5
  <2>2. ~(k < l) /\ ~(l < k)
    BY <1>1, <2>1
  <2> QED
    BY <2>1, <2>2
<1>6. \A i \in B : \E k \in A : f[k] = i
  <2> TAKE i \in B
  <2>1. PICK k \in 1..size : Nth(chosen, k) = i
    BY <1>1
  <2>2. k \in A /\ f[k] = i
    BY <1>1, <1>2, <2>1
  <2> QED
    BY <2>2
<1> HIDE DEF A, B
<1>7. Cardinality(A) = Cardinality(B)
  BY <1>3, <1>4, <1>5, <1>6, SameNumber
<1> QED
  BY <1>7 DEF A, B, size, Among
USE ToolsAssumption

\* A request's time is a number.
LEMMA TimesAreNumbers == \A r \in HttpRecords : r.ms \in Int
<1> TAKE r \in HttpRecords
<1>1. r.ms \in RequestTimes
  BY DEF HttpRecords
<1> QED
  BY <1>1

\* get_slow_requests leaves nothing out that is slower than what it shows.
LEMMA SlowIsTold ==
    ASSUME NEW s \in Seq(HttpRecords), NEW threshold \in Thresholds
    PROVE  SlowTold(SlowRequests(s, threshold), s, threshold)
<1> DEFINE all == {i \in DOMAIN s : s[i].ms >= threshold}
           m == Cardinality(all)
           f == Filtered(s, all)
           sorted == SlowestFirst(f)
           c == IF m > MaxSlow THEN MaxSlow ELSE m
           top == SubSeq(sorted, 1, c)
<1>1. m \in Nat /\ f \in Seq(HttpRecords) /\ Len(f) = m
  <2>1. all \in SUBSET (DOMAIN s)
    OBVIOUS
  <2> HIDE DEF all
  <2> QED
    BY <2>1, FilteredIs
<1>2. f \in [1..m -> HttpRecords]
  <2> HIDE DEF f, m
  <2> QED
    BY <1>1
<1>3. SlowRequests(s, threshold) = top
  <2>1. Len(sorted) = m
    <3> HIDE DEF f, m
    <3> QED
      BY <1>1 DEF SlowestFirst
  <2> QED
    BY <2>1 DEF SlowRequests
<1> HIDE DEF f, m
<1>4. /\ sorted \in [1..m -> HttpRecords]
      /\ Rearranged(sorted, f, m)
      /\ \A a, b \in 1..m : a < b => sorted[a].ms >= sorted[b].ms
  BY <1>1, <1>2, TimesAreNumbers, SlowestIs
<1> HIDE DEF sorted
<1>5. c \in Nat /\ c <= m /\ c = IF m < MaxSlow THEN m ELSE MaxSlow
  BY <1>1
<1> HIDE DEF c
<1>6. /\ sorted \in Seq(HttpRecords) /\ Len(sorted) = m
  BY <1>1, <1>4
<1>7. Len(top) = c /\ DOMAIN top = 1..c /\ \A j \in 1..c : top[j] = sorted[j] /\ j \in 1..m
  <2>1. \A j \in 1..c : j \in 1..m
    BY <1>1, <1>5
  <2>2. top \in Seq(HttpRecords) /\ Len(top) = c /\ \A j \in 1..c : top[j] = sorted[j]
    <3>1. \A j \in 1..c : sorted[j] \in HttpRecords
      BY <1>4, <2>1
    <3>2. 1 \in Int /\ c \in Int /\ (1 <= c => 1 \in 1..Len(sorted) /\ c \in 1..Len(sorted))
      BY <1>1, <1>5, <1>6
    <3> QED
      BY ONLY <1>5, <1>6, <2>1, <3>1, <3>2
  <2> QED
    BY <2>1, <2>2
<1> HIDE DEF top
<1>8. \A i, j \in 1..c : i < j => top[i].ms >= top[j].ms
  BY <1>4, <1>7
<1>9. ASSUME NEW i \in all, NEW j \in 1..c, ~(s[i].ms <= top[j].ms)
      PROVE  Cardinality({k \in 1..c : top[k] = s[i]}) = Cardinality({k \in DOMAIN s : s[k] = s[i]})
  <2> DEFINE x == s[i]
  <2>1. x \in HttpRecords /\ x.ms \in Int /\ x.ms >= threshold
    BY TimesAreNumbers
  <2>2. top[j] = sorted[j] /\ j \in 1..m /\ sorted[j].ms \in Int
    BY <1>4, <1>7, TimesAreNumbers
  <2> HIDE DEF x
  <2>3. ASSUME NEW k \in 1..m, sorted[k] = x PROVE k \in 1..c
    <3>1. sorted[k].ms > sorted[j].ms /\ sorted[k].ms \in Int
      BY <1>9, <2>1, <2>2, <2>3 DEF x
    <3>2. ~(j < k) /\ j # k
      BY <1>4, <2>2, <3>1
    <3> QED
      BY <1>1, <1>5, <2>2, <3>2
  <2>4. {k \in 1..c : top[k] = x} = {k \in 1..m : sorted[k] = x}
    BY <1>7, <2>3
  <2>5. Among(sorted, x, m) = Among(f, x, m)
    BY ONLY <1>1, <1>4, RearrangedCounts
  <2>6. Among(f, x, m) = Among(s, x, Len(s))
    <3>1. \A k \in DOMAIN s : s[k] = x => k \in all
      BY <2>1
    <3>2. all \in SUBSET (DOMAIN s)
      OBVIOUS
    <3> HIDE DEF all
    <3>3. Among(Filtered(s, all), x, Cardinality(all)) = Among(s, x, Len(s))
      BY ONLY <3>1, <3>2, FilteredCounts, s \in Seq(HttpRecords)
    <3> QED
      BY <3>3 DEF f, m
  <2>7. DOMAIN s = 1..Len(s)
    OBVIOUS
  <2>8. Cardinality({k \in 1..c : top[k] = x}) = Cardinality({k \in DOMAIN s : s[k] = x})
    BY ONLY <2>4, <2>5, <2>6, <2>7 DEF Among
  <2> QED
    BY <2>8 DEF x
<1>10. SlowTold(top, s, threshold)
  BY <1>5, <1>7, <1>8, <1>9 DEF SlowTold, m
<1> QED
  BY <1>3, <1>10 DEF top

\* get_request_stats: each of the five times is that of a place in the order.
LEMMA PercentilesAreTold ==
    ASSUME NEW s \in Seq(HttpRecords), Len(s) > 1
    PROVE  /\ ~StatsPanic(s) /\ PercentilesTold(RequestStats(s).latency, s)
           /\ RequestStats(s).n = Len(s)
<1> DEFINE n == Len(s)
           times == [i \in 1..n |-> s[i].ms]
           sorted == Ascending(times)
           mid == 1 + (IF (50 * n) \div 100 - 1 < n - 1 THEN (50 * n) \div 100 - 1 ELSE n - 1)
           high == 1 + (IF (95 * n) \div 100 - 1 < n - 1 THEN (95 * n) \div 100 - 1 ELSE n - 1)
           top == 1 + (IF (99 * n) \div 100 - 1 < n - 1 THEN (99 * n) \div 100 - 1 ELSE n - 1)
           at == RequestStats(s).latency
<1>1. n \in Nat /\ n > 1 /\ DOMAIN s = 1..n
  OBVIOUS
<1>2. times \in [1..n -> Int]
  BY TimesAreNumbers
<1> HIDE DEF n
<1>3. /\ mid \in 1..n /\ high \in 1..n /\ top \in 1..n /\ mid <= high /\ high <= top
      /\ 2 * mid >= n - 1 /\ ~((50 * n) \div 100 - 1 < 0)
  BY <1>1
<1>4. ~StatsPanic(s)
  BY <1>3 DEF StatsPanic, n
<1> HIDE DEF mid, high, top, times
<1>5. /\ sorted \in [1..n -> Int]
      /\ Rearranged(sorted, times, n)
      /\ \A a, b \in 1..n : a < b => sorted[a] <= sorted[b]
  BY <1>1, <1>2, AscendingIs
<1>6. at = <<sorted[1], sorted[mid], sorted[high], sorted[top], sorted[n]>>
  <2>1. Len(sorted) = n
    BY <1>1, <1>5
  <2> HIDE DEF sorted
  <2>2. Percentile(sorted, 50) = sorted[mid] /\ Percentile(sorted, 95) = sorted[high]
        /\ Percentile(sorted, 99) = sorted[top]
    BY <2>1 DEF Percentile, mid, high, top
  <2> QED
    BY <2>2 DEF RequestStats, sorted, times, n
<1> HIDE DEF sorted, at
<1> DEFINE place == <<1, mid, high, top, n>>
<1>7. \A k \in 1..5 : place[k] \in 1..n /\ at[k] = sorted[place[k]]
  BY <1>1, <1>3, <1>6
<1>8. ASSUME NEW a \in 1..n, NEW b \in 1..n, a <= b
      PROVE  sorted[a] <= sorted[b] /\ sorted[a] \in Int /\ sorted[b] \in Int
  BY <1>5, <1>8
<1>9. \A k \in 1..4 : at[k] <= at[k + 1]
  <2>1. /\ sorted[1] <= sorted[mid] /\ sorted[mid] <= sorted[high]
        /\ sorted[high] <= sorted[top] /\ sorted[top] <= sorted[n]
    <3>1. 1 \in 1..n /\ n \in 1..n /\ 1 <= mid /\ top <= n
      BY <1>1, <1>3
    <3> QED
      BY <1>3, <1>8, <3>1
  <2> QED
    BY <1>6, <2>1
<1>10. PICK f \in Bijection(1..n, 1..n) : \A k \in 1..n : sorted[k] = times[f[k]]
  BY <1>5 DEF Rearranged
<1>11. /\ \A k \in 1..n : f[k] \in 1..n /\ sorted[k] = s[f[k]].ms
       /\ \A k, l \in 1..n : f[k] = f[l] => k = l
       /\ \A y \in 1..n : \E k \in 1..n : f[k] = y
  BY <1>10 DEF Bijection, Injection, Surjection, IsInjective, times
<1>12. \A k \in 1..5 : \E i \in DOMAIN s : s[i].ms = at[k]
  <2> TAKE k \in 1..5
  <2>1. place[k] \in 1..n /\ at[k] = sorted[place[k]]
    BY <1>7
  <2> HIDE DEF place
  <2>2. f[place[k]] \in DOMAIN s /\ s[f[place[k]]].ms = at[k]
    BY <1>1, <1>11, <2>1
  <2> QED
    BY <2>2
<1>13. \A i \in DOMAIN s : at[1] <= s[i].ms /\ s[i].ms <= at[5]
  <2> TAKE i \in DOMAIN s
  <2>1. PICK k \in 1..n : f[k] = i
    BY <1>1, <1>11
  <2>2. s[i].ms = sorted[k] /\ 1 \in 1..n /\ n \in 1..n /\ 1 <= k /\ k <= n
    <3>1. s[f[k]].ms = sorted[k]
      BY <1>11
    <3>2. 1 \in 1..n /\ n \in 1..n /\ 1 <= k /\ k <= n
      BY <1>1
    <3> QED
      BY <2>1, <3>1, <3>2
  <2>3. at[1] = sorted[1] /\ at[5] = sorted[n]
    BY <1>6
  <2> QED
    BY <1>8, <2>2, <2>3
<1> DEFINE fast == {i \in DOMAIN s : s[i].ms <= at[2]}
<1>14. 2 * Cardinality(fast) >= n - 1
  <2>1. IsFiniteSet(1..mid) /\ Cardinality(1..mid) = mid /\ IsFiniteSet(1..n)
    <3>1. mid \in Int /\ n \in Int /\ 1 <= mid /\ mid - 1 + 1 = mid
      BY <1>1, <1>3
    <3>2. IsFiniteSet(1..mid) /\ Cardinality(1..mid) = mid - 1 + 1
      BY ONLY <3>1, 1 \in Int, FS_Interval
    <3>3. IsFiniteSet(1..n)
      BY ONLY <3>1, 1 \in Int, FS_Interval
    <3> QED
      BY <3>1, <3>2, <3>3
  <2>2. IsFiniteSet(fast)
    <3>1. fast \subseteq 1..n
      BY <1>1
    <3> HIDE DEF fast
    <3> QED
      BY <2>1, <3>1, FS_Subset
  <2> DEFINE g == [k \in 1..mid |-> f[k]]
  <2>3. g \in Injection(1..mid, fast)
    <3>1. ASSUME NEW k \in 1..mid PROVE k \in 1..n /\ f[k] \in fast
      <4>1. k \in 1..n /\ k <= mid
        BY <1>1, <1>3
      <4>2. sorted[k] <= sorted[mid] /\ at[2] = sorted[mid]
        BY <1>3, <1>6, <1>8, <4>1
      <4> QED
        BY <1>1, <1>11, <4>1, <4>2
    <3> HIDE DEF fast
    <3>2. g \in [1..mid -> fast] /\ \A k, l \in 1..mid : g[k] = g[l] => k = l
      BY <1>11, <3>1
    <3> HIDE DEF g
    <3> QED
      BY <3>2 DEF Injection, IsInjective
  <2> HIDE DEF g, fast
  <2>4. Cardinality(1..mid) <= Cardinality(fast)
    BY ONLY <2>1, <2>2, <2>3, FS_Injection
  <2>5. Cardinality(fast) \in Nat
    BY <2>2, FS_CardinalityType
  <2> QED
    BY <1>1, <1>3, <2>1, <2>4, <2>5
<1>15. PercentilesTold(at, s)
  BY <1>9, <1>12, <1>13, <1>14 DEF PercentilesTold, n
<1>16. RequestStats(s).n = n
  BY DEF RequestStats, n
<1> QED
  BY <1>4, <1>15, <1>16 DEF at, n
\* A limit takes the last elements.
LEMMA LastAreNewest ==
    ASSUME NEW S, NEW s \in Seq(S), NEW n \in Nat
    PROVE  /\ n <= Len(s) => /\ LastOf(s, n) \in Seq(S) /\ Len(LastOf(s, n)) = n
                             /\ \A i \in 1..n : LastOf(s, n)[i] = s[Len(s) - n + i]
                             /\ LastOf(s, n) = NewestOf(s, n)
           /\ Len(s) <= n => s = NewestOf(s, n)
<1> DEFINE l == Len(s)
<1>1. l \in Nat /\ DOMAIN s = 1..l /\ \A i \in 1..l : s[i] \in S
  OBVIOUS
<1>2. ASSUME n <= l
      PROVE  /\ LastOf(s, n) \in Seq(S) /\ Len(LastOf(s, n)) = n
             /\ \A i \in 1..n : LastOf(s, n)[i] = s[Len(s) - n + i]
             /\ LastOf(s, n) = NewestOf(s, n)
  <2> DEFINE c == SubSeq(s, l - n + 1, l)
             d == [i \in 1..n |-> s[l - n + i]]
  <2>1. \A i \in 1..n : l - n + i \in 1..l
    BY <1>1, <1>2
  <2>2. d \in Seq(S) /\ Len(d) = n
    BY <1>1, <2>1
  <2>3. c = d
    <3> DEFINE a == l - n + 1
    <3>1. a \in Int /\ l \in Int /\ l - a + 1 = n /\ (a <= l => a \in 1..l /\ l \in 1..l)
      BY <1>1, <1>2
    <3>2. \A i \in 1..n : a + i - 1 = l - n + i
      BY <1>1
    <3> HIDE DEF a, d
    <3>3. SubSeq(s, a, l) \in Seq(S) /\ Len(SubSeq(s, a, l)) = n
          /\ \A i \in 1..n : SubSeq(s, a, l)[i] = s[a + i - 1]
      BY <1>1, <2>1, <3>1, <3>2
    <3>4. \A i \in 1..n : SubSeq(s, a, l)[i] = d[i]
      BY <3>2, <3>3 DEF d
    <3>5. SubSeq(s, a, l) = d
      BY <2>2, <3>3, <3>4, SeqEqual
    <3> QED
      BY <3>5 DEF a
  <2>4. LastOf(s, n) = d
    BY <2>3 DEF LastOf
  <2>5. NewestOf(s, n) = d
    <3> HIDE DEF l, d
    <3>1. (IF l < n THEN l ELSE n) = n
      BY <1>1, <1>2
    <3> QED
      BY <3>1 DEF NewestOf, l, d
  <2>6. \A i \in 1..n : d[i] = s[l - n + i]
    OBVIOUS
  <2> HIDE DEF d
  <2> QED
    BY <2>2, <2>4, <2>5, <2>6
<1>3. ASSUME l <= n PROVE s = NewestOf(s, n)
  <2>1. (IF l < n THEN l ELSE n) = l /\ \A i \in 1..l : l - l + i = i
    <3> HIDE DEF l
    <3>1. l = n \/ l < n
      BY <1>1, <1>3
    <3> QED
      BY <1>1, <3>1
  <2>2. NewestOf(s, n) = [i \in 1..l |-> s[l - l + i]]
    BY <2>1 DEF NewestOf
  <2>3. s = [i \in 1..l |-> s[i]]
    BY <1>1
  <2> HIDE DEF l
  <2>4. [i \in 1..l |-> s[l - l + i]] = [i \in 1..l |-> s[i]]
    BY <2>1
  <2> QED
    BY <2>2, <2>3, <2>4
<1> QED
  BY <1>2, <1>3

\* get_recent_requests.
LEMMA RecentIsTold ==
    ASSUME NEW S, NEW s \in Seq(S), NEW limit \in Nat
    PROVE  /\ RecentTold(RecentRequests(s, limit), s, limit)
           /\ Len(RecentRequests(s, limit)) <= Len(s)
<1> DEFINE c == IF limit < Len(s) THEN LastOf(s, limit) ELSE s
           n == IF limit < Len(s) THEN limit ELSE Len(s)
           shown == RecentRequests(s, limit)
<1>1. Len(s) \in Nat /\ n \in Nat /\ n <= Len(s)
  OBVIOUS
<1>2. Len(c) = n /\ \A i \in 1..n : c[i] = s[Len(s) - n + i]
  <2>1. CASE limit < Len(s)
    <3>1. limit <= Len(s) /\ c = LastOf(s, limit) /\ n = limit
      BY <1>1, <2>1
    <3> HIDE DEF c, n
    <3> QED
      BY <3>1, LastAreNewest
  <2>2. CASE ~(limit < Len(s))
    BY <1>1, <2>2
  <2> QED
    BY <2>1, <2>2
<1>3. shown = Reverse(c)
  BY DEF RecentRequests
<1> HIDE DEF c, shown
<1>4. shown = [i \in 1..n |-> c[(n - i) + 1]]
  BY <1>2, <1>3 DEF Reverse
<1>5. n = IF limit < Len(s) THEN limit ELSE Len(s)
  OBVIOUS
<1> HIDE DEF n
<1>6. Len(shown) = n /\ DOMAIN shown = 1..n
  BY <1>1, <1>4
<1>7. ASSUME NEW i \in 1..n PROVE shown[i] = s[Len(s) + 1 - i]
  <2>1. (n - i) + 1 \in 1..n /\ Len(s) - n + ((n - i) + 1) = Len(s) + 1 - i
    BY <1>1
  <2> QED
    BY <1>2, <1>4, <2>1
<1>8. RecentTold(shown, s, limit)
  BY <1>5, <1>6, <1>7 DEF RecentTold
<1> QED
  BY <1>1, <1>6, <1>8 DEF shown

\* get_recent_errors.
LEMMA ErrorsAreTold ==
    ASSUME NEW S, NEW s \in Seq(S), NEW limit \in BufLimits
    PROVE  ErrorsTold(RecentErrors(s, limit), s)
<1> USE BufferAssumption
<1> DEFINE n == IF limit > 0 /\ limit <= BufferMax THEN limit ELSE DefaultErrors
<1>1. n \in Nat
  <2>1. limit \in Int
    OBVIOUS
  <2>2. limit > 0 => limit \in Nat
    BY <2>1
  <2> QED
    BY <2>2
<1>2. Len(s) \in Nat
  OBVIOUS
<1>3. RecentErrors(s, limit) = IF Len(s) > n THEN LastOf(s, n) ELSE s
  BY DEF RecentErrors
<1> HIDE DEF n
<1>4. CASE Len(s) > n
  <2>1. n <= Len(s) /\ RecentErrors(s, limit) = LastOf(s, n)
    BY <1>1, <1>2, <1>3, <1>4
  <2>2. Len(LastOf(s, n)) = n /\ LastOf(s, n) = NewestOf(s, n)
    BY <1>1, <2>1, LastAreNewest
  <2> QED
    BY <2>1, <2>2 DEF ErrorsTold
<1>5. CASE ~(Len(s) > n)
  <2>1. RecentErrors(s, limit) = s /\ Len(s) <= Len(s)
    BY <1>2, <1>3, <1>5
  <2>2. s = NewestOf(s, Len(s))
    BY <1>2, <2>1, LastAreNewest
  <2> QED
    BY <2>1, <2>2 DEF ErrorsTold
<1> QED
  BY <1>4, <1>5

\* get_log_buffer.
LEMMA EntriesAreTold ==
    ASSUME NEW s \in Seq(LogRecords), Len(s) <= BufferMax, NEW limit \in BufLimits,
           NEW level \in AskedLevels, NEW source
    PROVE  /\ EntriesTold(LogEntries(s, limit, level, source), s,
                          [limit |-> limit, level |-> level, source |-> source])
           /\ Len(LogEntries(s, limit, level, source)) <= Len(s)
<1> USE BufferAssumption
<1> DEFINE chosen == {i \in DOMAIN s : /\ level # Unfiltered => s[i].level = LowerCase(level)
                                       /\ source # Unfiltered => s[i].source = source}
           asked == [limit |-> limit, level |-> level, source |-> source]
           matches == Matching(s, asked)
           n == IF limit > 0 /\ limit < Len(s) THEN limit ELSE Len(s)
           m == IF limit > 0 THEN limit ELSE BufferMax
           f == Filtered(s, chosen)
           shown == LogEntries(s, limit, level, source)
<1>1. /\ chosen \in SUBSET matches
      /\ \A i \in matches \ chosen : level # Unfiltered /\ s[i].level # LowerCase(s[i].level)
  <2>1. asked.limit = limit /\ asked.level = level /\ asked.source = source
    OBVIOUS
  <2>2. \A i \in DOMAIN s : s[i].level \in {"info", "INFO"}
    <3>1. \A i \in DOMAIN s : s[i] \in LogRecords
      OBVIOUS
    <3> QED
      BY ONLY <3>1 DEF LogRecords
  <2> HIDE DEF asked
  <2>3. matches = {i \in DOMAIN s :
                     /\ level # Unfiltered => LowerCase(s[i].level) = LowerCase(level)
                     /\ source # Unfiltered => s[i].source = source}
    BY <2>1 DEF Matching
  <2> HIDE DEF matches
  <2>4. \A i \in DOMAIN s : s[i].level = LowerCase(level) => LowerCase(s[i].level) = LowerCase(level)
    BY <2>2 DEF LowerCase, AskedLevels, Unfiltered
  <2> QED
    BY <2>2, <2>3, <2>4
<1>2. limit \in Int /\ Len(s) \in Nat /\ n \in Nat /\ m \in Nat
  <2>1. limit \in Int /\ Len(s) \in Nat
    OBVIOUS
  <2>2. limit > 0 => limit \in Nat
    BY <2>1
  <2> QED
    BY <2>1, <2>2
<1>3. f \in Seq(LogRecords) /\ Len(f) \in Nat /\ Len(f) <= Len(s)
  <2>1. chosen \in SUBSET (DOMAIN s) /\ DOMAIN s = 1..Len(s)
    OBVIOUS
  <2>2. IsFiniteSet(1..Len(s)) /\ Cardinality(1..Len(s)) = Len(s)
    <3> DEFINE l == Len(s)
    <3>1. l \in Nat /\ l \in Int /\ 1 \in Int /\ (l > 0 => 1 <= l) /\ l - 1 + 1 = l
      BY <1>2
    <3> HIDE DEF l
    <3>2. IsFiniteSet(1..l) /\ Cardinality(1..l) = l
      BY ONLY <3>1, FS_Interval
    <3> QED
      BY <3>2 DEF l
  <2> HIDE DEF chosen
  <2>3. f \in Seq(LogRecords) /\ Len(f) = Cardinality(chosen) /\ Cardinality(chosen) \in Nat
    BY <2>1, FilteredIs
  <2>4. Cardinality(chosen) <= Cardinality(1..Len(s))
    BY ONLY <2>1, <2>2, FS_Subset
  <2> HIDE DEF f
  <2> QED
    BY <2>2, <2>3, <2>4
<1>4. shown = IF Len(f) > n THEN LastOf(f, n) ELSE f
  BY DEF LogEntries
<1>5. \/ Len(f) > n /\ n = m
      \/ ~(Len(f) > n) /\ Len(f) <= m
  <2> HIDE DEF f
  <2> QED
    BY <1>2, <1>3
<1>6. shown = NewestOf(f, m) => EntriesTold(shown, s, asked)
  <2>1. asked.limit = limit /\ asked.level = level
    OBVIOUS
  <2> HIDE DEF shown, asked, chosen, matches, f
  <2>2. SUFFICES ASSUME shown = NewestOf(f, m) PROVE EntriesTold(shown, s, asked)
    OBVIOUS
  <2>3. NewestEntries(shown, s, chosen, limit)
    BY <2>2 DEF NewestEntries, f, m
  <2> QED
    BY <1>1, <2>1, <2>3 DEF EntriesTold, matches
<1> HIDE DEF chosen, matches, n, m, shown, f
<1>8. CASE Len(f) > n /\ n = m
  <2>1. n <= Len(f) /\ shown = LastOf(f, n)
    BY <1>2, <1>3, <1>4, <1>8
  <2>2. Len(LastOf(f, n)) = n /\ LastOf(f, n) = NewestOf(f, n)
    BY <1>2, <1>3, <2>1, LastAreNewest
  <2>3. shown = NewestOf(f, m) /\ Len(shown) <= Len(s)
    BY <1>2, <1>3, <1>8, <2>1, <2>2
  <2> QED
    BY <1>6, <2>3 DEF shown, asked
<1>9. CASE ~(Len(f) > n) /\ Len(f) <= m
  <2>1. shown = f
    BY <1>4, <1>9
  <2>2. f = NewestOf(f, m)
    BY <1>2, <1>3, <1>9, LastAreNewest
  <2>3. shown = NewestOf(f, m) /\ Len(shown) <= Len(s)
    BY <1>3, <2>1, <2>2
  <2> QED
    BY <1>6, <2>3 DEF shown, asked
<1> QED
  BY <1>5, <1>8, <1>9

\* get_error_stats.
LEMMA TypesAreTold ==
    ASSUME NEW s \in Seq(ErrorRecords)
    PROVE  TypesTold(ErrorTypes(s), s)
<1> DEFINE types == ErrorTypes(s)
           found == {s[i].type : i \in 1..Len(s)}
<1>1. DOMAIN s = 1..Len(s) /\ Len(s) \in Nat
  OBVIOUS
<1>2. types = [t \in found |-> Cardinality({i \in 1..Len(s) : s[i].type = t})]
  BY DEF ErrorTypes
<1> HIDE DEF types
<1>3. ASSUME NEW t \in ErrorKinds
      PROVE  (IF t \in DOMAIN types THEN types[t] ELSE 0) = Cardinality({i \in DOMAIN s : s[i].type = t})
  <2>1. CASE t \in found
    BY <1>1, <1>2, <2>1
  <2>2. CASE t \notin found
    <3>1. {i \in DOMAIN s : s[i].type = t} = {}
      BY <1>1, <2>2
    <3> QED
      BY <1>2, <2>2, <3>1, FS_EmptySet
  <2> QED
    BY <2>1, <2>2
<1>4. TypesTold(types, s)
  BY <1>3 DEF TypesTold
<1> QED
  BY <1>4 DEF types

\* The patterns of the first k errors are noted.
NotedPattern(r, forms, p, k) ==
    /\ r.first \in 1..k /\ forms[r.first] = p
    /\ r.last \in 1..k /\ forms[r.last] = p
    /\ \A i \in 1..k : forms[i] = p => r.first <= i /\ i <= r.last
    /\ r.count = Among(forms, p, k)
    /\ r = [count |-> r.count, first |-> r.first, last |-> r.last]

Noted(seen, forms, k) ==
    /\ \A i \in 1..k : forms[i] \in DOMAIN seen
    /\ \A p \in DOMAIN seen : NotedPattern(seen[p], forms, p, k)

LEMMA NoteStep ==
    ASSUME NEW seen, NEW forms, NEW k \in Nat, Noted(seen, forms, k)
    PROVE  Noted(NotePattern(seen, [at |-> k + 1, pattern |-> forms[k + 1]]), forms, k + 1)
<1> DEFINE x == forms[k + 1]
           o == [at |-> k + 1, pattern |-> x]
           r == IF x \in DOMAIN seen THEN [seen[x] EXCEPT !.count = @ + 1, !.last = k + 1]
                                     ELSE [count |-> 1, first |-> k + 1, last |-> k + 1]
           new == NotePattern(seen, o)
<1>1. DOMAIN new = DOMAIN seen \cup {x} /\ \A p \in DOMAIN new : new[p] = IF p = x THEN r ELSE seen[p]
  BY DEF NotePattern, Put, First
<1>2. /\ \A p : /\ Among(forms, p, 0) = 0 /\ Among(forms, p, k) \in Nat
                /\ Among(forms, p, k + 1) = Among(forms, p, k) + (IF x = p THEN 1 ELSE 0)
  BY AmongOneMore
<1>3. \A i \in 1..k + 1 : i = k + 1 \/ i \in 1..k
  OBVIOUS
<1>4. \A i \in 1..k : i \in 1..k + 1 /\ i <= k + 1
  OBVIOUS
<1>5. k + 1 \in 1..k + 1 /\ k + 1 <= k + 1
  OBVIOUS
<1> HIDE DEF new
<1>6. \A i \in 1..k + 1 : forms[i] \in DOMAIN new
  BY <1>1, <1>3 DEF Noted
<1>7. ASSUME NEW p \in DOMAIN new, p # x PROVE NotedPattern(new[p], forms, p, k + 1)
  <2>1. new[p] = seen[p] /\ NotedPattern(seen[p], forms, p, k)
    BY <1>1, <1>7 DEF Noted
  <2>2. forms[k + 1] # p
    BY <1>7
  <2> HIDE DEF x
  <2>3. Among(forms, p, k + 1) = Among(forms, p, k)
    BY <1>2, <1>7
  <2> QED
    BY <1>3, <1>4, <2>1, <2>2, <2>3 DEF NotedPattern
<1>8. NotedPattern(r, forms, x, k + 1)
  <2>1. CASE x \in DOMAIN seen
    <3> DEFINE q == seen[x]
    <3>1. /\ q.first \in 1..k /\ forms[q.first] = x
          /\ \A i \in 1..k : forms[i] = x => q.first <= i
          /\ q.count = Among(forms, x, k)
          /\ q = [count |-> q.count, first |-> q.first, last |-> q.last]
      BY <2>1 DEF Noted, NotedPattern
    <3> HIDE DEF q
    <3>2. r = [count |-> q.count + 1, first |-> q.first, last |-> k + 1]
      BY <2>1, <3>1 DEF q
    <3> HIDE DEF r
    <3>3. r.count = Among(forms, x, k + 1)
      BY <1>2, <3>1, <3>2
    <3>4. \A i \in 1..k + 1 : forms[i] = x => r.first <= i /\ i <= r.last
      BY <1>3, <1>4, <1>5, <3>1, <3>2
    <3> QED
      BY <1>4, <1>5, <3>1, <3>2, <3>3, <3>4 DEF NotedPattern
  <2>2. CASE x \notin DOMAIN seen
    <3>1. r = [count |-> 1, first |-> k + 1, last |-> k + 1]
      BY <2>2
    <3>2. \A i \in 1..k : forms[i] # x
      BY <2>2 DEF Noted
    <3>3. Among(forms, x, k) = 0
      <4>1. {i \in 1..k : forms[i] = x} = {}
        BY <3>2
      <4> QED
        BY <4>1, FS_EmptySet DEF Among
    <3> HIDE DEF r
    <3> QED
      BY <1>2, <1>3, <1>5, <3>1, <3>2, <3>3 DEF NotedPattern
  <2> QED
    BY <2>1, <2>2
<1>9. \A p \in DOMAIN new : NotedPattern(new[p], forms, p, k + 1)
  BY <1>1, <1>7, <1>8
<1>10. Noted(new, forms, k + 1)
  BY <1>6, <1>9 DEF Noted
<1> QED
  BY <1>10 DEF new

\* get_error_patterns.
LEMMA PatternsAreTold ==
    ASSUME NEW s \in Seq(ErrorRecords)
    PROVE  PatternsTold(ErrorPatterns(s), s)
<1> DEFINE n == Len(s)
           turns == [i \in 1..n |-> [at |-> i, pattern |-> s[i].pattern]]
           forms == [i \in 1..n |-> s[i].pattern]
           made == ErrorPatterns(s)
<1>1. n \in Nat /\ DOMAIN s = 1..n
  OBVIOUS
<1>2. PICK q : Noting!Runs(q, <<>>, turns, n)
  <2>1. DOMAIN turns = 1..n
    OBVIOUS
  <2> HIDE DEF turns, n
  <2> QED
    BY <1>1, <2>1, Noting!LoopRuns
<1>3. made = q[n]
  <2>1. made = FoldLeft(NotePattern, <<>>, turns)
    BY DEF ErrorPatterns
  <2> HIDE DEF turns, n
  <2> QED
    BY <1>2, <2>1 DEF Noting!Runs, Noting!FoldLeft, Noting!MapThenFoldSet,
                      Noting!Max, FoldLeft, MapThenFoldSet, Max
<1> DEFINE T == {k \in 0..n : Noted(q[k], forms, k)}
<1>4. 0 \in T
  <2>1. q[0] = <<>> /\ DOMAIN <<>> = {} /\ 1..0 = {}
    BY <1>2 DEF Noting!Runs
  <2> QED
    BY <1>1, <2>1 DEF Noted
<1>5. ASSUME NEW k \in 1..n, k - 1 \in T PROVE k \in T
  <2> DEFINE j == k - 1
  <2>1. j \in Nat /\ j + 1 = k /\ k \in 0..n /\ Noted(q[j], forms, j)
    BY <1>1, <1>5
  <2>2. q[k] = NotePattern(q[j], turns[k])
    BY <1>2 DEF Noting!Runs
  <2>3. turns[k] = [at |-> k, pattern |-> forms[k]]
    OBVIOUS
  <2> HIDE DEF T, j, turns, forms
  <2>4. Noted(NotePattern(q[j], [at |-> j + 1, pattern |-> forms[j + 1]]), forms, j + 1)
    BY <2>1, NoteStep
  <2> QED
    BY <2>1, <2>2, <2>3, <2>4 DEF T
<1>6. Noted(made, forms, n)
  <2> HIDE DEF T
  <2>1. \A k \in 0..n : k \in T
    BY <1>1, <1>4, <1>5, EachNumber
  <2>2. n \in T
    BY <1>1, <2>1
  <2> QED
    BY <1>3, <2>2 DEF T
<1> HIDE DEF made
<1>7. \A i \in 1..n : forms[i] = s[i].pattern
  OBVIOUS
<1> HIDE DEF forms, n
<1>8. ASSUME NEW i \in 1..n
      PROVE  LET found == made[s[i].pattern]
             IN  /\ found.first <= i /\ i <= found.last
                 /\ found.first \in 1..n /\ s[found.first].pattern = s[i].pattern
                 /\ found.last \in 1..n /\ s[found.last].pattern = s[i].pattern
                 /\ found.count = Cardinality({j \in 1..n : s[j].pattern = s[i].pattern})
  <2> DEFINE p == s[i].pattern
  <2>1. p \in DOMAIN made /\ NotedPattern(made[p], forms, p, n) /\ forms[i] = p
    BY <1>6, <1>7 DEF Noted
  <2>2. {j \in 1..n : forms[j] = p} = {j \in 1..n : s[j].pattern = p}
    BY <1>7
  <2> HIDE DEF p
  <2>3. Among(forms, p, n) = Cardinality({j \in 1..n : s[j].pattern = p})
    BY <2>2 DEF Among
  <2>4. /\ made[p].first <= i /\ i <= made[p].last
        /\ made[p].first \in 1..n /\ s[made[p].first].pattern = p
        /\ made[p].last \in 1..n /\ s[made[p].last].pattern = p
    BY <1>7, <2>1 DEF NotedPattern
  <2>5. made[p].count = Cardinality({j \in 1..n : s[j].pattern = p})
    BY <2>1, <2>3 DEF NotedPattern
  <2> QED
    BY <2>4, <2>5 DEF p
<1>9. PatternsTold(made, s)
  BY <1>1, <1>8 DEF PatternsTold
<1> QED
  BY <1>9 DEF made
USE BufferAssumption

\* What a tool that has its copy goes on with is what the buffer held then.
ReadingRight ==
    reading # Idle =>
        /\ reading.upTo \in 0..Len(recorded)
        /\ reading.seen = NewestOf(SubSeq(recorded, 1, reading.upTo), BufferMax)
        /\ \/ /\ bufKind = "http" /\ reading.tool = "get_recent_requests"
              /\ reading.asked.limit \in BufLimits
           \/ /\ bufKind = "log" /\ reading.tool = "get_log_buffer"
              /\ \E limit \in BufLimits,
                    level \in AskedLevels, source \in {Unfiltered} \cup LogSources :
                    reading.asked = [limit |-> limit, level |-> level, source |-> source]

AnswersInv == BufferInv /\ ReadingRight /\ AnswersRight

\* The answer t is right of what the tool saw.
AnswerTells(t, seen) ==
    /\ t.tool = "get_recent_requests" =>
          t.total >= Len(t.answer) /\ RecentTold(t.answer, seen, t.asked.limit)
    /\ t.tool = "get_log_buffer" =>
          t.total >= Len(t.answer) /\ EntriesTold(t.answer, seen, t.asked)
    /\ t.tool = "get_recent_errors" => ErrorsTold(t.answer, seen)
    /\ t.tool = "get_slow_requests" => SlowTold(t.answer, seen, t.asked)
    /\ t.tool = "get_request_stats" => LatencyTold(t.answer, seen)
    /\ t.tool = "get_error_stats" => TypesTold(t.answer, seen)
    /\ t.tool = "get_error_patterns" => PatternsTold(t.answer, seen)

\* The buffer as it was after the first n records.
LEMMA SeenIs ==
    ASSUME NEW S, NEW s \in Seq(S), NEW n \in 0..Len(s)
    PROVE  LET seen == NewestOf(SubSeq(s, 1, n), BufferMax)
           IN  /\ SubSeq(s, 1, n) \in Seq(S) /\ Len(SubSeq(s, 1, n)) = n
               /\ \A i \in 1..n : SubSeq(s, 1, n)[i] = s[i]
               /\ seen \in Seq(S) /\ Len(seen) <= BufferMax
               /\ Len(seen) <= Len(NewestOf(s, BufferMax))
               /\ n = Len(s) => SubSeq(s, 1, n) = s
<1> DEFINE b == SubSeq(s, 1, n)
<1>1. n \in Nat /\ Len(s) \in Nat /\ n <= Len(s) /\ \A i \in 1..n : s[i] \in S
  OBVIOUS
<1>2. b \in Seq(S) /\ Len(b) = n /\ \A i \in 1..n : b[i] = s[i]
  <2>1. 1 \in Int /\ n \in Int /\ n - 1 + 1 = n /\ (1 <= n => 1 \in 1..Len(s) /\ n \in 1..Len(s))
    BY <1>1
  <2>2. \A i \in 1..n : 1 + i - 1 = i
    OBVIOUS
  <2> QED
    BY <1>1, <2>1, <2>2
<1>3. n = Len(s) => b = s
  BY <1>1, <1>2, SeqEqual
<1> HIDE DEF b
<1>4. BufferMax \in Nat
  OBVIOUS
<1>5. /\ NewestOf(b, BufferMax) \in Seq(S) /\ IsNewest(NewestOf(b, BufferMax), b, BufferMax)
      /\ IsNewest(NewestOf(s, BufferMax), s, BufferMax)
  BY <1>2, <1>4, NewestIsSeq
<1>6. /\ Len(NewestOf(b, BufferMax)) = IF n < BufferMax THEN n ELSE BufferMax
      /\ Len(NewestOf(s, BufferMax)) = IF Len(s) < BufferMax THEN Len(s) ELSE BufferMax
  BY <1>2, <1>5 DEF IsNewest
<1>7. /\ Len(NewestOf(b, BufferMax)) <= BufferMax
      /\ Len(NewestOf(b, BufferMax)) <= Len(NewestOf(s, BufferMax))
  BY <1>1, <1>4, <1>6
<1> QED
  BY <1>2, <1>3, <1>5, <1>7 DEF b

LEMMA InitAnswers == BufInit => AnswersInv
<1> SUFFICES ASSUME BufInit PROVE AnswersInv
  OBVIOUS
<1>1. BufferInv
  BY InitBuffers
<1>2. ReadingRight
  BY DEF BufInit, ReadingRight
<1>3. AnswersRight
  <2>1. told.tool = "none"
    BY DEF BufInit, Nothing
  <2> QED
    BY <2>1 DEF AnswersRight
<1> QED
  BY <1>1, <1>2, <1>3 DEF AnswersInv

\* The copies of the tools stay what they are, whatever is recorded.
LEMMA ReadingStep == AnswersInv /\ [BufNext]_bufVars => ReadingRight'
<1> SUFFICES ASSUME AnswersInv, [BufNext]_bufVars PROVE ReadingRight'
  OBVIOUS
<1>1. /\ recorded \in Seq(Recordable(bufKind)) /\ buffer = NewestOf(recorded, BufferMax)
      /\ ReadingRight
  BY DEF AnswersInv, BufferInv, BufTypeOK, NewestKept
<1>2. ASSUME NEW r \in Recordable(bufKind), Record(r) PROVE ReadingRight'
  <2>1. recorded' = Append(recorded, r) /\ UNCHANGED <<bufKind, reading>>
    BY <1>2 DEF Record
  <2> SUFFICES ASSUME reading # Idle PROVE ReadingRight'
    BY <2>1 DEF ReadingRight
  <2> DEFINE n == reading.upTo
  <2>2. n \in 0..Len(recorded) /\ n \in 0..Len(recorded')
    BY <1>1, <2>1 DEF ReadingRight
  <2>3. recorded' \in Seq(Recordable(bufKind)) /\ \A i \in 1..n : recorded'[i] = recorded[i]
    BY <1>1, <2>1, <2>2
  <2> HIDE DEF n
  <2>4. SubSeq(recorded', 1, n) = SubSeq(recorded, 1, n)
    <3> DEFINE a == SubSeq(recorded, 1, n)
               b == SubSeq(recorded', 1, n)
    <3>1. a \in Seq(Recordable(bufKind)) /\ Len(a) = n /\ \A i \in 1..n : a[i] = recorded[i]
      BY <1>1, <2>2, SeenIs
    <3>2. b \in Seq(Recordable(bufKind)) /\ Len(b) = n /\ \A i \in 1..n : b[i] = recorded'[i]
      BY <2>2, <2>3, SeenIs
    <3> HIDE DEF a, b
    <3>3. a = b
      BY <2>3, <3>1, <3>2, SeqEqual
    <3> QED
      BY <3>3 DEF a, b
  <2> QED
    BY <1>1, <2>1, <2>2, <2>4 DEF ReadingRight, n
<1>3. ASSUME NEW tool, NEW asked, Copy(tool, asked),
             \/ /\ bufKind = "http" /\ tool = "get_recent_requests" /\ asked.limit \in BufLimits
             \/ /\ bufKind = "log" /\ tool = "get_log_buffer"
                /\ \E limit \in BufLimits,
                      level \in AskedLevels, source \in {Unfiltered} \cup LogSources :
                      asked = [limit |-> limit, level |-> level, source |-> source]
      PROVE  ReadingRight'
  <2>1. /\ reading' = [tool |-> tool, asked |-> asked, seen |-> buffer, upTo |-> Len(recorded)]
        /\ UNCHANGED <<bufKind, recorded>>
    BY <1>3 DEF Copy
  <2>2. Len(recorded) \in 0..Len(recorded)
    BY <1>1
  <2>3. SubSeq(recorded, 1, Len(recorded)) = recorded
    BY <1>1, <2>2, SeenIs
  <2>4. reading'.seen = NewestOf(SubSeq(recorded, 1, reading'.upTo), BufferMax)
    BY <1>1, <2>1, <2>3
  <2>5. reading'.tool = tool /\ reading'.asked = asked /\ reading'.upTo = Len(recorded)
    BY <2>1
  <2> QED
    BY <1>3, <2>1, <2>2, <2>4, <2>5 DEF ReadingRight
<1>4. ASSUME UNCHANGED <<bufKind, recorded>>, UNCHANGED reading \/ reading' = Idle PROVE ReadingRight'
  BY <1>1, <1>4 DEF ReadingRight
<1>5. ASSUME NEW limit \in BufLimits, CopyRequests(limit) PROVE ReadingRight'
  <2>1. [limit |-> limit].limit \in BufLimits
    OBVIOUS
  <2> QED
    BY <1>3, <1>5, <2>1 DEF CopyRequests
<1>6. ASSUME NEW limit \in BufLimits, NEW level \in AskedLevels,
             NEW source \in {Unfiltered} \cup LogSources, CopyEntries(limit, level, source)
      PROVE  ReadingRight'
  BY <1>3, <1>6 DEF CopyEntries
<1>7. CASE Tell \/ TellPanics
  BY <1>4, <1>7 DEF Tell, TellPanics
<1>8. ASSUME NEW kind, NEW tool, NEW asked, NEW answer, TellAtOnce(kind, tool, asked, answer)
      PROVE  ReadingRight'
  BY <1>4, <1>8 DEF TellAtOnce
<1>9. CASE \/ \E limit \in BufLimits : TellErrors(limit)
           \/ \E threshold \in Thresholds : TellSlow(threshold)
           \/ TellErrorRequests \/ TellStats \/ TellErrorStats \/ TellPatterns
  BY <1>8, <1>9 DEF TellErrors, TellSlow, TellErrorRequests, TellStats, TellErrorStats, TellPatterns
<1>10. CASE UNCHANGED bufVars
  BY <1>4, <1>10 DEF bufVars
<1> QED
  BY <1>2, <1>5, <1>6, <1>7, <1>9, <1>10 DEF BufNext

\* Each tool's answer is right of what it saw.
LEMMA AnswerStep == AnswersInv /\ [BufNext]_bufVars => AnswersRight'
<1> SUFFICES ASSUME AnswersInv, [BufNext]_bufVars PROVE AnswersRight'
  OBVIOUS
<1>1. /\ recorded \in Seq(Recordable(bufKind)) /\ buffer = NewestOf(recorded, BufferMax)
      /\ buffer \in Seq(Recordable(bufKind)) /\ ReadingRight /\ AnswersRight
  BY DEF AnswersInv, BufferInv, BufTypeOK, NewestKept
<1>2. AnswersRight' <=> AnswerTells(told', NewestOf(SubSeq(recorded', 1, told'.upTo), BufferMax))
  BY DEF AnswersRight, AnswerTells, Seen
<1>3. ASSUME told' = Nothing PROVE AnswersRight'
  <2>1. told'.tool = "none"
    BY <1>3 DEF Nothing
  <2> QED
    BY <1>2, <2>1 DEF AnswerTells
<1>4. ASSUME NEW kind, NEW tool, NEW asked, NEW answer, TellAtOnce(kind, tool, asked, answer)
      PROVE  /\ bufKind = kind
             /\ told'.tool = tool /\ told'.asked = asked /\ told'.answer = answer
             /\ AnswersRight' <=> AnswerTells(told', buffer)
  <2>1. /\ bufKind = kind /\ recorded' = recorded
        /\ told' = [tool |-> tool, asked |-> asked, upTo |-> Len(recorded), answer |-> answer]
    BY <1>4 DEF TellAtOnce
  <2>2. Len(recorded) \in 0..Len(recorded)
    BY <1>1
  <2>3. SubSeq(recorded, 1, Len(recorded)) = recorded
    BY <1>1, <2>2, SeenIs
  <2>4. told'.upTo = Len(recorded) /\ told'.tool = tool /\ told'.asked = asked /\ told'.answer = answer
    BY <2>1
  <2>5. NewestOf(SubSeq(recorded', 1, told'.upTo), BufferMax) = buffer
    BY <1>1, <2>1, <2>3, <2>4
  <2> QED
    BY <1>2, <2>1, <2>4, <2>5
<1>5. ASSUME NEW threshold \in Thresholds, TellSlow(threshold) PROVE AnswersRight'
  <2>1. /\ bufKind = "http" /\ told'.tool = "get_slow_requests" /\ told'.asked = threshold
        /\ told'.answer = SlowRequests(buffer, threshold)
        /\ AnswersRight' <=> AnswerTells(told', buffer)
    BY <1>4, <1>5 DEF TellSlow
  <2>2. buffer \in Seq(HttpRecords)
    BY <1>1, <2>1 DEF Recordable
  <2>3. SlowTold(SlowRequests(buffer, threshold), buffer, threshold)
    BY <2>2, SlowIsTold
  <2> QED
    BY <2>1, <2>3 DEF AnswerTells
<1>6. ASSUME TellStats PROVE AnswersRight'
  <2>1. /\ bufKind = "http" /\ told'.tool = "get_request_stats"
        /\ told'.answer = (IF buffer = <<>> THEN NoRequests
                           ELSE IF StatsPanic(buffer) THEN Panicked ELSE RequestStats(buffer))
        /\ AnswersRight' <=> AnswerTells(told', buffer)
    BY <1>4, <1>6 DEF TellStats
  <2>2. buffer \in Seq(HttpRecords)
    BY <1>1, <2>1 DEF Recordable
  <2>3. LatencyTold(told'.answer, buffer)
    <3>1. CASE buffer = <<>>
      BY <2>1, <3>1 DEF LatencyTold
    <3>2. CASE buffer # <<>> /\ Len(buffer) = 1
      <4>1. StatsPanic(buffer)
        BY <3>2 DEF StatsPanic
      <4> QED
        BY <2>1, <3>2, <4>1 DEF LatencyTold
    <3>3. CASE Len(buffer) > 1
      <4>1. buffer # <<>>
        BY <3>3
      <4>2. /\ ~StatsPanic(buffer) /\ PercentilesTold(RequestStats(buffer).latency, buffer)
            /\ RequestStats(buffer).n = Len(buffer)
        BY <2>2, <3>3, PercentilesAreTold
      <4>3. told'.answer = RequestStats(buffer)
        BY <2>1, <4>1, <4>2
      <4> QED
        BY <4>1, <4>2, <4>3 DEF LatencyTold
    <3>4. buffer = <<>> \/ Len(buffer) = 1 \/ Len(buffer) > 1
      <4>1. Len(buffer) \in Nat /\ (Len(buffer) = 0 => buffer = <<>>)
        BY <2>2
      <4> QED
        BY <4>1
    <3> QED
      BY <3>1, <3>2, <3>3, <3>4
  <2> QED
    BY <2>1, <2>3 DEF AnswerTells
<1>7. ASSUME NEW limit \in BufLimits, TellErrors(limit) PROVE AnswersRight'
  <2>1. /\ told'.tool = "get_recent_errors" /\ told'.answer = RecentErrors(buffer, limit)
        /\ AnswersRight' <=> AnswerTells(told', buffer)
    BY <1>4, <1>7 DEF TellErrors
  <2>2. ErrorsTold(RecentErrors(buffer, limit), buffer)
    BY <1>1, ErrorsAreTold
  <2> QED
    BY <2>1, <2>2 DEF AnswerTells
<1>8. CASE TellErrorStats
  <2>1. /\ bufKind = "error" /\ told'.tool = "get_error_stats" /\ told'.answer = ErrorTypes(buffer)
        /\ AnswersRight' <=> AnswerTells(told', buffer)
    BY <1>4, <1>8 DEF TellErrorStats
  <2>2. TypesTold(ErrorTypes(buffer), buffer)
    BY <1>1, <2>1, TypesAreTold DEF Recordable
  <2> QED
    BY <2>1, <2>2 DEF AnswerTells
<1>9. CASE TellPatterns
  <2>1. /\ bufKind = "error" /\ told'.tool = "get_error_patterns"
        /\ told'.answer = ErrorPatterns(buffer)
        /\ AnswersRight' <=> AnswerTells(told', buffer)
    BY <1>4, <1>9 DEF TellPatterns
  <2>2. PatternsTold(ErrorPatterns(buffer), buffer)
    BY <1>1, <2>1, PatternsAreTold DEF Recordable
  <2> QED
    BY <2>1, <2>2 DEF AnswerTells
<1>10. CASE TellErrorRequests
  <2>1. told'.tool = "get_error_requests" /\ (AnswersRight' <=> AnswerTells(told', buffer))
    BY <1>4, <1>10 DEF TellErrorRequests
  <2> QED
    BY <2>1 DEF AnswerTells
<1>11. CASE Tell
  <2> DEFINE seen == NewestOf(SubSeq(recorded, 1, reading.upTo), BufferMax)
             limit == reading.asked.limit
  <2>1. /\ reading # Idle /\ recorded' = recorded
        /\ reading.tool = "get_recent_requests" => limit >= 0
        /\ told'.tool = reading.tool /\ told'.asked = reading.asked
        /\ told'.upTo = reading.upTo /\ told'.total = Len(buffer)
        /\ told'.answer = IF reading.tool = "get_recent_requests"
                           THEN RecentRequests(reading.seen, limit)
                           ELSE LogEntries(reading.seen, limit, reading.asked.level,
                                           reading.asked.source)
    BY <1>11 DEF Tell
  <2>2. reading.upTo \in 0..Len(recorded) /\ reading.seen = seen
    BY <1>1, <2>1 DEF ReadingRight
  <2>3. /\ seen \in Seq(Recordable(bufKind)) /\ Len(seen) <= BufferMax /\ Len(seen) <= Len(buffer)
    BY <1>1, <2>2, SeenIs
  <2>4. AnswersRight' <=> AnswerTells(told', seen)
    BY <1>2, <2>1
  <2> HIDE DEF seen
  <2>5. Len(seen) \in Nat /\ Len(buffer) \in Nat
    BY <1>1, <2>3
  <2>6. CASE bufKind = "http" /\ reading.tool = "get_recent_requests" /\ limit \in BufLimits
    <3> HIDE DEF limit
    <3>1. limit \in Nat
      <4>1. limit >= 0
        BY <2>1, <2>6
      <4>2. limit \in Int
        BY <2>6, ToolsAssumption DEF ToolsAssumption
      <4> QED
        BY <4>1, <4>2
    <3> DEFINE shown == RecentRequests(seen, limit)
    <3>2. RecentTold(shown, seen, limit) /\ Len(shown) <= Len(seen)
      BY <2>3, <3>1, RecentIsTold
    <3>3. Len(shown) \in Nat
      BY <2>5, <3>1, <3>2 DEF RecentTold
    <3>4. told'.answer = shown /\ told'.tool = "get_recent_requests" /\ told'.asked.limit = limit
      BY <2>1, <2>2, <2>6 DEF limit
    <3> HIDE DEF shown
    <3>5. told'.total >= Len(told'.answer)
      BY <2>1, <2>3, <2>5, <3>2, <3>3, <3>4
    <3> QED
      BY <2>4, <3>2, <3>4, <3>5 DEF AnswerTells
  <2>7. CASE /\ bufKind = "log" /\ reading.tool = "get_log_buffer"
             /\ \E l \in BufLimits,
                   level \in AskedLevels, source \in {Unfiltered} \cup LogSources :
                   reading.asked = [limit |-> l, level |-> level, source |-> source]
    <3>1. PICK l \in BufLimits,
               level \in AskedLevels, source \in {Unfiltered} \cup LogSources :
                  reading.asked = [limit |-> l, level |-> level, source |-> source]
      BY <2>7
    <3> DEFINE shown == LogEntries(seen, l, level, source)
               asked == [limit |-> l, level |-> level, source |-> source]
    <3>2. seen \in Seq(LogRecords)
      BY <2>3, <2>7 DEF Recordable
    <3>3. EntriesTold(shown, seen, asked) /\ Len(shown) <= Len(seen)
      BY <2>3, <3>2, EntriesAreTold
    <3>4. told'.answer = shown /\ told'.tool = "get_log_buffer" /\ told'.asked = asked
      BY <2>1, <2>2, <2>7, <3>1
    <3>5. told'.total >= Len(told'.answer)
      <4>1. Len(shown) \in Int
        BY <2>3, <3>2, EntriesAreTold
      <4> HIDE DEF shown
      <4> QED
        BY <2>1, <2>3, <2>5, <3>3, <3>4, <4>1
    <3> HIDE DEF shown, asked
    <3> QED
      BY <2>4, <3>3, <3>4, <3>5 DEF AnswerTells
  <2> QED
    BY <1>1, <2>1, <2>6, <2>7 DEF ReadingRight
<1>12. ASSUME NEW r, Record(r) PROVE AnswersRight'
  BY <1>3, <1>12 DEF Record
<1>13. ASSUME NEW limit, CopyRequests(limit) PROVE AnswersRight'
  BY <1>3, <1>13 DEF CopyRequests, Copy
<1>14. ASSUME NEW limit, NEW level, NEW source, CopyEntries(limit, level, source) PROVE AnswersRight'
  BY <1>3, <1>14 DEF CopyEntries, Copy
<1>15. CASE TellPanics
  BY <1>3, <1>15 DEF TellPanics
<1>16. CASE UNCHANGED bufVars
  <2>1. told' = told /\ recorded' = recorded
    BY <1>16 DEF bufVars
  <2>2. AnswersRight <=> AnswerTells(told, NewestOf(SubSeq(recorded, 1, told.upTo), BufferMax))
    BY DEF AnswersRight, AnswerTells, Seen
  <2> QED
    BY <1>1, <1>2, <2>1, <2>2
<1> QED
  BY <1>5, <1>6, <1>7, <1>8, <1>9, <1>10, <1>11, <1>12, <1>13, <1>14, <1>15, <1>16 DEF BufNext

\* What the tools on requests, errors and log entries answer follows from what
\* was recorded when they looked, for any records, limits and thresholds.
THEOREM AnswersTold == BufSpec => []AnswersRight
<1>1. AnswersInv => BufferInv /\ AnswersRight
  BY DEF AnswersInv
<1>2. AnswersInv /\ [BufNext]_bufVars => AnswersInv'
  BY StepKeepsBuffers, ReadingStep, AnswerStep DEF AnswersInv
<1> QED
  BY InitAnswers, <1>1, <1>2, PTL DEF BufSpec

HIDE BufferAssumption
HIDE ToolsAssumption

-----------------------------------------------------------------------------
(* Outbound calls.                                                         *)

\* Counting one more.
LEMMA OneMore ==
    ASSUME NEW counts, Numbers(counts), NEW k
    PROVE  /\ Numbers(Put(counts, k, One(counts, k)))
           /\ Total(Put(counts, k, One(counts, k))) = Total(counts) + 1
<1> DEFINE v == One(counts, k)
           new == Put(counts, k, v)
<1>1. v = At(counts, k) + 1 /\ v \in Nat
  BY DEF One, At, Numbers
<1> HIDE DEF v
<1>2. /\ DOMAIN new = DOMAIN counts \cup {k} /\ new[k] = v
      /\ \A x \in (DOMAIN counts) \ {k} : new[x] = counts[x]
  BY DEF Put
<1> HIDE DEF new
<1>3. IsFiniteSet(DOMAIN new)
  BY <1>2, FS_AddElement DEF Numbers
<1>4. Numbers(new)
  BY <1>1, <1>2, <1>3 DEF Numbers
<1>5. At(new, k) = v
  BY <1>2 DEF At
<1>6. Total(new) = Total(counts) - At(counts, k) + At(new, k) /\ At(counts, k) \in 0..Total(counts)
  <2>1. (DOMAIN new) \ {k} = (DOMAIN counts) \ {k}
    BY <1>2
  <2> QED
    BY <1>2, <1>4, <2>1, TotalChanges
<1>7. Total(counts) \in Nat
  BY TotalIsNumber
<1> QED
  BY <1>1, <1>4, <1>5, <1>6, <1>7 DEF new, v

OutCall == [at : {"inner", "counts"}, host : Hosts, left : Nat, sure : BOOLEAN,
            outcome : Outcomes \cup {"none"}]

OutTyped ==
    /\ transport \in Nat
    /\ registering \in [Registrars -> [at : {"start", "wrap", "name", "done"}, read : Nat,
                                       fresh : BOOLEAN]]
    /\ calls \in [Callers -> {NoCall} \cup OutCall]
    /\ begun \in Nat /\ sure \in Nat /\ wrapped \in BOOLEAN

\* A registrar wraps what it read without a layer, and leaves one; a call that
\* is sure to be tracked has one to go, and no call has more unless the
\* application has wrapped a transport.
LayersTold ==
    /\ \A r \in Registrars :
          /\ registering[r].at = "wrap" => registering[r].read = 0
          /\ registering[r].at \in {"name", "done"} /\ registering[r].fresh => transport > 0
    /\ ~wrapped => transport <= 1
    /\ \A c \in Callers : calls[c] # NoCall =>
          /\ calls[c].at = "counts" => calls[c].left > 0 /\ calls[c].outcome \in Outcomes
          /\ calls[c].sure => calls[c].left > 0
          /\ ~wrapped => calls[c].left <= 1

InFlight == {c \in Callers : calls[c] # NoCall}

\* A call on its way is not counted yet.
CallsTold ==
    /\ sure <= outbound.totalCalls
    /\ ~wrapped => outbound.totalCalls + Cardinality(InFlight) <= begun

StatsTold ==
    /\ outbound.totalCalls \in Nat /\ outbound.totalErrors \in Nat
    /\ Numbers(outbound.perHost) /\ Numbers(outbound.statusCodes)
    /\ CountersAdd

SummaryTold ==
    /\ summary.at = "summarized" =>
          /\ DOMAIN summary = {"at", "total", "errors", "codes"}
          /\ summary.total \in Nat /\ summary.errors \in Nat
          /\ Total(outbound.statusCodes) + summary.errors >= summary.total
    /\ SummaryTells

OutInv == OutTyped /\ LayersTold /\ CallsTold /\ StatsTold /\ SummaryTold

LEMMA CallOrNone ==
    \A b \in {NoCall} \cup OutCall : /\ b.at \in {"none", "inner", "counts"}
                                     /\ b.at = "none" <=> b = NoCall
                                     /\ b # NoCall => b \in OutCall
  BY DEF NoCall, OutCall

LEMMA InitOut == OutInit => OutInv
<1> SUFFICES ASSUME OutInit PROVE OutInv
  OBVIOUS
<1>1. OutTyped
  BY DEF OutInit, OutTyped
<1>2. LayersTold
  BY DEF OutInit, LayersTold
<1>3. InFlight = {}
  BY DEF OutInit, InFlight
<1>4. CallsTold
  BY <1>3, FS_EmptySet DEF OutInit, CallsTold
<1>5. /\ outbound.totalCalls = 0 /\ outbound.totalErrors = 0
      /\ DOMAIN outbound.perHost = {} /\ DOMAIN outbound.statusCodes = {}
  BY DEF OutInit
<1>6. StatsTold
  <2>1. /\ Numbers(outbound.perHost) /\ Numbers(outbound.statusCodes)
        /\ Total(outbound.perHost) = 0 /\ Total(outbound.statusCodes) = 0
    BY <1>5, NothingCounted
  <2> QED
    BY <1>5, <2>1 DEF StatsTold, CountersAdd
<1>7. SummaryTold
  BY DEF OutInit, NoAnswer, SummaryTold, SummaryTells
<1> QED
  BY <1>1, <1>2, <1>4, <1>6, <1>7 DEF OutInv

\* The layers around the transport and those that the calls have to go.
LEMMA LayersStep == OutInv /\ [OutNext]_outVars => OutTyped' /\ LayersTold'
<1> SUFFICES ASSUME OutTyped, LayersTold, [OutNext]_outVars PROVE OutTyped' /\ LayersTold'
  BY DEF OutInv
<1>0. \A r \in Registrars : /\ registering[r] \in [at : {"start", "wrap", "name", "done"},
                                                   read : Nat, fresh : BOOLEAN]
                            /\ registering[r].read \in Nat /\ registering[r].fresh \in BOOLEAN
  BY DEF OutTyped
<1>1. ASSUME NEW r \in Registrars, ReadTransport(r) PROVE OutTyped' /\ LayersTold'
  BY <1>1, <1>0 DEF ReadTransport, OutTyped, LayersTold
<1>2. ASSUME NEW r \in Registrars, SetTransport(r) PROVE OutTyped' /\ LayersTold'
  BY <1>2, <1>0 DEF SetTransport, WrappedBy, OutTyped, LayersTold
<1>3. ASSUME NEW r \in Registrars, NameClient(r) PROVE OutTyped' /\ LayersTold'
  BY <1>3, <1>0 DEF NameClient, OutTyped, LayersTold
<1>4. CASE AppSetsTransport
  <2>1. \A r \in Registrars :
           /\ registering'[r] = [registering[r] EXCEPT !.fresh = FALSE]
           /\ registering'[r] \in [at : {"start", "wrap", "name", "done"}, read : Nat,
                                   fresh : BOOLEAN]
           /\ registering'[r].at = registering[r].at /\ registering'[r].read = registering[r].read
           /\ ~registering'[r].fresh
    BY <1>4, <1>0 DEF AppSetsTransport
  <2>2. registering' \in [Registrars -> [at : {"start", "wrap", "name", "done"}, read : Nat,
                                         fresh : BOOLEAN]]
    BY <1>4, <2>1 DEF AppSetsTransport
  <2>3. OutTyped'
    BY <1>4, <2>2 DEF AppSetsTransport, OutTyped
  <2> QED
    BY <1>4, <2>1, <2>3 DEF AppSetsTransport, LayersTold
<1>5. CASE WrapHttpClientTransport
  BY <1>5, <1>0 DEF WrapHttpClientTransport, OutTyped, LayersTold
<1>6. ASSUME NEW c \in Callers, NEW h \in Hosts, BeginCall(c, h) PROVE OutTyped' /\ LayersTold'
  <2> DEFINE call == [at |-> "inner", host |-> h, left |-> transport, sure |-> Tracked,
                      outcome |-> "none"]
  <2>1. Tracked \in BOOLEAN /\ (Tracked => transport > 0)
    BY DEF Tracked, LayersTold
  <2>2. call \in OutCall /\ call # NoCall
    BY <2>1 DEF OutTyped, OutCall, NoCall
  <2>3. calls' = [calls EXCEPT ![c] = call]
    BY <1>6 DEF BeginCall
  <2>4. /\ call.at = "inner" /\ (call.sure => call.left > 0)
        /\ ~wrapped => call.left <= 1
    BY <2>1 DEF LayersTold
  <2> HIDE DEF call
  <2>5. OutTyped'
    BY <1>6, <2>2, <2>3 DEF BeginCall, OutTyped
  <2> QED
    BY <1>6, <2>3, <2>4, <2>5 DEF BeginCall, LayersTold, OutTyped
<1>7. ASSUME NEW c \in Callers, NEW answer \in Outcomes, InnerReturns(c, answer)
      PROVE  OutTyped' /\ LayersTold'
  <2>0. calls[c] \in OutCall /\ calls[c] # NoCall
    BY <1>7, CallOrNone DEF InnerReturns, OutTyped
  <2>1. CASE calls[c].left = 0
    BY <1>7, <2>1, <2>0 DEF InnerReturns, Done, OutTyped, LayersTold
  <2>2. CASE calls[c].left # 0
    <3> DEFINE call == [calls[c] EXCEPT !.at = "counts", !.outcome = answer]
    <3>0. calls[c].left \in Nat /\ calls[c].left > 0
      BY <2>0, <2>2 DEF OutCall
    <3>1. call \in OutCall /\ call.at = "counts" /\ call.outcome = answer
          /\ call.left = calls[c].left /\ call.sure = calls[c].sure
      BY <2>0 DEF OutCall
    <3>2. calls' = [calls EXCEPT ![c] = call] /\ UNCHANGED sure
      BY <1>7, <2>2 DEF InnerReturns
    <3> HIDE DEF call
    <3>3. OutTyped'
      BY <1>7, <3>1, <3>2 DEF InnerReturns, OutTyped
    <3> QED
      BY <1>7, <2>0, <3>0, <3>1, <3>2, <3>3 DEF InnerReturns, LayersTold, OutTyped
  <2> QED
    BY <2>1, <2>2
<1>8. ASSUME NEW c \in Callers, CountCall(c) PROVE OutTyped' /\ LayersTold'
  <2>0. calls[c] \in OutCall /\ calls[c] # NoCall
    BY <1>8, CallOrNone DEF CountCall, OutTyped
  <2>1. CASE calls[c].left = 1
    BY <1>8, <2>1, <2>0 DEF CountCall, Done, OutTyped, LayersTold
  <2>2. CASE calls[c].left # 1
    <3> DEFINE call == [calls[c] EXCEPT !.left = calls[c].left - 1]
    <3>0. calls[c].left \in Nat /\ calls[c].left > 0 /\ calls[c].at = "counts"
          /\ calls[c].outcome \in Outcomes
      BY <1>8, <2>0 DEF OutCall, LayersTold, CountCall
    <3>1. call \in OutCall /\ call.at = "counts" /\ call.outcome = calls[c].outcome
          /\ call.left = calls[c].left - 1 /\ call.sure = calls[c].sure /\ call.left > 0
      BY <2>0, <2>2, <3>0 DEF OutCall
    <3>2. calls' = [calls EXCEPT ![c] = call] /\ UNCHANGED sure
      BY <1>8, <2>2 DEF CountCall
    <3> HIDE DEF call
    <3>3. OutTyped'
      BY <1>8, <3>1, <3>2 DEF CountCall, OutTyped
    <3> QED
      BY <1>8, <2>0, <3>0, <3>1, <3>2, <3>3 DEF CountCall, LayersTold, OutTyped
  <2> QED
    BY <2>1, <2>2
<1>9. CASE Summarize \/ Encode
  BY <1>9 DEF Summarize, Encode, OutTyped, LayersTold
<1>10. CASE UNCHANGED outVars
  BY <1>10 DEF outVars, OutTyped, LayersTold
<1> QED
  BY <1>1, <1>2, <1>3, <1>4, <1>5, <1>6, <1>7, <1>8, <1>9, <1>10 DEF OutNext

\* The calls on their way: one more begins, one is counted for the last time,
\* or goes uncounted, or goes on.
LEMMA FlightBegins ==
    ASSUME IsFiniteSet(Callers), calls \in [Callers -> {NoCall} \cup OutCall],
           NEW c \in Callers, NEW call, call # NoCall, calls' = [calls EXCEPT ![c] = call]
    PROVE  /\ Cardinality(InFlight) \in Nat
           /\ calls[c] = NoCall => Cardinality(InFlight') = Cardinality(InFlight) + 1
           /\ calls[c] # NoCall => InFlight' = InFlight
<1>1. IsFiniteSet(InFlight)
  BY FS_Subset DEF InFlight
<1>2. InFlight' = InFlight \cup {c}
  BY DEF InFlight
<1>3. calls[c] = NoCall <=> c \notin InFlight
  BY DEF InFlight
<1> QED
  BY <1>1, <1>2, <1>3, FS_AddElement, FS_CardinalityType

LEMMA FlightEnds ==
    ASSUME IsFiniteSet(Callers), calls \in [Callers -> {NoCall} \cup OutCall],
           NEW c \in Callers, calls[c] # NoCall, calls' = [calls EXCEPT ![c] = NoCall]
    PROVE  /\ Cardinality(InFlight) \in Nat
           /\ Cardinality(InFlight') = Cardinality(InFlight) - 1
<1>1. IsFiniteSet(InFlight)
  BY FS_Subset DEF InFlight
<1>2. InFlight' = InFlight \ {c} /\ c \in InFlight
  BY DEF InFlight
<1> QED
  BY <1>1, <1>2, FS_RemoveElement, FS_CardinalityType

LEMMA CallsStep == OutInv /\ [OutNext]_outVars => CallsTold'
<1> SUFFICES ASSUME OutInv, [OutNext]_outVars PROVE CallsTold'
  OBVIOUS
<1>0. /\ OutTyped /\ CallsTold /\ outbound.totalCalls \in Nat /\ begun \in Nat /\ sure \in Nat
      /\ wrapped \in BOOLEAN /\ calls \in [Callers -> {NoCall} \cup OutCall]
  BY DEF OutInv, OutTyped, StatsTold
<1>1. ASSUME NEW c \in Callers, NEW h \in Hosts, BeginCall(c, h) PROVE CallsTold'
  <2> DEFINE call == [at |-> "inner", host |-> h, left |-> transport, sure |-> Tracked,
                      outcome |-> "none"]
  <2>1. call # NoCall /\ calls' = [calls EXCEPT ![c] = call] /\ calls[c] = NoCall
    BY <1>1 DEF BeginCall, NoCall
  <2> HIDE DEF call
  <2>2. Cardinality(InFlight) \in Nat /\ Cardinality(InFlight') = Cardinality(InFlight) + 1
    BY <1>0, <2>1, FlightBegins, CallersAssumption
  <2> QED
    BY <1>0, <1>1, <2>2 DEF BeginCall, CallsTold
<1>2. ASSUME NEW c \in Callers, NEW answer \in Outcomes, InnerReturns(c, answer)
      PROVE  CallsTold'
  <2>0. calls[c] \in OutCall /\ calls[c] # NoCall /\ calls[c].left \in Nat
    <3>1. calls[c] \in OutCall /\ calls[c] # NoCall
      BY <1>0, <1>2, CallOrNone DEF InnerReturns
    <3> QED
      BY <3>1 DEF OutCall
  <2>1. CASE calls[c].left = 0
    <3>1. ~calls[c].sure
      BY <2>0, <2>1 DEF OutInv, LayersTold
    <3>2. calls' = [calls EXCEPT ![c] = NoCall] /\ sure' = sure
      BY <1>2, <2>1, <3>1 DEF InnerReturns, Done
    <3>3. Cardinality(InFlight) \in Nat /\ Cardinality(InFlight') = Cardinality(InFlight) - 1
      BY <1>0, <2>0, <3>2, FlightEnds, CallersAssumption
    <3> QED
      BY <1>0, <1>2, <3>2, <3>3 DEF InnerReturns, CallsTold
  <2>2. CASE calls[c].left # 0
    <3> DEFINE call == [calls[c] EXCEPT !.at = "counts", !.outcome = answer]
    <3>1. call.at = "counts" /\ call # NoCall
      BY <2>0 DEF OutCall, NoCall
    <3>2. calls' = [calls EXCEPT ![c] = call] /\ UNCHANGED sure
      BY <1>2, <2>2 DEF InnerReturns
    <3> HIDE DEF call
    <3>3. InFlight' = InFlight
      BY <1>0, <2>0, <3>1, <3>2, FlightBegins, CallersAssumption
    <3> QED
      BY <1>0, <1>2, <3>2, <3>3 DEF InnerReturns, CallsTold
  <2> QED
    BY <2>1, <2>2
<1>3. ASSUME NEW c \in Callers, CountCall(c) PROVE CallsTold'
  <2>0. calls[c] \in OutCall /\ calls[c] # NoCall /\ calls[c].left \in Nat /\ calls[c].left > 0
        /\ (~wrapped => calls[c].left <= 1)
    <3>1. calls[c] \in OutCall /\ calls[c] # NoCall
      BY <1>0, <1>3, CallOrNone DEF CountCall
    <3>2. calls[c].left \in Nat
      BY <3>1 DEF OutCall
    <3>3. LayersTold
      BY DEF OutInv
    <3> QED
      BY <1>3, <3>1, <3>2, <3>3 DEF LayersTold, CountCall
  <2>1. outbound'.totalCalls = outbound.totalCalls + 1
    BY <1>3 DEF CountCall
  <2>2. CASE calls[c].left = 1
    <3>1. calls' = [calls EXCEPT ![c] = NoCall] /\ sure' \in {sure, sure + 1}
      BY <1>3, <2>2 DEF CountCall, Done
    <3>2. Cardinality(InFlight) \in Nat /\ Cardinality(InFlight') = Cardinality(InFlight) - 1
      BY <1>0, <2>0, <3>1, FlightEnds, CallersAssumption
    <3> QED
      BY <1>0, <1>3, <2>1, <3>1, <3>2 DEF CountCall, CallsTold
  <2>3. CASE calls[c].left # 1
    <3>1. wrapped /\ wrapped' = wrapped /\ sure' = sure
      BY <1>0, <1>3, <2>0, <2>3 DEF CountCall
    <3> QED
      BY <1>0, <2>1, <3>1 DEF CallsTold
  <2> QED
    BY <2>2, <2>3
<1>4. ASSUME UNCHANGED <<calls, outbound, begun, sure>>, ~wrapped' => ~wrapped PROVE CallsTold'
  BY <1>0, <1>4 DEF CallsTold, InFlight
<1>5. ASSUME NEW r \in Registrars, ReadTransport(r) \/ SetTransport(r) \/ NameClient(r)
      PROVE  CallsTold'
  BY <1>4, <1>5 DEF ReadTransport, SetTransport, NameClient
<1>6. CASE AppSetsTransport \/ WrapHttpClientTransport \/ Summarize \/ Encode \/ UNCHANGED outVars
  BY <1>4, <1>6 DEF AppSetsTransport, WrapHttpClientTransport, Summarize, Encode, outVars
<1> QED
  BY <1>1, <1>2, <1>3, <1>5, <1>6 DEF OutNext

\* Counting a call keeps the sums equal and never takes a status back.
LEMMA StatsStep ==
    OutInv /\ [OutNext]_outVars =>
       StatsTold' /\ Total(outbound'.statusCodes) >= Total(outbound.statusCodes)
<1> SUFFICES ASSUME OutInv, [OutNext]_outVars
             PROVE  StatsTold' /\ Total(outbound'.statusCodes) >= Total(outbound.statusCodes)
  OBVIOUS
<1>0. /\ StatsTold /\ Total(outbound.statusCodes) \in Nat /\ Total(outbound.perHost) \in Nat
      /\ outbound.totalCalls \in Nat /\ outbound.totalErrors \in Nat
  BY TotalIsNumber DEF OutInv, StatsTold
<1>1. CASE UNCHANGED outbound
  BY <1>0, <1>1 DEF StatsTold, CountersAdd
<1>2. ASSUME NEW c \in Callers, CountCall(c)
      PROVE  StatsTold' /\ Total(outbound'.statusCodes) >= Total(outbound.statusCodes)
  <2> DEFINE hosts == Put(outbound.perHost, calls[c].host, One(outbound.perHost, calls[c].host))
             codes == Put(outbound.statusCodes, calls[c].outcome,
                          One(outbound.statusCodes, calls[c].outcome))
             failed == calls[c].outcome = "error"
  <2>1. Numbers(hosts) /\ Total(hosts) = Total(outbound.perHost) + 1
    BY <1>0, OneMore DEF StatsTold
  <2>2. Numbers(codes) /\ Total(codes) = Total(outbound.statusCodes) + 1
    BY <1>0, OneMore DEF StatsTold
  <2>3. /\ outbound'.totalCalls = outbound.totalCalls + 1
        /\ outbound'.totalErrors = outbound.totalErrors + (IF failed THEN 1 ELSE 0)
        /\ outbound'.perHost = hosts
        /\ outbound'.statusCodes = IF failed THEN outbound.statusCodes ELSE codes
    BY <1>2 DEF CountCall, HostCount
  <2> HIDE DEF hosts, codes, failed
  <2>4. CASE failed
    BY <1>0, <2>1, <2>3, <2>4 DEF StatsTold, CountersAdd
  <2>5. CASE ~failed
    BY <1>0, <2>1, <2>2, <2>3, <2>5 DEF StatsTold, CountersAdd
  <2> QED
    BY <2>4, <2>5
<1>3. ASSUME NEW r \in Registrars, ReadTransport(r) \/ SetTransport(r) \/ NameClient(r)
      PROVE  UNCHANGED outbound
  BY <1>3 DEF ReadTransport, SetTransport, NameClient
<1>4. ASSUME NEW c \in Callers,
             \/ \E h \in Hosts : BeginCall(c, h)
             \/ \E answer \in Outcomes : InnerReturns(c, answer)
      PROVE  UNCHANGED outbound
  BY <1>4 DEF BeginCall, InnerReturns
<1>5. CASE AppSetsTransport \/ WrapHttpClientTransport \/ Summarize \/ Encode \/ UNCHANGED outVars
  BY <1>1, <1>5 DEF AppSetsTransport, WrapHttpClientTransport, Summarize, Encode, outVars
<1> QED
  BY <1>1, <1>2, <1>3, <1>4, <1>5 DEF OutNext

LEMMA SummaryStep == OutInv /\ [OutNext]_outVars => SummaryTold'
<1> SUFFICES ASSUME OutInv, [OutNext]_outVars PROVE SummaryTold'
  OBVIOUS
<1>0. /\ SummaryTold /\ StatsTold /\ StatsTold'
      /\ Total(outbound'.statusCodes) >= Total(outbound.statusCodes)
      /\ Total(outbound.statusCodes) \in Nat /\ Total(outbound'.statusCodes) \in Nat
  <2>1. StatsTold' /\ Total(outbound'.statusCodes) >= Total(outbound.statusCodes)
    BY StatsStep
  <2>2. Numbers(outbound.statusCodes) /\ Numbers(outbound'.statusCodes)
    BY <2>1 DEF OutInv, StatsTold
  <2> QED
    BY <2>1, <2>2, TotalIsNumber DEF OutInv
<1>1. CASE UNCHANGED summary
  BY <1>0, <1>1 DEF SummaryTold, SummaryTells
<1>2. CASE Summarize
  <2>1. summary' = [at |-> "summarized", total |-> outbound.totalCalls,
                    errors |-> outbound.totalErrors, codes |-> <<>>]
        /\ outbound' = outbound
    BY <1>2 DEF Summarize
  <2>2. /\ summary'.at = "summarized" /\ summary'.total = outbound.totalCalls
        /\ summary'.errors = outbound.totalErrors
        /\ DOMAIN summary' = {"at", "total", "errors", "codes"}
    BY <2>1
  <2>3. /\ outbound.totalCalls \in Nat /\ outbound.totalErrors \in Nat
        /\ Total(outbound.statusCodes) + outbound.totalErrors = outbound.totalCalls
    BY <1>0 DEF StatsTold, CountersAdd
  <2> QED
    BY <1>0, <2>1, <2>2, <2>3 DEF SummaryTold, SummaryTells
<1>3. CASE Encode
  <2>1. summary.at = "summarized" /\ DOMAIN summary = {"at", "total", "errors", "codes"}
        /\ Total(outbound.statusCodes) + summary.errors >= summary.total
    BY <1>0, <1>3 DEF Encode, SummaryTold
  <2>2. /\ summary'.at = "encoded" /\ summary'.codes = outbound.statusCodes
        /\ summary'.total = summary.total /\ summary'.errors = summary.errors
    BY <1>3, <2>1 DEF Encode
  <2> QED
    BY <2>1, <2>2 DEF SummaryTold, SummaryTells
<1>4. ASSUME NEW r \in Registrars, ReadTransport(r) \/ SetTransport(r) \/ NameClient(r)
      PROVE  UNCHANGED summary
  BY <1>4 DEF ReadTransport, SetTransport, NameClient
<1>5. ASSUME NEW c \in Callers,
             \/ \E h \in Hosts : BeginCall(c, h)
             \/ \E answer \in Outcomes : InnerReturns(c, answer)
             \/ CountCall(c)
      PROVE  UNCHANGED summary
  BY <1>5 DEF BeginCall, InnerReturns, CountCall
<1>6. CASE AppSetsTransport \/ WrapHttpClientTransport \/ UNCHANGED outVars
  BY <1>1, <1>6 DEF AppSetsTransport, WrapHttpClientTransport, outVars
<1> QED
  BY <1>1, <1>2, <1>3, <1>4, <1>5, <1>6 DEF OutNext

\* A call that is not done is not counted, so no more are counted than begun.
LEMMA OutTold == OutInv => OutboundRight
<1> SUFFICES ASSUME OutInv PROVE OutboundRight
  OBVIOUS
<1>1. Tracked => InspectTransport(transport).tracked
  BY DEF OutInv, LayersTold, Tracked, InspectTransport
<1>2. Cardinality(InFlight) \in Nat
  BY FS_Subset, FS_CardinalityType, CallersAssumption DEF InFlight
<1>3. outbound.totalCalls \in Nat /\ transport \in Nat /\ begun \in Nat
  BY DEF OutInv, StatsTold, OutTyped
<1>4. ~wrapped => outbound.totalCalls <= begun /\ InspectTransport(transport).config
  <2> SUFFICES ASSUME ~wrapped
               PROVE  outbound.totalCalls <= begun /\ InspectTransport(transport).config
    OBVIOUS
  <2>1. outbound.totalCalls + Cardinality(InFlight) <= begun /\ transport <= 1
    BY DEF OutInv, CallsTold, LayersTold
  <2>2. transport < 2
    BY <1>3, <2>1
  <2>3. InspectTransport(transport).config
    BY <2>2 DEF InspectTransport
  <2>4. outbound.totalCalls <= begun
    BY <1>2, <1>3, <2>1
  <2> QED
    BY <2>3, <2>4
<1>5. CountedOnce
  BY <1>1, <1>4 DEF OutInv, CallsTold, CountedOnce
<1> QED
  BY <1>5 DEF OutInv, StatsTold, SummaryTold, OutboundRight

\* For any number of registrars, callers and hosts: a registered client is
\* tracked and counts each call once until the application wraps a transport
\* itself, the counters of httpClientTransport agree, and a summary's status
\* codes account for no fewer calls than its total.
THEOREM OutboundTold == OutSpec => []OutboundRight
<1>1. OutInv /\ [OutNext]_outVars => OutInv'
  BY LayersStep, CallsStep, StatsStep, SummaryStep DEF OutInv
<1> QED
  BY InitOut, <1>1, OutTold, PTL DEF OutSpec

\* A call that is done was begun, and is no longer on its way: no more have been
\* tracked for sure than are done, however often the transport was wrapped.
CallsBounded ==
    /\ begun \in 0..MaxCalls /\ sure + Cardinality(InFlight) <= begun
    /\ changes \in 0..MaxChanges
    /\ clients \subseteq Registrars
    /\ DOMAIN outbound.perHost \subseteq Hosts
    /\ DOMAIN outbound.statusCodes \subseteq Outcomes

LEMMA CallsBoundedStep == OutInv /\ CallsBounded /\ [OutNext]_outVars => CallsBounded'
<1> SUFFICES ASSUME OutTyped, LayersTold, CallsBounded, [OutNext]_outVars PROVE CallsBounded'
  BY DEF OutInv
<1>0. /\ calls \in [Callers -> {NoCall} \cup OutCall] /\ begun \in Nat /\ sure \in Nat
      /\ MaxCalls \in Nat /\ MaxChanges \in Nat /\ IsFiniteSet(Callers)
      /\ Cardinality(InFlight) \in Nat
  <2>1. IsFiniteSet(InFlight)
    BY CallersAssumption, FS_Subset DEF InFlight
  <2> QED
    BY <2>1, CallersAssumption, FS_CardinalityType DEF OutTyped
<1>1. ASSUME UNCHANGED <<calls, begun, sure, outbound>>, changes' \in 0..MaxChanges,
             clients' \subseteq Registrars
      PROVE  CallsBounded'
  BY <1>1 DEF CallsBounded, InFlight
<1>2. ASSUME NEW r \in Registrars, ReadTransport(r) \/ SetTransport(r) \/ NameClient(r)
      PROVE  CallsBounded'
  BY <1>1, <1>2 DEF ReadTransport, SetTransport, NameClient, CallsBounded
<1>3. CASE AppSetsTransport \/ WrapHttpClientTransport
  <2>1. changes' \in 0..MaxChanges
    BY <1>0, <1>3 DEF AppSetsTransport, WrapHttpClientTransport, CallsBounded
  <2> QED
    BY <1>1, <1>3, <2>1 DEF AppSetsTransport, WrapHttpClientTransport, CallsBounded
<1>4. ASSUME NEW c \in Callers, NEW h \in Hosts, BeginCall(c, h) PROVE CallsBounded'
  <2> DEFINE call == [at |-> "inner", host |-> h, left |-> transport, sure |-> Tracked,
                      outcome |-> "none"]
  <2>1. /\ calls[c] = NoCall /\ calls' = [calls EXCEPT ![c] = call]
        /\ begun < MaxCalls /\ begun' = begun + 1
        /\ UNCHANGED <<clients, outbound, changes, sure>>
    BY <1>4 DEF BeginCall
  <2>2. call # NoCall
    BY DEF NoCall
  <2> HIDE DEF call
  <2>3. Cardinality(InFlight') = Cardinality(InFlight) + 1
    BY <1>0, <2>1, <2>2, FlightBegins
  <2>4. begun' \in 0..MaxCalls /\ sure' + Cardinality(InFlight') <= begun'
    BY <1>0, <2>1, <2>3 DEF CallsBounded
  <2> QED
    BY <2>1, <2>4 DEF CallsBounded
\* A call on its way goes on or is done.
<1>5. ASSUME NEW c \in Callers, calls[c] # NoCall, UNCHANGED <<clients, changes, begun>>,
             \/ Done(c)
             \/ /\ sure' = sure
                /\ \E call : call # NoCall /\ calls' = [calls EXCEPT ![c] = call]
      PROVE  sure' + Cardinality(InFlight') <= begun'
  <2>1. CASE Done(c)
    <3>1. calls' = [calls EXCEPT ![c] = NoCall] /\ (sure' = sure \/ sure' = sure + 1)
      BY <2>1 DEF Done
    <3>2. Cardinality(InFlight') = Cardinality(InFlight) - 1
      BY <1>0, <1>5, <3>1, FlightEnds
    <3> QED
      BY <1>0, <1>5, <3>1, <3>2 DEF CallsBounded
  <2>2. ASSUME NEW call, call # NoCall, calls' = [calls EXCEPT ![c] = call], sure' = sure
        PROVE  sure' + Cardinality(InFlight') <= begun'
    <3>1. InFlight' = InFlight
      BY <1>0, <1>5, <2>2, FlightBegins
    <3> QED
      BY <1>5, <2>2, <3>1 DEF CallsBounded
  <2> QED
    BY <1>5, <2>1, <2>2
<1>6. ASSUME NEW c \in Callers, NEW answer \in Outcomes, InnerReturns(c, answer)
      PROVE  CallsBounded'
  <2>1. calls[c] # NoCall /\ calls[c] \in OutCall
    BY <1>6, CallOrNone DEF InnerReturns, OutTyped
  <2>2. UNCHANGED <<clients, changes, begun, outbound>>
    BY <1>6 DEF InnerReturns
  <2>3. \/ Done(c)
        \/ /\ sure' = sure
           /\ \E call : call # NoCall /\ calls' = [calls EXCEPT ![c] = call]
    <3> DEFINE call == [calls[c] EXCEPT !.at = "counts", !.outcome = answer]
    <3>1. call # NoCall
      BY <2>1 DEF OutCall, NoCall
    <3>2. Done(c) \/ (sure' = sure /\ calls' = [calls EXCEPT ![c] = call])
      BY <1>6 DEF InnerReturns
    <3> HIDE DEF call
    <3> QED
      BY <3>1, <3>2
  <2>4. sure' + Cardinality(InFlight') <= begun'
    BY <1>5, <2>1, <2>2, <2>3
  <2> QED
    BY <2>2, <2>4 DEF CallsBounded
<1>7. ASSUME NEW c \in Callers, CountCall(c) PROVE CallsBounded'
  <2>1. calls[c] # NoCall /\ calls[c] \in OutCall
    BY <1>7, CallOrNone DEF CountCall, OutTyped
  <2>2. UNCHANGED <<clients, changes, begun>>
    BY <1>7 DEF CountCall
  <2>3. \/ Done(c)
        \/ /\ sure' = sure
           /\ \E call : call # NoCall /\ calls' = [calls EXCEPT ![c] = call]
    <3> DEFINE call == [calls[c] EXCEPT !.left = calls[c].left - 1]
    <3>1. call # NoCall
      BY <2>1 DEF OutCall, NoCall
    <3>2. Done(c) \/ (sure' = sure /\ calls' = [calls EXCEPT ![c] = call])
      BY <1>7 DEF CountCall
    <3> HIDE DEF call
    <3> QED
      BY <3>1, <3>2
  <2>4. sure' + Cardinality(InFlight') <= begun'
    BY <1>5, <2>1, <2>2, <2>3
  <2>5. calls[c].host \in Hosts /\ (calls[c].outcome # "error" => calls[c].outcome \in Outcomes)
    BY <1>7, <2>1 DEF CountCall, OutCall, LayersTold
  <2>6. /\ DOMAIN outbound'.perHost \subseteq Hosts
        /\ DOMAIN outbound'.statusCodes \subseteq Outcomes
    BY <1>7, <2>5 DEF CountCall, CallsBounded, HostCount, Put
  <2> QED
    BY <2>2, <2>4, <2>6 DEF CallsBounded
<1>8. CASE Summarize \/ Encode
  BY <1>1, <1>8 DEF Summarize, Encode, CallsBounded
<1>9. CASE UNCHANGED outVars
  BY <1>1, <1>9 DEF outVars, CallsBounded
<1> QED
  BY <1>2, <1>3, <1>4, <1>6, <1>7, <1>8, <1>9 DEF OutNext

\* The types of the registrations, the calls and the statistics.
LEMMA OutTypesKept == OutSpec => []OutTypeOK
<1>1. OutInit => CallsBounded
  <2> SUFFICES ASSUME OutInit PROVE CallsBounded
    OBVIOUS
  <2>1. InFlight = {}
    BY DEF OutInit, InFlight
  <2>2. Cardinality(InFlight) = 0
    BY <2>1, FS_EmptySet
  <2> QED
    BY <2>2, CallersAssumption DEF OutInit, CallsBounded
<1>2. OutInv /\ [OutNext]_outVars => OutInv'
  BY LayersStep, CallsStep, StatsStep, SummaryStep DEF OutInv
<1>3. OutInv /\ CallsBounded => OutTypeOK
  <2> SUFFICES ASSUME OutInv, CallsBounded PROVE OutTypeOK
    OBVIOUS
  <2>1. \A c \in Callers : calls[c].at \in {"none", "inner", "counts"}
    BY DEF OutInv, OutTyped, OutCall, NoCall
  <2>2. sure \in 0..MaxCalls
    <3>1. IsFiniteSet(InFlight)
      BY CallersAssumption, FS_Subset DEF InFlight
    <3>2. Cardinality(InFlight) \in Nat
      BY <3>1, FS_CardinalityType
    <3> QED
      BY <3>2, CallersAssumption DEF OutInv, OutTyped, CallsBounded
  <2> QED
    BY <2>1, <2>2 DEF OutInv, OutTyped, StatsTold, CallsBounded, OutTypeOK
<1> QED
  BY InitOut, CallsBoundedStep, <1>1, <1>2, <1>3, PTL DEF OutSpec

-----------------------------------------------------------------------------
(* WebSocket connections and rooms.                                        *)

WsConnection == [sent : Nat, recv : Nat, bytesSent : Nat, bytesRecv : Nat,
                 room : WsRooms \cup {NoRoom}]

WsRoom == [members : Seq(WsIds), subscribers : Nat]

WsTyped ==
    /\ IsFiniteSet(DOMAIN wsConnections)
    /\ wsConnections \in [DOMAIN wsConnections -> WsConnection]
    /\ wsRooms \in [DOMAIN wsRooms -> WsRoom]
    /\ wsGlobal \in [{"connections", "active", "sent", "recv", "bytesSent", "bytesRecv"} -> Nat]

\* No message is larger or smaller, on the average, than messages are.
Averages(n, bytes) ==
    /\ n > 0 => \E small, large \in Sizes : small * n <= bytes /\ bytes <= large * n
    /\ n = 0 => bytes = 0

BytesTold ==
    LET n     == wsGlobal.sent + wsGlobal.recv
        bytes == wsGlobal.bytesSent + wsGlobal.bytesRecv
    IN  Averages(n, bytes)

\* The totals cover what the connections report.
SumsTold ==
    \A field \in {"sent", "recv", "bytesSent", "bytesRecv"} :
       Total(Counts(field)) <= wsGlobal[field]

ActiveTold ==
    /\ wsGlobal.active = Cardinality(DOMAIN wsConnections)
    /\ wsGlobal.active <= wsGlobal.connections

WsInv == WsTyped /\ RoomsAgree /\ ActiveTold /\ SumsTold /\ BytesTold

LEMMA InitWs == WsInit => WsInv
<1> SUFFICES ASSUME WsInit PROVE WsInv
  OBVIOUS
<1>1. DOMAIN wsConnections = {} /\ DOMAIN wsRooms = {}
  BY DEF WsInit
<1>2. IsFiniteSet(DOMAIN wsConnections) /\ Cardinality(DOMAIN wsConnections) = 0
  BY <1>1, FS_EmptySet
<1>3. \A x \in {"connections", "active", "sent", "recv", "bytesSent", "bytesRecv"} : wsGlobal[x] = 0
  BY DEF WsInit
<1>4. wsGlobal \in [{"connections", "active", "sent", "recv", "bytesSent", "bytesRecv"} -> Nat]
  BY DEF WsInit
<1>5. WsTyped
  BY <1>1, <1>2, <1>4 DEF WsTyped, WsInit
<1>6. RoomsAgree
  BY <1>1 DEF RoomsAgree, GetWsConnections, GetWsRooms
<1>7. ActiveTold
  BY <1>2, <1>3 DEF ActiveTold
<1>8. SumsTold
  <2>1. \A field : Total(Counts(field)) = 0
    <3> TAKE field
    <3>1. DOMAIN Counts(field) = {}
      BY <1>1 DEF Counts
    <3> QED
      BY <3>1, NothingCounted
  <2> QED
    BY <1>3, <2>1 DEF SumsTold
<1>9. BytesTold
  BY <1>3 DEF BytesTold, Averages
<1> QED
  BY <1>5, <1>6, <1>7, <1>8, <1>9 DEF WsInv

-----------------------------------------------------------------------------
(* The rooms.                                                              *)

InRoom(rooms, c, r) == r \in DOMAIN rooms /\ \E i \in DOMAIN rooms[r].members :
                                                  rooms[r].members[i] = c

\* A connection is a member of the room it names.
Housed(connections, rooms) ==
    \A c \in DOMAIN connections :
       connections[c].room # NoRoom => InRoom(rooms, c, connections[c].room)

\* Nobody is a member twice, or has left.
RoomsTold(rooms, left) ==
    \A r \in DOMAIN rooms :
       /\ rooms[r].subscribers = Len(rooms[r].members)
       /\ \A i, j \in DOMAIN rooms[r].members :
             rooms[r].members[i] = rooms[r].members[j] => i = j
       /\ \A i \in DOMAIN rooms[r].members : rooms[r].members[i] \notin left

LEMMA RoomsMean ==
    /\ RoomsAgree <=> Housed(wsConnections, wsRooms) /\ RoomsTold(wsRooms, departed)
    /\ RoomsAgree' <=> Housed(wsConnections', wsRooms') /\ RoomsTold(wsRooms', departed')
<1>1. \A c, r : IsMember(c, r) <=> InRoom(wsRooms, c, r)
  BY DEF IsMember, MembersOf, InRoom
<1>2. RoomsAgree <=> Housed(wsConnections, wsRooms) /\ RoomsTold(wsRooms, departed)
  BY <1>1 DEF RoomsAgree, GetWsConnections, GetWsRooms, Housed, RoomsTold
<1>3. RoomsAgree' <=> Housed(wsConnections', wsRooms') /\ RoomsTold(wsRooms', departed')
  BY DEF RoomsAgree, GetWsConnections, GetWsRooms, Housed, RoomsTold, IsMember, MembersOf, InRoom
<1> QED
  BY <1>2, <1>3

\* rest holds the members but id, each once.
IsWithout(rest, members, id) ==
    /\ \A i, j \in DOMAIN rest : rest[i] = rest[j] => i = j
    /\ \A i \in DOMAIN rest : rest[i] # id /\ \E j \in DOMAIN members : rest[i] = members[j]
    /\ \A j \in DOMAIN members : members[j] # id => \E i \in DOMAIN rest : rest[i] = members[j]

LEMMA WithoutIs ==
    ASSUME NEW members \in Seq(WsIds), NEW id,
           \A i, j \in DOMAIN members : members[i] = members[j] => i = j
    PROVE  Without(members, id) \in Seq(WsIds) /\ IsWithout(Without(members, id), members, id)
<1> DEFINE chosen == {i \in DOMAIN members : members[i] # id}
           rest == Without(members, id)
           n == Cardinality(chosen)
<1>1. chosen \in SUBSET (DOMAIN members) /\ \A i \in chosen : members[i] # id
  OBVIOUS
<1>2. \A j \in DOMAIN members : members[j] # id => j \in chosen
  OBVIOUS
<1>3. rest = Filtered(members, chosen)
  BY DEF Without
<1> HIDE DEF chosen, rest
<1>4. /\ rest \in Seq(WsIds) /\ Len(rest) = n /\ n \in Nat
      /\ \A k \in 1..n : Nth(chosen, k) \in chosen /\ rest[k] = members[Nth(chosen, k)]
      /\ \A k, l \in 1..n : k < l => Nth(chosen, k) < Nth(chosen, l)
      /\ \A i \in chosen : \E k \in 1..n : Nth(chosen, k) = i
  BY <1>1, <1>3, FilteredIs
<1>5. DOMAIN rest = 1..n
  BY <1>4
<1> HIDE DEF n
<1>6. ASSUME NEW i \in 1..n, NEW j \in 1..n, rest[i] = rest[j] PROVE i = j
  <2>1. Nth(chosen, i) = Nth(chosen, j)
    BY <1>1, <1>4, <1>6
  <2>2. Nth(chosen, i) \in Int /\ Nth(chosen, j) \in Int
    <3>1. Nth(chosen, i) \in DOMAIN members /\ Nth(chosen, j) \in DOMAIN members
      BY <1>1, <1>4
    <3> QED
      BY <3>1
  <2> QED
    BY <1>4, <2>1, <2>2
<1>7. \A i \in 1..n : rest[i] # id /\ \E j \in DOMAIN members : rest[i] = members[j]
  BY <1>1, <1>4
<1>8. \A j \in DOMAIN members : members[j] # id => \E i \in 1..n : rest[i] = members[j]
  BY <1>2, <1>4
<1> QED
  BY <1>4, <1>5, <1>6, <1>7, <1>8 DEF rest, IsWithout

\* A connection is a member of its room, nobody of a room twice, and who left of
\* none, whoever joins, leaves or registers.
LEMMA RoomsStep == WsInv /\ [WsNext]_wsVars => RoomsAgree'
<1> SUFFICES ASSUME WsTyped, Housed(wsConnections, wsRooms), RoomsTold(wsRooms, departed),
                    [WsNext]_wsVars
             PROVE  Housed(wsConnections', wsRooms') /\ RoomsTold(wsRooms', departed')
  BY RoomsMean DEF WsInv
<1>0. /\ \A r \in DOMAIN wsRooms : wsRooms[r] \in WsRoom /\ wsRooms[r].members \in Seq(WsIds)
      /\ \A c \in DOMAIN wsConnections : wsConnections[c] \in WsConnection
  BY DEF WsTyped, WsRoom
<1>1. ASSUME NEW id \in WsIds, RegisterWSConnection(id)
      PROVE  Housed(wsConnections', wsRooms') /\ RoomsTold(wsRooms', departed')
  <2>1. /\ wsRooms' = wsRooms /\ departed' = departed \ {id}
        /\ DOMAIN wsConnections' = DOMAIN wsConnections \cup {id}
        /\ \A c \in DOMAIN wsConnections' :
              wsConnections'[c] = IF c = id THEN Fresh ELSE wsConnections[c]
    BY <1>1 DEF RegisterWSConnection, Put
  <2>2. Fresh.room = NoRoom
    BY DEF Fresh
  <2> QED
    BY <2>1, <2>2 DEF Housed, RoomsTold
<1>2. ASSUME NEW id \in WsIds, UnregisterWSConnection(id)
      PROVE  Housed(wsConnections', wsRooms') /\ RoomsTold(wsRooms', departed')
  <2>1. /\ DOMAIN wsConnections' = DOMAIN wsConnections \ {id}
        /\ \A c \in DOMAIN wsConnections' : wsConnections'[c] = wsConnections[c]
    BY <1>2 DEF UnregisterWSConnection, Drop
  <2>2. /\ DOMAIN wsRooms' = DOMAIN wsRooms /\ departed' = departed \cup {id}
        /\ \A r \in DOMAIN wsRooms :
              /\ wsRooms'[r].members = Without(wsRooms[r].members, id)
              /\ wsRooms'[r].subscribers = Len(Without(wsRooms[r].members, id))
    BY <1>2 DEF UnregisterWSConnection, WithoutMember
  <2>3. \A r \in DOMAIN wsRooms : IsWithout(wsRooms'[r].members, wsRooms[r].members, id)
    <3> TAKE r \in DOMAIN wsRooms
    <3>1. wsRooms[r].members \in Seq(WsIds)
          /\ \A i, j \in DOMAIN wsRooms[r].members :
                wsRooms[r].members[i] = wsRooms[r].members[j] => i = j
      BY <1>0 DEF RoomsTold
    <3> QED
      BY <2>2, <3>1, WithoutIs
  <2>4. RoomsTold(wsRooms', departed')
    BY <2>2, <2>3 DEF RoomsTold, IsWithout
  <2>5. \A c, r : c # id /\ InRoom(wsRooms, c, r) => InRoom(wsRooms', c, r)
    BY <2>2, <2>3 DEF InRoom, IsWithout
  <2> QED
    BY <2>1, <2>4, <2>5 DEF Housed
<1>3. ASSUME wsRooms' = wsRooms, departed' \subseteq departed, DOMAIN wsConnections' = DOMAIN wsConnections,
             \A c \in DOMAIN wsConnections : wsConnections'[c].room = wsConnections[c].room
      PROVE  Housed(wsConnections', wsRooms') /\ RoomsTold(wsRooms', departed')
  BY <1>3 DEF Housed, RoomsTold
<1>4. ASSUME NEW id \in WsIds, NEW b \in Sizes, WSIncrementSent(id, b)
      PROVE  Housed(wsConnections', wsRooms') /\ RoomsTold(wsRooms', departed')
  <2>1. \A c \in DOMAIN wsConnections : wsConnections'[c].room = wsConnections[c].room
    BY <1>0, <1>4 DEF WSIncrementSent, WsConnection
  <2> QED
    BY <1>3, <1>4, <2>1 DEF WSIncrementSent
<1>5. ASSUME NEW id \in WsIds, NEW b \in Sizes, WSIncrementRecv(id, b)
      PROVE  Housed(wsConnections', wsRooms') /\ RoomsTold(wsRooms', departed')
  <2>1. \A c \in DOMAIN wsConnections : wsConnections'[c].room = wsConnections[c].room
    BY <1>0, <1>5 DEF WSIncrementRecv, WsConnection
  <2> QED
    BY <1>3, <1>5, <2>1 DEF WSIncrementRecv
<1>6. ASSUME NEW r \in WsRooms, NEW id \in WsIds, WSJoinRoomAgain(r, id)
      PROVE  Housed(wsConnections', wsRooms') /\ RoomsTold(wsRooms', departed')
  BY <1>3, <1>6 DEF WSJoinRoomAgain
<1>7. ASSUME NEW r \in WsRooms, NEW id \in WsIds, WSJoinRoom(r, id)
      PROVE  Housed(wsConnections', wsRooms') /\ RoomsTold(wsRooms', departed')
  <2> DEFINE ms == MembersOf(r)
             new == Append(ms, id)
  <2>1. /\ ms \in Seq(WsIds) /\ \A i \in DOMAIN ms : ms[i] # id
        /\ \A i, j \in DOMAIN ms : ms[i] = ms[j] => i = j
        /\ \A i \in DOMAIN ms : ms[i] \notin departed
    <3>1. \A i \in DOMAIN ms : ms[i] # id
      BY <1>7 DEF WSJoinRoom, IsMember
    <3>2. CASE r \in DOMAIN wsRooms
      BY <1>0, <3>1, <3>2 DEF MembersOf, RoomsTold
    <3>3. CASE r \notin DOMAIN wsRooms
      BY <3>3 DEF MembersOf
    <3> QED
      BY <3>2, <3>3
  <2>2. \A c : InRoom(wsRooms, c, r) => \E i \in DOMAIN ms : ms[i] = c
    BY DEF InRoom, MembersOf
  <2> HIDE DEF ms
  <2>3. /\ DOMAIN new = 1..(Len(ms) + 1) /\ DOMAIN ms = 1..Len(ms) /\ Len(ms) \in Nat
        /\ new[Len(ms) + 1] = id /\ \A i \in 1..Len(ms) : new[i] = ms[i]
    BY <2>1
  <2> HIDE DEF new
  <2>4. \A i \in DOMAIN new : i = Len(ms) + 1 \/ i \in DOMAIN ms
    BY <2>3
  <2>5. \A i, j \in DOMAIN new : new[i] = new[j] => i = j
    BY <2>1, <2>3, <2>4
  <2>6. \A i \in DOMAIN new : new[i] \notin departed \ {id}
    BY <2>1, <2>3, <2>4
  <2>7. /\ DOMAIN wsRooms' = DOMAIN wsRooms \cup {r} /\ departed' = departed \ {id}
        /\ wsRooms'[r].members = new /\ wsRooms'[r].subscribers = Len(new)
        /\ \A q \in DOMAIN wsRooms' : q # r => wsRooms'[q] = wsRooms[q]
    BY <1>7 DEF WSJoinRoom, Put, ms, new
  <2>8. RoomsTold(wsRooms', departed')
    <3> SUFFICES ASSUME NEW q \in DOMAIN wsRooms'
                 PROVE  /\ wsRooms'[q].subscribers = Len(wsRooms'[q].members)
                        /\ \A i, j \in DOMAIN wsRooms'[q].members :
                              wsRooms'[q].members[i] = wsRooms'[q].members[j] => i = j
                        /\ \A i \in DOMAIN wsRooms'[q].members :
                              wsRooms'[q].members[i] \notin departed'
      BY DEF RoomsTold
    <3>1. CASE q = r
      BY <2>5, <2>6, <2>7, <3>1
    <3>2. CASE q # r
      BY <2>7, <3>2 DEF RoomsTold
    <3> QED
      BY <3>1, <3>2
  <2>9. /\ DOMAIN wsConnections' = DOMAIN wsConnections
        /\ \A c \in DOMAIN wsConnections :
              wsConnections'[c].room = IF c = id THEN r ELSE wsConnections[c].room
    BY <1>0, <1>7 DEF WSJoinRoom, WsConnection
  <2>10. InRoom(wsRooms', id, r)
    <3>1. \E i \in DOMAIN new : new[i] = id
      BY <2>3
    <3> QED
      BY <2>7, <3>1 DEF InRoom
  <2>11. \A q, c : InRoom(wsRooms, c, q) => InRoom(wsRooms', c, q)
    <3> SUFFICES ASSUME NEW q, NEW c, InRoom(wsRooms, c, q) PROVE InRoom(wsRooms', c, q)
      OBVIOUS
    <3>1. CASE q = r
      <4>1. \E i \in DOMAIN new : new[i] = c
        BY <2>2, <2>3, <3>1
      <4> QED
        BY <2>7, <3>1, <4>1 DEF InRoom
    <3>2. CASE q # r
      BY <2>7, <3>2 DEF InRoom
    <3> QED
      BY <3>1, <3>2
  <2> QED
    BY <2>8, <2>9, <2>10, <2>11 DEF Housed
<1>8. CASE UNCHANGED wsVars
  BY <1>8 DEF wsVars
<1> QED
  BY <1>1, <1>2, <1>4, <1>5, <1>6, <1>7, <1>8 DEF WsNext

-----------------------------------------------------------------------------
(* The counters.                                                           *)

Fields == {"sent", "recv", "bytesSent", "bytesRecv"}

\* What each connection reports is a count.
LEMMA FieldsCounted ==
    /\ WsTyped => \A field \in Fields : Numbers(Counts(field))
    /\ WsTyped' => \A field \in Fields : Numbers(Counts(field)')
<1>1. ASSUME WsTyped, NEW field \in Fields PROVE Numbers(Counts(field))
  <2>1. \A c \in DOMAIN wsConnections : wsConnections[c] \in WsConnection
    BY <1>1 DEF WsTyped
  <2>2. \A c \in DOMAIN wsConnections : wsConnections[c][field] \in Nat
    BY <2>1 DEF WsConnection, Fields
  <2> QED
    BY <1>1, <2>2 DEF Numbers, Counts, WsTyped
<1>2. ASSUME WsTyped', NEW field \in Fields PROVE Numbers(Counts(field)')
  <2>1. \A c \in DOMAIN wsConnections' : wsConnections'[c] \in WsConnection
    BY <1>2 DEF WsTyped
  <2>2. \A c \in DOMAIN wsConnections' : wsConnections'[c][field] \in Nat
    BY <2>1 DEF WsConnection, Fields
  <2> QED
    BY <1>2, <2>2 DEF Numbers, Counts, WsTyped
<1> QED
  BY <1>1, <1>2

\* Two totals change.
LEMMA GlobalKept ==
    ASSUME NEW names, NEW g \in [names -> Nat], NEW x \in names, NEW y \in names,
           NEW m \in Nat, NEW v \in Nat
    PROVE  [g EXCEPT ![x] = m, ![y] = v] \in [names -> Nat] /\ [g EXCEPT ![x] = m] \in [names -> Nat]
  OBVIOUS

LEMMA WsTypedStep == WsInv /\ [WsNext]_wsVars => WsTyped'
<1> SUFFICES ASSUME WsTyped, [WsNext]_wsVars PROVE WsTyped'
  BY DEF WsInv
<1> DEFINE Names == {"connections", "active", "sent", "recv", "bytesSent", "bytesRecv"}
<1>0. /\ \A r \in DOMAIN wsRooms : wsRooms[r] \in WsRoom /\ wsRooms[r].members \in Seq(WsIds)
      /\ \A c \in DOMAIN wsConnections : wsConnections[c] \in WsConnection
      /\ wsGlobal \in [Names -> Nat] /\ IsFiniteSet(DOMAIN wsConnections)
  BY DEF WsTyped, WsRoom
<1>1. ASSUME NEW id \in WsIds, RegisterWSConnection(id) PROVE WsTyped'
  <2>1. /\ DOMAIN wsConnections' = DOMAIN wsConnections \cup {id} /\ wsRooms' = wsRooms
        /\ wsConnections' = [x \in DOMAIN wsConnections' |->
                               IF x = id THEN Fresh ELSE wsConnections[x]]
    BY <1>1 DEF RegisterWSConnection, Put
  <2>2. Fresh \in WsConnection
    BY DEF Fresh, WsConnection
  <2>3. IsFiniteSet(DOMAIN wsConnections')
    BY <1>0, <2>1, FS_AddElement
  <2>4. Cardinality(DOMAIN wsConnections') \in Nat
    BY <2>3, FS_CardinalityType
  <2>5. wsGlobal' \in [Names -> Nat]
    <3>1. wsGlobal.connections + 1 \in Nat
      BY <1>0
    <3> QED
      BY <1>0, <1>1, <2>4, <3>1, GlobalKept DEF RegisterWSConnection
  <2>6. wsConnections' \in [DOMAIN wsConnections' -> WsConnection]
    BY <1>0, <2>1, <2>2
  <2> QED
    BY <2>1, <2>3, <2>5, <2>6 DEF WsTyped
<1>2. ASSUME NEW id \in WsIds, UnregisterWSConnection(id) PROVE WsTyped'
  <2>1. /\ DOMAIN wsConnections' = DOMAIN wsConnections \ {id}
        /\ wsConnections' = [x \in DOMAIN wsConnections' |-> wsConnections[x]]
    BY <1>2 DEF UnregisterWSConnection, Drop
  <2>2. IsFiniteSet(DOMAIN wsConnections')
    BY <1>0, <2>1, FS_RemoveElement
  <2>3. Cardinality(DOMAIN wsConnections') \in Nat
    BY <2>2, FS_CardinalityType
  <2>4. wsGlobal' \in [Names -> Nat]
    BY <1>0, <1>2, <2>3, GlobalKept DEF UnregisterWSConnection
  <2>5. wsRooms' = [r \in DOMAIN wsRooms |-> [members |-> Without(wsRooms[r].members, id),
                                             subscribers |-> Len(Without(wsRooms[r].members, id))]]
    BY <1>2 DEF UnregisterWSConnection, WithoutMember
  <2>6. \A r \in DOMAIN wsRooms : Without(wsRooms[r].members, id) \in Seq(WsIds)
    <3> TAKE r \in DOMAIN wsRooms
    <3> DEFINE ms == wsRooms[r].members
               chosen == {i \in DOMAIN ms : ms[i] # id}
    <3>1. ms \in Seq(WsIds) /\ chosen \in SUBSET (DOMAIN ms)
      BY <1>0
    <3> HIDE DEF chosen
    <3>2. Filtered(ms, chosen) \in Seq(WsIds)
      BY <3>1, FilteredIs
    <3> QED
      BY <3>2 DEF Without, chosen
  <2>7. \A r \in DOMAIN wsRooms : Len(Without(wsRooms[r].members, id)) \in Nat
    BY <2>6
  <2>8. wsRooms' \in [DOMAIN wsRooms' -> WsRoom]
    BY <2>5, <2>6, <2>7 DEF WsRoom
  <2>9. wsConnections' \in [DOMAIN wsConnections' -> WsConnection]
    BY <1>0, <2>1
  <2> QED
    BY <2>2, <2>4, <2>8, <2>9 DEF WsTyped
<1>3. ASSUME NEW id \in WsIds, NEW b \in Sizes, WSIncrementSent(id, b) PROVE WsTyped'
  <2>0. b \in Nat
    BY SizesAssumption
  <2>1. wsGlobal' \in [Names -> Nat]
    <3>1. wsGlobal.sent + 1 \in Nat /\ wsGlobal.bytesSent + b \in Nat
      BY <1>0, <2>0
    <3> QED
      BY <1>0, <1>3, <3>1, GlobalKept DEF WSIncrementSent, CountSent
  <2>2. \A c \in DOMAIN wsConnections : wsConnections'[c] \in WsConnection
    <3> TAKE c \in DOMAIN wsConnections
    <3>1. CASE c # id
      BY <1>0, <1>3, <3>1 DEF WSIncrementSent
    <3>2. CASE c = id
      <4> DEFINE m == wsConnections[c].sent + 1
                 v == wsConnections[c].bytesSent + b
      <4>1. wsConnections[c] \in WsConnection /\ m \in Nat /\ v \in Nat
        <5>1. wsConnections[c] \in WsConnection
          BY <1>0
        <5>2. wsConnections[c].sent \in Nat /\ wsConnections[c].bytesSent \in Nat
          BY <5>1 DEF WsConnection
        <5> QED
          BY <2>0, <5>1, <5>2
      <4>2. wsConnections'[c] = [wsConnections[c] EXCEPT !.sent = m, !.bytesSent = v]
        BY <1>3, <3>2 DEF WSIncrementSent
      <4> HIDE DEF m, v
      <4> QED
        BY <4>1, <4>2 DEF WsConnection
    <3> QED
      BY <3>1, <3>2
  <2> QED
    BY <1>0, <1>3, <2>1, <2>2 DEF WSIncrementSent, WsTyped
<1>4. ASSUME NEW id \in WsIds, NEW b \in Sizes, WSIncrementRecv(id, b) PROVE WsTyped'
  <2>0. b \in Nat
    BY SizesAssumption
  <2>1. wsGlobal' \in [Names -> Nat]
    <3>1. wsGlobal.recv + 1 \in Nat /\ wsGlobal.bytesRecv + b \in Nat
      BY <1>0, <2>0
    <3> QED
      BY <1>0, <1>4, <3>1, GlobalKept DEF WSIncrementRecv
  <2>2. \A c \in DOMAIN wsConnections : wsConnections'[c] \in WsConnection
    <3> TAKE c \in DOMAIN wsConnections
    <3>1. CASE c # id
      BY <1>0, <1>4, <3>1 DEF WSIncrementRecv
    <3>2. CASE c = id
      <4> DEFINE m == wsConnections[c].recv + 1
                 v == wsConnections[c].bytesRecv + b
      <4>1. wsConnections[c] \in WsConnection /\ m \in Nat /\ v \in Nat
        <5>1. wsConnections[c] \in WsConnection
          BY <1>0
        <5>2. wsConnections[c].recv \in Nat /\ wsConnections[c].bytesRecv \in Nat
          BY <5>1 DEF WsConnection
        <5> QED
          BY <2>0, <5>1, <5>2
      <4>2. wsConnections'[c] = [wsConnections[c] EXCEPT !.recv = m, !.bytesRecv = v]
        BY <1>4, <3>2 DEF WSIncrementRecv
      <4> HIDE DEF m, v
      <4> QED
        BY <4>1, <4>2 DEF WsConnection
    <3> QED
      BY <3>1, <3>2
  <2> QED
    BY <1>0, <1>4, <2>1, <2>2 DEF WSIncrementRecv, WsTyped
<1>5. ASSUME NEW r \in WsRooms, NEW id \in WsIds, WSJoinRoom(r, id) PROVE WsTyped'
  <2>1. MembersOf(r) \in Seq(WsIds)
    BY <1>0 DEF MembersOf
  <2>2. Append(MembersOf(r), id) \in Seq(WsIds) /\ Len(Append(MembersOf(r), id)) \in Nat
    BY <2>1
  <2>3. [members |-> Append(MembersOf(r), id), subscribers |-> Len(Append(MembersOf(r), id))] \in WsRoom
    BY <2>2 DEF WsRoom
  <2>4. wsRooms' \in [DOMAIN wsRooms' -> WsRoom]
    BY <1>0, <1>5, <2>3 DEF WSJoinRoom, Put
  <2>5. \A c \in DOMAIN wsConnections : wsConnections'[c] \in WsConnection
    BY <1>0, <1>5 DEF WSJoinRoom, WsConnection
  <2> QED
    BY <1>0, <1>5, <2>4, <2>5 DEF WSJoinRoom, WsTyped
<1>6. ASSUME NEW r \in WsRooms, NEW id \in WsIds, WSJoinRoomAgain(r, id) PROVE WsTyped'
  BY <1>6 DEF WSJoinRoomAgain, WsTyped
<1>7. CASE UNCHANGED wsVars
  BY <1>7 DEF wsVars, WsTyped
<1> QED
  BY <1>1, <1>2, <1>3, <1>4, <1>5, <1>6, <1>7 DEF WsNext

\* The number of active connections is theirs, and each was registered.
LEMMA ActiveStep == WsInv /\ [WsNext]_wsVars => ActiveTold'
<1> SUFFICES ASSUME WsTyped, ActiveTold, [WsNext]_wsVars PROVE ActiveTold'
  BY DEF WsInv
<1>0. /\ wsGlobal \in [{"connections", "active", "sent", "recv", "bytesSent", "bytesRecv"} -> Nat]
      /\ IsFiniteSet(DOMAIN wsConnections) /\ Cardinality(DOMAIN wsConnections) \in Nat
  BY FS_CardinalityType DEF WsTyped
<1>1. ASSUME NEW id \in WsIds, RegisterWSConnection(id) PROVE ActiveTold'
  <2>1. DOMAIN wsConnections' = DOMAIN wsConnections \cup {id}
    BY <1>1 DEF RegisterWSConnection, Put
  <2>2. Cardinality(DOMAIN wsConnections') \in
           {Cardinality(DOMAIN wsConnections), Cardinality(DOMAIN wsConnections) + 1}
    BY <1>0, <2>1, FS_AddElement
  <2>3. /\ wsGlobal'.active = Cardinality(DOMAIN wsConnections')
        /\ wsGlobal'.connections = wsGlobal.connections + 1
    BY <1>0, <1>1 DEF RegisterWSConnection
  <2> QED
    BY <1>0, <2>2, <2>3 DEF ActiveTold
<1>2. ASSUME NEW id \in WsIds, UnregisterWSConnection(id) PROVE ActiveTold'
  <2>1. DOMAIN wsConnections' = DOMAIN wsConnections \ {id}
    BY <1>2 DEF UnregisterWSConnection, Drop
  <2>2. Cardinality(DOMAIN wsConnections') \in
           {Cardinality(DOMAIN wsConnections), Cardinality(DOMAIN wsConnections) - 1}
    BY <1>0, <2>1, FS_RemoveElement
  <2>3. /\ wsGlobal'.active = Cardinality(DOMAIN wsConnections')
        /\ wsGlobal'.connections = wsGlobal.connections
    BY <1>0, <1>2 DEF UnregisterWSConnection
  <2> QED
    BY <1>0, <2>2, <2>3 DEF ActiveTold
<1>3. ASSUME NEW id \in WsIds, NEW b \in Sizes, WSIncrementSent(id, b) PROVE ActiveTold'
  BY <1>0, <1>3 DEF WSIncrementSent, CountSent, ActiveTold
<1>4. ASSUME NEW id \in WsIds, NEW b \in Sizes, WSIncrementRecv(id, b) PROVE ActiveTold'
  BY <1>0, <1>4 DEF WSIncrementRecv, ActiveTold
<1>5. ASSUME NEW r \in WsRooms, NEW id \in WsIds, WSJoinRoom(r, id) \/ WSJoinRoomAgain(r, id)
      PROVE  ActiveTold'
  BY <1>0, <1>5 DEF WSJoinRoom, WSJoinRoomAgain, ActiveTold
<1>6. CASE UNCHANGED wsVars
  BY <1>6 DEF wsVars, ActiveTold
<1> QED
  BY <1>1, <1>2, <1>3, <1>4, <1>5, <1>6 DEF WsNext

\* The sum of a field follows the field of the connection that changes.
LEMMA SumFollows ==
    ASSUME WsTyped, WsTyped', NEW field \in Fields, NEW id,
           (DOMAIN wsConnections') \ {id} = (DOMAIN wsConnections) \ {id},
           \A c \in (DOMAIN wsConnections) \ {id} : wsConnections'[c][field] = wsConnections[c][field]
    PROVE  /\ Total(Counts(field)') = Total(Counts(field)) - At(Counts(field), id) + At(Counts(field)', id)
           /\ At(Counts(field), id) \in 0..Total(Counts(field)) /\ Total(Counts(field)) \in Nat
           /\ At(Counts(field)', id) \in Nat
<1> DEFINE old == Counts(field)
           new == Counts(field)'
<1>1. Numbers(old) /\ Numbers(new)
  BY FieldsCounted
<1>2. (DOMAIN new) \ {id} = (DOMAIN old) \ {id}
  BY DEF Counts
<1>3. \A c \in (DOMAIN old) \ {id} : new[c] = old[c]
  BY DEF Counts
<1> HIDE DEF old, new
<1>4. /\ Total(new) = Total(old) - At(old, id) + At(new, id)
      /\ At(old, id) \in 0..Total(old) /\ At(new, id) \in Nat
  BY <1>1, <1>2, <1>3, TotalChanges
<1>5. Total(old) \in Nat
  BY <1>1, TotalIsNumber
<1> QED
  BY <1>4, <1>5 DEF old, new

\* A connection and the total that grow by the same keep the sum below it.
LEMMA SumGrows ==
    ASSUME WsTyped, WsTyped', SumsTold, NEW field \in Fields, NEW id, NEW d \in Nat,
           DOMAIN wsConnections' = DOMAIN wsConnections,
           \A c \in DOMAIN wsConnections :
              wsConnections'[c][field] = wsConnections[c][field] + (IF c = id THEN d ELSE 0),
           wsGlobal'[field] = wsGlobal[field] + d
    PROVE  Total(Counts(field)') <= wsGlobal'[field]
<1>1. \A c \in DOMAIN wsConnections : wsConnections[c][field] \in Nat
  <2>1. \A c \in DOMAIN wsConnections : wsConnections[c] \in WsConnection
    BY DEF WsTyped
  <2> QED
    BY <2>1 DEF WsConnection, Fields
<1>2. \A c \in (DOMAIN wsConnections) \ {id} : wsConnections'[c][field] = wsConnections[c][field]
  BY <1>1
<1>3. /\ Total(Counts(field)') = Total(Counts(field)) - At(Counts(field), id) + At(Counts(field)', id)
      /\ At(Counts(field), id) \in 0..Total(Counts(field)) /\ Total(Counts(field)) \in Nat
      /\ At(Counts(field)', id) \in Nat
  BY <1>2, SumFollows
<1>4. At(Counts(field)', id) <= At(Counts(field), id) + d
  <2>1. CASE id \in DOMAIN wsConnections
    <3>1. At(Counts(field), id) = wsConnections[id][field]
      BY <2>1 DEF At, Counts
    <3>2. At(Counts(field)', id) = wsConnections'[id][field]
      BY <2>1 DEF At, Counts
    <3> QED
      BY <1>1, <2>1, <3>1, <3>2
  <2>2. CASE id \notin DOMAIN wsConnections
    <3>1. At(Counts(field), id) = 0 /\ At(Counts(field)', id) = 0
      BY <2>2 DEF At, Counts
    <3> QED
      BY <3>1
  <2> QED
    BY <2>1, <2>2
<1>5. Total(Counts(field)) <= wsGlobal[field] /\ wsGlobal[field] \in Nat
  BY DEF SumsTold, Fields, WsTyped
<1> QED
  BY <1>3, <1>4, <1>5

\* A connection that is new or gone takes what it reported from the sum.
LEMMA SumShrinks ==
    ASSUME WsTyped, WsTyped', SumsTold, NEW field \in Fields, NEW id,
           (DOMAIN wsConnections') \ {id} = (DOMAIN wsConnections) \ {id},
           \A c \in (DOMAIN wsConnections) \ {id} : wsConnections'[c] = wsConnections[c],
           id \in DOMAIN wsConnections' => wsConnections'[id] = Fresh,
           wsGlobal'[field] = wsGlobal[field]
    PROVE  Total(Counts(field)') <= wsGlobal'[field]
<1>1. /\ Total(Counts(field)') = Total(Counts(field)) - At(Counts(field), id) + At(Counts(field)', id)
      /\ At(Counts(field), id) \in 0..Total(Counts(field)) /\ Total(Counts(field)) \in Nat
  BY SumFollows
<1>2. At(Counts(field)', id) = 0
  BY DEF At, Counts, Fresh, Fields
<1>3. Total(Counts(field)) <= wsGlobal[field] /\ wsGlobal[field] \in Nat
  BY DEF SumsTold, Fields, WsTyped
<1> QED
  BY <1>1, <1>2, <1>3

\* Two fields change.
LEMMA TwoFields ==
    ASSUME NEW g, NEW x \in DOMAIN g, NEW y \in DOMAIN g, x # y, NEW m, NEW v
    PROVE  \A z \in DOMAIN g :
              [g EXCEPT ![x] = m, ![y] = v][z] = IF z = x THEN m ELSE IF z = y THEN v ELSE g[z]
  OBVIOUS

LEMMA SumsStep == WsInv /\ [WsNext]_wsVars => SumsTold'
<1> SUFFICES ASSUME WsTyped, SumsTold, WsTyped', [WsNext]_wsVars, NEW field \in Fields
             PROVE  Total(Counts(field)') <= wsGlobal'[field]
  BY WsTypedStep DEF WsInv, SumsTold, Fields
<1>0. /\ wsGlobal \in [{"connections", "active", "sent", "recv", "bytesSent", "bytesRecv"} -> Nat]
      /\ \A c \in DOMAIN wsConnections : wsConnections[c] \in WsConnection
  BY DEF WsTyped
<1>c. \A c \in DOMAIN wsConnections : wsConnections[c][field] \in Nat
  BY <1>0 DEF WsConnection, Fields
<1>f. field \in {"sent", "recv", "bytesSent", "bytesRecv"} /\ wsGlobal[field] \in Nat
  BY <1>0 DEF Fields
<1>1. ASSUME NEW id \in WsIds, RegisterWSConnection(id) PROVE Total(Counts(field)') <= wsGlobal'[field]
  <2>1. /\ DOMAIN wsConnections' = DOMAIN wsConnections \cup {id}
        /\ \A c \in DOMAIN wsConnections' :
              wsConnections'[c] = IF c = id THEN Fresh ELSE wsConnections[c]
    BY <1>1 DEF RegisterWSConnection, Put
  <2>2. wsGlobal'[field] = wsGlobal[field]
    BY <1>0, <1>f, <1>1 DEF RegisterWSConnection
  <2> QED
    BY <2>1, <2>2, SumShrinks
<1>2. ASSUME NEW id \in WsIds, UnregisterWSConnection(id) PROVE Total(Counts(field)') <= wsGlobal'[field]
  <2>1. /\ DOMAIN wsConnections' = DOMAIN wsConnections \ {id}
        /\ \A c \in DOMAIN wsConnections' : wsConnections'[c] = wsConnections[c]
    BY <1>2 DEF UnregisterWSConnection, Drop
  <2>2. wsGlobal'[field] = wsGlobal[field]
    BY <1>0, <1>f, <1>2 DEF UnregisterWSConnection
  <2> QED
    BY <2>1, <2>2, SumShrinks
<1>3. ASSUME NEW id \in WsIds, NEW b \in Sizes, WSIncrementSent(id, b)
      PROVE  Total(Counts(field)') <= wsGlobal'[field]
  <2> DEFINE d == IF field = "sent" THEN 1 ELSE IF field = "bytesSent" THEN b ELSE 0
  <2>0. b \in Nat /\ d \in Nat
    BY SizesAssumption
  <2>1. wsGlobal'[field] = wsGlobal[field] + d
    <3>1. wsGlobal'[field] = IF field = "sent" THEN wsGlobal.sent + 1
                             ELSE IF field = "bytesSent" THEN wsGlobal.bytesSent + b ELSE wsGlobal[field]
      <4>1. wsGlobal' = [wsGlobal EXCEPT !.sent = wsGlobal.sent + 1, !.bytesSent = wsGlobal.bytesSent + b]
        BY <1>3 DEF WSIncrementSent, CountSent
      <4>2. field \in DOMAIN wsGlobal /\ "sent" \in DOMAIN wsGlobal /\ "bytesSent" \in DOMAIN wsGlobal
        BY <1>0, <1>f
      <4> QED
        BY <4>1, <4>2, TwoFields
    <3> QED
      BY <1>f, <3>1
  <2>2. ASSUME NEW c \in DOMAIN wsConnections
        PROVE  wsConnections'[c][field] = wsConnections[c][field] + (IF c = id THEN d ELSE 0)
    <3>1. wsConnections[c] \in WsConnection /\ wsConnections[c][field] \in Nat
      BY <1>0, <1>c
    <3>2. CASE c # id
      <4>1. wsConnections'[c] = wsConnections[c]
        BY <1>3, <3>2 DEF WSIncrementSent
      <4> QED
        BY <3>1, <3>2, <4>1
    <3>3. CASE c = id
      <4> DEFINE old == wsConnections[c]
                 m == old.sent + 1
                 v == old.bytesSent + b
      <4>1. wsConnections'[c] = [old EXCEPT !.sent = m, !.bytesSent = v]
        BY <1>3, <3>3 DEF WSIncrementSent
      <4>2. DOMAIN old = {"sent", "recv", "bytesSent", "bytesRecv", "room"}
        BY <3>1 DEF WsConnection
      <4> HIDE DEF old, m, v
      <4>3. field \in DOMAIN old /\ "sent" \in DOMAIN old /\ "bytesSent" \in DOMAIN old /\ "sent" # "bytesSent"
        BY <1>f, <4>2
      <4>4. wsConnections'[c][field] =
              IF field = "sent" THEN m ELSE IF field = "bytesSent" THEN v ELSE old[field]
        BY <4>1, <4>3, TwoFields
      <4> QED
        BY <3>1, <3>3, <4>4 DEF old, m, v
    <3> QED
      BY <3>2, <3>3
  <2>3. DOMAIN wsConnections' = DOMAIN wsConnections
    BY <1>3 DEF WSIncrementSent
  <2> HIDE DEF d
  <2> QED
    BY <2>0, <2>1, <2>2, <2>3, SumGrows
<1>4. ASSUME NEW id \in WsIds, NEW b \in Sizes, WSIncrementRecv(id, b)
      PROVE  Total(Counts(field)') <= wsGlobal'[field]
  <2> DEFINE d == IF field = "recv" THEN 1 ELSE IF field = "bytesRecv" THEN b ELSE 0
  <2>0. b \in Nat /\ d \in Nat
    BY SizesAssumption
  <2>1. wsGlobal'[field] = wsGlobal[field] + d
    <3>1. wsGlobal'[field] = IF field = "recv" THEN wsGlobal.recv + 1
                             ELSE IF field = "bytesRecv" THEN wsGlobal.bytesRecv + b ELSE wsGlobal[field]
      <4>1. wsGlobal' = [wsGlobal EXCEPT !.recv = wsGlobal.recv + 1, !.bytesRecv = wsGlobal.bytesRecv + b]
        BY <1>4 DEF WSIncrementRecv
      <4>2. field \in DOMAIN wsGlobal /\ "recv" \in DOMAIN wsGlobal /\ "bytesRecv" \in DOMAIN wsGlobal
        BY <1>0, <1>f
      <4> QED
        BY <4>1, <4>2, TwoFields
    <3> QED
      BY <1>f, <3>1
  <2>2. ASSUME NEW c \in DOMAIN wsConnections
        PROVE  wsConnections'[c][field] = wsConnections[c][field] + (IF c = id THEN d ELSE 0)
    <3>1. wsConnections[c] \in WsConnection /\ wsConnections[c][field] \in Nat
      BY <1>0, <1>c
    <3>2. CASE c # id
      <4>1. wsConnections'[c] = wsConnections[c]
        BY <1>4, <3>2 DEF WSIncrementRecv
      <4> QED
        BY <3>1, <3>2, <4>1
    <3>3. CASE c = id
      <4> DEFINE old == wsConnections[c]
                 m == old.recv + 1
                 v == old.bytesRecv + b
      <4>1. wsConnections'[c] = [old EXCEPT !.recv = m, !.bytesRecv = v]
        BY <1>4, <3>3 DEF WSIncrementRecv
      <4>2. DOMAIN old = {"sent", "recv", "bytesSent", "bytesRecv", "room"}
        BY <3>1 DEF WsConnection
      <4> HIDE DEF old, m, v
      <4>3. field \in DOMAIN old /\ "recv" \in DOMAIN old /\ "bytesRecv" \in DOMAIN old /\ "recv" # "bytesRecv"
        BY <1>f, <4>2
      <4>4. wsConnections'[c][field] =
              IF field = "recv" THEN m ELSE IF field = "bytesRecv" THEN v ELSE old[field]
        BY <4>1, <4>3, TwoFields
      <4> QED
        BY <3>1, <3>3, <4>4 DEF old, m, v
    <3> QED
      BY <3>2, <3>3
  <2>3. DOMAIN wsConnections' = DOMAIN wsConnections
    BY <1>4 DEF WSIncrementRecv
  <2> HIDE DEF d
  <2> QED
    BY <2>0, <2>1, <2>2, <2>3, SumGrows
<1>5. ASSUME DOMAIN wsConnections' = DOMAIN wsConnections, wsGlobal' = wsGlobal,
             \A c \in DOMAIN wsConnections : wsConnections'[c][field] = wsConnections[c][field]
      PROVE  Total(Counts(field)') <= wsGlobal'[field]
  <2>1. Counts(field)' = Counts(field)
    BY <1>5 DEF Counts
  <2> QED
    BY <1>5, <2>1 DEF SumsTold, Fields
<1>6. ASSUME NEW r \in WsRooms, NEW id \in WsIds, WSJoinRoom(r, id)
      PROVE  Total(Counts(field)') <= wsGlobal'[field]
  <2>1. ASSUME NEW c \in DOMAIN wsConnections PROVE wsConnections'[c][field] = wsConnections[c][field]
    <3>1. wsConnections[c] \in WsConnection
      BY <1>0
    <3> QED
      BY <1>6, <1>f, <3>1 DEF WSJoinRoom, WsConnection
  <2> QED
    BY <1>5, <1>6, <2>1 DEF WSJoinRoom
<1>7. ASSUME NEW r \in WsRooms, NEW id \in WsIds, WSJoinRoomAgain(r, id)
      PROVE  Total(Counts(field)') <= wsGlobal'[field]
  BY <1>5, <1>7 DEF WSJoinRoomAgain
<1>8. CASE UNCHANGED wsVars
  BY <1>5, <1>8 DEF wsVars
<1> QED
  BY <1>1, <1>2, <1>3, <1>4, <1>6, <1>7, <1>8 DEF WsNext

\* n messages of b bytes together, and one more of c bytes.
LEMMA OneMoreMessage ==
    ASSUME NEW n \in Nat, NEW b \in Nat, NEW c \in Sizes, Averages(n, b)
    PROVE  Averages(n + 1, b + c)
<1> SUFFICES \E small, large \in Sizes : small * (n + 1) <= b + c /\ b + c <= large * (n + 1)
  BY DEF Averages
<1>0. Sizes \subseteq Nat /\ c \in Nat
  BY SizesAssumption
<1>1. CASE n = 0
  BY <1>0, <1>1 DEF Averages
<1>2. CASE n > 0
  <2>1. PICK small \in Sizes, large \in Sizes : small * n <= b /\ b <= large * n
    BY <1>2 DEF Averages
  <2>2. small \in Nat /\ large \in Nat
    BY <1>0
  <2>3. \E s \in Sizes : s <= small /\ s <= c
    BY <1>0, <2>2
  <2>4. PICK s \in Sizes : s <= small /\ s <= c
    BY <2>3
  <2>5. \E l \in Sizes : large <= l /\ c <= l
    BY <1>0, <2>2
  <2>6. PICK l \in Sizes : large <= l /\ c <= l
    BY <2>5
  <2>7. s \in Nat /\ l \in Nat
    BY <1>0
  <2>8. s * (n + 1) = s * n + s /\ l * (n + 1) = l * n + l
    BY <2>7
  <2>9. s * n <= small * n /\ large * n <= l * n
    BY <2>2, <2>4, <2>6, <2>7
  <2>10. /\ s * n \in Nat /\ small * n \in Nat /\ large * n \in Nat /\ l * n \in Nat
    BY <2>2, <2>7
  <2>11. s * (n + 1) <= b + c /\ b + c <= l * (n + 1)
    BY <1>0, <2>1, <2>4, <2>6, <2>7, <2>8, <2>9, <2>10
  <2> QED
    BY <2>11
<1> QED
  BY <1>1, <1>2

\* An average of whole numbers is between the bounds of what is averaged.
LEMMA AverageBetween ==
    ASSUME NEW n \in Nat \ {0}, NEW b \in Nat, NEW small \in Nat, NEW large \in Nat,
           small * n <= b, b <= large * n
    PROVE  b \div n \in small..large
<1> DEFINE q == b \div n
<1>1. q \in Int /\ q * n <= b /\ b < (q + 1) * n
  <2>1. q \in Int /\ b = (q * n) + (b % n) /\ b % n \in 0..n - 1
    OBVIOUS
  <2> QED
    BY <2>1
<1> HIDE DEF q
<1>2. ASSUME q < small PROVE FALSE
  <2>1. (q + 1) * n <= small * n
    BY <1>1, <1>2
  <2> QED
    BY <1>1, <2>1
<1>3. ASSUME large < q PROVE FALSE
  <2>1. (large + 1) * n <= q * n /\ (large + 1) * n = large * n + n
    BY <1>1, <1>3
  <2> QED
    BY <1>1, <2>1
<1> QED
  BY <1>1, <1>2, <1>3 DEF q

LEMMA BytesStep == WsInv /\ [WsNext]_wsVars => BytesTold'
<1> SUFFICES ASSUME WsTyped, BytesTold, [WsNext]_wsVars PROVE BytesTold'
  BY DEF WsInv
<1> DEFINE n == wsGlobal.sent + wsGlobal.recv
           bytes == wsGlobal.bytesSent + wsGlobal.bytesRecv
<1>0. /\ wsGlobal \in [{"connections", "active", "sent", "recv", "bytesSent", "bytesRecv"} -> Nat]
      /\ wsGlobal.sent \in Nat /\ wsGlobal.recv \in Nat
      /\ wsGlobal.bytesSent \in Nat /\ wsGlobal.bytesRecv \in Nat
  BY DEF WsTyped
<1>1. n \in Nat /\ bytes \in Nat /\ Averages(n, bytes)
  BY <1>0 DEF BytesTold
<1>2. ASSUME NEW b \in Sizes, n' = n + 1, bytes' = bytes + b PROVE BytesTold'
  <2>1. Averages(n + 1, bytes + b)
    <3> HIDE DEF n, bytes
    <3> QED
      BY <1>1, OneMoreMessage
  <2>2. Averages(n', bytes')
    BY <1>2, <2>1
  <2> QED
    BY <2>2 DEF BytesTold
<1>3. ASSUME UNCHANGED <<wsGlobal.sent, wsGlobal.recv, wsGlobal.bytesSent, wsGlobal.bytesRecv>>
      PROVE  BytesTold'
  BY <1>1, <1>3 DEF BytesTold
<1>4. ASSUME NEW id \in WsIds, NEW b \in Sizes, WSIncrementSent(id, b) PROVE BytesTold'
  <2>0. b \in Nat
    BY SizesAssumption
  <2>1. /\ wsGlobal'.sent = wsGlobal.sent + 1 /\ wsGlobal'.bytesSent = wsGlobal.bytesSent + b
        /\ wsGlobal'.recv = wsGlobal.recv /\ wsGlobal'.bytesRecv = wsGlobal.bytesRecv
    BY <1>0, <1>4 DEF WSIncrementSent, CountSent
  <2>2. n' = n + 1 /\ bytes' = bytes + b
    BY <1>0, <2>0, <2>1
  <2> QED
    BY <1>2, <2>2
<1>5. ASSUME NEW id \in WsIds, NEW b \in Sizes, WSIncrementRecv(id, b) PROVE BytesTold'
  <2>0. b \in Nat
    BY SizesAssumption
  <2>1. /\ wsGlobal'.recv = wsGlobal.recv + 1 /\ wsGlobal'.bytesRecv = wsGlobal.bytesRecv + b
        /\ wsGlobal'.sent = wsGlobal.sent /\ wsGlobal'.bytesSent = wsGlobal.bytesSent
    BY <1>0, <1>5 DEF WSIncrementRecv
  <2>2. n' = n + 1 /\ bytes' = bytes + b
    BY <1>0, <2>0, <2>1
  <2> QED
    BY <1>2, <2>2
<1>6. ASSUME NEW id \in WsIds, RegisterWSConnection(id) \/ UnregisterWSConnection(id)
      PROVE  BytesTold'
  BY <1>0, <1>3, <1>6 DEF RegisterWSConnection, UnregisterWSConnection
<1>7. ASSUME NEW r \in WsRooms, NEW id \in WsIds, WSJoinRoom(r, id) \/ WSJoinRoomAgain(r, id)
      PROVE  BytesTold'
  BY <1>3, <1>7 DEF WSJoinRoom, WSJoinRoomAgain
<1>8. CASE UNCHANGED wsVars
  BY <1>3, <1>8 DEF wsVars
<1> QED
  BY <1>4, <1>5, <1>6, <1>7, <1>8 DEF WsNext

\* The average that get_ws_stats tells is of the messages it counts.
LEMMA SocketsTell == WsInv => SocketsAgree
<1> SUFFICES ASSUME WsInv PROVE SocketsAgree
  OBVIOUS
<1> DEFINE n == wsGlobal.sent + wsGlobal.recv
           bytes == wsGlobal.bytesSent + wsGlobal.bytesRecv
<1>1. n \in Nat /\ bytes \in Nat /\ Averages(n, bytes)
  BY DEF WsInv, WsTyped, BytesTold
<1>2. n > 0 => GetWsStats.avgSize = bytes \div n
  BY DEF GetWsStats
<1>3. n > 0 => \E small, large \in Sizes : GetWsStats.avgSize \in small..large
  <2> SUFFICES ASSUME n > 0
               PROVE  \E small, large \in Sizes : GetWsStats.avgSize \in small..large
    OBVIOUS
  <2> HIDE DEF n, bytes
  <2>1. PICK small \in Sizes, large \in Sizes : small * n <= bytes /\ bytes <= large * n
    BY <1>1 DEF Averages
  <2>2. small \in Nat /\ large \in Nat /\ n \in Nat \ {0}
    BY <1>1, SizesAssumption
  <2>3. bytes \div n \in small..large
    BY <1>1, <2>1, <2>2, AverageBetween
  <2> QED
    BY <1>2, <2>3
<1>4. \A field \in Fields : Total(Counts(field)) <= wsGlobal[field]
  BY DEF WsInv, SumsTold, Fields
<1>5. /\ Total(Counts("sent")) <= wsGlobal.sent /\ Total(Counts("recv")) <= wsGlobal.recv
      /\ Total(Counts("bytesSent")) <= wsGlobal.bytesSent
      /\ Total(Counts("bytesRecv")) <= wsGlobal.bytesRecv
  BY <1>4 DEF Fields
<1>6. CountersAgree
  BY <1>3, <1>5 DEF CountersAgree, WsInv, ActiveTold
<1> QED
  BY <1>6 DEF WsInv, SocketsAgree

\* For any ids, rooms and sizes, in every order of calls: rooms and connections
\* agree, wsGlobal covers what the connections report, and the average of
\* get_ws_stats is that of its messages.
THEOREM SocketsTold == WsSpec => []SocketsAgree
<1>1. WsInv /\ [WsNext]_wsVars => WsInv'
  BY WsTypedStep, RoomsStep, ActiveStep, SumsStep, BytesStep DEF WsInv
<1> QED
  BY InitWs, <1>1, SocketsTell, PTL DEF WsSpec

\* Connections, rooms and those who left have the ids and names that are used.
WsNames ==
    DOMAIN wsConnections \subseteq WsIds /\ DOMAIN wsRooms \subseteq WsRooms /\ departed \subseteq WsIds

\* The types of the connections, the rooms and the totals.
LEMMA WsTypesKept == WsSpec => []WsTypeOK
<1>1. WsInit => WsNames
  BY DEF WsInit, WsNames
<1>2. WsNames /\ [WsNext]_wsVars => WsNames'
  <2> SUFFICES ASSUME WsNames, [WsNext]_wsVars PROVE WsNames'
    OBVIOUS
  <2>1. ASSUME NEW id \in WsIds, RegisterWSConnection(id) PROVE WsNames'
    BY <2>1 DEF RegisterWSConnection, Put, WsNames
  <2>2. ASSUME NEW id \in WsIds, UnregisterWSConnection(id) PROVE WsNames'
    BY <2>2 DEF UnregisterWSConnection, Drop, WithoutMember, WsNames
  <2>3. ASSUME NEW id \in WsIds, NEW b \in Sizes, WSIncrementSent(id, b) \/ WSIncrementRecv(id, b)
        PROVE  WsNames'
    BY <2>3 DEF WSIncrementSent, WSIncrementRecv, WsNames
  <2>4. ASSUME NEW id \in WsIds, NEW r \in WsRooms, WSJoinRoom(r, id) PROVE WsNames'
    <3>1. DOMAIN wsRooms' = DOMAIN wsRooms \cup {r}
      BY <2>4 DEF WSJoinRoom, Put
    <3> QED
      BY <2>4, <3>1 DEF WSJoinRoom, WsNames
  <2>5. ASSUME NEW id \in WsIds, NEW r \in WsRooms, WSJoinRoomAgain(r, id) PROVE WsNames'
    BY <2>5 DEF WSJoinRoomAgain, WsNames
  <2>6. CASE UNCHANGED wsVars
    BY <2>6 DEF wsVars, WsNames
  <2> QED
    BY <2>1, <2>2, <2>3, <2>4, <2>5, <2>6 DEF WsNext
<1>3. WsInv /\ [WsNext]_wsVars => WsInv'
  BY WsTypedStep, RoomsStep, ActiveStep, SumsStep, BytesStep DEF WsInv
<1>4. WsInv /\ WsNames => WsTypeOK
  BY DEF WsInv, WsTyped, WsConnection, WsRoom, WsNames, WsTypeOK
<1> QED
  BY InitWs, <1>1, <1>2, <1>3, <1>4, PTL DEF WsSpec

-----------------------------------------------------------------------------
(* Levels and lines of the log.                                            *)

USE LoggerAssumption, LogAssumption

\* A call that has looked a logger up has one, and a logger that cannot be set
\* has the level it began with.
LevelInv ==
    /\ LevelTypeOK
    /\ \A t \in LevelTools : setting[t] # NotSetting =>
          setting[t].logger \in 1..Registered /\ setting[t].level \in SetLevels
    /\ \A n \in 1..Registered : loggers[n].kind \notin Settable => loggers[n].own = "info"
    /\ LevelTold

LEMMA InitLevels == LevelInit => LevelInv
<1> SUFFICES ASSUME LevelInit PROVE LevelInv
  OBVIOUS
<1>1. /\ loggers = <<>> /\ Len(loggers) = 0 /\ reply = NoReply
      /\ setting = [t \in LevelTools |-> NotSetting]
  BY DEF LevelInit
<1>2. LevelTypeOK
  BY <1>1 DEF LevelTypeOK, Registered, NotSetting, NoReply
<1> QED
  BY <1>1, <1>2 DEF LevelInv, LevelTold, Registered

Logger == [kind : LoggerKinds, own : OwnLevels, level : SetLevels \cup {"info"}]

\* The own level of a logger that is set.
LEMMA LevelsMeant ==
    ASSUME NEW info \in Logger, NEW level \in SetLevels
    PROVE  /\ Meant(info, level) \in OwnLevels
           /\ info.kind \in {"named", "numbered"} => Meant(info, level) = level
           /\ info.kind = "zap" => Meant(info, level) = LevelAt(Number(level) + 1)
           /\ info.kind \notin Settable => Meant(info, level) = info.own
<1> DEFINE kind == info.kind
           own == info.own
<1>1. level \in {"debug", "info", "warn", "error"} /\ kind \in LoggerKinds /\ own \in OwnLevels
  BY DEF LoggerAssumption, Logger
<1> HIDE DEF kind, own
<1>2. Number(level) \in 0..3 /\ LevelAt(Number(level)) = level
  BY ONLY <1>1 DEF Number, LevelAt
<1>3. \A n \in 0..4 : LevelAt(n) \in OwnLevels
  BY DEF LevelAt, OwnLevels
<1> DEFINE number == Number(level)
<1> HIDE DEF number
<1>4. kind = "named" => Meant(info, level) = level
  BY DEF Meant, kind
<1>5. kind = "numbered" => Meant(info, level) = LevelAt(number - 0)
  BY DEF Meant, DebugOf, kind, number
<1>6. kind = "zap" => Meant(info, level) = LevelAt(number - (-1))
  BY DEF Meant, DebugOf, kind, number
<1>7. kind \notin Settable => Meant(info, level) = own
  BY DEF Meant, Settable, kind, own
<1>8. /\ number \in 0..3 /\ number - 0 = number /\ number - (-1) = number + 1
      /\ number \in 0..4 /\ number + 1 \in 0..4
  BY <1>2 DEF number
<1>9. LevelAt(number) = level
  BY <1>2 DEF number
<1>10. level \in OwnLevels
  BY <1>1 DEF OwnLevels
<1>11. kind \in {"named", "numbered", "zap"} \/ kind \notin Settable
  BY DEF Settable
<1>12. Meant(info, level) \in OwnLevels
  BY <1>1, <1>3, <1>4, <1>5, <1>6, <1>7, <1>8, <1>9, <1>10, <1>11
<1> QED
  BY <1>4, <1>5, <1>6, <1>7, <1>8, <1>9, <1>12 DEF number, kind, own

LEMMA LevelStep == LevelInv /\ [LevelNext]_levelVars => LevelInv'
<1> SUFFICES ASSUME LevelInv, [LevelNext]_levelVars PROVE LevelInv'
  OBVIOUS
<1>0. /\ loggers \in Seq(Logger) /\ Registered \in 0..MaxLoggers /\ Registered = Len(loggers)
      /\ DOMAIN loggers = 1..Registered
      /\ setting \in [LevelTools -> [logger : 0..MaxLoggers, level : SetLevels \cup {"info"}]]
  BY DEF LevelInv, LevelTypeOK, Registered, Logger
<1>1. ASSUME NEW kind \in LoggerKinds, RegisterLogger(kind) PROVE LevelInv'
  <2> DEFINE new == [kind |-> kind, own |-> "info", level |-> "info"]
  <2>1. /\ loggers' = Append(loggers, new) /\ reply' = NoReply /\ setting' = setting
        /\ Registered < MaxLoggers /\ new \in Logger
    BY <1>1 DEF RegisterLogger, Logger, OwnLevels
  <2>2. new.own = "info"
    OBVIOUS
  <2> HIDE DEF new
  <2>3. /\ loggers' \in Seq(Logger) /\ Registered' = Registered + 1 /\ Registered' \in 0..MaxLoggers
        /\ \A n \in 1..Registered : loggers'[n] = loggers[n]
        /\ loggers'[Registered + 1] = new
    BY <1>0, <2>1 DEF Registered
  <2>4. NoReply \in [logger : 0..MaxLoggers, level : SetLevels \cup {"info"}, updated : BOOLEAN]
    BY DEF NoReply
  <2>5. LevelTypeOK'
    BY <1>0, <2>1, <2>3, <2>4 DEF LevelTypeOK, Logger
  <2>6. \A n \in 1..Registered' : loggers'[n].kind \notin Settable => loggers'[n].own = "info"
    <3>1. \A n \in 1..Registered' : n \in 1..Registered \/ n = Registered + 1
      BY <1>0, <2>3
    <3> QED
      BY <2>2, <2>3, <3>1 DEF LevelInv
  <2>7. \A t \in LevelTools : setting'[t] # NotSetting =>
          setting'[t].logger \in 1..Registered' /\ setting'[t].level \in SetLevels
    BY <1>0, <2>1, <2>3 DEF LevelInv
  <2>8. LevelTold'
    BY <2>1 DEF LevelTold, NoReply
  <2> QED
    BY <2>5, <2>6, <2>7, <2>8 DEF LevelInv
<1>2. ASSUME NEW t \in LevelTools, NEW level \in SetLevels, LookUpLogger(t, level) PROVE LevelInv'
  <2> DEFINE call == [logger |-> Registered, level |-> level]
  <2>1. /\ setting' = [setting EXCEPT ![t] = call] /\ reply' = NoReply /\ loggers' = loggers
        /\ Registered > 0
    BY <1>2 DEF LookUpLogger
  <2>2. /\ call \in [logger : 0..MaxLoggers, level : SetLevels \cup {"info"}]
        /\ call.logger \in 1..Registered /\ call.level \in SetLevels
    BY <1>0, <2>1
  <2> HIDE DEF call
  <2>3. NoReply \in [logger : 0..MaxLoggers, level : SetLevels \cup {"info"}, updated : BOOLEAN]
    BY DEF NoReply
  <2>4. LevelTypeOK' /\ Registered' = Registered
    BY <1>0, <2>1, <2>2, <2>3 DEF LevelTypeOK, Logger, Registered
  <2>5. \A u \in LevelTools : setting'[u] = IF u = t THEN call ELSE setting[u]
    BY <1>0, <2>1
  <2>6. \A u \in LevelTools : setting'[u] # NotSetting =>
          setting'[u].logger \in 1..Registered /\ setting'[u].level \in SetLevels
    BY <2>2, <2>5 DEF LevelInv
  <2>7. LevelTold'
    BY <2>1 DEF LevelTold, NoReply
  <2> QED
    BY <2>1, <2>4, <2>6, <2>7 DEF LevelInv
<1>3. ASSUME NEW t \in LevelTools, SetLoggerLevel(t) PROVE LevelInv'
  <2> DEFINE n == setting[t].logger
             level == setting[t].level
             set == loggers[n].kind \in Settable
             info == [kind |-> loggers[n].kind, own |-> Meant(loggers[n], level), level |-> level]
  <2>1. /\ loggers' = [loggers EXCEPT ![n] = [kind |-> @.kind, own |-> Meant(@, level), level |-> level]]
        /\ reply' = [logger |-> n, level |-> level, updated |-> set]
        /\ setting' = [setting EXCEPT ![t] = NotSetting]
        /\ setting[t] # NotSetting
    BY <1>3 DEF SetLoggerLevel, Stored
  <2>2. n \in 1..Registered /\ level \in SetLevels /\ loggers[n] \in Logger /\ set \in BOOLEAN
    BY <1>0, <2>1 DEF LevelInv
  <2>3. /\ info \in Logger /\ info.kind = loggers[n].kind /\ info.level = level
        /\ info.kind \in {"named", "numbered"} => info.own = level
        /\ info.kind = "zap" => info.own = LevelAt(Number(level) + 1)
        /\ ~set => info.own = loggers[n].own
    <3>1. /\ info.kind = loggers[n].kind /\ info.level = level
          /\ info.own = Meant(loggers[n], level)
      OBVIOUS
    <3>2. /\ Meant(loggers[n], level) \in OwnLevels
          /\ loggers[n].kind \in {"named", "numbered"} => Meant(loggers[n], level) = level
          /\ loggers[n].kind = "zap" => Meant(loggers[n], level) = LevelAt(Number(level) + 1)
          /\ loggers[n].kind \notin Settable => Meant(loggers[n], level) = loggers[n].own
      BY <2>2, LevelsMeant
    <3>3. info \in Logger
      BY <2>2, <3>2 DEF Logger
    <3> HIDE DEF info
    <3> QED
      BY <3>1, <3>2, <3>3
  <2>4. loggers' = [loggers EXCEPT ![n] = info]
    BY <1>0, <2>1, <2>2
  <2> HIDE DEF info
  <2>5. /\ loggers' \in Seq(Logger) /\ Registered' = Registered /\ loggers'[n] = info
        /\ \A m \in 1..Registered : m # n => loggers'[m] = loggers[m]
    BY <1>0, <2>2, <2>3, <2>4 DEF Registered
  <2>6. reply' \in [logger : 0..MaxLoggers, level : SetLevels \cup {"info"}, updated : BOOLEAN]
    <3>1. n \in 0..MaxLoggers
      BY <1>0, <2>2
    <3> HIDE DEF n, level, set
    <3> QED
      BY <2>1, <2>2, <3>1
  <2>7. NotSetting \in [logger : 0..MaxLoggers, level : SetLevels \cup {"info"}]
    BY DEF NotSetting
  <2>8. setting' \in [LevelTools -> [logger : 0..MaxLoggers, level : SetLevels \cup {"info"}]]
    BY <1>0, <2>1, <2>7
  <2>9. LevelTypeOK'
    BY <1>0, <2>5, <2>6, <2>8 DEF LevelTypeOK, Logger
  <2>10. \A m \in 1..Registered : loggers'[m].kind \notin Settable => loggers'[m].own = "info"
    <3>1. info.kind \notin Settable => info.own = "info"
      BY <2>2, <2>3 DEF LevelInv
    <3> QED
      BY <2>5, <3>1 DEF LevelInv
  <2>11. \A u \in LevelTools : setting'[u] # NotSetting => setting'[u] = setting[u]
    BY <1>0, <2>1
  <2>12. \A u \in LevelTools : setting'[u] # NotSetting =>
          setting'[u].logger \in 1..Registered /\ setting'[u].level \in SetLevels
    BY <2>11 DEF LevelInv
  <2>13. LevelTold'
    <3> DEFINE latest == loggers'[Registered']
               shown == GetLoggerLevel(Registered)'
               answer == reply'
    <3> SUFFICES ASSUME answer.logger = Registered'
                 PROVE  /\ latest.kind \in {"named", "numbered", "plain"} => shown = answer.level
                        /\ latest.kind = "zap" => shown \in {answer.level, LevelAt(Number(answer.level) + 1)}
                        /\ answer.updated <=> latest.kind \in Settable
                        /\ ~answer.updated => latest.own = "info"
      BY DEF LevelTold
    <3>1. n = Registered /\ answer.level = level /\ (answer.updated <=> set)
      BY <2>1, <2>5
    <3>2. latest = info
      BY <2>5, <3>1
    <3>3. set <=> info.kind \in Settable
      BY <2>3
    <3>4. shown = IF info.kind = "plain" THEN info.level ELSE info.own
      BY <2>5, <3>1, <3>2 DEF GetLoggerLevel
    <3>5. info.kind \notin Settable => info.own = "info"
      BY <2>2, <2>3 DEF LevelInv
    <3> HIDE DEF n, level, set, shown, answer, latest
    <3> QED
      BY <2>3, <3>1, <3>2, <3>3, <3>4, <3>5
  <2> QED
    BY <2>5, <2>9, <2>10, <2>12, <2>13 DEF LevelInv
<1>4. CASE UNCHANGED levelVars
  <2>1. LevelTypeOK' /\ Registered' = Registered
    BY <1>4 DEF LevelInv, LevelTypeOK, levelVars, Registered
  <2>2. LevelTold'
    BY <1>4 DEF LevelInv, LevelTold, levelVars, Registered, GetLoggerLevel
  <2> QED
    BY <1>4, <2>1, <2>2 DEF LevelInv, levelVars
<1> QED
  BY <1>1, <1>2, <1>3, <1>4 DEF LevelNext

\* What is written, and what stands for it.
Symbols == LogSymbols \cup {"record"}

LogTyped ==
    /\ partial \in Seq(Symbols) /\ locked \in Seq(Symbols)
    /\ captured \in Seq(Entries)
    /\ logging \in [LogGoroutines -> [at : {"none", "cut", "inner"}, piece : Seq(Symbols)]]
    /\ passedOn \in Seq(Seq(Symbols))
    /\ logCalls \in 0..MaxLogCalls

\* One goroutine at most is in the critical section of Write, and when none is,
\* no line break waits.
WriterLocks ==
    /\ \A g \in LogGoroutines : logging[g].at = "none" => logging[g] = NotLogging
    /\ \A g, h \in LogGoroutines : logging[g].at = "cut" /\ logging[h].at = "cut" => g = h
    /\ (\A g \in LogGoroutines : logging[g].at # "cut") =>
          \A i \in DOMAIN partial : partial[i] # "nl"

\* What was written is in whole lines, but for the rest.
LinesKept ==
    /\ FlattenSeq(WrittenLines) \in Seq(Symbols)
    /\ FlattenSeq(WrittenLines) \o partial = locked

LevelsOccur ==
    \A i \in CapturedBy("writer") :
       captured[i].level # "info" =>
          \E k \in DOMAIN captured[i].line : captured[i].level \in Keywords(captured[i].line[k])

\* The goroutines in a call, and how much each will pass on.
InCall == {g \in LogGoroutines : logging[g] # NotLogging}

ToPass == [g \in InCall |-> Len(logging[g].piece)]

\* What was written or recorded is passed on, or will be.
PassesOn ==
    /\ IsFiniteSet(InCall) /\ Len(passedOn) + Cardinality(InCall) = logCalls
    /\ FlattenSeq(passedOn) \in Seq(Symbols)
    /\ Len(FlattenSeq(passedOn)) + Total(ToPass) = Len(locked) + Cardinality(CapturedBy("slog"))

LogInv == LogTyped /\ WriterLocks /\ LinesKept /\ LevelsOccur /\ PassesOn

\* Where the first line break is, if there is one.
LEMMA LineBreakIs ==
    ASSUME NEW s \in Seq(Symbols)
    PROVE  /\ LineBreak(s) \in 0..Len(s)
           /\ LineBreak(s) = 0 <=> \A i \in DOMAIN s : s[i] # "nl"
           /\ LineBreak(s) > 0 => /\ s[LineBreak(s)] = "nl"
                                  /\ \A i \in 1..LineBreak(s) - 1 : s[i] # "nl"
<1> DEFINE I == {i \in 1..Len(s) : s[i] = "nl"}
<1>1. LineBreak(s) = IF I # {} THEN Min(I) ELSE 0
  BY DEF LineBreak, SelectInSeq
<1>2. Len(s) \in Nat /\ DOMAIN s = 1..Len(s)
  OBVIOUS
<1>3. CASE I = {}
  BY <1>1, <1>2, <1>3
<1>4. CASE I # {}
  <2>1. \E x \in I : \A y \in I : x <= y
    <3>1. I \in SUBSET Nat
      OBVIOUS
    <3> HIDE DEF I
    <3> QED
      BY <1>4, <3>1, LeastNumber
  <2>2. Min(I) \in I /\ \A y \in I : Min(I) <= y
    <3> HIDE DEF I
    <3> QED
      BY <2>1 DEF Min
  <2> DEFINE m == Min(I)
  <2>3. LineBreak(s) = m /\ m \in I /\ \A y \in I : m <= y
    BY <1>1, <1>4, <2>2
  <2> HIDE DEF m
  <2>4. m \in 1..Len(s) /\ s[m] = "nl"
    BY <2>3
  <2>5. \A i \in 1..m - 1 : s[i] # "nl"
    BY <1>2, <2>3, <2>4
  <2> QED
    BY <1>2, <2>3, <2>4, <2>5
<1> QED
  BY <1>3, <1>4

\* What CaptureLine cuts in two is nothing but the line, its end and the rest.
LEMMA LineIsCut ==
    ASSUME NEW s \in Seq(Symbols), LineBreak(s) > 0
    PROVE  LET line == SubSeq(s, 1, LineBreak(s) - 1)
           IN  /\ line \in Seq(LineSymbols) /\ Append(line, "nl") \in Seq(Symbols)
               /\ AfterLine(s) \in Seq(Symbols)
               /\ Append(line, "nl") \o AfterLine(s) = s
<1> DEFINE m == LineBreak(s)
           line == SubSeq(s, 1, m - 1)
           rest == AfterLine(s)
<1>1. /\ m \in 1..Len(s) /\ s[m] = "nl" /\ \A i \in 1..m - 1 : s[i] # "nl"
      /\ Len(s) \in Nat /\ \A i \in 1..Len(s) : s[i] \in Symbols
  BY LineBreakIs
<1>2. rest = SubSeq(s, m + 1, Len(s))
  BY DEF AfterLine
<1> HIDE DEF m, rest
<1>3. Len(line) = m - 1 /\ \A i \in 1..m - 1 : line[i] = s[i] /\ line[i] \in LineSymbols
  <2>1. \A i \in 1..m - 1 : s[i] \in Symbols /\ s[i] # "nl"
    BY <1>1
  <2>2. \A x \in Symbols : x # "nl" => x \in LineSymbols
    BY DEF Symbols, LineSymbols
  <2> QED
    BY <1>1, <2>1, <2>2
<1>4. line = [i \in 1..m - 1 |-> s[i]]
  BY <1>1
<1>5. line \in Seq(LineSymbols)
  <2>1. m - 1 \in Nat
    BY <1>1
  <2>2. \A i \in 1..m - 1 : s[i] \in LineSymbols
    BY <1>3
  <2> HIDE DEF line
  <2> QED
    BY <1>4, <2>1, <2>2
<1>6. Append(line, "nl") \in Seq(Symbols) /\ rest \in Seq(Symbols)
  <2>1. LineSymbols \subseteq Symbols /\ "nl" \in Symbols
    BY DEF Symbols, LineSymbols, LogSymbols
  <2>2. line \in Seq(Symbols)
    BY <1>5, <2>1
  <2> HIDE DEF line
  <2> QED
    BY <1>1, <1>2, <2>1, <2>2
<1>7. Append(line, "nl") = SubSeq(s, 1, m)
  <2>1. Append(line, "nl") = [i \in 1..m |-> s[i]]
    BY <1>1, <1>3
  <2>2. SubSeq(s, 1, m) = [i \in 1..m |-> s[i]]
    BY <1>1
  <2> QED
    BY <2>1, <2>2
<1>8. SubSeq(s, 1, m) \o rest = s
  <2>1. 1 \in 1..Len(s) + 1 /\ m \in (1 - 1)..Len(s) /\ Len(s) \in m..Len(s)
    BY <1>1
  <2>2. SubSeq(s, 1, m) \o SubSeq(s, m + 1, Len(s)) = SubSeq(s, 1, Len(s))
    BY <2>1, ConcatAdjacentSubSeq, Zenon
  <2>3. SubSeq(s, 1, Len(s)) = s
    OBVIOUS
  <2> QED
    BY <1>2, <2>2, <2>3
<1> QED
  BY <1>5, <1>6, <1>7, <1>8 DEF m, rest

\* A line's level is that of a word in it.
LEMMA LevelOccurs ==
    ASSUME NEW line, ParseLogLevel(line) # "info"
    PROVE  \E k \in DOMAIN line : ParseLogLevel(line) \in Keywords(line[k])
<1> DEFINE found == UNION {Keywords(line[i]) : i \in DOMAIN line}
<1>1. \/ ParseLogLevel(line) \in found
      \/ line = <<"json">> /\ ParseLogLevel(line) = "error"
  BY DEF ParseLogLevel
<1>2. \A level \in found : \E k \in DOMAIN line : level \in Keywords(line[k])
  OBVIOUS
<1>3. "error" \in Keywords("json")
  BY DEF Keywords
<1>4. line = <<"json">> => 1 \in DOMAIN line /\ line[1] = "json"
  OBVIOUS
<1> QED
  BY <1>1, <1>2, <1>3, <1>4

LEMMA LevelIsKnown == \A line : ParseLogLevel(line) \in {"debug", "info", "error"}
  BY DEF ParseLogLevel

LEMMA InitLog == LogInit => LogInv
<1> SUFFICES ASSUME LogInit PROVE LogInv
  OBVIOUS
<1>1. /\ partial = <<>> /\ captured = <<>> /\ locked = <<>> /\ passedOn = <<>> /\ logCalls = 0
      /\ logging = [g \in LogGoroutines |-> NotLogging]
  BY DEF LogInit
<1>2. LogTyped
  <2>1. /\ <<>> \in Seq(Symbols) /\ <<>> \in Seq(Entries) /\ <<>> \in Seq(Seq(Symbols))
        /\ 0 \in 0..MaxLogCalls
    OBVIOUS
  <2>2. NotLogging \in [at : {"none", "cut", "inner"}, piece : Seq(Symbols)]
    BY <2>1 DEF NotLogging
  <2> QED
    BY <1>1, <2>1, <2>2 DEF LogTyped
<1>3. WriterLocks
  <2>1. \A g \in LogGoroutines : logging[g] = NotLogging
    BY <1>1
  <2>2. NotLogging.at = "none"
    BY DEF NotLogging
  <2> QED
    BY <1>1, <2>1, <2>2 DEF WriterLocks
<1>4. CapturedBy("writer") = {} /\ CapturedBy("slog") = {}
  BY <1>1 DEF CapturedBy
<1>5. LinesKept
  <2>1. Filtered(captured, {}) = <<>>
    BY FS_EmptySet DEF Filtered
  <2>2. WrittenLines = <<>>
    <3>1. Filtered(captured, CapturedBy("writer")) = <<>>
      BY <1>4, <2>1
    <3>2. DOMAIN <<>> = {} /\ [i \in {} |-> Append(<<>>[i].line, "nl")] = <<>>
      OBVIOUS
    <3> QED
      BY <3>1, <3>2 DEF WrittenLines
  <2>3. FlattenSeq(WrittenLines) = <<>>
    BY <2>2, FlattenNothing
  <2>4. <<>> \in Seq(Symbols) /\ <<>> \o <<>> = <<>>
    OBVIOUS
  <2> QED
    BY <1>1, <2>3, <2>4 DEF LinesKept
<1>6. LevelsOccur
  BY <1>4 DEF LevelsOccur
<1>7. PassesOn
  <2>1. InCall = {} /\ DOMAIN ToPass = {}
    BY <1>1 DEF InCall, ToPass
  <2>2. IsFiniteSet(InCall) /\ Cardinality(InCall) = 0 /\ Total(ToPass) = 0
    BY <2>1, FS_EmptySet, NothingCounted
  <2>3. FlattenSeq(passedOn) = <<>> /\ Cardinality(CapturedBy("slog")) = 0
    BY <1>1, <1>4, FlattenNothing, FS_EmptySet
  <2>4. FlattenSeq(passedOn) \in Seq(Symbols) /\ Len(FlattenSeq(passedOn)) = 0
    BY <2>3
  <2>5. Len(passedOn) = 0 /\ Len(locked) = 0 /\ logCalls = 0
    BY <1>1
  <2> QED
    BY <2>2, <2>3, <2>4, <2>5 DEF PassesOn
<1> QED
  BY <1>2, <1>3, <1>5, <1>6, <1>7 DEF LogInv

LEMMA PieceIsKnown == \A piece \in LogPieces : piece \in Seq(Symbols)
<1>1. LogSymbols \subseteq Symbols
  BY DEF Symbols
<1> SUFFICES ASSUME NEW piece \in LogPieces PROVE piece \in Seq(Symbols)
  OBVIOUS
<1>2. piece \in Seq(LogSymbols)
  OBVIOUS
<1> QED
  BY <1>1, <1>2

\* The entry of a line.
Captured(line) == [line |-> line, level |-> ParseLogLevel(line), source |-> "writer"]

Recorded == [line |-> <<"record">>, level |-> "INFO", source |-> "slog"]

LEMMA EntriesAre ==
    /\ \A line \in Seq(LineSymbols) : Captured(line) \in Entries
    /\ Recorded \in Entries
<1>1. ASSUME NEW line \in Seq(LineSymbols) PROVE Captured(line) \in Entries
  <2>1. ParseLogLevel(line) \in {"debug", "info", "error", "INFO"}
    BY LevelIsKnown
  <2> QED
    BY <2>1 DEF Captured, Entries
<1>2. <<"record">> \in Seq(LineSymbols)
  <2>1. "record" \in LineSymbols
    BY DEF LineSymbols
  <2> QED
    BY <2>1
<1> QED
  BY <1>1, <1>2 DEF Recorded, Entries

\* What each action of a goroutine does, by variable.
LEMMA LogActions ==
    ASSUME NEW g \in LogGoroutines
    PROVE  /\ \A piece : Write(g, piece) =>
                 /\ \A h \in LogGoroutines : logging[h].at # "cut"
                 /\ logging[g] = NotLogging /\ logCalls < MaxLogCalls /\ logCalls' = logCalls + 1
                 /\ logging' = [logging EXCEPT ![g] = [at |-> "cut", piece |-> piece]]
                 /\ partial' = partial \o piece /\ locked' = locked \o piece
                 /\ captured' = captured /\ passedOn' = passedOn
           /\ CaptureLine(g) =>
                 /\ logging[g].at = "cut" /\ LineBreak(partial) > 0
                 /\ captured' = Append(captured, Captured(SubSeq(partial, 1, LineBreak(partial) - 1)))
                 /\ partial' = AfterLine(partial)
                 /\ logging' = logging /\ locked' = locked /\ passedOn' = passedOn
                 /\ logCalls' = logCalls
           /\ WriteUnlocks(g) =>
                 /\ logging[g].at = "cut" /\ LineBreak(partial) = 0
                 /\ logging' = [logging EXCEPT ![g].at = "inner"]
                 /\ partial' = partial /\ captured' = captured /\ locked' = locked
                 /\ passedOn' = passedOn /\ logCalls' = logCalls
           /\ Handle(g) =>
                 /\ logging[g] = NotLogging /\ logCalls < MaxLogCalls /\ logCalls' = logCalls + 1
                 /\ logging' = [logging EXCEPT ![g] = [at |-> "inner", piece |-> <<"record">>]]
                 /\ captured' = Append(captured, Recorded)
                 /\ partial' = partial /\ locked' = locked /\ passedOn' = passedOn
           /\ PassOn(g) =>
                 /\ logging[g].at = "inner"
                 /\ passedOn' = Append(passedOn, logging[g].piece)
                 /\ logging' = [logging EXCEPT ![g] = NotLogging]
                 /\ partial' = partial /\ captured' = captured /\ locked' = locked
                 /\ logCalls' = logCalls
<1>1. \A piece : Write(g, piece) =>
         /\ \A h \in LogGoroutines : logging[h].at # "cut"
         /\ logging[g] = NotLogging /\ logCalls < MaxLogCalls /\ logCalls' = logCalls + 1
         /\ logging' = [logging EXCEPT ![g] = [at |-> "cut", piece |-> piece]]
         /\ partial' = partial \o piece /\ locked' = locked \o piece
         /\ captured' = captured /\ passedOn' = passedOn
  BY DEF Write, Call
<1>2. Handle(g) =>
         /\ logging[g] = NotLogging /\ logCalls < MaxLogCalls /\ logCalls' = logCalls + 1
         /\ logging' = [logging EXCEPT ![g] = [at |-> "inner", piece |-> <<"record">>]]
         /\ captured' = Append(captured, Recorded)
         /\ partial' = partial /\ locked' = locked /\ passedOn' = passedOn
  BY DEF Handle, Call, Recorded
<1> QED
  BY <1>1, <1>2 DEF CaptureLine, Captured, WriteUnlocks, PassOn

LEMMA LogTypedStep == LogTyped /\ [LogNext]_logVars => LogTyped'
<1> SUFFICES ASSUME LogTyped, [LogNext]_logVars PROVE LogTyped'
  OBVIOUS
<1> DEFINE Calling == [at : {"none", "cut", "inner"}, piece : Seq(Symbols)]
<1>0. /\ partial \in Seq(Symbols) /\ locked \in Seq(Symbols) /\ captured \in Seq(Entries)
      /\ logging \in [LogGoroutines -> Calling] /\ passedOn \in Seq(Seq(Symbols))
      /\ logCalls \in 0..MaxLogCalls
  BY DEF LogTyped
<1>1. ASSUME NEW at \in {"cut", "inner"}, NEW piece \in Seq(Symbols)
      PROVE  [at |-> at, piece |-> piece] \in Calling
  OBVIOUS
<1>2. \A x \in LogGoroutines : logging[x].piece \in Seq(Symbols)
  BY <1>0
<1>3. \A x \in LogGoroutines : [logging[x] EXCEPT !.at = "inner"] \in Calling
  BY <1>0
<1>4. NotLogging \in Calling
  BY DEF NotLogging
<1>5. <<"record">> \in Seq(Symbols)
  <2>1. "record" \in Symbols
    BY DEF Symbols
  <2> QED
    BY <2>1
<1>6. ASSUME NEW g \in LogGoroutines, NEW call \in Calling, logging' = [logging EXCEPT ![g] = call]
      PROVE  logging' \in [LogGoroutines -> Calling]
  BY <1>0, <1>6
<1>7. logCalls < MaxLogCalls /\ logCalls' = logCalls + 1 => logCalls' \in 0..MaxLogCalls
  BY <1>0
<1> SUFFICES /\ partial' \in Seq(Symbols) /\ locked' \in Seq(Symbols) /\ captured' \in Seq(Entries)
             /\ logging' \in [LogGoroutines -> Calling] /\ passedOn' \in Seq(Seq(Symbols))
             /\ logCalls' \in 0..MaxLogCalls
  BY DEF LogTyped
<1> HIDE DEF Calling
<1>8. CASE \E g \in LogGoroutines : \E piece \in LogPieces : Write(g, piece)
  <2>1. PICK g \in LogGoroutines, piece \in LogPieces : Write(g, piece)
    BY <1>8
  <2> DEFINE call == [at |-> "cut", piece |-> piece]
  <2>2. /\ logging' = [logging EXCEPT ![g] = call]
        /\ logCalls < MaxLogCalls /\ logCalls' = logCalls + 1
        /\ partial' = partial \o piece /\ locked' = locked \o piece
        /\ captured' = captured /\ passedOn' = passedOn
    BY <2>1, LogActions
  <2>3. piece \in Seq(Symbols) /\ call \in Calling
    BY <1>1, PieceIsKnown
  <2> HIDE DEF call
  <2>4. logging' \in [LogGoroutines -> Calling]
    BY <1>6, <2>2, <2>3
  <2> QED
    BY <1>0, <1>7, <2>2, <2>3, <2>4
<1>9. CASE \E g \in LogGoroutines : CaptureLine(g)
  <2>0. PICK g \in LogGoroutines : CaptureLine(g)
    BY <1>9
  <2> DEFINE line == SubSeq(partial, 1, LineBreak(partial) - 1)
  <2>1. line \in Seq(LineSymbols) /\ AfterLine(partial) \in Seq(Symbols)
    BY <1>0, <2>0, LineIsCut, LogActions
  <2>2. Captured(line) \in Entries
    BY <2>1, EntriesAre
  <2>3. captured' = Append(captured, Captured(line))
    BY <2>0, LogActions
  <2> HIDE DEF line
  <2> QED
    BY <1>0, <2>0, <2>1, <2>2, <2>3, LogActions
<1>10. CASE \E g \in LogGoroutines : WriteUnlocks(g)
  <2>0. PICK g \in LogGoroutines : WriteUnlocks(g)
    BY <1>10
  <2>1. logging' = [logging EXCEPT ![g] = [logging[g] EXCEPT !.at = "inner"]]
    BY <2>0, LogActions
  <2> QED
    BY <1>0, <1>3, <2>0, <2>1, LogActions
<1>11. CASE \E g \in LogGoroutines : Handle(g)
  <2>1. PICK g \in LogGoroutines : Handle(g)
    BY <1>11
  <2> DEFINE call == [at |-> "inner", piece |-> <<"record">>]
  <2>2. /\ logging' = [logging EXCEPT ![g] = call]
        /\ logCalls < MaxLogCalls /\ logCalls' = logCalls + 1
        /\ captured' = Append(captured, Recorded)
        /\ partial' = partial /\ locked' = locked /\ passedOn' = passedOn
    BY <2>1, LogActions
  <2>3. call \in Calling
    BY <1>1, <1>5
  <2> HIDE DEF call
  <2>4. logging' \in [LogGoroutines -> Calling]
    BY <1>6, <2>2, <2>3
  <2> QED
    BY <1>0, <1>7, <2>2, <2>4, EntriesAre
<1>12. CASE \E g \in LogGoroutines : PassOn(g)
  <2>1. PICK g \in LogGoroutines : PassOn(g)
    BY <1>12
  <2>2. /\ logging' = [logging EXCEPT ![g] = NotLogging]
        /\ passedOn' = Append(passedOn, logging[g].piece)
        /\ partial' = partial /\ captured' = captured /\ locked' = locked /\ logCalls' = logCalls
    BY <2>1, LogActions
  <2>3. logging' \in [LogGoroutines -> Calling]
    BY <1>4, <1>6, <2>2
  <2>4. logging[g].piece \in Seq(Symbols)
    BY <1>2
  <2> QED
    BY <1>0, <2>2, <2>3, <2>4
<1>13. CASE UNCHANGED logVars
  BY <1>0, <1>13 DEF logVars
<1> QED
  BY <1>8, <1>9, <1>10, <1>11, <1>12, <1>13 DEF LogNext

LEMMA LocksStep == LogInv /\ [LogNext]_logVars => WriterLocks'
<1> SUFFICES ASSUME LogInv, [LogNext]_logVars PROVE WriterLocks'
  OBVIOUS
<1>0. /\ \A x \in LogGoroutines : logging[x].at = "none" => logging[x] = NotLogging
      /\ \A x, y \in LogGoroutines : logging[x].at = "cut" /\ logging[y].at = "cut" => x = y
      /\ (\A x \in LogGoroutines : logging[x].at # "cut") => \A i \in DOMAIN partial : partial[i] # "nl"
  BY DEF LogInv, WriterLocks
<1>1. DOMAIN logging = LogGoroutines /\ partial \in Seq(Symbols) /\ NotLogging.at = "none"
  BY DEF LogInv, LogTyped, NotLogging
<1> SUFFICES /\ \A x \in LogGoroutines : logging'[x].at = "none" => logging'[x] = NotLogging
             /\ \A x, y \in LogGoroutines : logging'[x].at = "cut" /\ logging'[y].at = "cut" => x = y
             /\ (\A x \in LogGoroutines : logging'[x].at # "cut") =>
                   \A i \in DOMAIN partial' : partial'[i] # "nl"
  BY DEF WriterLocks
<1>2. CASE \E g \in LogGoroutines : \E piece \in LogPieces : Write(g, piece)
  <2>1. PICK g \in LogGoroutines, piece \in LogPieces : Write(g, piece)
    BY <1>2
  <2> DEFINE call == [at |-> "cut", piece |-> piece]
  <2>2. logging' = [logging EXCEPT ![g] = call] /\ call.at = "cut"
        /\ \A h \in LogGoroutines : logging[h].at # "cut"
    BY <2>1, LogActions
  <2> HIDE DEF call
  <2> QED
    BY <1>0, <1>1, <2>2
<1>3. CASE \E g \in LogGoroutines : CaptureLine(g)
  <2>1. PICK g \in LogGoroutines : CaptureLine(g)
    BY <1>3
  <2>2. logging[g].at = "cut" /\ logging' = logging
    BY <2>1, LogActions
  <2> QED
    BY <1>0, <2>2
<1>4. CASE \E g \in LogGoroutines : WriteUnlocks(g)
  <2>1. PICK g \in LogGoroutines : WriteUnlocks(g)
    BY <1>4
  <2>2. /\ logging' = [logging EXCEPT ![g].at = "inner"] /\ LineBreak(partial) = 0
        /\ partial' = partial /\ logging[g].at = "cut"
    BY <2>1, LogActions
  <2>3. \A i \in DOMAIN partial' : partial'[i] # "nl"
    BY <1>1, <2>2, LineBreakIs
  <2>4. logging'[g].at = "inner" /\ \A x \in LogGoroutines : x # g => logging'[x] = logging[x]
    <3>1. logging[g].at = "cut" /\ logging \in [LogGoroutines -> [at : {"none", "cut", "inner"}, piece : Seq(Symbols)]]
      BY <2>2 DEF LogInv, LogTyped
    <3> QED
      BY <2>2, <3>1
  <2> QED
    BY <1>0, <2>2, <2>3, <2>4
<1>5. CASE \E g \in LogGoroutines : Handle(g)
  <2>1. PICK g \in LogGoroutines : Handle(g)
    BY <1>5
  <2> DEFINE call == [at |-> "inner", piece |-> <<"record">>]
  <2>2. logging' = [logging EXCEPT ![g] = call] /\ call.at = "inner" /\ partial' = partial
        /\ logging[g] = NotLogging
    BY <2>1, LogActions
  <2> HIDE DEF call
  <2> QED
    BY <1>0, <1>1, <2>2
<1>6. CASE \E g \in LogGoroutines : PassOn(g)
  <2>1. PICK g \in LogGoroutines : PassOn(g)
    BY <1>6
  <2>2. logging' = [logging EXCEPT ![g] = NotLogging] /\ partial' = partial /\ logging[g].at = "inner"
    BY <2>1, LogActions
  <2> QED
    BY <1>0, <1>1, <2>2
<1>7. CASE UNCHANGED logVars
  BY <1>0, <1>7 DEF logVars
<1> QED
  BY <1>2, <1>3, <1>4, <1>5, <1>6, <1>7 DEF LogNext

\* One entry more.
LEMMA OneEntryMore ==
    ASSUME NEW e \in Entries, LogTyped, captured' = Append(captured, e), NEW source
    PROVE  /\ CapturedBy(source)' = IF e.source = source
                                    THEN CapturedBy(source) \cup {Len(captured) + 1}
                                    ELSE CapturedBy(source)
           /\ CapturedBy(source) \in SUBSET (DOMAIN captured)
           /\ \A i \in CapturedBy(source) : captured'[i] = captured[i]
           /\ captured'[Len(captured) + 1] = e
<1>1. /\ captured \in Seq(Entries) /\ Len(captured) \in Nat /\ DOMAIN captured = 1..Len(captured)
      /\ DOMAIN captured' = 1..Len(captured) + 1
      /\ captured'[Len(captured) + 1] = e
      /\ \A i \in 1..Len(captured) : captured'[i] = captured[i]
  BY DEF LogTyped
<1>2. \A i \in 1..Len(captured) + 1 : i \in 1..Len(captured) \/ i = Len(captured) + 1
  BY <1>1
<1>3. CapturedBy(source)' = {i \in 1..Len(captured) + 1 : captured'[i].source = source}
  BY <1>1 DEF CapturedBy
<1>4. CapturedBy(source) = {i \in 1..Len(captured) : captured[i].source = source}
  BY <1>1 DEF CapturedBy
<1>5. CASE e.source = source
  <2>1. \A i : i \in CapturedBy(source)' <=> i \in CapturedBy(source) \/ i = Len(captured) + 1
    BY <1>1, <1>2, <1>3, <1>4, <1>5
  <2> QED
    BY <1>1, <1>4, <1>5, <2>1
<1>6. CASE e.source # source
  <2>1. \A i : i \in CapturedBy(source)' <=> i \in CapturedBy(source)
    BY <1>1, <1>2, <1>3, <1>4, <1>6
  <2> QED
    BY <1>1, <1>4, <1>6, <2>1
<1> QED
  BY <1>5, <1>6

LEMMA OccurStep == LogInv /\ [LogNext]_logVars => LevelsOccur'
<1> SUFFICES ASSUME LogInv, [LogNext]_logVars PROVE LevelsOccur'
  OBVIOUS
<1> DEFINE Occurs(e) == e.level # "info" => \E k \in DOMAIN e.line : e.level \in Keywords(e.line[k])
<1>0. LogTyped /\ \A i \in CapturedBy("writer") : Occurs(captured[i])
  BY DEF LogInv, LevelsOccur
<1> SUFFICES \A i \in CapturedBy("writer")' : Occurs(captured'[i])
  BY DEF LevelsOccur
<1>1. \A line : Occurs(Captured(line))
  BY LevelOccurs DEF Captured
<1> HIDE DEF Occurs
<1>2. ASSUME NEW e \in Entries, captured' = Append(captured, e), e.source = "writer" => Occurs(e)
      PROVE  \A i \in CapturedBy("writer")' : Occurs(captured'[i])
  <2>1. /\ CapturedBy("writer")' = IF e.source = "writer"
                                   THEN CapturedBy("writer") \cup {Len(captured) + 1}
                                   ELSE CapturedBy("writer")
        /\ \A i \in CapturedBy("writer") : captured'[i] = captured[i]
        /\ captured'[Len(captured) + 1] = e
    BY <1>0, <1>2, OneEntryMore
  <2> QED
    BY <1>0, <1>2, <2>1
<1>3. CASE captured' = captured
  BY <1>0, <1>3 DEF CapturedBy
<1>4. ASSUME NEW g \in LogGoroutines, CaptureLine(g)
      PROVE  \A i \in CapturedBy("writer")' : Occurs(captured'[i])
  <2> DEFINE line == SubSeq(partial, 1, LineBreak(partial) - 1)
  <2>1. captured' = Append(captured, Captured(line))
    BY <1>4, LogActions
  <2>2. Captured(line) \in Entries
    BY <1>0, <1>4, LineIsCut, LogActions, EntriesAre DEF LogTyped
  <2> HIDE DEF line
  <2> QED
    BY <1>1, <1>2, <2>1, <2>2
<1>5. ASSUME NEW g \in LogGoroutines, Handle(g)
      PROVE  \A i \in CapturedBy("writer")' : Occurs(captured'[i])
  <2>1. captured' = Append(captured, Recorded) /\ Recorded.source # "writer"
    BY <1>5, LogActions DEF Recorded
  <2> QED
    BY <1>2, <2>1, EntriesAre
<1>6. ASSUME NEW g \in LogGoroutines,
             (\E piece \in LogPieces : Write(g, piece)) \/ WriteUnlocks(g) \/ PassOn(g)
      PROVE  captured' = captured
  BY <1>6, LogActions
<1>7. UNCHANGED logVars => captured' = captured
  BY DEF logVars
<1> QED
  BY <1>3, <1>4, <1>5, <1>6, <1>7 DEF LogNext

\* One more entry is one more line, if a writer wrote it.
LEMMA LinesGrow ==
    ASSUME NEW e \in Entries, LogTyped, captured' = Append(captured, e)
    PROVE  /\ WrittenLines \in Seq(Seq(Symbols))
           /\ e.source # "writer" => WrittenLines' = WrittenLines
           /\ e.source = "writer" => WrittenLines' = Append(WrittenLines, Append(e.line, "nl"))
<1> DEFINE chosen == CapturedBy("writer")
           old == Filtered(captured, chosen)
           new == Filtered(captured', chosen')
           Ended(x) == Append(x.line, "nl")
<1>0. WrittenLines = [i \in DOMAIN old |-> Ended(old[i])] /\ WrittenLines' = [i \in DOMAIN new |-> Ended(new[i])]
  BY DEF WrittenLines
<1>1. /\ chosen \in SUBSET (DOMAIN captured) /\ captured \in Seq(Entries)
      /\ chosen' = IF e.source = "writer" THEN chosen \cup {Len(captured) + 1} ELSE chosen
  BY OneEntryMore DEF LogTyped
<1>2. \A x \in Entries : Ended(x) \in Seq(Symbols)
  <2>1. LineSymbols \subseteq Symbols /\ "nl" \in Symbols
    BY DEF LineSymbols, Symbols, LogSymbols
  <2> TAKE x \in Entries
  <2>2. x.line \in Seq(LineSymbols)
    BY DEF Entries
  <2>3. x.line \in Seq(Symbols)
    BY <2>1, <2>2
  <2> QED
    BY <2>1, <2>3
<1> HIDE DEF chosen
<1>3. /\ Filtered(Append(captured, e), chosen) = Filtered(captured, chosen)
      /\ Filtered(Append(captured, e), chosen \cup {Len(captured) + 1}) = Append(Filtered(captured, chosen), e)
  BY <1>1, FilteredGrows
<1>4. old \in Seq(Entries)
  BY <1>1, FilteredIs
<1>5. /\ e.source # "writer" => new = old
      /\ e.source = "writer" => new = Append(old, e)
  BY <1>1, <1>3
<1> HIDE DEF old, new, Ended
<1>6. WrittenLines \in Seq(Seq(Symbols)) /\ Len(WrittenLines) = Len(old)
  <2>1. Len(old) \in Nat /\ DOMAIN old = 1..Len(old) /\ \A i \in 1..Len(old) : old[i] \in Entries
    BY <1>4
  <2>2. \A i \in 1..Len(old) : Ended(old[i]) \in Seq(Symbols)
    BY <1>2, <2>1
  <2>3. WrittenLines = [i \in 1..Len(old) |-> Ended(old[i])]
    BY <1>0, <2>1
  <2> QED
    BY <2>1, <2>2, <2>3
<1>7. CASE e.source # "writer"
  BY <1>0, <1>5, <1>6, <1>7
<1>8. CASE e.source = "writer"
  <2> DEFINE n == Len(old)
             lines == WrittenLines
             ended == Ended(e)
             more == Append(lines, ended)
  <2>1. /\ n \in Nat /\ DOMAIN old = 1..n /\ DOMAIN new = 1..n + 1 /\ new[n + 1] = e
        /\ \A i \in 1..n : new[i] = old[i]
    BY <1>4, <1>5, <1>8
  <2>2. lines \in Seq(Seq(Symbols)) /\ Len(lines) = n /\ \A i \in 1..n : lines[i] = Ended(old[i])
    BY <1>0, <1>6, <2>1
  <2>3. ended \in Seq(Symbols)
    BY <1>2
  <2> HIDE DEF lines, n, ended
  <2>4. more = [i \in 1..n + 1 |-> IF i = n + 1 THEN ended ELSE lines[i]]
    <3>1. n \in Nat /\ lines \in Seq(Seq(Symbols)) /\ Len(lines) = n
      BY <2>1, <2>2
    <3>2. /\ more \in Seq(Seq(Symbols)) /\ Len(more) = n + 1
          /\ more[n + 1] = ended /\ \A i \in 1..n : more[i] = lines[i]
      BY <2>3, <3>1
    <3>3. \A i \in 1..n + 1 : i # n + 1 => i \in 1..n
      BY <3>1
    <3> HIDE DEF more
    <3>4. more = [i \in 1..n + 1 |-> more[i]]
      BY <3>2
    <3>5. \A i \in 1..n + 1 : more[i] = IF i = n + 1 THEN ended ELSE lines[i]
      BY <3>2, <3>3
    <3> QED
      BY ONLY <3>4, <3>5
  <2>5. \A i \in 1..n + 1 : i # n + 1 => i \in 1..n
    BY <2>1
  <2>6. [i \in 1..n + 1 |-> IF i = n + 1 THEN ended ELSE lines[i]] = [i \in 1..n + 1 |-> Ended(new[i])]
    BY <2>1, <2>2, <2>5 DEF ended
  <2>7. WrittenLines' = more
    BY <1>0, <2>1, <2>4, <2>6
  <2> QED
    BY <1>6, <1>8, <2>7 DEF lines, ended, Ended
<1> QED
  BY <1>7, <1>8

LEMMA LinesStep == LogInv /\ [LogNext]_logVars => LinesKept'
<1> SUFFICES ASSUME LogInv, [LogNext]_logVars PROVE LinesKept'
  OBVIOUS
<1> DEFINE text == FlattenSeq(WrittenLines)
<1>0. /\ LogTyped /\ partial \in Seq(Symbols) /\ text \in Seq(Symbols) /\ text \o partial = locked
  BY DEF LogInv, LogTyped, LinesKept
<1>1. ASSUME captured' = captured PROVE WrittenLines' = WrittenLines
  BY <1>1 DEF WrittenLines, CapturedBy
<1>2. CASE \E g \in LogGoroutines : \E piece \in LogPieces : Write(g, piece)
  <2>1. PICK g \in LogGoroutines, piece \in LogPieces : Write(g, piece)
    BY <1>2
  <2>2. partial' = partial \o piece /\ locked' = locked \o piece /\ WrittenLines' = WrittenLines
    BY <1>1, <2>1, LogActions
  <2>3. piece \in Seq(Symbols)
    BY PieceIsKnown
  <2>4. text' = text
    BY <2>2
  <2> HIDE DEF text
  <2>5. (text \o partial) \o piece = text \o (partial \o piece)
    <3>1. text \in Seq(Symbols) /\ partial \in Seq(Symbols) /\ piece \in Seq(Symbols)
      BY <1>0, <2>3
    <3> QED
      BY ONLY <3>1, ConcatAssociative
  <2> QED
    BY <1>0, <2>2, <2>4, <2>5 DEF LinesKept, text
<1>3. CASE \E g \in LogGoroutines : CaptureLine(g)
  <2>0. PICK g \in LogGoroutines : CaptureLine(g)
    BY <1>3
  <2> DEFINE line == SubSeq(partial, 1, LineBreak(partial) - 1)
             whole == Append(line, "nl")
             rest == AfterLine(partial)
  <2>1. /\ captured' = Append(captured, Captured(line)) /\ partial' = rest /\ locked' = locked
        /\ LineBreak(partial) > 0
    BY <2>0, LogActions
  <2>2. /\ line \in Seq(LineSymbols) /\ whole \in Seq(Symbols) /\ rest \in Seq(Symbols)
        /\ whole \o rest = partial
    BY <1>0, <2>1, LineIsCut
  <2> HIDE DEF line, rest
  <2>3. Captured(line) \in Entries /\ Captured(line).source = "writer" /\ Captured(line).line = line
    BY <2>2, EntriesAre DEF Captured
  <2>4. WrittenLines \in Seq(Seq(Symbols)) /\ WrittenLines' = Append(WrittenLines, whole)
    BY <1>0, <2>1, <2>3, LinesGrow
  <2> HIDE DEF whole
  <2>5. text' = text \o whole /\ text' \in Seq(Symbols)
    BY <1>0, <2>2, <2>4, FlattenGrows
  <2>6. (text \o whole) \o rest = text \o (whole \o rest)
    <3> HIDE DEF text
    <3>1. text \in Seq(Symbols) /\ whole \in Seq(Symbols) /\ rest \in Seq(Symbols)
      BY <1>0, <2>2
    <3> QED
      BY ONLY <3>1, ConcatAssociative
  <2>7. text' \o partial' = locked'
    <3> HIDE DEF text
    <3> QED
      BY <1>0, <2>1, <2>2, <2>5, <2>6
  <2> QED
    BY <2>5, <2>7 DEF LinesKept
<1>4. CASE \E g \in LogGoroutines : Handle(g)
  <2>1. PICK g \in LogGoroutines : Handle(g)
    BY <1>4
  <2>2. captured' = Append(captured, Recorded) /\ partial' = partial /\ locked' = locked
    BY <2>1, LogActions
  <2>3. Recorded.source # "writer"
    BY DEF Recorded
  <2>4. WrittenLines' = WrittenLines
    BY <1>0, <2>2, <2>3, EntriesAre, LinesGrow
  <2> QED
    BY <1>0, <2>2, <2>4 DEF LinesKept
<1>5. CASE (\E g \in LogGoroutines : WriteUnlocks(g) \/ PassOn(g)) \/ UNCHANGED logVars
  <2>1. captured' = captured /\ partial' = partial /\ locked' = locked
    BY <1>5, LogActions DEF logVars
  <2>2. WrittenLines' = WrittenLines
    BY <1>1, <2>1
  <2> QED
    BY <1>0, <2>1, <2>2 DEF LinesKept
<1> QED
  BY <1>2, <1>3, <1>4, <1>5 DEF LogNext

\* What a goroutine has to pass on comes when it enters a call and goes when it
\* leaves.
LEMMA EntersCall ==
    ASSUME LogTyped, IsFiniteSet(InCall), NEW g \in LogGoroutines, NEW at \in {"cut", "inner"},
           NEW piece \in Seq(Symbols), logging[g] = NotLogging,
           logging' = [logging EXCEPT ![g] = [at |-> at, piece |-> piece]]
    PROVE  /\ IsFiniteSet(InCall') /\ Cardinality(InCall') = Cardinality(InCall) + 1
           /\ Total(ToPass') = Total(ToPass) + Len(piece)
<1> DEFINE call == [at |-> at, piece |-> piece]
<1>1. call # NotLogging /\ call.piece = piece
  BY DEF NotLogging
<1>2. DOMAIN logging = LogGoroutines /\ \A x \in LogGoroutines : Len(logging[x].piece) \in Nat
  BY DEF LogTyped
<1> HIDE DEF call
<1>3. logging' = [logging EXCEPT ![g] = call]
  BY DEF call
<1>4. \A x \in LogGoroutines : logging'[x] = IF x = g THEN call ELSE logging[x]
  BY <1>2, <1>3
<1>5. InCall' = InCall \cup {g} /\ g \notin InCall
  BY <1>1, <1>4 DEF InCall
<1>6. IsFiniteSet(InCall') /\ Cardinality(InCall') = Cardinality(InCall) + 1
  BY <1>5, FS_AddElement
<1> DEFINE old == ToPass
           new == ToPass'
<1>7. /\ DOMAIN old = InCall /\ DOMAIN new = InCall' /\ new[g] = Len(piece)
      /\ \A x \in InCall : old[x] = Len(logging[x].piece)
      /\ \A x \in InCall' : new[x] = Len(logging'[x].piece)
  BY <1>1, <1>4, <1>5 DEF ToPass
<1>8. Len(piece) \in Nat
  OBVIOUS
<1>9. InCall \subseteq LogGoroutines
  BY DEF InCall
<1> HIDE DEF old, new
<1>10. Numbers(old)
  BY <1>2, <1>7, <1>9 DEF Numbers
<1>11. \A x \in (DOMAIN old) \ {g} : new[x] = old[x]
  BY <1>4, <1>5, <1>7, <1>9
<1>12. Numbers(new)
  <2>1. \A x \in InCall' : new[x] \in Nat
    BY <1>2, <1>5, <1>7, <1>8, <1>10, <1>11 DEF Numbers
  <2> QED
    BY <1>6, <1>7, <2>1 DEF Numbers
<1>13. (DOMAIN new) \ {g} = (DOMAIN old) \ {g}
  BY <1>5, <1>7
<1>14. Total(new) = Total(old) - At(old, g) + At(new, g)
  BY <1>10, <1>11, <1>12, <1>13, TotalChanges
<1>15. At(old, g) = 0 /\ At(new, g) = Len(piece)
  BY <1>5, <1>7 DEF At
<1>16. Total(old) \in Nat
  BY <1>10, TotalIsNumber
<1> QED
  BY <1>6, <1>8, <1>14, <1>15, <1>16 DEF old, new

LEMMA LeavesCall ==
    ASSUME LogTyped, IsFiniteSet(InCall), NEW g \in LogGoroutines, logging[g] # NotLogging,
           logging' = [logging EXCEPT ![g] = NotLogging]
    PROVE  /\ IsFiniteSet(InCall') /\ Cardinality(InCall') = Cardinality(InCall) - 1
           /\ Total(ToPass') = Total(ToPass) - Len(logging[g].piece)
<1>2. DOMAIN logging = LogGoroutines /\ \A x \in LogGoroutines : Len(logging[x].piece) \in Nat
  BY DEF LogTyped
<1>4. \A x \in LogGoroutines : logging'[x] = IF x = g THEN NotLogging ELSE logging[x]
  BY <1>2
<1>5. InCall' = InCall \ {g} /\ g \in InCall
  BY <1>4 DEF InCall
<1>6. IsFiniteSet(InCall') /\ Cardinality(InCall') = Cardinality(InCall) - 1
  BY <1>5, FS_RemoveElement
<1> DEFINE old == ToPass
           new == ToPass'
<1>7. /\ DOMAIN old = InCall /\ DOMAIN new = InCall'
      /\ \A x \in InCall : old[x] = Len(logging[x].piece)
      /\ \A x \in InCall' : new[x] = Len(logging'[x].piece)
  BY DEF ToPass
<1>9. InCall \subseteq LogGoroutines
  BY DEF InCall
<1> HIDE DEF old, new
<1>10. Numbers(old)
  BY <1>2, <1>7, <1>9 DEF Numbers
<1>11. \A x \in (DOMAIN old) \ {g} : new[x] = old[x]
  BY <1>4, <1>5, <1>7, <1>9
<1>12. Numbers(new)
  BY <1>5, <1>6, <1>7, <1>10, <1>11 DEF Numbers
<1>13. (DOMAIN new) \ {g} = (DOMAIN old) \ {g}
  BY <1>5, <1>7
<1>14. Total(new) = Total(old) - At(old, g) + At(new, g)
  BY <1>10, <1>11, <1>12, <1>13, TotalChanges
<1>15. At(new, g) = 0 /\ At(old, g) = Len(logging[g].piece)
  BY <1>5, <1>7 DEF At
<1>16. Total(old) \in Nat
  BY <1>10, TotalIsNumber
<1> QED
  BY <1>2, <1>6, <1>14, <1>15, <1>16 DEF old, new

LEMMA PassStep == LogInv /\ [LogNext]_logVars => PassesOn'
<1> SUFFICES ASSUME LogInv, [LogNext]_logVars PROVE PassesOn'
  OBVIOUS
<1> DEFINE out == FlattenSeq(passedOn)
           slogs == CapturedBy("slog")
<1>0. /\ LogTyped /\ IsFiniteSet(InCall) /\ Len(passedOn) + Cardinality(InCall) = logCalls
      /\ out \in Seq(Symbols)
      /\ Len(out) + Total(ToPass) = Len(locked) + Cardinality(slogs)
  BY DEF LogInv, PassesOn
<1>1. /\ Len(passedOn) \in Nat /\ Len(locked) \in Nat /\ locked \in Seq(Symbols)
      /\ passedOn \in Seq(Seq(Symbols)) /\ Len(out) \in Nat
      /\ Cardinality(InCall) \in Nat /\ logCalls \in Nat
      /\ IsFiniteSet(slogs) /\ Cardinality(slogs) \in Nat
  <2>1. IsFiniteSet(slogs)
    <3>1. IsFiniteSet(1..Len(captured))
      BY FS_Interval DEF LogInv, LogTyped
    <3>2. slogs \subseteq 1..Len(captured)
      BY DEF CapturedBy, LogInv, LogTyped
    <3> QED
      BY <3>1, <3>2, FS_Subset
  <2>2. Cardinality(slogs) \in Nat /\ Cardinality(InCall) \in Nat
    BY <1>0, <2>1, FS_CardinalityType
  <2> QED
    BY <1>0, <2>1, <2>2 DEF LogTyped
<1>2. Total(ToPass) \in Nat
  <2>1. Numbers(ToPass)
    <3>1. \A x \in InCall : Len(logging[x].piece) \in Nat
      BY DEF LogInv, LogTyped, InCall
    <3> QED
      BY <1>0, <3>1 DEF Numbers, ToPass
  <2> QED
    BY <2>1, TotalIsNumber
<1>3. captured' = captured => CapturedBy("slog")' = slogs
  BY DEF CapturedBy
<1>4. passedOn' = passedOn => FlattenSeq(passedOn)' = out
  OBVIOUS
<1> HIDE DEF out, slogs
<1>4a. /\ Len(out) \in Nat /\ Total(ToPass) \in Nat /\ Len(locked) \in Nat /\ Cardinality(slogs) \in Nat
        /\ Len(out) + Total(ToPass) = Len(locked) + Cardinality(slogs)
  BY ONLY <1>0, <1>1, <1>2
<1> SUFFICES /\ IsFiniteSet(InCall') /\ Len(passedOn') + Cardinality(InCall') = logCalls'
             /\ FlattenSeq(passedOn') \in Seq(Symbols)
             /\ Len(FlattenSeq(passedOn')) + Total(ToPass')
                   = Len(locked') + Cardinality(CapturedBy("slog")')
  BY DEF PassesOn
<1>5. CASE \E g \in LogGoroutines : \E piece \in LogPieces : Write(g, piece)
  <2>1. PICK g \in LogGoroutines, piece \in LogPieces : Write(g, piece)
    BY <1>5
  <2>2. /\ logging[g] = NotLogging /\ logging' = [logging EXCEPT ![g] = [at |-> "cut", piece |-> piece]]
        /\ locked' = locked \o piece /\ passedOn' = passedOn /\ captured' = captured
        /\ logCalls' = logCalls + 1
    BY <2>1, LogActions
  <2>3. piece \in Seq(Symbols)
    BY PieceIsKnown
  <2>4. /\ IsFiniteSet(InCall') /\ Cardinality(InCall') = Cardinality(InCall) + 1
        /\ Total(ToPass') = Total(ToPass) + Len(piece)
    BY <1>0, <2>2, <2>3, EntersCall
  <2>5. Len(locked') = Len(locked) + Len(piece) /\ Len(piece) \in Nat
    BY <1>1, <2>2, <2>3
  <2>6. passedOn' = passedOn /\ logCalls' = logCalls + 1
    BY <2>2
  <2>7. FlattenSeq(passedOn') = out /\ CapturedBy("slog")' = slogs
    BY <1>3, <1>4, <2>2
  <2>8. Len(passedOn') + Cardinality(InCall') = logCalls'
    BY ONLY <1>0, <1>1, <2>4, <2>6
  <2>9. Len(FlattenSeq(passedOn')) + Total(ToPass') = Len(locked') + Cardinality(CapturedBy("slog")')
    <3>1. Len(FlattenSeq(passedOn')) = Len(out) /\ Cardinality(CapturedBy("slog")') = Cardinality(slogs)
      BY ONLY <2>7
    <3>2. Len(out) + (Total(ToPass) + Len(piece)) = (Len(locked) + Len(piece)) + Cardinality(slogs)
      BY ONLY <1>4a, <2>5
    <3> QED
      BY ONLY <2>4, <2>5, <3>1, <3>2
  <2> QED
    BY <1>0, <2>4, <2>7, <2>8, <2>9
<1>6. CASE \E g \in LogGoroutines : CaptureLine(g)
  <2>0. PICK g \in LogGoroutines : CaptureLine(g)
    BY <1>6
  <2> DEFINE line == SubSeq(partial, 1, LineBreak(partial) - 1)
  <2>1. /\ captured' = Append(captured, Captured(line)) /\ logging' = logging /\ locked' = locked
        /\ passedOn' = passedOn /\ logCalls' = logCalls /\ LineBreak(partial) > 0
    BY <2>0, LogActions
  <2>2. line \in Seq(LineSymbols)
    BY <1>0, <2>1, LineIsCut DEF LogTyped
  <2> HIDE DEF line
  <2>3. Captured(line) \in Entries /\ Captured(line).source # "slog"
    BY <2>2, EntriesAre DEF Captured
  <2>4. CapturedBy("slog")' = slogs
    BY <1>0, <2>1, <2>3, OneEntryMore DEF slogs
  <2>5. InCall' = InCall /\ ToPass' = ToPass
    BY <2>1 DEF InCall, ToPass
  <2> QED
    BY <1>0, <1>4, <2>1, <2>4, <2>5
<1>7. CASE \E g \in LogGoroutines : WriteUnlocks(g)
  <2>0. PICK g \in LogGoroutines : WriteUnlocks(g)
    BY <1>7
  <2>1. /\ logging' = [logging EXCEPT ![g].at = "inner"] /\ locked' = locked /\ captured' = captured
        /\ passedOn' = passedOn /\ logCalls' = logCalls /\ logging[g].at = "cut"
    BY <2>0, LogActions
  <2>2. logging \in [LogGoroutines -> [at : {"none", "cut", "inner"}, piece : Seq(Symbols)]]
    BY <1>0 DEF LogTyped
  <2>3. /\ logging'[g].at = "inner" /\ logging'[g].piece = logging[g].piece
        /\ \A x \in LogGoroutines : x # g => logging'[x] = logging[x]
    BY <2>1, <2>2
  <2>4. NotLogging.at = "none"
    BY DEF NotLogging
  <2>5. InCall' = InCall
    BY <2>1, <2>3, <2>4 DEF InCall
  <2>6. ToPass' = ToPass
    <3>1. \A x \in InCall : logging'[x].piece = logging[x].piece
      BY <2>3 DEF InCall
    <3> QED
      BY <2>5, <3>1 DEF ToPass
  <2> QED
    BY <1>0, <1>3, <1>4, <2>1, <2>5, <2>6
<1>8. CASE \E g \in LogGoroutines : Handle(g)
  <2>1. PICK g \in LogGoroutines : Handle(g)
    BY <1>8
  <2> DEFINE piece == <<"record">>
  <2>2. /\ logging[g] = NotLogging /\ logging' = [logging EXCEPT ![g] = [at |-> "inner", piece |-> piece]]
        /\ locked' = locked /\ passedOn' = passedOn /\ captured' = Append(captured, Recorded)
        /\ logCalls' = logCalls + 1
    BY <2>1, LogActions
  <2>3. piece \in Seq(Symbols) /\ Len(piece) = 1
    <3>1. "record" \in Symbols
      BY DEF Symbols
    <3> QED
      BY <3>1
  <2> HIDE DEF piece
  <2>4. /\ IsFiniteSet(InCall') /\ Cardinality(InCall') = Cardinality(InCall) + 1
        /\ Total(ToPass') = Total(ToPass) + 1
    BY <1>0, <2>2, <2>3, EntersCall
  <2>5. CapturedBy("slog")' = slogs \cup {Len(captured) + 1} /\ slogs \in SUBSET (DOMAIN captured)
    <3>1. Recorded.source = "slog"
      BY DEF Recorded
    <3> QED
      BY <1>0, <2>2, <3>1, EntriesAre, OneEntryMore DEF slogs
  <2>6. Len(captured) + 1 \notin slogs
    <3>1. DOMAIN captured = 1..Len(captured) /\ Len(captured) \in Nat
      BY <1>0 DEF LogTyped
    <3> QED
      BY <2>5, <3>1
  <2>7. Cardinality(CapturedBy("slog")') = Cardinality(slogs) + 1
    BY <1>1, <2>5, <2>6, FS_AddElement
  <2>8. passedOn' = passedOn /\ logCalls' = logCalls + 1 /\ locked' = locked
    BY <2>2
  <2>9. FlattenSeq(passedOn') = out
    BY <1>4, <2>2
  <2>10. Len(passedOn') + Cardinality(InCall') = logCalls'
    BY ONLY <1>0, <1>1, <2>4, <2>8
  <2>11. Len(FlattenSeq(passedOn')) + Total(ToPass') = Len(locked') + Cardinality(CapturedBy("slog")')
    <3>1. Len(FlattenSeq(passedOn')) = Len(out) /\ Len(locked') = Len(locked)
      BY ONLY <2>8, <2>9
    <3>2. Len(out) + (Total(ToPass) + 1) = Len(locked) + (Cardinality(slogs) + 1)
      BY ONLY <1>4a
    <3> QED
      BY ONLY <2>4, <2>7, <3>1, <3>2
  <2> QED
    BY <1>0, <2>4, <2>9, <2>10, <2>11
<1>9. CASE \E g \in LogGoroutines : PassOn(g)
  <2>1. PICK g \in LogGoroutines : PassOn(g)
    BY <1>9
  <2> DEFINE piece == logging[g].piece
  <2>2. /\ logging[g].at = "inner" /\ logging' = [logging EXCEPT ![g] = NotLogging]
        /\ locked' = locked /\ captured' = captured /\ passedOn' = Append(passedOn, piece)
        /\ logCalls' = logCalls
    BY <2>1, LogActions
  <2>3. piece \in Seq(Symbols) /\ Len(piece) \in Nat
    BY <1>0 DEF LogTyped
  <2>4. logging[g] # NotLogging
    BY <2>2 DEF NotLogging
  <2>5. /\ IsFiniteSet(InCall') /\ Cardinality(InCall') = Cardinality(InCall) - 1
        /\ Total(ToPass') = Total(ToPass) - Len(piece)
    BY <1>0, <2>2, <2>4, LeavesCall
  <2> HIDE DEF piece
  <2>6. /\ FlattenSeq(passedOn') \in Seq(Symbols) /\ Len(FlattenSeq(passedOn')) = Len(out) + Len(piece)
    BY <1>0, <1>1, <2>2, <2>3, FlattenGrows DEF out
  <2>7. Len(passedOn') = Len(passedOn) + 1
    BY <1>1, <2>2, <2>3
  <2> QED
    BY <1>0, <1>1, <1>2, <1>3, <2>2, <2>3, <2>5, <2>6, <2>7
<1>10. CASE UNCHANGED logVars
  <2>1. /\ logging' = logging /\ locked' = locked /\ captured' = captured /\ passedOn' = passedOn
        /\ logCalls' = logCalls
    BY <1>10 DEF logVars
  <2>2. InCall' = InCall /\ ToPass' = ToPass
    BY <2>1 DEF InCall, ToPass
  <2> QED
    BY <1>0, <1>3, <1>4, <2>1, <2>2
<1> QED
  BY <1>5, <1>6, <1>7, <1>8, <1>9, <1>10 DEF LogNext

\* When nobody is in a call, all of it is passed on.
LEMMA LogTells == LogInv => LinesWhole
<1> SUFFICES ASSUME LogInv PROVE LinesWhole
  OBVIOUS
<1>1. ASSUME \A g \in LogGoroutines : logging[g] = NotLogging
      PROVE  /\ LineBreak(partial) = 0
             /\ Len(passedOn) = logCalls
             /\ Len(FlattenSeq(passedOn)) = Len(locked) + Cardinality(CapturedBy("slog"))
  <2>1. NotLogging.at # "cut"
    BY DEF NotLogging
  <2>2. partial \in Seq(Symbols) /\ \A i \in DOMAIN partial : partial[i] # "nl"
    BY <1>1, <2>1 DEF LogInv, LogTyped, WriterLocks
  <2>3. LineBreak(partial) = 0
    BY <2>2, LineBreakIs
  <2>4. InCall = {} /\ DOMAIN ToPass = {}
    BY <1>1 DEF InCall, ToPass
  <2>5. Cardinality(InCall) = 0 /\ Total(ToPass) = 0
    BY <2>4, FS_EmptySet, NothingCounted
  <2>6. Len(passedOn) \in Nat /\ Len(FlattenSeq(passedOn)) \in Nat
    BY DEF LogInv, LogTyped, PassesOn
  <2> QED
    BY <2>3, <2>5, <2>6 DEF LogInv, PassesOn
<1> QED
  BY <1>1 DEF LinesWhole, LogInv, LinesKept, LevelsOccur

\* For any pieces, goroutines and records of other sources: captured lines are
\* what was written, in its order, and all of it is passed on; and what
\* get_log_level tells after set_log_level is the level that was reported, or,
\* of a zap logger, that one or the next.
THEOREM LogsTold == LogSpec /\ LevelSpec => []LogsRight
<1>1. LogInv /\ [LogNext]_logVars => LogInv'
  BY LogTypedStep, LocksStep, LinesStep, OccurStep, PassStep DEF LogInv
<1>2. LogInv /\ LevelInv => LogsRight
  BY LogTells DEF LevelInv, LogsRight
<1> QED
  BY InitLog, InitLevels, LevelStep, <1>1, <1>2, PTL DEF LogSpec, LevelSpec

\* The types of the profiler, the buffers, the log and its levels.
LEMMA RecordTypesKept ==
    Spec /\ BufSpec /\ LogSpec /\ LevelSpec =>
        [](TypeOK /\ BufTypeOK /\ LogTypeOK /\ LevelTypeOK)
<1>1. BufferInv => BufTypeOK
  BY DEF BufferInv
<1>2. LogInv /\ [LogNext]_logVars => LogInv'
  BY LogTypedStep, LocksStep, LinesStep, OccurStep, PassStep DEF LogInv
<1>3. LogInv => LogTypeOK
  BY DEF LogInv, LogTyped, LogTypeOK
<1>4. LevelInv => LevelTypeOK
  BY DEF LevelInv
<1> QED
  BY ProfilerTypes, InitBuffers, StepKeepsBuffers, InitLog, InitLevels, LevelStep,
     <1>1, <1>2, <1>3, <1>4, PTL DEF BufSpec, LogSpec, LevelSpec

-----------------------------------------------------------------------------
(* Scheduled jobs.                                                         *)

USE SchedulerAssumption

\* A done channel belongs to the job that keeps it, and only a channel that
\* was made is closed: so two jobs never keep the same channel, and a new one
\* is open.  A goroutine that was started has a job.
ChannelsOwned ==
    /\ \A j \in Jobs : done[j] # NoChannel => owner[done[j]] = j
    /\ \A n \in Starts : owner[n] = NoJob => ~closed[n] /\ pc[n] = "none"

\* What the proofs below need of it.
JobInv == JobTypeOK /\ ChannelsOwned /\ NoDoubleClose /\ ErrorsAgree

\* What is kept of a history that another run was appended to: it has the
\* type and the length of a history, and ends with that run.
LEMMA KeptHistory ==
    ASSUME NEW h \in Seq(FnOutcomes), NEW o \in FnOutcomes, Len(h) <= MaxHistory
    PROVE  /\ KeptRuns(Append(h, o)) \in Seq(FnOutcomes)
           /\ Len(KeptRuns(Append(h, o))) \in 1..MaxHistory
           /\ KeptRuns(Append(h, o))[Len(KeptRuns(Append(h, o)))] = o
<1> DEFINE a == Append(h, o)
           n == Len(h) + 1
<1>1. a \in Seq(FnOutcomes) /\ Len(a) = n /\ a[n] = o /\ n \in Nat
  <2> HIDE DEF FnOutcomes
  <2> QED
    BY AppendProperties, LenProperties
<1>2. \A i \in 1..n : a[i] \in FnOutcomes
  BY <1>1, ElementOfSeq
<1> HIDE DEF a
<1> SUFFICES /\ KeptRuns(a) \in Seq(FnOutcomes)
             /\ Len(KeptRuns(a)) \in 1..MaxHistory
             /\ KeptRuns(a)[Len(KeptRuns(a))] = o
  BY DEF a
<1>3. CASE n <= MaxHistory
  <2>1. KeptRuns(a) = a
    BY <1>1, <1>3 DEF KeptRuns
  <2>2. n \in 1..MaxHistory
    BY <1>3
  <2> HIDE DEF n
  <2> QED
    BY <1>1, <2>1, <2>2
<1>4. CASE n > MaxHistory
  <2>1. n = MaxHistory + 1
    BY <1>4
  <2> DEFINE m == n - MaxHistory + 1
             c == SubSeq(a, m, n)
  <2>2. KeptRuns(a) = c
    BY <1>1, <1>4 DEF KeptRuns
  <2>3. m = 2 /\ m \in 1..n /\ n \in Int /\ n - m + 1 = MaxHistory /\ m + MaxHistory - 1 = n
    BY <2>1
  <2>4. \A i \in m..n : a[i] \in FnOutcomes
    BY <1>2, <2>3
  <2> HIDE DEF m, n
  <2>5. /\ c \in Seq(FnOutcomes)
        /\ Len(c) = IF m <= n THEN n - m + 1 ELSE 0
        /\ \A i \in 1..n - m + 1 : c[i] = a[m + i - 1]
    BY <2>3, <2>4, SubSeqProperties
  <2>6. Len(c) = MaxHistory
    BY <2>3, <2>5
  <2>7. c[MaxHistory] = a[n]
    BY <2>3, <2>5
  <2> HIDE DEF c
  <2>8. c \in Seq(FnOutcomes)
    BY <2>5
  <2>9. MaxHistory \in 1..MaxHistory
    OBVIOUS
  <2> QED
    BY <1>1, <2>2, <2>6, <2>7, <2>8, <2>9
<1> QED
  BY <1>1, <1>3, <1>4

\* Nothing is registered, started or recorded at first.
LEMMA InitJobs == JobInit => JobInv
<1> SUFFICES ASSUME JobInit PROVE JobInv
  OBVIOUS
<1>1. JobTypeOK
  BY DEF JobInit, JobTypeOK, FnOutcomes, Starts
<1>2. ChannelsOwned /\ NoDoubleClose /\ ErrorsAgree
  BY DEF JobInit, ChannelsOwned, NoDoubleClose, ErrorsAgree
<1> QED
  BY <1>1, <1>2 DEF JobInv

\* The steps of the application keep the types.
LEMMA CallsKeepTypes ==
    ASSUME JobTypeOK, NEW j \in Jobs,
           RegisterJob(j) \/ StopJob(j) \/ \E n \in Starts : StartTicker(j, n)
    PROVE  JobTypeOK'
<1>1. CASE RegisterJob(j)
  BY <1>1 DEF RegisterJob, JobTypeOK, chanVars
<1>2. CASE StopJob(j)
  BY <1>2 DEF StopJob, JobTypeOK
<1>3. ASSUME NEW n \in Starts, StartTicker(j, n) PROVE JobTypeOK'
  BY <1>3 DEF StartTicker, JobTypeOK
<1> QED
  BY <1>1, <1>2, <1>3

\* So do the steps of the tickers and the goroutines.
LEMMA GoroutinesKeepTypes ==
    ASSUME JobTypeOK, ChannelsOwned, NEW n \in Starts, Fires(n) \/ Goroutine(n)
    PROVE  JobTypeOK'
<1>0. ASSUME pc[n] # "none"
      PROVE  /\ owner[n] \in Jobs
             /\ ticker[owner[n]] \in Starts \cup {NoChannel}
             /\ done[owner[n]] \in Starts \cup {NoChannel}
             /\ history[owner[n]] \in Seq(FnOutcomes) /\ Len(history[owner[n]]) <= MaxHistory
  <2>1. owner[n] \in Jobs
    BY <1>0 DEF JobTypeOK, ChannelsOwned
  <2> QED
    BY <2>1 DEF JobTypeOK
<1>1. CASE Fires(n)
  BY <1>1 DEF Fires, JobTypeOK, fieldVars
<1>2. CASE ReadTicker(n)
  BY <1>0, <1>2 DEF ReadTicker, JobTypeOK, fieldVars, chanVars
<1>3. CASE ReadDone(n)
  BY <1>0, <1>3 DEF ReadDone, JobTypeOK, fieldVars, chanVars
<1>4. CASE TakeTick(n)
  BY <1>4 DEF TakeTick, JobTypeOK, fieldVars
<1>5. CASE TakeDone(n)
  BY <1>5 DEF TakeDone, JobTypeOK, fieldVars
<1>6. CASE FnEnds(n)
  <2>1. PICK o \in FnOutcomes :
           /\ history' = [history EXCEPT ![owner[n]] = KeptRuns(Append(@, o))]
           /\ lastError' = [lastError EXCEPT ![owner[n]] = o]
           /\ pc' = [pc EXCEPT ![n] = "loop"]
    BY <1>6 DEF FnEnds, ErrorAfter, AfterFn
  <2>2. UNCHANGED <<scheduledJobs, name, ticker, done, chanVars, onTicker, onDone>> /\ pc[n] # "none"
    BY <1>6 DEF FnEnds
  <2>3. /\ KeptRuns(Append(history[owner[n]], o)) \in Seq(FnOutcomes)
        /\ Len(KeptRuns(Append(history[owner[n]], o))) <= MaxHistory
    <3> DEFINE h == history[owner[n]]
    <3>1. h \in Seq(FnOutcomes) /\ Len(h) <= MaxHistory
      BY <1>0, <2>2
    <3> HIDE DEF h
    <3>2. KeptRuns(Append(h, o)) \in Seq(FnOutcomes) /\ Len(KeptRuns(Append(h, o))) \in 1..MaxHistory
      BY <3>1, KeptHistory
    <3> QED
      BY <3>2 DEF h
  <2>4. history' \in [Jobs -> Seq(FnOutcomes)] /\ \A j \in Jobs : Len(history'[j]) <= MaxHistory
    BY <1>0, <2>1, <2>2, <2>3 DEF JobTypeOK
  <2>5. lastError' \in [Jobs -> FnOutcomes]
        /\ pc' \in [Starts -> {"none", "loop", "read", "select", "fn", "gone"}]
    BY <2>1 DEF JobTypeOK
  <2> QED
    BY <2>2, <2>4, <2>5 DEF JobTypeOK, chanVars
<1> QED
  BY <1>1, <1>2, <1>3, <1>4, <1>5, <1>6 DEF Goroutine

\* Starting, stopping and ending leave every kept channel open and owned.
LEMMA CallsKeepChannels ==
    ASSUME JobTypeOK, ChannelsOwned, NoDoubleClose, NEW j \in Jobs,
           RegisterJob(j) \/ StopJob(j) \/ \E n \in Starts : StartTicker(j, n)
    PROVE  ChannelsOwned' /\ NoDoubleClose'
<1>1. CASE RegisterJob(j)
  BY <1>1 DEF RegisterJob, chanVars, ChannelsOwned, NoDoubleClose
<1>2. CASE StopJob(j)
  <2>1. /\ closed' = [closed EXCEPT ![done[j]] = TRUE]
        /\ done' = [done EXCEPT ![j] = NoChannel]
        /\ UNCHANGED <<owner, pc>> /\ done[j] # NoChannel
    BY <1>2 DEF StopJob
  <2>2. owner[done[j]] = j /\ done[j] \in Starts
    BY <2>1 DEF JobTypeOK, ChannelsOwned
  <2>3. ASSUME NEW i \in Jobs, done'[i] # NoChannel PROVE ~closed'[done'[i]] /\ owner'[done'[i]] = i
    <3>1. i # j /\ done'[i] = done[i]
      BY <2>1, <2>3 DEF JobTypeOK
    <3>2. owner[done[i]] = i /\ done[i] \in Starts /\ ~closed[done[i]]
      BY <2>3, <3>1 DEF JobTypeOK, ChannelsOwned, NoDoubleClose
    <3>3. done[i] # done[j]
      BY <2>2, <3>1, <3>2
    <3> QED
      BY <2>1, <3>1, <3>2, <3>3 DEF JobTypeOK
  <2>4. ASSUME NEW n \in Starts, owner'[n] = NoJob PROVE ~closed'[n] /\ pc'[n] = "none"
    <3>1. owner[n] = NoJob /\ n # done[j]
      BY <2>1, <2>2, <2>4
    <3> QED
      BY <2>1, <3>1 DEF JobTypeOK, ChannelsOwned
  <2> QED
    BY <2>3, <2>4 DEF ChannelsOwned, NoDoubleClose
<1>3. ASSUME NEW n \in Starts, StartTicker(j, n) PROVE ChannelsOwned' /\ NoDoubleClose'
  <2>1. /\ done' = [done EXCEPT ![j] = n] /\ owner' = [owner EXCEPT ![n] = j]
        /\ pc' = [pc EXCEPT ![n] = "loop"] /\ closed' = closed /\ owner[n] = NoJob
    BY <1>3 DEF StartTicker, UnusedStart
  <2>2. ~closed[n] /\ n # NoChannel
    BY <2>1 DEF ChannelsOwned, Starts
  <2>3. ASSUME NEW i \in Jobs, done'[i] # NoChannel PROVE ~closed'[done'[i]] /\ owner'[done'[i]] = i
    <3>1. CASE i = j
      BY <2>1, <2>2, <3>1 DEF JobTypeOK
    <3>2. CASE i # j
      <4>1. done'[i] = done[i] /\ owner[done[i]] = i /\ done[i] \in Starts /\ ~closed[done[i]]
        BY <2>1, <2>3, <3>2 DEF JobTypeOK, ChannelsOwned, NoDoubleClose
      <4>2. done[i] # n
        BY <2>1, <4>1
      <4> QED
        BY <2>1, <4>1, <4>2 DEF JobTypeOK
    <3> QED
      BY <3>1, <3>2
  <2>4. ASSUME NEW m \in Starts, owner'[m] = NoJob PROVE ~closed'[m] /\ pc'[m] = "none"
    BY <2>1, <2>4 DEF JobTypeOK, ChannelsOwned
  <2> QED
    BY <2>3, <2>4 DEF ChannelsOwned, NoDoubleClose
<1> QED
  BY <1>1, <1>2, <1>3

\* The tickers and goroutines neither start nor stop anything.
LEMMA GoroutinesKeepChannels ==
    ASSUME JobTypeOK, ChannelsOwned, NoDoubleClose, NEW n \in Starts, Fires(n) \/ Goroutine(n)
    PROVE  ChannelsOwned' /\ NoDoubleClose'
<1>1. UNCHANGED <<done, owner, closed>>
  BY DEF Fires, Goroutine, ReadTicker, ReadDone, TakeTick, TakeDone, FnEnds, fieldVars, chanVars
<1>2. ASSUME NEW m \in Starts, owner[m] = NoJob PROVE pc'[m] = "none"
  <2>1. pc[m] = "none"
    BY <1>2 DEF ChannelsOwned
  <2>2. CASE Fires(n)
    BY <2>1, <2>2 DEF Fires
  <2>3. CASE Goroutine(n)
    <3>1. n # m
      BY <2>1, <2>3 DEF Goroutine, ReadTicker, ReadDone, TakeTick, TakeDone, FnEnds
    <3>2. \E at \in {"read", "select", "fn", "gone", "loop"} : pc' = [pc EXCEPT ![n] = at]
      BY <2>3 DEF Goroutine, ReadTicker, ReadDone, TakeTick, TakeDone, FnEnds, AfterFn
    <3> QED
      BY <2>1, <3>1, <3>2 DEF JobTypeOK
  <2> QED
    BY <2>2, <2>3
<1> QED
  BY <1>1, <1>2 DEF ChannelsOwned, NoDoubleClose

\* The newest run sets the last error, and nothing else touches either.
LEMMA StepKeepsErrors ==
    ASSUME JobTypeOK, ChannelsOwned, ErrorsAgree, [JobNext]_jobVars
    PROVE  ErrorsAgree'
<1>1. ASSUME UNCHANGED <<history, lastError>> PROVE ErrorsAgree'
  BY <1>1 DEF ErrorsAgree
<1>2. ASSUME NEW n \in Starts, FnEnds(n) PROVE ErrorsAgree'
  <2>1. PICK o \in FnOutcomes :
           /\ history' = [history EXCEPT ![owner[n]] = KeptRuns(Append(@, o))]
           /\ lastError' = [lastError EXCEPT ![owner[n]] = o]
    BY <1>2 DEF FnEnds, ErrorAfter
  <2>2. owner[n] \in Jobs
    BY <1>2 DEF FnEnds, JobTypeOK, ChannelsOwned
  <2>3. history[owner[n]] \in Seq(FnOutcomes) /\ Len(history[owner[n]]) <= MaxHistory
    BY <2>2 DEF JobTypeOK
  <2> DEFINE kept == KeptRuns(Append(history[owner[n]], o))
  <2>4. kept[Len(kept)] = o
    BY <2>3, KeptHistory
  <2> HIDE DEF kept
  <2>5. history' = [history EXCEPT ![owner[n]] = kept]
    BY <2>1 DEF kept
  <2>6. ASSUME NEW j \in Jobs, history'[j] # <<>>
        PROVE  lastError'[j] = history'[j][Len(history'[j])]
    <3>1. CASE j = owner[n]
      BY <2>1, <2>2, <2>4, <2>5, <3>1 DEF JobTypeOK
    <3>2. CASE j # owner[n]
      BY <2>1, <2>5, <2>6, <3>2 DEF JobTypeOK, ErrorsAgree
    <3> QED
      BY <3>1, <3>2
  <2> QED
    BY <2>6 DEF ErrorsAgree
<1>3. ASSUME NEW j \in Jobs, RegisterJob(j) \/ StopJob(j) \/ \E n \in Starts : StartTicker(j, n)
      PROVE  ErrorsAgree'
  BY <1>1, <1>3 DEF RegisterJob, StopJob, StartTicker, fieldVars
<1>4. ASSUME NEW n \in Starts, Fires(n) \/ ReadTicker(n) \/ ReadDone(n) \/ TakeTick(n) \/ TakeDone(n)
      PROVE  ErrorsAgree'
  BY <1>1, <1>4 DEF Fires, ReadTicker, ReadDone, TakeTick, TakeDone, fieldVars
<1>5. CASE UNCHANGED jobVars
  BY <1>1, <1>5 DEF jobVars, fieldVars
<1> QED
  BY <1>2, <1>3, <1>4, <1>5 DEF JobNext, Goroutine

\* Every step keeps the invariant.
LEMMA StepKeepsJobs == JobInv /\ [JobNext]_jobVars => JobInv'
<1> SUFFICES ASSUME JobInv, [JobNext]_jobVars PROVE JobInv'
  OBVIOUS
<1>1. ErrorsAgree'
  BY StepKeepsErrors DEF JobInv
<1>2. ASSUME NEW j \in Jobs, RegisterJob(j) \/ StopJob(j) \/ \E n \in Starts : StartTicker(j, n)
      PROVE  JobTypeOK' /\ ChannelsOwned' /\ NoDoubleClose'
  BY <1>2, CallsKeepTypes, CallsKeepChannels DEF JobInv
<1>3. ASSUME NEW n \in Starts, Fires(n) \/ Goroutine(n)
      PROVE  JobTypeOK' /\ ChannelsOwned' /\ NoDoubleClose'
  BY <1>3, GoroutinesKeepTypes, GoroutinesKeepChannels DEF JobInv
<1>4. CASE UNCHANGED jobVars
  <2>1. UNCHANGED <<scheduledJobs, name, ticker, done, history, lastError, owner, closed,
                    ticking, tick, pc, onTicker, onDone>>
    BY <1>4 DEF jobVars, fieldVars, chanVars
  <2>2. JobTypeOK'
    BY <2>1 DEF JobInv, JobTypeOK
  <2> QED
    BY <1>1, <2>1, <2>2 DEF JobInv, ChannelsOwned, NoDoubleClose
<1> QED
  BY <1>1, <1>2, <1>3, <1>4 DEF JobInv, JobNext

LEMMA JobsInvariant == JobSpec => []JobInv
  BY InitJobs, StepKeepsJobs, PTL DEF JobSpec

\* The scheduler's variables have their types, and no history outgrows its
\* limit (appendHistory), for any number of jobs, goroutines and runs.
THEOREM SchedulerTypes == JobSpec => []JobTypeOK
<1>1. JobInv => JobTypeOK
  BY DEF JobInv
<1> QED
  BY JobsInvariant, <1>1, PTL

\* However StartTicker and Stop are called, Stop closes an open channel: it
\* never panics.
THEOREM NeverClosedTwice == JobSpec => []NoDoubleClose
<1>1. JobInv => NoDoubleClose
  BY DEF JobInv
<1> QED
  BY JobsInvariant, <1>1, PTL

\* The last error of get_scheduled_jobs is the newest one of get_job_history.
THEOREM LastErrorIsNewest == JobSpec => []ErrorsAgree
<1>1. JobInv => ErrorsAgree
  BY DEF JobInv
<1> QED
  BY JobsInvariant, <1>1, PTL
=============================================================================
