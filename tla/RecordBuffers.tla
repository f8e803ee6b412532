---------------------------- MODULE RecordBuffers ---------------------------
(***************************************************************************)
(* The bounded buffers of recent HTTP requests (inspector_http.go), errors *)
(* (inspector_error.go) and log entries (inspector_logging.go), and the    *)
(* tools that answer from them.  The three share no state and differ in    *)
(* what a record holds, so a behaviour is about one of them, bufKind.      *)
(*                                                                         *)
(* Recording holds the buffer's lock.  The tools work on a copy, or hold   *)
(* the lock; two of them read the total from the buffer itself after the   *)
(* copy was made, without the lock: those calls are two steps.             *)
(***************************************************************************)
EXTENDS Integers, Sequences, FiniteSets, SequencesExt, GoData

CONSTANTS BufferMax,   \* 500, 50 and 100 records
          MaxSlow,     \* 20, what get_slow_requests returns
          DefaultErrors, \* 20, what get_recent_errors returns unasked
          BufLimits,   \* limits; one above BufferMax is the same as none
          RequestTimes, \* milliseconds of a request
          Thresholds,  \* of get_slow_requests; 0 is the same as none
          ErrorKinds,  \* error types
          ErrorForms,  \* the patterns errorPattern makes of messages
          LogSources,
          MaxRecorded  \* bound: records of a behaviour

ASSUME BufferAssumption == BufferMax \in Nat \ {0}

ASSUME ToolsAssumption ==
    /\ MaxSlow \in Nat /\ DefaultErrors \in Nat
    /\ BufLimits \subseteq Int
    /\ RequestTimes \subseteq Int /\ Thresholds \subseteq Int

HttpRecords  == [ms : RequestTimes, status : {200, 500}]
ErrorRecords == [type : ErrorKinds, pattern : ErrorForms]
LogRecords   == [level : {"info", "INFO"}, source : LogSources]

Recordable(kind) == CASE kind = "http"  -> HttpRecords
                      [] kind = "error" -> ErrorRecords
                      [] kind = "log"   -> LogRecords

VARIABLES
    bufKind,   \* which buffer the behaviour is about
    recorded,  \* every record so far (auxiliary)
    buffer,    \* httpBuffer, errorBuffer or logBuffer
    reading,   \* a tool call that has its copy and not yet the total
    told       \* the last answer and what it was asked

bufVars == <<bufKind, recorded, buffer, reading, told>>

Idle    == [tool |-> "none"]
Nothing == [tool |-> "none"]

-----------------------------------------------------------------------------
(* The buffers and the sorts.                                              *)

\* What recording leaves: the slice is cut when it has grown too long.
\* Mutant: it is cut when it is full already.
Kept_WhenFull(s) == IF Len(s) >= BufferMax THEN LastOf(s, BufferMax - 1) ELSE s

Kept(s) == Bounded(s, BufferMax)

\* The exchange sorts of the two HTTP tools: two nested loops over elements with
\* a key, smallest first.
Swap(s, i, j) == [s EXCEPT ![i] = s[j], ![j] = s[i]]

Exchange(s, p) == IF s[p.j].key < s[p.i].key THEN Swap(s, p.i, p.j) ELSE s

ExchangePass(s, i) == FoldLeft(Exchange, s, [k \in 1..Len(s) - i |-> [i |-> i, j |-> i + k]])

ExchangeSort(s) == FoldLeft(ExchangePass, s, [i \in 1..Len(s) |-> i])

SlowestFirst(s) ==
    LET sorted == ExchangeSort([i \in 1..Len(s) |-> [key |-> -s[i].ms, of |-> s[i]]])
    IN  [i \in 1..Len(s) |-> sorted[i].of]

Ascending(s) ==
    LET sorted == ExchangeSort([i \in 1..Len(s) |-> [key |-> s[i], of |-> s[i]]])
    IN  [i \in 1..Len(s) |-> sorted[i].of]

-----------------------------------------------------------------------------
(* What the tools answer from the records they see.                        *)

\* get_recent_requests, for limits that are not negative.
RecentRequests(s, limit) == Reverse(IF limit < Len(s) THEN LastOf(s, limit) ELSE s)

\* get_slow_requests, from the threshold on if there is one.
SlowRequests(s, threshold) ==
    LET sorted == SlowestFirst(Filtered(s, {i \in DOMAIN s : s[i].ms >= threshold}))
    IN  SubSeq(sorted, 1, IF Len(sorted) > MaxSlow THEN MaxSlow ELSE Len(sorted))

ErrorRequests(s) == Filtered(s, {i \in DOMAIN s : s[i].status >= 400})

\* get_request_stats: durations[min(int(p*n)-1, n-1)], counted from 0.
Percentile(sorted, percent) ==
    LET n   == Len(sorted)
        at0 == (percent * n) \div 100 - 1
    IN  sorted[1 + (IF at0 < n - 1 THEN at0 ELSE n - 1)]

\* The index is -1, and the tool panics, when one request is recorded.
StatsPanic(s) == Len(s) > 0 /\ (50 * Len(s)) \div 100 - 1 < 0

NoRequests == [n |-> 0]
Panicked   == [n |-> -1]

RequestStats(s) ==
    LET sorted == Ascending([i \in 1..Len(s) |-> s[i].ms])
    IN  [n |-> Len(s), bad |-> Len(ErrorRequests(s)),
         latency |-> <<sorted[1], Percentile(sorted, 50), Percentile(sorted, 95),
                       Percentile(sorted, 99), sorted[Len(s)]>>]

\* get_recent_errors: a limit that makes no sense is the default.
RecentErrors(s, limit) ==
    LET n == IF limit > 0 /\ limit <= BufferMax THEN limit ELSE DefaultErrors
    IN  IF Len(s) > n THEN LastOf(s, n) ELSE s

\* get_error_stats: how often each type occurs.
ErrorTypes(s) ==
    [t \in {s[i].type : i \in 1..Len(s)} |-> Cardinality({i \in 1..Len(s) : s[i].type = t})]

\* get_error_patterns: one pass that counts and notes the first and last one.
First(o) == [count |-> 1, first |-> o.at, last |-> o.at]

\* Mutant: the entry's time is kept from the first occurrence.
NotePattern_FirstOnly(seen, o) ==
    Put(seen, o.pattern, IF o.pattern \in DOMAIN seen
                         THEN [seen[o.pattern] EXCEPT !.count = @ + 1] ELSE First(o))

NotePattern(seen, o) ==
    Put(seen, o.pattern, IF o.pattern \in DOMAIN seen
                         THEN [seen[o.pattern] EXCEPT !.count = @ + 1, !.last = o.at] ELSE First(o))

ErrorPatterns(s) ==
    FoldLeft(NotePattern, <<>>, [i \in 1..Len(s) |-> [at |-> i, pattern |-> s[i].pattern]])

\* get_log_buffer: the limit is compared with the unfiltered number of entries.
\* The filter is made lower case, the entry's level is not.
LowerCase(level) == IF level = "INFO" THEN "info" ELSE level

Unfiltered  == "any"
AskedLevels == {Unfiltered, "INFO"}

LogEntries(s, limit, level, source) ==
    LET n        == IF limit > 0 /\ limit < Len(s) THEN limit ELSE Len(s)
        filtered == Filtered(s, {i \in DOMAIN s :
                                    /\ level # Unfiltered => s[i].level = LowerCase(level)
                                    /\ source # Unfiltered => s[i].source = source})
    IN  IF Len(filtered) > n THEN LastOf(filtered, n) ELSE filtered

-----------------------------------------------------------------------------
BufInit ==
    /\ bufKind \in {"http", "error", "log"}
    /\ recorded = <<>>
    /\ buffer = <<>>
    /\ reading = Idle
    /\ told = Nothing

\* RecordHTTPRequest, captureErrorEntry, LogCapture: all under the lock.
Record(r) ==
    /\ Len(recorded) < MaxRecorded
    /\ recorded' = Append(recorded, r)
    /\ buffer' = Kept(Append(buffer, r))
    /\ told' = Nothing
    /\ UNCHANGED <<bufKind, reading>>

\* get_recent_requests and get_log_buffer take their copy under the lock ...
Copy(tool, asked) ==
    /\ reading = Idle
    /\ reading' = [tool |-> tool, asked |-> asked, seen |-> buffer, upTo |-> Len(recorded)]
    /\ told' = Nothing
    /\ UNCHANGED <<bufKind, recorded, buffer>>

CopyRequests(limit) ==
    bufKind = "http" /\ Copy("get_recent_requests", [limit |-> limit])

CopyEntries(limit, level, source) ==
    /\ bufKind = "log"
    /\ Copy("get_log_buffer", [limit |-> limit, level |-> level, source |-> source])

\* ... and read the total when the answer is put together.
Tell ==
    /\ reading # Idle
    /\ reading.tool = "get_recent_requests" => reading.asked.limit >= 0
    /\ told' = [tool |-> reading.tool, asked |-> reading.asked, upTo |-> reading.upTo,
                total |-> Len(buffer),
                answer |-> IF reading.tool = "get_recent_requests"
                           THEN RecentRequests(reading.seen, reading.asked.limit)
                           ELSE LogEntries(reading.seen, reading.asked.limit,
                                           reading.asked.level, reading.asked.source)]
    /\ reading' = Idle
    /\ UNCHANGED <<bufKind, recorded, buffer>>

\* Slicing panics for a negative limit; the answer is lost.
TellPanics ==
    /\ reading # Idle
    /\ reading.tool = "get_recent_requests" /\ reading.asked.limit < 0
    /\ reading' = Idle
    /\ told' = Nothing
    /\ UNCHANGED <<bufKind, recorded, buffer>>

\* The tools that see the buffer once.
TellAtOnce(kind, tool, asked, answer) ==
    /\ bufKind = kind
    /\ reading = Idle
    /\ told' = [tool |-> tool, asked |-> asked, upTo |-> Len(recorded), answer |-> answer]
    /\ UNCHANGED <<bufKind, recorded, buffer, reading>>

TellSlow(threshold) ==
    TellAtOnce("http", "get_slow_requests", threshold, SlowRequests(buffer, threshold))

TellErrorRequests == TellAtOnce("http", "get_error_requests", {}, ErrorRequests(buffer))

TellStats ==
    TellAtOnce("http", "get_request_stats", {},
               IF buffer = <<>> THEN NoRequests
               ELSE IF StatsPanic(buffer) THEN Panicked ELSE RequestStats(buffer))

TellErrors(limit) ==
    TellAtOnce("error", "get_recent_errors", limit, RecentErrors(buffer, limit))

TellErrorStats == TellAtOnce("error", "get_error_stats", {}, ErrorTypes(buffer))

TellPatterns == TellAtOnce("error", "get_error_patterns", {}, ErrorPatterns(buffer))

BufNext ==
    \/ \E r \in Recordable(bufKind) : Record(r)
    \/ \E limit \in BufLimits :
          \/ CopyRequests(limit)
          \/ \E level \in AskedLevels, source \in {Unfiltered} \cup LogSources :
                CopyEntries(limit, level, source)
          \/ TellErrors(limit)
    \/ Tell \/ TellPanics
    \/ \E threshold \in Thresholds : TellSlow(threshold)
    \/ TellErrorRequests \/ TellStats \/ TellErrorStats \/ TellPatterns

BufSpec == BufInit /\ [][BufNext]_bufVars

-----------------------------------------------------------------------------
(* Properties.                                                             *)

BufTypeOK ==
    /\ bufKind \in {"http", "error", "log"}
    /\ recorded \in Seq(Recordable(bufKind))
    /\ buffer \in Seq(Recordable(bufKind))

\* A buffer holds the newest records, in the order they came, as many as fit:
\* nothing is lost below the limit, and at the limit the oldest goes.
NewestKept == buffer = NewestOf(recorded, BufferMax)

\* get_recent_requests shows the newest, newest first, as many as were asked for.
RecentTold(shown, seen, limit) ==
    /\ \A i \in DOMAIN shown : shown[i] = seen[Len(seen) + 1 - i]
    /\ Len(shown) = IF limit < Len(seen) THEN limit ELSE Len(seen)

\* The entries that were asked for: a level is one, however it is written.
Matching(seen, asked) ==
    {i \in DOMAIN seen :
        /\ asked.level # Unfiltered => LowerCase(seen[i].level) = LowerCase(asked.level)
        /\ asked.source # Unfiltered => seen[i].source = asked.source}

\* As many of these as were asked for, the newest, in the order they came.
NewestEntries(shown, seen, of, limit) ==
    shown = NewestOf(Filtered(seen, of), IF limit > 0 THEN limit ELSE BufferMax)

\* get_log_buffer shows no entry that was not asked for, and misses none unless
\* there is a level filter: then it may miss those whose level is in capitals
\* (EntriesFound says that it should not).
EntriesTold(shown, seen, asked) ==
    \E found \in SUBSET Matching(seen, asked) :
       /\ \A i \in Matching(seen, asked) \ found :
             asked.level # Unfiltered /\ seen[i].level # LowerCase(seen[i].level)
       /\ NewestEntries(shown, seen, found, asked.limit)

\* get_recent_errors shows the newest.
ErrorsTold(shown, seen) == shown = NewestOf(seen, Len(shown))

\* get_slow_requests shows the slowest, slowest first: what is left out is not
\* slower than what is shown.
SlowTold(shown, seen, threshold) ==
    LET all == {i \in DOMAIN seen : seen[i].ms >= threshold}
    IN  /\ \A i, j \in DOMAIN shown : i < j => shown[i].ms >= shown[j].ms
        /\ Len(shown) = IF Cardinality(all) < MaxSlow THEN Cardinality(all) ELSE MaxSlow
        /\ \A i \in all :
              \/ \A j \in DOMAIN shown : seen[i].ms <= shown[j].ms
              \/ Cardinality({j \in DOMAIN shown : shown[j] = seen[i]})
                   = Cardinality({j \in DOMAIN seen : seen[j] = seen[i]})

\* The percentiles are times of real requests, in order, and enough requests
\* were as fast.
PercentilesTold(at, seen) ==
    /\ \A k \in 1..4 : at[k] <= at[k + 1]
    /\ \A k \in 1..5 : \E i \in DOMAIN seen : seen[i].ms = at[k]
    /\ 2 * Cardinality({i \in DOMAIN seen : seen[i].ms <= at[2]}) >= Len(seen) - 1
    /\ \A i \in DOMAIN seen : at[1] <= seen[i].ms /\ seen[i].ms <= at[5]

\* get_request_stats tells the percentiles of all requests.  It may fail to when
\* there is one request, and never when there are more.
LatencyTold(answer, seen) ==
    \/ seen = <<>> /\ answer = NoRequests
    \/ Len(seen) = 1 /\ answer = Panicked
    \/ seen # <<>> /\ answer.n = Len(seen) /\ PercentilesTold(answer.latency, seen)

\* get_error_stats counts each error under its type.
TypesTold(types, seen) ==
    \A t \in ErrorKinds : (IF t \in DOMAIN types THEN types[t] ELSE 0)
                             = Cardinality({i \in DOMAIN seen : seen[i].type = t})

\* get_error_patterns counts each error under one pattern, which was first seen
\* before it was last seen.
PatternsTold(patterns, seen) ==
    \A i \in DOMAIN seen :
       LET found == patterns[seen[i].pattern]
       IN  /\ found.first <= i /\ i <= found.last
           /\ found.first \in DOMAIN seen /\ seen[found.first].pattern = seen[i].pattern
           /\ found.last \in DOMAIN seen /\ seen[found.last].pattern = seen[i].pattern
           /\ found.count = Cardinality({j \in DOMAIN seen : seen[j].pattern = seen[i].pattern})

\* What the buffer held when the tool looked.
Seen == NewestOf(SubSeq(recorded, 1, told.upTo), BufferMax)

\* Every answer follows from what was recorded when the tool looked, and never
\* more is shown than there is said to be, though others record meanwhile.
AnswersRight ==
    /\ told.tool = "get_recent_requests" =>
          told.total >= Len(told.answer) /\ RecentTold(told.answer, Seen, told.asked.limit)
    /\ told.tool = "get_log_buffer" =>
          told.total >= Len(told.answer) /\ EntriesTold(told.answer, Seen, told.asked)
    /\ told.tool = "get_recent_errors" => ErrorsTold(told.answer, Seen)
    /\ told.tool = "get_slow_requests" => SlowTold(told.answer, Seen, told.asked)
    /\ told.tool = "get_request_stats" => LatencyTold(told.answer, Seen)
    /\ told.tool = "get_error_stats" => TypesTold(told.answer, Seen)
    /\ told.tool = "get_error_patterns" => PatternsTold(told.answer, Seen)

\* What get_log_buffer says of its filter ("Filter by log level"): an entry of
\* that level is found.  The code does not keep to it: it compares the filter in
\* lower case with levels that CaptureSlogHandler writes in capitals.
EntriesFound ==
    told.tool = "get_log_buffer" =>
        NewestEntries(told.answer, Seen, Matching(Seen, told.asked), told.asked.limit)
=============================================================================
