# Go Debug Agent in TLA+

Go Debug Agent is a library that adds a chat page to a running Go program.  A
user asks about the program, a language model answers with the help of tools,
and the tools ("inspectors") read the program's state: goroutines, heap,
requests, jobs, profiles.  This directory models the parts of it that have
state, threads and failures, checks them with TLC, and proves the main results
with TLAPS.  Paths below are relative to the repository.

## 1. The system

### Components

| Component | State | Operations | What makes it correct |
|---|---|---|---|
| Chat engine, `engine.go` | `sync.Map` of sessions; per chat the round, `emptyRetried`, the reply | `getOrCreateSession`, `Chat`, `runToolLoop`, `ClearSession` | the history it sends is one the API accepts; each stream ends with one terminal event; rounds are bounded |
| Session, `chat_session.go` | `Messages`, token counters, no lock | `AddMessage`, `ReplaceMessages`, `RecordTokenUsage`, `Clear` | nothing is lost while clients take turns |
| Compressor, `context_compressor.go` | none | `NeedsCompression`, `Compress`, `identifyRounds`, `summarizeWithLLM`, `fallbackTruncate` | cuts only between rounds, keeps what the model has not seen, forgets no question |
| LLM client, `llm_client.go` | per request: attempt, parsed lines, tool call pieces | `ChatStream`, `ChatNonStreaming`, retries | text is shown once, tool calls are whole, one verdict per request |
| Endpoint, `middleware.go` | the SSE response | `/api/chat`, `/api/clear`, page, health, tools | events in order, one terminal event |
| Tool registry, `tool_registry.go` | a map filled at start-up | `Register`, `ExecuteTool` | an error is a result |
| Chat page, `chat_page.go` (JavaScript) | badges by tool name, the streaming flag | `sendMessage`, event handling, clear | every badge is completed by its own result; input is unlocked at the end |
| Scheduler, `inspector_scheduler.go` | registry of jobs; per job ticker, `done`, history | `RegisterScheduledJob`, `StartTicker`, `Stop`, two tools | a started job runs until it is stopped, a stopped one does not |
| CPU profiler, `inspector_cpu_profile.go` | flag, buffer, last result, timers | `start_cpu_profile`, `stop_cpu_profile`, `get_top_functions` | the flag is true; a result is of one profile; profiling ends |
| Buffers: `inspector_http.go`, `inspector_error.go`, `inspector_logging.go` | bounded slices, a total | record, recent, slow, failed, statistics, patterns, filter | the newest records, in order; answers follow from them |
| Log capture and loggers, `inspector_logging.go` | the unfinished line of a writer; a registry of loggers | `Write`, `Handle`, `RegisterLogger`, `set_log_level` | lines are whole; what was set is told |
| WebSocket inspector, `inspector_websocket.go` | connections, rooms, counters | register, join, leave, message, close | rooms, counters and connections agree |
| Heap leak detector, `inspector_leak.go`; metric snapshots, `inspector_snapshot.go` | bounded lists of snapshots, a number | take, compare, detect, list | an id names a snapshot; the report follows from the snapshots |
| Health checks, `inspector_health.go` | a map of callbacks under an `RWMutex` | register, three tools | a report is of one registry state; the tools answer |
| Outbound HTTP, `inspector_http_client.go` | clients, counters | wrap, `RoundTrip`, summary | each call is counted once |
| Cache tools, `inspector_cache.go` | a registry of caches | statistics, keys, clear | answers are true of some moment; cleared is cleared |
| Pool and lock analysis, `inspector_pool.go`, `inspector_locks.go` | a registry of databases | risk reports, `detect_deadlock` | a report does not contradict its parts |
| Endpoint tester, `inspector_endpoint_test_inspector.go` | the tested endpoints | single and batch tests, coverage | a pass was a pass, covered was tested |
| Goroutine inspector, `inspector_goroutine.go` | none | group stacks, count states | groups partition the goroutines |
| Registries for metrics, routes, Redis, security; feature flags; migrations; dependencies | a map each | register, read | - |
| Other inspectors | none of their own | read the runtime or the file system and format | - |
| Start-up: `config.go`, `inspectors.go`, `system_prompt_builder.go`; demo | set once | - | - |

### How they interact

The page sends `POST /api/chat` and reads the response as an event stream.  The
handler's goroutine calls `DebugEngine.Chat`, which finds or stores the session
in a `sync.Map`, appends the question and runs the tool loop:

1. compress the history if the prompt has become long (a second, not
   streaming, request to the model writes the summary);
2. send the history, stream the answer (`ChatStream` retries by itself);
3. without tool calls: append the answer and report `done`; an empty answer
   after tools is followed, once, by a nudge and another round;
4. with tool calls: append them, run each tool in this goroutine, report
   `tool_start` and `tool_result`, append the result; next round;
5. after 25 rounds (`README.md:70`) ask once more without tools; that answer is
   streamed to the client and not stored in the session.

Requests run in goroutines of their own and nothing serializes the requests of
a session.  `/api/clear` empties a session that may be in use.  Tools run on the
chat's goroutine and share the inspectors' state with the application's
goroutines: tickers, timers, log writers, HTTP handlers.

### What is hard

* Sessions have no lock: two chats on one session interleave on one slice.
* A history must pair every tool call with its results.  Any early exit, a cut
  at the wrong place, or a panic between them leaves a session that the API
  refuses from then on.
* Retries around a stream whose first half has already been shown.
* Goroutines that read fields another goroutine is changing (scheduler), timers
  that outlive what they were armed for (profiler).
* Callbacks run under locks; counters are read outside them; numbers are drawn
  before the lock that orders what they number.
* Reports are made in one pass over data of several kinds, and later findings
  overwrite or meet earlier ones.

`PROJECT.json` lists these as hazards, each at its line.

## 2. Modules

| Module | What it is |
|---|---|
| `ChatContract` | What a client may rely on, per event stream. Abstract. |
| `ChatEngine` | Engine, session, compressor, and their use by the endpoint. Implements `ChatContract`. |
| `ChatEngineProofs` | Type correctness; the implementation of `ChatContract`; one session object per session id when clients take turns; histories open with a question or a summary, are paired, have their nudges apart, and are compressed without losing what the model has not seen. |
| `StreamContract` | What the engine relies on when it calls the LLM client. Abstract. |
| `ChatPage` | The browser's side, composed with `ChatContract` as the server. |
| `LLMClient` | One request with its retries. Implements `StreamContract`. |
| `ChatPageProofs` | The stream is handled in order however it is cut; text, badges and turns; the server is that of `ChatContract`. |
| `LLMClientProofs` | Retries; text is heard once; calls are whole; the implementation of `StreamContract`. |
| `Scheduler` | Jobs, tickers, goroutines. |
| `CpuProfiler` | Profiles, timers, the application's own profiling. |
| `CpuFunctions` | What a profile says of the functions. |
| `GoData` | Go's maps and slices. |
| `GoDataProofs` | Lemmas on sums over a map, on selections from a sequence, on concatenations, orders and least elements. |
| `Loops` | What a fold over a slice is: one turn of the loop after another. Its constant is the turn; proofs instantiate it. |
| `RecordBuffers` | The buffers of requests, errors and log entries, and their tools. |
| `LogWriter`, `LoggerLevels` | How output becomes entries; how levels are set. |
| `WebSocket` | Connections, rooms, counters. |
| `HeapSnapshots`, `MetricSnapshots` | Numbering, retention, comparison, leak reports. |
| `OutboundHttp` | Registration of clients, calls, statistics. |
| `HealthChecks` | The registry, its lock, checks that re-enter it. |
| `CacheTools` | Tools that walk a map others change. |
| `PoolRisk`, `LockRisk` | Risk reports on pools; `detect_deadlock`. |
| `EndpointTests` | Batches of tests beside coverage reports. |
| `GoroutineGroups` | Stacks grouped, states counted. |
| `Reports` | The four modules that report on data of several kinds: pools, locks, functions, goroutine groups. |
| `RecorderProofs` | What is recorded while the program runs: profiler, buffers, outbound calls, WebSockets, lines and levels of the log, runs of scheduled jobs. |
| `ReportProofs` | What is found when a tool asks: health checks, caches, endpoints, snapshots of metrics and heap, pools, locks, functions and goroutine groups. |
| `Inspectors` | All inspectors from `CpuProfiler` on and the scheduler beside each other, and the type invariant of all. |
| `InspectorProofs` | That type invariant. |
| `MCInspectors` | These on small instances, one per behaviour. |
| `MCChat` | `LLMClient`, `ChatEngine` and `ChatPage` on small instances, one per behaviour; `AnswersEnd`. |
| the other `MC...` | Model values and small sets for TLC, for one module each. |

### ChatEngine

A chat is one request; `pc[c]` is where its goroutine is in `Chat` and
`runToolLoop`.  A session object is named after the chat that allocated it;
`table` is the `sync.Map`.  A step is what another goroutine can observe.
`Messages = append(Messages, m)` is two steps: `LoadHistory` reads the slice
header, and the `Add...` action stores, so an interleaved append is lost as it
is in Go.  (When the backing array has room, Go may also let one append show
through in the other's slice; the model has the lost update, not the shared
element.)  `Compress` is two steps with the summary request in between.

A message is its role, a number (an assistant's tool calls; which call a tool
message answers) and the questions it stands for.  The number is the link that
`tool_call_id` is in the code.  The texts, token counts and prompts are left
out; whether the prompt is above 75% of the window is chosen anew with every
answer that carries a usage report.  `content` events and compression notices
may come at any time while a stream is open and are left out of `sse`.

A tool returns or panics.  Nothing recovers a panic below `net/http`, which
drops the connection: `pc = "panicked"`, the stream is "cut".  A client that
goes away is not an action: the loop does not look at the request's context and
goes on as if it were read.

`ChatsMayOverlap` and `ClearMayOverlap` say what clients do.  The page itself
disables its input while a stream is open, but two tabs or two scripts share a
session id without any guard, and the page's clear link is not blocked.

### ChatPage

The server is an instance of `ChatContract`; each of its steps also writes a
frame.  A frame is its lines, a line is its text and its newline, and a chunk is
any number of these pieces, so a chunk may end inside a line, between the lines
of an event or after several events.  The script handles a chunk without
interruption, so a chunk is one action: a fold of `HandlePiece` over its pieces.
The rendering timer and a break of the connection are actions of their own.  A
server that has lost its client goes on, and its frames go nowhere.  An error
message may have several lines, because it quotes the model server; the lines
after the first are dropped by the parser.  The page does not look at what a
result says: each makes its badge a success.  Compression notices, Markdown,
layout and the clear link are left out.

### LLMClient

One request in either mode.  The server is the environment: it refuses, answers
with a status, or sends a body of lines, which may stop at any line.  A failed
attempt is retried if `isRetriableErr` says so, which takes everything that is
not an HTTP status for a network error.  `calculateDelay` is left out: a
retry comes at some later time.  `Collected` has the loop's two quirks, the
bound by the number of entries and the test of the name.

### Scheduler and CpuProfiler

`StartTicker` and `Stop` hold the lock and are one action each; a turn of the
goroutine's `select` reads `j.ticker` and `j.done` without it, in two actions,
and blocks on what it read.  In the profiler every tool call and every timer
callback holds the lock throughout.  Timers are never cancelled, so each profile
leaves one behind.  The application may profile by itself (`net/http/pprof`).
`CpuFunctions` has the sums per function: a sample is a stack of locations with
inlined functions, or none where nothing is known of them, and how often it was
taken.  The profile's records of a stack may differ in labels, so a stack may have
several.  The second value of a sample is its nanoseconds, `Period` for each time it
was taken.  The two values are added up as the code adds them, and equal entries come
in any order, since `sort.Slice` is not stable.

### The other inspectors

Each inspector keeps its own state, and no other one writes it.  Metric snapshots
read what others keep; there it is a value that grows and one that varies
(`MetricSnapshots`).  Tools run on chats' goroutines and recording functions on the
application's.  An action is a stretch of code under
one lock; where the code lets go of a lock and goes on, the model has two
actions.

* `RecordBuffers`: `Record` is the append and the cut under the lock.
  `get_recent_requests` and `get_log_buffer` are `Copy` and `Tell`, because the
  total is read after the copy and without the lock; the other tools are one
  action.  `recorded` remembers everything, for the properties.
* `LogWriter`: `Write` appends, `CaptureLine` captures the first complete line,
  `WriteUnlocks` ends the critical section, `PassOn` calls the inner writer.
  Bytes are symbols; a line is told apart by the level words it holds.
* `LoggerLevels`: `LookUpLogger` under the registry's lock, `SetLoggerLevel`
  under the logger's; `RegisterLogger` may come in between.  A logger is of a kind,
  by what reflection finds: set by name, by a number counted from debug, by a number
  as zap counts (debug is -1), only readable, one that panics, none of these.  `Meant`
  is the level that a logger has after `SetLevel` was called with what
  `reflectCallSetLevel` passes.
* `WebSocket`: one action per exported function, for known and unknown ids.
* `HeapSnapshots`: the number is a load and a store, the id another load, and
  reading the heap a step of its own, before the snapshot is stored under the
  lock.  `LeakCandidates` and `CompareHeap` are operators on what is kept.
* `MetricSnapshots`: gathering is spread over the call, numbering and storing
  are one action.  A registry that fails leaves nil data (`NoData`).
* `OutboundHttp`: `ReadTransport`, `SetTransport`, `NameClient`; calls go through
  the layers they found, each of which counts.  `Summarize` hands out the map of
  status codes itself, `Encode` reads it later.
* `HealthChecks`: the lock is Go's: a waiting writer keeps new readers out.
  A check answers, panics, is nil, registers another check or asks for the
  health; the last two re-enter the lock that is held around them.
* `CacheTools`: `Range` visits keys one by one while others store and delete.
* `PoolRisk`: the counters of `sql.DB` change by small steps; checks and risks are
  folds in the code's order.  `LockRisk`: what a stack shows depends on what the
  goroutine waits for and on `GOTRACEBACK`.  An `RWMutex` is a mutex there, and of
  those that wait without one only semaphores show the state "semacquire"; before
  Go 1.25 those of a `WaitGroup` do, too.  `DeadlockTold` is the same with them.
* `EndpointTests`: one action per test of a batch; coverage copies the tested
  endpoints under one lock and reads the routes under another.  A Gin engine and an
  Echo app may serve one route, which then is in the list twice.  A request is
  "varied" if it is not written like its route: with a query, or with values where
  the route has parameters.
* `GoroutineGroups`: the dump and the count of goroutines are two moments.

## 3. Runs

| Run | Question | Result |
|---|---|---|
| `chat` | the engine with two chats, one after the other, on one session, and clears in between; a request, streaming and not, with every failure and two retries; the page with two messages, every way to cut the stream, connections that break | all properties hold; 0.4 million states |
| `chat_overlap` | two chats and clears interleave freely | each stream keeps `ChatContract`; 2.8 million states |
| `inspectors` | each inspector, and one job with two starts, under every order of its callers | all properties hold; 0.6 million states |
| `chat_summary` | is no question forgotten? | **violated** |
| `llm_truncated` | is an answer delivered as complete the whole one? | **violated** |
| `scheduler_stop` | does `Stop` stop the job? | **violated** |
| `scheduler_restart` | does a restarted job run? | **violated** |
| `cpu_profiler_timer` | does a profile run as long as it was asked to? | **violated** |
| `log_filter` | does the level filter find the entries of that level? | **violated** |
| `monotonic_growth` | did a class that is told to grow monotonically never shrink? | **violated** |
| `cpu_nanoseconds` | are the times of functions nanoseconds? | **violated** |
| `endpoint_coverage` | was a route that is told untested not tested? | **violated** |

### Properties

The run `chat` is about one part per behaviour, `part`: `ChatEngine`, `LLMClient` or
`ChatPage`.  The client and the engine meet in `StreamContract`, the engine and the
page in `ChatContract`, so each is checked alone.

* `RequestsPaired`: when clients take turns and no tool panicked in the
  session, every request pairs calls and results, through nudges, errors and
  compressions.
* `NudgesSeparated`: the guard against empty answers works.
* `AnswersEnd`: what was begun ends.  Of the engine, every stream that opened; of the
  client, every request, in a verdict; of the page, the lock on its input, whatever
  becomes of the stream.
* `OpensWithQuestion`: a history begins with a question or a summary.  It is
  checked and proved with clears between chats.  With `ClearMayOverlap` it fails: a chat
  that is running when its session is cleared appends its answer to the empty
  history.  Nothing in the repository promises otherwise, so it is recorded as a
  hazard and not as a finding.
* `OneSessionPerKey`: chats that take turns share one session object.  (Two
  first requests at once do not: both miss the map, both store.)
* `UnseenResultsKept`: compression keeps everything from the last assistant
  message on, and removes something.
* `KeepsContract`: the event stream, in every interleaving.
* `EventsInOrder`, `TextShown`, `BadgesTell`: the page handles what was sent, in
  order and once, however it is cut; the timer loses no text; a badge is completed by
  the result of its own call.
* `TurnsKept`: the page's flag is what makes clients take turns.  It holds unless
  a connection breaks; then the page lets the user go on while the server still
  runs the old chat, and the engine is in the situation of `chat_overlap`.
* `HeardOnce`, `CallsWhole`, `RetriesEarned`, `KeepsStreamContract`: a request of
  the LLM client with all its retries looks like one answer; whole responses give
  whole tool calls.

The run `inspectors` checks one inspector per behaviour: `MCInspectors` chooses
`which` one takes steps, the others rest; the scheduler is among them.  An invariant
of the run is one of an inspector, or the conjunction of what several must keep:

* `FlagIsTrue`, `LastIsOneProfile`, `EndsInTime`: see `CpuProfiler`.
* `NewestKept`, `AnswersRight`: a buffer holds the newest records, whatever the
  order of recording and asking; what a tool shows are the newest, or slowest,
  of what it was asked for, and percentiles and counts follow from the records.
  Two things the code does are in it as they are: a level filter may miss entries
  whose level is in capitals (the run `log_filter` says what it should do), and the
  statistics of exactly one request may be a panic.
* `LogsRight`: lines stay whole however they are cut and whoever writes between;
  after `set_log_level` has answered, `get_log_level` tells that level of a logger
  that is set by name, by a number counted from debug, or only remembered, and that
  level or the next of a zap logger.
* `SocketsAgree`: rooms, members, subscriber counts and totals, through ids that
  were never registered, registered twice or removed.
* `HeapReportsRight`, `SnapshotReportsRight`: while takers do not overlap an id
  names one snapshot; reports follow from what is kept; comparisons add up.  A class
  is a leak candidate just when it ends above where it began; one that never shrank is
  "high", and a "high" one grew at its last change.
* `OutboundRight`: a registered client is tracked, and a call counted once unless
  the application wraps a transport itself; the counters add up.
* `ReportTells`, `HealthAnswers`: a health report is of one registry state, and
  every tool and registration comes to its end unless a check re-enters.  If one
  does, it may wait for ever: a check that registers another always does.
* `CacheRight`: "cleared" means that what is there was stored since.
* `ReportsAgree`: the worst finding decides a risk; "no deadlock" is said only
  of goroutines that wait for no mutex; goroutine groups add up.  The times of a
  function are the nanoseconds of its samples and one more for each time they were
  taken, its count the number of their records.
* `EndpointsRight`: a batch tells of every test once and passes none that was not
  as expected.  Coverage tells of every route of every engine: as covered only if a
  request for it was answered, as uncovered only if none that is written like the
  route was answered before the copy was made.
* `NoDoubleClose`, `ErrorsAgree`, `RunsOn`: `Stop` never panics, the recorded
  error is that of the newest run, jobs survive errors and panics.

For every property `PROJECT.json` names a mutant: a plausible slip in the
code, as an operator beside the one it changes, that violates the property.

### What the violated runs show

* `chat_summary`: the summary is a message of role `system`; the next
  compression skips such messages and drops it.  After two compressions the
  first questions are in no summary.
* `llm_truncated`: `scanner.Err()` is never read, so a stream that breaks off
  is a complete answer and is not retried.
* `scheduler_stop`: `Stop` sets `j.done` to nil; a goroutine that is running the
  job, or is between two turns of its loop, then selects on nil and never stops.
* `scheduler_restart`: the old goroutine reads `j.ticker` again when it hears
  `Stop`; after a restart it stops the new ticker.
* `cpu_profiler_timer`: the timer of a profile that was stopped by hand ends the
  next one early.
* `log_filter`: `get_log_buffer` makes its filter lower case, `CaptureSlogHandler`
  writes levels in capitals, so none of its entries is ever found by level
  (`inspector_logging.go:94`).  "Filter by log level (debug/info/warn/error)", says
  `inspector_logging.go:79`.
* `monotonic_growth`: every change sets or clears the flag anew, so sizes 2, 0, 3
  are told as "Monotonic growth across all snapshots" (`inspector_leak.go:294`).
* `cpu_nanoseconds`: `parseCPUProfile` adds up all values of a sample, of which the
  first is how often it was taken.  The fields are named `cumulative_ns` and
  `self_ns` (`inspector_cpu_profile.go:28`), and entries are said to be sorted by
  cumulative nanoseconds (`:162`).
* `endpoint_coverage`: routes are compared with the paths of requests as texts, so a
  route that was requested as `/x?a=1`, or with a value for a parameter, is told
  untested.  "Shows which routes have been tested and which have not", says
  `inspector_endpoint_test_inspector.go:313`.

### Disagreements without a run

These contradict a document of the repository and are in the models as the code has
them:

* `README.md:67` promises "real-time tool call badges (pending / success / error)";
  the page passes `true` for every result (`chat_page.go:554`), so no badge is ever an
  error.
* `set_log_level` passes a number to a logger whose `SetLevel` takes one, which a
  comment calls "common for slog/zap level enums" (`inspector_metrics.go:410`).  The
  numbers are 0 to 3, those of zap are -1 to 2: `debug` becomes info, `error` becomes
  dpanic, and "updated" is answered (`README.md:165`: "Dynamically set the log level for a
  registered logger").  `LevelTold` states what is told instead.
* `README.md:120` and `inspector_http.go:106` advertise "P50/P95/P99 latency"; with
  exactly one request recorded the tool panics (`inspector_http.go:124`).
  `LatencyTold` allows it for one request and for no other number.
* `stop_cpu_profile` tells the number of functions as `total_samples`
  (`inspector_cpu_profile.go:108`).
* `get_lock_contention` "shows contention time per call site"
  (`inspector_locks.go:28`), but its parser, as that of blocking, looks for lines that
  begin with "contention:" (`:211`, `:248`), which the runtime's profiles do not have,
  so its lists are always empty.  The parsers are not modelled, nor is
  `isMutexLocked`, which reads fields that current versions of Go have moved.

### Bounds

`MaxToolRounds = 3` (25 in the code) has rounds with tools, an empty answer, a nudge
and the forced last one; with two chats the history has up to seven rounds.
`KeepRounds = 2` (3 in the code) makes compression do nothing, keep fewer than all,
and compress twice.  `MaxCalls = 2` tells the first call of a batch from the last.
Under overlap `MaxToolRounds = 2`, `MaxCalls = 1`: interleavings of two chats matter
there, not long histories.  Three lines and two indices in `LLMClient` make two
interleaved calls, a call out of order and a gap, which is index 1 without 0.
`MaxEvents = 3` lets a stream call the same tool twice, or two tools, or mix text
and tools; every cut of its 25 or so pieces is explored.  `MaxStarts = 2` is one
restart, so two goroutines of one job; a history of two runs meets a third.  One job
is enough, as jobs share only the registry, on which no property depends; the
theorems are about any number.  Three profiles meet two left-over timers; the
longest duration is above the cap.  `MaxTime` is long enough for the first timer to
meet the third profile; a profile too near the end of time is not asked to end.

In `inspectors`, buffers of three meet four records, so the cut happens and is
followed by tool calls; limits are negative, zero, small and too large; two
goroutines run tools while one or two others change what they read; two names are
enough for a name that is registered anew beside one that is not; heap sizes 0, 2,
3, 4 grow by less and by more than half.  A stack has one record or two, or is taken
twice.  Two engines serve the same route, different ones or none.  Three goroutines
make a circle of mutexes and a third waiter, the threshold of risk "high".  Stacks
have one function, two, inlined ones and a recursive one.  Three goroutines in
groups have a largest group, and two stacks that differ only in who created them.

`CHECK_DEADLOCK FALSE` stands where the system may come to rest: a request is
answered, no job is running, all starts are used up.

### Fairness

* `ChatEngine`: a goroutine that can run does.  Streams end because the HTTP
  client has a timeout and retries are bounded; tools are assumed to return or
  panic, which the code does not enforce.  Clients need not send anything.
* `ChatPage`: the server's streams move on, which `AnswersEnd` shows of the
  engine; what was written arrives; `net/http` closes a connection whose handler
  panicked.  The user sends nothing unasked, and no connection need break.
* `LLMClient`: the timeout bounds connecting and reading; sleeping ends.
* `Scheduler`: tickers tick and the job's function returns; the application need
  not start or stop anything.
* `CpuProfiler`: time passes and a due timer fires; nobody need stop a profile.
* `HealthChecks`: a goroutine that can go on does, a check returns unless it
  waits for the lock, and `RWMutex` lets a waiter in when it is free.  Nothing is
  assumed of the other inspectors.

## 4. Proofs

`tlapm` checks every leaf.  Sets of actors are arbitrary, not even finite unless
an assumption says so, and limits are arbitrary numbers.  The assumptions on
constants are the named `ASSUME`s of the modules:

* limits are numbers, positive where the code slices or divides by them
  (`ConstantsAssumption`, `BufferAssumption`, `SnapAssumption`, `HeapAssumption`,
  `CacheAssumption`, `ProfilerAssumption`, `SchedulerAssumption`,
  `ClientAssumption`, `PageAssumption`, `LogAssumption`, `LoggerAssumption`), as are
  the bounds on calls and registrations that the models have (`HealthAssumption`,
  `CallersAssumption`);
* sizes are what Go gives them: bytes and message sizes are not negative
  (`HeapAssumption`, `SizesAssumption`), a batch of tests is not empty
  (`BatchAssumption`; the tool refuses an empty one);
* what is counted is finite: callers, cache keys, routes, goroutines
  (`CallersAssumption`, `CacheAssumption`, `EndpointAssumption`,
  `GoroutinesAssumption`);
* what the runtime and the tools' callers hand over has the form the code reads:
  names of databases are a sequence (`PoolAssumption`), samples are stacks of
  locations, which may be empty, with values that are not negative
  (`FunctionsAssumption`), a dumped stack has at least a function and a creator, each
  with its place, and `top_n` is positive (`StacksAssumption`); limits, thresholds and
  times of requests are numbers of any sign (`ToolsAssumption`).

### The engine

`ChatEngineProofs`:

* `TypeCorrect` (`Spec => []TypeOK`).  `TypeOK` is not inductive: the round
  counter's bound needs to know in which states the loop may still count, and a
  chat past `getOrCreateSession` needs a session.  `TypeInv` adds `Placed(c)`,
  which also ties the last event of a stream to the control state.
* `ContractKept` (`Spec => KeepsContract`).  From `TypeInv`: each action is a
  step of the contract on its own chat (`ContractStep`) or leaves the event and
  the number of requests alone (`QuietActions`).  It holds for overlapping
  chats and clears.
* `OneSession` (`Spec => []OneSessionPerKey`).  `Turns` says that the active
  chat of a session id is alone, that a chat on the miss path still finds no
  session in the map, and that every object in the map was stored by a chat of
  that id.  All actions but `Arrive` and `CreateSession` are one kind of step
  (`Stays`).
* `QuestionFirst` (`~ClearMayOverlap => (Spec => []OpensWithQuestion)`), also for
  chats that overlap on one session.  `Keyed` says that an object serves the
  session id of the chat that made it, so `ClearSession` empties no history a chat
  is working on; `Openings` says that a chat past its question finds a history,
  and that what it has read or is about to store opens well, if it is not empty.

Of the histories, when clients take turns:

* `PairedRequests` (`Spec => []RequestsPaired`).  A history in the middle of a
  batch is not paired, so the invariant `Histories` says who may have one:
  a running chat in a batch has `Pending` calls, the others' histories are
  `Paired`, what a chat has read is still there, and a compressed history that
  is yet to be stored is paired too.  `AppendPlain`, `AppendCalls` and
  `AppendReply` say what appending does; `CutPaired` says that a cut at the start
  of a round keeps a history paired, which is why `identifyRounds` may not open
  a round at a tool message.  `RunStep` reduces an action to the history of
  its own chat, because `Turns` leaves nobody else on it (`Alone`).
* `NudgesApart` (`Spec => []NudgesSeparated`) and `NothingUnseenCut`
  (`Spec => []UnseenResultsKept`) share the invariant `Heeded`.  For the nudges
  it says which control states have a history with calls since its last nudge:
  `emptyRetried` is set where that may fail and reset where calls were appended.
  For compression it says that a chat that compresses has been answered since its
  question (`Answered`), so the last round opens before that answer
  (`CutBeforeAnswer`), and that the plan is the present history with a prefix made
  a summary (`CompressedTells`, `CutRemoves`).

### The page

`ChatPageProofs` has one invariant, `PageInv`, for five properties: `PageTypeOK`
(`PageTypeCorrect`), `EventsInOrder` (`PageEventsInOrder`), `TextShown`
(`PageTextShown`), `BadgesTell` (`PageBadgesTell`) and `TurnsKept` (`PageTurnsKept`).

* `Written`: what lies on the connection is what `ChatContract` lets a stream in
  this state have sent (`Protocol`); a start and its result alternate.
* `Converses`: the page is somewhere in what was written.  The pieces of all
  frames are one sequence, `Framed` gives each frame its place in it, and `Reading`
  says, for a page that has taken n pieces, in which frame it is and what its parser
  therefore holds: a line that is not complete, the event's name, the data.  The
  badges are those of the frames handled so far.
* `Locked`, `Rendered`: the input is locked while frames may come; what is not
  shown has a timer, and unlocking shows it.

A chunk is handled as a fold over its pieces.  `LoopRuns` (of `Loops`, see below)
and `ChunkRuns` say that it is handling them one after another, so it is enough that
`Reading` is kept by one piece (`StageStep`, `ReadingStep`), whatever the cut
(`ReadingChunk`).

`PageServerKeepsContract` (`PageSpec => Server!Spec`) closes the circle: the server these
theorems assume makes steps of `ChatContract` only, however late requests arrive and
whatever connections break, and `ContractKept` says that the engine makes no others.

### The LLM client

`LLMClientProofs`, for any number of lines, indices, statuses and retries:

* `RetriesAreEarned`, `ImplementsStreamContract`.  `Attempts` counts failures
  against attempts; `HeardOfLast` says that text was heard only of an attempt that
  can no longer fail, so a retry repeats none; `StepIsOneOfContract` maps each step
  to a step of `StreamContract` or a stutter.
* `ClientTypes` (`RequestTypeOK`), `TextIsHeardOnce` (`HeardOnce`), `CallsAreWhole`
  (`CallsWhole`).  `ParserInv` gives what the parser holds as a function of the lines
  read: the text heard is that of the text lines in their order, an entry of
  `toolCallMap` has as many pieces as lines with its index were read, and is named if
  one of them had a name.  `CollectedAll` then says when the loop over `toolCallMap`
  yields every entry: when the indices have no gap and each is named, which is what a
  well-formed response gives.

### The scheduler

`SchedulerTypes`, `NeverClosedTwice`, `LastErrorIsNewest` (`RecorderProofs`), for
any number of jobs and starts.  `NoDoubleClose` needs `ChannelsOwned`: a channel a
job holds was made by a start of that job, and one that no start has used is open;
so no `Stop` of another start can have closed it.

### What is recorded

`RecorderProofs`:

* `FlagTrue`, `OneProfile`, for any durations and number of profiles.
  `ProfilerInv` ties the three together: while the agent profiles, the buffer has
  the current profile or is empty, and the last result is the profile before.
  `CappedRange` bounds the deadlines.
* `NewestAreKept`.  `NewestKept` is inductive with the types of the two sequences;
  `CutKeepsNewest` says that appending and cutting the newest n of a sequence gives
  the newest n of the appended one.
* `AnswersTold` (`AnswersRight`), for any records, limits and thresholds.
  `ReadingRight` says that a tool goes on with what the buffer held when it was
  copied, so its answer is about that, and `total`, which is read later, is at least
  as large, because a buffer never shrinks.  The rest are facts about the operators.
  The exchange sorts are two nested loops: a turn of the inner one keeps every
  element (`SwapRearranges`) and has the least key so far at its place
  (`ExchangeStep`), a turn of the outer one has one place more in order for good
  (`ExchangePassStep`), so that in the end all are (`SortIs`).  That elements are kept
  is a bijection of their places (`Rearranged`), from which equal counts follow
  (`RearrangedCounts`).  Percentiles, counts per type and patterns (`NoteStep`)
  come from there.
* `OutboundTold` (`OutboundRight`), for any callers, hosts and registrars.
  `LayersTold` says how many counting layers a call still has to go through, and that
  two registrars that read one transport do not wrap it twice; `CallsTold` that a
  call under way is not counted yet; `StatsTold` and `SummaryTold` that the sums of
  the maps are the totals, and that the map of status codes that left the lock with
  the summary has only grown since.  The sum over a map is proved as a number of
  units (`TotalIsUnits`, `TotalChanges`).
* `SocketsTold` (`SocketsAgree`), for any connections, rooms and message sizes.
  `WsInv` adds to rooms that agree with connections that the totals cover what the
  connections report, and that the bytes lie between so many smallest and so many
  largest messages, which is what the averages need.
* `LogsTold` (`LogsRight`), for any pieces, goroutines and calls.  `WriterLocks`
  says that one goroutine at most is between the appending of its piece and the
  unlock, and that no line break waits when none is; `LinesKept` that the captured
  lines with what waits are what was appended, in the order of the lock; `PassesOn`
  that every call is passed on or will be, and that the lengths of what was passed
  on and of what is in calls add up to what was written and recorded.  `LevelInv`
  says that a logger that cannot be set keeps the level it was registered with; what
  is told of one that can is a case for each kind.

### What is reported

`ReportProofs`:

* `ReportsAreTrue` (`ReportTells`), for any tools, registrars and names.
  `HealthInv` says that a registration waits until nobody reads, so the registry a
  tool is walking through does not change under it, and that what the tool has
  counted so far (`Tallies`) is right about the checks it has run.
* `CacheAnswersTrue` (`CacheRight`).  `ScanRight` relates a walk under way to what was
  there when it began and what was stored and deleted since; a walk that clears
  leaves only what was stored meanwhile.
* `EndpointReportsTrue` (`EndpointsRight`).  `BatchRight` counts the answers of a
  batch so far, with the paths it has reported; `AllAnswered` and `Marked` say
  that the paths that count as tested are just those of the requests that were
  answered, and the same of the copy a coverage report has, up to what is answered
  meanwhile.
* `SnapshotsTold` (`SnapshotReportsRight`).  The number is drawn under the lock that
  stores, so numbers are in order always; readings are while takers do not overlap
  (`ReadingsInOrder`).
* `HeapReportsTold` (`HeapReportsRight`).  `NumbersInOrder` follows one taker through
  loading the number, storing it and loading it again.  What is told of a candidate
  needs no invariant: it is a fact about `LeakCandidates` and any snapshots.
  `HighGrewLast` goes with it: "high" means a growth at the last change, for any
  snapshots, and nothing else; so what the run `monotonic_growth` shows of three
  snapshots holds of every class that shrank before.
* `ReportsTold` (`ReportsAgree`) is of four modules at once.  For pools
  (`WorstRiskWins`) it follows the five checks of a database and the loop over
  databases, where a later, lesser finding must not hide an earlier one.  For locks
  (`DeadlockTold`) it compares the two ways in which a stack is told to wait.  For
  functions, `FuncInv` holds the maps after any number of samples (`SumsAre`): self
  times and counts are sums over samples, cumulative times are at least those, and
  those of functions that are on no stack twice are sums over samples as well;
  `TimesAre` takes such a sum apart into nanoseconds and how often samples were taken.
  For groups, `GroupsAre` says that the groups of a dump partition its goroutines by
  their signatures, and `OrdersTell` and `TopTells` that the largest are shown, in order.

### Everything beside everything

`EveryTypeKept` (`InspectorProofs`) says `[]EveryTypeOK` of all inspectors and of the jobs
at once: each keeps its own types whatever the others do, since none writes what another
keeps.  The types follow
from the invariants above where these hold them, and from a few facts they do not need:
`HeapNumbers` says that no number of a heap snapshot exceeds the number of captures,
though overlapping captures may draw one twice; `CallsBounded` that the calls tracked
for sure and those on their way are no more than were begun, however often a transport
was wrapped; `HealthNames` that what is registered, asked for and waited for are checks
of a kind the registry knows.

### What the provers do not reach

Liveness (`AnswersEnd`, `RunsOn`, `EndsInTime`, `HealthAnswers`) stays with TLC.

The induction theorems of the library take an operator as a parameter, which the
provers cannot instantiate.  The proofs do without them.  Over the natural numbers and
finite sets, a statement that fails fails for a least number (`LeastNumber`) or a
smallest set (`MinimalSubset`), and that it does not is one step.  Sums over maps are
proved so.  For folds, `Loops` has the turn of a loop as its constant: `LoopExists` and
`LoopRuns` say once that a fold is the last of a sequence of values, each made of the
one before by a turn.  A proof about a loop instantiates the module with a named
operator and cites `LoopRuns`: the page's handling of a chunk, the sums of a profile's
samples, the groups and the counts of a dump, the sorts of requests, the patterns of
errors.

`SelectSeq` and recursive sorts are not unfolded by the provers: a module that is
proved about selects by indices (`Filtered`), and sorts by the loops of the code or, where
the code calls `sort.Slice`, by choosing among the sequences that are in order.

## 5. Not modelled

Formatting, prompts, token estimates and delays; the inspectors that only read
and report; registries whose every operation holds one lock (feature flags,
migrations) or that only pass on what reflection finds (metrics, routes, Redis,
security); start-up; the demo, which is an example and no part of the library;
the page's clear link, about which nothing in the repository says what it should
leave of an answer that is being streamed (on the server the case is
`chat_overlap`).  `PROJECT.json` gives a reason for each component.

### What the models record of the code

The models follow the code in the following, where a reader may expect something
else.  Where a document of the repository does, it is among the violated runs or the
disagreements of section 3; of these no document says anything.

* `get_recent_requests` panics when its limit is negative (`inspector_http.go:58`).
* `set_log_level` may report "updated" of a logger whose name has been registered
  anew meanwhile.
* Two heap snapshots taken at once may share an id (`inspector_leak.go:155`), and a
  snapshot of metrics may be numbered after newer ones.
* Two registrations of a client do not wrap it twice, because each reads the
  transport once; but one may drop a transport the application set meanwhile.
  The map of status codes leaves its lock with the summary
  (`inspector_http_client.go:206`); the model reads it in one step, and the abort of
  a Go program that writes a map while it is read is left out.
* A health check that registers a check blocks its tool, and everybody after it.
* A CPU profile counts the records of a function, not how often it was taken, and a
  record as often as a recursive function is on its stack
  (`inspector_cpu_profile.go:209`, `:214`).
* A route that a Gin engine and an Echo app both serve is told, and counted, twice
  (`inspector_endpoint_test_inspector.go:333`, `:346`).
* `unique_stacks` is counted after the cut to `top_n`, `total_goroutines` after
  the dump; goroutines whose stack is one frame are grouped by their creator,
  too, as the place of the `go` statement is then among the first three lines.

## 6. Plan

Done: the chat path from the page to the model, the scheduler, the profiler, and
every inspector in which calls can interleave; the theorems of section 4.

What is left, in the order of what it is worth:

1. The clear link of the page, and the page in front of two tabs.
2. Larger instances of `chat_overlap`, with three chats.
3. Feature flags and migrations, should they ever give up their locks.
