----------------------------- MODULE ChatEngine -----------------------------
(***************************************************************************)
(* The chat engine: sessions, the tool loop and context compression.       *)
(*                                                                         *)
(* A chat is one POST to /api/chat, run by its own goroutine through       *)
(* DebugEngine.Chat and runToolLoop.  Sessions are heap objects found      *)
(* through a sync.Map; nothing locks a session, so two goroutines that     *)
(* hold the same object interleave on its fields.  A session object is     *)
(* named after the chat that allocated it.                                 *)
(*                                                                         *)
(* Messages = append(Messages, m) reads the slice header and writes it     *)
(* back: LoadHistory is the read, the Add... actions are the write, and    *)
(* whatever another goroutine stored in between is lost.                   *)
(***************************************************************************)
EXTENDS Integers, Sequences, FiniteSets

CONSTANTS Chats,            \* chat requests
          Keys,             \* session ids the clients send
          MaxToolRounds,    \* LLMConfig.MaxToolRounds
          MaxCalls,         \* bound: tool calls in one assistant message
          KeepRounds,       \* ContextCompressor.recentRoundsToKeep
          ChatsMayOverlap,  \* a client may chat on a session that is busy
          ClearMayOverlap,  \* a client may clear a session that is busy
          NoSession         \* no entry in the sync.Map, no session yet

ASSUME ConstantsAssumption ==
    /\ MaxToolRounds \in Nat \ {0}
    /\ MaxCalls \in Nat
    /\ KeepRounds \in Nat \ {0}
    /\ ChatsMayOverlap \in BOOLEAN
    /\ ClearMayOverlap \in BOOLEAN
    /\ NoSession \notin Chats

\* "summary" and "nudge" carry the API role "system": the compressor's header
\* message and the engine's request to analyse the tool results.
Roles == {"user", "assistant", "tool", "nudge", "summary"}

\* k: an assistant's number of tool calls, or which call a tool message answers.
\* asked: the chats whose question the message holds, for a summary those whose
\* question the summarizer was given.
Message == [role : Roles, k : Nat, asked : SUBSET Chats]

\* What a stream delivered: tool calls, or text, or neither.
Replies == {r \in [calls : 0..MaxCalls, text : BOOLEAN] : r.calls = 0 \/ ~r.text}

Steps == {"idle", "create", "ask", "round", "compress", "send", "stream",
          "answer", "empty", "nudge", "calls", "tool", "running", "result",
          "sendfinal", "final", "done", "error", "panicked"}

Appending == {"ask", "answer", "empty", "nudge", "calls", "result"}

Ended == {"done", "error", "panicked"}

\* Content and compression notices may come at any time and are left out.
Events == {"none", "open", "tool_start", "tool_result", "done", "error", "cut"}

VARIABLES
    table,     \* sync.Map: session id -> session object
    messages,  \* ChatSession.Messages of each session object
    over,      \* CumulativePromptTokens is above 75% of the context window
    pc, key, sess, round,
    retried,   \* emptyRetried
    reply,     \* toolCallHolder and contentBuilder
    step,      \* replies to the current tool calls appended so far
    loaded,    \* the slice header of session.Messages was read ...
    header,    \* ... and this is what it was
    plan,      \* what Compress will store in the session
    sse        \* the last lifecycle event of the chat's event stream

sessionVars == <<table, messages, over>>
loopVars    == <<round, retried, reply, step>>
appendVars  == <<loaded, header>>
whoVars     == <<key, sess>>
vars == <<table, messages, over, pc, key, sess, round, retried, reply, step,
          loaded, header, plan, sse>>

Init ==
    /\ table    = [k \in Keys |-> NoSession]
    /\ messages = [s \in Chats |-> <<>>]
    /\ over     = [s \in Chats |-> FALSE]
    /\ pc       = [c \in Chats |-> "idle"]
    /\ key      = [c \in Chats |-> NoSession]
    /\ sess     = [c \in Chats |-> NoSession]
    /\ round    = [c \in Chats |-> 0]
    /\ retried  = [c \in Chats |-> FALSE]
    /\ reply    = [c \in Chats |-> [calls |-> 0, text |-> FALSE]]
    /\ step     = [c \in Chats |-> 0]
    /\ loaded   = [c \in Chats |-> FALSE]
    /\ header   = [c \in Chats |-> <<>>]
    /\ plan     = [c \in Chats |-> <<>>]
    /\ sse      = [c \in Chats |-> "none"]

-----------------------------------------------------------------------------
(* Finding the session.                                                    *)

Busy(k) == \E c \in Chats : key[c] = k /\ pc[c] \notin {"idle"} \cup Ended

\* Mutant: every request misses the map.
Lookup_Miss(k) == NoSession

Lookup(k) == table[k]

\* A request arrives; getOrCreateSession loads the sync.Map.
Arrive(c) ==
    /\ pc[c] = "idle"
    /\ \E k \in Keys :
         /\ Busy(k) => ChatsMayOverlap
         /\ key' = [key EXCEPT ![c] = k]
         /\ sess' = [sess EXCEPT ![c] = Lookup(k)]
         /\ pc' = [pc EXCEPT ![c] = IF Lookup(k) = NoSession THEN "create" ELSE "ask"]
    /\ sse' = [sse EXCEPT ![c] = "open"]
    /\ UNCHANGED <<sessionVars, loopVars, appendVars, plan>>

\* The miss path stores a new object, also over one stored since the load.
CreateSession(c) ==
    /\ pc[c] = "create"
    /\ table' = [table EXCEPT ![key[c]] = c]
    /\ sess' = [sess EXCEPT ![c] = c]
    /\ pc' = [pc EXCEPT ![c] = "ask"]
    /\ UNCHANGED <<messages, over, key, loopVars, appendVars, plan, sse>>

ClearSession(k) ==
    /\ table[k] # NoSession
    /\ Busy(k) => ClearMayOverlap
    /\ messages' = [messages EXCEPT ![table[k]] = <<>>]
    /\ over' = [over EXCEPT ![table[k]] = FALSE]
    /\ UNCHANGED <<table, pc, whoVars, loopVars, appendVars, plan, sse>>

-----------------------------------------------------------------------------
(* session.AddMessage, at every place the loop calls it.                   *)

LoadHistory(c) ==
    /\ pc[c] \in Appending
    /\ ~loaded[c]
    /\ loaded' = [loaded EXCEPT ![c] = TRUE]
    /\ header' = [header EXCEPT ![c] = messages[sess[c]]]
    /\ UNCHANGED <<sessionVars, pc, whoVars, loopVars, plan, sse>>

Plain(role) == [role |-> role, k |-> 0, asked |-> {}]

Store(c, m) ==
    /\ loaded[c]
    /\ messages' = [messages EXCEPT ![sess[c]] = Append(header[c], m)]
    /\ loaded' = [loaded EXCEPT ![c] = FALSE]
    /\ header' = [header EXCEPT ![c] = <<>>]

AddQuestion(c) ==
    /\ pc[c] = "ask"
    /\ Store(c, [role |-> "user", k |-> 0, asked |-> {c}])
    /\ pc' = [pc EXCEPT ![c] = "round"]
    /\ UNCHANGED <<table, over, whoVars, loopVars, plan, sse>>

AddAnswer(c) ==
    /\ pc[c] = "answer"
    /\ Store(c, Plain("assistant"))
    /\ pc' = [pc EXCEPT ![c] = "done"]
    /\ sse' = [sse EXCEPT ![c] = "done"]
    /\ UNCHANGED <<table, over, whoVars, loopVars, plan>>

AddEmptyAnswer(c) ==
    /\ pc[c] = "empty"
    /\ Store(c, Plain("assistant"))
    /\ pc' = [pc EXCEPT ![c] = "nudge"]
    /\ UNCHANGED <<table, over, whoVars, loopVars, plan, sse>>

AddNudge(c) ==
    /\ pc[c] = "nudge"
    /\ Store(c, Plain("nudge"))
    /\ round' = [round EXCEPT ![c] = @ + 1]
    /\ pc' = [pc EXCEPT ![c] = "round"]
    /\ UNCHANGED <<table, over, whoVars, retried, reply, step, plan, sse>>

AddCalls(c) ==
    /\ pc[c] = "calls"
    /\ Store(c, [role |-> "assistant", k |-> reply[c].calls, asked |-> {}])
    /\ step' = [step EXCEPT ![c] = 0]
    /\ pc' = [pc EXCEPT ![c] = "tool"]
    /\ UNCHANGED <<table, over, whoVars, round, retried, reply, plan, sse>>

\* The reply to a tool call; after the last one the next round begins.
AddResult(c) ==
    /\ pc[c] = "result"
    /\ Store(c, [role |-> "tool", k |-> step[c] + 1, asked |-> {}])
    /\ step' = [step EXCEPT ![c] = @ + 1]
    /\ \/ /\ step[c] + 1 < reply[c].calls
          /\ pc' = [pc EXCEPT ![c] = "tool"]
          /\ UNCHANGED round
       \/ /\ step[c] + 1 >= reply[c].calls
          /\ pc' = [pc EXCEPT ![c] = "round"]
          /\ round' = [round EXCEPT ![c] = @ + 1]
    /\ UNCHANGED <<table, over, whoVars, retried, reply, plan, sse>>

-----------------------------------------------------------------------------
(* Context compression.                                                    *)

\* Mutant: every message starts a round.
RoundStart_Any(ms, i) == TRUE

\* identifyRounds opens a round at the first message, at every question, and
\* at an assistant message when the current round already holds one.
RoundStart(ms, i) ==
    \/ i = 1
    \/ ms[i].role = "user"
    \/ /\ ms[i].role = "assistant"
       /\ \E j \in 1..(i-1) : /\ ms[j].role = "assistant"
                              /\ \A n \in (j+1)..(i-1) : ms[n].role # "user"

RoundStarts(ms) == {i \in DOMAIN ms : RoundStart(ms, i)}

\* Mutant: the clamp to fewer than all rounds is missing.
KeepCount_NoClamp(n) == KeepRounds

\* How many of n rounds Compress keeps; less than one means: do nothing.
KeepCount(n) == IF KeepRounds >= n THEN n - 1 ELSE KeepRounds

\* The kept suffixes: from a round's start, KeepCount rounds long.
Cuts(ms) ==
    LET starts == RoundStarts(ms)
        keep   == KeepCount(Cardinality(starts))
    IN  {i \in starts : keep >= 1 /\ Cardinality({j \in starts : j >= i}) = keep}

\* The questions whose text summarizeWithLLM and fallbackTruncate write down:
\* both skip messages of role "system", an earlier summary among them.
QuestionsIn(ms) == UNION {ms[i].asked : i \in {j \in DOMAIN ms : ms[j].role = "user"}}

\* Mutant: the summary message is not put in front.
Compressed_NoHeader(ms, cut) == SubSeq(ms, cut, Len(ms))

Compressed(ms, cut) ==
    <<[role  |-> "summary", k |-> 0,
       asked |-> QuestionsIn(SubSeq(ms, 1, cut - 1))]>> \o SubSeq(ms, cut, Len(ms))

\* Mutant: one round too many.
RoundsLeft_OffByOne(c) == round[c] <= MaxToolRounds

RoundsLeft(c) == round[c] < MaxToolRounds

CompressionDue(c) == RoundsLeft(c) /\ round[c] > 0 /\ over[sess[c]]

\* The top of the loop: Compress splits the history and starts to summarize ...
BeginCompress(c) ==
    /\ pc[c] = "round"
    /\ CompressionDue(c)
    /\ \E cut \in Cuts(messages[sess[c]]) :
          plan' = [plan EXCEPT ![c] = Compressed(messages[sess[c]], cut)]
    /\ pc' = [pc EXCEPT ![c] = "compress"]
    /\ UNCHANGED <<sessionVars, whoVars, loopVars, appendVars, sse>>

\* ... and, when the summary or its fallback is there, replaces the history.
\* The token count stays as it was.
FinishCompress(c) ==
    /\ pc[c] = "compress"
    /\ messages' = [messages EXCEPT ![sess[c]] = plan[c]]
    /\ plan' = [plan EXCEPT ![c] = <<>>]
    /\ pc' = [pc EXCEPT ![c] = "send"]
    /\ UNCHANGED <<table, over, whoVars, loopVars, appendVars, sse>>

\* No compression: not due, or too few rounds for Compress to do anything.
BeginRound(c) ==
    /\ pc[c] = "round"
    /\ CompressionDue(c) => Cuts(messages[sess[c]]) = {}
    /\ pc' = [pc EXCEPT ![c] = IF RoundsLeft(c) THEN "send" ELSE "sendfinal"]
    /\ UNCHANGED <<sessionVars, whoVars, loopVars, appendVars, plan, sse>>

-----------------------------------------------------------------------------
(* The tool loop.                                                          *)

\* The system prompt and session.Messages go out.
Send(c) ==
    /\ pc[c] = "send"
    /\ pc' = [pc EXCEPT ![c] = "stream"]
    /\ UNCHANGED <<sessionVars, whoVars, loopVars, appendVars, plan, sse>>

\* Mutant: an error makes the loop ask again, without counting a round.
StreamFails_RetryForever(c) ==
    /\ pc[c] = "stream"
    /\ pc' = [pc EXCEPT ![c] = "send"]
    /\ UNCHANGED <<sessionVars, whoVars, loopVars, appendVars, plan, sse>>

\* OnStreamError: report it and return.
StreamFails(c) ==
    /\ pc[c] = "stream"
    /\ pc' = [pc EXCEPT ![c] = "error"]
    /\ sse' = [sse EXCEPT ![c] = "error"]
    /\ UNCHANGED <<sessionVars, whoVars, loopVars, appendVars, plan>>

\* RecordTokenUsage, when the stream carried usage.
RecordUsage(c) ==
    \/ UNCHANGED over
    \/ \E b \in BOOLEAN : over' = [over EXCEPT ![sess[c]] = b]

\* Mutant: the guard against a second empty answer in a row is not read.
MayNudge_Always(c, r) == ~r.text /\ round[c] > 0

\* An empty answer after tool calls: ask once more.
MayNudge(c, r) == ~r.text /\ ~retried[c] /\ round[c] > 0

StreamAnswers(c) ==
    /\ pc[c] = "stream"
    /\ RecordUsage(c)
    /\ \E r \in Replies :
         /\ reply' = [reply EXCEPT ![c] = r]
         /\ \/ /\ r.calls = 0 /\ MayNudge(c, r)
               /\ retried' = [retried EXCEPT ![c] = TRUE]
               /\ pc' = [pc EXCEPT ![c] = "empty"]
            \/ /\ r.calls = 0 /\ ~MayNudge(c, r)
               /\ pc' = [pc EXCEPT ![c] = "answer"]
               /\ UNCHANGED retried
            \/ /\ r.calls > 0
               /\ retried' = [retried EXCEPT ![c] = FALSE]
               /\ pc' = [pc EXCEPT ![c] = "calls"]
    /\ UNCHANGED <<table, messages, whoVars, round, step, appendVars, plan, sse>>

\* OnToolStart, then ExecuteTool.
StartTool(c) ==
    /\ pc[c] = "tool"
    /\ pc' = [pc EXCEPT ![c] = "running"]
    /\ sse' = [sse EXCEPT ![c] = "tool_start"]
    /\ UNCHANGED <<sessionVars, whoVars, loopVars, appendVars, plan>>

\* The tool returned, a value or an error: both become a result.
ToolReturns(c) ==
    /\ pc[c] = "running"
    /\ pc' = [pc EXCEPT ![c] = "result"]
    /\ sse' = [sse EXCEPT ![c] = "tool_result"]
    /\ UNCHANGED <<sessionVars, whoVars, loopVars, appendVars, plan>>

\* Nothing recovers a tool's panic below net/http, which drops the connection.
ToolPanics(c) ==
    /\ pc[c] = "running"
    /\ pc' = [pc EXCEPT ![c] = "panicked"]
    /\ sse' = [sse EXCEPT ![c] = "cut"]
    /\ UNCHANGED <<sessionVars, whoVars, loopVars, appendVars, plan>>

\* Out of rounds: one more request, without tools.
SendFinal(c) ==
    /\ pc[c] = "sendfinal"
    /\ pc' = [pc EXCEPT ![c] = "final"]
    /\ UNCHANGED <<sessionVars, whoVars, loopVars, appendVars, plan, sse>>

\* Its answer is streamed and not stored; an error becomes a notice.
EndFinal(c) ==
    /\ pc[c] = "final"
    /\ RecordUsage(c)
    /\ pc' = [pc EXCEPT ![c] = "done"]
    /\ sse' = [sse EXCEPT ![c] = "done"]
    /\ UNCHANGED <<table, messages, whoVars, loopVars, appendVars, plan>>

-----------------------------------------------------------------------------
Run(c) ==
    \/ CreateSession(c) \/ LoadHistory(c)
    \/ AddQuestion(c) \/ AddAnswer(c) \/ AddEmptyAnswer(c) \/ AddNudge(c)
    \/ AddCalls(c) \/ AddResult(c)
    \/ BeginCompress(c) \/ FinishCompress(c) \/ BeginRound(c)
    \/ Send(c) \/ StreamFails(c) \/ StreamAnswers(c)
    \/ StartTool(c) \/ ToolReturns(c) \/ ToolPanics(c)
    \/ SendFinal(c) \/ EndFinal(c)

Next == \/ \E c \in Chats : Arrive(c) \/ Run(c)
        \/ \E k \in Keys : ClearSession(k)

Spec == Init /\ [][Next]_vars

\* A goroutine that can run does: streams end (the HTTP client has a timeout,
\* retries are bounded) and tools return.  Clients owe the server nothing.
FairSpec == Spec /\ \A c \in Chats : WF_vars(Run(c))

-----------------------------------------------------------------------------
(* Properties.                                                             *)

TypeOK ==
    /\ table    \in [Keys -> Chats \cup {NoSession}]
    /\ messages \in [Chats -> Seq(Message)]
    /\ over     \in [Chats -> BOOLEAN]
    /\ pc       \in [Chats -> Steps]
    /\ key      \in [Chats -> Keys \cup {NoSession}]
    /\ sess     \in [Chats -> Chats \cup {NoSession}]
    /\ round    \in [Chats -> 0..MaxToolRounds]
    /\ retried  \in [Chats -> BOOLEAN]
    /\ reply    \in [Chats -> Replies]
    /\ step     \in [Chats -> Nat]
    /\ loaded   \in [Chats -> BOOLEAN]
    /\ header   \in [Chats -> Seq(Message)]
    /\ plan     \in [Chats -> Seq(Message)]
    /\ sse      \in [Chats -> Events]

\* Message i answers call number k of the assistant message k places before it.
RepliesToCall(ms, i) ==
    /\ ms[i].k \in 1..(i-1)
    /\ ms[i - ms[i].k].role = "assistant"
    /\ ms[i].k <= ms[i - ms[i].k].k

\* Every tool message directly follows its assistant message, in call order,
\* and every call of an assistant message is answered.
Paired(ms) ==
    \A i \in DOMAIN ms :
        /\ ms[i].role = "tool" => RepliesToCall(ms, i)
        /\ ms[i].role = "assistant" =>
             \A n \in 1..ms[i].k : /\ i + n \in DOMAIN ms
                                   /\ ms[i + n].role = "tool"
                                   /\ ms[i + n].k = n

ToolPanicked(s) == \E c \in Chats : sess[c] = s /\ pc[c] = "panicked"

OneAtATime == ~ChatsMayOverlap /\ ~ClearMayOverlap

\* When clients take turns on a session and no tool panicked in it, every
\* history sent to the model pairs each tool call with its result, whatever
\* rounds, errors, nudges and compressions came before (engine.go, runToolLoop;
\* the chat API rejects a history that does not).
RequestsPaired ==
    OneAtATime =>
        \A c \in Chats :
            pc[c] \in {"send", "sendfinal"} /\ ~ToolPanicked(sess[c])
                => Paired(messages[sess[c]])

\* The model is prodded for an analysis at most once per batch of tool results:
\* between two nudges of a history there is an assistant message with tool
\* calls (engine.go, emptyRetried and its reset).
NudgesSeparated ==
    OneAtATime =>
        \A s \in Chats : \A i, j \in DOMAIN messages[s] :
            i < j /\ messages[s][i].role = "nudge" /\ messages[s][j].role = "nudge"
                => \E n \in i..j : messages[s][n].role = "assistant" /\ messages[s][n].k > 0

\* A conversation opens with a question or with the summary of older ones: no
\* answer or tool result is left over from a history that was cleared.
OpensWithQuestion ==
    \A s \in Chats :
        messages[s] # <<>> => messages[s][1].role \in {"user", "summary"}

\* When clients take turns, the chats of one session id share one history:
\* getOrCreateSession never replaces an object somebody used.
OneSessionPerKey ==
    OneAtATime =>
        \A c \in Chats : pc[c] \notin {"idle", "create"} => sess[c] = table[key[c]]

\* Compression removes something, and never what the model has not seen yet:
\* everything from the last assistant message on is kept word for word.
UnseenResultsKept ==
    OneAtATime =>
        \A c \in Chats : pc[c] = "compress" =>
            LET ms == messages[sess[c]] IN
            \E cut \in 2..Len(ms) :
                /\ Tail(plan[c]) = SubSeq(ms, cut, Len(ms))
                /\ \E i \in cut..Len(ms) : ms[i].role = "assistant"

Remembered(ms) == UNION {ms[i].asked : i \in DOMAIN ms}

\* Until the history is cleared no question is forgotten: it is in the history,
\* or it was given to the summarizer whose summary is in the history
\* (README.md: old conversation is summarized; context_compressor.go).
QuestionsRemembered ==
    [][OneAtATime =>
         \A s \in Chats : messages'[s] # <<>> =>
             Remembered(messages[s]) \subseteq Remembered(messages'[s])]_vars

\* A stream has opened and not ended.
Streaming == \E c \in Chats : pc[c] \notin {"idle"} \cup Ended

Stream(c) == IF sse[c] = "tool_start" THEN "tool"
             ELSE IF sse[c] = "tool_result" THEN "open" ELSE sse[c]

\* Streams started: one per finished round, one in the current round.
Asks(c) == round[c] +
    IF pc[c] \in {"idle", "create", "ask", "round", "compress", "send", "sendfinal"}
    THEN 0 ELSE 1

Contract == INSTANCE ChatContract
    WITH MaxAsks <- MaxToolRounds + 1,
         stream  <- [c \in Chats |-> Stream(c)],
         asks    <- [c \in Chats |-> Asks(c)]

\* The engine keeps the client's contract in every interleaving.
KeepsContract == Contract!Spec
=============================================================================
