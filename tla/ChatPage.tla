------------------------------ MODULE ChatPage ------------------------------
(***************************************************************************)
(* The chat page (the script in chat_page.go) in front of the SSE          *)
(* endpoint, here ChatContract, which ChatEngine implements.               *)
(*                                                                         *)
(* sseCallback writes each event as a frame of lines.  The network hands   *)
(* them over in chunks cut anywhere; reader.read() resolves once per       *)
(* chunk, and the script handles the whole chunk before anything else      *)
(* runs.  Text is rendered by a timer that runs between chunks.  The       *)
(* connection may break, which the server does not notice.                 *)
(***************************************************************************)
EXTENDS GoData, SequencesExt

CONSTANTS MaxSends,   \* bound: messages the user sends
          MaxAsks,    \* as in ChatContract
          MaxEvents,  \* bound: frames before a stream starts to end
          Tools       \* tool names

ASSUME PageAssumption == MaxSends \in Nat /\ MaxAsks \in Nat /\ MaxEvents \in Nat

Sends == 1..MaxSends

\* text: the lines of an error message, one line, two, or two around an empty
\* line (it quotes the model server).
Frame == [event : {"content", "done"}]
    \cup [event : {"tool_start", "tool_result"}, tool : Tools]
    \cup [event : {"error"}, text : {"line", "lines", "gap"}]

NoFrame == [event |-> "none"]

\* A piece of text of a frame, or the end of a line.
Newline == [piece |-> "newline"]
Blank   == [piece |-> "blank"]
Piece(p, f) == [piece |-> p, of |-> f]

\* write: "event: %s\ndata: %s\n\n".
Pieces(f) ==
    LET event == Piece("event", f)
        data  == Piece("data", f)
        other == Piece("other", f)
    IN  CASE f.event = "error" /\ f.text = "lines" ->
               <<event, Newline, data, Newline, other, Newline, Newline>>
          [] f.event = "error" /\ f.text = "gap" ->
               <<event, Newline, data, Newline, Newline, other, Newline, Newline>>
          [] OTHER -> <<event, Newline, data, Newline, Newline>>

VARIABLES
    stream, asks,  \* the server, by the number of the message
    broken,        \* the connection of that request broke
    current,       \* the last message sent
    sent,          \* frames written to the current connection
    read,          \* how many of their pieces the page has read
    isStreaming,
    renderTimer,   \* a rendering is due
    shown,         \* content events on the page
    page           \* what the script's handlers work on

serverVars == <<stream, asks>>
pageVars == <<stream, asks, broken, current, sent, read, isStreaming, renderTimer, shown, page>>

Server == INSTANCE ChatContract WITH Chats <- Sends

\* The locals of sendMessage and the elements it makes.  raw counts the content
\* events of _rawText; seen lists the frames that were dispatched.
NewPage == [buffer |-> Blank, event |-> "none", data |-> NoFrame, streamDone |-> FALSE,
            raw |-> 0, badges |-> <<>>, badgeMap |-> [t \in Tools |-> 0],
            errors |-> 0, seen |-> <<>>]

PageInit ==
    /\ Server!Init
    /\ broken = [c \in Sends |-> FALSE]
    /\ current = 0
    /\ sent = <<>>
    /\ read = 0
    /\ isStreaming = FALSE
    /\ renderTimer = FALSE
    /\ shown = 0
    /\ page = NewPage

-----------------------------------------------------------------------------
(* The server.                                                             *)

\* Mutant: each event is written twice.
Write_Twice(c, f) ==
    /\ sent' = IF c = current /\ ~broken[c] THEN sent \o <<f, f>> ELSE sent
    /\ UNCHANGED <<broken, current, read, isStreaming, renderTimer, shown, page>>

\* What is written to a connection that is gone gets lost.
Write(c, f) ==
    /\ sent' = IF c = current /\ ~broken[c] THEN Append(sent, f) ELSE sent
    /\ UNCHANGED <<broken, current, read, isStreaming, renderTimer, shown, page>>

NoWrite == UNCHANGED <<broken, current, sent, read, isStreaming, renderTimer, shown, page>>

RoomLeft == Len(sent) < MaxEvents

LastTool(fs) == fs[CHOOSE i \in DOMAIN fs :
                     /\ fs[i].event = "tool_start"
                     /\ \A j \in DOMAIN fs : fs[j].event = "tool_start" => j <= i].tool

\* A result carries the name of the tool that was started.
WriteResult(c) ==
    IF c = current /\ ~broken[c]
    THEN Write(c, [event |-> "tool_result", tool |-> LastTool(sent)])
    ELSE NoWrite

\* A request that was sent reaches the server, at once or late.
ServerStep(c) ==
    /\ c <= current
    /\ \/ Server!Open(c) /\ NoWrite
       \/ Server!Ask(c) /\ NoWrite
       \/ /\ stream[c] = "open" /\ asks[c] > 0 /\ RoomLeft
          /\ UNCHANGED serverVars
          /\ Write(c, [event |-> "content"])
       \/ /\ Server!ToolStart(c) /\ RoomLeft
          /\ \E t \in Tools : Write(c, [event |-> "tool_start", tool |-> t])
       \/ Server!ToolResult(c) /\ WriteResult(c)
       \/ /\ Server!Finish(c)
          /\ \/ stream'[c] = "done" /\ Write(c, [event |-> "done"])
             \/ /\ stream'[c] = "error"
                /\ \E x \in {"line", "lines", "gap"} :
                      Write(c, [event |-> "error", text |-> x])
       \/ Server!Cut(c) /\ NoWrite

-----------------------------------------------------------------------------
(* The handlers of the page.                                               *)

\* Mutant: the map keeps the first badge of a name.
OnToolStart_KeepsFirst(p, tool) ==
    [p EXCEPT !.badges = Append(@, [tool |-> tool, state |-> "pending"]),
              !.badgeMap[tool] = IF @ = 0 THEN Len(p.badges) + 1 ELSE @]

OnToolStart(p, tool) ==
    [p EXCEPT !.badges = Append(@, [tool |-> tool, state |-> "pending"]),
              !.badgeMap[tool] = Len(p.badges) + 1]

\* completeToolBadge(badgeMap[name], name, true), whatever the result is.
OnToolResult(p, tool) ==
    IF p.badgeMap[tool] = 0 THEN p
    ELSE [p EXCEPT !.badges[p.badgeMap[tool]].state = "success"]

Handled(p) ==
    CASE p.event = "content"     -> [p EXCEPT !.raw = @ + 1]
      [] p.event = "tool_start"  -> OnToolStart(p, p.data.tool)
      [] p.event = "tool_result" -> OnToolResult(p, p.data.tool)
      [] p.event = "done"        -> [p EXCEPT !.streamDone = TRUE]
      [] p.event = "error"       -> [p EXCEPT !.errors = @ + 1]

\* Mutant: currentEvent is not emptied.
Dispatch_KeepsEvent(p) ==
    IF p.event = "none" THEN p
    ELSE [Handled(p) EXCEPT !.data = NoFrame, !.seen = Append(@, p.data)]

\* An empty line: the event that was collected, if any, is handled.
Dispatch(p) ==
    IF p.event = "none" THEN [p EXCEPT !.data = NoFrame]
    ELSE [Handled(p) EXCEPT !.event = "none", !.data = NoFrame, !.seen = Append(@, p.data)]

HandleLine(p, line) ==
    CASE line.piece = "event" -> [p EXCEPT !.event = line.of.event]
      [] line.piece = "data"  -> [p EXCEPT !.data = line.of]
      [] line.piece = "blank" -> Dispatch(p)
      [] OTHER                -> p

\* What split and pop do: a line is complete at its newline, the rest waits.
HandlePiece(p, x) ==
    IF x = Newline THEN HandleLine([p EXCEPT !.buffer = Blank], p.buffer)
                   ELSE [p EXCEPT !.buffer = x]

HandleChunk(chunk) == FoldLeft(HandlePiece, page, chunk)

-----------------------------------------------------------------------------
(* sendMessage and its callbacks.                                          *)

\* Mutant: the flag is not looked at.
MaySend_Always == TRUE

MaySend == ~isStreaming

SendMessage ==
    /\ MaySend
    /\ current < MaxSends
    /\ current' = current + 1
    /\ sent' = <<>>
    /\ read' = 0
    /\ isStreaming' = TRUE
    /\ shown' = 0
    /\ page' = NewPage
    /\ UNCHANGED <<serverVars, broken, renderTimer>>

Wire == FlattenSeq([i \in DOMAIN sent |-> Pieces(sent[i])])

\* Mutant: nothing is rendered at the end.
Finalize_Skips(raw) == renderTimer' = FALSE /\ shown' = shown

\* finalizeAgentContent.
Finalize(raw) == renderTimer' = FALSE /\ shown' = raw

\* One chunk.  Content starts the timer if it does not run.
Read ==
    /\ isStreaming
    /\ \E n \in (read + 1)..Len(Wire) :
         /\ read' = n
         /\ page' = HandleChunk(SubSeq(Wire, read + 1, n))
    /\ IF page'.streamDone
       THEN Finalize(page'.raw) /\ isStreaming' = FALSE
       ELSE /\ renderTimer' = (renderTimer \/ page'.raw > page.raw)
            /\ UNCHANGED <<shown, isStreaming>>
    /\ UNCHANGED <<serverVars, broken, current, sent>>

\* The response ended: reader.read() says done.
EndOfStream ==
    /\ isStreaming
    /\ stream[current] \in {"done", "error"}
    /\ read = Len(Wire)
    /\ Finalize(page.raw)
    /\ isStreaming' = FALSE
    /\ UNCHANGED <<serverVars, broken, current, sent, read, page>>

\* Mutant: the input is unlocked after the try block only.
AfterError_StaysLocked == UNCHANGED isStreaming

AfterError == isStreaming' = FALSE

\* fetch or read() rejects: the server is away or answers with a status, the
\* connection breaks, or the handler panicked.  What was not read is lost.
Disconnect ==
    /\ isStreaming
    /\ ~broken[current]
    /\ broken' = [broken EXCEPT ![current] = TRUE]
    /\ page' = [page EXCEPT !.errors = @ + 1]
    /\ Finalize(page.raw)
    /\ AfterError
    /\ UNCHANGED <<serverVars, current, sent, read>>

RenderTimer ==
    /\ renderTimer
    /\ renderTimer' = FALSE
    /\ shown' = page.raw
    /\ UNCHANGED <<serverVars, broken, current, sent, read, isStreaming, page>>

PageNext ==
    \/ \E c \in Sends : ServerStep(c)
    \/ SendMessage \/ Read \/ EndOfStream \/ Disconnect \/ RenderTimer

PageSpec == PageInit /\ [][PageNext]_pageVars

\* The server's streams move on (ChatEngine, FairSpec), what was written
\* arrives, and a connection whose handler panicked is closed.
PageFairSpec ==
    /\ PageSpec
    /\ \A c \in Sends : WF_pageVars(ServerStep(c))
    /\ WF_pageVars(Read) /\ WF_pageVars(EndOfStream)
    /\ WF_pageVars(Disconnect /\ stream[current] = "cut")

-----------------------------------------------------------------------------
(* Properties.                                                             *)

PageTypeOK ==
    /\ Server!vars \in [Sends -> {"none", "open", "tool", "done", "error", "cut"}]
                         \X [Sends -> 0..MaxAsks]
    /\ broken \in [Sends -> BOOLEAN]
    /\ current \in 0..MaxSends
    /\ sent \in Seq(Frame) /\ Len(sent) <= MaxEvents + 2
    /\ read \in 0..Len(Wire)
    /\ isStreaming \in BOOLEAN
    /\ renderTimer \in BOOLEAN
    /\ page.raw \in Nat /\ shown \in 0..page.raw
    /\ page.badges \in Seq([tool : Tools, state : {"pending", "success", "error"}])

\* However the network cuts the stream into chunks, the page handles the events
\* that were sent, in order, each once, and all of them unless the connection
\* broke; an error message of several lines is one event (the parser's loop).
EventsInOrder ==
    /\ IsPrefix(page.seen, sent)
    /\ ~isStreaming /\ current > 0 /\ ~broken[current] => page.seen = sent

\* The throttled rendering loses nothing: text that is not on the page yet has
\* a timer waiting, and when the input is unlocked all of it is there, also
\* after a broken connection (appendContentChunk, finalizeAgentContent).
TextShown ==
    /\ page.raw = Cardinality({i \in DOMAIN page.seen : page.seen[i].event = "content"})
    /\ shown = page.raw \/ renderTimer
    /\ ~isStreaming => shown = page.raw /\ ~renderTimer

\* The events of s whose names are in kinds.
EventsOf(s, kinds) == Filtered(s, {i \in DOMAIN s : s[i].event \in kinds})

ToolEvents == EventsOf(page.seen, {"tool_start", "tool_result"})

\* The badges tell what runs: one per start, in order, and only the last may be
\* pending, while its tool runs, also when a tool is called again (badgeMap).
\* A result of any kind makes a badge a success.
BadgesTell ==
    LET n == Len(ToolEvents) IN
    /\ page.badges = [i \in 1..((n + 1) \div 2) |->
          [tool  |-> ToolEvents[2 * i - 1].tool,
           state |-> IF 2 * i <= n THEN "success" ELSE "pending"]]

\* The page's flag keeps the requests of its session apart: a message is sent
\* when the server is done with the one before, unless its connection broke
\* (isStreaming; the server locks no session).
TurnsKept ==
    \A c \in 1..current : \/ stream[c] \in {"done", "error", "cut"}
                          \/ broken[c]
                          \/ c = current /\ isStreaming

=============================================================================
