---------------------------- MODULE ChatContract ----------------------------
(***************************************************************************)
(* What a client of the SSE endpoint may rely on, one stream per chat      *)
(* request: the stream opens once, tools are reported one at a time with a *)
(* result before the next event, the model is asked a bounded number of    *)
(* times, and exactly one terminal event ends the stream, after which      *)
(* nothing more is sent.  A stream may also be cut without a terminal      *)
(* event (the handler goroutine panicked), but only while a tool runs.     *)
(* The events are those of ChatCallback (llm_client.go) as sseCallback     *)
(* (middleware.go) writes them.                                            *)
(***************************************************************************)
EXTENDS Naturals

CONSTANTS Chats,    \* the chat requests
          MaxAsks   \* requests to the model that one chat may cost

VARIABLES stream,   \* "none", "open", "tool" while one runs, or how it ended
          asks      \* requests to the model made so far

vars == <<stream, asks>>

Init == /\ stream = [c \in Chats |-> "none"]
        /\ asks = [c \in Chats |-> 0]

Move(c, from, to) == /\ stream[c] = from
                     /\ stream' = [stream EXCEPT ![c] = to]
                     /\ UNCHANGED asks

Open(c) == Move(c, "none", "open")

Ask(c) == /\ stream[c] = "open" /\ asks[c] < MaxAsks
          /\ asks' = [asks EXCEPT ![c] = @ + 1]
          /\ UNCHANGED stream

\* Nothing is reported before the model was asked.
ToolStart(c)  == asks[c] > 0 /\ Move(c, "open", "tool")
ToolResult(c) == Move(c, "tool", "open")

\* OnComplete or OnError.
Finish(c) == asks[c] > 0 /\ \E e \in {"done", "error"} : Move(c, "open", e)

Cut(c) == Move(c, "tool", "cut")

Next == \E c \in Chats : \/ Open(c) \/ Ask(c) \/ ToolStart(c)
                         \/ ToolResult(c) \/ Finish(c) \/ Cut(c)

Spec == Init /\ [][Next]_vars
=============================================================================
