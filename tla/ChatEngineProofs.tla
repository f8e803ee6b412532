-------------------------- MODULE ChatEngineProofs --------------------------
(***************************************************************************)
(* Theorems about ChatEngine, for every number of chats, session ids,      *)
(* rounds and calls.  First those for every way clients may overlap; then, *)
(* when clients take turns on a session id, its chats share one session    *)
(* object and never run at the same time; and, when no session is cleared  *)
(* while a chat runs on it, a history opens with a question or a summary.  *)
(* Last what holds of histories when clients take turns: each tool call is *)
(* paired with its result, the nudges are apart, and compression keeps the *)
(* results the model has not answered yet.                                 *)
(***************************************************************************)
EXTENDS ChatEngine, SequenceTheorems, FiniteSetTheorems, TLAPS

USE ConstantsAssumption

InRound == {"compress", "send", "stream", "answer", "empty", "nudge", "calls",
            "tool", "running", "result"}

\* What a chat's control state says of its session, round and event stream.
Placed(c) ==
    /\ pc[c] # "idle" => key[c] \in Keys
    /\ pc[c] \notin {"idle", "create"} => sess[c] \in Chats
    /\ pc[c] \in InRound => round[c] < MaxToolRounds
    /\ pc[c] = "idle" <=> sse[c] = "none"
    /\ pc[c] = "running" <=> sse[c] = "tool_start"
    /\ pc[c] = "done" <=> sse[c] = "done"
    /\ pc[c] = "error" <=> sse[c] = "error"
    /\ pc[c] = "panicked" <=> sse[c] = "cut"

TypeInv == TypeOK /\ \A c \in Chats : Placed(c)

LEMMA CompressedType ==
    ASSUME NEW ms \in Seq(Message), NEW cut \in DOMAIN ms
    PROVE  Compressed(ms, cut) \in Seq(Message)
<1> DEFINE old == SubSeq(ms, 1, cut - 1)
<1>1. old \in Seq(Message) /\ SubSeq(ms, cut, Len(ms)) \in Seq(Message)
  BY SubSeqProperties
<1>2. QuestionsIn(old) \in SUBSET Chats
  <2>1. ASSUME NEW x \in QuestionsIn(old) PROVE x \in Chats
    <3>1. PICK i \in DOMAIN old : x \in old[i].asked
      BY DEF QuestionsIn
    <3>2. old[i] \in Message
      BY <1>1, <3>1
    <3> QED BY <3>1, <3>2 DEF Message
  <2> QED BY <2>1
<1>3. [role |-> "summary", k |-> 0, asked |-> QuestionsIn(old)] \in Message
  BY <1>2 DEF Message, Roles
<1> QED BY <1>1, <1>3, ConcatProperties DEF Compressed

LEMMA StoreType ==
    ASSUME TypeInv, NEW c \in Chats, pc[c] \in Appending, NEW m \in Message, Store(c, m)
    PROVE  /\ messages' \in [Chats -> Seq(Message)]
           /\ loaded' \in [Chats -> BOOLEAN]
           /\ header' \in [Chats -> Seq(Message)]
<1>1. Append(header[c], m) \in Seq(Message) /\ <<>> \in Seq(Message)
  BY AppendProperties DEF TypeInv, TypeOK
<1>2. sess[c] \in Chats
  BY DEF TypeInv, Placed, Appending
<1> QED BY <1>1, <1>2 DEF Store, TypeInv, TypeOK

\* Every step keeps the types and places; the cases are the actions of Next.
LEMMA TypeInvStep == TypeInv /\ [Next]_vars => TypeInv'
<1> SUFFICES ASSUME TypeInv, [Next]_vars PROVE TypeInv'
  OBVIOUS
<1> USE DEF TypeInv, TypeOK, Placed, InRound, Steps, Events, sessionVars, loopVars,
        appendVars, whoVars
<1>1. ASSUME NEW c \in Chats, Arrive(c) PROVE TypeInv'
  BY <1>1 DEF Arrive, Lookup
<1>2. ASSUME NEW k \in Keys, ClearSession(k) PROVE TypeInv'
  BY <1>2 DEF ClearSession
<1>3. ASSUME NEW c \in Chats, CreateSession(c) PROVE TypeInv'
  BY <1>3 DEF CreateSession
<1>4. ASSUME NEW c \in Chats, LoadHistory(c) PROVE TypeInv'
  BY <1>4 DEF LoadHistory, Appending
<1>5. ASSUME NEW c \in Chats, AddQuestion(c) PROVE TypeInv'
  <2>1. [role |-> "user", k |-> 0, asked |-> {c}] \in Message
    BY DEF Message, Roles, Replies
  <2>2. /\ messages' \in [Chats -> Seq(Message)]
        /\ loaded' \in [Chats -> BOOLEAN]
        /\ header' \in [Chats -> Seq(Message)]
    BY <1>5, <2>1, StoreType DEF AddQuestion, Appending
  <2> QED BY <1>5, <2>2 DEF AddQuestion
<1>6. ASSUME NEW c \in Chats, AddAnswer(c) PROVE TypeInv'
  <2>1. Plain("assistant") \in Message
    BY DEF Message, Roles, Replies, Plain
  <2>2. /\ messages' \in [Chats -> Seq(Message)]
        /\ loaded' \in [Chats -> BOOLEAN]
        /\ header' \in [Chats -> Seq(Message)]
    BY <1>6, <2>1, StoreType DEF AddAnswer, Appending
  <2> QED BY <1>6, <2>2 DEF AddAnswer
<1>7. ASSUME NEW c \in Chats, AddEmptyAnswer(c) PROVE TypeInv'
  <2>1. Plain("assistant") \in Message
    BY DEF Message, Roles, Replies, Plain
  <2>2. /\ messages' \in [Chats -> Seq(Message)]
        /\ loaded' \in [Chats -> BOOLEAN]
        /\ header' \in [Chats -> Seq(Message)]
    BY <1>7, <2>1, StoreType DEF AddEmptyAnswer, Appending
  <2> QED BY <1>7, <2>2 DEF AddEmptyAnswer
<1>8. ASSUME NEW c \in Chats, AddNudge(c) PROVE TypeInv'
  <2>1. Plain("nudge") \in Message
    BY DEF Message, Roles, Replies, Plain
  <2>2. /\ messages' \in [Chats -> Seq(Message)]
        /\ loaded' \in [Chats -> BOOLEAN]
        /\ header' \in [Chats -> Seq(Message)]
    BY <1>8, <2>1, StoreType DEF AddNudge, Appending
  <2>3. round' \in [Chats -> 0..MaxToolRounds]
    BY <1>8 DEF AddNudge
  <2> QED BY <1>8, <2>2, <2>3 DEF AddNudge
<1>9. ASSUME NEW c \in Chats, AddCalls(c) PROVE TypeInv'
  <2>1. [role |-> "assistant", k |-> reply[c].calls, asked |-> {}] \in Message
    BY DEF Message, Roles, Replies
  <2>2. /\ messages' \in [Chats -> Seq(Message)]
        /\ loaded' \in [Chats -> BOOLEAN]
        /\ header' \in [Chats -> Seq(Message)]
    BY <1>9, <2>1, StoreType DEF AddCalls, Appending
  <2> QED BY <1>9, <2>2 DEF AddCalls
<1>10. ASSUME NEW c \in Chats, AddResult(c) PROVE TypeInv'
  <2>1. [role |-> "tool", k |-> step[c] + 1, asked |-> {}] \in Message
    BY DEF Message, Roles, Replies
  <2>2. /\ messages' \in [Chats -> Seq(Message)]
        /\ loaded' \in [Chats -> BOOLEAN]
        /\ header' \in [Chats -> Seq(Message)]
    BY <1>10, <2>1, StoreType DEF AddResult, Appending
  <2>3. CASE step[c] + 1 < reply[c].calls
    <3>1. pc' = [pc EXCEPT ![c] = "tool"] /\ round' = round
      BY <1>10, <2>3 DEF AddResult, Replies
    <3> QED BY SMTT(30), <1>10, <2>2, <3>1 DEF AddResult
  <2>4. CASE ~(step[c] + 1 < reply[c].calls)
    <3>1. pc' = [pc EXCEPT ![c] = "round"] /\ round' = [round EXCEPT ![c] = @ + 1]
      BY <1>10, <2>4 DEF AddResult, Replies
    <3> QED BY SMTT(30), <1>10, <2>2, <3>1 DEF AddResult
  <2> QED BY <2>3, <2>4
<1>11. ASSUME NEW c \in Chats, BeginCompress(c) PROVE TypeInv'
  <2>1. PICK cut \in Cuts(messages[sess[c]]) :
           plan' = [plan EXCEPT ![c] = Compressed(messages[sess[c]], cut)]
    BY <1>11 DEF BeginCompress
  <2>2. Compressed(messages[sess[c]], cut) \in Seq(Message)
    <3>1. messages[sess[c]] \in Seq(Message) /\ cut \in DOMAIN messages[sess[c]]
      BY <1>11 DEF BeginCompress, Cuts, RoundStarts
    <3> QED BY <3>1, CompressedType
  <2> QED BY SMTT(30), <1>11, <2>1, <2>2 DEF BeginCompress, CompressionDue, RoundsLeft
<1>12. ASSUME NEW c \in Chats, FinishCompress(c) PROVE TypeInv'
  <2>1. /\ messages' \in [Chats -> Seq(Message)]
        /\ plan' \in [Chats -> Seq(Message)]
    BY <1>12, EmptySeq DEF FinishCompress
  <2> QED BY <1>12, <2>1 DEF FinishCompress
<1>13. ASSUME NEW c \in Chats, BeginRound(c) PROVE TypeInv'
  BY <1>13 DEF BeginRound, CompressionDue, RoundsLeft
<1>14. ASSUME NEW c \in Chats, Send(c) PROVE TypeInv'
  BY <1>14 DEF Send
<1>15. ASSUME NEW c \in Chats, StreamFails(c) PROVE TypeInv'
  BY <1>15 DEF StreamFails
<1>16. ASSUME NEW c \in Chats, StreamAnswers(c) PROVE TypeInv'
  <2>1. over' \in [Chats -> BOOLEAN]
    BY <1>16 DEF StreamAnswers, RecordUsage
  <2>2. PICK r \in Replies :
           /\ reply' = [reply EXCEPT ![c] = r]
           /\ \/ retried' = [retried EXCEPT ![c] = TRUE]
              \/ retried' = retried
              \/ retried' = [retried EXCEPT ![c] = FALSE]
    BY <1>16 DEF StreamAnswers
  <2>3. \E p \in {"empty", "answer", "calls"} : pc' = [pc EXCEPT ![c] = p]
    BY <1>16 DEF StreamAnswers
  <2>4. reply' \in [Chats -> Replies] /\ retried' \in [Chats -> BOOLEAN]
    BY <2>2
  <2>5. PICK p \in {"empty", "answer", "calls"} : pc' = [pc EXCEPT ![c] = p]
    BY <2>3
  <2>6. pc[c] = "stream" /\ UNCHANGED <<table, messages, key, sess, round, step, loaded,
                                        header, plan, sse>>
    BY <1>16 DEF StreamAnswers
  <2>7. TypeOK'
    BY <2>1, <2>4, <2>5, <2>6
  <2>8. ASSUME NEW d \in Chats PROVE Placed(d)'
    BY <2>5, <2>6
  <2> QED BY <2>7, <2>8
<1>17. ASSUME NEW c \in Chats, StartTool(c) PROVE TypeInv'
  BY <1>17 DEF StartTool
<1>18. ASSUME NEW c \in Chats, ToolReturns(c) PROVE TypeInv'
  BY <1>18 DEF ToolReturns
<1>19. ASSUME NEW c \in Chats, ToolPanics(c) PROVE TypeInv'
  BY <1>19 DEF ToolPanics
<1>20. ASSUME NEW c \in Chats, SendFinal(c) PROVE TypeInv'
  BY <1>20 DEF SendFinal
<1>21. ASSUME NEW c \in Chats, EndFinal(c) PROVE TypeInv'
  BY ZenonT(30), <1>21 DEF EndFinal, RecordUsage
<1>22. CASE UNCHANGED vars
  BY <1>22 DEF vars
<1> QED BY <1>1, <1>2, <1>3, <1>4, <1>5, <1>6, <1>7, <1>8, <1>9, <1>10, <1>11, <1>12, <1>13, <1>14, <1>15, <1>16, <1>17, <1>18, <1>19, <1>20, <1>21, <1>22 DEF Next, Run

LEMMA TypeInvariant == Spec => []TypeInv
<1>1. Init => TypeInv
  BY DEF Init, TypeInv, TypeOK, Placed, InRound, Steps, Events, Replies
<1> QED BY <1>1, TypeInvStep, PTL DEF Spec

\* Every variable keeps its type in every reachable state, the round counter of
\* runToolLoop never passes MaxToolRounds.
THEOREM TypeCorrect == Spec => []TypeOK
<1>1. TypeInv => TypeOK
  BY DEF TypeInv
<1> QED BY <1>1, TypeInvariant, PTL

-----------------------------------------------------------------------------
(* The event stream.                                                       *)

Streams == [c \in Chats |-> Stream(c)]
Asked   == [c \in Chats |-> Asks(c)]

\* Steps that send no event and make no request to the model: what the client
\* sees does not change.
LEMMA QuietStep ==
    ASSUME UNCHANGED sse, UNCHANGED Asked
    PROVE  UNCHANGED Contract!vars
<1>1. [c \in Chats |-> Stream(c)]' = [c \in Chats |-> Stream(c)]
  BY DEF Stream
<1> QED BY <1>1 DEF Contract!vars, Asked

\* What one event does to the abstract stream.
LEMMA Report ==
    ASSUME TypeInv, NEW c \in Chats, NEW e, sse' = [sse EXCEPT ![c] = e]
    PROVE  Streams' = [Streams EXCEPT ![c] = IF e = "tool_start" THEN "tool"
                                  ELSE IF e = "tool_result" THEN "open" ELSE e]
<1>1. ASSUME NEW d \in Chats PROVE sse'[d] = IF d = c THEN e ELSE sse[d]
  BY DEF TypeInv, TypeOK
<1> QED BY <1>1 DEF Streams, Stream

LEMMA OpenStream ==
    ASSUME TypeInv, NEW c \in Chats, pc[c] \notin {"idle", "running"} \cup Ended
    PROVE  Streams[c] = "open"
<1>1. sse[c] \in Events /\ Placed(c)
  BY DEF TypeInv, TypeOK
<1>2. sse[c] \in {"open", "tool_result"}
  BY <1>1 DEF Placed, Events, Ended
<1> QED BY <1>2 DEF Streams, Stream

LEMMA CountAsks ==
    ASSUME TypeInv, NEW c \in Chats
    PROVE  /\ round[c] \in Nat /\ round[c] <= MaxToolRounds
           /\ pc[c] \in {"send", "sendfinal"} => Asked[c] = round[c]
           /\ pc[c] \in {"answer", "stream", "tool", "final"} => Asked[c] = round[c] + 1
  BY DEF TypeInv, TypeOK, Asked, Asks

LEMMA QuietActions ==
    ASSUME TypeInv, NEW c \in Chats,
           \/ CreateSession(c) \/ LoadHistory(c) \/ AddQuestion(c) \/ AddEmptyAnswer(c) \/ AddNudge(c)
           \/ AddCalls(c) \/ AddResult(c) \/ BeginCompress(c)
           \/ FinishCompress(c) \/ BeginRound(c) \/ StreamAnswers(c)
    PROVE  UNCHANGED sse /\ UNCHANGED Asked
<1> USE DEF Asks, Asked, TypeInv, TypeOK, Steps, sessionVars, loopVars, appendVars, whoVars
<1>1. CASE CreateSession(c)
  BY <1>1 DEF CreateSession
<1>2. CASE LoadHistory(c)
  BY <1>2 DEF LoadHistory, Appending
<1>3. CASE AddQuestion(c)
  BY <1>3 DEF AddQuestion, Store
<1>4. CASE AddEmptyAnswer(c)
  BY <1>4 DEF AddEmptyAnswer, Store
<1>5. CASE AddNudge(c)
  BY <1>5 DEF AddNudge, Store
<1>6. CASE AddCalls(c)
  BY <1>6 DEF AddCalls, Store
<1>7. CASE AddResult(c)
  BY SMTT(30), <1>7 DEF AddResult, Store, Replies
<1>8. CASE BeginCompress(c)
  BY <1>8 DEF BeginCompress, CompressionDue
<1>9. CASE FinishCompress(c)
  BY <1>9 DEF FinishCompress
<1>10. CASE BeginRound(c)
  BY <1>10 DEF BeginRound, CompressionDue, RoundsLeft
<1>11. CASE StreamAnswers(c)
  BY <1>11 DEF StreamAnswers
<1> QED BY <1>1, <1>2, <1>3, <1>4, <1>5, <1>6, <1>7, <1>8, <1>9, <1>10, <1>11

\* A step of one chat is a step of its contract, or changes nothing the client
\* sees.
LEMMA ContractStep == TypeInv /\ [Next]_vars => [Contract!Next]_(Contract!vars)
<1> SUFFICES ASSUME TypeInv, [Next]_vars PROVE [Contract!Next]_(Contract!vars)
  OBVIOUS
<1> USE DEF sessionVars, loopVars, appendVars, whoVars
<1>1. ASSUME NEW c \in Chats, Arrive(c) PROVE Contract!Open(c)
  <2>1. Streams[c] = "none"
    BY <1>1 DEF Arrive, Streams, Stream, TypeInv, TypeOK, Placed
  <2>2. sse' = [sse EXCEPT ![c] = "open"]
    BY <1>1 DEF Arrive
  <2>3. UNCHANGED Asked
    BY <1>1 DEF Arrive, Asked, Asks, TypeInv, TypeOK
  <2>4. Streams' = [Streams EXCEPT ![c] = "open"]
    BY <2>2, Report
  <2> QED BY <2>1, <2>3, <2>4 DEF Contract!Open, Contract!Move, Streams, Asked
<1>2. ASSUME NEW c \in Chats, AddAnswer(c) PROVE Contract!Finish(c)
  <2>1. Streams[c] = "open" /\ Asked[c] > 0
    BY <1>2, OpenStream, CountAsks DEF AddAnswer, Ended
  <2>2. sse' = [sse EXCEPT ![c] = "done"]
    BY <1>2 DEF AddAnswer
  <2>3. UNCHANGED Asked
    BY <1>2 DEF AddAnswer, Asked, Asks, Store, TypeInv, TypeOK
  <2>4. Streams' = [Streams EXCEPT ![c] = "done"]
    BY <2>2, Report
  <2> QED BY <2>1, <2>3, <2>4 DEF Contract!Finish, Contract!Move, Streams, Asked
<1>3. ASSUME NEW c \in Chats, Send(c) PROVE Contract!Ask(c)
  <2>1. Streams[c] = "open" /\ Asked[c] < MaxToolRounds + 1
    BY <1>3, OpenStream, CountAsks DEF Send, Ended
  <2>2. UNCHANGED Streams
    BY <1>3 DEF Send, Streams, Stream
  <2>3. Asked' = [Asked EXCEPT ![c] = @ + 1]
    <3>1. \A d \in Chats \ {c} : Asks(d)' = Asks(d)
      BY <1>3 DEF Send, Asks, TypeInv, TypeOK
    <3>2. Asks(c)' = Asks(c) + 1
      BY <1>3 DEF Send, Asks, TypeInv, TypeOK
    <3> QED BY <3>1, <3>2 DEF Asked
  <2> QED BY <2>1, <2>2, <2>3 DEF Contract!Ask, Streams, Asked
<1>4. ASSUME NEW c \in Chats, StreamFails(c) PROVE Contract!Finish(c)
  <2>1. Streams[c] = "open" /\ Asked[c] > 0
    BY <1>4, OpenStream, CountAsks DEF StreamFails, Ended
  <2>2. sse' = [sse EXCEPT ![c] = "error"]
    BY <1>4 DEF StreamFails
  <2>3. UNCHANGED Asked
    BY <1>4 DEF StreamFails, Asked, Asks, TypeInv, TypeOK
  <2>4. Streams' = [Streams EXCEPT ![c] = "error"]
    BY <2>2, Report
  <2> QED BY <2>1, <2>3, <2>4 DEF Contract!Finish, Contract!Move, Streams, Asked
<1>5. ASSUME NEW c \in Chats, StartTool(c) PROVE Contract!ToolStart(c)
  <2>1. Streams[c] = "open" /\ Asked[c] > 0
    BY <1>5, OpenStream, CountAsks DEF StartTool, Ended
  <2>2. sse' = [sse EXCEPT ![c] = "tool_start"]
    BY <1>5 DEF StartTool
  <2>3. UNCHANGED Asked
    BY <1>5 DEF StartTool, Asked, Asks, TypeInv, TypeOK
  <2>4. Streams' = [Streams EXCEPT ![c] = "tool"]
    BY <2>2, Report
  <2> QED BY <2>1, <2>3, <2>4 DEF Contract!ToolStart, Contract!Move, Streams, Asked
<1>6. ASSUME NEW c \in Chats, ToolReturns(c) PROVE Contract!ToolResult(c)
  <2>1. Streams[c] = "tool"
    BY <1>6 DEF ToolReturns, Streams, Stream, TypeInv, TypeOK, Placed
  <2>2. sse' = [sse EXCEPT ![c] = "tool_result"]
    BY <1>6 DEF ToolReturns
  <2>3. UNCHANGED Asked
    BY <1>6 DEF ToolReturns, Asked, Asks, TypeInv, TypeOK
  <2>4. Streams' = [Streams EXCEPT ![c] = "open"]
    BY <2>2, Report
  <2> QED BY <2>1, <2>3, <2>4 DEF Contract!ToolResult, Contract!Move, Streams, Asked
<1>7. ASSUME NEW c \in Chats, ToolPanics(c) PROVE Contract!Cut(c)
  <2>1. Streams[c] = "tool"
    BY <1>7 DEF ToolPanics, Streams, Stream, TypeInv, TypeOK, Placed
  <2>2. sse' = [sse EXCEPT ![c] = "cut"]
    BY <1>7 DEF ToolPanics
  <2>3. UNCHANGED Asked
    BY <1>7 DEF ToolPanics, Asked, Asks, TypeInv, TypeOK
  <2>4. Streams' = [Streams EXCEPT ![c] = "cut"]
    BY <2>2, Report
  <2> QED BY <2>1, <2>3, <2>4 DEF Contract!Cut, Contract!Move, Streams, Asked
<1>8. ASSUME NEW c \in Chats, SendFinal(c) PROVE Contract!Ask(c)
  <2>1. Streams[c] = "open" /\ Asked[c] < MaxToolRounds + 1
    BY <1>8, OpenStream, CountAsks DEF SendFinal, Ended
  <2>2. UNCHANGED Streams
    BY <1>8 DEF SendFinal, Streams, Stream
  <2>3. Asked' = [Asked EXCEPT ![c] = @ + 1]
    <3>1. \A d \in Chats \ {c} : Asks(d)' = Asks(d)
      BY <1>8 DEF SendFinal, Asks, TypeInv, TypeOK
    <3>2. Asks(c)' = Asks(c) + 1
      BY <1>8 DEF SendFinal, Asks, TypeInv, TypeOK
    <3> QED BY <3>1, <3>2 DEF Asked
  <2> QED BY <2>1, <2>2, <2>3 DEF Contract!Ask, Streams, Asked
<1>9. ASSUME NEW c \in Chats, EndFinal(c) PROVE Contract!Finish(c)
  <2>1. Streams[c] = "open" /\ Asked[c] > 0
    BY <1>9, OpenStream, CountAsks DEF EndFinal, Ended
  <2>2. sse' = [sse EXCEPT ![c] = "done"]
    BY <1>9 DEF EndFinal
  <2>3. UNCHANGED Asked
    BY <1>9 DEF EndFinal, Asked, Asks, TypeInv, TypeOK
  <2>4. Streams' = [Streams EXCEPT ![c] = "done"]
    BY <2>2, Report
  <2> QED BY <2>1, <2>3, <2>4 DEF Contract!Finish, Contract!Move, Streams, Asked
<1>10. ASSUME NEW k \in Keys, ClearSession(k) PROVE UNCHANGED Contract!vars
  <2>1. UNCHANGED sse /\ UNCHANGED Asked
    BY <1>10 DEF ClearSession, Asked, Asks
  <2> QED BY <2>1, QuietStep
<1>11. CASE UNCHANGED vars
  <2>1. UNCHANGED sse /\ UNCHANGED Asked
    BY <1>11 DEF vars, Asked, Asks
  <2> QED BY <2>1, QuietStep
<1>12. ASSUME NEW c \in Chats, Run(c) PROVE [Contract!Next]_(Contract!vars)
  <2>1. CASE \/ CreateSession(c) \/ LoadHistory(c) \/ AddQuestion(c) \/ AddEmptyAnswer(c)
             \/ AddNudge(c) \/ AddCalls(c) \/ AddResult(c) \/ BeginCompress(c)
             \/ FinishCompress(c) \/ BeginRound(c) \/ StreamAnswers(c)
    BY <2>1, QuietActions, QuietStep
  <2> QED BY <1>12, <2>1, <1>2, <1>3, <1>4, <1>5, <1>6, <1>7, <1>8, <1>9 DEF Run, Contract!Next
<1> QED BY <1>1, <1>10, <1>11, <1>12 DEF Next, Contract!Next

\* In every interleaving of chats and clears, overlapping or not, each event
\* stream keeps the client's contract: tools are reported one by one, the model
\* is asked at most MaxToolRounds + 1 times, and one terminal event ends it
\* (runToolLoop's returns, OnComplete and OnError).
THEOREM ContractKept == Spec => KeepsContract
<1>1. Init => Contract!Init
  BY DEF Init, Contract!Init, Stream, Asks
<1> QED BY <1>1, TypeInvariant, ContractStep, PTL DEF Spec, KeepsContract, Contract!Spec

-----------------------------------------------------------------------------
(* Turns.                                                                  *)

Active(c) == pc[c] \notin {"idle"} \cup Ended

Found(c) == pc[c] \notin {"idle", "create"}

\* The chat that runs on a session id is alone, finds no session stored since
\* it missed the map, and has the object of the map; and every object in the
\* map was stored by a chat of that session id.
Turns ==
    /\ \A c, d \in Chats : Active(c) /\ Active(d) /\ key[c] = key[d] => c = d
    /\ \A c \in Chats : pc[c] = "create" => table[key[c]] = NoSession
    /\ \A c \in Chats : Found(c) => sess[c] = table[key[c]]
    /\ \A k \in Keys : table[k] # NoSession => key[table[k]] = k /\ Found(table[k])

\* All steps but Arrive and CreateSession: at most one chat that has its session
\* moves on.
Stays ==
    /\ UNCHANGED <<table, key, sess>>
    /\ \/ pc' = pc
       \/ \E c \in Chats, x \in Steps \ {"idle", "create"} :
            Active(c) /\ Found(c) /\ pc' = [pc EXCEPT ![c] = x]

LEMMA OthersStay ==
    ASSUME TypeInv, [Next]_vars,
           \A c \in Chats : ~Arrive(c) /\ ~CreateSession(c)
    PROVE  Stays
<1> USE DEF Active, Found, Ended, Stays, Steps, whoVars
<1>1. ASSUME NEW k \in Keys, ClearSession(k) PROVE Stays
  BY <1>1 DEF ClearSession
<1>2. ASSUME NEW c \in Chats, LoadHistory(c) PROVE Stays
  BY <1>2 DEF LoadHistory, sessionVars
<1>3. ASSUME NEW c \in Chats, AddQuestion(c) PROVE Stays
  BY <1>3 DEF AddQuestion
<1>4. ASSUME NEW c \in Chats, AddAnswer(c) PROVE Stays
  BY <1>4 DEF AddAnswer
<1>5. ASSUME NEW c \in Chats, AddEmptyAnswer(c) PROVE Stays
  BY <1>5 DEF AddEmptyAnswer
<1>6. ASSUME NEW c \in Chats, AddNudge(c) PROVE Stays
  BY <1>6 DEF AddNudge
<1>7. ASSUME NEW c \in Chats, AddCalls(c) PROVE Stays
  BY <1>7 DEF AddCalls
<1>8. ASSUME NEW c \in Chats, AddResult(c) PROVE Stays
  BY <1>8 DEF AddResult
<1>9. ASSUME NEW c \in Chats, BeginCompress(c) PROVE Stays
  BY <1>9 DEF BeginCompress, sessionVars
<1>10. ASSUME NEW c \in Chats, FinishCompress(c) PROVE Stays
  BY <1>10 DEF FinishCompress
<1>11. ASSUME NEW c \in Chats, BeginRound(c) PROVE Stays
  BY <1>11 DEF BeginRound, sessionVars
<1>12. ASSUME NEW c \in Chats, Send(c) PROVE Stays
  BY <1>12 DEF Send, sessionVars
<1>13. ASSUME NEW c \in Chats, StreamFails(c) PROVE Stays
  BY <1>13 DEF StreamFails, sessionVars
<1>14. ASSUME NEW c \in Chats, StreamAnswers(c) PROVE Stays
  BY <1>14 DEF StreamAnswers
<1>15. ASSUME NEW c \in Chats, StartTool(c) PROVE Stays
  BY <1>15 DEF StartTool, sessionVars
<1>16. ASSUME NEW c \in Chats, ToolReturns(c) PROVE Stays
  BY <1>16 DEF ToolReturns, sessionVars
<1>17. ASSUME NEW c \in Chats, ToolPanics(c) PROVE Stays
  BY <1>17 DEF ToolPanics, sessionVars
<1>18. ASSUME NEW c \in Chats, SendFinal(c) PROVE Stays
  BY <1>18 DEF SendFinal, sessionVars
<1>19. ASSUME NEW c \in Chats, EndFinal(c) PROVE Stays
  BY <1>19 DEF EndFinal
<1>20. ASSUME UNCHANGED vars PROVE Stays
  BY <1>20 DEF vars
<1> QED
  BY <1>1, <1>2, <1>3, <1>4, <1>5, <1>6, <1>7, <1>8, <1>9, <1>10, <1>11, <1>12,
     <1>13, <1>14, <1>15, <1>16, <1>17, <1>18, <1>19, <1>20 DEF Next, Run

LEMMA ArriveTurns ==
    ASSUME OneAtATime, TypeInv, Turns, NEW c \in Chats, Arrive(c)
    PROVE  Turns'
<1>1. PICK k \in Keys : /\ ~Busy(k)
                        /\ key' = [key EXCEPT ![c] = k]
                        /\ sess' = [sess EXCEPT ![c] = table[k]]
                        /\ pc' = [pc EXCEPT ![c] =
                                    IF table[k] = NoSession THEN "create" ELSE "ask"]
  BY DEF Arrive, OneAtATime, Lookup
<1>2. table' = table /\ pc[c] = "idle"
  BY DEF Arrive, sessionVars
<1> USE DEF TypeInv, TypeOK, Active, Found, Ended
<1>3. \A d, e \in Chats : Active(d)' /\ Active(e)' /\ key'[d] = key'[e] => d = e
  BY <1>1, <1>2 DEF Turns, Busy
<1>4. \A d \in Chats : pc'[d] = "create" => table'[key'[d]] = NoSession
  BY <1>1, <1>2 DEF Turns
<1>5. \A d \in Chats : Found(d)' => sess'[d] = table'[key'[d]]
  BY <1>1, <1>2 DEF Turns
<1>6. \A i \in Keys : table'[i] # NoSession => key'[table'[i]] = i /\ Found(table[i])'
  BY <1>1, <1>2 DEF Turns
<1> QED BY <1>2, <1>3, <1>4, <1>5, <1>6 DEF Turns

LEMMA CreateTurns ==
    ASSUME OneAtATime, TypeInv, Turns, NEW c \in Chats, CreateSession(c)
    PROVE  Turns'
<1> USE DEF TypeInv, TypeOK, Active, Found, Ended
<1>1. /\ pc[c] = "create" /\ key[c] \in Keys /\ key' = key
      /\ table' = [table EXCEPT ![key[c]] = c]
      /\ sess' = [sess EXCEPT ![c] = c]
      /\ pc' = [pc EXCEPT ![c] = "ask"]
  BY DEF CreateSession, Placed
<1>2. \A d \in Chats \ {c} : pc[d] # "idle" => key[d] # key[c]
  <2>1. ASSUME NEW d \in Chats \ {c}, pc[d] # "idle", key[d] = key[c] PROVE FALSE
    <3>1. CASE Active(d)
      BY <1>1, <2>1, <3>1 DEF Turns
    <3>2. CASE ~Active(d)
      <4>1. Found(d) /\ sess[d] \in Chats
        BY <2>1, <3>2 DEF Placed
      <4>2. sess[d] = NoSession
        BY <1>1, <2>1, <4>1 DEF Turns
      <4> QED BY <4>1, <4>2
    <3> QED BY <3>1, <3>2
  <2> QED BY <2>1
<1>3. \A d, e \in Chats : Active(d)' /\ Active(e)' /\ key'[d] = key'[e] => d = e
  BY <1>1 DEF Turns
<1>4. \A d \in Chats : pc'[d] = "create" => table'[key'[d]] = NoSession
  BY <1>1, <1>2 DEF Turns
<1>5. \A d \in Chats : Found(d)' => sess'[d] = table'[key'[d]]
  BY <1>1, <1>2 DEF Turns
<1>6. \A i \in Keys : table'[i] # NoSession => key'[table'[i]] = i /\ Found(table[i])'
  BY <1>1 DEF Turns
<1> QED BY <1>3, <1>4, <1>5, <1>6 DEF Turns

LEMMA TurnsStep == OneAtATime /\ TypeInv /\ Turns /\ [Next]_vars => Turns'
<1> SUFFICES ASSUME OneAtATime, TypeInv, Turns, [Next]_vars PROVE Turns'
  OBVIOUS
<1>1. CASE \E c \in Chats : Arrive(c)
  BY <1>1, ArriveTurns
<1>2. CASE \E c \in Chats : CreateSession(c)
  BY <1>2, CreateTurns
<1>3. CASE \A c \in Chats : ~Arrive(c) /\ ~CreateSession(c)
  <2>1. Stays
    BY <1>3, OthersStay
  <2>2. CASE pc' = pc
    BY <2>1, <2>2 DEF Stays, Turns, Active, Found
  <2>3. CASE \E c \in Chats, x \in Steps \ {"idle", "create"} :
               Active(c) /\ Found(c) /\ pc' = [pc EXCEPT ![c] = x]
    <3>1. PICK c \in Chats, x \in Steps \ {"idle", "create"} :
               Active(c) /\ Found(c) /\ pc' = [pc EXCEPT ![c] = x]
      BY <2>3
    <3>2. \A d \in Chats : /\ Active(d)' => Active(d)
                           /\ Found(d)' <=> Found(d)
                           /\ pc'[d] = "create" <=> pc[d] = "create"
      BY <3>1 DEF Active, Found, TypeInv, TypeOK
    <3>3. table' = table /\ key' = key /\ sess' = sess /\ table \in [Keys -> Chats \cup {NoSession}]
      BY <2>1 DEF Stays, TypeInv, TypeOK
    <3> HIDE DEF Active, Found
    <3> QED BY <3>2, <3>3 DEF Turns
  <2> QED BY <2>1, <2>2, <2>3 DEF Stays
<1> QED BY <1>1, <1>2, <1>3

LEMMA TurnsInvariant ==
    ASSUME OneAtATime
    PROVE  Spec => []Turns
<1>1. Init => Turns
  BY DEF Init, Turns, Active, Found, Ended
<1> QED BY <1>1, TurnsStep, TypeInvariant, PTL DEF Spec

\* When clients take turns, all chats of a session id use one session object
\* (engine.go, getOrCreateSession), for any number of clients and requests.
THEOREM OneSession == Spec => []OneSessionPerKey
<1>1. Turns => OneSessionPerKey
  BY DEF Turns, OneSessionPerKey, Found
<1>2. ~OneAtATime => OneSessionPerKey
  BY DEF OneSessionPerKey
<1>3. CASE OneAtATime
  BY <1>1, <1>3, TurnsInvariant, PTL
<1>4. CASE ~OneAtATime
  BY <1>2, <1>4, PTL
<1> QED BY <1>3, <1>4

-----------------------------------------------------------------------------
(* A history opens with a question or a summary, in every interleaving of  *)
(* chats, as long as a session is not cleared while a chat runs on it.     *)

Opening(ms) == ms # <<>> /\ ms[1].role \in {"user", "summary"}

\* The chat has stored its question and goes on.
Begun(c) == pc[c] \notin {"idle", "create", "ask"} \cup Ended

\* A session object serves one session id, that of the chat that made it.
Keyed ==
    /\ \A k \in Keys : table[k] # NoSession
                          => pc[table[k]] # "idle" /\ key[table[k]] = k
    /\ \A c \in Chats : pc[c] # "idle" /\ sess[c] # NoSession
                          => pc[sess[c]] # "idle" /\ key[sess[c]] = key[c]

\* A chat that goes on finds a history, and what it is about to store opens well.
Openings ==
    /\ \A s \in Chats : messages[s] # <<>> => Opening(messages[s])
    /\ \A c \in Chats :
          /\ Begun(c) => messages[sess[c]] # <<>>
          /\ loaded[c] /\ pc[c] # "ask" => Opening(header[c])
          /\ loaded[c] /\ header[c] # <<>> => Opening(header[c])
          /\ pc[c] = "compress" => Opening(plan[c])

OpenInv == TypeInv /\ Keyed /\ Openings

\* A session of the table or of a chat is an object some chat made.
LEMMA ObjectsAreChats ==
    ASSUME TypeInv
    PROVE  /\ \A k \in Keys : table[k] # NoSession => table[k] \in Chats
           /\ \A c \in Chats : sess[c] # NoSession => sess[c] \in Chats
  BY DEF TypeInv, TypeOK

\* The session objects stay keyed when only the steps of started chats change.
LEMMA KeyedStays ==
    ASSUME TypeInv, Keyed, UNCHANGED <<table, key, sess>>,
           \A d \in Chats : pc'[d] = "idle" <=> pc[d] = "idle"
    PROVE  Keyed'
  BY ObjectsAreChats DEF Keyed

\* Whatever is appended to a history that opens well, it still does.
LEMMA AppendOpens ==
    ASSUME NEW ms \in Seq(Message), NEW m \in Message,
           Opening(ms) \/ (ms = <<>> /\ m.role = "user")
    PROVE  Opening(Append(ms, m))
<1>1. Append(ms, m) # <<>> /\ Len(Append(ms, m)) = Len(ms) + 1 /\ Len(ms) \in Nat
  BY AppendProperties, LenProperties
<1>2. CASE Opening(ms)
  <2>1. 1 \in 1..Len(ms)
    BY <1>1, <1>2, EmptySeq DEF Opening
  <2>2. Append(ms, m)[1] = ms[1]
    BY <2>1, AppendProperties
  <2> QED BY <1>1, <1>2, <2>2 DEF Opening
<1>3. CASE ms = <<>> /\ m.role = "user"
  <2>1. Append(ms, m)[1] = m
    BY <1>3
  <2> QED BY <1>1, <1>3, <2>1 DEF Opening
<1> QED BY <1>2, <1>3

\* A compressed history opens with its summary.
LEMMA CompressedOpens ==
    ASSUME NEW ms \in Seq(Message), NEW cut \in DOMAIN ms
    PROVE  Opening(Compressed(ms, cut))
<1> DEFINE head == [role |-> "summary", k |-> 0,
                    asked |-> QuestionsIn(SubSeq(ms, 1, cut - 1))]
           rest == SubSeq(ms, cut, Len(ms))
<1>1. rest \in Seq(Message)
  BY SubSeqProperties
<1>2. Compressed(ms, cut) = <<head>> \o rest
  BY DEF Compressed
<1> HIDE DEF rest
<1>3. Len(rest) \in Nat
  BY <1>1, LenProperties
<1>4. (<<head>> \o rest)[1] = head /\ <<head>> \o rest # <<>>
  BY <1>1, <1>3
<1> QED BY <1>2, <1>4 DEF Opening

\* Storing a message leaves all histories opening well and none empty.
LEMMA StoreOpens ==
    ASSUME OpenInv, TypeInv', NEW c \in Chats, pc[c] \in Appending,
           NEW m \in Message, pc[c] = "ask" => m.role = "user", Store(c, m),
           UNCHANGED <<table, key, sess, plan>>,
           pc'[c] \notin {"idle", "create", "ask", "compress"},
           \A d \in Chats \ {c} : pc'[d] = pc[d]
    PROVE  OpenInv'
<1> USE DEF OpenInv
<1>1. sess[c] \in Chats /\ header[c] \in Seq(Message) /\ loaded[c]
  BY DEF TypeInv, TypeOK, Placed, Appending, Store
<1>2. Opening(Append(header[c], m))
  <2>1. Opening(header[c]) \/ (header[c] = <<>> /\ pc[c] = "ask")
    BY <1>1 DEF Openings
  <2> QED BY <1>1, <2>1, AppendOpens
<1>3. /\ messages'[sess[c]] = Append(header[c], m)
      /\ \A s \in Chats \ {sess[c]} : messages'[s] = messages[s]
      /\ ~loaded'[c]
      /\ \A d \in Chats \ {c} : loaded'[d] = loaded[d] /\ header'[d] = header[d]
  BY <1>1 DEF Store, TypeInv, TypeOK
<1>4. \A s \in Chats : messages'[s] # <<>> => Opening(messages'[s])
  BY <1>2, <1>3 DEF Openings
<1>5. ASSUME NEW d \in Chats
      PROVE  /\ Begun(d)' => messages'[sess'[d]] # <<>>
             /\ loaded'[d] /\ pc'[d] # "ask" => Opening(header'[d])
             /\ loaded'[d] /\ header'[d] # <<>> => Opening(header'[d])
             /\ pc'[d] = "compress" => Opening(plan'[d])
  <2>1. CASE d = c
    BY <1>2, <1>3, <2>1 DEF Opening
  <2>2. CASE d # c
    <3>1. /\ pc'[d] = pc[d] /\ loaded'[d] = loaded[d] /\ header'[d] = header[d]
          /\ plan'[d] = plan[d] /\ sess'[d] = sess[d]
      BY <1>3, <2>2
    <3>2. Begun(d) => sess[d] \in Chats
      BY DEF Begun, TypeInv, Placed
    <3>3. Begun(d)' => messages'[sess'[d]] # <<>>
      BY <1>2, <1>3, <3>1, <3>2 DEF Begun, Openings, Opening
    <3> QED BY <3>1, <3>3 DEF Openings, Opening
  <2> QED BY <2>1, <2>2
<1>6. Openings'
  BY <1>4, <1>5 DEF Openings, Opening
<1>7. Keyed'
  <2>1. \A d \in Chats : pc'[d] = "idle" <=> pc[d] = "idle"
    BY DEF Appending
  <2> QED BY <2>1, KeyedStays
<1> QED BY <1>6, <1>7

\* A chat that only moves on, with its histories as they were.
LEMMA MoveOpens ==
    ASSUME OpenInv, TypeInv', NEW c \in Chats,
           UNCHANGED <<table, messages, key, sess, loaded, header>>,
           pc[c] \notin {"idle", "ask"}, pc'[c] # "idle", Begun(c)' => Begun(c),
           pc'[c] = "compress" => Opening(plan'[c]),
           \A d \in Chats \ {c} : pc'[d] = pc[d] /\ plan'[d] = plan[d]
    PROVE  OpenInv'
<1> USE DEF OpenInv
<1>1. ASSUME NEW d \in Chats
      PROVE  /\ Begun(d)' => messages'[sess'[d]] # <<>>
             /\ loaded'[d] /\ pc'[d] # "ask" => Opening(header'[d])
             /\ loaded'[d] /\ header'[d] # <<>> => Opening(header'[d])
             /\ pc'[d] = "compress" => Opening(plan'[d])
  <2>1. CASE d = c
    BY <2>1 DEF Openings, Opening
  <2>2. CASE d # c
    BY <2>2 DEF Openings, Opening, Begun
  <2> QED BY <2>1, <2>2
<1>2. Openings'
  BY <1>1 DEF Openings, Opening
<1>3. \A d \in Chats : pc'[d] = "idle" <=> pc[d] = "idle"
  OBVIOUS
<1>4. Keyed'
  BY <1>3, KeyedStays
<1> QED BY <1>2, <1>4

LEMMA OpenInvStep ==
    ASSUME ~ClearMayOverlap, OpenInv, [Next]_vars
    PROVE  OpenInv'
<1>0. TypeInv /\ TypeInv'
  BY TypeInvStep DEF OpenInv
<1>1. ASSUME NEW c \in Chats, Arrive(c) PROVE OpenInv'
  <2>1. PICK k \in Keys :
           /\ key' = [key EXCEPT ![c] = k]
           /\ sess' = [sess EXCEPT ![c] = table[k]]
           /\ pc' = [pc EXCEPT ![c] = IF table[k] = NoSession THEN "create" ELSE "ask"]
    BY <1>1 DEF Arrive, Lookup
  <2>2. pc[c] = "idle" /\ UNCHANGED <<table, messages, loaded, header, plan>>
    BY <1>1 DEF Arrive, sessionVars, appendVars
  <2>3. /\ key'[c] = k /\ sess'[c] = table[k] /\ pc'[c] \in {"create", "ask"}
        /\ \A d \in Chats \ {c} : key'[d] = key[d] /\ sess'[d] = sess[d] /\ pc'[d] = pc[d]
    BY <1>0, <2>1 DEF TypeInv, TypeOK
  <2>4. \A j \in Keys : table[j] # NoSession => table[j] \in Chats \ {c}
    BY <1>0, <2>2 DEF OpenInv, Keyed, TypeInv, TypeOK
  <2>5. \A d \in Chats : pc[d] # "idle" /\ sess[d] # NoSession => sess[d] \in Chats \ {c}
    BY <1>0, <2>2 DEF OpenInv, Keyed, TypeInv, TypeOK
  <2>6. Keyed'
    BY <2>2, <2>3, <2>4, <2>5 DEF OpenInv, Keyed
  <2>8. Openings'
    BY <2>2, <2>3 DEF OpenInv, Openings, Begun, Opening
  <2> QED BY <1>0, <2>6, <2>8 DEF OpenInv
<1>2. ASSUME NEW k \in Keys, ClearSession(k) PROVE OpenInv'
  <2>1. /\ table[k] # NoSession /\ ~Busy(k)
        /\ messages' = [messages EXCEPT ![table[k]] = <<>>]
        /\ UNCHANGED <<table, pc, key, sess, loaded, header, plan>>
    BY <1>2 DEF ClearSession, whoVars, appendVars
  <2>2. /\ table[k] \in Chats
        /\ \A s \in Chats : messages'[s] = IF s = table[k] THEN <<>> ELSE messages[s]
    BY <1>0, <2>1 DEF TypeInv, TypeOK
  <2>3. ASSUME NEW c \in Chats, Begun(c) PROVE sess[c] # table[k] /\ sess[c] \in Chats
    <3>1. sess[c] \in Chats /\ sess[c] # NoSession /\ pc[c] \notin {"idle"} \cup Ended
      BY <1>0, <2>3 DEF Begun, TypeInv, Placed
    <3>2. key[sess[c]] = key[c] /\ key[c] # k
      BY <2>1, <3>1 DEF OpenInv, Keyed, Busy
    <3>3. key[table[k]] = k
      BY <2>1 DEF OpenInv, Keyed
    <3> QED BY <3>1, <3>2, <3>3
  <2>4. \A c \in Chats : Begun(c)' <=> Begun(c)
    BY <2>1 DEF Begun
  <2>5. Openings'
    BY <2>1, <2>2, <2>3, <2>4 DEF OpenInv, Openings, Opening
  <2>6. Keyed'
    BY <2>1 DEF OpenInv, Keyed
  <2> QED BY <1>0, <2>5, <2>6 DEF OpenInv
<1>3. ASSUME NEW c \in Chats, CreateSession(c) PROVE OpenInv'
  <2>1. /\ pc[c] = "create" /\ key[c] \in Keys
        /\ \A k \in Keys : table'[k] = IF k = key[c] THEN c ELSE table[k]
        /\ \A d \in Chats : sess'[d] = IF d = c THEN c ELSE sess[d]
        /\ \A d \in Chats : pc'[d] = IF d = c THEN "ask" ELSE pc[d]
        /\ UNCHANGED <<messages, key, loaded, header, plan>>
    BY <1>0, <1>3 DEF CreateSession, TypeInv, TypeOK, Placed, appendVars
  <2>2. Keyed'
    BY <1>0, <2>1, ObjectsAreChats DEF OpenInv, Keyed
  <2>3. Openings'
    BY <2>1 DEF OpenInv, Openings, Begun, Opening
  <2> QED BY <1>0, <2>2, <2>3 DEF OpenInv
<1>4. ASSUME NEW c \in Chats, LoadHistory(c) PROVE OpenInv'
  <2>1. /\ pc[c] \in Appending
        /\ \A d \in Chats : loaded'[d] = IF d = c THEN TRUE ELSE loaded[d]
        /\ \A d \in Chats : header'[d] = IF d = c THEN messages[sess[c]] ELSE header[d]
        /\ UNCHANGED <<table, messages, pc, key, sess, plan>>
    BY <1>0, <1>4 DEF LoadHistory, TypeInv, TypeOK, sessionVars, whoVars
  <2>2. sess[c] \in Chats
    BY <1>0, <2>1 DEF TypeInv, Placed, Appending
  <2>3. pc[c] # "ask" => Begun(c)
    BY <2>1 DEF Appending, Begun, Ended
  <2>4. \A d \in Chats : Begun(d)' <=> Begun(d)
    BY <2>1 DEF Begun
  <2>5. Openings'
    BY ZenonT(30), <2>1, <2>2, <2>3, <2>4 DEF OpenInv, Openings, Opening
  <2>6. Keyed'
    BY <2>1 DEF OpenInv, Keyed
  <2> QED BY <1>0, <2>5, <2>6 DEF OpenInv
<1>5. ASSUME NEW c \in Chats, AddQuestion(c) PROVE OpenInv'
  <2>1. [role |-> "user", k |-> 0, asked |-> {c}] \in Message
    BY DEF Message, Roles
  <2> QED BY <1>0, <1>5, <2>1, StoreOpens
          DEF AddQuestion, Appending, TypeInv, TypeOK, whoVars
<1>6. ASSUME NEW c \in Chats, AddAnswer(c) PROVE OpenInv'
  <2>1. Plain("assistant") \in Message
    BY DEF Message, Roles, Plain
  <2> QED BY <1>0, <1>6, <2>1, StoreOpens
          DEF AddAnswer, Appending, TypeInv, TypeOK, whoVars
<1>7. ASSUME NEW c \in Chats, AddEmptyAnswer(c) PROVE OpenInv'
  <2>1. Plain("assistant") \in Message
    BY DEF Message, Roles, Plain
  <2> QED BY <1>0, <1>7, <2>1, StoreOpens
          DEF AddEmptyAnswer, Appending, TypeInv, TypeOK, whoVars
<1>8. ASSUME NEW c \in Chats, AddNudge(c) PROVE OpenInv'
  <2>1. Plain("nudge") \in Message
    BY DEF Message, Roles, Plain
  <2> QED BY <1>0, <1>8, <2>1, StoreOpens
          DEF AddNudge, Appending, TypeInv, TypeOK, whoVars
<1>9. ASSUME NEW c \in Chats, AddCalls(c) PROVE OpenInv'
  <2>1. [role |-> "assistant", k |-> reply[c].calls, asked |-> {}] \in Message
    BY <1>0 DEF Message, Roles, Replies, TypeInv, TypeOK
  <2> QED BY <1>0, <1>9, <2>1, StoreOpens
          DEF AddCalls, Appending, TypeInv, TypeOK, whoVars
<1>10. ASSUME NEW c \in Chats, AddResult(c) PROVE OpenInv'
  <2>1. [role |-> "tool", k |-> step[c] + 1, asked |-> {}] \in Message
    BY <1>0 DEF Message, Roles, TypeInv, TypeOK
  <2>2. /\ pc[c] = "result" /\ UNCHANGED <<table, key, sess, plan>>
        /\ Store(c, [role |-> "tool", k |-> step[c] + 1, asked |-> {}])
        /\ pc' = [pc EXCEPT ![c] = "tool"] \/ pc' = [pc EXCEPT ![c] = "round"]
    BY <1>10 DEF AddResult, whoVars
  <2> QED BY <1>0, <2>1, <2>2, StoreOpens DEF Appending, TypeInv, TypeOK
<1>11. ASSUME NEW c \in Chats, BeginCompress(c) PROVE OpenInv'
  <2>1. PICK cut \in Cuts(messages[sess[c]]) :
           plan' = [plan EXCEPT ![c] = Compressed(messages[sess[c]], cut)]
    BY <1>11 DEF BeginCompress
  <2>2. messages[sess[c]] \in Seq(Message) /\ cut \in DOMAIN messages[sess[c]]
    BY SMTT(30), <1>0, <1>11 DEF BeginCompress, Cuts, RoundStarts, TypeInv, TypeOK, Placed
  <2>3. Opening(plan'[c]) /\ \A d \in Chats \ {c} : plan'[d] = plan[d]
    BY <1>0, <2>1, <2>2, CompressedOpens DEF TypeInv, TypeOK
  <2>4. /\ pc[c] = "round" /\ pc' = [pc EXCEPT ![c] = "compress"]
        /\ UNCHANGED <<table, messages, key, sess, loaded, header>>
    BY <1>11 DEF BeginCompress, sessionVars, whoVars, appendVars
  <2> QED BY <1>0, <2>3, <2>4, MoveOpens DEF Begun, Ended, TypeInv, TypeOK
<1>12. ASSUME NEW c \in Chats, FinishCompress(c) PROVE OpenInv'
  <2>1. /\ pc[c] = "compress" /\ sess[c] \in Chats /\ Opening(plan[c])
        /\ \A s \in Chats : messages'[s] = IF s = sess[c] THEN plan[c] ELSE messages[s]
        /\ \A d \in Chats \ {c} : pc'[d] = pc[d] /\ plan'[d] = plan[d]
        /\ pc'[c] = "send" /\ UNCHANGED <<table, key, sess, loaded, header>>
    BY <1>0, <1>12 DEF FinishCompress, OpenInv, Openings, TypeInv, TypeOK, Placed,
                       whoVars, appendVars
  <2>2. \A d \in Chats : /\ Begun(d)' <=> Begun(d)
                         /\ Begun(d) => sess[d] \in Chats
                         /\ pc'[d] = "ask" <=> pc[d] = "ask"
                         /\ pc'[d] = "idle" <=> pc[d] = "idle"
    BY <1>0, <2>1 DEF Begun, Ended, TypeInv, Placed
  <2>3. Openings'
    BY <2>1, <2>2 DEF OpenInv, Openings, Opening
  <2>4. Keyed'
    BY <1>0, <2>1, <2>2, KeyedStays DEF OpenInv
  <2> QED BY <1>0, <2>3, <2>4 DEF OpenInv
<1>13. ASSUME NEW c \in Chats, NEW before \in Steps, NEW after \in Steps,
              before \notin {"idle", "ask", "create"} \cup Ended, after \notin {"idle", "compress"},
              pc[c] = before, pc' = [pc EXCEPT ![c] = after],
              UNCHANGED <<table, messages, key, sess, loaded, header, plan>>
       PROVE  OpenInv'
  <2>1. Begun(c) /\ pc'[c] = after /\ \A d \in Chats \ {c} : pc'[d] = pc[d]
    BY <1>0, <1>13 DEF Begun, TypeInv, TypeOK
  <2> QED BY <1>0, <1>13, <2>1, MoveOpens
<1>14. ASSUME NEW c \in Chats,
              \/ BeginRound(c) \/ Send(c) \/ StreamFails(c) \/ StreamAnswers(c)
              \/ StartTool(c) \/ ToolReturns(c) \/ ToolPanics(c)
              \/ SendFinal(c) \/ EndFinal(c)
       PROVE  OpenInv'
  <2>1. UNCHANGED <<table, messages, key, sess, loaded, header, plan>>
    BY <1>14 DEF BeginRound, Send, StreamFails, StreamAnswers, StartTool, ToolReturns, ToolPanics,
                 SendFinal, EndFinal, sessionVars, whoVars, appendVars
  <2>2. \E before, after \in Steps :
           /\ before \notin {"idle", "ask", "create"} \cup Ended /\ after \notin {"idle", "compress"}
           /\ pc[c] = before /\ pc' = [pc EXCEPT ![c] = after]
    <3>1. CASE StreamAnswers(c)
      <4>1. \E p \in {"empty", "answer", "calls"} : pc' = [pc EXCEPT ![c] = p]
        BY <3>1 DEF StreamAnswers
      <4> QED BY <3>1, <4>1 DEF StreamAnswers, Steps, Ended
    <3>2. CASE ~StreamAnswers(c)
      BY <1>14, <3>2 DEF BeginRound, Send, StreamFails, StartTool, ToolReturns, ToolPanics,
                         SendFinal, EndFinal, Steps, Ended
    <3> QED BY <3>1, <3>2
  <2> QED BY <1>13, <2>1, <2>2
<1>15. CASE UNCHANGED vars
  BY <1>0, <1>15 DEF vars, OpenInv, Openings, Opening, Keyed, Begun
<1> QED BY <1>1, <1>2, <1>3, <1>4, <1>5, <1>6, <1>7, <1>8, <1>9, <1>10, <1>11, <1>12,
           <1>14, <1>15 DEF Next, Run

\* When no session is cleared while a chat runs on it, a history always opens
\* with a question or with the summary of older ones, in every interleaving of
\* chats (runToolLoop, ClearSession, Compress).
THEOREM QuestionFirst == ~ClearMayOverlap => (Spec => []OpensWithQuestion)
<1> SUFFICES ASSUME ~ClearMayOverlap PROVE Spec => []OpensWithQuestion
  OBVIOUS
<1>1. Init => OpenInv
  <2> SUFFICES ASSUME Init PROVE OpenInv
    OBVIOUS
  <2>1. TypeInv
    BY DEF Init, TypeInv, TypeOK, Placed, InRound, Steps, Events, Replies
  <2>2. Keyed /\ Openings
    BY DEF Init, Keyed, Openings, Begun
  <2> QED BY <2>1, <2>2 DEF OpenInv
<1>2. OpenInv /\ [Next]_vars => OpenInv'
  BY OpenInvStep
<1>3. OpenInv => OpensWithQuestion
  BY DEF OpenInv, Openings, Opening, OpensWithQuestion
<1> QED BY <1>1, <1>2, <1>3, PTL DEF Spec

-----------------------------------------------------------------------------
(* Appending to a history and cutting it.                                  *)

Is(ms, i, role) == ms[i].role = role

\* As Paired, but an assistant message's calls may still lack replies.
Shaped(ms) ==
    \A i \in DOMAIN ms :
        /\ Is(ms, i, "tool") => RepliesToCall(ms, i)
        /\ Is(ms, i, "assistant") =>
             \A n \in 1..ms[i].k : i + n \in DOMAIN ms =>
                ms[i + n].role = "tool" /\ ms[i + n].k = n

\* All calls are answered, except the k of the last assistant message, which
\* have n replies.
Pending(ms, n, k) ==
    /\ Shaped(ms)
    /\ Len(ms) - n \in DOMAIN ms
    /\ Is(ms, Len(ms) - n, "assistant")
    /\ ms[Len(ms) - n].k = k
    /\ n < k
    /\ \A i \in DOMAIN ms : Is(ms, i, "assistant") /\ i # Len(ms) - n
                              => i + ms[i].k <= Len(ms)

LEMMA AppendShape ==
    ASSUME NEW ms \in Seq(Message), NEW m \in Message
    PROVE  /\ Append(ms, m) \in Seq(Message)
           /\ Len(ms) \in Nat /\ DOMAIN ms = 1..Len(ms)
           /\ Len(Append(ms, m)) = Len(ms) + 1
           /\ DOMAIN Append(ms, m) = 1..(Len(ms) + 1)
           /\ \A i \in 1..Len(ms) : Append(ms, m)[i] = ms[i] /\ ms[i] \in Message
           /\ Append(ms, m)[Len(ms) + 1] = m
<1>1. Append(ms, m) \in Seq(Message) /\ Len(Append(ms, m)) = Len(ms) + 1
  BY AppendProperties
<1>2. /\ Len(ms) \in Nat /\ DOMAIN ms = 1..Len(ms)
      /\ DOMAIN Append(ms, m) = 1..(Len(ms) + 1)
  BY <1>1, LenProperties
<1>3. \A i \in 1..Len(ms) : ms[i] \in Message
  BY <1>2, ElementOfSeq
<1>4. \A i \in 1..Len(ms) : Append(ms, m)[i] = ms[i]
  BY <1>2, AppendProperties
<1>5. Append(ms, m)[Len(ms) + 1] = m
  BY AppendProperties
<1> QED BY <1>1, <1>2, <1>3, <1>4, <1>5

LEMMA PairedIsShaped ==
    ASSUME NEW ms \in Seq(Message)
    PROVE  Paired(ms) <=> /\ Shaped(ms)
                          /\ \A i \in DOMAIN ms : Is(ms, i, "assistant") => i + ms[i].k <= Len(ms)
<1>1. Len(ms) \in Nat /\ DOMAIN ms = 1..Len(ms)
  BY LenProperties
<1>2. \A i \in DOMAIN ms : ms[i].k \in Nat
  <2>1. \A i \in DOMAIN ms : ms[i] \in Message
    BY <1>1, ElementOfSeq
  <2> QED BY <2>1 DEF Message
<1>3. ASSUME Paired(ms) PROVE Shaped(ms)
  BY <1>3 DEF Paired, Shaped, Is
<1>4. ASSUME Paired(ms), NEW i \in DOMAIN ms, Is(ms, i, "assistant")
      PROVE  i + ms[i].k <= Len(ms)
  <2>1. CASE ms[i].k = 0
    BY <1>1, <2>1
  <2>2. CASE ms[i].k > 0
    <3>1. ms[i].k \in 1..ms[i].k
      BY <1>2, <2>2
    <3> QED BY <1>1, <1>4, <3>1 DEF Paired, Is
  <2> QED BY <1>2, <2>1, <2>2
<1>5. ASSUME Shaped(ms),
             \A i \in DOMAIN ms : Is(ms, i, "assistant") => i + ms[i].k <= Len(ms)
      PROVE  Paired(ms)
  <2>1. ASSUME NEW i \in DOMAIN ms, Is(ms, i, "assistant"), NEW n \in 1..ms[i].k
        PROVE  i + n \in DOMAIN ms
    BY <1>1, <1>2, <1>5, <2>1
  <2> QED BY <1>5, <2>1 DEF Shaped, Paired, Is
<1> QED BY <1>3, <1>4, <1>5

\* A message that is not a tool's and calls nothing keeps a history paired.
LEMMA AppendPlain ==
    ASSUME NEW ms \in Seq(Message), Paired(ms), NEW m \in Message,
           m.role # "tool", m.k = 0
    PROVE  Paired(Append(ms, m))
<1> DEFINE new == Append(ms, m)
<1>1. ASSUME NEW i \in DOMAIN new, new[i].role = "tool" PROVE RepliesToCall(new, i)
  <2>1. i \in DOMAIN ms /\ new[i] = ms[i]
    BY <1>1, AppendShape
  <2>2. RepliesToCall(ms, i)
    BY <1>1, <2>1 DEF Paired
  <2>3. i - ms[i].k \in DOMAIN ms
    BY <2>1, <2>2, AppendShape DEF RepliesToCall, Message
  <2> QED BY <2>1, <2>2, <2>3, AppendShape DEF RepliesToCall
<1>2. ASSUME NEW i \in DOMAIN new, new[i].role = "assistant", NEW n \in 1..new[i].k
      PROVE  i + n \in DOMAIN new /\ new[i + n].role = "tool" /\ new[i + n].k = n
  <2>1. i \in DOMAIN ms /\ new[i] = ms[i]
    BY <1>2, AppendShape
  <2>2. i + n \in DOMAIN ms /\ ms[i + n].role = "tool" /\ ms[i + n].k = n
    BY <1>2, <2>1 DEF Paired
  <2> QED BY <2>2, AppendShape
<1> HIDE DEF new
<1>3. Paired(new)
  BY <1>1, <1>2 DEF Paired
<1> QED BY <1>3 DEF new

\* An assistant message with calls opens a batch without replies.
LEMMA AppendCalls ==
    ASSUME NEW ms \in Seq(Message), Paired(ms), NEW m \in Message,
           m.role = "assistant", m.k > 0
    PROVE  Pending(Append(ms, m), 0, m.k)
<1> DEFINE new == Append(ms, m)
<1>s. /\ Len(ms) \in Nat /\ DOMAIN ms = 1..Len(ms) /\ Len(new) = Len(ms) + 1
      /\ DOMAIN new = 1..(Len(ms) + 1) /\ new[Len(ms) + 1] = m
      /\ \A i \in 1..Len(ms) : new[i] = ms[i] /\ ms[i] \in Message
  BY AppendShape
<1> HIDE DEF new
<1>k. m.k \in Nat /\ \A i \in DOMAIN ms : ms[i].k \in Nat
  BY <1>s DEF Message
<1>1. ASSUME NEW i \in DOMAIN new, new[i].role = "tool" PROVE RepliesToCall(new, i)
  <2>1. i \in DOMAIN ms /\ new[i] = ms[i]
    BY <1>1, <1>s
  <2>2. RepliesToCall(ms, i)
    BY <1>1, <2>1 DEF Paired
  <2> QED BY <1>k, <1>s, <2>1, <2>2 DEF RepliesToCall
<1>2. ASSUME NEW i \in DOMAIN new, new[i].role = "assistant", NEW n \in 1..new[i].k,
             i + n \in DOMAIN new
      PROVE  new[i + n].role = "tool" /\ new[i + n].k = n
  <2>1. i \in DOMAIN ms /\ new[i] = ms[i]
    BY <1>2, <1>s, <1>k
  <2>2. i + n \in DOMAIN ms /\ ms[i + n].role = "tool" /\ ms[i + n].k = n
    BY <1>2, <2>1 DEF Paired
  <2> QED BY <1>s, <2>2
<1>3. ASSUME NEW i \in DOMAIN new, new[i].role = "assistant", i # Len(ms) + 1
      PROVE  i + new[i].k <= Len(new)
  <2>1. i \in DOMAIN ms /\ new[i] = ms[i]
    BY <1>3, <1>s
  <2>2. i + ms[i].k <= Len(ms)
    BY <1>3, <2>1, PairedIsShaped DEF Is
  <2> QED BY <1>s, <1>k, <2>1, <2>2
<1>4. Shaped(new)
  BY <1>1, <1>2 DEF Shaped, Is
<1>5. Len(new) - 0 = Len(ms) + 1
  BY <1>s
<1>6. Pending(new, 0, m.k)
  BY <1>3, <1>4, <1>5, <1>s, <1>k DEF Pending, Is
<1> QED BY <1>6 DEF new

\* The reply to the next open call: the last one makes the history paired.
LEMMA AppendReply ==
    ASSUME NEW ms \in Seq(Message), NEW n \in Nat, NEW k \in Nat, Pending(ms, n, k),
           NEW m \in Message, m.role = "tool", m.k = n + 1
    PROVE  IF n + 1 < k THEN Pending(Append(ms, m), n + 1, k) ELSE Paired(Append(ms, m))
<1> DEFINE new == Append(ms, m)
           at == Len(ms) - n
<1>s. /\ Len(ms) \in Nat /\ DOMAIN ms = 1..Len(ms) /\ Len(new) = Len(ms) + 1
      /\ new \in Seq(Message)
      /\ DOMAIN new = 1..(Len(ms) + 1) /\ new[Len(ms) + 1] = m
      /\ \A i \in 1..Len(ms) : new[i] = ms[i] /\ ms[i] \in Message
  BY AppendShape
<1> HIDE DEF new
<1>k. \A i \in DOMAIN ms : ms[i].k \in Nat
  BY <1>s DEF Message
<1>p. /\ Shaped(ms) /\ at \in DOMAIN ms /\ ms[at].role = "assistant" /\ ms[at].k = k /\ n < k
      /\ \A i \in DOMAIN ms : ms[i].role = "assistant" /\ i # at => i + ms[i].k <= Len(ms)
  BY DEF Pending, Is
<1>1. ASSUME NEW i \in DOMAIN new, new[i].role = "tool" PROVE RepliesToCall(new, i)
  <2>1. CASE i = Len(ms) + 1
    BY <1>s, <1>p, <2>1 DEF RepliesToCall
  <2>2. CASE i \in DOMAIN ms
    <3>1. RepliesToCall(ms, i)
      BY <1>1, <1>s, <1>p, <2>2 DEF Shaped, Is
    <3> QED BY <1>s, <1>k, <2>2, <3>1 DEF RepliesToCall
  <2> QED BY <1>s, <2>1, <2>2
<1>2. ASSUME NEW i \in DOMAIN new, new[i].role = "assistant", NEW j \in 1..new[i].k,
             i + j \in DOMAIN new
      PROVE  new[i + j].role = "tool" /\ new[i + j].k = j
  <2>1. i \in DOMAIN ms /\ new[i] = ms[i] /\ j \in Nat
    BY <1>2, <1>s, <1>k
  <2>2. CASE i + j \in DOMAIN ms
    BY <1>2, <1>s, <1>p, <2>1, <2>2 DEF Shaped, Is
  <2>3. CASE i + j = Len(ms) + 1
    <3>1. i = at
      BY <1>2, <1>s, <1>k, <1>p, <2>1, <2>3
    <3> QED BY SMTT(30), <1>s, <2>3, <3>1
  <2> QED BY <1>2, <1>s, <2>1, <2>2, <2>3
<1>3. Shaped(new)
  BY <1>1, <1>2 DEF Shaped, Is
<1>4. ASSUME NEW i \in DOMAIN new, new[i].role = "assistant", i # at
      PROVE  i + new[i].k <= Len(new)
  <2>1. i # Len(ms) + 1
    BY <1>4, <1>s
  <2>2. i \in DOMAIN ms /\ new[i] = ms[i]
    BY <1>s, <2>1
  <2>3. i + ms[i].k <= Len(ms)
    BY <1>4, <1>p, <2>2
  <2>4. i \in Nat /\ ms[i].k \in Nat
    BY <1>s, <1>k, <2>2
  <2> QED
    BY ONLY <1>s, <2>2, <2>3, <2>4
<1>5. at \in DOMAIN new /\ new[at] = ms[at] /\ Len(new) - (n + 1) = at
  BY <1>s, <1>p
<1>6. CASE n + 1 < k
  <2>1. Pending(new, n + 1, k)
    BY <1>3, <1>4, <1>5, <1>6, <1>p DEF Pending, Is
  <2> QED BY <1>6, <2>1 DEF new
<1>7. CASE ~(n + 1 < k)
  <2>1. \A i \in DOMAIN new : Is(new, i, "assistant") => i + new[i].k <= Len(new)
    BY <1>4, <1>5, <1>7, <1>p, <1>s DEF Is
  <2>2. Paired(new)
    BY <1>3, <1>s, <2>1, PairedIsShaped
  <2> QED BY <1>7, <2>2 DEF new
<1> QED BY <1>6, <1>7

\* Compression cuts at the start of a round, which no tool message is.
LEMMA CutPaired ==
    ASSUME NEW ms \in Seq(Message), Paired(ms), NEW cut \in RoundStarts(ms)
    PROVE  Paired(Compressed(ms, cut))
<1> DEFINE new == Compressed(ms, cut)
           len == Len(ms) - cut + 2
           from(i) == cut + i - 2
<1>s. Len(ms) \in Nat /\ DOMAIN ms = 1..Len(ms) /\ cut \in 1..Len(ms)
  BY LenProperties DEF RoundStarts
<1>k. \A i \in DOMAIN ms : ms[i].k \in Nat
  <2>1. \A i \in DOMAIN ms : ms[i] \in Message
    BY <1>s, ElementOfSeq
  <2> QED BY <2>1 DEF Message
<1>c. ms[cut].role # "tool"
  <2>1. CASE cut = 1
    <3>1. ~RepliesToCall(ms, 1)
      BY DEF RepliesToCall
    <3> QED BY <1>s, <2>1, <3>1 DEF Paired
  <2>2. CASE cut # 1
    BY <2>2 DEF RoundStarts, RoundStart
  <2> QED BY <2>1, <2>2
<1>1. /\ DOMAIN new = 1..len /\ new[1].role = "summary"
      /\ \A i \in 2..len : new[i] = ms[from(i)] /\ from(i) \in DOMAIN ms
  <2> DEFINE head == <<[role  |-> "summary", k |-> 0,
                        asked |-> QuestionsIn(SubSeq(ms, 1, cut - 1))]>>
             rest == SubSeq(ms, cut, Len(ms))
  <2>1. Len(rest) = len - 1 /\ \A i \in 1..(len - 1) : rest[i] = ms[cut + i - 1]
    BY <1>s, SubSeqProperties
  <2>2. new = head \o rest /\ Len(head) = 1 /\ head[1].role = "summary"
    BY DEF Compressed
  <2>3. DOMAIN (head \o rest) = 1..len /\ (head \o rest)[1] = head[1]
    BY <1>s, <2>1, <2>2
  <2>4. \A i \in 2..len : (head \o rest)[i] = rest[i - 1]
    BY <1>s, <2>1, <2>2
  <2> QED BY <1>s, <2>1, <2>2, <2>3, <2>4
<1> HIDE DEF new
<1>2. ASSUME NEW i \in DOMAIN new, new[i].role = "tool" PROVE RepliesToCall(new, i)
  <2> DEFINE k == new[i].k
             call == from(i) - k
  <2>1. i \in 2..len /\ from(i) \in DOMAIN ms /\ new[i] = ms[from(i)]
    BY <1>1, <1>2, <1>s
  <2>2. k \in 1..(from(i) - 1) /\ ms[call].role = "assistant" /\ k <= ms[call].k
    BY <1>2, <2>1 DEF Paired, RepliesToCall
  <2>3. call >= cut
    <3>1. SUFFICES ASSUME call < cut PROVE FALSE
      BY <1>s, <2>1, <2>2
    <3>2. call \in DOMAIN ms /\ ms[call].k \in Nat
      BY <1>k, <1>s, <2>1, <2>2
    <3>a. /\ i \in Int /\ i >= 2 /\ k \in Int /\ cut \in Int /\ call \in Int
          /\ call = cut + i - 2 - k
      BY <1>s, <2>1, <2>2
    <3> HIDE DEF k, call
    <3>b. cut - call \in Int /\ cut - call > 0 /\ cut - call <= k
      BY <3>1, <3>a
    <3>c. k <= ms[call].k /\ ms[call].k \in Nat
      BY <2>2, <3>2
    <3>d. \A x, y, z \in Int : x > 0 /\ x <= y /\ y <= z => x \in 1..z
      OBVIOUS
    <3>e. (cut - call) \in 1..ms[call].k
      BY <3>a, <3>b, <3>c, <3>d
    <3>f. call + (cut - call) = cut
      BY <3>a
    <3>g. ms[call + (cut - call)].role = "tool"
      BY <2>2, <3>2, <3>e DEF Paired
    <3> QED BY <1>c, <3>f, <3>g
  <2>4. i - k \in 2..len /\ from(i - k) = call
    BY SMTT(30), <1>s, <2>1, <2>2, <2>3
  <2>5. new[i - k] = ms[call]
    BY <1>1, <2>4
  <2> QED BY <2>1, <2>2, <2>4, <2>5 DEF RepliesToCall
<1>3. ASSUME NEW i \in DOMAIN new, new[i].role = "assistant", NEW n \in 1..new[i].k
      PROVE  i + n \in DOMAIN new /\ new[i + n].role = "tool" /\ new[i + n].k = n
  <2>1. i \in 2..len /\ from(i) \in DOMAIN ms /\ new[i] = ms[from(i)]
    BY <1>1, <1>3, <1>s
  <2>2. n \in Nat /\ from(i) + n \in DOMAIN ms
        /\ ms[from(i) + n].role = "tool" /\ ms[from(i) + n].k = n
    BY <1>3, <1>k, <2>1 DEF Paired
  <2>3. i + n \in 2..len /\ from(i + n) = from(i) + n
    BY <1>s, <2>1, <2>2
  <2>4. new[i + n] = ms[from(i) + n]
    BY <1>1, <2>3
  <2> QED BY <1>1, <1>s, <2>2, <2>3, <2>4
<1>4. Paired(new)
  BY <1>2, <1>3 DEF Paired
<1> QED BY <1>4 DEF new

-----------------------------------------------------------------------------
(* Who may touch which history.                                            *)

Runs(c) == Active(c) /\ Found(c)

InBatch(c) == pc[c] \in {"tool", "running", "result"}

\* A running chat knows the history it holds: what it read is still there, and
\* only its own open batch of tool calls lacks replies.
Own(c) ==
    /\ loaded[c] => header[c] = messages[sess[c]]
    /\ pc[c] = "calls" => reply[c].calls > 0
    /\ ~ToolPanicked(sess[c]) =>
         /\ IF InBatch(c)
            THEN Pending(messages[sess[c]], step[c], reply[c].calls)
            ELSE Paired(messages[sess[c]])
         /\ pc[c] = "compress" => Paired(plan[c])

Histories ==
    /\ \A c \in Chats : loaded[c] => pc[c] \in Appending
    /\ \A c \in Chats : Runs(c) => Own(c)
    /\ \A s \in Chats :
         ~ToolPanicked(s) /\ (\A c \in Chats : Runs(c) => sess[c] # s) => Paired(messages[s])

LEMMA Alone ==
    ASSUME TypeInv, Turns, NEW c \in Chats, NEW d \in Chats, Runs(c), Runs(d),
           sess[c] = sess[d]
    PROVE  c = d
<1>1. /\ key[c] \in Keys /\ key[d] \in Keys
      /\ sess[c] \in Chats /\ sess[d] \in Chats
  BY DEF TypeInv, Placed, Runs, Found
<1>2. sess[c] = table[key[c]] /\ sess[d] = table[key[d]]
  BY DEF Turns, Runs
<1>3. key[sess[c]] = key[c] /\ key[sess[d]] = key[d]
  BY <1>1, <1>2 DEF Turns
<1> QED BY <1>3 DEF Turns, Runs

\* A step of one running chat, on its own history.
MovesAlone(c) ==
    /\ sess' = sess
    /\ \A d \in Chats \ {c} : /\ pc'[d] = pc[d] /\ loaded'[d] = loaded[d]
                              /\ header'[d] = header[d] /\ reply'[d] = reply[d]
                              /\ step'[d] = step[d] /\ plan'[d] = plan[d]
    /\ \A s \in Chats \ {sess[c]} : messages'[s] = messages[s]

LEMMA StillPanicked ==
    ASSUME NEW c \in Chats, Runs(c), MovesAlone(c), NEW s, ToolPanicked(s)
    PROVE  ToolPanicked(s)'
  BY DEF Runs, Active, Ended, MovesAlone, ToolPanicked

\* If it keeps its own history in order, all histories stay in order.
LEMMA RunStep ==
    ASSUME TypeInv, Turns, Histories, NEW c \in Chats, Runs(c), MovesAlone(c),
           Found(c)', loaded'[c] => pc'[c] \in Appending, Own(c)'
    PROVE  Histories'
<1>1. \A d \in Chats : loaded'[d] => pc'[d] \in Appending
  BY DEF Histories, MovesAlone
<1>2. sess[c] \in Chats
  BY DEF TypeInv, Placed, Runs, Found
<1>3. ASSUME NEW d \in Chats, Runs(d)' PROVE Own(d)'
  <2>1. CASE d = c
    BY <2>1
  <2>2. CASE d # c
    <3>1. Runs(d) /\ sess[d] \in Chats
      BY <1>3, <2>2 DEF Runs, Active, Found, MovesAlone, TypeInv, Placed
    <3>2. sess[d] # sess[c]
      BY <2>2, <3>1, Alone
    <3>3. Own(d)
      BY <3>1 DEF Histories
    <3>4. /\ pc'[d] = pc[d] /\ loaded'[d] = loaded[d] /\ header'[d] = header[d]
          /\ reply'[d] = reply[d] /\ step'[d] = step[d] /\ plan'[d] = plan[d]
          /\ sess'[d] = sess[d] /\ messages'[sess[d]] = messages[sess[d]]
      BY <2>2, <3>1, <3>2 DEF MovesAlone
    <3>5. ~ToolPanicked(sess[d])' => ~ToolPanicked(sess[d])
      BY <3>4, StillPanicked DEF ToolPanicked
    <3>6. ~ToolPanicked(sess[d])' =>
             /\ IF InBatch(d)'
                THEN Pending(messages'[sess'[d]], step'[d], reply'[d].calls)
                ELSE Paired(messages'[sess'[d]])
             /\ pc'[d] = "compress" => Paired(plan'[d])
      BY <3>3, <3>4, <3>5 DEF Own, InBatch
    <3> QED BY <3>3, <3>4, <3>6 DEF Own, Paired, Pending
  <2> QED BY <2>1, <2>2
<1>4. ASSUME NEW s \in Chats, ~ToolPanicked(s)', \A d \in Chats : Runs(d)' => sess'[d] # s
      PROVE  Paired(messages'[s])
  <2>1. CASE s = sess[c]
    <3>1. ~Runs(c)' /\ sess'[c] = s
      BY <1>4, <2>1 DEF MovesAlone
    <3>2. ~InBatch(c)'
      BY <3>1 DEF Runs, Active, Found, InBatch, Ended
    <3> QED BY <1>4, <3>1, <3>2 DEF Own
  <2>2. CASE s # sess[c]
    <3>1. ~ToolPanicked(s)
      BY <1>4, StillPanicked
    <3>2. \A d \in Chats : Runs(d) => sess[d] # s
      BY <1>4, <2>2 DEF Runs, Active, Found, MovesAlone
    <3>3. Paired(messages[s])
      BY <3>1, <3>2 DEF Histories
    <3> QED BY <2>2, <3>3 DEF MovesAlone
  <2> QED BY <2>1, <2>2
<1>5. \A s \in Chats : ~ToolPanicked(s)' /\ (\A d \in Chats : Runs(d)' => sess'[d] # s)
                          => Paired(messages'[s])
  BY <1>4
<1> QED BY <1>1, <1>3, <1>5 DEF Histories, Paired

\* Steps that leave the history, and whether it has an open batch, alone.
LEMMA QuietOwn ==
    ASSUME TypeInv, Turns, Histories, NEW c \in Chats,
           \/ BeginRound(c) \/ Send(c) \/ StreamFails(c) \/ StartTool(c)
           \/ ToolReturns(c) \/ SendFinal(c) \/ EndFinal(c)
    PROVE  Histories'
<1>1. /\ UNCHANGED <<messages, sess, reply, step, loaded, header, plan>>
      /\ Runs(c) /\ pc[c] \notin Appending
      /\ \E x \in {"send", "stream", "running", "result", "sendfinal", "final", "done", "error"} :
            /\ pc' = [pc EXCEPT ![c] = x]
            /\ InBatch(c) <=> x \in {"tool", "running", "result"}
  <2> USE DEF sessionVars, whoVars, loopVars, appendVars, Runs, Active, Found, Ended, Steps,
              InBatch, Appending
  <2>1. CASE BeginRound(c)
    BY <2>1 DEF BeginRound
  <2>2. CASE Send(c)
    BY <2>2 DEF Send
  <2>3. CASE StreamFails(c)
    BY <2>3 DEF StreamFails
  <2>4. CASE StartTool(c)
    BY <2>4 DEF StartTool
  <2>5. CASE ToolReturns(c)
    BY <2>5 DEF ToolReturns
  <2>6. CASE SendFinal(c)
    BY <2>6 DEF SendFinal
  <2>7. CASE EndFinal(c)
    BY <2>7 DEF EndFinal
  <2> QED BY <2>1, <2>2, <2>3, <2>4, <2>5, <2>6, <2>7
<1>2. PICK x \in {"send", "stream", "running", "result", "sendfinal", "final", "done", "error"} :
            /\ pc' = [pc EXCEPT ![c] = x]
            /\ InBatch(c) <=> x \in {"tool", "running", "result"}
  BY <1>1
<1>3. pc'[c] = x /\ \A d \in Chats \ {c} : pc'[d] = pc[d]
  BY <1>2 DEF TypeInv, TypeOK
<1>4. MovesAlone(c)
  BY <1>1, <1>3 DEF MovesAlone
<1>5. x \notin {"idle", "create", "calls", "compress"}
  BY <1>2 DEF Appending
<1>6. ~loaded[c]
  BY <1>1 DEF Histories
<1>7. Own(c) /\ (InBatch(c)' <=> InBatch(c))
  BY <1>1, <1>2, <1>3 DEF Histories, InBatch
<1>8. ~ToolPanicked(sess[c])' => ~ToolPanicked(sess[c])
  BY <1>1, <1>4, StillPanicked DEF ToolPanicked
<1>9. ~ToolPanicked(sess[c])' =>
         IF InBatch(c)' THEN Pending(messages'[sess'[c]], step'[c], reply'[c].calls)
                        ELSE Paired(messages'[sess'[c]])
  BY <1>1, <1>7, <1>8 DEF Own
<1>10. Own(c)'
  BY <1>1, <1>3, <1>5, <1>6, <1>9 DEF Own, Paired, Pending
<1>11. Found(c)' /\ ~loaded'[c]
  BY <1>1, <1>3, <1>5, <1>6 DEF Found
<1> QED BY <1>1, <1>4, <1>10, <1>11, RunStep

LEMMA LoadOwn ==
    ASSUME TypeInv, Turns, Histories, NEW c \in Chats, LoadHistory(c)
    PROVE  Histories'
<1>1. /\ UNCHANGED <<messages, sess, pc, reply, step, plan>> /\ Runs(c) /\ pc[c] \in Appending
      /\ loaded' = [loaded EXCEPT ![c] = TRUE]
      /\ header' = [header EXCEPT ![c] = messages[sess[c]]]
  BY DEF LoadHistory, sessionVars, whoVars, loopVars, Runs, Active, Found, Ended, Appending
<1>2. MovesAlone(c)
  BY <1>1 DEF MovesAlone, TypeInv, TypeOK
<1>3. Own(c)
  BY <1>1 DEF Histories
<1>4. header'[c] = messages'[sess'[c]]
  BY <1>1 DEF TypeInv, TypeOK
<1>5. ~ToolPanicked(sess[c])' => ~ToolPanicked(sess[c])
  BY <1>1, <1>2, StillPanicked DEF ToolPanicked
<1>6. Own(c)'
  BY <1>1, <1>3, <1>4, <1>5 DEF Own, InBatch, Paired, Pending
<1> QED BY <1>1, <1>2, <1>6, RunStep DEF Runs, Found

\* Message m is stored and x comes next; m fits the history as it was.
Stores(c, m, x) ==
    /\ pc[c] \in Appending /\ Store(c, m)
    /\ pc' = [pc EXCEPT ![c] = x] /\ x \notin {"idle", "create", "calls", "compress"}
    /\ UNCHANGED <<sess, reply, plan>> /\ \A d \in Chats \ {c} : step'[d] = step[d]
    /\ ~ToolPanicked(sess[c]) =>
         IF x \in {"tool", "running", "result"}
         THEN Pending(Append(messages[sess[c]], m), step'[c], reply[c].calls)
         ELSE Paired(Append(messages[sess[c]], m))

\* A stored message: what the chat read is what the history still is.
LEMMA StoreOwn ==
    ASSUME TypeInv, Turns, Histories, NEW c \in Chats, NEW m, NEW x, Stores(c, m, x)
    PROVE  Histories'
<1>0. /\ pc[c] \in Appending /\ Store(c, m)
      /\ pc' = [pc EXCEPT ![c] = x] /\ x \notin {"idle", "create", "calls", "compress"}
      /\ UNCHANGED <<sess, reply, plan>> /\ \A d \in Chats \ {c} : step'[d] = step[d]
  BY DEF Stores
<1>1. Runs(c) /\ sess[c] \in Chats
  BY <1>0 DEF TypeInv, Placed, Runs, Active, Found, Ended, Appending
<1>2. Own(c)
  BY <1>1 DEF Histories
<1>3. /\ messages' = [messages EXCEPT ![sess[c]] = Append(messages[sess[c]], m)]
      /\ loaded' = [loaded EXCEPT ![c] = FALSE]
      /\ header' = [header EXCEPT ![c] = <<>>]
  BY <1>0, <1>2 DEF Store, Own
<1>4. MovesAlone(c)
  BY <1>0, <1>3 DEF MovesAlone, TypeInv, TypeOK
<1>5. /\ pc'[c] = x /\ loaded'[c] = FALSE
      /\ messages'[sess'[c]] = Append(messages[sess[c]], m)
  BY <1>0, <1>1, <1>3 DEF TypeInv, TypeOK
<1>6. ~ToolPanicked(sess[c])' => ~ToolPanicked(sess[c])
  BY <1>0, <1>1, <1>4, StillPanicked DEF ToolPanicked
<1>7. ~ToolPanicked(sess[c])' =>
         IF InBatch(c)' THEN Pending(messages'[sess'[c]], step'[c], reply'[c].calls)
                        ELSE Paired(messages'[sess'[c]])
  BY <1>0, <1>5, <1>6 DEF InBatch, Stores
<1>8. Own(c)'
  BY <1>0, <1>5, <1>7 DEF Own, Paired, Pending
<1> QED BY <1>0, <1>1, <1>4, <1>5, <1>8, RunStep DEF Found

LEMMA AddOwn ==
    ASSUME TypeInv, Turns, Histories, NEW c \in Chats,
           \/ AddQuestion(c) \/ AddAnswer(c) \/ AddEmptyAnswer(c) \/ AddNudge(c)
           \/ AddCalls(c) \/ AddResult(c)
    PROVE  Histories'
<1> DEFINE ms == messages[sess[c]]
<1>1. /\ pc[c] \in Appending /\ Runs(c) /\ sess[c] \in Chats /\ ms \in Seq(Message)
      /\ step[c] \in Nat /\ reply[c].calls \in Nat
  <2>1. pc[c] \in Appending
    BY DEF AddQuestion, AddAnswer, AddEmptyAnswer, AddNudge, AddCalls, AddResult, Appending
  <2>2. Runs(c) /\ sess[c] \in Chats
    BY <2>1 DEF TypeInv, Placed, Runs, Active, Found, Ended, Appending
  <2> QED BY <2>1, <2>2 DEF TypeInv, TypeOK, Replies
<1>2. Own(c)
  BY <1>1 DEF Histories
<1> HIDE DEF ms
<1>3. ASSUME ~InBatch(c), ~ToolPanicked(sess[c]), NEW m \in Message, m.role # "tool", m.k = 0
      PROVE  Paired(Append(ms, m))
  BY <1>1, <1>2, <1>3, AppendPlain DEF Own, ms
<1>4. CASE AddQuestion(c)
  <2> DEFINE m == [role |-> "user", k |-> 0, asked |-> {c}]
  <2>1. m \in Message /\ m.role # "tool" /\ m.k = 0
    BY DEF Message, Roles
  <2>2. /\ Store(c, m) /\ pc' = [pc EXCEPT ![c] = "round"] /\ ~InBatch(c)
        /\ UNCHANGED <<sess, reply, plan, step>>
    BY <1>4 DEF AddQuestion, InBatch, whoVars, loopVars
  <2> HIDE DEF m
  <2>3. ~ToolPanicked(sess[c]) => Paired(Append(ms, m))
    BY <1>3, <2>1, <2>2
  <2>4. Stores(c, m, "round")
    BY <1>1, <2>2, <2>3 DEF Stores, ms
  <2> QED BY <2>4, StoreOwn
<1>5. CASE AddAnswer(c)
  <2> DEFINE m == Plain("assistant")
  <2>1. m \in Message /\ m.role # "tool" /\ m.k = 0
    BY DEF Message, Roles, Plain
  <2>2. /\ Store(c, m) /\ pc' = [pc EXCEPT ![c] = "done"] /\ ~InBatch(c)
        /\ UNCHANGED <<sess, reply, plan, step>>
    BY <1>5 DEF AddAnswer, InBatch, whoVars, loopVars
  <2> HIDE DEF m
  <2>3. ~ToolPanicked(sess[c]) => Paired(Append(ms, m))
    BY <1>3, <2>1, <2>2
  <2>4. Stores(c, m, "done")
    BY <1>1, <2>2, <2>3 DEF Stores, ms
  <2> QED BY <2>4, StoreOwn
<1>6. CASE AddEmptyAnswer(c)
  <2> DEFINE m == Plain("assistant")
  <2>1. m \in Message /\ m.role # "tool" /\ m.k = 0
    BY DEF Message, Roles, Plain
  <2>2. /\ Store(c, m) /\ pc' = [pc EXCEPT ![c] = "nudge"] /\ ~InBatch(c)
        /\ UNCHANGED <<sess, reply, plan, step>>
    BY <1>6 DEF AddEmptyAnswer, InBatch, whoVars, loopVars
  <2> HIDE DEF m
  <2>3. ~ToolPanicked(sess[c]) => Paired(Append(ms, m))
    BY <1>3, <2>1, <2>2
  <2>4. Stores(c, m, "nudge")
    BY <1>1, <2>2, <2>3 DEF Stores, ms
  <2> QED BY <2>4, StoreOwn
<1>7. CASE AddNudge(c)
  <2> DEFINE m == Plain("nudge")
  <2>1. m \in Message /\ m.role # "tool" /\ m.k = 0
    BY DEF Message, Roles, Plain
  <2>2. /\ Store(c, m) /\ pc' = [pc EXCEPT ![c] = "round"] /\ ~InBatch(c)
        /\ UNCHANGED <<sess, reply, plan, step>>
    BY <1>7 DEF AddNudge, InBatch, whoVars
  <2> HIDE DEF m
  <2>3. ~ToolPanicked(sess[c]) => Paired(Append(ms, m))
    BY <1>3, <2>1, <2>2
  <2>4. Stores(c, m, "round")
    BY <1>1, <2>2, <2>3 DEF Stores, ms
  <2> QED BY <2>4, StoreOwn
<1>8. CASE AddCalls(c)
  <2> DEFINE m == [role |-> "assistant", k |-> reply[c].calls, asked |-> {}]
  <2>1. m \in Message /\ m.role = "assistant" /\ m.k = reply[c].calls
    BY <1>1 DEF Message, Roles
  <2>2. /\ Store(c, m) /\ pc' = [pc EXCEPT ![c] = "tool"] /\ pc[c] = "calls" /\ ~InBatch(c)
        /\ UNCHANGED <<sess, reply, plan>> /\ step' = [step EXCEPT ![c] = 0]
    BY <1>8 DEF AddCalls, InBatch, whoVars
  <2> HIDE DEF m
  <2>3. step'[c] = 0 /\ \A d \in Chats \ {c} : step'[d] = step[d]
    BY <2>2 DEF TypeInv, TypeOK
  <2>4. ~ToolPanicked(sess[c]) => Pending(Append(ms, m), step'[c], reply[c].calls)
    <3>1. reply[c].calls > 0 /\ (~ToolPanicked(sess[c]) => Paired(ms))
      BY <1>2, <2>2 DEF Own, ms
    <3>2. Paired(ms) => Pending(Append(ms, m), 0, m.k)
      BY <1>1, <2>1, <3>1, AppendCalls
    <3> QED BY <2>1, <2>3, <3>1, <3>2
  <2>5. Stores(c, m, "tool")
    BY <1>1, <2>2, <2>3, <2>4 DEF Stores, ms
  <2> QED BY <2>5, StoreOwn
<1>9. CASE AddResult(c)
  <2> DEFINE m == [role |-> "tool", k |-> step[c] + 1, asked |-> {}]
             last == step[c] + 1 >= reply[c].calls
  <2>1. m \in Message /\ m.role = "tool" /\ m.k = step[c] + 1
    BY <1>1 DEF Message, Roles
  <2>2. /\ Store(c, m) /\ pc[c] = "result" /\ InBatch(c)
        /\ pc' = [pc EXCEPT ![c] = IF last THEN "round" ELSE "tool"]
        /\ UNCHANGED <<sess, reply, plan>> /\ step' = [step EXCEPT ![c] = @ + 1]
    BY <1>1, <1>9 DEF AddResult, InBatch, whoVars
  <2> HIDE DEF m
  <2>3. step'[c] = step[c] + 1 /\ \A d \in Chats \ {c} : step'[d] = step[d]
    BY <2>2 DEF TypeInv, TypeOK
  <2>4. ~ToolPanicked(sess[c]) =>
            IF last THEN Paired(Append(ms, m))
                    ELSE Pending(Append(ms, m), step'[c], reply[c].calls)
    <3>1. ~ToolPanicked(sess[c]) => Pending(ms, step[c], reply[c].calls)
      BY <1>2, <2>2 DEF Own, ms
    <3>2. Pending(ms, step[c], reply[c].calls) =>
            IF step[c] + 1 < reply[c].calls
            THEN Pending(Append(ms, m), step[c] + 1, reply[c].calls) ELSE Paired(Append(ms, m))
      BY <1>1, <2>1, AppendReply
    <3>3. last <=> ~(step[c] + 1 < reply[c].calls)
      BY <1>1
    <3> QED BY <2>3, <3>1, <3>2, <3>3
  <2> HIDE DEF last
  <2>5. Stores(c, m, IF last THEN "round" ELSE "tool")
    BY <1>1, <2>2, <2>3, <2>4 DEF Stores, ms
  <2> QED BY <2>5, StoreOwn
<1> QED BY <1>4, <1>5, <1>6, <1>7, <1>8, <1>9

LEMMA AnswerOwn ==
    ASSUME TypeInv, Turns, Histories, NEW c \in Chats, StreamAnswers(c)
    PROVE  Histories'
<1>1. /\ pc[c] = "stream" /\ Runs(c) /\ ~InBatch(c) /\ ~loaded[c]
      /\ UNCHANGED <<messages, sess, step, loaded, header, plan>>
  BY DEF StreamAnswers, Histories, Appending, Runs, Active, Found, Ended, InBatch,
         appendVars, whoVars
<1>2. PICK r \in Replies, x \in {"empty", "answer", "calls"} :
         /\ reply' = [reply EXCEPT ![c] = r]
         /\ pc' = [pc EXCEPT ![c] = x] /\ (x = "calls" => r.calls > 0)
  BY DEF StreamAnswers
<1>3. /\ pc'[c] = x /\ reply'[c] = r
      /\ \A d \in Chats \ {c} : pc'[d] = pc[d] /\ reply'[d] = reply[d]
  BY <1>2 DEF TypeInv, TypeOK
<1>4. MovesAlone(c)
  BY <1>1, <1>3 DEF MovesAlone
<1>5. Own(c)
  BY <1>1 DEF Histories
<1>6. ~ToolPanicked(sess[c])' => ~ToolPanicked(sess[c])
  BY <1>1, <1>4, StillPanicked DEF ToolPanicked
<1>7. ~ToolPanicked(sess[c])' => Paired(messages'[sess'[c]])
  BY <1>1, <1>5, <1>6 DEF Own
<1>8. Own(c)'
  BY <1>1, <1>2, <1>3, <1>7 DEF Own, InBatch, Paired, Pending
<1>9. Found(c)' /\ ~loaded'[c]
  BY <1>1, <1>3 DEF Found
<1> QED BY <1>1, <1>4, <1>8, <1>9, RunStep

LEMMA PanicOwn ==
    ASSUME TypeInv, Turns, Histories, NEW c \in Chats, ToolPanics(c)
    PROVE  Histories'
<1>1. /\ pc[c] = "running" /\ Runs(c) /\ ~loaded[c]
      /\ UNCHANGED <<messages, sess, reply, step, loaded, header, plan>>
      /\ pc' = [pc EXCEPT ![c] = "panicked"]
  BY DEF ToolPanics, Histories, Appending, Runs, Active, Found, Ended,
         sessionVars, loopVars, appendVars, whoVars
<1>2. pc'[c] = "panicked" /\ \A d \in Chats \ {c} : pc'[d] = pc[d]
  BY <1>1 DEF TypeInv, TypeOK
<1>3. MovesAlone(c)
  BY <1>1, <1>2 DEF MovesAlone
<1>4. ToolPanicked(sess[c])'
  BY <1>1, <1>2 DEF ToolPanicked
<1>5. Own(c)' /\ Found(c)' /\ ~loaded'[c]
  BY <1>1, <1>2, <1>4 DEF Own, Found, ToolPanicked
<1> QED BY <1>1, <1>3, <1>5, RunStep

LEMMA BeginCompressOwn ==
    ASSUME TypeInv, Turns, Histories, NEW c \in Chats, BeginCompress(c)
    PROVE  Histories'
<1>1. /\ pc[c] = "round" /\ Runs(c) /\ ~InBatch(c) /\ ~loaded[c]
      /\ UNCHANGED <<messages, sess, reply, step, loaded, header>>
      /\ pc' = [pc EXCEPT ![c] = "compress"]
  BY DEF BeginCompress, Histories, Appending, Runs, Active, Found, Ended, InBatch,
         sessionVars, loopVars, appendVars, whoVars
<1>2. PICK cut \in RoundStarts(messages[sess[c]]) :
         plan' = [plan EXCEPT ![c] = Compressed(messages[sess[c]], cut)]
  BY DEF BeginCompress, Cuts
<1>3. /\ pc'[c] = "compress" /\ plan'[c] = Compressed(messages[sess[c]], cut)
      /\ \A d \in Chats \ {c} : pc'[d] = pc[d] /\ plan'[d] = plan[d]
  BY <1>1, <1>2 DEF TypeInv, TypeOK
<1>4. MovesAlone(c)
  BY <1>1, <1>3 DEF MovesAlone
<1>5. Own(c)
  BY <1>1 DEF Histories
<1>6. ~ToolPanicked(sess[c])' => ~ToolPanicked(sess[c])
  BY <1>1, <1>4, StillPanicked DEF ToolPanicked
<1>7. ~ToolPanicked(sess[c])' => Paired(messages'[sess'[c]])
  BY <1>1, <1>5, <1>6 DEF Own
<1>8. ~ToolPanicked(sess[c])' => Paired(plan'[c])
  <2>1. messages[sess[c]] \in Seq(Message)
    BY <1>1 DEF TypeInv, TypeOK, Placed, Runs, Found
  <2> QED BY <1>1, <1>3, <1>7, <2>1, CutPaired
<1>9. Own(c)'
  BY <1>1, <1>3, <1>7, <1>8 DEF Own, InBatch, Paired, Pending
<1>10. Found(c)' /\ ~loaded'[c]
  BY <1>1, <1>3 DEF Found
<1> QED BY <1>1, <1>4, <1>9, <1>10, RunStep

LEMMA FinishCompressOwn ==
    ASSUME TypeInv, Turns, Histories, NEW c \in Chats, FinishCompress(c)
    PROVE  Histories'
<1>1. /\ pc[c] = "compress" /\ Runs(c) /\ ~loaded[c] /\ sess[c] \in Chats
      /\ UNCHANGED <<sess, reply, step, loaded, header>>
      /\ pc' = [pc EXCEPT ![c] = "send"]
      /\ messages' = [messages EXCEPT ![sess[c]] = plan[c]]
      /\ plan' = [plan EXCEPT ![c] = <<>>]
  BY DEF FinishCompress, Histories, Appending, Runs, Active, Found, Ended, TypeInv, Placed,
         loopVars, appendVars, whoVars
<1>3. /\ pc'[c] = "send" /\ messages'[sess'[c]] = plan[c]
      /\ \A d \in Chats \ {c} : pc'[d] = pc[d] /\ plan'[d] = plan[d]
  BY <1>1 DEF TypeInv, TypeOK
<1>4. MovesAlone(c)
  BY <1>1, <1>3 DEF MovesAlone, TypeInv, TypeOK
<1>5. Own(c)
  BY <1>1 DEF Histories
<1>6. ~ToolPanicked(sess[c])' => ~ToolPanicked(sess[c])
  BY <1>1, <1>4, StillPanicked DEF ToolPanicked
<1>7. ~ToolPanicked(sess[c])' => Paired(messages'[sess'[c]])
  BY <1>1, <1>3, <1>5, <1>6 DEF Own
<1>8. Own(c)'
  BY <1>1, <1>3, <1>7 DEF Own, InBatch, Paired, Pending
<1>9. Found(c)' /\ ~loaded'[c]
  BY <1>1, <1>3 DEF Found
<1> QED BY <1>1, <1>4, <1>8, <1>9, RunStep

\* A chat that only now found session s, which nobody runs on.
LEMMA JoinOwn ==
    ASSUME TypeInv, Histories, NEW c \in Chats, pc[c] \in {"idle", "create"}, NEW s \in Chats,
           NEW x \in {"create", "ask"}, pc' = [pc EXCEPT ![c] = x],
           x = "ask" => sess' = [sess EXCEPT ![c] = s],
           \A d \in Chats \ {c} : sess'[d] = sess[d],
           UNCHANGED <<messages, reply, step, loaded, header, plan>>,
           x = "ask" => \A d \in Chats : Runs(d) => sess[d] # s
    PROVE  Histories'
<1>1. /\ pc'[c] = x /\ \A d \in Chats \ {c} : pc'[d] = pc[d]
      /\ x = "ask" => sess'[c] = s
  BY DEF TypeInv, TypeOK
<1>2. ~loaded[c] /\ ~Runs(c)
  BY DEF Histories, Appending, Runs, Active, Found
<1>3. ASSUME NEW d \in Chats, d # c
      PROVE  (Runs(d)' <=> Runs(d)) /\ (InBatch(d)' <=> InBatch(d))
  BY <1>1, <1>3 DEF Runs, Active, Found, InBatch
<1>4. ASSUME NEW t \in Chats PROVE ToolPanicked(t)' <=> ToolPanicked(t)
  BY <1>1 DEF ToolPanicked
<1>5. ASSUME NEW d \in Chats, d # c, Runs(d)' PROVE Own(d)'
  <2>1. Own(d) /\ Runs(d) /\ sess[d] \in Chats
    BY <1>3, <1>5 DEF Histories, Runs, Found, TypeInv, Placed
  <2>2. (~ToolPanicked(sess[d])') => ~ToolPanicked(sess[d])
    BY <1>4, <1>5, <2>1 DEF ToolPanicked
  <2>3. sess'[d] = sess[d] /\ pc'[d] = pc[d]
    BY <1>1, <1>5
  <2>4. ~ToolPanicked(sess[d])' =>
           /\ IF InBatch(d)' THEN Pending(messages'[sess'[d]], step'[d], reply'[d].calls)
                             ELSE Paired(messages'[sess'[d]])
           /\ pc'[d] = "compress" => Paired(plan'[d])
    BY <1>3, <1>5, <2>1, <2>2, <2>3 DEF Own
  <2> QED BY <2>1, <2>3, <2>4 DEF Own, Paired, Pending
<1>6. ASSUME Runs(c)' PROVE Own(c)'
  <2>1. x = "ask" /\ sess'[c] = s
    BY <1>1, <1>6 DEF Runs, Found
  <2>2. ~ToolPanicked(s) => Paired(messages[s])
    BY <2>1 DEF Histories
  <2>3. ~ToolPanicked(sess[c])' => Paired(messages'[sess'[c]])
    BY <1>4, <2>1, <2>2 DEF ToolPanicked
  <2> QED BY <1>1, <1>2, <2>1, <2>3 DEF Own, InBatch, Paired, Pending
<1>7. ASSUME NEW t \in Chats, ~ToolPanicked(t)', \A d \in Chats : Runs(d)' => sess'[d] # t
      PROVE  Paired(messages'[t])
  <2>1. ~ToolPanicked(t)
    BY <1>4, <1>7
  <2>2. \A d \in Chats : Runs(d) => sess[d] # t
    BY <1>2, <1>3, <1>7
  <2> QED BY <2>1, <2>2 DEF Histories
<1>8. \A d \in Chats : loaded'[d] => pc'[d] \in Appending
  BY <1>1, <1>2 DEF Histories
<1>9. \A t \in Chats : ~ToolPanicked(t)' /\ (\A d \in Chats : Runs(d)' => sess'[d] # t)
                          => Paired(messages'[t])
  BY <1>7
<1>10. \A d \in Chats : Runs(d)' => Own(d)'
  BY <1>5, <1>6
<1> QED BY <1>8, <1>9, <1>10 DEF Histories, Paired

LEMMA ArriveOwn ==
    ASSUME OneAtATime, TypeInv, Turns, Histories, NEW c \in Chats, Arrive(c)
    PROVE  Histories'
<1>1. PICK k \in Keys : /\ ~Busy(k)
                        /\ sess' = [sess EXCEPT ![c] = table[k]]
                        /\ pc' = [pc EXCEPT ![c] =
                                    IF table[k] = NoSession THEN "create" ELSE "ask"]
  BY DEF Arrive, OneAtATime, Lookup
<1>2. pc[c] = "idle" /\ UNCHANGED <<messages, reply, step, loaded, header, plan>>
  BY DEF Arrive, sessionVars, loopVars, appendVars
<1>3. \A d \in Chats \ {c} : sess'[d] = sess[d]
  BY <1>1 DEF TypeInv, TypeOK
<1>4. CASE table[k] = NoSession
  BY <1>1, <1>2, <1>3, <1>4, JoinOwn
<1>5. CASE table[k] # NoSession
  <2>1. table[k] \in Chats
    BY <1>5 DEF TypeInv, TypeOK
  <2>2. ASSUME NEW d \in Chats, Runs(d), sess[d] = table[k] PROVE FALSE
    <3>1. key[d] \in Keys /\ table[key[d]] = table[k]
      BY <2>2 DEF Turns, Runs, Found, TypeInv, Placed
    <3>2. key[d] = k
      BY <1>5, <3>1 DEF Turns
    <3> QED BY <1>1, <2>2, <3>2 DEF Busy, Runs, Active
  <2> QED BY <1>1, <1>2, <1>3, <1>5, <2>1, <2>2, JoinOwn
<1> QED BY <1>4, <1>5

LEMMA CreateOwn ==
    ASSUME TypeInv, Turns, Histories, NEW c \in Chats, CreateSession(c)
    PROVE  Histories'
<1>1. /\ pc[c] = "create" /\ pc' = [pc EXCEPT ![c] = "ask"] /\ sess' = [sess EXCEPT ![c] = c]
      /\ UNCHANGED <<messages, reply, step, loaded, header, plan>>
  BY DEF CreateSession, loopVars, appendVars
<1>2. ASSUME NEW d \in Chats, Runs(d), sess[d] = c PROVE FALSE
  <2>1. key[d] \in Keys /\ table[key[d]] = c
    BY <1>2 DEF Turns, Runs, Found, TypeInv, Placed
  <2> QED BY <1>1, <2>1 DEF Turns, Found
<1>3. \A d \in Chats \ {c} : sess'[d] = sess[d]
  BY <1>1 DEF TypeInv, TypeOK
<1> QED BY <1>1, <1>2, <1>3, JoinOwn

LEMMA ClearOwn ==
    ASSUME OneAtATime, TypeInv, Turns, Histories, NEW k \in Keys, ClearSession(k)
    PROVE  Histories'
<1> DEFINE s == table[k]
<1>1. /\ s \in Chats /\ ~Busy(k)
      /\ messages' = [messages EXCEPT ![s] = <<>>]
      /\ UNCHANGED <<pc, sess, reply, step, loaded, header, plan>>
  BY DEF ClearSession, OneAtATime, TypeInv, TypeOK, whoVars, loopVars, appendVars
<1>2. ASSUME NEW d \in Chats, Runs(d) PROVE sess[d] # s /\ sess[d] \in Chats
  <2>1. /\ key[d] \in Keys /\ sess[d] \in Chats /\ sess[d] = table[key[d]]
        /\ Active(d)
    BY <1>2 DEF Turns, Runs, Found, TypeInv, Placed
  <2>2. key[d] # k
    BY <1>1, <2>1 DEF Busy, Active
  <2> QED BY <1>1, <2>1, <2>2 DEF Turns
<1>3. messages'[s] = <<>> /\ \A t \in Chats \ {s} : messages'[t] = messages[t]
  BY <1>1 DEF TypeInv, TypeOK
<1>4. Paired(messages'[s])
  BY <1>3 DEF Paired
<1>5. ASSUME NEW d \in Chats, Runs(d)' PROVE Own(d)'
  <2>1. Runs(d) /\ Own(d)
    BY <1>1, <1>5 DEF Runs, Active, Found, Histories
  <2>2. messages'[sess[d]] = messages[sess[d]]
    BY <1>2, <1>3, <2>1
  <2>3. ~ToolPanicked(sess[d])' => ~ToolPanicked(sess[d])
    BY <1>1 DEF ToolPanicked
  <2>4. InBatch(d)' <=> InBatch(d)
    BY <1>1 DEF InBatch
  <2>5. ~ToolPanicked(sess[d])' =>
           /\ IF InBatch(d)' THEN Pending(messages'[sess'[d]], step'[d], reply'[d].calls)
                             ELSE Paired(messages'[sess'[d]])
           /\ pc'[d] = "compress" => Paired(plan'[d])
    BY <1>1, <2>1, <2>2, <2>3, <2>4 DEF Own
  <2> QED BY <1>1, <2>1, <2>2, <2>5 DEF Own, Paired, Pending
<1>6. ASSUME NEW t \in Chats, ~ToolPanicked(t)', \A d \in Chats : Runs(d)' => sess'[d] # t
      PROVE  Paired(messages'[t])
  <2>1. CASE t = s
    BY <1>4, <2>1
  <2>2. CASE t # s
    <3>1. ~ToolPanicked(t) /\ \A d \in Chats : Runs(d) => sess[d] # t
      BY <1>1, <1>6 DEF ToolPanicked, Runs, Active, Found
    <3> QED BY <1>3, <2>2, <3>1 DEF Histories
  <2> QED BY <2>1, <2>2
<1>7. \A t \in Chats : ~ToolPanicked(t)' /\ (\A d \in Chats : Runs(d)' => sess'[d] # t)
                          => Paired(messages'[t])
  BY <1>6
<1>8. \A d \in Chats : loaded'[d] => pc'[d] \in Appending
  BY <1>1 DEF Histories
<1> QED BY <1>5, <1>7, <1>8 DEF Histories, Paired

LEMMA HistoriesStep ==
    OneAtATime /\ TypeInv /\ Turns /\ Histories /\ [Next]_vars => Histories'
<1> SUFFICES ASSUME OneAtATime, TypeInv, Turns, Histories, [Next]_vars PROVE Histories'
  OBVIOUS
<1>1. CASE UNCHANGED vars
  BY <1>1 DEF vars, Histories, Own, Runs, Active, Found, InBatch, ToolPanicked, Paired, Pending
<1>2. ASSUME NEW c \in Chats, Run(c) PROVE Histories'
  BY <1>2, CreateOwn, LoadOwn, AddOwn, BeginCompressOwn, FinishCompressOwn, QuietOwn,
     AnswerOwn, PanicOwn DEF Run
<1> QED BY <1>1, <1>2, ArriveOwn, ClearOwn DEF Next

LEMMA HistoriesInvariant ==
    ASSUME OneAtATime
    PROVE  Spec => []Histories
<1>1. Init => Histories
  BY DEF Init, Histories, Runs, Active, Found, Paired
<1> QED BY <1>1, HistoriesStep, TurnsInvariant, TypeInvariant, PTL DEF Spec

\* When clients take turns on a session and no tool panicked in it, every
\* history sent to the model pairs each tool call with its result (engine.go,
\* runToolLoop; context_compressor.go, Compress), for any number of rounds,
\* calls, chats and compressions.
THEOREM PairedRequests == Spec => []RequestsPaired
<1>1. TypeInv /\ Histories => RequestsPaired
  <2> SUFFICES ASSUME TypeInv, Histories, NEW c \in Chats, pc[c] \in {"send", "sendfinal"},
                      ~ToolPanicked(sess[c])
               PROVE  Paired(messages[sess[c]])
    BY DEF RequestsPaired
  <2>1. Runs(c) /\ ~InBatch(c)
    BY DEF Runs, Active, Found, Ended, InBatch
  <2> QED BY <2>1 DEF Histories, Own
<1>2. ~OneAtATime => RequestsPaired
  BY DEF RequestsPaired
<1>3. CASE OneAtATime
  BY <1>1, <1>3, HistoriesInvariant, TypeInvariant, PTL
<1>4. CASE ~OneAtATime
  BY <1>2, <1>4, PTL
<1> QED BY <1>3, <1>4

-----------------------------------------------------------------------------
(* Nudges and unseen results.                                              *)

\* An assistant message follows the last question.
Answered(ms) ==
    \E i \in DOMAIN ms : ms[i].role = "assistant" /\ \A n \in i..Len(ms) : ms[n].role # "user"

CallsIn(ms, i, j) == \E n \in i..j : ms[n].role = "assistant" /\ ms[n].k > 0

\* Calls were made since the last nudge.
Fresh(ms) == \A i \in DOMAIN ms : ms[i].role = "nudge" => CallsIn(ms, i, Len(ms))

Separated(ms) ==
    \A i, j \in DOMAIN ms :
        i < j /\ ms[i].role = "nudge" /\ ms[j].role = "nudge" => CallsIn(ms, i, j)

\* One more message.
LEMMA AppendTells ==
    ASSUME NEW ms \in Seq(Message), NEW m \in Message
    PROVE  LET new == Append(ms, m) IN
           /\ m.role = "assistant" \/ (Answered(ms) /\ m.role # "user") => Answered(new)
           /\ (m.role = "assistant" /\ m.k > 0) \/ (Fresh(ms) /\ m.role # "nudge") => Fresh(new)
           /\ Separated(ms) /\ (m.role # "nudge" \/ Fresh(ms)) => Separated(new)
<1> DEFINE new == Append(ms, m)
<1>s. /\ Len(ms) \in Nat /\ DOMAIN ms = 1..Len(ms) /\ Len(new) = Len(ms) + 1
      /\ DOMAIN new = 1..(Len(ms) + 1) /\ new[Len(ms) + 1] = m
      /\ \A i \in 1..Len(ms) : new[i] = ms[i]
  BY AppendShape
<1> HIDE DEF new
<1>c. ASSUME NEW i \in DOMAIN ms, NEW j \in DOMAIN ms, CallsIn(ms, i, j) PROVE CallsIn(new, i, j)
  <2>1. PICK n \in i..j : ms[n].role = "assistant" /\ ms[n].k > 0
    BY <1>c DEF CallsIn
  <2>2. new[n] = ms[n]
    BY <1>s, <2>1
  <2> QED BY <2>1, <2>2 DEF CallsIn
<1>1. ASSUME m.role = "assistant" PROVE Answered(new)
  <2>1. Len(new) \in DOMAIN new /\ \A n \in Len(new)..Len(new) : new[n] = m
    BY <1>s
  <2> QED BY <1>1, <1>s, <2>1 DEF Answered
<1>2. ASSUME Answered(ms), m.role # "user" PROVE Answered(new)
  <2>1. PICK i \in DOMAIN ms : ms[i].role = "assistant" /\ \A n \in i..Len(ms) : ms[n].role # "user"
    BY <1>2 DEF Answered
  <2>2. i \in DOMAIN new /\ new[i].role = "assistant"
    BY <1>s, <2>1
  <2>3. \A n \in i..Len(new) : new[n].role # "user"
    BY <1>2, <1>s, <2>1
  <2> QED BY <2>2, <2>3 DEF Answered
<1>3. ASSUME m.role = "assistant", m.k > 0 PROVE Fresh(new)
  <2>1. \A i \in DOMAIN new : Len(new) \in i..Len(new) /\ new[Len(new)] = m
    BY <1>s
  <2> QED BY <1>3, <2>1 DEF Fresh, CallsIn
<1>4. ASSUME Fresh(ms), m.role # "nudge" PROVE Fresh(new)
  <2>1. ASSUME NEW i \in DOMAIN new, new[i].role = "nudge" PROVE CallsIn(new, i, Len(new))
    <3>1. i \in DOMAIN ms /\ ms[i].role = "nudge"
      BY <1>4, <1>s, <2>1
    <3>2. PICK n \in i..Len(ms) : ms[n].role = "assistant" /\ ms[n].k > 0
      BY <1>4, <3>1 DEF Fresh, CallsIn
    <3>3. n \in i..Len(new) /\ new[n] = ms[n]
      BY <1>s, <3>1, <3>2
    <3> QED BY <3>2, <3>3 DEF CallsIn
  <2> QED BY <2>1 DEF Fresh
<1>5. ASSUME Separated(ms), m.role # "nudge" \/ Fresh(ms) PROVE Separated(new)
  <2>1. ASSUME NEW i \in DOMAIN new, NEW j \in DOMAIN new, i < j,
               new[i].role = "nudge", new[j].role = "nudge"
        PROVE  CallsIn(new, i, j)
    <3>1. i \in DOMAIN ms /\ ms[i].role = "nudge"
      BY <1>s, <2>1
    <3>2. CASE j \in DOMAIN ms
      <4>1. ms[j].role = "nudge"
        BY <1>s, <2>1, <3>2
      <4> QED BY <1>5, <1>c, <2>1, <3>1, <3>2, <4>1 DEF Separated
    <3>3. CASE j = Len(ms) + 1
      <4>1. Fresh(ms)
        BY <1>5, <1>s, <2>1, <3>3
      <4>2. PICK n \in i..Len(ms) : ms[n].role = "assistant" /\ ms[n].k > 0
        BY <3>1, <4>1 DEF Fresh, CallsIn
      <4>3. n \in i..j /\ new[n] = ms[n]
        BY <1>s, <3>1, <3>3, <4>2
      <4> QED BY <4>2, <4>3 DEF CallsIn
    <3> QED BY <1>s, <3>2, <3>3
  <2> QED BY <2>1 DEF Separated
<1>6. /\ m.role = "assistant" \/ (Answered(ms) /\ m.role # "user") => Answered(new)
      /\ (m.role = "assistant" /\ m.k > 0) \/ (Fresh(ms) /\ m.role # "nudge") => Fresh(new)
      /\ Separated(ms) /\ (m.role # "nudge" \/ Fresh(ms)) => Separated(new)
  BY <1>1, <1>2, <1>3, <1>4, <1>5
<1> QED BY <1>6 DEF new

\* A compressed history is a summary and what followed the cut.
LEMMA CompressedShape ==
    ASSUME NEW ms \in Seq(Message), NEW cut \in DOMAIN ms
    PROVE  LET new == Compressed(ms, cut) IN
           /\ Len(ms) \in Nat /\ DOMAIN ms = 1..Len(ms)
           /\ Len(new) = Len(ms) - cut + 2 /\ DOMAIN new = 1..Len(new)
           /\ new[1].role = "summary"
           /\ \A i \in 2..Len(new) : new[i] = ms[cut + i - 2] /\ cut + i - 2 \in DOMAIN ms
           /\ Tail(new) = SubSeq(ms, cut, Len(ms))
<1> DEFINE head == [role  |-> "summary", k |-> 0, asked |-> QuestionsIn(SubSeq(ms, 1, cut - 1))]
           rest == SubSeq(ms, cut, Len(ms))
<1>1. Len(ms) \in Nat /\ DOMAIN ms = 1..Len(ms) /\ cut \in 1..Len(ms)
  BY LenProperties
<1>2. /\ rest \in Seq(Message) /\ Len(rest) = Len(ms) - cut + 1
      /\ \A i \in 1..Len(rest) : rest[i] = ms[cut + i - 1]
  BY <1>1, SubSeqProperties
<1>3. Compressed(ms, cut) = <<head>> \o rest /\ head.role = "summary"
  BY DEF Compressed
<1> HIDE DEF head, rest
<1>4. /\ Len(<<head>> \o rest) = Len(rest) + 1 /\ (<<head>> \o rest)[1] = head
      /\ DOMAIN (<<head>> \o rest) = 1..(Len(rest) + 1)
      /\ \A i \in 2..(Len(rest) + 1) : (<<head>> \o rest)[i] = rest[i - 1]
  BY <1>2
<1>5. Tail(<<head>> \o rest) = rest
  BY <1>2
<1>6. \A i \in 2..(Len(rest) + 1) :
         rest[i - 1] = ms[cut + i - 2] /\ cut + i - 2 \in DOMAIN ms
  BY <1>1, <1>2
<1>7. Len(rest) + 1 = Len(ms) - cut + 2
  BY <1>1, <1>2
<1>8. rest = SubSeq(ms, cut, Len(ms))
  BY DEF rest
<1> HIDE DEF rest
<1> DEFINE new == Compressed(ms, cut)
<1>9. /\ Len(new) = Len(rest) + 1 /\ DOMAIN new = 1..(Len(rest) + 1)
      /\ new[1].role = "summary"
      /\ \A i \in 2..(Len(rest) + 1) : new[i] = rest[i - 1]
      /\ Tail(new) = rest
  BY <1>3, <1>4, <1>5
<1> HIDE DEF new
<1>10. /\ Len(ms) \in Nat /\ DOMAIN ms = 1..Len(ms)
       /\ Len(new) = Len(ms) - cut + 2 /\ DOMAIN new = 1..Len(new)
       /\ new[1].role = "summary"
       /\ \A i \in 2..Len(new) : new[i] = ms[cut + i - 2] /\ cut + i - 2 \in DOMAIN ms
       /\ Tail(new) = SubSeq(ms, cut, Len(ms))
  BY <1>1, <1>6, <1>7, <1>8, <1>9
<1> QED BY <1>10 DEF new

\* The last answer is never cut off: a round starts with it or before it.
LEMMA CutBeforeAnswer ==
    ASSUME NEW ms \in Seq(Message), Answered(ms), NEW cut \in RoundStarts(ms)
    PROVE  \E i \in cut..Len(ms) :
              ms[i].role = "assistant" /\ \A n \in i..Len(ms) : ms[n].role # "user"
<1>1. Len(ms) \in Nat /\ DOMAIN ms = 1..Len(ms) /\ cut \in 1..Len(ms)
  BY LenProperties DEF RoundStarts
<1>2. PICK i \in DOMAIN ms : ms[i].role = "assistant" /\ \A n \in i..Len(ms) : ms[n].role # "user"
  BY DEF Answered
<1>3. CASE cut <= i
  BY <1>1, <1>2, <1>3
<1>4. CASE i < cut
  <2>1. ms[cut].role # "user" /\ \A n \in cut..Len(ms) : ms[n].role # "user"
    BY <1>1, <1>2, <1>4
  <2>2. ms[cut].role = "assistant"
    BY <1>1, <1>4, <2>1 DEF RoundStarts, RoundStart
  <2> QED BY <1>1, <2>1, <2>2
<1> QED BY <1>1, <1>3, <1>4

LEMMA CompressedTells ==
    ASSUME NEW ms \in Seq(Message), NEW cut \in RoundStarts(ms)
    PROVE  LET new == Compressed(ms, cut) IN
           /\ Answered(ms) => Answered(new)
           /\ Fresh(ms) => Fresh(new)
           /\ Separated(ms) => Separated(new)
<1> DEFINE new == Compressed(ms, cut)
           from(i) == cut + i - 2
           to(i) == i - cut + 2
<1>s. /\ Len(ms) \in Nat /\ DOMAIN ms = 1..Len(ms) /\ cut \in 1..Len(ms)
      /\ Len(new) = Len(ms) - cut + 2 /\ DOMAIN new = 1..Len(new)
      /\ new[1].role = "summary"
      /\ \A i \in 2..Len(new) : new[i] = ms[from(i)] /\ from(i) \in DOMAIN ms
  BY CompressedShape DEF RoundStarts
<1> HIDE DEF new
<1>t. \A i \in cut..Len(ms) : to(i) \in 2..Len(new) /\ new[to(i)] = ms[i]
  <2>1. ASSUME NEW i \in cut..Len(ms) PROVE to(i) \in 2..Len(new) /\ from(to(i)) = i
    BY <1>s
  <2> QED BY <1>s, <2>1
<1>c. ASSUME NEW i \in 2..Len(new), NEW j \in 2..Len(new), CallsIn(ms, from(i), from(j))
      PROVE  CallsIn(new, i, j)
  <2>1. PICK n \in from(i)..from(j) : ms[n].role = "assistant" /\ ms[n].k > 0
    BY <1>c DEF CallsIn
  <2>2. n \in cut..Len(ms) /\ to(n) \in i..j
    BY <1>s, <2>1
  <2>3. new[to(n)] = ms[n]
    BY <1>t, <2>2
  <2> QED BY <2>1, <2>2, <2>3 DEF CallsIn
<1>n. \A i \in DOMAIN new : new[i].role = "nudge" => i \in 2..Len(new) /\ ms[from(i)].role = "nudge"
  BY <1>s
<1>1. ASSUME Answered(ms) PROVE Answered(new)
  <2>1. PICK i \in cut..Len(ms) :
           ms[i].role = "assistant" /\ \A n \in i..Len(ms) : ms[n].role # "user"
    BY <1>1, CutBeforeAnswer
  <2>2. to(i) \in DOMAIN new /\ new[to(i)].role = "assistant"
    BY <1>s, <1>t, <2>1
  <2>3. ASSUME NEW n \in to(i)..Len(new) PROVE new[n].role # "user"
    <3>1. n \in 2..Len(new) /\ from(n) \in i..Len(ms)
      BY <1>s, <1>t, <2>1
    <3> QED BY <1>s, <2>1, <3>1
  <2> QED BY <2>2, <2>3 DEF Answered
<1>2. ASSUME Fresh(ms) PROVE Fresh(new)
  <2>1. from(Len(new)) = Len(ms) /\ Len(new) \in 2..Len(new)
    BY <1>s
  <2>2. ASSUME NEW i \in DOMAIN new, new[i].role = "nudge" PROVE CallsIn(new, i, Len(new))
    <3>1. i \in 2..Len(new) /\ from(i) \in DOMAIN ms /\ ms[from(i)].role = "nudge"
      BY <1>s, <1>n, <2>2
    <3>2. CallsIn(ms, from(i), from(Len(new)))
      BY <1>2, <2>1, <3>1 DEF Fresh
    <3> QED BY <1>c, <2>1, <3>1, <3>2
  <2> QED BY <2>2 DEF Fresh
<1>3. ASSUME Separated(ms) PROVE Separated(new)
  <2>1. ASSUME NEW i \in DOMAIN new, NEW j \in DOMAIN new, i < j,
               new[i].role = "nudge", new[j].role = "nudge"
        PROVE  CallsIn(new, i, j)
    <3>1. /\ i \in 2..Len(new) /\ from(i) \in DOMAIN ms /\ ms[from(i)].role = "nudge"
          /\ j \in 2..Len(new) /\ from(j) \in DOMAIN ms /\ ms[from(j)].role = "nudge"
      BY <1>s, <1>n, <2>1
    <3>2. from(i) < from(j)
      BY <1>s, <2>1, <3>1
    <3>3. CallsIn(ms, from(i), from(j))
      BY <1>3, <3>1, <3>2 DEF Separated
    <3> QED BY <1>c, <3>1, <3>3
  <2> QED BY <2>1 DEF Separated
<1>4. /\ Answered(ms) => Answered(new)
      /\ Fresh(ms) => Fresh(new)
      /\ Separated(ms) => Separated(new)
  BY <1>1, <1>2, <1>3
<1> QED BY <1>4 DEF new

\* Compress never keeps every round, so a cut is never the first message.
LEMMA CutRemoves ==
    ASSUME NEW ms \in Seq(Message), NEW cut \in Cuts(ms)
    PROVE  cut \in RoundStarts(ms) /\ cut \in DOMAIN ms /\ cut >= 2
<1> DEFINE starts == RoundStarts(ms)
           keep == KeepCount(Cardinality(starts))
<1>1. cut \in starts /\ Cardinality({j \in starts : j >= cut}) = keep
  BY DEF Cuts
<1>2. starts \subseteq 1..Len(ms) /\ Len(ms) \in Nat
  BY LenProperties DEF RoundStarts
<1>3. Cardinality(starts) \in Nat
  <2>1. IsFiniteSet(1..Len(ms))
    BY <1>2, FS_Interval
  <2>2. IsFiniteSet(starts)
    BY <1>2, <2>1, FS_Subset
  <2> QED BY <2>2, FS_CardinalityType
<1> HIDE DEF starts
<1>4. keep # Cardinality(starts)
  BY <1>3 DEF KeepCount
<1>5. cut # 1
  <2>1. \A j \in starts : j \in Nat /\ j >= 1
    BY <1>2
  <2>2. cut = 1 => {j \in starts : j >= cut} = starts
    BY <2>1
  <2> QED BY <1>1, <1>4, <2>2
<1> QED BY <1>1, <1>2, <1>5, LenProperties DEF starts

-----------------------------------------------------------------------------
(* What a chat has in front of it.                                         *)

\* The model was heard since the chat's question.
Heard(c) == InBatch(c) \/ round[c] > 0

\* A running chat that was answered has the answer in its history; one that may
\* be nudged made calls since the last nudge; and the plan of a compression is
\* the history with its first rounds, and only those, made a summary.
Heeds(c) ==
    LET ms == messages[sess[c]] IN
    /\ Heard(c) => Answered(ms)
    /\ Heard(c) /\ (pc[c] \in {"empty", "nudge"} \/ (~retried[c] /\ pc[c] # "calls"))
          => Fresh(ms)
    /\ pc[c] \in {"empty", "nudge", "compress"} => round[c] > 0
    /\ pc[c] \in {"empty", "nudge"} => retried[c]
    /\ pc[c] = "compress" =>
         \E cut \in RoundStarts(ms) : cut >= 2 /\ plan[c] = Compressed(ms, cut)

Heeded ==
    /\ \A s \in Chats : Separated(messages[s])
    /\ \A c \in Chats : pc[c] \in {"idle", "create", "ask"} => round[c] = 0
    /\ \A c \in Chats : Runs(c) => Heeds(c)

\* A step of one running chat, on its own history and rounds.
StepsAlone(c) ==
    /\ MovesAlone(c)
    /\ \A d \in Chats \ {c} : round'[d] = round[d] /\ retried'[d] = retried[d]

\* If the chat minds its own history, all stay minded.
LEMMA HeedStep ==
    ASSUME TypeInv, Turns, Heeded, NEW c \in Chats, Runs(c), StepsAlone(c),
           pc'[c] \notin {"idle", "create", "ask"} \/ (pc'[c] = pc[c] /\ round'[c] = round[c]),
           Separated(messages'[sess[c]]), Runs(c)' => Heeds(c)'
    PROVE  Heeded'
<1>1. \A s \in Chats : Separated(messages'[s])
  BY DEF Heeded, StepsAlone, MovesAlone
<1>2. \A d \in Chats : pc'[d] \in {"idle", "create", "ask"} => round'[d] = 0
  BY DEF Heeded, StepsAlone, MovesAlone
<1>3. ASSUME NEW d \in Chats, Runs(d)' PROVE Heeds(d)'
  <2>1. CASE d = c
    BY <1>3, <2>1
  <2>2. CASE d # c
    <3>1. /\ pc'[d] = pc[d] /\ plan'[d] = plan[d] /\ sess'[d] = sess[d]
          /\ round'[d] = round[d] /\ retried'[d] = retried[d]
      BY <2>2 DEF StepsAlone, MovesAlone
    <3>2. Runs(d) /\ sess[d] \in Chats
      BY <1>3, <3>1 DEF Runs, Active, Found, TypeInv, Placed
    <3>3. messages'[sess[d]] = messages[sess[d]]
      BY <2>2, <3>2, Alone DEF StepsAlone, MovesAlone
    <3>4. Heeds(d)
      BY <3>2 DEF Heeded
    <3> QED BY <3>1, <3>3, <3>4 DEF Heeds, Heard, InBatch
  <2> QED BY <2>1, <2>2
<1>4. \A d \in Chats : Runs(d)' => Heeds(d)'
  BY <1>3
<1>5. \A s \in Chats : Separated(messages[s])'
  BY <1>1 DEF Separated, CallsIn
<1> QED BY <1>2, <1>4, <1>5 DEF Heeded

\* Steps that change neither the history nor whether the model was heard.
LEMMA QuietHeeds ==
    ASSUME TypeInv, Turns, Heeded, NEW c \in Chats,
           \/ LoadHistory(c) \/ BeginRound(c) \/ Send(c) \/ StreamFails(c) \/ StartTool(c)
           \/ ToolReturns(c) \/ ToolPanics(c) \/ SendFinal(c) \/ EndFinal(c)
    PROVE  Heeded'
<1>1. /\ UNCHANGED <<messages, sess, reply, step, plan, round, retried>> /\ Runs(c)
      /\ \A d \in Chats \ {c} : pc'[d] = pc[d] /\ loaded'[d] = loaded[d] /\ header'[d] = header[d]
      /\ \/ pc' = pc
         \/ /\ pc'[c] \in {"send", "stream", "running", "result", "sendfinal", "final"}
            /\ InBatch(c)' <=> InBatch(c)
            /\ pc[c] # "calls"
         \/ pc'[c] \in Ended
  <2> USE DEF sessionVars, whoVars, loopVars, appendVars, Runs, Active, Found, Ended, Steps,
              InBatch, TypeInv, TypeOK
  <2>1. CASE LoadHistory(c)
    BY <2>1 DEF LoadHistory, Appending
  <2>2. CASE BeginRound(c)
    BY <2>2 DEF BeginRound
  <2>3. CASE Send(c)
    BY <2>3 DEF Send
  <2>4. CASE StreamFails(c)
    BY <2>4 DEF StreamFails
  <2>5. CASE StartTool(c)
    BY <2>5 DEF StartTool
  <2>6. CASE ToolReturns(c)
    BY <2>6 DEF ToolReturns
  <2>7. CASE ToolPanics(c)
    BY <2>7 DEF ToolPanics
  <2>8. CASE SendFinal(c)
    BY <2>8 DEF SendFinal
  <2>9. CASE EndFinal(c)
    BY <2>9 DEF EndFinal
  <2> QED BY <2>1, <2>2, <2>3, <2>4, <2>5, <2>6, <2>7, <2>8, <2>9
<1>2. StepsAlone(c)
  BY <1>1 DEF StepsAlone, MovesAlone
<1>3. sess[c] \in Chats /\ Heeds(c) /\ Separated(messages[sess[c]])
  BY <1>1 DEF Heeded, Runs, Found, TypeInv, Placed
<1>4. pc'[c] \notin {"idle", "create", "ask"} \/ (pc'[c] = pc[c] /\ round'[c] = round[c])
  BY <1>1 DEF Ended
<1>5. Runs(c)' => Heeds(c)'
  BY <1>1, <1>3 DEF Heeds, Heard, InBatch, Runs, Active, Ended
<1>6. Separated(messages'[sess[c]])
  BY <1>1, <1>3
<1> QED BY <1>1, <1>2, <1>4, <1>5, <1>6, HeedStep

\* The stream's reply: none yet in the history; an empty one may be followed by
\* a nudge only when there was none since the last calls.
LEMMA AnswerHeeds ==
    ASSUME TypeInv, Turns, Heeded, NEW c \in Chats, StreamAnswers(c)
    PROVE  Heeded'
<1>1. /\ pc[c] = "stream" /\ Runs(c) /\ ~InBatch(c)
      /\ UNCHANGED <<messages, sess, step, loaded, header, plan, round>>
  BY DEF StreamAnswers, Runs, Active, Found, Ended, InBatch, appendVars, whoVars
<1>2. PICK r \in Replies : 
         /\ reply' = [reply EXCEPT ![c] = r]
         /\ \/ /\ MayNudge(c, r) /\ retried' = [retried EXCEPT ![c] = TRUE]
               /\ pc' = [pc EXCEPT ![c] = "empty"]
            \/ pc' = [pc EXCEPT ![c] = "answer"] /\ retried' = retried
            \/ pc' = [pc EXCEPT ![c] = "calls"] /\ retried' = [retried EXCEPT ![c] = FALSE]
  BY DEF StreamAnswers
<1>3. /\ \/ pc'[c] = "empty" /\ ~retried[c] /\ retried'[c] /\ round[c] > 0
         \/ pc'[c] = "answer" /\ retried'[c] = retried[c]
         \/ pc'[c] = "calls"
      /\ \A d \in Chats \ {c} : /\ pc'[d] = pc[d] /\ reply'[d] = reply[d]
                                /\ retried'[d] = retried[d]
  BY <1>2 DEF TypeInv, TypeOK, MayNudge
<1>4. StepsAlone(c)
  BY <1>1, <1>3 DEF StepsAlone, MovesAlone
<1>5. sess[c] \in Chats /\ Heeds(c) /\ Separated(messages[sess[c]])
  BY <1>1 DEF Heeded, Runs, Found, TypeInv, Placed
<1>6. Heeds(c)'
  BY <1>1, <1>3, <1>5 DEF Heeds, Heard, InBatch
<1> QED BY <1>1, <1>3, <1>4, <1>5, <1>6, HeedStep

\* A message m was stored, and x comes next.
Appends(c, m, x) ==
    /\ pc[c] \in Appending /\ Store(c, m) /\ m \in Message
    /\ pc' = [pc EXCEPT ![c] = x] /\ x \notin {"idle", "create", "ask", "compress"}
    /\ UNCHANGED <<sess, reply, plan, retried>>
    /\ \A d \in Chats \ {c} : step'[d] = step[d] /\ round'[d] = round[d]

LEMMA StoreHeeds ==
    ASSUME TypeInv, Turns, Histories, Heeded, NEW c \in Chats, NEW m, NEW x, Appends(c, m, x),
           m.role = "nudge" => Fresh(messages[sess[c]]),
           Runs(c)' /\ Heard(c)' => m.role = "assistant" \/ (Heard(c) /\ m.role # "user"),
           Runs(c)' /\ Heard(c)'
               /\ (pc'[c] \in {"empty", "nudge"} \/ (~retried[c] /\ pc'[c] # "calls"))
             => \/ m.role = "assistant" /\ m.k > 0
                \/ Fresh(messages[sess[c]]) /\ m.role # "nudge",
           x \in {"empty", "nudge"} => round'[c] > 0 /\ retried[c]
    PROVE  Heeded'
<1>0. /\ pc[c] \in Appending /\ Store(c, m) /\ m \in Message
      /\ pc' = [pc EXCEPT ![c] = x] /\ x \notin {"idle", "create", "ask", "compress"}
      /\ UNCHANGED <<sess, reply, plan, retried>>
      /\ \A d \in Chats \ {c} : step'[d] = step[d] /\ round'[d] = round[d]
  BY DEF Appends
<1>1. Runs(c) /\ sess[c] \in Chats /\ messages[sess[c]] \in Seq(Message)
  BY <1>0 DEF TypeInv, TypeOK, Placed, Runs, Active, Found, Ended, Appending
<1>2. Own(c) /\ Heeds(c) /\ Separated(messages[sess[c]])
  BY <1>1 DEF Histories, Heeded
<1>3. /\ messages' = [messages EXCEPT ![sess[c]] = Append(messages[sess[c]], m)]
      /\ loaded' = [loaded EXCEPT ![c] = FALSE]
      /\ header' = [header EXCEPT ![c] = <<>>]
  BY <1>0, <1>2 DEF Store, Own
<1>4. StepsAlone(c)
  BY <1>0, <1>3 DEF StepsAlone, MovesAlone, TypeInv, TypeOK
<1>5. pc'[c] = x /\ messages'[sess'[c]] = Append(messages[sess[c]], m)
  BY <1>0, <1>1, <1>3 DEF TypeInv, TypeOK
<1> DEFINE ms == messages[sess[c]]
           new == Append(ms, m)
<1> HIDE DEF new
<1>6. /\ m.role = "assistant" \/ (Answered(ms) /\ m.role # "user") => Answered(new)
      /\ (m.role = "assistant" /\ m.k > 0) \/ (Fresh(ms) /\ m.role # "nudge") => Fresh(new)
      /\ Separated(ms) /\ (m.role # "nudge" \/ Fresh(ms)) => Separated(new)
  BY <1>0, <1>1, AppendTells DEF new
<1>7. Separated(messages'[sess[c]])
  BY <1>0, <1>2, <1>5, <1>6 DEF new
<1>8. ASSUME Runs(c)' PROVE Heeds(c)'
  <2>1. Heard(c)' => Answered(new)
    BY <1>2, <1>6, <1>8 DEF Heeds
  <2>2. Heard(c)' /\ (pc'[c] \in {"empty", "nudge"} \/ (~retried'[c] /\ pc'[c] # "calls"))
           => Fresh(new)
    BY <1>0, <1>6, <1>8
  <2>3. messages'[sess'[c]] = new
    BY <1>5 DEF new
  <2>4. /\ pc'[c] \in {"empty", "nudge", "compress"} => round'[c] > 0
        /\ pc'[c] \in {"empty", "nudge"} => retried'[c]
    BY <1>0, <1>5
  <2> QED BY <1>0, <1>5, <2>1, <2>2, <2>3, <2>4 DEF Heeds, Answered, Fresh, CallsIn
<1> QED BY <1>0, <1>1, <1>4, <1>5, <1>7, <1>8, HeedStep

LEMMA AddHeeds ==
    ASSUME TypeInv, Turns, Histories, Heeded, NEW c \in Chats,
           \/ AddQuestion(c) \/ AddAnswer(c) \/ AddEmptyAnswer(c) \/ AddNudge(c)
           \/ AddCalls(c) \/ AddResult(c)
    PROVE  Heeded'
<1>1. /\ pc[c] \in Appending /\ Runs(c) /\ sess[c] \in Chats /\ round[c] \in Nat
      /\ step[c] \in Nat /\ reply[c].calls \in Nat
  <2>1. pc[c] \in Appending
    BY DEF AddQuestion, AddAnswer, AddEmptyAnswer, AddNudge, AddCalls, AddResult, Appending
  <2> QED BY SMTT(30), <2>1 DEF TypeInv, TypeOK, Placed, Runs, Active, Found, Ended, Appending, Replies
<1>2. Heeds(c) /\ Own(c)
  BY <1>1 DEF Heeded, Histories
<1> DEFINE fresh == Fresh(messages[sess[c]])
<1> HIDE DEF fresh
<1>3. CASE AddQuestion(c)
  <2> DEFINE m == [role |-> "user", k |-> 0, asked |-> {c}]
  <2>1. m \in Message /\ m.role = "user"
    BY DEF Message, Roles
  <2>2. /\ Store(c, m) /\ pc' = [pc EXCEPT ![c] = "round"] /\ pc[c] = "ask"
        /\ UNCHANGED <<sess, reply, plan, retried, step, round>>
    BY <1>3 DEF AddQuestion, whoVars, loopVars
  <2> HIDE DEF m
  <2>3. pc'[c] = "round" /\ round'[c] = 0 /\ ~Heard(c)'
    BY <2>2 DEF Heeded, TypeInv, TypeOK, Heard, InBatch
  <2>4. Appends(c, m, "round")
    BY <1>1, <2>1, <2>2 DEF Appends
  <2> QED BY <2>1, <2>3, <2>4, StoreHeeds
<1>4. CASE AddAnswer(c)
  <2> DEFINE m == Plain("assistant")
  <2>1. m \in Message /\ m.role = "assistant"
    BY DEF Message, Roles, Plain
  <2>2. /\ Store(c, m) /\ pc' = [pc EXCEPT ![c] = "done"]
        /\ UNCHANGED <<sess, reply, plan, retried, step, round>>
    BY <1>4 DEF AddAnswer, whoVars, loopVars
  <2> HIDE DEF m
  <2>3. ~Runs(c)'
    BY <2>2 DEF TypeInv, TypeOK, Runs, Active, Ended
  <2>4. Appends(c, m, "done")
    BY <1>1, <2>1, <2>2 DEF Appends
  <2> QED BY <2>1, <2>3, <2>4, StoreHeeds
<1>5. CASE AddEmptyAnswer(c)
  <2> DEFINE m == Plain("assistant")
  <2>1. m \in Message /\ m.role = "assistant"
    BY DEF Message, Roles, Plain
  <2>2. /\ Store(c, m) /\ pc' = [pc EXCEPT ![c] = "nudge"] /\ pc[c] = "empty"
        /\ UNCHANGED <<sess, reply, plan, retried, step, round>>
    BY <1>5 DEF AddEmptyAnswer, whoVars, loopVars
  <2> HIDE DEF m
  <2>3. round'[c] > 0 /\ retried[c] /\ Fresh(messages[sess[c]])
    BY <1>2, <2>2 DEF Heeds, Heard
  <2>4. Appends(c, m, "nudge")
    BY <1>1, <2>1, <2>2 DEF Appends
  <2> QED BY <2>1, <2>3, <2>4, StoreHeeds
<1>6. CASE AddNudge(c)
  <2> DEFINE m == Plain("nudge")
  <2>1. m \in Message /\ m.role = "nudge"
    BY DEF Message, Roles, Plain
  <2>2. /\ Store(c, m) /\ pc' = [pc EXCEPT ![c] = "round"] /\ pc[c] = "nudge"
        /\ UNCHANGED <<sess, reply, plan, retried, step>>
        /\ round' = [round EXCEPT ![c] = @ + 1]
    BY <1>6 DEF AddNudge, whoVars
  <2> HIDE DEF m
  <2>3. Heard(c) /\ Fresh(messages[sess[c]])
    BY <1>2, <2>2 DEF Heeds, Heard
  <2>4. \A d \in Chats \ {c} : round'[d] = round[d]
    BY <2>2 DEF TypeInv, TypeOK
  <2>5. Appends(c, m, "round")
    BY <1>1, <2>1, <2>2, <2>4 DEF Appends
  <2>6. retried[c]
    BY <1>2, <2>2 DEF Heeds
  <2>7. pc'[c] = "round"
    BY <2>2 DEF TypeInv, TypeOK
  <2> QED BY <2>1, <2>3, <2>5, <2>6, <2>7, StoreHeeds
<1>7. CASE AddCalls(c)
  <2> DEFINE m == [role |-> "assistant", k |-> reply[c].calls, asked |-> {}]
  <2>1. m \in Message /\ m.role = "assistant" /\ m.k = reply[c].calls
    BY <1>1 DEF Message, Roles
  <2>2. /\ Store(c, m) /\ pc' = [pc EXCEPT ![c] = "tool"] /\ pc[c] = "calls"
        /\ UNCHANGED <<sess, reply, plan, retried, round>> /\ step' = [step EXCEPT ![c] = 0]
    BY <1>7 DEF AddCalls, whoVars
  <2> HIDE DEF m
  <2>3. m.k > 0
    BY <1>2, <2>1, <2>2 DEF Own
  <2>4. \A d \in Chats \ {c} : step'[d] = step[d]
    BY <2>2 DEF TypeInv, TypeOK
  <2>5. Appends(c, m, "tool")
    BY <1>1, <2>1, <2>2, <2>4 DEF Appends
  <2> QED BY <2>1, <2>3, <2>5, StoreHeeds
<1>8. CASE AddResult(c)
  <2> DEFINE m == [role |-> "tool", k |-> step[c] + 1, asked |-> {}]
             x == IF step[c] + 1 < reply[c].calls THEN "tool" ELSE "round"
  <2>1. m \in Message /\ m.role = "tool"
    BY <1>1 DEF Message, Roles
  <2>2. /\ Store(c, m) /\ pc' = [pc EXCEPT ![c] = x] /\ pc[c] = "result"
        /\ UNCHANGED <<sess, reply, plan, retried>> /\ step' = [step EXCEPT ![c] = @ + 1]
        /\ \A d \in Chats \ {c} : round'[d] = round[d]
    BY <1>1, <1>8 DEF AddResult, whoVars, TypeInv, TypeOK
  <2>3. x \in {"tool", "round"}
    OBVIOUS
  <2> HIDE DEF m, x
  <2>4. Heard(c) /\ (~retried[c] => Fresh(messages[sess[c]]))
    BY <1>2, <2>2 DEF Heeds, Heard, InBatch
  <2>5. \A d \in Chats \ {c} : step'[d] = step[d]
    BY <2>2 DEF TypeInv, TypeOK
  <2>6. Appends(c, m, x)
    BY <1>1, <2>1, <2>2, <2>3, <2>5 DEF Appends
  <2>7. pc'[c] = x
    BY <2>2 DEF TypeInv, TypeOK
  <2> QED BY <2>1, <2>3, <2>4, <2>6, <2>7, StoreHeeds
<1> QED BY <1>3, <1>4, <1>5, <1>6, <1>7, <1>8

LEMMA BeginCompressHeeds ==
    ASSUME TypeInv, Turns, Heeded, NEW c \in Chats, BeginCompress(c)
    PROVE  Heeded'
<1>1. /\ pc[c] = "round" /\ Runs(c) /\ ~InBatch(c) /\ round[c] > 0
      /\ UNCHANGED <<messages, sess, reply, step, loaded, header, round, retried>>
      /\ pc' = [pc EXCEPT ![c] = "compress"]
  BY DEF BeginCompress, CompressionDue, Runs, Active, Found, Ended, InBatch,
         sessionVars, loopVars, appendVars, whoVars
<1>2. PICK cut \in Cuts(messages[sess[c]]) :
         plan' = [plan EXCEPT ![c] = Compressed(messages[sess[c]], cut)]
  BY DEF BeginCompress
<1>3. /\ pc'[c] = "compress" /\ plan'[c] = Compressed(messages[sess[c]], cut)
      /\ \A d \in Chats \ {c} : pc'[d] = pc[d] /\ plan'[d] = plan[d]
  BY <1>1, <1>2 DEF TypeInv, TypeOK
<1>4. StepsAlone(c)
  BY <1>1, <1>3 DEF StepsAlone, MovesAlone
<1>5. /\ sess[c] \in Chats /\ messages[sess[c]] \in Seq(Message)
      /\ Heeds(c) /\ Separated(messages[sess[c]])
  BY <1>1 DEF Heeded, Runs, Found, TypeInv, TypeOK, Placed
<1>6. cut \in RoundStarts(messages[sess[c]]) /\ cut >= 2
  BY <1>5, CutRemoves
<1>7. Heeds(c)'
  BY <1>1, <1>3, <1>5, <1>6 DEF Heeds, Heard, InBatch
<1> QED BY <1>1, <1>3, <1>4, <1>5, <1>7, HeedStep

LEMMA FinishCompressHeeds ==
    ASSUME TypeInv, Turns, Heeded, NEW c \in Chats, FinishCompress(c)
    PROVE  Heeded'
<1>1. /\ pc[c] = "compress" /\ Runs(c) /\ ~InBatch(c) /\ sess[c] \in Chats
      /\ messages[sess[c]] \in Seq(Message)
      /\ UNCHANGED <<sess, reply, step, loaded, header, round, retried>>
      /\ pc' = [pc EXCEPT ![c] = "send"]
      /\ messages' = [messages EXCEPT ![sess[c]] = plan[c]]
      /\ plan' = [plan EXCEPT ![c] = <<>>]
  BY DEF FinishCompress, Runs, Active, Found, Ended, InBatch, TypeInv, TypeOK, Placed,
         loopVars, appendVars, whoVars
<1>2. /\ pc'[c] = "send" /\ messages'[sess'[c]] = plan[c]
      /\ \A d \in Chats \ {c} : pc'[d] = pc[d] /\ plan'[d] = plan[d]
  BY <1>1 DEF TypeInv, TypeOK
<1>3. StepsAlone(c)
  BY <1>1, <1>2 DEF StepsAlone, MovesAlone, TypeInv, TypeOK
<1>4. Heeds(c) /\ Separated(messages[sess[c]])
  BY <1>1 DEF Heeded
<1>5. PICK cut \in RoundStarts(messages[sess[c]]) :
         plan[c] = Compressed(messages[sess[c]], cut)
  BY <1>1, <1>4 DEF Heeds
<1>6. /\ Answered(messages[sess[c]]) => Answered(plan[c])
      /\ Fresh(messages[sess[c]]) => Fresh(plan[c])
      /\ Separated(plan[c])
  BY <1>1, <1>4, <1>5, CompressedTells
<1>7. /\ Heard(c)' => Answered(plan[c])
      /\ Heard(c)' /\ ~retried'[c] => Fresh(plan[c])
  BY <1>1, <1>2, <1>4, <1>6 DEF Heeds, Heard, InBatch
<1>8. Heeds(c)'
  BY <1>1, <1>2, <1>7 DEF Heeds, Answered, Fresh, CallsIn
<1>9. Separated(messages'[sess[c]])
  BY <1>1, <1>2, <1>6
<1> QED BY <1>1, <1>2, <1>3, <1>8, <1>9, HeedStep

\* A chat that arrives, or found its session, has not been heard.
LEMMA JoinHeeds ==
    ASSUME TypeInv, Heeded, NEW c \in Chats, Arrive(c) \/ CreateSession(c)
    PROVE  Heeded'
<1>1. /\ pc[c] \in {"idle", "create"}
      /\ \E x \in {"create", "ask"} : pc' = [pc EXCEPT ![c] = x]
      /\ \E s : sess' = [sess EXCEPT ![c] = s]
      /\ UNCHANGED <<messages, plan, round, retried>>
  BY DEF Arrive, CreateSession, sessionVars, loopVars
<1>2. /\ pc'[c] \in {"create", "ask"}
      /\ \A d \in Chats \ {c} : pc'[d] = pc[d] /\ sess'[d] = sess[d]
  BY <1>1 DEF TypeInv, TypeOK
<1>3. ~Heard(c)'
  BY <1>1, <1>2 DEF Heeded, Heard, InBatch
<1>4. Heeds(c)'
  BY <1>2, <1>3 DEF Heeds
<1>5. ASSUME NEW d \in Chats, d # c, Runs(d)' PROVE Heeds(d)'
  <2>1. Runs(d)
    BY <1>2, <1>5 DEF Runs, Active, Found
  <2>2. Heeds(d)
    BY <2>1 DEF Heeded
  <2> QED BY <1>1, <1>2, <1>5, <2>2 DEF Heeds, Heard, InBatch
<1>6. \A d \in Chats : Runs(d)' => Heeds(d)'
  BY <1>4, <1>5
<1>7. \A d \in Chats : pc'[d] \in {"idle", "create", "ask"} => round'[d] = 0
  BY <1>1, <1>2 DEF Heeded
<1>8. \A s \in Chats : Separated(messages[s])'
  BY <1>1 DEF Heeded, Separated, CallsIn
<1> QED BY <1>6, <1>7, <1>8 DEF Heeded

LEMMA ClearHeeds ==
    ASSUME OneAtATime, TypeInv, Turns, Heeded, NEW k \in Keys, ClearSession(k)
    PROVE  Heeded'
<1> DEFINE s == table[k]
<1>1. /\ s \in Chats /\ ~Busy(k)
      /\ messages' = [messages EXCEPT ![s] = <<>>]
      /\ UNCHANGED <<pc, sess, plan, round, retried>>
  BY DEF ClearSession, OneAtATime, TypeInv, TypeOK, whoVars, loopVars
<1>2. messages'[s] = <<>> /\ \A t \in Chats \ {s} : messages'[t] = messages[t]
  BY <1>1 DEF TypeInv, TypeOK
<1>3. ASSUME NEW d \in Chats, Runs(d)' PROVE Heeds(d)'
  <2>1. Runs(d) /\ Heeds(d)
    BY <1>1, <1>3 DEF Runs, Active, Found, Heeded
  <2>2. key[d] \in Keys /\ sess[d] \in Chats /\ sess[d] = table[key[d]] /\ Active(d)
    BY <2>1 DEF Turns, Runs, Found, TypeInv, Placed
  <2>3. key[d] # k
    BY <1>1, <2>2 DEF Busy, Active
  <2>4. sess[d] # s
    BY <1>1, <2>2, <2>3 DEF Turns
  <2>5. messages'[sess[d]] = messages[sess[d]]
    BY <1>2, <2>2, <2>4
  <2> QED BY <1>1, <2>1, <2>5 DEF Heeds, Heard, InBatch
<1>4. \A t \in Chats : Separated(messages'[t])
  BY <1>2 DEF Heeded, Separated
<1>5. \A d \in Chats : Runs(d)' => Heeds(d)'
  BY <1>3
<1>6. \A t \in Chats : Separated(messages[t])'
  BY <1>4 DEF Separated, CallsIn
<1> QED BY <1>1, <1>5, <1>6 DEF Heeded

LEMMA HeededStep ==
    OneAtATime /\ TypeInv /\ Turns /\ Histories /\ Heeded /\ [Next]_vars => Heeded'
<1> SUFFICES ASSUME OneAtATime, TypeInv, Turns, Histories, Heeded, [Next]_vars PROVE Heeded'
  OBVIOUS
<1>1. CASE UNCHANGED vars
  BY <1>1 DEF vars, Heeded, Heeds, Heard, InBatch, Runs, Active, Found, Separated, CallsIn
<1>2. ASSUME NEW c \in Chats, Run(c) PROVE Heeded'
  BY <1>2, JoinHeeds, AddHeeds, BeginCompressHeeds, FinishCompressHeeds, QuietHeeds,
     AnswerHeeds DEF Run
<1> QED BY <1>1, <1>2, JoinHeeds, ClearHeeds DEF Next

LEMMA HeededInvariant ==
    ASSUME OneAtATime
    PROVE  Spec => []Heeded
<1>1. Init => Heeded
  BY DEF Init, Heeded, Runs, Active, Found, Separated
<1> QED BY <1>1, HeededStep, HistoriesInvariant, TurnsInvariant, TypeInvariant, PTL DEF Spec

\* When clients take turns, the model is asked for an analysis at most once per
\* batch of tool results, also over several questions and compressions
\* (engine.go, runToolLoop: emptyRetried).
THEOREM NudgesApart == Spec => []NudgesSeparated
<1>1. Heeded => NudgesSeparated
  BY DEF Heeded, Separated, CallsIn, NudgesSeparated
<1>2. ~OneAtATime => NudgesSeparated
  BY DEF NudgesSeparated
<1>3. CASE OneAtATime
  BY <1>1, <1>3, HeededInvariant, PTL
<1>4. CASE ~OneAtATime
  BY <1>2, <1>4, PTL
<1> QED BY <1>3, <1>4

\* When clients take turns, a compression in the tool loop removes something and
\* keeps every message from the last assistant message on (Compress,
\* identifyRounds), for any number of rounds and any number of rounds to keep.
THEOREM NothingUnseenCut == Spec => []UnseenResultsKept
<1>1. TypeInv /\ Heeded => UnseenResultsKept
  <2> SUFFICES ASSUME TypeInv, Heeded, NEW c \in Chats, pc[c] = "compress"
               PROVE  LET ms == messages[sess[c]] IN
                      \E cut \in 2..Len(ms) :
                         /\ Tail(plan[c]) = SubSeq(ms, cut, Len(ms))
                         /\ \E i \in cut..Len(ms) : ms[i].role = "assistant"
    BY DEF UnseenResultsKept
  <2>1. Runs(c) /\ Heeds(c) /\ messages[sess[c]] \in Seq(Message)
    BY DEF Heeded, Runs, Active, Found, Ended, TypeInv, TypeOK, Placed
  <2> DEFINE ms == messages[sess[c]]
  <2>2. Answered(ms)
    BY <2>1 DEF Heeds, Heard
  <2>3. PICK cut \in RoundStarts(ms) : cut >= 2 /\ plan[c] = Compressed(ms, cut)
    BY <2>1 DEF Heeds
  <2>4. cut \in DOMAIN ms
    BY DEF RoundStarts
  <2> HIDE DEF ms
  <2>s. ms \in Seq(Message)
    BY <2>1 DEF ms
  <2>5. cut \in 2..Len(ms) /\ Tail(plan[c]) = SubSeq(ms, cut, Len(ms))
    <3>1. Len(ms) \in Nat /\ DOMAIN ms = 1..Len(ms)
      BY <2>s, LenProperties
    <3>2. Tail(Compressed(ms, cut)) = SubSeq(ms, cut, Len(ms))
      BY <2>s, <2>4, CompressedShape
    <3> QED BY <2>3, <2>4, <3>1, <3>2
  <2>6. \E i \in cut..Len(ms) : ms[i].role = "assistant"
    BY <2>s, <2>2, CutBeforeAnswer
  <2> QED BY <2>5, <2>6 DEF ms
<1>2. ~OneAtATime => UnseenResultsKept
  BY DEF UnseenResultsKept
<1>3. CASE OneAtATime
  BY <1>1, <1>3, HeededInvariant, TypeInvariant, PTL
<1>4. CASE ~OneAtATime
  BY <1>2, <1>4, PTL
<1> QED BY <1>3, <1>4
=============================================================================
