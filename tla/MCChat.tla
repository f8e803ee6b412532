------------------------------- MODULE MCChat -------------------------------
(* The parts that a chat's answer passes through, for TLC: the client of the *)
(* model server, the engine and the page.  The client and the engine meet in *)
(* StreamContract, the engine and the page in ChatContract, so each is       *)
(* checked alone: a behaviour is about one of them, part; the others stay as *)
(* they were.                                                                *)
EXTENDS ChatEngine, LLMClient, ChatPage

CONSTANTS c1, c2, k1, t1, t2

VARIABLE part

TwoChats == {c1, c2}
OneKey   == {k1}
TwoTools == {t1, t2}
\* Index 1 without 0 is a gap.
TwoIndices == {0, 1}

Parts == {"engine", "request", "page"}

\* Everything else keeps its value.
Only(p) ==
    /\ part = p
    /\ part' = p
    /\ p # "engine"  => UNCHANGED vars
    /\ p # "request" => UNCHANGED requestVars
    /\ p # "page"    => UNCHANGED pageVars

\* What a part that is not meant may choose is fixed.
ChatInit ==
    /\ part \in Parts
    /\ Init /\ RequestInit /\ PageInit
    /\ part # "request" => mode = "stream"

ChatNext ==
    \/ Only("engine") /\ Next
    \/ Only("request") /\ RequestNext
    \/ Only("page") /\ PageNext

chatVars == <<part, vars, requestVars, pageVars>>

ChatSpec == ChatInit /\ [][ChatNext]_chatVars

\* The fairness of FairSpec, RequestFairSpec and PageFairSpec.
ChatFairSpec ==
    /\ ChatSpec
    /\ \A c \in Chats : WF_chatVars(Only("engine") /\ Run(c))
    /\ WF_chatVars(Only("request") /\ RequestNext)
    /\ \A c \in Sends : WF_chatVars(Only("page") /\ ServerStep(c))
    /\ WF_chatVars(Only("page") /\ Read) /\ WF_chatVars(Only("page") /\ EndOfStream)
    /\ WF_chatVars(Only("page") /\ Disconnect /\ stream[current] = "cut")

-----------------------------------------------------------------------------
\* A stream that is open, a request without a verdict, a page whose input is
\* locked.
UnderWay ==
    \/ part = "engine" /\ Streaming
    \/ part = "request" /\ verdict = "none"
    \/ part = "page" /\ isStreaming

\* What was begun ends: every stream of the engine, since rounds and nudges are
\* bounded (runToolLoop), every request in a verdict, since retries are, and the
\* page unlocks its input whatever becomes of the stream (sendMessage).
AnswersEnd == UnderWay ~> ~UnderWay
=============================================================================
