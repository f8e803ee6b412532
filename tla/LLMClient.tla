------------------------------ MODULE LLMClient -----------------------------
(***************************************************************************)
(* One request of the OpenAI-compatible client: ChatStream for the tool    *)
(* loop, ChatNonStreaming for the compressor, with their retries.          *)
(*                                                                         *)
(* The model server is the environment.  It refuses the connection,        *)
(* answers with an HTTP status, or starts to send a body, here a sequence  *)
(* of SSE lines; the body may stop early (connection reset, the http       *)
(* client's timeout, a line over the scanner's 256 KB).                    *)
(***************************************************************************)
EXTENDS GoData

CONSTANTS MaxRetries,   \* LLMConfig.MaxRetries
          MaxLines,     \* bound: lines in the body of a response
          Indices       \* tool call indices that servers use

ASSUME ClientAssumption ==
    /\ MaxRetries \in Nat
    /\ MaxLines \in Nat
    /\ Indices \subseteq Nat
    /\ IsFiniteSet(Indices)

\* A line of the body: text, a piece of the tool call with an index (its name
\* or some of its arguments), a usage report, or a line the parser skips.
CallLines == [kind : {"call"}, at : Indices, named : BOOLEAN]
Lines == [kind : {"text", "usage", "skipped"}] \cup CallLines

Bodies == UNION {[1..n -> Lines] : n \in 0..MaxLines}

\* Why an attempt failed.  isRetriableErr takes every error that is not an
\* HTTP status for a network error, a response that does not parse included.
Errors == {"network", "parse", "status_retriable", "status_fatal"}

VARIABLES
    mode,      \* "stream" or "post"
    phase,
    attempt,
    failures,  \* how the attempts failed, in order
    body, got, \* the response, and how many of its lines were read
    partial,   \* toolCallMap: index -> was a name seen, how many pieces
    usage,
    heard,     \* calls of OnContent: attempt and line of each
    verdict,
    calls      \* the tool calls handed to OnStreamComplete

streamVars == <<body, got, partial, usage, heard>>
requestVars == <<mode, phase, attempt, failures, body, got, partial, usage, heard, verdict, calls>>

NoCalls == [i \in {} |-> 0]

RequestInit ==
    /\ mode \in {"stream", "post"}
    /\ phase = "try"
    /\ attempt = 0
    /\ failures = <<>>
    /\ body = <<>>
    /\ got = 0
    /\ partial = NoCalls
    /\ usage = FALSE
    /\ heard = <<>>
    /\ verdict = "none"
    /\ calls = <<>>

-----------------------------------------------------------------------------
(* One attempt.                                                            *)

Fail(e) ==
    /\ phase' = "failed"
    /\ failures' = Append(failures, e)

\* client.Do returns an error.
Unreachable ==
    /\ phase = "try"
    /\ Fail("network")
    /\ UNCHANGED <<mode, attempt, streamVars, verdict, calls>>

\* A status of 400 or more.
Rejected ==
    /\ phase = "try"
    /\ \E e \in {"status_retriable", "status_fatal"} : Fail(e)
    /\ UNCHANGED <<mode, attempt, streamVars, verdict, calls>>

\* A body starts; the parser's variables are local to the attempt.
Accepted ==
    /\ phase = "try"
    /\ phase' = "reading"
    /\ body' \in Bodies
    /\ got' = 0
    /\ partial' = NoCalls
    /\ usage' = FALSE
    /\ UNCHANGED <<mode, attempt, failures, heard, verdict, calls>>

\* Mutant: the entry is made anew for every piece.
Merge_Replaces(line) ==
    [i \in DOMAIN partial \cup {line.at} |->
        IF i = line.at THEN [named |-> line.named, pieces |-> 1] ELSE partial[i]]

\* toolCallMap after one more piece of a call: names and arguments accumulate.
Merge(line) ==
    LET before == IF line.at \in DOMAIN partial THEN partial[line.at]
                  ELSE [named |-> FALSE, pieces |-> 0]
    IN  [i \in DOMAIN partial \cup {line.at} |->
            IF i = line.at
            THEN [named |-> before.named \/ line.named, pieces |-> before.pieces + 1]
            ELSE partial[i]]

\* One turn of the scanner's loop.
Scan ==
    /\ phase = "reading" /\ mode = "stream"
    /\ got < Len(body)
    /\ got' = got + 1
    /\ LET line == body[got + 1] IN
         /\ heard' = IF line.kind = "text" THEN Append(heard, <<attempt, got + 1>>) ELSE heard
         /\ partial' = IF line.kind = "call" THEN Merge(line) ELSE partial
         /\ usage' = (usage \/ line.kind = "usage")
    /\ UNCHANGED <<mode, phase, attempt, failures, body, verdict, calls>>

\* The calls in index order: as many indices as there are entries, from 0;
\* an index without an entry or a call without a name is passed over.
Collected(p) ==
    LET order == [i \in 1..Cardinality(DOMAIN p) |-> i - 1]
        here  == Filtered(order, {i \in DOMAIN order : i - 1 \in DOMAIN p /\ p[i - 1].named})
    IN  [j \in 1..Len(here) |-> [at |-> here[j], pieces |-> p[here[j]].pieces]]

\* Mutant: the scanner's error makes the attempt fail.
EndScan_ReportsError ==
    /\ phase = "reading" /\ mode = "stream"
    /\ IF got < Len(body)
       THEN Fail("network") /\ UNCHANGED <<verdict, calls>>
       ELSE /\ phase' = "ended" /\ verdict' = "complete"
            /\ calls' = Collected(partial)
            /\ UNCHANGED failures
    /\ UNCHANGED <<mode, attempt, streamVars>>

\* The scanner stops, at the end of the body or because the body stopped
\* early: nothing asks scanner.Err which of the two.
EndScan ==
    /\ phase = "reading" /\ mode = "stream"
    /\ phase' = "ended"
    /\ verdict' = "complete"
    /\ calls' = Collected(partial)
    /\ UNCHANGED <<mode, attempt, failures, streamVars>>

\* Not streaming: ReadAll returns an error if the body stops early.
ReadWhole ==
    /\ phase = "reading" /\ mode = "post"
    /\ got' = Len(body)
    /\ phase' = "ended"
    /\ verdict' = "complete"
    /\ UNCHANGED <<mode, attempt, failures, body, partial, usage, heard, calls>>

ReadFails ==
    /\ phase = "reading" /\ mode = "post"
    /\ \E e \in {"network", "parse"} : Fail(e)
    /\ UNCHANGED <<mode, attempt, streamVars, verdict, calls>>

-----------------------------------------------------------------------------
(* The retry loop, the same in ChatStream and postWithRetry.               *)

\* Mutant: a status decides nothing.
Retriable_Always(e) == TRUE

Retriable(e) == e # "status_fatal"

LastFailure == failures[Len(failures)]

\* Mutant: one attempt too many.
MayRetry_OffByOne == Retriable(LastFailure) /\ attempt <= MaxRetries

MayRetry == Retriable(LastFailure) /\ attempt < MaxRetries

\* calculateDelay and the sleep, then the next attempt.
Retry ==
    /\ phase = "failed"
    /\ MayRetry
    /\ attempt' = attempt + 1
    /\ phase' = "try"
    /\ UNCHANGED <<mode, failures, streamVars, verdict, calls>>

\* Mutant: the last failure is slept over and forgotten.
GiveUp_Silently ==
    /\ phase = "failed"
    /\ ~MayRetry
    /\ phase' = "ended"
    /\ UNCHANGED <<mode, attempt, failures, streamVars, verdict, calls>>

GiveUp ==
    /\ phase = "failed"
    /\ ~MayRetry
    /\ phase' = "ended"
    /\ verdict' = "error"
    /\ UNCHANGED <<mode, attempt, failures, streamVars, calls>>

RequestNext ==
    \/ Unreachable \/ Rejected \/ Accepted
    \/ Scan \/ EndScan \/ ReadWhole \/ ReadFails
    \/ Retry \/ GiveUp

RequestSpec == RequestInit /\ [][RequestNext]_requestVars

\* http.Client.Timeout bounds connecting and reading; sleeping ends.
RequestFairSpec == RequestSpec /\ WF_requestVars(RequestNext)

-----------------------------------------------------------------------------
(* Properties.                                                             *)

RequestTypeOK ==
    /\ mode \in {"stream", "post"}
    /\ phase \in {"try", "reading", "failed", "ended"}
    /\ attempt \in 0..MaxRetries
    /\ failures \in Seq(Errors) /\ Len(failures) <= MaxRetries + 1
    /\ body \in Seq(Lines)
    /\ got \in 0..Len(body)
    /\ DOMAIN partial \subseteq Indices
    /\ \A i \in DOMAIN partial : partial[i] \in [named : BOOLEAN, pieces : Nat]
    /\ usage \in BOOLEAN
    /\ heard \in Seq(Nat \X Nat)
    /\ verdict \in {"none", "complete", "error"}
    /\ calls \in Seq([at : Indices, pieces : Nat])

\* A retry repeats nothing: the text the user has seen is, line by line, what
\* the current attempt has read, and an attempt that failed showed none
\* (ChatStream retries whole requests but never takes text back).
HeardOnce ==
    heard = LET texts == Filtered([i \in 1..got |-> i], {i \in 1..got : body[i].kind = "text"})
            IN  IF mode = "stream" /\ phase \in {"reading", "ended"} /\ verdict # "error"
                THEN [j \in 1..Len(texts) |-> <<attempt, texts[j]>>]
                ELSE <<>>

PiecesOf(i) == {n \in DOMAIN body : body[n].kind = "call" /\ body[n].at = i}

\* What the API promises of a body: indices count from 0, in order of first
\* appearance, and the first piece of a call names it.
WellFormed ==
    LET used == {i \in Indices : PiecesOf(i) # {}} IN
    /\ used = 0..(Cardinality(used) - 1)
    /\ \A i \in used : body[CHOOSE n \in PiecesOf(i) : \A m \in PiecesOf(i) : n <= m].named

\* A whole, well-formed response yields every call it holds, complete and in
\* index order, and its usage report, however the pieces interleave: no call
\* of an earlier attempt or of another index leaks in (streamRequest).
CallsWhole ==
    (mode = "stream" /\ verdict = "complete" /\ got = Len(body) /\ WellFormed) =>
        /\ Len(calls) = Cardinality({i \in Indices : PiecesOf(i) # {}})
        /\ \A j \in DOMAIN calls : /\ calls[j].at = j - 1
                                   /\ calls[j].pieces = Cardinality(PiecesOf(j - 1))
        /\ usage = \E n \in DOMAIN body : body[n].kind = "usage"

\* The retries are spent where they help: an error is reported at once when a
\* status says that trying again is useless, and otherwise only after
\* MaxRetries + 1 attempts, none of which followed such a status.
RetriesEarned ==
    /\ \A i \in 1..(Len(failures) - 1) : failures[i] # "status_fatal"
    /\ phase = "ended" =>
         \/ verdict = "complete"
         \/ /\ verdict = "error"
            /\ LastFailure = "status_fatal" \/ Len(failures) = MaxRetries + 1

\* An answer that is delivered as complete is the whole answer: a body that
\* stops early is an error (isRetriableErr: "Network errors (timeout,
\* connection refused, etc.) are retriable").
CompleteIsWhole == verdict = "complete" => got = Len(body)

RequestContract == INSTANCE StreamContract WITH pieces <- Len(heard)

\* Every request, with all its retries, looks to the engine like one answer.
KeepsStreamContract == RequestContract!Spec
=============================================================================
