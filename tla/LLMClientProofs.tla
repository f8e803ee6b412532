---------------------------- MODULE LLMClientProofs --------------------------
(***************************************************************************)
(* One request of the model client, for any number of retries and any      *)
(* response: it looks like one answer, its retries are spent where they    *)
(* help, its text is heard once and its tool calls are whole.              *)
(***************************************************************************)
EXTENDS LLMClient, GoDataProofs

USE ClientAssumption

\* Every attempt but the running one has failed, with an error worth another.
Attempts ==
    /\ attempt \in 0..MaxRetries
    /\ failures \in Seq(Errors)
    /\ Len(failures) = IF phase = "failed" \/ verdict = "error" THEN attempt + 1 ELSE attempt
    /\ \A i \in 1..attempt : failures[i] # "status_fatal"

\* Text is heard only of a streamed response that is read to its end: such an
\* attempt cannot fail any more.
HeardOfLast ==
    /\ heard \in Seq(Nat \X Nat)
    /\ heard # <<>> => mode = "stream" /\ phase \in {"reading", "ended"} /\ verdict # "error"

\* The verdict is there when the request has ended, and an error is one that
\* no retry was left for or that none would help.
Verdicts ==
    /\ phase \in {"try", "reading", "failed", "ended"}
    /\ verdict \in {"none", "complete", "error"}
    /\ phase = "ended" <=> verdict # "none"
    /\ verdict = "error" => LastFailure = "status_fatal" \/ Len(failures) = MaxRetries + 1
    /\ body \in Seq(Lines) /\ got \in Nat

Inv == Attempts /\ HeardOfLast /\ Verdicts

\* The first attempt has not begun: nothing failed, nothing was heard.
LEMMA InitRequest == RequestInit => Inv
<1> SUFFICES ASSUME RequestInit PROVE Inv
  OBVIOUS
<1>1. attempt = 0 /\ failures = <<>> /\ heard = <<>> /\ got = 0 /\ phase = "try" /\ verdict = "none"
  BY DEF RequestInit
<1>2. Len(failures) = 0 /\ failures \in Seq(Errors) /\ heard \in Seq(Nat \X Nat)
      /\ body \in Seq(Lines)
  BY <1>1 DEF RequestInit
<1> QED
  BY <1>1, <1>2 DEF Inv, Attempts, HeardOfLast, Verdicts

\* An attempt that fails has let nothing be heard.
LEMMA FailKeeps ==
    ASSUME Inv, NEW e \in Errors, Fail(e), phase \in {"try", "reading"},
           phase = "reading" => mode = "post",
           UNCHANGED <<mode, attempt, body, got, heard, verdict>>
    PROVE  Inv'
<1>1. phase' = "failed" /\ failures' = Append(failures, e) /\ verdict = "none"
  BY DEF Fail, Inv, Verdicts
<1>2. failures \in Seq(Errors) /\ Len(failures) = attempt /\ attempt \in Nat
  BY <1>1 DEF Inv, Attempts
<1>3. /\ failures' \in Seq(Errors) /\ Len(failures') = attempt + 1
      /\ \A i \in 1..attempt : failures'[i] = failures[i]
  BY <1>1, <1>2, AppendProperties
<1>4. Attempts'
  BY <1>1, <1>3 DEF Inv, Attempts
<1>5. heard = <<>>
  BY <1>1 DEF Inv, HeardOfLast
<1>6. HeardOfLast'
  BY <1>5 DEF Inv, HeardOfLast
<1>7. Verdicts'
  BY <1>1 DEF Inv, Verdicts
<1> QED
  BY <1>4, <1>6, <1>7 DEF Inv

\* Every step keeps the invariant.
LEMMA StepKeepsRequest == Inv /\ [RequestNext]_requestVars => Inv'
<1> SUFFICES ASSUME Inv, [RequestNext]_requestVars PROVE Inv'
  OBVIOUS
<1>1. CASE Unreachable
  BY <1>1, FailKeeps DEF Unreachable, streamVars, Errors
<1>2. CASE Rejected
  BY <1>2, FailKeeps DEF Rejected, streamVars, Errors
<1>3. CASE Accepted
  <2>1. body' \in Seq(Lines)
    BY <1>3 DEF Accepted, Bodies
  <2> QED
    BY <1>3, <2>1 DEF Accepted, Inv, Attempts, HeardOfLast, Verdicts, LastFailure
<1>4. CASE Scan
  <2>1. /\ phase = "reading" /\ mode = "stream" /\ got' = got + 1
        /\ heard' = heard \/ heard' = Append(heard, <<attempt, got + 1>>)
        /\ UNCHANGED <<mode, phase, attempt, failures, body, verdict>>
    <3>1. heard' = IF body[got + 1].kind = "text" THEN Append(heard, <<attempt, got + 1>>) ELSE heard
      BY <1>4 DEF Scan
    <3>2. phase = "reading" /\ mode = "stream" /\ got' = got + 1
      BY <1>4 DEF Scan
    <3>3. UNCHANGED <<mode, phase, attempt, failures, body, verdict>>
      BY <1>4 DEF Scan
    <3> QED
      BY <3>1, <3>2, <3>3
  <2>0. verdict = "none" /\ got \in Nat /\ attempt \in Nat
    BY <2>1 DEF Inv, Attempts, Verdicts
  <2>2. heard' \in Seq(Nat \X Nat)
    <3> DEFINE Places == Nat \X Nat
               place  == <<attempt, got + 1>>
    <3>1. heard \in Seq(Places) /\ place \in Places
      BY <2>0 DEF Inv, HeardOfLast
    <3> HIDE DEF Places, place
    <3>2. Append(heard, place) \in Seq(Places)
      BY <3>1, AppendProperties
    <3>3. heard' = heard \/ heard' = Append(heard, place)
      BY <2>1 DEF place
    <3>4. heard' \in Seq(Places)
      BY <3>1, <3>2, <3>3
    <3> QED
      BY <3>4 DEF Places
  <2>3. HeardOfLast'
    BY <2>0, <2>1, <2>2 DEF HeardOfLast
  <2>4. Attempts' /\ Verdicts'
    BY <2>0, <2>1 DEF Inv, Attempts, Verdicts, LastFailure
  <2> QED
    BY <2>3, <2>4 DEF Inv
<1>5. CASE EndScan
  BY <1>5 DEF EndScan, streamVars, Inv, Attempts, HeardOfLast, Verdicts, LastFailure
<1>6. CASE ReadWhole
  <2>1. /\ phase = "reading" /\ mode = "post" /\ phase' = "ended" /\ verdict' = "complete"
        /\ UNCHANGED <<mode, attempt, failures, body, heard>> /\ got' = Len(body)
    BY <1>6 DEF ReadWhole
  <2>2. body \in Seq(Lines) /\ got' \in Nat
    BY <2>1, LenProperties DEF Inv, Verdicts
  <2> QED
    BY <2>1, <2>2 DEF Inv, Attempts, HeardOfLast, Verdicts, LastFailure
<1>7. CASE ReadFails
  BY <1>7, FailKeeps DEF ReadFails, streamVars, Errors
<1>8. CASE Retry
  <2>1. /\ phase = "failed" /\ phase' = "try" /\ attempt' = attempt + 1 /\ verdict = "none"
        /\ UNCHANGED <<mode, failures, body, got, heard, verdict>>
        /\ LastFailure # "status_fatal" /\ attempt < MaxRetries
    BY <1>8 DEF Retry, MayRetry, Retriable, streamVars, Inv, Verdicts
  <2>2. failures[attempt + 1] # "status_fatal" /\ Len(failures) = attempt + 1 /\ attempt \in Nat
    BY <2>1 DEF Inv, Attempts, LastFailure
  <2>3. Attempts'
    BY <2>1, <2>2 DEF Inv, Attempts
  <2>4. HeardOfLast' /\ Verdicts'
    BY <2>1 DEF Inv, HeardOfLast, Verdicts, LastFailure
  <2> QED
    BY <2>3, <2>4 DEF Inv
<1>9. CASE GiveUp
  <2>1. /\ phase = "failed" /\ phase' = "ended" /\ verdict' = "error" /\ heard = <<>>
        /\ UNCHANGED <<mode, attempt, failures, body, got, heard>>
        /\ LastFailure = "status_fatal" \/ ~(attempt < MaxRetries)
    BY <1>9 DEF GiveUp, MayRetry, Retriable, streamVars, Inv, HeardOfLast
  <2>2. attempt \in 0..MaxRetries /\ Len(failures) = attempt + 1
    BY <2>1 DEF Inv, Attempts
  <2>3. LastFailure = "status_fatal" \/ Len(failures) = MaxRetries + 1
    BY <2>1, <2>2
  <2>4. Attempts'
    BY <2>1, <2>2 DEF Inv, Attempts
  <2>5. HeardOfLast' /\ Verdicts'
    BY <2>1, <2>3 DEF Inv, HeardOfLast, Verdicts, LastFailure
  <2> QED
    BY <2>4, <2>5 DEF Inv
<1>10. CASE UNCHANGED requestVars
  BY <1>10 DEF requestVars, Inv, Attempts, HeardOfLast, Verdicts, LastFailure
<1> QED
  BY <1>1, <1>2, <1>3, <1>4, <1>5, <1>6, <1>7, <1>8, <1>9, <1>10 DEF RequestNext

\* A request makes another attempt only after an error that one may help, and
\* reports an error only when none was left or none would help (chatStreamWithRetry,
\* postWithRetry).
THEOREM RetriesAreEarned == RequestSpec => []RetriesEarned
<1>1. ASSUME Inv PROVE RetriesEarned
  <2>1. \A i \in 1..(Len(failures) - 1) : failures[i] # "status_fatal"
    BY <1>1 DEF Inv, Attempts
  <2> QED
    BY <1>1, <2>1 DEF Inv, Verdicts, RetriesEarned
<1> QED
  BY InitRequest, StepKeepsRequest, <1>1, PTL DEF RequestSpec

\* Every step of the client is one of the contract's, or nothing to the engine.
LEMMA StepIsOneOfContract == Inv /\ [RequestNext]_requestVars => [RequestContract!Next]_(RequestContract!vars)
<1> SUFFICES ASSUME Inv, [RequestNext]_requestVars PROVE [RequestContract!Next]_(RequestContract!vars)
  OBVIOUS
<1> USE DEF RequestContract!Next, RequestContract!vars
<1>1. ASSUME UNCHANGED <<heard, verdict>> PROVE [RequestContract!Next]_(RequestContract!vars)
  BY <1>1
<1>2. CASE Unreachable \/ Rejected \/ Accepted \/ ReadFails \/ Retry
  BY <1>1, <1>2 DEF Unreachable, Rejected, Accepted, ReadFails, Retry, streamVars
<1>3. CASE Scan
  <2>1. verdict = "none" /\ verdict' = verdict /\ heard \in Seq(Nat \X Nat) /\ got \in Nat /\ attempt \in Nat
    BY <1>3 DEF Scan, Inv, Attempts, HeardOfLast, Verdicts
  <2>2. CASE heard' = heard
    BY <1>1, <2>1, <2>2
  <2>3. CASE heard' = Append(heard, <<attempt, got + 1>>)
    <3>1. Len(heard') = Len(heard) + 1
      BY <2>1, <2>3
    <3> QED
      BY <2>1, <3>1 DEF RequestContract!Hear
  <2> QED
    BY <1>3, <2>2, <2>3 DEF Scan
<1>4. CASE EndScan \/ ReadWhole
  BY <1>4 DEF EndScan, ReadWhole, streamVars, Inv, Verdicts, RequestContract!Conclude
<1>5. CASE GiveUp
  <2>1. heard = <<>> /\ heard' = heard /\ verdict = "none" /\ verdict' = "error"
    BY <1>5 DEF GiveUp, streamVars, Inv, HeardOfLast, Verdicts
  <2>2. Len(heard) = 0
    BY <2>1
  <2> QED
    BY <2>1, <2>2 DEF RequestContract!Conclude
<1>6. CASE UNCHANGED requestVars
  BY <1>1, <1>6 DEF requestVars
<1> QED
  BY <1>2, <1>3, <1>4, <1>5, <1>6 DEF RequestNext

\* With all its retries a request looks to the engine like one answer: pieces
\* of text, each once, then one verdict, and an error only when none was heard.
THEOREM ImplementsStreamContract == RequestSpec => KeepsStreamContract
<1>1. RequestInit => RequestContract!Init
  <2> SUFFICES ASSUME RequestInit PROVE RequestContract!Init
    OBVIOUS
  <2>1. heard = <<>> /\ verdict = "none"
    BY DEF RequestInit
  <2> QED
    BY <2>1 DEF RequestContract!Init
<1> QED
  BY InitRequest, StepKeepsRequest, StepIsOneOfContract, <1>1, PTL
     DEF RequestSpec, KeepsStreamContract, RequestContract!Spec

-----------------------------------------------------------------------------
(* What the parser keeps of the lines it has read.                         *)

TextLines(b, n) == {k \in 1..n : b[k].kind = "text"}

PiecesRead(b, n, i) == {k \in 1..n : b[k].kind = "call" /\ b[k].at = i}

\* The text heard of the first n lines of b, in attempt a.
HeardOf(b, n, a) ==
    [j \in 1..Cardinality(TextLines(b, n)) |-> <<a, Nth(TextLines(b, n), j)>>]

\* The entries of toolCallMap are those of the first n lines of b.
CallsRead(p, b, n) ==
    /\ DOMAIN p = {i \in Indices : PiecesRead(b, n, i) # {}}
    /\ \A i \in DOMAIN p :
          /\ p[i] \in [named : BOOLEAN, pieces : Nat]
          /\ p[i].named <=> \E k \in PiecesRead(b, n, i) : b[k].named
          /\ p[i].pieces = Cardinality(PiecesRead(b, n, i))

\* A streamed response is parsed as far as it is read, the other kind at its end.
ParserTold ==
    /\ mode \in {"stream", "post"}
    /\ got \in 0..Len(body)
    /\ usage \in BOOLEAN
    /\ mode = "stream" =>
          /\ CallsRead(partial, body, got)
          /\ usage <=> \E k \in 1..got : body[k].kind = "usage"
    /\ mode = "post" => partial = NoCalls /\ usage = FALSE

HeardTold ==
    heard = IF mode = "stream" /\ phase \in {"reading", "ended"} /\ verdict # "error"
            THEN HeardOf(body, got, attempt)
            ELSE <<>>

CallsTold ==
    calls = IF mode = "stream" /\ verdict = "complete" THEN Collected(partial) ELSE <<>>

ParserInv == Inv /\ ParserTold /\ HeardTold /\ CallsTold

\* The text HeardOnce filters from the lines read is the text of HeardOf.
LEMMA TextsAre ==
    ASSUME NEW b, NEW n \in Nat, NEW a
    PROVE  LET texts == Filtered([i \in 1..n |-> i], {i \in 1..n : b[i].kind = "text"})
           IN  [j \in 1..Len(texts) |-> <<a, texts[j]>>] = HeardOf(b, n, a)
<1> DEFINE lines == [i \in 1..n |-> i]
           chosen == TextLines(b, n)
           texts == Filtered(lines, chosen)
<1>1. lines \in Seq(Nat) /\ DOMAIN lines = 1..n /\ \A i \in 1..n : lines[i] = i
  OBVIOUS
<1>2. chosen \in SUBSET (DOMAIN lines) /\ \A i \in chosen : i \in 1..n
  BY DEF TextLines
<1> HIDE DEF lines, chosen
<1>3. /\ Len(texts) = Cardinality(chosen)
      /\ \A k \in 1..Cardinality(chosen) : Nth(chosen, k) \in chosen
                                          /\ texts[k] = lines[Nth(chosen, k)]
  BY ONLY <1>1, <1>2, FilteredIs
<1>4. \A k \in 1..Cardinality(chosen) : texts[k] = Nth(chosen, k)
  BY <1>1, <1>2, <1>3
<1> HIDE DEF texts
<1>5. [j \in 1..Len(texts) |-> <<a, texts[j]>>] = [j \in 1..Cardinality(chosen) |-> <<a, Nth(chosen, j)>>]
  BY <1>3, <1>4
<1> QED
  BY <1>5 DEF HeardOf, texts, lines, chosen, TextLines

\* One more line of text is heard after the others.
LEMMA OneMoreText ==
    ASSUME NEW b, NEW n \in Nat, NEW a
    PROVE  HeardOf(b, n + 1, a) = IF b[n + 1].kind = "text"
                                  THEN Append(HeardOf(b, n, a), <<a, n + 1>>)
                                  ELSE HeardOf(b, n, a)
<1> DEFINE old == TextLines(b, n)
           new == TextLines(b, n + 1)
           size == Cardinality(old)
<1>1. old \in SUBSET (1..n)
  BY DEF TextLines
<1>2. CASE b[n + 1].kind = "text"
  <2>1. new = old \cup {n + 1}
    BY <1>2 DEF TextLines
  <2> HIDE DEF old, new
  <2>2. /\ size \in Nat /\ Cardinality(new) = size + 1
        /\ \A k \in 1..size : Nth(new, k) = Nth(old, k)
        /\ Nth(new, size + 1) = n + 1
    BY <1>1, <2>1, NthGrows
  <2> HIDE DEF size
  <2> DEFINE h == [j \in 1..size |-> <<a, Nth(old, j)>>]
             g == [j \in 1..size + 1 |-> <<a, Nth(new, j)>>]
  <2>3. Append(h, <<a, n + 1>>) = [j \in 1..size + 1 |-> IF j = size + 1 THEN <<a, n + 1>> ELSE h[j]]
    BY <2>2
  <2>4. g = [j \in 1..size + 1 |-> IF j = size + 1 THEN <<a, n + 1>> ELSE h[j]]
    BY <2>2
  <2> QED
    BY <1>2, <2>2, <2>3, <2>4 DEF HeardOf, old, new, size
<1>3. CASE b[n + 1].kind # "text"
  <2>1. new = old
    BY <1>3 DEF TextLines
  <2> QED
    BY <1>3, <2>1 DEF HeardOf
<1> QED
  BY <1>2, <1>3

LEMMA NoTextYet == \A b, a : HeardOf(b, 0, a) = <<>>
<1> TAKE b, a
<1>1. TextLines(b, 0) = {}
  BY DEF TextLines
<1>2. Cardinality(TextLines(b, 0)) = 0
  BY <1>1, FS_EmptySet
<1> QED
  BY <1>2 DEF HeardOf

LEMMA PiecesFinite ==
    \A b, i : \A n \in Nat : /\ PiecesRead(b, n, i) \subseteq 1..n
                              /\ IsFiniteSet(PiecesRead(b, n, i))
                              /\ Cardinality(PiecesRead(b, n, i)) \in Nat
<1> TAKE b, i
<1> TAKE n \in Nat
<1>1. PiecesRead(b, n, i) \subseteq 1..n
  BY DEF PiecesRead
<1>2. IsFiniteSet(1..n)
  BY FS_Interval
<1> QED
  BY <1>1, <1>2, FS_Subset, FS_CardinalityType

\* A line that is no piece of a call leaves the entries right.
LEMMA OtherLineRead ==
    ASSUME NEW p, NEW b, NEW n \in Nat, CallsRead(p, b, n), b[n + 1].kind # "call"
    PROVE  CallsRead(p, b, n + 1)
<1>1. \A i : PiecesRead(b, n + 1, i) = PiecesRead(b, n, i)
  BY DEF PiecesRead
<1> QED
  BY <1>1 DEF CallsRead

\* Merge adds a piece to the entry of its call and to no other.
LEMMA PieceRead ==
    ASSUME NEW b, NEW n \in Nat, CallsRead(partial, b, n),
           b[n + 1].kind = "call", b[n + 1].at \in Indices, b[n + 1].named \in BOOLEAN
    PROVE  CallsRead(Merge(b[n + 1]), b, n + 1)
<1> DEFINE line == b[n + 1]
           x == line.at
           p == Merge(line)
           was(i) == PiecesRead(b, n, i)
           is(i) == PiecesRead(b, n + 1, i)
<1>1. is(x) = was(x) \cup {n + 1} /\ n + 1 \notin was(x)
  BY DEF PiecesRead
<1>2. \A i : i # x => is(i) = was(i)
  BY DEF PiecesRead
<1>3. Cardinality(is(x)) = Cardinality(was(x)) + 1 /\ Cardinality(was(x)) \in Nat
  BY <1>1, PiecesFinite, FS_AddElement
<1>4. DOMAIN p = DOMAIN partial \cup {x}
  BY DEF Merge
<1>5. \A i \in DOMAIN partial : i # x => p[i] = partial[i]
  BY DEF Merge
<1>6. /\ p[x] \in [named : BOOLEAN, pieces : Nat]
      /\ p[x].named <=> (\E k \in was(x) : b[k].named) \/ line.named
      /\ p[x].pieces = Cardinality(was(x)) + 1
  <2>1. CASE x \in DOMAIN partial
    <3>1. p[x] = [named |-> partial[x].named \/ line.named, pieces |-> partial[x].pieces + 1]
      BY <2>1 DEF Merge
    <3>2. /\ partial[x] \in [named : BOOLEAN, pieces : Nat]
          /\ partial[x].named <=> \E k \in was(x) : b[k].named
          /\ partial[x].pieces = Cardinality(was(x))
      BY <2>1 DEF CallsRead
    <3> HIDE DEF p, was
    <3> QED
      BY <3>1, <3>2
  <2>2. CASE x \notin DOMAIN partial
    <3>1. p[x] = [named |-> FALSE \/ line.named, pieces |-> 0 + 1]
      BY <2>2 DEF Merge
    <3>2. was(x) = {}
      BY <2>2 DEF CallsRead
    <3>3. Cardinality(was(x)) = 0
      BY <3>2, FS_EmptySet
    <3> HIDE DEF p, was
    <3> QED
      BY <3>1, <3>2, <3>3
  <2> QED
    BY <2>1, <2>2
<1> HIDE DEF p
<1>7. (\E k \in was(x) : b[k].named) \/ line.named <=> \E k \in is(x) : b[k].named
  BY <1>1
<1>8. /\ p[x] \in [named : BOOLEAN, pieces : Nat]
      /\ p[x].named <=> \E k \in is(x) : b[k].named
      /\ p[x].pieces = Cardinality(is(x))
  BY <1>3, <1>6, <1>7
<1>9. ASSUME NEW i \in DOMAIN p
      PROVE  /\ p[i] \in [named : BOOLEAN, pieces : Nat]
             /\ p[i].named <=> \E k \in is(i) : b[k].named
             /\ p[i].pieces = Cardinality(is(i))
  <2>1. CASE i = x
    BY <1>8, <2>1
  <2>2. CASE i # x
    <3>1. i \in DOMAIN partial /\ p[i] = partial[i] /\ is(i) = was(i)
      BY <1>2, <1>4, <1>5, <2>2
    <3>2. /\ partial[i] \in [named : BOOLEAN, pieces : Nat]
          /\ partial[i].named <=> \E k \in was(i) : b[k].named
          /\ partial[i].pieces = Cardinality(was(i))
      BY <3>1 DEF CallsRead
    <3> HIDE DEF is, was
    <3> QED
      BY <3>1, <3>2
  <2> QED
    BY <2>1, <2>2
<1>10. DOMAIN p = {i \in Indices : is(i) # {}}
  BY <1>1, <1>2, <1>4 DEF CallsRead
<1> QED
  BY <1>9, <1>10 DEF CallsRead, p

\* Every step keeps what the parser knows, what was heard and what is handed on.
LEMMA StepKeepsParser == ParserInv /\ [RequestNext]_requestVars => ParserInv'
<1> SUFFICES ASSUME ParserInv, [RequestNext]_requestVars PROVE ParserInv'
  OBVIOUS
<1>0. Inv /\ Inv'
  BY StepKeepsRequest DEF ParserInv
<1>1. ASSUME UNCHANGED <<mode, streamVars, calls>>, phase # "ended", phase' \in {"try", "failed"},
             verdict' = verdict, heard = <<>>
      PROVE  ParserInv'
  <2>1. ParserTold'
    BY <1>1 DEF ParserInv, ParserTold, streamVars
  <2>2. HeardTold'
    BY <1>1 DEF HeardTold, streamVars
  <2>3. CallsTold'
    BY <1>1 DEF ParserInv, CallsTold, streamVars
  <2> QED
    BY <1>0, <2>1, <2>2, <2>3 DEF ParserInv
<1>2. phase = "try" \/ phase = "failed" \/ mode = "post" => heard = <<>>
  BY DEF ParserInv, ParserTold, HeardTold
<1>3. CASE Unreachable \/ Rejected
  BY <1>1, <1>2, <1>3 DEF Unreachable, Rejected, Fail
<1>4. CASE ReadFails
  BY <1>1, <1>2, <1>4 DEF ReadFails, Fail
<1>5. CASE Retry
  BY <1>1, <1>2, <1>5 DEF Retry
<1>6. CASE Accepted
  <2>1. /\ phase' = "reading" /\ body' \in Seq(Lines) /\ got' = 0 /\ partial' = NoCalls
        /\ usage' = FALSE /\ heard' = <<>> /\ UNCHANGED <<mode, attempt, verdict, calls>>
    BY <1>0, <1>2, <1>6 DEF Accepted, Inv, Verdicts
  <2>2. 0 \in 0..Len(body')
    BY <2>1, LenProperties
  <2>3. CallsRead(partial', body', 0)
    <3>1. \A i : PiecesRead(body', 0, i) = {}
      BY DEF PiecesRead
    <3>2. DOMAIN NoCalls = {}
      BY DEF NoCalls
    <3> QED
      BY <2>1, <3>1, <3>2 DEF CallsRead
  <2>4. ParserTold'
    <3>1. 1..got' = {}
      BY <2>1
    <3> QED
      BY <2>1, <2>2, <2>3, <3>1 DEF ParserInv, ParserTold
  <2>5. HeardTold'
    BY <2>1, NoTextYet DEF HeardTold
  <2>6. verdict = "none"
    BY <1>0, <1>6 DEF Accepted, Inv, Verdicts
  <2>7. CallsTold'
    BY <2>1, <2>6 DEF ParserInv, CallsTold
  <2> QED
    BY <1>0, <2>4, <2>5, <2>7 DEF ParserInv
<1>7. CASE Scan
  <2> DEFINE line == body[got + 1]
  <2>1. /\ phase = "reading" /\ mode = "stream" /\ got < Len(body) /\ got' = got + 1
        /\ heard' = IF line.kind = "text" THEN Append(heard, <<attempt, got + 1>>) ELSE heard
        /\ partial' = IF line.kind = "call" THEN Merge(line) ELSE partial
        /\ usage' = (usage \/ line.kind = "usage")
        /\ UNCHANGED <<mode, phase, attempt, body, verdict, calls>>
    BY <1>7 DEF Scan
  <2>2. /\ verdict = "none" /\ got \in Nat /\ got + 1 \in 1..Len(body) /\ line \in Lines
        /\ got' \in 0..Len(body)
    BY <1>0, <2>1, LenProperties DEF Inv, Verdicts
  <2>3. CallsRead(partial', body, got + 1)
    <3>1. CallsRead(partial, body, got)
      BY <2>1 DEF ParserInv, ParserTold
    <3>2. line.kind = "call" => line.at \in Indices /\ line.named \in BOOLEAN
      BY <2>2 DEF Lines, CallLines
    <3> QED
      BY <2>1, <2>2, <3>1, <3>2, PieceRead, OtherLineRead
  <2>4. usage' \in BOOLEAN /\ (usage' <=> \E k \in 1..got + 1 : body[k].kind = "usage")
    <3>0. usage \in BOOLEAN
      BY DEF ParserInv, ParserTold
    <3>1. usage <=> \E k \in 1..got : body[k].kind = "usage"
      BY <2>1 DEF ParserInv, ParserTold
    <3>2. 1..got + 1 = (1..got) \cup {got + 1}
      BY <2>2
    <3> QED
      BY <2>1, <3>0, <3>1, <3>2
  <2>5. ParserTold'
    BY <2>1, <2>2, <2>3, <2>4 DEF ParserTold
  <2>6. heard' = HeardOf(body, got + 1, attempt)
    <3>1. heard = HeardOf(body, got, attempt)
      BY <2>1, <2>2 DEF ParserInv, HeardTold
    <3> QED
      BY <2>1, <2>2, <3>1, OneMoreText
  <2>7. HeardTold'
    BY <2>1, <2>2, <2>6 DEF HeardTold
  <2>8. CallsTold'
    BY <2>1, <2>2 DEF ParserInv, CallsTold
  <2> QED
    BY <1>0, <2>5, <2>7, <2>8 DEF ParserInv
<1>8. CASE EndScan
  <2>1. /\ phase = "reading" /\ mode = "stream" /\ phase' = "ended" /\ verdict' = "complete"
        /\ verdict = "none" /\ calls' = Collected(partial)
        /\ UNCHANGED <<mode, attempt, body, got, partial, usage, heard>>
    BY <1>0, <1>8 DEF EndScan, streamVars, Inv, Verdicts
  <2>2. ParserTold'
    BY <2>1 DEF ParserInv, ParserTold
  <2>3. HeardTold'
    BY <2>1 DEF ParserInv, HeardTold
  <2>4. CallsTold'
    BY <2>1 DEF CallsTold
  <2> QED
    BY <1>0, <2>2, <2>3, <2>4 DEF ParserInv
<1>9. CASE ReadWhole
  <2>1. /\ phase = "reading" /\ mode = "post" /\ verdict = "none" /\ body \in Seq(Lines)
        /\ got' = Len(body) /\ UNCHANGED <<mode, attempt, body, partial, usage, heard, calls>>
    BY <1>0, <1>9 DEF ReadWhole, Inv, Verdicts
  <2>2. got' \in 0..Len(body')
    BY <2>1, LenProperties
  <2>3. ParserTold'
    BY <2>1, <2>2 DEF ParserInv, ParserTold
  <2>4. HeardTold' /\ CallsTold'
    BY <2>1 DEF ParserInv, HeardTold, CallsTold
  <2> QED
    BY <1>0, <2>3, <2>4 DEF ParserInv
<1>10. CASE GiveUp
  <2>1. /\ phase' = "ended" /\ verdict' = "error" /\ verdict = "none" /\ heard = <<>>
        /\ UNCHANGED <<mode, body, got, partial, usage, heard, calls>>
    BY <1>0, <1>2, <1>10 DEF GiveUp, streamVars, Inv, Verdicts
  <2>2. ParserTold'
    BY <2>1 DEF ParserInv, ParserTold
  <2>3. HeardTold' /\ CallsTold'
    BY <2>1 DEF ParserInv, HeardTold, CallsTold
  <2> QED
    BY <1>0, <2>2, <2>3 DEF ParserInv
<1>11. CASE UNCHANGED requestVars
  <2>1. ParserTold' /\ CallsTold'
    BY <1>11 DEF requestVars, ParserInv, ParserTold, CallsTold
  <2>2. HeardTold'
    BY <1>11 DEF requestVars, ParserInv, HeardTold
  <2> QED
    BY <1>0, <2>1, <2>2 DEF ParserInv
<1> QED
  BY <1>3, <1>4, <1>5, <1>6, <1>7, <1>8, <1>9, <1>10, <1>11 DEF RequestNext

LEMMA InitParser == RequestInit => ParserInv
<1> SUFFICES ASSUME RequestInit PROVE ParserInv
  OBVIOUS
<1>1. /\ mode \in {"stream", "post"} /\ phase = "try" /\ body = <<>> /\ got = 0
      /\ partial = NoCalls /\ usage = FALSE /\ heard = <<>> /\ verdict = "none" /\ calls = <<>>
  BY DEF RequestInit
<1>2. CallsRead(partial, body, got)
  <2>1. \A i : PiecesRead(body, 0, i) = {}
    BY DEF PiecesRead
  <2>2. DOMAIN NoCalls = {}
    BY DEF NoCalls
  <2> QED
    BY <1>1, <2>1, <2>2 DEF CallsRead
<1>3. 1..got = {} /\ got \in 0..Len(body)
  BY <1>1
<1> QED
  BY <1>1, <1>2, <1>3, InitRequest DEF ParserInv, ParserTold, HeardTold, CallsTold

\* What EndScan hands on has an index and a number of pieces for each call.
LEMMA CollectedTyped ==
    ASSUME NEW p, DOMAIN p \subseteq Indices,
           \A i \in DOMAIN p : p[i] \in [named : BOOLEAN, pieces : Nat]
    PROVE  Collected(p) \in Seq([at : Indices, pieces : Nat])
<1> DEFINE n == Cardinality(DOMAIN p)
           order == [i \in 1..n |-> i - 1]
           chosen == {i \in DOMAIN order : i - 1 \in DOMAIN p /\ p[i - 1].named}
           here == Filtered(order, chosen)
           size == Len(here)
           call(j) == [at |-> here[j], pieces |-> p[here[j]].pieces]
<1>1. n \in Nat
  BY FS_Subset, FS_CardinalityType
<1>2. chosen \in SUBSET (DOMAIN order) /\ \A i \in chosen : order[i] \in DOMAIN p
  OBVIOUS
<1>3. order \in Seq(Int)
  <2> HIDE DEF n
  <2> QED
    BY <1>1
<1> HIDE DEF order, chosen
<1>4. /\ size \in Nat
      /\ size = Cardinality(chosen)
      /\ \A k \in 1..Cardinality(chosen) : Nth(chosen, k) \in chosen /\ here[k] = order[Nth(chosen, k)]
  BY ONLY <1>2, <1>3, FilteredIs
<1>5. \A k \in 1..size : here[k] \in DOMAIN p
  BY <1>2, <1>4
<1> HIDE DEF here, size
<1>6. \A k \in 1..size : call(k) \in [at : Indices, pieces : Nat]
  BY <1>5
<1>7. [k \in 1..size |-> call(k)] \in Seq([at : Indices, pieces : Nat])
  <2> DEFINE Calls == [at : Indices, pieces : Nat]
             c == [k \in 1..size |-> call(k)]
  <2>1. \A k \in 1..size : c[k] \in Calls
    BY <1>6
  <2>2. c \in [1..size -> Calls]
    <3> HIDE DEF Calls, call
    <3> QED
      BY <2>1
  <2> HIDE DEF Calls, c
  <2>3. c \in Seq(Calls)
    BY <1>4, <2>2
  <2> QED
    BY <2>3 DEF Calls, c
<1>8. Collected(p) = [k \in 1..size |-> call(k)]
  BY DEF Collected, order, chosen, here, size
<1> QED
  BY <1>7, <1>8

\* The types and bounds of a request's state (streamRequest, ChatStream).
THEOREM ClientTypes == RequestSpec => []RequestTypeOK
<1>1. ASSUME ParserInv PROVE RequestTypeOK
  <2> USE <1>1
  <2>1. /\ attempt \in 0..MaxRetries /\ failures \in Seq(Errors) /\ Len(failures) <= MaxRetries + 1
        /\ heard \in Seq(Nat \X Nat)
        /\ phase \in {"try", "reading", "failed", "ended"} /\ verdict \in {"none", "complete", "error"}
        /\ body \in Seq(Lines)
    BY DEF ParserInv, Inv, Attempts, HeardOfLast, Verdicts
  <2>2. mode \in {"stream", "post"} /\ got \in 0..Len(body) /\ usage \in BOOLEAN
    BY DEF ParserInv, ParserTold
  <2>3. /\ DOMAIN partial \subseteq Indices
        /\ \A i \in DOMAIN partial : partial[i] \in [named : BOOLEAN, pieces : Nat]
    BY DEF ParserInv, ParserTold, CallsRead, NoCalls
  <2>4. calls \in Seq([at : Indices, pieces : Nat])
    <3> DEFINE Calls == [at : Indices, pieces : Nat]
    <3>1. Collected(partial) \in Seq(Calls)
      BY <2>3, CollectedTyped
    <3> HIDE DEF Calls
    <3>2. calls = Collected(partial) \/ calls = <<>>
      BY DEF ParserInv, CallsTold
    <3>3. <<>> \in Seq(Calls)
      OBVIOUS
    <3>4. calls \in Seq(Calls)
      BY <3>1, <3>2, <3>3
    <3> QED
      BY <3>4 DEF Calls
  <2> QED
    BY <2>1, <2>2, <2>3, <2>4 DEF RequestTypeOK
<1> QED
  BY InitParser, StepKeepsParser, <1>1, PTL DEF RequestSpec

\* What was heard is the text of the lines the last attempt has read, line by
\* line, so no retry repeats any of it (ChatStream, streamRequest).
THEOREM TextIsHeardOnce == RequestSpec => []HeardOnce
<1>1. ASSUME ParserInv PROVE HeardOnce
  <2>1. got \in Nat
    BY <1>1 DEF ParserInv, Inv, Verdicts
  <2>2. heard = IF mode = "stream" /\ phase \in {"reading", "ended"} /\ verdict # "error"
                THEN HeardOf(body, got, attempt)
                ELSE <<>>
    BY <1>1 DEF ParserInv, HeardTold
  <2>3. HeardOf(body, got, attempt)
          = LET texts == Filtered([i \in 1..got |-> i], {i \in 1..got : body[i].kind = "text"})
            IN  [j \in 1..Len(texts) |-> <<attempt, texts[j]>>]
    BY <2>1, TextsAre
  <2> QED
    BY <2>2, <2>3 DEF HeardOnce
<1> QED
  BY InitParser, StepKeepsParser, <1>1, PTL DEF RequestSpec

\* When the indices of the calls count from 0 and each call is named, all of
\* them are handed on, in index order.
LEMMA CollectedAll ==
    ASSUME NEW p, NEW n \in Nat, DOMAIN p = 0..n - 1, \A i \in DOMAIN p : p[i].named
    PROVE  Collected(p) = [j \in 1..n |-> [at |-> j - 1, pieces |-> p[j - 1].pieces]]
<1> DEFINE order == [i \in 1..Cardinality(DOMAIN p) |-> i - 1]
           chosen == {i \in DOMAIN order : i - 1 \in DOMAIN p /\ p[i - 1].named}
           here == Filtered(order, chosen)
<1>1. Cardinality(DOMAIN p) = n
  <2>1. 0 \in Int /\ n - 1 \in Int
    OBVIOUS
  <2>2. Cardinality(0..n - 1) = IF 0 > n - 1 THEN 0 ELSE n - 1 - 0 + 1
    BY <2>1, FS_Interval
  <2> QED
    BY <2>2
<1>2. order \in Seq(Int) /\ DOMAIN order = 1..n /\ \A k \in 1..n : order[k] = k - 1
  BY <1>1
<1>3. chosen = 1..n
  <2> HIDE DEF order
  <2>1. \A i \in 1..n : i - 1 \in DOMAIN p /\ p[i - 1].named
    OBVIOUS
  <2> QED
    BY <1>2, <2>1
<1> HIDE DEF order, chosen
<1>4. Cardinality(1..n) = n /\ \A k \in 1..n : Nth(1..n, k) = k
  BY NthOfAll
<1>5. chosen \in SUBSET (DOMAIN order)
  BY <1>2, <1>3
<1>6. /\ Len(here) = Cardinality(chosen)
      /\ \A k \in 1..Cardinality(chosen) : here[k] = order[Nth(chosen, k)]
  BY ONLY <1>2, <1>5, FilteredIs
<1>7. Len(here) = n /\ \A k \in 1..n : here[k] = k - 1
  BY <1>2, <1>3, <1>4, <1>6
<1> HIDE DEF here
<1>8. [j \in 1..Len(here) |-> [at |-> here[j], pieces |-> p[here[j]].pieces]]
        = [j \in 1..n |-> [at |-> j - 1, pieces |-> p[j - 1].pieces]]
  BY <1>7
<1> QED
  BY <1>8 DEF Collected, order, chosen, here

\* A response that was read whole, whose calls count from 0 and begin with
\* their names, yields every call with all its pieces, and its usage report
\* (streamRequest).
THEOREM CallsAreWhole == RequestSpec => []CallsWhole
<1>1. ASSUME ParserInv PROVE CallsWhole
  <2> SUFFICES ASSUME mode = "stream", verdict = "complete", got = Len(body), WellFormed
               PROVE  /\ Len(calls) = Cardinality({i \in Indices : PiecesOf(i) # {}})
                      /\ \A j \in DOMAIN calls : /\ calls[j].at = j - 1
                                                 /\ calls[j].pieces = Cardinality(PiecesOf(j - 1))
                      /\ usage = \E n \in DOMAIN body : body[n].kind = "usage"
    BY Zenon DEF CallsWhole
  <2> DEFINE used == {i \in Indices : PiecesOf(i) # {}}
             size == Cardinality(used)
  <2>1. /\ CallsRead(partial, body, got) /\ usage \in BOOLEAN
        /\ usage <=> \E k \in 1..got : body[k].kind = "usage"
        /\ body \in Seq(Lines) /\ calls = Collected(partial) /\ got \in Nat
    BY <1>1 DEF ParserInv, ParserTold, CallsTold, Inv, Verdicts
  <2>2. DOMAIN body = 1..got
    BY <2>1
  <2>3. \A i : PiecesOf(i) = PiecesRead(body, got, i)
    BY <2>2 DEF PiecesOf, PiecesRead
  <2>4. usage = \E n \in DOMAIN body : body[n].kind = "usage"
    <3>1. usage <=> \E n \in DOMAIN body : body[n].kind = "usage"
      BY <2>1, <2>2
    <3> QED
      BY <2>1, <3>1, Zenon
  <2>5. /\ DOMAIN partial = used
        /\ \A i \in used : /\ partial[i].named <=> \E k \in PiecesOf(i) : body[k].named
                           /\ partial[i].pieces = Cardinality(PiecesOf(i))
    BY <2>1, <2>3 DEF CallsRead
  <2>6. size \in Nat
    BY FS_Subset, FS_CardinalityType
  <2>7. used = 0..size - 1
    BY DEF WellFormed
  <2>8. ASSUME NEW i \in used PROVE partial[i].named
    <3> DEFINE first == CHOOSE n \in PiecesOf(i) : \A m \in PiecesOf(i) : n <= m
    <3>1. body[first].named
      BY DEF WellFormed
    <3>2. PiecesOf(i) \in SUBSET Nat /\ PiecesOf(i) # {}
      BY <2>1, <2>3, PiecesFinite
    <3>3. \E n \in PiecesOf(i) : \A m \in PiecesOf(i) : n <= m
      BY <3>2, LeastNumber
    <3>4. first \in PiecesOf(i)
      BY <3>3
    <3> QED
      BY <2>5, <3>1, <3>4
  <2> HIDE DEF used, size
  <2>9. calls = [j \in 1..size |-> [at |-> j - 1, pieces |-> partial[j - 1].pieces]]
    BY ZenonT(60), <2>1, <2>5, <2>6, <2>7, <2>8, CollectedAll
  <2>10. /\ Len(calls) = size /\ DOMAIN calls = 1..size
         /\ \A j \in 1..size : calls[j].at = j - 1 /\ calls[j].pieces = partial[j - 1].pieces
    BY <2>6, <2>9
  <2>11. \A j \in 1..size : j - 1 \in used
    BY <2>6, <2>7
  <2>12. \A j \in DOMAIN calls : /\ calls[j].at = j - 1
                                /\ calls[j].pieces = Cardinality(PiecesOf(j - 1))
    BY <2>5, <2>10, <2>11
  <2> QED
    BY <2>4, <2>10, <2>12, Zenon DEF used, size
<1> QED
  BY InitParser, StepKeepsParser, <1>1, PTL DEF RequestSpec
=============================================================================
