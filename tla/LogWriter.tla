------------------------------ MODULE LogWriter -----------------------------
(***************************************************************************)
(* How log output becomes entries (inspector_logging.go).  A CaptureWriter *)
(* is written to by several goroutines, in pieces that need not be lines;  *)
(* a CaptureSlogHandler captures records of its own beside it.  Both pass  *)
(* everything on to what they wrap.  Written bytes are a sequence of       *)
(* symbols, "nl" is the line break.  RecordBuffers has the log buffer.     *)
(***************************************************************************)
EXTENDS Integers, Sequences, FiniteSets, SequencesExt, GoData, LoggerLevels

CONSTANTS LogGoroutines, \* goroutines that log
          LogPieces,     \* what one Write is given
          MaxLogCalls    \* bound: calls of Write and Handle

\* What is written; "record" stands for a record of its own.
LogSymbols  == {"text", "json", "error", "debug", "nl"}
LineSymbols == (LogSymbols \ {"nl"}) \cup {"record"}

ASSUME LogAssumption == MaxLogCalls \in Nat /\ LogPieces \subseteq Seq(LogSymbols)

VARIABLES
    partial,    \* CaptureWriter.partial
    captured,   \* the entries handed to LogCapture, in order
    logging,    \* where each goroutine is in Write or Handle
    locked,     \* all that was appended under the lock, in order (auxiliary)
    passedOn,   \* what reached the inner writer or handler, in order
    logCalls

logVars == <<partial, captured, logging, locked, passedOn, logCalls>>

NotLogging == [at |-> "none", piece |-> <<>>]

LogInit ==
    /\ partial = <<>>
    /\ captured = <<>>
    /\ logging = [g \in LogGoroutines |-> NotLogging]
    /\ locked = <<>>
    /\ passedOn = <<>>
    /\ logCalls = 0

-----------------------------------------------------------------------------
(* parseLogLevel.  The symbol "json" is {"level":"ERROR","msg":"debug ..."}, *)
(* a JSON object if it is the whole line.                                  *)

Keywords(symbol) == CASE symbol = "json"  -> {"error", "debug"}
                      [] symbol = "error" -> {"error"}
                      [] symbol = "debug" -> {"debug"}
                      [] OTHER            -> {}

\* Otherwise the first keyword of the list that occurs, not the first in the line.
ParseLogLevel(line) ==
    LET found == UNION {Keywords(line[i]) : i \in DOMAIN line}
    IN  IF line = <<"json">> THEN "error"
        ELSE IF "debug" \in found THEN "debug"
        ELSE IF "error" \in found THEN "error" ELSE "info"

LineBreak(s) == SelectInSeq(s, LAMBDA x : x = "nl")

-----------------------------------------------------------------------------
Call(g, at, piece) ==
    /\ logging[g] = NotLogging
    /\ logCalls < MaxLogCalls
    /\ logCalls' = logCalls + 1
    /\ logging' = [logging EXCEPT ![g] = [at |-> at, piece |-> piece]]

\* CaptureWriter.Write locks and appends.
Write(g, piece) ==
    /\ \A h \in LogGoroutines : logging[h].at # "cut"
    /\ Call(g, "cut", piece)
    /\ partial' = partial \o piece
    /\ locked' = locked \o piece
    /\ UNCHANGED <<captured, passedOn>>

\* Mutant: what follows a line in the same piece is dropped.
AfterLine_Drops(s) == <<>>

AfterLine(s) == SubSeq(s, LineBreak(s) + 1, Len(s))

\* It captures each complete line; other sources capture in between.
CaptureLine(g) ==
    /\ logging[g].at = "cut"
    /\ LineBreak(partial) > 0
    /\ LET line == SubSeq(partial, 1, LineBreak(partial) - 1)
       IN  captured' = Append(captured, [line |-> line, level |-> ParseLogLevel(line),
                                         source |-> "writer"])
    /\ partial' = AfterLine(partial)
    /\ UNCHANGED <<logging, locked, passedOn, logCalls>>

\* It unlocks before the inner writer is called.
WriteUnlocks(g) ==
    /\ logging[g].at = "cut"
    /\ LineBreak(partial) = 0
    /\ logging' = [logging EXCEPT ![g].at = "inner"]
    /\ UNCHANGED <<partial, captured, locked, passedOn, logCalls>>

\* CaptureSlogHandler.Handle; a record has its level, in capitals.
Handle(g) ==
    /\ Call(g, "inner", <<"record">>)
    /\ captured' = Append(captured, [line |-> <<"record">>, level |-> "INFO", source |-> "slog"])
    /\ UNCHANGED <<partial, locked, passedOn>>

PassOn(g) ==
    /\ logging[g].at = "inner"
    /\ passedOn' = Append(passedOn, logging[g].piece)
    /\ logging' = [logging EXCEPT ![g] = NotLogging]
    /\ UNCHANGED <<partial, captured, locked, logCalls>>

LogNext ==
    \E g \in LogGoroutines :
       \/ \E piece \in LogPieces : Write(g, piece)
       \/ CaptureLine(g) \/ WriteUnlocks(g) \/ Handle(g) \/ PassOn(g)

LogSpec == LogInit /\ [][LogNext]_logVars

-----------------------------------------------------------------------------
(* Properties.                                                             *)

Entries == [line : Seq(LineSymbols), level : {"debug", "info", "error", "INFO"},
            source : {"writer", "slog"}]

LogTypeOK ==
    /\ captured \in Seq(Entries)
    /\ \A g \in LogGoroutines : logging[g].at \in {"none", "cut", "inner"}
    /\ logCalls \in 0..MaxLogCalls

CapturedBy(source) == {i \in DOMAIN captured : captured[i].source = source}

\* The lines that writers wrote, with their ends.
WrittenLines ==
    LET entries == Filtered(captured, CapturedBy("writer"))
    IN  [i \in DOMAIN entries |-> Append(entries[i].line, "nl")]

\* Whatever pieces the lines come in, and whoever writes in between, the
\* captured lines and the rest that waits for its line break are what was
\* written, in the order it was written; a line's level occurs in it.  Nothing
\* waits that holds a line break once nobody writes, and each call has passed on
\* its piece unchanged, though maybe in another order than it was captured in.
LinesWhole ==
    /\ FlattenSeq(WrittenLines) \o partial = locked
    /\ \A i \in CapturedBy("writer") :
          LET e == captured[i]
          IN  e.level # "info" => \E k \in DOMAIN e.line : e.level \in Keywords(e.line[k])
    /\ (\A g \in LogGoroutines : logging[g] = NotLogging) =>
          /\ LineBreak(partial) = 0
          /\ Len(passedOn) = logCalls
          /\ Len(FlattenSeq(passedOn)) = Len(locked) + Cardinality(CapturedBy("slog"))

\* What is logged is captured whole, and the level that was set is told.
LogsRight == LinesWhole /\ LevelTold
=============================================================================
