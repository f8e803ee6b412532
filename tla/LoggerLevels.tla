----------------------------- MODULE LoggerLevels ---------------------------
(***************************************************************************)
(* The registry of loggers and the tools that read and set their levels    *)
(* (inspector_logging.go).  set_log_level looks the logger up under the    *)
(* registry's lock and sets it under the logger's own, later: the name may *)
(* have been registered anew in between.  One name is modelled.            *)
(*                                                                         *)
(* How reflection treats a logger depends on its methods: "named" has a    *)
(* SetLevel that takes the name of a level, "numbered" and "zap" one that  *)
(* takes its number, all three with a Level that is printed as a name;     *)
(* "readable" has only Level, "broken" a SetLevel that panics, "plain"     *)
(* none.  The numbers of a "numbered" logger begin with debug at 0, those  *)
(* of zap with debug at -1.                                                *)
(***************************************************************************)
EXTENDS Integers, Sequences

CONSTANTS LevelTools,   \* goroutines that call set_log_level
          SetLevels,    \* levels that are asked for
          MaxLoggers    \* bound: registrations

ASSUME LoggerAssumption ==
    /\ SetLevels \subseteq {"debug", "info", "warn", "error"}
    /\ MaxLoggers \in Nat

Settable    == {"named", "numbered", "zap"}
LoggerKinds == Settable \cup {"readable", "broken", "plain"}
OwnLevels   == {"debug", "info", "warn", "error", "dpanic"}

VARIABLES
    loggers,    \* every loggerInfo made, by number; the last one is registered
    setting,    \* the set_log_level calls that have looked the logger up
    reply       \* the last answer of set_log_level

levelVars == <<loggers, setting, reply>>

NotSetting == [logger |-> 0, level |-> "info"]
NoReply    == [logger |-> 0, level |-> "info", updated |-> FALSE]

LevelInit ==
    /\ loggers = <<>>
    /\ setting = [t \in LevelTools |-> NotSetting]
    /\ reply = NoReply

\* The one that the map holds; 0 when the name is not registered.
Registered == Len(loggers)

\* RegisterLogger replaces an earlier logger of the name.  "own" is the level
\* of the application's logger, "level" the one in the registry.
RegisterLogger(kind) ==
    /\ Registered < MaxLoggers
    /\ loggers' = Append(loggers, [kind |-> kind, own |-> "info", level |-> "info"])
    /\ reply' = NoReply
    /\ UNCHANGED setting

\* The lookup of set_log_level; an unknown name is an error.
LookUpLogger(t, level) ==
    /\ setting[t] = NotSetting
    /\ Registered > 0
    /\ setting' = [setting EXCEPT ![t] = [logger |-> Registered, level |-> level]]
    /\ reply' = NoReply
    /\ UNCHANGED loggers

\* The number that reflectCallSetLevel passes for a level, and the level that a
\* number is, counted from debug.
Number(level) ==
    CASE level = "debug" -> 0 [] level = "info" -> 1 [] level = "warn" -> 2 [] level = "error" -> 3

LevelAt(n) ==
    CASE n = 0 -> "debug" [] n = 1 -> "info" [] n = 2 -> "warn" [] n = 3 -> "error"
      [] n = 4 -> "dpanic"

DebugOf(kind) == IF kind = "zap" THEN -1 ELSE 0

\* What the logger's own level is once SetLevel was called.
Meant(info, level) ==
    CASE info.kind = "named"              -> level
      [] info.kind \in {"numbered", "zap"} -> LevelAt(Number(level) - DebugOf(info.kind))
      [] OTHER                            -> info.own

\* setLoggerLevel stores the level whether or not the logger can be set.
\* Mutant: only when it can.
Stored_IfSet(info, level) == IF info.kind \in Settable THEN level ELSE info.level

Stored(info, level) == level

SetLoggerLevel(t) ==
    /\ setting[t] # NotSetting
    /\ LET n     == setting[t].logger
           level == setting[t].level
       IN  /\ loggers' = [loggers EXCEPT ![n] = [kind  |-> @.kind,
                                                own   |-> Meant(@, level),
                                                level |-> Stored(@, level)]]
           /\ reply' = [logger |-> n, level |-> level, updated |-> loggers[n].kind \in Settable]
    /\ setting' = [setting EXCEPT ![t] = NotSetting]

LevelNext ==
    \/ \E kind \in LoggerKinds : RegisterLogger(kind)
    \/ \E t \in LevelTools :
          \/ \E level \in SetLevels : LookUpLogger(t, level)
          \/ SetLoggerLevel(t)

LevelSpec == LevelInit /\ [][LevelNext]_levelVars

\* getLoggerLevel asks the logger if it has a Level method.
GetLoggerLevel(n) ==
    IF loggers[n].kind = "plain" THEN loggers[n].level ELSE loggers[n].own

-----------------------------------------------------------------------------
(* Properties.                                                             *)

LevelTypeOK ==
    /\ loggers \in Seq([kind : LoggerKinds, own : OwnLevels, level : SetLevels \cup {"info"}])
    /\ Registered <= MaxLoggers
    /\ setting \in [LevelTools -> [logger : 0..MaxLoggers, level : SetLevels \cup {"info"}]]
    /\ reply \in [logger : 0..MaxLoggers, level : SetLevels \cup {"info"}, updated : BOOLEAN]

\* When set_log_level has just answered, get_log_level tells that level of a
\* logger that takes names, of one whose numbers begin with debug at 0 and of one
\* that can only be remembered, unless the name was registered anew while it ran:
\* then it has set a logger nobody asks for.  Of zap it tells that level or the
\* next, never another: the code asks for the next ("updated" is answered all
\* the same).  The warning is given just when the logger's own is untouched.
LevelTold ==
    reply.logger = Registered /\ reply # NoReply =>
        LET kind == loggers[Registered].kind
        IN  /\ kind \in {"named", "numbered", "plain"} => GetLoggerLevel(Registered) = reply.level
            /\ kind = "zap" => GetLoggerLevel(Registered) \in {reply.level, LevelAt(Number(reply.level) + 1)}
            /\ reply.updated <=> kind \in Settable
            /\ ~reply.updated => loggers[Registered].own = "info"
=============================================================================
