------------------------------- MODULE Logger -------------------------------
(***************************************************************************)
(* The log (FCSFilter/src/Logger.{h,cpp}): a line is printed when its      *)
(* level is at least the current one.  The lines the process has printed   *)
(* are a set of messages.                                                  *)
(***************************************************************************)
EXTENDS Integers

\* enum LogLevel, in its order
Debug == 0
Info == 1
Warning == 2
Error == 3
Fatal == 4
LogLevel == Debug .. Fatal

\* The names a command line may give.
LogLevelMap ==
  [Debug |-> Debug, Info |-> Info, Warning |-> Warning, Error |-> Error, Fatal |-> Fatal]

VARIABLES
  currentLogLevel,
  journal            \* what the process has printed

LoggerTypeOK == currentLogLevel \in LogLevel

\* A new process: the initial value of the static member, and nothing printed.
LoggerStart == currentLogLevel' = Info /\ journal' = {}

\* Fault: only lines above the current level are printed.
logAbove(message, level) ==
  journal' = IF level > currentLogLevel THEN journal \cup {message} ELSE journal

log(message, level) ==
  journal' = IF level >= currentLogLevel THEN journal \cup {message} ELSE journal

\* Whether the name is known; the level is left alone when it is not.
isLogLevel(name) == name \in DOMAIN LogLevelMap
setCurrentLogLevel(name) == currentLogLevel' = LogLevelMap[name]

=============================================================================
