-------------------------- MODULE FcsServiceProofs --------------------------
(***************************************************************************)
(* The process and its unit, for any command lines, clients and times:     *)
(* the state keeps its types, and a process that gives up has said why.    *)
(***************************************************************************)
EXTENDS FcsService, TLAPS

\* The unit file never changes.
USE DEF unitFile

\* setup is reached with a number for a port only.
PortRead == process \in {"setup", "listening"} => commandLine.port \in Int

ServiceInv == ServiceTypeOK /\ EndIsExplained /\ PortRead

LEMMA ServiceInitInv == ServiceInit => ServiceInv
<1> SUFFICES ASSUME ServiceInit PROVE ServiceInv
  OBVIOUS
<1>1. LoggerTypeOK
  BY DEF ServiceInit, LoggerTypeOK, LogLevel, Debug, Info, Fatal
<1>2. /\ boundPort \in 0 .. PortRange - 1 /\ linger \in 0 .. TimeWait
      /\ window \in 0 .. StartLimitInterval /\ starts \in 0 .. StartLimitBurst
      /\ commands \in 0 .. MaxCommands /\ failures \in 0 .. MaxFailures
  <2>1. /\ TimeWait \in Nat /\ StartLimitInterval \in Nat /\ StartLimitBurst \in Nat
        /\ MaxCommands \in Nat /\ MaxFailures \in Nat /\ PortRange - 1 \in Nat
    BY ServiceAssumption DEF ServiceAssumption, PortRange
  <2>2. \A n \in Nat : 0 \in 0 .. n
    OBVIOUS
  <2> QED BY <2>1, <2>2 DEF ServiceInit
<1>3. ServiceTypeOK
  BY <1>1, <1>2 DEF ServiceInit, ServiceTypeOK
<1> QED BY <1>3 DEF ServiceInit, ServiceInv, EndIsExplained, PortRead

-----------------------------------------------------------------------------
(* The log.                                                                 *)

(* A line of level Fatal is printed at every level, and one of level Error  *)
(* at every level but Fatal; nothing printed before is lost.                *)
LEMMA LogFacts ==
  ASSUME LoggerTypeOK, journal \subseteq Lines, UNCHANGED currentLogLevel,
         NEW message \in Lines, NEW level \in LogLevel, log(message, level)
  PROVE  /\ LoggerTypeOK' /\ journal' \subseteq Lines
         /\ level = Fatal => message \in journal'
         /\ level = Error => message \in journal' \/ currentLogLevel = Fatal
<1>1. journal' = journal \cup {message} \/ journal' = journal
  BY DEF log
<1>2. journal' \subseteq Lines
  BY <1>1
<1>3. currentLogLevel \in 0 .. 4 /\ level \in 0 .. 4
  BY DEF LoggerTypeOK, LogLevel, Debug, Fatal
<1>4. /\ level = Fatal => level >= currentLogLevel
      /\ level = Error => level >= currentLogLevel \/ currentLogLevel = Fatal
  BY <1>3 DEF Error, Fatal
<1>5. level >= currentLogLevel => message \in journal'
  BY Zenon DEF log
<1> QED BY <1>2, <1>4, <1>5, Zenon DEF LoggerTypeOK

-----------------------------------------------------------------------------
(* The ends of a process.                                                   *)

LEMMA CountersType ==
  ASSUME ServiceTypeOK, counters' = counters \/ Failure
  PROVE  commands' \in 0 .. MaxCommands /\ failures' \in 0 .. MaxFailures
BY ServiceAssumption DEF ServiceTypeOK, counters, Failure, ServiceAssumption

LEMMA EndsTypes ==
  ASSUME ServiceTypeOK, LoggerTypeOK', journal' \subseteq Lines,
         commands' \in 0 .. MaxCommands, failures' \in 0 .. MaxFailures,
         NEW how \in {"usage", "setup", "poll", "exception", "signal", "killed"}, Ends(how)
  PROVE  ServiceTypeOK'
<1>1. linger' \in 0 .. TimeWait
  BY ServiceAssumption DEF Ends, ServiceTypeOK, ServiceAssumption
<1>2. 0 \in 0 .. PortRange - 1
  BY DEF PortRange
<1> QED BY <1>1, <1>2 DEF Ends, ServiceTypeOK, unitVars

LEMMA FailsInv ==
  ASSUME ServiceInv, counters' = counters \/ Failure,
         NEW how, NEW level,
         \/ how \in {"usage", "setup", "exception"} /\ level = Fatal
         \/ how = "poll" /\ level = Error,
         Fails(how, level)
  PROVE  ServiceInv'
<1>1. level \in LogLevel /\ how \in Lines
  BY DEF LogLevel, Debug, Error, Fatal, Lines
<1>2. /\ LoggerTypeOK' /\ journal' \subseteq Lines
      /\ level = Fatal => how \in journal'
      /\ level = Error => how \in journal' \/ currentLogLevel' = Fatal
  BY <1>1, LogFacts DEF Fails, ServiceInv, ServiceTypeOK
<1>3. ServiceTypeOK'
  BY <1>2, EndsTypes, CountersType DEF Fails, ServiceInv
<1>4. process' = "none" /\ ended' = how
  BY DEF Fails, Ends
<1> QED BY <1>2, <1>3, <1>4 DEF ServiceInv, EndIsExplained, PortRead

\* Ends of which nothing need be said.
LEMMA SilentEndInv ==
  ASSUME ServiceInv, LoggerTypeOK', journal' \subseteq Lines,
         commands' \in 0 .. MaxCommands, failures' \in 0 .. MaxFailures,
         NEW how \in {"signal", "killed"}, Ends(how)
  PROVE  ServiceInv'
<1>1. ServiceTypeOK'
  BY EndsTypes DEF ServiceInv
<1>2. process' = "none" /\ ended' = how
  BY DEF Ends
<1> QED BY <1>1, <1>2 DEF ServiceInv, EndIsExplained, PortRead

-----------------------------------------------------------------------------
(* The steps.                                                               *)

(* What a step must respect when it neither ends a process nor prints.      *)
LEMMA QuietInv ==
  ASSUME ServiceInv, ServiceTypeOK',
         ended' = ended, logVars' = logVars, unitFile' = unitFile,
         process' = "none" => process = "none",
         process' \in {"setup", "listening"} => commandLine.port \in Int
  PROVE  ServiceInv'
BY DEF ServiceInv, EndIsExplained, PortRead, logVars

LEMMA StartingInv == ASSUME ServiceInv, Starting PROVE ServiceInv'
<1> USE DEF unitVars, counters, logVars
<1>2. CASE ReadLogLevel
  <2>1. CASE commandLine.argc = 3 /\ ~isLogLevel(commandLine.level)
    BY <1>2, <2>1, FailsInv DEF ReadLogLevel
  <2>2. CASE ~(commandLine.argc = 3 /\ ~isLogLevel(commandLine.level))
    <3>1. /\ process = "main" /\ process' = "arguments"
          /\ UNCHANGED <<unitFile, unit, job, timer, window, starts, boundPort, ended,
                         connected, linger, commands, failures, journal>>
      BY <1>2, <2>2 DEF ReadLogLevel
    <3>2. currentLogLevel' \in LogLevel
      <4>1. CASE commandLine.argc = 3
        <5>1. commandLine.level \in {"Debug", "Info", "Warning", "Error", "Fatal"}
          BY <2>2, <4>1 DEF isLogLevel, LogLevelMap
        <5>2. currentLogLevel' = LogLevelMap[commandLine.level]
          BY <1>2, <2>2, <4>1 DEF ReadLogLevel, setCurrentLogLevel
        <5> QED BY <5>1, <5>2 DEF LogLevelMap, LogLevel, Debug, Info, Warning, Error, Fatal
      <4>2. CASE commandLine.argc # 3
        BY <1>2, <2>2, <4>2 DEF ReadLogLevel, ServiceInv, ServiceTypeOK, LoggerTypeOK
      <4> QED BY <4>1, <4>2
    <3>3. ServiceTypeOK'
      BY <3>1, <3>2 DEF ServiceInv, ServiceTypeOK, LoggerTypeOK
    <3> QED BY <3>1, <3>3 DEF ServiceInv, EndIsExplained, PortRead
  <2> QED BY <2>1, <2>2
<1>3. CASE ReadPort
  <2>1. CASE commandLine.argc \notin {2, 3} \/ commandLine.port = NotANumber
    BY <1>3, <2>1, FailsInv DEF ReadPort
  <2>2. CASE ~(commandLine.argc \notin {2, 3} \/ commandLine.port = NotANumber)
    <3>1. /\ process' = "setup"
          /\ UNCHANGED <<unitFile, unit, job, timer, window, starts, boundPort, ended,
                         connected, linger, commands, failures, journal, currentLogLevel>>
      BY <1>3, <2>2 DEF ReadPort
    <3>2. commandLine.port \in Int
      BY <2>2, ServiceAssumption DEF ServiceInv, ServiceTypeOK, ServiceAssumption
    <3>3. ServiceTypeOK'
      BY <3>1 DEF ServiceInv, ServiceTypeOK, LoggerTypeOK
    <3> QED BY <3>1, <3>2, <3>3, QuietInv
  <2> QED BY <2>1, <2>2
<1>4. CASE SetupFails
  <2>1. counters' = counters \/ Failure
    BY <1>4 DEF SetupFails
  <2>2. Fails("setup", Fatal)
    BY <1>4 DEF SetupFails
  <2> QED BY <2>1, <2>2, FailsInv
<1>5. CASE SetupSucceeds
  <2>1. /\ process = "setup" /\ process' = "listening" /\ log("started", Info)
        /\ boundPort' = IF requestedPort = 0 THEN EphemeralPort ELSE requestedPort
        /\ UNCHANGED <<unitFile, unit, job, timer, window, starts, ended, connected, linger,
                       commands, failures, currentLogLevel>>
    BY <1>5 DEF SetupSucceeds
  <2>2. commandLine.port \in Int
    BY <2>1 DEF ServiceInv, PortRead
  <2>3. requestedPort \in 0 .. PortRange - 1
    <3>1. PortRange \in Nat \ {0}
      BY DEF PortRange
    <3>2. \A p \in Int, q \in Nat \ {0} : p % q \in 0 .. q - 1
      OBVIOUS
    <3> QED BY <2>2, <3>1, <3>2 DEF requestedPort
  <2>4. boundPort' \in 0 .. PortRange - 1
    <3>1. EphemeralPort \in 0 .. PortRange - 1
      <4>1. PortRange \in Nat
        BY DEF PortRange
      <4> QED BY <4>1, ServiceAssumption DEF ServiceAssumption
    <3> QED BY <2>1, <2>3, <3>1
  <2>5. LoggerTypeOK' /\ journal' \subseteq Lines
    <3>1. "started" \in Lines /\ Info \in LogLevel
      BY DEF Info, LogLevel, Debug, Fatal, Lines
    <3> QED BY <2>1, <3>1, LogFacts DEF ServiceInv, ServiceTypeOK
  <2>6. ServiceTypeOK'
    BY <2>1, <2>4, <2>5 DEF ServiceInv, ServiceTypeOK
  <2> QED BY <2>1, <2>2, <2>6 DEF ServiceInv, EndIsExplained, PortRead
<1> QED BY <1>2, <1>3, <1>4, <1>5 DEF Starting

LEMMA EndedInv ==
  ASSUME ServiceInv, PollFails \/ Throws \/ Killed \/ Sigkill
  PROVE  ServiceInv'
<1>1. CASE PollFails
  BY <1>1, FailsInv DEF PollFails
<1>2. CASE Throws
  BY <1>2, FailsInv DEF Throws
<1>3. CASE Killed \/ Sigkill
  <2>1. UNCHANGED <<journal, currentLogLevel>> /\ Ends("killed")
        /\ (counters' = counters \/ Failure)
    BY <1>3 DEF Killed, Sigkill, logVars
  <2>2. LoggerTypeOK' /\ journal' \subseteq Lines
    BY <2>1 DEF ServiceInv, ServiceTypeOK, LoggerTypeOK
  <2> QED BY <2>1, <2>2, SilentEndInv, CountersType DEF ServiceInv
<1> QED BY <1>1, <1>2, <1>3

\* Commands are counted as far as the bound.
LEMMA InterruptedInv ==
  ASSUME ServiceInv, Interrupted, commands' \in 0 .. MaxCommands
  PROVE  ServiceInv'
<1>1. /\ commands' \in 0 .. MaxCommands /\ UNCHANGED failures
      /\ failures' \in 0 .. MaxFailures
  BY DEF Interrupted, ServiceInv, ServiceTypeOK
<1>2. CASE Ends("signal") /\ log("signal", Info) /\ UNCHANGED currentLogLevel
  <2>1. "signal" \in Lines /\ Info \in LogLevel
    BY DEF Info, LogLevel, Debug, Fatal, Lines
  <2>2. LoggerTypeOK' /\ journal' \subseteq Lines
    BY <1>2, <2>1, LogFacts DEF ServiceInv, ServiceTypeOK
  <2> QED BY <1>1, <1>2, <2>2, SilentEndInv
<1>3. CASE Ends("killed") /\ UNCHANGED logVars
  <2>1. LoggerTypeOK' /\ journal' \subseteq Lines
    BY <1>3 DEF ServiceInv, ServiceTypeOK, LoggerTypeOK, logVars
  <2> QED BY <1>1, <1>3, <2>1, SilentEndInv
<1>4. CASE /\ process' = "stuck"
           /\ UNCHANGED <<unitFile, unitVars, boundPort, ended, connected, linger, logVars>>
  <2>1. ServiceTypeOK'
    BY <1>1, <1>4 DEF ServiceInv, ServiceTypeOK, LoggerTypeOK, logVars, unitVars
  <2> QED BY <1>4, <2>1, QuietInv
<1> QED BY <1>2, <1>3, <1>4 DEF Interrupted

LEMMA RunningInv == ASSUME ServiceInv, Running PROVE ServiceInv'
<1>1. CASE PollFails \/ Throws \/ Killed
  BY <1>1, EndedInv
<1>2. CASE onSignal \/ Kill
  <2>1. commands' \in 0 .. MaxCommands
    BY <1>2, ServiceAssumption
    DEF onSignal, Kill, Command, ServiceInv, ServiceTypeOK, ServiceAssumption
  <2> QED BY <1>2, <2>1, InterruptedInv DEF onSignal, Kill
<1>3. ASSUME NEW c \in Clients, Connect(c) \/ Disconnect(c) PROVE ServiceInv'
  <2>1. /\ connected' \subseteq Clients /\ linger' \in 0 .. TimeWait
        /\ UNCHANGED <<unitFile, unit, job, timer, window, starts, process, boundPort, ended,
                       commands, failures, currentLogLevel, journal>>
    BY <1>3, ServiceAssumption
    DEF Connect, Disconnect, unitVars, counters, logVars, ServiceInv, ServiceTypeOK,
        ServiceAssumption
  <2>2. ServiceTypeOK'
    BY <2>1 DEF ServiceInv, ServiceTypeOK, LoggerTypeOK
  <2> QED BY <2>1, <2>2, QuietInv DEF ServiceInv, PortRead, logVars
<1> QED BY <1>1, <1>2, <1>3 DEF Running

LEMMA LaunchInv ==
  ASSUME ServiceInv, Launch, commands' \in 0 .. MaxCommands
  PROVE  ServiceInv'
<1>1. UNCHANGED <<unitFile, boundPort, ended, connected, linger, failures>>
      /\ job' = "none" /\ timer' = 0 /\ timer' \in Nat
  BY DEF Launch
<1>2. CASE window > 0 /\ starts = StartLimitBurst
  <2>1. unit' = "failed" /\ UNCHANGED <<window, starts, process, currentLogLevel, journal>>
    BY <1>2 DEF Launch, logVars
  <2>2. ServiceTypeOK'
    BY <1>1, <2>1 DEF ServiceInv, ServiceTypeOK, LoggerTypeOK
  <2> QED BY <1>1, <2>1, <2>2, QuietInv DEF ServiceInv, PortRead, logVars
<1>3. CASE ~(window > 0 /\ starts = StartLimitBurst)
  <2>1. unit' = "active" /\ process' = "main" /\ currentLogLevel' = Info /\ journal' = {}
    BY <1>3 DEF Launch, LoggerStart
  <2>2. IF window = 0 THEN window' = StartLimitInterval /\ starts' = 1
                      ELSE starts' = starts + 1 /\ UNCHANGED window
    BY <1>3 DEF Launch
  <2>3. window' \in 0 .. StartLimitInterval /\ starts' \in 0 .. StartLimitBurst
    BY <1>3, <2>2, ServiceAssumption DEF ServiceInv, ServiceTypeOK, ServiceAssumption
  <2>4. LoggerTypeOK' /\ journal' \subseteq Lines
    BY <2>1 DEF LoggerTypeOK, LogLevel, Debug, Info, Fatal
  <2>5. ServiceTypeOK'
    BY <1>1, <2>1, <2>3, <2>4 DEF ServiceInv, ServiceTypeOK
  <2> QED BY <2>1, <2>5 DEF ServiceInv, EndIsExplained, PortRead
<1> QED BY <1>2, <1>3

LEMMA ReapInv == ASSUME ServiceInv, Reap PROVE ServiceInv'
<1>1. UNCHANGED commands /\ commands' \in 0 .. MaxCommands
  BY DEF Reap, ServiceInv, ServiceTypeOK
<1>2. CASE Launch
  BY <1>1, <1>2, LaunchInv
<1>3. CASE ~Launch
  <2>0. restartSec \in Nat
    BY ServiceAssumption DEF ServiceInv, ServiceTypeOK, ServiceAssumption
  <2>1. /\ unit' \in {"inactive", "waiting"} /\ job' = "none"
        /\ timer' \in Nat
        /\ UNCHANGED <<window, starts, process, unitFile, boundPort, ended, connected,
                       linger, failures, currentLogLevel, journal>>
    BY <1>3, <2>0 DEF Reap, logVars
  <2>2. ServiceTypeOK'
    BY <1>1, <2>1 DEF ServiceInv, ServiceTypeOK, LoggerTypeOK
  <2> QED BY <2>1, <2>2, QuietInv DEF ServiceInv, PortRead, logVars
<1> QED BY <1>2, <1>3

LEMMA CommandInv ==
  ASSUME ServiceInv, AutoRestart \/ systemctlStart \/ systemctlStop
  PROVE  ServiceInv'
<1>1. commands' \in 0 .. MaxCommands
  BY ServiceAssumption
  DEF AutoRestart, systemctlStart, systemctlStop, Command, ServiceInv, ServiceTypeOK,
      ServiceAssumption
<1>2. CASE AutoRestart \/ systemctlStart
  BY <1>1, <1>2, LaunchInv DEF AutoRestart, systemctlStart
<1>3. CASE systemctlStop
  <2>1. /\ unit' \in {unit, "inactive"} /\ job' \in {job, "stop", "restart"}
        /\ timer' \in Nat
        /\ UNCHANGED <<unitFile, window, starts, process, boundPort, ended, connected, linger,
                       failures, currentLogLevel, journal>>
    BY <1>3, ServiceAssumption
    DEF systemctlStop, logVars, ServiceAssumption
  <2>2. ServiceTypeOK'
    BY <1>1, <2>1 DEF ServiceInv, ServiceTypeOK, LoggerTypeOK
  <2> QED BY <2>1, <2>2, QuietInv DEF ServiceInv, PortRead, logVars
<1> QED BY <1>2, <1>3

LEMMA TickInv == ASSUME ServiceInv, Tick PROVE ServiceInv'
<1>1. /\ timer' \in Nat /\ window' \in 0 .. StartLimitInterval /\ linger' \in 0 .. TimeWait
  BY ServiceAssumption DEF Tick, less, ServiceInv, ServiceTypeOK, ServiceAssumption
<1>2. UNCHANGED <<unitFile, unit, job, process, boundPort, ended, connected, starts,
                  commands, failures, currentLogLevel, journal>>
  BY DEF Tick, counters, logVars
<1>3. ServiceTypeOK'
  BY <1>1, <1>2 DEF ServiceInv, ServiceTypeOK, LoggerTypeOK
<1> QED BY <1>2, <1>3, QuietInv DEF ServiceInv, PortRead, logVars

-----------------------------------------------------------------------------
(* The specification.                                                       *)

(* Types, explanations and ports hold in every reachable state.             *)
THEOREM ServiceInvariant == ServiceSpec => []ServiceInv
<1>1. ServiceInv /\ [ServiceNext]_serviceVars => ServiceInv'
  <2> SUFFICES ASSUME ServiceInv, [ServiceNext]_serviceVars PROVE ServiceInv'
    OBVIOUS
  <2>1. CASE ServiceNext
    BY <2>1, StartingInv, RunningInv, ReapInv, CommandInv, EndedInv, TickInv
    DEF ServiceNext, Systemd
  <2>2. CASE UNCHANGED serviceVars
    <3>1. UNCHANGED <<unitFile, unit, job, timer, window, starts, process, boundPort, ended,
                      connected, linger, commands, failures, currentLogLevel, journal>>
      BY <2>2 DEF serviceVars, unitVars, counters, logVars
    <3>2. ServiceTypeOK'
      BY <3>1 DEF ServiceInv, ServiceTypeOK, LoggerTypeOK
    <3> QED BY <3>1, <3>2, QuietInv DEF ServiceInv, PortRead, logVars
  <2> QED BY <2>1, <2>2
<1> QED BY <1>1, ServiceInitInv, PTL DEF ServiceSpec

(* The unit, the process and the log keep their types; bind is only ever    *)
(* given a port of sixteen bits.                                            *)
THEOREM ServiceTypeCorrect == ServiceSpec => []ServiceTypeOK
<1>1. ServiceInv => ServiceTypeOK
  BY DEF ServiceInv
<1> QED BY <1>1, ServiceInvariant, PTL

(* Whatever the command line, a process that gives up has printed why at    *)
(* the level it runs at (a failing poll at level Fatal excepted).           *)
THEOREM EndExplained == ServiceSpec => []EndIsExplained
<1>1. ServiceInv => EndIsExplained
  BY DEF ServiceInv
<1> QED BY <1>1, ServiceInvariant, PTL

=============================================================================
