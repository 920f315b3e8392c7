----------------------------- MODULE FcsService -----------------------------
(***************************************************************************)
(* The life of the server process under systemd: the command line          *)
(* (FCSServer/src/main.cpp), setup() binding the listening address         *)
(* (FCSServer/src/TcpServer.cpp), the ways the process ends, and the unit  *)
(* that starts it again (FCSServer/fcsServer.service).                     *)
(*                                                                         *)
(* What happens between clients and a listening process is TcpServer's     *)
(* business; here a connection only matters for what its end leaves on the *)
(* address: whoever closes first keeps it in TIME_WAIT.  Time is counted   *)
(* in ticks, and passes only when nothing is about to happen at once.      *)
(***************************************************************************)
EXTENDS Logger, FiniteSets

CONSTANTS
  Clients,
  CommandLines,        \* what ExecStart may give the process
  NotANumber,          \* a port argument std::stoi rejects
  EphemeralPort,       \* a port the kernel chooses
  RestartDelays,       \* RestartSec, 100 ms unless the unit says otherwise
  StartLimitInterval,  \* StartLimitIntervalSec
  StartLimitBurst,
  TimeWait,            \* how long a closed connection keeps the address
  StopTimeout,         \* TimeoutStopSec
  MaxCommands,         \* bound: systemctl commands
  MaxFailures          \* bound: failures whose cause is not the address in use

PortRange == 65536     \* sin_port has sixteen bits

ASSUME ServiceAssumption ==
  /\ CommandLines \subseteq [argc : 1 .. 4, port : Int \cup {NotANumber}, level : STRING]
  /\ NotANumber \notin Int
  /\ EphemeralPort \in 1 .. PortRange - 1
  /\ RestartDelays \subseteq Nat /\ StartLimitInterval \in Nat /\ TimeWait \in Nat
  /\ StopTimeout \in Nat /\ MaxCommands \in Nat /\ MaxFailures \in Nat
  /\ StartLimitBurst \in Nat \ {0}

VARIABLES
  commandLine,  \* ExecStart and RestartSec of the unit file
  restartSec,
  unit,         \* "inactive", "active", "waiting" (to start again) or "failed"
  job,          \* what systemctl is waiting for: "none", "stop" or "restart"
  process,      \* "none", "main", "arguments", "setup", "listening" or "stuck"
  boundPort,    \* the listening port; 0 when there is none
  ended,        \* how the last process ended
  connected,    \* clients with a connection
  linger,       \* ticks until no connection is in TIME_WAIT
  timer,        \* ticks until the unit starts or kills the process
  window,       \* ticks left of the interval in which starts are counted
  starts,       \* starts in it
  commands,     \* systemctl commands so far
  failures      \* failures so far

unitFile == <<commandLine, restartSec>>
unitVars == <<unit, job, timer, window, starts>>
logVars == <<currentLogLevel, journal>>
counters == <<commands, failures>>
serviceVars ==
  <<unitFile, unitVars, process, boundPort, ended, connected, linger, counters,
    logVars>>

\* What main, TcpServer and the signal handler print of a process's life.
Lines == {"usage", "setup", "started", "poll", "exception", "signal"}

ServiceTypeOK ==
  /\ commandLine \in CommandLines /\ restartSec \in RestartDelays
  /\ unit \in {"inactive", "active", "waiting", "failed"}
  /\ job \in {"none", "stop", "restart"}
  /\ process \in {"none", "main", "arguments", "setup", "listening", "stuck"}
  /\ boundPort \in 0 .. PortRange - 1
  /\ ended \in {"never", "usage", "setup", "poll", "exception", "signal", "killed"}
  /\ connected \subseteq Clients
  /\ linger \in 0 .. TimeWait
  /\ timer \in Nat /\ window \in 0 .. StartLimitInterval
  /\ starts \in 0 .. StartLimitBurst
  /\ commands \in 0 .. MaxCommands /\ failures \in 0 .. MaxFailures
  /\ LoggerTypeOK /\ journal \subseteq Lines

ServiceInit ==
  /\ commandLine \in CommandLines /\ restartSec \in RestartDelays
  /\ unit = "inactive" /\ job = "none" /\ process = "none" /\ ended = "never"
  /\ boundPort = 0 /\ connected = {} /\ linger = 0
  /\ timer = 0 /\ window = 0 /\ starts = 0 /\ commands = 0 /\ failures = 0
  /\ currentLogLevel = Info /\ journal = {}

-----------------------------------------------------------------------------
(* The end of a process.  The kernel closes its sockets: a connection whose *)
(* client has closed first, or with unread data, leaves nothing behind.     *)

Ends(how) ==
  /\ process' = "none"
  /\ ended' = how
  /\ boundPort' = 0
  /\ connected' = {}
  /\ linger' \in IF connected = {} THEN {linger} ELSE {linger, TimeWait}
  /\ UNCHANGED <<unitFile, unitVars>>

\* exit(1) after a line of the log.
Fails(how, level) == Ends(how) /\ log(how, level) /\ UNCHANGED currentLogLevel

-----------------------------------------------------------------------------
(* main and setup.                                                          *)

ReadLogLevel ==
  /\ process = "main"
  /\ IF commandLine.argc = 3 /\ ~isLogLevel(commandLine.level)
     THEN Fails("usage", Fatal) /\ UNCHANGED counters
     ELSE /\ process' = "arguments"
          /\ IF commandLine.argc = 3
             THEN setCurrentLogLevel(commandLine.level)
             ELSE UNCHANGED currentLogLevel
          /\ UNCHANGED <<unitFile, unitVars, boundPort, ended, connected, linger, counters,
                         journal>>

ReadPort ==
  /\ process = "arguments"
  /\ IF commandLine.argc \notin {2, 3} \/ commandLine.port = NotANumber
     THEN Fails("usage", Fatal) /\ UNCHANGED counters
     ELSE /\ process' = "setup"
          /\ UNCHANGED <<unitFile, unitVars, boundPort, ended, connected, linger, counters,
                         logVars>>

\* Fault: htons forgotten, and with it the cut.
requestedPortUncut == commandLine.port

\* htons(portNumber): the number is cut to sixteen bits, and 0 asks for any port.
requestedPort == commandLine.port % PortRange

\* Without SO_REUSEADDR the address is in use while a connection lingers on it.
AddressInUse == linger > 0 /\ requestedPort # 0

Failure == failures < MaxFailures /\ failures' = failures + 1 /\ UNCHANGED commands

\* bind finds the address in use, or socket, bind or listen fails otherwise.
SetupFails ==
  /\ process = "setup"
  /\ \/ AddressInUse /\ UNCHANGED counters
     \/ Failure
  /\ Fails("setup", Fatal)

SetupSucceeds ==
  /\ process = "setup"
  /\ ~AddressInUse
  /\ process' = "listening"
  /\ boundPort' = IF requestedPort = 0 THEN EphemeralPort ELSE requestedPort
  /\ log("started", Info)
  /\ UNCHANGED <<unitFile, unitVars, ended, connected, linger, counters, currentLogLevel>>

-----------------------------------------------------------------------------
(* run().                                                                   *)

Connect(c) ==
  /\ process = "listening" /\ c \notin connected
  /\ connected' = connected \cup {c}
  /\ UNCHANGED <<unitFile, unitVars, process, boundPort, ended, linger, counters, logVars>>

\* The client closes first, or the server does: idle, or no data to send.
Disconnect(c) ==
  /\ process = "listening" /\ c \in connected
  /\ connected' = connected \ {c}
  /\ linger' \in {linger, TimeWait}
  /\ UNCHANGED <<unitFile, unitVars, process, boundPort, ended, counters, logVars>>

PollFails == process = "listening" /\ Failure /\ Fails("poll", Error)

\* An exception leaves run() and main logs it.
Throws == process = "listening" /\ Failure /\ Fails("exception", Fatal)

\* SIGPIPE, or a fault the log says nothing of.
Killed == process = "listening" /\ Failure /\ Ends("killed") /\ UNCHANGED logVars

-----------------------------------------------------------------------------
(* systemd.                                                                 *)

\* Faults: Restart=on-failure, and Restart=on-abnormal.
RestartsAfterFailure == ended \in {"usage", "setup", "poll", "exception", "killed"}
RestartsAfterKill == ended = "killed"

\* Restart=always: however the process has ended.
Restarts == ended # "never"

\* At most StartLimitBurst starts in an interval; the unit fails for good otherwise.
Launch ==
  /\ job' = "none"
  /\ timer' = 0
  /\ IF window > 0 /\ starts = StartLimitBurst
     THEN /\ unit' = "failed"
          /\ UNCHANGED <<window, starts, process, logVars>>
     ELSE /\ unit' = "active"
          /\ process' = "main"
          /\ IF window = 0
             THEN window' = StartLimitInterval /\ starts' = 1
             ELSE starts' = starts + 1 /\ UNCHANGED window
          /\ LoggerStart
  /\ UNCHANGED <<unitFile, boundPort, ended, connected, linger, failures>>

\* The process of an active unit is gone.
Reap ==
  /\ unit = "active" /\ process = "none"
  /\ \/ job = "restart" /\ Launch
     \/ /\ job = "stop" \/ (job = "none" /\ ~Restarts)
        /\ unit' = "inactive" /\ job' = "none" /\ timer' = 0
        /\ UNCHANGED <<window, starts, process, unitFile, boundPort, ended, connected,
                       linger, failures, logVars>>
     \/ /\ job = "none" /\ Restarts
        /\ unit' = "waiting" /\ timer' = restartSec
        /\ UNCHANGED <<job, window, starts, process, unitFile, boundPort, ended, connected,
                       linger, failures, logVars>>
  /\ UNCHANGED commands

AutoRestart == unit = "waiting" /\ timer = 0 /\ Launch /\ UNCHANGED commands

Command == commands < MaxCommands /\ commands' = commands + 1

systemctlStart == Command /\ unit \in {"inactive", "failed"} /\ Launch

\* SIGTERM, and SIGKILL when the process has not ended in time.
systemctlStop ==
  /\ Command
  /\ job = "none"
  /\ \/ /\ unit = "active"
        /\ job' \in {"stop", "restart"}
        /\ timer' = StopTimeout
        /\ UNCHANGED unit
     \/ /\ unit = "waiting"
        /\ unit' = "inactive" /\ timer' = 0
        /\ UNCHANGED job
  /\ UNCHANGED <<unitFile, window, starts, process, boundPort, ended, connected, linger,
                 failures, logVars>>

Sigkill ==
  /\ process \in {"listening", "stuck"} /\ job # "none" /\ timer = 0
  /\ Ends("killed")
  /\ UNCHANGED <<counters, logVars>>

\* The handler calls closeSockets and exit.  It also allocates and prints, which a
\* handler must not do: interrupted in the middle of such a call, the process may
\* end otherwise or not at all.
Interrupted ==
  /\ process \in {"main", "arguments", "setup", "listening"}
  /\ \/ Ends("signal") /\ log("signal", Info) /\ UNCHANGED currentLogLevel
     \/ Ends("killed") /\ UNCHANGED logVars
     \/ /\ process' = "stuck"
        /\ UNCHANGED <<unitFile, unitVars, boundPort, ended, connected, linger, logVars>>
  /\ UNCHANGED failures

onSignal == job # "none" /\ Interrupted /\ UNCHANGED commands

\* SIGINT or SIGTERM from elsewhere.
Kill == Command /\ job = "none" /\ Interrupted

-----------------------------------------------------------------------------
(* Time.  A process that starts, an exit systemd has not seen, a timer that *)
(* has run out and a signal on its way take no ticks.                       *)

Due ==
  \/ process \in {"main", "arguments", "setup"}
  \/ unit = "active" /\ process = "none"
  \/ unit = "waiting" /\ timer = 0
  \/ job # "none" /\ (process = "listening" \/ timer = 0)

less(n) == IF n = 0 THEN 0 ELSE n - 1

Tick ==
  /\ ~Due
  /\ linger + timer + window > 0
  /\ linger' = less(linger) /\ timer' = less(timer) /\ window' = less(window)
  /\ UNCHANGED <<unitFile, unit, job, process, boundPort, ended, connected, starts,
                 counters, logVars>>

Starting == ReadLogLevel \/ ReadPort \/ SetupFails \/ SetupSucceeds

Running ==
  \/ PollFails \/ Throws \/ Killed \/ onSignal \/ Kill
  \/ \E c \in Clients : Connect(c) \/ Disconnect(c)

Systemd == Reap \/ AutoRestart \/ Sigkill

ServiceNext ==
  Starting \/ Running \/ Systemd \/ systemctlStart \/ systemctlStop \/ Tick

ServiceSpec == ServiceInit /\ [][ServiceNext]_serviceVars

\* A process that starts or is interrupted goes on, systemd reacts, time passes.
ServiceFairness ==
  /\ WF_serviceVars(Starting)
  /\ WF_serviceVars(onSignal)
  /\ WF_serviceVars(Systemd)
  /\ WF_serviceVars(Tick)

FairServiceSpec == ServiceSpec /\ ServiceFairness

-----------------------------------------------------------------------------
(* Correctness.                                                             *)

(* A process that gives up by itself has said why, whatever log level it    *)
(* runs at: the level is set before the arguments are looked at.  Only a    *)
(* failing poll is silent, at level Fatal (TcpServer.cpp:60).               *)
EndIsExplained ==
  /\ ended \in {"usage", "setup", "exception"} /\ process = "none" => ended \in journal
  /\ ended = "poll" /\ process = "none" => ended \in journal \/ currentLogLevel = Fatal

\* A command line main accepts, with a port TCP has.
Usable(line) ==
  /\ line.argc \in {2, 3} /\ line.port \in 0 .. PortRange - 1
  /\ line.argc = 3 => isLogLevel(line.level)

(* "Restart FCS Server: systemctl restart fcsServer" (README.md:86-89): a   *)
(* restart leads to a listening server, unless another command comes first. *)
RestartComesBack ==
  \A n \in 0 .. MaxCommands :
    (Usable(commandLine) /\ job = "restart" /\ commands = n)
      ~> (process = "listening" /\ job = "none") \/ commands > n

\* The delays with which an interval never holds more starts than are allowed,
\* those by command included.
Spaced == {d \in RestartDelays : (StartLimitBurst - MaxCommands) * d >= StartLimitInterval}

(* The same where RestartSec spaces the starts: the address is in use for a *)
(* while, but the unit outlasts it.                                         *)
SpacedRestartComesBack ==
  \A n \in 0 .. MaxCommands :
    (/\ restartSec \in Spaced /\ Usable(commandLine)
     /\ job = "restart" /\ commands = n)
      ~> (process = "listening" /\ job = "none") \/ commands > n

\* The start limit: the unit has failed, and it has been started too often.
LimitReached == unit = "failed" /\ starts = StartLimitBurst /\ restartSec \notin Spaced

(* Restart=always (fcsServer.service:12) holds within the start limit: a    *)
(* server that has ended comes back, however it ended, unless a command     *)
(* comes first or the limit is reached.  That exception is needed: with the *)
(* delay of the unit as installed, a kill or an exception while a client is *)
(* connected leaves the address in use, and the unit fails for good.        *)
RestartedWithinLimit ==
  \A n \in 0 .. MaxCommands :
    (/\ Usable(commandLine) /\ unit \in {"active", "waiting"}
     /\ process = "none" /\ job = "none" /\ commands = n)
      ~> process = "listening" \/ commands > n \/ LimitReached

=============================================================================
