------------------------------ MODULE Daemon --------------------------------
(***************************************************************************)
(* The cdgcd process (daemon::run of src/daemon.rs and cmd_run of          *)
(* src/main.rs): its startup, the signal and inotify threads, the channel  *)
(* between them and the main loop, reloads, exits and systemd's restarts.  *)
(*                                                                         *)
(* A pass of the collector is one interval here, from "scanning" back to   *)
(* "waiting"; Scan is the inside of it. Of a directory the module keeps    *)
(* whether files were created in it that no pass has looked for yet.       *)
(***************************************************************************)
EXTENDS Naturals, Sequences, FiniteSets

CONSTANTS
    None,
    Directories,    \* candidates for coredump_directory
    ConfigFiles,    \* contents of the configuration file
    InotifyErrors,  \* may reading inotify events fail?
    StartupErrors,  \* may the watch not be added (no such directory, ...)?
    MaxSignals,     \* bound on the signals sent
    MaxEdits,       \* bound on the changes of the configuration file
    MaxKills,       \* bound on the kills of the process
    MaxQueue        \* bound on the channel: beyond it the inotify thread waits

VARIABLES
    pc,             \* where the main thread is, "down" when there is no process
    config,         \* the Config in use
    policy,         \* the Policy in use: the rules it was compiled from
    watched,        \* the directory under the inotify watch, or None
    kqueue,         \* has the kernel inotify events to read?
    inotify,        \* the inotify thread: at its read, or the event it sends
    signals,        \* the signals thread: likewise
    pending,        \* the signals caught that its iterator has not returned
    chan,           \* the channel
    file,           \* what the configuration file contains
    fresh,          \* the directories with files no pass has looked for yet
    asked,          \* the requests made of the process and not yet begun
    sent, edits, kills      \* how often, for the bounds

procVars == <<config, policy, watched, kqueue, inotify, signals, pending, chan>>
envVars  == <<file, sent, edits, kills>>
vars     == <<pc, procVars, envVars, fresh, asked>>

Signal  == {"SIGHUP", "SIGUSR1", "SIGTERM"}      \* SIGINT is as SIGTERM
Event   == {"Inotify", "InotifyFailed", "Reload", "ScanNow", "Term"}

Request == Signal \cup {"create"}

\* loads: Config::load succeeds; compiles: so does Policy::from_config.
ConfigType == [loads : BOOLEAN, compiles : BOOLEAN, directory : Directories, rules : Nat]

ASSUME DaemonAssumption ==
    /\ ConfigFiles \subseteq ConfigType
    /\ None \notin Directories /\ None \notin ConfigFiles
    /\ MaxSignals \in Nat /\ MaxEdits \in Nat /\ MaxKills \in Nat
    /\ MaxQueue \in Nat

Usable(f)  == f.loads /\ f.compiles

\* The Event a signal becomes, or a file created under the watch.
EventOf(r) == CASE r = "SIGHUP"  -> "Reload"
                [] r = "SIGUSR1" -> "ScanNow"
                [] r = "SIGTERM" -> "Term"
                [] r = "create"  -> "Inotify"

Starting == {"checked", "loaded", "ready", "initial", "unhandled"}
Looping  == {"waiting", "scanning"}

TypeOK ==
    /\ pc \in {"down"} \cup Starting \cup Looping
    /\ config \in ConfigFiles \cup {None}
    /\ policy \in Nat \cup {None}
    /\ watched \in Directories \cup {None}
    /\ kqueue \in BOOLEAN
    /\ inotify \in {"gone", "reading", "Inotify", "InotifyFailed"}
    /\ signals \in {"gone", "waiting"} \cup Signal
    /\ pending \subseteq Signal
    /\ chan \in Seq(Event)
    /\ file \in ConfigFiles
    /\ fresh \subseteq Directories
    /\ asked \subseteq Request
    /\ sent \in Nat /\ edits \in Nat /\ kills \in Nat

NoProcess ==
    /\ config = None /\ policy = None /\ watched = None /\ kqueue = FALSE
    /\ inotify = "gone" /\ signals = "gone" /\ pending = {} /\ chan = <<>>

Init ==
    /\ pc = "down" /\ NoProcess
    /\ file \in ConfigFiles
    /\ fresh \in SUBSET Directories
    /\ asked = {}
    /\ sent = 0 /\ edits = 0 /\ kills = 0

\* The process ends, by itself or not: nothing of it is left.
Exit ==
    /\ pc' = "down"
    /\ config' = None /\ policy' = None /\ watched' = None /\ kqueue' = FALSE
    /\ inotify' = "gone" /\ signals' = "gone" /\ pending' = {} /\ chan' = <<>>
    /\ asked' = {}

-----------------------------------------------------------------------------
(* Startup. systemd starts the service again whenever it has ended.        *)

\* cmd_run loads the configuration and refuses one without rules.
CmdRun ==
    /\ pc = "down"
    /\ file.loads
    /\ file.rules > 0
    /\ pc' = "checked"
    /\ UNCHANGED <<procVars, envVars, fresh, asked>>

\* daemon::run loads the file a second time.
LoadConfig ==
    /\ pc = "checked"
    /\ Usable(file)
    /\ pc' = "loaded"
    /\ config' = file
    /\ policy' = file.rules
    /\ UNCHANGED <<watched, kqueue, inotify, signals, pending, chan, envVars, fresh, asked>>

LoadConfigFails ==
    /\ pc = "checked"
    /\ ~ Usable(file)
    /\ Exit
    /\ UNCHANGED <<envVars, fresh>>

\* The watch is added and systemd told that the service is ready.
AddWatch ==
    /\ pc = "loaded"
    /\ pc' = "ready"
    /\ watched' = config.directory
    /\ UNCHANGED <<config, policy, kqueue, inotify, signals, pending, chan, envVars,
                   fresh, asked>>

\* Mutant of AddWatchFails: the error is logged and the startup goes on.
AddWatchFailsOn ==
    /\ StartupErrors
    /\ pc = "loaded"
    /\ pc' = "ready"
    /\ UNCHANGED <<procVars, envVars, fresh, asked>>

AddWatchFails ==
    /\ StartupErrors
    /\ pc = "loaded"
    /\ Exit
    /\ UNCHANGED <<envVars, fresh>>

\* A pass lists the directory of the configuration in use. It serves what has
\* asked for a pass until now.
Sweep ==
    /\ fresh' = fresh \ {config.directory}
    /\ asked' = asked \ {"SIGUSR1", "create"}

InitialScan ==
    /\ pc = "ready"
    /\ pc' = "initial"
    /\ Sweep
    /\ UNCHANGED <<procVars, envVars>>

InitialScanEnds ==
    /\ pc = "initial"
    /\ pc' = "unhandled"
    /\ UNCHANGED <<procVars, envVars, fresh, asked>>

\* Only now are the signal handlers installed and the threads spawned.
SpawnThreads ==
    /\ pc = "unhandled"
    /\ pc' = "waiting"
    /\ signals' = "waiting"
    /\ inotify' = "reading"
    /\ UNCHANGED <<config, policy, watched, kqueue, pending, chan, envVars, fresh, asked>>

-----------------------------------------------------------------------------
(* The threads.                                                            *)

\* Mutant of TakeSignal: the first of the caught signals stands for all.
TakeOneForAll(s) ==
    /\ signals = "waiting"
    /\ s \in pending
    /\ signals' = s
    /\ pending' = {}
    /\ UNCHANGED <<pc, config, policy, watched, kqueue, inotify, chan, envVars, fresh, asked>>

\* The iterator of signal_hook returns a caught signal, whatever the number of
\* times it was sent.
TakeSignal(s) ==
    /\ signals = "waiting"
    /\ s \in pending
    /\ signals' = s
    /\ pending' = pending \ {s}
    /\ UNCHANGED <<pc, config, policy, watched, kqueue, inotify, chan, envVars, fresh, asked>>

\* Mutant of SendSignal: the thread ends after any signal.
SendLastSignal(s) ==
    /\ signals = s
    /\ chan' = Append(chan, EventOf(s))
    /\ signals' = "gone"
    /\ UNCHANGED <<pc, config, policy, watched, kqueue, inotify, pending, envVars, fresh, asked>>

\* After a Term the thread ends, and what is caught later is dropped.
SendSignal(s) ==
    /\ signals = s
    /\ chan' = Append(chan, EventOf(s))
    /\ signals' = IF s = "SIGTERM" THEN "gone" ELSE "waiting"
    /\ UNCHANGED <<pc, config, policy, watched, kqueue, inotify, pending, envVars, fresh, asked>>

\* One read takes the events the kernel has, one Event stands for all of them.
ReadInotify ==
    /\ inotify = "reading"
    /\ kqueue
    /\ kqueue' = FALSE
    /\ inotify' = "Inotify"
    /\ UNCHANGED <<pc, config, policy, watched, signals, pending, chan, envVars, fresh, asked>>

ReadInotifyFails ==
    /\ InotifyErrors
    /\ inotify = "reading"
    /\ inotify' = "InotifyFailed"
    /\ UNCHANGED <<pc, config, policy, watched, kqueue, signals, pending, chan, envVars,
                   fresh, asked>>

SendInotify ==
    /\ inotify \in {"Inotify", "InotifyFailed"}
    /\ Len(chan) < MaxQueue
    /\ chan' = Append(chan, inotify)
    /\ inotify' = IF inotify = "InotifyFailed" THEN "gone" ELSE "reading"
    /\ UNCHANGED <<pc, config, policy, watched, kqueue, signals, pending, envVars, fresh, asked>>

-----------------------------------------------------------------------------
(* The main loop.                                                          *)

Receive(events) ==
    /\ pc = "waiting"
    /\ chan # <<>>
    /\ Head(chan) \in events
    /\ chan' = Tail(chan)

StartScan ==
    /\ pc' = "scanning"
    /\ Sweep
    /\ UNCHANGED <<config, policy, watched, kqueue, inotify, signals, pending, envVars>>

ScanOnEvent == Receive({"Inotify", "ScanNow"}) /\ StartScan

\* Mutant of ScanWhenIdle: every wakeup counts as a pass, so none is ever due.
NeverIdle ==
    /\ pc = "waiting"
    /\ chan = <<>>
    /\ UNCHANGED <<pc, procVars, envVars, fresh, asked>>

\* recv_timeout timed out, and idle_interval has passed since the last pass.
ScanWhenIdle ==
    /\ pc = "waiting"
    /\ chan = <<>>
    /\ StartScan
    /\ UNCHANGED chan

\* Mutant of ScanEnds: the events that came in during the pass are thrown away.
ScanEndsAndDrains ==
    /\ pc = "scanning"
    /\ pc' = "waiting"
    /\ chan' = <<>>
    /\ UNCHANGED <<config, policy, watched, kqueue, inotify, signals, pending, envVars,
                   fresh, asked>>

ScanEnds ==
    /\ pc = "scanning"
    /\ pc' = "waiting"
    /\ UNCHANGED <<procVars, envVars, fresh, asked>>

\* Mutant of Reload: the configuration is taken before the policy is built.
ReloadInTwoSteps ==
    /\ Receive({"Reload"})
    /\ asked' = asked \ {"SIGHUP"}
    /\ config' = IF file.loads THEN file ELSE config
    /\ policy' = IF Usable(file) THEN file.rules ELSE policy
    /\ UNCHANGED <<pc, watched, kqueue, inotify, signals, pending, envVars, fresh>>

\* The configuration changes only together with the policy.
Reload ==
    /\ Receive({"Reload"})
    /\ asked' = asked \ {"SIGHUP"}
    /\ IF Usable(file)
       THEN config' = file /\ policy' = file.rules
       ELSE UNCHANGED <<config, policy>>
    /\ UNCHANGED <<pc, watched, kqueue, inotify, signals, pending, envVars, fresh>>

Terminate ==
    /\ pc = "waiting"
    /\ chan # <<>>
    /\ Head(chan) = "Term"
    /\ Exit
    /\ UNCHANGED <<envVars, fresh>>

\* The daemon does not go on without its watch.
LoseInotify ==
    /\ pc = "waiting"
    /\ chan # <<>>
    /\ Head(chan) = "InotifyFailed"
    /\ Exit
    /\ UNCHANGED <<envVars, fresh>>

-----------------------------------------------------------------------------
(* The surroundings.                                                       *)

\* A signal ends a process that has not installed its handler.
Killed == pc \in Starting

SendFatal(s) ==
    /\ sent < MaxSignals
    /\ Killed
    /\ s \in Signal
    /\ sent' = sent + 1
    /\ Exit
    /\ UNCHANGED <<file, edits, kills, fresh>>

\* A handler marks the signal as pending, as long as the thread is there.
SendCaught(s) ==
    /\ sent < MaxSignals
    /\ pc \in Looping
    /\ s \in Signal
    /\ sent' = sent + 1
    /\ IF signals = "gone"
       THEN UNCHANGED <<pending, asked>>
       ELSE pending' = pending \cup {s} /\ asked' = asked \cup {s}
    /\ UNCHANGED <<pc, config, policy, watched, kqueue, inotify, signals, chan, file,
                   edits, kills, fresh>>

\* A dump or a marker is created.
CreateFile(dir) ==
    /\ fresh' = fresh \cup {dir}
    /\ IF dir = watched
       THEN kqueue' = TRUE /\ asked' = asked \cup {"create"}
       ELSE UNCHANGED <<kqueue, asked>>
    /\ UNCHANGED <<pc, config, policy, watched, inotify, signals, pending, chan, envVars>>

EditFile(f) ==
    /\ edits < MaxEdits
    /\ f # file
    /\ edits' = edits + 1
    /\ file' = f
    /\ UNCHANGED <<pc, procVars, fresh, asked, sent, kills>>

\* SIGKILL, the OOM killer or systemd's watchdog.
Kill ==
    /\ kills < MaxKills
    /\ pc # "down"
    /\ kills' = kills + 1
    /\ Exit
    /\ UNCHANGED <<file, sent, edits, fresh>>

-----------------------------------------------------------------------------
Startup == CmdRun \/ LoadConfig \/ LoadConfigFails \/ AddWatch \/ AddWatchFails
           \/ InitialScan \/ InitialScanEnds \/ SpawnThreads

MainLoop == ScanOnEvent \/ ScanWhenIdle \/ ScanEnds \/ Reload \/ Terminate \/ LoseInotify

SignalsThread == \E s \in Signal : TakeSignal(s) \/ SendSignal(s)

InotifyThread == ReadInotify \/ ReadInotifyFails \/ SendInotify

Surroundings ==
    \/ \E s \in Signal : SendFatal(s) \/ SendCaught(s)
    \/ \E dir \in Directories : CreateFile(dir)
    \/ \E f \in ConfigFiles : EditFile(f)
    \/ Kill

Next == Startup \/ MainLoop \/ SignalsThread \/ InotifyThread \/ Surroundings

Spec == Init /\ [][Next]_vars

\* The scheduler runs every thread that can run, a pass ends, systemd restarts
\* the service. That errors happen, or signals, is not assumed.
FairSpec ==
    /\ Spec
    /\ WF_vars(CmdRun) /\ WF_vars(LoadConfig \/ LoadConfigFails) /\ WF_vars(AddWatch)
    /\ WF_vars(InitialScan) /\ WF_vars(InitialScanEnds) /\ WF_vars(SpawnThreads)
    /\ WF_vars(MainLoop)
    /\ WF_vars(SignalsThread)
    /\ WF_vars(ReadInotify) /\ WF_vars(SendInotify)

-----------------------------------------------------------------------------
InChannel(e) == \E i \in DOMAIN chan : chan[i] = e

\* The thread that reads request r has not ended.
Read(r) ==
    IF r = "create" THEN inotify # "gone" \/ pc \in Starting ELSE signals # "gone"

\* Request r is caught, in the hands of its thread or in the channel.
Underway(r) ==
    \/ Read(r) /\ (IF r = "create" THEN kqueue ELSE r \in pending)
    \/ signals = r
    \/ inotify = EventOf(r)
    \/ InChannel(EventOf(r))

\* The daemon is going to exit.
Ending == InChannel("Term") \/ InChannel("InotifyFailed")

(***************************************************************************)
(* No request is lost. Whatever a signal or a file created in the watched  *)
(* directory has asked for, and no reload or pass was begun for since, is  *)
(* on its way to the main loop: however signals and events were merged,    *)
(* during the initial scan, during a pass or between, unless one of the    *)
(* two threads has ended, and then the daemon is going to.                 *)
(***************************************************************************)
NoRequestLost == Ending \/ \A r \in asked : Underway(r)

(***************************************************************************)
(* The main loop is never deaf: a thread ends only after it has told the   *)
(* loop to exit, and nothing takes that message back. So recv_timeout      *)
(* never finds the senders gone and nothing to receive: its Disconnected   *)
(* branch, which no action stands for, is not taken.                       *)
(***************************************************************************)
ThreadsEndLast ==
    pc \in Looping =>
        /\ signals = "gone" => InChannel("Term")
        /\ inotify = "gone" => InChannel("InotifyFailed")

(***************************************************************************)
(* Configuration and policy are of one reading of the file, and of one     *)
(* that could be used (the Reload branch of the main loop).                *)
(***************************************************************************)
PolicyOfConfig ==
    pc \in (Starting \ {"checked"}) \cup Looping =>
        config # None /\ Usable(config) /\ policy = config.rules

\* Before the threads run nothing is caught, before the watch nothing is asked,
\* and without the watch no daemon gets further.
StartsQuietly ==
    /\ pc \in {"down", "checked"} => NoProcess
    /\ pc \in Starting =>
          /\ inotify = "gone" /\ signals = "gone" /\ pending = {} /\ chan = <<>>
          /\ asked \subseteq {"create"}
    /\ watched = None => asked = {} /\ pc \in {"down", "checked", "loaded"}

(***************************************************************************)
(* What a process has at each stage of its life, the inductive invariant:  *)
(* nothing when it is down, a configuration that could be used once it is  *)
(* loaded, the watch from READY=1 on (`?` of add in daemon::run: a daemon  *)
(* that could not watch its directory would serve systemd's watchdog and   *)
(* hear of no dump), both threads or their last words in the main loop.    *)
(***************************************************************************)
DaemonInv == TypeOK /\ StartsQuietly /\ ThreadsEndLast /\ NoRequestLost /\ PolicyOfConfig

(***************************************************************************)
(* main.rs refuses to run with no rules: "daemon would delete every dump". *)
(* A reload does not take the last rules from a running daemon.            *)
(***************************************************************************)
ReloadLeavesRules == [][Reload /\ policy > 0 => policy' > 0]_vars

\* READY=1 has been sent.
IsReady == pc \in {"ready", "initial", "unhandled"} \cup Looping

(***************************************************************************)
(* readme: "SIGHUP reloads config". It does not end a daemon that has      *)
(* reported itself ready.                                                  *)
(***************************************************************************)
HangupReloads == [][IsReady => ~ SendFatal("SIGHUP")]_vars

(***************************************************************************)
(* Every request is begun in the end, or the daemon exits.                 *)
(***************************************************************************)
RequestsAnswered == \A r \in Request : r \in asked ~> r \notin asked

InUse(dir) == config # None /\ config.directory = dir

(***************************************************************************)
(* While a directory is the configured one, whatever was created in it is  *)
(* looked for in the end, watched or not: what idle_interval is there for. *)
(***************************************************************************)
FilesLookedFor ==
    \A dir \in Directories :
        InUse(dir) /\ dir \in fresh ~> ~ InUse(dir) \/ dir \notin fresh
=============================================================================
