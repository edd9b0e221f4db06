---------------------------- MODULE DaemonProofs ----------------------------
(***************************************************************************)
(* Theorems about Daemon, for every set of directories and configuration   *)
(* files and any number of signals, edits, kills and queued events.        *)
(***************************************************************************)
EXTENDS Daemon, TLAPS

-----------------------------------------------------------------------------
(* The channel.                                                            *)

\* After a send the channel holds what it held and the event sent.
LEMMA ChannelAppend ==
    ASSUME chan \in Seq(Event), NEW e \in Event, chan' = Append(chan, e)
    PROVE  /\ chan' \in Seq(Event)
           /\ \A x : InChannel(x)' <=> InChannel(x) \/ x = e
<1>1. chan' \in Seq(Event)
  OBVIOUS
<1>2. DOMAIN chan' = 1..(Len(chan) + 1) /\ DOMAIN chan = 1..Len(chan) /\ Len(chan) \in Nat
  OBVIOUS
<1>3. chan'[Len(chan) + 1] = e /\ \A i \in 1..Len(chan) : chan'[i] = chan[i]
  OBVIOUS
<1>4. ASSUME NEW x
      PROVE  InChannel(x)' <=> InChannel(x) \/ x = e
  <2>1. (\E i \in 1..(Len(chan) + 1) : chan'[i] = x) <=>
           (\E i \in 1..Len(chan) : chan'[i] = x) \/ chan'[Len(chan) + 1] = x
    BY <1>2
  <2> QED
    BY <1>2, <1>3, <2>1 DEF InChannel
<1> QED
  BY <1>1, <1>4

\* A receive takes no event but the first out of the channel.
LEMMA ChannelTail ==
    ASSUME chan \in Seq(Event), chan # <<>>, chan' = Tail(chan)
    PROVE  /\ chan' \in Seq(Event) /\ Head(chan) \in Event
           /\ \A x : InChannel(x) => x = Head(chan) \/ InChannel(x)'
<1>1. chan' \in Seq(Event) /\ Head(chan) \in Event
  OBVIOUS
<1>2. ASSUME NEW x, NEW i \in DOMAIN chan, chan[i] = x, x # Head(chan)
      PROVE  \E j \in DOMAIN chan' : chan'[j] = x
  <2>1. i \in 1..Len(chan) /\ i # 1 /\ Len(chan) \in Nat
    BY <1>2
  <2>2. i - 1 \in DOMAIN chan' /\ chan'[i - 1] = chan[i]
    BY <2>1
  <2> QED
    BY <1>2, <2>2
<1> QED
  BY <1>1, <1>2 DEF InChannel

\* The channel holds the same events as long as it does not change.
LEMMA ChannelSame ==
    ASSUME chan' = chan
    PROVE  \A x : InChannel(x)' <=> InChannel(x)
BY DEF InChannel

-----------------------------------------------------------------------------
(* The inductive invariant, group by group of actions.                     *)

\* The invariant holds before the first start.
LEMMA InitInv == Init => DaemonInv
<1> SUFFICES ASSUME Init PROVE DaemonInv
  OBVIOUS
<1>1. chan \in Seq(Event)
  BY DEF Init, NoProcess
<1>2. TypeOK
  BY <1>1 DEF Init, NoProcess, TypeOK
<1> QED
  BY <1>2 DEF Init, NoProcess, DaemonInv, StartsQuietly, ThreadsEndLast, NoRequestLost,
     PolicyOfConfig, Starting, Looping

\* No process is left to break it once the process has ended.
LEMMA ExitInv ==
    ASSUME DaemonInv, Exit, file' \in ConfigFiles, fresh' = fresh,
           sent' \in Nat, edits' \in Nat, kills' \in Nat
    PROVE  DaemonInv'
<1>1. chan' \in Seq(Event)
  BY DEF Exit
<1>2. TypeOK'
  BY <1>1 DEF Exit, DaemonInv, TypeOK
<1>3. NoProcess'
  BY DEF Exit, NoProcess
<1> QED
  BY <1>2, <1>3 DEF Exit, DaemonInv, StartsQuietly, ThreadsEndLast, NoRequestLost,
     PolicyOfConfig, Starting, Looping

\* When the memory of the process and the requests stay the same it is enough
\* to look at where the main thread goes.
LEMMA MoveInv ==
    ASSUME DaemonInv, UNCHANGED <<procVars, asked, envVars>>, fresh' \subseteq Directories,
           \/ pc = "down" /\ pc' = "checked"
           \/ pc = "initial" /\ pc' = "unhandled"
           \/ pc = "scanning" /\ pc' = "waiting"
           \/ pc' = pc
    PROVE  DaemonInv'
<1>1. \A x : InChannel(x)' <=> InChannel(x)
  BY ChannelSame DEF procVars
<1>2. TypeOK'
  BY DEF DaemonInv, TypeOK, procVars, envVars, Starting, Looping
<1>3. StartsQuietly' /\ ThreadsEndLast' /\ PolicyOfConfig'
  BY <1>1 DEF DaemonInv, StartsQuietly, NoProcess, ThreadsEndLast, PolicyOfConfig, procVars,
     Starting, Looping
<1>4. \A r : Underway(r) /\ r \in asked => Underway(r)'
  BY <1>1 DEF DaemonInv, StartsQuietly, NoProcess, Underway, Read, procVars, Starting, Looping
<1>5. NoRequestLost'
  BY <1>1, <1>4 DEF DaemonInv, NoRequestLost, Ending
<1> QED
  BY <1>2, <1>3, <1>5 DEF DaemonInv

\* The startup of the daemon keeps the invariant.
LEMMA StartupInv ==
    ASSUME DaemonInv, Startup
    PROVE  DaemonInv'
<1>1. CASE CmdRun \/ InitialScanEnds
  BY <1>1, MoveInv DEF CmdRun, InitialScanEnds, DaemonInv, TypeOK
<1>2. CASE LoadConfig
  <2>1. config' \in ConfigFiles /\ config' # None /\ policy' = config'.rules /\ Usable(config')
        /\ policy' \in Nat
    BY <1>2, DaemonAssumption DEF LoadConfig, DaemonInv, TypeOK, ConfigType, Usable
  <2>2. asked = {} /\ watched = None /\ NoProcess
    BY <1>2 DEF LoadConfig, DaemonInv, StartsQuietly, NoProcess
  <2> QED
    BY <1>2, <2>1, <2>2 DEF LoadConfig, DaemonInv, TypeOK, StartsQuietly, NoProcess,
       ThreadsEndLast, NoRequestLost, PolicyOfConfig, Starting, Looping, envVars
<1>3. CASE LoadConfigFails \/ AddWatchFails
  BY <1>3, ExitInv DEF LoadConfigFails, AddWatchFails, envVars, DaemonInv, TypeOK
<1>4. CASE AddWatch
  <2>1. config # None /\ config \in ConfigFiles /\ config.directory \in Directories
        /\ Usable(config) /\ policy = config.rules
    BY <1>4, DaemonAssumption DEF AddWatch, DaemonInv, PolicyOfConfig, TypeOK, ConfigType,
       Starting
  <2>2. TypeOK'
    BY <1>4, <2>1 DEF AddWatch, DaemonInv, TypeOK, envVars, Starting
  <2>3. \A r : Underway(r) /\ r \in asked => Underway(r)'
    BY <1>4, ChannelSame DEF AddWatch, Underway, Read, Starting
  <2>4. NoRequestLost'
    BY <1>4, <2>3, ChannelSame DEF AddWatch, DaemonInv, NoRequestLost, Ending
  <2>5. StartsQuietly' /\ ThreadsEndLast' /\ PolicyOfConfig'
    BY <1>4, <2>1, DaemonAssumption DEF AddWatch, DaemonInv, StartsQuietly, ThreadsEndLast,
       PolicyOfConfig, Starting, Looping
  <2> QED
    BY <2>2, <2>4, <2>5 DEF DaemonInv
<1>5. CASE InitialScan
  <2>1. TypeOK'
    BY <1>5 DEF InitialScan, Sweep, DaemonInv, TypeOK, procVars, envVars, Starting
  <2>2. StartsQuietly' /\ ThreadsEndLast' /\ PolicyOfConfig' /\ asked' = {}
    BY <1>5 DEF InitialScan, Sweep, DaemonInv, StartsQuietly, ThreadsEndLast,
       PolicyOfConfig, procVars, Starting, Looping
  <2> QED
    BY <2>1, <2>2 DEF DaemonInv, NoRequestLost
<1>6. CASE SpawnThreads
  <2>1. TypeOK'
    BY <1>6 DEF SpawnThreads, DaemonInv, TypeOK, envVars, Looping
  <2>2. \A r : Underway(r) /\ r \in asked => Underway(r)'
    BY <1>6, ChannelSame DEF SpawnThreads, DaemonInv, StartsQuietly, Underway, Read, Starting,
       EventOf, InChannel
  <2>3. NoRequestLost'
    BY <1>6, <2>2, ChannelSame DEF SpawnThreads, DaemonInv, NoRequestLost, Ending
  <2>4. StartsQuietly' /\ ThreadsEndLast' /\ PolicyOfConfig'
    BY <1>6 DEF SpawnThreads, DaemonInv, StartsQuietly, ThreadsEndLast, PolicyOfConfig,
       Starting, Looping
  <2> QED
    BY <2>1, <2>3, <2>4 DEF DaemonInv
<1> QED
  BY <1>1, <1>2, <1>3, <1>4, <1>5, <1>6 DEF Startup

\* The threads run only when the main loop does.
LEMMA ThreadsRunInLoop ==
    ASSUME DaemonInv, signals # "gone" \/ inotify # "gone"
    PROVE  pc \in Looping
BY DEF DaemonInv, TypeOK, StartsQuietly, NoProcess, Starting, Looping

\* So do the threads: what one takes from the kernel it holds or has sent.
LEMMA ThreadsInv ==
    ASSUME DaemonInv, SignalsThread \/ InotifyThread
    PROVE  DaemonInv'
<1>1. chan \in Seq(Event)
  BY DEF DaemonInv, TypeOK
<1>2. ASSUME NEW s \in Signal, TakeSignal(s)
      PROVE  DaemonInv'
  <2>1. pc \in Looping /\ \A x : InChannel(x)' <=> InChannel(x)
    BY <1>2, ThreadsRunInLoop, ChannelSame DEF TakeSignal
  <2>2. TypeOK'
    BY <1>2 DEF TakeSignal, DaemonInv, TypeOK, envVars
  <2>3. StartsQuietly' /\ ThreadsEndLast' /\ PolicyOfConfig'
    BY <1>2, <2>1 DEF TakeSignal, DaemonInv, StartsQuietly, ThreadsEndLast, PolicyOfConfig,
       Starting, Looping, Signal
  <2>4. \A r \in Request : Underway(r) => Underway(r)'
    BY <1>2, <2>1 DEF TakeSignal, Underway, Read, Request, Signal
  <2> QED
    BY <1>2, <2>1, <2>2, <2>3, <2>4 DEF TakeSignal, DaemonInv, TypeOK, NoRequestLost, Ending
<1>3. ASSUME NEW s \in Signal, SendSignal(s)
      PROVE  DaemonInv'
  <2>1. EventOf(s) \in Event
    BY DEF EventOf, Event, Signal
  <2>2. pc \in Looping /\ s # "gone"
    BY <1>3, ThreadsRunInLoop DEF SendSignal, Signal
  <2>3. chan' \in Seq(Event) /\ \A x : InChannel(x)' <=> InChannel(x) \/ x = EventOf(s)
    BY <1>1, <1>3, <2>1, ChannelAppend DEF SendSignal
  <2>4. TypeOK'
    BY <1>3, <2>3 DEF SendSignal, DaemonInv, TypeOK, envVars
  <2>5. StartsQuietly' /\ ThreadsEndLast' /\ PolicyOfConfig'
    BY <1>3, <2>2, <2>3 DEF SendSignal, DaemonInv, StartsQuietly, ThreadsEndLast,
       PolicyOfConfig, Starting, Looping, EventOf
  <2>6. CASE s = "SIGTERM"
    BY <2>3, <2>4, <2>5, <2>6 DEF DaemonInv, NoRequestLost, Ending, EventOf
  <2>7. CASE s # "SIGTERM"
    <3>1. \A r \in Request : Underway(r) => Underway(r)'
      BY <1>3, <2>2, <2>3, <2>7 DEF SendSignal, Underway, Read, Request, Signal
    <3> QED
      BY <1>3, <2>3, <2>4, <2>5, <3>1 DEF SendSignal, DaemonInv, TypeOK, NoRequestLost, Ending
  <2> QED
    BY <2>6, <2>7
<1>4. CASE ReadInotify \/ ReadInotifyFails
  <2>1. pc \in Looping /\ \A x : InChannel(x)' <=> InChannel(x)
    BY <1>4, ThreadsRunInLoop, ChannelSame DEF ReadInotify, ReadInotifyFails
  <2>2. TypeOK'
    BY <1>4 DEF ReadInotify, ReadInotifyFails, DaemonInv, TypeOK, envVars
  <2>3. StartsQuietly' /\ ThreadsEndLast' /\ PolicyOfConfig'
    BY <1>4, <2>1 DEF ReadInotify, ReadInotifyFails, DaemonInv, StartsQuietly,
       ThreadsEndLast, PolicyOfConfig, Starting, Looping
  <2>4. \A r \in Request : Underway(r) => Underway(r)'
    BY <1>4, <2>1 DEF ReadInotify, ReadInotifyFails, Underway, Read, Request, Signal, EventOf
  <2> QED
    BY <1>4, <2>1, <2>2, <2>3, <2>4 DEF ReadInotify, ReadInotifyFails, DaemonInv, TypeOK,
       NoRequestLost, Ending
<1>5. CASE SendInotify
  <2>1. pc \in Looping /\ inotify \in Event
    BY <1>5, ThreadsRunInLoop DEF SendInotify, Event
  <2>2. chan' \in Seq(Event) /\ \A x : InChannel(x)' <=> InChannel(x) \/ x = inotify
    BY <1>1, <1>5, <2>1, ChannelAppend DEF SendInotify
  <2>3. TypeOK'
    BY <1>5, <2>2 DEF SendInotify, DaemonInv, TypeOK, envVars
  <2>4. StartsQuietly' /\ ThreadsEndLast' /\ PolicyOfConfig'
    BY <1>5, <2>1, <2>2 DEF SendInotify, DaemonInv, StartsQuietly, ThreadsEndLast,
       PolicyOfConfig, Starting, Looping
  <2>5. CASE inotify = "InotifyFailed"
    BY <2>2, <2>3, <2>4, <2>5 DEF DaemonInv, NoRequestLost, Ending
  <2>6. CASE inotify = "Inotify"
    <3>1. \A r \in Request : Underway(r) => Underway(r)'
      BY <1>5, <2>2, <2>6 DEF SendInotify, Underway, Read, Request, Signal
    <3> QED
      BY <1>5, <2>2, <2>3, <2>4, <3>1 DEF SendInotify, DaemonInv, TypeOK, NoRequestLost, Ending
  <2> QED
    BY <1>5, <2>5, <2>6 DEF SendInotify
<1> QED
  BY <1>2, <1>3, <1>4, <1>5 DEF SignalsThread, InotifyThread

\* So does the main loop: what it takes from the channel it answers or exits by.
LEMMA MainLoopInv ==
    ASSUME DaemonInv, MainLoop
    PROVE  DaemonInv'
<1>1. chan \in Seq(Event)
  BY DEF DaemonInv, TypeOK
<1>2. CASE ScanEnds
  BY <1>2, MoveInv DEF ScanEnds, DaemonInv, TypeOK
<1>3. CASE Terminate \/ LoseInotify
  BY <1>3, ExitInv DEF Terminate, LoseInotify, envVars, DaemonInv, TypeOK
<1>4. CASE ScanOnEvent \/ ScanWhenIdle
  <2>1. chan' \in Seq(Event)
        /\ \A x : InChannel(x) => x \in {"Inotify", "ScanNow"} \/ InChannel(x)'
    <3>1. CASE ScanOnEvent
      BY <1>1, <3>1, ChannelTail DEF ScanOnEvent, Receive
    <3>2. CASE ScanWhenIdle
      BY <1>1, <3>2, ChannelSame DEF ScanWhenIdle
    <3> QED
      BY <1>4, <3>1, <3>2
  <2>2. StartScan /\ pc = "waiting"
    BY <1>4 DEF ScanOnEvent, ScanWhenIdle, Receive
  <2>3. TypeOK'
    BY <2>1, <2>2 DEF StartScan, Sweep, DaemonInv, TypeOK, envVars, Looping
  <2>4. StartsQuietly' /\ ThreadsEndLast' /\ PolicyOfConfig'
    BY <2>1, <2>2 DEF StartScan, Sweep, DaemonInv, StartsQuietly, ThreadsEndLast,
       PolicyOfConfig, Starting, Looping
  <2>5. Ending => Ending'
    BY <2>1 DEF Ending
  <2>6. \A r \in Request \ {"SIGUSR1", "create"} : Underway(r) => Underway(r)'
    BY <2>1, <2>2 DEF StartScan, Underway, Read, Request, Signal, EventOf
  <2> QED
    BY <2>2, <2>3, <2>4, <2>5, <2>6 DEF StartScan, Sweep, DaemonInv, TypeOK, NoRequestLost
<1>5. CASE Reload
  <2>1. chan' \in Seq(Event) /\ \A x : InChannel(x) => x = "Reload" \/ InChannel(x)'
    BY <1>1, <1>5, ChannelTail DEF Reload, Receive
  <2>2. pc = "waiting" /\ pc' = "waiting"
    BY <1>5 DEF Reload, Receive
  <2>3. TypeOK'
    BY <1>5, <2>1, DaemonAssumption DEF Reload, DaemonInv, TypeOK, ConfigType, envVars
  <2>4. StartsQuietly' /\ ThreadsEndLast'
    BY <1>5, <2>1, <2>2 DEF Reload, DaemonInv, StartsQuietly, ThreadsEndLast, Starting, Looping
  <2>5. PolicyOfConfig'
    BY <1>5, <2>2, DaemonAssumption DEF Reload, DaemonInv, TypeOK, PolicyOfConfig, Looping
  <2>6. Ending => Ending'
    BY <2>1 DEF Ending
  <2>7. \A r \in Request \ {"SIGHUP"} : Underway(r) => Underway(r)'
    BY <1>5, <2>1, <2>2 DEF Reload, Underway, Read, Request, Signal, EventOf
  <2> QED
    BY <1>5, <2>3, <2>4, <2>5, <2>6, <2>7 DEF Reload, DaemonInv, TypeOK, NoRequestLost
<1> QED
  BY <1>2, <1>3, <1>4, <1>5 DEF MainLoop

\* So does everybody else: what is asked is caught in the same step.
LEMMA SurroundingsInv ==
    ASSUME DaemonInv, Surroundings
    PROVE  DaemonInv'
<1>1. ASSUME NEW s \in Signal, SendFatal(s)
      PROVE  DaemonInv'
  BY <1>1, ExitInv DEF SendFatal, DaemonInv, TypeOK
<1>2. ASSUME NEW s \in Signal, SendCaught(s)
      PROVE  DaemonInv'
  <2>1. pc \in Looping /\ pc' = pc /\ \A x : InChannel(x)' <=> InChannel(x)
    BY <1>2, ChannelSame DEF SendCaught
  <2>2. TypeOK'
    BY <1>2 DEF SendCaught, DaemonInv, TypeOK, Request
  <2>3. watched # None
    BY <1>2, <2>1 DEF DaemonInv, StartsQuietly, Looping
  <2>4. StartsQuietly' /\ ThreadsEndLast' /\ PolicyOfConfig'
    BY <1>2, <2>1, <2>3 DEF SendCaught, DaemonInv, StartsQuietly, ThreadsEndLast,
       PolicyOfConfig, Starting, Looping
  <2>5. \A r \in Request : Underway(r) => Underway(r)'
    BY <1>2, <2>1 DEF SendCaught, Underway, Read
  <2>6. signals # "gone" => Underway(s)'
    BY <1>2 DEF SendCaught, Underway, Read, Signal
  <2> QED
    BY <1>2, <2>1, <2>2, <2>4, <2>5, <2>6 DEF SendCaught, DaemonInv, TypeOK, NoRequestLost, Ending
<1>3. ASSUME NEW dir \in Directories, CreateFile(dir)
      PROVE  DaemonInv'
  <2>1. \A x : InChannel(x)' <=> InChannel(x)
    BY <1>3, ChannelSame DEF CreateFile
  <2>2. TypeOK'
    BY <1>3 DEF CreateFile, DaemonInv, TypeOK, envVars, Request
  <2>3. dir # None
    BY DaemonAssumption
  <2>4. StartsQuietly' /\ ThreadsEndLast' /\ PolicyOfConfig'
    BY <1>3, <2>1, <2>3 DEF CreateFile, DaemonInv, StartsQuietly, NoProcess, ThreadsEndLast,
       PolicyOfConfig, Starting, Looping
  <2>5. \A r \in Request : Underway(r) => Underway(r)'
    BY <1>3, <2>1 DEF CreateFile, Underway, Read
  <2>6. Ending \/ (dir = watched => Underway("create")')
    <3>1. pc \in Starting \/ pc \in Looping \/ watched = None
      BY DEF DaemonInv, TypeOK, StartsQuietly, NoProcess
    <3> QED
      BY <1>3, <2>3, <3>1 DEF CreateFile, Underway, Read, DaemonInv, ThreadsEndLast, Ending
  <2> QED
    BY <1>3, <2>1, <2>2, <2>4, <2>5, <2>6 DEF CreateFile, DaemonInv, TypeOK, NoRequestLost, Ending
<1>4. ASSUME NEW f \in ConfigFiles, EditFile(f)
      PROVE  DaemonInv'
  <2>1. TypeOK'
    BY <1>4 DEF EditFile, DaemonInv, TypeOK, procVars
  <2>2. StartsQuietly' /\ ThreadsEndLast' /\ PolicyOfConfig' /\ NoRequestLost'
    BY <1>4 DEF EditFile, DaemonInv, StartsQuietly, NoProcess, ThreadsEndLast,
       PolicyOfConfig, NoRequestLost, Ending, Underway, Read, InChannel, procVars
  <2> QED
    BY <2>1, <2>2 DEF DaemonInv
<1>5. CASE Kill
  BY <1>5, ExitInv DEF Kill, DaemonInv, TypeOK
<1> QED
  BY <1>1, <1>2, <1>3, <1>4, <1>5 DEF Surroundings

\* Every step keeps the invariant.
LEMMA InvStep == DaemonInv /\ [Next]_vars => DaemonInv'
<1> SUFFICES ASSUME DaemonInv, [Next]_vars PROVE DaemonInv'
  OBVIOUS
<1>1. CASE UNCHANGED vars
  BY <1>1, MoveInv DEF vars, DaemonInv, TypeOK
<1> QED
  BY <1>1, StartupInv, ThreadsInv, MainLoopInv, SurroundingsInv DEF Next

(***************************************************************************)
(* At every stage of its life the daemon has what it should: its types, a  *)
(* watch once it is ready, its threads or their last words in the loop.    *)
(***************************************************************************)
THEOREM DaemonInvariant == Spec => []DaemonInv
BY InitInv, InvStep, PTL DEF Spec

(***************************************************************************)
(* No signal and no wakeup is lost between the kernel and the main loop.   *)
(***************************************************************************)
THEOREM RequestsNotLost == Spec => []NoRequestLost
BY DaemonInvariant, PTL DEF DaemonInv

(***************************************************************************)
(* The main loop never waits for a thread that has ended.                  *)
(***************************************************************************)
THEOREM LoopNeverDeaf == Spec => []ThreadsEndLast
BY DaemonInvariant, PTL DEF DaemonInv

(***************************************************************************)
(* A failed reload leaves configuration and policy as they were, and every *)
(* other step keeps them together.                                         *)
(***************************************************************************)
THEOREM PolicyFollowsConfig == Spec => []PolicyOfConfig
BY DaemonInvariant, PTL DEF DaemonInv
=============================================================================
