------------------------------ MODULE Wakeups -------------------------------
(***************************************************************************)
(* The clock side of the main loop (daemon::run, next_wakeup, src/sd.rs):  *)
(* how long it waits, when it runs an idle pass, when it serves systemd's  *)
(* watchdog. Daemon has the same loop without time, and everything else.   *)
(*                                                                         *)
(* Time is discrete and kept as ages. Only Tick lets it pass, and only     *)
(* while the loop waits for an event or a pass runs.                       *)
(***************************************************************************)
EXTENDS Naturals, Sequences

CONSTANTS
    None,           \* no watchdog: sd::watchdog_interval returns None
    Watchdogs,      \* the values WATCHDOG_USEC may have, and None
    Idles,          \* the values idle_interval may have
    Floor,          \* the 100 ms of next_wakeup
    MaxPass,        \* bound on the length of a pass
    MaxQueue,       \* bound on the events that wait in the channel
    MaxReloads      \* bound on the reloads in a flood

VARIABLES
    loop,           \* "waiting" in recv_timeout, "passing" or "down"
    watchdog,       \* WATCHDOG_USEC of the unit
    idle,           \* config.idle_interval
    queue,          \* the channel
    wait,           \* what is left of the timeout
    sinceScan,      \* last_scan.elapsed()
    sincePing,      \* how long systemd has waited for WATCHDOG=1
    inPass,         \* how much of that was spent in a pass
    overdue,        \* for how long idle_interval has been over
    late            \* the reloads handled in that time

vars == <<loop, watchdog, idle, queue, wait, sinceScan, sincePing, inPass, overdue, late>>

ASSUME WakeupsAssumption ==
    /\ Watchdogs \subseteq Nat \cup {None} /\ None \notin Nat
    /\ Idles \subseteq Nat
    /\ Floor \in Nat \ {0}
    /\ MaxPass \in Nat /\ MaxQueue \in Nat /\ MaxReloads \in Nat

TypeOK ==
    /\ loop \in {"waiting", "passing", "down"}
    /\ watchdog \in Watchdogs
    /\ idle \in Idles
    /\ queue \in Seq({"reload", "scan"})
    /\ wait \in Nat /\ sinceScan \in Nat /\ sincePing \in Nat
    /\ inPass \in Nat /\ overdue \in Nat /\ late \in Nat

Smaller(a, b) == IF a < b THEN a ELSE b
Greater(a, b) == IF a < b THEN b ELSE a

\* Mutant of WatchdogInterval: the value is not halved.
WholeWatchdog == watchdog

\* sd::watchdog_interval
WatchdogInterval == watchdog \div 2

UntilScan(i, elapsed) == IF elapsed < i THEN i - elapsed ELSE 0

\* Mutant of NextWakeup: under a watchdog, the idle interval is not looked at.
NextPing(i, elapsed) ==
    Greater(Floor, IF watchdog = None THEN UntilScan(i, elapsed) ELSE WatchdogInterval)

\* next_wakeup
NextWakeup(i, elapsed) ==
    Greater(Floor, IF watchdog = None THEN UntilScan(i, elapsed)
                   ELSE Smaller(WatchdogInterval, UntilScan(i, elapsed)))

Due == sinceScan >= idle

\* systemd starts to count at READY=1, before the initial pass.
Init ==
    /\ loop = "passing"
    /\ watchdog \in Watchdogs /\ idle \in Idles
    /\ queue = <<>>
    /\ wait = 0 /\ sinceScan = 0 /\ sincePing = 0 /\ inPass = 0
    /\ overdue = 0 /\ late = 0

-----------------------------------------------------------------------------
\* A SIGHUP is sent to the channel, or a file event or SIGUSR1.
Arrive(e) ==
    /\ loop # "down"
    /\ Len(queue) < MaxQueue
    /\ e = "reload" => late + Len(queue) < MaxReloads
    /\ queue' = Append(queue, e)
    /\ UNCHANGED <<loop, watchdog, idle, wait, sinceScan, sincePing, inPass, overdue, late>>

\* sd::watchdog() whenever recv_timeout has returned.
Ping == sincePing' = 0 /\ inPass' = 0

BeginPass ==
    /\ loop' = "passing"
    /\ Ping
    /\ UNCHANGED <<watchdog, idle, wait, sinceScan, overdue, late>>

OnScan ==
    /\ loop = "waiting"
    /\ queue # <<>> /\ Head(queue) = "scan"
    /\ queue' = Tail(queue)
    /\ BeginPass

\* The new configuration may have another idle_interval; one that cannot be
\* used leaves it. The pass may cease to be due by this, or come to be.
OnReload(i) ==
    /\ loop = "waiting"
    /\ queue # <<>> /\ Head(queue) = "reload"
    /\ queue' = Tail(queue)
    /\ Ping
    /\ idle' = i
    /\ wait' = NextWakeup(i, sinceScan)
    /\ IF sinceScan >= i THEN overdue' = overdue /\ late' = late + 1
                         ELSE overdue' = 0 /\ late' = 0
    /\ UNCHANGED <<loop, watchdog, sinceScan>>

TimedOut ==
    /\ loop = "waiting"
    /\ queue = <<>> /\ wait = 0

OnTimeoutDue ==
    /\ TimedOut
    /\ Due
    /\ UNCHANGED queue
    /\ BeginPass

OnTimeoutEarly ==
    /\ TimedOut
    /\ ~ Due
    /\ Ping
    /\ wait' = NextWakeup(idle, sinceScan)
    /\ UNCHANGED <<loop, watchdog, idle, queue, sinceScan, overdue, late>>

\* last_scan = Instant::now(), and back to recv_timeout.
PassEnds ==
    /\ loop = "passing"
    /\ loop' = "waiting"
    /\ sinceScan' = 0 /\ overdue' = 0 /\ late' = 0
    /\ wait' = NextWakeup(idle, 0)
    /\ UNCHANGED <<watchdog, idle, queue, sincePing, inPass>>

Starved == watchdog # None /\ sincePing >= watchdog

\* WatchdogSec= is over; Restart=always, and the initial pass begins again,
\* with the configuration as it is then.
Kill ==
    /\ loop # "down" /\ Starved
    /\ loop' = "down"
    /\ queue' = <<>>
    /\ UNCHANGED <<watchdog, idle, wait, sinceScan, sincePing, inPass, overdue, late>>

Restart(i) ==
    /\ loop = "down"
    /\ loop' = "passing"
    /\ idle' = i
    /\ wait' = 0 /\ sinceScan' = 0 /\ sincePing' = 0 /\ inPass' = 0
    /\ overdue' = 0 /\ late' = 0
    /\ UNCHANGED <<watchdog, queue>>

WaitOrPass ==
    \/ /\ loop = "waiting"
       /\ queue = <<>> /\ wait > 0
       /\ wait' = wait - 1
       /\ overdue' = IF Due THEN overdue + 1 ELSE overdue
       /\ UNCHANGED inPass
    \/ /\ loop = "passing"
       /\ inPass < MaxPass
       /\ inPass' = inPass + 1
       /\ UNCHANGED <<wait, overdue>>

Tick ==
    /\ ~ Starved
    /\ WaitOrPass
    /\ sinceScan' = sinceScan + 1
    /\ sincePing' = sincePing + 1
    /\ UNCHANGED <<loop, watchdog, idle, queue, late>>

Next ==
    \/ \E e \in {"reload", "scan"} : Arrive(e)
    \/ OnScan \/ OnTimeoutDue \/ OnTimeoutEarly
    \/ \E i \in Idles : OnReload(i) \/ Restart(i)
    \/ PassEnds
    \/ Kill
    \/ Tick

Spec == Init /\ [][Next]_vars

-----------------------------------------------------------------------------
(***************************************************************************)
(* systemd waits in vain for a ping only when one pass, added to one wait  *)
(* of half the watchdog interval or of the floor, is as long as            *)
(* WatchdogSec=. Floods of events and reloads of idle_interval do not      *)
(* count; but a pass of a little more than half of WatchdogSec= can be     *)
(* enough, for there is no ping when it ends.                              *)
(***************************************************************************)
StarvedOnlyByLongPass ==
    Starved => inPass + Greater(watchdog \div 2, Floor) >= watchdog

(***************************************************************************)
(* An idle pass is late by no more than the floor, and once more for each  *)
(* reload that comes while it is overdue: those put it off, one by one,    *)
(* and nothing else does, whatever the watchdog.                           *)
(***************************************************************************)
IdlePassSoon == loop = "waiting" => overdue <= Floor * (1 + late)

-----------------------------------------------------------------------------
(* What makes the two inductive: a promise about the rest of the wait.     *)

PingAhead ==
    /\ loop = "passing" => sincePing = inPass
    /\ loop = "waiting" /\ watchdog # None =>
          sincePing + wait <= inPass + Greater(watchdog \div 2, Floor)

PassAhead ==
    loop = "waiting" =>
        IF Due THEN overdue + wait <= Floor * (1 + late)
               ELSE overdue = 0 /\ (wait <= Floor \/ sinceScan + wait <= idle)

WakeupsInv == TypeOK /\ PingAhead /\ PassAhead /\ StarvedOnlyByLongPass
=============================================================================
