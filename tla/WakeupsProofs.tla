--------------------------- MODULE WakeupsProofs ----------------------------
(***************************************************************************)
(* Proofs about Wakeups: for every watchdog, idle interval, floor, length  *)
(* of a pass and number of events.                                         *)
(***************************************************************************)
EXTENDS Wakeups, TLAPS

(***************************************************************************)
(* What next_wakeup returns is a wait of no more than half the watchdog    *)
(* interval, or the floor, and one that does not pass the time at which an *)
(* idle pass is due by more than the floor.                                *)
(***************************************************************************)
LEMMA NextWakeupBounds ==
    ASSUME watchdog \in Nat \cup {None}, NEW i \in Nat, NEW e \in Nat
    PROVE  /\ NextWakeup(i, e) \in Nat
           /\ watchdog # None =>
                 NextWakeup(i, e) <= Greater(watchdog \div 2, Floor)
           /\ NextWakeup(i, e) <= Floor \/ (e < i /\ e + NextWakeup(i, e) <= i)
  <1>1. UntilScan(i, e) \in Nat /\ (UntilScan(i, e) = 0 \/ (e < i /\ e + UntilScan(i, e) = i))
    BY DEF UntilScan
  <1>2. Floor \in Nat
    BY WakeupsAssumption
  <1>3. CASE watchdog = None
    BY <1>1, <1>2, <1>3 DEF NextWakeup, Greater
  <1>4. CASE watchdog # None
    <2>1. watchdog \in Nat /\ watchdog \div 2 \in Nat
      BY <1>4
    <2> DEFINE half == watchdog \div 2
               until == UntilScan(i, e)
    <2>2. NextWakeup(i, e) = Greater(Floor, Smaller(half, until))
      BY <1>4 DEF NextWakeup, WatchdogInterval
    <2>3. half \in Nat
      BY <2>1
    <2> HIDE DEF half, until
    <2>4. until \in Nat /\ (until = 0 \/ (e < i /\ e + until = i))
      BY <1>1 DEF until
    <2>5. /\ NextWakeup(i, e) \in Nat
          /\ NextWakeup(i, e) <= Greater(half, Floor)
          /\ NextWakeup(i, e) <= Floor \/ (e < i /\ e + NextWakeup(i, e) <= i)
      BY <2>2, <2>3, <2>4, <1>2 DEF Greater, Smaller
    <2> QED
      BY <2>5 DEF half
  <1> QED
    BY <1>3, <1>4

(***************************************************************************)
(* The inductive invariant of the loop's waits.                            *)
(***************************************************************************)
THEOREM WaitsInvariant == Spec => []WakeupsInv
  <1>1. Init => WakeupsInv
    BY WakeupsAssumption
       DEF Init, WakeupsInv, TypeOK, PingAhead, PassAhead, StarvedOnlyByLongPass, Starved, Greater
  <1>2. WakeupsInv /\ [Next]_vars => WakeupsInv'
    <2> SUFFICES ASSUME WakeupsInv, [Next]_vars PROVE WakeupsInv'
      OBVIOUS
    <2> USE DEF WakeupsInv
    <2> TypeOK /\ PingAhead /\ PassAhead /\ StarvedOnlyByLongPass
      OBVIOUS
    <2>f. Floor \in Nat \ {0} /\ watchdog \in Nat \cup {None} /\ idle \in Nat /\ None \notin Nat
      BY WakeupsAssumption DEF TypeOK
    <2>g. watchdog # None => watchdog \div 2 \in Nat
      BY <2>f
    <2>1. ASSUME NEW e \in {"reload", "scan"}, Arrive(e) PROVE WakeupsInv'
      <3>1. queue' \in Seq({"reload", "scan"})
        BY <2>1 DEF Arrive, TypeOK
      <3> QED
        BY <2>1, <3>1 DEF Arrive, TypeOK, PingAhead, PassAhead, StarvedOnlyByLongPass, Starved, Due
    <2>2. ASSUME OnScan \/ OnTimeoutDue PROVE WakeupsInv'
      <3>1. queue' \in Seq({"reload", "scan"})
        BY <2>2 DEF OnScan, OnTimeoutDue, TypeOK
      <3>2. BeginPass
        BY <2>2 DEF OnScan, OnTimeoutDue
      <3>3. TypeOK' /\ PingAhead' /\ PassAhead'
        BY <3>1, <3>2 DEF BeginPass, Ping, TypeOK, PingAhead, PassAhead
      <3>4. StarvedOnlyByLongPass'
        BY <3>2, <2>f, <2>g DEF BeginPass, Ping, StarvedOnlyByLongPass, Starved, Greater
      <3> QED
        BY <3>3, <3>4
    <2>3. ASSUME OnTimeoutEarly PROVE WakeupsInv'
      <3>1. sinceScan \in Nat
        BY DEF TypeOK
      <3>2. /\ wait' \in Nat
            /\ watchdog # None => wait' <= Greater(watchdog \div 2, Floor)
            /\ wait' <= Floor \/ sinceScan + wait' <= idle
        BY <2>3, <2>f, <3>1, NextWakeupBounds DEF OnTimeoutEarly
      <3>3. TypeOK'
        BY <2>3, <3>2 DEF OnTimeoutEarly, TimedOut, Ping, TypeOK
      <3>4. PingAhead'
        BY <2>3, <3>2, <2>f, <2>g DEF OnTimeoutEarly, TimedOut, Ping, PingAhead, Greater
      <3>5. PassAhead'
        BY <2>3, <3>2 DEF OnTimeoutEarly, TimedOut, Ping, PassAhead, Due
      <3>6. StarvedOnlyByLongPass'
        BY <2>3, <2>f, <2>g DEF OnTimeoutEarly, Ping, StarvedOnlyByLongPass, Starved, Greater
      <3> QED
        BY <3>3, <3>4, <3>5, <3>6
    <2>4. ASSUME NEW i \in Idles, OnReload(i) PROVE WakeupsInv'
      <3>1. sinceScan \in Nat /\ i \in Nat /\ overdue \in Nat /\ late \in Nat
        BY WakeupsAssumption DEF TypeOK
      <3>2. /\ wait' \in Nat
            /\ watchdog # None => wait' <= Greater(watchdog \div 2, Floor)
            /\ wait' <= Floor \/ (sinceScan < i /\ sinceScan + wait' <= i)
        BY <2>4, <2>f, <3>1, NextWakeupBounds DEF OnReload
      <3>q. queue' \in Seq({"reload", "scan"})
        BY <2>4 DEF OnReload, TypeOK
      <3>3. TypeOK'
        BY <2>4, <3>1, <3>2, <3>q DEF OnReload, Ping, TypeOK
      <3>4. PingAhead'
        BY <2>4, <3>2, <2>f, <2>g DEF OnReload, Ping, PingAhead, Greater
      <3>5. PassAhead'
        <4>1. CASE sinceScan >= i
          <5>1. overdue' = overdue /\ late' = late + 1 /\ wait' <= Floor /\ Due'
            BY <4>1, <2>4, <3>1, <3>2 DEF OnReload, Due
          <5>2. overdue <= Floor * (1 + late)
            <6>1. CASE Due
              <7>1. Floor * (1 + late) \in Nat
                BY <2>f, <3>1
              <7> QED
                BY <6>1, <2>4, <3>1, <7>1 DEF OnReload, PassAhead, TypeOK
            <6>2. CASE ~ Due
              <7>1. overdue = 0
                BY <6>2, <2>4 DEF OnReload, PassAhead
              <7>2. Floor * (1 + late) \in Nat
                BY <2>f, <3>1
              <7> QED
                BY <7>1, <7>2
            <6> QED
              BY <6>1, <6>2
          <5>3. Floor * (1 + (late + 1)) = Floor * (1 + late) + Floor
            BY <2>f, <3>1
          <5>4. Floor * (1 + late) \in Nat
            BY <2>f, <3>1
          <5>5. overdue' + wait' <= Floor * (1 + late')
            <6> DEFINE slack == Floor * (1 + late)
            <6>1. slack \in Nat /\ overdue <= slack
              BY <5>2, <5>4
            <6>2. Floor * (1 + late') = slack + Floor
              BY <5>1, <5>3
            <6> HIDE DEF slack
            <6>3. overdue' = overdue /\ overdue \in Nat /\ wait' \in Nat /\ wait' <= Floor
              BY <5>1, <3>1, <3>2
            <6>4. overdue + wait' <= slack + Floor
              <7> DEFINE w == wait'
              <7>1. w \in Nat /\ w <= Floor
                BY <6>3
              <7> HIDE DEF w
              <7>2. overdue + w <= slack + Floor
                BY <6>1, <6>3, <7>1, <2>f
              <7> QED
                BY <7>2 DEF w
            <6> QED
              BY <6>2, <6>3, <6>4
          <5> QED
            BY <5>1, <5>5 DEF PassAhead
        <4>2. CASE ~ (sinceScan >= i)
          BY <4>2, <2>4, <3>1, <3>2 DEF OnReload, PassAhead, Due
        <4> QED
          BY <4>1, <4>2
      <3>6. StarvedOnlyByLongPass'
        BY <2>4, <2>f, <2>g DEF OnReload, Ping, StarvedOnlyByLongPass, Starved, Greater
      <3> QED
        BY <3>3, <3>4, <3>5, <3>6
    <2>5. ASSUME PassEnds PROVE WakeupsInv'
      <3>1. /\ wait' \in Nat
            /\ watchdog # None => wait' <= Greater(watchdog \div 2, Floor)
            /\ wait' <= Floor \/ wait' <= idle
        <4>1. wait' = NextWakeup(idle, 0)
          BY <2>5 DEF PassEnds
        <4>2. /\ NextWakeup(idle, 0) \in Nat
              /\ watchdog # None => NextWakeup(idle, 0) <= Greater(watchdog \div 2, Floor)
              /\ NextWakeup(idle, 0) <= Floor \/ 0 + NextWakeup(idle, 0) <= idle
          BY <2>f, NextWakeupBounds
        <4> QED
          BY <4>1, <4>2
      <3>2. sincePing = inPass /\ inPass \in Nat
        BY <2>5 DEF PassEnds, PingAhead, TypeOK
      <3>3. TypeOK'
        BY <2>5, <3>1 DEF PassEnds, TypeOK
      <3>4. PingAhead'
        BY <2>5, <3>1, <3>2, <2>f, <2>g DEF PassEnds, PingAhead, Greater
      <3>5. PassAhead'
        <4>1. Due' => wait' <= Floor
          BY <2>5, <2>f, <3>1 DEF PassEnds, Due
        <4> QED
          BY <2>5, <2>f, <3>1, <4>1 DEF PassEnds, PassAhead, Due
      <3>6. StarvedOnlyByLongPass'
        BY <2>5 DEF PassEnds, StarvedOnlyByLongPass, Starved
      <3> QED
        BY <3>3, <3>4, <3>5, <3>6
    <2>6. ASSUME Kill PROVE WakeupsInv'
      BY <2>6 DEF Kill, TypeOK, PingAhead, PassAhead, StarvedOnlyByLongPass, Starved
    <2>7. ASSUME NEW i \in Idles, Restart(i) PROVE WakeupsInv'
      <3>1. TypeOK' /\ PingAhead' /\ PassAhead'
        BY <2>7 DEF Restart, TypeOK, PingAhead, PassAhead
      <3>2. StarvedOnlyByLongPass'
        BY <2>7, <2>f, <2>g DEF Restart, StarvedOnlyByLongPass, Starved, Greater
      <3> QED
        BY <3>1, <3>2
    <2>8. ASSUME Tick PROVE WakeupsInv'
      <3>1. /\ loop' = loop /\ watchdog' = watchdog /\ idle' = idle
            /\ queue' = queue /\ late' = late
            /\ sinceScan' = sinceScan + 1 /\ sincePing' = sincePing + 1
        BY <2>8 DEF Tick
      <3>2. CASE loop = "waiting"
        <4>1. /\ wait > 0 /\ wait' = wait - 1 /\ inPass' = inPass
              /\ overdue' = IF Due THEN overdue + 1 ELSE overdue
          BY <3>2, <2>8 DEF Tick, WaitOrPass
        <4>2. TypeOK'
          BY <3>1, <4>1 DEF TypeOK
        <4>3. PingAhead'
          BY <3>1, <3>2, <4>1, <2>f, <2>g DEF PingAhead, TypeOK, Greater
        <4>4. PassAhead'
          <5> DEFINE slack == Floor * (1 + late)
          <5>1. slack \in Nat /\ Floor <= slack
            <6>1. late \in Nat
              BY DEF TypeOK
            <6>2. slack = Floor + Floor * late /\ Floor * late \in Nat
              BY <6>1, <2>f
            <6> QED
              BY <6>2, <2>f
          <5> HIDE DEF slack
          <5>2. CASE Due
            <6>1. overdue + wait <= slack
              BY <5>2, <3>2 DEF PassAhead, slack
            <6>2. Due' /\ overdue' + wait' <= slack
              BY <5>1, <5>2, <6>1, <3>1, <4>1, <2>f DEF Due, TypeOK
            <6> QED
              BY <6>2, <3>1 DEF PassAhead, slack
          <5>3. CASE ~ Due
            <6>1. overdue = 0 /\ (wait <= Floor \/ sinceScan + wait <= idle)
              BY <5>3, <3>2 DEF PassAhead
            <6>2. overdue' = 0 /\ (wait' <= Floor \/ sinceScan' + wait' <= idle')
              BY <5>3, <6>1, <3>1, <4>1, <2>f DEF TypeOK
            <6>3. Due' => overdue' + wait' <= slack
              BY <5>3, <6>1, <5>1, <3>1, <4>1, <2>f DEF TypeOK, Due
            <6> QED
              BY <6>2, <6>3, <3>1 DEF PassAhead, slack
          <5> QED
            BY <5>2, <5>3
        <4>5. StarvedOnlyByLongPass'
          BY <3>1, <3>2, <4>1, <4>2, <4>3, <2>f, <2>g
             DEF PingAhead, TypeOK, StarvedOnlyByLongPass, Starved, Greater
        <4> QED
          BY <4>2, <4>3, <4>4, <4>5
      <3>3. CASE loop = "passing"
        <4>1. inPass' = inPass + 1 /\ UNCHANGED <<wait, overdue>>
          BY <3>3, <2>8 DEF Tick, WaitOrPass
        <4>2. TypeOK'
          BY <3>1, <4>1 DEF TypeOK
        <4>3. PingAhead' /\ PassAhead'
          BY <3>1, <3>3, <4>1 DEF PingAhead, PassAhead
        <4>4. StarvedOnlyByLongPass'
          BY <3>1, <3>3, <4>1, <4>2, <4>3, <2>f, <2>g
             DEF PingAhead, TypeOK, StarvedOnlyByLongPass, Starved, Greater
        <4> QED
          BY <4>2, <4>3, <4>4
      <3> QED
        BY <3>2, <3>3, <2>8 DEF Tick, WaitOrPass
    <2>9. CASE UNCHANGED vars
      BY <2>9 DEF vars, TypeOK, PingAhead, PassAhead, StarvedOnlyByLongPass, Starved, Due
    <2> QED
      BY <2>1, <2>2, <2>3, <2>4, <2>5, <2>6, <2>7, <2>8, <2>9 DEF Next
  <1> QED
    BY <1>1, <1>2, PTL DEF Spec

(***************************************************************************)
(* Only a long pass starves systemd's watchdog.                            *)
(***************************************************************************)
THEOREM WatchdogServed == Spec => []StarvedOnlyByLongPass
  <1>1. WakeupsInv => StarvedOnlyByLongPass
    BY DEF WakeupsInv
  <1> QED
    BY <1>1, WaitsInvariant, PTL

(***************************************************************************)
(* An overdue idle pass is put off by the floor and by reloads, and by     *)
(* nothing else.                                                           *)
(***************************************************************************)
THEOREM IdlePassesCome == Spec => []IdlePassSoon
  <1>1. WakeupsInv => IdlePassSoon
    <2> SUFFICES ASSUME WakeupsInv, loop = "waiting" PROVE overdue <= Floor * (1 + late)
      BY DEF IdlePassSoon
    <2>1. overdue \in Nat /\ wait \in Nat /\ late \in Nat /\ Floor \in Nat
      BY WakeupsAssumption DEF WakeupsInv, TypeOK
    <2>2. Floor * (1 + late) \in Nat
      BY <2>1
    <2>3. overdue + wait <= Floor * (1 + late) \/ overdue = 0
      BY DEF WakeupsInv, PassAhead
    <2> QED
      BY <2>1, <2>2, <2>3
  <1> QED
    BY <1>1, WaitsInvariant, PTL
=============================================================================
