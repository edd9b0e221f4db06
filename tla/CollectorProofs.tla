-------------------------- MODULE CollectorProofs ---------------------------
(***************************************************************************)
(* Theorems about Gc: a pass accounts for all it has listed, and passes    *)
(* implement the abstract Collector, for every directory, configuration    *)
(* and journal, and every interleaving.                                    *)
(***************************************************************************)
EXTENDS GcProofs

-----------------------------------------------------------------------------
(* Lists and sequences.                                                    *)

\* A sequence is its head and its tail.
LEMMA HeadAndTail ==
    ASSUME NEW S, NEW s \in Seq(S), s # <<>>
    PROVE  /\ 1 \in DOMAIN s /\ s[1] = Head(s)
           /\ \A i \in DOMAIN Tail(s) : i + 1 \in DOMAIN s /\ Tail(s)[i] = s[i + 1]
           /\ \A i \in DOMAIN s : i # 1 => i - 1 \in DOMAIN Tail(s) /\ Tail(s)[i - 1] = s[i]
           /\ DOMAIN s \subseteq Nat \ {0} /\ DOMAIN Tail(s) \subseteq Nat \ {0}
OBVIOUS

\* A longer sequence is the old one and its last element.
LEMMA AppendedLast ==
    ASSUME NEW S, NEW s \in Seq(S), NEW e
    PROVE  /\ DOMAIN Append(s, e) = DOMAIN s \cup {Len(s) + 1}
           /\ Len(s) + 1 \notin DOMAIN s
           /\ Append(s, e)[Len(s) + 1] = e
           /\ \A i \in DOMAIN s : Append(s, e)[i] = s[i]
           /\ DOMAIN s = 1..Len(s) /\ Len(s) \in Nat
OBVIOUS

\* The six lists by their names.
LEMMA ReportedLists ==
    /\ DOMAIN Reported = 1..6
    /\ Reported[1] = report.kept /\ Reported[2] = report.removed
    /\ Reported[3] = report.would_remove /\ Reported[4] = report.too_young
    /\ Reported[5] = report.unparseable /\ Reported[6] = report.errors
BY DEF Reported

\* A name that is new to the report is added to one of its lists.
LEMMA ReportGrows ==
    ASSUME report \in ReportType, NEW x, ~ InReport(x),
           \A i, j \in DOMAIN Reported : i # j => Reported[i] \cap Reported[j] = {},
           NEW k \in 1..6, DOMAIN Reported' = 1..6,
           \A i \in 1..6 : Reported'[i] = IF i = k THEN Reported[i] \cup {x} ELSE Reported[i]
    PROVE  /\ \A i, j \in DOMAIN Reported' : i # j => Reported'[i] \cap Reported'[j] = {}
           /\ \A y : InReport(y)' <=> InReport(y) \/ y = x
<1>1. DOMAIN Reported = 1..6
  BY ReportedLists
<1>2. \A i \in 1..6 : x \notin Reported[i]
  BY <1>1 DEF InReport
<1>3. \A i, j \in DOMAIN Reported' : i # j => Reported'[i] \cap Reported'[j] = {}
  BY <1>1, <1>2
<1>4. ASSUME NEW y
      PROVE  InReport(y)' <=> InReport(y) \/ y = x
  BY <1>1 DEF InReport
<1> QED
  BY <1>3, <1>4

\* The lists after each of the updates of the report.
LEMMA ReportUpdated ==
    ASSUME report \in ReportType, NEW x
    PROVE  /\ report' = [report EXCEPT !.kept = @ \cup {x}] =>
                 \A i \in 1..6 : Reported'[i] = IF i = 1 THEN Reported[i] \cup {x} ELSE Reported[i]
           /\ report' = [report EXCEPT !.removed = @ \cup {x}] =>
                 \A i \in 1..6 : Reported'[i] = IF i = 2 THEN Reported[i] \cup {x} ELSE Reported[i]
           /\ report' = [report EXCEPT !.would_remove = @ \cup {x}] =>
                 \A i \in 1..6 : Reported'[i] = IF i = 3 THEN Reported[i] \cup {x} ELSE Reported[i]
           /\ report' = [report EXCEPT !.too_young = @ \cup {x}] =>
                 \A i \in 1..6 : Reported'[i] = IF i = 4 THEN Reported[i] \cup {x} ELSE Reported[i]
           /\ report' = [report EXCEPT !.unparseable = @ \cup {x}] =>
                 \A i \in 1..6 : Reported'[i] = IF i = 5 THEN Reported[i] \cup {x} ELSE Reported[i]
           /\ report' = [report EXCEPT !.errors = @ \cup {x}] =>
                 \A i \in 1..6 : Reported'[i] = IF i = 6 THEN Reported[i] \cup {x} ELSE Reported[i]
BY DEF Reported, ReportType

-----------------------------------------------------------------------------
(* The pass accounts for its listing.                                      *)

\* An idle collector has nothing to account for.
LEMMA InitAccounts == ScanInit => AccountsInv
<1> SUFFICES ASSUME ScanInit PROVE AccountsInv
  OBVIOUS
<1>1. /\ pc = "idle" /\ candidates = <<>> /\ classified = <<>> /\ report = EmptyReport
      /\ next = 1 /\ seen = {} /\ DOMAIN candidates = {} /\ DOMAIN classified = {}
  BY DEF ScanInit
<1>2. \A i \in DOMAIN Reported : Reported[i] = {}
  BY <1>1 DEF Reported, EmptyReport
<1>3. \A d : ~ Pending(d) /\ ~ InReport(d)
  BY <1>1, <1>2 DEF Pending, IsCandidate, IsClassified, InReport
<1>4. PhasesOfPass /\ OnePlaceEach
  BY <1>1, <1>2, <1>3 DEF PhasesOfPass, OnePlaceEach, EmptyReport
<1>5. ListingAccounted /\ FindingsTrue
  BY <1>1, <1>3 DEF ListingAccounted, FindingsTrue, EmptyReport
<1> QED
  BY <1>4, <1>5 DEF AccountsInv

\* The others change nothing the pass remembers, nor what it has found.
LEMMA OthersKeepAccounts ==
    ASSUME PassInv, AccountsInv,
           \/ DirNext /\ UNCHANGED <<scanVars, ctlVars>>
           \/ CtlNext /\ UNCHANGED scanVars
    PROVE  AccountsInv'
<1>1. /\ UNCHANGED scanVars
      /\ stable' \subseteq stable
      /\ born \subseteq born'
      /\ \A d \in born : mtime'[d] = mtime[d]
  BY OthersStep
<1>2. PhasesOfPass' /\ OnePlaceEach' /\ ListingAccounted'
  BY <1>1 DEF AccountsInv, scanVars, PhasesOfPass, OnePlaceEach, ListingAccounted,
     Pending, IsCandidate, IsClassified, InReport, Reported, ListingFailed
<1>3. FindingsTrue'
  BY <1>1 DEF AccountsInv, scanVars, FindingsTrue, Parses
<1> QED
  BY <1>2, <1>3 DEF AccountsInv

\* A pass that starts has listed nothing.
LEMMA StartKeepsAccounts ==
    ASSUME PassInv, AccountsInv, ScanStart
    PROVE  AccountsInv'
<1>1. /\ pc = "idle" /\ pc' \in {"listing", "applying"}
      /\ UNCHANGED <<seen, candidates, classified, next>>
      /\ \/ report' = EmptyReport
         \/ report' = [EmptyReport EXCEPT !.errors = {Directory}] /\ pc' = "applying"
  BY DEF ScanStart, OpenDirectory, OpenFails
<1>2. /\ candidates' = <<>> /\ classified' = <<>> /\ seen' = {} /\ next' = 1
      /\ DOMAIN candidates' = {} /\ DOMAIN classified' = {}
  BY <1>1 DEF PassInv, MemoryOfPass, AccountsInv, PhasesOfPass
<1>3. /\ DOMAIN Reported' = 1..6
      /\ \A i \in 1..5 : Reported'[i] = {}
      /\ Reported'[6] \in {{}, {Directory}}
  BY <1>1 DEF Reported, EmptyReport
<1>4. \A d \in Dumps : ~ Pending(d)' /\ ~ InReport(d)'
  BY <1>2, <1>3, ScanAssumption DEF Pending, IsCandidate, IsClassified, InReport
<1>5. PhasesOfPass'
  BY <1>1, <1>2 DEF PhasesOfPass, EmptyReport
<1>6. OnePlaceEach'
  BY <1>2, <1>3, <1>4 DEF OnePlaceEach
<1>7. ListingAccounted'
  BY <1>2, <1>4 DEF ListingAccounted
<1>8. FindingsTrue'
  BY <1>1, <1>2, ScanAssumption DEF FindingsTrue, EmptyReport
<1> QED
  BY <1>5, <1>6, <1>7, <1>8 DEF AccountsInv

\* A marker that is read is no dump of the listing.
LEMMA MarkerAccounted ==
    ASSUME PassInv, AccountsInv, NEW n \in files, ReadMarker(n)
    PROVE  AccountsInv'
<1>1. /\ pc = "listing" /\ seen' = seen \cup {n} /\ IsMarker(n)
      /\ UNCHANGED <<pc, cfg, now, candidates, classified, next, report, dirVars>>
      /\ markers \subseteq markers'
  BY DEF ReadMarker, Reading
<1>2. \A d \in Dumps : n # DumpName(d)
  BY <1>1 DEF IsMarker, DumpName
<1>3. PhasesOfPass' /\ OnePlaceEach' /\ ListingAccounted'
  BY <1>1, <1>2 DEF AccountsInv, PhasesOfPass, OnePlaceEach, ListingAccounted,
     Pending, IsCandidate, IsClassified, InReport, Reported, ListingFailed
<1>4. FindingsTrue'
  BY <1>1 DEF AccountsInv, FindingsTrue, Parses, dirVars
<1> QED
  BY <1>3, <1>4 DEF AccountsInv

\* A dump that is read becomes a candidate. It was not listed before, so it
\* had no place yet.
LEMMA CandidateAccounted ==
    ASSUME PassInv, AccountsInv, NEW n \in files, ReadCandidate(n)
    PROVE  AccountsInv'
<1> DEFINE d == n[1]
<1>1. /\ pc = "listing" /\ seen' = seen \cup {n} /\ n \notin seen /\ ~ IsMarker(n)
      /\ candidates' = Append(candidates, d)
      /\ UNCHANGED <<pc, cfg, now, classified, next, report, markers, dirVars>>
  BY DEF ReadCandidate, Reading
<1>2. d \in Dumps /\ n = DumpName(d)
  BY <1>1 DEF PassInv, TypeOK, DirTypeOK, Names, IsMarker, DumpName
<1>3. ~ Pending(d) /\ ~ InReport(d)
  BY <1>1, <1>2 DEF AccountsInv, ListingAccounted
<1>4. classified = <<>> /\ DOMAIN classified = {} /\ candidates \in Seq(Dumps)
  BY <1>1 DEF PassInv, MemoryOfPass, TypeOK, ScanTypeOK
<1> HIDE DEF d
<1>5. \A e : IsCandidate(e)' <=> IsCandidate(e) \/ e = d
  BY <1>1, <1>4, AppendedLast DEF IsCandidate
<1>6. \A e : /\ Pending(e)' <=> Pending(e) \/ e = d
             /\ InReport(e)' <=> InReport(e)
  BY <1>1, <1>4, <1>5 DEF Pending, IsClassified, InReport, Reported
<1>7. PhasesOfPass'
  BY <1>1 DEF AccountsInv, PhasesOfPass
<1>8. OnePlaceEach'
  <2>1. \A i, j \in DOMAIN candidates' : i # j => candidates'[i] # candidates'[j]
    <3>1. \A i \in DOMAIN candidates : candidates[i] # d
      BY <1>3 DEF Pending, IsCandidate
    <3> QED
      BY <1>1, <1>4, <3>1, AppendedLast DEF AccountsInv, OnePlaceEach
  <2>2. \A e \in Dumps : ~ (Pending(e)' /\ InReport(e)')
    BY <1>3, <1>6 DEF AccountsInv, OnePlaceEach
  <2> QED
    BY <1>1, <1>4, <2>1, <2>2 DEF AccountsInv, OnePlaceEach, Reported
<1>9. ListingAccounted'
  <2>1. \A e \in Dumps : DumpName(e) \in seen' <=> DumpName(e) \in seen \/ e = d
    BY <1>1, <1>2 DEF DumpName
  <2> QED
    BY <1>1, <1>6, <2>1 DEF AccountsInv, ListingAccounted, ListingFailed
<1>10. FindingsTrue'
  BY <1>1 DEF AccountsInv, FindingsTrue, Parses, dirVars
<1> QED
  BY <1>7, <1>8, <1>9, <1>10 DEF AccountsInv

\* After an error the listing need not be accounted for.
LEMMA ErrorAccounted ==
    ASSUME PassInv, AccountsInv, NEW n \in files, ReadFails(n)
    PROVE  AccountsInv'
<1>1. /\ pc = "listing" /\ seen \subseteq seen'
      /\ report' = [report EXCEPT !.errors = @ \cup {Directory}]
      /\ UNCHANGED <<pc, cfg, now, candidates, classified, next, markers, dirVars>>
  BY DEF ReadFails, Reading
<1>2. report \in ReportType
  BY DEF PassInv, TypeOK, ScanTypeOK
<1>3. \A i \in 1..6 : Reported'[i] = IF i = 6 THEN Reported[i] \cup {Directory} ELSE Reported[i]
  BY <1>1, <1>2, ReportUpdated
<1>4. DOMAIN Reported' = 1..6 /\ DOMAIN Reported = 1..6
  BY DEF Reported
<1>5. \A i \in 1..5 : Directory \notin Reported[i]
  BY <1>2, ScanAssumption, ReportedLists DEF ReportType
<1>6. \A i, j \in DOMAIN Reported' : i # j => Reported'[i] \cap Reported'[j] = {}
  BY <1>3, <1>4, <1>5 DEF AccountsInv, OnePlaceEach
<1>7. \A d \in Dumps : InReport(d)' <=> InReport(d)
  BY <1>3, <1>4, ScanAssumption DEF InReport
<1>8. \A d : Pending(d)' <=> Pending(d)
  BY <1>1 DEF Pending, IsCandidate, IsClassified
<1>9. ListingFailed'
  BY <1>1, <1>2 DEF ListingFailed, ReportType
<1>10. PhasesOfPass'
  BY <1>1, <1>2 DEF AccountsInv, PhasesOfPass, ReportType
<1>11. OnePlaceEach'
  BY <1>1, <1>6, <1>7, <1>8 DEF AccountsInv, OnePlaceEach
<1>12. ListingAccounted'
  BY <1>1, <1>7, <1>8, <1>9 DEF AccountsInv, ListingAccounted
<1>13. FindingsTrue'
  BY <1>1, <1>2, ScanAssumption DEF AccountsInv, FindingsTrue, Parses, dirVars, ReportType
<1> QED
  BY <1>10, <1>11, <1>12, <1>13 DEF AccountsInv

\* Listing the directory, to its end.
LEMMA ListingKeepsAccounts ==
    ASSUME PassInv, AccountsInv,
           EndOfDirectory
           \/ \E n \in files : ReadMarker(n) \/ ReadCandidate(n) \/ ReadFails(n)
    PROVE  AccountsInv'
<1>1. CASE EndOfDirectory
  <2>1. /\ pc = "listing" /\ pc' = "examining"
        /\ UNCHANGED <<cfg, now, seen, markers, candidates, classified, next, report, dirVars>>
    BY <1>1 DEF EndOfDirectory
  <2>2. PhasesOfPass' /\ OnePlaceEach' /\ ListingAccounted'
    BY <2>1 DEF AccountsInv, PhasesOfPass, OnePlaceEach, ListingAccounted,
       Pending, IsCandidate, IsClassified, InReport, Reported, ListingFailed
  <2>3. FindingsTrue'
    BY <2>1 DEF AccountsInv, FindingsTrue, Parses, dirVars
  <2> QED
    BY <2>2, <2>3 DEF AccountsInv
<1> QED
  BY <1>1, MarkerAccounted, CandidateAccounted, ErrorAccounted

\* The candidate that is examined leaves the candidates and has no other place.
LEMMA CandidateLeaves ==
    ASSUME PassInv, AccountsInv, NEW d \in Dumps, Examining(d)
    PROVE  /\ \A e : IsCandidate(e) <=> IsCandidate(e)' \/ e = d
           /\ ~ IsCandidate(d)'
           /\ \A i \in DOMAIN classified : classified[i].dump # d
           /\ ~ InReport(d)
           /\ \A i, j \in DOMAIN candidates' : i # j => candidates'[i] # candidates'[j]
           /\ \A i \in DOMAIN candidates', j \in DOMAIN classified :
                 candidates'[i] # classified[j].dump
<1> DEFINE s == candidates
           t == Tail(candidates)
<1>1. s \in Seq(Dumps) /\ s # <<>> /\ d = Head(s) /\ candidates' = t
  BY DEF Examining, PassInv, TypeOK, ScanTypeOK
<1>2. /\ 1 \in DOMAIN s /\ s[1] = d
      /\ \A i \in DOMAIN t : i + 1 \in DOMAIN s /\ t[i] = s[i + 1]
      /\ \A i \in DOMAIN s : i # 1 => i - 1 \in DOMAIN t /\ t[i - 1] = s[i]
      /\ DOMAIN s \subseteq Nat \ {0} /\ DOMAIN t \subseteq Nat \ {0}
  BY <1>1, HeadAndTail
<1>3. /\ \A i, j \in DOMAIN s : i # j => s[i] # s[j]
      /\ \A i \in DOMAIN s, j \in DOMAIN classified : s[i] # classified[j].dump
      /\ \A e \in Dumps : ~ (Pending(e) /\ InReport(e))
  BY DEF AccountsInv, OnePlaceEach
<1> HIDE DEF s, t
<1>4. \A i \in DOMAIN t : t[i] # d
  BY <1>2, <1>3
<1>5. \A i, j \in DOMAIN t : i # j => t[i] # t[j]
  BY <1>2, <1>3
<1>6. \A i \in DOMAIN t, j \in DOMAIN classified : t[i] # classified[j].dump
  BY <1>2, <1>3
<1>7. \A e : IsCandidate(e) <=> (\E i \in DOMAIN t : t[i] = e) \/ e = d
  BY <1>2 DEF IsCandidate, s
<1>8. ~ InReport(d)
  BY <1>3, <1>7 DEF Pending
<1>9. \A e : IsCandidate(e)' <=> \E i \in DOMAIN t : t[i] = e
  BY <1>1 DEF IsCandidate
<1> QED
  BY <1>1, <1>2, <1>3, <1>4, <1>5, <1>6, <1>7, <1>8, <1>9

\* A candidate moves to one of the lists of the report.
LEMMA CandidateReported ==
    ASSUME PassInv, AccountsInv, NEW d \in Dumps, Examining(d), UNCHANGED classified,
           NEW k \in {4, 5, 6},
           report' \in ReportType,
           \A i \in 1..6 : Reported'[i] = IF i = k THEN Reported[i] \cup {d} ELSE Reported[i],
           FindingsTrue'
    PROVE  AccountsInv'
<1>1. UNCHANGED <<pc, cfg, seen, markers, next>> /\ pc = "examining"
  BY DEF Examining
<1>2. DOMAIN Reported' = 1..6 /\ DOMAIN Reported = 1..6
  BY DEF Reported
<1>3. report \in ReportType
  BY DEF PassInv, TypeOK, ScanTypeOK
<1>4. /\ \A e : IsCandidate(e) <=> IsCandidate(e)' \/ e = d
      /\ ~ IsCandidate(d)'
      /\ \A i \in DOMAIN classified : classified[i].dump # d
      /\ ~ InReport(d)
      /\ \A i, j \in DOMAIN candidates' : i # j => candidates'[i] # candidates'[j]
      /\ \A i \in DOMAIN candidates', j \in DOMAIN classified :
            candidates'[i] # classified[j].dump
  BY CandidateLeaves
<1>5. /\ \A i, j \in DOMAIN Reported' : i # j => Reported'[i] \cap Reported'[j] = {}
      /\ \A y : InReport(y)' <=> InReport(y) \/ y = d
  BY <1>2, <1>3, <1>4, ReportGrows DEF AccountsInv, OnePlaceEach
<1>6. \A e : IsClassified(e)' <=> IsClassified(e)
  BY <1>1 DEF IsClassified
<1>7. ~ IsClassified(d)
  BY <1>4 DEF IsClassified
<1>8. \A e : /\ Pending(e)' <=> Pending(e) /\ e # d
             /\ e = d => Pending(e)
  BY <1>4, <1>6, <1>7 DEF Pending
<1>9. PhasesOfPass'
  BY <1>1, <1>2 DEF AccountsInv, PhasesOfPass, Reported
<1>10. OnePlaceEach'
  BY <1>4, <1>5, <1>8 DEF AccountsInv, OnePlaceEach
<1>11. ListingAccounted'
  <2>1. ListingFailed' <=> ListingFailed
    BY ScanAssumption, <1>2 DEF ListingFailed, Reported
  <2> QED
    BY <1>1, <1>5, <1>8, <2>1 DEF AccountsInv, ListingAccounted
<1> QED
  BY <1>9, <1>10, <1>11 DEF AccountsInv

\* A candidate moves to the classified dumps.
LEMMA CandidateClassified ==
    ASSUME PassInv, AccountsInv, NEW d \in Dumps, Examining(d), UNCHANGED report,
           NEW e, classified' = Append(classified, e), e.dump = d,
           Parses(d), e.retained => DumpName(d) \in markers
    PROVE  AccountsInv'
<1>1. UNCHANGED <<pc, cfg, now, seen, markers, next, dirVars>> /\ pc = "examining"
  BY DEF Examining
<1>2. /\ \A x : IsCandidate(x) <=> IsCandidate(x)' \/ x = d
      /\ ~ IsCandidate(d)'
      /\ \A i \in DOMAIN classified : classified[i].dump # d
      /\ ~ InReport(d)
      /\ \A i, j \in DOMAIN candidates' : i # j => candidates'[i] # candidates'[j]
      /\ \A i \in DOMAIN candidates', j \in DOMAIN classified :
            candidates'[i] # classified[j].dump
  BY CandidateLeaves
<1> DEFINE n == Len(classified) + 1
<1>3. /\ DOMAIN classified' = DOMAIN classified \cup {n}
      /\ n \notin DOMAIN classified
      /\ classified'[n] = e
      /\ \A i \in DOMAIN classified : classified'[i] = classified[i]
      /\ DOMAIN classified = 1..Len(classified) /\ Len(classified) \in Nat
  <2>1. classified \in Seq(ClassifiedType)
    BY DEF PassInv, TypeOK, ScanTypeOK
  <2> QED
    BY <2>1, AppendedLast
<1>4. next = 1 /\ next' = 1 /\ n >= 1
  BY <1>1, <1>3 DEF AccountsInv, PhasesOfPass
<1> HIDE DEF n
<1>5. \A x : IsClassified(x)' <=> IsClassified(x) \/ x = d
  BY <1>3, <1>4 DEF IsClassified
<1>6. \A x : /\ Pending(x)' <=> Pending(x)
             /\ InReport(x)' <=> InReport(x)
  BY <1>2, <1>5 DEF Pending, InReport, Reported
<1>7. PhasesOfPass'
  BY <1>1 DEF AccountsInv, PhasesOfPass
<1>8. OnePlaceEach'
  <2>1. \A i, j \in DOMAIN classified' :
           i # j => classified'[i].dump # classified'[j].dump
    BY <1>2, <1>3 DEF AccountsInv, OnePlaceEach
  <2>2. \A i \in DOMAIN candidates', j \in DOMAIN classified' :
           candidates'[i] # classified'[j].dump
    <3>1. \A i \in DOMAIN candidates' : candidates'[i] # d
      BY <1>2 DEF IsCandidate
    <3> QED
      BY <1>2, <1>3, <3>1
  <2>3. \A x \in Dumps : ~ (Pending(x)' /\ InReport(x)')
    BY <1>6 DEF AccountsInv, OnePlaceEach
  <2>4. UNCHANGED Reported
    BY DEF Reported
  <2> QED
    BY <1>2, <2>1, <2>2, <2>3, <2>4 DEF AccountsInv, OnePlaceEach
<1>9. ListingAccounted'
  BY <1>1, <1>6 DEF AccountsInv, ListingAccounted, ListingFailed
<1>10. FindingsTrue'
  <2>1. \A i \in DOMAIN classified' :
           LET c == classified'[i]
           IN  Parses(c.dump) /\ (c.retained => DumpName(c.dump) \in markers)
    BY <1>3 DEF AccountsInv, FindingsTrue
  <2> QED
    BY <1>1, <2>1 DEF AccountsInv, FindingsTrue, Parses, dirVars
<1> QED
  BY <1>7, <1>8, <1>9, <1>10 DEF AccountsInv

\* A candidate that is examined changes its place once, with good reason.
LEMMA ExaminingKeepsAccounts ==
    ASSUME PassInv, AccountsInv, NEW d \in Dumps,
           \/ ExamineForeign(d) \/ ExamineFails(d) \/ ExamineYoung(d)
           \/ ExamineRetained(d)
           \/ \E found \in LookupResults(d) : ExamineMatched(d, found)
    PROVE  AccountsInv'
<1>1. Examining(d)
  BY DEF ExamineForeign, ExamineFails, ExamineYoung, ExamineRetained, ExamineMatched
<1>2. UNCHANGED <<pc, cfg, now, seen, markers, next, dirVars>> /\ pc = "examining"
  BY <1>1 DEF Examining
<1>3. report \in ReportType /\ stable \subseteq files
  BY DEF PassInv, TypeOK, ScanTypeOK, DirTypeOK
<1>4. CASE ExamineForeign(d)
  <2>1. report' = [report EXCEPT !.unparseable = @ \cup {d}] /\ ~ Parses(d)
        /\ UNCHANGED classified
    BY <1>4 DEF ExamineForeign
  <2>2. report' \in ReportType
    BY <1>3, <2>1, ReportUpdates
  <2>3. \A i \in 1..6 : Reported'[i] = IF i = 5 THEN Reported[i] \cup {d} ELSE Reported[i]
    BY <1>3, <2>1, ReportUpdated
  <2>4. FindingsTrue'
    BY <1>2, <1>3, <2>1 DEF AccountsInv, FindingsTrue, Parses, ReportType, dirVars
  <2> QED
    BY <1>1, <2>1, <2>2, <2>3, <2>4, CandidateReported
<1>5. CASE ExamineFails(d)
  <2>1. report' = [report EXCEPT !.errors = @ \cup {d}] /\ UNCHANGED classified
        /\ (MetadataErrors \/ DumpName(d) \notin files)
    BY <1>5 DEF ExamineFails
  <2>2. report' \in ReportType
    BY <1>3, <2>1, ReportUpdates
  <2>3. \A i \in 1..6 : Reported'[i] = IF i = 6 THEN Reported[i] \cup {d} ELSE Reported[i]
    BY <1>3, <2>1, ReportUpdated
  <2>4. FindingsTrue'
    BY <1>2, <1>3, <2>1 DEF AccountsInv, FindingsTrue, Parses, ReportType, dirVars
  <2> QED
    BY <1>1, <2>1, <2>2, <2>3, <2>4, CandidateReported
<1>6. CASE ExamineYoung(d)
  <2>1. report' = [report EXCEPT !.too_young = @ \cup {d}] /\ TooYoung(d)
        /\ DumpName(d) \in files /\ UNCHANGED classified
    BY <1>6 DEF ExamineYoung
  <2>2. report' \in ReportType
    BY <1>3, <2>1, ReportUpdates
  <2>3. \A i \in 1..6 : Reported'[i] = IF i = 4 THEN Reported[i] \cup {d} ELSE Reported[i]
    BY <1>3, <2>1, ReportUpdated
  <2>4. d \in born
    BY <2>1 DEF PassInv, FilesWritten, IsMarker, DumpName
  <2>5. FindingsTrue'
    BY <1>2, <1>3, <2>1, <2>4 DEF AccountsInv, FindingsTrue, Parses, ReportType, dirVars,
       TooYoung
  <2> QED
    BY <1>1, <2>1, <2>2, <2>3, <2>5, CandidateReported
<1>7. CASE ExamineRetained(d)
  BY <1>1, <1>7, CandidateClassified DEF ExamineRetained
<1>8. ASSUME NEW found \in LookupResults(d), ExamineMatched(d, found)
      PROVE  AccountsInv'
  <2>1. PICK e : classified' = Append(classified, e) /\ e.dump = d /\ ~ e.retained
    BY <1>8 DEF ExamineMatched
  <2> QED
    BY <1>1, <1>8, <2>1, CandidateClassified DEF ExamineMatched
<1> QED
  BY <1>4, <1>5, <1>6, <1>7, <1>8

\* A verdict that is carried out moves its dump to a list of the report.
LEMMA ApplyingKeepsAccounts ==
    ASSUME PassInv, AccountsInv, NEW d \in Dumps,
           ApplyKeep(d) \/ ApplyDryRun(d) \/ ApplyRemove(d) \/ ApplyRemoveFails(d)
    PROVE  AccountsInv'
<1>1. /\ pc = "applying" /\ next <= Len(classified) /\ d = classified[next].dump
      /\ next' = next + 1
      /\ UNCHANGED <<pc, cfg, now, seen, markers, candidates, classified, born, mtime>>
  BY DEF ApplyKeep, ApplyDryRun, ApplyRemove, ApplyRemoveFails, Applying, dirVars
<1>2. report \in ReportType /\ next \in Nat \ {0}
      /\ DOMAIN classified = 1..Len(classified) /\ Len(classified) \in Nat
  BY DEF PassInv, TypeOK, ScanTypeOK
<1>3. next \in DOMAIN classified
  BY <1>1, <1>2
<1>4. candidates = <<>> /\ DOMAIN candidates = {}
  BY <1>1 DEF AccountsInv, PhasesOfPass
<1>5. IsClassified(d)
  BY <1>1, <1>2, <1>3 DEF IsClassified
<1>6. ~ InReport(d)
  BY <1>5 DEF AccountsInv, OnePlaceEach, Pending
<1>7. \A e : IsClassified(e)' <=> IsClassified(e) /\ e # d
  BY <1>1, <1>2, <1>3 DEF AccountsInv, OnePlaceEach, IsClassified
<1>8. \A e : Pending(e)' <=> Pending(e) /\ e # d
  BY <1>1, <1>4, <1>7 DEF Pending, IsCandidate
<1>9. PICK k \in 1..6 :
         \A i \in 1..6 : Reported'[i] = IF i = k THEN Reported[i] \cup {d} ELSE Reported[i]
  <2>1. CASE ApplyKeep(d)
    BY <1>2, <2>1, ReportUpdated, 1 \in 1..6 DEF ApplyKeep
  <2>2. CASE ApplyRemove(d)
    BY <1>2, <2>2, ReportUpdated, 2 \in 1..6 DEF ApplyRemove
  <2>3. CASE ApplyDryRun(d)
    BY <1>2, <2>3, ReportUpdated, 3 \in 1..6 DEF ApplyDryRun
  <2>4. CASE ApplyRemoveFails(d)
    BY <1>2, <2>4, ReportUpdated, 6 \in 1..6 DEF ApplyRemoveFails
  <2> QED
    BY <2>1, <2>2, <2>3, <2>4
<1>10. DOMAIN Reported' = 1..6
  BY DEF Reported
<1>11. /\ \A i, j \in DOMAIN Reported' : i # j => Reported'[i] \cap Reported'[j] = {}
       /\ \A y : InReport(y)' <=> InReport(y) \/ y = d
  BY <1>2, <1>6, <1>9, <1>10, ReportGrows DEF AccountsInv, OnePlaceEach
<1>12. /\ ListingFailed' <=> ListingFailed
       /\ report'.unparseable = report.unparseable
       /\ report'.too_young = report.too_young
  BY <1>2, ScanAssumption DEF ApplyKeep, ApplyDryRun, ApplyRemove, ApplyRemoveFails,
     ListingFailed, ReportType
<1>13. PhasesOfPass'
  BY <1>1, <1>4 DEF PhasesOfPass
<1>14. OnePlaceEach'
  BY <1>1, <1>4, <1>8, <1>11 DEF AccountsInv, OnePlaceEach
<1>15. ListingAccounted'
  <2>1. Pending(d)
    BY <1>5 DEF Pending
  <2> QED
    BY <1>1, <1>8, <1>11, <1>12, <2>1 DEF AccountsInv, ListingAccounted
<1>16. FindingsTrue'
  BY <1>1, <1>12 DEF AccountsInv, FindingsTrue, Parses
<1> QED
  BY <1>13, <1>14, <1>15, <1>16 DEF AccountsInv

\* Leaving a phase loses nothing; at the end everything is in the report.
LEMMA EndKeepsAccounts ==
    ASSUME PassInv, AccountsInv, EndOfExamination \/ Return
    PROVE  AccountsInv'
<1>1. CASE EndOfExamination
  <2>1. /\ pc = "examining" /\ pc' = "applying" /\ candidates = <<>>
        /\ UNCHANGED <<cfg, now, seen, markers, candidates, classified, next, report, dirVars>>
    BY <1>1 DEF EndOfExamination
  <2>2. PhasesOfPass' /\ OnePlaceEach' /\ ListingAccounted'
    BY <2>1 DEF AccountsInv, PhasesOfPass, OnePlaceEach, ListingAccounted,
       Pending, IsCandidate, IsClassified, InReport, Reported, ListingFailed
  <2>3. FindingsTrue'
    BY <2>1 DEF AccountsInv, FindingsTrue, Parses, dirVars
  <2> QED
    BY <2>2, <2>3 DEF AccountsInv
<1>2. CASE Return
  <2>1. /\ pc = "applying" /\ pc' = "idle" /\ next' = 1 /\ seen' = {} /\ classified' = <<>>
        /\ report' = EmptyReport /\ candidates' = candidates
    BY <1>2 DEF Return
  <2>2. candidates' = <<>> /\ DOMAIN candidates' = {} /\ DOMAIN classified' = {}
    BY <2>1 DEF AccountsInv, PhasesOfPass
  <2>3. DOMAIN Reported' = 1..6 /\ \A i \in 1..6 : Reported'[i] = {}
    BY <2>1 DEF Reported, EmptyReport
  <2>4. \A d : ~ Pending(d)' /\ ~ InReport(d)'
    BY <2>2, <2>3 DEF Pending, IsCandidate, IsClassified, InReport
  <2>5. PhasesOfPass' /\ OnePlaceEach'
    BY <2>1, <2>2, <2>3, <2>4 DEF PhasesOfPass, OnePlaceEach, EmptyReport
  <2>6. ListingAccounted' /\ FindingsTrue'
    BY <2>1, <2>2, <2>4 DEF ListingAccounted, FindingsTrue, EmptyReport
  <2> QED
    BY <2>5, <2>6 DEF AccountsInv
<1> QED
  BY <1>1, <1>2

\* Every step keeps account.
LEMMA AccountsStep == PassInv /\ AccountsInv /\ [Next]_vars => AccountsInv'
<1> SUFFICES ASSUME PassInv, AccountsInv, [Next]_vars PROVE AccountsInv'
  OBVIOUS
<1>1. CASE UNCHANGED vars
  <2>1. UNCHANGED <<dirVars, scanVars>>
    BY <1>1 DEF vars
  <2>2. PhasesOfPass' /\ OnePlaceEach' /\ ListingAccounted'
    BY <2>1 DEF scanVars, AccountsInv, PhasesOfPass, OnePlaceEach, ListingAccounted,
       Pending, IsCandidate, IsClassified, InReport, Reported, ListingFailed
  <2>3. FindingsTrue'
    BY <2>1 DEF dirVars, scanVars, AccountsInv, FindingsTrue, Parses
  <2> QED
    BY <2>2, <2>3 DEF AccountsInv
<1>2. CASE ScanStep
  BY <1>2, ListingKeepsAccounts, ExaminingKeepsAccounts, ApplyingKeepsAccounts,
     EndKeepsAccounts DEF ScanStep
<1>3. CASE ScanStart
  BY <1>3, StartKeepsAccounts
<1> QED
  BY <1>1, <1>2, <1>3, OthersKeepAccounts DEF Next, ScanNext

(***************************************************************************)
(* Every listed name has one place in the memory of a pass at every        *)
(* moment, and has it for a reason.                                        *)
(***************************************************************************)
THEOREM AccountsInvariant == Spec => []AccountsInv
<1>1. Init => AccountsInv
  BY InitAccounts DEF Init
<1> QED
  BY <1>1, InitInv, InvStep, AccountsStep, PTL DEF Spec

\* When all verdicts are carried out, the places are the lists of the report.
LEMMA AccountsReported == PassInv /\ AccountsInv => ReportAccountsForListing
<1> SUFFICES ASSUME PassInv, AccountsInv, pc = "applying", next > Len(classified)
             PROVE  LET all == UNION {Reported[i] : i \in DOMAIN Reported}
                        listed == {d \in Dumps : DumpName(d) \in seen}
                    IN  IF ListingFailed THEN all \subseteq listed \cup {Directory}
                        ELSE all = listed
  BY DEF ReportAccountsForListing, AccountsInv, OnePlaceEach
<1> DEFINE all == UNION {Reported[i] : i \in DOMAIN Reported}
           listed == {d \in Dumps : DumpName(d) \in seen}
<1>1. /\ report \in ReportType /\ next \in Nat
      /\ DOMAIN classified = 1..Len(classified) /\ Len(classified) \in Nat
  BY DEF PassInv, TypeOK, ScanTypeOK
<1>2. \A d : ~ Pending(d)
  BY <1>1 DEF AccountsInv, PhasesOfPass, Pending, IsCandidate, IsClassified
<1>3. \A x : x \in all <=> InReport(x)
  BY DEF InReport
<1>4. \A x : InReport(x) => x \in Dumps \/ (x = Directory /\ ListingFailed)
  BY <1>1, ReportedLists DEF InReport, ReportType, ListingFailed
<1> HIDE DEF all
<1>5. \A d \in Dumps : InReport(d) => d \in listed
  BY DEF AccountsInv, ListingAccounted
<1>6. ~ ListingFailed => \A d \in listed : InReport(d)
  BY <1>2 DEF AccountsInv, ListingAccounted
<1> HIDE DEF listed
<1>7. \A x \in all : x \in listed \/ (x = Directory /\ ListingFailed)
  BY <1>3, <1>4, <1>5
<1>8. ListingFailed => all \subseteq listed \cup {Directory}
  BY <1>7
<1>9. ~ ListingFailed => all = listed
  BY <1>3, <1>6, <1>7
<1> QED
  BY <1>8, <1>9 DEF all, listed

(***************************************************************************)
(* When a pass is over, every name it has listed is in exactly one of the  *)
(* six lists of its report, and no other name is.                          *)
(***************************************************************************)
THEOREM ListingReported == Spec => []ReportAccountsForListing
BY PassInvariant, AccountsInvariant, AccountsReported, PTL

-----------------------------------------------------------------------------
(* Passes implement the collector. First what the abstract state is.       *)

\* Doomed dumps are there only while verdicts are carried out.
LEMMA NothingDoomed ==
    ASSUME pc # "applying" \/ classified = <<>>
    PROVE  Doomed = {}
<1>1. CASE classified = <<>>
  <2>1. DOMAIN classified = {}
    BY <1>1
  <2> QED
    BY <2>1 DEF Doomed
<1> QED
  BY <1>1 DEF Doomed

\* A collector starts idle.
LEMMA AbstractInit == Init => Collector!Init
<1> SUFFICES ASSUME Init PROVE Collector!Init
  OBVIOUS
<1>1. /\ pc = "idle" /\ cfg \in Configs /\ markers = {} /\ report = EmptyReport
      /\ stable = {}
  BY DEF Init, DirInit, ScanInit
<1>2. Doomed = {}
  BY <1>1, NothingDoomed
<1> QED
  BY <1>1, <1>2 DEF Collector!Init, Phase, Noticed, ListingFailed, Unread, EmptyReport,
     Stayed, Held

\* Outside a pass, names come and go; those that stayed, stayed.
LEMMA NamesOutside ==
    ASSUME PassInv,
           \/ DirNext /\ UNCHANGED <<scanVars, ctlVars>>
           \/ CtlNext /\ UNCHANGED scanVars
    PROVE  stable' = stable \cap files'
<1>1. stable \subseteq files /\ \A n \in files : ~ IsMarker(n) => n[1] \in born
  BY DEF PassInv, FilesWritten, TypeOK, DirTypeOK
<1>2. ASSUME NEW d \in Dumps, Crash(d)
      PROVE  stable' = stable \cap files'
  BY <1>1, <1>2 DEF Crash, Link
<1>3. ASSUME NEW d \in Dumps, LogEntry(d)
      PROVE  stable' = stable \cap files'
  BY <1>1, <1>3 DEF LogEntry
<1>4. ASSUME NEW n \in files, Evict(n)
      PROVE  stable' = stable \cap files'
  BY <1>1, <1>4 DEF Evict, Unlink
<1>5. CASE Tick
  BY <1>1, <1>5 DEF Tick
<1>6. CASE CreateMarker
  BY <1>1, <1>6 DEF CreateMarker, Link
<1>7. CASE CtlNext /\ ~ CreateMarker
  BY <1>1, <1>7 DEF CtlNext, RetainMostRecent, RetainNamed, Resolve, RetainExisting,
     RetainMissing, CreateFails, dirVars
<1> QED
  BY <1>2, <1>3, <1>4, <1>5, <1>6, <1>7 DEF DirNext

\* cdgcctl, systemd-coredump and the others are outside the collector.
LEMMA OthersAreOutside ==
    ASSUME PassInv,
           \/ DirNext /\ UNCHANGED <<scanVars, ctlVars>>
           \/ CtlNext /\ UNCHANGED scanVars
    PROVE  Collector!Outside
<1>1. /\ UNCHANGED scanVars
      /\ clock' >= clock
      /\ \A d \in born : mtime'[d] = mtime[d]
  BY OthersStep
<1>2. UNCHANGED <<Phase, cfg, now, Noticed, ListingFailed, Unread, Doomed, report.removed>>
  BY <1>1 DEF scanVars, Phase, Noticed, ListingFailed, Unread, Doomed, Condemned, NoMatch,
     OverCap
<1>3. Stayed' = Stayed \cap DumpsThere' /\ Held' = Held \cap PinsThere'
  BY NamesOutside DEF Stayed, Held, DumpsThere, PinsThere
<1>4. \A d \in DumpsThere : d \in born
  BY DEF PassInv, FilesWritten, DumpsThere, IsMarker, DumpName
<1>5. DumpsThere' \subseteq Dumps /\ PinsThere' \subseteq Dumps
  BY DEF DumpsThere, PinsThere
<1> QED
  BY <1>1, <1>2, <1>3, <1>4, <1>5 DEF Collector!Outside, Collector!passVars

\* A pass begins.
LEMMA StartIsBegin ==
    ASSUME PassInv, AccountsInv, ScanStart
    PROVE  Collector!Begin \/ Collector!BeginInVain
<1>1. /\ pc = "idle" /\ markers = {} /\ classified = <<>> /\ report = EmptyReport
      /\ markers' = markers /\ classified' = classified
      /\ UNCHANGED <<files, mtime, clock>>
  BY DEF ScanStart, OpenDirectory, OpenFails, dirVars, PassInv, MemoryOfPass, AccountsInv,
     PhasesOfPass
<1>2. /\ Doomed = {} /\ Doomed' = {} /\ Unread = {}
      /\ UNCHANGED <<DumpsThere, PinsThere, Noticed>>
      /\ Phase = "idle" /\ ~ ListingFailed /\ report.removed = {}
  <2>1. Doomed' = {}
    BY <1>1 DEF Doomed
  <2> QED
    BY <1>1, <2>1, NothingDoomed DEF DumpsThere, PinsThere, Noticed, Phase, ListingFailed,
       EmptyReport, Unread
<1>3. ASSUME NEW c \in Configs, OpenDirectory(c)
      PROVE  Collector!Begin
  <2>1. Stayed' = DumpsThere /\ Held' = PinsThere
    BY <1>3 DEF OpenDirectory, Stayed, Held, DumpsThere, PinsThere
  <2>2. Phase' = "looking" /\ cfg' \in Configs /\ now' = clock
        /\ ListingFailed' = ListingFailed /\ report'.removed = report.removed
        /\ Unread' = {}
    BY <1>1, <1>3 DEF OpenDirectory, Phase, ListingFailed, EmptyReport, Unread
  <2> QED
    BY <1>1, <1>2, <2>1, <2>2 DEF Collector!Begin
<1>4. ASSUME NEW c \in Configs, OpenFails(c)
      PROVE  Collector!BeginInVain
  <2>1. UNCHANGED <<Stayed, Held, now>>
    BY <1>4 DEF OpenFails, dirVars, Stayed, Held
  <2>2. Phase' = "removing" /\ cfg' \in Configs
        /\ ListingFailed' = TRUE /\ report'.removed = report.removed
        /\ Unread' = {}
    BY <1>1, <1>4 DEF OpenFails, Phase, ListingFailed, EmptyReport, Unread
  <2> QED
    BY <1>1, <1>2, <2>1, <2>2 DEF Collector!BeginInVain
<1> QED
  BY <1>3, <1>4 DEF ScanStart

\* A step that leaves these alone is none of the collector's.
LEMMA NoAbstractStep ==
    ASSUME UNCHANGED <<dirVars, pc, cfg, now, markers, classified, ListingFailed, Unread,
                       report.removed>>,
           pc = "applying" => UNCHANGED Doomed
    PROVE  UNCHANGED Collector!vars
<1>1. UNCHANGED <<DumpsThere, PinsThere, Stayed, Held, Phase, Noticed>>
  BY DEF dirVars, DumpsThere, PinsThere, Stayed, Held, Phase, Noticed
<1>2. UNCHANGED Doomed
  BY NothingDoomed DEF Doomed
<1> QED
  BY <1>1, <1>2 DEF Collector!vars, Collector!passVars, dirVars

\* To read a marker is to notice a pin, or a marker of a marker.
LEMMA MarkerIsNoticed ==
    ASSUME PassInv, NEW n \in files, ReadMarker(n)
    PROVE  [Collector!Next]_(Collector!vars)
<1>1. /\ pc = "listing" /\ IsMarker(n)
      /\ markers' = markers \cup {MarkedName(n)}
      /\ UNCHANGED <<pc, cfg, now, classified, next, report, dirVars>>
  BY DEF ReadMarker, Reading
<1>2. n \in Names
  BY DEF PassInv, TypeOK, DirTypeOK
<1>3. /\ UNCHANGED <<DumpsThere, PinsThere, Stayed, Held, Phase, ListingFailed, Unread,
                     Doomed, cfg, now, mtime, clock>>
      /\ report'.removed = report.removed /\ Phase = "looking"
  BY <1>1 DEF dirVars, DumpsThere, PinsThere, Stayed, Held, Phase, ListingFailed, Unread,
     Doomed
<1>4. CASE n = Marker(n[1])
  <2>1. n[1] \in Dumps /\ MarkedName(n) = DumpName(n[1])
    BY <1>2, <1>4 DEF Names, MarkedName, Marker, MarkerPath, DumpName
  <2>2. n[1] \in PinsThere
    BY <1>4, <2>1 DEF PinsThere
  <2>3. \A d \in Dumps : MarkedName(n) = DumpName(d) <=> d = n[1]
    BY <2>1 DEF DumpName
  <2>4. Noticed' = Noticed \cup {n[1]}
    BY <1>1, <2>1, <2>3 DEF Noticed
  <2>5. Collector!Notice(n[1])
    BY <1>3, <2>2, <2>4 DEF Collector!Notice
  <2> QED
    BY <2>1, <2>5 DEF Collector!Next
<1>5. CASE n # Marker(n[1])
  <2>1. \A d \in Dumps : MarkedName(n) # DumpName(d)
    BY <1>1, <1>2, <1>5 DEF Names, IsMarker, MarkedName, Marker, MarkerPath, DumpName
  <2>2. UNCHANGED Noticed
    BY <1>1, <2>1 DEF Noticed
  <2> QED
    BY <1>3, <2>2 DEF Collector!vars, Collector!passVars
<1> QED
  BY <1>4, <1>5

\* What the listing does is to look.
LEMMA ListingLooks ==
    ASSUME PassInv, AccountsInv,
           EndOfDirectory
           \/ \E n \in files : ReadMarker(n) \/ ReadCandidate(n) \/ ReadFails(n)
    PROVE  [Collector!Next]_(Collector!vars)
<1>1. CASE EndOfDirectory
  <2>1. UNCHANGED <<DumpsThere, PinsThere, Stayed, Held, Phase, Noticed, ListingFailed,
                    Unread, Doomed, cfg, now, mtime, clock>>
        /\ report' = report
    BY <1>1 DEF EndOfDirectory, dirVars, DumpsThere, PinsThere, Stayed, Held, Phase,
       Noticed, ListingFailed, Unread, Doomed
  <2> QED
    BY <2>1 DEF Collector!vars, Collector!passVars
<1>2. ASSUME NEW n \in files, ReadCandidate(n)
      PROVE  UNCHANGED Collector!vars
  BY <1>2, NoAbstractStep DEF ReadCandidate, Reading, ListingFailed, Unread
<1>3. ASSUME NEW n \in files, ReadFails(n)
      PROVE  Collector!Miss
  <2>1. /\ pc = "listing"
        /\ report' = [report EXCEPT !.errors = @ \cup {Directory}]
        /\ UNCHANGED <<pc, cfg, now, markers, classified, next, dirVars>>
    BY <1>3 DEF ReadFails, Reading
  <2>2. report \in ReportType
    BY DEF PassInv, TypeOK, ScanTypeOK
  <2>3. ListingFailed' = TRUE /\ report'.removed = report.removed /\ Unread' = Unread
    BY <2>1, <2>2, ScanAssumption DEF ListingFailed, Unread, ReportType
  <2>4. UNCHANGED <<DumpsThere, PinsThere, Stayed, Held, Phase, Noticed, Doomed,
                    cfg, now, mtime, clock>>
        /\ Phase = "looking"
    BY <2>1 DEF dirVars, DumpsThere, PinsThere, Stayed, Held, Phase, Noticed, Doomed
  <2> QED
    BY <2>3, <2>4 DEF Collector!Miss
<1> QED
  BY <1>1, <1>2, <1>3, MarkerIsNoticed DEF Collector!Next

\* To examine a candidate is nothing yet, unless it fails: then it is skipped.
LEMMA ExaminingMaySkip ==
    ASSUME PassInv, AccountsInv, NEW d \in Dumps,
           \/ ExamineForeign(d) \/ ExamineFails(d) \/ ExamineYoung(d)
           \/ ExamineRetained(d)
           \/ \E found \in LookupResults(d) : ExamineMatched(d, found)
    PROVE  [Collector!Next]_(Collector!vars)
<1>1. Examining(d)
  BY DEF ExamineForeign, ExamineFails, ExamineYoung, ExamineRetained, ExamineMatched
<1>2. pc = "examining" /\ UNCHANGED <<pc, cfg, now, markers, dirVars>>
  BY <1>1 DEF Examining
<1>3. report \in ReportType /\ d # Directory
  BY ScanAssumption DEF PassInv, TypeOK, ScanTypeOK
<1>4. UNCHANGED <<DumpsThere, PinsThere, Stayed, Held, Phase, Noticed, Doomed, mtime, clock>>
      /\ Phase = "looking"
  BY <1>2 DEF dirVars, DumpsThere, PinsThere, Stayed, Held, Phase, Noticed, Doomed
<1>5. CASE ExamineFails(d)
  <2>1. report' = [report EXCEPT !.errors = @ \cup {d}]
    BY <1>5 DEF ExamineFails
  <2>2. /\ ListingFailed' = ListingFailed /\ report'.removed = report.removed
        /\ Unread' = Unread \cup {d}
    BY <1>2, <1>3, <2>1 DEF ListingFailed, Unread, ReportType
  <2>3. MetadataErrors \/ d \notin DumpsThere
    BY <1>5 DEF ExamineFails, DumpsThere
  <2>4. Collector!Skip(d)
    BY <1>2, <1>4, <2>2, <2>3 DEF Collector!Skip
  <2> QED
    BY <2>4 DEF Collector!Next
<1>6. CASE \/ ExamineForeign(d) \/ ExamineYoung(d) \/ ExamineRetained(d)
           \/ \E found \in LookupResults(d) : ExamineMatched(d, found)
  <2>1. \/ report' = report
        \/ report' = [report EXCEPT !.unparseable = @ \cup {d}]
        \/ report' = [report EXCEPT !.too_young = @ \cup {d}]
    BY <1>6 DEF ExamineForeign, ExamineYoung, ExamineRetained, ExamineMatched
  <2>2. UNCHANGED <<ListingFailed, Unread>> /\ report'.removed = report.removed
    BY <1>2, <1>3, <2>1 DEF ListingFailed, Unread, ReportType
  <2> QED
    BY <1>2, <1>4, <2>2 DEF Collector!vars, Collector!passVars
<1> QED
  BY <1>5, <1>6

-----------------------------------------------------------------------------
(* The verdict.                                                            *)

\* The collector applies the policy that the pass applies.
LEMMA SamePolicy ==
    /\ Collector!NoRule = NoRule /\ Collector!EmptyContext = EmptyContext
    /\ \A rules, d, c : Collector!FirstMatch(rules, d, c) = FirstMatch(rules, d, c)
    /\ \A rule, d, c : Collector!GroupKey(rule, d, c) = GroupKey(rule, d, c)
<1>1. Collector!JournalField = JournalField /\ Collector!MatchField = MatchField
  BY DEF JournalField, MatchField, Collector!JournalField, Collector!MatchField
<1>2. \A d, c, f : Collector!Extract(d, c, f) = Extract(d, c, f)
  BY <1>1 DEF Extract, Collector!Extract
<1>3. \A rule, d, c : Collector!Matches(rule, d, c) <=> Matches(rule, d, c)
  BY <1>1, <1>2 DEF Matches, FieldMatches, Collector!Matches, Collector!FieldMatches
<1>4. ASSUME NEW rules, NEW d, NEW c
      PROVE  Collector!FirstMatch(rules, d, c) = FirstMatch(rules, d, c)
  <2>1. {i \in DOMAIN rules : Collector!Matches(rules[i], d, c)} =
        {i \in DOMAIN rules : Matches(rules[i], d, c)}
    BY <1>3
  <2>2. \A S : Collector!Least(S) = Least(S)
    BY DEF Least, Collector!Least
  <2>3. \A S : Collector!FirstOf(S) = FirstOf(S)
    BY <2>2 DEF FirstOf, NoRule, Collector!FirstOf, Collector!NoRule
  <2> QED
    BY <2>1, <2>3 DEF FirstMatch, Collector!FirstMatch
<1>5. ASSUME NEW rule, NEW d, NEW c
      PROVE  Collector!GroupKey(rule, d, c) = GroupKey(rule, d, c)
  BY <1>2 DEF GroupKey, Collector!GroupKey
<1> QED
  BY <1>1, <1>4, <1>5 DEF NoRule, EmptyContext, Collector!NoRule, Collector!EmptyContext

\* The rule that a dump was given is the first match in the context it was given.
LEMMA GivenFirstMatch ==
    ASSUME PassInv, NEW i \in DOMAIN classified, ~ classified[i].retained
    PROVE  /\ classified[i].rule_index =
                 FirstMatch(cfg.rules, classified[i].dump, classified[i].context)
           /\ classified[i].context \in {EmptyContext, Entries[classified[i].dump]}
           /\ classified[i].rule_index # NoRule =>
                 classified[i].rule_index \in DOMAIN cfg.rules
<1> DEFINE rules == cfg.rules
           d     == classified[i].dump
           r     == classified[i].rule_index
           last  == IF r = NoRule THEN Len(rules) ELSE r
<1>1. IsPolicy(rules)
  BY ScanAssumption DEF PassInv, TypeOK, ScanTypeOK
<1>2. PICK found \in {EmptyContext, Entries[d]} :
         /\ r = LazyMatch(rules, d, found)
         /\ classified[i].context = ContextAt(rules, last, found)
  BY DEF PassInv, ClassifiedByClassify, Classify
<1>3. r # NoRule => r \in DOMAIN rules
  BY <1>1, <1>2, LazyMatchInRules
<1>4. CASE \E j \in 1..last : rules[j].needs_journal
  <2>1. classified[i].context = found
    BY <1>2, <1>4 DEF ContextAt
  <2>2. r = FirstMatch(rules, d, found)
    BY <1>1, <1>2, LazyMatchIsFirstMatch
  <2> QED
    BY <1>3, <2>1, <2>2
<1>5. CASE ~ \E j \in 1..last : rules[j].needs_journal
  <2>1. classified[i].context = EmptyContext
    BY <1>2, <1>5 DEF ContextAt
  <2>2. r = FirstMatch(rules, d, EmptyContext)
    BY <1>1, <1>2, <1>5, UnaskedMatchIsFirstMatch
  <2> QED
    BY <1>3, <2>1, <2>2
<1> QED
  BY <1>4, <1>5

\* There are as many dumps as there are indices of them.
LEMMA AsManyDumps ==
    ASSUME PassInv, AccountsInv, NEW S \in SUBSET DOMAIN classified
    PROVE  Cardinality({classified[i].dump : i \in S}) = Cardinality(S)
<1>1. DOMAIN classified = 1..Len(classified) /\ Len(classified) \in Nat
  BY DEF PassInv, TypeOK, ScanTypeOK
<1>2. IsFiniteSet(1..Len(classified))
  BY <1>1, FS_Interval
<1>3. IsFiniteSet(S)
  BY <1>1, <1>2, FS_Subset
<1>4. \A i, j \in S : classified[i].dump = classified[j].dump => i = j
  BY DEF AccountsInv, OnePlaceEach
<1> QED
  BY <1>3, <1>4, DumpsCounted

\* The dumps a pass gives a verdict on, where they are in its memory, and the
\* context each was matched in.
Matched      == {classified[i].dump : i \in {j \in DOMAIN classified : ~ classified[j].retained}}
IndexOf(d)   == CHOOSE i \in DOMAIN classified : classified[i].dump = d
Given        == [d \in Matched |-> classified[IndexOf(d)].context]
Condemnation == {classified[i].dump : i \in {j \in DOMAIN classified : Condemned(j)}}

\* A dump is in the memory of a pass at one index.
LEMMA IndexOfDump ==
    ASSUME PassInv, AccountsInv, NEW i \in DOMAIN classified
    PROVE  IndexOf(classified[i].dump) = i
<1>1. \A j \in DOMAIN classified : classified[j].dump = classified[i].dump => j = i
  BY DEF AccountsInv, OnePlaceEach
<1> QED
  BY <1>1 DEF IndexOf

\* So what holds of a judged dump holds of its index.
LEMMA JudgedByIndex ==
    ASSUME PassInv, AccountsInv
    PROVE  /\ \A d \in Matched : \E i \in DOMAIN classified :
                 ~ classified[i].retained /\ classified[i].dump = d
           /\ \A i \in DOMAIN classified :
                 /\ ~ classified[i].retained =>
                       /\ classified[i].dump \in Matched
                       /\ Given[classified[i].dump] = classified[i].context
                 /\ classified[i].dump \in Dumps
                 /\ classified[i].dump \in Condemnation <=> Condemned(i)
<1>1. classified \in Seq(ClassifiedType)
  BY DEF PassInv, TypeOK, ScanTypeOK
<1>2. \A d \in Matched : \E i \in DOMAIN classified :
         ~ classified[i].retained /\ classified[i].dump = d
  BY DEF Matched
<1>3. ASSUME NEW i \in DOMAIN classified
      PROVE  /\ ~ classified[i].retained =>
                   /\ classified[i].dump \in Matched
                   /\ Given[classified[i].dump] = classified[i].context
             /\ classified[i].dump \in Dumps
             /\ classified[i].dump \in Condemnation <=> Condemned(i)
  <2>1. ASSUME ~ classified[i].retained
        PROVE  /\ classified[i].dump \in Matched
               /\ Given[classified[i].dump] = classified[i].context
    <3>1. classified[i].dump \in Matched
      BY <2>1 DEF Matched
    <3> QED
      BY <3>1, IndexOfDump DEF Given
  <2>2. classified[i].dump \in Dumps
    <3>1. classified[i] \in ClassifiedType
      BY <1>1
    <3> QED
      BY <3>1 DEF ClassifiedType
  <2>3. \A j \in DOMAIN classified : classified[j].dump = classified[i].dump => j = i
    BY DEF AccountsInv, OnePlaceEach
  <2>4. classified[i].dump \in Condemnation <=> Condemned(i)
    BY <2>3 DEF Condemnation
  <2> QED
    BY <2>1, <2>2, <2>4
<1> QED
  BY <1>2, <1>3

\* A pass that has examined everything may judge what it has matched: no
\* pinned, foreign or young dump, and every ripe one it was bound to see and
\* could examine.
LEMMA JudgedMayBe ==
    ASSUME PassInv, AccountsInv, EndOfExamination
    PROVE  Collector!MayJudge(Matched)
<1>1. pc = "examining" /\ candidates = <<>> /\ DOMAIN candidates = {} /\ report \in ReportType
  BY DEF EndOfExamination, PassInv, TypeOK, ScanTypeOK
<1>2. ASSUME NEW d \in Matched
      PROVE  Collector!Ripe(d) /\ d \notin Noticed \cup Unread \cup Foreign
  <2>1. PICK i \in DOMAIN classified : ~ classified[i].retained /\ classified[i].dump = d
    BY JudgedByIndex
  <2>2. mtime[d] > now \/ now - mtime[d] >= cfg.minimum_age
    BY <2>1 DEF PassInv, ClassifiedAged
  <2>3. d \notin Noticed
    BY <2>1 DEF PassInv, OnlyUnmarkedMatched, Noticed
  <2>4. d \notin Foreign
    BY <2>1 DEF AccountsInv, FindingsTrue, Parses, FromPath, DumpName
  <2>5. d \notin Unread
    <3>1. d \in Dumps /\ next = 1 /\ i >= next
      BY <1>1, <2>1, JudgedByIndex DEF AccountsInv, PhasesOfPass, PassInv, TypeOK, ScanTypeOK
    <3>2. ~ InReport(d)
      BY <2>1, <3>1 DEF AccountsInv, OnePlaceEach, Pending, IsClassified
    <3> QED
      BY <3>2, ReportedLists DEF InReport, Unread
  <2> QED
    BY <2>2, <2>3, <2>4, <2>5 DEF Collector!Ripe
<1>3. ASSUME ~ ListingFailed
      PROVE  stable \subseteq seen /\ \A n \in seen : IsMarker(n) => MarkedName(n) \in markers
  BY <1>1, <1>3 DEF PassInv, MarkersCollected
<1>4. ASSUME ~ ListingFailed
      PROVE  Held \subseteq Noticed
  <2> SUFFICES ASSUME NEW d \in Held PROVE d \in Noticed
    OBVIOUS
  <2>1. d \in Dumps /\ Marker(d) \in seen
    BY <1>3, <1>4 DEF Held
  <2>2. IsMarker(Marker(d)) /\ MarkedName(Marker(d)) = DumpName(d)
    BY DEF IsMarker, MarkedName, Marker, MarkerPath, DumpName
  <2> QED
    BY <1>3, <1>4, <2>1, <2>2 DEF Noticed
<1>5. ASSUME ~ ListingFailed, NEW d \in Stayed \ (Noticed \cup Unread \cup Foreign),
             Collector!Ripe(d)
      PROVE  d \in Matched
  <2>1. d \in Dumps /\ DumpName(d) \in seen /\ DumpName(d) \in stable
    BY <1>3, <1>5 DEF Stayed
  <2>2. Pending(d) \/ InReport(d)
    BY <1>5, <2>1 DEF AccountsInv, ListingAccounted
  <2>3. ~ InReport(d)
    <3>1. report.kept = {} /\ report.removed = {} /\ report.would_remove = {}
      BY <1>1 DEF AccountsInv, PhasesOfPass
    <3>2. d \notin report.too_young
      <4>1. cfg.minimum_age \in Nat /\ now \in Nat /\ mtime[d] \in Nat
        BY <2>1, ScanAssumption DEF PassInv, TypeOK, ScanTypeOK, DirTypeOK
      <4> QED
        BY <1>5, <4>1 DEF AccountsInv, FindingsTrue, Collector!Ripe
    <3>3. d \notin report.unparseable
      <4>1. Parses(d)
        BY <1>5 DEF Parses, FromPath, DumpName
      <4> QED
        BY <4>1 DEF AccountsInv, FindingsTrue
    <3>4. d \notin report.errors
      BY <1>1, <1>5, <2>1 DEF Unread
    <3> QED
      BY <3>1, <3>2, <3>3, <3>4, ReportedLists DEF InReport
  <2>4. PICK i \in DOMAIN classified : classified[i].dump = d
    BY <1>1, <2>2, <2>3 DEF Pending, IsCandidate, IsClassified
  <2>5. ~ classified[i].retained
    BY <1>5, <2>1, <2>4 DEF AccountsInv, FindingsTrue, Noticed
  <2> QED
    BY <2>4, <2>5, JudgedByIndex
<1> QED
  BY <1>2, <1>4, <1>5 DEF Collector!MayJudge

\* Each was matched in the context of its journal entry, or in none.
LEMMA GivenContexts ==
    ASSUME PassInv, AccountsInv
    PROVE  Given \in Collector!Contexts(Matched)
<1>1. ASSUME NEW d \in Matched
      PROVE  Given[d] \in {EmptyContext, Entries[d]} /\ d \in Dumps
  BY JudgedByIndex, GivenFirstMatch
<1>2. Collector!EmptyContext = EmptyContext
  BY SamePolicy
<1>3. Given = [d \in Matched |-> Given[d]]
  BY DEF Given
<1> HIDE DEF Given
<1>4. Given \in [Matched -> {EmptyContext} \cup {Entries[d] : d \in Dumps}]
  BY <1>1, <1>3
<1> QED
  BY <1>1, <1>2, <1>4 DEF Collector!Contexts

\* The peers of a capped dump are the dumps of its bucket.
LEMMA PeersAreBucket ==
    ASSUME PassInv, AccountsInv, NEW i \in Capped(cfg.rules, classified)
    PROVE  Collector!Peers(Matched, Given, classified[i].dump) =
           {classified[j].dump : j \in Bucket(cfg.rules, classified, i)}
<1> DEFINE d == classified[i].dump
           r == classified[i].rule_index
           peers == Collector!Peers(Matched, Given, d)
           bucket == {classified[j].dump : j \in Bucket(cfg.rules, classified, i)}
<1>1. i \in DOMAIN classified /\ ~ classified[i].retained
  BY DEF Capped
<1>2. ASSUME NEW j \in DOMAIN classified, ~ classified[j].retained
      PROVE  /\ classified[j].dump \in Matched
             /\ Given[classified[j].dump] = classified[j].context
             /\ Collector!RuleOf(Given, classified[j].dump) = classified[j].rule_index
  BY <1>2, JudgedByIndex, GivenFirstMatch, SamePolicy DEF Collector!RuleOf
<1>3. Collector!RuleOf(Given, d) = r
  BY <1>1, <1>2
<1>4. ASSUME NEW j \in DOMAIN classified, ~ classified[j].retained
      PROVE  classified[j].dump \in peers <=> j \in Bucket(cfg.rules, classified, i)
  <2>1. classified[j].dump \in peers <=>
           /\ classified[j].rule_index = r
           /\ GroupKey(cfg.rules[r], classified[j].dump, classified[j].context) =
              GroupKey(cfg.rules[r], d, classified[i].context)
    BY <1>1, <1>2, <1>3, <1>4, SamePolicy DEF Collector!Peers
  <2> QED
    BY <1>4, <2>1 DEF Bucket, Matching, KeyOf
<1>5. ASSUME NEW e \in peers
      PROVE  e \in bucket
  <2>1. e \in Matched
    BY <1>5 DEF Collector!Peers
  <2>2. PICK j \in DOMAIN classified : ~ classified[j].retained /\ classified[j].dump = e
    BY <2>1, JudgedByIndex
  <2> QED
    BY <1>4, <1>5, <2>2
<1>6. ASSUME NEW e \in bucket
      PROVE  e \in peers
  <2>1. PICK j \in Bucket(cfg.rules, classified, i) : classified[j].dump = e
    BY <1>6
  <2>2. j \in DOMAIN classified /\ ~ classified[j].retained
    BY DEF Bucket, Matching
  <2> QED
    BY <1>4, <2>1, <2>2
<1> QED
  BY <1>5, <1>6

\* The cap of a rule spares the newest of each bucket.
LEMMA VerdictSparesNewest ==
    ASSUME PassInv, AccountsInv, NEW i \in Capped(cfg.rules, classified)
    PROVE  Collector!SparesNewest(Collector!Peers(Matched, Given, classified[i].dump),
                                  CapOf(cfg.rules, classified, i), Condemnation)
<1> DEFINE bucket == Bucket(cfg.rules, classified, i)
           excess == Excess(cfg.rules, classified)
           cap    == CapOf(cfg.rules, classified, i)
           kept   == bucket \ excess
           DumpsOf(S) == {classified[j].dump : j \in S}
           peers  == Collector!Peers(Matched, Given, classified[i].dump)
<1>1. peers = DumpsOf(bucket)
  BY PeersAreBucket
<1>2. bucket \subseteq DOMAIN classified
  BY DEF Bucket, Matching
<1>3. ASSUME NEW j \in bucket
      PROVE  Condemned(j) <=> j \in excess
  <2>1. classified[j].rule_index = classified[i].rule_index
    BY <1>3 DEF Bucket, Matching
  <2>2. classified[i].rule_index # NoRule
    <3>1. IsPolicy(cfg.rules) /\ classified[i].rule_index \in DOMAIN cfg.rules
      BY ScanAssumption DEF PassInv, TypeOK, ScanTypeOK, Capped
    <3> QED
      BY <3>1 DEF IsPolicy, NoRule
  <2> QED
    BY <2>1, <2>2 DEF Condemned, NoMatch, OverCap
<1>4. \A j \in bucket : classified[j].dump \in Condemnation <=> j \in excess
  BY <1>2, <1>3, JudgedByIndex
<1>5. /\ Cardinality(kept) = IF Cardinality(bucket) < cap THEN Cardinality(bucket) ELSE cap
      /\ \A k \in kept, x \in bucket \ kept :
            Timestamp[classified[k].dump] >= Timestamp[classified[x].dump]
  BY NewestFromType DEF PassInv, NewestOfBucketSurvive
<1> HIDE DEF bucket, excess, cap, peers
<1>6. peers \ Condemnation = DumpsOf(kept) /\ peers \cap Condemnation = DumpsOf(bucket \ kept)
  BY <1>1, <1>4
<1>7. Cardinality(DumpsOf(bucket)) = Cardinality(bucket)
      /\ Cardinality(DumpsOf(kept)) = Cardinality(kept)
  BY <1>2, AsManyDumps
<1>8. Cardinality(peers \ Condemnation) =
         IF Cardinality(peers) < cap THEN Cardinality(peers) ELSE cap
  BY <1>1, <1>5, <1>6, <1>7
<1>9. \A s \in peers \ Condemnation, c \in peers \cap Condemnation : Timestamp[s] >= Timestamp[c]
  BY <1>5, <1>6
<1>10. Collector!SparesNewest(peers, cap, Condemnation)
  <2>1. \A S : Collector!Cardinality(S) = Cardinality(S)
    BY Zenon DEF Cardinality, Collector!Cardinality
  <2> QED
    BY <1>8, <1>9, <2>1 DEF Collector!SparesNewest
<1> QED
  BY <1>10 DEF peers, cap

\* The verdicts of a pass are those of the policy.
LEMMA VerdictIsPolicy ==
    ASSUME PassInv, AccountsInv
    PROVE  Collector!IsVerdict(Matched, Given, Condemnation)
<1>1. ASSUME NEW d \in Condemnation
      PROVE  d \in Matched
  <2>1. PICK i \in DOMAIN classified : Condemned(i) /\ classified[i].dump = d
    BY <1>1 DEF Condemnation
  <2> QED
    BY <2>1, CondemnedIsMatched, JudgedByIndex
<1>2. ASSUME NEW d \in Matched
      PROVE  LET r == Collector!RuleOf(Given, d)
             IN  /\ r = NoRule => d \in Condemnation
                 /\ r # NoRule =>
                       LET cap == cfg.rules[r].keep_count
                       IN  /\ cap = None => d \notin Condemnation
                           /\ cap # None =>
                                 Collector!SparesNewest(
                                    Collector!Peers(Matched, Given, d), cap, Condemnation)
  <2>1. PICK i \in DOMAIN classified : ~ classified[i].retained /\ classified[i].dump = d
    BY <1>2, JudgedByIndex
  <2> DEFINE r == classified[i].rule_index
  <2>2. Collector!RuleOf(Given, d) = r
    BY <2>1, JudgedByIndex, GivenFirstMatch, SamePolicy DEF Collector!RuleOf
  <2>3. d \in Condemnation <=> Condemned(i)
    BY <2>1, JudgedByIndex
  <2>4. r = NoRule => Condemned(i)
    BY <2>1 DEF Condemned, NoMatch
  <2>5. r # NoRule => r \in DOMAIN cfg.rules
    BY <2>1, GivenFirstMatch
  <2>6. r # NoRule /\ cfg.rules[r].keep_count = None => ~ Condemned(i)
    BY DEF Condemned, NoMatch, OverCap, Excess, Capped
  <2>7. r # NoRule /\ cfg.rules[r].keep_count # None => i \in Capped(cfg.rules, classified)
    BY <2>1, <2>5 DEF Capped
  <2>8. r # NoRule /\ cfg.rules[r].keep_count # None =>
           Collector!SparesNewest(Collector!Peers(Matched, Given, d),
                                  cfg.rules[r].keep_count, Condemnation)
    BY <2>1, <2>7, VerdictSparesNewest DEF CapOf
  <2> QED
    BY <2>2, <2>3, <2>4, <2>6, <2>8
<1>3. Collector!NoRule = NoRule
  BY SamePolicy
<1> QED
  BY <1>1, <1>2, <1>3 DEF Collector!IsVerdict

\* When the last candidate is examined, the pass commits.
LEMMA EndIsCommit ==
    ASSUME PassInv, AccountsInv, EndOfExamination
    PROVE  Collector!Commit
<1>1. /\ pc = "examining" /\ pc' = "applying" /\ next = 1
      /\ UNCHANGED <<cfg, now, markers, classified, next, report, dirVars>>
  BY DEF EndOfExamination, AccountsInv, PhasesOfPass
<1>2. DOMAIN classified = 1..Len(classified) /\ Len(classified) \in Nat
  BY DEF PassInv, TypeOK, ScanTypeOK
<1>3. \A j \in DOMAIN classified : j >= next /\ (Condemned(j)' <=> Condemned(j))
  BY <1>1, <1>2 DEF Condemned, NoMatch, OverCap
<1>4. Doomed' = Condemnation
  BY <1>1, <1>3 DEF Doomed, Condemnation
<1>5. Matched \in SUBSET Dumps
  BY JudgedByIndex
<1>6. /\ UNCHANGED <<DumpsThere, PinsThere, Stayed, Held, Noticed, ListingFailed, cfg, now,
                     mtime, clock>>
      /\ report'.removed = report.removed /\ Unread' = {}
      /\ Phase = "looking" /\ Phase' = "removing"
  BY <1>1 DEF dirVars, DumpsThere, PinsThere, Stayed, Held, Phase, Noticed, ListingFailed,
     Unread
<1>7. /\ Collector!MayJudge(Matched)
      /\ Given \in Collector!Contexts(Matched)
      /\ Collector!IsVerdict(Matched, Given, Doomed')
  BY <1>4, JudgedMayBe, GivenContexts, VerdictIsPolicy
<1> QED
  BY <1>5, <1>6, <1>7 DEF Collector!Commit

-----------------------------------------------------------------------------
(* The verdicts are carried out.                                           *)

\* A verdict that is carried out is done with, and no other is.
LEMMA DoomedShrinks ==
    ASSUME PassInv, AccountsInv, NEW d \in Dumps, Applying(d)
    PROVE  /\ Doomed' = Doomed \ {d}
           /\ d \in Doomed <=> Condemned(next)
<1>1. /\ pc = "applying" /\ next <= Len(classified) /\ d = classified[next].dump
      /\ next' = next + 1
      /\ UNCHANGED <<pc, cfg, classified>>
  BY DEF Applying
<1>2. DOMAIN classified = 1..Len(classified) /\ Len(classified) \in Nat /\ next \in Nat \ {0}
  BY DEF PassInv, TypeOK, ScanTypeOK
<1>3. next \in DOMAIN classified
  BY <1>1, <1>2
<1>4. \A j \in DOMAIN classified : classified[j].dump = d => j = next
  BY <1>1, <1>3 DEF AccountsInv, OnePlaceEach
<1>5. \A j \in DOMAIN classified : Condemned(j)' <=> Condemned(j)
  BY <1>1 DEF Condemned, NoMatch, OverCap
<1>6. Doomed = {classified[j].dump : j \in {k \in DOMAIN classified : k >= next /\ Condemned(k)}}
  BY <1>1 DEF Doomed
<1>7. Doomed' = {classified[j].dump :
                    j \in {k \in DOMAIN classified : k >= next + 1 /\ Condemned(k)}}
  BY <1>1, <1>5 DEF Doomed
<1>8. \A j \in DOMAIN classified : j >= next + 1 <=> j >= next /\ j # next
  BY <1>2
<1>9. Doomed' = Doomed \ {d}
  BY <1>1, <1>4, <1>6, <1>7, <1>8
<1>10. d \in Doomed <=> Condemned(next)
  BY <1>1, <1>2, <1>3, <1>4, <1>6
<1> QED
  BY <1>9, <1>10

\* To apply a verdict is to remove a doomed dump, to spare it, or nothing.
LEMMA ApplyingRemovesOrSpares ==
    ASSUME PassInv, AccountsInv, NEW d \in Dumps,
           ApplyKeep(d) \/ ApplyDryRun(d) \/ ApplyRemove(d) \/ ApplyRemoveFails(d)
    PROVE  [Collector!Next]_(Collector!vars)
<1>1. /\ Applying(d) /\ pc = "applying"
      /\ UNCHANGED <<pc, cfg, now, markers, mtime, clock>>
  BY DEF ApplyKeep, ApplyDryRun, ApplyRemove, ApplyRemoveFails, Applying, dirVars
<1>2. Doomed' = Doomed \ {d} /\ (d \in Doomed <=> Condemned(next))
  BY <1>1, DoomedShrinks
<1>3. report \in ReportType /\ d # Directory
  BY ScanAssumption DEF PassInv, TypeOK, ScanTypeOK
<1>4. /\ UNCHANGED <<Phase, Noticed, ListingFailed, Unread>>
      /\ ~ ApplyRemove(d) => report'.removed = report.removed
  BY <1>1, <1>3 DEF ApplyKeep, ApplyDryRun, ApplyRemove, ApplyRemoveFails, Phase, Noticed,
     ListingFailed, Unread, ReportType
<1>5. ~ ApplyRemove(d) => UNCHANGED <<DumpsThere, PinsThere, Stayed, Held>>
  BY DEF ApplyKeep, ApplyDryRun, ApplyRemoveFails, dirVars, DumpsThere, PinsThere, Stayed,
     Held
<1>6. CASE ApplyRemove(d)
  <2>1. /\ Condemned(next) /\ ~ cfg.dry_run /\ DumpName(d) \in files
        /\ files' = files \ {DumpName(d)} /\ stable' = stable \ {DumpName(d)}
        /\ report' = [report EXCEPT !.removed = @ \cup {d}]
    BY <1>6 DEF ApplyRemove, Unlink
  <2>2. report'.removed = report.removed \cup {d}
    BY <1>3, <2>1 DEF ReportType
  <2>3. \A e \in Dumps : /\ DumpName(e) = DumpName(d) <=> e = d
                         /\ Marker(e) # DumpName(d)
    BY DEF DumpName, Marker, MarkerPath
  <2>4. /\ DumpsThere' = DumpsThere \ {d} /\ Stayed' = Stayed \ {d}
        /\ UNCHANGED <<PinsThere, Held>>
        /\ d \in DumpsThere
    BY <2>1, <2>3 DEF DumpsThere, PinsThere, Stayed, Held
  <2>5. Collector!Remove(d)
    BY <1>1, <1>2, <1>4, <2>1, <2>2, <2>4 DEF Collector!Remove
  <2> QED
    BY <2>5 DEF Collector!Next
<1>7. CASE ApplyKeep(d)
  <2>1. Doomed' = Doomed
    BY <1>2, <1>7 DEF ApplyKeep
  <2>2. ~ ApplyRemove(d)
    BY <1>7 DEF ApplyKeep, ApplyRemove
  <2> QED
    BY <1>1, <1>4, <1>5, <2>1, <2>2 DEF Collector!vars, Collector!passVars
<1>8. CASE (ApplyDryRun(d) \/ ApplyRemoveFails(d)) /\ ~ ApplyRemove(d)
  <2>1. Condemned(next)
    BY <1>8 DEF ApplyDryRun, ApplyRemoveFails
  <2>2. cfg.dry_run \/ d \notin DumpsThere \/ UnlinkErrors
    BY <1>8 DEF ApplyDryRun, ApplyRemoveFails, DumpsThere
  <2>3. Collector!Spare(d)
    BY <1>1, <1>2, <1>4, <1>5, <1>8, <2>1, <2>2 DEF Collector!Spare
  <2> QED
    BY <2>3 DEF Collector!Next
<1> QED
  BY <1>6, <1>7, <1>8

\* A pass returns when nothing is doomed any more.
LEMMA ReturnIsEnd ==
    ASSUME PassInv, AccountsInv, Return
    PROVE  Collector!End
<1>1. /\ pc = "applying" /\ pc' = "idle" /\ now' = 0 /\ markers' = {}
      /\ next > Len(classified)
      /\ report' = EmptyReport /\ UNCHANGED <<cfg, dirVars>>
  BY DEF Return
<1>2. DOMAIN classified = 1..Len(classified) /\ Len(classified) \in Nat /\ next \in Nat
  BY DEF PassInv, TypeOK, ScanTypeOK
<1>3. {j \in DOMAIN classified : j >= next /\ Condemned(j)} = {}
  BY <1>1, <1>2
<1>4. Doomed = {} /\ Doomed' = {}
  BY <1>1, <1>3 DEF Doomed
<1>5. Noticed' = {} /\ ListingFailed' = FALSE /\ report'.removed = {} /\ UNCHANGED Unread
  BY <1>1 DEF Noticed, ListingFailed, Unread, EmptyReport
<1>6. /\ UNCHANGED <<DumpsThere, PinsThere, Stayed, Held, mtime, clock>>
      /\ Phase = "removing" /\ Phase' = "idle"
  BY <1>1 DEF dirVars, DumpsThere, PinsThere, Stayed, Held, Phase
<1> QED
  BY <1>1, <1>4, <1>5, <1>6 DEF Collector!End

\* Every step is one of the collector's, or none.
LEMMA AbstractStep == PassInv /\ AccountsInv /\ [Next]_vars => [Collector!Next]_(Collector!vars)
<1> SUFFICES ASSUME PassInv, AccountsInv, [Next]_vars
             PROVE  [Collector!Next]_(Collector!vars)
  OBVIOUS
<1>1. CASE UNCHANGED vars
  <2>1. UNCHANGED <<dirVars, pc, cfg, now, markers, classified, next, report>>
    BY <1>1 DEF vars, scanVars
  <2>2. UNCHANGED Doomed
    BY <2>1 DEF Doomed, Condemned, NoMatch, OverCap
  <2>3. UNCHANGED Collector!vars
    BY <2>1, <2>2, NoAbstractStep DEF ListingFailed, Unread
  <2> QED
    BY <2>3
<1>2. CASE ScanStep
  <2>1. CASE EndOfDirectory
             \/ \E n \in files : ReadMarker(n) \/ ReadCandidate(n) \/ ReadFails(n)
    BY <2>1, ListingLooks
  <2>2. ASSUME NEW d \in Dumps,
               \/ ExamineForeign(d) \/ ExamineFails(d) \/ ExamineYoung(d)
               \/ ExamineRetained(d)
               \/ \E found \in LookupResults(d) : ExamineMatched(d, found)
        PROVE  [Collector!Next]_(Collector!vars)
    BY <2>2, ExaminingMaySkip
  <2>3. CASE EndOfExamination
    BY <2>3, EndIsCommit DEF Collector!Next
  <2>4. CASE Return
    BY <2>4, ReturnIsEnd DEF Collector!Next
  <2> QED
    BY <1>2, <2>1, <2>2, <2>3, <2>4, ApplyingRemovesOrSpares DEF ScanStep
<1>3. CASE ScanStart
  BY <1>3, StartIsBegin DEF Collector!Next
<1>4. CASE \/ DirNext /\ UNCHANGED <<scanVars, ctlVars>>
           \/ CtlNext /\ UNCHANGED scanVars
  BY <1>4, OthersAreOutside DEF Collector!Next
<1> QED
  BY <1>1, <1>2, <1>3, <1>4 DEF Next, ScanNext

(***************************************************************************)
(* scan implements the collector: whatever the order of the listing and    *)
(* whatever the others do, a pass commits to one verdict of the policy and *)
(* removes just what that condemned.                                       *)
(***************************************************************************)
THEOREM PassesImplementCollector == Spec => ImplementsCollector
BY AbstractInit, AbstractStep, PassInvariant, AccountsInvariant, PTL
   DEF Spec, ImplementsCollector, Collector!Spec
=============================================================================
