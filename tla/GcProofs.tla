------------------------------ MODULE GcProofs ------------------------------
(***************************************************************************)
(* Theorems about Gc, for every directory, configuration and journal, and  *)
(* every interleaving of passes, `cdgcctl retain` and the outside actors.  *)
(***************************************************************************)
EXTENDS Gc, PolicyProofs

-----------------------------------------------------------------------------
(* Type correctness.                                                       *)

\* classify returns a position among the rules, or none, and a context.
LEMMA ClassifyType ==
    ASSUME NEW rules, IsPolicy(rules), NEW d, NEW found
    PROVE  /\ Classify(rules, d, found).rule_index \in Nat
           /\ Classify(rules, d, found).context \in {EmptyContext, found}
<1>1. {i \in DOMAIN rules : Matches(rules[i], d, ContextAt(rules, i, found))}
         \in SUBSET Nat
  BY DEF IsPolicy
<1>2. LazyMatch(rules, d, found) \in Nat
  BY <1>1, FirstOfType DEF LazyMatch
<1> QED
  BY <1>2 DEF Classify, ContextAt

\* A lookup finds the journal entry of the dump or nothing.
LEMMA LookupType ==
    ASSUME NEW d \in Dumps, NEW found \in LookupResults(d)
    PROVE  found \in {EmptyContext, Entries[d]}
BY DEF LookupResults

\* The marker of a name is a name, and so is the name of a marker.
LEMMA MarkerNames ==
    ASSUME NEW n \in Names
    PROVE  /\ MarkerPath(n) \in Names
           /\ IsMarker(n) => MarkedName(n) \in Names
           /\ n[1] \in Dumps /\ n[2] \in Nat
BY DEF Names, MarkerPath, MarkedName, IsMarker

\* A dump and its marker are names.
LEMMA DumpNames ==
    ASSUME NEW d \in Dumps
    PROVE  DumpName(d) \in Names /\ Marker(d) \in Names
BY DEF Names, DumpName, Marker, MarkerPath

\* The types hold of an empty directory.
LEMMA InitType == Init => TypeOK
<1> SUFFICES ASSUME Init PROVE TypeOK
  OBVIOUS
<1>1. DirTypeOK
  BY DEF Init, DirInit, DirTypeOK
<1>2. report \in ReportType
  BY DEF Init, ScanInit, EmptyReport, ReportType
<1>3. ScanTypeOK
  BY <1>2 DEF Init, ScanInit, ScanTypeOK
<1>4. CtlTypeOK
  BY DEF Init, CtlInit, CtlTypeOK
<1> QED
  BY <1>1, <1>3, <1>4 DEF TypeOK

\* The outside actors.
LEMMA DirTypeStep == TypeOK /\ DirNext /\ UNCHANGED <<scanVars, ctlVars>> => TypeOK'
<1> SUFFICES ASSUME TypeOK, DirNext, UNCHANGED <<scanVars, ctlVars>>
             PROVE  TypeOK'
  OBVIOUS
<1> USE DEF TypeOK, DirTypeOK
<1>1. ScanTypeOK' /\ CtlTypeOK'
  BY DEF ScanTypeOK, CtlTypeOK, scanVars, ctlVars
<1>2. ASSUME NEW d \in Dumps, Crash(d)
      PROVE  DirTypeOK'
  BY <1>2, DumpNames DEF Crash, Link
<1>3. ASSUME NEW d \in Dumps, LogEntry(d)
      PROVE  DirTypeOK'
  BY <1>3 DEF LogEntry
<1>4. ASSUME NEW n \in files, Evict(n)
      PROVE  DirTypeOK'
  BY <1>4 DEF Evict, Unlink
<1>5. CASE Tick
  BY <1>1, <1>5 DEF Tick
<1> QED
  BY <1>1, <1>2, <1>3, <1>4, <1>5 DEF DirNext

\* `cdgcctl retain`.
LEMMA CtlTypeStep == TypeOK /\ CtlNext /\ UNCHANGED scanVars => TypeOK'
<1> SUFFICES ASSUME TypeOK, CtlNext, UNCHANGED scanVars
             PROVE  TypeOK'
  OBVIOUS
<1> USE DEF TypeOK
<1>1. ScanTypeOK'
  BY DEF ScanTypeOK, scanVars
<1>2. ASSUME NEW n \in Names, Resolve(n)
      PROVE  DirTypeOK' /\ CtlTypeOK'
  BY <1>2 DEF Resolve, DirTypeOK, CtlTypeOK, dirVars
<1>3. CASE RetainMostRecent
  <2>1. PICK read \in Listings : \E n \in MostRecent(read) : Resolve(n)
    BY <1>3 DEF RetainMostRecent
  <2>2. read \subseteq Names
    BY DEF Listings, DirTypeOK
  <2> QED
    BY <1>1, <1>2, <2>1, <2>2 DEF MostRecent
<1>4. ASSUME NEW d \in Dumps, RetainNamed(d)
      PROVE  DirTypeOK' /\ CtlTypeOK'
  BY <1>2, <1>4, DumpNames DEF RetainNamed
<1>5. CASE RetainExisting
  BY <1>1, <1>5 DEF RetainExisting, DirTypeOK, CtlTypeOK, dirVars
<1>6. CASE RetainMissing
  BY <1>1, <1>6 DEF RetainMissing, Exit, DirTypeOK, CtlTypeOK, dirVars
<1>7. CASE CreateMarker
  <2>1. target \in Names
    BY <1>7 DEF CreateMarker, CtlTypeOK
  <2>2. MarkerPath(target) \in Names
    BY <2>1, MarkerNames
  <2> QED
    BY <1>1, <1>7, <2>2 DEF CreateMarker, Exit, Link, DirTypeOK, CtlTypeOK
<1>8. CASE CreateFails
  BY <1>1, <1>8 DEF CreateFails, Exit, DirTypeOK, CtlTypeOK, dirVars
<1> QED
  BY <1>1, <1>3, <1>4, <1>5, <1>6, <1>7, <1>8 DEF CtlNext

\* Starting a pass.
LEMMA StartTypeStep == TypeOK /\ ScanStart /\ UNCHANGED ctlVars => TypeOK'
<1> SUFFICES ASSUME TypeOK, ScanStart, UNCHANGED ctlVars
             PROVE  TypeOK'
  OBVIOUS
<1> USE DEF TypeOK
<1>1. CtlTypeOK'
  BY DEF CtlTypeOK, ctlVars
<1>2. EmptyReport \in ReportType
      /\ [EmptyReport EXCEPT !.errors = {Directory}] \in ReportType
  BY DEF EmptyReport, ReportType
<1>3. ASSUME NEW c \in Configs, OpenDirectory(c)
      PROVE  DirTypeOK' /\ ScanTypeOK'
  BY <1>2, <1>3 DEF OpenDirectory, DirTypeOK, ScanTypeOK
<1>4. ASSUME NEW c \in Configs, OpenFails(c)
      PROVE  DirTypeOK' /\ ScanTypeOK'
  BY <1>2, <1>4 DEF OpenFails, DirTypeOK, ScanTypeOK, dirVars
<1> QED
  BY <1>1, <1>3, <1>4 DEF ScanStart

\* Every list of the report takes a dump, the errors the directory as well.
LEMMA ReportUpdates ==
    ASSUME report \in ReportType, NEW d \in Dumps
    PROVE  /\ [report EXCEPT !.kept = @ \cup {d}] \in ReportType
           /\ [report EXCEPT !.removed = @ \cup {d}] \in ReportType
           /\ [report EXCEPT !.would_remove = @ \cup {d}] \in ReportType
           /\ [report EXCEPT !.too_young = @ \cup {d}] \in ReportType
           /\ [report EXCEPT !.unparseable = @ \cup {d}] \in ReportType
           /\ [report EXCEPT !.errors = @ \cup {d}] \in ReportType
BY DEF ReportType

\* Listing the directory keeps the types, ...
LEMMA ListingTypeStep ==
    TypeOK /\ UNCHANGED ctlVars
    /\ (EndOfDirectory
        \/ \E n \in files : ReadMarker(n) \/ ReadCandidate(n) \/ ReadFails(n))
    => TypeOK'
<1> SUFFICES ASSUME TypeOK, UNCHANGED ctlVars,
                    EndOfDirectory
                    \/ \E n \in files : ReadMarker(n) \/ ReadCandidate(n) \/ ReadFails(n)
             PROVE  TypeOK'
  OBVIOUS
<1> USE DEF TypeOK
<1>1. CtlTypeOK'
  BY DEF CtlTypeOK, ctlVars
<1>2. CASE EndOfDirectory
  BY <1>1, <1>2 DEF EndOfDirectory, DirTypeOK, ScanTypeOK, dirVars
<1>3. ASSUME NEW n \in files, ReadMarker(n) \/ ReadCandidate(n) \/ ReadFails(n)
      PROVE  TypeOK'
  <2>1. n \in Names
    BY DEF DirTypeOK
  <2>2. DirTypeOK' /\ seen' \subseteq Names
    BY <1>3, <2>1 DEF ReadMarker, ReadCandidate, ReadFails, Reading, DirTypeOK,
       ScanTypeOK, dirVars
  <2>3. CASE ReadMarker(n)
    BY <1>1, <2>1, <2>2, <2>3, MarkerNames DEF ReadMarker, Reading, ScanTypeOK
  <2>4. CASE ReadCandidate(n)
    BY <1>1, <2>1, <2>2, <2>4, MarkerNames DEF ReadCandidate, Reading, ScanTypeOK
  <2>5. CASE ReadFails(n)
    <3>1. report' \in ReportType
      BY <2>5 DEF ReadFails, ScanTypeOK, ReportType
    <3> QED
      BY <1>1, <2>2, <2>5, <3>1 DEF ReadFails, Reading, ScanTypeOK
  <2> QED
    BY <1>3, <2>3, <2>4, <2>5
<1> QED
  BY <1>2, <1>3

\* ... so does the examination of a candidate, ...
LEMMA ExaminingTypeStep ==
    ASSUME TypeOK, UNCHANGED ctlVars, NEW d \in Dumps,
           \/ ExamineForeign(d) \/ ExamineFails(d) \/ ExamineYoung(d)
           \/ ExamineRetained(d)
           \/ \E found \in LookupResults(d) : ExamineMatched(d, found)
    PROVE  TypeOK'
<1> USE DEF TypeOK
<1>1. CtlTypeOK'
  BY DEF CtlTypeOK, ctlVars
<1>2. Examining(d)
  BY DEF ExamineForeign, ExamineFails, ExamineYoung, ExamineRetained, ExamineMatched
<1>3. DirTypeOK'
  BY <1>2 DEF Examining, DirTypeOK, dirVars
<1>4. /\ pc' \in {"idle", "listing", "examining", "applying"}
      /\ cfg' \in Configs /\ now' \in Nat /\ next' \in Nat \ {0}
      /\ seen' \subseteq Names /\ markers' \subseteq Names
      /\ candidates' \in Seq(Dumps)
  BY <1>2 DEF Examining, ScanTypeOK
<1>5. report \in ReportType /\ classified \in Seq(ClassifiedType)
  BY DEF ScanTypeOK
<1>6. CASE ExamineForeign(d)
  BY <1>1, <1>3, <1>4, <1>5, <1>6, ReportUpdates DEF ExamineForeign, ScanTypeOK
<1>7. CASE ExamineFails(d)
  BY <1>1, <1>3, <1>4, <1>5, <1>7, ReportUpdates DEF ExamineFails, ScanTypeOK
<1>8. CASE ExamineYoung(d)
  BY <1>1, <1>3, <1>4, <1>5, <1>8, ReportUpdates DEF ExamineYoung, ScanTypeOK
<1>9. CASE ExamineRetained(d)
  <2>1. [dump |-> d, rule_index |-> NoRule, context |-> EmptyContext, retained |-> TRUE]
           \in ClassifiedType
    BY DEF ClassifiedType, NoRule
  <2>2. classified' \in Seq(ClassifiedType)
    BY <1>5, <1>9, <2>1 DEF ExamineRetained
  <2> QED
    BY <1>1, <1>3, <1>4, <1>5, <1>9, <2>2 DEF ExamineRetained, ScanTypeOK
<1>10. ASSUME NEW found \in LookupResults(d), ExamineMatched(d, found)
       PROVE  TypeOK'
  <2> DEFINE c == Classify(cfg.rules, d, found)
             e == [dump |-> d, rule_index |-> c.rule_index,
                   context |-> c.context, retained |-> FALSE]
  <2>1. IsPolicy(cfg.rules)
    BY ScanAssumption DEF ScanTypeOK
  <2>2. c.rule_index \in Nat
        /\ c.context \in {EmptyContext} \cup {Entries[x] : x \in Dumps}
    BY <2>1, ClassifyType, LookupType
  <2>3. classified' = Append(classified, e)
    BY <1>10 DEF ExamineMatched
  <2> HIDE DEF c
  <2>4. e \in ClassifiedType
    BY <2>2 DEF ClassifiedType
  <2>5. classified' \in Seq(ClassifiedType)
    BY <1>5, <2>3, <2>4
  <2> QED
    BY <1>1, <1>3, <1>4, <1>5, <1>10, <2>5 DEF ExamineMatched, ScanTypeOK
<1> QED
  BY <1>6, <1>7, <1>8, <1>9, <1>10

\* ... so does the execution of a verdict, ...
LEMMA ApplyingTypeStep ==
    ASSUME TypeOK, UNCHANGED ctlVars, NEW d \in Dumps,
           ApplyKeep(d) \/ ApplyDryRun(d) \/ ApplyRemove(d) \/ ApplyRemoveFails(d)
    PROVE  TypeOK'
<1> USE DEF TypeOK
<1>1. CtlTypeOK'
  BY DEF CtlTypeOK, ctlVars
<1>2. Applying(d)
  BY DEF ApplyKeep, ApplyDryRun, ApplyRemove, ApplyRemoveFails
<1>3. DirTypeOK'
  <2>1. CASE UNCHANGED dirVars
    BY <2>1 DEF DirTypeOK, dirVars
  <2>2. CASE ApplyRemove(d)
    BY <2>2 DEF ApplyRemove, Unlink, DirTypeOK
  <2> QED
    BY <2>1, <2>2 DEF ApplyKeep, ApplyDryRun, ApplyRemoveFails
<1>4. report' \in ReportType
  BY ReportUpdates DEF ApplyKeep, ApplyDryRun, ApplyRemove, ApplyRemoveFails, ScanTypeOK
<1>5. ScanTypeOK'
  BY <1>2, <1>4 DEF Applying, ScanTypeOK
<1> QED
  BY <1>1, <1>3, <1>5

\* ... and so does the end of each.
LEMMA EndTypeStep ==
    TypeOK /\ UNCHANGED ctlVars /\ (EndOfExamination \/ Return) => TypeOK'
<1> SUFFICES ASSUME TypeOK, UNCHANGED ctlVars, EndOfExamination \/ Return
             PROVE  TypeOK'
  OBVIOUS
<1> USE DEF TypeOK
<1>1. CtlTypeOK' /\ DirTypeOK'
  BY DEF CtlTypeOK, ctlVars, DirTypeOK, dirVars, EndOfExamination, Return
<1>2. EmptyReport \in ReportType
  BY DEF EmptyReport, ReportType
<1>3. ScanTypeOK'
  <2>1. CASE EndOfExamination
    BY <2>1 DEF EndOfExamination, ScanTypeOK
  <2>2. CASE Return
    <3>1. classified' \in Seq(ClassifiedType)
      BY <2>2 DEF Return
    <3> QED
      BY <1>2, <2>2, <3>1 DEF Return, ScanTypeOK
  <2> QED
    BY <2>1, <2>2
<1> QED
  BY <1>1, <1>3

\* Every step keeps the types.
LEMMA TypeStep == TypeOK /\ [Next]_vars => TypeOK'
<1> SUFFICES ASSUME TypeOK, [Next]_vars PROVE TypeOK'
  OBVIOUS
<1>1. CASE UNCHANGED vars
  BY <1>1 DEF vars, dirVars, scanVars, ctlVars, TypeOK, DirTypeOK, ScanTypeOK, CtlTypeOK
<1>2. CASE ScanNext /\ UNCHANGED ctlVars
  <2>1. CASE ScanStart
    BY <1>2, <2>1, StartTypeStep
  <2>2. CASE ScanStep
    BY <1>2, <2>2, ListingTypeStep, ExaminingTypeStep, ApplyingTypeStep, EndTypeStep
       DEF ScanStep
  <2> QED
    BY <1>2, <2>1, <2>2 DEF ScanNext
<1> QED
  BY <1>1, <1>2, CtlTypeStep, DirTypeStep DEF Next

(***************************************************************************)
(* Every variable of the collector keeps its type.                         *)
(***************************************************************************)
THEOREM TypeCorrect == Spec => []TypeOK
BY InitType, TypeStep, PTL DEF Spec

-----------------------------------------------------------------------------
(* The inductive invariant.                                                *)

\* The invariant holds of an idle collector.
LEMMA InitInv == Init => PassInv
<1> SUFFICES ASSUME Init PROVE PassInv
  OBVIOUS
<1>1. /\ pc = "idle" /\ classified = <<>> /\ seen = {} /\ markers = {}
      /\ files = {} /\ now = 0 /\ clock = 0 /\ DOMAIN classified = {}
  BY DEF Init, DirInit, ScanInit
<1> QED
  BY <1>1, InitType DEF PassInv, MemoryOfPass, MarkersCollected, OnlyUnmarkedMatched,
     FilesWritten, ClassifiedAged, ClassifiedByClassify

\* What a pass can rely on while others act: its memory is its own, names stay
\* in `stable` only as long as they are linked, a dump is written once.
LEMMA OthersStep ==
    ASSUME PassInv,
           \/ DirNext /\ UNCHANGED <<scanVars, ctlVars>>
           \/ CtlNext /\ UNCHANGED scanVars
    PROVE  /\ UNCHANGED scanVars
           /\ stable' \subseteq stable
           /\ clock' >= clock
           /\ born \subseteq born'
           /\ \A d \in born : mtime'[d] = mtime[d]
           /\ \A n \in files' : ~ IsMarker(n) => n[1] \in born'
<1>1. /\ DirTypeOK /\ CtlTypeOK
      /\ \A n \in files : ~ IsMarker(n) => n[1] \in born
  BY DEF PassInv, FilesWritten, TypeOK
<1>2. ASSUME NEW d \in Dumps, Crash(d)
      PROVE  /\ born \subseteq born'
             /\ \A x \in born : mtime'[x] = mtime[x]
             /\ \A n \in files' : ~ IsMarker(n) => n[1] \in born'
             /\ clock' = clock /\ stable' = stable
  <2>1. \A n : n \in files' => n \in files \/ n[1] = d
    BY <1>2 DEF Crash, Link, DumpName
  <2> QED
    BY <1>1, <1>2, <2>1 DEF Crash, Link, DirTypeOK
<1>3. ASSUME NEW d \in Dumps, LogEntry(d)
      PROVE  UNCHANGED <<files, stable, born, mtime, clock>>
  BY <1>3 DEF LogEntry
<1>4. ASSUME NEW n \in files, Evict(n)
      PROVE  /\ UNCHANGED <<born, mtime, clock>>
             /\ files' \subseteq files /\ stable' \subseteq stable
  BY <1>4 DEF Evict, Unlink
<1>5. CASE Tick /\ UNCHANGED scanVars
  BY <1>1, <1>5 DEF Tick, DirTypeOK
<1>6. CASE CreateMarker
  <2>1. target[2] \in Nat /\ IsMarker(MarkerPath(target))
    BY <1>1, <1>6 DEF CreateMarker, CtlTypeOK, Names, MarkerPath, IsMarker
  <2>2. \A n \in files' : ~ IsMarker(n) => n \in files
    BY <1>6, <2>1 DEF CreateMarker, Link
  <2> QED
    BY <1>1, <1>6, <2>2 DEF CreateMarker, Link, DirTypeOK
<1>7. CASE CtlNext /\ ~ CreateMarker
  <2>1. UNCHANGED dirVars
    BY <1>7 DEF CtlNext, RetainMostRecent, RetainNamed, Resolve, RetainExisting,
       RetainMissing, CreateFails
  <2> QED
    BY <1>1, <2>1 DEF dirVars, DirTypeOK
<1>8. clock >= clock
  BY <1>1 DEF DirTypeOK
<1>9. UNCHANGED scanVars
  BY DEF scanVars
<1> QED
  BY <1>1, <1>2, <1>3, <1>4, <1>5, <1>6, <1>7, <1>8, <1>9 DEF DirNext

\* Whatever cdgcctl and the outside actors do, they keep the invariant.
LEMMA OthersKeepInv ==
    ASSUME PassInv,
           \/ DirNext /\ UNCHANGED <<scanVars, ctlVars>>
           \/ CtlNext /\ UNCHANGED scanVars
    PROVE  PassInv'
<1>1. TypeOK'
  BY CtlTypeStep, DirTypeStep DEF PassInv
<1>2. /\ UNCHANGED scanVars
      /\ stable' \subseteq stable
      /\ clock' >= clock
      /\ born \subseteq born'
      /\ \A d \in born : mtime'[d] = mtime[d]
      /\ \A n \in files' : ~ IsMarker(n) => n[1] \in born'
  BY OthersStep
<1>3. TypeOK
  BY DEF PassInv
<1>4. MemoryOfPass' /\ MarkersCollected' /\ OnlyUnmarkedMatched' /\ ClassifiedByClassify'
  BY <1>2 DEF PassInv, scanVars, MemoryOfPass, MarkersCollected, OnlyUnmarkedMatched,
     ClassifiedByClassify, ListingFailed
<1>5. FilesWritten'
  BY <1>1, <1>2, <1>3 DEF PassInv, FilesWritten, scanVars, TypeOK, DirTypeOK, ScanTypeOK
<1>6. ClassifiedAged'
  BY <1>2 DEF PassInv, ClassifiedAged, scanVars
<1> QED
  BY <1>1, <1>4, <1>5, <1>6 DEF PassInv

\* A pass leaves the dumps as they were written, and unlinks at most.
LEMMA PassStepFrame ==
    ASSUME ScanStep \/ ScanStart
    PROVE  /\ UNCHANGED <<born, mtime, journal, clock>>
           /\ files' \subseteq files
<1>1. CASE \E d \in Dumps : ApplyRemove(d)
  BY <1>1 DEF ApplyRemove, Unlink
<1>2. CASE \E c \in Configs : OpenDirectory(c)
  BY <1>2 DEF OpenDirectory
<1>3. CASE UNCHANGED dirVars
  BY <1>3 DEF dirVars
<1> QED
  BY <1>1, <1>2, <1>3 DEF ScanStep, ScanStart, OpenFails, ReadMarker, ReadCandidate,
     ReadFails, Reading, EndOfDirectory, ExamineForeign, ExamineFails, ExamineYoung,
     ExamineRetained, ExamineMatched, Examining, EndOfExamination, ApplyKeep,
     ApplyDryRun, ApplyRemoveFails, Return

\* A pass starts with the invariant: nothing is read, all that is there is stable.
LEMMA StartKeepsInv ==
    ASSUME PassInv, ScanStart, UNCHANGED ctlVars
    PROVE  PassInv'
<1>1. TypeOK' /\ TypeOK
  BY StartTypeStep DEF PassInv
<1>2. pc = "idle" /\ seen = {} /\ markers = {} /\ classified = <<>>
  BY DEF PassInv, MemoryOfPass, ScanStart, OpenDirectory, OpenFails
<1>3. /\ UNCHANGED <<seen, markers, classified>>
      /\ pc' # "idle" /\ (pc' = "listing" \/ ListingFailed')
  BY DEF ScanStart, OpenDirectory, OpenFails, EmptyReport, ListingFailed
<1>4. DOMAIN classified' = {}
  BY <1>2, <1>3
<1>5. pc' = "listing" \/ pc' = "applying"
  BY DEF ScanStart, OpenDirectory, OpenFails
<1>6. MemoryOfPass' /\ MarkersCollected' /\ OnlyUnmarkedMatched'
      /\ ClassifiedAged' /\ ClassifiedByClassify'
  BY <1>2, <1>3, <1>4, <1>5 DEF MemoryOfPass, MarkersCollected, OnlyUnmarkedMatched,
     ClassifiedAged, ClassifiedByClassify
<1>7. FilesWritten'
  <2>1. now' <= clock'
    BY <1>1 DEF PassInv, FilesWritten, TypeOK, DirTypeOK, ScanTypeOK, ScanStart,
       OpenDirectory, OpenFails, dirVars
  <2> QED
    BY <2>1, PassStepFrame DEF PassInv, FilesWritten
<1> QED
  BY <1>1, <1>6, <1>7 DEF PassInv

\* Each name that readdir returns is noted, and each marker among them.
LEMMA ListingKeepsInv ==
    ASSUME PassInv, UNCHANGED ctlVars,
           EndOfDirectory
           \/ \E n \in files : ReadMarker(n) \/ ReadCandidate(n) \/ ReadFails(n)
    PROVE  PassInv'
<1>1. TypeOK'
  BY ListingTypeStep DEF PassInv
<1>2. /\ UNCHANGED <<cfg, now, classified, dirVars>>
      /\ pc = "listing" /\ classified = <<>>
  BY DEF EndOfDirectory, ReadMarker, ReadCandidate, ReadFails, Reading, PassInv,
     MemoryOfPass
<1>3. DOMAIN classified' = {}
  BY <1>2
<1>4. MemoryOfPass' /\ OnlyUnmarkedMatched' /\ ClassifiedAged' /\ ClassifiedByClassify'
      /\ FilesWritten'
  <2>1. pc' # "idle"
    BY <1>2 DEF EndOfDirectory, ReadMarker, ReadCandidate, ReadFails, Reading
  <2> QED
    BY <1>2, <1>3, <2>1 DEF PassInv, MemoryOfPass, OnlyUnmarkedMatched, ClassifiedAged,
       ClassifiedByClassify, FilesWritten, dirVars
<1>5. MarkersCollected'
  <2>1. CASE EndOfDirectory
    BY <2>1 DEF PassInv, EndOfDirectory, MarkersCollected, ListingFailed, dirVars
  <2>2. ASSUME NEW n \in files, ReadMarker(n)
        PROVE  MarkersCollected'
    BY <1>2, <2>2 DEF PassInv, ReadMarker, Reading, MarkersCollected, ListingFailed
  <2>3. ASSUME NEW n \in files, ReadCandidate(n)
        PROVE  MarkersCollected'
    BY <1>2, <2>3 DEF PassInv, ReadCandidate, Reading, MarkersCollected, ListingFailed
  <2>4. ASSUME NEW n \in files, ReadFails(n)
        PROVE  ListingFailed'
    BY <2>4 DEF PassInv, TypeOK, ScanTypeOK, ReportType, ReadFails, ListingFailed
  <2> QED
    BY <2>1, <2>2, <2>3, <2>4 DEF MarkersCollected
<1> QED
  BY <1>1, <1>4, <1>5 DEF PassInv

\* A candidate is classified only if it is old enough, matched only if unmarked.
LEMMA ExaminingKeepsInv ==
    ASSUME PassInv, UNCHANGED ctlVars, NEW d \in Dumps,
           \/ ExamineForeign(d) \/ ExamineFails(d) \/ ExamineYoung(d)
           \/ ExamineRetained(d)
           \/ \E found \in LookupResults(d) : ExamineMatched(d, found)
    PROVE  PassInv'
<1>1. TypeOK' /\ TypeOK
  BY ExaminingTypeStep DEF PassInv
<1>2. /\ UNCHANGED <<pc, cfg, now, seen, markers, next, dirVars>>
      /\ pc = "examining"
  BY DEF ExamineForeign, ExamineFails, ExamineYoung, ExamineRetained, ExamineMatched,
     Examining
<1>3. MemoryOfPass' /\ FilesWritten'
  BY <1>2 DEF PassInv, MemoryOfPass, FilesWritten, dirVars
<1>4. MarkersCollected'
  <2>1. ListingFailed => ListingFailed'
    BY <1>1 DEF ExamineForeign, ExamineFails, ExamineYoung, ExamineRetained,
       ExamineMatched, ListingFailed, TypeOK, ScanTypeOK, ReportType
  <2> QED
    BY <1>2, <2>1 DEF PassInv, MarkersCollected, dirVars
<1>5. CASE UNCHANGED classified
  BY <1>1, <1>2, <1>3, <1>4, <1>5 DEF PassInv, OnlyUnmarkedMatched, ClassifiedAged,
     ClassifiedByClassify, dirVars
\* The dump that is classified now, and the ones before it.
<1>6. ASSUME NEW e \in ClassifiedType, classified' = Append(classified, e),
             e.dump = d, DumpName(d) \in files, ~ TooYoung(d),
             ~ e.retained =>
                 /\ DumpName(d) \notin markers
                 /\ \E found \in {EmptyContext, Entries[d]} :
                       LET c == Classify(cfg.rules, d, found)
                       IN  e.rule_index = c.rule_index /\ e.context = c.context
      PROVE  PassInv'
  <2>1. classified \in Seq(ClassifiedType)
    BY <1>1 DEF TypeOK, ScanTypeOK
  <2>2. \A i \in DOMAIN classified' :
           \/ i \in DOMAIN classified /\ classified'[i] = classified[i]
           \/ classified'[i] = e
    BY <1>6, <2>1
  <2>3. d \in born
    BY <1>6 DEF PassInv, FilesWritten, IsMarker, DumpName
  <2>4. mtime[d] > now \/ now - mtime[d] >= cfg.minimum_age
    BY <1>1, <1>6, ScanAssumption DEF TooYoung, TypeOK, DirTypeOK, ScanTypeOK
  <2>5. OnlyUnmarkedMatched'
    BY <1>2, <1>6, <2>2 DEF PassInv, OnlyUnmarkedMatched
  <2>6. ClassifiedAged'
    BY <1>2, <1>6, <2>2, <2>3, <2>4 DEF PassInv, ClassifiedAged, dirVars
  <2>7. ClassifiedByClassify'
    BY <1>2, <1>6, <2>2 DEF PassInv, ClassifiedByClassify
  <2> QED
    BY <1>1, <1>3, <1>4, <2>5, <2>6, <2>7 DEF PassInv
<1>7. CASE ExamineRetained(d)
  BY <1>6, <1>7 DEF ExamineRetained, ClassifiedType, NoRule
<1>8. ASSUME NEW found \in LookupResults(d), ExamineMatched(d, found)
      PROVE  PassInv'
  <2> DEFINE c == Classify(cfg.rules, d, found)
             e == [dump |-> d, rule_index |-> c.rule_index,
                   context |-> c.context, retained |-> FALSE]
  <2>1. found \in {EmptyContext, Entries[d]}
    BY LookupType
  <2>2. c.rule_index \in Nat
        /\ c.context \in {EmptyContext} \cup {Entries[x] : x \in Dumps}
    BY <1>1, <2>1, ClassifyType, ScanAssumption DEF TypeOK, ScanTypeOK
  <2>3. e \in ClassifiedType
    <3> HIDE DEF c
    <3> QED
      BY <2>2 DEF ClassifiedType
  <2>4. classified' = Append(classified, e) /\ DumpName(d) \in files
        /\ ~ TooYoung(d) /\ DumpName(d) \notin markers
    BY <1>8 DEF ExamineMatched
  <2> QED
    BY <1>6, <2>1, <2>3, <2>4
<1> QED
  BY <1>5, <1>7, <1>8 DEF ExamineForeign, ExamineFails, ExamineYoung

\* An unlink takes a name out of the directory, nothing out of the memory.
LEMMA ApplyingKeepsInv ==
    ASSUME PassInv, UNCHANGED ctlVars, NEW d \in Dumps,
           ApplyKeep(d) \/ ApplyDryRun(d) \/ ApplyRemove(d) \/ ApplyRemoveFails(d)
    PROVE  PassInv'
<1>1. TypeOK' /\ TypeOK
  BY ApplyingTypeStep DEF PassInv
<1>2. /\ UNCHANGED <<pc, cfg, now, seen, markers, classified, born, mtime, clock>>
      /\ files' \subseteq files /\ stable' \subseteq stable
      /\ pc = "applying"
  BY DEF ApplyKeep, ApplyDryRun, ApplyRemove, ApplyRemoveFails, Applying, Unlink, dirVars
<1>3. ListingFailed => ListingFailed'
  BY <1>1 DEF ApplyKeep, ApplyDryRun, ApplyRemove, ApplyRemoveFails, ListingFailed,
     TypeOK, ScanTypeOK, ReportType
<1>4. MarkersCollected'
  BY <1>2, <1>3 DEF PassInv, MarkersCollected
<1>5. MemoryOfPass' /\ FilesWritten' /\ OnlyUnmarkedMatched' /\ ClassifiedAged'
      /\ ClassifiedByClassify'
  BY <1>2 DEF PassInv, MemoryOfPass, FilesWritten, OnlyUnmarkedMatched, ClassifiedAged,
     ClassifiedByClassify
<1> QED
  BY <1>1, <1>4, <1>5 DEF PassInv

\* Leaving a phase keeps the invariant.
LEMMA EndKeepsInv ==
    ASSUME PassInv, UNCHANGED ctlVars, EndOfExamination \/ Return
    PROVE  PassInv'
<1>1. TypeOK' /\ TypeOK
  BY EndTypeStep DEF PassInv
<1>2. CASE EndOfExamination
  BY <1>1, <1>2 DEF EndOfExamination, PassInv, MemoryOfPass, MarkersCollected, FilesWritten,
     OnlyUnmarkedMatched, ClassifiedAged, ClassifiedByClassify, ListingFailed, dirVars
<1>3. CASE Return
  <2>1. /\ pc' = "idle" /\ seen' = {} /\ markers' = {} /\ classified' = <<>>
        /\ now' = 0 /\ UNCHANGED dirVars /\ DOMAIN classified' = {}
    BY <1>3 DEF Return
  <2>2. FilesWritten'
    BY <1>1, <2>1 DEF PassInv, FilesWritten, TypeOK, DirTypeOK, dirVars
  <2> QED
    BY <1>1, <2>1, <2>2 DEF PassInv, MemoryOfPass, MarkersCollected, OnlyUnmarkedMatched,
       ClassifiedAged, ClassifiedByClassify
<1> QED
  BY <1>2, <1>3

\* Every step keeps the invariant.
LEMMA InvStep == PassInv /\ [Next]_vars => PassInv'
<1> SUFFICES ASSUME PassInv, [Next]_vars PROVE PassInv'
  OBVIOUS
<1>1. CASE UNCHANGED vars
  <2>1. TypeOK'
    BY <1>1, TypeStep DEF PassInv
  <2> QED
    BY <1>1, <2>1 DEF vars, dirVars, scanVars, ctlVars, PassInv, MemoryOfPass,
       MarkersCollected, OnlyUnmarkedMatched, FilesWritten, ClassifiedAged,
       ClassifiedByClassify, ListingFailed
<1>2. CASE ScanStep /\ UNCHANGED ctlVars
  BY <1>2, ListingKeepsInv, ExaminingKeepsInv, ApplyingKeepsInv, EndKeepsInv DEF ScanStep
<1>3. CASE ScanStart /\ UNCHANGED ctlVars
  BY <1>3, StartKeepsInv
<1> QED
  BY <1>1, <1>2, <1>3, OthersKeepInv DEF Next, ScanNext

(***************************************************************************)
(* The memory of a pass tells the truth about the directory, the listing   *)
(* and the rules at every moment.                                          *)
(***************************************************************************)
THEOREM PassInvariant == Spec => []PassInv
BY InitInv, InvStep, PTL DEF Spec

-----------------------------------------------------------------------------
(* The safety properties.                                                  *)

\* Only a verdict to remove unlinks a dump, and it is the verdict of the dump.
LEMMA RemovalIsApplied ==
    ASSUME TypeOK, [Next]_vars, NEW d \in Dumps, RemovedNow(d)
    PROVE  /\ next \in DOMAIN classified
           /\ classified[next].dump = d
           /\ Condemned(next)
           /\ pc = "applying"
           /\ ~ cfg.dry_run
<1>1. report \in ReportType
  BY DEF TypeOK, ScanTypeOK
<1>2. ASSUME NEW x \in Dumps, ApplyRemove(x)
      PROVE  /\ next \in DOMAIN classified
             /\ classified[next].dump = d
             /\ Condemned(next)
             /\ pc = "applying"
             /\ ~ cfg.dry_run
  <2>1. report'.removed = report.removed \cup {x}
    BY <1>1, <1>2 DEF ApplyRemove, ReportType
  <2>2. x = d
    BY <2>1 DEF RemovedNow
  <2>3. next \in 1..Len(classified) /\ classified \in Seq(ClassifiedType)
    BY <1>2 DEF ApplyRemove, Applying, TypeOK, ScanTypeOK
  <2> QED
    BY <1>2, <2>2, <2>3 DEF ApplyRemove, Applying
<1>3. CASE report' = report \/ report' = EmptyReport
           \/ report' = [EmptyReport EXCEPT !.errors = {Directory}]
  BY <1>3 DEF RemovedNow, EmptyReport
<1>4. ASSUME NEW x, \/ report' = [report EXCEPT !.kept = @ \cup {x}]
                    \/ report' = [report EXCEPT !.would_remove = @ \cup {x}]
                    \/ report' = [report EXCEPT !.too_young = @ \cup {x}]
                    \/ report' = [report EXCEPT !.unparseable = @ \cup {x}]
                    \/ report' = [report EXCEPT !.errors = @ \cup {x}]
      PROVE  FALSE
  BY <1>1, <1>4 DEF RemovedNow, ReportType
<1>5. CASE ScanStart
  BY <1>3, <1>5 DEF ScanStart, OpenDirectory, OpenFails
<1>6. CASE ScanStep
  <2>1. CASE \E n \in files : ReadMarker(n) \/ ReadCandidate(n) \/ ReadFails(n)
    BY <1>3, <1>4, <2>1 DEF ReadMarker, ReadCandidate, ReadFails
  <2>2. CASE EndOfDirectory \/ EndOfExamination \/ Return
    BY <1>3, <2>2 DEF EndOfDirectory, EndOfExamination, Return
  <2>3. ASSUME NEW x \in Dumps,
               \/ ExamineForeign(x) \/ ExamineFails(x) \/ ExamineYoung(x)
               \/ ExamineRetained(x)
               \/ \E found \in LookupResults(x) : ExamineMatched(x, found)
        PROVE  report' = report \/ FALSE
    BY <1>4, <2>3 DEF ExamineForeign, ExamineFails, ExamineYoung, ExamineRetained,
       ExamineMatched
  <2>4. ASSUME NEW x \in Dumps, ApplyKeep(x) \/ ApplyDryRun(x) \/ ApplyRemoveFails(x)
        PROVE  FALSE
    BY <1>4, <2>4 DEF ApplyKeep, ApplyDryRun, ApplyRemoveFails
  <2> QED
    BY <1>2, <1>3, <1>6, <2>1, <2>2, <2>3, <2>4 DEF ScanStep
<1>7. CASE UNCHANGED report
  BY <1>3, <1>7
<1> QED
  BY <1>5, <1>6, <1>7 DEF Next, ScanNext, vars, scanVars

\* No verdict to remove is passed on a retained dump.
LEMMA CondemnedIsMatched ==
    ASSUME NEW i \in DOMAIN classified, Condemned(i)
    PROVE  ~ classified[i].retained
BY DEF Condemned, NoMatch, OverCap, Excess, Capped

\* A step that removes a dump finds its marker missing from the stable names.
LEMMA PinnedStep ==
    ASSUME PassInv, [Next]_vars, NEW d \in Dumps, RemovedNow(d), ~ ListingFailed
    PROVE  Marker(d) \notin stable
<1>1. next \in DOMAIN classified /\ classified[next].dump = d
      /\ Condemned(next) /\ pc = "applying"
  BY RemovalIsApplied DEF PassInv
<1>2. DumpName(d) \notin markers
  BY <1>1, CondemnedIsMatched DEF PassInv, OnlyUnmarkedMatched
<1>3. \A n \in stable : IsMarker(n) => MarkedName(n) \in markers
  BY <1>1 DEF PassInv, MarkersCollected
<1>4. IsMarker(Marker(d)) /\ MarkedName(Marker(d)) = DumpName(d)
  BY DEF IsMarker, Marker, MarkerPath, MarkedName, DumpName
<1> QED
  BY <1>2, <1>3, <1>4

(***************************************************************************)
(* A pass never removes a dump whose marker was there when it opened the   *)
(* directory and still is, unless read_dir failed.                         *)
(***************************************************************************)
THEOREM PinsRespected == Spec => PinnedBeforePassSurvives
<1>1. PassInv /\ [Next]_vars =>
         [\A d \in Dumps :
             RemovedNow(d) /\ ~ ListingFailed => Marker(d) \notin stable]_vars
  BY PinnedStep
<1> QED
  BY <1>1, PassInvariant, PTL DEF Spec, PinnedBeforePassSurvives

\* A step that removes a dump finds it old enough, or newer than the pass.
LEMMA AgedStep ==
    ASSUME PassInv, [Next]_vars, NEW d \in Dumps, RemovedNow(d)
    PROVE  Age(d) >= cfg.minimum_age \/ mtime[d] > now
<1>1. next \in DOMAIN classified /\ classified[next].dump = d
  BY RemovalIsApplied DEF PassInv
<1>2. mtime[d] > now \/ now - mtime[d] >= cfg.minimum_age
  BY <1>1 DEF PassInv, ClassifiedAged
<1>3. /\ now \in Nat /\ clock \in Nat /\ mtime[d] \in Nat /\ now <= clock
      /\ cfg.minimum_age \in Nat
  BY ScanAssumption DEF PassInv, TypeOK, DirTypeOK, ScanTypeOK, FilesWritten
<1> QED
  BY <1>2, <1>3 DEF Age

(***************************************************************************)
(* A pass never removes a dump before minimum_age, unless the dump was     *)
(* written after the pass took its time.                                   *)
(***************************************************************************)
THEOREM AgesRespected == Spec => RemovedAgedOrWrittenDuringPass
<1>1. PassInv /\ [Next]_vars =>
         [\A d \in Dumps :
             RemovedNow(d) => Age(d) >= cfg.minimum_age \/ mtime[d] > now]_vars
  BY AgedStep
<1> QED
  BY <1>1, PassInvariant, PTL DEF Spec, RemovedAgedOrWrittenDuringPass

\* The quotas follow from the types alone, by what mark_excess does.
LEMMA NewestFromType == TypeOK => NewestOfBucketSurvive
<1> SUFFICES ASSUME TypeOK PROVE NewestOfBucketSurvive
  OBVIOUS
<1>1. IsPolicy(cfg.rules) /\ classified \in Seq(ClassifiedType)
  BY ScanAssumption DEF TypeOK, ScanTypeOK
<1>2. DOMAIN classified = 1..Len(classified) /\ Len(classified) \in Nat
  BY <1>1
<1>3. \A i \in DOMAIN classified : classified[i] \in ClassifiedType
  BY <1>1
<1>4. \A i \in DOMAIN classified : classified[i].dump \in Dumps
  BY <1>3 DEF ClassifiedType
<1> QED
  BY <1>1, <1>2, <1>4, QuotaSparesNewest DEF NewestOfBucketSurvive

(***************************************************************************)
(* Of every bucket exactly keep_count dumps survive, or all when there are *)
(* fewer, and no survivor is older than a dump that is removed.            *)
(***************************************************************************)
THEOREM QuotaRespected == Spec => []NewestOfBucketSurvive
BY TypeCorrect, NewestFromType, PTL

\* What was classified by classify was given to its first match.
LEMMA FirstMatchFromInv == PassInv => ClassifiedByFirstMatch
<1> SUFFICES ASSUME PassInv, NEW i \in DOMAIN classified,
                    ~ classified[i].retained, ~ Misled(i)
             PROVE  LET c == classified[i]
                    IN  /\ c.rule_index = FirstMatch(cfg.rules, c.dump, Entries[c.dump])
                        /\ c.rule_index # NoRule =>
                              KeyOf(cfg.rules, classified, i) =
                              GroupKey(cfg.rules[c.rule_index], c.dump, Entries[c.dump])
  BY DEF ClassifiedByFirstMatch
<1> DEFINE rules == cfg.rules
           d     == classified[i].dump
           r     == classified[i].rule_index
<1>1. IsPolicy(rules)
  BY ScanAssumption DEF PassInv, TypeOK, ScanTypeOK
<1>2. PICK found \in {EmptyContext, Entries[d]} :
         /\ r = Classify(rules, d, found).rule_index
         /\ classified[i].context = Classify(rules, d, found).context
  BY DEF PassInv, ClassifiedByClassify
<1>3. /\ r = LazyMatch(rules, d, found)
      /\ classified[i].context = ContextAt(rules, IF r = NoRule THEN Len(rules) ELSE r, found)
  BY <1>2 DEF Classify
<1>4. CASE Asked(i)
  <2>1. classified[i].context = found
    BY <1>3, <1>4 DEF Asked, ContextAt
  <2>2. found = Entries[d]
    BY <1>2, <1>4, <2>1 DEF Misled
  <2> QED
    BY <1>1, <1>3, <2>1, <2>2, LazyMatchIsFirstMatch DEF KeyOf
<1>5. CASE ~ Asked(i)
  <2>1. \A j \in 1..(IF r = NoRule THEN Len(rules) ELSE r) : ~ rules[j].needs_journal
    BY <1>5 DEF Asked
  <2>2. r = FirstMatch(rules, d, Entries[d])
    BY <1>1, <1>3, <2>1, UnaskedMatchIsFirstMatch
  <2>3. ASSUME r # NoRule
        PROVE  KeyOf(rules, classified, i) = GroupKey(rules[r], d, Entries[d])
    <3>1. r \in DOMAIN rules
      BY <1>1, <1>3, <2>3, LazyMatchInRules
    <3>2. r \in 1..r
      BY <1>1, <3>1 DEF IsPolicy
    <3>3. ~ rules[r].needs_journal /\ IsCompiled(rules[r])
      BY <1>1, <2>1, <2>3, <3>1, <3>2 DEF IsPolicy
    <3> QED
      BY <3>3, GroupKeyWithoutJournal DEF KeyOf
  <2> QED
    BY <2>2, <2>3
<1> QED
  BY <1>4, <1>5

(***************************************************************************)
(* Unless the journal failed, every classified dump is given to the first  *)
(* rule that matches it and to the bucket its journal entry calls for.     *)
(***************************************************************************)
THEOREM FirstMatchRespected == Spec => []ClassifiedByFirstMatch
BY PassInvariant, FirstMatchFromInv, PTL
=============================================================================
