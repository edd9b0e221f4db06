------------------------------- MODULE Check --------------------------------
(***************************************************************************)
(* The one-shot commands of src/main.rs. `cdgcd check` is a second loop    *)
(* over the directory, written beside Scanner::scan, that prints verdicts  *)
(* and unlinks nothing; `cdgcd scan` is a pass of Scan, whose report       *)
(* becomes an exit status.                                                 *)
(***************************************************************************)
EXTENDS Gc

VARIABLES
    chk,            \* where the check is
    chkCfg, chkNow, \* its configuration and its time
    chkSeen, chkMarkers, chkCandidates, chkClassified,  \* as in Scan
    printed,        \* the verdict it printed for each dump, None for none
    complained      \* it logged an error of readdir

chkVars == <<chk, chkCfg, chkNow, chkSeen, chkMarkers, chkCandidates,
             chkClassified, printed, complained>>

\* A line without a verdict is none.
ASSUME CheckAssumption == None \notin {"TOO_YOUNG", "KEEP", "REMOVE"}

CheckInit ==
    /\ chk = "off"
    /\ chkCfg \in Configs /\ chkNow = 0
    /\ chkSeen = {} /\ chkMarkers = {}
    /\ chkCandidates = <<>> /\ chkClassified = <<>>
    /\ printed = [d \in Dumps |-> None] /\ complained = FALSE

CheckOpens ==
    /\ chk = "off"
    /\ chk' = "listing"
    /\ chkNow' = clock
    /\ stable' = files
    /\ UNCHANGED <<chkCfg, chkSeen, chkMarkers, chkCandidates, chkClassified, printed, complained>>
    /\ UNCHANGED <<files, born, mtime, journal, clock>>

\* Unlike a pass, a check that cannot open the directory is an error (`?`).
CheckOpenFails ==
    /\ ReadErrors
    /\ chk = "off"
    /\ chk' = "failed"
    /\ UNCHANGED <<chkCfg, chkNow, chkSeen, chkMarkers, chkCandidates, chkClassified,
                   printed, complained, dirVars>>

CheckReads(n) ==
    /\ chk = "listing"
    /\ n \in files \ chkSeen
    /\ chkSeen' = chkSeen \cup {n}
    /\ \/ /\ IsMarker(n)
          /\ chkMarkers' = chkMarkers \cup {MarkedName(n)}
          /\ UNCHANGED <<chkCandidates, complained>>
       \/ /\ ~ IsMarker(n)
          /\ chkCandidates' = Append(chkCandidates, n[1])
          /\ UNCHANGED <<chkMarkers, complained>>
       \/ /\ ReadErrors
          /\ complained' = TRUE
          /\ UNCHANGED <<chkMarkers, chkCandidates>>
    /\ UNCHANGED <<chk, chkCfg, chkNow, chkClassified, printed, dirVars>>

CheckListed ==
    /\ chk = "listing"
    /\ stable \subseteq chkSeen
    /\ chk' = "examining"
    /\ UNCHANGED <<chkCfg, chkNow, chkSeen, chkMarkers, chkCandidates, chkClassified,
                   printed, complained, dirVars>>

\* The age is too low, by metadata that could be read.
CheckTooYoung(d) ==
    /\ DumpName(d) \in files
    /\ mtime[d] <= chkNow
    /\ chkNow - mtime[d] < chkCfg.minimum_age

\* Mutant of CheckClassified: the markers are not looked at.
CheckClassifiedUnpinned(d, found) ==
    LET c == Classify(chkCfg.rules, d, found)
    IN  [dump |-> d, retained |-> FALSE, rule_index |-> c.rule_index, context |-> c.context]

CheckClassified(d, found) ==
    LET retained == DumpName(d) \in chkMarkers
        c == Classify(chkCfg.rules, d, found)
    IN  [dump |-> d, retained |-> retained,
         rule_index |-> IF retained THEN NoRule ELSE c.rule_index,
         context |-> IF retained THEN EmptyContext ELSE c.context]

CheckExamining(d) ==
    /\ chk = "examining"
    /\ chkCandidates # <<>>
    /\ d = Head(chkCandidates)
    /\ chkCandidates' = Tail(chkCandidates)
    /\ UNCHANGED <<chk, chkCfg, chkNow, chkSeen, chkMarkers, complained, dirVars>>

\* A line without a verdict, or none.
CheckForeign(d) ==
    /\ CheckExamining(d)
    /\ ~ Parses(d)
    /\ UNCHANGED <<chkClassified, printed>>

CheckYoung(d) ==
    /\ CheckExamining(d)
    /\ Parses(d)
    /\ CheckTooYoung(d)
    /\ printed' = [printed EXCEPT ![d] = "TOO_YOUNG"]
    /\ UNCHANGED chkClassified

\* metadata().ok(): a dump without metadata is not too young, hence classified.
CheckMatched(d, found) ==
    /\ CheckExamining(d)
    /\ Parses(d)
    /\ MetadataErrors \/ ~ CheckTooYoung(d)
    /\ chkClassified' = Append(chkClassified, CheckClassified(d, found))
    /\ UNCHANGED printed

\* Mutant of Verdict: the quota is not consulted.
VerdictByRule(i) ==
    IF ~ chkClassified[i].retained /\ chkClassified[i].rule_index = NoRule
    THEN "REMOVE" ELSE "KEEP"

Verdict(i) ==
    IF \/ ~ chkClassified[i].retained /\ chkClassified[i].rule_index = NoRule
       \/ i \in Excess(chkCfg.rules, chkClassified)
    THEN "REMOVE" ELSE "KEEP"

\* The remaining lines are printed and the command ends.
CheckPrints ==
    /\ chk = "examining"
    /\ chkCandidates = <<>>
    /\ chk' = "over"
    /\ printed' = [d \in Dumps |->
          IF \E i \in DOMAIN chkClassified : chkClassified[i].dump = d
          THEN Verdict(CHOOSE i \in DOMAIN chkClassified : chkClassified[i].dump = d)
          ELSE printed[d]]
    /\ chkClassified' = <<>> /\ chkSeen' = {} /\ chkMarkers' = {}
    /\ UNCHANGED <<chkCfg, chkNow, chkCandidates, complained, dirVars>>

CheckNext ==
    \/ CheckOpens \/ CheckOpenFails
    \/ \E n \in files : CheckReads(n)
    \/ CheckListed
    \/ \E d \in Dumps :
          \/ CheckForeign(d) \/ CheckYoung(d)
          \/ \E found \in LookupResults(d) : CheckMatched(d, found)
    \/ CheckPrints

-----------------------------------------------------------------------------
(* A check of a directory and, when it is over, passes over the same one   *)
(* with the same configuration. Time stands still, nothing is written or   *)
(* pinned meanwhile; dumps may be evicted.                                 *)

CheckedInit ==
    /\ DirTypeOK
    /\ \A n \in files : ~ IsMarker(n) => n[1] \in born
    /\ ScanInit /\ CtlInit /\ CheckInit
    /\ cfg = chkCfg

CheckStep == CheckNext /\ UNCHANGED <<scanVars, ctlVars>>

PassStep ==
    /\ chk \in {"over", "failed"}
    /\ OpenDirectory(chkCfg) \/ OpenFails(chkCfg) \/ ScanStep
    /\ UNCHANGED <<chkVars, ctlVars>>

EvictStep ==
    /\ \E d \in Dumps : Evict(DumpName(d))
    /\ UNCHANGED <<scanVars, ctlVars, chkVars>>

CheckedNext == CheckStep \/ PassStep \/ EvictStep

CheckedSpec == CheckedInit /\ [][CheckedNext]_<<vars, chkVars>>

-----------------------------------------------------------------------------
Deleted == report.removed \cup report.would_remove

\* The exit status of `cdgcd scan` when its report is complete.
ScanStatus ==
    IF report.errors # {} THEN 2 ELSE IF Deleted # {} THEN 1 ELSE 0

ToRemove == {d \in Dumps : printed[d] = "REMOVE"}

\* The check printed a line for every dump that the pass has listed.
Covered == \A d \in Dumps : DumpName(d) \in seen /\ Parses(d) => printed[d] # None

Twins(d) == {e \in Dumps \ {d} : Timestamp[e] = Timestamp[d]}

\* The dumps that got a verdict, and those too young for one.
Judged   == {d \in Dumps : printed[d] \in {"KEEP", "REMOVE"}}
Young(d) == mtime[d] <= clock /\ clock - mtime[d] < chkCfg.minimum_age

(***************************************************************************)
(* `check` errs on the side of telling too much: with the same rules,      *)
(* markers, journal and time, and whatever is evicted before or during the *)
(* pass, this removes no dump for which a line other than REMOVE was       *)
(* printed, except in place of one of the same timestamp that has such a   *)
(* line. (A dump that goes while it is examined counts for the quotas of   *)
(* `check`, and not for those of `scan`.)                                  *)
(***************************************************************************)
CheckIsCautious ==
    chk = "over" /\ Covered /\ Directory \notin report.errors =>
        \A d \in Deleted : d \in ToRemove \/ Twins(d) \cap ToRemove # {}

(***************************************************************************)
(* When nothing is evicted, readdir fails for neither and no young dump    *)
(* was judged for want of its metadata, the pass does what `check`         *)
(* foretold, up to the choice among equal timestamps, and `scan` exits     *)
(* with 1 exactly when some REMOVE line was printed.                       *)
(***************************************************************************)
CheckForetells ==
    /\ chk = "over" /\ ~ complained
    /\ pc = "applying" /\ next > Len(classified) /\ report.errors = {}
    /\ \A d \in Dumps : printed[d] # None <=> DumpName(d) \in seen /\ Parses(d)
    /\ \A d \in Judged : ~ Young(d)
    => /\ ScanStatus = IF ToRemove = {} THEN 0 ELSE 1
       /\ Cardinality(Deleted) = Cardinality(ToRemove)
       /\ \A d \in Dumps :
             /\ printed[d] = "TOO_YOUNG" <=> d \in report.too_young
             /\ Twins(d) = {} => (d \in ToRemove <=> d \in Deleted)

-----------------------------------------------------------------------------
(* What makes the two properties inductive.                                *)

\* What the journal says of a dump, and the rule the policy gives it.
Answer(d)  == IF d \in journal THEN Entries[d] ELSE EmptyContext
RuleFor(d) == FirstMatch(chkCfg.rules, d, Answer(d))

\* The quota that counts the dump, if its rule has one.
Quota(d) ==
    LET r == RuleFor(d)
    IN  <<r, IF r = NoRule THEN {} ELSE GroupKey(chkCfg.rules[r], d, Answer(d))>>

\* The policy applied to the dumps J removes the dumps R: those that no rule
\* matches, and of those that one quota counts all but the newest.
IsVerdictOn(J, R) ==
    /\ R \subseteq J
    /\ \A d \in J :
          LET r     == RuleFor(d)
              cap   == chkCfg.rules[r].keep_count
              peers == {e \in J : Quota(e) = Quota(d)}
              kept  == peers \ R
          IN  /\ r = NoRule => d \in R
              /\ r # NoRule =>
                    /\ cap = None => d \notin R
                    /\ cap # None =>
                          /\ Cardinality(kept) =
                                IF Cardinality(peers) < cap THEN Cardinality(peers) ELSE cap
                          /\ \A s \in kept, c \in peers \ kept : Timestamp[s] >= Timestamp[c]

Pinned(d) == Marker(d) \in files

CheckTypeOK ==
    /\ chk \in {"off", "listing", "examining", "over", "failed"}
    /\ chkCfg \in Configs /\ chkNow \in Nat
    /\ chkSeen \subseteq Names /\ chkMarkers \subseteq Names
    /\ chkCandidates \in Seq(Dumps) /\ chkClassified \in Seq(ClassifiedType)
    /\ printed \in [Dumps -> {None, "TOO_YOUNG", "KEEP", "REMOVE"}]
    /\ complained \in BOOLEAN

\* The check and the passes have the configuration and the time in common.
SameTerms ==
    /\ cfg = chkCfg
    /\ chk \in {"listing", "examining", "over"} => chkNow = clock
    /\ pc # "idle" /\ ~ ListingFailed => now = clock

CheckPhases ==
    /\ chk \in {"off", "listing", "examining"} => pc = "idle"
    /\ chk \in {"off", "listing"} =>
          chkClassified = <<>> /\ \A d \in Dumps : printed[d] = None
    /\ chk = "off" => chkMarkers = {} /\ chkCandidates = <<>> /\ chkSeen = {}
    /\ chk \in {"over", "failed"} => chkClassified = <<>>
    /\ chk # "over" => Judged = {}

\* Neither listing makes up a marker, and without an error neither misses one.
MarkersAgree ==
    \A d \in Dumps :
        /\ DumpName(d) \in chkMarkers \cup markers => Pinned(d)
        /\ Pinned(d) =>
              /\ chk = "listing" => Marker(d) \in stable
              /\ Marker(d) \in chkSeen /\ ~ complained => DumpName(d) \in chkMarkers
              /\ chk = "examining" /\ ~ complained => DumpName(d) \in chkMarkers
              /\ pc # "idle" /\ ~ ListingFailed => Marker(d) \in stable

CheckedOnce ==
    /\ \A i, j \in DOMAIN chkCandidates : i # j => chkCandidates[i] # chkCandidates[j]
    /\ \A i, j \in DOMAIN chkClassified :
          i # j => chkClassified[i].dump # chkClassified[j].dump
    /\ \A i \in DOMAIN chkCandidates, j \in DOMAIN chkClassified :
          chkCandidates[i] # chkClassified[j].dump
    /\ chk = "listing" =>
          \A i \in DOMAIN chkCandidates : DumpName(chkCandidates[i]) \in chkSeen

\* Record c is what the journal's answer and the rules make of its dump.
IsAnswered(c) ==
    LET a == Classify(chkCfg.rules, c.dump, Answer(c.dump))
    IN  ~ c.retained => c.rule_index = a.rule_index /\ c.context = a.context

\* And it is retained if the check has read a marker of it.
IsFound(c) == IsAnswered(c) /\ (c.retained <=> DumpName(c.dump) \in chkMarkers)

CheckFindings ==
    /\ \A i \in DOMAIN chkClassified : IsFound(chkClassified[i])
    /\ \A d \in Dumps : printed[d] = "TOO_YOUNG" => Young(d)

\* The lines are the policy applied to some dumps: to all that are not pinned,
\* and to pinned ones only after an error of readdir.
LinesAreVerdict ==
    chk = "over" =>
        \E J \in SUBSET Judged :
            /\ IsFiniteSet(J)
            /\ {d \in Judged : ~ Pinned(d)} \subseteq J
            /\ ~ complained => \A d \in J : ~ Pinned(d)
            /\ IsVerdictOn(J, ToRemove)

PassFindings ==
    /\ \A i \in DOMAIN classified :
          IsAnswered(classified[i]) /\ DumpName(classified[i].dump) \in seen
    /\ \A d \in report.too_young : Parses(d)
    /\ \A d \in report.kept \cup Deleted : \E i \in DOMAIN classified : classified[i].dump = d
    /\ \A d \in Deleted : \E i \in DOMAIN classified :
          classified[i].dump = d /\ Condemned(i)
    /\ \A i \in DOMAIN classified :
          i < next /\ Condemned(i) => classified[i].dump \in Deleted \cup report.errors

(***************************************************************************)
(* The inductive invariant of a check and the passes after it: the lines   *)
(* it printed, the report and the directory are one policy's work.         *)
(***************************************************************************)
CheckInv ==
    /\ CheckTypeOK /\ SameTerms /\ CheckPhases /\ MarkersAgree /\ CheckedOnce
    /\ CheckFindings /\ LinesAreVerdict /\ PassFindings

CheckedInv == PassInv /\ AccountsInv /\ CheckInv
=============================================================================
