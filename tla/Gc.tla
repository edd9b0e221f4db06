-------------------------------- MODULE Gc ----------------------------------
(***************************************************************************)
(* The collector at work: passes of Scan, one after the other, beside      *)
(* `cdgcctl retain` and the outside actors of the coredump directory.      *)
(***************************************************************************)
EXTENDS Scan, Retain

vars == <<dirVars, scanVars, ctlVars>>

Init == DirInit /\ ScanInit /\ CtlInit

Next ==
    \/ ScanNext /\ UNCHANGED ctlVars
    \/ CtlNext  /\ UNCHANGED scanVars
    \/ DirNext  /\ UNCHANGED <<scanVars, ctlVars>>

Spec == Init /\ [][Next]_vars

\* The daemon's idle interval keeps starting passes, and a pass that was
\* started runs on: its loops are bounded by the listing it took.
FairSpec ==
    /\ Spec
    /\ WF_vars(ScanStep /\ UNCHANGED ctlVars)
    /\ WF_vars(ScanStart /\ UNCHANGED ctlVars)

-----------------------------------------------------------------------------
\* Every variable has its type.
TypeOK == DirTypeOK /\ ScanTypeOK /\ CtlTypeOK

\* This step of the pass unlinks dump d.
RemovedNow(d) == d \in report'.removed \ report.removed

\* The pass was told that it did not read the whole directory.
ListingFailed == Directory \in report.errors

(***************************************************************************)
(* A dump whose marker was in the directory when the pass opened it, and   *)
(* has been there since, is not removed by the pass, provided read_dir     *)
(* reported no error (markers are collected first, Scanner::scan).         *)
(***************************************************************************)
PinnedBeforePassSurvives ==
    [][\A d \in Dumps :
          RemovedNow(d) /\ ~ ListingFailed => Marker(d) \notin stable]_vars

(***************************************************************************)
(* readme: "Pinned dumps are never deleted by cdgcd". Whatever the moment, *)
(* a pass does not unlink a dump that has a marker.                        *)
(***************************************************************************)
PinnedNeverRemoved ==
    [][\A d \in Dumps : RemovedNow(d) => Marker(d) \notin files]_vars

Age(d) == clock - mtime[d]

(***************************************************************************)
(* etc/cdgcd.toml: "Don't unlink dumps younger than this". A dump is       *)
(* removed only at minimum_age or older, unless it was written after the   *)
(* pass took its time: duration_since fails for those, the age test of     *)
(* scan is skipped, and they may go at once.                               *)
(***************************************************************************)
RemovedAgedOrWrittenDuringPass ==
    [][\A d \in Dumps :
          RemovedNow(d) => Age(d) >= cfg.minimum_age \/ mtime[d] > now]_vars

(***************************************************************************)
(* What compute_keep_count_excess promises for each bucket of a rule with  *)
(* a keep_count: exactly keep_count dumps survive, or all when there are   *)
(* fewer, and no survivor is older than a dump that is removed.            *)
(***************************************************************************)
NewestOfBucketSurvive ==
    \A i \in Capped(cfg.rules, classified) :
        LET bucket == Bucket(cfg.rules, classified, i)
            cap    == CapOf(cfg.rules, classified, i)
            kept   == bucket \ Excess(cfg.rules, classified)
        IN  /\ Cardinality(kept) =
                  IF Cardinality(bucket) < cap THEN Cardinality(bucket) ELSE cap
            /\ \A k \in kept, x \in bucket \ kept :
                  Timestamp[classified[k].dump] >= Timestamp[classified[x].dump]

\* The journal was asked for dump i before its rule was found.
Asked(i) ==
    LET r == classified[i].rule_index
    IN  \E j \in 1..(IF r = NoRule THEN Len(cfg.rules) ELSE r) :
            cfg.rules[j].needs_journal

\* It was asked and had nothing to say.
Misled(i) == Asked(i) /\ classified[i].context = EmptyContext

(***************************************************************************)
(* Asking the journal only when a rule needs it is as good as asking for   *)
(* every dump: unless the journal failed, a dump is given to the rule that *)
(* matches it first, and to the bucket that its journal entry calls for.   *)
(***************************************************************************)
ClassifiedByFirstMatch ==
    \A i \in DOMAIN classified :
        LET c == classified[i]
        IN  ~ c.retained /\ ~ Misled(i) =>
                /\ c.rule_index = FirstMatch(cfg.rules, c.dump, Entries[c.dump])
                /\ c.rule_index # NoRule =>
                      KeyOf(cfg.rules, classified, i) =
                      GroupKey(cfg.rules[c.rule_index], c.dump, Entries[c.dump])

(***************************************************************************)
(* etc/cdgcd.toml: "A dump is kept if it matches the FIRST rule [...] If   *)
(* no rule matches, the dump is unlinked." A dump removed as NoRuleMatched *)
(* is one that no rule matches.                                            *)
(***************************************************************************)
UnmatchedOnlyRemoved ==
    [][\A d \in Dumps :
          RemovedNow(d) /\ NoMatch(next) =>
              FirstMatch(cfg.rules, d, Entries[d]) = NoRule]_vars

Reported ==
    <<report.kept, report.removed, report.would_remove, report.too_young,
      report.unparseable, report.errors>>

(***************************************************************************)
(* The report accounts for the listing: when the pass is over every name   *)
(* that read_dir returned, and is not a marker, is in exactly one of the   *)
(* six lists, and no other is (cmd_scan's exit status counts them).        *)
(***************************************************************************)
ReportAccountsForListing ==
    pc = "applying" /\ next > Len(classified) =>
        /\ \A i, j \in DOMAIN Reported :
              i # j => Reported[i] \cap Reported[j] = {}
        /\ LET all == UNION {Reported[i] : i \in DOMAIN Reported}
               listed == {d \in Dumps : DumpName(d) \in seen}
           IN  IF ListingFailed THEN all \subseteq listed \cup {Directory}
               ELSE all = listed

(***************************************************************************)
(* cdgcctl: "Without an argument, picks the most recent dump". What the    *)
(* command pins is a dump, never a marker.                                 *)
(***************************************************************************)
PinsADump == ctl # "idle" => ~ IsMarker(target)

-----------------------------------------------------------------------------
(* What makes the safety properties inductive.                             *)

\* A pass starts with an empty memory and classifies nothing before the
\* listing is complete.
MemoryOfPass ==
    /\ pc = "idle" => seen = {} /\ markers = {}
    /\ pc \in {"idle", "listing"} => classified = <<>>

\* Unless read_dir failed, the listing holds every name that was there all the
\* time, and the mark of every marker it holds was taken.
MarkersCollected ==
    ~ ListingFailed =>
        /\ \A n \in seen : IsMarker(n) => MarkedName(n) \in markers
        /\ pc \in {"examining", "applying"} => stable \subseteq seen

\* A dump that could be removed had no marker in the listing.
OnlyUnmarkedMatched ==
    \A i \in DOMAIN classified :
        ~ classified[i].retained => DumpName(classified[i].dump) \notin markers

\* A dump of the directory has been written, and never in the future.
FilesWritten ==
    /\ now <= clock
    /\ \A n \in files : ~ IsMarker(n) => n[1] \in born

\* The young dumps were left out, and a dump is written once.
ClassifiedAged ==
    \A i \in DOMAIN classified :
        LET d == classified[i].dump
        IN  d \in born /\ (mtime[d] > now \/ now - mtime[d] >= cfg.minimum_age)

\* Rule and context of a matched dump are what classify returns for it.
ClassifiedByClassify ==
    \A i \in DOMAIN classified :
        ~ classified[i].retained =>
            \E found \in {EmptyContext, Entries[classified[i].dump]} :
                LET c == Classify(cfg.rules, classified[i].dump, found)
                IN  /\ classified[i].rule_index = c.rule_index
                    /\ classified[i].context = c.context

(***************************************************************************)
(* The inductive invariant of the collector: what the memory of a pass     *)
(* says about the directory, the listing and the rules.                    *)
(***************************************************************************)
PassInv ==
    /\ TypeOK
    /\ MemoryOfPass /\ MarkersCollected /\ OnlyUnmarkedMatched
    /\ FilesWritten /\ ClassifiedAged /\ ClassifiedByClassify

-----------------------------------------------------------------------------
(* What the memory of a pass accounts for.                                 *)

\* The dumps a pass still has to deal with, and those it has reported.
IsCandidate(d) == \E i \in DOMAIN candidates : candidates[i] = d
IsClassified(d) == \E i \in DOMAIN classified : i >= next /\ classified[i].dump = d
Pending(d)     == IsCandidate(d) \/ IsClassified(d)
InReport(x)    == \E i \in DOMAIN Reported : x \in Reported[i]

\* When a pass has what.
PhasesOfPass ==
    /\ pc \in {"idle", "applying"} => candidates = <<>>
    /\ pc = "idle" => report = EmptyReport
    /\ pc # "applying" =>
          /\ next = 1
          /\ report.kept = {} /\ report.removed = {} /\ report.would_remove = {}

\* No dump is dealt with twice.
OnePlaceEach ==
    /\ \A i, j \in DOMAIN candidates : i # j => candidates[i] # candidates[j]
    /\ \A i, j \in DOMAIN classified : i # j => classified[i].dump # classified[j].dump
    /\ \A i \in DOMAIN candidates, j \in DOMAIN classified :
          candidates[i] # classified[j].dump
    /\ \A i, j \in DOMAIN Reported : i # j => Reported[i] \cap Reported[j] = {}
    /\ \A d \in Dumps : ~ (Pending(d) /\ InReport(d))

\* What was listed is dealt with, and nothing else.
ListingAccounted ==
    \A d \in Dumps :
        /\ Pending(d) \/ InReport(d) => DumpName(d) \in seen
        /\ DumpName(d) \in seen /\ ~ ListingFailed => Pending(d) \/ InReport(d)

\* The report and the verdicts are true of the dumps they name.
FindingsTrue ==
    /\ \A d \in report.unparseable : ~ Parses(d)
    /\ \A d \in report.too_young :
          d \in born /\ mtime[d] <= now /\ now - mtime[d] < cfg.minimum_age
    /\ pc # "applying" =>
          \A d \in report.errors \cap Dumps : MetadataErrors \/ DumpName(d) \notin stable
    /\ \A i \in DOMAIN classified :
          LET c == classified[i]
          IN  Parses(c.dump) /\ (c.retained => DumpName(c.dump) \in markers)

(***************************************************************************)
(* Every name that was listed has one place in the memory of the pass, and *)
(* has it for a reason.                                                    *)
(***************************************************************************)
AccountsInv == PhasesOfPass /\ OnePlaceEach /\ ListingAccounted /\ FindingsTrue

-----------------------------------------------------------------------------
(* What a pass promises, without its listing, its order and its report.    *)

DumpsThere == {d \in Dumps : DumpName(d) \in files}
PinsThere  == {d \in Dumps : Marker(d) \in files}
Stayed     == {d \in Dumps : DumpName(d) \in stable}
Held       == {d \in Dumps : Marker(d) \in stable}
Noticed    == {d \in Dumps : DumpName(d) \in markers}

\* The dumps whose metadata the pass could not read.
Unread == IF pc \in {"listing", "examining"} THEN report.errors \cap Dumps ELSE {}

Phase ==
    CASE pc = "idle" -> "idle"
      [] pc \in {"listing", "examining"} -> "looking"
      [] pc = "applying" -> "removing"

\* The dumps whose verdict to remove is still to be carried out.
Doomed ==
    IF pc = "applying"
    THEN {classified[i].dump : i \in {j \in DOMAIN classified : j >= next /\ Condemned(j)}}
    ELSE {}

Collector == INSTANCE Collector WITH
    dumps <- DumpsThere, pins <- PinsThere, stayed <- Stayed, held <- Held,
    phase <- Phase, noticed <- Noticed, blind <- ListingFailed, unread <- Unread,
    doomed <- Doomed, removed <- report.removed

(***************************************************************************)
(* scan, beside everything else that changes the directory, implements the *)
(* collector: it commits to one verdict of the policy, on every ripe dump  *)
(* it was bound to see, had the metadata of and found no marker of, and    *)
(* removes just what that condemned, unless it is a dry run or the dump    *)
(* cannot be removed.                                                      *)
(***************************************************************************)
ImplementsCollector == Collector!Spec

-----------------------------------------------------------------------------
\* A dump that every configuration wants gone, whatever the journal says.
Garbage(d) ==
    /\ DumpName(d) \in files
    /\ Marker(d) \notin files
    /\ Parses(d)
    /\ \A c \in Configs :
          /\ ~ c.dry_run
          /\ Age(d) >= c.minimum_age
          /\ \A context \in {EmptyContext, Entries[d]} :
                FirstMatch(c.rules, d, context) = NoRule

(***************************************************************************)
(* A pass returns, whatever happens in the directory while it runs.        *)
(***************************************************************************)
PassReturns == pc # "idle" ~> pc = "idle"

(***************************************************************************)
(* Garbage does not stay unnoticed: passes keep coming, and each of them   *)
(* removes what it finds, or has it among the errors of its report. A      *)
(* metadata or remove_file that failed is tried again by the passes after  *)
(* it, for as long as the dump is garbage.                                 *)
(***************************************************************************)
GarbageCollected == \A d \in Dumps : Garbage(d) ~> ~ Garbage(d) \/ d \in report.errors
=============================================================================
