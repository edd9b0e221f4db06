------------------------------- MODULE Scan ---------------------------------
(***************************************************************************)
(* One pass of the collector, Scanner::scan of src/scan.rs: list the       *)
(* directory, examine every dump of the listing, apply the verdicts.       *)
(*                                                                         *)
(* The pass holds no lock. Between any two of its system calls the         *)
(* directory may change, so each of them is a step of its own; what        *)
(* happens in memory between two calls belongs to the step before it.      *)
(***************************************************************************)
EXTENDS KeepCount, CoredumpDir

CONSTANTS
    Configs,            \* the configurations a pass may be started with
    Entries,            \* what the journal says of each dump
    Directory,          \* coredump_directory, as the subject of an error
    ReadErrors,         \* may reading the directory fail?
    MetadataErrors,     \* may reading the metadata of an existing file fail?
    LookupErrors,       \* may journalctl fail?
    UnlinkErrors        \* may unlinking an existing file fail?

VARIABLES
    pc,             \* where the pass is
    cfg,            \* its configuration: [minimum_age, dry_run, rules]
    now,            \* the time it took at the start
    seen,           \* the names read_dir has returned
    markers,        \* the names that had a retain marker in the listing
    candidates,     \* the other names, still to be examined
    classified,     \* the examined ones a verdict will be applied to
    next,           \* the index of the next verdict to apply
    report          \* ScanReport

scanVars == <<pc, cfg, now, seen, markers, candidates, classified, next, report>>

ASSUME ScanAssumption ==
    /\ Directory \notin Dumps
    /\ \A c \in Configs : c.minimum_age \in Nat /\ IsPolicy(c.rules)

EmptyReport ==
    [kept |-> {}, removed |-> {}, would_remove |-> {},
     too_young |-> {}, unparseable |-> {}, errors |-> {}]

ReportType ==
    [kept : SUBSET Dumps, removed : SUBSET Dumps, would_remove : SUBSET Dumps,
     too_young : SUBSET Dumps, unparseable : SUBSET Dumps,
     errors : SUBSET (Dumps \cup {Directory})]

ClassifiedType ==
    [dump : Dumps, rule_index : Nat, retained : BOOLEAN,
     context : {EmptyContext} \cup {Entries[d] : d \in Dumps}]

ScanTypeOK ==
    /\ pc \in {"idle", "listing", "examining", "applying"}
    /\ cfg \in Configs
    /\ now \in Nat
    /\ seen \subseteq Names
    /\ markers \subseteq Names
    /\ candidates \in Seq(Dumps)
    /\ classified \in Seq(ClassifiedType)
    /\ next \in Nat \ {0}
    /\ report \in ReportType

ScanInit ==
    /\ pc = "idle"
    /\ cfg \in Configs
    /\ now = 0 /\ next = 1
    /\ seen = {} /\ markers = {} /\ candidates = <<>> /\ classified = <<>>
    /\ report = EmptyReport

-----------------------------------------------------------------------------
(* Listing.                                                                *)

\* read_dir succeeds and the pass takes the time. `stable` starts over: from
\* here on it holds the names that readdir is bound to return.
OpenDirectory(c) ==
    /\ pc = "idle"
    /\ pc' = "listing"
    /\ cfg' = c
    /\ now' = clock
    /\ report' = EmptyReport
    /\ stable' = files
    /\ UNCHANGED <<seen, markers, candidates, classified, next>>
    /\ UNCHANGED <<files, born, mtime, journal, clock>>

\* The report with the error is all there is of such a pass.
OpenFails(c) ==
    /\ ReadErrors
    /\ pc = "idle"
    /\ pc' = "applying"
    /\ cfg' = c
    /\ report' = [EmptyReport EXCEPT !.errors = {Directory}]
    /\ UNCHANGED <<now, seen, markers, candidates, classified, next, dirVars>>

\* readdir returns entries in no particular order; an entry that appears
\* while it runs may be returned or not.
Reading(n) ==
    /\ pc = "listing"
    /\ n \in files \ seen
    /\ seen' = seen \cup {n}
    /\ UNCHANGED <<pc, cfg, now, classified, next, dirVars>>

ReadMarker(n) ==
    /\ Reading(n)
    /\ IsMarker(n)
    /\ markers' = markers \cup {MarkedName(n)}
    /\ UNCHANGED <<candidates, report>>

ReadCandidate(n) ==
    /\ Reading(n)
    /\ ~ IsMarker(n)
    /\ candidates' = Append(candidates, n[1])
    /\ UNCHANGED <<markers, report>>

\* An entry is lost to an error and the loop goes on. A stream that ends early
\* is this step for each of the remaining entries.
ReadFails(n) ==
    /\ ReadErrors
    /\ Reading(n)
    /\ report' = [report EXCEPT !.errors = @ \cup {Directory}]
    /\ UNCHANGED <<markers, candidates>>

EndOfDirectory ==
    /\ pc = "listing"
    /\ stable \subseteq seen
    /\ pc' = "examining"
    /\ UNCHANGED <<cfg, now, seen, markers, candidates, classified, next, report, dirVars>>

-----------------------------------------------------------------------------
(* Examining: the name is parsed, the metadata read, the rules matched.    *)

Examining(d) ==
    /\ pc = "examining"
    /\ candidates # <<>>
    /\ d = Head(candidates)
    /\ candidates' = Tail(candidates)
    /\ UNCHANGED <<pc, cfg, now, seen, markers, next, dirVars>>

Parses(d) == FromPath(DumpName(d))

\* Mutant of TooYoung: the age is one more than it is.
TooYoungByOne(d) == mtime[d] <= now /\ now - mtime[d] + 1 < cfg.minimum_age

\* duration_since fails for a file modified after `now`: it is not too young.
TooYoung(d) ==
    /\ mtime[d] <= now
    /\ now - mtime[d] < cfg.minimum_age

\* What journal::lookup may return: it asks for the absolute path of the dump
\* and answers the default context whenever anything goes wrong.
LookupResults(d) ==
    IF d \notin journal THEN {EmptyContext}
    ELSE {Entries[d]} \cup (IF LookupErrors THEN {EmptyContext} ELSE {})

ExamineForeign(d) ==
    /\ Examining(d)
    /\ ~ Parses(d)
    /\ report' = [report EXCEPT !.unparseable = @ \cup {d}]
    /\ UNCHANGED classified

\* Mutant of ExamineFails: a dump without metadata is passed over in silence.
ExamineFailsSilently(d) ==
    /\ Examining(d)
    /\ Parses(d)
    /\ MetadataErrors \/ DumpName(d) \notin files
    /\ UNCHANGED <<report, classified>>

\* entry.metadata() fails: the dump is gone, or cannot be asked.
ExamineFails(d) ==
    /\ Examining(d)
    /\ Parses(d)
    /\ MetadataErrors \/ DumpName(d) \notin files
    /\ report' = [report EXCEPT !.errors = @ \cup {d}]
    /\ UNCHANGED classified

ExamineYoung(d) ==
    /\ Examining(d)
    /\ Parses(d)
    /\ DumpName(d) \in files
    /\ TooYoung(d)
    /\ report' = [report EXCEPT !.too_young = @ \cup {d}]
    /\ UNCHANGED classified

ExamineRetained(d) ==
    /\ Examining(d)
    /\ Parses(d)
    /\ DumpName(d) \in files
    /\ ~ TooYoung(d)
    /\ DumpName(d) \in markers
    /\ classified' = Append(classified,
                            [dump |-> d, rule_index |-> NoRule,
                             context |-> EmptyContext, retained |-> TRUE])
    /\ UNCHANGED report

ExamineMatched(d, found) ==
    /\ Examining(d)
    /\ Parses(d)
    /\ DumpName(d) \in files
    /\ ~ TooYoung(d)
    /\ DumpName(d) \notin markers
    /\ LET c == Classify(cfg.rules, d, found)
       IN  classified' = Append(classified,
                                [dump |-> d, rule_index |-> c.rule_index,
                                 context |-> c.context, retained |-> FALSE])
    /\ UNCHANGED report

EndOfExamination ==
    /\ pc = "examining"
    /\ candidates = <<>>
    /\ pc' = "applying"
    /\ UNCHANGED <<cfg, now, seen, markers, candidates, classified, next, report, dirVars>>

-----------------------------------------------------------------------------
(* Applying.                                                               *)

\* The verdicts are functions of what was classified, which no longer changes.
OverCap(i)  == i \in Excess(cfg.rules, classified)

\* Mutant of NoMatch: a pinned dump, which is never matched, has no rule.
NoRuleFor(i) == classified[i].rule_index = NoRule

NoMatch(i)  == ~ classified[i].retained /\ classified[i].rule_index = NoRule

\* Mutant of Condemned: a dump that no rule matches has no cap to exceed.
CondemnedByCap(i) == OverCap(i)

Condemned(i) == NoMatch(i) \/ OverCap(i)

Applying(d) ==
    /\ pc = "applying"
    /\ next <= Len(classified)
    /\ d = classified[next].dump
    /\ next' = next + 1
    /\ UNCHANGED <<pc, cfg, now, seen, markers, candidates, classified>>

ApplyKeep(d) ==
    /\ Applying(d)
    /\ ~ Condemned(next)
    /\ report' = [report EXCEPT !.kept = @ \cup {d}]
    /\ UNCHANGED dirVars

ApplyDryRun(d) ==
    /\ Applying(d)
    /\ Condemned(next)
    /\ cfg.dry_run
    /\ report' = [report EXCEPT !.would_remove = @ \cup {d}]
    /\ UNCHANGED dirVars

ApplyRemove(d) ==
    /\ Applying(d)
    /\ Condemned(next)
    /\ ~ cfg.dry_run
    /\ DumpName(d) \in files
    /\ Unlink(DumpName(d))
    /\ report' = [report EXCEPT !.removed = @ \cup {d}]
    /\ UNCHANGED <<born, mtime, journal, clock>>

\* Mutant of ApplyRemoveFails: a failed unlink is tried again at once, whatever
\* the error.
ApplyRemoveRetried(d) ==
    /\ pc = "applying"
    /\ next <= Len(classified)
    /\ d = classified[next].dump
    /\ Condemned(next)
    /\ ~ cfg.dry_run
    /\ UnlinkErrors \/ DumpName(d) \notin files
    /\ report' = [report EXCEPT !.errors = @ \cup {d}]
    /\ UNCHANGED <<pc, cfg, now, seen, markers, candidates, classified, next, dirVars>>

ApplyRemoveFails(d) ==
    /\ Applying(d)
    /\ Condemned(next)
    /\ ~ cfg.dry_run
    /\ UnlinkErrors \/ DumpName(d) \notin files
    /\ report' = [report EXCEPT !.errors = @ \cup {d}]
    /\ UNCHANGED dirVars

\* Mutant of Return: the scanner keeps the markers from pass to pass.
ReturnWithMarkers ==
    /\ pc = "applying"
    /\ next > Len(classified)
    /\ pc' = "idle"
    /\ now' = 0 /\ next' = 1
    /\ seen' = {} /\ classified' = <<>>
    /\ report' = EmptyReport
    /\ UNCHANGED <<cfg, markers, candidates, dirVars>>

\* The report is returned and logged, and the memory of the pass dropped.
Return ==
    /\ pc = "applying"
    /\ next > Len(classified)
    /\ pc' = "idle"
    /\ now' = 0 /\ next' = 1
    /\ seen' = {} /\ markers' = {} /\ classified' = <<>>
    /\ report' = EmptyReport
    /\ UNCHANGED <<cfg, candidates, dirVars>>

-----------------------------------------------------------------------------
\* The steps of a pass that is under way.
ScanStep ==
    \/ \E n \in files : ReadMarker(n) \/ ReadCandidate(n) \/ ReadFails(n)
    \/ EndOfDirectory
    \/ \E d \in Dumps :
          \/ ExamineForeign(d) \/ ExamineFails(d) \/ ExamineYoung(d)
          \/ ExamineRetained(d)
          \/ \E found \in LookupResults(d) : ExamineMatched(d, found)
    \/ EndOfExamination
    \/ \E d \in Dumps :
          ApplyKeep(d) \/ ApplyDryRun(d) \/ ApplyRemove(d) \/ ApplyRemoveFails(d)
    \/ Return

ScanStart == \E c \in Configs : OpenDirectory(c) \/ OpenFails(c)

ScanNext == ScanStart \/ ScanStep
=============================================================================
