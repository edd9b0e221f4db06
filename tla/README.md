# cdgcd in TLA+

cdgcd is a daemon that deletes the core dumps systemd-coredump leaves behind,
except those that an allow-list of rules keeps. This directory holds its
specification: TLA+ modules translated from `src/src/*.rs`, configurations that
check them with TLC on small instances, and theorems about them, for every
value of the constants, with proofs for TLAPS.

## 1. The system

| component | state | operations | interacts with |
|---|---|---|---|
| **Scan pass** (`scan.rs`) | the listing, the set of marker names, `Vec<Classified>`, `ScanReport`, one `now` | `Scanner::scan`, `apply` | reads and unlinks in the directory, calls `classify` and `journal::lookup` |
| **Classification** (`policy.rs`, `scan::classify`) | compiled rules; a journal answer cached for one dump | `matches`, `first_match`, `extract`, `classify` | the journal, lazily |
| **Quotas** (`compute_keep_count_excess`, `mark_excess`) | none | who exceeds `keep_count` | what a pass classified |
| **Configuration** (`config.rs`, `Policy::from_config`) | `Config`, `Policy` | load, parse, merge DEFAULT, compile | the file, the passwd database |
| **Dump names** (`dump.rs`) | none | `from_path`, `unescape_comm` | names written by systemd-coredump |
| **Journal lookup** (`journal.rs`) | none | one `journalctl` per dump | journald, whose entry is logged after the dump is linked |
| **Retain** (`retain.rs`, `bin/cdgcctl.rs`) | marker files beside the dumps | `cdgcctl retain [dump]` | another process: shares only the directory with a pass |
| **Daemon** (`daemon.rs`, `cmd_run`) | `config`, `policy`, the inotify watch, the channel, two threads, the signals caught | startup, main loop, reload, exit | systemd (READY, reload, restart, watchdog), passes |
| **One-shot commands** (`main.rs`) | none | `scan`, `check` | a pass, and a copy of it that unlinks nothing |
| **systemd notification** (`sd.rs`) | none | READY, WATCHDOG, STOPPING | the main loop's wakeups |

There is no lock anywhere. A pass is a sequence of system calls on a directory
that systemd-coredump, tmpfiles, `MaxUse=`, administrators and `cdgcctl` change
at will, so each of its calls may find something else than the call before it.
Inside the daemon three threads share one channel and nothing else.

What is hard, and what correct means there:

- **A pass and the directory.** A pinned dump survives a pass; a young dump
  survives; what is deleted is what no rule keeps or what exceeds its quota;
  everything listed is reported once. The dangers are markers that come late or
  are lost to a readdir error, a clock read once, and dumps that vanish.
- **A pass and the journal.** The journal is asked lazily and its failure looks
  like an empty answer. Laziness must not change who wins; failure may.
- **Quotas.** Exactly the newest `keep_count` of each bucket survive, whatever
  the order of the listing and however timestamps coincide.
- **Requests.** Signals and file events are merged by the kernel and the
  threads; none of them may be lost, before the loop exists, during a pass or
  between passes.
- **Reloads.** Configuration and policy change together or not at all, and a
  daemon keeps looking at the directory it is configured for.
- **The rules file.** What an administrator wrote means what it says: DEFAULT
  fills in and catches the rest, an error is reported, and a rule added at the
  end of the file takes no dump from those before it.
- **Two loops for one policy.** `cdgcd check` repeats the loop of a pass; what it
  foretells must be what a pass does.
- **Texts.** A glob that can match must not be refused as too long; a command
  name and a journal field must come back as they were.
- **Progress.** A pass ends, garbage does not stay, a request is begun, systemd's
  watchdog is served and idle passes come.

`PROJECT.json` lists every component with what is left out of it, and every
hazard at its line with the properties that watch it.

## 2. Modules

```
Policy ── KeepCount ──┐
   │                  ├── Scan ──┐
   ├── CoredumpDir ───┘          ├── Gc ──┬── Check ──┐
   │          └── Retain ────────┘    │   └── MCGc ───┴── MCCheck
   ├── Collector ─ ─ (refined by) ─ ─ ┘
   └── Config ── MCConfig

Daemon ── MCDaemon          Wakeups          Texts

PolicyProofs ──┬── GcProofs ── CollectorProofs ── CheckProofs
               └── ConfigProofs   DaemonProofs   WakeupsProofs   TextsProofs
```

**Policy** is rules and matching. A glob is the set of the values it accepts,
so a field of a rule is a set of sets and matching is membership. `CompiledRule`
is the part of `CompiledRule::from_rule` that the program relies on later;
`IsPolicy` says of a sequence of rules only what from_rule guarantees, and the
theorems assume no more. `LazyMatch` is the loop of `classify` with its cache:
at rule *i* the context is the journal's answer if some rule up to *i* needed
it, and the empty one otherwise. `FirstMatch` (`Policy::first_match`) has the
answer from the start.

**Config** is the way from the `[rules]` table to the policy in use:
`Config::parse` (`MergedRules`, `MergeDefault`, then DEFAULT itself),
`Policy::from_config` with its errors, and the load that takes a file or leaves
it. The administrator writes a rule at the end, drops the first one, or changes
DEFAULT, one edit a step, and any number of edits lie between two loads. What
a load demands besides is a rule, at the first one only. A raw rule may have a
field that `check_known` does not know, and numbers that are no u32: parse_rule
refuses both before anything is merged.

**KeepCount** is `compute_keep_count_excess`. The stable sort by descending
timestamp is the order `Ahead`, a position in it is `Rank`, and `skip(cap)` is
`Rank >= cap`.

**CoredumpDir** is the directory and whoever changes it outside cdgcd. A name
is a pair *(dump, number of retain suffixes)*: that is all `retain.rs` and
`from_path` tell apart, and it keeps the one coincidence that matters, the
marker of an uncompressed dump has as many parts as a compressed dump.
`stable` is a history variable: the names that have been linked since a pass
last opened the directory, which readdir is bound to return.

**Scan** is `Scanner::scan`, one action per system call with the computation
that follows it: opening the directory, each readdir result (a marker, a
candidate, an error), each examined dump (unparseable, unreadable, too young,
pinned, classified with what the journal answered), each verdict (kept, dry
run, unlinked, failed), the return. Verdicts are functions of `classified`,
which no longer changes when the first one is applied. `ExamineFails` is any
error of `metadata()`: that of a dump that has gone, and, with `MetadataErrors`,
one for a dump that is still there.

**Retain** is `cdgcctl retain`: resolve, test existence, create. Without an
argument it reads the directory, in one step; an entry that read_dir reports as
an error is skipped in silence (`PartialListings`), so an older dump can win.

**Gc** composes the three: one pass at a time, interleaved with the command and
the outside actors. A pass may start at any moment and with any configuration
of `Configs`, so every schedule of the daemon, and `cdgcd scan`, is a behaviour
of it.

**Collector** is what a pass promises, without its listing, its order, its
report or its system calls. It looks (`Notice` a pin, `Miss` something, `Skip` a dump
that tells it nothing), commits once to a set of doomed dumps (`Commit`), removes those or spares them (`Remove`,
`Spare`), and ends. `Commit` is where the promise is: there is a set of judged
dumps, none pinned as far as it saw, none foreign, none too young; if it knows
of nothing it missed, it saw every pin that was there all the time and judges
every ripe dump that was, save those whose metadata it could not read; each was matched with its journal entry or with none;
and what is doomed is the verdict of the policy on just that set, ties between
equal timestamps broken at will. In the code nothing of this happens at one
moment: each dump is looked at by its own, while the others come and go. Gc
maps its state onto it (`Phase`, `Noticed`, `Doomed`, ..., at the end of the module):
listing and examining are looking, the end of the examination is the commit,
and the outside actors are the abstract ones. `ImplementsCollector` is the
statement, checked in `pins` and proved in CollectorProofs.

**Check** is the one-shot commands. `cmd_check` is a second copy of the loop of
scan, so it is modelled as one, call by call, with the differences that the code
has: a directory that cannot be opened is an error, a readdir error is only
logged, a dump whose metadata cannot be read is not too young, a verdict is
printed instead of applied. `cmd_scan` is a pass and `ScanStatus`. `CheckedSpec`
is a check of a directory and, when it is over, passes over the same one under
the same terms: the same configuration, journal and time, no new dump and no
new pin, while dumps may be evicted at any moment.

**Wakeups** is the clock side of the main loop: `next_wakeup` with its floor of
100 ms, `recv_timeout`, idle passes, `watchdog_interval` and systemd's patience.
Daemon has the same loop without time. Time is discrete, kept as ages that
Tick lets grow; handling an event takes none, a pass takes as long as it likes.

**Texts** is three conversions on short texts, character by character, because
what they do to single characters is what matters: `glob_min_match_length`
against the tokens that glob::Pattern makes of a pattern, `unescape_comm`
against systemd's escaping, `parse_export` against what `journalctl
--output=export` prints. The three other sides are not in the repository. Each
loop over a text is a function of the place where it stands, with an equation
of its own (`MinAt`, `ShortestAt`, `UnescapedAt`); a pattern that the crate
refuses has no shortest text (`Malformed`, which is `None`).

**Daemon** is the process around the passes: startup with its two loads of the
file, the watch, READY=1 and the initial pass before the signal handlers exist;
the signals and inotify threads, each one event at a time; the channel; the
main loop. A pass is an interval here (`InitialScan` .. `InitialScanEnds`,
`ScanOnEvent`/`ScanWhenIdle` .. `ScanEnds`): what happens inside it is Gc.
`asked` is a history variable: what was requested of the process and has not
been begun since. `fresh` are the directories with files no pass has looked
for. SIGINT is treated as SIGTERM, to which it is equivalent.

## 3. Runs

All constants that bound a run are in its `.cfg`.

| run | expects | shows |
|---|---|---|
| `pins` | pass | `PassInv` (the inductive invariant, with every type), `AccountsInv`, `ReportAccountsForListing`, `PinnedBeforePassSurvives`, `RemovedAgedOrWrittenDuringPass`, and that Gc implements Collector |
| `quota` | pass | `NewestOfBucketSurvive`, `ClassifiedByFirstMatch`, and of `cdgcd check` before the pass: `LinesAreVerdict`, `CheckIsCautious`, `CheckForetells` |
| `progress` | pass | `PassReturns`, `GarbageCollected` |
| `requests` | pass | `DaemonInv`, `ThreadsEndLast`, `NoRequestLost`, `PolicyOfConfig`, `RequestsAnswered`, `FilesLookedFor` |
| `rules` | pass | `ConfigTypeOK`, `DefaultCatchesAll`, `ErrorsAreLocal`, `ExtensionKeepsMatches` |
| `wakeups` | pass | `StarvedOnlyByLongPass`, `IdlePassSoon` |
| `texts` | pass | `LengthIsShortest`, `CommRestored`, `EntryReadRight` |
| `pin_race` | violation | "Pinned dumps are never deleted": a marker created after the listing does not protect |
| `journal` | violation | "kept if it matches the FIRST rule": not when the journal has no answer |
| `marker_pick` | violation | `cdgcctl retain` "picks the most recent dump": or a marker |
| `emptied` | violation | a reload accepts the empty rules that startup refuses |
| `hangup` | violation | "SIGHUP reloads config": between READY=1 and the handlers it kills |

**pins** has two dumps and one capped rule, `keep_count = 1`: the smallest
directory in which a removal depends on another dump and in which a pinned dump
competes with an unpinned one. The clock ticks once and minimum_age is 1, so
a dump is young, exactly old enough, or written after `now`. Every error may
happen: of read_dir and of its entries, of metadata, of lookup, unlink and the
creation of a marker, and in what `cdgcctl retain` lists. Both dumps are compressed (`Uncompressed = {}`); `marker_pick` has the
uncompressed one, whose marker is a candidate of its own. No file is foreign
here (`quota` has one).

Two of the properties have a premise that the code needs. A pin protects only
if it was there when the pass opened the directory and read_dir reported no
error: scan logs such an error and goes on with the markers it has
(`PinnedBeforePassSurvives`; `pin_race` shows the other half). And
`RemovedAgedOrWrittenDuringPass` excepts dumps written after the pass took its
time, for which duration_since fails and the age test is skipped. (The
comment on `minimum_age` in `src/etc/cdgcd.toml:20`, "Don't unlink dumps younger
than this", knows no such exception, which a dump written between that moment
and the listing falls under.)

**quota** starts from a directory already full (`PreloadedSpec` in MCCheck):
three dumps of one program, two of them with equal timestamps, one of another
program and a file that is no dump, one pinned, two that may be young, or old
and unknown to the journal (what the journal says of a young dump is not asked).
First `cdgcd check` and then passes with the same configuration read it, each in
every order, under three configurations: one
whose journal rule comes after a capped rule, one in dry run whose journal rule
comes first, and one that needs the journal only to group. One thing may go
wrong: a dump is evicted, at any moment, or the check has errors, of its listing
or of metadata, or the pass has. That is enough for the check to classify a phantom and for
either to be blind; with everything going wrong at once the premises of the
`Check` properties would not hold anyway, and the other two properties speak of
the memory of the pass, which nobody else touches (their interference is in
`pins`, and the theorems have both). Journal lookups do not fail here: then
check and pass could differ in what they were told.

**progress** has one dump the rule keeps and one that it condemns, beside the
whole of cdgcctl and the outside actors, which may pin, evict and recreate
names. Lookups, metadata and unlinks may fail, once or for ever: a pass ends all
the same, and the next one tries again. `GarbageCollected` excuses a dump that
stays only by a pin or by a report with an error for it, and by that no longer
than the reports have it: a dump whose unlink fails once, and not again, is collected.
read_dir does not fail here (`ReadErrors = FALSE`): a directory that can never be
opened is never collected, and nothing is claimed for it.

**requests** has two signals, one edit of the file between four contents (one
does not parse, one does not compile, one names another directory), one kill
besides any number of exits and restarts, and files created without bound. Two
signals are enough for one to be merged with, or queued behind, any other; one
edit makes each reload succeed, fail, or move the directory. `MaxQueue` = 1
bounds the channel for the inotify thread only, which waits at a full channel:
the events it has not read are merged in the kernel, as they are while it
runs late.

**rules** has files of up to two named rules and DEFAULT over eight raw rules:
by program, by user with a group_by, by signal and uid, without match fields,
and seven that cannot be used (a user that does not exist, a process_name too
long, an unknown group_by field, a malformed glob, a misspelt field, a negative
keep_count, a uid that is no u32). Two named rules are enough
for one to shadow the other and for both to inherit different fields. Three
dumps differ in program and user, two contexts in whether the journal knows
their signal. All files of that size, and every pair of a file in use and a
file written since, are reached.

**wakeups** has a floor of two ticks, WATCHDOG_USEC shorter than it, equal to
twice, and longer, or none, idle intervals of zero, just above the floor, and
longer, any of which a reload may bring in. A pass lasts up to ten ticks,
longer than any watchdog; two events wait in the channel, three reloads come
while a pass is overdue. Every order of wait, due pass and ping is reached with
these; larger numbers only repeat it, and the theorems hold for all.

**texts** types every pattern over eight characters, every command name over
eight bytes (letters, hexadecimal digits, `x`, the backslash, the dot, a control
and a non-ASCII byte) and every pair of field values over words, line breaks,
field names and bytes that are no UTF-8; texts have up to `MaxText` characters,
values one symbol less. The shortest complete
escape has four characters, the shortest class with a negation four, the
shortest value that reads like another field two, so each case occurs with
something before or after it. `LengthIsShortest` is for the patterns on which
code and glob crate agree what the characters mean (`Plain`: no backslash, no
`]` as first member, no `**/`); outside of it they do not, as the hazards say.
`EntryReadRight` is for every entry: it says what lookup makes of a field, the
rest of a line in the midst of a value included, which `parse_export` cannot
tell from a field.

The violation runs use the smallest instance that has the behaviour. `emptied`
and `hangup` use `FairSpec`, so that the counterexample is one of a system that
keeps running, and both counterexamples are safety ones.

### Fairness

`Gc!FairSpec` has weak fairness for the steps of a running pass (its loops are
over a finite listing, and nothing it waits for can be withheld) and for
starting one (the daemon's idle interval). cdgcctl and the outside actors have
none. `Daemon!FairSpec` has weak fairness for each stage of the startup
(systemd restarts the service: `Restart=always`), for the main loop, for each
thread and for nothing that errs: `ReadInotifyFails`, `AddWatchFails`, signals,
edits and kills are never promised. `ScanWhenIdle` is fair only as a part of
the main loop: with events in the channel it may never happen. Liveness holds
with bounded signals. What a flood of SIGHUP does to idle passes is a matter of
time, and `IdlePassSoon` in Wakeups says it: each reload that is handled while
a pass is overdue puts it off by the floor once more, and nothing else does.

## 4. Theorems

Every theorem is for every value of the constants that satisfies the ASSUMEs
next to their declarations (numbers are natural, `None` and the directory are
not dumps, the policies are such as from_rule compiles). TLC evaluates these
assumptions in the runs above.

- **PolicyProofs**, about Policy and KeepCount. A compiled rule satisfies
  `IsCompiled`. A rule that does not need the journal neither matches nor groups
  by it (`JournalUnused`, `GroupKeyWithoutJournal`); hence the lazy loop and the
  full lookup find the same first rule (`LazyMatchIsFirstMatch`), which is the
  only one that no earlier rule forestalls (`ClassifyIsFirstMatch`,
  `LeastUnique`). `Ahead` is a strict total order, so `Rank` is a bijection from
  a bucket of *n* dumps to 0..*n*-1, so the spared ones are exactly min(*n*, cap)
  many, and none is older than a marked one (`MarkExcessKeepsNewest`).
- **ConfigProofs.** Whatever file is loaded, its policy satisfies `IsPolicy`
  (`LoadedIsPolicy`; from_rule's results are compiled rules, `None` or a u32
  for keep_count because parse_rule saw to it, and merging keeps that). So the
  assumption of GcProofs about `Configs` holds of every configuration a daemon
  can load. `PolicyInUse` carries it through any number of edits and loads.
  `DefaultIsCatchAll`: the last compiled rule has no match field, so the set of
  matching rules is not empty. `ErrorsFoundWhereMade`: merging takes a field
  whole, from the rule or from DEFAULT, and DEFAULT is compiled too.
  `ExtensionHarmless`: a named rule is merged from the same match fields at the
  same place, hence matches the same dumps, and the first match among the
  named rules stays the first.
- **GcProofs.** `TypeCorrect`, then `PassInvariant`, the inductive invariant.
  The safety properties are not inductive by themselves: that a pinned dump
  survives needs to know that the marker set is complete when the first dump is
  examined (`MarkersCollected`: every name that stayed was read, every marker
  read was noted), that nothing was classified before (`MemoryOfPass`) and that
  what can be condemned was not in the set (`OnlyUnmarkedMatched`); that it
  was old enough needs `ClassifiedAged` and that modification times never
  change or exceed the clock (`FilesWritten`); that its rule is right needs
  `ClassifiedByClassify`. From it follow `PinsRespected`, `AgesRespected`,
  `QuotaRespected` and `FirstMatchRespected`.
- **CollectorProofs.** `AccountsInvariant`: every listed name is a candidate, or
  classified with its verdict still to come, or in one list of the report, and
  only one of these, each with its reason (what is in `unparseable` does not
  parse, what is in `too_young` is, what is in `errors` before the verdicts are
  applied has not been there all the time). `ListingReported` is its last
  state. `PassesImplementCollector` is the refinement, every step of Gc a step
  of Collector or none. The step with a proof of its own is the commit: that
  the judged dumps may be judged needs `MarkersCollected` and `OnlyUnmarkedMatched`
  for the pins, `ClassifiedAged` for the ages and the account for completeness
  (a ripe dump that stayed was listed, and no list of the report can have it);
  the rule each was given is the first match in the context it was given
  (`GivenFirstMatch`, from lazy = full lookup); the quotas speak of indices and
  the policy of dumps, and no dump has two indices (`AsManyDumps`,
  `PeersAreBucket`).
- **CheckProofs**, about `CheckedSpec`. `CheckedInvariant` is the inductive
  invariant `CheckedInv`: `PassInv` and `AccountsInv` hold of a pass there too
  (its steps are steps of Gc), and `CheckInv` is what ties the two loops
  together. They have one configuration and one time (`SameTerms`); the markers
  either has read are those of the directory, and neither misses one without an
  error (`MarkersAgree`); each dump is met once (`CheckedOnce`); what either loop
  made of a dump is the journal's answer put through the rules (`CheckFindings`,
  `PassFindings`). None of this mentions the other loop's memory: that memory is
  gone when the pass begins. What is left of the check is its lines, so the
  invariant has to say what lines are worth: there is a set of judged dumps, all
  that are not pinned, of which they are the policy's verdict
  (`LinesAreVerdict`, proved where they are printed by counting dumps instead of
  indices, `LinesTellPolicy`). The pass commits to such a verdict as well, on
  what it classified. `CheckErrsOnSafeSide` compares two verdicts on sets one of
  which contains the other, bucket by bucket: what is removed of the smaller set
  is removed of the larger one, or a dump of the same timestamp is in its place
  (`MoreAreJudged`).
  `CheckForetellsScan` compares two verdicts on the same set: as many are removed
  from each bucket (`AsManyRemoved`), hence the same ones where timestamps are
  not shared. The hypothesis is `~ LookupErrors`: when a journalctl fails for one
  loop and not for the other, they were told different things and may differ,
  which is no fault of the copy. (`CheckedInv` holds in the instance of `quota`
  without `ff3`, by TLC; with it, it would take longer than all the other runs.)
- **WakeupsProofs.** `WaitsInvariant`: what is left of the wait, added to the time
  since the last ping or since the pass came due, keeps the bound
  (`PingAhead`, `PassAhead`), whatever events arrive; `NextWakeupBounds` is what
  `next_wakeup` contributes. `WatchdogServed` and `IdlePassesCome` follow.
- **DaemonProofs.** `DaemonInvariant`: besides the types and the properties
  themselves it needs only `StartsQuietly`: before the threads run nothing is
  caught or queued, and from READY=1 on there is a watch. `RequestsNotLost`, `LoopNeverDeaf` and
  `PolicyFollowsConfig` are parts of it. The channel lemmas say which events
  remain in it after a send and a receive.

- **TextsProofs**, for texts of any length. The theorems of the library that
  induct over data cannot be used here, and two other arguments take their
  place. A function defined by recursion satisfies its equation: for each rank
  there is a function right up to that rank, since at the least rank without
  one it could be extended (`RankedRecursion`, which `MinFromEquation`,
  `ShortestFromEquation` and `UnescapeFromEquation` cite). And two functions
  agree because the last place where they do not would have them agree at all
  later ones, from which each takes its value. `LengthsAgree`: read from the
  same place, code and crate go on at the same later place with the same
  count; that they find the same end of a class is where `Plain` is needed
  (`SameClassEnd`). `CommsRestored` and `EntriesRead` rest on the layout of a
  text put together from pieces (`FlattenLayout`): each piece stands at a place
  of its own and each place belongs to a piece (`LayoutCovers`). An escape is
  then read at the place of its piece and nowhere else (`CommComesBack`), and a
  line that starts like a field is the line of that field, or a line of a value
  that is exported with its length (`StartIsField`), since each piece ends in a
  line break (`PieceBefore`). The last such line is what parse_export takes
  (`FieldParsed`); its rest is the value (`ValueIsRest`) or the rest of the line
  within the value (`SameRest`).

Only model-checked are the liveness properties (`PassReturns`,
`GarbageCollected`, `RequestsAnswered`, `FilesLookedFor`): temporal reasoning
under fairness is out of the prover's reach. Every invariant that a passing
run checks, and every action property, is a theorem for all values of the
constants.

## 5. Abstractions, and what is not modelled

- Strings: outside Texts, names, comms, globs, commands are model values, and
  `from_path` is the count of parts. Which globs are too long or malformed is a
  constant of Config; Texts has what decides it. The numbers of a dump name are
  constants of the dump: their parsing is not modelled. TOML itself, values of
  a wrong type and durations are not modelled: a file that does not parse is one
  case, whatever the reason.
- Texts: a command name that is not ASCII comes back byte for byte, each as a
  character of its own, which is not the same text; `CommRestored` compares
  bytes. A raw journal value of more than 127 bytes has a length that is no
  UTF-8, and is treated as a value that is not.
- Config keeps the rules of the file and Daemon the other keys (whether the file
  loads and compiles, the directory, how many rules): a reload is one step in
  both, and nothing of a rule matters to the daemon's threads.
- `user_id` and `user_name` end in one list, so a rule with both matches either,
  where the readme combines fields with AND; Policy and Config model what the
  code does.
- The branch of the main loop for a closed channel is not an action:
  `ThreadsEndLast` shows that it cannot be reached.
- `timestamp_micros` in a name is a constant of the dump, independent of its
  modification time, as it is for the code.
- A dump is written once: names carry a boot id, pid and microseconds.
- Modification times are not changed after the fact; the clock does not go
  back. Both would only add to the dumps that are young or from the future.
- A pass in which readdir fails for the rest of the stream is one `ReadFails`
  for each entry left.
- Time is abstract in Daemon; Wakeups has it, and only the loop.
- The notify socket, `STATUS=` and `STOPPING=`: nothing depends on them.
- The text of what the commands print, command lines, logs, hints; packaging.

## 6. Plan

Done: Policy, KeepCount, CoredumpDir, Scan, Retain, Gc, Collector, Check, Config,
Daemon, Wakeups, Texts, their runs, and the theorems of section 4. What is left,
in the order of what matters most:

1. **A daemon of passes**: Daemon with its passes as intervals of Gc, so that
   `FilesLookedFor` ends in what a pass then does with the file. It needs an
   abstraction of Daemon's main loop first: the product of the two is beyond
   TLC.
2. **Dump names**: `from_name` with its numbers (u32, u64, a leading `+`).
3. **The whole file**: `Config::parse` with the scalar keys, and durations.
