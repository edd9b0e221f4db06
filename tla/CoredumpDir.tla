---------------------------- MODULE CoredumpDir -----------------------------
(***************************************************************************)
(* The coredump directory and the actors outside cdgcd that change it:     *)
(* systemd-coredump links a finished dump and logs its journal entry,      *)
(* systemd-tmpfiles, MaxUse= or an administrator unlink files.             *)
(*                                                                         *)
(* A file name is a pair <<d, k>>: the dump d with the retain suffix       *)
(* appended k times. <<d, 0>> is the dump, <<d, 1>> its retain marker.     *)
(***************************************************************************)
EXTENDS Policy

CONSTANTS
    Foreign,        \* files whose name is not that of a coredump
    Uncompressed,   \* dumps whose name carries no compression extension
    Logged,         \* dumps whose journal entry journald does not lose
    MaxClock        \* bound on the clock

VARIABLES
    files,          \* the names linked in the directory
    stable,         \* those linked ever since a scan last opened it
    born,           \* the dumps that have been written so far
    mtime,          \* their modification times
    journal,        \* the dumps whose journal entry can be found
    clock           \* the wall clock

dirVars == <<files, stable, born, mtime, journal, clock>>

ASSUME DirAssumption ==
    /\ Foreign \subseteq Dumps
    /\ Uncompressed \subseteq Dumps
    /\ MaxClock \in Nat

Names == Dumps \X Nat

DumpName(d) == <<d, 0>>

\* retain::marker_path
MarkerPath(n) == <<n[1], n[2] + 1>>
Marker(d)     == MarkerPath(DumpName(d))

\* Mutant of MarkedName: the suffix is not stripped.
SuffixedName(n) == n

\* retain::dump_name_for_marker answers for the names IsMarker is true of.
IsMarker(n)   == n[2] > 0
MarkedName(n) == <<n[1], n[2] - 1>>

\* CoredumpFile::from_path splits the name at its dots and wants six or seven
\* parts. An uncompressed dump has six, an extension is the seventh, and the
\* retain suffix counts as one.
FromPath(n) ==
    /\ n[1] \notin Foreign
    /\ (IF n[1] \in Uncompressed THEN 6 ELSE 7) + n[2] \in {6, 7}

DirTypeOK ==
    /\ files \subseteq Names
    /\ stable \subseteq files
    /\ born \subseteq Dumps
    /\ mtime \in [Dumps -> Nat]
    /\ journal \subseteq born
    /\ clock \in Nat

DirInit ==
    /\ files = {} /\ stable = {} /\ born = {} /\ journal = {}
    /\ mtime = [d \in Dumps |-> 0]
    /\ clock = 0

Link(n) ==
    /\ files' = files \cup {n}
    /\ UNCHANGED stable

Unlink(n) ==
    /\ files' = files \ {n}
    /\ stable' = stable \ {n}

-----------------------------------------------------------------------------
\* systemd-coredump links a dump it has just finished writing.
Crash(d) ==
    /\ d \notin born
    /\ Link(DumpName(d))
    /\ born' = born \cup {d}
    /\ mtime' = [mtime EXCEPT ![d] = clock]
    /\ UNCHANGED <<journal, clock>>

\* It logs the journal entry only after the file is in place.
LogEntry(d) ==
    /\ d \in (born \cap Logged) \ journal
    /\ journal' = journal \cup {d}
    /\ UNCHANGED <<files, stable, born, mtime, clock>>

\* tmpfiles, MaxUse= or an administrator remove a dump or a marker.
Evict(n) ==
    /\ n \in files
    /\ Unlink(n)
    /\ UNCHANGED <<born, mtime, journal, clock>>

Tick ==
    /\ clock < MaxClock
    /\ clock' = clock + 1
    /\ UNCHANGED <<files, stable, born, mtime, journal>>

DirNext ==
    \/ \E d \in Dumps : Crash(d) \/ LogEntry(d)
    \/ \E n \in files : Evict(n)
    \/ Tick
=============================================================================
