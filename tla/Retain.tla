------------------------------ MODULE Retain --------------------------------
(***************************************************************************)
(* `cdgcctl retain` (src/bin/cdgcctl.rs): resolve the dump, see that it    *)
(* exists, create its marker. Nothing holds the directory in between.      *)
(* How a command that is over has ended is not kept.                       *)
(***************************************************************************)
EXTENDS CoredumpDir

CONSTANTS
    CreateErrors,   \* may creating the marker fail (EACCES, ...)?
    PartialListings \* may the command miss entries of the directory?

VARIABLES
    ctl,            \* where the command is
    target          \* the path it works on, None between commands

ctlVars == <<ctl, target>>

CtlTypeOK ==
    /\ ctl \in {"idle", "resolved", "found"}
    /\ IF ctl = "idle" THEN target = None ELSE target \in Names

CtlInit == ctl = "idle" /\ target = None

Resolve(n) ==
    /\ ctl = "idle"
    /\ ctl' = "resolved"
    /\ target' = n
    /\ UNCHANGED dirVars

Exit == ctl' = "idle" /\ target' = None

\* Of the entries it has read find_most_recent keeps the first with the latest
\* timestamp; the order of the entries is readdir's.
MostRecent(read) ==
    {n \in read :
        /\ FromPath(n)
        /\ \A m \in read :
              FromPath(m) => Timestamp[m[1]] <= Timestamp[n[1]]}

\* An entry that readdir reports as an error is skipped in silence, and one
\* that comes while it runs may be missed.
Listings == IF PartialListings THEN SUBSET files ELSE {files}

\* Without an argument. With no dump to find, or no directory to read, the
\* command ends at once.
RetainMostRecent == \E read \in Listings : \E n \in MostRecent(read) : Resolve(n)

\* With the name of a dump, there or not.
RetainNamed(d) == Resolve(DumpName(d))

RetainExisting ==
    /\ ctl = "resolved"
    /\ target \in files
    /\ ctl' = "found"
    /\ UNCHANGED <<target, dirVars>>

RetainMissing ==
    /\ ctl = "resolved"
    /\ target \notin files
    /\ Exit
    /\ UNCHANGED dirVars

\* O_CREAT without O_EXCL: an existing marker is as good.
CreateMarker ==
    /\ ctl = "found"
    /\ Link(MarkerPath(target))
    /\ Exit
    /\ UNCHANGED <<born, mtime, journal, clock>>

CreateFails ==
    /\ CreateErrors
    /\ ctl = "found"
    /\ Exit
    /\ UNCHANGED dirVars

CtlNext ==
    \/ RetainMostRecent
    \/ \E d \in Dumps : RetainNamed(d)
    \/ RetainExisting \/ RetainMissing
    \/ CreateMarker \/ CreateFails
=============================================================================
