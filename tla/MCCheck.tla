------------------------------ MODULE MCCheck -------------------------------
(***************************************************************************)
(* `cdgcd check` and then passes with the same configuration, over a       *)
(* directory in which every dump has been written already: one is pinned,  *)
(* some are young, the journal knows some. Either a dump is evicted, or    *)
(* the check or the pass meets errors.                                     *)
(***************************************************************************)
EXTENDS MCGc, Check

\* The dumps that may be young, or old and unknown to the journal.
Varied == {"ff2", "wk1"}

PreloadedInit ==
    /\ born = Dumps
    /\ files = {DumpName(d) : d \in Dumps} \cup {Marker("ff1")}
    /\ stable = {}
    /\ mtime \in {m \in [Dumps -> {0, MaxClock}] : \A d \in Dumps \ Varied : m[d] = 0}
    /\ journal \in {Logged \ unknown : unknown \in SUBSET {d \in Varied : mtime[d] = 0}}
    /\ clock = MaxClock
    /\ CheckedInit

\* One thing goes wrong: a dump is evicted, or the check has errors, of its
\* listing or of metadata, or the pass has.
Gone == {d \in Dumps : DumpName(d) \notin files /\ d \notin report.removed}

CheckErred ==
    \/ complained
    \/ \E d \in Dumps \ Gone :
          /\ Young(d)
          /\ d \in Judged \/ \E i \in DOMAIN chkClassified : chkClassified[i].dump = d

PassErred == report.errors \ Gone # {}

PreloadedNext ==
    \/ CheckStep /\ (CheckErred' => Gone = {})
    \/ PassStep /\ (PassErred' => Gone = {} /\ ~ CheckErred)
    \/ EvictStep /\ Gone = {} /\ ~ CheckErred /\ ~ PassErred

PreloadedSpec == PreloadedInit /\ [][PreloadedNext]_<<vars, chkVars>>
=============================================================================
