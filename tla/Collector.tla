----------------------------- MODULE Collector ------------------------------
(***************************************************************************)
(* What a pass of the collector promises, whatever the order in which it   *)
(* reads the directory and whatever it keeps in memory: it looks, it       *)
(* commits once to a set of dumps, and it removes dumps of that set only.  *)
(*                                                                         *)
(* A dump is present or not, pinned or not; names, listings and reports    *)
(* are left to the implementation (Gc).                                    *)
(***************************************************************************)
EXTENDS Policy

CONSTANTS
    Configs,            \* the configurations a pass may be started with
    Entries,            \* what the journal says of each dump
    Foreign,            \* files that are no dumps
    MetadataErrors,     \* may a dump be there and tell nothing of itself?
    UnlinkErrors        \* may a removal fail?

VARIABLES
    dumps, pins,        \* what is in the directory
    mtime, clock,       \* modification times, the wall clock
    stayed, held,       \* the dumps and pins there since the pass began
    phase,              \* what the pass does
    cfg, now,           \* its configuration and its time
    noticed,            \* the pins it has seen
    blind,              \* it knows that it did not see everything
    unread,             \* the dumps that told it nothing
    doomed,             \* the dumps it is still going to remove
    removed             \* those it has removed

passVars == <<phase, cfg, now, noticed, blind, unread, doomed, removed>>
vars == <<dumps, pins, mtime, clock, stayed, held, passVars>>

Init ==
    /\ phase = "idle" /\ cfg \in Configs
    /\ noticed = {} /\ ~ blind /\ unread = {} /\ doomed = {} /\ removed = {}
    /\ stayed \subseteq dumps /\ held \subseteq pins

\* Others write, pin, unpin and remove what they like; a file that stays is
\* not written again.
Outside ==
    /\ dumps' \subseteq Dumps /\ pins' \subseteq Dumps
    /\ stayed' = stayed \cap dumps' /\ held' = held \cap pins'
    /\ clock' >= clock
    /\ \A d \in dumps : mtime'[d] = mtime[d]
    /\ UNCHANGED passVars

Begin ==
    /\ phase = "idle"
    /\ phase' = "looking"
    /\ cfg' \in Configs /\ now' = clock
    /\ stayed' = dumps /\ held' = pins
    /\ UNCHANGED <<dumps, pins, mtime, clock, noticed, blind, unread, doomed, removed>>

\* The directory cannot be opened: a pass that condemns nothing.
BeginInVain ==
    /\ phase = "idle"
    /\ phase' = "removing"
    /\ cfg' \in Configs
    /\ blind' = TRUE
    /\ UNCHANGED <<dumps, pins, mtime, clock, stayed, held, now, noticed, unread, doomed, removed>>

Notice(d) ==
    /\ phase = "looking"
    /\ d \in pins
    /\ noticed' = noticed \cup {d}
    /\ UNCHANGED <<dumps, pins, mtime, clock, stayed, held, phase, cfg, now, blind, unread, doomed, removed>>

Miss ==
    /\ phase = "looking"
    /\ blind' = TRUE
    /\ UNCHANGED <<dumps, pins, mtime, clock, stayed, held, phase, cfg, now, noticed, unread, doomed, removed>>

\* A dump cannot be examined: it is gone, or its metadata cannot be read.
Skip(d) ==
    /\ phase = "looking"
    /\ MetadataErrors \/ d \notin dumps
    /\ unread' = unread \cup {d}
    /\ UNCHANGED <<dumps, pins, mtime, clock, stayed, held, phase, cfg, now, noticed, blind, doomed, removed>>

\* Old enough, or from the future.
Ripe(d) == mtime[d] > now \/ now - mtime[d] >= cfg.minimum_age

RuleOf(context, d) == FirstMatch(cfg.rules, d, context[d])

\* The judged dumps that share rule and group_by key with d.
Peers(judged, context, d) ==
    LET r == RuleOf(context, d)
    IN  {e \in judged :
            /\ RuleOf(context, e) = r
            /\ GroupKey(cfg.rules[r], e, context[e]) = GroupKey(cfg.rules[r], d, context[d])}

\* Of a set of peers the newest keep_count are spared, ties broken at will.
SparesNewest(peers, cap, condemned) ==
    LET spared == peers \ condemned
    IN  /\ Cardinality(spared) = IF Cardinality(peers) < cap THEN Cardinality(peers) ELSE cap
        /\ \A s \in spared, c \in peers \cap condemned : Timestamp[s] >= Timestamp[c]

\* The policy applied to a set of dumps, each with the context it was given.
IsVerdict(judged, context, condemned) ==
    /\ condemned \subseteq judged
    /\ \A d \in judged :
          LET r == RuleOf(context, d)
          IN  /\ r = NoRule => d \in condemned
              /\ r # NoRule =>
                    LET cap == cfg.rules[r].keep_count
                    IN  /\ cap = None => d \notin condemned
                        /\ cap # None =>
                              SparesNewest(Peers(judged, context, d), cap, condemned)

\* No pinned, foreign or young dump is judged; and a pass that saw everything
\* has seen every pin that was there and judges every ripe dump that stayed
\* and could be examined.
MayJudge(judged) ==
    /\ \A d \in judged : Ripe(d) /\ d \notin noticed \cup unread \cup Foreign
    /\ ~ blind =>
          /\ held \subseteq noticed
          /\ \A d \in stayed \ (noticed \cup unread \cup Foreign) : Ripe(d) => d \in judged

\* The journal has answered, or has not, for each judged dump.
Contexts(judged) ==
    {c \in [judged -> {EmptyContext} \cup {Entries[d] : d \in Dumps}] :
        \A d \in judged : c[d] \in {EmptyContext, Entries[d]}}

Commit ==
    /\ phase = "looking"
    /\ phase' = "removing"
    /\ \E judged \in SUBSET Dumps :
          /\ MayJudge(judged)
          /\ \E context \in Contexts(judged) : IsVerdict(judged, context, doomed')
    /\ unread' = {}
    /\ UNCHANGED <<dumps, pins, mtime, clock, stayed, held, cfg, now, noticed, blind, removed>>

Remove(d) ==
    /\ d \in doomed \cap dumps
    /\ ~ cfg.dry_run
    /\ doomed' = doomed \ {d} /\ removed' = removed \cup {d}
    /\ dumps' = dumps \ {d} /\ stayed' = stayed \ {d}
    /\ UNCHANGED <<pins, mtime, clock, held, phase, cfg, now, noticed, blind, unread>>

\* A dump is spared only in a dry run, or because it cannot be removed.
Spare(d) ==
    /\ d \in doomed
    /\ cfg.dry_run \/ d \notin dumps \/ UnlinkErrors
    /\ doomed' = doomed \ {d}
    /\ UNCHANGED <<dumps, pins, mtime, clock, stayed, held, phase, cfg, now, noticed, blind, unread, removed>>

End ==
    /\ phase = "removing" /\ doomed = {}
    /\ phase' = "idle"
    /\ now' = 0 /\ noticed' = {} /\ blind' = FALSE /\ removed' = {}
    /\ UNCHANGED <<dumps, pins, mtime, clock, stayed, held, cfg, unread, doomed>>

Next ==
    \/ Outside
    \/ Begin \/ BeginInVain
    \/ \E d \in Dumps : Notice(d) \/ Skip(d)
    \/ Miss
    \/ Commit
    \/ \E d \in Dumps : Remove(d) \/ Spare(d)
    \/ End

Spec == Init /\ [][Next]_vars
=============================================================================
