------------------------------- MODULE Config -------------------------------
(***************************************************************************)
(* From the [rules] of the configuration file to the policy in use: parse, *)
(* merge_default and is_empty of src/config.rs, from_config and from_rule  *)
(* of src/policy.rs, and an administrator who edits the file.              *)
(*                                                                         *)
(* Where [rules.DEFAULT] stands among the other tables makes no difference *)
(* to Config::parse, so a file is its named rules in source order and its  *)
(* DEFAULT rule or None.                                                   *)
(***************************************************************************)
EXTENDS Policy

CONSTANTS
    RuleNames,      \* names of rules, other than DEFAULT
    RawRules,       \* what an administrator may write under one of them
    Contexts,       \* what the journal may say of a dump
    Uids,           \* the user ids that are a u32
    TooLong,        \* process_name globs that need more than COMM_MAX_LEN bytes
    Malformed,      \* globs that glob::Pattern refuses
    MaxRules        \* bound on the named rules of a file

VARIABLES
    file,           \* the configuration file
    inUse,          \* the file that was last loaded, None before the first load
    rules           \* the policy compiled from it

vars == <<file, inUse, rules>>

ListFields == {"process_name", "executable_path", "command_line", "signal",
               "user_id", "user_name", "group_by"}

ConfigFields == ListFields \cup {"keep_count"}

\* Rule::default
Unset == [f \in ConfigFields |-> IF f = "keep_count" THEN None ELSE {}]

NamedRule == [name : RuleNames, rule : RawRules]

EmptyFile == [named |-> <<>>, default |-> None]

FileType ==
    {t \in [named : Seq(NamedRule), default : RawRules \cup {None}] :
        \A i, j \in DOMAIN t.named : t.named[i].name = t.named[j].name => i = j}

ASSUME ConfigAssumption ==
    /\ \A raw \in RawRules : ConfigFields \subseteq DOMAIN raw
    /\ None \notin RawRules /\ None \notin FileType
    /\ "DEFAULT" \notin RuleNames
    /\ MaxRules \in Nat

-----------------------------------------------------------------------------
(* Config::parse.                                                          *)

\* check_known: there is no other field, a misspelt one for instance.
HasKnownFields(raw) == DOMAIN raw \subseteq ConfigFields

\* parse_u32_vec and parse_u32: no number is negative or too large.
HasUserIds(raw)   == raw.user_id \subseteq Uids
HasKeepCount(raw) == raw.keep_count \in Nat \cup {None}

\* parse_rule, which knows the fields of group_by too.
IsWellFormed(raw) ==
    /\ HasKnownFields(raw)
    /\ raw.group_by \subseteq GroupField
    /\ HasUserIds(raw) /\ HasKeepCount(raw)

\* pick and pick_u32: a field is the rule's own or, when that is empty, the
\* default's.
Pick(own, default) == IF own = {} THEN default ELSE own

\* Option::or
Or(own, default) == IF own = None THEN default ELSE own

\* Mutant of MergeDefault: the default has precedence.
MergeOverriding(own, default) ==
    [f \in ConfigFields |->
        IF f = "keep_count" THEN Or(default[f], own[f]) ELSE Pick(default[f], own[f])]

MergeDefault(own, default) ==
    [f \in ConfigFields |->
        IF f = "keep_count" THEN Or(own[f], default[f]) ELSE Pick(own[f], default[f])]

DefaultRule(t) == IF t.default = None THEN Unset ELSE t.default

MergedRules(t) ==
    [i \in 1..Len(t.named) |-> MergeDefault(t.named[i].rule, DefaultRule(t))]

CatchAll(t) == IF t.default = None THEN <<>> ELSE <<t.default>>

\* Mutant of RulesOf: DEFAULT is a source of defaults and no rule.
RulesWithoutDefault(t) == MergedRules(t)

\* Mutant of RulesOf: DEFAULT comes first.
DefaultFirst(t) == CatchAll(t) \o MergedRules(t)

\* The named rules in source order and, if there is one, DEFAULT as the last.
RulesOf(t) == MergedRules(t) \o CatchAll(t)

Written(t) == {t.named[i].rule : i \in DOMAIN t.named} \cup {DefaultRule(t)}

\* Config::parse succeeds.
Parses(t) == \A raw \in Written(t) : IsWellFormed(raw)

-----------------------------------------------------------------------------
(* Policy::from_config.                                                    *)

\* from_rule succeeds: its globs are patterns, those of process_name can match a
\* name of COMM_MAX_LEN bytes, and its users exist.
IsCompilable(rule) ==
    /\ rule.process_name \cap TooLong = {}
    /\ (rule.process_name \cup rule.executable_path \cup rule.command_line)
          \cap Malformed = {}
    /\ rule.user_name \subseteq DOMAIN Passwd

Compiles(t) == \A i \in DOMAIN RulesOf(t) : IsCompilable(RulesOf(t)[i])

FromConfig(t) == [i \in DOMAIN RulesOf(t) |-> CompiledRule(RulesOf(t)[i])]

-----------------------------------------------------------------------------
Init == file = EmptyFile /\ inUse = None /\ rules = <<>>

\* The administrator writes a rule at the end of the file, ...
AppendRule(name, raw) ==
    /\ Len(file.named) < MaxRules
    /\ \A i \in DOMAIN file.named : file.named[i].name # name
    /\ file' = [file EXCEPT !.named = Append(@, [name |-> name, rule |-> raw])]
    /\ UNCHANGED <<inUse, rules>>

\* ... takes the first one out, ...
DropRule ==
    /\ file.named # <<>>
    /\ file' = [file EXCEPT !.named = Tail(@)]
    /\ UNCHANGED <<inUse, rules>>

\* ... or changes or removes DEFAULT.
SetDefault(raw) ==
    /\ raw # file.default
    /\ file' = [file EXCEPT !.default = raw]
    /\ UNCHANGED <<inUse, rules>>

\* A start or a reload takes the file, if it can be used and, at the start,
\* if there is a rule in it.
Load ==
    /\ Parses(file) /\ Compiles(file)
    /\ inUse = None => RulesOf(file) # <<>>
    /\ inUse' = file
    /\ rules' = FromConfig(file)
    /\ UNCHANGED file

Next ==
    \/ \E name \in RuleNames, raw \in RawRules : AppendRule(name, raw)
    \/ DropRule
    \/ \E raw \in RawRules \cup {None} : SetDefault(raw)
    \/ Load

Spec == Init /\ [][Next]_vars

-----------------------------------------------------------------------------
\* Every variable has its type, and the policy in use is one that the collector
\* relies on.
ConfigTypeOK ==
    /\ file \in FileType
    /\ inUse \in FileType \cup {None}
    /\ IF inUse = None THEN rules = <<>> ELSE rules = FromConfig(inUse)
    /\ IsPolicy(rules)

(***************************************************************************)
(* etc/cdgcd.toml calls DEFAULT "a catch-all for dumps that no named rule  *)
(* matched". As long as it has no match field it is: no dump is without a  *)
(* rule, whatever the named rules are and whatever the journal says.       *)
(***************************************************************************)
DefaultCatchesAll ==
    inUse # None /\ inUse.default # None /\ IsUnconstrained(DefaultRule(inUse)) =>
        \A d \in Dumps, context \in Contexts :
            FirstMatch(rules, d, context) # NoRule

(***************************************************************************)
(* An error of the administrator is found where it was made: a file can be *)
(* used exactly when each rule in it, as it is written, could be. Merging  *)
(* DEFAULT neither hides a bad field nor makes one (from_rule compiles the *)
(* merged rules, not the written ones).                                    *)
(***************************************************************************)
ErrorsAreLocal ==
    Parses(file) /\ Compiles(file)
        <=> \A raw \in Written(file) : IsWellFormed(raw) /\ IsCompilable(raw)

MatchFields(rule) == [f \in ListFields \ {"group_by"} |-> rule[f]]

\* Rules were written at the end of t, and DEFAULT has the match fields it had;
\* one that has none may have been added.
Extends(t, extended) ==
    /\ \A i \in DOMAIN t.named :
          i \in DOMAIN extended.named /\ extended.named[i] = t.named[i]
    /\ MatchFields(DefaultRule(extended)) = MatchFields(DefaultRule(t))
    /\ t.default # None => extended.default # None

(***************************************************************************)
(* "First match wins in source order". However many edits lie between two  *)
(* loads: if what they come to is rules at the end of the file, or other   *)
(* quotas in DEFAULT, then the new policy leaves every dump with the named *)
(* rule it had, and no dump that had a rule without one.                   *)
(***************************************************************************)
ExtensionKeepsMatches ==
    [][Load /\ inUse # None /\ Extends(inUse, file) =>
        \A d \in Dumps, context \in Contexts :
            LET before == FirstMatch(rules, d, context)
                after  == FirstMatch(rules', d, context)
            IN  before # NoRule =>
                    /\ after # NoRule
                    /\ before \in DOMAIN inUse.named => after = before]_vars
=============================================================================
