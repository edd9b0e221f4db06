------------------------------- MODULE Policy -------------------------------
(***************************************************************************)
(* The allow-list: rules compiled from the configuration (src/policy.rs)   *)
(* and the lazy classification of one dump against them (scan::classify).  *)
(*                                                                         *)
(* A glob is the set of values it accepts; a rule field is the set of its  *)
(* globs, {} when the field is not configured.  Rules are numbered from 1  *)
(* and NoRule stands for the Rust `None` of `rule_index`.                  *)
(***************************************************************************)
EXTENDS Naturals, Sequences, FiniteSets

CONSTANTS
    None,           \* Rust's Option::None, in contexts and in keep_count
    Dumps,          \* names of the files of the coredump directory
    Facts,          \* what a dump's file name says: [Dumps -> [FileField -> value]]
    Timestamp,      \* the timestamp_micros of its file name: [Dumps -> Nat]
    Passwd          \* the passwd database: user name -> uid

FileField    == {"process_name", "user_id", "boot_id"}
JournalField == {"executable_path", "command_line", "signal"}
MatchField   == JournalField \cup {"process_name", "user_id"}
GroupField   == JournalField \cup FileField

ASSUME TimestampAssumption == Timestamp \in [Dumps -> Nat]
ASSUME NoneAssumption == None \notin Nat

NoRule == 0

\* JournalContext::default()
EmptyContext == [f \in JournalField |-> None]

-----------------------------------------------------------------------------
(* A rule of the configuration and its compiled form.                      *)

\* Mutant of IsUnconstrained: the users of user_name are not thought of.
HasNoOtherField(rule) ==
    /\ rule.process_name = {} /\ rule.executable_path = {}
    /\ rule.command_line = {} /\ rule.signal = {}
    /\ rule.user_id = {}

\* Rule::is_empty: no match field is configured.
IsUnconstrained(rule) ==
    /\ rule.process_name = {} /\ rule.executable_path = {}
    /\ rule.command_line = {} /\ rule.signal = {}
    /\ rule.user_id = {} /\ rule.user_name = {}

\* The user_ids of the compiled rule: the numeric ones and the resolved names,
\* in one list.
UserIds(rule) == rule.user_id \cup {Passwd[name] : name \in rule.user_name}

\* The patterns a compiled rule tests each field against. Signals and uids are
\* compared exactly, so each is a pattern with one member.
MatchPatterns(rule) ==
    [process_name    |-> rule.process_name,
     executable_path |-> rule.executable_path,
     command_line    |-> rule.command_line,
     signal          |-> {{s} : s \in rule.signal},
     user_id         |-> {{u} : u \in UserIds(rule)}]

\* Mutant of NeedsJournal: only the match fields are looked at.
MatchNeedsJournal(patterns, groupBy) == \E f \in JournalField : patterns[f] # {}

\* A rule needs the journal to match or to group by one of its fields.
NeedsJournal(patterns, groupBy) ==
    \E f \in JournalField : patterns[f] # {} \/ f \in groupBy

CompiledRule(rule) ==
    [match            |-> MatchPatterns(rule),
     group_by         |-> rule.group_by,
     keep_count       |-> rule.keep_count,
     needs_journal    |-> NeedsJournal(MatchPatterns(rule), rule.group_by),
     is_unconstrained |-> IsUnconstrained(rule)]

\* What CompiledRule::from_rule makes sure of, and the rest of the program
\* relies on.
IsCompiled(rule) ==
    /\ rule.keep_count \in Nat \cup {None}
    /\ rule.needs_journal = NeedsJournal(rule.match, rule.group_by)
    /\ rule.is_unconstrained = (\A f \in MatchField : rule.match[f] = {})

IsPolicy(rules) ==
    /\ Len(rules) \in Nat
    /\ DOMAIN rules = 1..Len(rules)
    /\ \A i \in DOMAIN rules : IsCompiled(rules[i])

-----------------------------------------------------------------------------
(* Matching.                                                               *)

\* GroupField::extract: three fields come from the file name, three from the
\* journal context, which may lack them.
Extract(d, context, f) ==
    IF f \in JournalField THEN context[f] ELSE Facts[d][f]

\* Items of a field are alternatives, a value that is missing matches none.
FieldMatches(rule, d, context, f) ==
    /\ Extract(d, context, f) # None
    /\ \E p \in rule.match[f] : Extract(d, context, f) \in p

Matches(rule, d, context) ==
    \/ rule.is_unconstrained
    \/ \A f \in MatchField :
          rule.match[f] = {} \/ FieldMatches(rule, d, context, f)

Least(S) == CHOOSE i \in S : \A j \in S : i <= j

\* The first element of a set of rule numbers, as an Option.
FirstOf(S) == IF S = {} THEN NoRule ELSE Least(S)

\* Policy::first_match, which is handed the whole journal context.
FirstMatch(rules, d, context) ==
    FirstOf({i \in DOMAIN rules : Matches(rules[i], d, context)})

\* The `cache` of classify when it has reached rule i: the journal is asked
\* for the first rule that needs it, and the answer `found` serves the rest.
ContextAt(rules, i, found) ==
    IF \E j \in 1..i : rules[j].needs_journal THEN found ELSE EmptyContext

LazyMatch(rules, d, found) ==
    FirstOf({i \in DOMAIN rules :
                Matches(rules[i], d, ContextAt(rules, i, found))})

\* scan::classify
Classify(rules, d, found) ==
    LET idx == LazyMatch(rules, d, found)
    IN  [rule_index |-> idx,
         context    |-> IF idx = NoRule
                        THEN ContextAt(rules, Len(rules), found)
                        ELSE ContextAt(rules, idx, found)]

\* The group_by key of a dump. The order of the fields does not tell two keys
\* of one rule apart, so the tuple of the code is a function here.
GroupKey(rule, d, context) ==
    [f \in rule.group_by |-> Extract(d, context, f)]
=============================================================================
