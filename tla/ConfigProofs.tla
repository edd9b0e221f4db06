---------------------------- MODULE ConfigProofs ----------------------------
(***************************************************************************)
(* Theorems about Config, for every set of rules, dumps and journal        *)
(* answers: loading yields the policies that Gc assumes, and what editing  *)
(* the file can and cannot change.                                         *)
(***************************************************************************)
EXTENDS Config, PolicyProofs, SequenceTheorems

\* The rules of a file are its named rules, merged, in order, and DEFAULT.
LEMMA RulesShape ==
    ASSUME NEW t \in FileType
    PROVE  /\ Len(t.named) \in Nat
           /\ DOMAIN t.named = 1..Len(t.named)
           /\ \A i \in 1..Len(t.named) :
                 RulesOf(t)[i] = MergeDefault(t.named[i].rule, DefaultRule(t))
           /\ t.default = None => DOMAIN RulesOf(t) = 1..Len(t.named)
           /\ t.default # None =>
                 /\ DOMAIN RulesOf(t) = 1..(Len(t.named) + 1)
                 /\ RulesOf(t)[Len(t.named) + 1] = t.default
<1> DEFINE n == Len(t.named)
           Merged(i) == MergeDefault(t.named[i].rule, DefaultRule(t))
           R == {Merged(i) : i \in 1..n} \cup {t.default}
           front == [i \in 1..n |-> Merged(i)]
<1>1. t.named \in Seq(NamedRule)
  BY DEF FileType
<1>2. n \in Nat /\ DOMAIN t.named = 1..n
  BY <1>1
<1> HIDE DEF Merged
<1>3. front \in Seq(R) /\ Len(front) = n
  BY <1>2
<1>4. \A i \in 1..n : front[i] = Merged(i)
  OBVIOUS
<1>5. CASE t.default = None
  <2>1. RulesOf(t) = front
    BY <1>3, <1>5, ConcatEmptySeq DEF RulesOf, MergedRules, CatchAll, Merged
  <2> QED
    BY <1>2, <1>4, <1>5, <2>1 DEF Merged
<1>6. CASE t.default # None
  <2>1. <<t.default>> \in Seq(R) /\ Len(<<t.default>>) = 1
    OBVIOUS
  <2>2. RulesOf(t) = front \o <<t.default>>
    BY <1>6 DEF RulesOf, MergedRules, CatchAll, Merged
  <2> HIDE DEF R, front
  <2>3. /\ DOMAIN RulesOf(t) = 1..(n + 1)
        /\ \A i \in 1..n : RulesOf(t)[i] = front[i]
        /\ RulesOf(t)[n + 1] = t.default
    BY <1>2, <1>3, <2>1, <2>2
  <2> QED
    BY <1>2, <1>4, <1>6, <2>3 DEF Merged
<1> QED
  BY <1>5, <1>6

\* The written rules have the fields of a rule.
LEMMA WrittenFields ==
    ASSUME NEW t \in FileType
    PROVE  /\ DefaultRule(t) \in RawRules \cup {Unset}
           /\ \A i \in 1..Len(t.named) : t.named[i].rule \in RawRules
           /\ t.default # None => t.default = DefaultRule(t)
<1>1. t.named \in Seq(NamedRule) /\ t.default \in RawRules \cup {None}
  BY DEF FileType
<1>2. \A i \in 1..Len(t.named) : t.named[i] \in NamedRule
  BY <1>1
<1> QED
  BY <1>1, <1>2 DEF NamedRule, DefaultRule

\* What merging does to the fields that can be wrong.
LEMMA MergedFields ==
    ASSUME NEW own, NEW default
    PROVE  /\ \A f \in ListFields :
                 MergeDefault(own, default)[f] = Pick(own[f], default[f])
           /\ MergeDefault(own, default).keep_count \in {own.keep_count, default.keep_count}
<1>1. \A f \in ListFields : f \in ConfigFields /\ f # "keep_count"
  BY DEF ConfigFields, ListFields
<1>2. \A f \in ListFields :
         MergeDefault(own, default)[f] = Pick(own[f], default[f])
  BY <1>1 DEF MergeDefault
<1>3. "keep_count" \in ConfigFields
  BY DEF ConfigFields
<1>4. MergeDefault(own, default).keep_count \in {own.keep_count, default.keep_count}
  BY <1>3 DEF MergeDefault, Or
<1> QED
  BY <1>2, <1>4

\* Well-formed rules merge into a well-formed rule.
LEMMA MergedWellFormed ==
    ASSUME NEW own, IsWellFormed(own), NEW default, IsWellFormed(default)
    PROVE  IsWellFormed(MergeDefault(own, default))
<1> DEFINE merged == MergeDefault(own, default)
<1>1. /\ merged.group_by = Pick(own.group_by, default.group_by)
      /\ merged.user_id = Pick(own.user_id, default.user_id)
  BY MergedFields DEF ListFields
<1>2. merged.keep_count \in {own.keep_count, default.keep_count}
  BY MergedFields
<1>3. HasKnownFields(merged)
  BY DEF HasKnownFields, MergeDefault
<1> HIDE DEF merged
<1>4. HasUserIds(merged) /\ HasKeepCount(merged) /\ merged.group_by \subseteq GroupField
  BY <1>1, <1>2 DEF IsWellFormed, HasUserIds, HasKeepCount, Pick
<1> QED
  BY <1>3, <1>4 DEF IsWellFormed, merged

(***************************************************************************)
(* A file that parses is compiled to a policy of the kind that the         *)
(* theorems about the collector assume of a configuration.                 *)
(***************************************************************************)
THEOREM LoadedIsPolicy ==
    ASSUME NEW t \in FileType, Parses(t)
    PROVE  IsPolicy(FromConfig(t))
<1>1. ASSUME NEW i \in DOMAIN RulesOf(t)
      PROVE  IsWellFormed(RulesOf(t)[i])
  <2>1. CASE i \in 1..Len(t.named)
    <3>1. t.named[i].rule \in Written(t) /\ DefaultRule(t) \in Written(t)
      BY <2>1, RulesShape DEF Written
    <3>2. IsWellFormed(t.named[i].rule) /\ IsWellFormed(DefaultRule(t))
      BY <3>1 DEF Parses
    <3> QED
      BY <2>1, <3>2, RulesShape, MergedWellFormed
  <2>2. CASE i \notin 1..Len(t.named)
    <3>1. t.default # None /\ RulesOf(t)[i] = DefaultRule(t)
      BY <2>2, <1>1, RulesShape, WrittenFields
    <3> QED
      BY <3>1 DEF Parses, Written
  <2> QED
    BY <2>1, <2>2
<1>2. PICK n \in Nat : DOMAIN RulesOf(t) = 1..n
  BY RulesShape
<1>3. DOMAIN FromConfig(t) = 1..n /\ Len(FromConfig(t)) = n
  BY <1>2 DEF FromConfig
<1>4. \A i \in 1..n : IsCompiled(FromConfig(t)[i])
  BY <1>1, <1>2, CompiledRuleIsCompiled DEF FromConfig, IsWellFormed,
     HasKeepCount
<1> QED
  BY <1>3, <1>4 DEF IsPolicy

-----------------------------------------------------------------------------
(* Type correctness.                                                       *)

\* Edits turn a file into a file.
LEMMA EditsType ==
    ASSUME file \in FileType,
           \/ \E name \in RuleNames, raw \in RawRules : AppendRule(name, raw)
           \/ DropRule
           \/ \E raw \in RawRules \cup {None} : SetDefault(raw)
    PROVE  file' \in FileType
<1>1. file.named \in Seq(NamedRule) /\ file.default \in RawRules \cup {None}
  BY DEF FileType
<1>2. CASE \E name \in RuleNames, raw \in RawRules : AppendRule(name, raw)
  <2>1. PICK name \in RuleNames, raw \in RawRules : AppendRule(name, raw)
    BY <1>2
  <2>2. [name |-> name, rule |-> raw] \in NamedRule
    BY DEF NamedRule
  <2> DEFINE named == Append(file.named, [name |-> name, rule |-> raw])
  <2>3. /\ file' = [named |-> named, default |-> file.default]
        /\ \A i \in DOMAIN file.named : file.named[i].name # name
    BY <2>1 DEF AppendRule, FileType
  <2>4. /\ named \in Seq(NamedRule)
        /\ DOMAIN named = 1..(Len(file.named) + 1)
        /\ DOMAIN file.named = 1..Len(file.named)
        /\ \A i \in 1..Len(file.named) : named[i] = file.named[i]
        /\ named[Len(file.named) + 1].name = name
    BY <1>1, <2>2
  <2>5. \A i, j \in DOMAIN file.named : file.named[i].name = file.named[j].name => i = j
    BY DEF FileType
  <2>6. Len(file.named) \in Nat
    BY <1>1
  <2> HIDE DEF named
  <2>7. \A i \in DOMAIN named : i \in DOMAIN file.named \/ i = Len(file.named) + 1
    BY <2>4, <2>6
  <2>8. \A i, j \in DOMAIN named : named[i].name = named[j].name => i = j
    BY <2>3, <2>4, <2>5, <2>7
  <2> QED
    BY <1>1, <2>3, <2>4, <2>8 DEF FileType
<1>3. CASE DropRule
  <2> DEFINE named == Tail(file.named)
  <2>1. /\ file' = [named |-> named, default |-> file.default]
        /\ file.named # <<>>
    BY <1>3 DEF DropRule, FileType
  <2>2. /\ named \in Seq(NamedRule)
        /\ DOMAIN named = 1..(Len(file.named) - 1)
        /\ \A i \in DOMAIN named : named[i] = file.named[i + 1] /\ i + 1 \in DOMAIN file.named
    BY <1>1, <2>1
  <2>3. \A i, j \in DOMAIN file.named : file.named[i].name = file.named[j].name => i = j
    BY DEF FileType
  <2> HIDE DEF named
  <2>4. ASSUME NEW i \in DOMAIN named, NEW j \in DOMAIN named, named[i].name = named[j].name
        PROVE  i = j
    <3>1. i + 1 = j + 1
      BY <2>2, <2>3, <2>4
    <3> QED
      BY <2>2, <3>1
  <2> QED
    BY <1>1, <2>1, <2>2, <2>4 DEF FileType
<1>4. CASE \E raw \in RawRules \cup {None} : SetDefault(raw)
  BY <1>1, <1>4 DEF SetDefault, FileType
<1> QED
  BY <1>2, <1>3, <1>4

(***************************************************************************)
(* The policy in use is always the compiled form of a file that was there, *)
(* and of the kind that the collector relies on.                           *)
(***************************************************************************)
THEOREM PolicyInUse == Spec => []ConfigTypeOK
<1>1. Init => ConfigTypeOK
  <2> SUFFICES ASSUME Init PROVE ConfigTypeOK
    OBVIOUS
  <2>1. <<>> \in Seq(NamedRule) /\ DOMAIN <<>> = {} /\ Len(<<>>) = 0 /\ 1..0 = {}
    OBVIOUS
  <2>2. EmptyFile \in FileType
    BY <2>1 DEF EmptyFile, FileType
  <2>3. IsPolicy(<<>>)
    BY <2>1 DEF IsPolicy
  <2> QED
    BY <2>2, <2>3 DEF Init, ConfigTypeOK
<1>2. ConfigTypeOK /\ [Next]_vars => ConfigTypeOK'
  <2> SUFFICES ASSUME ConfigTypeOK, [Next]_vars PROVE ConfigTypeOK'
    OBVIOUS
  <2>1. CASE UNCHANGED vars
    BY <2>1 DEF ConfigTypeOK, vars
  <2>2. CASE Load
    <3>1. None \notin FileType
      BY ConfigAssumption
    <3>2. /\ inUse' = file /\ file' = file /\ rules' = FromConfig(file)
          /\ IsPolicy(FromConfig(file)) /\ file \in FileType
      BY <2>2, LoadedIsPolicy DEF Load, ConfigTypeOK
    <3> QED
      BY <3>1, <3>2 DEF ConfigTypeOK
  <2>3. CASE \/ \E name \in RuleNames, raw \in RawRules : AppendRule(name, raw)
             \/ DropRule
             \/ \E raw \in RawRules \cup {None} : SetDefault(raw)
    <3>1. file' \in FileType
      BY <2>3, EditsType DEF ConfigTypeOK
    <3>2. UNCHANGED <<inUse, rules>>
      BY <2>3 DEF AppendRule, DropRule, SetDefault
    <3> QED
      BY <3>1, <3>2 DEF ConfigTypeOK
  <2> QED
    BY <2>1, <2>2, <2>3 DEF Next
<1> QED
  BY <1>1, <1>2, PTL DEF Spec

-----------------------------------------------------------------------------
(* Which dumps have a rule.                                                *)

\* Of a policy with a rule that matches, first_match returns a rule.
LEMMA FirstMatchFound ==
    ASSUME NEW policy, IsPolicy(policy), NEW d, NEW context,
           NEW i \in DOMAIN policy, Matches(policy[i], d, context)
    PROVE  FirstMatch(policy, d, context) # NoRule
<1> DEFINE S == {j \in DOMAIN policy : Matches(policy[j], d, context)}
<1>1. S \in SUBSET Nat /\ S # {} /\ \A j \in S : j > 0
  BY DEF IsPolicy
<1>2. Least(S) \in S
  BY <1>1, LeastExists
<1> QED
  BY <1>1, <1>2 DEF FirstMatch, FirstOf, NoRule

\* A rule with no match field is compiled to one that matches everything.
LEMMA UnconstrainedMatches ==
    ASSUME NEW rule, IsUnconstrained(rule), NEW d, NEW context
    PROVE  Matches(CompiledRule(rule), d, context)
BY DEF CompiledRule, Matches

(***************************************************************************)
(* A DEFAULT rule without match fields leaves no dump unmatched.           *)
(***************************************************************************)
THEOREM DefaultIsCatchAll == Spec => []DefaultCatchesAll
<1>1. ConfigTypeOK => DefaultCatchesAll
  <2> SUFFICES ASSUME ConfigTypeOK, inUse # None, inUse.default # None,
                      IsUnconstrained(DefaultRule(inUse)),
                      NEW d \in Dumps, NEW context \in Contexts
               PROVE  FirstMatch(rules, d, context) # NoRule
    BY DEF DefaultCatchesAll
  <2> DEFINE last == Len(inUse.named) + 1
  <2>1. inUse \in FileType /\ rules = FromConfig(inUse) /\ IsPolicy(rules)
    BY DEF ConfigTypeOK
  <2>2. last \in DOMAIN RulesOf(inUse) /\ RulesOf(inUse)[last] = DefaultRule(inUse)
    BY <2>1, RulesShape, WrittenFields
  <2>3. last \in DOMAIN rules /\ rules[last] = CompiledRule(DefaultRule(inUse))
    BY <2>1, <2>2 DEF FromConfig
  <2> QED
    BY <2>1, <2>3, UnconstrainedMatches, FirstMatchFound
<1> QED
  BY <1>1, PolicyInUse, PTL

\* What from_rule refuses in a merged rule is in the rule or in DEFAULT, and
\* what it refuses in a written rule is still there when it is merged.
LEMMA MergedCompilable ==
    ASSUME NEW own, NEW default, IsCompilable(default)
    PROVE  IsCompilable(MergeDefault(own, default)) <=> IsCompilable(own)
<1> DEFINE merged == MergeDefault(own, default)
<1>1. /\ merged.process_name = Pick(own.process_name, default.process_name)
      /\ merged.executable_path = Pick(own.executable_path, default.executable_path)
      /\ merged.command_line = Pick(own.command_line, default.command_line)
      /\ merged.user_name = Pick(own.user_name, default.user_name)
  BY MergedFields DEF ListFields
<1>2. ASSUME NEW mine, NEW theirs, NEW bad, theirs \cap bad = {}
      PROVE  Pick(mine, theirs) \cap bad = {} <=> mine \cap bad = {}
  BY <1>2 DEF Pick
<1>3. \A rule : IsCompilable(rule) <=>
         /\ rule.process_name \cap TooLong = {}
         /\ rule.process_name \cap Malformed = {}
         /\ rule.executable_path \cap Malformed = {}
         /\ rule.command_line \cap Malformed = {}
         /\ rule.user_name \subseteq DOMAIN Passwd
  BY DEF IsCompilable
<1>4. merged.user_name \subseteq DOMAIN Passwd <=> own.user_name \subseteq DOMAIN Passwd
  BY <1>1, <1>3 DEF Pick
<1> HIDE DEF merged
<1>5. IsCompilable(merged) <=> IsCompilable(own)
  BY <1>1, <1>2, <1>3, <1>4
<1> QED
  BY <1>5 DEF merged

(***************************************************************************)
(* A file can be used exactly when each of its rules could be.             *)
(***************************************************************************)
THEOREM ErrorsFoundWhereMade == Spec => []ErrorsAreLocal
<1>1. ConfigTypeOK => ErrorsAreLocal
  <2> SUFFICES ASSUME file \in FileType
               PROVE  Compiles(file) <=> \A raw \in Written(file) : IsCompilable(raw)
    BY DEF ConfigTypeOK, ErrorsAreLocal, Parses
  <2> DEFINE n == Len(file.named)
  <2>1. IsCompilable(Unset)
    BY DEF IsCompilable, Unset, ConfigFields, ListFields
  <2>2. Compiles(file) => IsCompilable(DefaultRule(file))
    <3>1. CASE file.default = None
      BY <2>1, <3>1 DEF DefaultRule
    <3>2. CASE file.default # None
      BY <3>2, RulesShape, WrittenFields DEF Compiles
    <3> QED
      BY <3>1, <3>2
  <2>3. ASSUME IsCompilable(DefaultRule(file)), NEW i \in 1..n
        PROVE  IsCompilable(RulesOf(file)[i]) <=> IsCompilable(file.named[i].rule)
    BY <2>3, RulesShape, MergedCompilable
  <2>4. 1..n \subseteq DOMAIN RulesOf(file) /\ DOMAIN file.named = 1..n
    BY RulesShape
  <2>5. ASSUME NEW i \in DOMAIN RulesOf(file), i \notin 1..n
        PROVE  RulesOf(file)[i] = DefaultRule(file)
    BY <2>5, RulesShape, WrittenFields
  <2>6. DefaultRule(file) \in Written(file)
        /\ \A i \in 1..n : file.named[i].rule \in Written(file)
    BY <2>4 DEF Written
  <2>7. ASSUME Compiles(file), NEW raw \in Written(file)
        PROVE  IsCompilable(raw)
    BY <2>2, <2>3, <2>4, <2>7 DEF Compiles, Written
  <2>8. ASSUME \A raw \in Written(file) : IsCompilable(raw),
               NEW i \in DOMAIN RulesOf(file)
        PROVE  IsCompilable(RulesOf(file)[i])
    BY <2>3, <2>5, <2>6, <2>8
  <2> QED
    BY <2>7, <2>8 DEF Compiles
<1> QED
  BY <1>1, PolicyInUse, PTL

-----------------------------------------------------------------------------
(* Edits at the end of the file.                                           *)

\* Whether a compiled rule matches is a matter of its match fields.
LEMMA SameMatchFieldsMatchAlike ==
    ASSUME NEW rule1, NEW rule2, MatchFields(rule1) = MatchFields(rule2),
           NEW d, NEW context
    PROVE  Matches(CompiledRule(rule1), d, context) <=> Matches(CompiledRule(rule2), d, context)
<1>1. \A f \in ListFields \ {"group_by"} : rule1[f] = rule2[f]
  BY DEF MatchFields
<1>2. /\ rule1.process_name = rule2.process_name
      /\ rule1.executable_path = rule2.executable_path
      /\ rule1.command_line = rule2.command_line
      /\ rule1.signal = rule2.signal
      /\ rule1.user_id = rule2.user_id
      /\ rule1.user_name = rule2.user_name
  BY <1>1 DEF ListFields
<1>3. MatchPatterns(rule1) = MatchPatterns(rule2)
  BY <1>2 DEF MatchPatterns, UserIds
<1>4. IsUnconstrained(rule1) <=> IsUnconstrained(rule2)
  BY <1>2 DEF IsUnconstrained
<1> QED
  BY <1>3, <1>4 DEF CompiledRule, Matches, FieldMatches

\* Two defaults with the same match fields merge alike, as far as matching goes.
LEMMA SameDefaultsMergeAlike ==
    ASSUME NEW own, NEW default1, NEW default2,
           MatchFields(default1) = MatchFields(default2)
    PROVE  MatchFields(MergeDefault(own, default1)) = MatchFields(MergeDefault(own, default2))
<1>1. \A f \in ListFields \ {"group_by"} : default1[f] = default2[f]
  BY DEF MatchFields
<1>2. \A f \in ListFields \ {"group_by"} :
         MergeDefault(own, default1)[f] = MergeDefault(own, default2)[f]
  BY <1>1, MergedFields
<1> QED
  BY <1>2 DEF MatchFields

\* The named rules of a file and of an extension of it match alike, and so do
\* their DEFAULTs.
LEMMA ExtensionMatchesAlike ==
    ASSUME NEW t \in FileType, NEW extended \in FileType, Extends(t, extended),
           NEW d, NEW context
    PROVE  /\ \A i \in 1..Len(t.named) :
                 /\ i \in DOMAIN FromConfig(t) /\ i \in DOMAIN FromConfig(extended)
                 /\ Matches(FromConfig(t)[i], d, context)
                      <=> Matches(FromConfig(extended)[i], d, context)
           /\ \A i \in DOMAIN FromConfig(t) \ (1..Len(t.named)) :
                 Matches(FromConfig(t)[i], d, context) =>
                    \E j \in DOMAIN FromConfig(extended) :
                        Matches(FromConfig(extended)[j], d, context)
<1>1. ASSUME NEW i \in 1..Len(t.named)
      PROVE  /\ i \in DOMAIN FromConfig(t) /\ i \in DOMAIN FromConfig(extended)
             /\ Matches(FromConfig(t)[i], d, context)
                  <=> Matches(FromConfig(extended)[i], d, context)
  <2>1. i \in 1..Len(extended.named) /\ extended.named[i] = t.named[i]
    BY RulesShape DEF Extends
  <2>2. i \in DOMAIN RulesOf(t) /\ i \in DOMAIN RulesOf(extended)
    BY <2>1, RulesShape
  <2>3. MatchFields(RulesOf(t)[i]) = MatchFields(RulesOf(extended)[i])
    BY <2>1, RulesShape, SameDefaultsMergeAlike DEF Extends
  <2> QED
    BY <2>2, <2>3, SameMatchFieldsMatchAlike DEF FromConfig
<1>2. ASSUME NEW i \in DOMAIN FromConfig(t) \ (1..Len(t.named)),
             Matches(FromConfig(t)[i], d, context)
      PROVE  \E j \in DOMAIN FromConfig(extended) :
                 Matches(FromConfig(extended)[j], d, context)
  <2> DEFINE j == Len(extended.named) + 1
  <2>1. t.default # None /\ RulesOf(t)[i] = DefaultRule(t) /\ i \in DOMAIN RulesOf(t)
    BY <1>2, RulesShape, WrittenFields DEF FromConfig
  <2>2. j \in DOMAIN RulesOf(extended) /\ RulesOf(extended)[j] = DefaultRule(extended)
    BY <2>1, RulesShape, WrittenFields DEF Extends
  <2>3. /\ j \in DOMAIN FromConfig(extended)
        /\ FromConfig(extended)[j] = CompiledRule(DefaultRule(extended))
        /\ FromConfig(t)[i] = CompiledRule(DefaultRule(t))
    BY <2>1, <2>2 DEF FromConfig
  <2> QED
    BY <1>2, <2>3, SameMatchFieldsMatchAlike DEF Extends
<1> QED
  BY <1>1, <1>2

\* The step that takes an extended file.
LEMMA ExtensionStep ==
    ASSUME ConfigTypeOK, Load, inUse # None, Extends(inUse, file),
           NEW d, NEW context, FirstMatch(rules, d, context) # NoRule
    PROVE  /\ FirstMatch(rules', d, context) # NoRule
           /\ FirstMatch(rules, d, context) \in DOMAIN inUse.named =>
                 FirstMatch(rules', d, context) = FirstMatch(rules, d, context)
<1> DEFINE S == {i \in DOMAIN rules : Matches(rules[i], d, context)}
           T == {i \in DOMAIN rules' : Matches(rules'[i], d, context)}
           r == FirstMatch(rules, d, context)
           n == Len(inUse.named)
<1>1. /\ inUse \in FileType /\ file \in FileType
      /\ rules = FromConfig(inUse) /\ IsPolicy(rules)
      /\ rules' = FromConfig(file) /\ IsPolicy(rules')
  BY LoadedIsPolicy DEF ConfigTypeOK, Load
<1>2. n \in Nat /\ DOMAIN inUse.named = 1..n
  BY <1>1, RulesShape
<1>3. S \in SUBSET Nat /\ T \in SUBSET Nat /\ S # {} /\ r = Least(S)
  BY <1>1 DEF IsPolicy, FirstMatch, FirstOf
<1>4. r \in S /\ \A i \in S : r <= i
  BY <1>3, LeastExists
<1>5. \A i \in 1..n : i \in S <=> i \in T
  BY <1>1, ExtensionMatchesAlike
<1>6. T # {}
  BY <1>1, <1>4, <1>5, ExtensionMatchesAlike
<1>7. FirstMatch(rules', d, context) # NoRule
  BY <1>1, <1>6, FirstMatchFound
<1>8. ASSUME r \in 1..n
      PROVE  FirstMatch(rules', d, context) = r
  <2>1. r \in T
    BY <1>4, <1>5, <1>8
  <2>2. ASSUME NEW i \in T
        PROVE  r <= i
    <3>1. i \in Nat /\ i >= 1 /\ r \in Nat
      BY <1>1, <1>2, <1>8 DEF IsPolicy
    <3> HIDE DEF S, T, r, n
    <3>2. CASE i \in 1..n
      BY <1>4, <1>5, <2>2, <3>2
    <3>3. CASE i > n
      BY <1>2, <1>8, <3>1, <3>3
    <3> QED
      BY <1>2, <3>1, <3>2, <3>3
  <2>3. Least(T) = r
    BY <1>3, <2>1, <2>2, LeastUnique
  <2> QED
    BY <1>6, <2>3 DEF FirstMatch, FirstOf
<1> QED
  BY <1>2, <1>7, <1>8

(***************************************************************************)
(* Rules written at the end of the file take no dump from the named rule   *)
(* it has, and leave none without a rule.                                  *)
(***************************************************************************)
THEOREM ExtensionHarmless == Spec => ExtensionKeepsMatches
<1>1. ConfigTypeOK /\ [Next]_vars =>
        [Load /\ inUse # None /\ Extends(inUse, file) =>
            \A d \in Dumps, context \in Contexts :
                LET before == FirstMatch(rules, d, context)
                    after  == FirstMatch(rules', d, context)
                IN  before # NoRule =>
                        /\ after # NoRule
                        /\ before \in DOMAIN inUse.named => after = before]_vars
  BY ExtensionStep
<1> QED
  BY <1>1, PolicyInUse, PTL DEF Spec, ExtensionKeepsMatches
=============================================================================
