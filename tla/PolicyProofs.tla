---------------------------- MODULE PolicyProofs ----------------------------
(***************************************************************************)
(* The pure part of the collector. Rules are compiled consistently, and    *)
(* classification may ask the journal lazily (Policy). What                *)
(* compute_keep_count_excess leaves of a bucket is as many dumps as the    *)
(* cap allows, and none of them older than one it marks (KeepCount): the   *)
(* sort behind it is a strict total order on the bucket, so ranks are a    *)
(* bijection onto the positions of the sorted bucket.                      *)
(***************************************************************************)
EXTENDS KeepCount, FiniteSetTheorems, FunctionTheorems, WellFoundedInduction,
        NaturalsInduction, TLAPS

(***************************************************************************)
(* CompiledRule::from_rule fills needs_journal and is_unconstrained so     *)
(* that they agree with the patterns: what the assumption on the policies  *)
(* of a configuration asks for.                                            *)
(***************************************************************************)
LEMMA CompiledRuleIsCompiled ==
    ASSUME NEW rule, rule.keep_count \in Nat \cup {None}
    PROVE  IsCompiled(CompiledRule(rule))
<1> DEFINE m == MatchPatterns(rule)
<1>1. IsUnconstrained(rule) <=> \A f \in MatchField : m[f] = {}
  <2>1. m["signal"] = {} <=> rule.signal = {}
    BY DEF MatchPatterns
  <2>2. UserIds(rule) = {} <=> rule.user_id = {} /\ rule.user_name = {}
    BY DEF UserIds
  <2>3. m["user_id"] = {} <=> UserIds(rule) = {}
    BY DEF MatchPatterns
  <2>4. /\ m["process_name"] = rule.process_name
        /\ m["executable_path"] = rule.executable_path
        /\ m["command_line"] = rule.command_line
    BY DEF MatchPatterns
  <2>5. (\A f \in MatchField : m[f] = {}) <=>
           /\ m["process_name"] = {} /\ m["executable_path"] = {}
           /\ m["command_line"] = {} /\ m["signal"] = {} /\ m["user_id"] = {}
    BY DEF MatchField, JournalField
  <2> QED
    BY <2>1, <2>2, <2>3, <2>4, <2>5 DEF IsUnconstrained
<1>2. QED
  BY <1>1 DEF IsCompiled, CompiledRule, IsUnconstrained

\* A set of rule numbers that is not empty has a least element.
LEMMA LeastExists ==
    ASSUME NEW S \in SUBSET Nat, S # {}
    PROVE  /\ Least(S) \in S
           /\ \A j \in S : Least(S) <= j
<1>1. PICK i \in S : \A j \in S : ~ (<<j, i>> \in OpToRel(<, Nat))
  BY NatLessThanWellFounded, WFMin
<1>2. \A j \in S : i <= j
  <2> SUFFICES ASSUME NEW j \in S, j < i
               PROVE  FALSE
    OBVIOUS
  <2>1. <<j, i>> \in Nat \X Nat /\ <<j, i>>[1] = j /\ <<j, i>>[2] = i
    OBVIOUS
  <2>2. <<j, i>> \in {ss \in Nat \X Nat : ss[1] < ss[2]}
    BY <2>1
  <2>3. <<j, i>> \in OpToRel(<, Nat)
    BY <2>2, Zenon DEF OpToRel
  <2> QED
    BY <1>1, <2>3
<1> QED
  BY <1>2 DEF Least

\* Least is the lower bound that is in the set.
LEMMA LeastUnique ==
    ASSUME NEW S \in SUBSET Nat, NEW r \in S, \A j \in S : r <= j
    PROVE  Least(S) = r
<1>1. Least(S) \in S /\ \A j \in S : Least(S) <= j
  BY LeastExists
<1>2. Least(S) <= r /\ r <= Least(S)
  BY <1>1
<1>3. \A m, n \in Nat : m <= n /\ n <= m => m = n
  OBVIOUS
<1>4. Least(S) \in Nat /\ r \in Nat
  BY <1>1
<1> QED
  BY <1>2, <1>3, <1>4, Zenon

\* The first of a set of positions is a position or NoRule.
LEMMA FirstOfType ==
    ASSUME NEW S \in SUBSET Nat
    PROVE  FirstOf(S) \in Nat
BY LeastExists DEF FirstOf, NoRule

\* A rule that classify returns is one of the rules.
LEMMA LazyMatchInRules ==
    ASSUME NEW rules, IsPolicy(rules), NEW d, NEW found,
           LazyMatch(rules, d, found) # NoRule
    PROVE  LazyMatch(rules, d, found) \in DOMAIN rules
<1> DEFINE L == {i \in DOMAIN rules : Matches(rules[i], d, ContextAt(rules, i, found))}
<1>1. L \in SUBSET Nat /\ L # {}
  BY DEF IsPolicy, LazyMatch, FirstOf
<1>2. LazyMatch(rules, d, found) = Least(L)
  BY <1>1 DEF LazyMatch, FirstOf
<1> QED
  BY <1>1, <1>2, LeastExists

\* A rule that does not need the journal does not look at it.
LEMMA JournalUnused ==
    ASSUME NEW rule, IsCompiled(rule), ~ rule.needs_journal,
           NEW d, NEW context1, NEW context2
    PROVE  Matches(rule, d, context1) <=> Matches(rule, d, context2)
<1>1. \A f \in JournalField : rule.match[f] = {}
  BY DEF IsCompiled, NeedsJournal
<1>2. ASSUME NEW f \in MatchField, f \notin JournalField
      PROVE  FieldMatches(rule, d, context1, f) <=> FieldMatches(rule, d, context2, f)
  BY <1>2 DEF FieldMatches, Extract
<1> QED
  BY <1>1, <1>2 DEF Matches

\* Nor does it group by it.
LEMMA GroupKeyWithoutJournal ==
    ASSUME NEW rule, IsCompiled(rule), ~ rule.needs_journal,
           NEW d, NEW context1, NEW context2
    PROVE  GroupKey(rule, d, context1) = GroupKey(rule, d, context2)
<1>1. \A f \in JournalField : f \notin rule.group_by
  BY DEF IsCompiled, NeedsJournal
<1> QED
  BY <1>1 DEF GroupKey, Extract

\* The cache is filled when a rule that needs the journal is tried.
LEMMA ContextWhenNeeded ==
    ASSUME NEW rules, IsPolicy(rules), NEW i \in DOMAIN rules,
           rules[i].needs_journal, NEW found
    PROVE  ContextAt(rules, i, found) = found
<1>1. i \in 1..i
  BY DEF IsPolicy
<1> QED
  BY <1>1 DEF ContextAt

(***************************************************************************)
(* When the journal answers, classify finds the rule that first_match      *)
(* finds with the whole context.                                           *)
(***************************************************************************)
LEMMA LazyMatchIsFirstMatch ==
    ASSUME NEW rules, IsPolicy(rules), NEW d, NEW found
    PROVE  LazyMatch(rules, d, found) = FirstMatch(rules, d, found)
<1>1. ASSUME NEW i \in DOMAIN rules
      PROVE  Matches(rules[i], d, ContextAt(rules, i, found)) <=>
             Matches(rules[i], d, found)
  <2>1. CASE rules[i].needs_journal
    BY <2>1, ContextWhenNeeded
  <2>2. CASE ~ rules[i].needs_journal
    BY <2>2, JournalUnused DEF IsPolicy
  <2> QED
    BY <2>1, <2>2
<1> QED
  BY <1>1 DEF LazyMatch, FirstMatch

\* It finds the group_by key of the whole context too.
LEMMA ClassifyIsFirstMatch ==
    ASSUME NEW rules, IsPolicy(rules), NEW d, NEW found
    PROVE  LET c == Classify(rules, d, found)
           IN  /\ c.rule_index = FirstMatch(rules, d, found)
               /\ c.rule_index # NoRule =>
                     /\ c.rule_index \in DOMAIN rules
                     /\ GroupKey(rules[c.rule_index], d, c.context) =
                        GroupKey(rules[c.rule_index], d, found)
<1> DEFINE r == LazyMatch(rules, d, found)
<1>1. r = FirstMatch(rules, d, found) /\ (r # NoRule => r \in DOMAIN rules)
  BY LazyMatchIsFirstMatch, LazyMatchInRules
<1>2. ASSUME r # NoRule
      PROVE  GroupKey(rules[r], d, ContextAt(rules, r, found)) = GroupKey(rules[r], d, found)
  <2>1. CASE rules[r].needs_journal
    BY <1>1, <1>2, <2>1, ContextWhenNeeded
  <2>2. CASE ~ rules[r].needs_journal
    BY <1>1, <1>2, <2>2, GroupKeyWithoutJournal DEF IsPolicy
  <2> QED
    BY <2>1, <2>2
<1> QED
  BY <1>1, <1>2 DEF Classify

(***************************************************************************)
(* When it was not asked before a rule was found, its answer would not     *)
(* have changed the rule.                                                  *)
(***************************************************************************)
LEMMA UnaskedMatchIsFirstMatch ==
    ASSUME NEW rules, IsPolicy(rules), NEW d, NEW found, NEW entry,
           LET r == LazyMatch(rules, d, found)
           IN  \A j \in 1..(IF r = NoRule THEN Len(rules) ELSE r) :
                  ~ rules[j].needs_journal
    PROVE  LazyMatch(rules, d, found) = FirstMatch(rules, d, entry)
<1> DEFINE L == {i \in DOMAIN rules : Matches(rules[i], d, ContextAt(rules, i, found))}
           E == {i \in DOMAIN rules : Matches(rules[i], d, entry)}
           r == LazyMatch(rules, d, found)
<1>1. L \in SUBSET Nat /\ E \in SUBSET Nat
  BY DEF IsPolicy
<1>2. r = FirstOf(L) /\ FirstMatch(rules, d, entry) = FirstOf(E)
  BY DEF LazyMatch, FirstMatch
<1>3. ASSUME NEW i \in DOMAIN rules, ~ rules[i].needs_journal
      PROVE  i \in L <=> i \in E
  BY <1>3, JournalUnused DEF IsPolicy
<1>4. CASE L = {}
  <2>1. r = NoRule
    BY <1>2, <1>4 DEF FirstOf
  <2>2. \A i \in DOMAIN rules : ~ rules[i].needs_journal
    BY <2>1 DEF IsPolicy
  <2>3. E = {}
    BY <2>2, <1>3, <1>4
  <2> QED
    BY <2>1, <2>3, <1>2 DEF FirstOf
<1>5. CASE L # {}
  <2>1. r = Least(L)
    BY <1>2, <1>5 DEF FirstOf
  <2>2. r \in L /\ \A j \in L : r <= j
    BY <2>1, <1>1, <1>5, LeastExists
  <2>3. r \in Nat /\ r # NoRule
    BY <2>2 DEF IsPolicy, NoRule
  <2>4. \A j \in DOMAIN rules : j <= r => ~ rules[j].needs_journal
    BY <2>3 DEF IsPolicy
  <2>5. r \in E
    BY <2>2, <2>4, <1>3
  <2>6. \A j \in E : r <= j
    BY <2>2, <2>3, <2>4, <1>1, <1>3
  <2>7. Least(E) = r
    BY <2>5, <2>6, <1>1, LeastUnique
  <2> QED
    BY <2>5, <2>7, <1>2 DEF FirstOf
<1> QED
  BY <1>4, <1>5

-----------------------------------------------------------------------------
(* Quotas.                                                                 *)

\* A bucket is a finite set of indices of classified dumps.
IsBucket(classified, G) ==
    /\ G \in SUBSET Nat
    /\ IsFiniteSet(G)
    /\ \A i \in G : classified[i].dump \in Dumps

\* The sort compares any two dumps of a bucket, one way and not the other.
LEMMA AheadIsStrictTotalOrder ==
    ASSUME NEW classified, NEW G, IsBucket(classified, G)
    PROVE  /\ \A i \in G : ~ Ahead(classified, i, i)
           /\ \A i, j, k \in G :
                 Ahead(classified, i, j) /\ Ahead(classified, j, k)
                     => Ahead(classified, i, k)
           /\ \A i, j \in G :
                 i = j \/ Ahead(classified, i, j) \/ Ahead(classified, j, i)
<1> DEFINE T(i) == Timestamp[classified[i].dump]
<1>1. \A i \in G : T(i) \in Nat /\ i \in Nat
  BY TimestampAssumption DEF IsBucket
<1>2. \A i, j : Ahead(classified, i, j) <=> T(i) > T(j) \/ (T(i) = T(j) /\ i < j)
  BY DEF Ahead
<1> HIDE DEF T
<1> QED
  BY <1>1, <1>2

\* A dump of a bucket has a position in it.
LEMMA RankType ==
    ASSUME NEW classified, NEW G, IsBucket(classified, G), NEW i \in G
    PROVE  Rank(classified, G, i) \in 0..(Cardinality(G) - 1)
<1> DEFINE before == {j \in G : Ahead(classified, j, i)}
<1>1. IsFiniteSet(G) /\ Cardinality(G) \in Nat
  BY FS_CardinalityType DEF IsBucket
<1>2. before \in SUBSET G /\ i \notin before
  BY AheadIsStrictTotalOrder
<1>3. IsFiniteSet(before) /\ Cardinality(before) <= Cardinality(G)
      /\ (Cardinality(G) = Cardinality(before) => G = before)
  BY <1>1, <1>2, FS_Subset
<1>4. Cardinality(before) \in Nat
  BY <1>3, FS_CardinalityType
<1>5. Cardinality(before) # Cardinality(G)
  BY <1>2, <1>3
<1> HIDE DEF before
<1>6. Cardinality(before) \in 0..(Cardinality(G) - 1)
  BY <1>1, <1>3, <1>4, <1>5
<1> QED
  BY <1>6 DEF Rank, before

\* A dump ahead of another has the lower rank.
LEMMA RankFollowsOrder ==
    ASSUME NEW classified, NEW G, IsBucket(classified, G),
           NEW i \in G, NEW j \in G, Ahead(classified, i, j)
    PROVE  Rank(classified, G, i) < Rank(classified, G, j)
<1> DEFINE before(k) == {l \in G : Ahead(classified, l, k)}
<1>1. before(i) \in SUBSET before(j)
  BY AheadIsStrictTotalOrder
<1>2. i \in before(j) /\ i \notin before(i)
  BY AheadIsStrictTotalOrder
<1>3. IsFiniteSet(before(j)) /\ before(j) \in SUBSET G
  BY FS_Subset DEF IsBucket
<1>4. /\ IsFiniteSet(before(i))
      /\ Cardinality(before(i)) <= Cardinality(before(j))
      /\ Cardinality(before(j)) = Cardinality(before(i)) => before(j) = before(i)
  BY <1>1, <1>3, FS_Subset
<1>5. Cardinality(before(i)) # Cardinality(before(j))
  BY <1>2, <1>4
<1>6. Cardinality(before(i)) \in Nat /\ Cardinality(before(j)) \in Nat
  BY <1>3, <1>4, FS_CardinalityType
<1>7. Rank(classified, G, i) = Cardinality(before(i))
      /\ Rank(classified, G, j) = Cardinality(before(j))
  BY DEF Rank
<1> HIDE DEF before
<1> QED
  BY <1>4, <1>5, <1>6, <1>7

\* Every position of the sorted bucket is held by one dump.
LEMMA RankIsBijection ==
    ASSUME NEW classified, NEW G, IsBucket(classified, G)
    PROVE  /\ \A i, j \in G :
                 Rank(classified, G, i) = Rank(classified, G, j) => i = j
           /\ \A r \in 0..(Cardinality(G) - 1) :
                 \E i \in G : Rank(classified, G, i) = r
<1> DEFINE n == Cardinality(G)
           f == [i \in G |-> Rank(classified, G, i)]
<1>1. n \in Nat /\ IsFiniteSet(G)
  BY FS_CardinalityType DEF IsBucket
<1>2. f \in [G -> 0..(n - 1)]
  BY RankType
<1>3. \A i, j \in G : Rank(classified, G, i) = Rank(classified, G, j) => i = j
  <2> SUFFICES ASSUME NEW i \in G, NEW j \in G, i # j
               PROVE  Rank(classified, G, i) # Rank(classified, G, j)
    OBVIOUS
  <2>1. Ahead(classified, i, j) \/ Ahead(classified, j, i)
    BY AheadIsStrictTotalOrder
  <2>2. Rank(classified, G, i) < Rank(classified, G, j)
        \/ Rank(classified, G, j) < Rank(classified, G, i)
    BY <2>1, RankFollowsOrder
  <2>3. Rank(classified, G, i) \in Nat /\ Rank(classified, G, j) \in Nat
    BY <1>1, RankType
  <2> QED
    BY <2>2, <2>3
<1>4. f \in Injection(G, 0..(n - 1))
  BY <1>2, <1>3, Fun_IsInj
<1>5. IsFiniteSet(0..(n - 1)) /\ Cardinality(0..(n - 1)) = n
  <2>1. 0 \in Int /\ n - 1 \in Int
    BY <1>1
  <2>2. IsFiniteSet(0..(n - 1))
        /\ Cardinality(0..(n - 1)) = IF 0 > n - 1 THEN 0 ELSE (n - 1) - 0 + 1
    BY <2>1, FS_Interval
  <2> HIDE DEF n
  <2> QED
    BY <1>1, <2>2
<1>6. f \in Surjection(G, 0..(n - 1))
  BY <1>4, <1>5, FS_Injection
<1>7. \A r \in 0..(n - 1) : \E i \in G : f[i] = r
  BY <1>6, Zenon DEF Surjection
<1> QED
  BY <1>3, <1>7

(***************************************************************************)
(* mark_excess spares as many dumps of a bucket as the cap says, or all of *)
(* them, and no dump that it spares is older than one that it marks.       *)
(***************************************************************************)
THEOREM MarkExcessKeepsNewest ==
    ASSUME NEW classified, NEW G, IsBucket(classified, G), NEW cap \in Nat
    PROVE  LET kept == G \ MarkExcess(classified, G, cap)
           IN  /\ Cardinality(kept) =
                     IF Cardinality(G) < cap THEN Cardinality(G) ELSE cap
               /\ \A k \in kept, x \in G \ kept :
                     Timestamp[classified[k].dump] >= Timestamp[classified[x].dump]
<1> DEFINE n    == Cardinality(G)
           m    == IF n < cap THEN n ELSE cap
           kept == G \ MarkExcess(classified, G, cap)
           R(i) == Rank(classified, G, i)
           g    == [i \in kept |-> R(i)]
<1>1. n \in Nat /\ m \in Nat /\ \A i \in G : R(i) \in 0..(n - 1)
  BY FS_CardinalityType, RankType DEF IsBucket
<1>2. kept = {i \in G : R(i) < cap}
  BY <1>1 DEF MarkExcess
<1>3. \A i \in G : i \in kept <=> R(i) \in 0..(m - 1)
  BY <1>1, <1>2
<1>4. Cardinality(kept) = m
  <2>1. g \in [kept -> 0..(m - 1)]
    BY <1>2, <1>3
  <2>2. \A i, j \in kept : g[i] = g[j] => i = j
    BY <1>2, RankIsBijection
  <2>3. \A r \in 0..(m - 1) : \E i \in kept : g[i] = r
    <3> SUFFICES ASSUME NEW r \in 0..(m - 1)
                 PROVE  \E i \in kept : g[i] = r
      OBVIOUS
    <3>1. r \in 0..(n - 1)
      BY <1>1
    <3>2. PICK i \in G : R(i) = r
      BY <3>1, RankIsBijection
    <3> QED
      BY <3>2, <1>3
  <2>4. g \in Bijection(kept, 0..(m - 1))
    BY <2>1, <2>2, <2>3, Fun_IsBij
  <2>5. ExistsBijection(kept, 0..(m - 1))
    BY <2>4 DEF ExistsBijection
  <2>6. IsFiniteSet(kept)
    BY FS_Subset, <1>2 DEF IsBucket
  <2>7. Cardinality(0..(m - 1)) = Cardinality(kept)
    BY <2>5, <2>6, FS_Bijection
  <2> HIDE DEF m, kept
  <2>8. 0 \in Int /\ m - 1 \in Int
    BY <1>1
  <2>9. Cardinality(0..(m - 1)) = IF 0 > m - 1 THEN 0 ELSE (m - 1) - 0 + 1
    BY <2>8, FS_Interval
  <2> QED
    BY <1>1, <2>7, <2>9
<1>5. ASSUME NEW k \in kept, NEW x \in G \ kept
      PROVE  Timestamp[classified[k].dump] >= Timestamp[classified[x].dump]
  <2>1. R(k) < R(x) /\ k # x
    BY <1>1, <1>2
  <2>2. ~ Ahead(classified, x, k)
    BY <1>1, <1>2, <2>1, RankFollowsOrder
  <2>3. Ahead(classified, k, x)
    BY <1>2, <2>1, <2>2, AheadIsStrictTotalOrder
  <2>4. Timestamp[classified[k].dump] \in Nat /\ Timestamp[classified[x].dump] \in Nat
    BY <1>2, TimestampAssumption DEF IsBucket
  <2> QED
    BY <2>3, <2>4 DEF Ahead
<1> QED
  BY <1>4, <1>5

\* The dumps of one bucket have the bucket and the cap in common, so what the
\* whole computation marks in it is what mark_excess marks.
LEMMA ExcessWithinBucket ==
    ASSUME NEW rules, NEW classified, NEW i \in Capped(rules, classified)
    PROVE  LET bucket == Bucket(rules, classified, i)
           IN  bucket \ Excess(rules, classified) =
               bucket \ MarkExcess(classified, bucket, CapOf(rules, classified, i))
<1> DEFINE bucket == Bucket(rules, classified, i)
<1> SUFFICES ASSUME NEW j \in bucket
             PROVE  j \in Excess(rules, classified) <=>
                    j \in MarkExcess(classified, bucket, CapOf(rules, classified, i))
  OBVIOUS
<1>1. /\ j \in DOMAIN classified /\ ~ classified[j].retained
      /\ classified[j].rule_index = classified[i].rule_index
      /\ KeyOf(rules, classified, j) = KeyOf(rules, classified, i)
  BY DEF Bucket, Matching
<1>2. j \in Capped(rules, classified)
  BY <1>1 DEF Capped
<1>3. Bucket(rules, classified, j) = bucket
  BY <1>1 DEF Bucket
<1>4. CapOf(rules, classified, j) = CapOf(rules, classified, i)
  BY <1>1 DEF CapOf
<1> QED
  BY <1>2, <1>3, <1>4 DEF Excess

\* Of every quota the newest dumps are spared, as many as the cap says.
LEMMA QuotaSparesNewest ==
    ASSUME NEW rules, IsPolicy(rules), NEW classified, NEW n \in Nat,
           DOMAIN classified = 1..n,
           \A i \in DOMAIN classified : classified[i].dump \in Dumps,
           NEW i \in Capped(rules, classified)
    PROVE  LET bucket == Bucket(rules, classified, i)
               cap    == CapOf(rules, classified, i)
               kept   == bucket \ Excess(rules, classified)
           IN  /\ cap \in Nat
               /\ Cardinality(kept) =
                     IF Cardinality(bucket) < cap THEN Cardinality(bucket) ELSE cap
               /\ \A k \in kept, x \in bucket \ kept :
                     Timestamp[classified[k].dump] >= Timestamp[classified[x].dump]
<1> DEFINE bucket == Bucket(rules, classified, i)
           cap    == CapOf(rules, classified, i)
<1>1. cap \in Nat
  BY DEF Capped, CapOf, IsPolicy, IsCompiled
<1>2. IsBucket(classified, bucket)
  <2>1. bucket \in SUBSET (1..n)
    BY DEF Bucket, Matching
  <2>2. IsFiniteSet(1..n)
    BY FS_Interval
  <2> HIDE DEF bucket
  <2>3. IsFiniteSet(bucket)
    BY <2>1, <2>2, FS_Subset
  <2> QED
    BY <2>1, <2>3 DEF IsBucket
<1>3. bucket \ Excess(rules, classified) = bucket \ MarkExcess(classified, bucket, cap)
  BY ExcessWithinBucket
<1> HIDE DEF bucket, cap
<1>4. LET kept == bucket \ MarkExcess(classified, bucket, cap)
      IN  /\ Cardinality(kept) =
                IF Cardinality(bucket) < cap THEN Cardinality(bucket) ELSE cap
          /\ \A k \in kept, x \in bucket \ kept :
                Timestamp[classified[k].dump] >= Timestamp[classified[x].dump]
  BY <1>1, <1>2, MarkExcessKeepsNewest
<1> QED
  BY <1>1, <1>3, <1>4 DEF bucket, cap

\* There are as many dumps as there are indices of them.
LEMMA DumpsCounted ==
    ASSUME NEW classified, NEW S, IsFiniteSet(S),
           \A i, j \in S : classified[i].dump = classified[j].dump => i = j
    PROVE  /\ IsFiniteSet({classified[i].dump : i \in S})
           /\ Cardinality({classified[i].dump : i \in S}) = Cardinality(S)
<1> DEFINE T == {classified[i].dump : i \in S}
           f == [i \in S |-> classified[i].dump]
<1>1. f \in [S -> T] /\ \A a, b \in S : f[a] = f[b] => a = b
  OBVIOUS
<1>2. f \in Injection(S, T)
  BY <1>1, Fun_IsInj
<1>3. f \in Surjection(S, T)
  BY <1>1 DEF Surjection
<1>4. ExistsBijection(S, T)
  BY <1>2, <1>3 DEF ExistsBijection, Bijection
<1> QED
  BY <1>4, FS_Bijection
=============================================================================
