---------------------------- MODULE CheckProofs -----------------------------
(***************************************************************************)
(* Theorems about Check: what `cdgcd check` prints, and what the passes    *)
(* after it remove, are the same policy applied to two sets of dumps, the  *)
(* one contained in the other.                                             *)
(***************************************************************************)
EXTENDS Check, CollectorProofs

-----------------------------------------------------------------------------
(* Verdicts on sets of dumps.                                              *)

\* The dumps a sequence of records has a verdict on, and those it removes.
DumpsIn(cl)   == {cl[i].dump : i \in {j \in DOMAIN cl : ~ cl[j].retained}}
IsRemoved(cl, i) ==
    \/ ~ cl[i].retained /\ cl[i].rule_index = NoRule
    \/ i \in Excess(chkCfg.rules, cl)
RemovedIn(cl) == {cl[i].dump : i \in {j \in DOMAIN cl : IsRemoved(cl, j)}}

\* A sequence of records, each dump once, as the policy would have them.
IsAnswer(cl) ==
    /\ cl \in Seq(ClassifiedType)
    /\ \A i, j \in DOMAIN cl : i # j => cl[i].dump # cl[j].dump
    /\ \A i \in DOMAIN cl : IsAnswered(cl[i])

\* A record has the quota of its dump.
LEMMA AnsweredQuota ==
    ASSUME IsPolicy(chkCfg.rules), NEW c, IsAnswered(c), ~ c.retained
    PROVE  /\ c.rule_index = RuleFor(c.dump)
           /\ c.rule_index # NoRule =>
                 /\ c.rule_index \in DOMAIN chkCfg.rules
                 /\ Quota(c.dump) = <<c.rule_index,
                       GroupKey(chkCfg.rules[c.rule_index], c.dump, c.context)>>
<1> DEFINE a == Classify(chkCfg.rules, c.dump, Answer(c.dump))
<1>1. c.rule_index = a.rule_index /\ c.context = a.context
  BY DEF IsAnswered
<1>2. /\ a.rule_index = FirstMatch(chkCfg.rules, c.dump, Answer(c.dump))
      /\ a.rule_index # NoRule =>
            /\ a.rule_index \in DOMAIN chkCfg.rules
            /\ GroupKey(chkCfg.rules[a.rule_index], c.dump, a.context) =
               GroupKey(chkCfg.rules[a.rule_index], c.dump, Answer(c.dump))
  BY ClassifyIsFirstMatch
<1> HIDE DEF a
<1> QED
  BY <1>1, <1>2 DEF RuleFor, Quota

\* The first components of equal quotas are equal rules.
LEMMA QuotaRule ==
    ASSUME NEW d, NEW e, Quota(d) = Quota(e)
    PROVE  RuleFor(d) = RuleFor(e)
<1>1. Quota(d)[1] = RuleFor(d) /\ Quota(e)[1] = RuleFor(e)
  BY DEF Quota
<1> QED
  BY <1>1

\* What holds of a record holds of its dump.
LEMMA AnswerByIndex ==
    ASSUME IsPolicy(chkCfg.rules), NEW cl, IsAnswer(cl)
    PROVE  /\ DumpsIn(cl) \in SUBSET Dumps /\ RemovedIn(cl) \subseteq DumpsIn(cl)
           /\ \A d \in DumpsIn(cl) : \E i \in DOMAIN cl : ~ cl[i].retained /\ cl[i].dump = d
           /\ \A i \in DOMAIN cl :
                 /\ cl[i].dump \in Dumps
                 /\ cl[i].dump \in DumpsIn(cl) <=> ~ cl[i].retained
                 /\ cl[i].dump \in RemovedIn(cl) <=> IsRemoved(cl, i)
<1>1. ASSUME NEW i \in DOMAIN cl
      PROVE  cl[i].dump \in Dumps
  <2>1. cl[i] \in ClassifiedType
    BY DEF IsAnswer
  <2> QED
    BY <2>1 DEF ClassifiedType
<1>2. \A i, j \in DOMAIN cl : cl[i].dump = cl[j].dump => i = j
  BY DEF IsAnswer
<1>3. ASSUME NEW i \in DOMAIN cl
      PROVE  /\ cl[i].dump \in DumpsIn(cl) <=> ~ cl[i].retained
             /\ cl[i].dump \in RemovedIn(cl) <=> IsRemoved(cl, i)
  BY <1>2 DEF DumpsIn, RemovedIn
<1>4. \A i \in DOMAIN cl : IsRemoved(cl, i) => ~ cl[i].retained
  BY DEF IsRemoved, Excess, Capped
<1> QED
  BY <1>1, <1>3, <1>4 DEF DumpsIn, RemovedIn

\* The dumps that share the quota of a capped one are those of its bucket.
LEMMA QuotaIsBucket ==
    ASSUME IsPolicy(chkCfg.rules), NEW cl, IsAnswer(cl),
           NEW i \in Capped(chkCfg.rules, cl)
    PROVE  {e \in DumpsIn(cl) : Quota(e) = Quota(cl[i].dump)} =
           {cl[j].dump : j \in Bucket(chkCfg.rules, cl, i)}
<1> DEFINE peers  == {e \in DumpsIn(cl) : Quota(e) = Quota(cl[i].dump)}
           bucket == Bucket(chkCfg.rules, cl, i)
           rules  == chkCfg.rules
           r      == cl[i].rule_index
<1>1. /\ i \in DOMAIN cl /\ ~ cl[i].retained /\ r \in DOMAIN rules
      /\ r # NoRule
  BY DEF Capped, IsPolicy, NoRule
<1>2. ASSUME NEW j \in DOMAIN cl, ~ cl[j].retained
      PROVE  Quota(cl[j].dump) = Quota(cl[i].dump) <=> j \in bucket
  <2>1. IsAnswered(cl[i]) /\ IsAnswered(cl[j])
    BY <1>1 DEF IsAnswer
  <2>2. cl[j].rule_index = RuleFor(cl[j].dump) /\ r = RuleFor(cl[i].dump)
    BY <1>1, <1>2, <2>1, AnsweredQuota
  <2>3. CASE cl[j].rule_index = r
    <3>1. /\ Quota(cl[i].dump) = <<r, GroupKey(rules[r], cl[i].dump, cl[i].context)>>
          /\ Quota(cl[j].dump) = <<r, GroupKey(rules[r], cl[j].dump, cl[j].context)>>
      BY <1>1, <1>2, <2>1, <2>3, AnsweredQuota
    <3>2. Quota(cl[j].dump) = Quota(cl[i].dump) <=>
             KeyOf(rules, cl, j) = KeyOf(rules, cl, i)
      BY <3>1, <2>3 DEF KeyOf
    <3> QED
      BY <1>2, <2>3, <3>2 DEF Bucket, Matching
  <2>4. CASE cl[j].rule_index # r
    <3>1. Quota(cl[j].dump) # Quota(cl[i].dump)
      BY <2>2, <2>4, QuotaRule
    <3> QED
      BY <3>1, <2>4 DEF Bucket, Matching
  <2> QED
    BY <2>3, <2>4
<1>3. ASSUME NEW e \in peers
      PROVE  e \in {cl[j].dump : j \in bucket}
  <2>1. PICK j \in DOMAIN cl : ~ cl[j].retained /\ cl[j].dump = e
    BY DEF DumpsIn
  <2> QED
    BY <1>2, <2>1
<1>4. ASSUME NEW j \in bucket
      PROVE  cl[j].dump \in peers
  <2>1. j \in DOMAIN cl /\ ~ cl[j].retained
    BY DEF Bucket, Matching
  <2>2. cl[j].dump \in DumpsIn(cl)
    BY <2>1 DEF DumpsIn
  <2> QED
    BY <1>2, <2>1, <2>2
<1> QED
  BY <1>3, <1>4

(***************************************************************************)
(* What the program removes of a sequence of records is the policy applied *)
(* to the dumps of the records.                                            *)
(***************************************************************************)
LEMMA AnswerIsVerdict ==
    ASSUME IsPolicy(chkCfg.rules), NEW cl, IsAnswer(cl)
    PROVE  IsVerdictOn(DumpsIn(cl), RemovedIn(cl))
<1> DEFINE J == DumpsIn(cl)
           R == RemovedIn(cl)
           rules == chkCfg.rules
<1>1. R \subseteq J
  BY AnswerByIndex
<1>2. DOMAIN cl = 1..Len(cl) /\ Len(cl) \in Nat
  BY DEF IsAnswer
<1>3. ASSUME NEW d \in J
      PROVE  LET r     == RuleFor(d)
                 cap   == rules[r].keep_count
                 peers == {e \in J : Quota(e) = Quota(d)}
                 kept  == peers \ R
             IN  /\ r = NoRule => d \in R
                 /\ r # NoRule =>
                       /\ cap = None => d \notin R
                       /\ cap # None =>
                             /\ Cardinality(kept) =
                                   IF Cardinality(peers) < cap THEN Cardinality(peers) ELSE cap
                             /\ \A s \in kept, c \in peers \ kept : Timestamp[s] >= Timestamp[c]
  <2>1. PICK i \in DOMAIN cl : ~ cl[i].retained /\ cl[i].dump = d
    BY DEF DumpsIn
  <2> DEFINE r     == cl[i].rule_index
             cap   == rules[r].keep_count
             peers == {e \in J : Quota(e) = Quota(d)}
             kept  == peers \ R
             bucket == Bucket(rules, cl, i)
             excess == Excess(rules, cl)
  <2>2. r = RuleFor(d) /\ (r # NoRule => r \in DOMAIN rules)
    BY <2>1, AnsweredQuota DEF IsAnswer
  <2>3. d \in R <=> IsRemoved(cl, i)
    BY <2>1, AnswerByIndex
  <2>4. r = NoRule => d \in R
    BY <2>1, <2>3 DEF IsRemoved
  <2>5. r # NoRule /\ cap = None => d \notin R
    BY <2>3 DEF IsRemoved, Excess, Capped
  <2>6. ASSUME r # NoRule, cap # None
        PROVE  /\ Cardinality(kept) = IF Cardinality(peers) < cap THEN Cardinality(peers) ELSE cap
               /\ \A s \in kept, c \in peers \ kept : Timestamp[s] >= Timestamp[c]
    <3>1. i \in Capped(rules, cl)
      BY <2>1, <2>2, <2>6 DEF Capped
    <3>2. peers = {cl[j].dump : j \in bucket}
      BY <2>1, <3>1, QuotaIsBucket
    <3>3. \A j \in bucket : j \in DOMAIN cl /\ (cl[j].dump \in R <=> j \in excess)
      <4>1. \A j \in bucket : j \in DOMAIN cl /\ cl[j].rule_index # NoRule
        BY <2>6 DEF Bucket, Matching
      <4> QED
        BY <4>1, AnswerByIndex DEF IsRemoved
    <3>4. \A j \in DOMAIN cl : cl[j].dump \in Dumps
      BY AnswerByIndex
    <3>5. /\ Cardinality(bucket \ excess) =
                IF Cardinality(bucket) < cap THEN Cardinality(bucket) ELSE cap
          /\ \A k \in bucket \ excess, x \in bucket \ (bucket \ excess) :
                Timestamp[cl[k].dump] >= Timestamp[cl[x].dump]
      <4>1. Len(cl) \in Nat /\ DOMAIN cl = 1..Len(cl) /\ IsPolicy(rules)
        BY <1>2
      <4>2. cap = CapOf(rules, cl, i)
        BY DEF CapOf
      <4> HIDE DEF cap, r
      <4> QED
        BY <3>1, <3>4, <4>1, <4>2, QuotaSparesNewest
    <3> HIDE DEF bucket, excess, R, J
    <3>6. kept = {cl[j].dump : j \in bucket \ excess}
      BY <3>2, <3>3
    <3>7. peers \ kept = {cl[j].dump : j \in bucket \ (bucket \ excess)}
      BY <3>2, <3>3
    <3>8. /\ Cardinality({cl[j].dump : j \in bucket}) = Cardinality(bucket)
          /\ Cardinality({cl[j].dump : j \in bucket \ excess}) = Cardinality(bucket \ excess)
      <4>1. IsFiniteSet(bucket) /\ IsFiniteSet(bucket \ excess)
        <5>1. IsFiniteSet(1..Len(cl))
          BY <1>2, FS_Interval
        <5> QED
          BY <1>2, <3>3, <5>1, FS_Subset
      <4>2. \A j, k \in bucket : cl[j].dump = cl[k].dump => j = k
        BY <3>3 DEF IsAnswer
      <4>3. ASSUME NEW S \in SUBSET bucket, IsFiniteSet(S)
            PROVE  Cardinality({cl[j].dump : j \in S}) = Cardinality(S)
        <5>1. \A j, k \in S : cl[j].dump = cl[k].dump => j = k
          BY <4>2
        <5> QED
          BY <4>3, <5>1, DumpsCounted
      <4> QED
        BY <4>1, <4>3
    <3>9. Cardinality(kept) = IF Cardinality(peers) < cap THEN Cardinality(peers) ELSE cap
      BY <3>2, <3>5, <3>6, <3>8
    <3> QED
      BY <3>5, <3>6, <3>7, <3>9
  <2> HIDE DEF r, peers, J, R
  <2> QED
    BY <2>2, <2>4, <2>5, <2>6 DEF peers, J, R
<1> HIDE DEF J, R
<1>4. IsVerdictOn(J, R)
  BY <1>1, <1>3 DEF IsVerdictOn
<1> QED
  BY <1>4 DEF J, R

\* A rule that was found has its keep_count, if any.
LEMMA CapType ==
    ASSUME IsPolicy(chkCfg.rules), NEW d, RuleFor(d) # NoRule,
           chkCfg.rules[RuleFor(d)].keep_count # None
    PROVE  chkCfg.rules[RuleFor(d)].keep_count \in Nat
<1> DEFINE M == {i \in DOMAIN chkCfg.rules : Matches(chkCfg.rules[i], d, Answer(d))}
<1>1. M \in SUBSET Nat /\ M # {} /\ RuleFor(d) = Least(M)
  BY DEF RuleFor, FirstMatch, FirstOf, IsPolicy
<1>2. RuleFor(d) \in DOMAIN chkCfg.rules
  BY <1>1, LeastExists
<1> QED
  BY <1>2 DEF IsPolicy, IsCompiled

(***************************************************************************)
(* A dump that is removed when fewer are judged is removed when more are,  *)
(* or one of the same timestamp is in its place.                           *)
(***************************************************************************)
LEMMA MoreAreJudged ==
    ASSUME IsPolicy(chkCfg.rules),
           NEW J2 \in SUBSET Dumps, IsFiniteSet(J2), NEW R2, IsVerdictOn(J2, R2),
           NEW J1 \in SUBSET J2, NEW R1, IsVerdictOn(J1, R1),
           NEW d \in R1
    PROVE  d \in R2 \/ \E e \in R2 : e # d /\ Timestamp[e] = Timestamp[d]
<1> DEFINE r   == RuleFor(d)
           cap == chkCfg.rules[r].keep_count
           P1  == {e \in J1 : Quota(e) = Quota(d)}
           P2  == {e \in J2 : Quota(e) = Quota(d)}
           K1  == P1 \ R1
           K2  == P2 \ R2
           S   == K1 \cup {d}
<1>1. d \in J1 /\ d \in J2 /\ R2 \subseteq J2
  BY DEF IsVerdictOn
<1>2. CASE r = NoRule
  BY <1>1, <1>2 DEF IsVerdictOn
<1>3. CASE r # NoRule
  <2>1. cap # None
    BY <1>1, <1>3 DEF IsVerdictOn
  <2>2. cap \in Nat
    BY <1>3, <2>1, CapType
  <2>3. /\ Cardinality(K1) = IF Cardinality(P1) < cap THEN Cardinality(P1) ELSE cap
        /\ \A s \in K1, c \in P1 \ K1 : Timestamp[s] >= Timestamp[c]
    BY <1>1, <1>3, <2>1 DEF IsVerdictOn
  <2>4. /\ Cardinality(K2) = IF Cardinality(P2) < cap THEN Cardinality(P2) ELSE cap
        /\ \A s \in K2, c \in P2 \ K2 : Timestamp[s] >= Timestamp[c]
    BY <1>1, <1>3, <2>1 DEF IsVerdictOn
  <2>5. K1 \subseteq P1 /\ P1 \subseteq P2 /\ K2 \subseteq P2 /\ P2 \subseteq J2
        /\ d \in P1 /\ d \notin K1 /\ S \subseteq P2
    BY <1>1
  <2>6. P2 \ K2 \subseteq R2 /\ P2 \subseteq Dumps
    OBVIOUS
  <2> HIDE DEF P1, P2, K1, K2, cap
  <2>7. IsFiniteSet(P1) /\ IsFiniteSet(P2) /\ IsFiniteSet(K1) /\ IsFiniteSet(K2)
    BY <2>5, FS_Subset
  <2>8. Cardinality(K1) # Cardinality(P1)
    BY <2>5, <2>7, FS_Subset
  <2>9. Cardinality(P1) \in Nat /\ Cardinality(P2) \in Nat
    BY <2>7, FS_CardinalityType
  <2>10. Cardinality(K1) = cap /\ Cardinality(K2) <= cap
    BY <2>2, <2>3, <2>4, <2>8, <2>9
  <2>11. Cardinality(S) = cap + 1
    BY <2>5, <2>7, <2>10, FS_AddElement
  <2>12. ~ (S \subseteq K2)
    <3>1. S \subseteq K2 => Cardinality(S) <= Cardinality(K2)
      BY <2>7, FS_Subset
    <3>2. Cardinality(K2) \in Nat
      BY <2>7, FS_CardinalityType
    <3> HIDE DEF S
    <3> QED
      BY <2>2, <2>10, <2>11, <3>1, <3>2
  <2>13. PICK e \in S : e \notin K2
    BY <2>12
  <2>14. e \in P2 \ K2 /\ e \in R2
    BY <2>5, <2>6, <2>13
  <2>15. CASE e = d
    BY <2>14, <2>15
  <2>16. CASE e # d /\ d \notin R2
    <3>1. e \in K1 /\ d \in P1 \ K1
      BY <2>5, <2>16
    <3>2. d \in K2
      BY <2>5, <2>6, <2>16
    <3>3. Timestamp[e] >= Timestamp[d] /\ Timestamp[d] >= Timestamp[e]
      BY <2>3, <2>4, <2>14, <3>1, <3>2
    <3>4. Timestamp[e] \in Nat /\ Timestamp[d] \in Nat
      BY <2>5, <2>6, <2>14, TimestampAssumption
    <3> QED
      BY <2>14, <2>16, <3>3, <3>4
  <2> QED
    BY <2>15, <2>16
<1> QED
  BY <1>2, <1>3

\* Two verdicts on the same dumps remove as many of those that one quota counts.
LEMMA AsManyOfQuota ==
    ASSUME IsPolicy(chkCfg.rules), NEW J, IsFiniteSet(J),
           NEW R1, IsVerdictOn(J, R1), NEW R2, IsVerdictOn(J, R2), NEW d \in J
    PROVE  Cardinality({e \in R1 : Quota(e) = Quota(d)}) =
           Cardinality({e \in R2 : Quota(e) = Quota(d)})
<1> DEFINE r == RuleFor(d)
           P == {e \in J : Quota(e) = Quota(d)}
           cap == chkCfg.rules[r].keep_count
<1>1. {e \in R1 : Quota(e) = Quota(d)} = P \ (P \ R1)
      /\ {e \in R2 : Quota(e) = Quota(d)} = P \ (P \ R2)
  BY DEF IsVerdictOn
<1>2. \A e \in P : RuleFor(e) = r
  BY QuotaRule
<1>3. CASE r = NoRule
  <2>1. P \ R1 = {} /\ P \ R2 = {}
    BY <1>2, <1>3 DEF IsVerdictOn
  <2> QED
    BY <1>1, <2>1
<1>4. CASE r # NoRule /\ cap = None
  <2>1. P \ R1 = P /\ P \ R2 = P
    BY <1>2, <1>4 DEF IsVerdictOn
  <2> QED
    BY <1>1, <2>1
<1>5. CASE r # NoRule /\ cap # None
  <2>1. Cardinality(P \ R1) = Cardinality(P \ R2)
    BY <1>5 DEF IsVerdictOn
  <2> HIDE DEF P
  <2>2. \A R : /\ IsFiniteSet(P \ R)
               /\ Cardinality(P \ (P \ R)) = Cardinality(P) - Cardinality(P \ R)
    <3>1. IsFiniteSet(P)
      BY FS_Subset DEF P
    <3> SUFFICES ASSUME NEW R
                 PROVE  /\ IsFiniteSet(P \ R)
                        /\ Cardinality(P \ (P \ R)) = Cardinality(P) - Cardinality(P \ R)
      OBVIOUS
    <3>2. IsFiniteSet(P \ R)
      BY <3>1, FS_Subset
    <3>3. Cardinality(P \ (P \ R)) = Cardinality(P) - Cardinality(P \cap (P \ R))
      BY <3>1, FS_Difference
    <3>4. P \cap (P \ R) = P \ R
      OBVIOUS
    <3> QED
      BY <3>2, <3>3, <3>4
  <2> QED
    BY <1>1, <2>1, <2>2
<1> QED
  BY <1>3, <1>4, <1>5

(***************************************************************************)
(* Two verdicts on the same dumps remove as many. The quotas part the      *)
(* dumps, and of each as many are removed: the bijections between these    *)
(* parts make one between the wholes.                                      *)
(***************************************************************************)
LEMMA AsManyRemoved ==
    ASSUME IsPolicy(chkCfg.rules), NEW J, IsFiniteSet(J),
           NEW R1, IsVerdictOn(J, R1), NEW R2, IsVerdictOn(J, R2)
    PROVE  Cardinality(R1) = Cardinality(R2)
<1> DEFINE A(q) == {e \in R1 : Quota(e) = q}
           B(q) == {e \in R2 : Quota(e) = q}
           f(q) == CHOOSE g : g \in Bijection(A(q), B(q))
           F == [d \in R1 |-> f(Quota(d))[d]]
<1>1. R1 \subseteq J /\ R2 \subseteq J
  BY DEF IsVerdictOn
<1>2. IsFiniteSet(R1) /\ IsFiniteSet(R2)
  BY <1>1, FS_Subset
<1>3. ASSUME NEW d \in J
      PROVE  f(Quota(d)) \in Bijection(A(Quota(d)), B(Quota(d)))
  <2>1. Cardinality(A(Quota(d))) = Cardinality(B(Quota(d)))
    BY AsManyOfQuota
  <2>2. IsFiniteSet(A(Quota(d))) /\ IsFiniteSet(B(Quota(d)))
    BY <1>2, FS_Subset
  <2> HIDE DEF A, B
  <2>3. ExistsBijection(A(Quota(d)), B(Quota(d)))
    BY <2>1, <2>2, FS_SameCardinalityBij
  <2> QED
    BY <2>3 DEF ExistsBijection
<1> HIDE DEF f
<1>4. ASSUME NEW d \in R1
      PROVE  F[d] \in R2 /\ Quota(F[d]) = Quota(d)
  <2>1. d \in A(Quota(d)) /\ d \in J
    BY <1>1
  <2>2. f(Quota(d)) \in [A(Quota(d)) -> B(Quota(d))]
    BY <1>3, <2>1 DEF Bijection, Injection
  <2>3. f(Quota(d))[d] \in B(Quota(d))
    BY <2>1, <2>2
  <2> QED
    BY <2>3
<1>5. ASSUME NEW d \in R1, NEW e \in R1, F[d] = F[e]
      PROVE  d = e
  <2>1. Quota(d) = Quota(e)
    BY <1>4, <1>5
  <2>2. d \in A(Quota(d)) /\ e \in A(Quota(d)) /\ d \in J
    BY <1>1, <2>1
  <2>3. f(Quota(d))[d] = f(Quota(d))[e]
    BY <1>5, <2>1
  <2> HIDE DEF A, B
  <2> QED
    BY <1>3, <2>2, <2>3 DEF Bijection, Injection, IsInjective
<1>6. ASSUME NEW e \in R2
      PROVE  \E d \in R1 : F[d] = e
  <2>1. e \in B(Quota(e)) /\ e \in J
    BY <1>1
  <2>2. f(Quota(e)) \in Surjection(A(Quota(e)), B(Quota(e)))
    BY <1>3, <2>1 DEF Bijection
  <2>3. PICK d \in A(Quota(e)) : f(Quota(e))[d] = e
    BY <2>1, <2>2, Zenon DEF Surjection
  <2> QED
    BY <2>3
<1>7. F \in Bijection(R1, R2)
  BY <1>4, <1>5, <1>6, Fun_IsBij
<1>8. ExistsBijection(R1, R2)
  BY <1>7 DEF ExistsBijection
<1> QED
  BY <1>2, <1>8, FS_Bijection

-----------------------------------------------------------------------------
(* The invariant of a check and the passes after it.                       *)

\* The invariant holds of whatever directory there is at the start.
LEMMA CheckedFromStart == CheckedInit => CheckedInv
<1> SUFFICES ASSUME CheckedInit PROVE CheckedInv
  OBVIOUS
<1>1. /\ DirTypeOK /\ \A n \in files : ~ IsMarker(n) => n[1] \in born
      /\ pc = "idle" /\ cfg \in Configs /\ now = 0 /\ next = 1
      /\ seen = {} /\ markers = {} /\ candidates = <<>> /\ classified = <<>>
      /\ report = EmptyReport /\ ctl = "idle" /\ target = None
  BY DEF CheckedInit, ScanInit, CtlInit
<1>2. /\ chk = "off" /\ chkCfg = cfg /\ chkNow = 0 /\ chkSeen = {} /\ chkMarkers = {}
      /\ chkCandidates = <<>> /\ chkClassified = <<>>
      /\ printed = [d \in Dumps |-> None] /\ complained = FALSE
  BY DEF CheckedInit, CheckInit
<1>3. DOMAIN classified = {} /\ DOMAIN chkCandidates = {} /\ DOMAIN chkClassified = {}
  BY <1>1, <1>2
<1>4. TypeOK
  BY <1>1 DEF TypeOK, ScanTypeOK, CtlTypeOK, ReportType, EmptyReport
<1>5. MemoryOfPass /\ MarkersCollected /\ OnlyUnmarkedMatched /\ FilesWritten
      /\ ClassifiedAged /\ ClassifiedByClassify
  BY <1>1, <1>3 DEF MemoryOfPass, MarkersCollected, OnlyUnmarkedMatched, FilesWritten,
     ClassifiedAged, ClassifiedByClassify, DirTypeOK
<1>6. AccountsInv
  BY InitAccounts DEF CheckedInit
<1>7. CheckTypeOK /\ SameTerms /\ CheckPhases /\ CheckedOnce /\ LinesAreVerdict
  <2>1. CheckTypeOK
    <3>1. printed \in [Dumps -> {None, "TOO_YOUNG", "KEEP", "REMOVE"}]
      BY <1>2
    <3>2. chkCandidates \in Seq(Dumps) /\ chkClassified \in Seq(ClassifiedType)
      BY <1>2
    <3> QED
      BY <1>1, <1>2, <3>1, <3>2 DEF CheckTypeOK
  <2>2. CheckPhases
    BY <1>1, <1>2, CheckAssumption DEF CheckPhases, Judged
  <2>3. SameTerms /\ CheckedOnce /\ LinesAreVerdict
    BY <1>1, <1>2, <1>3 DEF SameTerms, CheckedOnce, LinesAreVerdict
  <2> QED
    BY <2>1, <2>2, <2>3
<1>8. MarkersAgree
  BY <1>1, <1>2 DEF MarkersAgree
<1>9. CheckFindings
  BY <1>2, <1>3, CheckAssumption DEF CheckFindings, Judged
<1>10. PassFindings
  BY <1>1, <1>3 DEF PassFindings, Deleted, EmptyReport
<1> QED
  BY <1>4, <1>5, <1>6, <1>7, <1>8, <1>9, <1>10 DEF CheckedInv, CheckInv, PassInv

\* A marker is no dump, and a dump's name is the mark of its marker alone.
LEMMA MarkerOfDump ==
    /\ \A d, e : Marker(d) # DumpName(e) /\ IsMarker(Marker(d)) /\ ~ IsMarker(DumpName(d))
    /\ \A d \in Dumps : MarkedName(Marker(d)) = DumpName(d)
    /\ \A n \in Names, d \in Dumps : MarkedName(n) = DumpName(d) /\ IsMarker(n) => n = Marker(d)
    /\ \A n \in Names : ~ IsMarker(n) => n = DumpName(n[1])
BY DEF Marker, MarkerPath, DumpName, IsMarker, MarkedName, Names

\* What a check or a pass after it leaves as it was.
LEMMA WorldKept ==
    ASSUME CheckedNext
    PROVE  /\ UNCHANGED <<mtime, journal, clock, chkCfg, ctlVars>>
           /\ files' \subseteq files
           /\ \A d \in Dumps : Pinned(d)' <=> Pinned(d)
           /\ \/ chk = "off" /\ stable' = files
              \/ pc = "idle" /\ chk \in {"over", "failed"} /\ stable' = files
              \/ \A d \in Dumps : Marker(d) \in stable' <=> Marker(d) \in stable
<1>1. CASE CheckStep
  BY <1>1 DEF CheckStep, CheckNext, CheckOpens, CheckOpenFails, CheckReads, CheckListed,
     CheckForeign, CheckYoung, CheckMatched, CheckExamining, CheckPrints, dirVars, Pinned
<1>2. CASE PassStep /\ ~ \E d \in Dumps : ApplyRemove(d)
  <2>1. CASE OpenDirectory(chkCfg)
    BY <1>2, <2>1 DEF PassStep, OpenDirectory, chkVars, Pinned
  <2>2. CASE UNCHANGED dirVars
    BY <1>2, <2>2 DEF PassStep, chkVars, dirVars, Pinned
  <2> QED
    BY <1>2, <2>1, <2>2 DEF PassStep, ScanStep, OpenFails, ReadMarker, ReadCandidate,
       ReadFails, Reading, EndOfDirectory, ExamineForeign, ExamineFails, ExamineYoung,
       ExamineRetained, ExamineMatched, Examining, EndOfExamination, ApplyKeep,
       ApplyDryRun, ApplyRemoveFails, Return
<1>3. ASSUME NEW d \in Dumps, Unlink(DumpName(d)), UNCHANGED <<mtime, journal, clock, chkVars, ctlVars>>
      PROVE  /\ UNCHANGED <<mtime, journal, clock, chkCfg, ctlVars>>
             /\ files' \subseteq files
             /\ \A e \in Dumps : Pinned(e)' <=> Pinned(e)
             /\ \A e \in Dumps : Marker(e) \in stable' <=> Marker(e) \in stable
  <2>1. \A e \in Dumps : Marker(e) # DumpName(d)
    BY MarkerOfDump
  <2> QED
    BY <1>3, <2>1 DEF Unlink, chkVars, Pinned
<1>4. CASE EvictStep
  BY <1>3, <1>4 DEF EvictStep, Evict
<1>5. CASE PassStep /\ \E d \in Dumps : ApplyRemove(d)
  BY <1>3, <1>5 DEF PassStep, ApplyRemove
<1> QED
  BY <1>1, <1>2, <1>4, <1>5 DEF CheckedNext

\* The policy does not change under the lines that it made.
LEMMA LinesKept ==
    ASSUME LinesAreVerdict, UNCHANGED <<chk, chkCfg, printed, complained, journal>>,
           \A d \in Dumps : Pinned(d)' <=> Pinned(d)
    PROVE  LinesAreVerdict'
<1> SUFFICES ASSUME chk = "over"
             PROVE  (\E J \in SUBSET Judged :
                        /\ IsFiniteSet(J)
                        /\ {d \in Judged : ~ Pinned(d)} \subseteq J
                        /\ ~ complained => \A d \in J : ~ Pinned(d)
                        /\ IsVerdictOn(J, ToRemove))'
  BY DEF LinesAreVerdict
<1>1. PICK J \in SUBSET Judged :
         /\ IsFiniteSet(J)
         /\ {d \in Judged : ~ Pinned(d)} \subseteq J
         /\ ~ complained => \A d \in J : ~ Pinned(d)
         /\ IsVerdictOn(J, ToRemove)
  BY DEF LinesAreVerdict
<1>2. Judged' = Judged /\ Judged \subseteq Dumps /\ ToRemove' = ToRemove
  BY DEF Judged, ToRemove
<1>3. \A d : Quota(d)' = Quota(d) /\ RuleFor(d)' = RuleFor(d)
  BY DEF Quota, RuleFor, Answer
<1>4. IsVerdictOn(J, ToRemove)'
  BY <1>1, <1>2, <1>3 DEF IsVerdictOn
<1> QED
  BY <1>1, <1>2, <1>4

\* Nor under a pass that does not move.
LEMMA PassFindingsKept ==
    ASSUME PassFindings, UNCHANGED <<scanVars, chkCfg, journal>>
    PROVE  PassFindings'
BY DEF PassFindings, scanVars, IsAnswered, Answer, Deleted, Parses, Condemned, NoMatch, OverCap

\* The check opens the directory: what is there is what it must list.
LEMMA CheckOpensStep ==
    ASSUME CheckedInv, CheckOpens \/ CheckOpenFails, UNCHANGED <<scanVars, ctlVars>>
    PROVE  CheckedInv'
<1>1. /\ chk = "off" /\ chk' \in {"listing", "failed"} /\ pc = "idle"
      /\ chk' = "listing" => chkNow' = clock /\ stable' = files
      /\ chkNow' \in {chkNow, clock} /\ stable' \in {stable, files}
      /\ UNCHANGED <<chkCfg, chkSeen, chkMarkers, chkCandidates, chkClassified, printed,
                     complained, files, born, mtime, journal, clock, scanVars, ctlVars>>
  BY DEF CheckedInv, CheckInv, CheckPhases, CheckOpens, CheckOpenFails, dirVars
<1>2. PassInv'
  <2>1. TypeOK'
    BY <1>1 DEF CheckedInv, PassInv, TypeOK, DirTypeOK, ScanTypeOK, CtlTypeOK, scanVars, ctlVars
  <2>2. /\ MemoryOfPass' /\ MarkersCollected' /\ OnlyUnmarkedMatched' /\ FilesWritten'
        /\ ClassifiedAged' /\ ClassifiedByClassify'
    BY <1>1 DEF CheckedInv, PassInv, MemoryOfPass, MarkersCollected, OnlyUnmarkedMatched,
       FilesWritten, ClassifiedAged, ClassifiedByClassify, ListingFailed, scanVars
  <2> QED
    BY <2>1, <2>2 DEF PassInv
<1>3. AccountsInv'
  <2>1. PhasesOfPass' /\ OnePlaceEach' /\ ListingAccounted'
    <3>1. UNCHANGED scanVars /\ AccountsInv
      BY <1>1 DEF CheckedInv
    <3>2. /\ UNCHANGED <<Reported, ListingFailed>>
          /\ \A d : (Pending(d)' <=> Pending(d)) /\ (InReport(d)' <=> InReport(d))
      BY <3>1 DEF scanVars, Pending, IsCandidate, IsClassified, InReport, Reported, ListingFailed
    <3> QED
      BY <3>1, <3>2 DEF AccountsInv, scanVars, PhasesOfPass, OnePlaceEach, ListingAccounted
  <2>2. report = EmptyReport
    BY <1>1 DEF CheckedInv, AccountsInv, PhasesOfPass
  <2>3. FindingsTrue'
    BY <1>1, <2>2 DEF CheckedInv, AccountsInv, FindingsTrue, Parses, EmptyReport, scanVars
  <2> QED
    BY <2>1, <2>3 DEF AccountsInv
<1>4. CheckTypeOK' /\ SameTerms' /\ CheckPhases' /\ CheckedOnce' /\ LinesAreVerdict'
  <2>1. clock \in Nat /\ chkCandidates = <<>> /\ DOMAIN chkCandidates = {}
    BY <1>1 DEF CheckedInv, PassInv, TypeOK, DirTypeOK, CheckInv, CheckPhases
  <2>2. CheckTypeOK'
    BY <1>1, <2>1 DEF CheckedInv, CheckInv, CheckTypeOK
  <2>3. SameTerms' /\ CheckPhases' /\ CheckedOnce' /\ LinesAreVerdict'
    BY <1>1, <2>1 DEF CheckedInv, CheckInv, SameTerms, CheckPhases, CheckedOnce,
       LinesAreVerdict, Judged, scanVars
  <2> QED
    BY <2>2, <2>3
<1>5. MarkersAgree'
  BY <1>1 DEF CheckedInv, CheckInv, CheckPhases, MarkersAgree, Pinned, scanVars
<1>6. CheckFindings'
  BY <1>1 DEF CheckedInv, CheckInv, CheckFindings, Judged, Young, IsFound, IsAnswered, Answer,
     scanVars
<1>7. PassFindings'
  BY <1>1, PassFindingsKept DEF CheckedInv, CheckInv
<1> QED
  BY <1>2, <1>3, <1>4, <1>5, <1>6, <1>7 DEF CheckedInv, CheckInv

\* A step of the check after that leaves directory and pass alone.
LEMMA CheckStepFrame ==
    ASSUME CheckedInv, UNCHANGED <<dirVars, scanVars, ctlVars>>, chkCfg' = chkCfg
    PROVE  PassInv' /\ AccountsInv' /\ PassFindings'
<1>1. UNCHANGED vars
  BY DEF vars
<1>2. PassInv' /\ AccountsInv'
  BY <1>1, InvStep, AccountsStep DEF CheckedInv
<1>3. journal' = journal
  BY DEF dirVars
<1> QED
  BY <1>2, <1>3, PassFindingsKept DEF CheckedInv, CheckInv

\* The check reads a name, once.
LEMMA CheckReadsStep ==
    ASSUME CheckedInv, NEW n \in files, CheckReads(n), UNCHANGED <<scanVars, ctlVars>>
    PROVE  CheckedInv'
<1>1. /\ chk = "listing" /\ n \notin chkSeen /\ chkSeen' = chkSeen \cup {n}
      /\ UNCHANGED <<chk, chkCfg, chkNow, chkClassified, printed, dirVars, scanVars, ctlVars>>
      /\ chkClassified = <<>> /\ DOMAIN chkClassified = {}
  BY DEF CheckReads, CheckedInv, CheckInv, CheckPhases
<1>2. PassInv' /\ AccountsInv' /\ PassFindings'
  BY <1>1, CheckStepFrame
<1>3. /\ n \in Names /\ n[1] \in Dumps /\ (~ IsMarker(n) => n = DumpName(n[1]))
      /\ IsMarker(n) => MarkedName(n) \in Names
      /\ chkSeen' \subseteq Names
  <2>1. n \in Names
    BY DEF CheckedInv, PassInv, TypeOK, DirTypeOK
  <2> QED
    BY <1>1, <2>1, MarkerNames, MarkerOfDump DEF CheckedInv, CheckInv, CheckTypeOK
<1>4. chkCandidates \in Seq(Dumps)
  BY DEF CheckedInv, CheckInv, CheckTypeOK
<1>5. /\ chkMarkers' = chkMarkers \/ (IsMarker(n) /\ chkMarkers' = chkMarkers \cup {MarkedName(n)})
      /\ complained' = complained \/ (complained' = TRUE /\ chkMarkers' = chkMarkers)
      /\ IsMarker(n) /\ ~ complained' => ~ complained /\ MarkedName(n) \in chkMarkers'
  BY DEF CheckReads, CheckedInv, CheckInv, CheckTypeOK
<1>6. \/ UNCHANGED chkCandidates
      \/ ~ IsMarker(n) /\ chkCandidates' = Append(chkCandidates, n[1])
  BY DEF CheckReads
<1>7. CheckTypeOK'
  <2>1. chkCandidates' \in Seq(Dumps)
    BY <1>3, <1>4, <1>6
  <2>2. chkMarkers' \subseteq Names /\ complained' \in BOOLEAN
    BY <1>3, <1>5 DEF CheckedInv, CheckInv, CheckTypeOK
  <2> QED
    BY <1>1, <1>3, <2>1, <2>2 DEF CheckedInv, CheckInv, CheckTypeOK
<1>8. SameTerms' /\ CheckPhases' /\ LinesAreVerdict'
  BY <1>1 DEF CheckedInv, CheckInv, SameTerms, CheckPhases, LinesAreVerdict, ListingFailed,
     Judged, scanVars, dirVars
<1>9. MarkersAgree'
  <2> SUFFICES ASSUME NEW d \in Dumps
               PROVE  /\ DumpName(d) \in chkMarkers' \cup markers' => Pinned(d)'
                      /\ Pinned(d)' =>
                            /\ chk' = "listing" => Marker(d) \in stable'
                            /\ Marker(d) \in chkSeen' /\ ~ complained' => DumpName(d) \in chkMarkers'
                            /\ chk' = "examining" /\ ~ complained' => DumpName(d) \in chkMarkers'
                            /\ pc' # "idle" /\ ~ ListingFailed' => Marker(d) \in stable'
    BY DEF MarkersAgree
  <2>1. Pinned(d)' <=> Pinned(d)
    BY <1>1 DEF Pinned, dirVars
  <2>2. DumpName(d) \in chkMarkers' => Pinned(d)
    <3>1. IsMarker(n) /\ MarkedName(n) = DumpName(d) => Marker(d) \in files
      BY <1>3, MarkerOfDump
    <3> QED
      BY <1>5, <3>1 DEF CheckedInv, CheckInv, MarkersAgree, Pinned
  <2>3. Marker(d) \in chkSeen' /\ ~ complained' /\ Pinned(d) => DumpName(d) \in chkMarkers'
    <3>1. Marker(d) = n => IsMarker(n) /\ MarkedName(n) = DumpName(d)
      BY MarkerOfDump
    <3>2. Marker(d) \in chkSeen /\ ~ complained /\ Pinned(d) => DumpName(d) \in chkMarkers
      BY DEF CheckedInv, CheckInv, MarkersAgree
    <3> QED
      BY <1>1, <1>5, <3>1, <3>2
  <2> QED
    BY <1>1, <2>1, <2>2, <2>3 DEF CheckedInv, CheckInv, MarkersAgree, ListingFailed, scanVars, dirVars
<1>10. CheckedOnce'
  <2>1. CASE UNCHANGED chkCandidates
    BY <1>1, <2>1 DEF CheckedInv, CheckInv, CheckedOnce
  <2>2. CASE ~ IsMarker(n) /\ chkCandidates' = Append(chkCandidates, n[1])
    <3>1. /\ DOMAIN chkCandidates' = DOMAIN chkCandidates \cup {Len(chkCandidates) + 1}
          /\ chkCandidates'[Len(chkCandidates) + 1] = n[1]
          /\ \A i \in DOMAIN chkCandidates : chkCandidates'[i] = chkCandidates[i]
      BY <1>4, <2>2, AppendedLast
    <3>2. \A i \in DOMAIN chkCandidates : DumpName(chkCandidates[i]) \in chkSeen
      BY <1>1 DEF CheckedInv, CheckInv, CheckedOnce
    <3>3. \A i \in DOMAIN chkCandidates : chkCandidates[i] # n[1]
      BY <1>1, <1>3, <2>2, <3>2
    <3> QED
      BY <1>1, <1>3, <2>2, <3>1, <3>2, <3>3 DEF CheckedInv, CheckInv, CheckedOnce
  <2> QED
    BY <1>6, <2>1, <2>2
<1>11. CheckFindings'
  BY <1>1 DEF CheckedInv, CheckInv, CheckFindings, Judged, Young, scanVars, dirVars
<1> QED
  BY <1>2, <1>7, <1>8, <1>9, <1>10, <1>11 DEF CheckedInv, CheckInv

\* Unless readdir failed, the check has seen every marker when it is done.
LEMMA CheckListedStep ==
    ASSUME CheckedInv, CheckListed, UNCHANGED <<scanVars, ctlVars>>
    PROVE  CheckedInv'
<1>1. /\ chk = "listing" /\ chk' = "examining" /\ stable \subseteq chkSeen
      /\ UNCHANGED <<chkCfg, chkNow, chkSeen, chkMarkers, chkCandidates, chkClassified,
                     printed, complained, dirVars, scanVars, ctlVars>>
      /\ chkClassified = <<>> /\ DOMAIN chkClassified = {}
  BY DEF CheckListed, CheckedInv, CheckInv, CheckPhases
<1>2. PassInv' /\ AccountsInv' /\ PassFindings'
  BY <1>1, CheckStepFrame
<1>3. CheckTypeOK'
  BY <1>1 DEF CheckedInv, CheckInv, CheckTypeOK
<1>4. SameTerms' /\ CheckPhases' /\ CheckedOnce' /\ LinesAreVerdict'
  BY <1>1 DEF CheckedInv, CheckInv, SameTerms, CheckPhases, CheckedOnce, LinesAreVerdict,
     ListingFailed, Judged, scanVars, dirVars
<1>5. MarkersAgree'
  BY <1>1 DEF CheckedInv, CheckInv, MarkersAgree, Pinned, ListingFailed, scanVars, dirVars
<1>6. CheckFindings'
  BY <1>1 DEF CheckedInv, CheckInv, CheckFindings, Judged, Young, scanVars, dirVars
<1> QED
  BY <1>2, <1>3, <1>4, <1>5, <1>6 DEF CheckedInv, CheckInv

\* What stays when a candidate of the check is examined, and what must be seen.
LEMMA CheckExaminingStep ==
    ASSUME CheckedInv, NEW d \in Dumps, CheckExamining(d), UNCHANGED <<scanVars, ctlVars>>,
           printed' \in [Dumps -> {None, "TOO_YOUNG", "KEEP", "REMOVE"}],
           Judged' = Judged, \A e \in Dumps : printed'[e] = "TOO_YOUNG" => Young(e),
           \/ UNCHANGED chkClassified
           \/ \E c \in ClassifiedType :
                 /\ chkClassified' = Append(chkClassified, c)
                 /\ c.dump = d /\ IsFound(c)
    PROVE  CheckedInv'
<1>1. /\ chk = "examining" /\ chkCandidates # <<>> /\ d = Head(chkCandidates)
      /\ chkCandidates' = Tail(chkCandidates)
      /\ UNCHANGED <<chk, chkCfg, chkNow, chkSeen, chkMarkers, complained, dirVars,
                     scanVars, ctlVars>>
      /\ pc = "idle"
  BY DEF CheckExamining, CheckedInv, CheckInv, CheckPhases
<1>2. PassInv' /\ AccountsInv' /\ PassFindings'
  BY <1>1, CheckStepFrame
<1>3. chkCandidates \in Seq(Dumps) /\ chkClassified \in Seq(ClassifiedType)
  BY DEF CheckedInv, CheckInv, CheckTypeOK
<1>4. /\ 1 \in DOMAIN chkCandidates /\ chkCandidates[1] = d
      /\ \A i \in DOMAIN chkCandidates' :
            i + 1 \in DOMAIN chkCandidates /\ chkCandidates'[i] = chkCandidates[i + 1]
      /\ DOMAIN chkCandidates' \subseteq Nat \ {0}
  BY <1>1, <1>3, HeadAndTail
<1>5. \A i \in DOMAIN chkCandidates' : chkCandidates'[i] # d
  <2>1. \A i \in DOMAIN chkCandidates' : i + 1 # 1
    BY <1>4
  <2> QED
    BY <1>4, <2>1 DEF CheckedInv, CheckInv, CheckedOnce
<1>6. \A i \in DOMAIN chkClassified : chkClassified[i].dump # d
  BY <1>4 DEF CheckedInv, CheckInv, CheckedOnce
<1>7. \A i, j \in DOMAIN chkCandidates' : i # j => chkCandidates'[i] # chkCandidates'[j]
  <2>1. \A i, j \in DOMAIN chkCandidates' : i # j => i + 1 # j + 1
    BY <1>4
  <2> QED
    BY <1>4, <2>1 DEF CheckedInv, CheckInv, CheckedOnce
<1>8. ASSUME UNCHANGED chkClassified
      PROVE  /\ CheckTypeOK' /\ CheckedOnce'
             /\ \A i \in DOMAIN chkClassified' : IsFound(chkClassified'[i])
  <2>1. CheckTypeOK'
    <3>1. chkCandidates' \in Seq(Dumps)
      BY <1>1, <1>3
    <3> QED
      BY <1>1, <1>8, <3>1 DEF CheckedInv, CheckInv, CheckTypeOK
  <2>2. CheckedOnce'
    BY <1>1, <1>4, <1>7, <1>8 DEF CheckedInv, CheckInv, CheckedOnce
  <2>3. \A i \in DOMAIN chkClassified' : IsFound(chkClassified'[i])
    BY <1>8 DEF CheckedInv, CheckInv, CheckFindings
  <2> QED
    BY <2>1, <2>2, <2>3
<1>9. ASSUME NEW c \in ClassifiedType,
             chkClassified' = Append(chkClassified, c), c.dump = d, IsFound(c)
      PROVE  /\ CheckTypeOK' /\ CheckedOnce'
             /\ \A i \in DOMAIN chkClassified' : IsFound(chkClassified'[i])
  <2>1. /\ DOMAIN chkClassified' = DOMAIN chkClassified \cup {Len(chkClassified) + 1}
        /\ chkClassified'[Len(chkClassified) + 1] = c
        /\ \A i \in DOMAIN chkClassified : chkClassified'[i] = chkClassified[i]
    BY <1>3, <1>9, AppendedLast
  <2>2. CheckTypeOK'
    <3>1. chkCandidates' \in Seq(Dumps) /\ chkClassified' \in Seq(ClassifiedType)
      BY <1>1, <1>3, <1>9
    <3> QED
      BY <1>1, <3>1 DEF CheckedInv, CheckInv, CheckTypeOK
  <2>3. CheckedOnce'
    <3>1. \A i, j \in DOMAIN chkClassified' : i # j => chkClassified'[i].dump # chkClassified'[j].dump
      BY <1>6, <1>9, <2>1 DEF CheckedInv, CheckInv, CheckedOnce
    <3>2. \A i \in DOMAIN chkCandidates', j \in DOMAIN chkClassified' :
             chkCandidates'[i] # chkClassified'[j].dump
      BY <1>4, <1>5, <1>9, <2>1 DEF CheckedInv, CheckInv, CheckedOnce
    <3> QED
      BY <1>1, <1>7, <3>1, <3>2 DEF CheckedOnce
  <2>4. \A i \in DOMAIN chkClassified' : IsFound(chkClassified'[i])
    BY <1>9, <2>1 DEF CheckedInv, CheckInv, CheckFindings
  <2> QED
    BY <2>2, <2>3, <2>4
<1>10. SameTerms' /\ CheckPhases' /\ LinesAreVerdict'
  BY <1>1 DEF CheckedInv, CheckInv, SameTerms, CheckPhases, LinesAreVerdict,
     ListingFailed, scanVars, dirVars
<1>11. MarkersAgree'
  BY <1>1 DEF CheckedInv, CheckInv, MarkersAgree, Pinned, ListingFailed, scanVars, dirVars
<1>12. /\ CheckTypeOK' /\ CheckedOnce'
       /\ \A i \in DOMAIN chkClassified' : IsFound(chkClassified'[i])
  BY <1>8, <1>9, <1>3, <1>1, <1>4, <1>7
<1>13. CheckFindings'
  <2>1. UNCHANGED <<chkCfg, chkMarkers, files, mtime, clock, journal, seen>>
    BY <1>1 DEF dirVars, scanVars
  <2>2. \A e : (Young(e)' <=> Young(e))
    BY <2>1 DEF Young
  <2>3. \A i \in DOMAIN chkClassified' : IsFound(chkClassified[i])'
    BY <1>12, <2>1 DEF IsFound, IsAnswered, Answer
  <2> QED
    BY <2>2, <2>3 DEF CheckFindings
<1> QED
  BY <1>2, <1>10, <1>11, <1>12, <1>13 DEF CheckedInv, CheckInv

\* What the check makes of a candidate is what the policy makes of it.
LEMMA CheckExaminesStep ==
    ASSUME CheckedInv, NEW d \in Dumps, UNCHANGED <<scanVars, ctlVars>>, ~ LookupErrors,
           \/ CheckForeign(d) \/ CheckYoung(d)
           \/ \E found \in LookupResults(d) : CheckMatched(d, found)
    PROVE  CheckedInv'
<1>1. CheckExamining(d) /\ chk = "examining" /\ chkNow = clock /\ chkCfg \in Configs
  BY DEF CheckForeign, CheckYoung, CheckMatched, CheckExamining, CheckedInv, CheckInv,
     SameTerms, CheckTypeOK
<1>2. CheckTooYoung(d) => Young(d)
  BY <1>1 DEF CheckTooYoung, Young
<1>3. /\ printed \in [Dumps -> {None, "TOO_YOUNG", "KEEP", "REMOVE"}]
      /\ \A e \in Dumps : printed[e] = "TOO_YOUNG" => Young(e)
      /\ chkClassified \in Seq(ClassifiedType)
  BY DEF CheckedInv, CheckInv, CheckTypeOK, CheckFindings
<1>4. CASE CheckForeign(d)
  BY <1>1, <1>3, <1>4, CheckExaminingStep DEF CheckForeign, Judged
<1>5. CASE CheckYoung(d)
  <2>1. printed[d] \notin {"KEEP", "REMOVE"}
    <3>1. Judged = {}
      BY <1>1 DEF CheckedInv, CheckInv, CheckPhases
    <3> QED
      BY <3>1 DEF Judged
  <2>2. printed' = [printed EXCEPT ![d] = "TOO_YOUNG"] /\ UNCHANGED chkClassified /\ Young(d)
    BY <1>2, <1>5 DEF CheckYoung
  <2>3. Judged' = Judged
    BY <1>3, <2>1, <2>2 DEF Judged
  <2>4. /\ printed' \in [Dumps -> {None, "TOO_YOUNG", "KEEP", "REMOVE"}]
        /\ \A e \in Dumps : printed'[e] = "TOO_YOUNG" => Young(e)
    BY <1>3, <2>2
  <2> QED
    BY <1>1, <2>2, <2>3, <2>4, CheckExaminingStep
<1>6. ASSUME NEW found \in LookupResults(d), CheckMatched(d, found)
      PROVE  CheckedInv'
  <2> DEFINE c == CheckClassified(d, found)
             a == Classify(chkCfg.rules, d, found)
  <2>1. found = Answer(d)
    BY <1>6 DEF LookupResults, Answer
  <2>2. IsPolicy(chkCfg.rules)
    BY <1>1, ScanAssumption
  <2>3. a.rule_index \in Nat /\ a.context \in {EmptyContext, found}
    BY <2>2, ClassifyType
  <2>4. /\ c.dump = d
        /\ c.retained = (DumpName(d) \in chkMarkers)
        /\ c.rule_index = IF DumpName(d) \in chkMarkers THEN NoRule ELSE a.rule_index
        /\ c.context = IF DumpName(d) \in chkMarkers THEN EmptyContext ELSE a.context
        /\ c = [dump |-> c.dump, retained |-> c.retained, rule_index |-> c.rule_index,
                context |-> c.context]
    BY DEF CheckClassified
  <2> HIDE DEF c
  <2>5. c \in ClassifiedType
    <3>1. c.retained \in BOOLEAN /\ c.rule_index \in Nat
      BY <2>3, <2>4 DEF NoRule
    <3>2. c.context \in {EmptyContext} \cup {Entries[e] : e \in Dumps}
      BY <2>1, <2>3, <2>4 DEF Answer
    <3> QED
      BY <2>4, <3>1, <3>2 DEF ClassifiedType
  <2>6. chkClassified' = Append(chkClassified, c) /\ UNCHANGED printed
    BY <1>6 DEF CheckMatched, c
  <2>7. IsFound(c)
    <3>1. IsAnswered(c)
      BY <2>1, <2>4 DEF IsAnswered
    <3> QED
      BY <2>4, <3>1 DEF IsFound
  <2> QED
    BY <1>1, <1>3, <2>4, <2>5, <2>6, <2>7, CheckExaminingStep DEF Judged
<1> QED
  BY <1>4, <1>5, <1>6

\* When all is examined the check prints the verdict of the policy.
LEMMA CheckPrintsStep ==
    ASSUME CheckedInv, CheckPrints, UNCHANGED <<scanVars, ctlVars>>
    PROVE  CheckedInv'
<1> DEFINE cl == chkClassified
           J  == DumpsIn(cl)
           R  == RemovedIn(cl)
<1>1. /\ chk = "examining" /\ chk' = "over" /\ pc = "idle"
      /\ chkClassified' = <<>> /\ chkSeen' = {} /\ chkMarkers' = {}
      /\ chkCandidates = <<>>
      /\ DOMAIN chkClassified' = {} /\ DOMAIN chkCandidates' = {}
      /\ UNCHANGED <<chkCfg, chkNow, chkCandidates, complained, dirVars, scanVars, ctlVars>>
  BY DEF CheckPrints, CheckedInv, CheckInv, CheckPhases
<1>2. PassInv' /\ AccountsInv' /\ PassFindings'
  BY <1>1, CheckStepFrame
<1>3. IsPolicy(chkCfg.rules) /\ IsAnswer(cl)
  BY ScanAssumption DEF CheckedInv, CheckInv, CheckTypeOK, CheckedOnce, CheckFindings,
     IsFound, IsAnswer
<1>4. IsVerdictOn(J, R) /\ R \subseteq J /\ J \in SUBSET Dumps
  BY <1>3, AnswerIsVerdict, AnswerByIndex
<1>5. ASSUME NEW i \in DOMAIN cl
      PROVE  printed'[cl[i].dump] = Verdict(i) /\ cl[i].dump \in Dumps
             /\ (Verdict(i) = "REMOVE" <=> IsRemoved(cl, i))
             /\ Verdict(i) \in {"KEEP", "REMOVE"}
  <2>1. cl[i].dump \in Dumps
    BY <1>3, AnswerByIndex
  <2>2. \A j \in DOMAIN cl : cl[j].dump = cl[i].dump => j = i
    BY <1>3 DEF IsAnswer
  <2>3. (CHOOSE j \in DOMAIN cl : cl[j].dump = cl[i].dump) = i
    BY <2>2
  <2>4. printed'[cl[i].dump] = Verdict(i)
    BY <2>1, <2>3 DEF CheckPrints
  <2> QED
    BY <2>1, <2>4 DEF Verdict, IsRemoved
<1>6. ASSUME NEW d \in Dumps, \A i \in DOMAIN cl : cl[i].dump # d
      PROVE  printed'[d] = printed[d]
  BY <1>6 DEF CheckPrints
<1>7. /\ Judged = {}
      /\ printed \in [Dumps -> {None, "TOO_YOUNG", "KEEP", "REMOVE"}]
      /\ \A d \in Dumps : printed[d] = "TOO_YOUNG" => Young(d)
      /\ \A d \in Dumps : printed[d] \notin {"KEEP", "REMOVE"}
  BY <1>1 DEF CheckedInv, CheckInv, CheckPhases, CheckTypeOK, CheckFindings, Judged
<1> HIDE DEF cl
<1>8. \A d \in Dumps : /\ printed'[d] \in {"KEEP", "REMOVE"} <=> \E i \in DOMAIN cl : cl[i].dump = d
                       /\ printed'[d] = "REMOVE" <=> d \in RemovedIn(cl)
                       /\ printed'[d] = "TOO_YOUNG" => Young(d)
                       /\ printed'[d] \in {None, "TOO_YOUNG", "KEEP", "REMOVE"}
  <2> SUFFICES ASSUME NEW d \in Dumps
               PROVE  /\ printed'[d] \in {"KEEP", "REMOVE"} <=> \E i \in DOMAIN cl : cl[i].dump = d
                      /\ printed'[d] = "REMOVE" <=> d \in RemovedIn(cl)
                      /\ printed'[d] = "TOO_YOUNG" => Young(d)
                      /\ printed'[d] \in {None, "TOO_YOUNG", "KEEP", "REMOVE"}
    OBVIOUS
  <2>1. CASE \E i \in DOMAIN cl : cl[i].dump = d
    <3>1. PICK i \in DOMAIN cl : cl[i].dump = d
      BY <2>1
    <3>2. d \in RemovedIn(cl) <=> IsRemoved(cl, i)
      BY <1>3, <3>1, AnswerByIndex
    <3> QED
      BY <1>5, <2>1, <3>1, <3>2
  <2>2. CASE ~ \E i \in DOMAIN cl : cl[i].dump = d
    <3>1. d \notin RemovedIn(cl)
      BY <2>2 DEF RemovedIn
    <3> QED
      BY <1>6, <1>7, <2>2, <3>1
  <2> QED
    BY <2>1, <2>2
<1>9. Judged' = {cl[i].dump : i \in DOMAIN cl} /\ ToRemove' = R
  <2>1. \A i \in DOMAIN cl : cl[i].dump \in Dumps
    BY <1>5
  <2>2. Judged' = {cl[i].dump : i \in DOMAIN cl}
    BY <1>8, <2>1 DEF Judged
  <2>3. ToRemove' = R
    BY <1>4, <1>8 DEF ToRemove
  <2> QED
    BY <2>2, <2>3
<1>10. CheckTypeOK'
  <2>1. printed' \in [Dumps -> {None, "TOO_YOUNG", "KEEP", "REMOVE"}]
    <3>1. DOMAIN printed' = Dumps /\ printed' = [d \in Dumps |-> printed'[d]]
      BY DEF CheckPrints
    <3> QED
      BY <1>8, <3>1
  <2>2. chkClassified' \in Seq(ClassifiedType)
    BY <1>1
  <2> QED
    BY <1>1, <2>1, <2>2 DEF CheckedInv, CheckInv, CheckTypeOK
<1>11. SameTerms' /\ CheckPhases' /\ CheckedOnce'
  BY <1>1 DEF CheckedInv, CheckInv, SameTerms, CheckPhases, CheckedOnce, ListingFailed,
     scanVars, dirVars
<1>12. MarkersAgree'
  BY <1>1 DEF CheckedInv, CheckInv, MarkersAgree, Pinned, ListingFailed, scanVars, dirVars
<1>13. CheckFindings'
  <2>1. \A d : (Young(d)' <=> Young(d))
    BY <1>1 DEF Young, dirVars
  <2> QED
    BY <1>1, <1>8, <2>1 DEF CheckFindings
<1>14. LinesAreVerdict'
  <2>1. \A i \in DOMAIN cl : cl[i].retained <=> DumpName(cl[i].dump) \in chkMarkers
    BY DEF CheckedInv, CheckInv, CheckFindings, IsFound, cl
  <2>2. \A d \in Dumps : Pinned(d)' <=> Pinned(d)
    BY <1>1 DEF Pinned, dirVars
  <2> HIDE DEF J
  <2> PICK K : K = J
    OBVIOUS
  <2>3. K \in SUBSET Judged' /\ IsFiniteSet(K)
    <3>1. DOMAIN cl = 1..Len(cl) /\ Len(cl) \in Nat
      BY <1>3 DEF IsAnswer
    <3>2. IsFiniteSet(DOMAIN cl)
      BY <3>1, FS_Interval
    <3>3. IsFiniteSet({cl[i].dump : i \in DOMAIN cl})
      BY <1>3, <3>2, DumpsCounted DEF IsAnswer
    <3>4. K \subseteq {cl[i].dump : i \in DOMAIN cl}
      BY DEF J, DumpsIn
    <3> QED
      BY <1>9, <3>3, <3>4, FS_Subset
  <2>4. {d \in Judged' : ~ Pinned(d)'} \subseteq K
    <3>1. \A i \in DOMAIN cl : cl[i].retained => Pinned(cl[i].dump)
      BY <1>5, <2>1 DEF CheckedInv, CheckInv, MarkersAgree
    <3> QED
      BY <1>5, <1>9, <2>2, <3>1 DEF J, DumpsIn
  <2>5. ~ complained => \A d \in K : ~ Pinned(d)
    <3>1. \A i \in DOMAIN cl : ~ complained /\ ~ cl[i].retained => ~ Pinned(cl[i].dump)
      BY <1>1, <1>5, <2>1 DEF CheckedInv, CheckInv, MarkersAgree
    <3> QED
      BY <3>1 DEF J, DumpsIn
  <2>6. IsVerdictOn(K, ToRemove)'
    <3>1. \A d : Quota(d)' = Quota(d) /\ RuleFor(d)' = RuleFor(d)
      BY <1>1 DEF Quota, RuleFor, Answer, dirVars
    <3>2. IsVerdictOn(K, ToRemove')
      BY <1>4, <1>9 DEF J
    <3> QED
      BY <1>1, <3>1, <3>2 DEF IsVerdictOn
  <2> QED
    <3>1. \E K1 \in SUBSET Judged' :
             /\ IsFiniteSet(K1)
             /\ {d \in Judged' : ~ Pinned(d)'} \subseteq K1
             /\ ~ complained' => \A d \in K1 : ~ Pinned(d)'
             /\ IsVerdictOn(K1, ToRemove)'
      <4>1. ~ complained' => \A d \in K : ~ Pinned(d)'
        BY <1>1, <2>2, <2>3, <2>5 DEF Judged
      <4> QED
        BY <2>3, <2>4, <2>6, <4>1
    <3> QED
      BY <3>1 DEF LinesAreVerdict
<1> QED
  BY <1>2, <1>10, <1>11, <1>12, <1>13, <1>14 DEF CheckedInv, CheckInv

\* What the check has found outlasts the dump.
LEMMA EvictedStep ==
    ASSUME CheckedInv, EvictStep
    PROVE  CheckedInv'
<1>1. /\ UNCHANGED <<scanVars, ctlVars, chkVars, mtime, journal, clock, born>>
      /\ files' \subseteq files /\ stable' \subseteq stable
      /\ \A d \in Dumps : Pinned(d)' <=> Pinned(d)
      /\ \A d \in Dumps : Marker(d) \in stable' <=> Marker(d) \in stable
  <2>1. PICK d \in Dumps : Evict(DumpName(d)) /\ UNCHANGED <<scanVars, ctlVars, chkVars>>
    BY DEF EvictStep
  <2>2. \A e \in Dumps : Marker(e) # DumpName(d)
    BY MarkerOfDump
  <2> QED
    BY <2>1, <2>2 DEF Evict, Unlink, Pinned
<1>2. Next
  BY DEF EvictStep, Next, DirNext, Evict, Unlink
<1>3. PassInv' /\ AccountsInv'
  BY <1>2, InvStep, AccountsStep DEF CheckedInv
<1>4. UNCHANGED <<chk, chkCfg, chkNow, chkSeen, chkMarkers, chkCandidates, chkClassified,
                  printed, complained>>
  BY <1>1 DEF chkVars
<1>5. UNCHANGED <<pc, cfg, now, seen, markers, ListingFailed>>
  BY <1>1 DEF scanVars, ListingFailed
<1>6. CheckTypeOK' /\ SameTerms' /\ CheckPhases' /\ CheckedOnce'
  BY <1>1, <1>4, <1>5 DEF CheckedInv, CheckInv, CheckTypeOK, SameTerms, CheckPhases, CheckedOnce,
     Judged
<1>7. MarkersAgree'
  BY <1>1, <1>4, <1>5 DEF CheckedInv, CheckInv, MarkersAgree
<1>8. CheckFindings'
  BY <1>1, <1>4, <1>5 DEF CheckedInv, CheckInv, CheckFindings, IsFound, IsAnswered, Answer,
     Young
<1>9. LinesAreVerdict' /\ PassFindings'
  BY <1>1, <1>4, LinesKept, PassFindingsKept DEF CheckedInv, CheckInv
<1> QED
  BY <1>3, <1>6, <1>7, <1>8, <1>9 DEF CheckedInv, CheckInv

\* A pass touches nothing that the check has left.
LEMMA LinesOutlastPass ==
    ASSUME CheckedInv, PassStep
    PROVE  /\ PassInv' /\ AccountsInv'
           /\ CheckTypeOK' /\ CheckPhases' /\ CheckedOnce' /\ CheckFindings' /\ LinesAreVerdict'
<1>1. /\ chk \in {"over", "failed"}
      /\ UNCHANGED <<chk, chkCfg, chkNow, chkSeen, chkMarkers, chkCandidates, chkClassified,
                     printed, complained, ctlVars>>
      /\ chkClassified = <<>> /\ DOMAIN chkClassified = {} /\ chkCfg \in Configs
  BY DEF PassStep, chkVars, CheckedInv, CheckInv, CheckPhases, CheckTypeOK
<1>2. Next
  BY <1>1 DEF PassStep, Next, ScanNext, ScanStart
<1>3. PassInv' /\ AccountsInv'
  BY <1>2, InvStep, AccountsStep DEF CheckedInv
<1>4. /\ UNCHANGED <<mtime, journal, clock>>
      /\ files' \subseteq files
      /\ \A d \in Dumps : Pinned(d)' <=> Pinned(d)
  BY WorldKept DEF CheckedNext
<1>5. CheckTypeOK' /\ CheckPhases' /\ CheckedOnce'
  BY <1>1 DEF CheckedInv, CheckInv, CheckTypeOK, CheckPhases, CheckedOnce, Judged
<1>6. CheckFindings'
  <2>1. \A d : (Young(d)' <=> Young(d))
    BY <1>1, <1>4 DEF Young
  <2> QED
    BY <1>1, <2>1 DEF CheckedInv, CheckInv, CheckFindings
<1>7. LinesAreVerdict'
  BY <1>1, <1>4, LinesKept DEF CheckedInv, CheckInv
<1> QED
  BY <1>3, <1>5, <1>6, <1>7

\* A pass that starts has the time of the check, and knows of no marker.
LEMMA PassStartsStep ==
    ASSUME CheckedInv, PassStep, OpenDirectory(chkCfg) \/ OpenFails(chkCfg)
    PROVE  CheckedInv'
<1>1. /\ pc = "idle" /\ UNCHANGED <<chk, chkCfg, chkNow, chkSeen, chkMarkers, complained,
                                   seen, markers, classified, next, files, clock>>
      /\ cfg' = chkCfg /\ chk \in {"over", "failed"}
      /\ \/ stable' = files /\ now' = clock /\ report' = EmptyReport
         \/ report' = [EmptyReport EXCEPT !.errors = {Directory}]
  BY DEF PassStep, OpenDirectory, OpenFails, chkVars, dirVars
<1>2. classified = <<>> /\ DOMAIN classified = {}
  BY <1>1 DEF CheckedInv, PassInv, MemoryOfPass
<1>3. \/ ListingFailed'
      \/ stable' = files /\ now' = clock
  BY <1>1 DEF ListingFailed, EmptyReport
<1>4. SameTerms'
  BY <1>1, <1>3 DEF CheckedInv, CheckInv, SameTerms
<1>5. MarkersAgree'
  BY <1>1, <1>3 DEF CheckedInv, CheckInv, MarkersAgree, Pinned
<1>6. PassFindings'
  BY <1>1, <1>2 DEF PassFindings, Deleted, EmptyReport
<1> QED
  BY <1>4, <1>5, <1>6, LinesOutlastPass DEF CheckedInv, CheckInv

\* While it runs it forgets no error and finds no marker that is not there.
LEMMA PassGoesOn ==
    ASSUME CheckedInv, PassStep, ScanStep
    PROVE  SameTerms' /\ MarkersAgree'
<1>1. /\ UNCHANGED <<chk, chkCfg, chkNow, chkSeen, chkMarkers, complained, mtime, clock>>
      /\ chk \in {"over", "failed"}
      /\ \A d \in Dumps : Pinned(d)' <=> Pinned(d)
  BY WorldKept DEF PassStep, chkVars, CheckedNext
<1>2. pc # "idle"
  BY DEF ScanStep, ReadMarker, ReadCandidate, ReadFails, Reading, EndOfDirectory,
     ExamineForeign, ExamineFails, ExamineYoung, ExamineRetained, ExamineMatched, Examining,
     EndOfExamination, ApplyKeep, ApplyDryRun, ApplyRemove, ApplyRemoveFails, Applying, Return
<1>3. \A d \in Dumps : Marker(d) \in stable' <=> Marker(d) \in stable
  BY <1>1, <1>2, WorldKept DEF CheckedNext
<1>4. report \in ReportType
  BY DEF CheckedInv, PassInv, TypeOK, ScanTypeOK
<1>5. cfg' = cfg /\ (pc' # "idle" => now' = now /\ (ListingFailed => ListingFailed'))
  BY <1>4 DEF ScanStep, ReadMarker, ReadCandidate, ReadFails, Reading, EndOfDirectory,
     ExamineForeign, ExamineFails, ExamineYoung, ExamineRetained, ExamineMatched, Examining,
     EndOfExamination, ApplyKeep, ApplyDryRun, ApplyRemove, ApplyRemoveFails, Applying, Return,
     ListingFailed, ReportType
<1>6. SameTerms'
  BY <1>1, <1>2, <1>5 DEF CheckedInv, CheckInv, SameTerms
<1>7. \A d \in Dumps : DumpName(d) \in markers' => Pinned(d)
  <2>1. CASE \E n \in files : ReadMarker(n)
    <3>1. PICK n \in files : IsMarker(n) /\ markers' = markers \cup {MarkedName(n)}
      BY <2>1 DEF ReadMarker
    <3>2. n \in Names
      BY DEF CheckedInv, PassInv, TypeOK, DirTypeOK
    <3>3. \A d \in Dumps : MarkedName(n) = DumpName(d) => Marker(d) \in files
      BY <3>1, <3>2, MarkerOfDump
    <3> QED
      BY <3>1, <3>3 DEF CheckedInv, CheckInv, MarkersAgree, Pinned
  <2>2. CASE ~ \E n \in files : ReadMarker(n)
    <3>1. markers' \subseteq markers
      BY <2>2 DEF ScanStep, ReadCandidate, ReadFails, EndOfDirectory,
         ExamineForeign, ExamineFails, ExamineYoung, ExamineRetained, ExamineMatched, Examining,
         EndOfExamination, ApplyKeep, ApplyDryRun, ApplyRemove, ApplyRemoveFails, Applying, Return
    <3> QED
      BY <3>1 DEF CheckedInv, CheckInv, MarkersAgree
  <2> QED
    BY <2>1, <2>2
<1>8. MarkersAgree'
  BY <1>1, <1>2, <1>3, <1>5, <1>7 DEF CheckedInv, CheckInv, MarkersAgree
<1> QED
  BY <1>6, <1>8

\* What a pass finds before it applies a verdict stays as good.
LEMMA FindingsStay ==
    ASSUME PassFindings, UNCHANGED <<cfg, chkCfg, journal, classified, next>>,
           seen \subseteq seen',
           UNCHANGED <<report.kept, report.removed, report.would_remove>>,
           report.errors \subseteq report'.errors,
           \A d \in report'.too_young : d \in report.too_young \/ Parses(d)
    PROVE  PassFindings'
<1>1. UNCHANGED Deleted /\ \A i : (Condemned(i)' <=> Condemned(i))
  BY DEF Deleted, Condemned, NoMatch, OverCap
<1>2. \A i \in DOMAIN classified : IsAnswered(classified[i])' <=> IsAnswered(classified[i])
  BY DEF IsAnswered, Answer
<1> QED
  BY <1>1, <1>2 DEF PassFindings, Parses

\* Listing and examining, but for the dumps that are classified.
LEMMA ListingFindings ==
    ASSUME CheckedInv, PassStep,
           \/ \E n \in files : ReadMarker(n) \/ ReadCandidate(n) \/ ReadFails(n)
           \/ EndOfDirectory
           \/ \E d \in Dumps : ExamineForeign(d) \/ ExamineFails(d) \/ ExamineYoung(d)
           \/ EndOfExamination
    PROVE  PassFindings'
<1>1. report \in ReportType /\ chkCfg' = chkCfg /\ journal' = journal
  BY WorldKept DEF CheckedNext, CheckedInv, PassInv, TypeOK, ScanTypeOK
<1>2. /\ UNCHANGED <<cfg, classified, next>>
      /\ seen \subseteq seen'
      /\ UNCHANGED <<report.kept, report.removed, report.would_remove>>
      /\ report.errors \subseteq report'.errors
      /\ \A d \in report'.too_young : d \in report.too_young \/ Parses(d)
  BY <1>1 DEF ReadMarker, ReadCandidate, ReadFails, Reading, EndOfDirectory, ExamineForeign,
     ExamineFails, ExamineYoung, Examining, EndOfExamination, ReportType
<1> QED
  BY <1>1, <1>2, FindingsStay DEF CheckedInv, CheckInv

\* A dump is classified by the journal's answer.
LEMMA ClassifiedFindings ==
    ASSUME CheckedInv, PassStep, ~ LookupErrors, NEW d \in Dumps,
           ExamineRetained(d) \/ \E found \in LookupResults(d) : ExamineMatched(d, found)
    PROVE  PassFindings'
<1>1. /\ Examining(d) /\ pc = "examining" /\ candidates # <<>> /\ d = Head(candidates)
      /\ UNCHANGED <<cfg, seen, next, report>>
  BY DEF ExamineRetained, ExamineMatched, Examining
<1>2. chkCfg' = chkCfg /\ journal' = journal /\ cfg = chkCfg
  BY WorldKept DEF CheckedNext, CheckedInv, CheckInv, SameTerms
<1>3. PICK c : /\ classified' = Append(classified, c) /\ c.dump = d
               /\ IsAnswered(c)
  <2>1. CASE ExamineRetained(d)
    BY <2>1 DEF ExamineRetained, IsAnswered
  <2>2. ASSUME NEW found \in LookupResults(d), ExamineMatched(d, found)
        PROVE  \E c : /\ classified' = Append(classified, c) /\ c.dump = d
                      /\ IsAnswered(c)
    <3>1. found = Answer(d)
      BY <2>2 DEF LookupResults, Answer
    <3> QED
      BY <1>2, <2>2, <3>1 DEF ExamineMatched, IsAnswered
  <2> QED
    BY <2>1, <2>2
<1>4. DumpName(d) \in seen
  <2>1. candidates \in Seq(Dumps)
    BY DEF CheckedInv, PassInv, TypeOK, ScanTypeOK
  <2>2. IsCandidate(d)
    BY <1>1, <2>1, HeadAndTail DEF IsCandidate
  <2> QED
    BY <2>2 DEF CheckedInv, AccountsInv, ListingAccounted, Pending
<1>5. next = 1 /\ report.kept = {} /\ Deleted = {} /\ Deleted' = {}
  BY <1>1 DEF CheckedInv, AccountsInv, PhasesOfPass, Deleted
<1>6. /\ DOMAIN classified' = DOMAIN classified \cup {Len(classified) + 1}
      /\ classified'[Len(classified) + 1] = c
      /\ \A i \in DOMAIN classified : classified'[i] = classified[i]
      /\ \A i \in DOMAIN classified' : ~ i < 1
  <2>1. classified \in Seq(ClassifiedType)
    BY DEF CheckedInv, PassInv, TypeOK, ScanTypeOK
  <2> QED
    BY <1>3, <2>1, AppendedLast
<1>7. \A i \in DOMAIN classified' :
         IsAnswered(classified'[i]) /\ DumpName(classified'[i].dump) \in seen
  BY <1>3, <1>4, <1>6 DEF CheckedInv, CheckInv, PassFindings
<1>8. \A i \in DOMAIN classified' : IsAnswered(classified[i])'
  BY <1>2, <1>7 DEF IsAnswered, Answer
<1>9. \A e \in report.too_young : Parses(e)
  BY DEF CheckedInv, CheckInv, PassFindings
<1> QED
  BY <1>1, <1>5, <1>6, <1>7, <1>8, <1>9 DEF PassFindings, Parses

\* A verdict is carried out, or there is an error.
LEMMA ApplyingFindings ==
    ASSUME CheckedInv, PassStep, NEW d \in Dumps,
           ApplyKeep(d) \/ ApplyDryRun(d) \/ ApplyRemove(d) \/ ApplyRemoveFails(d)
    PROVE  PassFindings'
<1>1. /\ next <= Len(classified) /\ d = classified[next].dump /\ next' = next + 1
      /\ UNCHANGED <<cfg, seen, classified>>
  BY DEF ApplyKeep, ApplyDryRun, ApplyRemove, ApplyRemoveFails, Applying
<1>2. chkCfg' = chkCfg /\ journal' = journal
  BY WorldKept DEF CheckedNext
<1>3. classified \in Seq(ClassifiedType) /\ next \in Nat \ {0} /\ report \in ReportType
  BY DEF CheckedInv, PassInv, TypeOK, ScanTypeOK
<1>4. next \in DOMAIN classified /\ \A i \in DOMAIN classified : i < next' <=> i < next \/ i = next
  BY <1>1, <1>3
<1>5. \A i : (Condemned(i)' <=> Condemned(i))
  BY <1>1 DEF Condemned, NoMatch, OverCap
<1>6. /\ UNCHANGED report.too_young
      /\ report.errors \subseteq report'.errors /\ Deleted \subseteq Deleted'
      /\ Deleted' \subseteq Deleted \cup {x \in {d} : Condemned(next)}
      /\ report'.kept \subseteq report.kept \cup {d}
      /\ Condemned(next) => d \in Deleted' \cup report'.errors
  BY <1>3 DEF ApplyKeep, ApplyDryRun, ApplyRemove, ApplyRemoveFails, Deleted, ReportType
<1>7. \A i \in DOMAIN classified : IsAnswered(classified[i])' <=> IsAnswered(classified[i])
  BY <1>1, <1>2 DEF IsAnswered, Answer
<1>8. PassFindings
  BY DEF CheckedInv, CheckInv
<1>9. /\ \A e \in Deleted' : \E i \in DOMAIN classified : classified[i].dump = e /\ Condemned(i)
      /\ \A i \in DOMAIN classified :
            i < next' /\ Condemned(i) => classified[i].dump \in Deleted' \cup report'.errors
  BY <1>1, <1>4, <1>6, <1>8 DEF PassFindings
<1> QED
  BY <1>1, <1>4, <1>5, <1>6, <1>7, <1>8, <1>9 DEF PassFindings, Parses

\* A pass under way, to its end.
LEMMA PassGoesOnStep ==
    ASSUME CheckedInv, PassStep, ScanStep, ~ LookupErrors
    PROVE  CheckedInv'
<1>1. CASE Return
  <2>1. classified' = <<>> /\ report' = EmptyReport /\ DOMAIN classified' = {}
    BY <1>1 DEF Return
  <2>2. PassFindings'
    BY <2>1 DEF PassFindings, Deleted, EmptyReport
  <2> QED
    BY <2>2, LinesOutlastPass, PassGoesOn DEF CheckedInv, CheckInv
<1>2. CASE ~ Return
  <2>1. PassFindings'
    BY <1>2, ListingFindings, ClassifiedFindings, ApplyingFindings DEF ScanStep
  <2> QED
    BY <2>1, LinesOutlastPass, PassGoesOn DEF CheckedInv, CheckInv
<1> QED
  BY <1>1, <1>2

\* Every step keeps the invariant.
LEMMA CheckedStep ==
    ~ LookupErrors /\ CheckedInv /\ [CheckedNext]_<<vars, chkVars>> => CheckedInv'
<1> SUFFICES ASSUME ~ LookupErrors, CheckedInv, [CheckedNext]_<<vars, chkVars>>
             PROVE  CheckedInv'
  OBVIOUS
<1>1. CASE UNCHANGED <<vars, chkVars>>
  <2>1. PassInv' /\ AccountsInv' /\ PassFindings'
    BY <1>1, CheckStepFrame DEF vars, chkVars
  <2>2. UNCHANGED <<chk, chkCfg, chkNow, chkSeen, chkMarkers, chkCandidates, chkClassified,
                    printed, complained, pc, cfg, now, seen, markers, report, files, stable,
                    mtime, clock, journal>>
    BY <1>1 DEF vars, chkVars, dirVars, scanVars
  <2>3. CheckTypeOK' /\ SameTerms' /\ CheckPhases' /\ MarkersAgree' /\ CheckedOnce'
    BY <2>2 DEF CheckedInv, CheckInv, CheckTypeOK, SameTerms, CheckPhases, MarkersAgree,
       CheckedOnce, Judged, Pinned, ListingFailed
  <2>4. CheckFindings'
    BY <2>2 DEF CheckedInv, CheckInv, CheckFindings, IsFound, IsAnswered, Answer, Young, Judged
  <2>5. LinesAreVerdict'
    BY <2>2, LinesKept DEF CheckedInv, CheckInv, Pinned
  <2> QED
    BY <2>1, <2>3, <2>4, <2>5 DEF CheckedInv, CheckInv
<1>2. CASE CheckStep
  BY <1>2, CheckOpensStep, CheckReadsStep, CheckListedStep, CheckExaminesStep, CheckPrintsStep
     DEF CheckStep, CheckNext
<1>3. CASE PassStep
  BY <1>3, PassStartsStep, PassGoesOnStep DEF PassStep
<1>4. CASE EvictStep
  BY <1>4, EvictedStep
<1> QED
  BY <1>1, <1>2, <1>3, <1>4 DEF CheckedNext

(***************************************************************************)
(* Unless journalctl fails, what the check has printed, and what the       *)
(* passes remember and report, is one policy's work: for every directory,  *)
(* configuration and journal, and whatever is evicted.                     *)
(***************************************************************************)
THEOREM CheckedInvariant ==
    ASSUME ~ LookupErrors
    PROVE  CheckedSpec => []CheckedInv
<1>1. CheckedInv /\ [CheckedNext]_<<vars, chkVars>> => CheckedInv'
  BY CheckedStep
<1> QED
  BY <1>1, CheckedFromStart, PTL DEF CheckedSpec

(***************************************************************************)
(* The lines of `cdgcd check` are the policy applied to the dumps that are *)
(* not pinned, and to pinned ones only after an error of readdir.          *)
(***************************************************************************)
THEOREM LinesTellPolicy ==
    ASSUME ~ LookupErrors
    PROVE  CheckedSpec => []LinesAreVerdict
<1>1. CheckedInv => LinesAreVerdict
  BY DEF CheckedInv, CheckInv
<1> QED
  BY <1>1, CheckedInvariant, PTL

-----------------------------------------------------------------------------
(* What the lines tell of the pass.                                        *)

\* The verdict of a pass is the policy applied to the dumps it has matched.
LEMMA PassVerdict ==
    ASSUME CheckedInv
    PROVE  /\ IsPolicy(chkCfg.rules)
           /\ IsAnswer(classified)
           /\ \A i \in DOMAIN classified : IsRemoved(classified, i) <=> Condemned(i)
           /\ IsVerdictOn(DumpsIn(classified), RemovedIn(classified))
           /\ DumpsIn(classified) \in SUBSET Dumps
           /\ Deleted \subseteq RemovedIn(classified)
<1>1. cfg = chkCfg /\ IsPolicy(chkCfg.rules)
  BY ScanAssumption DEF CheckedInv, CheckInv, SameTerms, CheckTypeOK
<1>2. IsAnswer(classified)
  BY DEF CheckedInv, CheckInv, PassFindings, PassInv, TypeOK, ScanTypeOK, AccountsInv,
     OnePlaceEach, IsAnswer
<1>3. \A i \in DOMAIN classified : IsRemoved(classified, i) <=> Condemned(i)
  BY <1>1 DEF IsRemoved, Condemned, NoMatch, OverCap
<1>4. Deleted \subseteq RemovedIn(classified)
  BY <1>3 DEF CheckedInv, CheckInv, PassFindings, RemovedIn
<1> QED
  BY <1>1, <1>2, <1>3, <1>4, AnswerIsVerdict, AnswerByIndex

\* Where the pass and the check both judge, neither has found a dump young.
LEMMA MatchedIsRipe ==
    ASSUME CheckedInv, ~ ListingFailed, NEW i \in DOMAIN classified
    PROVE  ~ Young(classified[i].dump)
<1>1. pc # "idle" /\ cfg = chkCfg /\ now = clock
  <2>1. classified # <<>>
    OBVIOUS
  <2> QED
    BY <2>1 DEF CheckedInv, PassInv, MemoryOfPass, CheckInv, SameTerms
<1> DEFINE d == classified[i].dump
<1>2. d \in Dumps /\ (mtime[d] > now \/ now - mtime[d] >= cfg.minimum_age)
  <2>1. classified[i] \in ClassifiedType
    BY DEF CheckedInv, PassInv, TypeOK, ScanTypeOK
  <2> QED
    BY <2>1 DEF CheckedInv, PassInv, ClassifiedAged, ClassifiedType
<1>3. mtime[d] \in Nat /\ clock \in Nat /\ cfg.minimum_age \in Nat
  BY <1>2, ScanAssumption DEF CheckedInv, PassInv, TypeOK, DirTypeOK, ScanTypeOK
<1> HIDE DEF d
<1>4. ~ Young(d)
  BY <1>1, <1>2, <1>3 DEF Young
<1> QED
  BY <1>4 DEF d

\* What the pass could remove the check has judged, when it printed its line.
LEMMA MatchedIsJudged ==
    ASSUME CheckedInv, ~ ListingFailed, Covered, NEW d \in DumpsIn(classified)
    PROVE  d \in Judged /\ ~ Pinned(d)
<1>1. PICK i \in DOMAIN classified : ~ classified[i].retained /\ classified[i].dump = d
  BY DEF DumpsIn
<1>2. d \in Dumps
  BY PassVerdict
<1>3. printed[d] # None
  BY <1>1, <1>2 DEF CheckedInv, CheckInv, PassFindings, AccountsInv, FindingsTrue, Covered
<1>4. ~ Young(d)
  BY <1>1, MatchedIsRipe
<1>5. d \in Judged
  BY <1>2, <1>3, <1>4 DEF CheckedInv, CheckInv, CheckTypeOK, CheckFindings, Judged
<1>6. pc \in {"examining", "applying"}
  <2>1. classified # <<>>
    BY <1>1
  <2> QED
    BY <2>1 DEF CheckedInv, PassInv, MemoryOfPass, TypeOK, ScanTypeOK
<1>7. ASSUME Pinned(d) PROVE FALSE
  <2>1. Marker(d) \in seen
    BY <1>2, <1>6, <1>7 DEF CheckedInv, CheckInv, MarkersAgree, PassInv, MarkersCollected
  <2>2. DumpName(d) \in markers
    BY <1>2, <2>1, MarkerOfDump DEF CheckedInv, PassInv, MarkersCollected
  <2> QED
    BY <1>1, <2>2 DEF CheckedInv, PassInv, OnlyUnmarkedMatched
<1> QED
  BY <1>5, <1>7

(***************************************************************************)
(* `check` errs on the side of telling too much: what a pass removes was   *)
(* announced, or one of the same timestamp was.                            *)
(***************************************************************************)
THEOREM CheckErrsOnSafeSide ==
    ASSUME ~ LookupErrors
    PROVE  CheckedSpec => []CheckIsCautious
<1>1. ASSUME CheckedInv PROVE CheckIsCautious
  <2> SUFFICES ASSUME chk = "over", Covered, Directory \notin report.errors,
                      NEW d \in Deleted
               PROVE  d \in ToRemove \/ Twins(d) \cap ToRemove # {}
    BY DEF CheckIsCautious
  <2>1. PICK J \in SUBSET Judged :
           /\ IsFiniteSet(J)
           /\ {e \in Judged : ~ Pinned(e)} \subseteq J
           /\ IsVerdictOn(J, ToRemove)
    BY <1>1 DEF CheckedInv, CheckInv, LinesAreVerdict
  <2>2. DumpsIn(classified) \subseteq J
    BY <1>1, <2>1, MatchedIsJudged DEF ListingFailed
  <2>3. J \in SUBSET Dumps /\ d \in RemovedIn(classified)
    BY <1>1, <2>1, PassVerdict DEF Judged
  <2>4. d \in ToRemove \/ \E e \in ToRemove : e # d /\ Timestamp[e] = Timestamp[d]
    BY <1>1, <2>1, <2>2, <2>3, PassVerdict, MoreAreJudged
  <2> QED
    BY <2>4 DEF Twins, ToRemove
<1> QED
  BY <1>1, CheckedInvariant, PTL

\* When a pass without errors is done, each dump is where its reason put it.
LEMMA DoneWithout ==
    ASSUME CheckedInv, pc = "applying", next > Len(classified), report.errors = {},
           NEW d \in Dumps, DumpName(d) \in seen, Parses(d)
    PROVE  \/ d \in report.too_young
           \/ \E i \in DOMAIN classified : classified[i].dump = d
<1>1. ~ Pending(d)
  <2>1. /\ candidates = <<>> /\ DOMAIN candidates = {}
        /\ next \in Nat /\ DOMAIN classified = 1..Len(classified) /\ Len(classified) \in Nat
    BY DEF CheckedInv, AccountsInv, PhasesOfPass, PassInv, TypeOK, ScanTypeOK
  <2> QED
    BY <2>1 DEF Pending, IsCandidate, IsClassified
<1>2. InReport(d)
  BY <1>1 DEF CheckedInv, AccountsInv, ListingAccounted, ListingFailed
<1>3. d \in report.kept \cup Deleted \cup report.too_young \cup report.unparseable
  BY <1>2, ReportedLists DEF InReport, Deleted
<1> QED
  BY <1>3 DEF CheckedInv, CheckInv, PassFindings, AccountsInv, FindingsTrue

\* Then pass and check have judged the same dumps, and removed by the verdict.
LEMMA SameDumpsJudged ==
    ASSUME CheckedInv, chk = "over", ~ complained,
           pc = "applying", next > Len(classified), report.errors = {},
           \A d \in Dumps : printed[d] # None <=> DumpName(d) \in seen /\ Parses(d),
           \A d \in Judged : ~ Young(d)
    PROVE  /\ DumpsIn(classified) = {d \in Judged : ~ Pinned(d)}
           /\ RemovedIn(classified) = Deleted
           /\ IsFiniteSet(DumpsIn(classified))
           /\ IsVerdictOn(DumpsIn(classified), ToRemove)
<1>1. ~ ListingFailed /\ Covered
  BY DEF ListingFailed, Covered
<1>2. ASSUME NEW d \in Judged, ~ Pinned(d)
      PROVE  d \in DumpsIn(classified)
  <2>1. d \in Dumps /\ DumpName(d) \in seen /\ Parses(d) /\ ~ Young(d)
    BY <1>2, CheckAssumption DEF Judged
  <2>2. d \notin report.too_young
    BY <1>1, <2>1 DEF CheckedInv, AccountsInv, FindingsTrue, CheckInv, SameTerms, Young
  <2>3. PICK i \in DOMAIN classified : classified[i].dump = d
    BY <2>1, <2>2, DoneWithout
  <2>4. ~ classified[i].retained
    BY <1>2, <2>1, <2>3 DEF CheckedInv, AccountsInv, FindingsTrue, CheckInv, MarkersAgree
  <2> QED
    BY <2>3, <2>4 DEF DumpsIn
<1>3. DumpsIn(classified) = {d \in Judged : ~ Pinned(d)}
  BY <1>1, <1>2, MatchedIsJudged
<1>4. RemovedIn(classified) = Deleted
  <2>1. next \in Nat /\ \A i \in DOMAIN classified : i < next
    BY DEF CheckedInv, PassInv, TypeOK, ScanTypeOK
  <2>2. \A i \in DOMAIN classified : Condemned(i) => classified[i].dump \in Deleted
    BY <2>1 DEF CheckedInv, CheckInv, PassFindings
  <2> QED
    BY <2>2, PassVerdict DEF RemovedIn
<1>5. PICK J \in SUBSET Judged :
         /\ IsFiniteSet(J)
         /\ {d \in Judged : ~ Pinned(d)} \subseteq J
         /\ \A d \in J : ~ Pinned(d)
         /\ IsVerdictOn(J, ToRemove)
  BY DEF CheckedInv, CheckInv, LinesAreVerdict
<1>6. J = {d \in Judged : ~ Pinned(d)}
  BY <1>5
<1> QED
  BY <1>3, <1>4, <1>5, <1>6

(***************************************************************************)
(* When nothing goes wrong a pass does what the check foretold: it removes *)
(* as many dumps as were announced, up to equal timestamps the same ones,  *)
(* and `cdgcd scan` exits with 1 exactly when some were.                   *)
(***************************************************************************)
THEOREM CheckForetellsScan ==
    ASSUME ~ LookupErrors
    PROVE  CheckedSpec => []CheckForetells
<1>1. ASSUME CheckedInv PROVE CheckForetells
  <2> SUFFICES ASSUME chk = "over", ~ complained,
                      pc = "applying", next > Len(classified), report.errors = {},
                      \A d \in Dumps : printed[d] # None <=> DumpName(d) \in seen /\ Parses(d),
                      \A d \in Judged : ~ Young(d)
               PROVE  /\ ScanStatus = IF ToRemove = {} THEN 0 ELSE 1
                      /\ Cardinality(Deleted) = Cardinality(ToRemove)
                      /\ \A d \in Dumps :
                            /\ printed[d] = "TOO_YOUNG" <=> d \in report.too_young
                            /\ Twins(d) = {} => (d \in ToRemove <=> d \in Deleted)
    BY DEF CheckForetells
  <2> DEFINE J == DumpsIn(classified)
  <2>1. /\ IsPolicy(chkCfg.rules) /\ J \in SUBSET Dumps /\ IsFiniteSet(J)
        /\ IsVerdictOn(J, ToRemove) /\ IsVerdictOn(J, Deleted)
    BY <1>1, PassVerdict, SameDumpsJudged
  <2> HIDE DEF J
  <2>2. ToRemove \subseteq J /\ Deleted \subseteq J
    BY <2>1 DEF IsVerdictOn
  <2>3. Cardinality(Deleted) = Cardinality(ToRemove)
    BY <2>1, AsManyRemoved
  <2>4. ScanStatus = IF ToRemove = {} THEN 0 ELSE 1
    <3>1. IsFiniteSet(ToRemove) /\ IsFiniteSet(Deleted)
      BY <2>1, <2>2, FS_Subset
    <3>2. ToRemove = {} <=> Deleted = {}
      BY <2>3, <3>1, FS_EmptySet
    <3> QED
      BY <3>2 DEF ScanStatus
  <2>5. ASSUME NEW d \in Dumps
        PROVE  printed[d] = "TOO_YOUNG" <=> d \in report.too_young
    <3>1. ~ ListingFailed
      BY DEF ListingFailed
    <3>2. ASSUME printed[d] = "TOO_YOUNG"
          PROVE  d \in report.too_young
      <4>1. DumpName(d) \in seen /\ Parses(d) /\ Young(d)
        BY <1>1, <2>5, <3>2, CheckAssumption DEF CheckedInv, CheckInv, CheckFindings
      <4> QED
        BY <1>1, <2>5, <3>1, <4>1, DoneWithout, MatchedIsRipe
    <3>3. ASSUME d \in report.too_young
          PROVE  printed[d] = "TOO_YOUNG"
      <4>1. DumpName(d) \in seen
        <5>1. InReport(d)
          BY <3>3, ReportedLists DEF InReport
        <5> QED
          BY <1>1, <2>5, <5>1 DEF CheckedInv, AccountsInv, ListingAccounted
      <4>2. Young(d)
        BY <1>1, <3>1, <3>3 DEF CheckedInv, AccountsInv, FindingsTrue, CheckInv, SameTerms, Young
      <4>3. printed[d] # None
        BY <1>1, <2>5, <3>3, <4>1 DEF CheckedInv, CheckInv, PassFindings
      <4>4. d \notin Judged
        BY <4>2
      <4> QED
        BY <1>1, <2>5, <4>3, <4>4 DEF CheckedInv, CheckInv, CheckTypeOK, Judged
    <3> QED
      BY <3>2, <3>3
  <2>6. ASSUME NEW d \in Dumps, Twins(d) = {}
        PROVE  d \in ToRemove <=> d \in Deleted
    <3>1. \A e \in Dumps : e # d => Timestamp[e] # Timestamp[d]
      BY <2>6 DEF Twins
    <3>2. d \in Deleted => d \in ToRemove \/ \E e \in ToRemove : e # d /\ Timestamp[e] = Timestamp[d]
      BY <2>1, MoreAreJudged
    <3>3. d \in ToRemove => d \in Deleted \/ \E e \in Deleted : e # d /\ Timestamp[e] = Timestamp[d]
      BY <2>1, MoreAreJudged
    <3> QED
      BY <2>1, <2>2, <3>1, <3>2, <3>3
  <2> QED
    BY <2>3, <2>4, <2>5, <2>6
<1> QED
  BY <1>1, CheckedInvariant, PTL
=============================================================================
