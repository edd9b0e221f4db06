----------------------------- MODULE KeepCount ------------------------------
(***************************************************************************)
(* Which classified dumps exceed the keep_count of the rule they matched   *)
(* (compute_keep_count_excess and mark_excess of src/scan.rs).             *)
(*                                                                         *)
(* `classified` is the sequence of records                                 *)
(*   [dump, rule_index, context, retained]                                 *)
(* a scan builds, in the order in which it read the directory.             *)
(***************************************************************************)
EXTENDS Policy

\* The indices that count against rule r: retained dumps never do.
Matching(classified, r) ==
    {i \in DOMAIN classified :
        ~ classified[i].retained /\ classified[i].rule_index = r}

KeyOf(rules, classified, i) ==
    GroupKey(rules[classified[i].rule_index],
             classified[i].dump, classified[i].context)

\* The dumps that share the rule and the group_by key of dump i.
Bucket(rules, classified, i) ==
    {j \in Matching(classified, classified[i].rule_index) :
        KeyOf(rules, classified, j) = KeyOf(rules, classified, i)}

\* The order of the stable sort by descending timestamp: a newer dump first,
\* dumps of one timestamp in the order of the listing.
Ahead(classified, i, j) ==
    LET ti == Timestamp[classified[i].dump]
        tj == Timestamp[classified[j].dump]
    IN  ti > tj \/ (ti = tj /\ i < j)

\* The position, from 0, of i in the sorted bucket.
Rank(classified, bucket, i) ==
    Cardinality({j \in bucket : Ahead(classified, j, i)})

\* Mutant of MarkExcess: one too many is spared.
MarkExcessByOne(classified, bucket, cap) ==
    {i \in bucket : Rank(classified, bucket, i) > cap}

\* mark_excess: everything the sort puts after the first `cap`.
MarkExcess(classified, bucket, cap) ==
    {i \in bucket : Rank(classified, bucket, i) >= cap}

\* The indices some rule with a keep_count caps.
Capped(rules, classified) ==
    {i \in DOMAIN classified :
        /\ ~ classified[i].retained
        /\ classified[i].rule_index \in DOMAIN rules
        /\ rules[classified[i].rule_index].keep_count # None}

CapOf(rules, classified, i) == rules[classified[i].rule_index].keep_count

\* compute_keep_count_excess
Excess(rules, classified) ==
    {i \in Capped(rules, classified) :
        i \in MarkExcess(classified, Bucket(rules, classified, i),
                         CapOf(rules, classified, i))}
=============================================================================
