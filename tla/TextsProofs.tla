---------------------------- MODULE TextsProofs -----------------------------
(***************************************************************************)
(* Theorems about Texts, for texts of any length. A function defined by    *)
(* recursion is shown to satisfy its equation once, in RankedRecursion;    *)
(* what it computes is proved at the last place, or the first, where it    *)
(* could be wrong.                                                         *)
(***************************************************************************)
EXTENDS Texts, SequenceTheorems, FiniteSetTheorems, WellFoundedInduction, TLAPS

-----------------------------------------------------------------------------
(* Least and greatest numbers.                                             *)

\* A set of naturals that is not empty has a least element.
LEMMA LeastIsLeast ==
    ASSUME NEW S \in SUBSET Nat, S # {}
    PROVE  /\ Least(S) \in S
           /\ \A j \in S : Least(S) <= j
<1>1. PICK i \in S : \A j \in S : ~ (<<j, i>> \in OpToRel(<, Nat))
  BY NatLessThanWellFounded, WFMin
<1>2. \A j \in S : i <= j
  <2> SUFFICES ASSUME NEW j \in S, j < i
               PROVE  FALSE
    OBVIOUS
  <2>1. <<j, i>> \in Nat \X Nat /\ <<j, i>>[1] = j /\ <<j, i>>[2] = i
    OBVIOUS
  <2>2. <<j, i>> \in {ss \in Nat \X Nat : ss[1] < ss[2]}
    BY <2>1
  <2>3. <<j, i>> \in OpToRel(<, Nat)
    BY <2>2, Zenon DEF OpToRel
  <2> QED
    BY <1>1, <2>3
<1> QED
  BY <1>2 DEF Least

\* And a greatest one, if it has an upper bound.
LEMMA GreatestExists ==
    ASSUME NEW n \in Nat, NEW S \in SUBSET (0..n), S # {}
    PROVE  \E m \in S : \A k \in S : k <= m
<1> DEFINE T == {n - k : k \in S}
<1>1. T \in SUBSET Nat /\ T # {}
  <2>1. \A k \in S : n - k \in Nat
    OBVIOUS
  <2> QED
    BY <2>1
<1>2. /\ Least(T) \in T
      /\ \A j \in T : Least(T) <= j
  BY <1>1, LeastIsLeast
<1>3. PICK m \in S : Least(T) = n - m
  BY <1>2
<1>4. \A k \in S : k <= m
  <2> SUFFICES ASSUME NEW k \in S
               PROVE  k <= m
    OBVIOUS
  <2>1. n - m <= n - k
    BY <1>2, <1>3
  <2> QED
    BY <2>1
<1> QED
  BY <1>4

\* Find is the first place of c from i on, or the one after the end.
LEMMA FindIsFirst ==
    ASSUME NEW T, NEW p \in Seq(T), NEW c, NEW i \in Nat \ {0}
    PROVE  /\ \/ Find(p, c, i) \in i..Len(p) /\ p[Find(p, c, i)] = c
              \/ Find(p, c, i) = Len(p) + 1
           /\ \A j \in i..Len(p) : p[j] = c => Find(p, c, i) <= j
           /\ Find(p, c, i) <= Len(p) + 1
<1> DEFINE S == {j \in i..Len(p) : p[j] = c} \cup {Len(p) + 1}
<1>1. Len(p) \in Nat
  BY LenProperties
<1>2. S \in SUBSET Nat /\ S # {}
  BY <1>1
<1>3. /\ Least(S) \in S
      /\ \A j \in S : Least(S) <= j
  BY <1>2, LeastIsLeast
<1> QED
  BY <1>1, <1>3 DEF Find

-----------------------------------------------------------------------------
(* Recursion.                                                              *)

\* B, the right hand side of a definition, of a place and a function, depends
\* on the function only where the rank is less.
Ranked(D, V, n, rank, B) ==
    /\ n \in Nat /\ rank \in [D -> 0..n]
    /\ B \in [D \X [D -> V] -> V]
    /\ \A i \in D, g, h \in [D -> V] :
          (\A j \in D : rank[j] < rank[i] => g[j] = h[j]) => B[<<i, g>>] = B[<<i, h>>]

Solvable(D, V, B) == \E f \in [D -> V] : \A i \in D : f[i] = B[<<i, f>>]

\* Such a definition has a solution.
LEMMA RankedRecursion ==
    ASSUME NEW D, NEW V, NEW v \in V, NEW n, NEW rank, NEW B, Ranked(D, V, n, rank, B)
    PROVE  Solvable(D, V, B)
<1>0. /\ n \in Nat /\ rank \in [D -> 0..n]
      /\ B \in [D \X [D -> V] -> V]
      /\ \A i \in D, g, h \in [D -> V] :
            (\A j \in D : rank[j] < rank[i] => g[j] = h[j]) => B[<<i, g>>] = B[<<i, h>>]
  BY DEF Ranked
<1> USE <1>0
<1> DEFINE Good(f, m) == \A i \in D : rank[i] < m => f[i] = B[<<i, f>>]
           Bad == {m \in Nat : ~ \E f \in [D -> V] : Good(f, m)}
<1>1. Bad = {}
  <2> SUFFICES ASSUME Bad # {}
               PROVE  FALSE
    OBVIOUS
  <2>1. PICK m \in Bad : \A k \in Bad : m <= k
    BY LeastIsLeast
  <2>2. m \in Nat /\ ~ \E f \in [D -> V] : Good(f, m)
    BY <2>1
  <2>3. m # 0
    <3>1. [i \in D |-> v] \in [D -> V]
      OBVIOUS
    <3>2. Good([i \in D |-> v], 0)
      OBVIOUS
    <3> QED
      BY <2>2, <3>1, <3>2
  <2>4. m - 1 \in Nat /\ m - 1 \notin Bad
    <3>1. m - 1 \in Nat /\ ~ (m <= m - 1)
      BY <2>2, <2>3
    <3> HIDE DEF Bad
    <3> QED
      BY <2>1, <3>1
  <2>5. PICK f \in [D -> V] : Good(f, m - 1)
    BY <2>4
  <2> DEFINE g == [i \in D |-> IF rank[i] < m - 1 THEN f[i] ELSE B[<<i, f>>]]
  <2>6. \A i \in D : <<i, f>> \in D \X [D -> V] /\ B[<<i, f>>] \in V
    OBVIOUS
  <2>7. g \in [D -> V]
    BY <2>6
  <2>8. Good(g, m)
    <3> SUFFICES ASSUME NEW i \in D, rank[i] < m
                 PROVE  g[i] = B[<<i, g>>]
      OBVIOUS
    <3>1. rank[i] \in Nat /\ rank[i] <= m - 1 /\ \A j \in D : rank[j] \in Nat
      BY <2>2
    <3>2. \A j \in D : rank[j] < rank[i] => g[j] = f[j]
      BY <2>2, <3>1
    <3>3. B[<<i, g>>] = B[<<i, f>>]
      BY <2>7, <3>2
    <3>4. rank[i] < m - 1 => f[i] = B[<<i, f>>]
      BY <2>5
    <3> QED
      BY <3>3, <3>4
  <2> QED
    BY <2>2, <2>7, <2>8
<1>2. n + 1 \in Nat
  OBVIOUS
<1>3. PICK f \in [D -> V] : Good(f, n + 1)
  BY <1>1, <1>2
<1>4. \A i \in D : rank[i] < n + 1
  OBVIOUS
<1>5. \A i \in D : f[i] = B[<<i, f>>]
  BY <1>3, <1>4
<1> QED
  BY <1>5 DEF Solvable

\* From the next place on, Find stays in the text or just behind it.
LEMMA FindWithin ==
    ASSUME NEW T, NEW p \in Seq(T), NEW c, NEW i \in Nat, i <= Len(p)
    PROVE  Find(p, c, i + 1) \in (i + 1)..(Len(p) + 1)
<1>1. Len(p) \in Nat
  BY LenProperties
<1>2. i + 1 \in Nat \ {0}
  OBVIOUS
<1> QED
  BY <1>1, <1>2, FindIsFirst

\* A class ends behind its first member.
LEMMA ClassEndWithin ==
    ASSUME NEW T, NEW p \in Seq(T), NEW i \in Nat
    PROVE  /\ ClassEnd(p, i) \in Nat
           /\ ClassEnd(p, i) <= Len(p) => ClassEnd(p, i) > i + 1
<1> DEFINE from == IF i < Len(p) /\ p[i + 1] = "!" THEN i + 3 ELSE i + 2
<1>1. Len(p) \in Nat
  BY LenProperties
<1>2. from \in Nat \ {0} /\ from > i + 1 /\ ClassEnd(p, i) = Find(p, "]", from)
  BY DEF ClassEnd
<1> HIDE DEF from
<1>3. Find(p, "]", from) \in from..Len(p) \/ Find(p, "]", from) = Len(p) + 1
  BY <1>2, FindIsFirst
<1> QED
  BY <1>1, <1>2, <1>3

\* to_digit gives a number, or NoDigit.
LEMMA DigitType ==
    ASSUME NEW b \in Nat
    PROVE  Digit(b) \in 0..16
BY DEF Digit, NoDigit

\* MinFrom satisfies the equation that defines it.
LEMMA MinFromEquation ==
    ASSUME NEW T, NEW p \in Seq(T)
    PROVE  /\ MinFrom(p) \in [1..(Len(p) + 2) -> Nat]
           /\ \A i \in 1..(Len(p) + 2) : MinFrom(p)[i] = MinAt(p, MinFrom(p), i)
<1> DEFINE D == 1..(Len(p) + 2)
           rank == [i \in D |-> Len(p) + 2 - i]
           B == [z \in D \X [D -> Nat] |-> MinAt(p, z[2], z[1])]
           M == MinFrom(p)
<1>1. M = CHOOSE f : f = [i \in D |-> MinAt(p, f, i)]
  BY DEF MinFrom
<1>2. Len(p) \in Nat
  BY LenProperties
<1>3. \A i \in D : \A f : (\A j \in D : j > i => f[j] \in Nat) => MinAt(p, f, i) \in Nat
  <2> SUFFICES ASSUME NEW i \in D, NEW f, \A j \in D : j > i => f[j] \in Nat
               PROVE  MinAt(p, f, i) \in Nat
    OBVIOUS
  <2>1. i <= Len(p) => Find(p, "]", i + 1) + 1 \in D /\ Find(p, "]", i + 1) + 1 > i
    BY <1>2, FindWithin
  <2>2. i <= Len(p) => i + 1 \in D /\ i + 2 \in D
    BY <1>2
  <2>3. i <= Len(p) =>
           f[i + 1] \in Nat /\ f[i + 2] \in Nat /\ f[Find(p, "]", i + 1) + 1] \in Nat
    <3>1. i + 1 > i /\ i + 2 > i
      OBVIOUS
    <3> QED
      BY <2>1, <2>2, <3>1
  <2>4. i > Len(p) \/ i <= Len(p)
    BY <1>2
  <2>5. \A a \in Nat : 1 + a \in Nat /\ 0 + a \in Nat
    OBVIOUS
  <2> QED
    BY <2>3, <2>4, <2>5 DEF MinAt
<1>4. \A i \in D : \A g, h : (\A j \in D : j > i => g[j] = h[j]) => MinAt(p, g, i) = MinAt(p, h, i)
  <2> SUFFICES ASSUME NEW i \in D, NEW g, NEW h, \A j \in D : j > i => g[j] = h[j]
               PROVE  MinAt(p, g, i) = MinAt(p, h, i)
    OBVIOUS
  <2>1. i <= Len(p) => Find(p, "]", i + 1) + 1 \in D /\ Find(p, "]", i + 1) + 1 > i
    BY <1>2, FindWithin
  <2>2. i <= Len(p) => i + 1 \in D /\ i + 2 \in D
    BY <1>2
  <2> QED
    BY <1>2, <2>1, <2>2 DEF MinAt
<1>5. \E f : f = [i \in D |-> MinAt(p, f, i)]
  <2>1. Len(p) + 2 \in Nat /\ rank \in [D -> 0..(Len(p) + 2)]
    BY <1>2
  <2>2. B \in [D \X [D -> Nat] -> Nat]
    BY <1>3, <1>4
  <2>3. \A i \in D, f \in [D -> Nat] : B[<<i, f>>] = MinAt(p, f, i)
    OBVIOUS
  <2>4. \A i, j \in D : j > i => rank[j] < rank[i]
    BY <1>2
  <2> HIDE DEF D, rank, B
  <2>5. \A i \in D, g, h \in [D -> Nat] :
           (\A j \in D : rank[j] < rank[i] => g[j] = h[j]) => B[<<i, g>>] = B[<<i, h>>]
    BY <1>4, <2>3, <2>4
  <2>6. Solvable(D, Nat, B)
    <3>1. Ranked(D, Nat, Len(p) + 2, rank, B)
      BY <2>1, <2>2, <2>5 DEF Ranked
    <3>2. 0 \in Nat
      OBVIOUS
    <3> QED
      BY <3>1, <3>2, RankedRecursion
  <2>7. PICK f \in [D -> Nat] : \A i \in D : f[i] = B[<<i, f>>]
    BY <2>6 DEF Solvable
  <2>8. f = [i \in D |-> MinAt(p, f, i)]
    BY <2>3, <2>7
  <2> QED
    BY <2>8
<1>6. M = [i \in D |-> MinAt(p, M, i)]
  <2> HIDE DEF D, M
  <2> QED
    BY <1>1, <1>5
<1> HIDE DEF M
<1>7. \A i \in D : M[i] = MinAt(p, M, i)
  BY <1>6
<1> DEFINE Bad == {i \in D : M[i] \notin Nat}
<1>8. Bad = {}
  <2> SUFFICES ASSUME Bad # {}
               PROVE  FALSE
    OBVIOUS
  <2>1. Bad \in SUBSET (0..(Len(p) + 2)) /\ Len(p) + 2 \in Nat
    BY <1>2
  <2>2. PICK i \in Bad : \A k \in Bad : k <= i
    BY <2>1, GreatestExists
  <2>3. i \in D /\ \A j \in D : j > i => M[j] \in Nat
    <3>1. \A j \in D : j > i => ~ (j <= i)
      BY <2>1
    <3> QED
      BY <2>2, <3>1
  <2> QED
    BY <1>3, <1>7, <2>2, <2>3
<1>9. M \in [D -> Nat]
  <2>1. M = [i \in D |-> M[i]]
    BY <1>6, <1>7
  <2> QED
    BY <1>8, <2>1
<1> QED
  BY <1>7, <1>9 DEF M

\* ShortestFrom satisfies the equation that defines it.
LEMMA ShortestFromEquation ==
    ASSUME NEW T, NEW p \in Seq(T)
    PROVE  /\ ShortestFrom(p) \in [1..(Len(p) + 1) -> (Nat \cup {None})]
           /\ \A i \in 1..(Len(p) + 1) : ShortestFrom(p)[i] = ShortestAt(p, ShortestFrom(p), i)
<1> DEFINE D == 1..(Len(p) + 1)
           rank == [i \in D |-> Len(p) + 1 - i]
           B == [z \in D \X [D -> (Nat \cup {None})] |-> ShortestAt(p, z[2], z[1])]
           M == ShortestFrom(p)
<1>1. M = CHOOSE f : f = [i \in D |-> ShortestAt(p, f, i)]
  BY DEF ShortestFrom
<1>2. Len(p) \in Nat
  BY LenProperties
<1>3. \A i \in D : \A f : (\A j \in D : j > i => f[j] \in Nat \cup {None}) =>
         ShortestAt(p, f, i) \in Nat \cup {None}
  <2> SUFFICES ASSUME NEW i \in D, NEW f, \A j \in D : j > i => f[j] \in Nat \cup {None}
               PROVE  ShortestAt(p, f, i) \in Nat \cup {None}
    OBVIOUS
  <2>1. ClassEnd(p, i) <= Len(p) => ClassEnd(p, i) + 1 \in D /\ ClassEnd(p, i) + 1 > i
    <3>1. i \in Nat
      BY <1>2
    <3>2. /\ ClassEnd(p, i) \in Nat
          /\ ClassEnd(p, i) <= Len(p) => ClassEnd(p, i) > i + 1
      BY <3>1, ClassEndWithin
    <3> QED
      BY <1>2, <3>1, <3>2
  <2>2. /\ i <= Len(p) => i + 1 \in D
        /\ i + 2 <= Len(p) => i + 3 \in D
    BY <1>2
  <2>3. \A n \in Nat \cup {None} : Plus(1, n) \in Nat \cup {None}
    BY DEF Plus, Malformed
  <2>4. CASE i > Len(p)
    BY <2>4 DEF ShortestAt
  <2>5. CASE i <= Len(p) /\ p[i] = "*"
    <3>1. i + 1 \in D /\ f[i + 1] \in Nat \cup {None}
      BY <1>2, <2>2, <2>5
    <3>2. i + 2 <= Len(p) => f[i + 3] \in Nat \cup {None}
      BY <1>2, <2>2
    <3> QED
      BY <1>2, <2>5, <3>1, <3>2 DEF ShortestAt, Malformed
  <2>6. CASE i <= Len(p) /\ p[i] = "["
    <3>1. ShortestAt(p, f, i) = IF ClassEnd(p, i) > Len(p) THEN None
                                ELSE Plus(1, f[ClassEnd(p, i) + 1])
      BY <1>2, <2>6 DEF ShortestAt, Malformed
    <3>2. ClassEnd(p, i) \in Nat
      BY <1>2, ClassEndWithin
    <3>3. ClassEnd(p, i) <= Len(p) => f[ClassEnd(p, i) + 1] \in Nat \cup {None}
      BY <2>1
    <3>4. ClassEnd(p, i) <= Len(p) => Plus(1, f[ClassEnd(p, i) + 1]) \in Nat \cup {None}
      BY <2>3, <3>3
    <3> QED
      BY <1>2, <3>1, <3>2, <3>4
  <2>7. CASE i <= Len(p) /\ p[i] # "*" /\ p[i] # "["
    <3>1. i + 1 \in D /\ f[i + 1] \in Nat \cup {None}
      BY <1>2, <2>2, <2>7
    <3> QED
      BY <1>2, <2>3, <2>7, <3>1 DEF ShortestAt
  <2> QED
    BY <1>2, <2>4, <2>5, <2>6, <2>7
<1>4. \A i \in D : \A g, h : (\A j \in D : j > i => g[j] = h[j]) =>
         ShortestAt(p, g, i) = ShortestAt(p, h, i)
  <2> SUFFICES ASSUME NEW i \in D, NEW g, NEW h, \A j \in D : j > i => g[j] = h[j]
               PROVE  ShortestAt(p, g, i) = ShortestAt(p, h, i)
    OBVIOUS
  <2>1. ClassEnd(p, i) <= Len(p) => ClassEnd(p, i) + 1 \in D /\ ClassEnd(p, i) + 1 > i
    <3>1. i \in Nat
      BY <1>2
    <3>2. /\ ClassEnd(p, i) \in Nat
          /\ ClassEnd(p, i) <= Len(p) => ClassEnd(p, i) > i + 1
      BY <3>1, ClassEndWithin
    <3> QED
      BY <1>2, <3>1, <3>2
  <2>2. /\ i <= Len(p) => i + 1 \in D
        /\ i + 2 <= Len(p) => i + 3 \in D
    BY <1>2
  <2>3. CASE i > Len(p)
    BY <2>3 DEF ShortestAt
  <2>4. CASE i <= Len(p) /\ p[i] = "*"
    <3>1. g[i + 1] = h[i + 1]
      BY <1>2, <2>2, <2>4
    <3>2. i + 2 <= Len(p) => g[i + 3] = h[i + 3]
      BY <1>2, <2>2
    <3> QED
      BY <1>2, <2>4, <3>1, <3>2 DEF ShortestAt
  <2>5. CASE i <= Len(p) /\ p[i] = "["
    <3>1. \A f : ShortestAt(p, f, i) = IF ClassEnd(p, i) > Len(p) THEN Malformed
                                      ELSE Plus(1, f[ClassEnd(p, i) + 1])
      BY <1>2, <2>5 DEF ShortestAt
    <3>2. ClassEnd(p, i) \in Nat
      BY <1>2, ClassEndWithin
    <3>3. ClassEnd(p, i) <= Len(p) => g[ClassEnd(p, i) + 1] = h[ClassEnd(p, i) + 1]
      BY <2>1
    <3> QED
      BY <1>2, <3>1, <3>2, <3>3
  <2>6. CASE i <= Len(p) /\ p[i] # "*" /\ p[i] # "["
    <3>1. g[i + 1] = h[i + 1]
      BY <1>2, <2>2, <2>6
    <3> QED
      BY <1>2, <2>6, <3>1 DEF ShortestAt
  <2> QED
    BY <1>2, <2>3, <2>4, <2>5, <2>6
<1>5. \E f : f = [i \in D |-> ShortestAt(p, f, i)]
  <2>1. Len(p) + 1 \in Nat /\ rank \in [D -> 0..(Len(p) + 1)]
    BY <1>2
  <2>2. B \in [D \X [D -> (Nat \cup {None})] -> (Nat \cup {None})]
    BY <1>3, <1>4
  <2>3. \A i \in D, f \in [D -> (Nat \cup {None})] : B[<<i, f>>] = ShortestAt(p, f, i)
    OBVIOUS
  <2>4. \A i, j \in D : j > i => rank[j] < rank[i]
    BY <1>2
  <2> HIDE DEF D, rank, B
  <2>5. \A i \in D, g, h \in [D -> (Nat \cup {None})] :
           (\A j \in D : rank[j] < rank[i] => g[j] = h[j]) => B[<<i, g>>] = B[<<i, h>>]
    BY <1>4, <2>3, <2>4
  <2>6. Solvable(D, (Nat \cup {None}), B)
    <3>1. Ranked(D, (Nat \cup {None}), Len(p) + 1, rank, B)
      BY <2>1, <2>2, <2>5 DEF Ranked
    <3>2. 0 \in (Nat \cup {None})
      OBVIOUS
    <3> QED
      BY <3>1, <3>2, RankedRecursion
  <2>7. PICK f \in [D -> (Nat \cup {None})] : \A i \in D : f[i] = B[<<i, f>>]
    BY <2>6 DEF Solvable
  <2>8. f = [i \in D |-> ShortestAt(p, f, i)]
    BY <2>3, <2>7
  <2> QED
    BY <2>8
<1>6. M = [i \in D |-> ShortestAt(p, M, i)]
  <2> HIDE DEF D, M
  <2> QED
    BY <1>1, <1>5
<1> HIDE DEF M
<1>7. \A i \in D : M[i] = ShortestAt(p, M, i)
  BY <1>6
<1> DEFINE Bad == {i \in D : M[i] \notin (Nat \cup {None})}
<1>8. Bad = {}
  <2> SUFFICES ASSUME Bad # {}
               PROVE  FALSE
    OBVIOUS
  <2>1. Bad \in SUBSET (0..(Len(p) + 1)) /\ Len(p) + 1 \in Nat
    BY <1>2
  <2>2. PICK i \in Bad : \A k \in Bad : k <= i
    BY <2>1, GreatestExists
  <2>3. i \in D /\ \A j \in D : j > i => M[j] \in (Nat \cup {None})
    <3>1. \A j \in D : j > i => ~ (j <= i)
      BY <2>1
    <3> QED
      BY <2>2, <3>1
  <2> QED
    BY <1>3, <1>7, <2>2, <2>3
<1>9. M \in [D -> (Nat \cup {None})]
  <2>1. M = [i \in D |-> M[i]]
    BY <1>6, <1>7
  <2> QED
    BY <1>8, <2>1
<1> QED
  BY <1>7, <1>9 DEF M

\* UnescapeFrom satisfies the equation that defines it.
LEMMA UnescapeFromEquation ==
    ASSUME NEW s \in Seq(Nat)
    PROVE  /\ UnescapeFrom(s) \in [1..(Len(s) + 1) -> Seq(Nat)]
           /\ \A i \in 1..(Len(s) + 1) : UnescapeFrom(s)[i] = UnescapedAt(s, UnescapeFrom(s), i)
<1> DEFINE D == 1..(Len(s) + 1)
           rank == [i \in D |-> Len(s) + 1 - i]
           B == [z \in D \X [D -> Seq(Nat)] |-> UnescapedAt(s, z[2], z[1])]
           M == UnescapeFrom(s)
<1>1. M = CHOOSE f : f = [i \in D |-> UnescapedAt(s, f, i)]
  BY DEF UnescapeFrom
<1>2. Len(s) \in Nat
  BY LenProperties
<1>3. \A i \in D : \A f : (\A j \in D : j > i => f[j] \in Seq(Nat)) => UnescapedAt(s, f, i) \in Seq(Nat)
  <2> SUFFICES ASSUME NEW i \in D, NEW f, \A j \in D : j > i => f[j] \in Seq(Nat)
               PROVE  UnescapedAt(s, f, i) \in Seq(Nat)
    OBVIOUS
  <2>1. /\ i <= Len(s) => i + 1 \in D
        /\ IsEscape(s, i) => i + 4 \in D
    BY <1>2 DEF IsEscape
  <2>2. i <= Len(s) => <<s[i]>> \in Seq(Nat)
    BY <1>2, ElementOfSeq
  <2>3. IsEscape(s, i) => <<16 * Digit(s[i + 2]) + Digit(s[i + 3])>> \in Seq(Nat)
    <3> SUFFICES ASSUME IsEscape(s, i)
                 PROVE  16 * Digit(s[i + 2]) + Digit(s[i + 3]) \in Nat
      OBVIOUS
    <3>1. i + 2 \in 1..Len(s) /\ i + 3 \in 1..Len(s)
      BY <1>2 DEF IsEscape
    <3>2. Digit(s[i + 2]) \in 0..16 /\ Digit(s[i + 3]) \in 0..16
      BY <3>1, ElementOfSeq, DigitType
    <3>3. \A m, n \in 0..16 : 16 * m + n \in Nat
      OBVIOUS
    <3> QED
      BY <3>2, <3>3
  <2>4. \A t, u \in Seq(Nat) : t \o u \in Seq(Nat)
    BY ConcatProperties
  <2> QED
    BY <1>2, <2>1, <2>2, <2>3, <2>4, EmptySeq DEF UnescapedAt
<1>4. \A i \in D : \A g, h : (\A j \in D : j > i => g[j] = h[j]) =>
         UnescapedAt(s, g, i) = UnescapedAt(s, h, i)
  <2> SUFFICES ASSUME NEW i \in D, NEW g, NEW h, \A j \in D : j > i => g[j] = h[j]
               PROVE  UnescapedAt(s, g, i) = UnescapedAt(s, h, i)
    OBVIOUS
  <2>1. /\ i <= Len(s) => i + 1 \in D
        /\ IsEscape(s, i) => i + 4 \in D
    BY <1>2 DEF IsEscape
  <2>2. i > Len(s) \/ (i <= Len(s) /\ g[i + 1] = h[i + 1])
    <3>1. i + 1 > i /\ (i > Len(s) \/ i <= Len(s))
      BY <1>2
    <3> QED
      BY <2>1, <3>1
  <2>3. IsEscape(s, i) => g[i + 4] = h[i + 4]
    <3>1. i + 4 > i
      OBVIOUS
    <3> QED
      BY <2>1, <3>1
  <2> QED
    BY <2>2, <2>3 DEF UnescapedAt
<1>5. \E f : f = [i \in D |-> UnescapedAt(s, f, i)]
  <2>1. Len(s) + 1 \in Nat /\ rank \in [D -> 0..(Len(s) + 1)]
    BY <1>2
  <2>2. B \in [D \X [D -> Seq(Nat)] -> Seq(Nat)]
    BY <1>3, <1>4
  <2>3. \A i \in D, f \in [D -> Seq(Nat)] : B[<<i, f>>] = UnescapedAt(s, f, i)
    OBVIOUS
  <2>4. \A i, j \in D : j > i => rank[j] < rank[i]
    BY <1>2
  <2> HIDE DEF D, rank, B
  <2>5. \A i \in D, g, h \in [D -> Seq(Nat)] :
           (\A j \in D : rank[j] < rank[i] => g[j] = h[j]) => B[<<i, g>>] = B[<<i, h>>]
    BY <1>4, <2>3, <2>4
  <2>6. Solvable(D, Seq(Nat), B)
    <3>1. Ranked(D, Seq(Nat), Len(s) + 1, rank, B)
      BY <2>1, <2>2, <2>5 DEF Ranked
    <3>2. <<>> \in Seq(Nat)
      OBVIOUS
    <3> QED
      BY <3>1, <3>2, RankedRecursion
  <2>7. PICK f \in [D -> Seq(Nat)] : \A i \in D : f[i] = B[<<i, f>>]
    BY <2>6 DEF Solvable
  <2>8. f = [i \in D |-> UnescapedAt(s, f, i)]
    BY <2>3, <2>7
  <2> QED
    BY <2>8
<1>6. M = [i \in D |-> UnescapedAt(s, M, i)]
  <2> HIDE DEF D, M
  <2> QED
    BY <1>1, <1>5
<1> HIDE DEF M
<1>7. \A i \in D : M[i] = UnescapedAt(s, M, i)
  BY <1>6
<1> DEFINE Bad == {i \in D : M[i] \notin Seq(Nat)}
<1>8. Bad = {}
  <2> SUFFICES ASSUME Bad # {}
               PROVE  FALSE
    OBVIOUS
  <2>1. Bad \in SUBSET (0..(Len(s) + 1)) /\ Len(s) + 1 \in Nat
    BY <1>2
  <2>2. PICK i \in Bad : \A k \in Bad : k <= i
    BY <2>1, GreatestExists
  <2>3. i \in D /\ \A j \in D : j > i => M[j] \in Seq(Nat)
    <3>1. \A j \in D : j > i => ~ (j <= i)
      BY <2>1
    <3> QED
      BY <2>2, <3>1
  <2> QED
    BY <1>3, <1>7, <2>2, <2>3
<1>9. M \in [D -> Seq(Nat)]
  <2>1. M = [i \in D |-> M[i]]
    BY <1>6, <1>7
  <2> QED
    BY <1>8, <2>1
<1> QED
  BY <1>7, <1>9 DEF M

-----------------------------------------------------------------------------
(* Type correctness.                                                       *)

\* The pattern, the name and the values are texts.
TextsTypeOK ==
    /\ pattern \in Seq(PatternChars)
    /\ comm \in Seq(CommBytes)
    /\ entry \in [Fields -> Seq(ValueChars)]

\* Whatever is typed, the three are texts.
LEMMA TextsTypeCorrect == Spec => []TextsTypeOK
<1>1. <<>> \in Seq(PatternChars) /\ <<>> \in Seq(CommBytes) /\ <<>> \in Seq(ValueChars)
  BY EmptySeq
<1>2. NoEntry \in [Fields -> Seq(ValueChars)]
  BY <1>1 DEF NoEntry
<1>3. Init => TextsTypeOK
  BY <1>1, <1>2 DEF Init, TextsTypeOK
<1>4. TextsTypeOK /\ [Next]_vars => TextsTypeOK'
  <2> SUFFICES ASSUME TextsTypeOK, [Next]_vars
               PROVE  TextsTypeOK'
    OBVIOUS
  <2>1. CASE StartOver
    BY <1>1, <1>2, <2>1 DEF StartOver, TextsTypeOK
  <2>2. ASSUME NEW c \in PatternChars, TypePattern(c)
        PROVE  TextsTypeOK'
    BY <2>2, AppendProperties DEF TypePattern, TextsTypeOK
  <2>3. ASSUME NEW b \in CommBytes, NameProcess(b)
        PROVE  TextsTypeOK'
    BY <2>3, AppendProperties DEF NameProcess, TextsTypeOK
  <2>4. ASSUME NEW f \in Fields, NEW c \in ValueChars, WriteField(f, c)
        PROVE  TextsTypeOK'
    <3>1. Append(entry[f], c) \in Seq(ValueChars)
      BY AppendProperties DEF TextsTypeOK
    <3> HIDE DEF ValueChars
    <3> QED
      BY <2>4, <3>1 DEF WriteField, TextsTypeOK
  <2>5. CASE UNCHANGED vars
    BY <2>5 DEF vars, TextsTypeOK
  <2> QED
    BY <2>1, <2>2, <2>3, <2>4, <2>5 DEF Next
<1> QED
  BY <1>3, <1>4, PTL DEF Spec

-----------------------------------------------------------------------------
(* Globs.                                                                  *)

\* What stands in p from some place on is a subsequence of p.
LEMMA StandsIn ==
    ASSUME NEW T, NEW p \in Seq(T), NEW q \in Seq(T), NEW i \in 1..Len(p),
           i + Len(q) <= Len(p) + 1,
           \A k \in 1..Len(q) : p[i + k - 1] = q[k]
    PROVE  q \in SubSeqs(p)
<1>1. Len(p) \in Nat /\ Len(q) \in Nat /\ i \in Nat
  BY LenProperties
<1> DEFINE m == i - 1
           n == i + Len(q) - 1
<1>2. m \in 0..Len(p) /\ n \in 0..Len(p)
  BY <1>1
<1>3. \A k \in (m + 1)..n : p[k] \in T
  BY <1>1, ElementOfSeq
<1>4. /\ SubSeq(p, m + 1, n) \in Seq(T)
      /\ Len(SubSeq(p, m + 1, n)) = Len(q)
      /\ \A k \in 1..Len(q) : SubSeq(p, m + 1, n)[k] = p[m + 1 + k - 1]
  <2>1. m + 1 \in Int /\ n \in Int /\ n - (m + 1) + 1 = Len(q)
    BY <1>1
  <2>2. /\ SubSeq(p, m + 1, n) \in Seq(T)
        /\ Len(SubSeq(p, m + 1, n)) = IF m + 1 <= n THEN n - (m + 1) + 1 ELSE 0
        /\ \A k \in 1..(n - (m + 1) + 1) : SubSeq(p, m + 1, n)[k] = p[m + 1 + k - 1]
    BY <1>3, <2>1, SubSeqProperties
  <2>3. m + 1 <= n \/ Len(q) = 0
    BY <1>1
  <2> QED
    BY <1>1, <2>1, <2>2, <2>3
<1>5. \A k \in 1..Len(q) : SubSeq(p, m + 1, n)[k] = q[k]
  <2>1. \A k \in 1..Len(q) : m + 1 + k - 1 = i + k - 1
    BY <1>1
  <2> QED
    BY <1>4, <2>1
<1> HIDE DEF m, n
<1>6. SubSeq(p, m + 1, n) = q
  BY <1>4, <1>5, SeqEqual
<1> QED
  BY <1>2, <1>6 DEF SubSeqs

\* What Plain excludes, place by place.
LEMMA PlainAt ==
    ASSUME NEW T, NEW p \in Seq(T), Plain(p), NEW i \in 1..Len(p)
    PROVE  /\ p[i] # "backslash"
           /\ i + 1 <= Len(p) => ~ (p[i] = "[" /\ p[i + 1] = "]")
           /\ i + 2 <= Len(p) => ~ (p[i] = "[" /\ p[i + 1] = "!" /\ p[i + 2] = "]")
           /\ i + 2 <= Len(p) => ~ (p[i] = "*" /\ p[i + 1] = "*" /\ p[i + 2] = "/")
<1>1. Len(p) \in Nat /\ i \in Nat
  BY LenProperties
<1>2. \A j \in 1..Len(p) : p[j] \in T
  BY ElementOfSeq
<1>3. /\ <<"backslash">> \notin SubSeqs(p) /\ <<"[", "]">> \notin SubSeqs(p)
      /\ <<"[", "!", "]">> \notin SubSeqs(p) /\ <<"*", "*", "/">> \notin SubSeqs(p)
  BY DEF Plain
<1>4. ASSUME NEW c, p[i] = c, <<c>> \notin SubSeqs(p)
      PROVE  FALSE
  <2>1. <<c>> \in Seq(T) /\ Len(<<c>>) = 1
    BY <1>2, <1>4
  <2>2. \A k \in 1..Len(<<c>>) : p[i + k - 1] = <<c>>[k]
    BY <1>1, <1>4
  <2>3. i + Len(<<c>>) <= Len(p) + 1
    BY <1>1, <2>1
  <2> QED
    BY <1>4, <2>1, <2>2, <2>3, StandsIn
<1>5. ASSUME NEW c, NEW d, i + 1 <= Len(p), p[i] = c, p[i + 1] = d, <<c, d>> \notin SubSeqs(p)
      PROVE  FALSE
  <2>1. <<c, d>> \in Seq(T) /\ Len(<<c, d>>) = 2
    BY <1>1, <1>2, <1>5
  <2>2. \A k \in 1..Len(<<c, d>>) : p[i + k - 1] = <<c, d>>[k]
    <3>1. \A k \in 1..2 : k = 1 \/ k = 2
      OBVIOUS
    <3>2. i + 1 - 1 = i /\ i + 2 - 1 = i + 1
      BY <1>1
    <3> QED
      BY <1>5, <2>1, <3>1, <3>2
  <2>3. i + Len(<<c, d>>) <= Len(p) + 1
    BY <1>1, <1>5, <2>1
  <2> QED
    BY <1>5, <2>1, <2>2, <2>3, StandsIn
<1>6. ASSUME NEW c, NEW d, NEW e, i + 2 <= Len(p), p[i] = c, p[i + 1] = d, p[i + 2] = e,
             <<c, d, e>> \notin SubSeqs(p)
      PROVE  FALSE
  <2>1. <<c, d, e>> \in Seq(T) /\ Len(<<c, d, e>>) = 3
    <3>1. c \in T /\ d \in T /\ e \in T
      BY <1>1, <1>2, <1>6
    <3> QED
      BY <3>1
  <2>2. \A k \in 1..Len(<<c, d, e>>) : p[i + k - 1] = <<c, d, e>>[k]
    <3>1. \A k \in 1..3 : k = 1 \/ k = 2 \/ k = 3
      OBVIOUS
    <3>2. i + 1 - 1 = i /\ i + 2 - 1 = i + 1 /\ i + 3 - 1 = i + 2
      BY <1>1
    <3> QED
      BY <1>6, <2>1, <3>1, <3>2
  <2>3. i + Len(<<c, d, e>>) <= Len(p) + 1
    BY <1>1, <1>6, <2>1
  <2> QED
    BY <1>6, <2>1, <2>2, <2>3, StandsIn
<1> QED
  BY <1>3, <1>4, <1>5, <1>6

\* Where c does not stand, the search may begin one place later.
LEMMA FindLater ==
    ASSUME NEW T, NEW p \in Seq(T), NEW c, NEW i \in Nat \ {0}, i <= Len(p), p[i] # c
    PROVE  Find(p, c, i) = Find(p, c, i + 1)
<1>1. Len(p) \in Nat
  BY LenProperties
<1>2. {j \in i..Len(p) : p[j] = c} = {j \in (i + 1)..Len(p) : p[j] = c}
  BY <1>1
<1> QED
  BY <1>2 DEF Find

\* In a plain pattern code and crate find the same end of a class.
LEMMA SameClassEnd ==
    ASSUME NEW T, NEW p \in Seq(T), Plain(p), NEW i \in 1..Len(p), p[i] = "[",
           ClassEnd(p, i) <= Len(p)
    PROVE  ClassEnd(p, i) = Find(p, "]", i + 1)
<1>1. Len(p) \in Nat /\ i \in Nat
  BY LenProperties
<1>2. ClassEnd(p, i) > i + 1 /\ ClassEnd(p, i) \in Nat
  BY <1>1, ClassEndWithin
<1>3. i + 2 <= Len(p) /\ i + 1 <= Len(p)
  BY <1>1, <1>2
<1>4. p[i + 1] # "]"
  BY <1>1, <1>3, PlainAt
<1>5. Find(p, "]", i + 1) = Find(p, "]", i + 2)
  <2>1. i + 1 \in Nat \ {0} /\ i + 1 + 1 = i + 2
    BY <1>1
  <2> QED
    BY <1>3, <1>4, <2>1, FindLater
<1>6. CASE p[i + 1] = "!"
  <2>1. p[i + 2] # "]"
    BY <1>1, <1>3, <1>6, PlainAt
  <2>2. i + 2 \in Nat \ {0} /\ i + 2 + 1 = i + 3
    BY <1>1
  <2>3. Find(p, "]", i + 2) = Find(p, "]", i + 3)
    BY <1>3, <2>1, <2>2, FindLater
  <2> QED
    BY <1>1, <1>3, <1>5, <1>6, <2>3 DEF ClassEnd
<1>7. CASE p[i + 1] # "!"
  BY <1>5, <1>7 DEF ClassEnd
<1> QED
  BY <1>6, <1>7

\* For every plain pattern that the glob crate accepts, code and crate agree on
\* its length, because they agree on the rest of it from each place.
LEMMA PlainLength ==
    ASSUME NEW T, NEW p \in Seq(T), Plain(p), Shortest(p) # Malformed
    PROVE  MinMatchLength(p) = Shortest(p)
<1> DEFINE M == MinFrom(p)
           S == ShortestFrom(p)
           L == Len(p)
           Bad == {i \in 1..(L + 1) : S[i] # None /\ M[i] # S[i]}
<1>1. L \in Nat
  BY LenProperties
<1>2. /\ M \in [1..(L + 2) -> Nat]
      /\ \A i \in 1..(L + 2) : M[i] = MinAt(p, M, i)
  BY MinFromEquation
<1>3. /\ S \in [1..(L + 1) -> Nat \cup {None}]
      /\ \A i \in 1..(L + 1) : S[i] = ShortestAt(p, S, i)
  BY ShortestFromEquation
<1>4. \A n \in Nat \cup {None} : Plus(1, n) # None => n \in Nat /\ Plus(1, n) = 1 + n
  BY DEF Plus, Malformed
<1> HIDE DEF M, S
<1>5. Bad = {}
  <2> SUFFICES ASSUME Bad # {}
               PROVE  FALSE
    OBVIOUS
  <2>1. Bad \in SUBSET (0..(L + 1)) /\ L + 1 \in Nat
    BY <1>1
  <2>2. PICK i \in Bad : \A k \in Bad : k <= i
    BY <2>1, GreatestExists
  <2>3. i \in 1..(L + 1) /\ i \in 1..(L + 2) /\ S[i] # None /\ M[i] # S[i]
    BY <1>1, <2>2
  <2>4. \A j \in 1..(L + 1) : j > i /\ S[j] # None => M[j] = S[j]
    <3>1. \A j \in 1..(L + 1) : j > i => ~ (j <= i)
      BY <1>1, <2>3
    <3> QED
      BY <2>2, <3>1
  <2>5. M[i] = MinAt(p, M, i) /\ S[i] = ShortestAt(p, S, i)
    BY <1>2, <1>3, <2>3
  <2>6. CASE i > L
    BY <2>3, <2>5, <2>6 DEF MinAt, ShortestAt
  <2>7. ASSUME i <= L
        PROVE  i \in 1..L /\ i + 1 \in 1..(L + 1) /\ i + 1 > i /\ p[i] # "backslash"
    <3>1. i \in 1..L /\ i + 1 \in 1..(L + 1) /\ i + 1 > i
      BY <1>1, <2>3, <2>7
    <3> QED
      BY <3>1, PlainAt
  <2>8. CASE i <= L /\ p[i] = "*"
    <3>1. M[i] = M[i + 1]
      BY <1>1, <2>3, <2>5, <2>8 DEF MinAt
    <3>2. CASE ~ (i + 1 <= L /\ p[i + 1] = "*")
      <4>1. S[i] = S[i + 1]
        BY <1>1, <2>3, <2>5, <2>8, <3>2 DEF ShortestAt
      <4> QED
        BY <2>3, <2>4, <2>7, <2>8, <3>1, <4>1
    <3>3. CASE i + 1 <= L /\ p[i + 1] = "*"
      <4>1. ~ (i + 2 <= L /\ p[i + 2] = "/")
        BY <1>1, <2>7, <2>8, <3>3, PlainAt
      <4>2. i + 2 > L /\ S[i] = 0
        BY <1>1, <2>3, <2>5, <2>8, <3>3, <4>1 DEF ShortestAt, Malformed
      <4>3. i + 1 \in 1..(L + 2) /\ i + 2 \in 1..(L + 2)
        BY <1>1, <2>3, <3>3
      <4>4. M[i + 1] = M[i + 1 + 1] /\ i + 1 + 1 = i + 2
        BY <1>1, <1>2, <2>3, <3>3, <4>3 DEF MinAt
      <4>5. M[i + 2] = 0
        BY <1>1, <1>2, <4>2, <4>3 DEF MinAt
      <4> QED
        BY <2>3, <3>1, <4>2, <4>4, <4>5
    <3> QED
      BY <3>2, <3>3
  <2>9. CASE i <= L /\ p[i] = "["
    <3>1. S[i] = IF ClassEnd(p, i) > L THEN None ELSE Plus(1, S[ClassEnd(p, i) + 1])
      BY <1>1, <2>3, <2>5, <2>9 DEF ShortestAt, Malformed
    <3>2. ClassEnd(p, i) \in Nat /\ (ClassEnd(p, i) <= L => ClassEnd(p, i) > i + 1)
      <4>1. i \in Nat
        BY <2>3
      <4> QED
        BY <4>1, ClassEndWithin
    <3>3. ClassEnd(p, i) <= L
      BY <1>1, <2>3, <3>1, <3>2
    <3>4. M[i] = 1 + M[Find(p, "]", i + 1) + 1]
      BY <1>1, <2>3, <2>5, <2>9 DEF MinAt
    <3>5. Find(p, "]", i + 1) = ClassEnd(p, i)
      BY <2>7, <2>9, <3>3, SameClassEnd
    <3> DEFINE e == ClassEnd(p, i) + 1
    <3>6. e \in 1..(L + 1) /\ e > i
      BY <1>1, <2>3, <3>2, <3>3
    <3>7. S[i] = Plus(1, S[e]) /\ M[i] = 1 + M[e]
      BY <1>1, <3>1, <3>2, <3>3, <3>4, <3>5
    <3> HIDE DEF e
    <3>8. S[e] \in Nat \cup {None}
      BY <1>3, <3>6
    <3>9. S[e] \in Nat /\ S[i] = 1 + S[e]
      BY <1>4, <2>3, <3>7, <3>8
    <3>10. S[e] # None
      BY <3>9, TextsAssumption
    <3> QED
      BY <2>3, <2>4, <3>6, <3>7, <3>9, <3>10
  <2>10. CASE i <= L /\ p[i] # "*" /\ p[i] # "["
    <3>1. S[i] = Plus(1, S[i + 1])
      BY <1>1, <2>3, <2>5, <2>10 DEF ShortestAt
    <3>2. M[i] = 1 + M[i + 1]
      BY <1>1, <2>3, <2>5, <2>7, <2>10 DEF MinAt
    <3>3. S[i + 1] \in Nat /\ S[i] = 1 + S[i + 1]
      BY <1>3, <1>4, <2>3, <2>7, <2>10, <3>1
    <3>4. S[i + 1] # None
      BY <3>3, TextsAssumption
    <3> QED
      BY <2>3, <2>4, <2>7, <2>10, <3>2, <3>3, <3>4
  <2> QED
    BY <1>1, <2>3, <2>6, <2>8, <2>9, <2>10
<1>6. 1 \in 1..(L + 1)
  BY <1>1
<1> QED
  BY <1>5, <1>6 DEF MinMatchLength, Shortest, Malformed, M, S

(***************************************************************************)
(* Whatever pattern is typed: if the glob crate accepts it and reads its   *)
(* characters as glob_min_match_length does, from_rule refuses it as too   *)
(* long exactly when it can match no command name.                         *)
(***************************************************************************)
THEOREM LengthsAgree == Spec => []LengthIsShortest
<1>1. TextsTypeOK => LengthIsShortest
  BY PlainLength DEF TextsTypeOK, LengthIsShortest
<1> QED
  BY <1>1, TextsTypeCorrect, PTL

-----------------------------------------------------------------------------
(* Texts put together from pieces.                                         *)

\* Texts over T in a row.
ArePieces(s, T) ==
    /\ Len(s) \in Nat
    /\ \A i \in 1..Len(s) : s[i] \in Seq(T) /\ Len(s[i]) \in Nat

\* The pieces s stand in text one after the other, each from its place in at.
IsLayout(s, text, at) ==
    /\ Len(text) \in Nat /\ Len(s) \in Nat /\ \A i \in 1..Len(s) : Len(s[i]) \in Nat
    /\ at \in [1..(Len(s) + 1) -> Nat]
    /\ at[1] = 1 /\ at[Len(s) + 1] = Len(text) + 1
    /\ \A i \in 1..Len(s) : at[i + 1] = at[i] + Len(s[i])
    /\ \A i \in 1..Len(s) : \A k \in 1..Len(s[i]) : text[at[i] + k - 1] = s[i][k]

\* The function by which FlattenSeq is defined: f[i] are the first i pieces.
LEMMA FlattenEquation ==
    ASSUME NEW T, NEW s, ArePieces(s, T), Len(s) # 0
    PROVE  \E f \in [1..Len(s) -> Seq(T)] :
              /\ FlattenSeq(s) = f[Len(s)]
              /\ \A i \in 1..Len(s) : f[i] = IF i = 1 THEN s[i] ELSE f[i - 1] \o s[i]
<1> DEFINE n == Len(s)
           D == 1..n
           rhs(i, f) == IF i = 1 THEN s[i] ELSE f[i - 1] \o s[i]
           rank == [i \in D |-> i]
           B == [z \in D \X [D -> Seq(T)] |-> rhs(z[1], z[2])]
           M == CHOOSE f : f = [i \in D |-> rhs(i, f)]
<1>1. FlattenSeq(s) = M[n]
  BY DEF FlattenSeq
<1>2. n \in Nat \ {0} /\ \A i \in D : s[i] \in Seq(T)
  BY DEF ArePieces
<1> HIDE DEF n
<1>3. \A i \in D : \A f : (\A j \in D : j < i => f[j] \in Seq(T)) => rhs(i, f) \in Seq(T)
  <2> SUFFICES ASSUME NEW i \in D, NEW f, \A j \in D : j < i => f[j] \in Seq(T)
               PROVE  rhs(i, f) \in Seq(T)
    OBVIOUS
  <2>1. CASE i = 1
    BY <1>2, <2>1
  <2>2. CASE i # 1
    <3>1. f[i - 1] \in Seq(T) /\ s[i] \in Seq(T)
      BY <1>2, <2>2
    <3>2. f[i - 1] \o s[i] \in Seq(T)
      BY <3>1, ConcatProperties
    <3> QED
      BY <2>2, <3>2
  <2> QED
    BY <2>1, <2>2
<1>4. \A i \in D : \A g, h : (\A j \in D : j < i => g[j] = h[j]) => rhs(i, g) = rhs(i, h)
  <2> SUFFICES ASSUME NEW i \in D, NEW g, NEW h, \A j \in D : j < i => g[j] = h[j]
               PROVE  rhs(i, g) = rhs(i, h)
    OBVIOUS
  <2>1. i # 1 => g[i - 1] = h[i - 1]
    BY <1>2
  <2> QED
    BY <2>1
<1>5. \E f : f = [i \in D |-> rhs(i, f)]
  <2>1. n \in Nat /\ rank \in [D -> 0..n]
    BY <1>2
  <2>2. B \in [D \X [D -> Seq(T)] -> Seq(T)]
    <3>1. \A i \in D, f \in [D -> Seq(T)] : rhs(i, f) \in Seq(T)
      BY <1>3
    <3> HIDE DEF rhs
    <3> QED
      BY <3>1
  <2>3. \A i \in D, f \in [D -> Seq(T)] : B[<<i, f>>] = rhs(i, f)
    OBVIOUS
  <2>4. \A i, j \in D : j < i => rank[j] < rank[i]
    BY <1>2
  <2> HIDE DEF D, rank, B, rhs
  <2>5. \A i \in D, g, h \in [D -> Seq(T)] :
           (\A j \in D : rank[j] < rank[i] => g[j] = h[j]) => B[<<i, g>>] = B[<<i, h>>]
    BY <1>4, <2>3, <2>4
  <2>6. Solvable(D, Seq(T), B)
    <3>1. Ranked(D, Seq(T), n, rank, B)
      BY <2>1, <2>2, <2>5 DEF Ranked
    <3>2. <<>> \in Seq(T)
      BY EmptySeq
    <3> QED
      BY <3>1, <3>2, RankedRecursion
  <2>7. PICK f \in [D -> Seq(T)] : \A i \in D : f[i] = B[<<i, f>>]
    BY <2>6 DEF Solvable
  <2>8. f = [i \in D |-> rhs(i, f)]
    BY <2>3, <2>7
  <2> QED
    BY <2>8
<1>6. M = [i \in D |-> rhs(i, M)]
  <2> HIDE DEF D, rhs
  <2> QED
    BY <1>5
<1> HIDE DEF M
<1>7. \A i \in D : M[i] = rhs(i, M)
  BY <1>6
<1> DEFINE Bad == {i \in D : M[i] \notin Seq(T)}
<1>8. Bad = {}
  <2> SUFFICES ASSUME Bad # {}
               PROVE  FALSE
    OBVIOUS
  <2>1. Bad \in SUBSET Nat
    OBVIOUS
  <2>2. PICK i \in Bad : \A k \in Bad : i <= k
    BY <2>1, LeastIsLeast
  <2>3. i \in D /\ \A j \in D : j < i => M[j] \in Seq(T)
    <3>1. \A j \in D : j < i => ~ (i <= j)
      BY <2>1
    <3> QED
      BY <2>2, <3>1
  <2>4. M[i] \in Seq(T)
    <3> HIDE DEF rhs
    <3> QED
      BY <1>3, <1>7, <2>3
  <2> QED
    BY <2>2, <2>4
<1>9. M \in [D -> Seq(T)]
  <2>1. M = [i \in D |-> M[i]]
    BY <1>6, <1>7
  <2> QED
    BY <1>8, <2>1
<1> QED
  BY <1>1, <1>7, <1>9 DEF n

\* FlattenSeq puts the pieces one after the other.
LEMMA FlattenLayout ==
    ASSUME NEW T, NEW s, ArePieces(s, T), Len(s) = 0 => s = <<>>
    PROVE  /\ FlattenSeq(s) \in Seq(T)
           /\ \E at : IsLayout(s, FlattenSeq(s), at)
<1> DEFINE n == Len(s)
           text == FlattenSeq(s)
<1>1. n \in Nat /\ \A i \in 1..n : Len(s[i]) \in Nat
  BY DEF ArePieces
<1>2. \A i \in 1..n : s[i] \in Seq(T)
  BY DEF ArePieces
<1> HIDE DEF n, text
<1>3. CASE n = 0
  <2>1. text = <<>>
    BY <1>3 DEF FlattenSeq, n, text
  <2>2. text \in Seq(T) /\ Len(text) = 0
    BY <2>1, EmptySeq
  <2>3. IsLayout(s, text, [i \in 1..(n + 1) |-> 1])
    BY <1>1, <1>3, <2>2 DEF IsLayout, n
  <2> QED
    BY <2>2, <2>3 DEF text
<1>4. CASE n # 0
  <2>1. PICK f \in [1..n -> Seq(T)] :
           /\ text = f[n]
           /\ \A i \in 1..n : f[i] = IF i = 1 THEN s[i] ELSE f[i - 1] \o s[i]
    BY <1>4, FlattenEquation DEF n, text
  <2>2. \A i \in 1..n : Len(f[i]) \in Nat
    BY LenProperties
  <2> DEFINE at == [i \in 1..(n + 1) |-> IF i = 1 THEN 1 ELSE Len(f[i - 1]) + 1]
  <2>3. \A i \in 1..n : i # 1 =>
           /\ i - 1 \in 1..n
           /\ f[i] = f[i - 1] \o s[i]
           /\ Len(f[i]) = Len(f[i - 1]) + Len(s[i])
           /\ \A k \in 1..(Len(f[i - 1]) + Len(s[i])) :
                 f[i][k] = IF k <= Len(f[i - 1]) THEN f[i - 1][k] ELSE s[i][k - Len(f[i - 1])]
    <3> SUFFICES ASSUME NEW i \in 1..n, i # 1
                 PROVE  /\ i - 1 \in 1..n
                        /\ f[i] = f[i - 1] \o s[i]
                        /\ Len(f[i]) = Len(f[i - 1]) + Len(s[i])
                        /\ \A k \in 1..(Len(f[i - 1]) + Len(s[i])) :
                              f[i][k] = IF k <= Len(f[i - 1]) THEN f[i - 1][k]
                                        ELSE s[i][k - Len(f[i - 1])]
      OBVIOUS
    <3> HIDE DEF at
    <3>1. i - 1 \in 1..n
      BY <1>1
    <3>2. f[i] = f[i - 1] \o s[i]
      BY <2>1
    <3>3. f[i - 1] \in Seq(T) /\ s[i] \in Seq(T)
      BY <1>2, <3>1
    <3>4. /\ Len(f[i - 1] \o s[i]) = Len(f[i - 1]) + Len(s[i])
          /\ \A k \in 1..(Len(f[i - 1]) + Len(s[i])) :
                (f[i - 1] \o s[i])[k] = IF k <= Len(f[i - 1]) THEN f[i - 1][k]
                                         ELSE s[i][k - Len(f[i - 1])]
      BY <3>3, ConcatProperties
    <3> QED
      BY <3>1, <3>2, <3>4, Zenon
  <2>4. at \in [1..(n + 1) -> Nat] /\ at[1] = 1
    BY <1>1, <2>2
  <2>5. \A i \in 1..n : at[i + 1] = Len(f[i]) + 1 /\ at[i] = IF i = 1 THEN 1 ELSE Len(f[i - 1]) + 1
    BY <1>1
  <2>6. at[n + 1] = Len(text) + 1
    BY <1>1, <1>4, <2>1, <2>5
  <2>7. \A i \in 1..n : at[i + 1] = at[i] + Len(s[i])
    <3> HIDE DEF at
    <3> SUFFICES ASSUME NEW i \in 1..n
                 PROVE  at[i + 1] = at[i] + Len(s[i])
      OBVIOUS
    <3>1. CASE i = 1
      <4>1. at[i + 1] = Len(s[i]) + 1 /\ at[i] = 1
        BY <2>1, <2>5, <3>1
      <4> QED
        BY <1>1, <4>1
    <3>2. CASE i # 1
      <4>1. at[i + 1] = Len(f[i - 1]) + Len(s[i]) + 1 /\ at[i] = Len(f[i - 1]) + 1
        BY <2>3, <2>5, <3>2
      <4>2. Len(f[i - 1]) \in Nat
        BY <2>2, <2>3, <3>2
      <4>3. Len(s[i]) \in Nat
        BY <1>1
      <4>4. \A a, b \in Nat : a + b + 1 = a + 1 + b
        OBVIOUS
      <4> QED
        BY <4>1, <4>2, <4>3, <4>4
    <3> QED
      BY <3>1, <3>2
  <2> DEFINE Holds(j) == \A i \in 1..j : \A k \in 1..Len(s[i]) :
                            /\ at[i] + k - 1 \in 1..Len(f[j])
                            /\ f[j][at[i] + k - 1] = s[i][k]
             Bad == {j \in 1..n : ~ Holds(j)}
  <2> HIDE DEF at
  <2>8. Bad = {}
    <3> SUFFICES ASSUME Bad # {}
                 PROVE  FALSE
      OBVIOUS
    <3>1. Bad \in SUBSET Nat
      OBVIOUS
    <3>2. PICK j : j \in Bad /\ \A k \in Bad : j <= k
      BY <3>1, LeastIsLeast
    <3>3. j \in 1..n /\ ~ Holds(j)
      BY <3>2
    <3>4. j # 1 => j - 1 \in 1..n /\ Holds(j - 1)
      <4> SUFFICES ASSUME j # 1
                   PROVE  j - 1 \in 1..n /\ Holds(j - 1)
        OBVIOUS
      <4>1. j - 1 \in 1..n /\ ~ (j <= j - 1)
        BY <1>1, <3>3
      <4> HIDE DEF Holds
      <4>2. j - 1 \notin Bad
        BY <3>2, <4>1
      <4> QED
        BY <4>1, <4>2
    <3>5. ASSUME NEW i \in 1..j, NEW k \in 1..Len(s[i])
          PROVE  /\ at[i] + k - 1 \in 1..Len(f[j])
                 /\ f[j][at[i] + k - 1] = s[i][k]
      <4>1. i \in 1..n /\ Len(s[i]) \in Nat /\ Len(f[j]) \in Nat /\ k \in Nat
        <5>1. j \in 1..n /\ k \in Nat
          BY <3>3
        <5>2. i \in 1..n
          BY <1>1, <5>1
        <5> QED
          BY <1>1, <2>2, <5>1, <5>2
      <4>2. CASE j = 1
        <5>1. i = 1 /\ at[i] = 1 /\ f[j] = s[i]
          <6>1. i = 1
            BY <4>2
          <6> QED
            BY <2>1, <2>4, <3>3, <4>2, <6>1
        <5>2. at[i] + k - 1 = k
          BY <4>1, <5>1
        <5> QED
          BY <4>1, <5>1, <5>2
      <4>3. CASE j # 1 /\ i = j
        <5>1. at[i] = Len(f[j - 1]) + 1 /\ Len(f[j - 1]) \in Nat
          BY <2>2, <2>5, <3>4, <4>1, <4>3
        <5>2. \A a, b \in Nat : \A c \in 1..b :
                 /\ a + 1 + c - 1 \in 1..(a + b)
                 /\ (a + 1 + c - 1) - a = c /\ ~ (a + 1 + c - 1 <= a)
          OBVIOUS
        <5>3. /\ at[i] + k - 1 \in 1..(Len(f[j - 1]) + Len(s[j]))
              /\ (at[i] + k - 1) - Len(f[j - 1]) = k
              /\ ~ (at[i] + k - 1 <= Len(f[j - 1]))
          <6>1. k \in 1..Len(s[j]) /\ Len(s[j]) \in Nat
            BY <4>1, <4>3
          <6> DEFINE a == Len(f[j - 1])
          <6>2. a \in Nat /\ at[i] = a + 1
            BY <5>1
          <6> HIDE DEF a
          <6>3. /\ a + 1 + k - 1 \in 1..(a + Len(s[j]))
                /\ (a + 1 + k - 1) - a = k /\ ~ (a + 1 + k - 1 <= a)
            BY <5>2, <6>1, <6>2
          <6> QED
            BY <6>2, <6>3 DEF a
        <5>4. /\ Len(f[j]) = Len(f[j - 1]) + Len(s[j])
              /\ f[j][at[i] + k - 1] = s[j][k]
          <6>1. PICK x : x = at[i] + k - 1
            OBVIOUS
          <6>2. /\ x \in 1..(Len(f[j - 1]) + Len(s[j])) /\ ~ (x <= Len(f[j - 1]))
                /\ x - Len(f[j - 1]) = k
            BY <5>3, <6>1
          <6>3. /\ Len(f[j]) = Len(f[j - 1]) + Len(s[j])
                /\ f[j][x] = s[j][x - Len(f[j - 1])]
            BY <2>3, <3>3, <4>3, <6>2
          <6> QED
            BY <6>1, <6>2, <6>3
        <5> QED
          BY <4>3, <5>3, <5>4
      <4>4. CASE j # 1 /\ i # j
        <5>1. i \in 1..(j - 1)
          BY <3>3, <4>4
        <5>2. /\ at[i] + k - 1 \in 1..Len(f[j - 1])
              /\ f[j - 1][at[i] + k - 1] = s[i][k]
          BY <3>4, <4>4, <5>1
        <5>3. Len(f[j - 1]) \in Nat /\ Len(s[j]) \in Nat
          BY <1>1, <2>2, <3>3, <3>4, <4>4
        <5>4. \A a, b \in Nat : \A x \in 1..a : x \in 1..(a + b) /\ x <= a
          OBVIOUS
        <5>5. /\ at[i] + k - 1 \in 1..(Len(f[j - 1]) + Len(s[j]))
              /\ at[i] + k - 1 <= Len(f[j - 1])
          BY <5>2, <5>3, <5>4
        <5>6. /\ Len(f[j]) = Len(f[j - 1]) + Len(s[j])
              /\ f[j][at[i] + k - 1] = f[j - 1][at[i] + k - 1]
          BY <2>3, <3>3, <4>4, <5>5
        <5> QED
          BY <5>2, <5>5, <5>6
      <4> QED
        BY <4>2, <4>3, <4>4
    <3> QED
      BY <3>3, <3>5
  <2>9. \A i \in 1..n : \A k \in 1..Len(s[i]) : text[at[i] + k - 1] = s[i][k]
    <3>1. n \in 1..n /\ Holds(n)
      <4>1. n \in 1..n
        BY <1>1, <1>4
      <4> HIDE DEF Holds
      <4> QED
        BY <2>8, <4>1
    <3> QED
      BY <2>1, <3>1
  <2>10. IsLayout(s, text, at)
    BY <2>4, <2>6, <2>7, <2>9 DEF IsLayout, n
  <2>11. text \in Seq(T)
    BY <1>1, <1>4, <2>1
  <2> QED
    BY <2>10, <2>11 DEF text
<1> QED
  BY <1>3, <1>4

\* The places of the pieces are in order.
LEMMA LayoutOrdered ==
    ASSUME NEW s, NEW text, NEW at, IsLayout(s, text, at),
           NEW i \in 1..(Len(s) + 1), NEW j \in 1..(Len(s) + 1), i <= j
    PROVE  at[i] <= at[j]
<1>1. Len(s) \in Nat /\ \A k \in 1..Len(s) : Len(s[k]) \in Nat
  BY DEF IsLayout
<1>2. /\ at \in [1..(Len(s) + 1) -> Nat]
      /\ \A k \in 1..Len(s) : at[k + 1] = at[k] + Len(s[k])
  BY DEF IsLayout
<1> DEFINE Bad == {k \in i..(Len(s) + 1) : ~ (at[i] <= at[k])}
<1>3. Bad = {}
  <2> SUFFICES ASSUME Bad # {}
               PROVE  FALSE
    OBVIOUS
  <2>1. Bad \in SUBSET Nat
    BY <1>1
  <2>2. PICK m : m \in Bad /\ \A k \in Bad : m <= k
    BY <2>1, LeastIsLeast
  <2>3. m \in i..(Len(s) + 1) /\ ~ (at[i] <= at[m])
    BY <2>2
  <2>4. m # i
    <3>1. at[i] \in Nat
      BY <1>2
    <3> QED
      BY <2>3, <3>1
  <2>5. m - 1 \in i..(Len(s) + 1) /\ m - 1 \in 1..Len(s) /\ m - 1 + 1 = m /\ ~ (m <= m - 1)
    BY <1>1, <2>3, <2>4
  <2>6. at[i] <= at[m - 1]
    BY <2>2, <2>5
  <2>7. at[m] = at[m - 1] + Len(s[m - 1])
    BY <1>2, <2>5
  <2>8. at[i] \in Nat /\ at[m - 1] \in Nat /\ Len(s[m - 1]) \in Nat
    <3>1. m - 1 \in 1..(Len(s) + 1)
      BY <1>1, <2>5
    <3> QED
      BY <1>1, <1>2, <2>5, <3>1
  <2> QED
    BY <2>3, <2>6, <2>7, <2>8
<1>4. j \in i..(Len(s) + 1)
  BY <1>1
<1> QED
  BY <1>3, <1>4

\* Each place of the text is a place of one of the pieces.
LEMMA LayoutCovers ==
    ASSUME NEW s, NEW text, NEW at, IsLayout(s, text, at), NEW x \in 1..Len(text)
    PROVE  \E i \in 1..Len(s) : \E k \in 1..Len(s[i]) :
              x = at[i] + k - 1 /\ text[x] = s[i][k]
<1>1. Len(s) \in Nat /\ \A k \in 1..Len(s) : Len(s[k]) \in Nat
  BY DEF IsLayout
<1>2. /\ at \in [1..(Len(s) + 1) -> Nat]
      /\ at[1] = 1 /\ at[Len(s) + 1] = Len(text) + 1
      /\ \A k \in 1..Len(s) : at[k + 1] = at[k] + Len(s[k])
      /\ \A i \in 1..Len(s) : \A k \in 1..Len(s[i]) : text[at[i] + k - 1] = s[i][k]
  BY DEF IsLayout
<1> DEFINE S == {i \in 1..(Len(s) + 1) : at[i] <= x}
<1>3. S \in SUBSET (0..(Len(s) + 1)) /\ 1 \in S /\ Len(s) + 1 \in Nat
  BY <1>1, <1>2
<1>4. PICK i \in S : \A k \in S : k <= i
  BY <1>3, GreatestExists
<1>5. i \in 1..Len(s) /\ at[i] <= x
  BY <1>1, <1>2, <1>4
<1>6. i + 1 \in 1..(Len(s) + 1) /\ ~ (i + 1 <= i)
  BY <1>1, <1>5
<1>7. ~ (at[i + 1] <= x)
  BY <1>4, <1>6
<1>8. at[i] \in Nat /\ at[i + 1] \in Nat /\ Len(s[i]) \in Nat /\ at[i + 1] = at[i] + Len(s[i])
  BY <1>1, <1>2, <1>5, <1>6
<1> DEFINE k == x - at[i] + 1
<1>9. k \in 1..Len(s[i]) /\ x = at[i] + k - 1
  BY <1>5, <1>7, <1>8
<1> HIDE DEF k
<1> QED
  BY <1>2, <1>5, <1>9

\* When all pieces that are not empty end in c, c stands before each of them.
LEMMA PieceBefore ==
    ASSUME NEW s, NEW text, NEW at, IsLayout(s, text, at), NEW c,
           \A j \in 1..Len(s) : s[j] # <<>> => s[j][Len(s[j])] = c,
           NEW i \in 1..Len(s), at[i] # 1, Len(s[i]) # 0
    PROVE  text[at[i] - 1] = c
<1>1. /\ Len(s) \in Nat /\ Len(text) \in Nat /\ Len(s[i]) \in Nat
      /\ \A j \in 1..Len(s) : Len(s[j]) \in Nat
      /\ at \in [1..(Len(s) + 1) -> Nat] /\ at[1] = 1 /\ at[Len(s) + 1] = Len(text) + 1
      /\ \A j \in 1..Len(s) : at[j + 1] = at[j] + Len(s[j])
  BY DEF IsLayout
<1>2. /\ i \in 1..(Len(s) + 1) /\ i + 1 \in 1..(Len(s) + 1)
      /\ 1 \in 1..(Len(s) + 1) /\ Len(s) + 1 \in 1..(Len(s) + 1)
      /\ 1 <= i /\ i + 1 <= Len(s) + 1
  BY <1>1
<1>3. at[1] <= at[i] /\ at[i + 1] <= at[Len(s) + 1]
  BY <1>2, LayoutOrdered
<1>4. /\ at[i] \in Nat /\ at[i + 1] \in Nat /\ at[i + 1] = at[i] + Len(s[i])
      /\ 1 <= at[i] /\ at[i + 1] <= Len(text) + 1
  BY <1>1, <1>2, <1>3
<1> DEFINE x == at[i] - 1
<1>5. x \in 1..Len(text) /\ x \in Nat /\ x < at[i] /\ x + 1 = at[i]
  BY <1>1, <1>4
<1> HIDE DEF x
<1>6. PICK j \in 1..Len(s) : \E k \in 1..Len(s[j]) : x = at[j] + k - 1 /\ text[x] = s[j][k]
  BY <1>5, LayoutCovers
<1>7. PICK k \in 1..Len(s[j]) : x = at[j] + k - 1 /\ text[x] = s[j][k]
  BY <1>6
<1>8. /\ j \in 1..(Len(s) + 1) /\ j + 1 \in 1..(Len(s) + 1) /\ j \in Nat /\ i \in Nat
      /\ at[j] \in Nat /\ at[j + 1] \in Nat /\ Len(s[j]) \in Nat
      /\ at[j + 1] = at[j] + Len(s[j])
  <2>1. j \in Nat /\ i \in Nat /\ j \in 1..(Len(s) + 1) /\ j + 1 \in 1..(Len(s) + 1)
    BY <1>1
  <2> QED
    BY <1>1, <2>1
<1>9. ~ (i <= j)
  <2>1. i <= j => at[i] <= at[j]
    BY <1>2, <1>8, LayoutOrdered
  <2>2. \A a, b \in Nat : \A m \in 1..Len(s[j]) : a <= b => ~ ((b + m - 1) + 1 = a)
    BY <1>8
  <2>3. (at[j] + k - 1) + 1 = at[i]
    BY <1>5, <1>7
  <2> QED
    BY <1>4, <1>8, <2>1, <2>2, <2>3
<1>10. at[j + 1] <= at[i]
  <2>1. j + 1 <= i
    BY <1>8, <1>9
  <2> QED
    BY <1>2, <1>8, <2>1, LayoutOrdered
<1>11. k = Len(s[j]) /\ Len(s[j]) # 0
  <2>1. at[j] + Len(s[j]) <= x + 1
    BY <1>5, <1>8, <1>10
  <2>2. \A a, l \in Nat : \A m \in 1..l : a + l <= (a + m - 1) + 1 => m = l /\ l # 0
    OBVIOUS
  <2>3. at[j] + Len(s[j]) <= (at[j] + k - 1) + 1
    BY <1>7, <2>1
  <2> QED
    BY <1>8, <2>2, <2>3
<1>12. s[j] # <<>>
  BY <1>11
<1> QED
  BY <1>7, <1>11, <1>12 DEF x

\* Any function of a range of numbers to texts is a row of them.
LEMMA RowOfPieces ==
    ASSUME NEW T, NEW n \in Nat, NEW s \in [1..n -> Seq(T)]
    PROVE  ArePieces(s, T) /\ Len(s) = n /\ (Len(s) = 0 => s = <<>>)
<1>1. s \in Seq(Seq(T))
  BY SeqDef
<1>2. Len(s) \in Nat /\ DOMAIN s = 1..Len(s)
  BY <1>1, LenProperties
<1>3. Len(s) = n
  <2>1. 1..Len(s) = 1..n
    BY <1>2
  <2>2. \A a, b \in Nat : 1..a = 1..b => a = b
    <3> SUFFICES ASSUME NEW a \in Nat, NEW b \in Nat, 1..a = 1..b, a < b
                 PROVE  FALSE
      OBVIOUS
    <3>1. b \in 1..b /\ b \notin 1..a
      OBVIOUS
    <3> QED
      BY <3>1
  <2> QED
    BY <1>2, <2>1, <2>2
<1>4. \A i \in 1..n : s[i] \in Seq(T) /\ Len(s[i]) \in Nat
  BY LenProperties
<1>5. s = <<>> \/ Len(s) # 0
  BY <1>1, EmptySeq
<1> QED
  BY <1>2, <1>3, <1>4, <1>5 DEF ArePieces

-----------------------------------------------------------------------------
(* Command names.                                                          *)

\* The digits that systemd writes are those that to_digit reads.
LEMMA HexDigitRead ==
    ASSUME NEW n \in 0..15
    PROVE  /\ HexDigit(n) \in Nat /\ HexDigit(n) # Dot
           /\ Digit(HexDigit(n)) = n
<1>1. CASE n < 10
  <2>1. HexDigit(n) = 48 + n /\ 48 + n \in 48..57
    BY <1>1 DEF HexDigit
  <2> QED
    BY <2>1 DEF Digit, Dot
<1>2. CASE n >= 10
  <2>1. HexDigit(n) = 87 + n /\ 87 + n \in 97..102
    BY <1>2 DEF HexDigit
  <2> QED
    BY <2>1 DEF Digit, Dot
<1> QED
  BY <1>1, <1>2

\* Text e is the byte b itself, or an escape that gives it back.
Gives(e, b) ==
    /\ e \in Seq(Nat)
    /\ \A k \in 1..Len(e) : e[k] # Dot
    /\ \/ Len(e) = 1 /\ e[1] = b /\ b # Backslash
       \/ /\ Len(e) = 4
          /\ e[1] = Backslash /\ e[2] = 120
          /\ Digit(e[3]) # NoDigit /\ Digit(e[4]) # NoDigit
          /\ 16 * Digit(e[3]) + Digit(e[4]) = b

\* Each byte is escaped so that unescape_comm finds it again.
LEMMA EscapedByteRead ==
    ASSUME NEW b \in 1..255
    PROVE  Gives(EscapedByte(b), b)
<1> DEFINE e == EscapedByte(b)
           h == b \div 16
           l == b % 16
<1>1. h \in 0..15 /\ l \in 0..15 /\ 16 * h + l = b
  OBVIOUS
<1> HIDE DEF h, l
<1>2. CASE b < 32 \/ b >= 127 \/ b \in {Backslash, Dot, 47, 32}
  <2>1. e = <<Backslash, 120, HexDigit(h), HexDigit(l)>>
    BY <1>2 DEF EscapedByte, h, l
  <2>2. /\ HexDigit(h) \in Nat /\ HexDigit(h) # Dot /\ Digit(HexDigit(h)) = h
        /\ HexDigit(l) \in Nat /\ HexDigit(l) # Dot /\ Digit(HexDigit(l)) = l
    BY <1>1, HexDigitRead
  <2>3. Backslash \in Nat /\ Backslash # Dot /\ 120 # Dot
    BY DEF Backslash, Dot
  <2> HIDE DEF e
  <2>4. /\ e \in Seq(Nat) /\ Len(e) = 4
        /\ e[1] = Backslash /\ e[2] = 120 /\ e[3] = HexDigit(h) /\ e[4] = HexDigit(l)
    BY <2>1, <2>2, <2>3
  <2>5. \A k \in 1..4 : k = 1 \/ k = 2 \/ k = 3 \/ k = 4
    OBVIOUS
  <2>6. \A k \in 1..Len(e) : e[k] # Dot
    BY <2>2, <2>3, <2>4, <2>5
  <2>7. Digit(e[3]) # NoDigit /\ Digit(e[4]) # NoDigit /\ 16 * Digit(e[3]) + Digit(e[4]) = b
    BY <1>1, <2>2, <2>4 DEF NoDigit
  <2> QED
    BY <2>4, <2>6, <2>7 DEF e, Gives
<1>3. CASE ~ (b < 32 \/ b >= 127 \/ b \in {Backslash, Dot, 47, 32})
  <2>1. e = <<b>>
    BY <1>3 DEF EscapedByte
  <2> HIDE DEF e
  <2>2. e \in Seq(Nat) /\ Len(e) = 1 /\ e[1] = b
    BY <2>1
  <2>3. \A k \in 1..Len(e) : e[k] # Dot
    BY <1>3, <2>2
  <2> QED
    BY <1>3, <2>2, <2>3 DEF e, Gives
<1> QED
  BY <1>2, <1>3

\* Every command name comes back from its escaped form, which has no dot.
LEMMA CommComesBack ==
    ASSUME NEW c \in Seq(CommBytes)
    PROVE  /\ Unescape(Escape(c)) = c
           /\ \A i \in DOMAIN Escape(c) : Escape(c)[i] # Dot
<1> DEFINE n == Len(c)
           P == [i \in DOMAIN c |-> EscapedByte(c[i])]
           E == Escape(c)
           U == UnescapeFrom(E)
<1>1. n \in Nat /\ DOMAIN c = 1..n /\ \A i \in 1..n : c[i] \in CommBytes
  BY LenProperties, ElementOfSeq
<1>2. \A i \in 1..n : c[i] \in 1..255
  BY <1>1, TextsAssumption
<1>3. \A i \in 1..n : Gives(P[i], c[i])
  BY <1>1, <1>2, EscapedByteRead
<1>4. P \in [1..n -> Seq(Nat)]
  BY <1>1, <1>3 DEF Gives
<1>5. E = FlattenSeq(P)
  BY DEF Escape
<1> HIDE DEF n, P, E
<1>6. ArePieces(P, Nat) /\ Len(P) = n /\ (Len(P) = 0 => P = <<>>)
  BY <1>1, <1>4, RowOfPieces
<1>7. E \in Seq(Nat) /\ Len(E) \in Nat /\ DOMAIN E = 1..Len(E)
  <2>1. E \in Seq(Nat)
    BY <1>5, <1>6, FlattenLayout
  <2> QED
    BY <2>1, LenProperties
<1>8. PICK at : IsLayout(P, E, at)
  BY <1>5, <1>6, FlattenLayout
<1>9. /\ at \in [1..(n + 1) -> Nat]
      /\ at[1] = 1 /\ at[n + 1] = Len(E) + 1
      /\ \A i \in 1..n : at[i + 1] = at[i] + Len(P[i])
      /\ \A i \in 1..n : \A k \in 1..Len(P[i]) : E[at[i] + k - 1] = P[i][k]
  BY <1>6, <1>8 DEF IsLayout
<1>10. \A i \in 1..(n + 1) : at[i] >= 1 /\ at[i] <= Len(E) + 1
  <2> SUFFICES ASSUME NEW i \in 1..(n + 1)
               PROVE  at[1] <= at[i] /\ at[i] <= at[n + 1]
    BY <1>1, <1>9
  <2>1. 1 \in 1..(Len(P) + 1) /\ i \in 1..(Len(P) + 1) /\ n + 1 \in 1..(Len(P) + 1)
    BY <1>1, <1>6
  <2>2. 1 <= i /\ i <= n + 1
    BY <1>1
  <2> QED
    BY <1>8, <2>1, <2>2, LayoutOrdered
<1>11. ASSUME NEW x \in DOMAIN E
       PROVE  E[x] # Dot
  <2>1. x \in 1..Len(E)
    BY <1>7
  <2>2. PICK i \in 1..Len(P) : \E k \in 1..Len(P[i]) : x = at[i] + k - 1 /\ E[x] = P[i][k]
    BY <1>8, <2>1, LayoutCovers
  <2>3. \A k \in 1..Len(P[i]) : P[i][k] # Dot
    BY <1>3, <1>6 DEF Gives
  <2> QED
    BY <2>2, <2>3
<1>12. \A x \in 1..(Len(E) + 1) : U[x] = UnescapedAt(E, U, x)
  BY <1>7, UnescapeFromEquation
<1> HIDE DEF U
<1> DEFINE Bad == {i \in 1..(n + 1) : U[at[i]] # SubSeq(c, i, n)}
<1>13. Bad = {}
  <2> SUFFICES ASSUME Bad # {}
               PROVE  FALSE
    OBVIOUS
  <2>1. Bad \in SUBSET (0..(n + 1)) /\ n + 1 \in Nat
    BY <1>1
  <2>2. PICK i : i \in Bad /\ \A k \in Bad : k <= i
    BY <2>1, GreatestExists
  <2>3. i \in 1..(n + 1) /\ U[at[i]] # SubSeq(c, i, n)
    BY <2>2
  <2>4. at[i] \in 1..(Len(E) + 1) /\ at[i] \in Nat
    <3>1. at[i] \in Nat
      BY <1>9, <2>3
    <3>2. 1 <= at[i] /\ at[i] <= Len(E) + 1
      BY <1>10, <2>3
    <3> QED
      BY <1>7, <3>1, <3>2
  <2>5. U[at[i]] = UnescapedAt(E, U, at[i])
    BY <1>12, <2>4
  <2>6. CASE i = n + 1
    <3>1. U[at[i]] = <<>>
      BY <1>7, <1>9, <2>5, <2>6 DEF UnescapedAt
    <3>2. SubSeq(c, i, n) = <<>>
      <4>1. i \in Int /\ n \in Int /\ n < i
        BY <1>1, <2>6
      <4> QED
        BY <4>1, SubSeqEmpty
    <3> QED
      BY <2>3, <3>1, <3>2
  <2>7. CASE i # n + 1
    <3>1. i \in 1..n /\ i + 1 \in 1..(n + 1) /\ ~ (i + 1 <= i)
      BY <1>1, <2>3, <2>7
    <3>2. U[at[i + 1]] = SubSeq(c, i + 1, n)
      BY <2>2, <3>1
    <3>3. SubSeq(c, i, n) = <<c[i]>> \o SubSeq(c, i + 1, n)
      <4>1. n \in i..Len(c) /\ i \in 1..Len(c)
        BY <1>1, <3>1 DEF n
      <4> QED
        BY <4>1, SubSeqRecursiveFirst
    <3>4. at[i + 1] = at[i] + Len(P[i]) /\ at[i + 1] <= Len(E) + 1
      BY <1>9, <1>10, <3>1
    <3>5. \A k \in 1..Len(P[i]) : E[at[i] + k - 1] = P[i][k]
      BY <1>9, <3>1
    <3>6. CASE Len(P[i]) = 1 /\ P[i][1] = c[i] /\ c[i] # Backslash
      <4>1. E[at[i]] = c[i]
        <5>1. 1 \in 1..Len(P[i]) /\ at[i] + 1 - 1 = at[i]
          BY <2>4, <3>6
        <5> QED
          BY <3>5, <3>6, <5>1
      <4>2. ~ IsEscape(E, at[i]) /\ ~ (at[i] > Len(E)) /\ at[i + 1] = at[i] + 1
        <5>1. ~ IsEscape(E, at[i])
          BY <3>6, <4>1 DEF IsEscape
        <5>2. at[i + 1] = at[i] + 1
          BY <3>4, <3>6
        <5>3. at[i] + 1 <= Len(E) + 1
          BY <3>4, <5>2
        <5>4. ~ (at[i] > Len(E))
          BY <1>7, <2>4, <5>3
        <5> QED
          BY <5>1, <5>2, <5>4
      <4>3. U[at[i]] = <<c[i]>> \o U[at[i + 1]]
        BY <2>5, <4>1, <4>2 DEF UnescapedAt
      <4> QED
        BY <2>3, <3>2, <3>3, <4>3
    <3>7. CASE /\ Len(P[i]) = 4
               /\ P[i][1] = Backslash /\ P[i][2] = 120
               /\ Digit(P[i][3]) # NoDigit /\ Digit(P[i][4]) # NoDigit
               /\ 16 * Digit(P[i][3]) + Digit(P[i][4]) = c[i]
      <4>1. /\ E[at[i]] = P[i][1] /\ E[at[i] + 1] = P[i][2]
            /\ E[at[i] + 2] = P[i][3] /\ E[at[i] + 3] = P[i][4]
        <5>1. /\ 1 \in 1..Len(P[i]) /\ 2 \in 1..Len(P[i])
              /\ 3 \in 1..Len(P[i]) /\ 4 \in 1..Len(P[i])
          BY <3>7
        <5>2. /\ at[i] + 1 - 1 = at[i] /\ at[i] + 2 - 1 = at[i] + 1
              /\ at[i] + 3 - 1 = at[i] + 2 /\ at[i] + 4 - 1 = at[i] + 3
          BY <2>4
        <5> QED
          BY <3>5, <5>1, <5>2
      <4>2. at[i + 1] = at[i] + 4 /\ at[i] + 3 <= Len(E) /\ ~ (at[i] > Len(E))
        <5>1. at[i + 1] = at[i] + 4
          BY <3>4, <3>7
        <5>2. at[i] + 4 <= Len(E) + 1
          BY <3>4, <5>1
        <5> QED
          BY <1>7, <2>4, <5>1, <5>2
      <4>3. IsEscape(E, at[i])
        BY <3>7, <4>1, <4>2 DEF IsEscape
      <4>4. U[at[i]] = <<c[i]>> \o U[at[i + 1]]
        BY <2>5, <3>7, <4>1, <4>2, <4>3 DEF UnescapedAt
      <4> QED
        BY <2>3, <3>2, <3>3, <4>4
    <3>8. \/ Len(P[i]) = 1 /\ P[i][1] = c[i] /\ c[i] # Backslash
          \/ /\ Len(P[i]) = 4
             /\ P[i][1] = Backslash /\ P[i][2] = 120
             /\ Digit(P[i][3]) # NoDigit /\ Digit(P[i][4]) # NoDigit
             /\ 16 * Digit(P[i][3]) + Digit(P[i][4]) = c[i]
      BY <1>3, <3>1 DEF Gives
    <3> QED
      BY <3>6, <3>7, <3>8
  <2> QED
    BY <2>6, <2>7
<1>14. U[1] = SubSeq(c, 1, n)
  <2>1. 1 \in 1..(n + 1) /\ at[1] = 1
    BY <1>1, <1>9
  <2>2. 1 \notin Bad
    BY <1>13
  <2> QED
    BY <2>1, <2>2
<1>15. SubSeq(c, 1, n) = c
  BY SubSeqFull DEF n
<1> QED
  BY <1>11, <1>14, <1>15 DEF Unescape, U, E

(***************************************************************************)
(* Whatever bytes a process chooses for its name, the name of its dump has *)
(* no dot in that part and unescape_comm recovers the bytes.               *)
(***************************************************************************)
THEOREM CommsRestored == Spec => []CommRestored
<1>1. TextsTypeOK => CommRestored
  BY CommComesBack DEF TextsTypeOK, CommRestored
<1> QED
  BY <1>1, TextsTypeCorrect, PTL

-----------------------------------------------------------------------------
(* Journal entries.                                                        *)

\* The symbols of an exported entry.
Symbols == ValueChars \cup {"name", "length"}

\* Text e is what is exported of field f with value v. It reads like a field
\* at its beginning, if v is one printable line, and where a line of v does.
IsExportOf(e, f, v) ==
    /\ e \in Seq(Symbols)
    /\ e # <<>> => Len(e) # 0 /\ e[Len(e)] = "NL"
    /\ \A k \in 1..Len(e) : e[k] \in Fields =>
          \/ k = 1 /\ e[k] = f /\ v # <<>> /\ IsText(v)
          \/ k > 1 /\ e[k - 1] # "NL"
          \/ k - 3 \in 2..Len(v) /\ ReadsLike(v, k - 3, e[k]) /\ ~ IsText(v)
    /\ \A k \in 1..Len(e) : e[k] = "non-UTF-8" => Contains(v, "non-UTF-8")
    /\ v # <<>> /\ IsText(v) =>
          /\ Len(e) = Len(v) + 2
          /\ e[1] = f /\ \A k \in 1..Len(v) : e[k + 1] = v[k] /\ v[k] # "NL"
    /\ v # <<>> /\ ~ IsText(v) =>
          /\ Len(e) = Len(v) + 4
          /\ e[Len(e)] = "NL" /\ \A k \in 1..Len(v) : e[k + 3] = v[k]

\* ExportField is what its name says.
LEMMA FieldExported ==
    ASSUME NEW f \in Fields, entry[f] \in Seq(ValueChars)
    PROVE  IsExportOf(ExportField(f), f, entry[f])
<1> DEFINE e == ExportField(f)
<1>1. PICK v \in Seq(ValueChars) : v = entry[f]
  OBVIOUS
<1>2. Len(v) \in Nat /\ \A k \in 1..Len(v) : v[k] \in ValueChars
  BY LenProperties, ElementOfSeq
<1>3. /\ f \in Symbols /\ "NL" \in Symbols /\ "name" \in Symbols /\ "length" \in Symbols
      /\ f # "NL" /\ f # "non-UTF-8"
      /\ "NL" \notin Fields /\ "name" \notin Fields /\ "length" \notin Fields
  BY TextsAssumption DEF Symbols, ValueChars
<1>4. v \in Seq(Symbols)
  BY SeqMonotonic DEF Symbols
<1>5. \A k \in 1..Len(v) : v[k] = "non-UTF-8" => Contains(v, "non-UTF-8")
  BY DEF Contains
<1>6. IsText(v) => \A k \in 1..Len(v) : v[k] # "NL"
  BY DEF IsText, Contains
<1>8. CASE v = <<>>
  <2>1. e = <<>>
    BY <1>1, <1>8 DEF ExportField
  <2>2. e \in Seq(Symbols) /\ Len(e) = 0
    BY <2>1, EmptySeq
  <2> QED
    BY <1>1, <1>8, <2>1, <2>2 DEF IsExportOf
<1>9. CASE v # <<>> /\ IsText(v)
  <2>1. e = (<<f>> \o v) \o <<"NL">>
    BY <1>1, <1>9 DEF ExportField
  <2>2. PICK u \in Seq(Symbols) :
           /\ u = <<f>> \o v /\ Len(u) = Len(v) + 1
           /\ u[1] = f /\ \A k \in 1..Len(v) : u[k + 1] = v[k]
    <3>1. <<f>> \in Seq(Symbols) /\ Len(<<f>>) = 1 /\ <<f>>[1] = f
      BY <1>3
    <3>2. /\ <<f>> \o v \in Seq(Symbols)
          /\ Len(<<f>> \o v) = 1 + Len(v)
          /\ \A k \in 1..(1 + Len(v)) :
                (<<f>> \o v)[k] = IF k <= 1 THEN <<f>>[k] ELSE v[k - 1]
      BY <1>4, <3>1, ConcatProperties
    <3>3. \A k \in 1..Len(v) : k + 1 \in 1..(1 + Len(v)) /\ ~ (k + 1 <= 1) /\ k + 1 - 1 = k
      BY <1>2
    <3>4. (<<f>> \o v)[1] = f
      BY <1>2, <3>1, <3>2
    <3>5. \A k \in 1..Len(v) : (<<f>> \o v)[k + 1] = v[k]
      BY <3>2, <3>3
    <3>6. Len(<<f>> \o v) = Len(v) + 1
      BY <1>2, <3>2
    <3> QED
      BY <3>2, <3>4, <3>5, <3>6
  <2>3. /\ e \in Seq(Symbols) /\ Len(e) = Len(v) + 2
        /\ e[1] = f /\ \A k \in 1..Len(v) : e[k + 1] = v[k]
        /\ e[Len(v) + 2] = "NL"
    <3>1. <<"NL">> \in Seq(Symbols) /\ Len(<<"NL">>) = 1 /\ <<"NL">>[1] = "NL"
      BY <1>3
    <3>2. /\ e \in Seq(Symbols)
          /\ Len(e) = Len(v) + 1 + 1
          /\ \A k \in 1..(Len(v) + 1 + 1) :
                e[k] = IF k <= Len(v) + 1 THEN u[k] ELSE <<"NL">>[k - (Len(v) + 1)]
      BY <2>1, <2>2, <3>1, ConcatProperties
    <3> HIDE DEF e
    <3>3. \A k \in 1..(Len(v) + 1) : e[k] = u[k]
      BY <1>2, <3>2
    <3>4. e[Len(v) + 2] = "NL"
      BY <1>2, <3>1, <3>2
    <3> QED
      BY <1>2, <2>2, <3>2, <3>3, <3>4
  <2> HIDE DEF e
  <2>4. ASSUME NEW k \in 1..Len(e)
        PROVE  \/ k = 1 /\ e[k] = f
               \/ k - 1 \in 1..Len(v) /\ e[k] = v[k - 1]
               \/ k = Len(v) + 2 /\ e[k] = "NL"
    <3>1. k = 1 \/ k - 1 \in 1..Len(v) \/ k = Len(v) + 2
      BY <1>2, <2>3
    <3>2. k - 1 + 1 = k
      OBVIOUS
    <3> QED
      BY <2>3, <3>1, <3>2
  <2>5. ASSUME NEW k \in 1..Len(e), e[k] \in Fields, k # 1
        PROVE  k > 1 /\ e[k - 1] # "NL"
    <3>1. k > 1 /\ k - 1 \in 1..Len(v) /\ k - 1 \in 1..Len(e)
      BY <1>2, <1>3, <2>3, <2>4, <2>5
    <3>2. k - 1 = 1 \/ (k - 1 - 1 \in 1..Len(v) /\ k - 1 - 1 + 1 = k - 1)
      BY <1>2, <3>1
    <3> QED
      BY <1>3, <1>6, <1>9, <2>3, <3>1, <3>2
  <2>6. \A k \in 1..Len(e) : e[k] = "non-UTF-8" => Contains(v, "non-UTF-8")
    BY <1>3, <1>5, <2>4
  <2>7. \A k \in 1..Len(e) : e[k] \in Fields =>
           \/ k = 1 /\ e[k] = f /\ v # <<>> /\ IsText(v)
           \/ k > 1 /\ e[k - 1] # "NL"
    BY <1>9, <2>3, <2>5
  <2>8. Len(e) # 0 /\ e[Len(e)] = "NL"
    BY <1>2, <2>3
  <2>9. IsExportOf(e, f, v)
    BY <1>6, <1>9, <2>3, <2>6, <2>7, <2>8 DEF IsExportOf
  <2> QED
    BY <1>1, <2>9 DEF e
<1>10. CASE v # <<>> /\ ~ IsText(v)
  <2> DEFINE h == <<"name", "NL", "length">>
  <2>1. e = (h \o v) \o <<"NL">>
    BY <1>1, <1>10 DEF ExportField
  <2>2. h \in Seq(Symbols) /\ Len(h) = 3 /\ h[1] = "name" /\ h[2] = "NL" /\ h[3] = "length"
    BY <1>3
  <2> HIDE DEF h
  <2>3. PICK u \in Seq(Symbols) :
           /\ u = h \o v /\ Len(u) = 3 + Len(v)
           /\ \A k \in 1..(3 + Len(v)) : u[k] = IF k <= 3 THEN h[k] ELSE v[k - 3]
    <3>1. /\ h \o v \in Seq(Symbols)
          /\ Len(h \o v) = Len(h) + Len(v)
          /\ \A k \in 1..(Len(h) + Len(v)) :
                (h \o v)[k] = IF k <= Len(h) THEN h[k] ELSE v[k - Len(h)]
      BY <1>4, <2>2, ConcatProperties
    <3> QED
      BY <2>2, <3>1
  <2>4. /\ e \in Seq(Symbols) /\ Len(e) = Len(v) + 4
        /\ \A k \in 1..(Len(v) + 4) :
              e[k] = IF k <= 3 THEN h[k] ELSE IF k <= Len(v) + 3 THEN v[k - 3] ELSE "NL"
    <3>1. <<"NL">> \in Seq(Symbols) /\ Len(<<"NL">>) = 1 /\ <<"NL">>[1] = "NL"
      BY <1>3
    <3>2. /\ e \in Seq(Symbols)
          /\ Len(e) = 3 + Len(v) + 1
          /\ \A k \in 1..(3 + Len(v) + 1) :
                e[k] = IF k <= 3 + Len(v) THEN u[k] ELSE <<"NL">>[k - (3 + Len(v))]
      BY <2>1, <2>3, <3>1, ConcatProperties
    <3> HIDE DEF e
    <3>3. \A k \in 1..(3 + Len(v)) : e[k] = u[k]
      BY <1>2, <3>2
    <3>4. e[Len(v) + 4] = "NL"
      BY <1>2, <3>1, <3>2
    <3>5. ASSUME NEW k \in 1..(Len(v) + 4)
          PROVE  e[k] = IF k <= 3 THEN h[k] ELSE IF k <= Len(v) + 3 THEN v[k - 3] ELSE "NL"
      <4>1. k \in 1..(3 + Len(v)) \/ (k = Len(v) + 4 /\ ~ (k <= 3) /\ ~ (k <= Len(v) + 3))
        BY <1>2
      <4>2. k \in 1..(3 + Len(v)) => k <= Len(v) + 3
        BY <1>2
      <4> QED
        BY <2>3, <3>3, <3>4, <4>1, <4>2
    <3> QED
      BY <1>2, <3>2, <3>5
  <2> HIDE DEF e
  <2>5. ASSUME NEW k \in 1..Len(e), e[k] \in Fields
        PROVE  \/ k > 1 /\ e[k - 1] # "NL"
               \/ k - 3 \in 2..Len(v) /\ ReadsLike(v, k - 3, e[k]) /\ ~ IsText(v)
    <3>1. k \in 1..(Len(v) + 4)
      BY <2>4
    <3>2. k > 3 /\ k <= Len(v) + 3 /\ e[k] = v[k - 3]
      <4>1. ~ (k <= 3)
        <5>1. k = 1 \/ k = 2 \/ k = 3 \/ k > 3
          OBVIOUS
        <5>2. k <= 3 => e[k] = h[k]
          BY <2>4, <3>1
        <5> QED
          BY <1>3, <2>2, <2>5, <5>1, <5>2
      <4> QED
        BY <1>3, <2>4, <2>5, <3>1, <4>1
    <3>3. CASE k = 4
      <4>1. k - 1 = 3 /\ 3 \in 1..(Len(v) + 4)
        BY <1>2, <3>3
      <4> QED
        BY <2>2, <2>4, <3>2, <4>1
    <3>4. CASE k # 4
      <4>1. k - 3 \in 2..Len(v)
        BY <1>2, <3>2, <3>4
      <4>2. v[k - 3 - 1] = "NL" => ReadsLike(v, k - 3, e[k])
        BY <3>2 DEF ReadsLike
      <4>3. k - 1 \in 1..(Len(v) + 4) /\ ~ (k - 1 <= 3) /\ k - 1 <= Len(v) + 3
        BY <1>2, <3>2, <3>4
      <4>4. (k - 1) - 3 = k - 3 - 1
        OBVIOUS
      <4>5. e[k - 1] = v[(k - 1) - 3]
        BY <2>4, <4>3
      <4> QED
        BY <1>10, <3>2, <4>1, <4>2, <4>4, <4>5
    <3> QED
      BY <3>3, <3>4
  <2>6. Len(e) # 0 /\ e[Len(e)] = "NL"
    BY <1>2, <2>4
  <2>7. \A k \in 1..Len(v) : e[k + 3] = v[k]
    <3> SUFFICES ASSUME NEW k \in 1..Len(v)
                 PROVE  e[k + 3] = v[k]
      OBVIOUS
    <3>1. /\ k + 3 \in 1..(Len(v) + 4) /\ ~ (k + 3 <= 3) /\ k + 3 <= Len(v) + 3
          /\ k + 3 - 3 = k
      BY <1>2
    <3> QED
      BY <2>4, <3>1
  <2>8. ASSUME NEW k \in 1..Len(e), e[k] = "non-UTF-8"
        PROVE  Contains(v, "non-UTF-8")
    <3>1. k \in 1..(Len(v) + 4)
      BY <2>4
    <3>2. ~ (k <= 3)
      <4>1. k = 1 \/ k = 2 \/ k = 3 \/ k > 3
        OBVIOUS
      <4>2. k <= 3 => e[k] = h[k]
        BY <2>4, <3>1
      <4> QED
        BY <2>2, <2>8, <4>1, <4>2
    <3>3. k <= Len(v) + 3 /\ e[k] = v[k - 3]
      BY <2>4, <2>8, <3>1, <3>2
    <3>4. k - 3 \in 1..Len(v)
      BY <1>2, <3>1, <3>2, <3>3
    <3> QED
      BY <1>5, <2>8, <3>3, <3>4
  <2>9. IsExportOf(e, f, v)
    BY <1>10, <2>4, <2>5, <2>6, <2>7, <2>8 DEF IsExportOf
  <2> QED
    BY <1>1, <2>9 DEF e
<1> QED
  BY <1>8, <1>9, <1>10

\* The sequence in which the fields come has each field once.
LEMMA EachFieldOnce ==
    ASSUME NEW fs \in SetToSeqs(Fields)
    PROVE  /\ Cardinality(Fields) \in Nat
           /\ fs \in [1..Cardinality(Fields) -> Fields]
           /\ \A i, j \in 1..Cardinality(Fields) : fs[i] = fs[j] => i = j
           /\ \A f \in Fields : \E i \in 1..Cardinality(Fields) : fs[i] = f
<1> DEFINE n == Cardinality(Fields)
<1>1. IsFiniteSet(Fields) /\ n \in Nat
  BY TextsAssumption, FS_CardinalityType
<1>2. /\ fs \in [1..n -> Fields]
      /\ \A i, j \in 1..n : fs[i] = fs[j] => i = j
  BY DEF SetToSeqs
<1> HIDE DEF n
<1>3. fs \in Injection(1..n, Fields)
  BY <1>2 DEF Injection, IsInjective
<1>4. Cardinality(1..n) = n
  BY <1>1, FS_Interval
<1>5. fs \in Surjection(1..n, Fields)
  <2>1. Cardinality(1..n) = Cardinality(Fields)
    BY <1>4 DEF n
  <2> QED
    BY <1>1, <1>3, <2>1, FS_Injection
<1>6. \A f \in Fields : \E i \in 1..n : fs[i] = f
  BY <1>5 DEF Surjection
<1> QED
  BY <1>1, <1>2, <1>6 DEF n

\* The fields fs stand in text one after the other, each as it is exported,
\* from its place in at.
IsExport(fs, P, at, text) ==
    /\ Len(P) \in Nat /\ Len(text) \in Nat
    /\ DOMAIN text = 1..Len(text) /\ text \in Seq(Symbols)
    /\ \A i \in 1..Len(P) : fs[i] \in Fields /\ IsExportOf(P[i], fs[i], entry[fs[i]])
    /\ \A i, j \in 1..Len(P) : fs[i] = fs[j] => i = j
    /\ \A f \in Fields : \E i \in 1..Len(P) : fs[i] = f
    /\ IsLayout(P, text, at)

\* Whatever is exported is laid out like that.
LEMMA EntryExported ==
    ASSUME TextsTypeOK, NEW text \in Exports
    PROVE  \E fs, P, at : IsExport(fs, P, at, text)
<1>1. PICK fs \in SetToSeqs(Fields) :
         text = FlattenSeq([i \in DOMAIN fs |-> ExportField(fs[i])])
  BY DEF Exports
<1> DEFINE n == Cardinality(Fields)
           P == [i \in DOMAIN fs |-> ExportField(fs[i])]
<1>2. /\ n \in Nat /\ fs \in [1..n -> Fields]
      /\ \A i, j \in 1..n : fs[i] = fs[j] => i = j
      /\ \A f \in Fields : \E i \in 1..n : fs[i] = f
  BY EachFieldOnce
<1> HIDE DEF n
<1>3. \A f \in Fields : IsExportOf(ExportField(f), f, entry[f])
  BY FieldExported DEF TextsTypeOK
<1>4. \A f \in Fields : ExportField(f) \in Seq(Symbols)
  BY <1>3 DEF IsExportOf
<1>5. DOMAIN fs = 1..n /\ \A i \in 1..n : fs[i] \in Fields
  BY <1>2
<1>6. P \in [1..n -> Seq(Symbols)] /\ \A i \in 1..n : P[i] = ExportField(fs[i])
  BY <1>4, <1>5
<1>7. text = FlattenSeq(P)
  BY <1>1
<1> HIDE DEF P
<1>8. ArePieces(P, Symbols) /\ Len(P) = n /\ (Len(P) = 0 => P = <<>>)
  BY <1>2, <1>6, RowOfPieces
<1>9. text \in Seq(Symbols) /\ \E at : IsLayout(P, text, at)
  BY <1>7, <1>8, FlattenLayout
<1>10. Len(text) \in Nat /\ DOMAIN text = 1..Len(text)
  BY <1>9, LenProperties
<1>11. \A i \in 1..Len(P) : fs[i] \in Fields /\ IsExportOf(P[i], fs[i], entry[fs[i]])
  BY <1>3, <1>5, <1>6, <1>8
<1>12. PICK at : IsLayout(P, text, at)
  BY <1>9
<1>13. /\ \A i, j \in 1..Len(P) : fs[i] = fs[j] => i = j
       /\ \A f \in Fields : \E i \in 1..Len(P) : fs[i] = f
  BY <1>2, <1>8
<1>14. IsExport(fs, P, at, text)
  BY <1>2, <1>8, <1>9, <1>10, <1>11, <1>12, <1>13 DEF IsExport
<1> QED
  BY <1>14

\* A line that starts with the name of a field is where that field stands,
\* with a value of one printable line, or a line of a value that is exported
\* in another way.
LEMMA StartIsField ==
    ASSUME NEW fs, NEW P, NEW at, NEW text, IsExport(fs, P, at, text),
           NEW f \in Fields, NEW x \in 1..Len(text), StartsWith(text, x, f)
    PROVE  \E i \in 1..Len(P) :
              \/ fs[i] = f /\ x = at[i] /\ entry[f] # <<>> /\ IsText(entry[f])
              \/ /\ ~ IsText(entry[fs[i]])
                 /\ \E m \in 2..Len(entry[fs[i]]) :
                       x = at[i] + 2 + m /\ ReadsLike(entry[fs[i]], m, f)
<1>1. IsLayout(P, text, at) /\ \A i \in 1..Len(P) : IsExportOf(P[i], fs[i], entry[fs[i]])
  BY DEF IsExport
<1>2. PICK i \in 1..Len(P) : \E k \in 1..Len(P[i]) : x = at[i] + k - 1 /\ text[x] = P[i][k]
  BY <1>1, LayoutCovers
<1>3. PICK k \in 1..Len(P[i]) : x = at[i] + k - 1 /\ text[x] = P[i][k]
  BY <1>2
<1>4. /\ Len(P) \in Nat /\ Len(P[i]) \in Nat
      /\ at \in [1..(Len(P) + 1) -> Nat] /\ at[1] = 1
      /\ \A m \in 1..Len(P[i]) : text[at[i] + m - 1] = P[i][m]
  BY <1>1 DEF IsLayout
<1>5. at[i] \in Nat /\ 1 <= at[i]
  <2>1. i \in 1..(Len(P) + 1) /\ 1 \in 1..(Len(P) + 1) /\ 1 <= i
    BY <1>4
  <2> QED
    BY <1>1, <1>4, <2>1, LayoutOrdered
<1>6. P[i][k] = f
  BY <1>3 DEF StartsWith
<1>7. \/ k = 1 /\ P[i][k] = fs[i] /\ entry[fs[i]] # <<>> /\ IsText(entry[fs[i]])
      \/ k > 1 /\ P[i][k - 1] # "NL"
      \/ /\ k - 3 \in 2..Len(entry[fs[i]]) /\ ReadsLike(entry[fs[i]], k - 3, f)
         /\ ~ IsText(entry[fs[i]])
  BY <1>1, <1>6 DEF IsExportOf
<1>8. CASE k = 1 /\ P[i][k] = fs[i] /\ entry[fs[i]] # <<>> /\ IsText(entry[fs[i]])
  <2>1. x = at[i]
    BY <1>3, <1>5, <1>8
  <2> QED
    BY <1>6, <1>8, <2>1
<1>9. CASE k > 1 /\ P[i][k - 1] # "NL"
  <2>1. k - 1 \in 1..Len(P[i]) /\ x # 1 /\ x - 1 = at[i] + (k - 1) - 1
    <3>1. \A a, m \in Nat : 1 <= a /\ m > 1 =>
             a + m - 1 # 1 /\ (a + m - 1) - 1 = a + (m - 1) - 1
      OBVIOUS
    <3>2. k \in Nat /\ k - 1 \in 1..Len(P[i])
      BY <1>4, <1>9
    <3> QED
      BY <1>3, <1>5, <1>9, <3>1, <3>2
  <2>2. text[x - 1] = P[i][k - 1]
    BY <1>4, <2>1
  <2> QED
    BY <1>9, <2>1, <2>2 DEF StartsWith
<1>10. CASE /\ k - 3 \in 2..Len(entry[fs[i]]) /\ ReadsLike(entry[fs[i]], k - 3, f)
            /\ ~ IsText(entry[fs[i]])
  <2>1. k \in Nat /\ at[i] + 2 + (k - 3) = at[i] + k - 1
    BY <1>5
  <2> QED
    BY <1>3, <1>10, <2>1
<1> QED
  BY <1>7, <1>8, <1>9, <1>10

\* A value of one printable line stands behind the name of its field, on a line
\* of its own.
LEMMA FieldStarts ==
    ASSUME NEW fs, NEW P, NEW at, NEW text, IsExport(fs, P, at, text),
           NEW i \in 1..Len(P), NEW v \in Seq(ValueChars), v = entry[fs[i]],
           v # <<>>, IsText(v)
    PROVE  /\ at[i] \in Nat \ {0} /\ at[i] + Len(v) + 1 \in 1..Len(text)
           /\ StartsWith(text, at[i], fs[i])
           /\ \A k \in 1..Len(v) : text[at[i] + k] = v[k] /\ v[k] # "NL"
           /\ text[at[i] + Len(v) + 1] = "NL"
<1>1. IsLayout(P, text, at) /\ \A j \in 1..Len(P) : IsExportOf(P[j], fs[j], entry[fs[j]])
  BY DEF IsExport
<1>2. /\ Len(P) \in Nat /\ Len(text) \in Nat /\ \A j \in 1..Len(P) : Len(P[j]) \in Nat
      /\ at \in [1..(Len(P) + 1) -> Nat] /\ at[1] = 1 /\ at[Len(P) + 1] = Len(text) + 1
      /\ \A j \in 1..Len(P) : at[j + 1] = at[j] + Len(P[j])
      /\ \A j \in 1..Len(P) : \A m \in 1..Len(P[j]) : text[at[j] + m - 1] = P[j][m]
  BY <1>1 DEF IsLayout
<1>3. Len(v) \in Nat
  BY LenProperties
<1>4. i \in 1..(Len(P) + 1) /\ i + 1 \in 1..(Len(P) + 1)
      /\ 1 \in 1..(Len(P) + 1) /\ Len(P) + 1 \in 1..(Len(P) + 1)
      /\ 1 <= i /\ i + 1 <= Len(P) + 1
  BY <1>2
<1>5. at[i] \in Nat /\ at[i + 1] \in Nat /\ 1 <= at[i] /\ at[i + 1] <= Len(text) + 1
  <2>1. at[1] <= at[i]
    BY <1>1, <1>4, LayoutOrdered
  <2>2. at[i + 1] <= at[Len(P) + 1]
    BY <1>1, <1>4, LayoutOrdered
  <2>3. at[i] \in Nat /\ at[i + 1] \in Nat
    BY <1>2, <1>4
  <2> QED
    BY <1>2, <2>1, <2>2, <2>3
<1>6. /\ Len(P[i]) = Len(v) + 2 /\ P[i][1] = fs[i]
      /\ \A k \in 1..Len(v) : P[i][k + 1] = v[k] /\ v[k] # "NL"
      /\ P[i][Len(P[i])] = "NL"
  <2>1. IsExportOf(P[i], fs[i], v)
    BY <1>1
  <2>2. Len(P[i]) = Len(v) + 2
    BY <2>1 DEF IsExportOf
  <2>3. P[i] # <<>>
    BY <1>3, <2>2
  <2> QED
    BY <2>1, <2>2, <2>3 DEF IsExportOf
<1>7. at[i] + Len(v) + 1 \in 1..Len(text)
  <2>1. at[i + 1] = at[i] + (Len(v) + 2)
    BY <1>2, <1>6
  <2>2. \A a, l, t \in Nat : 1 <= a /\ a + (l + 2) <= t + 1 => a + l + 1 \in 1..t
    OBVIOUS
  <2>3. Len(text) \in Nat /\ at[i] + (Len(v) + 2) <= Len(text) + 1
    BY <1>2, <1>5, <2>1
  <2> QED
    BY <1>3, <1>5, <2>2, <2>3
<1>8. text[at[i]] = fs[i]
  <2>1. 1 \in 1..Len(P[i]) /\ at[i] + 1 - 1 = at[i]
    BY <1>3, <1>5, <1>6
  <2> QED
    BY <1>2, <1>6, <2>1
<1>9. ASSUME NEW k \in 1..Len(v)
      PROVE  text[at[i] + k] = v[k] /\ v[k] # "NL"
  <2>1. k \in Nat /\ k + 1 \in 1..(Len(v) + 2)
    BY <1>3
  <2>2. k + 1 \in 1..Len(P[i]) /\ at[i] + (k + 1) - 1 = at[i] + k
    BY <1>5, <1>6, <2>1
  <2>3. text[at[i] + (k + 1) - 1] = P[i][k + 1]
    BY <1>2, <2>2
  <2> QED
    BY <1>6, <2>2, <2>3
<1>10. text[at[i] + Len(v) + 1] = "NL"
  <2>1. \A a, l \in Nat : l + 2 \in 1..(l + 2) /\ a + (l + 2) - 1 = a + l + 1
    OBVIOUS
  <2>2. Len(P[i]) \in 1..Len(P[i]) /\ at[i] + Len(P[i]) - 1 = at[i] + Len(v) + 1
    <3>1. /\ Len(v) + 2 \in 1..(Len(v) + 2)
          /\ at[i] + (Len(v) + 2) - 1 = at[i] + Len(v) + 1
      BY <1>3, <1>5, <2>1
    <3> QED
      BY <1>6, <3>1
  <2>3. text[at[i] + Len(P[i]) - 1] = P[i][Len(P[i])]
    BY <1>2, <2>2
  <2> QED
    BY <1>6, <2>2, <2>3
<1>11. at[i] # 1 => text[at[i] - 1] = "NL"
  <2> SUFFICES ASSUME at[i] # 1
               PROVE  text[at[i] - 1] = "NL"
    OBVIOUS
  <2>1. \A j \in 1..Len(P) : P[j] # <<>> => P[j][Len(P[j])] = "NL"
    BY <1>1 DEF IsExportOf
  <2>2. Len(P[i]) # 0
    BY <1>3, <1>6
  <2>3. IsLayout(P, text, at)
    BY <1>1
  <2> QED
    BY <2>1, <2>2, <2>3, PieceBefore
<1> QED
  BY <1>5, <1>7, <1>8, <1>9, <1>10, <1>11 DEF StartsWith

\* Value v stands in text behind place a, and then the line ends.
StandsBehind(v, text, a) ==
    /\ a + Len(v) + 1 \in 1..Len(text)
    /\ \A k \in 1..Len(v) : text[a + k] = v[k]
    /\ text[a + Len(v) + 1] = "NL"

\* A value that is exported in another way stands behind the line with its
\* length.
LEMMA ValueStands ==
    ASSUME NEW fs, NEW P, NEW at, NEW text, IsExport(fs, P, at, text),
           NEW i \in 1..Len(P), NEW v \in Seq(ValueChars), v = entry[fs[i]],
           v # <<>>, ~ IsText(v)
    PROVE  at[i] + 2 \in Nat /\ StandsBehind(v, text, at[i] + 2)
<1>1. IsLayout(P, text, at) /\ \A j \in 1..Len(P) : IsExportOf(P[j], fs[j], entry[fs[j]])
  BY DEF IsExport
<1>2. /\ Len(P) \in Nat /\ Len(text) \in Nat
      /\ at \in [1..(Len(P) + 1) -> Nat] /\ at[1] = 1 /\ at[Len(P) + 1] = Len(text) + 1
      /\ \A j \in 1..Len(P) : at[j + 1] = at[j] + Len(P[j])
      /\ \A j \in 1..Len(P) : \A m \in 1..Len(P[j]) : text[at[j] + m - 1] = P[j][m]
  BY <1>1 DEF IsLayout
<1>3. Len(v) \in Nat
  BY LenProperties
<1>4. i \in 1..(Len(P) + 1) /\ i + 1 \in 1..(Len(P) + 1)
      /\ 1 \in 1..(Len(P) + 1) /\ Len(P) + 1 \in 1..(Len(P) + 1)
      /\ 1 <= i /\ i + 1 <= Len(P) + 1
  BY <1>2
<1>5. at[i] \in Nat /\ at[i + 1] \in Nat /\ 1 <= at[i] /\ at[i + 1] <= Len(text) + 1
  <2>1. at[1] <= at[i]
    BY <1>1, <1>4, LayoutOrdered
  <2>2. at[i + 1] <= at[Len(P) + 1]
    BY <1>1, <1>4, LayoutOrdered
  <2>3. at[i] \in Nat /\ at[i + 1] \in Nat
    BY <1>2, <1>4
  <2> QED
    BY <1>2, <2>1, <2>2, <2>3
<1>6. /\ Len(P[i]) = Len(v) + 4 /\ P[i][Len(P[i])] = "NL"
      /\ \A k \in 1..Len(v) : P[i][k + 3] = v[k]
  <2>1. IsExportOf(P[i], fs[i], v)
    BY <1>1
  <2> QED
    BY <2>1 DEF IsExportOf
<1>7. at[i] + 2 + Len(v) + 1 \in 1..Len(text)
  <2>1. at[i + 1] = at[i] + (Len(v) + 4)
    BY <1>2, <1>6
  <2>2. \A a, l, t \in Nat : 1 <= a /\ a + (l + 4) <= t + 1 => a + 2 + l + 1 \in 1..t
    OBVIOUS
  <2>3. Len(text) \in Nat /\ at[i] + (Len(v) + 4) <= Len(text) + 1
    BY <1>2, <1>5, <2>1
  <2> QED
    BY <1>3, <1>5, <2>2, <2>3
<1>8. ASSUME NEW k \in 1..Len(v)
      PROVE  text[at[i] + 2 + k] = v[k]
  <2>1. k \in Nat /\ k + 3 \in 1..(Len(v) + 4)
    BY <1>3
  <2>2. k + 3 \in 1..Len(P[i]) /\ at[i] + (k + 3) - 1 = at[i] + 2 + k
    <3>1. \A b, l \in Nat : b + (l + 3) - 1 = b + 2 + l
      OBVIOUS
    <3> QED
      BY <1>5, <1>6, <2>1, <3>1
  <2>3. text[at[i] + (k + 3) - 1] = P[i][k + 3]
    BY <1>2, <2>2
  <2> QED
    BY <1>6, <2>2, <2>3
<1>9. text[at[i] + 2 + Len(v) + 1] = "NL"
  <2>1. /\ Len(v) + 4 \in 1..(Len(v) + 4)
        /\ at[i] + (Len(v) + 4) - 1 = at[i] + 2 + Len(v) + 1
    <3>1. \A b, l \in Nat : l + 4 \in 1..(l + 4) /\ b + (l + 4) - 1 = b + 2 + l + 1
      OBVIOUS
    <3> QED
      BY <1>3, <1>5, <3>1
  <2>2. Len(P[i]) \in 1..Len(P[i]) /\ at[i] + Len(P[i]) - 1 = at[i] + 2 + Len(v) + 1
    BY <1>6, <2>1
  <2>3. text[at[i] + Len(P[i]) - 1] = P[i][Len(P[i])]
    BY <1>2, <2>2
  <2> QED
    BY <1>6, <2>2, <2>3
<1> QED
  BY <1>5, <1>7, <1>8, <1>9 DEF StandsBehind

\* A line of such a value has the same rest in both.
LEMMA SameRest ==
    ASSUME NEW T, NEW text \in Seq(T), NEW V, NEW v \in Seq(V),
           NEW a \in Nat, StandsBehind(v, text, a), NEW m \in 1..Len(v)
    PROVE  RestOfLine(text, a + m) = RestOfLine(v, m)
<1> DEFINE e == Find(text, "NL", a + m)
           d == Find(v, "NL", m)
<1> USE DEF StandsBehind
<1>1. Len(v) \in Nat /\ Len(text) \in Nat /\ \A k \in 1..Len(v) : v[k] \in V
  BY LenProperties, ElementOfSeq
<1>2. m \in Nat \ {0} /\ m <= Len(v) /\ a + m \in Nat \ {0}
  BY <1>1
<1>3. /\ \/ e \in (a + m)..Len(text) /\ text[e] = "NL"
         \/ e = Len(text) + 1
      /\ \A j \in (a + m)..Len(text) : text[j] = "NL" => e <= j
  BY <1>2, FindIsFirst
<1>4. /\ \/ d \in m..Len(v) /\ v[d] = "NL"
         \/ d = Len(v) + 1
      /\ \A j \in m..Len(v) : v[j] = "NL" => d <= j
  BY <1>2, FindIsFirst
<1> HIDE DEF e, d
<1>5. d \in m..(Len(v) + 1)
  BY <1>1, <1>2, <1>4
<1>6. a + d \in (a + m)..Len(text) /\ text[a + d] = "NL"
  <2>1. CASE d \in m..Len(v) /\ v[d] = "NL"
    <3>1. d \in 1..Len(v) /\ a + d \in (a + m)..Len(text)
      BY <1>1, <1>2, <2>1
    <3> QED
      BY <2>1, <3>1
  <2>2. CASE d = Len(v) + 1
    <3>1. a + d = a + Len(v) + 1 /\ a + d \in (a + m)..Len(text)
      BY <1>1, <1>2, <2>2
    <3> QED
      BY <3>1
  <2> QED
    BY <1>4, <2>1, <2>2
<1>7. e <= a + d /\ e \in (a + m)..Len(text) /\ text[e] = "NL"
  <2>1. e <= a + d
    BY <1>3, <1>6
  <2>2. e # Len(text) + 1
    BY <1>1, <1>6, <2>1
  <2> QED
    BY <1>3, <2>1, <2>2
<1>8. e = a + d
  <2>1. CASE e - a <= Len(v)
    <3>1. e - a \in m..Len(v) /\ e - a \in 1..Len(v) /\ a + (e - a) = e
      BY <1>1, <1>2, <1>7, <2>1
    <3>2. v[e - a] = "NL"
      BY <1>7, <3>1
    <3>3. d <= e - a
      BY <1>4, <3>1, <3>2
    <3> QED
      BY <1>5, <1>7, <3>3
  <2>2. CASE ~ (e - a <= Len(v))
    BY <1>1, <1>5, <1>7, <2>2
  <2> QED
    BY <2>1, <2>2
<1> DEFINE r == SubSeq(text, a + m + 1, a + d - 1)
           q == SubSeq(v, m + 1, d - 1)
<1>9. /\ q \in Seq(V)
      /\ Len(q) = IF m + 1 <= d - 1 THEN (d - 1) - (m + 1) + 1 ELSE 0
      /\ \A k \in 1..((d - 1) - (m + 1) + 1) : q[k] = v[(m + 1) + k - 1]
  <2>1. \A k \in (m + 1)..(d - 1) : v[k] \in V
    <3>1. \A k \in (m + 1)..(d - 1) : k \in 1..Len(v)
      BY <1>1, <1>2, <1>5
    <3> QED
      BY <1>1, <3>1
  <2>2. m + 1 \in Int /\ d - 1 \in Int
    BY <1>2, <1>5
  <2> QED
    BY <2>1, <2>2, SubSeqProperties
<1>10. /\ r \in Seq(V)
       /\ Len(r) = IF a + m + 1 <= a + d - 1 THEN (a + d - 1) - (a + m + 1) + 1 ELSE 0
       /\ \A k \in 1..((a + d - 1) - (a + m + 1) + 1) : r[k] = text[(a + m + 1) + k - 1]
  <2>1. \A k \in (a + m + 1)..(a + d - 1) : text[k] \in V
    <3> SUFFICES ASSUME NEW k \in (a + m + 1)..(a + d - 1)
                 PROVE  text[k] \in V
      OBVIOUS
    <3>1. k - a \in 1..Len(v) /\ a + (k - a) = k
      BY <1>1, <1>2, <1>5
    <3>2. text[a + (k - a)] = v[k - a]
      BY <3>1
    <3> QED
      BY <1>1, <3>1, <3>2
  <2>2. a + m + 1 \in Int /\ a + d - 1 \in Int
    BY <1>2, <1>5
  <2> QED
    BY <2>1, <2>2, SubSeqProperties
<1> HIDE DEF r, q
<1>11. /\ Len(r) = Len(q) /\ Len(q) \in Nat
       /\ (a + d - 1) - (a + m + 1) + 1 = (d - 1) - (m + 1) + 1
       /\ Len(q) <= (d - 1) - (m + 1) + 1 \/ Len(q) = 0
  BY <1>2, <1>5, <1>9, <1>10
<1>12. ASSUME NEW k \in 1..Len(q)
       PROVE  r[k] = q[k]
  <2>1. k \in 1..((d - 1) - (m + 1) + 1)
    BY <1>2, <1>5, <1>11
  <2>2. q[k] = v[(m + 1) + k - 1] /\ r[k] = text[(a + m + 1) + k - 1]
    BY <1>9, <1>10, <1>11, <2>1
  <2>3. /\ (m + 1) + k - 1 = m + k /\ (a + m + 1) + k - 1 = a + (m + k)
        /\ m + k \in 1..Len(v)
    BY <1>1, <1>2, <1>5, <2>1
  <2> QED
    BY <2>2, <2>3
<1>13. r = q
  BY <1>9, <1>10, <1>11, <1>12, SeqEqual
<1>14. RestOfLine(text, a + m) = r
  <2>1. RestOfLine(text, a + m) = SubSeq(text, a + m + 1, e - 1)
    BY DEF RestOfLine, e
  <2>2. e - 1 = a + d - 1
    BY <1>2, <1>5, <1>8
  <2> QED
    BY <2>1, <2>2 DEF r
<1>15. RestOfLine(v, m) = q
  BY DEF RestOfLine, q, d
<1> QED
  BY <1>13, <1>14, <1>15

\* Where text goes on like a value of one line and then to a new line, the rest
\* of the line is that value.
LEMMA ValueIsRest ==
    ASSUME NEW T, NEW text \in Seq(T), NEW V, NEW v \in Seq(V),
           NEW a \in Nat \ {0}, a + Len(v) + 1 \in 1..Len(text), text[a] # "NL",
           \A k \in 1..Len(v) : text[a + k] = v[k] /\ v[k] # "NL",
           text[a + Len(v) + 1] = "NL"
    PROVE  RestOfLine(text, a) = v
<1> DEFINE e == Find(text, "NL", a)
           b == a + Len(v) + 1
<1>1. Len(v) \in Nat /\ Len(text) \in Nat /\ \A k \in 1..Len(v) : v[k] \in V
  BY LenProperties, ElementOfSeq
<1>2. b \in a..Len(text) /\ text[b] = "NL" /\ b \in Nat /\ b = a + Len(v) + 1
  BY <1>1
<1>3. /\ \/ e \in a..Len(text) /\ text[e] = "NL"
         \/ e = Len(text) + 1
      /\ \A j \in a..Len(text) : text[j] = "NL" => e <= j
  BY FindIsFirst
<1> HIDE DEF e, b
<1>4. e <= b
  BY <1>2, <1>3
<1>5. e \in a..Len(text) /\ text[e] = "NL"
  BY <1>1, <1>2, <1>3, <1>4
<1>6. e # a
  BY <1>5
<1>7. ~ (e - a \in 1..Len(v))
  <2> SUFFICES ASSUME e - a \in 1..Len(v)
               PROVE  FALSE
    OBVIOUS
  <2>1. text[a + (e - a)] # "NL"
    OBVIOUS
  <2>2. a + (e - a) = e
    BY <1>5
  <2> QED
    BY <1>5, <2>1, <2>2
<1>8. e = b
  BY <1>1, <1>2, <1>4, <1>5, <1>6, <1>7
<1> DEFINE r == SubSeq(text, a + 1, e - 1)
<1>9. e - 1 = a + Len(v)
  BY <1>1, <1>2, <1>8
<1>10. \A k \in (a + 1)..(a + Len(v)) : text[k] \in V
  <2> SUFFICES ASSUME NEW k \in (a + 1)..(a + Len(v))
               PROVE  text[k] \in V
    OBVIOUS
  <2>1. k - a \in 1..Len(v) /\ a + (k - a) = k
    BY <1>1
  <2> QED
    BY <1>1, <2>1
<1>11. /\ r \in Seq(V)
       /\ Len(r) = IF a + 1 <= a + Len(v) THEN (a + Len(v)) - (a + 1) + 1 ELSE 0
       /\ \A k \in 1..((a + Len(v)) - (a + 1) + 1) : r[k] = text[(a + 1) + k - 1]
  <2>1. a + 1 \in Int /\ a + Len(v) \in Int
    BY <1>1
  <2> QED
    BY <1>9, <1>10, <2>1, SubSeqProperties
<1> HIDE DEF r
<1>12. Len(r) = Len(v) /\ (a + Len(v)) - (a + 1) + 1 = Len(v)
  BY <1>1, <1>11
<1>13. \A k \in 1..Len(v) : r[k] = v[k]
  <2> SUFFICES ASSUME NEW k \in 1..Len(v)
               PROVE  r[k] = v[k]
    OBVIOUS
  <2>1. r[k] = text[(a + 1) + k - 1]
    BY <1>11, <1>12
  <2>2. (a + 1) + k - 1 = a + k
    BY <1>1
  <2> QED
    BY <2>1, <2>2
<1>14. r = v
  BY <1>11, <1>12, <1>13, SeqEqual
<1>15. RestOfLine(text, a) = r
  BY DEF RestOfLine, r, e
<1> QED
  BY <1>14, <1>15

\* What parse_export makes of a field in an exported entry.
LEMMA FieldParsed ==
    ASSUME NEW fs, NEW P, NEW at, NEW text, IsExport(fs, P, at, text),
           TextsTypeOK, NEW f \in Fields
    PROVE  \/ entry[f] # <<>> /\ ParseExport(text)[f] = entry[f]
           \/ ParseExport(text)[f] = None /\ (entry[f] = <<>> \/ ~ IsText(entry[f]))
           \/ \E g \in Fields : \E m \in 2..Len(entry[g]) :
                 /\ ReadsLike(entry[g], m, f)
                 /\ ParseExport(text)[f] = RestOfLine(entry[g], m)
<1> DEFINE starts == {x \in DOMAIN text : StartsWith(text, x, f)}
           last   == CHOOSE x \in starts : \A y \in starts : y <= x
<1>1. ParseExport(text)[f] = IF starts = {} THEN None ELSE RestOfLine(text, last)
  BY DEF ParseExport
<1>2. Len(text) \in Nat /\ DOMAIN text = 1..Len(text) /\ text \in Seq(Symbols)
  BY DEF IsExport
<1>3. \A i \in 1..Len(P) : fs[i] \in Fields /\ entry[fs[i]] \in Seq(ValueChars)
  BY DEF IsExport, TextsTypeOK
<1>4. CASE starts = {}
  <2>1. ASSUME entry[f] # <<>>, IsText(entry[f])
        PROVE  FALSE
    <3>1. PICK i \in 1..Len(P) : fs[i] = f
      BY DEF IsExport
    <3>2. PICK v \in Seq(ValueChars) : v = entry[fs[i]]
      BY <1>3
    <3>3. /\ at[i] \in Nat \ {0} /\ at[i] + Len(v) + 1 \in 1..Len(text)
          /\ StartsWith(text, at[i], fs[i])
      BY <2>1, <3>1, <3>2, FieldStarts
    <3>4. Len(v) \in Nat
      BY LenProperties
    <3>5. at[i] \in 1..Len(text)
      BY <1>2, <3>3, <3>4
    <3> QED
      BY <1>2, <1>4, <3>1, <3>3, <3>5
  <2> QED
    BY <1>1, <1>4, <2>1
<1>5. CASE starts # {}
  <2>1. \E x \in starts : \A y \in starts : y <= x
    <3>1. starts \in SUBSET (0..Len(text))
      BY <1>2
    <3> HIDE DEF starts
    <3> QED
      BY <1>2, <1>5, <3>1, GreatestExists
  <2>2. last \in 1..Len(text) /\ StartsWith(text, last, f)
    <3>1. last \in starts
      BY <2>1
    <3> QED
      BY <1>2, <3>1
  <2>3. ParseExport(text)[f] = RestOfLine(text, last)
    BY <1>1, <1>5
  <2> HIDE DEF starts, last
  <2>4. PICK i \in 1..Len(P) :
           \/ fs[i] = f /\ last = at[i] /\ entry[f] # <<>> /\ IsText(entry[f])
           \/ /\ ~ IsText(entry[fs[i]])
              /\ \E m \in 2..Len(entry[fs[i]]) :
                    last = at[i] + 2 + m /\ ReadsLike(entry[fs[i]], m, f)
    BY <2>2, StartIsField
  <2>5. PICK v \in Seq(ValueChars) : v = entry[fs[i]]
    BY <1>3
  <2>6. CASE fs[i] = f /\ last = at[i] /\ entry[f] # <<>> /\ IsText(entry[f])
    <3>1. /\ at[i] \in Nat \ {0} /\ at[i] + Len(v) + 1 \in 1..Len(text)
          /\ \A k \in 1..Len(v) : text[at[i] + k] = v[k] /\ v[k] # "NL"
          /\ text[at[i] + Len(v) + 1] = "NL"
      BY <2>5, <2>6, FieldStarts
    <3>2. text[at[i]] # "NL"
      BY <2>2, <2>6, TextsAssumption DEF StartsWith
    <3>3. RestOfLine(text, at[i]) = v
      BY <1>2, <3>1, <3>2, ValueIsRest
    <3> QED
      BY <2>3, <2>5, <2>6, <3>3
  <2>7. CASE /\ ~ IsText(entry[fs[i]])
             /\ \E m \in 2..Len(entry[fs[i]]) :
                   last = at[i] + 2 + m /\ ReadsLike(entry[fs[i]], m, f)
    <3>1. PICK m \in 2..Len(v) : last = at[i] + 2 + m /\ ReadsLike(v, m, f)
      BY <2>5, <2>7
    <3>2. Len(v) \in Nat /\ v # <<>> /\ m \in 1..Len(v)
      <4>1. Len(v) \in Nat
        BY LenProperties
      <4>2. Len(v) # 0 /\ m \in 1..Len(v)
        BY <3>1, <4>1
      <4> QED
        BY <4>1, <4>2
    <3>3. ~ IsText(v)
      BY <2>5, <2>7
    <3>4. at[i] + 2 \in Nat /\ StandsBehind(v, text, at[i] + 2)
      BY <2>5, <3>2, <3>3, ValueStands
    <3>5. RestOfLine(text, at[i] + 2 + m) = RestOfLine(v, m)
      BY <1>2, <3>2, <3>4, SameRest
    <3>6. ParseExport(text)[f] = RestOfLine(v, m)
      BY <2>3, <3>1, <3>5
    <3> QED
      BY <1>3, <2>5, <3>1, <3>6
  <2> QED
    BY <2>4, <2>6, <2>7
<1> QED
  BY <1>4, <1>5

\* What lookup makes of a field.
LEMMA EntryRead ==
    ASSUME TextsTypeOK, NEW text \in Exports, NEW f \in Fields
    PROVE  \/ entry[f] # <<>> /\ Lookup(text)[f] = entry[f]
           \/ /\ Lookup(text)[f] = None
              /\ \/ entry[f] = <<>> \/ ~ IsText(entry[f])
                 \/ \E g \in Fields : Contains(entry[g], "non-UTF-8")
           \/ \E g \in Fields : \E m \in 2..Len(entry[g]) :
                 /\ ReadsLike(entry[g], m, f)
                 /\ Lookup(text)[f] = RestOfLine(entry[g], m)
<1>1. PICK fs, P, at : IsExport(fs, P, at, text)
  BY EntryExported
<1>2. CASE Contains(text, "non-UTF-8")
  <2>1. Lookup(text)[f] = None
    BY <1>2 DEF Lookup
  <2>2. PICK x \in 1..Len(text) : text[x] = "non-UTF-8"
    BY <1>1, <1>2 DEF Contains, IsExport
  <2>3. IsLayout(P, text, at)
    BY <1>1 DEF IsExport
  <2>4. PICK i \in 1..Len(P) : \E k \in 1..Len(P[i]) : text[x] = P[i][k]
    BY <2>3, LayoutCovers
  <2>5. fs[i] \in Fields /\ Contains(entry[fs[i]], "non-UTF-8")
    <3>1. fs[i] \in Fields /\ IsExportOf(P[i], fs[i], entry[fs[i]])
      BY <1>1 DEF IsExport
    <3> QED
      BY <2>2, <2>4, <3>1 DEF IsExportOf
  <2> QED
    BY <2>1, <2>5
<1>3. CASE ~ Contains(text, "non-UTF-8")
  <2>1. Lookup(text)[f] = ParseExport(text)[f]
    BY <1>3 DEF Lookup
  <2> QED
    BY <1>1, <2>1, FieldParsed
<1> QED
  BY <1>2, <1>3

(***************************************************************************)
(* For every number of fields, whatever they contain and in whatever order *)
(* journalctl prints them, parse_export makes one of three things of a     *)
(* field: what was logged of it; nothing, because nothing was logged, or a *)
(* value of several lines, or because some field has bytes that are no     *)
(* UTF-8; or the rest of a line in the midst of a logged value, when that  *)
(* line reads like the field.                                              *)
(***************************************************************************)
THEOREM EntriesRead == Spec => []EntryReadRight
<1>1. TextsTypeOK => EntryReadRight
  BY EntryRead DEF EntryReadRight
<1> QED
  BY <1>1, TextsTypeCorrect, PTL
=============================================================================
