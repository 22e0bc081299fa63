--------------------------- MODULE SequenceLemmas ---------------------------
(***************************************************************************)
(* Lemmas about numbers and sequences, and about the folds of the          *)
(* community modules.  A fold is defined by a recursive function on the    *)
(* subsets of what is folded; induction is on their cardinality, with a    *)
(* set of numbers in place of a predicate.                                 *)
(***************************************************************************)
EXTENDS Integers, SequencesExt, FiniteSetsExt, FiniteSets, SequenceTheorems, FiniteSetTheorems, TLAPS

-----------------------------------------------------------------------------
(* Numbers and sequences *)

\* Every nonempty set of naturals has a least element, and Min returns it.
LEMMA MinNat ==
    ASSUME NEW S \in SUBSET Nat, S # {}
    PROVE  Min(S) \in S /\ \A x \in S : Min(S) <= x
<1>1. PICK x \in S : \A y \in S : ~ (<<y, x>> \in OpToRel(<, Nat))
  BY WFMin, NatLessThanWellFounded
<1>2. \A y \in S : x <= y
  <2> SUFFICES ASSUME NEW y \in S, y < x PROVE FALSE
    OBVIOUS
  <2>1. <<y, x>> \in OpToRel(<, Nat)
    BY Zenon DEF OpToRel
  <2> QED  BY <2>1, <1>1
<1> QED  BY <1>2 DEF Min

\* One that is bounded has a greatest element, which Max returns.
LEMMA MaxNat ==
    ASSUME NEW S \in SUBSET Nat, S # {}, NEW n \in Nat, \A x \in S : x <= n
    PROVE  Max(S) \in S /\ \A x \in S : x <= Max(S)
<1> DEFINE T == {n - x : x \in S}
<1>1. \A x \in S : n - x \in Nat
  OBVIOUS
<1>2. T \in SUBSET Nat /\ T # {}
  BY <1>1
<1>3. PICK y \in T : \A z \in T : y <= z
  <2> HIDE DEF T
  <2> QED  BY <1>2, MinNat
<1>4. n - y \in S /\ \A x \in S : x <= n - y
  BY <1>3
<1> QED  BY <1>4 DEF Max

LEMMA MaxOfPair ==
    ASSUME NEW a \in Int, NEW b \in Int
    PROVE  Max({a, b}) = IF a >= b THEN a ELSE b
  BY DEF Max

LEMMA ToSetOfSeq ==
    ASSUME NEW S, NEW s \in Seq(S)
    PROVE  ToSet(s) \subseteq S /\ ToSet(s) = {s[i] : i \in 1..Len(s)}
  BY DEF ToSet

LEMMA ToSetOfAppend ==
    ASSUME NEW S, NEW s \in Seq(S), NEW e \in S
    PROVE  ToSet(Append(s, e)) = ToSet(s) \cup {e}
<1> DEFINE a == Append(s, e)
<1>1. a \in Seq(S) /\ Len(a) = Len(s) + 1 /\ a[Len(s) + 1] = e /\ \A i \in 1..Len(s) : a[i] = s[i]
  OBVIOUS
<1>2. ToSet(a) = {a[i] : i \in 1..Len(a)} /\ ToSet(s) = {s[i] : i \in 1..Len(s)}
  BY <1>1, ToSetOfSeq
<1> HIDE DEF a
<1>3. 1..Len(a) = 1..Len(s) \cup {Len(s) + 1}
  BY <1>1
<1> QED  BY <1>1, <1>2, <1>3 DEF a

\* A sequence is the sequence without its last element and that element.
LEMMA AppendLast ==
    ASSUME NEW S, NEW s \in Seq(S), s # <<>>
    PROVE  s = Append(SubSeq(s, 1, Len(s) - 1), s[Len(s)])
<1>1. Len(s) \in Nat \ {0}
  OBVIOUS
<1>2. s = SubSeq(s, 1, Len(s) - 1) \o <<s[Len(s)]>>
  BY <1>1, SubSeqFull, SubSeqRecursiveSecond
<1>3. SubSeq(s, 1, Len(s) - 1) \in Seq(S) /\ s[Len(s)] \in S
  BY <1>1
<1> QED  BY <1>2, <1>3, AppendIsConcat

LEMMA SubSeqOne ==
    ASSUME NEW S, NEW s \in Seq(S), NEW i \in 1..Len(s)
    PROVE  SubSeq(s, i, i) = <<s[i]>>
<1>1. i \in i..Len(s) /\ i \in Int /\ i + 1 \in Int /\ i < i + 1
  OBVIOUS
<1>2. SubSeq(s, i, i) = <<s[i]>> \o SubSeq(s, i + 1, i)
  <2>1. i \in i..Len(s) /\ i \in 1..Len(s)
    BY <1>1
  <2>2. i \in i..i
    OBVIOUS
  <2> QED  BY <2>1, <2>2, SubSeqRecursiveFirst
<1>3. SubSeq(s, i + 1, i) = <<>>
  BY <1>1, SubSeqEmpty
<1>4. <<s[i]>> \in Seq(S)
  OBVIOUS
<1> QED  BY <1>2, <1>3, <1>4, ConcatEmptySeq

LEMMA SubSeqType ==
    ASSUME NEW S, NEW s \in Seq(S), NEW m \in Nat \ {0}, NEW n \in 0..Len(s)
    PROVE  SubSeq(s, m, n) \in Seq(S)
  OBVIOUS

\* A prefix of a prefix is a prefix.
LEMMA PrefixOfPrefix ==
    ASSUME NEW S, NEW s \in Seq(S), NEW n \in 0..Len(s), NEW m \in 0..n
    PROVE  SubSeq(SubSeq(s, 1, n), 1, m) = SubSeq(s, 1, m)
<1>1. /\ SubSeq(s, 1, n) \in Seq(S) /\ Len(SubSeq(s, 1, n)) = n
      /\ \A i \in 1..n : SubSeq(s, 1, n)[i] = s[i]
  OBVIOUS
<1> QED  BY <1>1

\* Appending does not change the prefixes.
LEMMA PrefixOfAppend ==
    ASSUME NEW S, NEW s \in Seq(S), NEW e \in S, NEW m \in 0..Len(s)
    PROVE  SubSeq(Append(s, e), 1, m) = SubSeq(s, 1, m)
  OBVIOUS

LEMMA SuffixLen ==
    ASSUME NEW S, NEW s \in Seq(S), NEW j \in 0..Len(s)
    PROVE  Len(SubSeq(s, j + 1, Len(s))) = Len(s) - j
<1>1. j + 1 \in Int /\ Len(s) \in Int /\ \A i \in (j + 1)..Len(s) : s[i] \in S
  OBVIOUS
<1>2. Len(SubSeq(s, j + 1, Len(s))) = IF j + 1 <= Len(s) THEN Len(s) - (j + 1) + 1 ELSE 0
  <2> DEFINE m == j + 1
  <2>1. m \in Int /\ Len(s) \in Int /\ \A i \in m..Len(s) : s[i] \in S
    BY <1>1
  <2> HIDE DEF m
  <2>2. Len(SubSeq(s, m, Len(s))) = IF m <= Len(s) THEN Len(s) - m + 1 ELSE 0
    BY <2>1, SubSeqProperties
  <2> QED  BY <2>2 DEF m
<1> QED  BY <1>1, <1>2

\* The rest of a sequence with k elements left, and what was taken before it.
LEMMA TakeNext ==
    ASSUME NEW S, NEW s \in Seq(S), NEW k \in 1..Len(s)
    PROVE  LET r == SubSeq(s, Len(s) - k + 1, Len(s))
           IN  /\ Len(r) = k
               /\ Head(r) = s[Len(s) - k + 1]
               /\ Tail(r) = SubSeq(s, Len(s) - (k - 1) + 1, Len(s))
               /\ Len(Tail(r)) = k - 1
               /\ Append(SubSeq(s, 1, Len(s) - k), Head(r)) = SubSeq(s, 1, Len(s) - (k - 1))
<1> DEFINE m == Len(s) - k + 1
           r == SubSeq(s, m, Len(s))
<1>1. m \in 1..Len(s) /\ Len(s) \in m..Len(s) /\ m = Len(s) - (k - 1) /\ m - 1 = Len(s) - k
  OBVIOUS
<1>2. r \in Seq(S) /\ Len(r) = k /\ r # <<>>
  <2>1. \A i \in m..Len(s) : s[i] \in S
    OBVIOUS
  <2>2. r \in Seq(S) /\ Len(r) = Len(s) - m + 1
    <3>1. m \in Int /\ Len(s) \in Int /\ m <= Len(s)
      BY <1>1
    <3> HIDE DEF m
    <3> QED  BY <2>1, <3>1, SubSeqProperties
  <2>3. Len(s) - m + 1 = k /\ k \in Nat \ {0}
    OBVIOUS
  <2> HIDE DEF r, m
  <2> QED  BY <2>2, <2>3, EmptySeq
<1>3. Head(r) = s[m] /\ Tail(r) = SubSeq(s, m + 1, Len(s))
  <2> HIDE DEF m
  <2> QED  BY <1>1, HeadTailOfSubSeq
<1>4. Len(Tail(r)) = k - 1
  BY <1>2, HeadTailProperties
<1>5. SubSeq(s, 1, m) = SubSeq(s, 1, m - 1) \o <<s[m]>>
  <2>1. 1 \in 1..Len(s) /\ m \in 1..Len(s)
    BY <1>1
  <2> HIDE DEF m
  <2> QED  BY <2>1, SubSeqRecursiveSecond
<1>6. SubSeq(s, 1, m - 1) \in Seq(S) /\ s[m] \in S
  BY <1>1
<1>7. SubSeq(s, 1, m) = Append(SubSeq(s, 1, m - 1), s[m])
  BY <1>5, <1>6, AppendIsConcat
<1> QED  BY <1>1, <1>2, <1>3, <1>4, <1>7

\* The elements of the end of a sequence.
LEMMA SubSeqToEnd ==
    ASSUME NEW S, NEW s \in Seq(S), NEW m \in Nat \ {0},
           NEW i \in 1..Len(SubSeq(s, m, Len(s)))
    PROVE  i + m - 1 \in 1..Len(s) /\ SubSeq(s, m, Len(s))[i] = s[i + m - 1]
<1>1. Len(s) \in Nat
  OBVIOUS
<1>2. Len(SubSeq(s, m, Len(s))) = IF m <= Len(s) THEN Len(s) - m + 1 ELSE 0
  BY <1>1
<1>3. i + m - 1 \in 1..Len(s)
  BY <1>1, <1>2
<1>4. SubSeq(s, m, Len(s))[i] = s[i + m - 1]
  BY <1>1, <1>2, <1>3
<1> QED BY <1>3, <1>4

-----------------------------------------------------------------------------
(* Folds *)

\* Induction on the numbers up to n.
LEMMA UpTo ==
    ASSUME NEW n \in Nat, NEW T, 0 \in T,
           \A k \in 0..n : k \in T /\ k < n => k + 1 \in T
    PROVE  \A k \in 0..n : k \in T
<1> DEFINE S == {k \in 0..n : k \notin T}
<1> SUFFICES ASSUME S # {}
             PROVE  FALSE
  OBVIOUS
<1>1. S \in SUBSET Nat
  OBVIOUS
<1>2. PICK m \in S : \A k \in S : m <= k
  <2> HIDE DEF S
  <2> QED BY <1>1, MinNat
<1>3. m \in 0..n /\ m \notin T /\ m # 0
  BY <1>2
<1>4. m - 1 \in 0..n /\ m - 1 < n /\ m - 1 + 1 = m /\ m - 1 \notin S
  BY <1>2, <1>3
<1> QED BY <1>3, <1>4

\* A function on sets that takes its value from the set without one element.
IsFold(f, S, V, base, step, pick) ==
    /\ f \in [SUBSET S -> V]
    /\ \A s \in SUBSET S :
          f[s] = IF s = {} THEN base ELSE step[pick[s]][f[s \ {pick[s]}]]

LEMMA FoldExists ==
    ASSUME NEW S, IsFiniteSet(S), NEW V, NEW base \in V, NEW step \in [S -> [V -> V]],
           NEW pick, \A s \in SUBSET S : s # {} => pick[s] \in s
    PROVE  \E f : IsFold(f, S, V, base, step, pick)
<1> DEFINE Small(k) == {s \in SUBSET S : Cardinality(s) <= k}
           Good(f, k) == \A s \in Small(k) :
                            f[s] = IF s = {} THEN base ELSE step[pick[s]][f[s \ {pick[s]}]]
           n == Cardinality(S)
           T == {k \in 0..n : \E f \in [Small(k) -> V] : Good(f, k)}
<1>1. n \in Nat
  BY FS_CardinalityType
<1>2. \A s \in SUBSET S : /\ IsFiniteSet(s) /\ Cardinality(s) \in 0..n
                          /\ Cardinality(s) = 0 <=> s = {}
  <2> SUFFICES ASSUME NEW s \in SUBSET S
               PROVE  /\ IsFiniteSet(s) /\ Cardinality(s) \in 0..n
                      /\ Cardinality(s) = 0 <=> s = {}
    OBVIOUS
  <2>1. IsFiniteSet(s) /\ Cardinality(s) <= n
    BY FS_Subset
  <2>2. Cardinality(s) \in Nat
    BY <2>1, FS_CardinalityType
  <2>3. Cardinality(s) = 0 <=> s = {}
    BY <2>1, FS_EmptySet
  <2> QED BY <1>1, <2>1, <2>2, <2>3
<1>3. \A s \in SUBSET S : s # {} =>
         /\ pick[s] \in S /\ s \ {pick[s]} \in SUBSET S
         /\ Cardinality(s \ {pick[s]}) = Cardinality(s) - 1
  BY <1>2, FS_RemoveElement
<1> HIDE DEF n
<1>4. 0 \in T
  <2> DEFINE f == [s \in Small(0) |-> base]
  <2>1. \A s \in Small(0) : s = {}
    BY <1>2
  <2>2. f \in [Small(0) -> V]
    OBVIOUS
  <2>3. Good(f, 0)
    BY <2>1
  <2>4. 0 \in 0..n
    BY <1>1
  <2> HIDE DEF f, Good, Small
  <2> QED BY <2>2, <2>3, <2>4
<1>5. \A k \in 0..n : k \in T /\ k < n => k + 1 \in T
  <2> SUFFICES ASSUME NEW k \in 0..n, k \in T, k < n
               PROVE  k + 1 \in T
    OBVIOUS
  <2>1. PICK f \in [Small(k) -> V] : Good(f, k)
    OBVIOUS
  <2> DEFINE Next(s) == IF s = {} THEN base ELSE step[pick[s]][f[s \ {pick[s]}]]
             g == [s \in Small(k + 1) |-> Next(s)]
  <2>2. \A s \in Small(k + 1) : s # {} => s \ {pick[s]} \in Small(k)
    BY <1>2, <1>3
  <2>3. \A s \in Small(k + 1) : Next(s) \in V
    BY <1>3, <2>2
  <2>4. Small(k) \subseteq Small(k + 1)
    BY <1>2
  <2>5. \A s \in Small(k) : g[s] = f[s]
    BY <2>1, <2>4
  <2>6. g \in [Small(k + 1) -> V]
    BY <2>3
  <2>7. Good(g, k + 1)
    BY <2>2, <2>5
  <2> HIDE DEF g, Good, Small
  <2> QED BY <1>1, <2>6, <2>7
<1>6. n \in T
  <2> HIDE DEF T
  <2> QED BY <1>1, <1>4, <1>5, UpTo
<1>7. Small(n) = SUBSET S
  BY <1>2
<1>8. PICK f \in [Small(n) -> V] : Good(f, n)
  BY <1>6
<1>9. IsFold(f, S, V, base, step, pick)
  BY <1>7, <1>8 DEF IsFold
<1> QED BY <1>9

\* The last index, and the indices before it.
LEMMA UpToLast ==
    ASSUME NEW k \in Nat \ {0}
    PROVE  /\ 1..k # {} /\ Max(1..k) = k
           /\ (1..k) \ {Max(1..k)} = 1..(k - 1)
<1>1. k \in 1..k /\ \A i \in 1..k : i <= k
  OBVIOUS
<1>2. \A x \in 1..k : (\A i \in 1..k : x >= i) => x = k
  BY <1>1
<1>3. Max(1..k) = k
  BY <1>1, <1>2 DEF Max
<1>4. (1..k) \ {k} = 1..(k - 1)
  OBVIOUS
<1> QED BY <1>1, <1>3, <1>4

LEMMA MaxPicks ==
    ASSUME NEW n \in Nat
    PROVE  \A s \in SUBSET (1..n) : s # {} => Max(s) \in s
<1> SUFFICES ASSUME NEW s \in SUBSET (1..n), s # {}
             PROVE  Max(s) \in s
  OBVIOUS
<1>1. s \in SUBSET Nat /\ \A x \in s : x <= n
  OBVIOUS
<1> QED BY <1>1, MaxNat

\* The same for a fold over n elements from the left, which takes the last one off.
IsFoldLeft(f, n, V, base, step) ==
    /\ f \in [SUBSET (1..n) -> V]
    /\ \A s \in SUBSET (1..n) :
          f[s] = IF s = {} THEN base ELSE step[Max(s)][f[s \ {Max(s)}]]

LEMMA FoldLeftExists ==
    ASSUME NEW n \in Nat, NEW V, NEW base \in V, NEW step \in [1..n -> [V -> V]]
    PROVE  \E f : IsFoldLeft(f, n, V, base, step)
<1>1. PICK S, pick : S = 1..n /\ pick = [s \in SUBSET S |-> Max(s)]
  OBVIOUS
<1>2. IsFiniteSet(S)
  BY <1>1, FS_Interval
<1>3. \A s \in SUBSET S : pick[s] = Max(s)
  BY <1>1
<1>4. \A s \in SUBSET S : s # {} => pick[s] \in s
  BY <1>1, <1>3, MaxPicks
<1>5. step \in [S -> [V -> V]]
  BY <1>1
<1>6. PICK f : IsFold(f, S, V, base, step, pick)
  BY <1>2, <1>4, <1>5, FoldExists
<1>7. /\ f \in [SUBSET S -> V]
      /\ \A s \in SUBSET S :
            f[s] = IF s = {} THEN base ELSE step[Max(s)][f[s \ {Max(s)}]]
  BY <1>3, <1>6 DEF IsFold
<1>8. IsFoldLeft(f, n, V, base, step)
  BY <1>1, <1>7 DEF IsFoldLeft
<1> QED BY <1>8

\* What holds of the function at the empty set and is kept by a step holds at the end.
LEMMA FoldType ==
    ASSUME NEW S, IsFiniteSet(S), NEW V, NEW f, f[{}] \in V,
           NEW pick, \A s \in SUBSET S : s # {} => pick[s] \in s,
           \A s \in SUBSET S : s # {} /\ f[s \ {pick[s]}] \in V => f[s] \in V
    PROVE  f[S] \in V
<1> DEFINE n == Cardinality(S)
           T == {k \in 0..n : \A s \in SUBSET S : Cardinality(s) = k => f[s] \in V}
<1>1. n \in Nat
  BY FS_CardinalityType
<1>2. \A s \in SUBSET S : /\ IsFiniteSet(s) /\ Cardinality(s) \in Nat
                          /\ Cardinality(s) = 0 <=> s = {}
  BY FS_Subset, FS_CardinalityType, FS_EmptySet
<1>3. \A s \in SUBSET S : s # {} =>
         /\ s \ {pick[s]} \in SUBSET S
         /\ Cardinality(s \ {pick[s]}) = Cardinality(s) - 1
  BY <1>2, FS_RemoveElement
<1> HIDE DEF n
<1>4. 0 \in T
  BY <1>1, <1>2
<1>5. \A k \in 0..n : k \in T /\ k < n => k + 1 \in T
  <2> SUFFICES ASSUME NEW k \in 0..n, k \in T, k < n,
                      NEW s \in SUBSET S, Cardinality(s) = k + 1
               PROVE  f[s] \in V
    BY <1>1
  <2>1. s # {} /\ s \ {pick[s]} \in SUBSET S /\ Cardinality(s \ {pick[s]}) = k
    BY <1>1, <1>2, <1>3
  <2>2. f[s \ {pick[s]}] \in V
    BY <2>1
  <2> QED BY <2>1, <2>2
<1>6. n \in T
  <2> HIDE DEF T
  <2> QED BY <1>1, <1>4, <1>5, UpTo
<1> QED BY <1>6 DEF n

\* The function behind MapThenSumSet over a set S of numbers of[x].
IsSum(f, S, of) ==
    f = [s \in SUBSET S |-> IF s = {} THEN 0
                            ELSE of[CHOOSE x \in s : TRUE] + f[s \ {CHOOSE x \in s : TRUE}]]

LEMMA SumExists ==
    ASSUME NEW S, IsFiniteSet(S), NEW of \in [S -> Int]
    PROVE  \E f : IsSum(f, S, of)
<1> DEFINE Pick(s) == CHOOSE x \in s : TRUE
<1>1. PICK pick, step : /\ pick = [s \in SUBSET S |-> Pick(s)]
                        /\ step = [x \in S |-> [v \in Int |-> of[x] + v]]
  OBVIOUS
<1>2. \A s \in SUBSET S : pick[s] = Pick(s) /\ (s # {} => pick[s] \in s)
  BY <1>1
<1>3. step \in [S -> [Int -> Int]]
  BY <1>1
<1>4. PICK f : IsFold(f, S, Int, 0, step, pick)
  <2>1. 0 \in Int /\ \A s \in SUBSET S : s # {} => pick[s] \in s
    BY <1>2
  <2> QED BY <1>3, <2>1, FoldExists
<1>5. \A s \in SUBSET S : s # {} => step[pick[s]][f[s \ {pick[s]}]] = of[Pick(s)] + f[s \ {Pick(s)}]
  BY <1>1, <1>2, <1>4 DEF IsFold
<1>6. \A s \in SUBSET S : f[s] = IF s = {} THEN 0 ELSE of[Pick(s)] + f[s \ {Pick(s)}]
  BY <1>2, <1>4, <1>5 DEF IsFold
<1>7. f = [s \in SUBSET S |-> f[s]]
  BY <1>4 DEF IsFold
<1>8. IsSum(f, S, of)
  BY <1>6, <1>7 DEF IsSum
<1> QED BY <1>8

\* A sum changes by what one of its numbers changes by.
LEMMA SumChanges ==
    ASSUME NEW S, IsFiniteSet(S), NEW of \in [S -> Int], NEW to \in [S -> Int], NEW a \in S,
           \A x \in S \ {a} : to[x] = of[x],
           NEW f, IsSum(f, S, of), NEW g, IsSum(g, S, to)
    PROVE  f[S] \in Int /\ g[S] = f[S] + (to[a] - of[a])
<1>1. PICK pick : pick = [s \in SUBSET S |-> CHOOSE x \in s : TRUE]
  OBVIOUS
<1>2. \A s \in SUBSET S : s # {} => pick[s] \in s /\ pick[s] \in S /\ s \ {pick[s]} \in SUBSET S
  BY <1>1
<1>3. /\ f[{}] = 0 /\ g[{}] = 0
      /\ \A s \in SUBSET S : s # {} => /\ f[s] = of[pick[s]] + f[s \ {pick[s]}]
                                     /\ g[s] = to[pick[s]] + g[s \ {pick[s]}]
  BY <1>1 DEF IsSum
<1> DEFINE More(s) == IF a \in s THEN to[a] - of[a] ELSE 0
           Holds(s) == f[s] \in Int /\ g[s] = f[s] + More(s)
<1>4. PICK h, V : h = [s \in SUBSET S |-> IF Holds(s) THEN 1 ELSE 0] /\ V = {1}
  OBVIOUS
<1>5. h[{}] \in V
  BY <1>3, <1>4
<1>6. \A s \in SUBSET S : s # {} /\ h[s \ {pick[s]}] \in V => h[s] \in V
  <2> SUFFICES ASSUME NEW s \in SUBSET S, s # {}, Holds(s \ {pick[s]})
               PROVE  Holds(s)
    BY <1>2, <1>4
  <2>1. PICK p, rest : p = pick[s] /\ rest = s \ {p}
    OBVIOUS
  <2>2. /\ p \in s /\ p \in S /\ f[s] = of[p] + f[rest] /\ g[s] = to[p] + g[rest]
        /\ f[rest] \in Int /\ g[rest] = f[rest] + More(rest)
    BY <1>2, <1>3, <2>1
  <2>3. of[p] \in Int /\ to[p] \in Int /\ of[a] \in Int /\ to[a] \in Int
    BY <2>2
  <2>4. CASE p = a
    <3>1. More(rest) = 0 /\ More(s) = to[a] - of[a]
      BY <2>1, <2>2, <2>4
    <3> HIDE DEF More
    <3> QED BY <2>2, <2>3, <2>4, <3>1
  <2>5. CASE p # a
    <3>1. More(rest) = More(s) /\ to[p] = of[p] /\ More(s) \in Int
      BY <2>1, <2>2, <2>3, <2>5
    <3> HIDE DEF More
    <3> QED BY <2>2, <2>3, <3>1
  <2> QED BY <2>4, <2>5
<1>7. h[S] \in V
  <2> HIDE DEF Holds
  <2>1. \A s \in SUBSET S : s # {} => pick[s] \in s
    BY <1>2
  <2> QED BY <1>5, <1>6, <2>1, FoldType
<1>8. Holds(S)
  <2>1. S \in SUBSET S
    OBVIOUS
  <2> HIDE DEF Holds
  <2> QED BY <1>4, <1>7, <2>1
<1> QED BY <1>8

LEMMA FoldLeftType ==
    ASSUME NEW n \in Nat, NEW V, NEW f, f[{}] \in V,
           \A k \in 1..n : f[1..(k - 1)] \in V => f[1..k] \in V
    PROVE  f[1..n] \in V
<1> DEFINE T == {k \in 0..n : f[1..k] \in V}
<1>1. 1..0 = {}
  OBVIOUS
<1>2. 0 \in T
  BY <1>1
<1>3. \A k \in 0..n : k \in T /\ k < n => k + 1 \in T
  <2> SUFFICES ASSUME NEW k \in 0..n, k \in T, k < n
               PROVE  k + 1 \in T
    OBVIOUS
  <2>1. k + 1 \in 1..n /\ (k + 1) - 1 = k
    OBVIOUS
  <2> QED BY <2>1
<1>4. \A k \in 0..n : k \in T
  <2> HIDE DEF T
  <2> QED BY <1>2, <1>3, UpTo, Zenon
<1> QED BY <1>4

\* A sequence has finitely many elements.
LEMMA FinitelyMany ==
    ASSUME NEW S, NEW s \in Seq(S)
    PROVE  {s[i] : i \in DOMAIN s} \subseteq S /\ IsFiniteSet({s[i] : i \in DOMAIN s})
<1> DEFINE n == Len(s)
           T == {k \in 0..n : IsFiniteSet({s[i] : i \in 1..k})}
<1>1. n \in Nat /\ DOMAIN s = 1..n /\ \A i \in 1..n : s[i] \in S
  OBVIOUS
<1> HIDE DEF n
<1>2. 0 \in T
  <2>1. {s[i] : i \in 1..0} = {}
    OBVIOUS
  <2> QED BY <1>1, <2>1, FS_EmptySet
<1>3. \A k \in 0..n : k \in T /\ k < n => k + 1 \in T
  <2> SUFFICES ASSUME NEW k \in 0..n, IsFiniteSet({s[i] : i \in 1..k}), k < n
               PROVE  k + 1 \in T
    OBVIOUS
  <2>1. {s[i] : i \in 1..(k + 1)} = {s[i] : i \in 1..k} \cup {s[k + 1]}
    OBVIOUS
  <2> DEFINE U == {s[i] : i \in 1..k}
  <2>2. IsFiniteSet(U \cup {s[k + 1]})
    <3>1. IsFiniteSet(U)
      OBVIOUS
    <3> HIDE DEF U
    <3> QED BY <3>1, FS_AddElement
  <2>3. k + 1 \in 0..n
    BY <1>1
  <2>4. IsFiniteSet({s[i] : i \in 1..(k + 1)})
    BY <2>1, <2>2, Zenon
  <2> QED BY <2>3, <2>4
<1>4. \A k \in 0..n : k \in T
  <2> HIDE DEF T
  <2> QED BY <1>1, <1>2, <1>3, UpTo, Zenon
<1>5. IsFiniteSet({s[i] : i \in 1..n})
  BY <1>1, <1>4
<1> QED BY <1>1, <1>5
=============================================================================
