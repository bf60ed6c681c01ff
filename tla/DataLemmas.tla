------------------------------ MODULE DataLemmas ------------------------------
(***************************************************************************)
(* Facts about numbers, sequences and folds that the proofs about pages,   *)
(* requests and commands need: least and greatest elements, an induction   *)
(* over the members of a set, reversed lists, ranks, and the existence of  *)
(* the function that a fold of the community modules chooses.              *)
(***************************************************************************)
EXTENDS Integers, Sequences, FiniteSets, FiniteSetsExt, SequencesExt,
        FiniteSetTheorems, SequenceTheorems, WellFoundedInduction, TLAPS

-----------------------------------------------------------------------------
(* Numbers.                                                                *)

(* A non-empty set of naturals has a least element, and Min returns it. *)
LEMMA MinProperty ==
  ASSUME NEW S \in SUBSET Nat, S # {}
  PROVE  Min(S) \in S /\ \A x \in S : Min(S) <= x
<1> DEFINE R == OpToRel(<, Nat)
<1>1. IsWellFoundedOn(R, Nat)
  BY NatLessThanWellFounded, Zenon
<1>2. \A x, y \in Nat : x < y => <<x, y>> \in R
  BY SMT DEF OpToRel
<1> HIDE DEF R
<1>3. PICK m \in S : \A y \in S : ~ (<<y, m>> \in R)
  BY <1>1, WFMin, Zenon
<1>4. \A y \in S : ~ (y < m)
  BY <1>2, <1>3, Zenon
<1>5. \A y \in S : m <= y
  BY <1>4
<1> QED BY <1>5 DEF Min

(* A non-empty set of positive numbers with a bound has a greatest element *)
(* and Max returns it.                                                     *)
LEMMA MaxProperty ==
  ASSUME NEW n \in Nat, NEW s \in SUBSET (1 .. n), s # {}
  PROVE  Max(s) \in s /\ \A x \in s : x <= Max(s)
<1> DEFINE R == {n - x : x \in s}
<1>1. R \in SUBSET Nat /\ R # {}
  <2>1. \A x \in s : n - x \in Nat
    OBVIOUS
  <2> QED BY <2>1
<1> DEFINE m == Min(R)
<1>2. m \in R /\ \A y \in R : m <= y
  BY <1>1, MinProperty
<1> HIDE DEF m
<1>3. PICK x \in s : m = n - x
  BY <1>2
<1>4. \A y \in s : x >= y
  <2>1. \A y \in s : m <= n - y
    BY <1>2
  <2> QED BY <1>3, <2>1
<1>5. \A z \in s : (\A y \in s : z >= y) => \A y \in s : y <= z
  OBVIOUS
<1> QED BY <1>4, <1>5 DEF Max

(* Induction up to a number, with the numbers for which a fact holds as a  *)
(* set, so that it can be cited for any fact.                              *)
LEMMA IntervalInduction ==
  ASSUME NEW N \in Nat, NEW G, 0 \in G,
         \A n \in 0 .. N - 1 : n \in G => n + 1 \in G
  PROVE  \A n \in 0 .. N : n \in G
<1> DEFINE Bad == {n \in 0 .. N : n \notin G}
<1> SUFFICES ASSUME Bad # {} PROVE FALSE
  OBVIOUS
<1> DEFINE m == Min(Bad)
<1>1. m \in Bad /\ \A x \in Bad : m <= x
  BY MinProperty
<1> HIDE DEF m
<1>2. m # 0 /\ m - 1 \in 0 .. N - 1 /\ m - 1 \notin Bad
  BY <1>1
<1> QED BY <1>1, <1>2

(* The intervals that a fold from the left goes through. *)
LEMMA PrefixSets ==
  ASSUME NEW N \in Nat
  PROVE  /\ 1 .. 0 = {}
         /\ \A n \in 1 .. N : /\ 1 .. n \in SUBSET (1 .. N)
                               /\ 1 .. n # {}
                               /\ Max(1 .. n) = n
                               /\ (1 .. n) \ {n} = 1 .. n - 1
<1>1. ASSUME NEW n \in 1 .. N
      PROVE  /\ 1 .. n \in SUBSET (1 .. N)
             /\ 1 .. n # {}
             /\ Max(1 .. n) = n
             /\ (1 .. n) \ {n} = 1 .. n - 1
  <2>1. 1 .. n \in SUBSET (1 .. n) /\ 1 .. n # {} /\ 1 .. n \in SUBSET (1 .. N)
    OBVIOUS
  <2>2. Max(1 .. n) \in 1 .. n /\ \A x \in 1 .. n : x <= Max(1 .. n)
    BY <2>1, MaxProperty
  <2>3. Max(1 .. n) = n
    BY <2>2
  <2>4. (1 .. n) \ {n} = 1 .. n - 1
    OBVIOUS
  <2> QED BY <2>1, <2>3, <2>4
<1> QED BY <1>1

-----------------------------------------------------------------------------
(* Sequences.                                                              *)

(* Reversing a list keeps its length and the set its elements are from. *)
LEMMA ReverseType ==
  ASSUME NEW S, NEW s \in Seq(S)
  PROVE  Reverse(s) \in Seq(S)
<1> DEFINE n == Len(s)
<1>1. n \in Nat /\ \A i \in 1 .. n : s[i] \in S
  BY ElementOfSeq, LenProperties
<1>2. Reverse(s) = [i \in 1 .. n |-> s[(n - i) + 1]]
  BY DEF Reverse
<1>3. \A i \in 1 .. n : (n - i) + 1 \in 1 .. n
  BY <1>1
<1>4. \A i \in 1 .. n : s[(n - i) + 1] \in S
  BY <1>1, <1>3
<1> QED BY <1>1, <1>2, <1>4

(* A list reversed has the same elements, and reversed again is the list. *)
LEMMA ReverseElements ==
  ASSUME NEW S, NEW s \in Seq(S)
  PROVE  /\ Len(Reverse(s)) = Len(s)
         /\ Reverse(Reverse(s)) = s
         /\ Range(Reverse(s)) = Range(s)
<1> DEFINE n == Len(s)
           r == Reverse(s)
<1>1. n \in Nat /\ DOMAIN s = 1 .. n /\ s = [i \in 1 .. n |-> s[i]]
  BY LenProperties
<1>2. r = [i \in 1 .. n |-> s[(n - i) + 1]]
  BY DEF Reverse
<1>3. r \in Seq(S)
  BY ReverseType
<1>4. Len(r) = n
  BY <1>1, <1>2, <1>3
<1>5. Reverse(r) = [i \in 1 .. n |-> r[(n - i) + 1]]
  BY <1>4 DEF Reverse
<1> HIDE DEF r, n
<1>6. \A i \in 1 .. n : (n - i) + 1 \in 1 .. n /\ (n - ((n - i) + 1)) + 1 = i
  BY <1>1
<1>7. \A i \in 1 .. n : r[i] = s[(n - i) + 1] /\ r[(n - i) + 1] = s[i]
  BY <1>2, <1>6
<1>8. Reverse(r) = s
  BY <1>1, <1>5, <1>7
<1>9. DOMAIN r = 1 .. n
  BY <1>2
<1>10. Range(r) = Range(s)
  <2>1. \A i \in 1 .. n : r[i] \in Range(s)
    BY <1>1, <1>6, <1>7 DEF Range
  <2>2. \A i \in 1 .. n : s[i] \in Range(r)
    BY <1>6, <1>7, <1>9 DEF Range
  <2>3. Range(r) = {r[i] : i \in 1 .. n} /\ Range(s) = {s[i] : i \in 1 .. n}
    BY <1>1, <1>9 DEF Range
  <2> QED BY <2>1, <2>2, <2>3
<1> QED BY <1>4, <1>8, <1>10 DEF r, n

(* The k-th kept element exists for every k up to the number kept. *)
LEMMA KthElement ==
  ASSUME NEW n \in Nat, NEW keep \in SUBSET (1 .. n),
         NEW k \in 1 .. Cardinality(keep)
  PROVE  \E i \in keep : Cardinality({j \in keep : j <= i}) = k
<1> DEFINE Upto(m) == {j \in keep : j <= m}
           Big == {m \in 0 .. n : Cardinality(Upto(m)) >= k}
<1>1. IsFiniteSet(keep) /\ Cardinality(keep) \in Nat
  <2>1. IsFiniteSet(1 .. n)
    BY FS_Interval
  <2> QED BY <2>1, FS_Subset, FS_CardinalityType
<1>2. \A m \in Nat : IsFiniteSet(Upto(m)) /\ Cardinality(Upto(m)) \in Nat
  <2> SUFFICES ASSUME NEW m \in Nat
               PROVE  IsFiniteSet(Upto(m)) /\ Cardinality(Upto(m)) \in Nat
    OBVIOUS
  <2>1. Upto(m) \subseteq keep
    OBVIOUS
  <2> QED BY <2>1, <1>1, FS_Subset, FS_CardinalityType
<1>3. \A j \in keep : j \in Int /\ 1 <= j /\ j <= n
  OBVIOUS
<1>4. Upto(n) = keep
  BY <1>3
<1>5. Upto(0) = {}
  <2>1. \A j \in keep : ~ (j <= 0)
    BY <1>3
  <2> QED BY <2>1
<1>6. n \in Big
  BY <1>1, <1>4
<1> HIDE DEF Upto
<1>7. Big \in SUBSET Nat /\ Big # {}
  BY <1>6
<1> DEFINE m == Min(Big)
<1>8. m \in Big /\ \A x \in Big : m <= x
  BY <1>7, MinProperty
<1> HIDE DEF m
<1>9. m # 0
  BY <1>5, <1>8, FS_EmptySet
<1>10. m - 1 \in Nat /\ m \in Nat /\ m - 1 \in 0 .. n /\ m - 1 \notin Big
  BY <1>8, <1>9
<1>11. Cardinality(Upto(m - 1)) < k
  BY <1>2, <1>10
<1>12. Upto(m) = IF m \in keep THEN Upto(m - 1) \cup {m} ELSE Upto(m - 1)
  <2>1. \A j \in Int : j <= m <=> j <= m - 1 \/ j = m
    BY <1>10
  <2> QED BY <1>3, <2>1 DEF Upto
<1>13. m \in keep
  BY <1>8, <1>11, <1>12, <1>2, <1>10
<1>14. m \notin Upto(m - 1)
  BY <1>10 DEF Upto
<1>15. Cardinality(Upto(m)) = Cardinality(Upto(m - 1)) + 1
  BY <1>2, <1>10, <1>12, <1>13, <1>14, FS_AddElement
<1>16. Cardinality(Upto(m)) = k
  BY <1>2, <1>8, <1>10, <1>11, <1>15
<1> QED BY <1>13, <1>16 DEF Upto

(* How many numbers of a set are no greater than i, and the k-th of them.  *)
Rank(keep, i) == Cardinality({j \in keep : j <= i})
Kth(keep, k)  == CHOOSE i \in keep : Rank(keep, i) = k

(* Ranks number a set of numbers in their order. *)
LEMMA Ranks ==
  ASSUME NEW n \in Nat, NEW keep \in SUBSET (1 .. n)
  PROVE  /\ Cardinality(keep) \in Nat
         /\ \A i \in keep : Rank(keep, i) \in 1 .. Cardinality(keep)
         /\ \A i, j \in keep : i < j => Rank(keep, i) < Rank(keep, j)
<1> DEFINE Upto(i) == {j \in keep : j <= i}
<1>1. IsFiniteSet(keep) /\ Cardinality(keep) \in Nat
  <2>1. IsFiniteSet(1 .. n)
    BY FS_Interval
  <2> QED BY <2>1, FS_Subset, FS_CardinalityType
<1>2. \A i \in keep : Upto(i) \subseteq keep /\ i \in Upto(i)
  OBVIOUS
<1> HIDE DEF Upto
<1>3. \A i \in keep : /\ IsFiniteSet(Upto(i))
                     /\ Cardinality(Upto(i)) \in Nat
                     /\ Cardinality(Upto(i)) <= Cardinality(keep)
  BY <1>1, <1>2, FS_Subset, FS_CardinalityType
<1>4. \A i \in keep : Cardinality(Upto(i)) # 0
  BY <1>2, <1>3, FS_EmptySet
<1>5. ASSUME NEW i \in keep, NEW j \in keep, i < j
      PROVE  Cardinality(Upto(i)) < Cardinality(Upto(j))
  <2>0. \A x \in keep : x \in Int
    OBVIOUS
  <2>1. Upto(i) \subseteq Upto(j)
    <3>1. \A x \in keep : x <= i => x <= j
      BY <1>5, <2>0
    <3> QED BY <3>1 DEF Upto
  <2>2. j \notin Upto(i)
    <3>1. ~ (j <= i)
      BY <1>5, <2>0
    <3> QED BY <3>1 DEF Upto
  <2>3. j \in Upto(j) /\ Upto(i) # Upto(j)
    BY <1>2, <2>2
  <2>4. IsFiniteSet(Upto(j)) /\ Cardinality(Upto(i)) \in Nat /\ Cardinality(Upto(j)) \in Nat
    BY <1>3
  <2>5. /\ Cardinality(Upto(i)) <= Cardinality(Upto(j))
        /\ Cardinality(Upto(j)) = Cardinality(Upto(i)) => Upto(j) = Upto(i)
    BY <2>1, <2>4, FS_Subset
  <2> QED BY <2>3, <2>4, <2>5
<1>6. \A i \in keep : Rank(keep, i) = Cardinality(Upto(i))
  BY DEF Rank, Upto
<1>7. \A i \in keep : Cardinality(Upto(i)) \in 1 .. Cardinality(keep)
  BY <1>1, <1>3, <1>4
<1> QED BY <1>1, <1>5, <1>6, <1>7

(* Ranks and elements determine each other. *)
LEMMA KthRank ==
  ASSUME NEW n \in Nat, NEW keep \in SUBSET (1 .. n)
  PROVE  /\ \A k \in 1 .. Cardinality(keep) : /\ Kth(keep, k) \in keep
                                              /\ Rank(keep, Kth(keep, k)) = k
         /\ \A i \in keep : Kth(keep, Rank(keep, i)) = i
         /\ \A k, m \in 1 .. Cardinality(keep) : k < m => Kth(keep, k) < Kth(keep, m)
<1>1. ASSUME NEW k \in 1 .. Cardinality(keep)
      PROVE  Kth(keep, k) \in keep /\ Rank(keep, Kth(keep, k)) = k
  <2>1. \E i \in keep : Rank(keep, i) = k
    BY KthElement DEF Rank
  <2> QED BY <2>1 DEF Kth
<1> DEFINE c == Cardinality(keep)
<1>2. /\ c \in Nat
      /\ \A i \in keep : Rank(keep, i) \in 1 .. c /\ i \in Int
      /\ \A i, j \in keep : i < j => Rank(keep, i) < Rank(keep, j)
  <2>1. \A i \in keep : i \in Int
    OBVIOUS
  <2> QED BY <2>1, Ranks
<1>3. \A k \in 1 .. c : Kth(keep, k) \in keep /\ Rank(keep, Kth(keep, k)) = k
  BY <1>1
<1> HIDE DEF c
<1>4. ASSUME NEW i \in keep, NEW j \in keep, Rank(keep, i) = Rank(keep, j)
      PROVE  i = j
  <2>1. Rank(keep, i) \in Int /\ i \in Int /\ j \in Int
    BY <1>2
  <2>2. ~ (i < j)
    BY <1>2, <1>4, <2>1
  <2>3. ~ (j < i)
    BY <1>2, <1>4, <2>1
  <2> QED BY <2>1, <2>2, <2>3
<1>5. ASSUME NEW i \in keep
      PROVE  Kth(keep, Rank(keep, i)) = i
  <2>1. Rank(keep, i) \in 1 .. c
    BY <1>2
  <2>2. Kth(keep, Rank(keep, i)) \in keep /\ Rank(keep, Kth(keep, Rank(keep, i))) = Rank(keep, i)
    BY <1>3, <2>1
  <2> QED BY <1>4, <2>2
<1>6. ASSUME NEW k \in 1 .. c, NEW m \in 1 .. c, k < m
      PROVE  Kth(keep, k) < Kth(keep, m)
  <2> DEFINE x == Kth(keep, k)
             y == Kth(keep, m)
  <2>1. x \in keep /\ Rank(keep, x) = k /\ y \in keep /\ Rank(keep, y) = m
    BY <1>3
  <2> HIDE DEF x, y
  <2>2. k # m /\ ~ (m < k) /\ x \in Int /\ y \in Int
    BY <1>2, <1>6, <2>1
  <2>3. x # y
    BY <2>1, <2>2
  <2>4. ~ (y < x)
    BY <1>2, <2>1, <2>2
  <2>5. x < y
    BY <2>2, <2>3, <2>4
  <2> QED BY <2>5 DEF x, y
<1> QED BY <1>3, <1>5, <1>6 DEF c

(* Two sets that a function puts in correspondence are equally large. *)
LEMMA SameCount ==
  ASSUME NEW S, NEW T, IsFiniteSet(S), NEW f \in [S -> T],
         \A x, y \in S : f[x] = f[y] => x = y,
         \A y \in T : \E x \in S : f[x] = y
  PROVE  Cardinality(S) = Cardinality(T)
<1>1. f \in Bijection(S, T)
  BY DEF Bijection, Injection, Surjection, IsInjective
<1>2. ExistsBijection(S, T)
  BY <1>1 DEF ExistsBijection
<1> QED BY <1>2, FS_Bijection

(* The elements of S that T numbers.                                       *)
Chosen(S, T) == {Kth(S, t) : t \in T}

(* They are in the order of their numbers in T.                            *)
InOrder(S, T) ==
  /\ Cardinality(Chosen(S, T)) = Cardinality(T)
  /\ \A m \in 1 .. Cardinality(T) : /\ Kth(T, m) \in T
                                    /\ Kth(Chosen(S, T), m) = Kth(S, Kth(T, m))

(* To pick of what was picked is to pick once: the order stays.            *)
LEMMA KthKth ==
  ASSUME NEW n \in Nat, NEW S \in SUBSET (1 .. n),
         NEW T \in SUBSET (1 .. Cardinality(S))
  PROVE  InOrder(S, T)
<1> DEFINE c == Cardinality(S)
           U == Chosen(S, T)
<1>1. /\ c \in Nat
      /\ \A t \in 1 .. c : Kth(S, t) \in S /\ Kth(S, t) \in Int
      /\ \A t, m \in 1 .. c : t < m => Kth(S, t) < Kth(S, m)
  <2>1. \A j \in S : j \in Int
    OBVIOUS
  <2> QED BY <2>1, Ranks, KthRank
<1>2. T \in SUBSET (1 .. c) /\ U \in SUBSET S /\ U \in SUBSET (1 .. n)
  BY <1>1 DEF Chosen
<1> HIDE DEF c
<1>3. \A t, m \in T : t # m => Kth(S, t) # Kth(S, m)
  <2>1. \A t, m \in T : t < m \/ m < t \/ t = m
    BY <1>1, <1>2
  <2> QED BY <1>1, <1>2, <2>1
<1>4. \A t, m \in T : t <= m <=> Kth(S, t) <= Kth(S, m)
  <2> SUFFICES ASSUME NEW t \in T, NEW m \in T
               PROVE  t <= m <=> Kth(S, t) <= Kth(S, m)
    OBVIOUS
  <2>1. /\ t \in Int /\ m \in Int /\ Kth(S, t) \in Int /\ Kth(S, m) \in Int
        /\ t < m => Kth(S, t) < Kth(S, m)
        /\ m < t => Kth(S, m) < Kth(S, t)
    BY <1>1, <1>2
  <2> QED BY <2>1
<1>5. ASSUME NEW V \in SUBSET T
      PROVE  Cardinality({Kth(S, t) : t \in V}) = Cardinality(V)
  <2> DEFINE W == {Kth(S, t) : t \in V}
             f == [t \in V |-> Kth(S, t)]
  <2>1. IsFiniteSet(V)
    <3>1. IsFiniteSet(1 .. c)
      BY <1>1, FS_Interval
    <3>2. V \subseteq 1 .. c
      BY <1>2
    <3> QED BY <3>1, <3>2, FS_Subset
  <2>2. f \in [V -> W]
    OBVIOUS
  <2>3. \A x, y \in V : f[x] = f[y] => x = y
    BY <1>3
  <2>4. \A y \in W : \E x \in V : f[x] = y
    OBVIOUS
  <2> HIDE DEF f, W
  <2>5. Cardinality(V) = Cardinality(W)
    BY <2>1, <2>2, <2>3, <2>4, SameCount
  <2> QED BY <2>5 DEF W
<1>6. Cardinality(U) = Cardinality(T)
  BY <1>5 DEF Chosen
<1>7. \A m \in 1 .. Cardinality(T) : Kth(T, m) \in T /\ Rank(T, Kth(T, m)) = m
  BY <1>1, <1>2, KthRank
<1>8. ASSUME NEW t \in T
      PROVE  Kth(S, t) \in U /\ Rank(U, Kth(S, t)) = Rank(T, t)
  <2> DEFINE V == {u \in T : u <= t}
  <2>1. {j \in U : j <= Kth(S, t)} = {Kth(S, u) : u \in V}
    BY <1>4 DEF Chosen
  <2>2. Cardinality({Kth(S, u) : u \in V}) = Cardinality(V)
    BY <1>5
  <2> QED BY <2>1, <2>2 DEF Rank, Chosen
<1>9. \A j \in U : Kth(U, Rank(U, j)) = j
  BY <1>2, KthRank
<1>10. ASSUME NEW m \in 1 .. Cardinality(T)
       PROVE  Kth(T, m) \in T /\ Kth(U, m) = Kth(S, Kth(T, m))
  <2>1. Kth(T, m) \in T /\ Rank(T, Kth(T, m)) = m
    BY <1>7
  <2>2. Kth(S, Kth(T, m)) \in U /\ Rank(U, Kth(S, Kth(T, m))) = m
    BY <1>8, <2>1
  <2>3. Kth(U, Rank(U, Kth(S, Kth(T, m)))) = Kth(S, Kth(T, m))
    BY <1>9, <2>2
  <2> QED BY <2>1, <2>2, <2>3
<1> QED BY <1>6, <1>10 DEF InOrder

-----------------------------------------------------------------------------
(* Folds.                                                                  *)

(* h is the function by which MapThenFoldSet, taking the greatest index    *)
(* first, defines the fold of F from b over the indices 1 .. N.            *)
IsFold(h, N, S, b, F) ==
  /\ h \in [SUBSET (1 .. N) -> S]
  /\ h[{}] = b
  /\ \A s \in SUBSET (1 .. N) :
       s # {} => h[s] = F[Max(s)][h[s \ {Max(s)}]]

(* There is such a function whenever F stays in a set S. *)
LEMMA FoldExists ==
  ASSUME NEW N \in Nat, NEW S, NEW b \in S, NEW F \in [1 .. N -> [S -> S]]
  PROVE  \E h : IsFold(h, N, S, b, F)
<1> DEFINE G == {n \in 0 .. N : \E h : IsFold(h, n, S, b, F)}
<1>1. 0 \in G
  <2> DEFINE h == [s \in SUBSET (1 .. 0) |-> b]
  <2>1. \A s \in SUBSET (1 .. 0) : s = {}
    OBVIOUS
  <2>2. IsFold(h, 0, S, b, F)
    BY <2>1 DEF IsFold
  <2> QED BY <2>2
<1>2. ASSUME NEW n \in 0 .. N - 1, n \in G
      PROVE  n + 1 \in G
  <2>1. PICK h : IsFold(h, n, S, b, F)
    BY <1>2
  <2>2. /\ h \in [SUBSET (1 .. n) -> S]
        /\ h[{}] = b
        /\ \A s \in SUBSET (1 .. n) :
             s # {} => h[s] = F[Max(s)][h[s \ {Max(s)}]]
    BY <2>1 DEF IsFold
  <2> DEFINE h2 == [s \in SUBSET (1 .. n + 1) |->
                      IF n + 1 \in s THEN F[n + 1][h[s \ {n + 1}]] ELSE h[s]]
  <2>3. \A s \in SUBSET (1 .. n + 1) : s \ {n + 1} \in SUBSET (1 .. n)
    OBVIOUS
  <2>4. \A s \in SUBSET (1 .. n + 1) : n + 1 \notin s => s \in SUBSET (1 .. n)
    OBVIOUS
  <2>5. h2 \in [SUBSET (1 .. n + 1) -> S]
    <3> SUFFICES ASSUME NEW s \in SUBSET (1 .. n + 1)
                 PROVE  h2[s] \in S
      OBVIOUS
    <3>1. n + 1 \in 1 .. N
      OBVIOUS
    <3>2. h[s \ {n + 1}] \in S
      BY <2>2, <2>3
    <3>3. F[n + 1][h[s \ {n + 1}]] \in S
      BY <3>1, <3>2
    <3> QED BY <2>2, <2>4, <3>3
  <2>6. h2[{}] = b
    BY <2>2
  <2>7. ASSUME NEW s \in SUBSET (1 .. n + 1), s # {}
        PROVE  h2[s] = F[Max(s)][h2[s \ {Max(s)}]]
    <3>1. CASE n + 1 \in s
      <4>1. Max(s) = n + 1
        <5>1. n + 1 \in Nat
          OBVIOUS
        <5>2. Max(s) \in s /\ \A x \in s : x <= Max(s)
          BY <2>7, <5>1, MaxProperty
        <5>3. Max(s) \in 1 .. n + 1 /\ n + 1 <= Max(s)
          BY <3>1, <5>2
        <5> QED BY <5>3
      <4>2. h2[s \ {n + 1}] = h[s \ {n + 1}]
        BY <2>3
      <4> QED BY <3>1, <4>1, <4>2
    <3>2. CASE n + 1 \notin s
      <4>1. s \in SUBSET (1 .. n)
        BY <2>4, <3>2
      <4>2. h2[s \ {Max(s)}] = h[s \ {Max(s)}]
        BY <2>3, <4>1, <3>2
      <4> QED BY <2>2, <2>7, <3>2, <4>1, <4>2
    <3> QED BY <3>1, <3>2
  <2> HIDE DEF h2
  <2>8. IsFold(h2, n + 1, S, b, F)
    BY <2>5, <2>6, <2>7 DEF IsFold
  <2>9. n + 1 \in 0 .. N
    OBVIOUS
  <2> QED BY <2>8, <2>9
<1>3. \A n \in 0 .. N - 1 : n \in G => n + 1 \in G
  BY <1>2
<1>4. N \in 0 .. N
  OBVIOUS
<1>5. N \in G
  <2> HIDE DEF G
  <2> QED BY <1>1, <1>3, <1>4, IntervalInduction
<1> QED BY <1>5

(* it satisfies that equation wherever it is in S. *)
FoldsIn(it, N, S, b, F) ==
  /\ it[{}] = b
  /\ \A s \in SUBSET (1 .. N) :
       s # {} /\ it[s \ {Max(s)}] \in S => it[s] = F[Max(s)][it[s \ {Max(s)}]]

(* it goes through S, one step of F for every index. *)
Prefixed(it, N, S, b, F) ==
  /\ it[1 .. 0] = b
  /\ \A n \in 0 .. N : it[1 .. n] \in S
  /\ \A n \in 1 .. N : it[1 .. n] = F[n][it[1 .. n - 1]]

(* A fold that satisfies its equation in S stays in S. *)
LEMMA FoldPrefixes ==
  ASSUME NEW N \in Nat, NEW S, NEW b \in S, NEW F \in [1 .. N -> [S -> S]],
         NEW it, FoldsIn(it, N, S, b, F)
  PROVE  Prefixed(it, N, S, b, F)
<1> DEFINE G == {n \in 0 .. N : it[1 .. n] \in S}
<1>1. it[1 .. 0] = b
  BY PrefixSets DEF FoldsIn
<1>2. ASSUME NEW n \in 1 .. N, it[1 .. n - 1] \in S
      PROVE  it[1 .. n] \in S /\ it[1 .. n] = F[n][it[1 .. n - 1]]
  <2> DEFINE s == 1 .. n
  <2>1. s \in SUBSET (1 .. N) /\ s # {} /\ Max(s) = n /\ s \ {Max(s)} = 1 .. n - 1
    BY PrefixSets
  <2> HIDE DEF s
  <2>2. it[s] = F[n][it[1 .. n - 1]]
    BY <1>2, <2>1 DEF FoldsIn
  <2>3. F[n][it[1 .. n - 1]] \in S
    BY <1>2
  <2> QED BY <2>2, <2>3 DEF s
<1>3. \A n \in 0 .. N - 1 : n \in G => n + 1 \in G
  <2> SUFFICES ASSUME NEW n \in 0 .. N - 1, n \in G
               PROVE  n + 1 \in G
    OBVIOUS
  <2>1. n + 1 \in 1 .. N /\ (n + 1) - 1 = n /\ n + 1 \in 0 .. N
    OBVIOUS
  <2> QED BY <1>2, <2>1
<1>4. 0 \in G
  BY <1>1
<1>5. \A n \in 0 .. N : n \in G
  <2> HIDE DEF G
  <2> QED BY <1>3, <1>4, IntervalInduction
<1>6. \A n \in 1 .. N : it[1 .. n - 1] \in S
  <2> SUFFICES ASSUME NEW n \in 1 .. N
               PROVE  it[1 .. n - 1] \in S
    OBVIOUS
  <2>1. n - 1 \in 0 .. N
    OBVIOUS
  <2> QED BY <1>5, <2>1
<1> QED BY <1>1, <1>2, <1>5, <1>6 DEF Prefixed

(* The fold of H takes one step more than that of F, and its result is     *)
(* that step from the result of F.                                         *)
OneStepMore(N, S, F, H) ==
  /\ F \in [1 .. N -> [S -> S]] /\ H \in [1 .. N + 1 -> [S -> S]]
  /\ \A n \in 1 .. N : H[n] = F[n]

Continues(next, it, N, S, H) ==
  it[1 .. N] \in S /\ next[1 .. N + 1] = H[N + 1][it[1 .. N]]

(* One element more is one step of the fold more. *)
LEMMA FoldAppend ==
  ASSUME NEW N \in Nat, NEW S, NEW b \in S,
         NEW F, NEW H, OneStepMore(N, S, F, H),
         NEW it, FoldsIn(it, N, S, b, F),
         NEW next, FoldsIn(next, N + 1, S, b, H)
  PROVE  Continues(next, it, N, S, H)
<1>0. /\ F \in [1 .. N -> [S -> S]] /\ H \in [1 .. N + 1 -> [S -> S]]
      /\ \A n \in 1 .. N : H[n] = F[n]
  BY DEF OneStepMore
<1>1. Prefixed(it, N, S, b, F)
  BY <1>0, FoldPrefixes
<1>2. Prefixed(next, N + 1, S, b, H)
  BY <1>0, FoldPrefixes
<1> DEFINE G == {n \in 0 .. N : next[1 .. n] = it[1 .. n]}
<1>3. 0 \in G
  BY <1>1, <1>2 DEF Prefixed
<1>4. \A n \in 0 .. N - 1 : n \in G => n + 1 \in G
  <2> SUFFICES ASSUME NEW n \in 0 .. N - 1, n \in G
               PROVE  n + 1 \in G
    OBVIOUS
  <2> DEFINE m == n + 1
  <2>1. m \in 1 .. N /\ m \in 1 .. N + 1 /\ m - 1 = n /\ m \in 0 .. N
    OBVIOUS
  <2> HIDE DEF m
  <2>2. it[1 .. m] = F[m][it[1 .. n]] /\ next[1 .. m] = H[m][next[1 .. n]]
    BY <1>0, <1>1, <1>2, <2>1 DEF Prefixed
  <2> QED BY <1>0, <2>1, <2>2 DEF m
<1>5. N \in G
  <2> HIDE DEF G
  <2>1. N \in 0 .. N
    OBVIOUS
  <2> QED BY <1>3, <1>4, <2>1, IntervalInduction
<1>6. next[1 .. N + 1] = H[N + 1][next[1 .. N]]
  <2> DEFINE m == N + 1
  <2>1. m \in 1 .. m /\ m - 1 = N
    OBVIOUS
  <2> HIDE DEF m
  <2>2. Prefixed(next, m, S, b, H)
    BY <1>2 DEF m
  <2>3. next[1 .. m] = H[m][next[1 .. N]]
    BY <2>1, <2>2 DEF Prefixed
  <2> QED BY <2>3 DEF m
<1>7. N \in 0 .. N
  OBVIOUS
<1>8. it[1 .. N] \in S
  BY <1>1, <1>7 DEF Prefixed
<1> QED BY <1>5, <1>6, <1>8 DEF Continues

-----------------------------------------------------------------------------
(* Counting and sums.                                                      *)

(* Counting up to one number more. *)
LEMMA CountMore ==
  ASSUME NEW n \in Nat, NEW P
  PROVE  /\ Cardinality(P \cap (1 .. n)) \in Nat
         /\ Cardinality(P \cap (1 .. n + 1)) =
              Cardinality(P \cap (1 .. n)) + IF n + 1 \in P THEN 1 ELSE 0
<1> DEFINE A == P \cap (1 .. n)
           B == P \cap (1 .. n + 1)
<1>1. IsFiniteSet(A)
  <2>1. IsFiniteSet(1 .. n) /\ A \subseteq 1 .. n
    BY FS_Interval
  <2> HIDE DEF A
  <2> QED BY <2>1, FS_Subset
<1>2. B = IF n + 1 \in P THEN A \cup {n + 1} ELSE A
  <2>1. 1 .. n + 1 = (1 .. n) \cup {n + 1}
    OBVIOUS
  <2> QED BY <2>1
<1>3. n + 1 \notin A
  OBVIOUS
<1> HIDE DEF A, B
<1>4. Cardinality(A \cup {n + 1}) = Cardinality(A) + 1
  BY <1>1, <1>3, FS_AddElement
<1>5. Cardinality(A) \in Nat
  BY <1>1, FS_CardinalityType
<1> QED BY <1>2, <1>4, <1>5 DEF A, B

(* The sum of f over s is the number of cells in columns of these heights. *)
Cells(f, s) == {c \in s \X Nat : c[2] \in 1 .. f[c[1]]}
Total(f, s) == Cardinality(Cells(f, s))

Heights(f, s) == IsFiniteSet(s) /\ \A x \in s : f[x] \in Nat

(* It is what a sum should be.                                             *)
LEMMA TotalSum ==
  ASSUME NEW s, NEW f, Heights(f, s)
  PROVE  /\ Total(f, s) \in Nat
         /\ s = {} => Total(f, s) = 0
         /\ \A p \in s : Total(f, s) = f[p] + Total(f, s \ {p})
<1>1. ASSUME NEW u, u \subseteq s
      PROVE  IsFiniteSet(Cells(f, u)) /\ Total(f, u) \in Nat
  <2> DEFINE column(p) == {p} \X (1 .. f[p])
             T == {column(p) : p \in u}
             h == [p \in u |-> column(p)]
  <2>1. IsFiniteSet(u)
    BY <1>1, FS_Subset DEF Heights
  <2>2. IsFiniteSet(T)
    <3>1. h \in Surjection(u, T)
      <4>1. h \in [u -> T]
        OBVIOUS
      <4>2. \A t \in T : \E p \in u : h[p] = t
        OBVIOUS
      <4> HIDE DEF h, T
      <4> QED BY <4>1, <4>2 DEF Surjection
    <3> HIDE DEF h, T
    <3> QED BY <2>1, <3>1, FS_Surjection
  <2>3. \A t \in T : IsFiniteSet(t)
    <3> SUFFICES ASSUME NEW p \in u
                 PROVE  IsFiniteSet(column(p))
      OBVIOUS
    <3>1. f[p] \in Nat
      BY <1>1 DEF Heights
    <3>2. IsFiniteSet({p})
      BY FS_Singleton
    <3>3. IsFiniteSet(1 .. f[p])
      <4> DEFINE m == f[p]
      <4>1. m \in Int
        BY <3>1
      <4> HIDE DEF m
      <4>2. IsFiniteSet(1 .. m)
        BY <4>1, FS_Interval
      <4> QED BY <4>2 DEF m
    <3> QED BY <3>2, <3>3, FS_Product
  <2>4. Cells(f, u) = UNION T
    <3>1. \A p \in u : f[p] \in Nat
      BY <1>1 DEF Heights
    <3> QED BY <3>1 DEF Cells
  <2> HIDE DEF T
  <2>5. IsFiniteSet(UNION T)
    BY <2>2, <2>3, FS_UNION
  <2> QED BY <2>4, <2>5, FS_CardinalityType DEF Total
<1>2. s = {} => Total(f, s) = 0
  <2>1. s = {} => Cells(f, s) = {}
    BY DEF Cells
  <2> QED BY <2>1, FS_EmptySet DEF Total
<1>3. ASSUME NEW p \in s
      PROVE  Total(f, s) = f[p] + Total(f, s \ {p})
  <2> DEFINE A == {p} \X (1 .. f[p])
             B == Cells(f, s \ {p})
  <2>1. f[p] \in Nat
    BY DEF Heights
  <2>2. IsFiniteSet(A) /\ Cardinality(A) = f[p]
    <3>1. IsFiniteSet({p}) /\ Cardinality({p}) = 1
      BY FS_Singleton
    <3>2. IsFiniteSet(1 .. f[p]) /\ Cardinality(1 .. f[p]) = f[p]
      BY <2>1, FS_Interval
    <3>3. IsFiniteSet(A) /\ Cardinality(A) = Cardinality({p}) * Cardinality(1 .. f[p])
      BY <3>1, <3>2, FS_Product
    <3> QED BY <2>1, <3>1, <3>2, <3>3
  <2>3. IsFiniteSet(B) /\ Cardinality(B) \in Nat /\ Total(f, s \ {p}) = Cardinality(B)
    BY <1>1 DEF Total
  <2>4. Cells(f, s) = A \cup B /\ A \cap B = {}
    BY <2>1 DEF Cells
  <2> HIDE DEF A, B
  <2>5. Cardinality(A \cup B) = Cardinality(A) + Cardinality(B) - Cardinality(A \cap B)
    BY <2>2, <2>3, FS_Union
  <2>6. Cardinality(A \cap B) = 0
    BY <2>4, FS_EmptySet
  <2> QED BY <2>1, <2>2, <2>3, <2>4, <2>5, <2>6 DEF Total
<1> QED BY <1>1, <1>2, <1>3

(* Only the heights in s count. *)
LEMMA TotalSame ==
  ASSUME NEW s, NEW f, NEW h, \A x \in s : f[x] = h[x]
  PROVE  Total(f, s) = Total(h, s)
<1>1. Cells(f, s) = Cells(h, s)
  BY DEF Cells
<1> QED BY <1>1 DEF Total

(* it sums f over the subsets of S, taking one element after the other.    *)
Sums(it, f, S) ==
  \A s \in SUBSET S :
    it[s] = IF s = {} THEN 0 ELSE f[CHOOSE x \in s : TRUE] + it[s \ {CHOOSE x \in s : TRUE}]

(* Then it is the sum. *)
LEMMA SumsTotal ==
  ASSUME NEW S, NEW f, Heights(f, S), NEW it, Sums(it, f, S)
  PROVE  it[S] = Total(f, S)
<1> DEFINE N == Cardinality(S)
           Good(n) == \A s \in SUBSET S : Cardinality(s) = n => it[s] = Total(f, s)
           G == {n \in 0 .. N : Good(n)}
<1>1. /\ N \in Nat
      /\ \A s \in SUBSET S : /\ IsFiniteSet(s) /\ Heights(f, s)
                             /\ Cardinality(s) \in Nat
  <2>1. IsFiniteSet(S)
    BY DEF Heights
  <2>2. \A s \in SUBSET S : IsFiniteSet(s)
    BY <2>1, FS_Subset
  <2> QED BY <2>1, <2>2, FS_CardinalityType DEF Heights
<1> HIDE DEF N
<1>2. 0 \in G
  <2>1. ASSUME NEW s \in SUBSET S, Cardinality(s) = 0
        PROVE  it[s] = Total(f, s)
    <3>1. s = {}
      BY <1>1, <2>1, FS_EmptySet
    <3>2. it[s] = 0
      BY <3>1 DEF Sums
    <3> QED BY <1>1, <3>1, <3>2, TotalSum
  <2> QED BY <1>1, <2>1
<1>3. \A n \in 0 .. N - 1 : n \in G => n + 1 \in G
  <2> SUFFICES ASSUME NEW n \in 0 .. N - 1, Good(n),
                      NEW s \in SUBSET S, Cardinality(s) = n + 1
               PROVE  it[s] = Total(f, s)
    BY <1>1
  <2> DEFINE x == CHOOSE x \in s : TRUE
             u == s \ {x}
  <2>1. s # {}
    BY FS_EmptySet, <1>1
  <2>2. x \in s /\ u \in SUBSET S
    BY <2>1
  <2>3. it[s] = f[x] + it[u]
    BY <2>1 DEF Sums
  <2> HIDE DEF x
  <2>4. Cardinality(u) = Cardinality(s) - 1
    BY <1>1, <2>2, FS_RemoveElement
  <2> HIDE DEF u
  <2>5. Cardinality(u) = n
    BY <1>1, <2>4
  <2>6. it[u] = Total(f, u)
    BY <2>2, <2>5
  <2>7. Total(f, s) = f[x] + Total(f, u)
    BY <1>1, <2>2, TotalSum DEF u
  <2> QED BY <2>3, <2>6, <2>7
<1>4. N \in G
  <2> HIDE DEF G
  <2>1. \A n \in 0 .. N : n \in G
    BY <1>1, <1>2, <1>3, IntervalInduction
  <2> QED BY <1>1, <2>1
<1> QED BY <1>4 DEF N

(* There is such an it.                                                    *)
LEMMA SumsExist ==
  ASSUME NEW S, NEW f, Heights(f, S)
  PROVE  Sums([s \in SUBSET S |-> Total(f, s)], f, S)
<1> DEFINE it == [s \in SUBSET S |-> Total(f, s)]
<1> SUFFICES ASSUME NEW s \in SUBSET S
             PROVE  it[s] = IF s = {} THEN 0
                            ELSE f[CHOOSE x \in s : TRUE] + it[s \ {CHOOSE x \in s : TRUE}]
  BY DEF Sums
<1> DEFINE x == CHOOSE x \in s : TRUE
<1>1. Heights(f, s)
  BY FS_Subset DEF Heights
<1>2. CASE s = {}
  BY <1>1, <1>2, TotalSum
<1>3. CASE s # {}
  <2>1. x \in s
    BY <1>3
  <2> HIDE DEF x
  <2>2. Total(f, s) = f[x] + Total(f, s \ {x})
    BY <1>1, <2>1, TotalSum
  <2>3. s \ {x} \in SUBSET S
    OBVIOUS
  <2>4. it[s] = f[x] + it[s \ {x}]
    BY <2>2, <2>3
  <2> QED BY <1>3, <2>4 DEF x
<1> QED BY <1>2, <1>3
=============================================================================
