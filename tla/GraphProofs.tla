----------------------------- MODULE GraphProofs ------------------------------
(***************************************************************************)
(* The database implements the graph of idata.h, for every set of names    *)
(* and values and every number of pages whose ids fit a signed char: what  *)
(* each page function does to its lists it does to their bags, and what it *)
(* does to one page it does to one node.                                   *)
(***************************************************************************)
EXTENDS MCDatabase, DatabaseProofs

(* The operators that Graph takes from elsewhere are those used here.      *)
LEMMA GraphOperators ==
  \A S : G!Cardinality(S) = Cardinality(S) /\ G!Min(S) = Min(S) /\ G!BagOf(S) = BagOf(S)
<1>1. \A S : G!Cardinality(S) = Cardinality(S)
  BY DEF G!Cardinality, Cardinality
<1>2. \A S : G!Min(S) = Min(S)
  BY DEF G!Min, Min
<1> HIDE DEF Cardinality
<1>3. \A s : G!BagOf(s) = BagOf(s)
  BY <1>1 DEF G!BagOf, BagOf
<1> QED BY <1>1, <1>2, <1>3

-----------------------------------------------------------------------------
(* Bags of lists.                                                          *)

(* The places at which a list has x. *)
Places(s, x) == {j \in DOMAIN s : s[j] = x}

(* A bag counts places, of which there is one for each element. *)
LEMMA BagCounts ==
  ASSUME NEW S, NEW s \in Seq(S)
  PROVE  /\ DOMAIN BagOf(s) = {s[j] : j \in 1 .. Len(s)}
         /\ DOMAIN BagOf(s) \subseteq S
         /\ \A x \in DOMAIN BagOf(s) : BagOf(s)[x] = Cardinality(Places(s, x))
         /\ \A x : Places(s, x) \in SUBSET (1 .. Len(s)) /\ IsFiniteSet(Places(s, x))
         /\ \A x : Cardinality(Places(s, x)) \in Nat
<1>1. Len(s) \in Nat /\ DOMAIN s = 1 .. Len(s) /\ \A j \in 1 .. Len(s) : s[j] \in S
  BY LenProperties, ElementOfSeq
<1>2. /\ DOMAIN BagOf(s) = {s[j] : j \in 1 .. Len(s)}
      /\ \A x \in DOMAIN BagOf(s) : BagOf(s)[x] = Cardinality(Places(s, x))
  BY <1>1 DEF BagOf, Places
<1>3. \A x : Places(s, x) \in SUBSET (1 .. Len(s))
  BY <1>1 DEF Places
<1>4. IsFiniteSet(1 .. Len(s))
  BY <1>1, FS_Interval
<1>5. \A x : IsFiniteSet(Places(s, x)) /\ Cardinality(Places(s, x)) \in Nat
  BY <1>3, <1>4, FS_Subset, FS_CardinalityType
<1>6. {s[j] : j \in 1 .. Len(s)} \subseteq S
  BY <1>1
<1> QED BY <1>2, <1>3, <1>5, <1>6

(* Two lists with the same elements, each in equally many places. *)
LEMMA SameBag ==
  ASSUME NEW S, NEW s \in Seq(S), NEW B,
         B = [x \in DOMAIN B |-> B[x]],
         DOMAIN B = {s[j] : j \in 1 .. Len(s)},
         \A x \in DOMAIN B : B[x] = Cardinality(Places(s, x))
  PROVE  BagOf(s) = B
<1>1. DOMAIN s = 1 .. Len(s)
  BY LenProperties
<1>2. BagOf(s) = [x \in DOMAIN B |-> Cardinality(Places(s, x))]
  BY <1>1 DEF BagOf, Places
<1> QED BY <1>2

(* Reading a record turns its lists round: the bags stay the same. *)
LEMMA BagReverse ==
  ASSUME NEW S, NEW s \in Seq(S)
  PROVE  BagOf(Reverse(s)) = BagOf(s)
<1> DEFINE n == Len(s)
           r == Reverse(s)
           B == BagOf(s)
<1>1. n \in Nat /\ DOMAIN s = 1 .. n
  BY LenProperties
<1>2. r = [j \in 1 .. n |-> s[(n - j) + 1]]
  BY DEF Reverse
<1>3. r \in Seq(S) /\ Len(r) = n
  BY ReverseType, ReverseElements
<1>4. /\ B = [x \in DOMAIN B |-> B[x]]
      /\ DOMAIN B = {s[j] : j \in 1 .. n}
      /\ \A x \in DOMAIN B : B[x] = Cardinality(Places(s, x))
  BY BagCounts DEF BagOf
<1> HIDE DEF n, r, B
<1>5. \A j \in 1 .. n : (n - j) + 1 \in 1 .. n /\ (n - ((n - j) + 1)) + 1 = j
  BY <1>1
<1>6. \A j \in 1 .. n : r[j] = s[(n - j) + 1] /\ r[(n - j) + 1] = s[j]
  BY <1>2, <1>5
<1>7. DOMAIN r = 1 .. n
  BY <1>2
<1>8. DOMAIN B = {r[j] : j \in 1 .. n}
  BY <1>4, <1>5, <1>6
<1>9. ASSUME NEW x
      PROVE  Cardinality(Places(s, x)) = Cardinality(Places(r, x))
  <2> DEFINE f == [j \in Places(s, x) |-> (n - j) + 1]
  <2>1. \A j \in Places(s, x) : j \in 1 .. n /\ (n - j) + 1 \in Places(r, x)
    BY <1>1, <1>5, <1>6, <1>7 DEF Places
  <2>2. \A j \in Places(r, x) : j \in 1 .. n /\ (n - j) + 1 \in Places(s, x)
    BY <1>1, <1>5, <1>6, <1>7 DEF Places
  <2>3. f \in [Places(s, x) -> Places(r, x)]
    BY <2>1
  <2>4. \A i, j \in Places(s, x) : f[i] = f[j] => i = j
    BY <1>1, <2>1
  <2>5. \A j \in Places(r, x) : \E i \in Places(s, x) : f[i] = j
    BY <1>5, <2>2
  <2>6. IsFiniteSet(Places(s, x))
    BY BagCounts
  <2> HIDE DEF f
  <2> QED BY <2>3, <2>4, <2>5, <2>6, SameCount
<1>10. \A x \in DOMAIN B : B[x] = Cardinality(Places(r, x))
  BY <1>4, <1>9
<1> QED BY <1>3, <1>4, <1>8, <1>10, SameBag DEF n, r, B

(* One element more at the end. *)
LEMMA BagAppend ==
  ASSUME NEW S, NEW s \in Seq(S), NEW y \in S
  PROVE  BagOf(Append(s, y)) = G!BagAdd(BagOf(s), y)
<1> DEFINE n == Len(s)
           t == Append(s, y)
           B == BagOf(s)
           C == G!BagAdd(B, y)
<1>1. n \in Nat /\ DOMAIN s = 1 .. n
  BY LenProperties
<1>2. /\ t \in Seq(S) /\ Len(t) = n + 1 /\ DOMAIN t = 1 .. n + 1
      /\ t[n + 1] = y /\ \A j \in 1 .. n : t[j] = s[j]
  BY <1>1, LenProperties
<1>3. /\ DOMAIN B = {s[j] : j \in 1 .. n}
      /\ \A x \in DOMAIN B : B[x] = Cardinality(Places(s, x))
      /\ \A x : IsFiniteSet(Places(s, x)) /\ Cardinality(Places(s, x)) \in Nat
  BY BagCounts
<1> HIDE DEF n, t, B
<1>4. /\ DOMAIN C = DOMAIN B \cup {y}
      /\ C = [x \in DOMAIN C |-> C[x]]
      /\ \A x \in DOMAIN C : C[x] = IF x \in DOMAIN B THEN IF x = y THEN B[x] + 1 ELSE B[x] ELSE 1
  BY DEF G!BagAdd
<1> HIDE DEF C
<1>5. \A j : j \in 1 .. n + 1 <=> j \in 1 .. n \/ j = n + 1
  BY <1>1
<1>6. DOMAIN C = {t[j] : j \in 1 .. n + 1}
  BY <1>2, <1>3, <1>4, <1>5
<1>7. \A x : Places(t, x) = IF x = y THEN Places(s, x) \cup {n + 1} ELSE Places(s, x)
  BY <1>1, <1>2, <1>5 DEF Places
<1>8. n + 1 \notin Places(s, y)
  BY <1>1 DEF Places
<1>9. Cardinality(Places(t, y)) = Cardinality(Places(s, y)) + 1
  BY <1>3, <1>7, <1>8, FS_AddElement
<1>10. \A x : x \notin DOMAIN B => Places(s, x) = {}
  BY <1>1, <1>3 DEF Places
<1>11. \A x \in DOMAIN C : C[x] = Cardinality(Places(t, x))
  <2> SUFFICES ASSUME NEW x \in DOMAIN C
               PROVE  C[x] = Cardinality(Places(t, x))
    OBVIOUS
  <2>1. CASE x # y
    BY <1>3, <1>4, <1>7, <2>1
  <2>2. CASE x = y /\ x \in DOMAIN B
    BY <1>3, <1>4, <1>9, <2>2
  <2>3. CASE x = y /\ x \notin DOMAIN B
    <3>1. Cardinality(Places(s, x)) = 0
      BY <1>10, <2>3, FS_EmptySet
    <3> QED BY <1>4, <1>9, <2>3, <3>1
  <2> QED BY <2>1, <2>2, <2>3
<1>12. BagOf(t) = C
  <2>1. DOMAIN C = {t[j] : j \in 1 .. Len(t)}
    BY <1>2, <1>6
  <2> QED BY <1>2, <1>4, <1>11, <2>1, SameBag
<1> QED BY <1>12 DEF t, B, C

(* Dropping the elements that are not in Q. *)
LEMMA BagPick ==
  ASSUME NEW S, NEW s \in Seq(S), NEW Q, NEW keep,
         keep = {j \in 1 .. Len(s) : s[j] \in Q}
  PROVE  BagOf(Pick(s, keep)) = [x \in DOMAIN BagOf(s) \cap Q |-> BagOf(s)[x]]
<1> DEFINE n == Len(s)
           t == Pick(s, keep)
           c == Cardinality(keep)
           B == BagOf(s)
           C == [x \in DOMAIN B \cap Q |-> B[x]]
<1>1. n \in Nat /\ DOMAIN s = 1 .. n /\ keep \in SUBSET (1 .. n)
  BY LenProperties
<1>2. /\ c \in Nat
      /\ \A i \in keep : Rank(keep, i) \in 1 .. c
      /\ \A m \in 1 .. c : Kth(keep, m) \in keep /\ Rank(keep, Kth(keep, m)) = m
      /\ \A i \in keep : Kth(keep, Rank(keep, i)) = i
  <2>1. c \in Nat /\ \A i \in keep : Rank(keep, i) \in 1 .. c
    BY <1>1, Ranks
  <2>2. \A m \in 1 .. c : Kth(keep, m) \in keep /\ Rank(keep, Kth(keep, m)) = m
    BY <1>1, KthRank
  <2>3. \A i \in keep : Kth(keep, Rank(keep, i)) = i
    BY <1>1, KthRank
  <2> QED BY <2>1, <2>2, <2>3
<1>3. t = [m \in 1 .. c |-> s[Kth(keep, m)]]
  BY DEF Pick, Kth, Rank
<1>4. t \in Seq(S) /\ Len(t) = c
  BY <1>1, PickType, PickElements
<1>5. /\ DOMAIN B = {s[j] : j \in 1 .. n}
      /\ \A x \in DOMAIN B : B[x] = Cardinality(Places(s, x))
      /\ \A x : IsFiniteSet(Places(s, x))
  BY BagCounts
<1>6. \A i : i \in keep <=> i \in 1 .. n /\ s[i] \in Q
  OBVIOUS
<1>7. /\ DOMAIN C = DOMAIN B \cap Q
      /\ C = [x \in DOMAIN C |-> C[x]]
      /\ \A x \in DOMAIN C : C[x] = B[x]
  OBVIOUS
<1> HIDE DEF n, t, c, B, C
<1>8. \A m \in 1 .. c : t[m] = s[Kth(keep, m)]
  BY <1>3
<1>9. \A i \in keep : t[Rank(keep, i)] = s[i]
  BY <1>2, <1>8
<1>10. DOMAIN C = {t[m] : m \in 1 .. c}
  <2>1. ASSUME NEW x \in DOMAIN C
        PROVE  \E m \in 1 .. c : t[m] = x
    <3>1. PICK j \in 1 .. n : s[j] = x
      BY <1>5, <1>7
    <3>2. j \in keep
      BY <1>6, <1>7, <3>1
    <3> QED BY <1>2, <1>9, <3>1, <3>2
  <2>2. ASSUME NEW m \in 1 .. c
        PROVE  t[m] \in DOMAIN C
    <3>1. Kth(keep, m) \in keep /\ t[m] = s[Kth(keep, m)]
      BY <1>2, <1>8
    <3> QED BY <1>5, <1>6, <1>7, <3>1
  <2> QED BY <2>1, <2>2
<1>11. ASSUME NEW x \in DOMAIN C
       PROVE  Cardinality(Places(s, x)) = Cardinality(Places(t, x))
  <2> DEFINE f == [i \in Places(s, x) |-> Rank(keep, i)]
  <2>1. DOMAIN t = 1 .. c
    BY <1>3
  <2>2. \A i \in Places(s, x) : i \in keep /\ Rank(keep, i) \in Places(t, x)
    BY <1>1, <1>2, <1>6, <1>7, <1>9, <2>1 DEF Places
  <2>3. \A m \in Places(t, x) : m \in 1 .. c /\ Kth(keep, m) \in Places(s, x)
    BY <1>1, <1>2, <1>6, <1>8, <2>1 DEF Places
  <2>4. f \in [Places(s, x) -> Places(t, x)]
    BY <2>2
  <2>5. \A i, j \in Places(s, x) : f[i] = f[j] => i = j
    BY <1>2, <2>2
  <2>6. \A m \in Places(t, x) : \E i \in Places(s, x) : f[i] = m
    BY <1>2, <2>3
  <2> HIDE DEF f
  <2> QED BY <1>5, <2>4, <2>5, <2>6, SameCount
<1>12. \A x \in DOMAIN C : C[x] = Cardinality(Places(t, x))
  BY <1>5, <1>7, <1>11
<1>13. BagOf(t) = C
  BY <1>4, <1>7, <1>10, <1>12, SameBag
<1> QED BY <1>13 DEF t, B, C

(* Every element of s that is in Q becomes a y. *)
Replaced(s, Q, y) == [j \in 1 .. Len(s) |-> IF s[j] \in Q THEN y ELSE s[j]]

(* So it does in the bag. *)
LEMMA BagMerge ==
  ASSUME NEW S, NEW s \in Seq(S), NEW y \in S,
         NEW Q \in SUBSET (DOMAIN BagOf(s)), y \in DOMAIN BagOf(s) => y \in Q
  PROVE  BagOf(Replaced(s, Q, y)) = G!Merge(BagOf(s), Q, y)
<1> DEFINE n == Len(s)
           t == Replaced(s, Q, y)
           B == BagOf(s)
           C == G!Merge(B, Q, y)
<1>1. n \in Nat /\ DOMAIN s = 1 .. n /\ \A j \in 1 .. n : s[j] \in S
  BY LenProperties, ElementOfSeq
<1>2. t \in Seq(S) /\ Len(t) = n /\ DOMAIN t = 1 .. n
  BY <1>1 DEF Replaced
<1>3. \A j \in 1 .. n : t[j] = IF s[j] \in Q THEN y ELSE s[j]
  BY DEF Replaced
<1>4. /\ DOMAIN B = {s[j] : j \in 1 .. n}
      /\ B = [x \in DOMAIN B |-> B[x]]
      /\ \A x \in DOMAIN B : B[x] = Cardinality(Places(s, x))
      /\ \A x : Places(s, x) \in SUBSET (1 .. n)
      /\ \A x : Cardinality(Places(s, x)) \in Nat
  BY BagCounts DEF BagOf
<1>5. Q \in SUBSET (DOMAIN B) /\ (y \in DOMAIN B => y \in Q)
  OBVIOUS
<1> HIDE DEF n, t, B
<1>6. CASE Q = {}
  <2>1. /\ DOMAIN B = {t[j] : j \in 1 .. Len(t)}
        /\ \A x \in DOMAIN B : B[x] = Cardinality(Places(t, x))
    BY <1>1, <1>2, <1>3, <1>4, <1>6 DEF Places
  <2>2. BagOf(t) = B
    BY <1>2, <1>4, <2>1, SameBag
  <2> QED BY <1>6, <2>2 DEF G!Merge, B, t
<1>7. CASE Q # {}
  <2> DEFINE copies == G!Copies(B, Q)
  <2>1. /\ DOMAIN C = (DOMAIN B \ Q) \cup {y}
        /\ C = [x \in DOMAIN C |-> C[x]]
        /\ \A x \in DOMAIN C : C[x] = IF x = y THEN Cardinality(copies) ELSE B[x]
    <3>1. C = [x \in (DOMAIN B \ Q) \cup {y} |->
                 IF x = y THEN Cardinality(copies) ELSE B[x]]
      BY <1>7, GraphOperators DEF G!Merge
    <3> HIDE DEF C, copies
    <3> QED BY <3>1
  <2> HIDE DEF C
  <2>2. DOMAIN C = {t[j] : j \in 1 .. n}
    <3>1. ASSUME NEW x \in DOMAIN C
          PROVE  \E j \in 1 .. n : t[j] = x
      <4>1. CASE x = y
        <5>1. PICK q \in Q : TRUE
          BY <1>7
        <5>2. PICK j \in 1 .. n : s[j] = q
          BY <1>4, <1>5
        <5> QED BY <1>3, <4>1, <5>2
      <4>2. CASE x # y
        <5>1. x \in DOMAIN B /\ x \notin Q
          BY <2>1, <4>2
        <5>2. PICK j \in 1 .. n : s[j] = x
          BY <1>4, <5>1
        <5> QED BY <1>3, <5>1, <5>2
      <4> QED BY <4>1, <4>2
    <3>2. \A j \in 1 .. n : t[j] \in DOMAIN C
      BY <1>3, <1>4, <2>1
    <3> DEFINE D == DOMAIN C
    <3>3. (\A x \in D : \E j \in 1 .. n : t[j] = x) /\ \A j \in 1 .. n : t[j] \in D
      BY <3>1, <3>2
    <3> HIDE DEF D
    <3>4. D = {t[j] : j \in 1 .. n}
      BY <3>3
    <3> QED BY <3>4 DEF D
  <2>3. ASSUME NEW x \in DOMAIN C, x # y
        PROVE  C[x] = Cardinality(Places(t, x))
    <3>1. x \in DOMAIN B /\ x \notin Q
      BY <2>1, <2>3
    <3>2. Places(t, x) = Places(s, x)
      BY <1>1, <1>2, <1>3, <2>3, <3>1 DEF Places
    <3> QED BY <1>4, <2>1, <2>3, <3>1, <3>2
  <2>4. \A j : j \in Places(t, y) <=> j \in 1 .. n /\ s[j] \in Q
    BY <1>2, <1>3, <1>4, <1>5 DEF Places
  <2>5. \A x, m : <<x, m>> \in copies <=> x \in Q /\ m \in 1 .. B[x]
    BY DEF G!Copies
  <2>6. \A z \in copies : \E x, m : z = <<x, m>>
    BY DEF G!Copies
  <2>7. \A x \in Q : /\ \A j \in Places(s, x) : /\ Rank(Places(s, x), j) \in 1 .. B[x]
                                                /\ Kth(Places(s, x), Rank(Places(s, x), j)) = j
                     /\ \A m \in 1 .. B[x] : /\ Kth(Places(s, x), m) \in Places(s, x)
                                             /\ Rank(Places(s, x), Kth(Places(s, x), m)) = m
    <3> SUFFICES ASSUME NEW x \in Q
                 PROVE  /\ \A j \in Places(s, x) : /\ Rank(Places(s, x), j) \in 1 .. B[x]
                                                   /\ Kth(Places(s, x), Rank(Places(s, x), j)) = j
                        /\ \A m \in 1 .. B[x] : /\ Kth(Places(s, x), m) \in Places(s, x)
                                                /\ Rank(Places(s, x), Kth(Places(s, x), m)) = m
      OBVIOUS
    <3> DEFINE p == Places(s, x)
    <3>1. p \in SUBSET (1 .. n) /\ B[x] = Cardinality(p)
      BY <1>4, <1>5
    <3> HIDE DEF p
    <3>2. \A j \in p : Rank(p, j) \in 1 .. Cardinality(p)
      BY <1>1, <3>1, Ranks
    <3>3. \A j \in p : Kth(p, Rank(p, j)) = j
      BY <1>1, <3>1, KthRank
    <3>4. \A m \in 1 .. Cardinality(p) : Kth(p, m) \in p /\ Rank(p, Kth(p, m)) = m
      BY <1>1, <3>1, KthRank
    <3> QED BY <3>1, <3>2, <3>3, <3>4 DEF p
  <2>8. \A x : \A j : j \in Places(s, x) <=> j \in 1 .. n /\ s[j] = x
    BY <1>1 DEF Places
  <2> HIDE DEF copies
  <2> DEFINE f == [j \in Places(t, y) |-> <<s[j], Rank(Places(s, s[j]), j)>>]
  <2>9. f \in [Places(t, y) -> copies]
    BY <2>4, <2>5, <2>7, <2>8
  <2>10. ASSUME NEW i \in Places(t, y), NEW j \in Places(t, y), f[i] = f[j]
         PROVE  i = j
    <3>1. s[i] = s[j] /\ Rank(Places(s, s[i]), i) = Rank(Places(s, s[j]), j)
      BY <2>10
    <3>2. s[i] \in Q /\ i \in Places(s, s[i]) /\ j \in Places(s, s[i])
      BY <2>4, <2>8, <3>1
    <3> QED BY <2>7, <3>1, <3>2
  <2>11. ASSUME NEW z \in copies
         PROVE  \E j \in Places(t, y) : f[j] = z
    <3>1. PICK x, m : z = <<x, m>>
      BY <2>6
    <3>2. x \in Q /\ m \in 1 .. B[x]
      BY <2>5, <3>1
    <3> DEFINE j == Kth(Places(s, x), m)
    <3>3. j \in Places(s, x) /\ Rank(Places(s, x), j) = m
      BY <2>7, <3>2
    <3> HIDE DEF j
    <3>4. j \in Places(t, y) /\ s[j] = x
      BY <2>4, <2>8, <3>2, <3>3
    <3> QED BY <3>1, <3>3, <3>4
  <2>12. IsFiniteSet(Places(t, y))
    BY <1>2, BagCounts
  <2> HIDE DEF f
  <2>13. Cardinality(Places(t, y)) = Cardinality(copies)
    BY <2>9, <2>10, <2>11, <2>12, SameCount
  <2>14. \A x \in DOMAIN C : C[x] = Cardinality(Places(t, x))
    BY <2>1, <2>3, <2>13
  <2>15. BagOf(t) = C
    <3>1. DOMAIN C = {t[j] : j \in 1 .. Len(t)}
      BY <1>2, <2>2
    <3> QED BY <1>2, <2>1, <2>14, <3>1, SameBag
  <2> QED BY <2>15 DEF C, B, t
<1> QED BY <1>6, <1>7

-----------------------------------------------------------------------------
(* Files.                                                                  *)

(* Reading a record does not change what it holds. *)
LEMMA HeldRead ==
  ASSUME NEW f, GoodFile(f), NEW p \in LiveIds(f)
  PROVE  Held(page_to_node(f[p + 1])) = Held(f[p + 1])
<1> DEFINE page == f[p + 1]
<1>1. page.att \in Seq(Attribute) /\ page.edges \in Seq(Edge)
  <2>1. page \in Page
    BY FileType DEF LiveIds
  <2> HIDE DEF page
  <2>2. CASE page = EmptyPage
    BY <2>2, EmptySeq DEF EmptyPage
  <2>3. CASE page \in NodePage
    BY <2>3 DEF NodePage
  <2> QED BY <2>1, <2>2, <2>3 DEF Page
<1> HIDE DEF page
<1>2. BagOf(Reverse(page.att)) = BagOf(page.att) /\ BagOf(Reverse(page.edges)) = BagOf(page.edges)
  BY <1>1, BagReverse
<1> QED BY <1>2 DEF Held, page_to_node, page

(* The graph of f with n as the node p. *)
WithNode(f, p, n) ==
  [q \in LiveIds(f) \cup {p} |-> IF q = p THEN Held(n) ELSE Abs(f)[q]]

(* Writing a node to a page sets one node of the graph. *)
LEMMA AbsWrite ==
  ASSUME NEW f, GoodFile(f), NEW p \in Ids(f), NEW n
  PROVE  Abs(set_node_page(f, p, n)) = WithNode(f, p, n)
<1> DEFINE h == set_node_page(f, p, n)
           page == [type |-> start_node, id |-> p, name |-> n.name,
                    att |-> n.att, edges |-> n.edges]
<1>1. /\ LiveIds(h) = LiveIds(f) \cup {p}
      /\ h[p + 1] = page
      /\ \A q \in Ids(f) \ {p} : h[q + 1] = f[q + 1]
  BY SetLive
<1>2. Held(page) = Held(n)
  BY DEF Held
<1> HIDE DEF h, page
<1>3. LiveIds(f) \subseteq Ids(f)
  BY DEF LiveIds
<1>4. Abs(h) = [q \in LiveIds(f) \cup {p} |-> Held(h[q + 1])]
  BY <1>1 DEF Abs
<1>5. \A q \in LiveIds(f) : Abs(f)[q] = Held(f[q + 1])
  BY DEF Abs
<1>6. \A q \in LiveIds(f) \cup {p} : Held(h[q + 1]) = IF q = p THEN Held(n) ELSE Abs(f)[q]
  BY <1>1, <1>2, <1>3, <1>5
<1>7. Abs(h) = WithNode(f, p, n)
  BY <1>4, <1>6 DEF WithNode
<1> QED BY <1>7 DEF h

(* A file that a signed char can number: its nodes are found by their ids. *)
Small(f) == GoodFile(f) /\ Len(f) <= CharRange

(* A lookup in such a file. *)
LEMMA SmallLookup ==
  ASSUME NEW f, Small(f), NEW id
  PROVE  /\ Found(f, id) <=> id \in LiveIds(f)
         /\ Found(f, id) =>
              LET n == get_node_page(f, id)
              IN  /\ n.id = id /\ id \in Ids(f)
                  /\ Writable(n)
                  /\ n = [id |-> n.id, name |-> n.name, att |-> n.att, edges |-> n.edges]
                  /\ Abs(f)[id] = Held(n)
<1>1. GoodFile(f) /\ Len(f) <= CharRange /\ CharRange \in Nat
  BY CharRangeAssumption DEF Small
<1>2. ASSUME id \in LiveIds(f)
      PROVE  Found(f, id)
  <2>1. id < CharRange
    BY <1>1, <1>2, FileType DEF LiveIds, Ids
  <2> QED BY <1>1, <1>2, <2>1, LowLookup
<1>3. ASSUME Found(f, id)
      PROVE  LET n == get_node_page(f, id)
             IN  /\ id \in LiveIds(f)
                 /\ n.id = id
                 /\ Writable(n)
                 /\ n = [id |-> n.id, name |-> n.name, att |-> n.att, edges |-> n.edges]
                 /\ Abs(f)[id] = Held(n)
  <2> DEFINE n == get_node_page(f, id)
  <2>1. id \in LiveIds(f) /\ n = page_to_node(f[id + 1]) /\ n.id = id
    BY <1>1, <1>3, LookupPage
  <2>2. Writable(n) /\ n = [id |-> n.id, name |-> n.name, att |-> n.att, edges |-> n.edges]
    BY <1>1, <1>3, LookupType
  <2> HIDE DEF n
  <2>3. Abs(f)[id] = Held(f[id + 1])
    BY <2>1 DEF Abs
  <2>4. Held(n) = Held(f[id + 1])
    BY <1>1, <2>1, HeldRead
  <2> QED BY <2>1, <2>2, <2>3, <2>4 DEF n
<1>4. LiveIds(f) \subseteq Ids(f)
  BY DEF LiveIds
<1> QED BY <1>2, <1>3, <1>4

(* Writing n with a list replaced sets the bag of the node id in the graph,*)
(* and nothing else.                                                       *)
SetsLists(f, n, id) ==
  /\ \A att \in Seq(Attribute) :
       Abs(set_node_page(f, n.id, [n EXCEPT !.att = att])) =
         [Abs(f) EXCEPT ![id].att = BagOf(att)]
  /\ \A edges \in Seq(Edge) :
       Abs(set_node_page(f, n.id, [n EXCEPT !.edges = edges])) =
         [Abs(f) EXCEPT ![id].edges = BagOf(edges)]

(* So it does when n is the node that was looked up. *)
LEMMA AbsLists ==
  ASSUME NEW f, Small(f), NEW id, Found(f, id)
  PROVE  SetsLists(f, get_node_page(f, id), id)
<1> DEFINE n == get_node_page(f, id)
           A == Abs(f)
           a == BagOf(n.att)
           b == BagOf(n.edges)
<1>1. /\ n.id = id /\ id \in Ids(f) /\ id \in LiveIds(f)
      /\ n = [id |-> n.id, name |-> n.name, att |-> n.att, edges |-> n.edges]
      /\ A[id] = Held(n)
  BY SmallLookup
<1>2. GoodFile(f) /\ DOMAIN A = LiveIds(f) /\ LiveIds(f) \cup {id} = LiveIds(f)
  BY <1>1 DEF Small, Abs
<1>3. A[id] = [name |-> n.name, att |-> a, edges |-> b]
  BY <1>1 DEF Held
<1>4. \A m : Abs(set_node_page(f, id, m)) =
               [q \in LiveIds(f) |-> IF q = id THEN Held(m) ELSE A[q]]
  <2> SUFFICES ASSUME NEW m
               PROVE  Abs(set_node_page(f, id, m)) =
                        [q \in LiveIds(f) |-> IF q = id THEN Held(m) ELSE A[q]]
    OBVIOUS
  <2>1. Abs(set_node_page(f, id, m)) = WithNode(f, id, m)
    BY <1>1, <1>2, AbsWrite
  <2> QED BY <1>2, <2>1, Zenon DEF WithNode
<1> HIDE DEF n, A, a, b
<1>5. ASSUME NEW att
      PROVE  /\ Held([n EXCEPT !.att = att]) = [name |-> n.name, att |-> BagOf(att), edges |-> b]
             /\ [A[id] EXCEPT !.att = BagOf(att)] = [name |-> n.name, att |-> BagOf(att), edges |-> b]
  <2> DEFINE m == [n EXCEPT !.att = att]
  <2>1. m = [id |-> n.id, name |-> n.name, att |-> att, edges |-> n.edges]
    BY <1>1
  <2> HIDE DEF m
  <2>2. Held(m) = [name |-> n.name, att |-> BagOf(att), edges |-> b]
    BY <2>1 DEF Held, b
  <2>3. [A[id] EXCEPT !.att = BagOf(att)] = [name |-> n.name, att |-> BagOf(att), edges |-> b]
    BY <1>3
  <2> QED BY <2>2, <2>3 DEF m
<1>6. ASSUME NEW edges
      PROVE  /\ Held([n EXCEPT !.edges = edges]) = [name |-> n.name, att |-> a, edges |-> BagOf(edges)]
             /\ [A[id] EXCEPT !.edges = BagOf(edges)] = [name |-> n.name, att |-> a, edges |-> BagOf(edges)]
  <2> DEFINE m == [n EXCEPT !.edges = edges]
  <2>1. m = [id |-> n.id, name |-> n.name, att |-> n.att, edges |-> edges]
    BY <1>1
  <2> HIDE DEF m
  <2>2. Held(m) = [name |-> n.name, att |-> a, edges |-> BagOf(edges)]
    BY <2>1 DEF Held, a
  <2>3. [A[id] EXCEPT !.edges = BagOf(edges)] = [name |-> n.name, att |-> a, edges |-> BagOf(edges)]
    BY <1>3
  <2> QED BY <2>2, <2>3 DEF m
<1>7. A = [q \in LiveIds(f) |-> A[q]]
  BY DEF A, Abs
<1>8. \A v : [q \in LiveIds(f) |-> IF q = id THEN v ELSE A[q]] = [A EXCEPT ![id] = v]
  BY <1>2, <1>7
<1>9. ASSUME NEW att
      PROVE  Abs(set_node_page(f, n.id, [n EXCEPT !.att = att])) =
               [A EXCEPT ![id].att = BagOf(att)]
  <2> DEFINE v == Held([n EXCEPT !.att = att])
  <2>1. [A[id] EXCEPT !.att = BagOf(att)] = v
    BY <1>5
  <2>2. Abs(set_node_page(f, id, [n EXCEPT !.att = att])) = [A EXCEPT ![id] = v]
    BY <1>4, <1>8
  <2> HIDE DEF v
  <2> QED BY <1>1, <2>1, <2>2
<1>10. ASSUME NEW edges
       PROVE  Abs(set_node_page(f, n.id, [n EXCEPT !.edges = edges])) =
                [A EXCEPT ![id].edges = BagOf(edges)]
  <2> DEFINE v == Held([n EXCEPT !.edges = edges])
  <2>1. [A[id] EXCEPT !.edges = BagOf(edges)] = v
    BY <1>6
  <2>2. Abs(set_node_page(f, id, [n EXCEPT !.edges = edges])) = [A EXCEPT ![id] = v]
    BY <1>4, <1>8
  <2> HIDE DEF v
  <2> QED BY <1>1, <2>1, <2>2
<1>11. SetsLists(f, n, id)
  BY <1>9, <1>10 DEF SetsLists, A
<1> QED BY <1>11 DEF n

(* What each attribute function does to the bag of the node it looked up. *)
LEMMA AbsAttributes ==
  ASSUME NEW f, Small(f), NEW id, Found(f, id)
  PROVE  LET B == Abs(f)[id].att
         IN  /\ \A a \in Attribute :
                  /\ Abs(add_attribute_page(f, a, id)) =
                       [Abs(f) EXCEPT ![id].att = G!BagAdd(B, a)]
                  /\ Abs(update_attribute_page(f, a, id)) =
                       [Abs(f) EXCEPT ![id].att =
                          G!Merge(B, {x \in DOMAIN B : x.name = a.name}, a)]
             /\ \A name :
                  Abs(delete_attribute_page(f, name, id)) =
                    [Abs(f) EXCEPT ![id].att =
                       G!Only(B, {x \in DOMAIN B : x.name # name})]
<1> DEFINE n == get_node_page(f, id)
           s == n.att
           B == Abs(f)[id].att
           Sets(h, C) == Abs(h) = [Abs(f) EXCEPT ![id].att = C]
<1>1. s \in Seq(Attribute) /\ B = BagOf(s)
  <2>1. Writable(n) /\ Abs(f)[id] = Held(n)
    BY SmallLookup
  <2> HIDE DEF n
  <2> QED BY <2>1 DEF Writable, Held
<1>2. \A att \in Seq(Attribute) :
        Sets(set_node_page(f, n.id, [n EXCEPT !.att = att]), BagOf(att))
  <2>1. SetsLists(f, n, id)
    BY AbsLists
  <2> HIDE DEF n
  <2> QED BY <2>1 DEF SetsLists
<1>3. DOMAIN B = {s[j] : j \in 1 .. Len(s)} /\ DOMAIN B \subseteq Attribute
  BY <1>1, BagCounts
<1>4. Len(s) \in Nat /\ \A j \in 1 .. Len(s) : s[j] \in Attribute /\ s[j] \in DOMAIN B
  BY <1>1, <1>3, LenProperties, ElementOfSeq
<1> HIDE DEF Sets
<1>5. ASSUME NEW a \in Attribute
      PROVE  Sets(add_attribute_page(f, a, id), G!BagAdd(B, a))
  <2>1. add_attribute_page(f, a, id) =
          set_node_page(f, n.id, [n EXCEPT !.att = Append(s, a)])
    BY DEF add_attribute_page
  <2> HIDE DEF n, s, B
  <2>2. Append(s, a) \in Seq(Attribute)
    BY <1>1
  <2>3. BagOf(Append(s, a)) = G!BagAdd(B, a)
    BY <1>1, BagAppend
  <2>4. Sets(set_node_page(f, n.id, [n EXCEPT !.att = Append(s, a)]), BagOf(Append(s, a)))
    BY <1>2, <2>2
  <2> QED BY <2>1, <2>3, <2>4
<1>6. ASSUME NEW a \in Attribute
      PROVE  Sets(update_attribute_page(f, a, id),
                  G!Merge(B, {x \in DOMAIN B : x.name = a.name}, a))
  <2> DEFINE t == [j \in 1 .. Len(s) |-> IF s[j].name = a.name THEN a ELSE s[j]]
             Q == {x \in DOMAIN B : x.name = a.name}
  <2>1. update_attribute_page(f, a, id) = set_node_page(f, n.id, [n EXCEPT !.att = t])
    BY DEF update_attribute_page
  <2> HIDE DEF n, s, B
  <2>2. t \in Seq(Attribute)
    BY <1>4
  <2>3. t = Replaced(s, Q, a)
    BY <1>4 DEF Replaced
  <2>4. Q \in SUBSET (DOMAIN BagOf(s)) /\ (a \in DOMAIN BagOf(s) => a \in Q)
    BY <1>1
  <2> HIDE DEF t, Q
  <2>5. BagOf(t) = G!Merge(B, Q, a)
    BY <1>1, <2>3, <2>4, BagMerge
  <2>6. Sets(set_node_page(f, n.id, [n EXCEPT !.att = t]), BagOf(t))
    BY <1>2, <2>2
  <2> QED BY <2>1, <2>5, <2>6 DEF Q
<1>7. ASSUME NEW name
      PROVE  Sets(delete_attribute_page(f, name, id),
                  G!Only(B, {x \in DOMAIN B : x.name # name}))
  <2> DEFINE keep == {j \in 1 .. Len(s) : s[j].name # name}
             Q == {x \in DOMAIN B : x.name # name}
             t == Pick(s, keep)
  <2>1. delete_attribute_page(f, name, id) = set_node_page(f, n.id, [n EXCEPT !.att = t])
    BY DEF delete_attribute_page
  <2> HIDE DEF n, s, B
  <2>2. keep = {j \in 1 .. Len(s) : s[j] \in Q} /\ keep \in SUBSET (1 .. Len(s))
    BY <1>4
  <2> HIDE DEF keep, Q
  <2>3. t \in Seq(Attribute)
    BY <1>1, <2>2, PickType
  <2>4. BagOf(t) = [x \in DOMAIN B \cap Q |-> B[x]]
    <3>1. BagOf(t) = [x \in DOMAIN BagOf(s) \cap Q |-> BagOf(s)[x]]
      BY <1>1, <2>2, BagPick
    <3> QED BY <1>1, <3>1, Zenon
  <2> HIDE DEF t
  <2>5. Sets(set_node_page(f, n.id, [n EXCEPT !.att = t]), BagOf(t))
    BY <1>2, <2>3
  <2>6. BagOf(t) = G!Only(B, Q)
    BY <2>4 DEF G!Only
  <2> QED BY <2>1, <2>5, <2>6 DEF Q
<1> QED BY <1>5, <1>6, <1>7 DEF Sets

(* What each edge function does to the bag of the node it looked up. *)
LEMMA AbsEdges ==
  ASSUME NEW f, Small(f), NEW id, Found(f, id)
  PROVE  LET B == Abs(f)[id].edges
         IN  /\ \A e \in Edge :
                  /\ Abs(add_edge_page(f, e, id)) =
                       [Abs(f) EXCEPT ![id].edges = G!BagAdd(B, e)]
                  /\ Abs(update_edge_page(f, e, id)) =
                       [Abs(f) EXCEPT ![id].edges =
                          G!Merge(B, {x \in DOMAIN B : x.id = e.id}, e)]
             /\ \A target :
                  Abs(delete_edge_page(f, target, id)) =
                    [Abs(f) EXCEPT ![id].edges =
                       G!Only(B, {x \in DOMAIN B : x.id # target})]
<1> DEFINE n == get_node_page(f, id)
           s == n.edges
           B == Abs(f)[id].edges
           Sets(h, C) == Abs(h) = [Abs(f) EXCEPT ![id].edges = C]
<1>1. s \in Seq(Edge) /\ B = BagOf(s)
  <2>1. Writable(n) /\ Abs(f)[id] = Held(n)
    BY SmallLookup
  <2> HIDE DEF n
  <2> QED BY <2>1 DEF Writable, Held
<1>2. \A edges \in Seq(Edge) :
        Sets(set_node_page(f, n.id, [n EXCEPT !.edges = edges]), BagOf(edges))
  <2>1. SetsLists(f, n, id)
    BY AbsLists
  <2> HIDE DEF n
  <2> QED BY <2>1 DEF SetsLists
<1>3. DOMAIN B = {s[j] : j \in 1 .. Len(s)} /\ DOMAIN B \subseteq Edge
  BY <1>1, BagCounts
<1>4. Len(s) \in Nat /\ \A j \in 1 .. Len(s) : s[j] \in Edge /\ s[j] \in DOMAIN B
  BY <1>1, <1>3, LenProperties, ElementOfSeq
<1> HIDE DEF Sets
<1>5. ASSUME NEW e \in Edge
      PROVE  Sets(add_edge_page(f, e, id), G!BagAdd(B, e))
  <2>1. add_edge_page(f, e, id) =
          set_node_page(f, n.id, [n EXCEPT !.edges = Append(s, e)])
    BY DEF add_edge_page
  <2> HIDE DEF n, s, B
  <2>2. Append(s, e) \in Seq(Edge)
    BY <1>1
  <2>3. BagOf(Append(s, e)) = G!BagAdd(B, e)
    BY <1>1, BagAppend
  <2>4. Sets(set_node_page(f, n.id, [n EXCEPT !.edges = Append(s, e)]), BagOf(Append(s, e)))
    BY <1>2, <2>2
  <2> QED BY <2>1, <2>3, <2>4
<1>6. ASSUME NEW e \in Edge
      PROVE  Sets(update_edge_page(f, e, id),
                  G!Merge(B, {x \in DOMAIN B : x.id = e.id}, e))
  <2> DEFINE t == [j \in 1 .. Len(s) |-> IF s[j].id = e.id THEN [s[j] EXCEPT !.name = e.name]
                                                           ELSE s[j]]
             Q == {x \in DOMAIN B : x.id = e.id}
  <2>1. update_edge_page(f, e, id) = set_node_page(f, n.id, [n EXCEPT !.edges = t])
    BY DEF update_edge_page
  <2> HIDE DEF n, s, B
  <2>2. \A x \in Edge : x.id = e.id => [x EXCEPT !.name = e.name] = e
    BY DEF Edge
  <2>3. \A j \in 1 .. Len(s) :
          s[j].id = e.id => [s[j] EXCEPT !.name = e.name] = e
    BY <1>4, <2>2
  <2>4. t = [j \in 1 .. Len(s) |-> IF s[j].id = e.id THEN e ELSE s[j]]
    BY <2>3
  <2>5. \A j \in 1 .. Len(s) : s[j] \in Q <=> s[j].id = e.id
    BY <1>4
  <2>6. Q \in SUBSET (DOMAIN BagOf(s)) /\ (e \in DOMAIN BagOf(s) => e \in Q)
    BY <1>1
  <2> HIDE DEF t, Q
  <2>7. t \in Seq(Edge)
    BY <1>4, <2>4
  <2>8. t = Replaced(s, Q, e)
    BY <2>4, <2>5 DEF Replaced
  <2>9. BagOf(t) = G!Merge(B, Q, e)
    BY <1>1, <2>6, <2>8, BagMerge
  <2>10. Sets(set_node_page(f, n.id, [n EXCEPT !.edges = t]), BagOf(t))
    BY <1>2, <2>7
  <2> QED BY <2>1, <2>9, <2>10 DEF Q
<1>7. ASSUME NEW target
      PROVE  Sets(delete_edge_page(f, target, id),
                  G!Only(B, {x \in DOMAIN B : x.id # target}))
  <2> DEFINE keep == {j \in 1 .. Len(s) : s[j].id # target}
             Q == {x \in DOMAIN B : x.id # target}
             t == Pick(s, keep)
  <2>1. delete_edge_page(f, target, id) = set_node_page(f, n.id, [n EXCEPT !.edges = t])
    BY DEF delete_edge_page
  <2> HIDE DEF n, s, B
  <2>2. keep = {j \in 1 .. Len(s) : s[j] \in Q} /\ keep \in SUBSET (1 .. Len(s))
    BY <1>4
  <2> HIDE DEF keep, Q
  <2>3. t \in Seq(Edge)
    BY <1>1, <2>2, PickType
  <2>4. BagOf(t) = [x \in DOMAIN B \cap Q |-> B[x]]
    <3>1. BagOf(t) = [x \in DOMAIN BagOf(s) \cap Q |-> BagOf(s)[x]]
      BY <1>1, <2>2, BagPick
    <3> QED BY <1>1, <3>1, Zenon
  <2> HIDE DEF t
  <2>5. Sets(set_node_page(f, n.id, [n EXCEPT !.edges = t]), BagOf(t))
    BY <1>2, <2>3
  <2>6. BagOf(t) = G!Only(B, Q)
    BY <2>4 DEF G!Only
  <2> QED BY <2>1, <2>5, <2>6 DEF Q
<1> QED BY <1>5, <1>6, <1>7 DEF Sets

-----------------------------------------------------------------------------
(* Steps.                                                                  *)

(* As long as ids are fewer than CharRange, the file is one of the above.  *)
LEMMA SmallFile ==
  ASSUME Inv, PageBound <= CharRange
  PROVE  Small(file)
<1>1. Len(file) \in Nat /\ PageBound \in Nat /\ CharRange \in Nat
  BY BoundsAssumption, CharRangeAssumption, FileType DEF Inv
<1> QED BY <1>1 DEF Inv, Small

(* An id that no node has: EXCEPT leaves the graph alone. *)
LEMMA AbsentId ==
  ASSUME NEW f, NEW id, id \notin LiveIds(f), NEW v
  PROVE  [Abs(f) EXCEPT ![id] = v] = Abs(f)
<1>1. DOMAIN Abs(f) = LiveIds(f) /\ Abs(f) = [q \in LiveIds(f) |-> Abs(f)[q]]
  BY DEF Abs
<1> DEFINE A == Abs(f)
<1> HIDE DEF A
<1>2. [A EXCEPT ![id] = v] = [q \in DOMAIN A |-> A[q]]
  BY <1>1 DEF A
<1> QED BY <1>1, <1>2 DEF A

(* An operation on a node sets the graph to C, in the buffer only. *)
LEMMA OnNodeBecomes ==
  ASSUME NEW id, NEW h, NEW C, OnNode(id, h),
         Found(file, id) => Abs(h) = C,
         ~ Found(file, id) => C = Abs(file)
  PROVE  G!Becomes(C)
<1>1. CASE Found(file, id)
  <2>1. up /\ file' = h /\ disk' = file /\ up' = up
    BY <1>1 DEF OnNode, Writes
  <2> QED BY <1>1, <2>1 DEF G!Becomes
<1>2. CASE ~ Found(file, id)
  <2>1. up /\ file' = file /\ disk' = file /\ up' = up
    BY <1>2 DEF OnNode, Flush
  <2> QED BY <1>2, <2>1 DEF G!Becomes
<1> QED BY <1>1, <1>2

(* A process that ends leaves the graph of one of the two copies. *)
LEMMA StopSteps ==
  /\ Segfault => G!Stop
  /\ Kill => G!Stop
  /\ Exit => G!Stop
BY DEF Segfault, Kill, Exit, G!Stop

(* Rewriting and deleting a node. *)
LEMMA NodeSteps ==
  ASSUME Small(file), NEW id
  PROVE  /\ \A n \in NodeInputs : UpdateNode(id, n) => G!update_node(id, n)
         /\ DeleteNode(id) => G!delete_node(id)
<1> DEFINE A == Abs(file)
<1>1. GoodFile(file) /\ DOMAIN A = LiveIds(file) /\ A = [q \in LiveIds(file) |-> A[q]]
  BY DEF Small, Abs
<1>2. ASSUME Found(file, id)
      PROVE  id \in Ids(file) /\ id \in LiveIds(file) /\ get_node_page(file, id).id = id
  BY <1>2, SmallLookup
<1>3. ~ Found(file, id) => id \notin LiveIds(file)
  BY SmallLookup
<1>4. ASSUME NEW n \in NodeInputs, UpdateNode(id, n)
      PROVE  G!update_node(id, n)
  <2> DEFINE h == update_node_page(file, n, id)
             C == [A EXCEPT ![id] = Held(n)]
  <2>1. OnNode(id, h)
    BY <1>4 DEF UpdateNode
  <2>2. ASSUME Found(file, id)
        PROVE  Abs(h) = C
    <3>1. h = set_node_page(file, id, n)
      BY <1>2, <2>2 DEF update_node_page
    <3>2. Abs(h) = WithNode(file, id, n)
      BY <1>1, <1>2, <2>2, <3>1, AbsWrite
    <3>3. LiveIds(file) \cup {id} = LiveIds(file)
      BY <1>2, <2>2
    <3> HIDE DEF h
    <3> QED BY <1>1, <3>2, <3>3 DEF WithNode
  <2>3. ~ Found(file, id) => C = Abs(file)
    BY <1>3, AbsentId
  <2> HIDE DEF h, C
  <2>4. G!Becomes(C)
    BY <2>1, <2>2, <2>3, OnNodeBecomes
  <2>5. G!Node(n) = Held(n)
    BY GraphOperators DEF G!Node, Held
  <2> QED BY <2>4, <2>5 DEF G!update_node, C
<1>5. ASSUME DeleteNode(id)
      PROVE  G!delete_node(id)
  <2> DEFINE h == delete_node_page(file, id)
             C == [q \in DOMAIN A \ {id} |-> A[q]]
  <2>1. OnNode(id, h)
    BY <1>5 DEF DeleteNode
  <2>2. ASSUME Found(file, id)
        PROVE  Abs(h) = C
    <3>1. h = [file EXCEPT ![id + 1] = EmptyPage]
      BY <1>2, <2>2 DEF delete_node_page
    <3>2. LiveIds(h) = LiveIds(file) \ {id}
      BY <1>1, <1>2, <2>2, DeleteLive
    <3>3. \A q \in LiveIds(file) \ {id} : h[q + 1] = file[q + 1]
      BY <1>1, <1>2, <2>2, <3>1, FileType DEF LiveIds
    <3>4. \A q \in LiveIds(file) : A[q] = Held(file[q + 1])
      BY DEF Abs
    <3>5. Abs(h) = [q \in LiveIds(file) \ {id} |-> Held(h[q + 1])]
      BY <3>2 DEF Abs
    <3> HIDE DEF h, A
    <3> QED BY <1>1, <3>3, <3>4, <3>5
  <2>3. ASSUME ~ Found(file, id)
        PROVE  C = Abs(file)
    <3>1. DOMAIN A \ {id} = LiveIds(file)
      BY <1>1, <1>3, <2>3
    <3> QED BY <1>1, <3>1
  <2> HIDE DEF h, C
  <2>4. G!Becomes(C)
    BY <2>1, <2>2, <2>3, OnNodeBecomes
  <2> QED BY <2>4 DEF G!delete_node, C
<1> QED BY <1>4, <1>5

(* The six list operations. *)
LEMMA AttributeSteps ==
  ASSUME Small(file), NEW id
  PROVE  /\ \A a \in Attribute : /\ AddAttribute(id, a) => G!add_attribute(id, a)
                                 /\ UpdateAttribute(id, a) => G!update_attribute(id, a)
         /\ \A name : DeleteAttribute(id, name) => G!delete_attribute(id, name) \/ G!Stop
<1> DEFINE B == Abs(file)[id].att
           C(D) == [Abs(file) EXCEPT ![id].att = D]
<1>1. ~ Found(file, id) => \A D : C(D) = Abs(file)
  BY SmallLookup, AbsentId
<1>2. ASSUME Found(file, id)
      PROVE  /\ \A a \in Attribute :
                  /\ Abs(add_attribute_page(file, a, id)) = C(G!BagAdd(B, a))
                  /\ Abs(update_attribute_page(file, a, id)) =
                       C(G!Merge(B, {x \in DOMAIN B : x.name = a.name}, a))
             /\ \A name : Abs(delete_attribute_page(file, name, id)) =
                            C(G!Only(B, {x \in DOMAIN B : x.name # name}))
  BY <1>2, AbsAttributes, ZenonT(30)
<1>3. \A D : G!Becomes(C(D)) => G!ChangeAtt(id, D)
  BY DEF G!ChangeAtt
<1>4. G!Att(id) = B
  BY DEF G!Att
<1> HIDE DEF B, C
<1>5. ASSUME NEW a \in Attribute, AddAttribute(id, a)
      PROVE  G!add_attribute(id, a)
  <2>1. OnNode(id, add_attribute_page(file, a, id))
    BY <1>5 DEF AddAttribute
  <2>2. G!Becomes(C(G!BagAdd(B, a)))
    BY <1>1, <1>2, <2>1, OnNodeBecomes
  <2> QED BY <1>3, <1>4, <2>2 DEF G!add_attribute
<1>6. ASSUME NEW a \in Attribute, UpdateAttribute(id, a)
      PROVE  G!update_attribute(id, a)
  <2> DEFINE D == G!Merge(B, {x \in DOMAIN B : x.name = a.name}, a)
  <2>1. OnNode(id, update_attribute_page(file, a, id))
    BY <1>6 DEF UpdateAttribute
  <2>2. Found(file, id) => Abs(update_attribute_page(file, a, id)) = C(D)
    BY <1>2
  <2>3. D = G!Merge(G!Att(id), {x \in DOMAIN G!Att(id) : x.name = a.name}, a)
    BY <1>4
  <2> HIDE DEF D
  <2>4. G!Becomes(C(D))
    BY <1>1, <2>1, <2>2, OnNodeBecomes
  <2> QED BY <1>3, <2>3, <2>4 DEF G!update_attribute
<1>7. ASSUME NEW name, DeleteAttribute(id, name)
      PROVE  G!delete_attribute(id, name) \/ G!Stop
  <2> DEFINE D == G!Only(B, {x \in DOMAIN B : x.name # name})
  <2>1. Segfault \/ OnNode(id, delete_attribute_page(file, name, id))
    BY <1>7 DEF DeleteAttribute
  <2>2. Found(file, id) => Abs(delete_attribute_page(file, name, id)) = C(D)
    BY <1>2
  <2>3. D = G!Only(G!Att(id), {x \in DOMAIN G!Att(id) : x.name # name})
    BY <1>4
  <2> HIDE DEF D
  <2>4. CASE OnNode(id, delete_attribute_page(file, name, id))
    <3>1. G!Becomes(C(D))
      BY <1>1, <2>2, <2>4, OnNodeBecomes
    <3> QED BY <1>3, <2>3, <3>1 DEF G!delete_attribute
  <2> QED BY <2>1, <2>4, StopSteps
<1> QED BY <1>5, <1>6, <1>7

(* The same for edges. *)
LEMMA EdgeSteps ==
  ASSUME Small(file), NEW id
  PROVE  /\ \A e \in Edge : /\ AddEdge(id, e) => G!add_edge(id, e)
                            /\ UpdateEdge(id, e) => G!update_edge(id, e)
         /\ \A target : DeleteEdge(id, target) => G!delete_edge(id, target) \/ G!Stop
<1> DEFINE B == Abs(file)[id].edges
           C(D) == [Abs(file) EXCEPT ![id].edges = D]
<1>1. ~ Found(file, id) => \A D : C(D) = Abs(file)
  BY SmallLookup, AbsentId
<1>2. ASSUME Found(file, id)
      PROVE  /\ \A e \in Edge :
                  /\ Abs(add_edge_page(file, e, id)) = C(G!BagAdd(B, e))
                  /\ Abs(update_edge_page(file, e, id)) =
                       C(G!Merge(B, {x \in DOMAIN B : x.id = e.id}, e))
             /\ \A target : Abs(delete_edge_page(file, target, id)) =
                              C(G!Only(B, {x \in DOMAIN B : x.id # target}))
  BY <1>2, AbsEdges, ZenonT(30)
<1>3. \A D : G!Becomes(C(D)) => G!ChangeEdges(id, D)
  BY DEF G!ChangeEdges
<1>4. G!Edges(id) = B
  BY DEF G!Edges
<1> HIDE DEF B, C
<1>5. ASSUME NEW e \in Edge, AddEdge(id, e)
      PROVE  G!add_edge(id, e)
  <2>1. OnNode(id, add_edge_page(file, e, id))
    BY <1>5 DEF AddEdge
  <2>2. G!Becomes(C(G!BagAdd(B, e)))
    BY <1>1, <1>2, <2>1, OnNodeBecomes
  <2> QED BY <1>3, <1>4, <2>2 DEF G!add_edge
<1>6. ASSUME NEW e \in Edge, UpdateEdge(id, e)
      PROVE  G!update_edge(id, e)
  <2> DEFINE D == G!Merge(B, {x \in DOMAIN B : x.id = e.id}, e)
  <2>1. OnNode(id, update_edge_page(file, e, id))
    BY <1>6 DEF UpdateEdge
  <2>2. Found(file, id) => Abs(update_edge_page(file, e, id)) = C(D)
    BY <1>2
  <2>3. D = G!Merge(G!Edges(id), {x \in DOMAIN G!Edges(id) : x.id = e.id}, e)
    BY <1>4
  <2> HIDE DEF D
  <2>4. G!Becomes(C(D))
    BY <1>1, <2>1, <2>2, OnNodeBecomes
  <2> QED BY <1>3, <2>3, <2>4 DEF G!update_edge
<1>7. ASSUME NEW target, DeleteEdge(id, target)
      PROVE  G!delete_edge(id, target) \/ G!Stop
  <2> DEFINE D == G!Only(B, {x \in DOMAIN B : x.id # target})
  <2>1. Segfault \/ OnNode(id, delete_edge_page(file, target, id))
    BY <1>7 DEF DeleteEdge
  <2>2. Found(file, id) => Abs(delete_edge_page(file, target, id)) = C(D)
    BY <1>2
  <2>3. D = G!Only(G!Edges(id), {x \in DOMAIN G!Edges(id) : x.id # target})
    BY <1>4
  <2> HIDE DEF D
  <2>4. CASE OnNode(id, delete_edge_page(file, target, id))
    <3>1. G!Becomes(C(D))
      BY <1>1, <2>2, <2>4, OnNodeBecomes
    <3> QED BY <1>3, <2>3, <3>1 DEF G!delete_edge
  <2> QED BY <2>1, <2>4, StopSteps
<1> QED BY <1>5, <1>6, <1>7

(* The least number that is not in a set, when all below it are. *)
LEMMA LeastFree ==
  ASSUME NEW L \in SUBSET Nat, IsFiniteSet(L), NEW p \in Nat, p \notin L, 0 .. p - 1 \subseteq L
  PROVE  Min((0 .. Cardinality(L)) \ L) = p
<1> DEFINE c == Cardinality(L)
           F == (0 .. c) \ L
<1>1. c \in Nat
  BY FS_CardinalityType
<1>2. Cardinality(0 .. p - 1) = p
  BY FS_Interval
<1>3. p <= c
  BY <1>2, FS_Subset
<1> HIDE DEF c
<1>4. p \in F /\ F \in SUBSET Nat /\ F # {}
  BY <1>1, <1>3
<1>5. \A x \in F : p <= x
  <2> SUFFICES ASSUME NEW x \in F, x < p
               PROVE  FALSE
    OBVIOUS
  <2>1. x \in 0 .. p - 1
    BY <1>4
  <2> QED BY <2>1
<1> HIDE DEF F
<1> DEFINE m == Min(F)
<1>6. m \in F /\ \A x \in F : m <= x
  BY <1>4, MinProperty
<1> HIDE DEF m
<1>7. m \in Nat /\ m <= p /\ p <= m
  BY <1>4, <1>5, <1>6
<1>8. m = p
  BY <1>7
<1> QED BY <1>8 DEF F, c, m

(* Appending a page of zeros does not change the graph. *)
LEMMA AbsAppend ==
  ASSUME NEW f, GoodFile(f)
  PROVE  Abs(Append(f, EmptyPage)) = Abs(f)
<1> DEFINE z == Append(f, EmptyPage)
<1>1. LiveIds(z) = LiveIds(f)
  BY AppendLive
<1>2. \A q \in LiveIds(f) : q \in Nat /\ q + 1 \in 1 .. Len(f)
  BY FileType DEF LiveIds
<1>3. \A j \in 1 .. Len(f) : z[j] = f[j]
  <2>1. f \in Seq(Page) /\ Len(f) \in Nat
    BY FileType DEF GoodFile
  <2> QED BY <2>1
<1> HIDE DEF z
<1>4. \A q \in LiveIds(f) : Held(z[q + 1]) = Held(f[q + 1])
  BY <1>2, <1>3
<1> QED BY <1>1, <1>4 DEF Abs, z

(* add_node takes the page of the least free id, a new one if there is none. *)
LEMMA AddNodeSteps ==
  ASSUME GoodFile(file), NEW n \in NodeInputs, AddNode(n)
  PROVE  G!add_node(n)
<1> DEFINE L == LiveIds(file)
           p == IF EmptyIds(file) # {} THEN Min(EmptyIds(file)) ELSE Len(file)
<1>1. Len(file) \in Nat /\ file \in Seq(Page) /\ Ids(file) \in SUBSET Nat /\ IsFiniteSet(Ids(file))
  <2>1. file \in Seq(Page) /\ Len(file) \in Nat
    BY FileType DEF GoodFile
  <2>2. Ids(file) \in SUBSET Nat
    BY FileType
  <2>3. IsFiniteSet(0 .. Len(file) - 1)
    BY <2>1, FS_Interval
  <2> QED BY <2>1, <2>2, <2>3 DEF Ids
<1>2. L \in SUBSET Nat /\ IsFiniteSet(L)
  <2>1. L \subseteq Ids(file)
    BY DEF LiveIds
  <2> QED BY <1>1, <2>1, FS_Subset
<1>3. \A q \in Ids(file) : q \in L \/ q \in EmptyIds(file)
  <2>1. \A q \in Ids(file) : file[q + 1] \in Page
    BY FileType
  <2>2. \A page \in Page : page.type \in {start_node, empty_page}
    BY DEF Page, NodePage, EmptyPage
  <2> QED BY <2>1, <2>2 DEF LiveIds, EmptyIds
<1>4. /\ up /\ up' = up
      /\ Abs(file') = WithNode(file, p, n)
      /\ Abs(disk') = Abs(file)
      /\ p \in Nat /\ p \notin L /\ 0 .. p - 1 \subseteq L
  <2>1. CASE EmptyIds(file) # {}
    <3>1. EmptyIds(file) \in SUBSET Nat
      BY <1>1 DEF EmptyIds
    <3>2. p \in EmptyIds(file) /\ \A q \in EmptyIds(file) : p <= q
      BY <2>1, <3>1, MinProperty
    <3>3. /\ up /\ up' = up
          /\ file' = set_node_page(file, p, n)
          /\ disk' = file
      BY <2>1 DEF AddNode, create_node_page
    <3> HIDE DEF p
    <3>4. p \in Ids(file) /\ p \notin L
      BY <3>2 DEF EmptyIds, LiveIds, empty_page, start_node
    <3>5. Abs(file') = WithNode(file, p, n)
      BY <3>3, <3>4, AbsWrite
    <3>6. 0 .. p - 1 \subseteq L
      <4> SUFFICES ASSUME NEW q \in 0 .. p - 1
                   PROVE  q \in L
        OBVIOUS
      <4>1. q \in Ids(file) /\ ~ (p <= q)
        BY <1>1, <3>4 DEF Ids
      <4> QED BY <1>3, <3>2, <4>1
    <3>7. p \in Nat
      BY <1>1, <3>4
    <3> QED BY <3>3, <3>4, <3>5, <3>6, <3>7
  <2>2. CASE EmptyIds(file) = {}
    <3> DEFINE z == Append(file, EmptyPage)
    <3>1. /\ up /\ up' = up
          /\ file' = set_node_page(z, p, n)
          /\ disk' = z
          /\ p = Len(file)
      BY <2>2 DEF AddNode, create_node_page
    <3>2. GoodFile(z)
      BY InputTypes, AppendPage
    <3>3. Len(z) = Len(file) + 1
      BY <1>1
    <3>4. LiveIds(z) = L /\ Abs(z) = Abs(file)
      BY AppendLive, AbsAppend
    <3> HIDE DEF z, p
    <3>5. p \in Ids(z) /\ p \notin Ids(file) /\ p \in Nat /\ 0 .. p - 1 = Ids(file)
      BY <1>1, <3>1, <3>3 DEF Ids
    <3>6. p \notin L /\ 0 .. p - 1 \subseteq L
      BY <1>3, <2>2, <3>5 DEF LiveIds
    <3>7. Abs(file') = WithNode(z, p, n)
      BY <3>1, <3>2, <3>5, AbsWrite
    <3>8. WithNode(z, p, n) = WithNode(file, p, n)
      BY <3>4 DEF WithNode
    <3> QED BY <3>1, <3>4, <3>5, <3>6, <3>7, <3>8
  <2> QED BY <2>1, <2>2
<1>5. Min((0 .. Cardinality(L)) \ L) = p
  <2> HIDE DEF p, L
  <2> QED BY <1>2, <1>4, LeastFree
<1>6. DOMAIN Abs(file) = L
  BY DEF Abs
<1>7. G!Min((0 .. G!Cardinality(DOMAIN Abs(file))) \ DOMAIN Abs(file)) = p
  <2> HIDE DEF p, L
  <2> QED BY <1>5, <1>6, GraphOperators
<1>8. G!Node(n) = Held(n)
  BY GraphOperators DEF G!Node, Held
<1> HIDE DEF p
<1>9. WithNode(file, p, n) =
        [q \in DOMAIN Abs(file) \cup {p} |-> IF q = p THEN G!Node(n) ELSE Abs(file)[q]]
  BY <1>6, <1>8 DEF WithNode
<1> QED BY <1>4, <1>7, <1>9 DEF G!add_node, G!Becomes

-----------------------------------------------------------------------------
(* Theorems.                                                               *)

(* The empty file holds the empty graph. *)
LEMMA InitGraph == Init => G!Init
<1> SUFFICES ASSUME Init
             PROVE  G!Init
  OBVIOUS
<1>1. LiveIds(<< >>) = {}
  BY DEF LiveIds, Ids
<1>2. Abs(<< >>) = << >>
  BY <1>1 DEF Abs
<1> QED BY <1>2 DEF Init, G!Init

(* Every step of the database is one of the graph. *)
LEMMA NextGraph ==
  ASSUME PageBound <= CharRange, Inv, Next
  PROVE  G!Next
<1>1. Small(file) /\ GoodFile(file)
  BY SmallFile DEF Inv
<1>2. EdgeInputs \subseteq Edge
  BY InputTypes
<1>3. ASSUME NEW n \in NodeInputs, AddNode(n)
      PROVE  G!Next
  BY <1>1, <1>3, AddNodeSteps DEF G!Next
<1>4. ASSUME NEW id \in NodeIds, NEW n \in NodeInputs, UpdateNode(id, n)
      PROVE  G!Next
  BY <1>1, <1>4, NodeSteps DEF G!Next
<1>5. ASSUME NEW id \in NodeIds \cup FoundIds, DeleteNode(id)
      PROVE  G!Next
  <2>1. Len(file) \in Nat /\ PageBound \in Nat /\ Len(file) <= PageBound
    BY FileType, BoundsAssumption DEF Inv, GoodFile
  <2>2. \A p \in Ids(file) : p \in Nat /\ p < CharRange /\ p \in NodeIds
    BY <1>1, <2>1, CharRangeAssumption DEF Small, Ids, NodeIds
  <2>3. FoundIds \subseteq NodeIds
    BY <2>2, SmallByte DEF FoundIds
  <2> QED BY <1>1, <1>5, <2>3, NodeSteps DEF G!Next
<1>6. ASSUME NEW id \in NodeIds, NEW a \in Attribute, AddAttribute(id, a) \/ UpdateAttribute(id, a)
      PROVE  G!Next
  BY <1>1, <1>6, AttributeSteps DEF G!Next
<1>7. ASSUME NEW id \in NodeIds, NEW name \in AttNames, DeleteAttribute(id, name)
      PROVE  G!Next
  BY <1>1, <1>7, AttributeSteps DEF G!Next
<1>8. ASSUME NEW id \in NodeIds, NEW e \in EdgeInputs, AddEdge(id, e) \/ UpdateEdge(id, e)
      PROVE  G!Next
  BY <1>1, <1>2, <1>8, EdgeSteps DEF G!Next
<1>9. ASSUME NEW id \in NodeIds, NEW target \in NodeIds, DeleteEdge(id, target)
      PROVE  G!Next
  BY <1>1, <1>9, EdgeSteps DEF G!Next
<1>10. ASSUME Flush
       PROVE  G!find
  BY <1>10 DEF Flush, G!find, G!Becomes
<1>11. ASSUME start_database
       PROVE  G!open_database
  <2>1. ~ up /\ up' = TRUE /\ file' = disk /\ disk' = disk /\ file = disk
    BY <1>11 DEF start_database, Inv
  <2> QED BY <2>1 DEF G!open_database
<1>12. ASSUME Find \/ (\E id \in NodeIds : FindEdge(id)) \/ Kill \/ Exit \/ start_database
       PROVE  G!Next
  BY <1>10, <1>11, <1>12, StopSteps DEF Find, FindEdge, G!Next
<1> QED BY <1>3, <1>4, <1>5, <1>6, <1>7, <1>8, <1>9, <1>12 DEF Next

(* The database implements the graph of idata.h, whatever it holds, as     *)
(* long as every id fits a signed char.                                    *)
THEOREM DatabaseIsGraph ==
  ASSUME PageBound <= CharRange
  PROVE  Spec => GraphSpec
<1>1. Inv /\ [Next]_vars => [G!Next]_(G!vars)
  BY NextGraph DEF vars, G!vars
<1> QED BY <1>1, InitGraph, AlwaysInv, PTL DEF Spec, GraphSpec, G!Spec

(* Each of its functions does what the one of the same name promises, on   *)
(* the node and with the argument it was given.                            *)
THEOREM OperationsAlwaysMatch ==
  ASSUME PageBound <= CharRange
  PROVE  Spec => OperationsMatch
<1>1. ASSUME Inv
      PROVE  /\ \A n \in NodeInputs : AddNode(n) => G!add_node(n)
             /\ \A id \in NodeIds :
                  /\ DeleteNode(id) => G!delete_node(id)
                  /\ \A n \in NodeInputs : UpdateNode(id, n) => G!update_node(id, n)
                  /\ \A a \in Attribute : /\ AddAttribute(id, a) => G!add_attribute(id, a)
                                          /\ UpdateAttribute(id, a) => G!update_attribute(id, a)
                  /\ \A name \in AttNames :
                       DeleteAttribute(id, name) => G!delete_attribute(id, name) \/ G!Stop
                  /\ \A e \in EdgeInputs : /\ AddEdge(id, e) => G!add_edge(id, e)
                                           /\ UpdateEdge(id, e) => G!update_edge(id, e)
                  /\ \A target \in NodeIds :
                       DeleteEdge(id, target) => G!delete_edge(id, target) \/ G!Stop
  <2>1. Small(file) /\ GoodFile(file)
    BY <1>1, SmallFile DEF Inv
  <2>2. EdgeInputs \subseteq Edge
    BY InputTypes
  <2> QED BY <2>1, <2>2, AddNodeSteps, NodeSteps, AttributeSteps, EdgeSteps
<1> QED BY <1>1, AlwaysInv, PTL DEF OperationsMatch
=============================================================================
