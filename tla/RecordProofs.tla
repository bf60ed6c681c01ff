----------------------------- MODULE RecordProofs -----------------------------
(***************************************************************************)
(* The bytes of a page: a node is read back as it was written exactly when *)
(* its strings and its record are short enough, for every size of a page,  *)
(* every number of pages and every history of them.                        *)
(***************************************************************************)
EXTENDS Record, PagesProofs

Str == Seq(Char)

-----------------------------------------------------------------------------
(* Concatenation.                                                          *)

(* One string behind another. *)
LEMMA Behind ==
  ASSUME NEW s \in Str, NEW t \in Str
  PROVE  /\ s \o t \in Str
         /\ Len(s) \in Nat /\ Len(t) \in Nat
         /\ Len(s \o t) = Len(s) + Len(t)
         /\ \A j \in 1 .. Len(s) : (s \o t)[j] = s[j]
         /\ \A j \in 1 .. Len(t) : (s \o t)[Len(s) + j] = t[j]
<1>1. s \o t \in Str /\ Len(s) \in Nat /\ Len(t) \in Nat /\ Len(s \o t) = Len(s) + Len(t)
  BY LenProperties DEF Str
<1>2. \A j \in 1 .. Len(s) + Len(t) :
        (s \o t)[j] = IF j <= Len(s) THEN s[j] ELSE t[j - Len(s)]
  BY <1>1 DEF Str
<1>3. \A j \in 1 .. Len(s) : (s \o t)[j] = s[j]
  BY <1>1, <1>2
<1>4. \A j \in 1 .. Len(t) : (s \o t)[Len(s) + j] = t[j]
  <2> SUFFICES ASSUME NEW j \in 1 .. Len(t)
               PROVE  (s \o t)[Len(s) + j] = t[j]
    OBVIOUS
  <2> DEFINE m == Len(s) + j
  <2>1. m \in 1 .. Len(s) + Len(t) /\ ~ (m <= Len(s)) /\ m - Len(s) = j
    BY <1>1
  <2> QED BY <1>2, <2>1
<1> QED BY <1>1, <1>3, <1>4

(* Two strings of the same length and characters are the same. *)
LEMMA SameString ==
  ASSUME NEW S, NEW s \in Seq(S), NEW t \in Seq(S), Len(s) = Len(t),
         \A j \in 1 .. Len(s) : s[j] = t[j]
  PROVE  s = t
<1>1. s = [j \in 1 .. Len(s) |-> s[j]] /\ t = [j \in 1 .. Len(t) |-> t[j]]
  OBVIOUS
<1> QED BY <1>1

(* The part of page from one position to another. *)
LEMMA Part ==
  ASSUME NEW s \in Str, NEW a \in Nat \ {0}, NEW b \in Nat, b <= Len(s), a <= b + 1
  PROVE  /\ SubSeq(s, a, b) \in Str /\ Len(SubSeq(s, a, b)) = b - a + 1
         /\ \A j \in 1 .. b - a + 1 : SubSeq(s, a, b)[j] = s[a + j - 1]
<1>1. Len(s) \in Nat /\ \A j \in 1 .. Len(s) : s[j] \in Char
  BY LenProperties, ElementOfSeq DEF Str
<1>2. SubSeq(s, a, b) = [j \in 1 .. b - a + 1 |-> s[a + j - 1]]
  BY <1>1 DEF Str
<1>3. \A j \in 1 .. b - a + 1 : s[a + j - 1] \in Char
  BY <1>1
<1>4. b - a + 1 \in Nat
  OBVIOUS
<1> QED BY <1>2, <1>3, <1>4 DEF Str

-----------------------------------------------------------------------------
(* Parts one behind another.                                               *)

Joins(parts) == [n \in 1 .. Len(parts) |-> [s \in Str |-> s \o parts[n]]]

(* The parts of a list are put behind one another, from the first.         *)
LEMMA BytesFolds ==
  ASSUME NEW parts \in Seq(Str)
  PROVE  /\ << >> \in Str
         /\ Joins(parts) \in [1 .. Len(parts) -> [Str -> Str]]
         /\ \E it : /\ FoldsIn(it, Len(parts), Str, << >>, Joins(parts))
                    /\ Bytes(parts) = it[1 .. Len(parts)]
<1> DEFINE N == Len(parts)
           F == Joins(parts)
           Step(h, u) == IF u = {} THEN << >> ELSE h[u \ {Max(u)}] \o parts[Max(u)]
           it == CHOOSE it : it = [u \in SUBSET (1 .. N) |-> Step(it, u)]
<1>1. N \in Nat /\ DOMAIN parts = 1 .. N /\ \A n \in 1 .. N : parts[n] \in Str
  BY LenProperties, ElementOfSeq
<1>2. << >> \in Str
  BY EmptySeq DEF Str
<1>3. F \in [1 .. N -> [Str -> Str]]
  <2>1. \A s, t \in Str : s \o t \in Str
    BY DEF Str
  <2> QED BY <1>1, <2>1 DEF Joins
<1>4. Bytes(parts) = it[1 .. N]
  BY <1>1 DEF Bytes, FoldLeft, MapThenFoldSet
<1>5. \A n \in 1 .. N : \A s \in Str : F[n][s] = s \o parts[n]
  BY DEF Joins
<1> HIDE DEF N, F
<1>6. \E h : IsFold(h, N, Str, << >>, F)
  BY <1>1, <1>2, <1>3, FoldExists
<1>7. \A u \in SUBSET (1 .. N) : u # {} => Max(u) \in 1 .. N /\ u \ {Max(u)} \in SUBSET (1 .. N)
  BY <1>1, MaxProperty
<1>8. PICK h : h = [u \in SUBSET (1 .. N) |-> Step(h, u)]
  <2>1. PICK h : IsFold(h, N, Str, << >>, F)
    BY <1>6
  <2>2. \A u \in SUBSET (1 .. N) : u # {} => h[u] = h[u \ {Max(u)}] \o parts[Max(u)]
    BY <1>5, <1>7, <2>1 DEF IsFold
  <2>3. h = [u \in SUBSET (1 .. N) |-> Step(h, u)]
    BY <2>1, <2>2 DEF IsFold
  <2> QED BY <2>3
<1> HIDE DEF Step
<1>9. it = [u \in SUBSET (1 .. N) |-> Step(it, u)]
  BY <1>8
<1> HIDE DEF it
<1>10. FoldsIn(it, N, Str, << >>, F)
  BY <1>5, <1>7, <1>9 DEF Step, FoldsIn
<1> QED BY <1>2, <1>3, <1>4, <1>10 DEF N, F

(* b holds the parts, and part n ends at at[n]. *)
Ends(b, at, parts) ==
  /\ at \in [0 .. Len(parts) -> Nat] /\ at[0] = 0
  /\ \A n \in 1 .. Len(parts) : at[n] = at[n - 1] + Len(parts[n])
  /\ b \in Str /\ Len(b) = at[Len(parts)]
  /\ \A n \in 1 .. Len(parts) : \A j \in 1 .. Len(parts[n]) :
       at[n - 1] + j <= Len(b) /\ b[at[n - 1] + j] = parts[n][j]

(* So each part is found where the parts before it end.                    *)
LEMMA BytesEnds ==
  ASSUME NEW parts \in Seq(Str)
  PROVE  \E at : Ends(Bytes(parts), at, parts)
<1> DEFINE N == Len(parts)
<1>1. N \in Nat /\ \A n \in 1 .. N : parts[n] \in Str /\ Len(parts[n]) \in Nat
  <2>1. \A n \in 1 .. N : parts[n] \in Str
    BY ElementOfSeq
  <2> QED BY <2>1, LenProperties DEF Str
<1> DEFINE F == Joins(parts)
<1>2. PICK it : FoldsIn(it, N, Str, << >>, F) /\ Bytes(parts) = it[1 .. N]
  BY BytesFolds
<1>3. << >> \in Str /\ F \in [1 .. N -> [Str -> Str]]
  BY BytesFolds
<1>4. \A n \in 1 .. N : \A s \in Str : F[n][s] = s \o parts[n]
  BY DEF Joins
<1> HIDE DEF N, F
<1>5. Prefixed(it, N, Str, << >>, F)
  BY <1>1, <1>2, <1>3, FoldPrefixes
<1> DEFINE B == [n \in 0 .. N |-> it[1 .. n]]
           at == [n \in 0 .. N |-> Len(B[n])]
<1>6. /\ B[0] = << >>
      /\ \A n \in 0 .. N : B[n] \in Str
      /\ \A n \in 1 .. N : B[n] = B[n - 1] \o parts[n]
  <2>1. \A n \in 1 .. N : n \in 0 .. N /\ n - 1 \in 0 .. N
    BY <1>1
  <2>2. 0 \in 0 .. N
    BY <1>1
  <2> QED BY <1>4, <1>5, <2>1, <2>2 DEF Prefixed
<1>7. Bytes(parts) = B[N] /\ N \in 0 .. N
  BY <1>1, <1>2
<1> HIDE DEF B
<1>8. /\ \A n \in 0 .. N : at[n] = Len(B[n]) /\ at[n] \in Nat
      /\ at \in [0 .. N -> Nat]
  BY <1>6, LenProperties DEF Str
<1>9. at[0] = 0
  <2>1. 0 \in 0 .. N
    BY <1>1
  <2> QED BY <1>6, <1>8, <2>1, EmptySeq
<1>10. ASSUME NEW n \in 1 .. N
       PROVE  /\ n \in 0 .. N /\ n - 1 \in 0 .. N
              /\ at[n] = at[n - 1] + Len(parts[n])
              /\ \A j \in 1 .. at[n - 1] : B[n][j] = B[n - 1][j]
              /\ \A j \in 1 .. Len(parts[n]) : B[n][at[n - 1] + j] = parts[n][j]
  <2>1. n \in 0 .. N /\ n - 1 \in 0 .. N
    BY <1>1
  <2>2. B[n] = B[n - 1] \o parts[n] /\ B[n - 1] \in Str /\ parts[n] \in Str
    BY <1>1, <1>6, <2>1
  <2>3. /\ Len(B[n]) = Len(B[n - 1]) + Len(parts[n])
        /\ \A j \in 1 .. Len(B[n - 1]) : B[n][j] = B[n - 1][j]
        /\ \A j \in 1 .. Len(parts[n]) : B[n][Len(B[n - 1]) + j] = parts[n][j]
    <3> DEFINE s == B[n - 1]
               t == parts[n]
    <3>1. s \in Str /\ t \in Str /\ B[n] = s \o t
      BY <2>2
    <3> HIDE DEF s, t
    <3>2. /\ Len(s \o t) = Len(s) + Len(t)
          /\ \A j \in 1 .. Len(s) : (s \o t)[j] = s[j]
          /\ \A j \in 1 .. Len(t) : (s \o t)[Len(s) + j] = t[j]
      BY <3>1, Behind
    <3> QED BY <3>1, <3>2 DEF s, t
  <2> QED BY <1>8, <2>1, <2>3
<1> DEFINE Placed(m) == \A n \in 1 .. N : n <= m => \A j \in 1 .. Len(parts[n]) :
                          at[n - 1] + j <= at[m] /\ B[m][at[n - 1] + j] = parts[n][j]
           G == {m \in 0 .. N : Placed(m)}
<1> HIDE DEF at
<1>11. 0 \in G
  BY <1>1
<1>12. ASSUME NEW m \in 0 .. N - 1, m \in G
       PROVE  m + 1 \in G
  <2> DEFINE p == m + 1
  <2>1. p \in 1 .. N /\ p \in 0 .. N /\ p - 1 = m /\ m \in 0 .. N
    BY <1>1
  <2> HIDE DEF p
  <2>2. /\ at[p] = at[m] + Len(parts[p]) /\ Len(parts[p]) \in Nat
        /\ at[m] \in Nat
        /\ \A j \in 1 .. at[m] : B[p][j] = B[m][j]
        /\ \A j \in 1 .. Len(parts[p]) : B[p][at[m] + j] = parts[p][j]
    BY <1>1, <1>8, <1>10, <2>1
  <2>3. Placed(m)
    BY <1>12
  <2>4. ASSUME NEW n \in 1 .. N, n <= p, NEW j \in 1 .. Len(parts[n])
        PROVE  at[n - 1] + j <= at[p] /\ B[p][at[n - 1] + j] = parts[n][j]
    <3>1. CASE n = p
      BY <2>1, <2>2, <3>1
    <3>2. CASE n # p
      <4>1. n <= m /\ n - 1 \in 0 .. N
        BY <1>1, <2>1, <2>4, <3>2
      <4>2. at[n - 1] + j <= at[m] /\ B[m][at[n - 1] + j] = parts[n][j]
        BY <2>3, <4>1
      <4>3. at[n - 1] \in Nat /\ Len(parts[n]) \in Nat
        BY <1>1, <1>8, <4>1
      <4>4. at[n - 1] + j \in 1 .. at[m] /\ at[n - 1] + j <= at[p]
        BY <2>2, <4>2, <4>3, SMTT(30)
      <4> QED BY <2>2, <4>2, <4>4
    <3> QED BY <3>1, <3>2
  <2> QED BY <2>1, <2>4 DEF p
<1>13. N \in G
  <2> HIDE DEF G
  <2> QED BY <1>1, <1>7, <1>11, <1>12, IntervalInduction
<1>14. Placed(N)
  BY <1>13
<1>15. \A n \in 1 .. N : \A j \in 1 .. Len(parts[n]) :
         at[n - 1] + j <= at[N] /\ B[N][at[n - 1] + j] = parts[n][j]
  BY <1>1, <1>14
<1>16. Ends(B[N], at, parts)
  BY <1>6, <1>7, <1>8, <1>9, <1>10, <1>15 DEF Ends, N
<1> QED BY <1>7, <1>16

-----------------------------------------------------------------------------
(* Reading a list.                                                         *)

(* Reading an element moves on, and stays on the page. *)
Advances(page, at) == \A c \in 1 .. Len(page) : at[c].next \in {0} \cup (c + 1 .. Len(page))

ListOf(page, at, h, c) ==
  IF page[c] = 0 THEN [next |-> c + 1, val |-> << >>]
  ELSE IF at[c].next = 0 THEN at[c]
  ELSE [next |-> h[at[c].next].next, val |-> <<at[c].val>> \o h[at[c].next].val]

ListsOf(page, at) == [c \in 1 .. Len(page) |-> ListAt(page, at, c)]

(* From each position a list is read that begins with the element there.   *)
LEMMA ListRead ==
  ASSUME NEW page, Len(page) \in Nat, NEW at, Advances(page, at), NEW from \in 1 .. Len(page)
  PROVE  ListAt(page, at, from) = ListOf(page, at, ListsOf(page, at), from)
<1> DEFINE N == Len(page)
           list == CHOOSE list : list = [c \in 1 .. N |-> ListOf(page, at, list, c)]
           G == {m \in 0 .. N : \E h : h = [c \in N - m + 1 .. N |-> ListOf(page, at, h, c)]}
<1>1. \A c : ListAt(page, at, c) = list[c]
  BY DEF ListAt, ListOf
<1>2. 0 \in G
  <2> DEFINE h == [c \in N + 1 .. N |-> 0]
  <2>1. N - 0 + 1 .. N = {} /\ N + 1 .. N = {} /\ 0 \in 0 .. N
    OBVIOUS
  <2>2. h = [c \in N - 0 + 1 .. N |-> ListOf(page, at, h, c)]
    BY <2>1
  <2> HIDE DEF h
  <2> QED BY <2>1, <2>2
<1>3. ASSUME NEW m \in 0 .. N - 1, m \in G
      PROVE  m + 1 \in G
  <2>1. PICK h : h = [c \in N - m + 1 .. N |-> ListOf(page, at, h, c)]
    BY <1>3
  <2> DEFINE d == N - m
             h2 == [c \in d .. N |-> ListOf(page, at, h, c)]
  <2>2. /\ d \in 1 .. N /\ N - (m + 1) + 1 = d /\ N - m + 1 = d + 1 /\ m + 1 \in 0 .. N
        /\ \A c \in d + 1 .. N : c \in d .. N
    OBVIOUS
  <2>3. \A c \in d + 1 .. N : h2[c] = h[c]
    BY <2>1, <2>2
  <2>4. \A c \in d .. N : at[c].next \in {0} \cup (d + 1 .. N)
    BY <2>2 DEF Advances
  <2>5. \A c \in d .. N : ListOf(page, at, h2, c) = ListOf(page, at, h, c)
    <3> SUFFICES ASSUME NEW c \in d .. N
                 PROVE  ListOf(page, at, h2, c) = ListOf(page, at, h, c)
      OBVIOUS
    <3> HIDE DEF h2, d
    <3>1. at[c].next = 0 \/ h2[at[c].next] = h[at[c].next]
      BY <2>3, <2>4
    <3> QED BY <3>1 DEF ListOf
  <2>6. h2 = [c \in N - (m + 1) + 1 .. N |-> ListOf(page, at, h2, c)]
    BY <2>2, <2>5
  <2> HIDE DEF h2
  <2> QED BY <2>2, <2>6
<1>4. PICK h : h = [c \in 1 .. N |-> ListOf(page, at, h, c)]
  <2>1. N \in G
    <3> HIDE DEF G
    <3>1. N \in 0 .. N
      OBVIOUS
    <3> QED BY <1>2, <1>3, <3>1, IntervalInduction
  <2>2. N - N + 1 = 1
    OBVIOUS
  <2> QED BY <2>1, <2>2
<1>5. list = [c \in 1 .. N |-> ListOf(page, at, list, c)]
  BY <1>4
<1> HIDE DEF list
<1>6. list = ListsOf(page, at)
  <2>1. ListsOf(page, at) = [c \in 1 .. N |-> list[c]]
    BY <1>1 DEF ListsOf
  <2> QED BY <1>5, <2>1
<1> QED BY <1>1, <1>5, <1>6

(* The elements vals are read one after the other: the n-th of them begins *)
(* at cs[n - 1], and behind the last is a byte 0.                          *)
Chain(page, at, cs, vals) ==
  /\ Len(vals) \in Nat
  /\ cs \in [0 .. Len(vals) -> 1 .. Len(page)]
  /\ page[cs[Len(vals)]] = 0
  /\ \A n \in 1 .. Len(vals) : /\ page[cs[n - 1]] # 0
                              /\ at[cs[n - 1]].next = cs[n]
                              /\ at[cs[n - 1]].val = vals[n]

ReadAlong(page, at, from, list) ==
  \E cs : /\ Chain(page, at, cs, list.val)
          /\ cs[0] = from /\ cs[Len(list.val)] + 1 = list.next

(* A list that could be read is such a chain.                              *)
LEMMA ReadChain ==
  ASSUME NEW page, Len(page) \in Nat, NEW at, Advances(page, at), NEW V,
         \A c \in 1 .. Len(page) : page[c] # 0 /\ at[c].next # 0 => at[c].val \in V,
         NEW from \in 1 .. Len(page), NEW list, list = ListAt(page, at, from), list.next # 0
  PROVE  list.val \in Seq(V) /\ ReadAlong(page, at, from, list)
<1> DEFINE N == Len(page)
           L == ListsOf(page, at)
           Good(c) == L[c].next # 0 =>
                        /\ L[c].val \in Seq(V)
                        /\ \E cs : /\ Chain(page, at, cs, L[c].val)
                                   /\ cs[0] = c /\ cs[Len(L[c].val)] + 1 = L[c].next
           G == {m \in 0 .. N : \A c \in N - m + 1 .. N : Good(c)}
<1>1. /\ \A c \in 1 .. N : L[c] = ListOf(page, at, L, c)
      /\ \A c \in 1 .. N : L[c] = ListAt(page, at, c)
  BY ListRead DEF ListsOf
<1> HIDE DEF L
<1>2. ASSUME NEW c \in 1 .. N, \A d \in c + 1 .. N : Good(d)
      PROVE  Good(c)
  <2> SUFFICES ASSUME L[c].next # 0
               PROVE  /\ L[c].val \in Seq(V)
                      /\ \E cs : /\ Chain(page, at, cs, L[c].val)
                                 /\ cs[0] = c /\ cs[Len(L[c].val)] + 1 = L[c].next
    OBVIOUS
  <2>1. CASE page[c] = 0
    <3>1. L[c] = [next |-> c + 1, val |-> << >>]
      BY <1>1, <2>1 DEF ListOf
    <3>2. << >> \in Seq(V) /\ Len(<< >>) = 0
      BY EmptySeq
    <3> DEFINE cs == [n \in 0 .. 0 |-> c]
    <3>3. Chain(page, at, cs, << >>)
      BY <2>1, <3>2 DEF Chain
    <3>4. cs[0] = c
      OBVIOUS
    <3> HIDE DEF cs
    <3> QED BY <3>1, <3>2, <3>3, <3>4
  <2>2. CASE page[c] # 0
    <3> DEFINE d == at[c].next
               vals == L[d].val
               all == <<at[c].val>> \o vals
    <3>1. d # 0
      BY <1>1, <2>2 DEF ListOf
    <3>2. d \in c + 1 .. N
      BY <3>1 DEF Advances
    <3>3. L[c] = [next |-> L[d].next, val |-> all]
      BY <1>1, <2>2, <3>1 DEF ListOf
    <3>4. L[d].next # 0
      BY <3>3
    <3>5. vals \in Seq(V)
      BY <1>2, <3>2, <3>4
    <3>6. PICK cs : /\ Chain(page, at, cs, vals)
                    /\ cs[0] = d /\ cs[Len(vals)] + 1 = L[d].next
      BY <1>2, <3>2, <3>4
    <3>7. at[c].val \in V
      BY <2>2, <3>1
    <3> DEFINE K == Len(vals)
    <3>8. K \in Nat
      BY <3>5, LenProperties
    <3>9. /\ all \in Seq(V) /\ Len(all) = K + 1
          /\ all[1] = at[c].val
          /\ \A n \in 1 .. K : all[n + 1] = vals[n]
      BY <3>5, <3>7, <3>8
    <3> DEFINE es == [n \in 0 .. K + 1 |-> IF n = 0 THEN c ELSE cs[n - 1]]
    <3> HIDE DEF all, vals, K, d
    <3>10. \A n \in 1 .. K + 1 : n \in 0 .. K + 1 /\ n - 1 \in 0 .. K /\ n # 0
      BY <3>8
    <3>11. 0 \in 0 .. K + 1 /\ K + 1 \in 1 .. K + 1 /\ (K + 1) - 1 = K
      BY <3>8
    <3>12. es[0] = c /\ \A n \in 1 .. K + 1 : es[n] = cs[n - 1]
      BY <3>10, <3>11
    <3>13. es \in [0 .. K + 1 -> 1 .. N]
      BY <3>6, <3>10 DEF Chain, K
    <3> HIDE DEF es
    <3>14. ASSUME NEW n \in 1 .. K + 1
           PROVE  /\ page[es[n - 1]] # 0
                  /\ at[es[n - 1]].next = es[n]
                  /\ at[es[n - 1]].val = all[n]
      <4>1. CASE n = 1
        <5>1. es[n - 1] = c /\ es[n] = d
          BY <3>6, <3>10, <3>12, <4>1
        <5> QED BY <2>2, <3>9, <4>1, <5>1 DEF d
      <4>2. CASE n # 1
        <5> DEFINE m == n - 1
        <5>1. m \in 1 .. K /\ m \in 1 .. K + 1 /\ n = m + 1 /\ n - 1 = m
          BY <3>8, <4>2
        <5> HIDE DEF m
        <5>2. es[n - 1] = cs[m - 1] /\ es[n] = cs[m] /\ all[n] = vals[m]
          BY <3>9, <3>12, <5>1
        <5> QED BY <3>6, <5>1, <5>2 DEF Chain, K
      <4> QED BY <4>1, <4>2
    <3>15. Chain(page, at, es, all) /\ es[Len(all)] = cs[K]
      BY <3>6, <3>8, <3>9, <3>11, <3>12, <3>13, <3>14 DEF Chain, K
    <3>16. es[Len(all)] + 1 = L[d].next
      BY <3>6, <3>15 DEF K
    <3> QED BY <3>3, <3>9, <3>12, <3>15, <3>16
  <2> QED BY <2>1, <2>2
<1> HIDE DEF Good
<1>3. 0 \in G
  OBVIOUS
<1>4. ASSUME NEW m \in 0 .. N - 1, m \in G
      PROVE  m + 1 \in G
  <2> DEFINE c == N - m
  <2>1. /\ c \in 1 .. N /\ \A d \in c + 1 .. N : d \in N - m + 1 .. N
        /\ \A d \in N - (m + 1) + 1 .. N : d = c \/ d \in N - m + 1 .. N
        /\ m + 1 \in 0 .. N
    OBVIOUS
  <2>2. \A d \in N - m + 1 .. N : Good(d)
    BY <1>4
  <2> HIDE DEF c
  <2>3. Good(c)
    BY <1>2, <2>1, <2>2
  <2> QED BY <2>1, <2>2, <2>3
<1>5. \A c \in 1 .. N : Good(c)
  <2>1. N \in G
    <3> HIDE DEF G
    <3>1. N \in 0 .. N
      OBVIOUS
    <3> QED BY <1>3, <1>4, <3>1, IntervalInduction
  <2>2. N - N + 1 = 1
    OBVIOUS
  <2> QED BY <2>1, <2>2
<1>6. L[from] = ListAt(page, at, from)
  BY <1>1
<1> QED BY <1>5, <1>6 DEF Good, ReadAlong

(* The elements of vals behind the first m. *)
Behinds(vals, m) == [j \in 1 .. Len(vals) - m |-> vals[m + j]]

Peeled(vals) ==
  /\ Behinds(vals, Len(vals)) = << >>
  /\ Behinds(vals, 0) = vals
  /\ \A m \in 1 .. Len(vals) :
       <<vals[m]>> \o Behinds(vals, m) = Behinds(vals, m - 1)

(* What is behind all is nothing, and one element is put before the rest.  *)
LEMMA Peeling ==
  ASSUME NEW V, NEW vals \in Seq(V)
  PROVE  Peeled(vals)
<1> DEFINE K == Len(vals)
<1>1. K \in Nat /\ vals = [j \in 1 .. K |-> vals[j]] /\ \A j \in 1 .. K : vals[j] \in V
  BY LenProperties, ElementOfSeq
<1>2. \A m \in 0 .. K : Behinds(vals, m) \in Seq(V) /\ Len(Behinds(vals, m)) = K - m
  <2> SUFFICES ASSUME NEW m \in 0 .. K
               PROVE  Behinds(vals, m) \in Seq(V) /\ Len(Behinds(vals, m)) = K - m
    OBVIOUS
  <2>1. K - m \in Nat /\ \A j \in 1 .. K - m : vals[m + j] \in V
    BY <1>1
  <2> HIDE DEF K
  <2>2. Behinds(vals, m) = [j \in 1 .. K - m |-> vals[m + j]]
    BY DEF Behinds, K
  <2> QED BY <2>1, <2>2
<1>3. Behinds(vals, K) = << >>
  <2>1. << >> \in Seq(V) /\ Len(<< >>) = 0 /\ K \in 0 .. K
    BY <1>1, EmptySeq
  <2>2. Behinds(vals, K) \in Seq(V) /\ Len(Behinds(vals, K)) = 0
    BY <1>1, <1>2, <2>1
  <2> HIDE DEF K
  <2> QED BY <2>1, <2>2, SameString
<1>4. Behinds(vals, 0) = vals
  <2>1. \A j \in 1 .. K : 0 + j = j
    BY <1>1
  <2>2. K - 0 = K
    BY <1>1
  <2> QED BY <1>1, <2>1, <2>2 DEF Behinds
<1>5. ASSUME NEW m \in 1 .. K
      PROVE  <<vals[m]>> \o Behinds(vals, m) = Behinds(vals, m - 1)
  <2> DEFINE s == Behinds(vals, m)
             t == Behinds(vals, m - 1)
             one == <<vals[m]>>
  <2>1. m \in 0 .. K /\ m - 1 \in 0 .. K
    BY <1>1
  <2>2. s \in Seq(V) /\ t \in Seq(V) /\ Len(s) = K - m /\ Len(t) = K - m + 1
    BY <1>1, <1>2, <2>1
  <2>3. one \in Seq(V) /\ Len(one) = 1 /\ one[1] = vals[m]
    BY <1>1
  <2>4. /\ \A j \in 1 .. K - m : s[j] = vals[m + j]
        /\ \A j \in 1 .. K - (m - 1) : t[j] = vals[m - 1 + j]
    BY DEF Behinds
  <2>0. K \in Nat
    BY <1>1
  <2> HIDE DEF s, t, one, K
  <2>5. /\ one \o s \in Seq(V) /\ Len(one \o s) = K - m + 1
        /\ \A j \in 1 .. K - m + 1 : (one \o s)[j] = IF j <= 1 THEN one[j] ELSE s[j - 1]
    <3>1. /\ one \o s \in Seq(V) /\ Len(one \o s) = Len(one) + Len(s)
          /\ \A j \in 1 .. Len(one) + Len(s) :
               (one \o s)[j] = IF j <= Len(one) THEN one[j] ELSE s[j - Len(one)]
      BY <2>2, <2>3, ConcatProperties
    <3>2. Len(one) + Len(s) = K - m + 1
      BY <2>0, <2>2, <2>3
    <3> QED BY <2>3, <3>1, <3>2
  <2>6. ASSUME NEW j \in 1 .. K - m + 1
        PROVE  (one \o s)[j] = t[j]
    <3>1. t[j] = vals[m - 1 + j]
      <4>1. j \in 1 .. K - (m - 1)
        BY <2>0
      <4> QED BY <2>4, <4>1
    <3>2. CASE j = 1
      <4>1. m - 1 + j = m
        BY <3>2
      <4> QED BY <2>3, <2>5, <3>1, <3>2, <4>1
    <3>3. CASE j # 1
      <4> DEFINE l == j - 1
      <4>1. l \in 1 .. K - m /\ ~(j <= 1) /\ m - 1 + j = m + l
        BY <1>1, <3>3
      <4>2. (one \o s)[j] = s[l]
        BY <2>5, <4>1
      <4> QED BY <2>4, <3>1, <4>1, <4>2
    <3> QED BY <3>2, <3>3
  <2>7. one \o s = t
    <3>1. one \o s \in Seq(V) /\ Len(one \o s) = Len(t)
      BY <2>2, <2>5
    <3>2. \A j \in 1 .. Len(one \o s) : (one \o s)[j] = t[j]
      BY <2>5, <2>6
    <3> QED BY <2>2, <3>1, <3>2, SameString
  <2> QED BY <2>7 DEF s, t, one
<1> QED BY <1>3, <1>4, <1>5 DEF Peeled

(* A chain is read from its beginning to its end. *)
LEMMA ChainRead ==
  ASSUME NEW page, Len(page) \in Nat, NEW at, Advances(page, at), NEW V,
         NEW vals \in Seq(V), NEW cs, Chain(page, at, cs, vals)
  PROVE  ListAt(page, at, cs[0]) = [next |-> cs[Len(vals)] + 1, val |-> vals]
<1> DEFINE K == Len(vals)
           L == ListsOf(page, at)
           Whole(n) == L[cs[n]] = [next |-> cs[K] + 1, val |-> Behinds(vals, n)]
           G == {m \in 0 .. K : Whole(K - m)}
<1>1. \A c \in 1 .. Len(page) : L[c] = ListOf(page, at, L, c) /\ L[c] = ListAt(page, at, c)
  BY ListRead DEF ListsOf
<1>2. /\ K \in Nat /\ page[cs[K]] = 0
      /\ \A n \in 0 .. K : cs[n] \in 1 .. Len(page)
      /\ \A n \in 1 .. K : /\ page[cs[n - 1]] # 0
                          /\ at[cs[n - 1]].next = cs[n]
                          /\ at[cs[n - 1]].val = vals[n]
  BY DEF Chain
<1>3. /\ Behinds(vals, K) = << >> /\ Behinds(vals, 0) = vals
      /\ \A m \in 1 .. K : <<vals[m]>> \o Behinds(vals, m) = Behinds(vals, m - 1)
  <2>1. Peeled(vals)
    BY Peeling
  <2> QED BY <2>1 DEF Peeled
<1> HIDE DEF L, K
<1>4. 0 \in G
  <2>1. K - 0 = K /\ K \in 0 .. K /\ 0 \in 0 .. K
    BY <1>2
  <2>2. Whole(K)
    BY <1>1, <1>2, <1>3, <2>1 DEF ListOf
  <2> HIDE DEF Whole
  <2> QED BY <2>1, <2>2
<1>5. ASSUME NEW m \in 0 .. K - 1, m \in G
      PROVE  m + 1 \in G
  <2> DEFINE n == K - m
             c == cs[n - 1]
  <2>1. /\ n \in 1 .. K /\ n \in 0 .. K /\ n - 1 \in 0 .. K
        /\ K - (m + 1) = n - 1 /\ m + 1 \in 0 .. K
    BY <1>2
  <2>2. Whole(n)
    BY <1>5
  <2> HIDE DEF n
  <2>3. /\ c \in 1 .. Len(page) /\ page[c] # 0 /\ at[c].next = cs[n] /\ at[c].val = vals[n]
        /\ cs[n] # 0
    BY <1>2, <2>1
  <2> HIDE DEF c
  <2>4. L[c] = [next |-> L[cs[n]].next, val |-> <<vals[n]>> \o L[cs[n]].val]
    BY <1>1, <2>3 DEF ListOf
  <2>5. L[c] = [next |-> cs[K] + 1, val |-> <<vals[n]>> \o Behinds(vals, n)]
    BY <2>2, <2>4
  <2>6. Whole(n - 1)
    BY <1>3, <2>1, <2>5 DEF c
  <2> HIDE DEF Whole
  <2> QED BY <2>1, <2>6
<1>6. K \in G
  <2> HIDE DEF G
  <2>1. K \in 0 .. K
    BY <1>2
  <2> QED BY <1>2, <1>4, <1>5, <2>1, IntervalInduction
<1>7. Whole(0)
  <2>1. K - K = 0
    BY <1>2
  <2> QED BY <1>6, <2>1
<1> QED BY <1>1, <1>2, <1>3, <1>7 DEF K

-----------------------------------------------------------------------------
(* A list and its bytes.                                                   *)

Runs(cs, parts) ==
  /\ cs \in [0 .. Len(parts) -> Nat]
  /\ \A n \in 1 .. Len(parts) : cs[n] = cs[n - 1] + Len(parts[n])

(* Positions that lie as far apart as the parts are long.                  *)
LEMMA SameDistance ==
  ASSUME NEW parts \in Seq(Str), NEW cs, Runs(cs, parts), NEW at, Runs(at, parts), at[0] = 0
  PROVE  \A n \in 0 .. Len(parts) : cs[n] = cs[0] + at[n]
<1> DEFINE N == Len(parts)
           G == {m \in 0 .. N : cs[m] = cs[0] + at[m]}
<1>1. N \in Nat /\ \A n \in 1 .. N : Len(parts[n]) \in Nat
  BY LenProperties, ElementOfSeq DEF Str
<1>2. /\ \A n \in 0 .. N : cs[n] \in Nat /\ at[n] \in Nat
      /\ \A n \in 1 .. N : /\ cs[n] = cs[n - 1] + Len(parts[n])
                          /\ at[n] = at[n - 1] + Len(parts[n])
  BY DEF Runs
<1> HIDE DEF N
<1>3. 0 \in G
  <2>1. 0 \in 0 .. N
    BY <1>1
  <2> QED BY <1>2, <2>1
<1>4. ASSUME NEW m \in 0 .. N - 1, m \in G
      PROVE  m + 1 \in G
  <2> DEFINE p == m + 1
  <2>1. p \in 1 .. N /\ p \in 0 .. N /\ p - 1 = m /\ m \in 0 .. N /\ 0 \in 0 .. N
    BY <1>1
  <2> HIDE DEF p
  <2>2. /\ cs[p] = cs[m] + Len(parts[p]) /\ at[p] = at[m] + Len(parts[p])
        /\ cs[m] = cs[0] + at[m] /\ Len(parts[p]) \in Nat
        /\ cs[m] \in Nat /\ at[m] \in Nat /\ cs[0] \in Nat
    BY <1>1, <1>2, <1>4, <2>1
  <2>3. cs[p] = cs[0] + at[p]
    BY <2>2
  <2> QED BY <2>1, <2>3 DEF p
<1>5. ASSUME NEW n \in 0 .. N
      PROVE  n \in G
  <2>1. n \in Nat /\ n \in 0 .. n /\ \A m \in 0 .. n - 1 : m \in 0 .. N - 1
    BY <1>1
  <2> HIDE DEF G
  <2> QED BY <1>3, <1>4, <2>1, IntervalInduction
<1> QED BY <1>5 DEF N

(* page holds b from position from on, as far as it goes. *)
Laid(page, from, b) ==
  \A j \in 1 .. Len(b) : from + j - 1 <= Len(page) => page[from + j - 1] = b[j]

(* Each part is read back as one of vals, wherever on the page it lies. *)
ReadsBack(page, at, parts, vals) ==
  /\ Len(parts) = Len(vals)
  /\ \A n \in 1 .. Len(parts) : \A c \in Nat \ {0} :
       Laid(page, c, parts[n]) /\ c + Len(parts[n]) <= Len(page) =>
         page[c] # 0 /\ at[c].next = c + Len(parts[n]) /\ at[c].val = vals[n]

(* A list that is laid out on the page and ends there is read back.        *)
LEMMA ListLaid ==
  ASSUME NEW page \in Str, NEW at, Advances(page, at), NEW V, NEW vals \in Seq(V),
         NEW parts \in Seq(Str), ReadsBack(page, at, parts, vals),
         NEW from \in Nat \ {0}, NEW to \in Nat, to = from + Len(Bytes(parts)), to <= Len(page),
         Laid(page, from, Bytes(parts)), page[to] = 0
  PROVE  ListAt(page, at, from).next = to + 1 /\ ListAt(page, at, from).val = vals
<1> DEFINE N == Len(parts)
           b == Bytes(parts)
<1>1. PICK e : Ends(b, e, parts)
  BY BytesEnds
<1>2. /\ N \in Nat /\ Len(page) \in Nat /\ N = Len(vals)
      /\ \A n \in 1 .. N : Len(parts[n]) \in Nat
  BY LenProperties, ElementOfSeq DEF Str, ReadsBack
<1>3. /\ \A n \in 0 .. N : e[n] \in Nat
      /\ e[0] = 0 /\ e[N] = Len(b)
      /\ \A n \in 1 .. N : e[n] = e[n - 1] + Len(parts[n])
      /\ \A n \in 1 .. N : \A j \in 1 .. Len(parts[n]) :
           e[n - 1] + j <= Len(b) /\ b[e[n - 1] + j] = parts[n][j]
  BY <1>1 DEF Ends
<1> HIDE DEF N, b
<1>4. Len(b) \in Nat /\ N \in 0 .. N /\ 0 \in 0 .. N
  <2>1. N \in 0 .. N /\ 0 \in 0 .. N
    BY <1>2
  <2> QED BY <1>3, <2>1
<1>5. \A n \in 0 .. N : e[n] <= Len(b)
  <2> DEFINE G == {m \in 0 .. N : e[N - m] <= Len(b)}
  <2>1. 0 \in G
    <3>1. N - 0 = N
      BY <1>2
    <3> QED BY <1>3, <1>4, <3>1
  <2>2. ASSUME NEW m \in 0 .. N - 1, m \in G
        PROVE  m + 1 \in G
    <3> DEFINE n == N - m
    <3>1. n \in 1 .. N /\ n \in 0 .. N /\ n - 1 \in 0 .. N /\ N - (m + 1) = n - 1 /\ m + 1 \in 0 .. N
      BY <1>2
    <3>2. e[n] <= Len(b)
      BY <2>2
    <3> HIDE DEF n
    <3>3. e[n] = e[n - 1] + Len(parts[n]) /\ e[n] \in Nat /\ e[n - 1] \in Nat /\ Len(parts[n]) \in Nat
      BY <1>2, <1>3, <3>1
    <3>4. e[n - 1] <= Len(b)
      BY <1>4, <3>2, <3>3
    <3> QED BY <3>1, <3>4
  <2>3. ASSUME NEW n \in 0 .. N
        PROVE  e[n] <= Len(b)
    <3> DEFINE m == N - n
    <3>1. m \in Nat /\ m \in 0 .. m /\ N - m = n /\ \A l \in 0 .. m - 1 : l \in 0 .. N - 1
      BY <1>2
    <3> HIDE DEF m, G
    <3>2. m \in G
      BY <2>1, <2>2, <3>1, IntervalInduction
    <3> QED BY <3>1, <3>2 DEF G
  <2> QED BY <2>3
<1> DEFINE cs == [n \in 0 .. N |-> from + e[n]]
<1>6. \A n \in 0 .. N : cs[n] = from + e[n] /\ cs[n] \in 1 .. Len(page)
  BY <1>2, <1>3, <1>4, <1>5 DEF b
<1>7. cs \in [0 .. N -> 1 .. Len(page)] /\ cs[0] = from /\ cs[N] = to
  BY <1>3, <1>4, <1>6 DEF b
<1> HIDE DEF cs
<1>8. ASSUME NEW n \in 1 .. N
      PROVE  /\ page[cs[n - 1]] # 0
             /\ at[cs[n - 1]].next = cs[n]
             /\ at[cs[n - 1]].val = vals[n]
  <2> DEFINE c == cs[n - 1]
             p == parts[n]
  <2>1. n - 1 \in 0 .. N /\ n \in 0 .. N
    BY <1>2
  <2>2. /\ c = from + e[n - 1] /\ c \in Nat \ {0} /\ e[n - 1] \in Nat /\ Len(p) \in Nat
        /\ cs[n] = c + Len(p) /\ cs[n] <= Len(page)
    <3>1. /\ c = from + e[n - 1] /\ cs[n] = from + e[n] /\ e[n] = e[n - 1] + Len(p)
          /\ e[n - 1] \in Nat /\ e[n] \in Nat /\ Len(p) \in Nat /\ cs[n] <= Len(page)
      BY <1>2, <1>3, <1>6, <2>1
    <3> DEFINE x == e[n - 1]
               y == e[n]
               z == Len(p)
    <3> HIDE DEF c, x, y, z
    <3>2. /\ c = from + x /\ cs[n] = from + y /\ y = x + z
          /\ x \in Nat /\ y \in Nat /\ z \in Nat
      BY <3>1 DEF c, x, y, z
    <3>3. c \in Nat \ {0} /\ cs[n] = c + z
      BY <3>2
    <3> QED BY <3>1, <3>2, <3>3 DEF x, z
  <2> HIDE DEF c, p
  <2>3. Laid(page, c, p)
    <3> SUFFICES ASSUME NEW j \in 1 .. Len(p), c + j - 1 <= Len(page)
                 PROVE  page[c + j - 1] = p[j]
      BY DEF Laid
    <3> DEFINE l == e[n - 1] + j
    <3>1. l <= Len(b) /\ b[l] = p[j]
      BY <1>3 DEF p
    <3>2. l \in 1 .. Len(b) /\ from + l - 1 = c + j - 1
      <4> DEFINE x == e[n - 1]
                 y == Len(b)
                 z == Len(p)
      <4>1. c = from + x /\ x \in Nat /\ y \in Nat /\ z \in Nat /\ x + j <= y
        BY <1>4, <2>2, <3>1
      <4> HIDE DEF x, y, z
      <4>2. j \in Nat \ {0} /\ from \in Nat
        BY <4>1 DEF z
      <4>3. x + j \in 1 .. y /\ from + (x + j) - 1 = c + j - 1
        BY <4>1, <4>2
      <4> QED BY <4>3 DEF x, y
    <3> HIDE DEF l
    <3>3. page[from + l - 1] = b[l]
      BY <3>2 DEF Laid, b
    <3> QED BY <3>1, <3>2, <3>3
  <2>4. c + Len(p) <= Len(page)
    BY <2>2
  <2>5. page[c] # 0 /\ at[c].next = c + Len(p) /\ at[c].val = vals[n]
    BY <2>2, <2>3, <2>4, ZenonT(30) DEF ReadsBack, N, p
  <2> QED BY <2>2, <2>5 DEF c
<1>9. Chain(page, at, cs, vals)
  BY <1>2, <1>7, <1>8 DEF Chain
<1>10. ListAt(page, at, cs[0]) = [next |-> cs[Len(vals)] + 1, val |-> vals]
  BY <1>2, <1>9, ChainRead
<1> QED BY <1>2, <1>7, <1>10

(* The bytes of each of the elements vals. *)
Parts(Bf, vals) == [n \in DOMAIN vals |-> Bf[vals[n]]]

(* Each element, and what its bytes are, is a string like any other.       *)
LEMMA PartsType ==
  ASSUME NEW V, NEW Bf \in [V -> Str], NEW vals \in Seq(V)
  PROVE  /\ Parts(Bf, vals) \in Seq(Str) /\ Len(Parts(Bf, vals)) = Len(vals)
         /\ \A n \in 1 .. Len(vals) : vals[n] \in V /\ Parts(Bf, vals)[n] = Bf[vals[n]]
<1>1. DOMAIN vals = 1 .. Len(vals) /\ Len(vals) \in Nat /\ \A n \in 1 .. Len(vals) : vals[n] \in V
  BY LenProperties, ElementOfSeq
<1> DEFINE K == Len(vals)
           p == [n \in 1 .. K |-> Bf[vals[n]]]
<1>2. Parts(Bf, vals) = p
  BY <1>1 DEF Parts
<1>3. K \in Nat /\ \A n \in 1 .. K : Bf[vals[n]] \in Str
  BY <1>1
<1> HIDE DEF K
<1>4. p \in Seq(Str) /\ Len(p) = K
  BY <1>3
<1>5. \A n \in 1 .. K : p[n] = Bf[vals[n]]
  OBVIOUS
<1> QED BY <1>1, <1>2, <1>4, <1>5 DEF K

(* Where a list ends that was read from position from on: so far behind    *)
(* its beginning as its elements have bytes.                               *)
LEMMA ListTaken ==
  ASSUME NEW page \in Str, NEW at, Advances(page, at), NEW V, NEW Bf \in [V -> Str],
         \A c \in 1 .. Len(page) : page[c] # 0 /\ at[c].next # 0 =>
           at[c].val \in V /\ Len(Bf[at[c].val]) = at[c].next - c,
         NEW from \in 1 .. Len(page), ListAt(page, at, from).next # 0,
         NEW vals, vals = ListAt(page, at, from).val
  PROVE  /\ vals \in Seq(V)
         /\ Len(Bytes(Parts(Bf, vals))) \in Nat
         /\ ListAt(page, at, from).next = from + Len(Bytes(Parts(Bf, vals))) + 1
         /\ ListAt(page, at, from).next <= Len(page) + 1
<1> DEFINE list == ListAt(page, at, from)
<1>1. Len(page) \in Nat
  BY LenProperties DEF Str
<1>2. PICK l : l = ListAt(page, at, from)
  OBVIOUS
<1>3. \A c \in 1 .. Len(page) : page[c] # 0 /\ at[c].next # 0 => at[c].val \in V
  OBVIOUS
<1>4. /\ l.val \in Seq(V)
      /\ \E cs : Chain(page, at, cs, l.val) /\ cs[0] = from /\ cs[Len(l.val)] + 1 = l.next
  <2>1. l.next # 0
    BY <1>2
  <2>2. from \in 1 .. Len(page) /\ Advances(page, at) /\ Len(page) \in Nat
    BY <1>1
  <2>3. l.val \in Seq(V)
    BY <1>2, <1>3, <2>1, <2>2, ReadChain, ZenonT(30)
  <2>4. ReadAlong(page, at, from, l)
    BY <1>2, <1>3, <2>1, <2>2, ReadChain, ZenonT(30)
  <2> QED BY <2>3, <2>4 DEF ReadAlong
<1>5. vals \in Seq(V)
  BY <1>2, <1>4
<1>6. PICK cs : Chain(page, at, cs, vals) /\ cs[0] = from /\ cs[Len(vals)] + 1 = l.next
  BY <1>2, <1>4
<1> DEFINE parts == Parts(Bf, vals)
           N == Len(vals)
<1>7. parts \in Seq(Str) /\ Len(parts) = N /\ \A n \in 1 .. N : vals[n] \in V /\ parts[n] = Bf[vals[n]]
  BY <1>5, PartsType
<1>8. /\ N \in Nat /\ \A n \in 0 .. N : cs[n] \in 1 .. Len(page)
      /\ cs \in [0 .. N -> 1 .. Len(page)]
      /\ \A n \in 1 .. N : /\ page[cs[n - 1]] # 0
                          /\ at[cs[n - 1]].next = cs[n]
                          /\ at[cs[n - 1]].val = vals[n]
  BY <1>6 DEF Chain
<1> HIDE DEF parts, N
<1>9. ASSUME NEW n \in 1 .. N
      PROVE  cs[n] = cs[n - 1] + Len(parts[n])
  <2> DEFINE c == cs[n - 1]
             d == cs[n]
  <2>1. n - 1 \in 0 .. N /\ n \in 0 .. N
    BY <1>8
  <2>2. /\ c \in 1 .. Len(page) /\ page[c] # 0 /\ at[c].next = d /\ at[c].val = vals[n]
        /\ d \in 1 .. Len(page)
    BY <1>8, <2>1
  <2> HIDE DEF c, d
  <2>3. Len(Bf[at[c].val]) = at[c].next - c
    <3>1. at[c].next # 0
      BY <1>1, <2>2
    <3> QED BY <2>2, <3>1
  <2>4. Len(parts[n]) = d - c
    BY <1>7, <2>2, <2>3
  <2>5. d = c + Len(parts[n])
    BY <1>1, <2>2, <2>4
  <2> QED BY <2>5 DEF c, d
<1>10. Runs(cs, parts)
  <2>1. cs \in [0 .. N -> Nat]
    BY <1>1, <1>8
  <2> QED BY <1>7, <1>9, <2>1 DEF Runs
<1>11. PICK e : Ends(Bytes(parts), e, parts)
  BY <1>7, BytesEnds
<1>12. /\ Runs(e, parts) /\ e[0] = 0 /\ e[N] = Len(Bytes(parts))
       /\ \A n \in 0 .. N : e[n] \in Nat
  BY <1>7, <1>11 DEF Ends, Runs
<1>13. N \in 0 .. N
  BY <1>8
<1>14. cs[N] = from + Len(Bytes(parts)) /\ Len(Bytes(parts)) \in Nat
  <2>1. \A n \in 0 .. N : cs[n] = cs[0] + e[n]
    BY <1>7, <1>10, <1>12, SameDistance
  <2> QED BY <1>6, <1>12, <1>13, <2>1
<1>15. l.next = cs[N] + 1 /\ cs[N] \in 1 .. Len(page)
  BY <1>6, <1>8, <1>13 DEF N
<1>16. l.next = from + Len(Bytes(parts)) + 1 /\ l.next <= Len(page) + 1
  BY <1>1, <1>14, <1>15
<1> QED BY <1>2, <1>5, <1>14, <1>16 DEF parts

-----------------------------------------------------------------------------
(* Strings.                                                                *)

(* Where both of two strings lie when one is behind the other.             *)
LEMMA LaidBoth ==
  ASSUME NEW page \in Str, NEW c \in Nat \ {0}, NEW s \in Str, NEW t \in Str,
         Laid(page, c, s \o t)
  PROVE  Laid(page, c, s) /\ Laid(page, c + Len(s), t)
<1> DEFINE N == Len(page)
           K == Len(s)
           M == Len(t)
<1>1. /\ K \in Nat /\ M \in Nat /\ Len(s \o t) = K + M
      /\ \A j \in 1 .. K : (s \o t)[j] = s[j]
      /\ \A j \in 1 .. M : (s \o t)[K + j] = t[j]
  BY Behind
<1>2. N \in Nat
  BY LenProperties DEF Str
<1> HIDE DEF N, K, M
<1>3. \A j \in 1 .. K + M : c + j - 1 <= N => page[c + j - 1] = (s \o t)[j]
  BY <1>1 DEF Laid, N
<1>4. ASSUME NEW j \in 1 .. K, c + j - 1 <= N
      PROVE  page[c + j - 1] = s[j]
  <2>1. j \in 1 .. K + M
    BY <1>1
  <2> QED BY <1>1, <1>3, <1>4, <2>1
<1>5. ASSUME NEW j \in 1 .. M, c + K + j - 1 <= N
      PROVE  page[c + K + j - 1] = t[j]
  <2> DEFINE l == K + j
  <2>1. l \in 1 .. K + M /\ c + l - 1 = c + K + j - 1 /\ c + l - 1 <= N
    BY <1>1, <1>2, <1>5
  <2>2. page[c + l - 1] = (s \o t)[l]
    BY <1>3, <2>1
  <2> QED BY <1>1, <2>1, <2>2
<1> QED BY <1>4, <1>5 DEF Laid, K, M, N

(* The low byte of a number is a char, and is the number when that is one. *)
LEMMA Bytewise ==
  ASSUME NEW m \in Nat
  PROVE  LowByte(m) \in Char /\ (m < CharRange => LowByte(m) = m)
<1>1. CharRange \in Nat \ {0}
  BY CharRangeAssumption
<1> DEFINE w == 2 * CharRange
           b == m % w
<1>2. w \in Nat \ {0} /\ w = CharRange + CharRange
  BY <1>1
<1>3. b \in 0 .. w - 1
  BY <1>2
<1>4. m < CharRange => b = m
  BY <1>1, <1>2
<1>5. LowByte(m) = IF b < CharRange THEN b ELSE b - w
  BY DEF LowByte
<1> HIDE DEF b, w
<1> QED BY <1>1, <1>2, <1>3, <1>4, <1>5 DEF Char

(* A string is stored behind its length.                                   *)
LEMMA TextType ==
  ASSUME NEW s \in Str
  PROVE  /\ Len(s) \in Nat /\ Length(s) \in Char
         /\ Len(s) < CharRange => Length(s) = Len(s)
         /\ <<Length(s)>> \in Str
         /\ Text(s) \in Str /\ Len(Text(s)) = Len(s) + 1
         /\ Text(s)[1] = Length(s) /\ \A j \in 1 .. Len(s) : Text(s)[1 + j] = s[j]
<1>1. Len(s) \in Nat
  BY LenProperties DEF Str
<1>2. Length(s) \in Char /\ (Len(s) < CharRange => Length(s) = Len(s))
  BY <1>1, Bytewise DEF Length
<1> DEFINE one == <<Length(s)>>
<1>3. one \in Str /\ Len(one) = 1 /\ one[1] = Length(s)
  BY <1>2 DEF Str
<1>4. Text(s) = one \o s
  BY DEF Text
<1> HIDE DEF one
<1>5. /\ one \o s \in Str /\ Len(one \o s) = Len(one) + Len(s)
      /\ \A j \in 1 .. Len(one) : (one \o s)[j] = one[j]
      /\ \A j \in 1 .. Len(s) : (one \o s)[Len(one) + j] = s[j]
  BY <1>3, Behind
<1>6. /\ Text(s) \in Str /\ Len(Text(s)) = Len(s) + 1
      /\ Text(s)[1] = Length(s) /\ \A j \in 1 .. Len(s) : Text(s)[1 + j] = s[j]
  BY <1>1, <1>3, <1>4, <1>5
<1> QED BY <1>1, <1>2, <1>3, <1>6 DEF one

(* A text that is read is short, and stays on the page.                    *)
LEMMA TextRead ==
  ASSUME NEW page \in Str, NEW c \in Nat, IsText(page, c)
  PROVE  /\ c \in 1 .. Len(page) /\ page[c] \in Nat /\ page[c] < CharRange
         /\ TextAt(page, c) \in Str /\ Len(TextAt(page, c)) = page[c]
         /\ Len(Text(TextAt(page, c))) = page[c] + 1
         /\ After(page, c) \in c + 1 .. Len(page)
<1> DEFINE N == Len(page)
           d == page[c]
<1>1. N \in Nat /\ DOMAIN page = 1 .. N /\ \A j \in 1 .. N : page[j] \in Char
  BY LenProperties, ElementOfSeq DEF Str
<1>2. c \in 1 .. N /\ d >= 0 /\ c + d < N
  BY <1>1 DEF IsText
<1>3. d \in Nat /\ d < CharRange
  <2>1. CharRange \in Nat /\ d \in Char
    BY <1>1, <1>2, CharRangeAssumption
  <2> HIDE DEF d
  <2> QED BY <1>2, <2>1 DEF Char
<1> HIDE DEF d, N
<1> DEFINE a == c + 1
           b == c + d
<1>4. a \in Nat \ {0} /\ b \in Nat /\ b <= N /\ a <= b + 1 /\ b - a + 1 = d
  BY <1>1, <1>2, <1>3
<1>5. TextAt(page, c) = SubSeq(page, a, b)
  BY DEF TextAt, d
<1> HIDE DEF a, b
<1>6. TextAt(page, c) \in Str /\ Len(TextAt(page, c)) = d
  BY <1>4, <1>5, Part DEF N
<1>7. Len(Text(TextAt(page, c))) = d + 1
  BY <1>6, TextType
<1>8. After(page, c) \in c + 1 .. N
  BY <1>1, <1>2, <1>3 DEF After, d
<1> QED BY <1>2, <1>3, <1>6, <1>7, <1>8 DEF d, N

(* A short string that lies on the page is the text read there.            *)
LEMMA TextLaid ==
  ASSUME NEW page \in Str, NEW c \in Nat \ {0}, NEW s \in Str, Len(s) < CharRange,
         Laid(page, c, Text(s)), c + Len(s) < Len(page)
  PROVE  /\ c \in 1 .. Len(page) /\ page[c] = Len(s) /\ IsText(page, c)
         /\ TextAt(page, c) = s /\ After(page, c) = c + Len(s) + 1
<1> DEFINE N == Len(page)
           K == Len(s)
<1>1. N \in Nat /\ DOMAIN page = 1 .. N /\ K \in Nat
  BY LenProperties, ElementOfSeq DEF Str
<1>2. /\ Len(Text(s)) = K + 1 /\ Text(s)[1] = K
      /\ \A j \in 1 .. K : Text(s)[1 + j] = s[j]
  BY TextType
<1>3. c \in 1 .. N /\ c + K < N
  BY <1>1
<1> HIDE DEF N, K
<1>4. \A j \in 1 .. K + 1 : c + j - 1 <= N => page[c + j - 1] = Text(s)[j]
  BY <1>2 DEF Laid, N
<1>5. page[c] = K
  <2>1. 1 \in 1 .. K + 1 /\ c + 1 - 1 = c /\ c <= N
    BY <1>1, <1>3
  <2> QED BY <1>2, <1>4, <2>1
<1>6. IsText(page, c)
  BY <1>1, <1>3, <1>5 DEF IsText, N
<1>7. TextAt(page, c) \in Str /\ Len(TextAt(page, c)) = K
  BY <1>5, <1>6, TextRead
<1>8. ASSUME NEW j \in 1 .. K
      PROVE  TextAt(page, c)[j] = s[j]
  <2> DEFINE a == c + 1
             b == c + K
             l == 1 + j
  <2>1. /\ a \in Nat \ {0} /\ b \in Nat /\ b <= N /\ a <= b + 1 /\ b - a + 1 = K
        /\ a + j - 1 = c + l - 1 /\ l \in 1 .. K + 1 /\ c + l - 1 <= N
    BY <1>1, <1>3
  <2>2. TextAt(page, c) = SubSeq(page, a, b)
    BY <1>5 DEF TextAt
  <2>3. page[c + l - 1] = Text(s)[l] /\ Text(s)[l] = s[j]
    BY <1>2, <1>4, <2>1
  <2> HIDE DEF a, b, l
  <2>4. \A m \in 1 .. b - a + 1 : SubSeq(page, a, b)[m] = page[a + m - 1]
    BY <2>1, Part DEF N
  <2> QED BY <2>1, <2>2, <2>3, <2>4
<1>9. TextAt(page, c) = s
  <2>1. TextAt(page, c) \in Seq(Char) /\ s \in Seq(Char)
    BY <1>7 DEF Str
  <2> QED BY <1>7, <1>8, <2>1, SameString DEF K
<1>10. After(page, c) = c + K + 1
  BY <1>5 DEF After
<1> QED BY <1>3, <1>5, <1>6, <1>9, <1>10 DEF K, N

-----------------------------------------------------------------------------
(* Edges and attributes.                                                   *)

(* Edges as they may be on a page, and those that can be read. *)
Arc == {e \in [name : Str, id : Char] : e.name # << >>}
ShortArc == {e \in Arc : Len(e.name) < CharRange}

(* Attributes as they may be on a page, and those that can be read. *)
Att == {a \in [name : Str, val : [type : Char, v : Str]] :
          a.name # << >> /\ (a.val.type # string => Len(a.val.v) = 1)}
ShortAtt == {a \in Att : /\ Len(a.name) < CharRange
                         /\ a.val.type = string => Len(a.val.v) < CharRange}

(* One character is a string. *)
LEMMA OneChar ==
  ASSUME NEW x \in Char
  PROVE  <<x>> \in Str /\ Len(<<x>>) = 1 /\ <<x>>[1] = x
BY DEF Str

(* The bytes of an edge are a string. *)
LEMMA EdgeType ==
  ASSUME NEW e \in Arc
  PROVE  /\ e.name \in Str /\ e.id \in Char /\ e.name # << >> /\ Len(e.name) \in Nat \ {0}
         /\ EdgeBytes(e) \in Str /\ Len(EdgeBytes(e)) = Len(e.name) + 2
<1>1. e.name \in Str /\ e.id \in Char /\ e.name # << >>
  BY DEF Arc
<1>2. Len(e.name) \in Nat \ {0}
  <2>1. Len(e.name) \in Nat /\ Len(e.name) # 0
    BY <1>1, EmptySeq, LenProperties DEF Str
  <2> QED BY <2>1
<1> DEFINE t == Text(e.name)
           one == <<e.id>>
<1>3. t \in Str /\ Len(t) = Len(e.name) + 1
  BY <1>1, TextType
<1>4. one \in Str /\ Len(one) = 1
  BY <1>1, OneChar
<1>5. EdgeBytes(e) = t \o one
  BY DEF EdgeBytes
<1> HIDE DEF t, one
<1>6. t \o one \in Str /\ Len(t \o one) = Len(t) + Len(one)
  BY <1>3, <1>4, Behind
<1> QED BY <1>1, <1>2, <1>3, <1>4, <1>5, <1>6

EdgesAt(page) == [c \in DOMAIN page |-> EdgeAt(page, c)]

(* Reading an edge takes as many bytes as it has.                          *)
LEMMA EdgeRead ==
  ASSUME NEW page \in Str
  PROVE  /\ Advances(page, EdgesAt(page))
         /\ \A c \in 1 .. Len(page) : page[c] # 0 /\ EdgesAt(page)[c].next # 0 =>
              /\ EdgesAt(page)[c].val \in ShortArc
              /\ Len(EdgeBytes(EdgesAt(page)[c].val)) = EdgesAt(page)[c].next - c
<1> DEFINE N == Len(page)
<1>1. N \in Nat /\ DOMAIN page = 1 .. N /\ \A j \in 1 .. N : page[j] \in Char
  BY LenProperties, ElementOfSeq DEF Str
<1>2. ASSUME NEW c \in 1 .. N
      PROVE  /\ EdgeAt(page, c).next \in {0} \cup (c + 1 .. N)
             /\ page[c] # 0 /\ EdgeAt(page, c).next # 0 =>
                  /\ EdgeAt(page, c).val \in ShortArc
                  /\ Len(EdgeBytes(EdgeAt(page, c).val)) = EdgeAt(page, c).next - c
  <2> DEFINE s == TextAt(page, c)
             t == After(page, c)
             e == [name |-> s, id |-> page[t]]
  <2>1. CASE ~(IsText(page, c) /\ t < N)
    <3>1. EdgeAt(page, c) = [next |-> 0, val |-> << >>]
      BY <2>1 DEF EdgeAt
    <3> QED BY <3>1
  <2>2. CASE IsText(page, c) /\ t < N
    <3>1. EdgeAt(page, c) = [next |-> t + 1, val |-> e]
      BY <2>2 DEF EdgeAt
    <3>2. /\ page[c] \in Nat /\ page[c] < CharRange
          /\ s \in Str /\ Len(s) = page[c] /\ t \in c + 1 .. N /\ c \in Nat
      BY <1>1, <2>2, TextRead
    <3>3. t = c + page[c] + 1
      BY DEF After
    <3>4. page[t] \in Char
      BY <1>1, <3>2
    <3>5. ASSUME page[c] # 0
          PROVE  e \in ShortArc
      <4>1. s # << >>
        BY <3>2, <3>5, EmptySeq
      <4> HIDE DEF s, t
      <4> QED BY <3>2, <3>4, <4>1 DEF Arc, ShortArc
    <3>6. ASSUME page[c] # 0
          PROVE  Len(EdgeBytes(e)) = page[c] + 2
      <4>1. e \in Arc
        BY <3>5, <3>6 DEF ShortArc
      <4> HIDE DEF e
      <4>2. Len(EdgeBytes(e)) = Len(e.name) + 2
        BY <4>1, EdgeType
      <4>3. e.name = s
        BY DEF e
      <4> QED BY <3>2, <4>2, <4>3
    <3> HIDE DEF e, s
    <3>7. t + 1 \in c + 1 .. N /\ t + 1 - c = page[c] + 2
      <4> HIDE DEF t
      <4> QED BY <1>1, <2>2, <3>2, <3>3
    <3> HIDE DEF t
    <3>8. EdgeAt(page, c).next = t + 1 /\ EdgeAt(page, c).val = e
      BY <3>1
    <3>9. ASSUME page[c] # 0
          PROVE  /\ EdgeAt(page, c).val \in ShortArc
                 /\ Len(EdgeBytes(EdgeAt(page, c).val)) = EdgeAt(page, c).next - c
      <4>1. Len(EdgeBytes(e)) = t + 1 - c
        BY <3>6, <3>7, <3>9
      <4>2. EdgeAt(page, c).val \in ShortArc
        BY <3>5, <3>8, <3>9
      <4>3. Len(EdgeBytes(EdgeAt(page, c).val)) = EdgeAt(page, c).next - c
        BY <3>2, <3>8, <4>1
      <4> QED BY <4>2, <4>3
    <3>10. EdgeAt(page, c).next \in {0} \cup (c + 1 .. N)
      BY <3>7, <3>8
    <3> QED BY <3>9, <3>10
  <2> QED BY <2>1, <2>2
<1> QED BY <1>1, <1>2 DEF Advances, EdgesAt

(* A short edge that lies on the page is read back.                        *)
LEMMA EdgeLaid ==
  ASSUME NEW page \in Str, NEW c \in Nat \ {0}, NEW e \in ShortArc,
         Laid(page, c, EdgeBytes(e)), c + Len(EdgeBytes(e)) <= Len(page)
  PROVE  /\ page[c] # 0
         /\ EdgesAt(page)[c].next = c + Len(EdgeBytes(e)) /\ EdgesAt(page)[c].val = e
<1> DEFINE N == Len(page)
           s == e.name
           one == <<e.id>>
           t == c + Len(s) + 1
<1>1. N \in Nat /\ DOMAIN page = 1 .. N
  BY LenProperties DEF Str
<1>2. /\ s \in Str /\ e.id \in Char /\ Len(s) \in Nat \ {0} /\ Len(s) < CharRange
      /\ Len(EdgeBytes(e)) = Len(s) + 2
  BY EdgeType DEF ShortArc
<1>3. e = [name |-> s, id |-> e.id]
  BY DEF ShortArc, Arc
<1>4. EdgeBytes(e) = Text(s) \o one
  BY DEF EdgeBytes
<1>5. Text(s) \in Str /\ Len(Text(s)) = Len(s) + 1 /\ one \in Str /\ Len(one) = 1 /\ one[1] = e.id
  BY <1>2, TextType, OneChar
<1> HIDE DEF N, s, one
<1>6. Laid(page, c, Text(s)) /\ Laid(page, c + Len(Text(s)), one)
  BY <1>4, <1>5, LaidBoth
<1>7. /\ c + Len(s) < N /\ t \in 1 .. N /\ t < N /\ c + Len(Text(s)) = t
      /\ t + 1 = c + Len(EdgeBytes(e))
  BY <1>1, <1>2, <1>5 DEF N
<1>8. /\ c \in 1 .. N /\ page[c] = Len(s) /\ IsText(page, c)
      /\ TextAt(page, c) = s /\ After(page, c) = t
  BY <1>2, <1>6, <1>7, TextLaid DEF N
<1>9. page[t] = e.id
  <2>1. Laid(page, t, one)
    BY <1>6, <1>7
  <2> HIDE DEF t
  <2>2. 1 \in 1 .. Len(one) /\ t + 1 - 1 = t /\ t <= Len(page)
    BY <1>1, <1>5, <1>7 DEF N
  <2> QED BY <1>5, <2>1, <2>2 DEF Laid
<1>10. EdgeAt(page, c) = [next |-> t + 1, val |-> [name |-> s, id |-> e.id]]
  BY <1>7, <1>8, <1>9 DEF EdgeAt, N
<1>11. EdgesAt(page)[c] = EdgeAt(page, c)
  BY <1>1, <1>8 DEF EdgesAt
<1> HIDE DEF t
<1> QED BY <1>2, <1>3, <1>7, <1>8, <1>10, <1>11

ValueBytes(val) == IF val.type = string THEN Text(val.v) ELSE val.v

(* The bytes of an attribute are a string. *)
LEMMA AttributeType ==
  ASSUME NEW a \in Att
  PROVE  /\ a.name \in Str /\ a.name # << >> /\ Len(a.name) \in Nat \ {0}
         /\ a.val.type \in Char /\ a.val.v \in Str
         /\ a.val.type # string => Len(a.val.v) = 1
         /\ ValueBytes(a.val) \in Str
         /\ Len(ValueBytes(a.val)) = IF a.val.type = string THEN Len(a.val.v) + 1 ELSE 1
         /\ AttributeBytes(a) = Text(a.name) \o <<a.val.type>> \o ValueBytes(a.val)
         /\ AttributeBytes(a) \in Str
         /\ Len(AttributeBytes(a)) = Len(a.name) + 2 + Len(ValueBytes(a.val))
<1>1. /\ a.name \in Str /\ a.name # << >> /\ a.val.type \in Char /\ a.val.v \in Str
      /\ a.val.type # string => Len(a.val.v) = 1
  BY DEF Att
<1>2. Len(a.name) \in Nat \ {0}
  <2>1. Len(a.name) \in Nat /\ Len(a.name) # 0
    BY <1>1, EmptySeq, LenProperties DEF Str
  <2> QED BY <2>1
<1> DEFINE n == Text(a.name)
           one == <<a.val.type>>
           v == ValueBytes(a.val)
<1>3. n \in Str /\ Len(n) = Len(a.name) + 1
  BY <1>1, TextType
<1>4. one \in Str /\ Len(one) = 1
  BY <1>1, OneChar
<1>5. Text(a.val.v) \in Str /\ Len(Text(a.val.v)) = Len(a.val.v) + 1 /\ Len(a.val.v) \in Nat
  BY <1>1, TextType
<1>6. v \in Str /\ Len(v) = IF a.val.type = string THEN Len(a.val.v) + 1 ELSE 1
  BY <1>1, <1>5 DEF ValueBytes
<1>7. AttributeBytes(a) = n \o one \o v
  BY DEF AttributeBytes, ValueBytes
<1> HIDE DEF n, one, v
<1>8. n \o one \in Str /\ Len(n \o one) = Len(n) + Len(one)
  BY <1>3, <1>4, Behind
<1>9. /\ (n \o one) \o v \in Str /\ Len((n \o one) \o v) = Len(n \o one) + Len(v)
      /\ Len(v) \in Nat
  <2> DEFINE s == n \o one
  <2>1. s \in Str
    BY <1>8
  <2> HIDE DEF s
  <2>2. s \o v \in Str /\ Len(s \o v) = Len(s) + Len(v) /\ Len(v) \in Nat
    BY <1>6, <2>1, Behind
  <2> QED BY <2>2 DEF s
<1>10. AttributeBytes(a) \in Str /\ Len(AttributeBytes(a)) = Len(a.name) + 2 + Len(v)
  BY <1>2, <1>3, <1>4, <1>7, <1>8, <1>9
<1> QED BY <1>1, <1>2, <1>6, <1>7, <1>10 DEF n, one, v

AttributesAt(page) == [c \in DOMAIN page |-> AttributeAt(page, c)]

(* Reading an attribute takes as many bytes as it has.                     *)
LEMMA AttributeRead ==
  ASSUME NEW page \in Str
  PROVE  /\ Advances(page, AttributesAt(page))
         /\ \A c \in 1 .. Len(page) : page[c] # 0 /\ AttributesAt(page)[c].next # 0 =>
              /\ AttributesAt(page)[c].val \in ShortAtt
              /\ Len(AttributeBytes(AttributesAt(page)[c].val)) = AttributesAt(page)[c].next - c
<1> DEFINE N == Len(page)
<1>1. N \in Nat /\ DOMAIN page = 1 .. N /\ \A j \in 1 .. N : page[j] \in Char
  BY LenProperties, ElementOfSeq DEF Str
<1> DEFINE Good(c, x) ==
             /\ x.next \in {0} \cup (c + 1 .. N)
             /\ page[c] # 0 /\ x.next # 0 =>
                  x.val \in ShortAtt /\ Len(AttributeBytes(x.val)) = x.next - c
<1>2. ASSUME NEW c \in 1 .. N, NEW u \in Nat, NEW v \in Str, NEW x,
             IsText(page, c),
             x = [next |-> u, val |-> [name |-> TextAt(page, c),
                                       val |-> [type |-> page[After(page, c)], v |-> v]]],
             u <= N,
             \/ /\ page[After(page, c)] = string /\ Len(v) < CharRange
                /\ u = After(page, c) + 2 + Len(v)
             \/ /\ page[After(page, c)] # string /\ Len(v) = 1
                /\ u = After(page, c) + 2
      PROVE  Good(c, x)
  <2> DEFINE s == TextAt(page, c)
             t == After(page, c)
             val == [type |-> page[t], v |-> v]
             a == [name |-> s, val |-> val]
  <2>1. /\ page[c] \in Nat /\ page[c] < CharRange
        /\ s \in Str /\ Len(s) = page[c] /\ t \in c + 1 .. N /\ c \in Nat
    BY <1>1, <1>2, TextRead
  <2>2. t = c + page[c] + 1 /\ t \in Nat
    BY <1>1, <2>1 DEF After
  <2>3. page[t] \in Char /\ Len(v) \in Nat
    BY <1>1, <2>1, LenProperties DEF Str
  <2>4. x.next = u /\ x.val = a
    BY <1>2
  <2>5. \/ page[t] = string /\ Len(v) < CharRange /\ u = t + 2 + Len(v)
        \/ page[t] # string /\ Len(v) = 1 /\ u = t + 2
    BY <1>2
  <2> HIDE DEF s, t
  <2>6. val.type = page[t] /\ val.v = v /\ a.name = s /\ a.val = val
    OBVIOUS
  <2>7. ASSUME page[c] # 0
        PROVE  a \in ShortAtt
    <3>1. s # << >>
      BY <2>1, <2>7, EmptySeq
    <3>2. val \in [type : Char, v : Str]
      BY <2>3
    <3> HIDE DEF val
    <3>3. a \in [name : Str, val : [type : Char, v : Str]]
      BY <2>1, <3>2
    <3> HIDE DEF a
    <3>4. a \in Att
      BY <2>5, <2>6, <3>1, <3>3 DEF Att
    <3> QED BY <2>1, <2>5, <2>6, <3>4 DEF ShortAtt
  <2> HIDE DEF a, val
  <2>8. ASSUME page[c] # 0
        PROVE  Len(AttributeBytes(a)) = u - c
    <3>1. a \in Att
      BY <2>7, <2>8 DEF ShortAtt
    <3>2. /\ Len(AttributeBytes(a)) = Len(a.name) + 2 + Len(ValueBytes(a.val))
          /\ Len(ValueBytes(a.val)) = IF a.val.type = string THEN Len(a.val.v) + 1 ELSE 1
      BY <3>1, AttributeType
    <3>3. /\ Len(AttributeBytes(a)) = page[c] + 2 + Len(ValueBytes(a.val))
          /\ Len(ValueBytes(a.val)) = IF page[t] = string THEN Len(v) + 1 ELSE 1
      BY <2>1, <2>6, <3>2
    <3> DEFINE d == page[c]
               l == Len(v)
               m == Len(ValueBytes(a.val))
    <3>4. /\ m = IF page[t] = string THEN l + 1 ELSE 1
          /\ t = c + d + 1 /\ d \in Nat /\ l \in Nat /\ c \in Nat
          /\ \/ page[t] = string /\ u = t + 2 + l
             \/ page[t] # string /\ u = t + 2
      BY <2>1, <2>2, <2>3, <2>5, <3>3
    <3> HIDE DEF d, l, m
    <3>5. d + 2 + m = u - c
      BY <3>4
    <3> QED BY <3>3, <3>5 DEF d, m
  <2>9. u \in c + 1 .. N
    BY <1>1, <1>2, <2>1, <2>2, <2>3, <2>5
  <2>10. Len(AttributeBytes(x.val)) = Len(AttributeBytes(a)) /\ x.next - c = u - c
    BY <2>1, <2>4
  <2> QED BY <2>4, <2>7, <2>8, <2>9, <2>10
<1>3. ASSUME NEW c \in 1 .. N
      PROVE  Good(c, AttributeAt(page, c))
  <2> DEFINE t == After(page, c)
             bad == [next |-> 0, val |-> << >>]
  <2>1. Good(c, bad)
    OBVIOUS
  <2> HIDE DEF Good
  <2>2. CASE ~IsText(page, c)
    BY <2>1, <2>2 DEF AttributeAt
  <2>3. CASE IsText(page, c) /\ page[t] = string /\ ~IsText(page, t + 1)
    BY <2>1, <2>3 DEF AttributeAt
  <2>4. CASE IsText(page, c) /\ page[t] # string /\ ~(t + 1 < N)
    BY <2>1, <2>4 DEF AttributeAt
  <2>5. CASE IsText(page, c) /\ page[t] = string /\ IsText(page, t + 1)
    <3> DEFINE v == TextAt(page, t + 1)
               u == After(page, t + 1)
               x == AttributeAt(page, c)
    <3>1. x = [next |-> u, val |-> [name |-> TextAt(page, c), val |-> [type |-> page[t], v |-> v]]]
      BY <2>5 DEF AttributeAt
    <3>2. t \in Nat
      BY <1>1, <2>5, TextRead
    <3>3. /\ page[t + 1] \in Nat /\ page[t + 1] < CharRange
          /\ v \in Str /\ Len(v) = page[t + 1] /\ u \in t + 2 .. N
      <4> DEFINE d == t + 1
      <4>1. d \in Nat /\ IsText(page, d)
        BY <2>5, <3>2
      <4> HIDE DEF d
      <4>2. /\ page[d] \in Nat /\ page[d] < CharRange
            /\ TextAt(page, d) \in Str /\ Len(TextAt(page, d)) = page[d]
            /\ After(page, d) \in d + 1 .. N
        BY <4>1, TextRead
      <4> QED BY <3>2, <4>2 DEF d
    <3>4. u = t + 2 + Len(v) /\ u \in Nat /\ u <= N
      <4>1. u = (t + 1) + page[t + 1] + 1
        BY DEF After
      <4> HIDE DEF u, v, t
      <4> QED BY <1>1, <3>2, <3>3, <4>1
    <3> HIDE DEF u, v, x
    <3>5. Good(c, x)
      BY <1>2, <2>5, <3>1, <3>3, <3>4
    <3> QED BY <3>5 DEF x
  <2>6. CASE IsText(page, c) /\ page[t] # string /\ t + 1 < N
    <3> DEFINE v == <<page[t + 1]>>
               u == t + 2
               x == AttributeAt(page, c)
    <3>1. x = [next |-> u, val |-> [name |-> TextAt(page, c), val |-> [type |-> page[t], v |-> v]]]
      BY <2>6 DEF AttributeAt
    <3>2. t \in Nat
      BY <1>1, <2>6, TextRead
    <3>3. page[t + 1] \in Char
      <4>1. t + 1 \in 1 .. N
        BY <1>1, <2>6, <3>2
      <4> QED BY <1>1, <4>1
    <3>4. v \in Str /\ Len(v) = 1
      BY <3>3, OneChar
    <3>5. u \in Nat /\ u <= N
      BY <1>1, <2>6, <3>2
    <3> HIDE DEF v, x
    <3>6. Good(c, x)
      BY <1>2, <2>6, <3>1, <3>4, <3>5
    <3> QED BY <3>6 DEF x
  <2> QED BY <2>2, <2>3, <2>4, <2>5, <2>6
<1> QED BY <1>1, <1>3 DEF Advances, AttributesAt

(* A short attribute that lies on the page is read back.                   *)
LEMMA AttributeLaid ==
  ASSUME NEW page \in Str, NEW c \in Nat \ {0}, NEW a \in ShortAtt,
         Laid(page, c, AttributeBytes(a)), c + Len(AttributeBytes(a)) <= Len(page)
  PROVE  /\ page[c] # 0
         /\ AttributesAt(page)[c].next = c + Len(AttributeBytes(a))
         /\ AttributesAt(page)[c].val = a
<1> DEFINE N == Len(page)
           s == a.name
           type == a.val.type
           v == a.val.v
           w == ValueBytes(a.val)
           one == <<type>>
           t == c + Len(s) + 1
<1>1. N \in Nat /\ DOMAIN page = 1 .. N
  BY LenProperties DEF Str
<1>2. a \in Att /\ Len(s) < CharRange /\ (type = string => Len(v) < CharRange)
  BY DEF ShortAtt
<1>3. /\ s \in Str /\ Len(s) \in Nat \ {0} /\ type \in Char /\ v \in Str
      /\ type # string => Len(v) = 1
      /\ w \in Str /\ Len(w) = IF type = string THEN Len(v) + 1 ELSE 1
      /\ AttributeBytes(a) = (Text(s) \o one) \o w
      /\ Len(AttributeBytes(a)) = Len(s) + 2 + Len(w)
  BY <1>2, AttributeType
<1>4. a = [name |-> s, val |-> [type |-> type, v |-> v]]
  BY DEF ShortAtt, Att
<1>5. w = IF type = string THEN Text(v) ELSE v
  BY DEF ValueBytes
<1>6. /\ Text(s) \in Str /\ Len(Text(s)) = Len(s) + 1
      /\ one \in Str /\ Len(one) = 1 /\ one[1] = type
      /\ Len(v) \in Nat
  BY <1>3, TextType, OneChar
<1> HIDE DEF N, s, type, v, w, one
<1> DEFINE p == Text(s) \o one
<1>7. p \in Str /\ Len(p) = Len(s) + 2
  <2>1. p \in Str /\ Len(p) = Len(Text(s)) + Len(one)
    BY <1>6, Behind
  <2> QED BY <1>3, <1>6, <2>1
<1>8. Laid(page, c, p) /\ Laid(page, c + Len(p), w)
  <2>1. AttributeBytes(a) = p \o w
    BY <1>3
  <2> HIDE DEF p
  <2> QED BY <1>3, <1>7, <2>1, LaidBoth
<1>9. Laid(page, c, Text(s)) /\ Laid(page, c + Len(Text(s)), one)
  BY <1>6, <1>8, LaidBoth
<1> HIDE DEF p
<1>10. /\ c + Len(s) < N /\ t \in 1 .. N /\ c + Len(Text(s)) = t /\ t + 1 <= N
       /\ c + Len(p) = t + 1 /\ t \in Nat /\ Len(w) \in Nat \ {0}
       /\ c + Len(AttributeBytes(a)) = t + 1 + Len(w)
       /\ t + 1 + Len(w) <= N
  <2> DEFINE ls == Len(s)
             lw == Len(w)
             lb == Len(AttributeBytes(a))
             lt == Len(Text(s))
             lp == Len(p)
  <2>1. /\ ls \in Nat \ {0} /\ lw \in Nat \ {0} /\ lb = ls + 2 + lw /\ lt = ls + 1
        /\ lp = ls + 2 /\ c + lb <= N /\ t = c + ls + 1
    <3>1. ls \in Nat \ {0} /\ lb = ls + 2 + lw /\ lt = ls + 1 /\ lp = ls + 2
      BY <1>3, <1>6, <1>7
    <3>2. lw \in Nat \ {0}
      <4>1. lw = (IF type = string THEN Len(v) + 1 ELSE 1) /\ Len(v) \in Nat
        BY <1>3, <1>6
      <4> HIDE DEF lw
      <4> QED BY <4>1
    <3>3. c + lb <= N
      BY DEF N
    <3> QED BY <3>1, <3>2, <3>3
  <2> HIDE DEF t, ls, lw, lb, lt, lp
  <2>2. /\ c + ls < N /\ t \in 1 .. N /\ c + lt = t /\ t + 1 <= N
        /\ c + lp = t + 1 /\ t \in Nat /\ lw \in Nat \ {0}
        /\ c + lb = t + 1 + lw /\ t + 1 + lw <= N
    BY <1>1, <2>1
  <2> QED BY <2>2 DEF ls, lw, lb, lt, lp
<1>11. /\ c \in 1 .. N /\ page[c] = Len(s) /\ IsText(page, c)
       /\ TextAt(page, c) = s /\ After(page, c) = t
  BY <1>2, <1>3, <1>9, <1>10, TextLaid DEF N, s
<1>12. page[t] = type
  <2>1. Laid(page, t, one)
    BY <1>9, <1>10
  <2> HIDE DEF t
  <2>2. 1 \in 1 .. Len(one) /\ t + 1 - 1 = t /\ t <= Len(page)
    BY <1>1, <1>6, <1>10 DEF N
  <2> QED BY <1>6, <2>1, <2>2 DEF Laid
<1> DEFINE d == t + 1
<1>13. d \in Nat \ {0} /\ Laid(page, d, w) /\ d + Len(w) <= N
  BY <1>8, <1>10
<1>14. AttributeAt(page, c) = [next |-> d + Len(w), val |-> a]
  <2>1. CASE type = string
    <3>1. w = Text(v) /\ Len(w) = Len(v) + 1 /\ Len(v) < CharRange
      BY <1>2, <1>3, <1>5, <2>1 DEF v, type
    <3> HIDE DEF t, d
    <3>2. d + Len(v) < Len(page)
      BY <1>1, <1>6, <1>13, <3>1 DEF N
    <3>3. /\ IsText(page, d) /\ TextAt(page, d) = v
          /\ After(page, d) = d + Len(v) + 1
      BY <1>3, <1>13, <3>1, <3>2, TextLaid
    <3>4. After(page, d) = d + Len(w)
      BY <1>6, <1>13, <3>1, <3>3
    <3> QED BY <1>4, <1>11, <1>12, <2>1, <3>3, <3>4 DEF AttributeAt, d
  <2>2. CASE type # string
    <3>1. w = v /\ Len(w) = 1 /\ Len(v) = 1
      BY <1>3, <1>5, <2>2
    <3>2. page[d] = v[1]
      <4> HIDE DEF d
      <4>1. 1 \in 1 .. Len(w) /\ d + 1 - 1 = d /\ d <= Len(page)
        BY <1>1, <1>13, <3>1 DEF N
      <4> QED BY <1>13, <3>1, <4>1 DEF Laid
    <3>3. <<page[d]>> = v
      <4> DEFINE x == <<page[d]>>
      <4>1. d \in 1 .. N
        BY <1>1, <1>13, <3>1
      <4>2. page[d] \in Char
        BY <1>1, <4>1, ElementOfSeq DEF Str, N
      <4> HIDE DEF d
      <4>3. x \in Seq(Char) /\ Len(x) = 1 /\ x[1] = page[d]
        BY <4>2
      <4>4. v \in Seq(Char) /\ \A j \in 1 .. 1 : j = 1
        BY <1>3 DEF Str
      <4> HIDE DEF x
      <4>5. x = v
        BY <3>1, <3>2, <4>3, <4>4, SameString
      <4> QED BY <4>5 DEF x
    <3>4. t + 1 < N /\ t + 2 = d + Len(w)
      BY <1>1, <1>10, <3>1
    <3>5. AttributeAt(page, c) =
            [next |-> t + 2, val |-> [name |-> s, val |-> [type |-> type, v |-> <<page[t + 1]>>]]]
      BY <1>11, <1>12, <2>2, <3>4 DEF AttributeAt, N
    <3> QED BY <1>4, <3>3, <3>4, <3>5
  <2> QED BY <2>1, <2>2
<1>15. AttributesAt(page)[c] = AttributeAt(page, c)
  BY <1>1, <1>11 DEF AttributesAt
<1>16. d + Len(w) = c + Len(AttributeBytes(a))
  BY <1>10
<1> HIDE DEF t, d
<1>17. page[c] # 0
  BY <1>3, <1>11
<1> QED BY <1>14, <1>15, <1>16, <1>17

-----------------------------------------------------------------------------
(* Lists of both.                                                          *)

AttributeParts(vals) == [n \in DOMAIN vals |-> AttributeBytes(vals[n])]
EdgeParts(vals) == [n \in DOMAIN vals |-> EdgeBytes(vals[n])]

(* The bytes of a list of attributes are a string. *)
LEMMA AttributesType ==
  ASSUME NEW vals \in Seq(Att)
  PROVE  Bytes(AttributeParts(vals)) \in Str /\ Len(Bytes(AttributeParts(vals))) \in Nat
<1> DEFINE Bf == [a \in Att |-> AttributeBytes(a)]
           parts == AttributeParts(vals)
<1>1. Bf \in [Att -> Str]
  <2>1. \A a \in Att : AttributeBytes(a) \in Str
    BY AttributeType
  <2> QED BY <2>1
<1>2. DOMAIN vals = 1 .. Len(vals) /\ \A n \in 1 .. Len(vals) : vals[n] \in Att
  BY ElementOfSeq
<1>3. parts = Parts(Bf, vals)
  BY <1>2 DEF Parts, AttributeParts
<1> HIDE DEF Bf, parts
<1>4. parts \in Seq(Str)
  BY <1>1, <1>3, PartsType
<1>5. PICK at : Ends(Bytes(parts), at, parts)
  BY <1>4, BytesEnds
<1>6. Bytes(parts) \in Str
  BY <1>5 DEF Ends
<1>7. Len(Bytes(parts)) \in Nat
  BY <1>6, LenProperties DEF Str
<1> QED BY <1>6, <1>7 DEF parts

(* The bytes of a list of edges are a string. *)
LEMMA EdgesType ==
  ASSUME NEW vals \in Seq(Arc)
  PROVE  Bytes(EdgeParts(vals)) \in Str /\ Len(Bytes(EdgeParts(vals))) \in Nat
<1> DEFINE Bf == [e \in Arc |-> EdgeBytes(e)]
           parts == EdgeParts(vals)
<1>1. Bf \in [Arc -> Str]
  <2>1. \A e \in Arc : EdgeBytes(e) \in Str
    BY EdgeType
  <2> QED BY <2>1
<1>2. DOMAIN vals = 1 .. Len(vals) /\ \A n \in 1 .. Len(vals) : vals[n] \in Arc
  BY ElementOfSeq
<1>3. parts = Parts(Bf, vals)
  BY <1>2 DEF Parts, EdgeParts
<1> HIDE DEF Bf, parts
<1>4. parts \in Seq(Str)
  BY <1>1, <1>3, PartsType
<1>5. PICK at : Ends(Bytes(parts), at, parts)
  BY <1>4, BytesEnds
<1>6. Bytes(parts) \in Str
  BY <1>5 DEF Ends
<1>7. Len(Bytes(parts)) \in Nat
  BY <1>6, LenProperties DEF Str
<1> QED BY <1>6, <1>7 DEF parts

(* Attributes that are read are short, and take the bytes they have.       *)
LEMMA AttributesTaken ==
  ASSUME NEW page \in Str, NEW from \in 1 .. Len(page), NEW list,
         list = ListAt(page, AttributesAt(page), from), list.next # 0
  PROVE  /\ list.val \in Seq(ShortAtt)
         /\ Len(Bytes(AttributeParts(list.val))) \in Nat
         /\ list.next = from + Len(Bytes(AttributeParts(list.val))) + 1
         /\ list.next <= Len(page) + 1
<1> DEFINE Bf == [a \in ShortAtt |-> AttributeBytes(a)]
           at == AttributesAt(page)
           vals == list.val
<1>1. Bf \in [ShortAtt -> Str]
  <2>1. \A a \in ShortAtt : AttributeBytes(a) \in Str
    BY AttributeType DEF ShortAtt
  <2> QED BY <2>1
<1>2. Advances(page, at)
  BY AttributeRead
<1>3. \A c \in 1 .. Len(page) : page[c] # 0 /\ at[c].next # 0 =>
        at[c].val \in ShortAtt /\ Len(AttributeBytes(at[c].val)) = at[c].next - c
  BY AttributeRead
<1>4. \A c \in 1 .. Len(page) : page[c] # 0 /\ at[c].next # 0 =>
        at[c].val \in ShortAtt /\ Len(Bf[at[c].val]) = at[c].next - c
  BY <1>3
<1> HIDE DEF Bf, at, vals
<1>5. vals = ListAt(page, at, from).val /\ ListAt(page, at, from).next # 0
  BY DEF at, vals
<1>6. /\ vals \in Seq(ShortAtt)
      /\ Len(Bytes(Parts(Bf, vals))) \in Nat
      /\ ListAt(page, at, from).next = from + Len(Bytes(Parts(Bf, vals))) + 1
      /\ ListAt(page, at, from).next <= Len(page) + 1
  BY <1>1, <1>2, <1>4, <1>5, ListTaken
<1>7. Parts(Bf, vals) = AttributeParts(vals)
  <2>1. DOMAIN vals = 1 .. Len(vals) /\ \A n \in 1 .. Len(vals) : vals[n] \in ShortAtt
    BY <1>6, ElementOfSeq
  <2> QED BY <2>1 DEF Parts, AttributeParts, Bf
<1> QED BY <1>6, <1>7 DEF at, vals

(* Edges that are read are short, and take the bytes they have.            *)
LEMMA EdgesTaken ==
  ASSUME NEW page \in Str, NEW from \in 1 .. Len(page), NEW list,
         list = ListAt(page, EdgesAt(page), from), list.next # 0
  PROVE  /\ list.val \in Seq(ShortArc)
         /\ Len(Bytes(EdgeParts(list.val))) \in Nat
         /\ list.next = from + Len(Bytes(EdgeParts(list.val))) + 1
         /\ list.next <= Len(page) + 1
<1> DEFINE Bf == [e \in ShortArc |-> EdgeBytes(e)]
           at == EdgesAt(page)
           vals == list.val
<1>1. Bf \in [ShortArc -> Str]
  <2>1. \A e \in ShortArc : EdgeBytes(e) \in Str
    BY EdgeType DEF ShortArc
  <2> QED BY <2>1
<1>2. Advances(page, at)
  BY EdgeRead
<1>3. \A c \in 1 .. Len(page) : page[c] # 0 /\ at[c].next # 0 =>
        at[c].val \in ShortArc /\ Len(EdgeBytes(at[c].val)) = at[c].next - c
  BY EdgeRead
<1>4. \A c \in 1 .. Len(page) : page[c] # 0 /\ at[c].next # 0 =>
        at[c].val \in ShortArc /\ Len(Bf[at[c].val]) = at[c].next - c
  BY <1>3
<1> HIDE DEF Bf, at, vals
<1>5. vals = ListAt(page, at, from).val /\ ListAt(page, at, from).next # 0
  BY DEF at, vals
<1>6. /\ vals \in Seq(ShortArc)
      /\ Len(Bytes(Parts(Bf, vals))) \in Nat
      /\ ListAt(page, at, from).next = from + Len(Bytes(Parts(Bf, vals))) + 1
      /\ ListAt(page, at, from).next <= Len(page) + 1
  BY <1>1, <1>2, <1>4, <1>5, ListTaken
<1>7. Parts(Bf, vals) = EdgeParts(vals)
  <2>1. DOMAIN vals = 1 .. Len(vals) /\ \A n \in 1 .. Len(vals) : vals[n] \in ShortArc
    BY <1>6, ElementOfSeq
  <2> QED BY <2>1 DEF Parts, EdgeParts, Bf
<1> QED BY <1>6, <1>7 DEF at, vals

(* Short attributes are read back from where they lie.                     *)
LEMMA AttributesLaid ==
  ASSUME NEW page \in Str, NEW vals \in Seq(ShortAtt), NEW from \in Nat \ {0}, NEW to \in Nat,
         to = from + Len(Bytes(AttributeParts(vals))), to <= Len(page),
         Laid(page, from, Bytes(AttributeParts(vals))), page[to] = 0
  PROVE  /\ ListAt(page, AttributesAt(page), from).next = to + 1
         /\ ListAt(page, AttributesAt(page), from).val = vals
<1> DEFINE Bf == [a \in ShortAtt |-> AttributeBytes(a)]
           at == AttributesAt(page)
           parts == AttributeParts(vals)
<1>1. Bf \in [ShortAtt -> Str]
  <2>1. \A a \in ShortAtt : AttributeBytes(a) \in Str
    BY AttributeType DEF ShortAtt
  <2> QED BY <2>1
<1>2. Advances(page, at)
  BY AttributeRead
<1>3. DOMAIN vals = 1 .. Len(vals) /\ \A n \in 1 .. Len(vals) : vals[n] \in ShortAtt
  BY ElementOfSeq
<1>4. parts = Parts(Bf, vals) /\ \A n \in 1 .. Len(vals) : parts[n] = AttributeBytes(vals[n])
  BY <1>3 DEF Parts, AttributeParts
<1> HIDE DEF Bf, parts, at
<1>5. parts \in Seq(Str) /\ Len(parts) = Len(vals)
  BY <1>1, <1>4, PartsType
<1>6. ReadsBack(page, at, parts, vals)
  <2> SUFFICES ASSUME NEW n \in 1 .. Len(parts), NEW c \in Nat \ {0},
                      Laid(page, c, parts[n]), c + Len(parts[n]) <= Len(page)
               PROVE  page[c] # 0 /\ at[c].next = c + Len(parts[n]) /\ at[c].val = vals[n]
    BY <1>5 DEF ReadsBack
  <2> DEFINE a == vals[n]
  <2>1. a \in ShortAtt /\ parts[n] = AttributeBytes(a)
    BY <1>3, <1>4, <1>5
  <2> HIDE DEF a
  <2>2. /\ page[c] # 0
        /\ AttributesAt(page)[c].next = c + Len(AttributeBytes(a)) /\ AttributesAt(page)[c].val = a
    BY <2>1, AttributeLaid
  <2> QED BY <2>1, <2>2 DEF a, at
<1>7. to = from + Len(Bytes(parts)) /\ Laid(page, from, Bytes(parts))
  BY DEF parts
<1>8. ListAt(page, at, from).next = to + 1 /\ ListAt(page, at, from).val = vals
  BY <1>2, <1>5, <1>6, <1>7, ListLaid
<1> QED BY <1>8 DEF at

(* Short edges are read back from where they lie.                          *)
LEMMA EdgesLaid ==
  ASSUME NEW page \in Str, NEW vals \in Seq(ShortArc), NEW from \in Nat \ {0}, NEW to \in Nat,
         to = from + Len(Bytes(EdgeParts(vals))), to <= Len(page),
         Laid(page, from, Bytes(EdgeParts(vals))), page[to] = 0
  PROVE  /\ ListAt(page, EdgesAt(page), from).next = to + 1
         /\ ListAt(page, EdgesAt(page), from).val = vals
<1> DEFINE Bf == [e \in ShortArc |-> EdgeBytes(e)]
           at == EdgesAt(page)
           parts == EdgeParts(vals)
<1>1. Bf \in [ShortArc -> Str]
  <2>1. \A e \in ShortArc : EdgeBytes(e) \in Str
    BY EdgeType DEF ShortArc
  <2> QED BY <2>1
<1>2. Advances(page, at)
  BY EdgeRead
<1>3. DOMAIN vals = 1 .. Len(vals) /\ \A n \in 1 .. Len(vals) : vals[n] \in ShortArc
  BY ElementOfSeq
<1>4. parts = Parts(Bf, vals) /\ \A n \in 1 .. Len(vals) : parts[n] = EdgeBytes(vals[n])
  BY <1>3 DEF Parts, EdgeParts
<1> HIDE DEF Bf, parts, at
<1>5. parts \in Seq(Str) /\ Len(parts) = Len(vals)
  BY <1>1, <1>4, PartsType
<1>6. ReadsBack(page, at, parts, vals)
  <2> SUFFICES ASSUME NEW n \in 1 .. Len(parts), NEW c \in Nat \ {0},
                      Laid(page, c, parts[n]), c + Len(parts[n]) <= Len(page)
               PROVE  page[c] # 0 /\ at[c].next = c + Len(parts[n]) /\ at[c].val = vals[n]
    BY <1>5 DEF ReadsBack
  <2> DEFINE e == vals[n]
  <2>1. e \in ShortArc /\ parts[n] = EdgeBytes(e)
    BY <1>3, <1>4, <1>5
  <2> HIDE DEF e
  <2>2. /\ page[c] # 0
        /\ EdgesAt(page)[c].next = c + Len(EdgeBytes(e)) /\ EdgesAt(page)[c].val = e
    BY <2>1, EdgeLaid
  <2> QED BY <2>1, <2>2 DEF e, at
<1>7. to = from + Len(Bytes(parts)) /\ Laid(page, from, Bytes(parts))
  BY DEF parts
<1>8. ListAt(page, at, from).next = to + 1 /\ ListAt(page, at, from).val = vals
  BY <1>2, <1>5, <1>6, <1>7, ListLaid
<1> QED BY <1>8 DEF at

-----------------------------------------------------------------------------
(* A node on its page.                                                     *)

(* Nodes as they may be on a page. *)
Rec == [type : {start_node}, id : Char, name : NodeNames, att : Seq(Att), edges : Seq(Arc)]

(* The parts of a node. *)
LEMMA RecType ==
  ASSUME NEW r \in Rec
  PROVE  /\ r.id \in Char /\ r.name \in NodeNames /\ r.name \in Str
         /\ Len(r.name) \in Nat /\ Len(r.name) < CharRange
         /\ r.att \in Seq(Att) /\ r.edges \in Seq(Arc)
         /\ Attributes(r) = Bytes(AttributeParts(r.att)) /\ Edges(r) = Bytes(EdgeParts(r.edges))
         /\ Attributes(r) \in Str /\ Edges(r) \in Str
         /\ Len(Attributes(r)) \in Nat /\ Len(Edges(r)) \in Nat
<1>1. r.id \in Char /\ r.name \in NodeNames /\ r.att \in Seq(Att) /\ r.edges \in Seq(Arc)
  BY DEF Rec
<1>2. r.name \in Str /\ Len(r.name) < CharRange
  BY <1>1, NamesAssumption, BytesAssumption DEF Str
<1>3. Len(r.name) \in Nat
  BY <1>2, LenProperties DEF Str
<1>4. Attributes(r) = Bytes(AttributeParts(r.att)) /\ Edges(r) = Bytes(EdgeParts(r.edges))
  BY DEF Attributes, AttributeParts, Edges, EdgeParts
<1>5. /\ Bytes(AttributeParts(r.att)) \in Str /\ Len(Bytes(AttributeParts(r.att))) \in Nat
      /\ Bytes(EdgeParts(r.edges)) \in Str /\ Len(Bytes(EdgeParts(r.edges))) \in Nat
  BY <1>1, AttributesType, EdgesType
<1> QED BY <1>1, <1>2, <1>3, <1>4, <1>5

(* Where the parts of a node lie, b behind its head. *)
Layout(page, r, a, e, end) ==
  /\ a = Len(r.name) + 4 /\ e = a + Len(Attributes(r)) + 1 /\ end = e + Len(Edges(r))
  /\ a \in Nat \ {0} /\ e \in Nat \ {0} /\ end \in Nat \ {0}
  /\ NodeBytes(r) \in Str /\ Len(NodeBytes(r)) = end
  /\ Laid(page, 1, NodeBytes(r)) =>
       /\ Laid(page, 1, <<start_node, r.id>>) /\ Laid(page, 3, Text(r.name))
       /\ Laid(page, a, Attributes(r)) /\ Laid(page, e - 1, <<0>>)
       /\ Laid(page, e, Edges(r)) /\ Laid(page, end, <<0>>)

(* The bytes of a node are its head, its name and its two lists, each with *)
(* a byte 0 behind it.                                                     *)
LEMMA NodeLayout ==
  ASSUME NEW page \in Str, NEW r \in Rec
  PROVE  \E a, e, end : Layout(page, r, a, e, end)
<1> DEFINE h == <<start_node, r.id>>
           n == Text(r.name)
           A == Attributes(r)
           E == Edges(r)
           o == <<0>>
<1>1. /\ A \in Str /\ E \in Str /\ n \in Str
      /\ Len(n) = Len(r.name) + 1 /\ Len(r.name) \in Nat
      /\ Len(A) \in Nat /\ Len(E) \in Nat
  BY RecType, TextType
<1>2. h \in Str /\ Len(h) = 2
  BY RecType, BytesAssumption DEF Str
<1>3. o \in Str /\ Len(o) = 1
  <2>1. 0 \in Char
    BY CharRangeAssumption DEF Char
  <2> QED BY <2>1, OneChar
<1>4. NodeBytes(r) = ((((h \o n) \o A) \o o) \o E) \o o
  BY DEF NodeBytes
<1> HIDE DEF h, n, A, E, o
<1> DEFINE s1 == h \o n
           s2 == s1 \o A
           s3 == s2 \o o
           s4 == s3 \o E
           s5 == s4 \o o
<1>5. s1 \in Str /\ Len(s1) = Len(r.name) + 3
  <2>1. s1 \in Str /\ Len(s1) = Len(h) + Len(n)
    BY <1>1, <1>2, Behind
  <2> QED BY <1>1, <1>2, <2>1
<1> HIDE DEF s1
<1>6. s2 \in Str /\ Len(s2) = Len(s1) + Len(A)
  BY <1>1, <1>5, Behind
<1> HIDE DEF s2
<1>7. s3 \in Str /\ Len(s3) = Len(s2) + 1
  BY <1>3, <1>6, Behind, ZenonT(30)
<1> HIDE DEF s3
<1>8. s4 \in Str /\ Len(s4) = Len(s3) + Len(E)
  BY <1>1, <1>7, Behind
<1> HIDE DEF s4
<1>9. s5 \in Str /\ Len(s5) = Len(s4) + 1
  BY <1>3, <1>8, Behind, ZenonT(30)
<1>10. NodeBytes(r) = s5
  BY <1>4 DEF s1, s2, s3, s4
<1> DEFINE a == Len(r.name) + 4
           e == a + Len(A) + 1
           end == e + Len(E)
<1>11. /\ a \in Nat \ {0} /\ e \in Nat \ {0} /\ end \in Nat \ {0}
       /\ Len(s5) = end /\ 1 + Len(h) = 3 /\ 1 + Len(s1) = a /\ 1 + Len(s2) = e - 1
       /\ 1 + Len(s3) = e /\ 1 + Len(s4) = end
  <2> DEFINE x == Len(r.name)
             y == Len(A)
             z == Len(E)
             l1 == Len(s1)
             l2 == Len(s2)
             l3 == Len(s3)
             l4 == Len(s4)
             l5 == Len(s5)
  <2>1. /\ x \in Nat /\ y \in Nat /\ z \in Nat /\ l1 = x + 3 /\ l2 = l1 + y /\ l3 = l2 + 1
        /\ l4 = l3 + z /\ l5 = l4 + 1
    BY <1>1, <1>5, <1>6, <1>7, <1>8, <1>9
  <2>2. a = x + 4 /\ e = a + y + 1 /\ end = e + z
    OBVIOUS
  <2> HIDE DEF x, y, z, l1, l2, l3, l4, l5, a, e, end
  <2>3. /\ a \in Nat \ {0} /\ e \in Nat \ {0} /\ end \in Nat \ {0}
        /\ l5 = end /\ 1 + l1 = a /\ 1 + l2 = e - 1 /\ 1 + l3 = e /\ 1 + l4 = end
    BY <2>1, <2>2
  <2> QED BY <1>2, <2>3 DEF l1, l2, l3, l4, l5
<1> HIDE DEF s5
<1>12. ASSUME Laid(page, 1, s5)
       PROVE  /\ Laid(page, 1, h) /\ Laid(page, 3, n)
              /\ Laid(page, a, A) /\ Laid(page, e - 1, o)
              /\ Laid(page, e, E) /\ Laid(page, end, o)
  <2> DEFINE one == 1
  <2>0. one \in Nat \ {0} /\ one = 1
    OBVIOUS
  <2> HIDE DEF one, a, e, end
  <2>1. Laid(page, one, s4) /\ Laid(page, one + Len(s4), o)
    BY <1>3, <1>8, <1>12, <2>0, LaidBoth DEF s5
  <2>2. Laid(page, one, s3) /\ Laid(page, one + Len(s3), E)
    BY <1>1, <1>7, <2>0, <2>1, LaidBoth DEF s4
  <2>3. Laid(page, one, s2) /\ Laid(page, one + Len(s2), o)
    BY <1>3, <1>6, <2>0, <2>2, LaidBoth DEF s3
  <2>4. Laid(page, one, s1) /\ Laid(page, one + Len(s1), A)
    BY <1>1, <1>5, <2>0, <2>3, LaidBoth DEF s2
  <2>5. Laid(page, one, h) /\ Laid(page, one + Len(h), n)
    BY <1>1, <1>2, <2>0, <2>4, LaidBoth DEF s1
  <2> QED BY <1>11, <2>0, <2>1, <2>2, <2>3, <2>4, <2>5
<1>13. Layout(page, r, a, e, end)
  <2> HIDE DEF a, e, end
  <2>1. a = Len(r.name) + 4 /\ e = a + Len(Attributes(r)) + 1 /\ end = e + Len(Edges(r))
    BY DEF a, e, end, A, E
  <2> QED BY <1>9, <1>10, <1>11, <1>12, <2>1 DEF Layout, h, n, A, E, o
<1> QED BY <1>13

(* Short attributes and edges are what ShortStrings asks for. *)
LEMMA ShortLists ==
  ASSUME NEW r \in Rec
  PROVE  ShortStrings(r) <=> r.att \in Seq(ShortAtt) /\ r.edges \in Seq(ShortArc)
<1> DEFINE P == Len(r.att)
           Q == Len(r.edges)
<1>1. r.att \in Seq(Att) /\ r.edges \in Seq(Arc)
  BY RecType
<1>2. /\ DOMAIN r.att = 1 .. P /\ P \in Nat /\ r.att = [n \in 1 .. P |-> r.att[n]]
      /\ \A n \in 1 .. P : r.att[n] \in Att
      /\ DOMAIN r.edges = 1 .. Q /\ Q \in Nat /\ r.edges = [n \in 1 .. Q |-> r.edges[n]]
      /\ \A n \in 1 .. Q : r.edges[n] \in Arc
  BY <1>1, ElementOfSeq, LenProperties
<1>3. r.att \in Seq(ShortAtt) <=> \A n \in 1 .. P : r.att[n] \in ShortAtt
  <2>1. ASSUME r.att \in Seq(ShortAtt)
        PROVE  \A n \in 1 .. P : r.att[n] \in ShortAtt
    BY <2>1, ElementOfSeq
  <2>2. ASSUME \A n \in 1 .. P : r.att[n] \in ShortAtt
        PROVE  r.att \in Seq(ShortAtt)
    <3> DEFINE s == r.att
               K == P
    <3>1. s = [n \in 1 .. K |-> s[n]] /\ K \in Nat /\ \A n \in 1 .. K : s[n] \in ShortAtt
      BY <1>2, <2>2
    <3> HIDE DEF s, K
    <3>2. [n \in 1 .. K |-> s[n]] \in Seq(ShortAtt)
      BY <3>1
    <3> QED BY <3>1, <3>2 DEF s
  <2> QED BY <2>1, <2>2
<1>4. r.edges \in Seq(ShortArc) <=> \A n \in 1 .. Q : r.edges[n] \in ShortArc
  <2>1. ASSUME r.edges \in Seq(ShortArc)
        PROVE  \A n \in 1 .. Q : r.edges[n] \in ShortArc
    BY <2>1, ElementOfSeq
  <2>2. ASSUME \A n \in 1 .. Q : r.edges[n] \in ShortArc
        PROVE  r.edges \in Seq(ShortArc)
    <3> DEFINE s == r.edges
               K == Q
    <3>1. s = [n \in 1 .. K |-> s[n]] /\ K \in Nat /\ \A n \in 1 .. K : s[n] \in ShortArc
      BY <1>2, <2>2
    <3> HIDE DEF s, K
    <3>2. [n \in 1 .. K |-> s[n]] \in Seq(ShortArc)
      BY <3>1
    <3> QED BY <3>1, <3>2 DEF s
  <2> QED BY <2>1, <2>2
<1>5. ShortStrings(r) <=> /\ \A n \in 1 .. P : r.att[n] \in ShortAtt
                         /\ \A n \in 1 .. Q : r.edges[n] \in ShortArc
  BY <1>2 DEF ShortStrings, ShortAtt, ShortArc
<1> QED BY <1>3, <1>4, <1>5

(* What comes of reading a page on which r was written. *)
ReadAs(page, r) ==
  /\ ReadPage(page) = r <=> Fits(r)
  /\ ReadPage(page).type = start_node /\ ReadPage(page).id = r.id
  /\ \/ ReadPage(page).name = NoName
     \/ ReadPage(page).name = r.name /\ ReadPage(page) \in Rec

(* The page begins with a node's head and name, whatever is behind them.   *)
LEMMA HeadRead ==
  ASSUME NEW page \in Str, Len(page) = PageSize, NEW r \in Rec, Laid(page, 1, NodeBytes(r)),
         NEW a, NEW e, NEW end, Layout(page, r, a, e, end)
  PROVE  /\ page[1] = start_node /\ page[2] = r.id
         /\ IsText(page, 3) /\ TextAt(page, 3) = r.name
         /\ After(page, 3) = a /\ a \in 1 .. Len(page)
<1>1. /\ Len(r.name) \in Nat /\ Len(r.name) < CharRange /\ r.name \in Str /\ r.id \in Char
  BY RecType
<1>2. CharRange \in Nat /\ CharRange + 4 <= PageSize /\ PageSize \in Nat
  BY CharRangeAssumption, BytesAssumption, SizesAssumption
<1>3. Laid(page, 1, <<start_node, r.id>>) /\ Laid(page, 3, Text(r.name)) /\ a = Len(r.name) + 4
  BY DEF Layout
<1> DEFINE h == <<start_node, r.id>>
<1>4. Len(h) = 2 /\ h[1] = start_node /\ h[2] = r.id
  OBVIOUS
<1> HIDE DEF h
<1>5. page[1] = start_node /\ page[2] = r.id
  <2>1. \A j \in 1 .. 2 : 1 + j - 1 = j /\ j <= PageSize
    BY <1>2
  <2>2. Laid(page, 1, h)
    BY <1>3 DEF h
  <2>3. \A j \in 1 .. 2 : page[j] = h[j]
    BY <1>4, <2>1, <2>2 DEF Laid
  <2> QED BY <1>4, <2>3
<1> DEFINE c == 3
<1>6. c \in Nat \ {0} /\ c + Len(r.name) < Len(page) /\ c + Len(r.name) + 1 = a /\ a \in 1 .. Len(page)
  BY <1>1, <1>2, <1>3
<1>7. Laid(page, c, Text(r.name))
  BY <1>3
<1> HIDE DEF c
<1>8. /\ IsText(page, c) /\ TextAt(page, c) = r.name
      /\ After(page, c) = c + Len(r.name) + 1
  BY <1>1, <1>6, <1>7, TextLaid
<1> QED BY <1>5, <1>6, <1>8 DEF c

ReadOf(page, name, atts, edges) ==
  [type |-> start_node, id |-> page[2], name |-> name, att |-> atts.val, edges |-> edges.val]

(* page_to_node on a page that begins with a node's head and name.         *)
LEMMA ReadCases ==
  ASSUME NEW page \in Str, page[1] = start_node, IsText(page, 3), NEW a, a = After(page, 3),
         NEW atts, atts = ListAt(page, AttributesAt(page), a),
         NEW edges, edges = ListAt(page, EdgesAt(page), atts.next)
  PROVE  ReadPage(page) = IF atts.next \in 1 .. Len(page) /\ edges.next # 0
                          THEN ReadOf(page, TextAt(page, 3), atts, edges)
                          ELSE Unreadable(page)
<1>1. DOMAIN page = 1 .. Len(page)
  BY LenProperties DEF Str
<1> QED BY <1>1 DEF ReadPage, AttributesAt, EdgesAt, ReadOf

(* A node is read back as it was written exactly when it fits.             *)
LEMMA RoundTrip ==
  ASSUME NEW page \in Str, Len(page) = PageSize, NEW r \in Rec, Laid(page, 1, NodeBytes(r))
  PROVE  ReadAs(page, r)
<1> DEFINE got == ReadPage(page)
           N == Len(page)
<1>1. PICK a, e, end : Layout(page, r, a, e, end)
  BY NodeLayout
<1>2. /\ page[1] = start_node /\ page[2] = r.id
      /\ IsText(page, 3) /\ TextAt(page, 3) = r.name
      /\ After(page, 3) = a /\ a \in 1 .. Len(page)
  BY <1>1, HeadRead
<1>3. PICK atts : atts = ListAt(page, AttributesAt(page), a)
  OBVIOUS
<1>4. PICK edges : edges = ListAt(page, EdgesAt(page), atts.next)
  OBVIOUS
<1> DEFINE readable == atts.next \in 1 .. Len(page) /\ edges.next # 0
<1>5. got = IF readable THEN ReadOf(page, r.name, atts, edges) ELSE Unreadable(page)
  BY <1>2, <1>3, <1>4, ReadCases
<1>6. /\ r.name \in NodeNames /\ r.name # NoName /\ r.id \in Char
      /\ Attributes(r) = Bytes(AttributeParts(r.att)) /\ Edges(r) = Bytes(EdgeParts(r.edges))
      /\ Len(Attributes(r)) \in Nat /\ Len(Edges(r)) \in Nat
  BY RecType, NoNameAssumption
<1>7. /\ a \in Nat \ {0} /\ e \in Nat \ {0} /\ end \in Nat \ {0}
      /\ e = a + Len(Attributes(r)) + 1 /\ end = e + Len(Edges(r))
      /\ Len(NodeBytes(r)) = end
      /\ Laid(page, a, Attributes(r)) /\ Laid(page, e - 1, <<0>>)
      /\ Laid(page, e, Edges(r)) /\ Laid(page, end, <<0>>)
  BY <1>1 DEF Layout
<1>8. N = PageSize /\ N \in Nat
  BY SizesAssumption
<1>9. r = [type |-> start_node, id |-> r.id, name |-> r.name, att |-> r.att, edges |-> r.edges]
  BY DEF Rec
<1> HIDE DEF N
<1>10. ASSUME readable
       PROVE  /\ atts.val \in Seq(ShortAtt) /\ edges.val \in Seq(ShortArc)
              /\ Len(Bytes(AttributeParts(atts.val))) \in Nat
              /\ Len(Bytes(EdgeParts(edges.val))) \in Nat
              /\ atts.next = a + Len(Bytes(AttributeParts(atts.val))) + 1
              /\ edges.next = atts.next + Len(Bytes(EdgeParts(edges.val))) + 1
              /\ edges.next <= N + 1
  <2>1. atts.next # 0
    BY <1>8, <1>10
  <2>2. /\ atts.val \in Seq(ShortAtt)
        /\ Len(Bytes(AttributeParts(atts.val))) \in Nat
        /\ atts.next = a + Len(Bytes(AttributeParts(atts.val))) + 1
    BY <1>2, <1>3, <2>1, AttributesTaken
  <2> DEFINE d == atts.next
  <2>3. d \in 1 .. Len(page) /\ edges = ListAt(page, EdgesAt(page), d) /\ edges.next # 0
    BY <1>4, <1>10
  <2> HIDE DEF d
  <2>4. /\ edges.val \in Seq(ShortArc)
        /\ Len(Bytes(EdgeParts(edges.val))) \in Nat
        /\ edges.next = d + Len(Bytes(EdgeParts(edges.val))) + 1
        /\ edges.next <= Len(page) + 1
    BY <2>3, EdgesTaken
  <2> QED BY <2>2, <2>4 DEF d, N
<1>11. ASSUME got = r
       PROVE  Fits(r)
  <2>1. readable
    <3>1. got.name # NoName
      BY <1>6, <1>11
    <3>2. Unreadable(page).name = NoName
      BY DEF Unreadable
    <3> HIDE DEF got, readable
    <3> QED BY <1>5, <3>1, <3>2
  <2>2. r.att = atts.val /\ r.edges = edges.val
    <3>1. r = ReadOf(page, r.name, atts, edges)
      BY <1>5, <1>11, <2>1
    <3>2. ReadOf(page, r.name, atts, edges).att = atts.val /\ ReadOf(page, r.name, atts, edges).edges = edges.val
      BY DEF ReadOf
    <3> QED BY <3>1, <3>2
  <2>3. ShortStrings(r)
    BY <1>10, <2>1, <2>2, ShortLists
  <2>4. Len(NodeBytes(r)) <= PageSize
    <3> DEFINE x == Len(Attributes(r))
               y == Len(Edges(r))
    <3>1. atts.next = a + x + 1 /\ edges.next = atts.next + y + 1 /\ edges.next <= N + 1
      BY <1>6, <1>10, <2>1, <2>2
    <3>2. e = a + x + 1 /\ end = e + y /\ x \in Nat /\ y \in Nat /\ Len(NodeBytes(r)) = end
      BY <1>6, <1>7
    <3> HIDE DEF x, y
    <3>3. edges.next = end + 1
      BY <1>7, <3>1, <3>2
    <3> QED BY <1>7, <1>8, <3>1, <3>2, <3>3
  <2> QED BY <2>3, <2>4 DEF Fits
<1>12. ASSUME Fits(r)
       PROVE  got = r
  <2>1. r.att \in Seq(ShortAtt) /\ r.edges \in Seq(ShortArc) /\ end <= N
    BY <1>7, <1>8, <1>12, ShortLists DEF Fits
  <2> DEFINE to == e - 1
             o == <<0>>
  <2>2. /\ to \in Nat \ {0} /\ to + 1 = e /\ to <= N /\ e \in 1 .. N /\ end \in 1 .. N
        /\ to = a + Len(Attributes(r))
    <3> DEFINE x == Len(Attributes(r))
               y == Len(Edges(r))
    <3>1. e = a + x + 1 /\ end = e + y /\ x \in Nat /\ y \in Nat /\ a \in Nat \ {0}
      BY <1>6, <1>7
    <3> HIDE DEF x, y
    <3>0. e \in Nat /\ end \in Nat /\ N \in Nat /\ end <= N
      BY <1>7, <1>8, <2>1
    <3>2. /\ to \in Nat \ {0} /\ to + 1 = e /\ to <= N /\ e \in 1 .. N /\ end \in 1 .. N
          /\ to = a + x
      BY <3>0, <3>1
    <3> QED BY <3>2 DEF x
  <2>3. \A p \in {to, end} : Laid(page, p, o) /\ p \in 1 .. N
    BY <1>7, <1>8, <2>2
  <2>4. Len(o) = 1 /\ o[1] = 0
    OBVIOUS
  <2> HIDE DEF to, o
  <2>5. page[to] = 0 /\ page[end] = 0
    <3> SUFFICES ASSUME NEW p \in {to, end} PROVE page[p] = 0
      OBVIOUS
    <3>1. Laid(page, p, o) /\ p \in 1 .. N
      BY <2>3
    <3>2. 1 \in 1 .. Len(o) /\ p + 1 - 1 = p /\ p <= Len(page)
      BY <1>8, <2>4, <3>1 DEF N
    <3> QED BY <2>4, <3>1, <3>2 DEF Laid
  <2>6. atts.next = e /\ atts.val = r.att
    <3>1. /\ to = a + Len(Bytes(AttributeParts(r.att))) /\ to <= Len(page)
          /\ Laid(page, a, Bytes(AttributeParts(r.att)))
      BY <1>6, <1>7, <2>2 DEF N
    <3>2. /\ ListAt(page, AttributesAt(page), a).next = to + 1
          /\ ListAt(page, AttributesAt(page), a).val = r.att
      BY <1>7, <2>1, <2>2, <2>5, <3>1, AttributesLaid
    <3> QED BY <1>3, <2>2, <3>2
  <2>7. edges.next = end + 1 /\ edges.val = r.edges
    <3>1. /\ end = e + Len(Bytes(EdgeParts(r.edges))) /\ end <= Len(page)
          /\ Laid(page, e, Bytes(EdgeParts(r.edges)))
      BY <1>6, <1>7, <2>1 DEF N
    <3>2. /\ ListAt(page, EdgesAt(page), e).next = end + 1
          /\ ListAt(page, EdgesAt(page), e).val = r.edges
      BY <1>7, <2>1, <2>5, <3>1, EdgesLaid
    <3> QED BY <1>4, <2>6, <3>2
  <2>8. readable
    BY <1>7, <2>2, <2>6, <2>7 DEF N
  <2>9. ReadOf(page, r.name, atts, edges) = r
    BY <1>2, <1>9, <2>6, <2>7 DEF ReadOf
  <2> QED BY <1>5, <2>8, <2>9
<1>13. /\ got.type = start_node /\ got.id = r.id
       /\ \/ got.name = NoName
          \/ got.name = r.name /\ got \in Rec
  <2>1. CASE readable
    <3> DEFINE g == ReadOf(page, r.name, atts, edges)
    <3>1. got = g
      BY <1>5, <2>1
    <3>2. atts.val \in Seq(Att) /\ edges.val \in Seq(Arc)
      <4>1. atts.val \in Seq(ShortAtt) /\ edges.val \in Seq(ShortArc)
        BY <1>10, <2>1
      <4>2. ShortAtt \subseteq Att /\ ShortArc \subseteq Arc
        BY DEF ShortAtt, ShortArc
      <4> QED BY <4>1, <4>2
    <3>3. g.type = start_node /\ g.id = r.id /\ g.name = r.name /\ g \in Rec
      BY <1>2, <1>6, <3>2 DEF ReadOf, Rec
    <3> HIDE DEF got, g
    <3> QED BY <3>1, <3>3
  <2>2. CASE ~readable
    <3>1. got = Unreadable(page)
      BY <1>5, <2>2
    <3> QED BY <1>2, <3>1 DEF Unreadable
  <2> QED BY <2>1, <2>2
<1> QED BY <1>11, <1>12, <1>13 DEF ReadAs

-----------------------------------------------------------------------------
(* Pages in the file.                                                      *)

Start(p) == p * PageSize

(* The pages lie in a row. *)
LEMMA Starts ==
  ASSUME NEW p \in Nat
  PROVE  /\ Start(p) \in Nat /\ Start(p + 1) = Start(p) + PageSize
         /\ \A q \in Nat : p < q => Start(p) + PageSize <= Start(q)
<1> DEFINE S == PageSize
<1>1. S \in Nat \ {0}
  BY SizesAssumption
<1> HIDE DEF S
<1>2. p * S \in Nat /\ (p + 1) * S = p * S + S
  BY <1>1
<1>3. ASSUME NEW q \in Nat, p < q
      PROVE  p * S + S <= q * S
  <2> DEFINE d == q - p - 1
  <2>1. d \in Nat /\ q = p + 1 + d
    BY <1>3
  <2> HIDE DEF d
  <2>2. q * S = (p + 1) * S + d * S
    BY <1>1, <2>1
  <2>3. d * S \in Nat
    BY <1>1, <2>1
  <2>4. p * S \in Nat /\ q * S \in Nat
    BY <1>1
  <2> DEFINE x == p * S
             y == q * S
             z == d * S
  <2>5. x \in Nat /\ y \in Nat /\ z \in Nat /\ y = x + S + z
    BY <1>1, <1>2, <2>2, <2>3, <2>4
  <2> HIDE DEF x, y, z
  <2>6. x + S <= y
    BY <1>1, <2>5
  <2> QED BY <2>6 DEF x, y
<1> QED BY <1>2, <1>3 DEF Start, S

(* A file of so many pages has no more of them than fit into its bytes.    *)
LEMMA WholePages ==
  ASSUME NEW m \in Nat, NEW n \in Nat, Start(n) <= m
  PROVE  /\ m \div PageSize \in Nat /\ n <= m \div PageSize
         /\ m = Start(n) => m \div PageSize = n
<1> DEFINE S == PageSize
           d == m \div S
<1>1. S \in Nat \ {0}
  BY SizesAssumption
<1> HIDE DEF S
<1>2. d \in Nat /\ d * S <= m /\ m < d * S + S
  BY <1>1
<1> HIDE DEF d
<1>3. Start(d) = d * S
  BY DEF Start, S
<1>4. Start(d) <= m /\ m < Start(d) + S /\ Start(d) \in Nat /\ Start(n) \in Nat
  BY <1>1, <1>2, <1>3, Starts
<1>5. ~ (d < n)
  <2> SUFFICES ASSUME d < n PROVE FALSE
    OBVIOUS
  <2>1. Start(d) + S <= Start(n)
    BY <1>2, Starts DEF S
  <2> QED BY <1>1, <1>4, <2>1
<1>6. m = Start(n) => ~ (n < d)
  <2> SUFFICES ASSUME m = Start(n), n < d PROVE FALSE
    OBVIOUS
  <2>1. Start(n) + S <= Start(d)
    BY <1>2, Starts DEF S
  <2> QED BY <1>1, <1>4, <2>1
<1>7. n <= d /\ (m = Start(n) => d = n)
  BY <1>2, <1>5, <1>6
<1> QED BY <1>2, <1>7 DEF d, S

-----------------------------------------------------------------------------
(* The invariant.                                                          *)

(* The page at p begins with a byte 0, or with the bytes of its record,    *)
(* so many of them as it has room for.                                     *)
Holds(b, p, r) ==
  IF r.type = empty_page THEN b[Start(p) + 1] = 0
  ELSE \A j \in 1 .. Len(NodeBytes(r)) : j <= PageSize => b[Start(p) + j] = NodeBytes(r)[j]

RunsInto(f, p) ==
  \E q \in 0 .. p - 1 : /\ f[q + 1].type = start_node
                        /\ Start(q) + Len(NodeBytes(f[q + 1])) > Start(p)

(* The bytes b hold the records f, but where one of them is too long.      *)
Stored(b, f, long) ==
  /\ b \in Str /\ f \in Seq(Rec \cup {EmptyPage})
  /\ Len(f) <= PageBound
  /\ \A p \in Ids(f) : f[p + 1].type = start_node => f[p + 1].id = p
  /\ Start(Len(f)) <= Len(b)
  /\ ~long => /\ Len(b) = Start(Len(f))
              /\ \A p \in Ids(f) : f[p + 1].type = start_node =>
                                     Len(NodeBytes(f[p + 1])) <= PageSize
  /\ \A p \in Ids(f) : ~RunsInto(f, p) => Holds(b, p, f[p + 1])

RInv == lost \in BOOLEAN /\ Stored(bytes, file, lost)

(* The records of a file. *)
LEMMA StoredType ==
  ASSUME NEW b, NEW f, NEW long, Stored(b, f, long)
  PROVE  /\ Len(b) \in Nat /\ Len(f) \in Nat /\ DOMAIN f = 1 .. Len(f)
         /\ \A j \in 1 .. Len(b) : b[j] \in Char
         /\ \A p \in Ids(f) :
              /\ p \in Nat /\ p + 1 \in 1 .. Len(f) /\ p < PageBound /\ p \in Char
              /\ \/ f[p + 1] = EmptyPage /\ f[p + 1].type = empty_page
                 \/ f[p + 1] \in Rec /\ f[p + 1].type = start_node
              /\ Start(p) \in Nat /\ Start(p) + PageSize <= Start(Len(f))
              /\ Start(p) + PageSize <= Len(b)
<1>1. b \in Str /\ f \in Seq(Rec \cup {EmptyPage}) /\ Len(f) <= PageBound /\ Start(Len(f)) <= Len(b)
  BY DEF Stored
<1>2. Len(b) \in Nat /\ \A j \in 1 .. Len(b) : b[j] \in Char
  BY <1>1, LenProperties, ElementOfSeq DEF Str
<1>3. /\ Len(f) \in Nat /\ DOMAIN f = 1 .. Len(f)
      /\ \A j \in 1 .. Len(f) : f[j] \in Rec \cup {EmptyPage}
  BY <1>1, LenProperties, ElementOfSeq
<1>4. PageBound \in Nat /\ PageBound <= CharRange /\ CharRange \in Nat /\ PageSize \in Nat
  BY SizesAssumption, BytesAssumption, CharRangeAssumption
<1>5. ASSUME NEW p \in Ids(f)
      PROVE  /\ p \in Nat /\ p + 1 \in 1 .. Len(f) /\ p < PageBound /\ p \in Char
             /\ \/ f[p + 1] = EmptyPage /\ f[p + 1].type = empty_page
                \/ f[p + 1] \in Rec /\ f[p + 1].type = start_node
             /\ Start(p) \in Nat /\ Start(p) + PageSize <= Start(Len(f))
             /\ Start(p) + PageSize <= Len(b)
  <2>1. p \in Nat /\ p + 1 \in 1 .. Len(f) /\ p < PageBound /\ p < Len(f)
    BY <1>1, <1>3, <1>4 DEF Ids
  <2>2. p \in Char
    BY <1>4, <2>1 DEF Char
  <2>3. f[p + 1] \in Rec \cup {EmptyPage}
    BY <1>3, <2>1
  <2>4. \/ f[p + 1] = EmptyPage /\ f[p + 1].type = empty_page
        \/ f[p + 1] \in Rec /\ f[p + 1].type = start_node
    BY <2>3 DEF Rec, EmptyPage
  <2>5. /\ Start(p) \in Nat /\ Start(p) + PageSize <= Start(Len(f)) /\ Start(Len(f)) \in Nat
    BY <1>3, <2>1, Starts
  <2>6. Start(p) + PageSize <= Len(b)
    BY <1>1, <1>2, <1>4, <2>5
  <2> QED BY <2>1, <2>2, <2>4, <2>5, <2>6
<1> QED BY <1>2, <1>3, <1>5

(* No record runs into a page as long as none is too long. *)
LEMMA NoneRuns ==
  ASSUME NEW b, NEW f, Stored(b, f, FALSE), NEW p \in Ids(f)
  PROVE  ~RunsInto(f, p) /\ Holds(b, p, f[p + 1])
<1>1. ~RunsInto(f, p)
  <2> SUFFICES ASSUME NEW q \in 0 .. p - 1, f[q + 1].type = start_node
               PROVE  ~ (Start(q) + Len(NodeBytes(f[q + 1])) > Start(p))
    BY DEF RunsInto
  <2>1. p \in Nat /\ p < Len(f) /\ Len(f) \in Nat
    BY StoredType DEF Ids
  <2>2. q \in Ids(f) /\ q \in Nat /\ q < p
    BY <2>1 DEF Ids
  <2> DEFINE l == Len(NodeBytes(f[q + 1]))
  <2>3. l <= PageSize
    BY <2>2 DEF Stored
  <2>4. l \in Nat
    <3>1. f[q + 1] \in Rec
      <4>1. \/ f[q + 1] = EmptyPage /\ f[q + 1].type = empty_page
            \/ f[q + 1] \in Rec /\ f[q + 1].type = start_node
        BY <2>2, StoredType
      <4> QED BY <4>1 DEF empty_page, start_node
    <3>2. PICK a, e, end : Layout(<< >>, f[q + 1], a, e, end)
      <4>1. << >> \in Str
        BY EmptySeq DEF Str
      <4> QED BY <3>1, <4>1, NodeLayout
    <3> QED BY <3>2 DEF Layout
  <2>5. Start(q) \in Nat /\ Start(p) \in Nat /\ Start(q) + PageSize <= Start(p)
    BY <2>1, <2>2, Starts
  <2>6. PageSize \in Nat
    BY SizesAssumption
  <2> HIDE DEF l
  <2>7. ~ (Start(q) + l > Start(p))
    BY <2>3, <2>4, <2>5, <2>6
  <2> QED BY <2>7 DEF l
<1> QED BY <1>1 DEF Stored

PageOf(b, p) == SubSeq(b, p * PageSize + 1, (p + 1) * PageSize)

(* What is read from a page that holds its record.                         *)
LEMMA PageRead ==
  ASSUME NEW b, NEW f, NEW long, Stored(b, f, long), NEW p \in Ids(f), Holds(b, p, f[p + 1])
  PROVE  \/ f[p + 1] = EmptyPage /\ f[p + 1].type = empty_page /\ ReadPage(PageOf(b, p)) = EmptyPage
         \/ f[p + 1] \in Rec /\ f[p + 1].type = start_node /\ ReadAs(PageOf(b, p), f[p + 1])
<1> DEFINE page == PageOf(b, p)
           S == Start(p)
<1>1. /\ p \in Nat /\ S \in Nat /\ S + PageSize <= Len(b) /\ Len(b) \in Nat
      /\ \/ f[p + 1] = EmptyPage /\ f[p + 1].type = empty_page
         \/ f[p + 1] \in Rec /\ f[p + 1].type = start_node
  BY StoredType
<1>2. PageSize \in Nat \ {0} /\ b \in Str
  BY SizesAssumption DEF Stored
<1>3. page = SubSeq(b, S + 1, S + PageSize)
  <2>1. (p + 1) * PageSize = S + PageSize
    BY <1>1, Starts DEF Start
  <2> QED BY <2>1 DEF PageOf, Start
<1> HIDE DEF page, S
<1>4. page \in Str /\ Len(page) = PageSize /\ \A j \in 1 .. PageSize : page[j] = b[S + j]
  <2> DEFINE x == S + 1
             y == S + PageSize
  <2>1. x \in Nat \ {0} /\ y \in Nat /\ y <= Len(b) /\ x <= y + 1 /\ y - x + 1 = PageSize
    BY <1>1, <1>2
  <2>2. \A j \in 1 .. PageSize : x + j - 1 = S + j
    BY <1>1, <1>2
  <2>3. page = SubSeq(b, x, y)
    BY <1>3
  <2> HIDE DEF x, y
  <2>4. /\ SubSeq(b, x, y) \in Str /\ Len(SubSeq(b, x, y)) = y - x + 1
        /\ \A j \in 1 .. y - x + 1 : SubSeq(b, x, y)[j] = b[x + j - 1]
    BY <1>2, <2>1, Part
  <2> QED BY <2>1, <2>2, <2>3, <2>4
<1>5. CASE f[p + 1] = EmptyPage /\ f[p + 1].type = empty_page
  <2>1. page[1] = 0
    BY <1>2, <1>4, <1>5 DEF Holds, S
  <2>2. ReadPage(page) = [EmptyPage EXCEPT !.type = 0]
    BY <2>1 DEF ReadPage, start_node
  <2>3. [EmptyPage EXCEPT !.type = 0] = EmptyPage
    BY DEF EmptyPage, empty_page
  <2> QED BY <1>5, <2>2, <2>3 DEF page
<1>6. CASE f[p + 1] \in Rec /\ f[p + 1].type = start_node
  <2> DEFINE r == f[p + 1]
  <2>1. r \in Rec /\ r.type # empty_page
    BY <1>6 DEF start_node, empty_page
  <2>2. \A j \in 1 .. Len(NodeBytes(r)) : j <= PageSize => b[S + j] = NodeBytes(r)[j]
    BY <2>1 DEF Holds, S
  <2> HIDE DEF r
  <2>3. Len(NodeBytes(r)) \in Nat
    <3>1. PICK a, e, end : Layout(page, r, a, e, end)
      BY <1>4, <2>1, NodeLayout
    <3> QED BY <3>1 DEF Layout
  <2>4. Laid(page, 1, NodeBytes(r))
    <3> DEFINE nb == NodeBytes(r)
    <3> HIDE DEF nb
    <3>1. ASSUME NEW j \in 1 .. Len(nb), 1 + j - 1 <= Len(page)
          PROVE  page[1 + j - 1] = nb[j]
      <4>1. 1 + j - 1 = j /\ j \in 1 .. PageSize
        BY <1>2, <1>4, <2>3, <3>1 DEF nb
      <4> QED BY <1>4, <2>2, <4>1 DEF nb
    <3> QED BY <3>1 DEF Laid, nb
  <2>5. ReadAs(page, r)
    BY <1>4, <2>1, <2>4, RoundTrip
  <2> QED BY <1>6, <2>5 DEF page, r
<1> QED BY <1>1, <1>5, <1>6

(* The pages f as they are found in the file: their nodes may be misread.  *)
Seen(f, g) ==
  /\ Len(g) = Len(f) /\ Len(f) \in Nat
  /\ g = [j \in 1 .. Len(f) |-> g[j]]
  /\ \A p \in Ids(f) :
       \/ f[p + 1].type = empty_page /\ g[p + 1].type = empty_page
       \/ /\ f[p + 1].type = start_node
          /\ g[p + 1].type = start_node /\ g[p + 1].id = p
          /\ g[p + 1].name = NoName \/ g[p + 1] \in Rec

(* Nothing before a sequence changes nothing. *)
LEMMA EmptyBefore ==
  ASSUME NEW S, NEW s \in Seq(S)
  PROVE  << >> \o s = s
<1>1. << >> \o s \in Seq(S) /\ Len(<< >> \o s) = Len(s) /\ Len(s) \in Nat
  BY EmptySeq
<1>2. \A j \in 1 .. Len(s) : (<< >> \o s)[j] = s[j]
  BY <1>1
<1> QED BY <1>1, <1>2, SeqEqual

(* Contents has every page of the file.                                    *)
LEMMA ContentsPages ==
  ASSUME NEW f, NEW long, Stored(bytes, f, long)
  PROVE  /\ Len(Contents) \in Nat /\ Len(f) <= Len(Contents)
         /\ ~long => Len(Contents) = Len(f)
         /\ Contents = [j \in 1 .. Len(Contents) |-> Contents[j]]
         /\ \A p \in Ids(f) : Contents[p + 1] = ReadPage(PageOf(bytes, p))
<1> DEFINE d == Len(bytes) \div PageSize
<1>1. Len(bytes) \in Nat /\ Len(f) \in Nat /\ Start(Len(f)) <= Len(bytes)
  BY StoredType DEF Stored
<1>2. d \in Nat /\ Len(f) <= d /\ (~long => d = Len(f))
  <2> DEFINE m == Len(bytes)
             n == Len(f)
  <2>1. m \in Nat /\ n \in Nat /\ Start(n) <= m /\ (~long => m = Start(n))
    BY <1>1 DEF Stored
  <2> HIDE DEF m, n
  <2>2. m \div PageSize \in Nat /\ n <= m \div PageSize /\ (m = Start(n) => m \div PageSize = n)
    BY <2>1, WholePages
  <2> QED BY <2>1, <2>2 DEF m, n
<1>3. Contents = [k \in 1 .. d |-> ReadPage(SubSeq(bytes, (k - 1) * PageSize + 1, k * PageSize))]
  <2> DEFINE s == [k \in 1 .. d |-> ReadPage(SubSeq(bytes, (k - 1) * PageSize + 1, k * PageSize))]
  <2>1. Contents = << >> \o s
    BY DEF Contents
  <2>2. s \in Seq({s[k] : k \in 1 .. d})
    BY <1>2
  <2> HIDE DEF s
  <2> QED BY <2>1, <2>2, EmptyBefore DEF s
<1> HIDE DEF d
<1>4. Len(Contents) = d
  BY <1>2, <1>3
<1>5. ASSUME NEW p \in Ids(f)
      PROVE  Contents[p + 1] = ReadPage(PageOf(bytes, p))
  <2> DEFINE c == p + 1
  <2>1. p \in Nat /\ c \in 1 .. d /\ c - 1 = p
    BY <1>1, <1>2 DEF Ids
  <2>2. Contents[c] = ReadPage(SubSeq(bytes, (c - 1) * PageSize + 1, c * PageSize))
    BY <1>3, <2>1
  <2>3. Contents[c] = ReadPage(SubSeq(bytes, p * PageSize + 1, c * PageSize))
    BY <2>1, <2>2
  <2> QED BY <2>3 DEF PageOf
<1> QED BY <1>2, <1>3, <1>4, <1>5

(* As long as no record is too long, every node is found on its page.      *)
LEMMA ContentsSeen ==
  ASSUME Stored(bytes, file, FALSE)
  PROVE  Seen(file, Contents)
<1>1. /\ Len(Contents) = Len(file) /\ Len(file) \in Nat
      /\ Contents = [j \in 1 .. Len(Contents) |-> Contents[j]]
      /\ \A p \in Ids(file) : Contents[p + 1] = ReadPage(PageOf(bytes, p))
  BY ContentsPages, StoredType
<1>2. ASSUME NEW p \in Ids(file)
      PROVE  \/ file[p + 1].type = empty_page /\ Contents[p + 1].type = empty_page
             \/ /\ file[p + 1].type = start_node
                /\ Contents[p + 1].type = start_node /\ Contents[p + 1].id = p
                /\ Contents[p + 1].name = NoName \/ Contents[p + 1] \in Rec
  <2> DEFINE r == file[p + 1]
             page == PageOf(bytes, p)
  <2>1. Contents[p + 1] = ReadPage(page)
    BY <1>1
  <2>2. Holds(bytes, p, r)
    BY NoneRuns
  <2>3. \/ r = EmptyPage /\ r.type = empty_page /\ ReadPage(page) = EmptyPage
        \/ r \in Rec /\ r.type = start_node /\ ReadAs(page, r)
    BY <2>2, PageRead
  <2>4. r.type = start_node => r.id = p
    BY DEF Stored
  <2>5. EmptyPage.type = empty_page
    BY DEF EmptyPage
  <2> HIDE DEF r, page
  <2>6. CASE r = EmptyPage /\ r.type = empty_page /\ ReadPage(page) = EmptyPage
    BY <2>1, <2>5, <2>6 DEF r
  <2>7. CASE r \in Rec /\ r.type = start_node /\ ReadAs(page, r)
    <3>1. /\ ReadPage(page).type = start_node /\ ReadPage(page).id = p
          /\ ReadPage(page).name = NoName \/ ReadPage(page) \in Rec
      BY <2>4, <2>7 DEF ReadAs
    <3> QED BY <2>1, <2>7, <3>1 DEF r
  <2> QED BY <2>3, <2>6, <2>7
<1> QED BY <1>1, <1>2 DEF Seen

ReadWhole(n) ==
  /\ n = [id |-> n.id, name |-> n.name, att |-> n.att, edges |-> n.edges]
  /\ n.name \in NodeNames /\ n.att \in Seq(Att) /\ n.edges \in Seq(Arc)

(* A lookup finds a page of the file, and its node unless it is misread.   *)
LEMMA LookedUp ==
  ASSUME NEW f, NEW g, Seen(f, g), NEW id, Found(g, id), NEW n, n = get_node_page(g, id)
  PROVE  n.id \in Ids(f) /\ (n.name # NoName => ReadWhole(n))
<1> DEFINE p == Min(Matches(g, id))
<1>1. Matches(g, id) \in SUBSET Nat /\ Matches(g, id) # {} /\ Ids(g) = Ids(f)
  BY DEF Seen, Matches, Ids, Found
<1>2. p \in Matches(g, id)
  BY <1>1, MinProperty
<1>3. p \in Ids(f) /\ g[p + 1].type = start_node
  BY <1>1, <1>2 DEF Matches
<1>4. n = page_to_node(g[p + 1])
  BY DEF get_node_page
<1> HIDE DEF p
<1>5. g[p + 1].id = p /\ (g[p + 1].name = NoName \/ g[p + 1] \in Rec)
  BY <1>3 DEF Seen, start_node, empty_page
<1> DEFINE r == g[p + 1]
<1>6. /\ n = [id |-> r.id, name |-> r.name, att |-> Reverse(r.att), edges |-> Reverse(r.edges)]
      /\ r.id = p /\ (r.name = NoName \/ r \in Rec)
  BY <1>4, <1>5 DEF page_to_node
<1> HIDE DEF r
<1>7. n.id \in Ids(f)
  BY <1>3, <1>6
<1>8. ASSUME n.name # NoName
      PROVE  ReadWhole(n)
  <2>1. r \in Rec
    BY <1>6, <1>8
  <2>2. r.name \in NodeNames /\ r.att \in Seq(Att) /\ r.edges \in Seq(Arc)
    BY <2>1, RecType
  <2>3. Reverse(r.att) \in Seq(Att) /\ Reverse(r.edges) \in Seq(Arc)
    BY <2>2, ReverseType
  <2> DEFINE x == Reverse(r.att)
             y == Reverse(r.edges)
  <2>4. n = [id |-> r.id, name |-> r.name, att |-> x, edges |-> y] /\ x \in Seq(Att) /\ y \in Seq(Arc)
    BY <1>6, <2>3
  <2> HIDE DEF x, y
  <2> QED BY <2>2, <2>4 DEF ReadWhole
<1> QED BY <1>7, <1>8

(* What set_node_page puts on a page. *)
LEMMA PagePut ==
  ASSUME NEW g, NEW pos \in Nat, g = [j \in 1 .. Len(g) |-> g[j]], pos + 1 \in 1 .. Len(g),
         pos \in Char, NEW n, n.name \in NodeNames, n.att \in Seq(Att), n.edges \in Seq(Arc)
  PROVE  set_node_page(g, pos, n)[pos + 1] \in Rec /\ set_node_page(g, pos, n)[pos + 1].id = pos
<1> DEFINE r == [type |-> start_node, id |-> pos, name |-> n.name, att |-> n.att, edges |-> n.edges]
<1>1. set_node_page(g, pos, n) = [g EXCEPT ![pos + 1] = r]
  BY DEF set_node_page
<1>2. r \in Rec /\ r.id = pos
  BY DEF Rec
<1> HIDE DEF r
<1>3. pos + 1 \in DOMAIN g
  OBVIOUS
<1>4. [g EXCEPT ![pos + 1] = r][pos + 1] = r
  BY <1>3
<1> QED BY <1>1, <1>2, <1>4

-----------------------------------------------------------------------------
(* Writing a page.                                                         *)

(* The bytes s are those of record r, or those of a page of zeros. *)
BytesOf(s, r) ==
  /\ s \in Str /\ Len(s) \in Nat \ {0}
  /\ \/ r \in Rec /\ s = NodeBytes(r)
     \/ r = EmptyPage /\ Len(s) = PageSize /\ s[1] = 0

(* fwrite changes the bytes it covers and no others. *)
LEMMA WriteCovers ==
  ASSUME NEW b \in Str, NEW pos \in Nat, pos <= Len(b), NEW s \in Str, NEW w, w = WriteAt(b, pos, s)
  PROVE  /\ w \in Str /\ Len(b) <= Len(w) /\ pos + Len(s) <= Len(w)
         /\ pos + Len(s) <= Len(b) => Len(w) = Len(b)
         /\ \A j \in 1 .. Len(s) : w[pos + j] = s[j]
         /\ \A j \in 1 .. Len(b) : j <= pos \/ pos + Len(s) < j => w[j] = b[j]
<1> DEFINE N == Len(b)
           K == Len(s)
           T == {N, pos + K}
           M == Max(T)
<1>1. /\ N \in Nat /\ K \in Nat
      /\ \A j \in 1 .. N : b[j] \in Char
      /\ \A j \in 1 .. K : s[j] \in Char
  BY LenProperties, ElementOfSeq DEF Str
<1>2. w = [i \in 1 .. M |-> IF i \in pos + 1 .. pos + K THEN s[i - pos] ELSE b[i]]
  BY DEF WriteAt
<1> HIDE DEF N, K, M
<1>3. M \in Nat /\ N <= M /\ pos + K <= M /\ (pos + K <= N => M = N) /\ (M = N \/ M = pos + K)
  <2> DEFINE top == IF pos + K <= N THEN N ELSE pos + K
  <2>1. top \in T /\ \A y \in T : y <= top
    BY <1>1
  <2>2. M = CHOOSE x \in T : \A y \in T : x >= y
    BY DEF M, Max
  <2>3. M \in T /\ \A y \in T : M >= y
    <3>1. \E x \in T : \A y \in T : x >= y
      <4>1. \A y \in T : top >= y
        BY <1>1, <2>1
      <4> QED BY <2>1, <4>1
    <3> QED BY <2>2, <3>1
  <2> QED BY <1>1, <2>3
<1>4. ASSUME NEW i \in 1 .. M
      PROVE  (IF i \in pos + 1 .. pos + K THEN s[i - pos] ELSE b[i]) \in Char
  <2>1. CASE i \in pos + 1 .. pos + K
    <3>1. i - pos \in 1 .. K
      BY <1>1, <2>1
    <3> QED BY <1>1, <2>1, <3>1
  <2>2. CASE i \notin pos + 1 .. pos + K
    <3>1. i \in 1 .. N
      BY <1>1, <1>3, <2>2 DEF N
    <3> QED BY <1>1, <2>2, <3>1
  <2> QED BY <2>1, <2>2
<1>5. w \in Str /\ Len(w) = M
  <2>1. \A i \in 1 .. M : w[i] \in Char
    BY <1>2, <1>4
  <2>2. w = [i \in 1 .. M |-> w[i]]
    BY <1>2
  <2>3. [i \in 1 .. M |-> w[i]] \in Seq(Char) /\ Len([i \in 1 .. M |-> w[i]]) = M
    BY <1>3, <2>1
  <2> QED BY <2>2, <2>3 DEF Str
<1>6. ASSUME NEW j \in 1 .. K
      PROVE  w[pos + j] = s[j]
  <2> DEFINE i == pos + j
  <2>1. i \in 1 .. M /\ i \in pos + 1 .. pos + K /\ i - pos = j
    BY <1>1, <1>3
  <2> HIDE DEF i
  <2>2. w[i] = s[i - pos]
    BY <1>2, <2>1
  <2> QED BY <2>1, <2>2 DEF i
<1>7. ASSUME NEW j \in 1 .. N, j <= pos \/ pos + K < j
      PROVE  w[j] = b[j]
  <2>1. j \in 1 .. M /\ j \notin pos + 1 .. pos + K
    BY <1>1, <1>3, <1>7
  <2> QED BY <1>2, <2>1
<1> QED BY <1>3, <1>5, <1>6, <1>7 DEF N, K

(* A file stays as good as it was when a page of it is written: what is    *)
(* too long ruins no page but those behind it that it runs into.           *)
LEMMA PutStored ==
  ASSUME NEW b, NEW f, Stored(b, f, FALSE), NEW pos \in Ids(f),
         NEW r, r.type = start_node => r.id = pos, NEW s, BytesOf(s, r),
         NEW w, w = WriteAt(b, Start(pos), s),
         NEW h, h = [f EXCEPT ![pos + 1] = r]
  PROVE  Stored(w, h, TRUE) /\ (Len(s) <= PageSize => Stored(w, h, FALSE))
<1> DEFINE S == Start(pos)
           K == Len(s)
           N == Len(f)
<1>1. /\ b \in Str /\ f \in Seq(Rec \cup {EmptyPage}) /\ N <= PageBound
      /\ \A p \in Ids(f) : f[p + 1].type = start_node => f[p + 1].id = p
      /\ Len(b) = Start(N) /\ N \in Nat /\ Len(b) \in Nat
      /\ \A p \in Ids(f) : f[p + 1].type = start_node =>
                             Len(NodeBytes(f[p + 1])) <= PageSize
  BY StoredType DEF Stored
<1>2. /\ pos \in Nat /\ pos + 1 \in 1 .. N /\ S \in Nat /\ S + PageSize <= Len(b)
      /\ PageSize \in Nat \ {0}
  BY StoredType, SizesAssumption
<1>3. s \in Str /\ K \in Nat \ {0}
  BY DEF BytesOf
<1>4. /\ w \in Str /\ Len(b) <= Len(w) /\ S + K <= Len(w)
      /\ S + K <= Len(b) => Len(w) = Len(b)
      /\ \A j \in 1 .. K : w[S + j] = s[j]
      /\ \A j \in 1 .. Len(b) : j <= S \/ S + K < j => w[j] = b[j]
  <2>1. S <= Len(b)
    BY <1>1, <1>2
  <2> HIDE DEF S
  <2>2. w = WriteAt(b, S, s)
    BY DEF S
  <2> QED BY <1>1, <1>2, <1>3, <2>1, <2>2, WriteCovers
<1>5. r \in Rec \cup {EmptyPage}
  BY DEF BytesOf
<1>6. /\ h \in Seq(Rec \cup {EmptyPage}) /\ Len(h) = N /\ h[pos + 1] = r
      /\ \A p \in Ids(f) : p # pos => h[p + 1] = f[p + 1]
  <2> DEFINE T == Rec \cup {EmptyPage}
             c == pos + 1
  <2>1. f \in Seq(T) /\ c \in 1 .. Len(f) /\ r \in T /\ h = [f EXCEPT ![c] = r]
    BY <1>1, <1>2, <1>5
  <2>2. \A p \in Ids(f) : p + 1 \in 1 .. Len(f) /\ (p # pos => p + 1 # c)
    BY <1>1, <1>2 DEF Ids
  <2> HIDE DEF T, c
  <2>3. h \in Seq(T) /\ Len(h) = Len(f) /\ \A j \in 1 .. Len(f) : h[j] = IF j = c THEN r ELSE f[j]
    <3> DEFINE m == Len(f)
               v == [j \in 1 .. m |-> IF j = c THEN r ELSE f[j]]
    <3>1. m \in Nat /\ DOMAIN f = 1 .. m /\ \A j \in 1 .. m : f[j] \in T
      BY <2>1, LenProperties, ElementOfSeq
    <3>2. h = v
      BY <2>1, <3>1
    <3> HIDE DEF m
    <3>3. v \in Seq(T) /\ Len(v) = m /\ \A j \in 1 .. m : v[j] = IF j = c THEN r ELSE f[j]
      BY <2>1, <3>1
    <3> QED BY <3>2, <3>3 DEF m
  <2> QED BY <2>1, <2>2, <2>3 DEF T, c
<1>7. Ids(h) = Ids(f)
  BY <1>6 DEF Ids
<1> HIDE DEF S, K, N
<1>8. \A p \in Ids(h) : h[p + 1].type = start_node => h[p + 1].id = p
  <2> SUFFICES ASSUME NEW p \in Ids(f), h[p + 1].type = start_node
               PROVE  h[p + 1].id = p
    BY <1>7
  <2>1. CASE p = pos
    BY <1>6, <2>1
  <2>2. CASE p # pos
    BY <1>1, <1>6, <2>2
  <2> QED BY <2>1, <2>2
<1>9. Start(Len(h)) <= Len(w)
  BY <1>1, <1>4, <1>6 DEF N
<1>10. ASSUME Len(s) <= PageSize
       PROVE  /\ Len(w) = Start(Len(h))
              /\ \A p \in Ids(h) : h[p + 1].type = start_node =>
                                     Len(NodeBytes(h[p + 1])) <= PageSize
  <2>1. K <= PageSize
    BY <1>10 DEF K
  <2>2. Len(w) = Start(Len(h))
    BY <1>1, <1>2, <1>3, <1>4, <1>6, <2>1
  <2>3. ASSUME NEW p \in Ids(f), h[p + 1].type = start_node
        PROVE  Len(NodeBytes(h[p + 1])) <= PageSize
    <3>1. CASE p = pos
      <4>1. r.type = start_node /\ h[p + 1] = r
        BY <1>6, <2>3, <3>1
      <4>2. r # EmptyPage
        BY <4>1 DEF EmptyPage, start_node, empty_page
      <4>3. s = NodeBytes(r)
        BY <4>2 DEF BytesOf
      <4> QED BY <2>1, <4>1, <4>3 DEF K
    <3>2. CASE p # pos
      BY <1>1, <1>6, <2>3, <3>2
    <3> QED BY <3>1, <3>2
  <2> QED BY <1>7, <2>2, <2>3
<1>11. ASSUME NEW p \in Ids(f), ~RunsInto(h, p)
       PROVE  Holds(w, p, h[p + 1])
  <2>1. CASE p = pos
    <3>1. h[p + 1] = r
      BY <1>6, <2>1
    <3>2. CASE r \in Rec /\ s = NodeBytes(r)
      <4>1. r.type # empty_page
        BY <3>2 DEF Rec, start_node, empty_page
      <4>2. \A j \in 1 .. Len(NodeBytes(r)) : w[Start(p) + j] = NodeBytes(r)[j]
        BY <1>4, <2>1, <3>2 DEF S, K
      <4> QED BY <3>1, <4>1, <4>2 DEF Holds
    <3>3. CASE r = EmptyPage /\ s[1] = 0
      <4>1. r.type = empty_page
        BY <3>3 DEF EmptyPage
      <4>2. 1 \in 1 .. K
        BY <1>3
      <4>3. w[S + 1] = 0
        BY <1>4, <3>3, <4>2
      <4> QED BY <2>1, <3>1, <4>1, <4>3 DEF Holds, S
    <3> QED BY <3>2, <3>3 DEF BytesOf
  <2>2. CASE p # pos
    <3> DEFINE q == f[p + 1]
               P == Start(p)
    <3>1. h[p + 1] = q /\ Holds(b, p, q)
      BY <1>6, <2>2, NoneRuns
    <3>2. /\ p \in Nat /\ P \in Nat /\ P + PageSize <= Len(b)
      BY StoredType
    <3>3. P + PageSize <= S \/ S + K <= P
      <4>1. CASE p < pos
        BY <1>2, <3>2, <4>1, Starts DEF S
      <4>2. CASE pos < p
        <5>1. S + PageSize <= P
          BY <1>2, <3>2, <4>2, Starts DEF S
        <5>2. CASE r \in Rec /\ s = NodeBytes(r)
          <6>1. pos \in 0 .. p - 1
            BY <1>2, <3>2, <4>2
          <6>2. h[pos + 1].type = start_node
            BY <1>6, <5>2 DEF Rec
          <6>3. ~ (S + K > P)
            BY <1>6, <1>11, <5>2, <6>1, <6>2 DEF RunsInto, S, K
          <6> QED BY <1>2, <1>3, <3>2, <6>3
        <5>3. CASE K = PageSize
          BY <5>1, <5>3
        <5> QED BY <5>2, <5>3 DEF BytesOf, K
      <4> QED BY <1>2, <2>2, <3>2, <4>1, <4>2
    <3> HIDE DEF P
    <3>4. \A j \in 1 .. PageSize : w[P + j] = b[P + j]
      <4> SUFFICES ASSUME NEW j \in 1 .. PageSize PROVE w[P + j] = b[P + j]
        OBVIOUS
      <4> DEFINE i == P + j
      <4>1. i \in 1 .. Len(b) /\ (i <= S \/ S + K < i)
        BY <1>1, <1>2, <1>3, <3>2, <3>3
      <4> HIDE DEF i
      <4>2. w[i] = b[i]
        BY <1>4, <4>1
      <4> QED BY <4>2 DEF i
    <3>5. CASE q.type = empty_page
      <4>1. 1 \in 1 .. PageSize
        BY <1>2
      <4> QED BY <3>1, <3>4, <3>5, <4>1 DEF Holds, P
    <3>6. CASE q.type # empty_page
      <4>1. \A j \in 1 .. Len(NodeBytes(q)) : j <= PageSize => b[P + j] = NodeBytes(q)[j]
        BY <3>1, <3>6 DEF Holds, P
      <4>2. \A j \in 1 .. Len(NodeBytes(q)) : j <= PageSize => j \in 1 .. PageSize
        BY <1>2
      <4>3. \A j \in 1 .. Len(NodeBytes(q)) : j <= PageSize => w[P + j] = NodeBytes(q)[j]
        BY <3>4, <4>1, <4>2
      <4> QED BY <3>1, <3>6, <4>3 DEF Holds, P
    <3> QED BY <3>5, <3>6
  <2> QED BY <2>1, <2>2
<1> QED BY <1>1, <1>4, <1>6, <1>7, <1>8, <1>9, <1>10, <1>11 DEF Stored, N

-----------------------------------------------------------------------------
(* The operations.                                                         *)

(* The attributes, edges and nodes that are given may be on a page.        *)
LEMMA InputType ==
  /\ Attribute \subseteq Att /\ EdgeInputs \subseteq Arc
  /\ \A n \in NodeInputs : n.name \in NodeNames /\ n.att \in Seq(Att) /\ n.edges \in Seq(Arc)
<1>1. ASSUME NEW a \in Attribute
      PROVE  a \in Att
  <2>1. /\ a = [name |-> a.name, val |-> a.val] /\ a.name \in AttNames /\ a.val \in Values
    BY DEF Attribute
  <2>2. a.name \in Str /\ a.name # << >>
    BY <2>1, BytesAssumption, NamesAssumption DEF Str
  <2>3. a.val \in [type : Char, v : Str] /\ (a.val.type # string => Len(a.val.v) = 1)
    BY <2>1, BytesAssumption DEF Str
  <2>4. a \in [name : Str, val : [type : Char, v : Str]]
    BY <2>1, <2>2, <2>3
  <2> QED BY <2>2, <2>3, <2>4 DEF Att
<1>2. ASSUME NEW e \in EdgeInputs
      PROVE  e \in Arc
  <2>1. e = [name |-> e.name, id |-> e.id] /\ e.name \in EdgeNames /\ e.id \in NodeIds
    BY DEF EdgeInputs
  <2>2. e.name \in Str /\ e.name # << >>
    BY <2>1, BytesAssumption, NamesAssumption DEF Str
  <2>3. e.id \in Char
    <3>1. PageBound <= CharRange /\ PageBound \in Nat /\ CharRange \in Nat
      BY BytesAssumption, SizesAssumption, CharRangeAssumption
    <3> QED BY <2>1, <3>1 DEF NodeIds, Char
  <2> QED BY <2>1, <2>2, <2>3 DEF Arc
<1>3. ASSUME NEW n \in NodeInputs
      PROVE  n.name \in NodeNames /\ n.att \in Seq(Att) /\ n.edges \in Seq(Arc)
  <2>1. << >> \in Seq(Att) /\ << >> \in Seq(Arc)
    BY EmptySeq
  <2>2. n.name \in NodeNames /\ n.att = << >> /\ n.edges = << >>
    BY DEF NodeInputs
  <2> QED BY <2>1, <2>2
<1> QED BY <1>1, <1>2, <1>3

(* Writing a node to a page keeps the invariant. *)
LEMMA PutStep ==
  ASSUME NEW b, NEW f, Stored(b, f, FALSE), NEW pos \in Ids(f),
         NEW page \in Rec, page.id = pos, Put(b, f, pos, page)
  PROVE  RInv'
<1> DEFINE s == NodeBytes(page)
<1>1. /\ bytes' = WriteAt(b, Start(pos), s)
      /\ file' = [f EXCEPT ![pos + 1] = page]
      /\ lost' = (Len(s) > PageSize)
  BY DEF Put, Start
<1>2. BytesOf(s, page)
  <2>1. << >> \in Str
    BY EmptySeq DEF Str
  <2>2. PICK a, e, end : Layout(<< >>, page, a, e, end)
    BY <2>1, NodeLayout
  <2> QED BY <2>2 DEF Layout, BytesOf
<1> HIDE DEF s
<1>3. Len(s) \in Nat /\ PageSize \in Nat
  BY <1>2, SizesAssumption DEF BytesOf
<1>4. PICK w : w = WriteAt(b, Start(pos), s)
  OBVIOUS
<1>5. PICK h : h = [f EXCEPT ![pos + 1] = page]
  OBVIOUS
<1>6. Stored(w, h, TRUE) /\ (Len(s) <= PageSize => Stored(w, h, FALSE))
  BY <1>2, <1>4, <1>5, PutStored
<1>7. bytes' = w /\ file' = h
  BY <1>1, <1>4, <1>5
<1>8. CASE Len(s) > PageSize
  <2>1. lost' = TRUE
    BY <1>1, <1>8
  <2> QED BY <1>6, <1>7, <2>1 DEF RInv
<1>9. CASE ~ (Len(s) > PageSize)
  <2>1. lost' = FALSE
    <3> DEFINE big == Len(s) > PageSize
    <3>1. big = FALSE
      BY <1>3, <1>9
    <3>2. lost' = big
      BY <1>1
    <3> HIDE DEF big
    <3> QED BY <3>1, <3>2
  <2>2. Len(s) <= PageSize
    BY <1>3, <1>9
  <2> QED BY <1>6, <1>7, <2>1, <2>2 DEF RInv
<1> QED BY <1>8, <1>9

(* Changing a node that was looked up and writing it back does, too.       *)
LEMMA RewriteStep ==
  ASSUME RInv, NEW g, g = Contents, NEW id, NEW new, NEW ok, Rewrite(g, id, new, ok),
         NEW n, n = get_node_page(g, id), NEW m, new = set_node_page(g, n.id, m),
         ReadWhole(n) => m.name \in NodeNames /\ m.att \in Seq(Att) /\ m.edges \in Seq(Arc)
  PROVE  RInv'
<1>1. ~lost /\ Found(g, id) /\ n.name # NoName /\ Put(bytes, file, n.id, new[n.id + 1])
  BY DEF Rewrite
<1>2. Stored(bytes, file, FALSE)
  <2>1. lost = FALSE
    BY <1>1 DEF RInv
  <2> QED BY <2>1 DEF RInv
<1>3. Seen(file, g)
  BY <1>2, ContentsSeen
<1>4. n.id \in Ids(file) /\ ReadWhole(n)
  BY <1>1, <1>3, LookedUp
<1> DEFINE pos == n.id
<1>5. pos \in Nat /\ pos + 1 \in 1 .. Len(file) /\ pos \in Char
  BY <1>2, <1>4, StoredType
<1> HIDE DEF pos
<1>6. g = [j \in 1 .. Len(g) |-> g[j]] /\ Len(g) = Len(file)
  BY <1>3 DEF Seen
<1>7. set_node_page(g, pos, m)[pos + 1] \in Rec /\ set_node_page(g, pos, m)[pos + 1].id = pos
  BY <1>4, <1>5, <1>6, PagePut
<1>8. PICK page : page = new[pos + 1]
  OBVIOUS
<1>9. page \in Rec /\ page.id = pos
  BY <1>7, <1>8 DEF pos
<1>10. Put(bytes, file, pos, page) /\ pos \in Ids(file)
  BY <1>1, <1>4, <1>8 DEF pos
<1> QED BY <1>2, <1>9, <1>10, PutStep

(* create_node_page keeps the invariant. *)
LEMMA AddNodeStep ==
  ASSUME RInv, NEW n \in NodeInputs, AddNode(n)
  PROVE  RInv'
<1>1. PICK g : g = Contents
  OBVIOUS
<1> DEFINE empty == EmptyIds(g)
           pos == IF empty # {} THEN Min(empty) ELSE Len(g)
           page == create_node_page(g, n)[pos + 1]
<1>2. /\ ~lost
      /\ IF empty # {} THEN Put(bytes, file, pos, page)
         ELSE pos < PageBound /\ Put(bytes \o Zeros(PageSize), Append(file, EmptyPage), pos, page)
  BY <1>1 DEF AddNode
<1>3. Stored(bytes, file, FALSE)
  <2>1. lost = FALSE
    BY <1>2 DEF RInv
  <2> QED BY <2>1 DEF RInv
<1>4. Seen(file, g)
  BY <1>1, <1>3, ContentsSeen
<1>5. g = [j \in 1 .. Len(g) |-> g[j]] /\ Len(g) = Len(file) /\ Len(file) \in Nat
  BY <1>4 DEF Seen
<1>6. n.name \in NodeNames /\ n.att \in Seq(Att) /\ n.edges \in Seq(Arc)
  BY InputType
<1>7. CASE empty # {}
  <2>1. pos = Min(empty) /\ empty \in SUBSET Nat
    BY <1>5, <1>7 DEF EmptyIds, Ids
  <2>2. pos \in empty
    BY <1>7, <2>1, MinProperty
  <2>3. create_node_page(g, n) = set_node_page(g, pos, n)
    BY <1>7, <2>1 DEF create_node_page
  <2>4. pos \in Ids(file)
    BY <1>5, <2>2 DEF EmptyIds, Ids
  <2> HIDE DEF pos
  <2>5. pos \in Nat /\ pos + 1 \in 1 .. Len(file) /\ pos \in Char
    BY <1>3, <2>4, StoredType
  <2>6. set_node_page(g, pos, n)[pos + 1] \in Rec /\ set_node_page(g, pos, n)[pos + 1].id = pos
    BY <1>5, <1>6, <2>5, PagePut
  <2>7. page \in Rec /\ page.id = pos /\ Put(bytes, file, pos, page)
    BY <1>2, <1>7, <2>3, <2>6
  <2> HIDE DEF page
  <2> QED BY <1>3, <2>4, <2>7, PutStep
<1>8. CASE empty = {}
  <2> DEFINE z == Zeros(PageSize)
             b == bytes \o z
             f == Append(file, EmptyPage)
  <2>1. /\ pos = Len(g) /\ pos < PageBound
        /\ Put(b, f, pos, page)
        /\ create_node_page(g, n) = set_node_page(Append(g, EmptyPage), pos, n)
    BY <1>2, <1>8 DEF create_node_page
  <2>2. PageSize \in Nat \ {0} /\ PageBound \in Nat /\ PageBound <= CharRange /\ CharRange \in Nat
    BY SizesAssumption, BytesAssumption, CharRangeAssumption
  <2>3. z \in Str /\ Len(z) = PageSize /\ \A j \in 1 .. PageSize : z[j] = 0
    <3>1. 0 \in Char
      BY <2>2, CharRangeAssumption DEF Char
    <3>2. z = [j \in 1 .. PageSize |-> 0]
      BY DEF Zeros
    <3> QED BY <2>2, <3>1, <3>2 DEF Str
  <2> HIDE DEF z
  <2>4. /\ bytes \in Str /\ file \in Seq(Rec \cup {EmptyPage}) /\ Len(bytes) = Start(Len(file))
        /\ \A p \in Ids(file) : file[p + 1].type = start_node => file[p + 1].id = p
        /\ \A p \in Ids(file) : file[p + 1].type = start_node =>
                                  Len(NodeBytes(file[p + 1])) <= PageSize
        /\ Len(bytes) \in Nat
    BY <1>3, StoredType DEF Stored
  <2>5. /\ b \in Str /\ Len(b) = Len(bytes) + PageSize
        /\ \A j \in 1 .. Len(bytes) : b[j] = bytes[j]
        /\ \A j \in 1 .. PageSize : b[Len(bytes) + j] = 0
    BY <2>3, <2>4, Behind
  <2>6. /\ f \in Seq(Rec \cup {EmptyPage}) /\ Len(f) = Len(file) + 1
        /\ f[Len(file) + 1] = EmptyPage
        /\ \A j \in 1 .. Len(file) : f[j] = file[j]
    <3> DEFINE T == Rec \cup {EmptyPage}
    <3>1. file \in Seq(T) /\ EmptyPage \in T
      BY <2>4
    <3> HIDE DEF T
    <3>2. f \in Seq(T) /\ Len(f) = Len(file) + 1 /\ f[Len(file) + 1] = EmptyPage
          /\ \A j \in 1 .. Len(file) : f[j] = file[j]
      BY <3>1
    <3> QED BY <3>2 DEF T
  <2>7. pos = Len(file) /\ pos \in Nat /\ pos \in Char /\ pos \in Ids(f)
    BY <1>5, <2>1, <2>2, <2>6 DEF Char, Ids
  <2>8. \A p \in Ids(f) :
          \/ p = pos /\ f[p + 1] = EmptyPage
          \/ p \in Ids(file) /\ f[p + 1] = file[p + 1]
    <3> SUFFICES ASSUME NEW p \in Ids(f)
                 PROVE  \/ p = pos /\ f[p + 1] = EmptyPage
                        \/ p \in Ids(file) /\ f[p + 1] = file[p + 1]
      OBVIOUS
    <3>1. p \in Nat /\ (p = Len(file) \/ p + 1 \in 1 .. Len(file))
      BY <1>5, <2>6 DEF Ids
    <3> QED BY <1>5, <2>6, <2>7, <3>1 DEF Ids
  <2> HIDE DEF b, f
  <2>9. EmptyPage.type = empty_page /\ empty_page # start_node
    BY DEF EmptyPage, empty_page, start_node
  <2>10. Stored(b, f, FALSE)
    <3>1. Len(f) <= PageBound
      BY <1>5, <2>1, <2>2, <2>6, <2>7
    <3>2. \A p \in Ids(f) : f[p + 1].type = start_node =>
            f[p + 1].id = p /\ Len(NodeBytes(f[p + 1])) <= PageSize
      BY <2>4, <2>8, <2>9
    <3>3. Len(b) = Start(Len(f)) /\ Len(b) \in Nat
      <4>1. Start(Len(file) + 1) = Start(Len(file)) + PageSize
        BY <1>5, Starts
      <4> QED BY <2>2, <2>4, <2>5, <2>6, <4>1
    <3>4. ASSUME NEW p \in Ids(f)
          PROVE  Holds(b, p, f[p + 1])
      <4>1. CASE p = pos /\ f[p + 1] = EmptyPage
        <5>1. Start(p) = Len(bytes) /\ 1 \in 1 .. PageSize
          BY <2>2, <2>4, <2>7, <4>1
        <5> QED BY <2>5, <2>9, <4>1, <5>1 DEF Holds
      <4>2. CASE p \in Ids(file) /\ f[p + 1] = file[p + 1]
        <5> DEFINE q == file[p + 1]
                   P == Start(p)
        <5>1. Holds(bytes, p, q)
          BY <1>3, <4>2, NoneRuns
        <5>2. P \in Nat /\ P + PageSize <= Len(bytes)
          BY <1>3, <4>2, StoredType
        <5>3. f[p + 1] = q
          BY <4>2
        <5> HIDE DEF P, q
        <5>4. \A j \in 1 .. PageSize : b[P + j] = bytes[P + j]
          <6> SUFFICES ASSUME NEW j \in 1 .. PageSize PROVE b[P + j] = bytes[P + j]
            OBVIOUS
          <6>1. P + j \in 1 .. Len(bytes)
            BY <2>2, <2>4, <5>2
          <6> QED BY <2>5, <6>1
        <5>5. 1 \in 1 .. PageSize
          BY <2>2
        <5>6. \A j \in 1 .. Len(NodeBytes(q)) : j <= PageSize => j \in 1 .. PageSize
          BY <2>2
        <5>7. CASE q.type = empty_page
          BY <5>1, <5>3, <5>4, <5>5, <5>7 DEF Holds, P
        <5>8. CASE q.type # empty_page
          <6>1. \A j \in 1 .. Len(NodeBytes(q)) : j <= PageSize => bytes[P + j] = NodeBytes(q)[j]
            BY <5>1, <5>8 DEF Holds, P
          <6>2. \A j \in 1 .. Len(NodeBytes(q)) : j <= PageSize => b[P + j] = NodeBytes(q)[j]
            BY <5>4, <5>6, <6>1
          <6> QED BY <5>3, <5>8, <6>2 DEF Holds, P
        <5> QED BY <5>7, <5>8
      <4> QED BY <2>8, <4>1, <4>2
    <3>5. Start(Len(f)) <= Len(b)
      BY <3>3
    <3> QED BY <2>5, <2>6, <3>1, <3>2, <3>3, <3>4, <3>5 DEF Stored
  <2> DEFINE a == Append(g, EmptyPage)
  <2>11. a = [j \in 1 .. Len(a) |-> a[j]] /\ pos + 1 \in 1 .. Len(a)
    <3> DEFINE M == Len(g)
    <3>1. M \in Nat /\ pos = M /\ g = [j \in 1 .. M |-> g[j]]
      BY <1>5, <2>1
    <3>2. g \in Seq({g[j] : j \in 1 .. M} \cup {EmptyPage})
      <4> DEFINE T == {g[j] : j \in 1 .. M} \cup {EmptyPage}
                 v == [j \in 1 .. M |-> g[j]]
      <4>1. \A j \in 1 .. M : g[j] \in T
        OBVIOUS
      <4> HIDE DEF T, M
      <4>2. v \in Seq(T)
        BY <3>1, <4>1
      <4>3. g = v
        BY <3>1
      <4> HIDE DEF v
      <4> QED BY <4>2, <4>3 DEF T
    <3> DEFINE T == {g[j] : j \in 1 .. M} \cup {EmptyPage}
    <3>3. g \in Seq(T) /\ EmptyPage \in T
      BY <3>2
    <3> HIDE DEF T
    <3>4. a \in Seq(T) /\ Len(a) = M + 1
      BY <3>3
    <3> HIDE DEF a, M
    <3>5. a = [j \in 1 .. Len(a) |-> a[j]]
      BY <3>4
    <3> HIDE DEF pos
    <3>6. pos + 1 \in 1 .. Len(a)
      BY <3>1, <3>4
    <3> QED BY <3>5, <3>6
  <2> HIDE DEF a, pos
  <2>12. set_node_page(a, pos, n)[pos + 1] \in Rec /\ set_node_page(a, pos, n)[pos + 1].id = pos
    BY <1>6, <2>7, <2>11, PagePut
  <2>13. page \in Rec /\ page.id = pos /\ Put(b, f, pos, page)
    BY <2>1, <2>12 DEF a
  <2> HIDE DEF page
  <2> QED BY <2>7, <2>10, <2>13, PutStep
<1> QED BY <1>7, <1>8

(* The lists that the page functions make of a node's list of attributes   *)
(* are lists of attributes.                                                *)
LEMMA AttributeLists ==
  ASSUME NEW s \in Seq(Att)
  PROVE  /\ \A a \in Att :
              /\ Append(s, a) \in Seq(Att)
              /\ [i \in 1 .. Len(s) |-> IF s[i].name = a.name THEN a ELSE s[i]] \in Seq(Att)
         /\ \A name : Pick(s, {i \in 1 .. Len(s) : s[i].name # name}) \in Seq(Att)
<1> DEFINE K == Len(s)
<1>1. K \in Nat /\ \A i \in 1 .. K : s[i] \in Att
  BY LenProperties, ElementOfSeq
<1>2. ASSUME NEW a \in Att
      PROVE  [i \in 1 .. K |-> IF s[i].name = a.name THEN a ELSE s[i]] \in Seq(Att)
  <2> HIDE DEF K
  <2>1. \A i \in 1 .. K : (IF s[i].name = a.name THEN a ELSE s[i]) \in Att
    BY <1>1
  <2> QED BY <1>1, <2>1
<1>3. ASSUME NEW name
      PROVE  Pick(s, {i \in 1 .. K : s[i].name # name}) \in Seq(Att)
  <2> DEFINE keep == {i \in 1 .. K : s[i].name # name}
  <2>1. keep \in SUBSET (1 .. K)
    OBVIOUS
  <2> HIDE DEF keep
  <2> QED BY <2>1, PickType
<1>4. \A a \in Att : Append(s, a) \in Seq(Att)
  OBVIOUS
<1> QED BY <1>2, <1>3, <1>4

(* So are those made of its list of edges.                                 *)
LEMMA EdgeLists ==
  ASSUME NEW s \in Seq(Arc)
  PROVE  /\ \A e \in Arc :
              /\ Append(s, e) \in Seq(Arc)
              /\ [i \in 1 .. Len(s) |-> IF s[i].id = e.id THEN [s[i] EXCEPT !.name = e.name]
                                        ELSE s[i]] \in Seq(Arc)
         /\ \A target : Pick(s, {i \in 1 .. Len(s) : s[i].id # target}) \in Seq(Arc)
<1> DEFINE K == Len(s)
<1>1. K \in Nat /\ \A i \in 1 .. K : s[i] \in Arc
  BY LenProperties, ElementOfSeq
<1>2. ASSUME NEW e \in Arc
      PROVE  [i \in 1 .. K |-> IF s[i].id = e.id THEN [s[i] EXCEPT !.name = e.name]
                               ELSE s[i]] \in Seq(Arc)
  <2> HIDE DEF K
  <2>1. \A i \in 1 .. K : (IF s[i].id = e.id THEN [s[i] EXCEPT !.name = e.name]
                           ELSE s[i]) \in Arc
    BY <1>1 DEF Arc
  <2> DEFINE v == [i \in 1 .. K |-> IF s[i].id = e.id THEN [s[i] EXCEPT !.name = e.name]
                                    ELSE s[i]]
  <2>2. v = [i \in 1 .. K |-> v[i]] /\ \A i \in 1 .. K : v[i] \in Arc
    BY <2>1
  <2> HIDE DEF v
  <2>3. [i \in 1 .. K |-> v[i]] \in Seq(Arc)
    BY <1>1, <2>2
  <2>4. v \in Seq(Arc)
    BY <2>2, <2>3
  <2> QED BY <2>4 DEF v
<1>3. ASSUME NEW target
      PROVE  Pick(s, {i \in 1 .. K : s[i].id # target}) \in Seq(Arc)
  <2> DEFINE keep == {i \in 1 .. K : s[i].id # target}
  <2>1. keep \in SUBSET (1 .. K)
    OBVIOUS
  <2> HIDE DEF keep
  <2> QED BY <2>1, PickType
<1>4. \A e \in Arc : Append(s, e) \in Seq(Arc)
  OBVIOUS
<1> QED BY <1>2, <1>3, <1>4

(* A node with another list is a node. *)
LEMMA OtherList ==
  ASSUME NEW n, ReadWhole(n), NEW s
  PROVE  /\ s \in Seq(Att) => ReadWhole([n EXCEPT !.att = s])
         /\ s \in Seq(Arc) => ReadWhole([n EXCEPT !.edges = s])
BY DEF ReadWhole

(* Changing the name of a node keeps the invariant. *)
LEMMA UpdateNodeStep ==
  ASSUME RInv, NEW id, NEW x \in NodeInputs, UpdateNode(id, x)
  PROVE  RInv'
<1>1. PICK g : g = Contents
  OBVIOUS
<1>2. PICK n : n = get_node_page(g, id)
  OBVIOUS
<1>3. PICK new : new = set_node_page(g, n.id, x)
  OBVIOUS
<1>4. Rewrite(g, id, new, TRUE)
  BY <1>1, <1>2, <1>3 DEF UpdateNode, update_node_page
<1>5. x.name \in NodeNames /\ x.att \in Seq(Att) /\ x.edges \in Seq(Arc)
  BY InputType
<1> QED BY <1>1, <1>2, <1>3, <1>4, <1>5, RewriteStep

(* A node with other attributes keeps it. *)
LEMMA AttributesStep ==
  ASSUME RInv, NEW g, g = Contents, NEW id, NEW n, n = get_node_page(g, id), NEW s,
         ReadWhole(n) => s \in Seq(Att), NEW new, new = set_node_page(g, n.id, [n EXCEPT !.att = s]),
         NEW ok, Rewrite(g, id, new, ok)
  PROVE  RInv'
<1> DEFINE m == [n EXCEPT !.att = s]
<1>1. ReadWhole(n) => m.name \in NodeNames /\ m.att \in Seq(Att) /\ m.edges \in Seq(Arc)
  <2>1. ReadWhole(n) => ReadWhole(m)
    BY OtherList
  <2> HIDE DEF m
  <2> QED BY <2>1 DEF ReadWhole
<1>2. new = set_node_page(g, n.id, m)
  OBVIOUS
<1> HIDE DEF m
<1> QED BY <1>1, <1>2, RewriteStep

(* And so does one with other edges. *)
LEMMA EdgesStep ==
  ASSUME RInv, NEW g, g = Contents, NEW id, NEW n, n = get_node_page(g, id), NEW s,
         ReadWhole(n) => s \in Seq(Arc), NEW new, new = set_node_page(g, n.id, [n EXCEPT !.edges = s]),
         NEW ok, Rewrite(g, id, new, ok)
  PROVE  RInv'
<1> DEFINE m == [n EXCEPT !.edges = s]
<1>1. ReadWhole(n) => m.name \in NodeNames /\ m.att \in Seq(Att) /\ m.edges \in Seq(Arc)
  <2>1. ReadWhole(n) => ReadWhole(m)
    BY OtherList
  <2> HIDE DEF m
  <2> QED BY <2>1 DEF ReadWhole
<1>2. new = set_node_page(g, n.id, m)
  OBVIOUS
<1> HIDE DEF m
<1> QED BY <1>1, <1>2, RewriteStep

(* The three attribute functions keep the invariant. *)
LEMMA AttributeSteps ==
  ASSUME RInv, NEW id,
         \/ \E a \in Attribute : AddAttribute(id, a) \/ UpdateAttribute(id, a)
         \/ \E name \in AttNames : DeleteAttribute(id, name)
  PROVE  RInv'
<1>1. PICK g : g = Contents
  OBVIOUS
<1>2. PICK n : n = get_node_page(g, id)
  OBVIOUS
<1>3. ReadWhole(n) => n.att \in Seq(Att)
  BY DEF ReadWhole
<1>4. ASSUME NEW a \in Attribute, AddAttribute(id, a)
      PROVE  RInv'
  <2> DEFINE s == Append(n.att, a)
             new == set_node_page(g, n.id, [n EXCEPT !.att = s])
             ok == Room(n)
  <2>1. Rewrite(g, id, new, ok)
    BY <1>1, <1>2, <1>4 DEF AddAttribute, add_attribute_page
  <2>2. ReadWhole(n) => s \in Seq(Att)
    BY <1>3, AttributeLists, InputType
  <2>3. new = set_node_page(g, n.id, [n EXCEPT !.att = s])
    OBVIOUS
  <2> HIDE DEF s, new, ok
  <2> QED BY <1>1, <1>2, <2>1, <2>2, <2>3, AttributesStep
<1>5. ASSUME NEW a \in Attribute, UpdateAttribute(id, a)
      PROVE  RInv'
  <2> DEFINE s == [i \in 1 .. Len(n.att) |-> IF n.att[i].name = a.name THEN a ELSE n.att[i]]
             new == set_node_page(g, n.id, [n EXCEPT !.att = s])
  <2>1. Rewrite(g, id, new, TRUE)
    BY <1>1, <1>2, <1>5 DEF UpdateAttribute, update_attribute_page
  <2>2. ReadWhole(n) => s \in Seq(Att)
    BY <1>3, AttributeLists, InputType
  <2>3. new = set_node_page(g, n.id, [n EXCEPT !.att = s])
    OBVIOUS
  <2> HIDE DEF s, new
  <2> QED BY <1>1, <1>2, <2>1, <2>2, <2>3, AttributesStep
<1>6. ASSUME NEW name \in AttNames, DeleteAttribute(id, name)
      PROVE  RInv'
  <2> DEFINE s == Pick(n.att, {i \in 1 .. Len(n.att) : n.att[i].name # name})
             new == set_node_page(g, n.id, [n EXCEPT !.att = s])
             ok == ~DeleteAttributeCrashes(n, name)
  <2>1. Rewrite(g, id, new, ok)
    BY <1>1, <1>2, <1>6 DEF DeleteAttribute, delete_attribute_page
  <2>2. ReadWhole(n) => s \in Seq(Att)
    BY <1>3, AttributeLists
  <2>3. new = set_node_page(g, n.id, [n EXCEPT !.att = s])
    OBVIOUS
  <2> HIDE DEF s, new, ok
  <2> QED BY <1>1, <1>2, <2>1, <2>2, <2>3, AttributesStep
<1> QED BY <1>4, <1>5, <1>6

(* The three edge functions keep the invariant. *)
LEMMA EdgeSteps ==
  ASSUME RInv, NEW id,
         \/ \E e \in EdgeInputs : AddEdge(id, e) \/ UpdateEdge(id, e)
         \/ \E target \in NodeIds : DeleteEdge(id, target)
  PROVE  RInv'
<1>1. PICK g : g = Contents
  OBVIOUS
<1>2. PICK n : n = get_node_page(g, id)
  OBVIOUS
<1>3. ReadWhole(n) => n.edges \in Seq(Arc)
  BY DEF ReadWhole
<1>4. ASSUME NEW e \in EdgeInputs, AddEdge(id, e)
      PROVE  RInv'
  <2> DEFINE s == Append(n.edges, e)
             new == set_node_page(g, n.id, [n EXCEPT !.edges = s])
             ok == Room(n)
  <2>1. Rewrite(g, id, new, ok)
    BY <1>1, <1>2, <1>4 DEF AddEdge, add_edge_page
  <2>2. ReadWhole(n) => s \in Seq(Arc)
    BY <1>3, EdgeLists, InputType
  <2>3. new = set_node_page(g, n.id, [n EXCEPT !.edges = s])
    OBVIOUS
  <2> HIDE DEF s, new, ok
  <2> QED BY <1>1, <1>2, <2>1, <2>2, <2>3, EdgesStep
<1>5. ASSUME NEW e \in EdgeInputs, UpdateEdge(id, e)
      PROVE  RInv'
  <2> DEFINE s == [i \in 1 .. Len(n.edges) |->
                     IF n.edges[i].id = e.id THEN [n.edges[i] EXCEPT !.name = e.name]
                                             ELSE n.edges[i]]
             new == set_node_page(g, n.id, [n EXCEPT !.edges = s])
  <2>1. Rewrite(g, id, new, TRUE)
    BY <1>1, <1>2, <1>5 DEF UpdateEdge, update_edge_page
  <2>2. ReadWhole(n) => s \in Seq(Arc)
    BY <1>3, EdgeLists, InputType
  <2>3. new = set_node_page(g, n.id, [n EXCEPT !.edges = s])
    OBVIOUS
  <2> HIDE DEF s, new
  <2> QED BY <1>1, <1>2, <2>1, <2>2, <2>3, EdgesStep
<1>6. ASSUME NEW target \in NodeIds, DeleteEdge(id, target)
      PROVE  RInv'
  <2> DEFINE s == Pick(n.edges, {i \in 1 .. Len(n.edges) : n.edges[i].id # target})
             new == set_node_page(g, n.id, [n EXCEPT !.edges = s])
             ok == ~DeleteEdgeCrashes(n, target)
  <2>1. Rewrite(g, id, new, ok)
    BY <1>1, <1>2, <1>6 DEF DeleteEdge, delete_edge_page
  <2>2. ReadWhole(n) => s \in Seq(Arc)
    BY <1>3, EdgeLists
  <2>3. new = set_node_page(g, n.id, [n EXCEPT !.edges = s])
    OBVIOUS
  <2> HIDE DEF s, new, ok
  <2> QED BY <1>1, <1>2, <2>1, <2>2, <2>3, EdgesStep
<1> QED BY <1>4, <1>5, <1>6

(* delete_node_page writes a page of zeros, which keeps it, too.           *)
LEMMA DeleteNodeStep ==
  ASSUME RInv, NEW id, DeleteNode(id)
  PROVE  RInv'
<1>1. PICK g : g = Contents
  OBVIOUS
<1>2. PICK n : n = get_node_page(g, id)
  OBVIOUS
<1> DEFINE s == Zeros(PageSize)
<1>3. /\ ~lost /\ Found(g, id)
      /\ bytes' = WriteAt(bytes, Start(n.id), s)
      /\ file' = [file EXCEPT ![n.id + 1] = EmptyPage]
      /\ lost' = lost
  BY <1>1, <1>2 DEF DeleteNode, Start
<1>4. lost = FALSE /\ Stored(bytes, file, FALSE)
  <2>1. lost = FALSE
    BY <1>3 DEF RInv
  <2> QED BY <2>1 DEF RInv
<1>5. n.id \in Ids(file)
  BY <1>1, <1>2, <1>3, <1>4, ContentsSeen, LookedUp
<1>6. PageSize \in Nat \ {0} /\ 0 \in Char
  BY SizesAssumption, CharRangeAssumption DEF Char
<1>7. s \in Str /\ Len(s) = PageSize /\ s[1] = 0
  <2>1. s = [j \in 1 .. PageSize |-> 0] /\ 1 \in 1 .. PageSize
    BY <1>6 DEF Zeros
  <2> QED BY <1>6, <2>1 DEF Str
<1> HIDE DEF s
<1>8. BytesOf(s, EmptyPage)
  BY <1>6, <1>7 DEF BytesOf
<1>9. PICK w : w = WriteAt(bytes, Start(n.id), s)
  OBVIOUS
<1>10. PICK h : h = [file EXCEPT ![n.id + 1] = EmptyPage]
  OBVIOUS
<1>11. PICK r : r = EmptyPage
  OBVIOUS
<1>12. r.type = start_node => r.id = n.id
  BY <1>11 DEF EmptyPage, start_node, empty_page
<1>13. Stored(w, h, FALSE)
  <2>1. PICK pos : pos = n.id
    OBVIOUS
  <2>2. /\ pos \in Ids(file) /\ (r.type = start_node => r.id = pos) /\ BytesOf(s, r)
        /\ w = WriteAt(bytes, Start(pos), s) /\ h = [file EXCEPT ![pos + 1] = r]
        /\ Len(s) <= PageSize
    BY <1>5, <1>6, <1>7, <1>8, <1>9, <1>10, <1>11, <1>12, <2>1
  <2> QED BY <1>4, <2>2, PutStored
<1>14. bytes' = w /\ file' = h /\ lost' = FALSE
  BY <1>3, <1>4, <1>9, <1>10
<1> QED BY <1>13, <1>14 DEF RInv

(* A node that is misread is the end of what is followed.                  *)
LEMMA MisreadStep ==
  ASSUME RInv, NEW id, Misread(id)
  PROVE  RInv'
<1>1. lost' = TRUE /\ bytes' = bytes /\ file' = file
  BY DEF Misread
<1>2. Stored(bytes, file, TRUE)
  BY DEF RInv, Stored
<1> QED BY <1>1, <1>2 DEF RInv

(* The invariant holds in every state. *)
LEMMA AlwaysStored == RSpec => []RInv
<1>1. RInit => RInv
  <2> SUFFICES ASSUME RInit PROVE RInv
    OBVIOUS
  <2>1. bytes = << >> /\ file = << >> /\ lost = FALSE
    BY DEF RInit
  <2> DEFINE T == Rec \cup {EmptyPage}
  <2>2. << >> \in Str /\ << >> \in Seq(T) /\ Len(<< >>) = 0
    BY EmptySeq DEF Str
  <2>3. Ids(<< >>) = {} /\ Start(0) = 0 /\ 0 <= PageBound
    BY <2>2, SizesAssumption DEF Ids, Start
  <2>4. Stored(<< >>, << >>, FALSE)
    BY <2>2, <2>3 DEF Stored
  <2> QED BY <2>1, <2>4 DEF RInv
<1>2. RInv /\ [RNext]_rvars => RInv'
  <2> SUFFICES ASSUME RInv, [RNext]_rvars PROVE RInv'
    OBVIOUS
  <2>1. CASE UNCHANGED rvars
    BY <2>1 DEF rvars, RInv
  <2>2. CASE \E n \in NodeInputs : AddNode(n)
    BY <2>2, AddNodeStep
  <2>3. ASSUME NEW id \in NodeIds, Misread(id) \/ DeleteNode(id)
        PROVE  RInv'
    BY <2>3, MisreadStep, DeleteNodeStep
  <2>4. ASSUME NEW id \in NodeIds, \E n \in NodeInputs : UpdateNode(id, n)
        PROVE  RInv'
    BY <2>4, UpdateNodeStep
  <2>5. ASSUME NEW id \in NodeIds,
               \/ \E a \in Attribute : AddAttribute(id, a) \/ UpdateAttribute(id, a)
               \/ \E name \in AttNames : DeleteAttribute(id, name)
        PROVE  RInv'
    BY <2>5, AttributeSteps
  <2>6. ASSUME NEW id \in NodeIds,
               \/ \E e \in EdgeInputs : AddEdge(id, e) \/ UpdateEdge(id, e)
               \/ \E target \in NodeIds : DeleteEdge(id, target)
        PROVE  RInv'
    BY <2>6, EdgeSteps
  <2> QED BY <2>1, <2>2, <2>3, <2>4, <2>5, <2>6 DEF RNext
<1> QED BY <1>1, <1>2, PTL DEF RSpec

-----------------------------------------------------------------------------
(* Results.                                                                *)

(* The file is a row of whole pages, each of them empty or a node's, as    *)
(* long as no record has run over the end of its page.                     *)
THEOREM RTypeCorrect == RSpec => []RTypeOK
<1>1. RInv => RTypeOK
  <2> SUFFICES ASSUME RInv PROVE RTypeOK
    OBVIOUS
  <2>1. lost \in BOOLEAN /\ Stored(bytes, file, lost)
    BY DEF RInv
  <2>2. bytes \in Seq(Int)
    <3>1. /\ Len(bytes) \in Nat /\ \A j \in 1 .. Len(bytes) : bytes[j] \in Int
          /\ bytes = [j \in 1 .. Len(bytes) |-> bytes[j]]
      <4>1. bytes \in Str /\ \A c \in Char : c \in Int
        BY <2>1, CharRangeAssumption DEF Stored, Char
      <4>2. Len(bytes) \in Nat /\ \A j \in 1 .. Len(bytes) : bytes[j] \in Char
        BY <2>1, StoredType
      <4> QED BY <4>1, <4>2 DEF Str
    <3> DEFINE K == Len(bytes)
    <3>2. K \in Nat /\ bytes = [j \in 1 .. K |-> bytes[j]] /\ \A j \in 1 .. K : bytes[j] \in Int
      BY <3>1
    <3> HIDE DEF K
    <3>3. [j \in 1 .. K |-> bytes[j]] \in Seq(Int)
      BY <3>2
    <3> QED BY <3>2, <3>3
  <2>3. \A p \in Ids(file) : file[p + 1].type \in {start_node, empty_page}
    BY <2>1, StoredType
  <2>4. ~lost => Len(bytes) = PageSize * Len(file)
    <3>1. ~lost => Len(bytes) = Len(file) * PageSize
      BY <2>1 DEF Stored, Start
    <3>2. Len(file) \in Nat /\ PageSize \in Nat
      BY <2>1, StoredType, SizesAssumption
    <3> QED BY <3>1, <3>2
  <2> QED BY <2>1, <2>2, <2>3, <2>4 DEF RTypeOK
<1> QED BY <1>1, AlwaysStored, PTL

(* A node is read back as it was written exactly when its strings and its  *)
(* record are short enough, through any history of the file, and a record  *)
(* that is too long harms no page that it does not run into.               *)
THEOREM AlwaysReadBackIffFits == RSpec => []ReadBackIffFits
<1>1. RInv => ReadBackIffFits
  <2> SUFFICES ASSUME RInv, NEW p \in Ids(file), ~RunInto(p)
               PROVE  Contents[p + 1] = file[p + 1]
                        <=> file[p + 1].type = empty_page \/ Fits(file[p + 1])
    BY DEF ReadBackIffFits
  <2>1. Stored(bytes, file, lost)
    BY DEF RInv
  <2>2. ~RunsInto(file, p)
    BY DEF RunInto, RunsInto, Start
  <2>3. Holds(bytes, p, file[p + 1])
    BY <2>1, <2>2 DEF Stored
  <2>4. Contents[p + 1] = ReadPage(PageOf(bytes, p))
    BY <2>1, ContentsPages
  <2> DEFINE r == file[p + 1]
  <2>5. \/ r = EmptyPage /\ r.type = empty_page /\ ReadPage(PageOf(bytes, p)) = EmptyPage
        \/ r \in Rec /\ r.type = start_node /\ ReadAs(PageOf(bytes, p), r)
    BY <2>1, <2>3, PageRead
  <2> HIDE DEF r
  <2>6. CASE r = EmptyPage /\ r.type = empty_page /\ ReadPage(PageOf(bytes, p)) = EmptyPage
    BY <2>4, <2>6 DEF r
  <2>7. CASE r \in Rec /\ r.type = start_node /\ ReadAs(PageOf(bytes, p), r)
    <3>1. (ReadPage(PageOf(bytes, p)) = r) <=> Fits(r)
      BY <2>7 DEF ReadAs
    <3>2. r.type # empty_page
      BY <2>7 DEF start_node, empty_page
    <3> QED BY <2>4, <3>1, <3>2 DEF r
  <2> QED BY <2>5, <2>6, <2>7
<1> QED BY <1>1, AlwaysStored, PTL
=============================================================================
