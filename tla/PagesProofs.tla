----------------------------- MODULE PagesProofs -----------------------------
(***************************************************************************)
(* What the page functions of Pages return, for every file and every node: *)
(* which page a lookup finds, and that writing a page leaves a file in     *)
(* which every page is well formed and every other page is as it was.      *)
(***************************************************************************)
EXTENDS Pages, DataLemmas

(* A file of well-formed pages, each node stored where its id says. *)
GoodFile(f) == f \in Seq(Page) /\ \A id \in LiveIds(f) : f[id + 1].id = id

(* g differs from f in one page at most. *)
Near(f, g) ==
  /\ Len(g) = Len(f)
  /\ \E p \in Ids(f) \cup {0} : \A q \in Ids(f) \ {p} : g[q + 1] = f[q + 1]

(* g is f with one page written, and is as good as f. *)
Written(f, g) == GoodFile(g) /\ Near(g, f)

(* A node that set_node_page can write. *)
Writable(n) == /\ n.name \in NodeNames
               /\ n.att \in Seq(Attribute)
               /\ n.edges \in Seq(Edge)

-----------------------------------------------------------------------------
(* Lists.                                                                  *)

(* Dropping elements from a list leaves a list of elements that were kept. *)
LEMMA PickElements ==
  ASSUME NEW S, NEW s \in Seq(S), NEW keep \in SUBSET (1 .. Len(s))
  PROVE  /\ Pick(s, keep) \in Seq({s[i] : i \in keep})
         /\ Len(Pick(s, keep)) = Cardinality(keep)
<1>1. Len(s) \in Nat
  BY LenProperties
<1>2. /\ Cardinality(keep) \in Nat
      /\ \A m \in 1 .. Cardinality(keep) : Kth(keep, m) \in keep
  BY <1>1, Ranks, KthRank
<1> DEFINE kept == {s[i] : i \in keep}
           card == Cardinality(keep)
<1>3. \A m \in 1 .. card : s[Kth(keep, m)] \in kept
  BY <1>2
<1> HIDE DEF kept
<1>4. /\ [m \in 1 .. card |-> s[Kth(keep, m)]] \in Seq(kept)
      /\ Len([m \in 1 .. card |-> s[Kth(keep, m)]]) = card
  BY <1>2, <1>3
<1> QED BY <1>4 DEF Pick, Kth, Rank, kept

(* So it leaves a list of the same type. *)
LEMMA PickType ==
  ASSUME NEW S, NEW s \in Seq(S), NEW keep \in SUBSET (1 .. Len(s))
  PROVE  Pick(s, keep) \in Seq(S)
<1> DEFINE kept == {s[i] : i \in keep}
<1>1. kept \subseteq S
  BY ElementOfSeq
<1>2. Pick(s, keep) \in Seq(kept)
  BY PickElements
<1> HIDE DEF kept
<1> QED BY <1>1, <1>2

-----------------------------------------------------------------------------
(* Pages.                                                                  *)

(* Every page of a good file is an empty page or a node page. *)
LEMMA FileType ==
  ASSUME NEW f, GoodFile(f)
  PROVE  /\ Len(f) \in Nat
         /\ DOMAIN f = 1 .. Len(f)
         /\ \A id \in Ids(f) : /\ id \in Nat
                              /\ id + 1 \in 1 .. Len(f)
                              /\ f[id + 1] \in Page
<1>1. f \in Seq(Page) /\ Len(f) \in Nat /\ DOMAIN f = 1 .. Len(f)
  BY LenProperties DEF GoodFile
<1>2. \A id \in Ids(f) : id \in Nat /\ id + 1 \in 1 .. Len(f)
  BY <1>1 DEF Ids
<1> QED BY <1>1, <1>2, ElementOfSeq

(* A live page holds a node, and reading it gives a node with its id. *)
LEMMA ReadLivePage ==
  ASSUME NEW f, GoodFile(f), NEW pos \in LiveIds(f)
  PROVE  LET n == page_to_node(f[pos + 1])
         IN  /\ n = [id |-> pos, name |-> n.name, att |-> n.att, edges |-> n.edges]
             /\ Writable(n)
<1> DEFINE page == f[pos + 1]
           n == page_to_node(page)
<1>1. page \in NodePage /\ page.id = pos
  <2>1. page \in Page /\ page.type = start_node /\ page.id = pos
    BY FileType DEF LiveIds, GoodFile
  <2>2. EmptyPage.type # start_node
    BY DEF EmptyPage, empty_page, start_node
  <2> QED BY <2>1, <2>2 DEF Page
<1>2. /\ page.name \in NodeNames
      /\ page.att \in Seq(Attribute)
      /\ page.edges \in Seq(Edge)
  BY <1>1 DEF NodePage
<1> HIDE DEF page
<1>3. n = [id |-> pos, name |-> page.name,
           att |-> Reverse(page.att), edges |-> Reverse(page.edges)]
  BY <1>1 DEF page_to_node
<1>4. Reverse(page.att) \in Seq(Attribute) /\ Reverse(page.edges) \in Seq(Edge)
  BY <1>2, ReverseType
<1> HIDE DEF n
<1>5. n = [id |-> pos, name |-> n.name, att |-> n.att, edges |-> n.edges]
  BY <1>3
<1>6. Writable(n)
  BY <1>2, <1>3, <1>4 DEF Writable
<1> QED BY <1>5, <1>6 DEF n, page

(* A lookup that succeeds returns a node of a live page, with its id. *)
LEMMA LookupType ==
  ASSUME NEW f, GoodFile(f), NEW id, Found(f, id)
  PROVE  LET n == get_node_page(f, id)
         IN  /\ n.id \in LiveIds(f)
             /\ n.id \in Ids(f)
             /\ n = [id |-> n.id, name |-> n.name, att |-> n.att, edges |-> n.edges]
             /\ Writable(n)
<1> DEFINE pos == Min(Matches(f, id))
<1>1. Matches(f, id) \in SUBSET Nat /\ Matches(f, id) # {}
  BY FileType DEF Matches, Found
<1>2. pos \in Matches(f, id)
  BY <1>1, MinProperty
<1>3. pos \in LiveIds(f) /\ pos \in Ids(f)
  BY <1>2 DEF Matches, LiveIds
<1>4. get_node_page(f, id) = page_to_node(f[pos + 1])
  BY DEF get_node_page
<1> HIDE DEF pos
<1>5. LET n == page_to_node(f[pos + 1])
      IN  /\ n = [id |-> pos, name |-> n.name, att |-> n.att, edges |-> n.edges]
          /\ Writable(n)
  BY <1>3, ReadLivePage
<1> DEFINE n == page_to_node(f[pos + 1])
<1>6. /\ n = [id |-> pos, name |-> n.name, att |-> n.att, edges |-> n.edges]
      /\ Writable(n)
  BY <1>5
<1> HIDE DEF n
<1>7. n.id = pos
  BY <1>6
<1>8. get_node_page(f, id) = n
  BY <1>4 DEF n
<1> QED BY <1>3, <1>6, <1>7, <1>8

(* The byte that is compared of an id that fits a char is the id. *)
LEMMA SmallByte ==
  ASSUME NEW id \in Nat, id < CharRange
  PROVE  LowByte(id) = id
<1> USE CharRangeAssumption
<1>1. id % (2 * CharRange) = id
  OBVIOUS
<1> QED BY <1>1 DEF LowByte

(* A node whose id fits a char is the first page its id matches. *)
LEMMA LowLookup ==
  ASSUME NEW f, GoodFile(f), NEW id \in LiveIds(f), id < CharRange
  PROVE  Found(f, id) /\ get_node_page(f, id).id = id
<1> USE CharRangeAssumption
<1>1. id \in Ids(f) /\ id \in Nat /\ f[id + 1].id = id /\ f[id + 1].type = start_node
  BY FileType DEF LiveIds, GoodFile
<1>4. id \in Matches(f, id)
  BY <1>1, SmallByte DEF Matches
<1>5. \A p \in Matches(f, id) : p \in Nat /\ id <= p
  <2> SUFFICES ASSUME NEW p \in Matches(f, id)
               PROVE  p \in Nat /\ id <= p
    OBVIOUS
  <2>1. p \in Ids(f) /\ p \in Nat /\ f[p + 1].id = p /\ LowByte(p) = id
    BY FileType DEF Matches, GoodFile, LiveIds
  <2>2. p % (2 * CharRange) <= p
    BY <2>1
  <2>3. p % (2 * CharRange) \in Nat
    BY <2>1
  <2>4. LowByte(p) <= p
    BY <2>1, <2>2, <2>3 DEF LowByte
  <2> QED BY <2>1, <2>4
<1>6. Matches(f, id) \in SUBSET Nat /\ Matches(f, id) # {}
  BY <1>4, <1>5
<1>7. Min(Matches(f, id)) = id
  <2>1. Min(Matches(f, id)) \in Matches(f, id) /\ Min(Matches(f, id)) <= id
    BY <1>4, <1>6, MinProperty
  <2> QED BY <1>1, <1>5, <2>1
<1>8. get_node_page(f, id) = page_to_node(f[id + 1])
  BY <1>7 DEF get_node_page
<1>9. page_to_node(f[id + 1]).id = id
  BY <1>1 DEF page_to_node
<1> QED BY <1>4, <1>8, <1>9 DEF Found

-----------------------------------------------------------------------------
(* Writing.                                                                *)

(* Replacing one page by a well-formed one that belongs there. *)
LEMMA WritePage ==
  ASSUME NEW f, GoodFile(f), NEW pos \in Ids(f), NEW page \in Page,
         page.type = start_node => page.id = pos
  PROVE  Written(f, [f EXCEPT ![pos + 1] = page])
<1> DEFINE g == [f EXCEPT ![pos + 1] = page]
<1>1. /\ f \in Seq(Page)
      /\ Len(f) \in Nat
      /\ pos \in Nat
      /\ pos + 1 \in 1 .. Len(f)
  BY FileType DEF GoodFile
<1>2. /\ g \in Seq(Page)
      /\ Len(g) = Len(f)
      /\ \A j \in 1 .. Len(f) : g[j] = IF j = pos + 1 THEN page ELSE f[j]
  BY <1>1, ExceptSeq
<1> HIDE DEF g
<1>3. Ids(g) = Ids(f)
  BY <1>2 DEF Ids
<1>4. \A q \in Ids(f) : g[q + 1] = IF q = pos THEN page ELSE f[q + 1]
  BY <1>1, <1>2 DEF Ids
<1>5. \A q \in LiveIds(g) : g[q + 1].id = q
  BY <1>3, <1>4 DEF LiveIds, GoodFile
<1>6. Near(g, f)
  BY <1>2, <1>3, <1>4 DEF Near
<1> QED BY <1>2, <1>5, <1>6 DEF GoodFile, g, Written

(* set_node_page writes one good page: the id it stores is the position. *)
LEMMA SetNodePage ==
  ASSUME NEW f, GoodFile(f), NEW pos \in Ids(f), NEW n, Writable(n)
  PROVE  Written(f, set_node_page(f, pos, n))
<1> DEFINE page == [type |-> start_node, id |-> pos, name |-> n.name,
                    att |-> n.att, edges |-> n.edges]
<1>1. pos \in Nat
  BY FileType
<1>2. page \in Page /\ page.id = pos
  BY <1>1 DEF Writable, Page, NodePage
<1>3. set_node_page(f, pos, n) = [f EXCEPT ![pos + 1] = page]
  BY DEF set_node_page
<1> HIDE DEF page
<1>4. page.type = start_node => page.id = pos
  BY <1>2
<1>5. Written(f, [f EXCEPT ![pos + 1] = page])
  BY <1>2, <1>4, WritePage
<1> QED BY <1>3, <1>5

(* The operations that rewrite one record: a node with a list replaced. *)
LEMMA Rewriting ==
  ASSUME NEW f, GoodFile(f), NEW id, Found(f, id), NEW n, Writable(n)
  PROVE  Written(f, set_node_page(f, get_node_page(f, id).id, n))
<1>1. get_node_page(f, id).id \in Ids(f)
  BY LookupType
<1> QED BY <1>1, SetNodePage

(* A node whose attributes or edges are replaced can still be written. *)
LEMMA ReplaceList ==
  ASSUME NEW n, Writable(n),
         n = [id |-> n.id, name |-> n.name, att |-> n.att, edges |-> n.edges]
  PROVE  /\ \A att \in Seq(Attribute) : Writable([n EXCEPT !.att = att])
         /\ \A edges \in Seq(Edge) : Writable([n EXCEPT !.edges = edges])
<1>1. /\ \A x : [n EXCEPT !.att = x] =
             [id |-> n.id, name |-> n.name, att |-> x, edges |-> n.edges]
      /\ \A x : [n EXCEPT !.edges = x] =
             [id |-> n.id, name |-> n.name, att |-> n.att, edges |-> x]
  OBVIOUS
<1> QED BY <1>1 DEF Writable

(* update_node_page rewrites one page of a good file. *)
LEMMA UpdateNodePage ==
  ASSUME NEW f, GoodFile(f), NEW id, Found(f, id), NEW n, Writable(n)
  PROVE  Written(f, update_node_page(f, n, id))
BY Rewriting DEF update_node_page

(* delete_node_page writes one page of zeros. *)
LEMMA DeleteNodePage ==
  ASSUME NEW f, GoodFile(f), NEW id, Found(f, id)
  PROVE  Written(f, delete_node_page(f, id))
<1>1. get_node_page(f, id).id \in Ids(f)
  BY LookupType
<1>2. EmptyPage \in Page /\ EmptyPage.type # start_node
  BY DEF Page, EmptyPage, empty_page, start_node
<1> QED BY <1>1, <1>2, WritePage DEF delete_node_page

(* The three attribute functions rewrite one page of a good file. *)
LEMMA AttributePages ==
  ASSUME NEW f, GoodFile(f), NEW id, Found(f, id)
  PROVE  /\ \A a \in Attribute : /\ Written(f, add_attribute_page(f, a, id))
                               /\ Written(f, update_attribute_page(f, a, id))
         /\ \A name : Written(f, delete_attribute_page(f, name, id))
<1> DEFINE n == get_node_page(f, id)
           keep(name) == {i \in 1 .. Len(n.att) : n.att[i].name # name}
           changed(a) == [i \in 1 .. Len(n.att) |->
                            IF n.att[i].name = a.name THEN a ELSE n.att[i]]
<1>1. /\ Writable(n)
      /\ n = [id |-> n.id, name |-> n.name, att |-> n.att, edges |-> n.edges]
  BY LookupType
<1>2. n.att \in Seq(Attribute)
  BY <1>1 DEF Writable
<1>3. \A att \in Seq(Attribute) :
        Written(f, set_node_page(f, n.id, [n EXCEPT !.att = att]))
  BY <1>1, ReplaceList, Rewriting
<1>4. ASSUME NEW a \in Attribute
      PROVE  Written(f, add_attribute_page(f, a, id))
  <2>1. Append(n.att, a) \in Seq(Attribute)
    BY <1>2
  <2>2. add_attribute_page(f, a, id) =
          set_node_page(f, n.id, [n EXCEPT !.att = Append(n.att, a)])
    BY DEF add_attribute_page
  <2> HIDE DEF n
  <2> QED BY <1>3, <2>1, <2>2
<1>5. ASSUME NEW a \in Attribute
      PROVE  Written(f, update_attribute_page(f, a, id))
  <2>1. update_attribute_page(f, a, id) =
          set_node_page(f, n.id, [n EXCEPT !.att = changed(a)])
    BY DEF update_attribute_page
  <2> HIDE DEF n
  <2>2. Len(n.att) \in Nat /\ \A i \in 1 .. Len(n.att) : n.att[i] \in Attribute
    BY <1>2, ElementOfSeq, LenProperties
  <2>3. changed(a) \in Seq(Attribute)
    BY <2>2
  <2> HIDE DEF changed
  <2> QED BY <1>3, <2>1, <2>3
<1>6. ASSUME NEW name
      PROVE  Written(f, delete_attribute_page(f, name, id))
  <2>1. delete_attribute_page(f, name, id) =
          set_node_page(f, n.id, [n EXCEPT !.att = Pick(n.att, keep(name))])
    BY DEF delete_attribute_page
  <2> HIDE DEF n
  <2>2. Pick(n.att, keep(name)) \in Seq(Attribute)
    BY <1>2, PickType
  <2> HIDE DEF keep
  <2> QED BY <1>3, <2>1, <2>2
<1> QED BY <1>4, <1>5, <1>6

(* The three edge functions rewrite one page of a good file. *)
LEMMA EdgePages ==
  ASSUME NEW f, GoodFile(f), NEW id, Found(f, id)
  PROVE  /\ \A e \in Edge : /\ Written(f, add_edge_page(f, e, id))
                          /\ Written(f, update_edge_page(f, e, id))
         /\ \A target : Written(f, delete_edge_page(f, target, id))
<1> DEFINE n == get_node_page(f, id)
           keep(target) == {i \in 1 .. Len(n.edges) : n.edges[i].id # target}
           changed(e) == [i \in 1 .. Len(n.edges) |->
                            IF n.edges[i].id = e.id
                            THEN [n.edges[i] EXCEPT !.name = e.name]
                            ELSE n.edges[i]]
<1>1. /\ Writable(n)
      /\ n = [id |-> n.id, name |-> n.name, att |-> n.att, edges |-> n.edges]
  BY LookupType
<1>2. n.edges \in Seq(Edge)
  BY <1>1 DEF Writable
<1>3. \A edges \in Seq(Edge) :
        Written(f, set_node_page(f, n.id, [n EXCEPT !.edges = edges]))
  BY <1>1, ReplaceList, Rewriting
<1>4. ASSUME NEW e \in Edge
      PROVE  Written(f, add_edge_page(f, e, id))
  <2>1. Append(n.edges, e) \in Seq(Edge)
    BY <1>2
  <2>2. add_edge_page(f, e, id) =
          set_node_page(f, n.id, [n EXCEPT !.edges = Append(n.edges, e)])
    BY DEF add_edge_page
  <2> HIDE DEF n
  <2> QED BY <1>3, <2>1, <2>2
<1>5. ASSUME NEW e \in Edge
      PROVE  Written(f, update_edge_page(f, e, id))
  <2>1. update_edge_page(f, e, id) =
          set_node_page(f, n.id, [n EXCEPT !.edges = changed(e)])
    BY DEF update_edge_page
  <2> HIDE DEF n
  <2>2. Len(n.edges) \in Nat /\ \A i \in 1 .. Len(n.edges) : n.edges[i] \in Edge
    BY <1>2, ElementOfSeq, LenProperties
  <2>3. \A x \in Edge : [x EXCEPT !.name = e.name] \in Edge
    BY DEF Edge
  <2>4. changed(e) \in Seq(Edge)
    BY <2>2, <2>3
  <2> HIDE DEF changed
  <2> QED BY <1>3, <2>1, <2>4
<1>6. ASSUME NEW target
      PROVE  Written(f, delete_edge_page(f, target, id))
  <2>1. delete_edge_page(f, target, id) =
          set_node_page(f, n.id, [n EXCEPT !.edges = Pick(n.edges, keep(target))])
    BY DEF delete_edge_page
  <2> HIDE DEF n
  <2>2. Pick(n.edges, keep(target)) \in Seq(Edge)
    BY <1>2, PickType
  <2> HIDE DEF keep
  <2> QED BY <1>3, <2>1, <2>2
<1> QED BY <1>4, <1>5, <1>6

-----------------------------------------------------------------------------
(* Which pages are live.                                                   *)

(* What page_to_node can return. *)
ReadNode == [id : Nat, name : NodeNames \cup {NoName},
             att : Seq(Attribute), edges : Seq(Edge)]

(* Any page can be read: a page of zeros reads as a node with the id 0. *)
LEMMA ReadType ==
  ASSUME NEW page \in Page
  PROVE  /\ page_to_node(page) \in ReadNode
         /\ page_to_node(page).id = page.id
<1>1. /\ page.id \in Nat /\ page.name \in NodeNames \cup {NoName}
      /\ page.att \in Seq(Attribute) /\ page.edges \in Seq(Edge)
  <2>1. CASE page = EmptyPage
    BY <2>1, EmptySeq DEF EmptyPage
  <2>2. CASE page \in NodePage
    BY <2>2 DEF NodePage
  <2> QED BY <2>1, <2>2 DEF Page
<1>2. Reverse(page.att) \in Seq(Attribute) /\ Reverse(page.edges) \in Seq(Edge)
  BY <1>1, ReverseType
<1> QED BY <1>1, <1>2 DEF page_to_node, ReadNode

(* The id of any page of a good file is that of a page of the file. *)
LEMMA IdsInFile ==
  ASSUME NEW f, GoodFile(f), NEW p \in Ids(f)
  PROVE  f[p + 1].id \in Ids(f)
<1>1. Len(f) \in Nat /\ p \in Nat /\ p < Len(f) /\ f[p + 1] \in Page
  BY FileType DEF Ids
<1>2. CASE f[p + 1] = EmptyPage
  BY <1>1, <1>2 DEF EmptyPage, Ids
<1>3. CASE f[p + 1] \in NodePage
  <2>1. p \in LiveIds(f)
    BY <1>3 DEF NodePage, LiveIds
  <2> QED BY <2>1 DEF GoodFile
<1> QED BY <1>1, <1>2, <1>3 DEF Page

(* A lookup reads the page of the node it returns; as long as the ids of   *)
(* all pages fit a signed char, that is the page which was asked for.      *)
LEMMA LookupPage ==
  ASSUME NEW f, GoodFile(f), NEW id, Found(f, id)
  PROVE  \E pos \in LiveIds(f) :
            /\ get_node_page(f, id) = page_to_node(f[pos + 1])
            /\ get_node_page(f, id).id = pos
            /\ Len(f) <= CharRange => pos = id
<1> USE CharRangeAssumption
<1> DEFINE pos == Min(Matches(f, id))
<1>1. Matches(f, id) \in SUBSET Nat /\ Matches(f, id) # {}
  BY FileType DEF Matches, Found
<1>2. pos \in Matches(f, id)
  BY <1>1, MinProperty
<1>3. get_node_page(f, id) = page_to_node(f[pos + 1])
  BY DEF get_node_page
<1> HIDE DEF pos
<1>4. pos \in LiveIds(f) /\ pos \in Ids(f) /\ LowByte(f[pos + 1].id) = id
  BY <1>2 DEF Matches, LiveIds
<1>5. f[pos + 1].id = pos
  BY <1>4 DEF GoodFile
<1>6. Len(f) <= CharRange => pos = id
  <2>1. pos \in Nat /\ Len(f) \in Nat /\ pos < Len(f)
    BY <1>4, FileType DEF Ids
  <2>2. ASSUME Len(f) <= CharRange
        PROVE  pos % (2 * CharRange) = pos /\ pos < CharRange
    BY <2>1, <2>2
  <2>3. Len(f) <= CharRange => LowByte(pos) = pos
    BY <2>1, <2>2 DEF LowByte
  <2> QED BY <1>4, <1>5, <2>3
<1>7. page_to_node(f[pos + 1]).id = pos
  BY <1>5 DEF page_to_node
<1> QED BY <1>3, <1>4, <1>6, <1>7

(* Writing a node makes its page live and leaves the others as they were. *)
LEMMA SetLive ==
  ASSUME NEW f, GoodFile(f), NEW pos \in Ids(f), NEW n
  PROVE  LET g == set_node_page(f, pos, n)
         IN  /\ Ids(g) = Ids(f)
             /\ LiveIds(g) = LiveIds(f) \cup {pos}
             /\ g[pos + 1] = [type |-> start_node, id |-> pos, name |-> n.name,
                              att |-> n.att, edges |-> n.edges]
             /\ \A q \in Ids(f) \ {pos} : g[q + 1] = f[q + 1]
<1> DEFINE page == [type |-> start_node, id |-> pos, name |-> n.name,
                    att |-> n.att, edges |-> n.edges]
           g == set_node_page(f, pos, n)
<1>1. Len(f) \in Nat /\ DOMAIN f = 1 .. Len(f) /\ pos + 1 \in 1 .. Len(f) /\ f \in Seq(Page)
  BY FileType DEF GoodFile
<1>2. page.type = start_node
  OBVIOUS
<1>3. g = [f EXCEPT ![pos + 1] = page]
  BY DEF set_node_page
<1> HIDE DEF page
<1>4. Len(g) = Len(f) /\ DOMAIN g = DOMAIN f
  BY <1>1, <1>3
<1>5. \A q \in Ids(f) : q \in Nat /\ q + 1 \in 1 .. Len(f) /\ (q + 1 = pos + 1 => q = pos)
  BY <1>1 DEF Ids
<1>6. g[pos + 1] = page /\ \A q \in Ids(f) \ {pos} : g[q + 1] = f[q + 1]
  BY <1>1, <1>3, <1>5
<1> HIDE DEF g
<1>7. Ids(g) = Ids(f)
  BY <1>4 DEF Ids
<1>8. LiveIds(g) = LiveIds(f) \cup {pos}
  BY <1>2, <1>6, <1>7 DEF LiveIds
<1> QED BY <1>6, <1>7, <1>8 DEF g, page

(* delete_node empties the page of the node it has found, and no other. *)
LEMMA DeleteLive ==
  ASSUME NEW f, GoodFile(f), NEW id, Found(f, id)
  PROVE  LET g == delete_node_page(f, id)
         IN  /\ Ids(g) = Ids(f)
             /\ LiveIds(g) = LiveIds(f) \ {get_node_page(f, id).id}
<1> DEFINE g == delete_node_page(f, id)
           pos == get_node_page(f, id).id
<1>1. pos \in Ids(f)
  BY LookupType
<1>2. g = [f EXCEPT ![pos + 1] = EmptyPage]
  BY DEF delete_node_page
<1> HIDE DEF pos
<1>3. /\ Len(f) \in Nat /\ DOMAIN f = 1 .. Len(f) /\ f \in Seq(Page)
      /\ pos \in Nat /\ pos + 1 \in 1 .. Len(f)
  BY <1>1, FileType DEF GoodFile
<1>4. Len(g) = Len(f)
  BY <1>2, <1>3
<1>5. \A q \in Ids(f) : q \in Nat /\ q + 1 \in 1 .. Len(f) /\ (q + 1 = pos + 1 => q = pos)
  BY <1>1, <1>3 DEF Ids
<1>6. g[pos + 1] = EmptyPage /\ \A q \in Ids(f) \ {pos} : g[q + 1] = f[q + 1]
  BY <1>2, <1>3, <1>5
<1> HIDE DEF g
<1>7. EmptyPage.type # start_node
  BY DEF EmptyPage, empty_page, start_node
<1>8. Ids(g) = Ids(f)
  BY <1>4 DEF Ids
<1>9. LiveIds(g) = LiveIds(f) \ {pos}
  BY <1>1, <1>6, <1>7, <1>8 DEF LiveIds
<1> QED BY <1>8, <1>9 DEF g, pos
=============================================================================
