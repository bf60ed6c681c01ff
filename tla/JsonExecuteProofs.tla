-------------------------- MODULE JsonExecuteProofs ---------------------------
(***************************************************************************)
(* The requests of JsonExecute, for every list of statements, every number *)
(* of pages, every set of names and values, and whatever the stack holds   *)
(* where a page is read: that they are operations of Database, what a      *)
(* pipeline carries from statement to statement, what its first has()      *)
(* selects and where its out() lead, and what a delete statement leaves    *)
(* and a reply promises.                                                   *)
(***************************************************************************)
EXTENDS JsonExecute, DatabaseProofs

(* What a buffer may hold, and a pipeline carry: nodes read from pages, or *)
(* from bytes of the stack.                                                *)
Buffer == Page \cup StackPages
Loaded == {page_to_node(page) : page \in Buffer}

(* Those of them with the id of a page. *)
Carried == {n \in Loaded : n.id \in Ids(file)}

(* The nodes that are in the file. *)
Current == {NodeAt(p) : p \in LiveIds(file)}

-----------------------------------------------------------------------------
(* Reading nodes.                                                          *)

(* What is parsed of a buffer has a number as its id. *)
LEMMA LoadedIds == \A n \in Loaded : n.id \in Int
<1> SUFFICES ASSUME NEW page \in Buffer
             PROVE  page_to_node(page).id \in Int
  BY DEF Loaded
<1>1. page_to_node(page).id = page.id
  BY DEF page_to_node
<1>2. CASE page \in Page
  <2>1. page.id \in Nat
    BY <1>2 DEF Page, NodePage, EmptyPage
  <2> QED BY <1>1, <2>1
<1>3. CASE page \in StackPages
  <2>1. page.id \in Int
    BY <1>3, StackAssumption DEF StackPage
  <2> QED BY <1>1, <2>1
<1> QED BY <1>2, <1>3 DEF Buffer

(* An uninitialised buffer is one of those. *)
LEMMA JunkType ==
  ASSUME GoodFile(file)
  PROVE  Buffers \subseteq Buffer
<1>1. \A j \in 1 .. Len(file) : file[j] \in Page
  BY LenProperties, ElementOfSeq DEF GoodFile
<1> QED BY <1>1, FileType DEF Buffers, Buffer, Range

(* Reading any page of the file gives a node with the id of a page, and    *)
(* reading a live page a node with the id of that page.                    *)
LEMMA NodeAtType ==
  ASSUME GoodFile(file), NEW p \in Ids(file)
  PROVE  /\ NodeAt(p) \in Carried /\ NodeAt(p) \in ReadNode
         /\ p \in LiveIds(file) => NodeAt(p).id = p
<1>1. file[p + 1] \in Page /\ file[p + 1].id \in Ids(file)
  BY FileType, IdsInFile
<1>2. NodeAt(p) \in ReadNode /\ NodeAt(p) \in Loaded /\ NodeAt(p).id = file[p + 1].id
  BY <1>1, ReadType DEF NodeAt, Loaded, Buffer
<1>3. p \in LiveIds(file) => file[p + 1].id = p
  BY DEF GoodFile
<1> QED BY <1>1, <1>2, <1>3 DEF Carried

(* The nodes of the file are among those a pipeline may carry. *)
LEMMA CurrentType ==
  ASSUME GoodFile(file)
  PROVE  /\ Current \subseteq Carried /\ Carried \subseteq Loaded
         /\ \A n \in Current : n.id \in LiveIds(file) /\ n = NodeAt(n.id)
         /\ LiveIds(file) \subseteq Ids(file)
BY NodeAtType DEF Current, Carried, LiveIds

(* NodesAt reads the pages it is given and no others. *)
LEMMA NodesAtType ==
  ASSUME GoodFile(file), NEW S \in SUBSET Ids(file)
  PROVE  NodesAt(S) \in Seq({NodeAt(p) : p \in S})
<1> DEFINE keep == {p + 1 : p \in S}
           pages == Pick(file, keep)
<1>1. file \in Seq(Page) /\ Len(file) \in Nat
  BY FileType DEF GoodFile
<1>2. keep \in SUBSET (1 .. Len(file))
  BY FileType
<1>3. pages \in Seq({file[j] : j \in keep})
  BY <1>1, <1>2, PickElements
<1>4. NodesAt(S) = [j \in DOMAIN pages |-> page_to_node(pages[j])]
  BY DEF NodesAt
<1>5. \A page \in {file[j] : j \in keep} : page_to_node(page) \in {NodeAt(p) : p \in S}
  BY DEF NodeAt
<1> DEFINE E == {file[j] : j \in keep}
           R == {NodeAt(p) : p \in S}
<1> HIDE DEF pages, E, R
<1>6. pages \in Seq(E) /\ \A page \in E : page_to_node(page) \in R
  BY <1>3, <1>5 DEF E, R
<1>7. DOMAIN pages = 1 .. Len(pages) /\ Len(pages) \in Nat
      /\ \A j \in 1 .. Len(pages) : pages[j] \in E
  BY <1>6, LenProperties, ElementOfSeq
<1>8. NodesAt(S) \in Seq(R)
  BY <1>4, <1>6, <1>7
<1> QED BY <1>8 DEF R

(* A node with an attribute is in a live page. *)
LEMMA HasIsLive ==
  ASSUME NEW p \in Ids(file), GoodFile(file), NEW name, Has(NodeAt(p), name)
  PROVE  p \in LiveIds(file)
<1>1. file[p + 1] \in Page
  BY FileType
<1>2. CASE file[p + 1] = EmptyPage
  <2>1. NodeAt(p).att = Reverse(<< >>)
    BY <1>2 DEF NodeAt, page_to_node, EmptyPage
  <2>2. DOMAIN NodeAt(p).att = {}
    <3>1. << >> \in Seq(Attribute) /\ Len(<< >>) = 0
      BY EmptySeq
    <3>2. DOMAIN Reverse(<< >>) = 1 .. 0
      BY <3>1, ReverseType, ReverseElements, LenProperties
    <3> QED BY <2>1, <3>2, PrefixSets
  <2> QED BY <2>2 DEF Has, Named
<1>3. CASE file[p + 1] \in NodePage
  BY <1>3 DEF NodePage, LiveIds
<1> QED BY <1>1, <1>2, <1>3 DEF Page

-----------------------------------------------------------------------------
(* Reading by id.                                                          *)

(* With an id of I one reads a node of X, and only if Past allows it       *)
(* behind the end of the file.                                             *)
Loads(I, X, Past) ==
  /\ Past \subseteq BOOLEAN
  /\ \A id \in I : /\ id \in Int
                   /\ id \in Ids(file) => NodeAt(id) \in X
                   /\ id \notin Ids(file) => TRUE \in Past /\ Loaded \subseteq X

(* The ids of a list of nodes. *)
IdsOf(M) == {m.id : m \in M}

(* Whatever the nodes of a list, and if they are in the file or at least   *)
(* their ids.                                                              *)
LEMMA ListLoads ==
  ASSUME GoodFile(file)
  PROVE  /\ Loads(IdsOf(Loaded), Loaded, BOOLEAN)
         /\ Loads(IdsOf(Carried), Carried, {FALSE})
         /\ Loads(IdsOf(Current), Current, {FALSE})
<1>1. Loads(IdsOf(Loaded), Loaded, BOOLEAN)
  BY LoadedIds, NodeAtType DEF Loads, IdsOf, Carried
<1>2. Loads(IdsOf(Carried), Carried, {FALSE})
  BY LoadedIds, NodeAtType DEF Loads, IdsOf, Carried
<1>3. Loads(IdsOf(Current), Current, {FALSE})
  <2>1. \A n \in Current : n.id \in LiveIds(file) /\ n.id \in Ids(file) /\ n.id \in Int
    BY CurrentType, FileType
  <2> QED BY <2>1 DEF Loads, IdsOf, Current
<1> QED BY <1>1, <1>2, <1>3

(* acc has a buffer to read into. *)
Buffered(acc, Past) ==
  /\ {"page", "pos", "past"} \subseteq DOMAIN acc
  /\ acc.page \in Buffer /\ acc.pos \in Nat /\ acc.past \in Past

(* What a read leaves in it, and the node it is parsed as put out. *)
AfterLoad(acc, page, at, past) == [acc EXCEPT !.page = page, !.pos = at, !.past = past]

AfterNode(acc, page, at, past) ==
  [acc EXCEPT !.page = page, !.pos = at, !.past = past,
              !.out = Append(acc.out, page_to_node(page))]

(* One read leaves a page in the buffer, and puts a node of X out.         *)
LEMMA LoadType ==
  ASSUME GoodFile(file), NEW I, NEW X, NEW Past, Loads(I, X, Past), NEW id \in I,
         NEW acc, Buffered(acc, Past)
  PROVE  \E page \in Buffer, at \in Nat, past \in Past :
            /\ Load(acc, id) = AfterLoad(acc, page, at, past)
            /\ LoadNode(acc, id) = AfterNode(acc, page, at, past)
            /\ page_to_node(page) \in X
            /\ id \in Ids(file) => /\ page = file[id + 1] /\ at = id + 1
                                   /\ past = acc.past
<1> DEFINE from == IF id >= 0 THEN id ELSE acc.pos
           page == PageRead(from, acc.page)
           at   == IF from \in Ids(file) THEN from + 1 ELSE from
           past == acc.past \/ from \notin Ids(file)
<1> USE DEF Buffered
<1>1. /\ id \in Int /\ Past \subseteq BOOLEAN
      /\ id \in Ids(file) => NodeAt(id) \in X
      /\ id \notin Ids(file) => TRUE \in Past /\ Loaded \subseteq X
  BY DEF Loads
<1>2. from \in Nat
  BY <1>1
<1>3. id \in Ids(file) => from = id /\ id \in Nat
  BY FileType
<1>4. Load(acc, id) = AfterLoad(acc, page, at, past)
  BY DEF Load, AfterLoad
<1> HIDE DEF from
<1>5. page \in Buffer /\ at \in Nat
  BY <1>2, FileType DEF PageRead, Buffer
<1>6. past \in Past
  BY <1>1, <1>3
<1>7. id \in Ids(file) => page = file[id + 1] /\ at = id + 1 /\ past = acc.past
  BY <1>1, <1>3 DEF PageRead
<1>8. page_to_node(page) \in X
  BY <1>1, <1>5, <1>7 DEF NodeAt, Loaded
<1> HIDE DEF page, at, past
<1>9. LoadNode(acc, id) = AfterNode(acc, page, at, past)
  BY <1>4 DEF LoadNode, AfterLoad, AfterNode
<1> QED BY <1>4, <1>5, <1>6, <1>7, <1>8, <1>9

-----------------------------------------------------------------------------
(* Reading the nodes of a list again.                                      *)

ReadAcc(X, Past) == [out : Seq(X), page : Buffer, pos : Nat, past : Past]

(* One more: the node in its page, if that is in the file. *)
ReadsOne(acc, m, X) ==
  \E n \in X : /\ LoadNode(acc, m.id).out = Append(acc.out, n)
               /\ m.id \in Ids(file) => n = NodeAt(m.id)

(* It is read so. *)
LEMMA ReadOneType ==
  ASSUME GoodFile(file), NEW M, NEW X, NEW Past, Loads(IdsOf(M), X, Past),
         NEW acc \in ReadAcc(X, Past), NEW m \in M
  PROVE  LoadNode(acc, m.id) \in ReadAcc(X, Past) /\ ReadsOne(acc, m, X)
<1>1. m.id \in IdsOf(M) /\ acc.out \in Seq(X) /\ Buffered(acc, Past)
  BY DEF IdsOf, ReadAcc, Buffered
<1> DEFINE I == IdsOf(M)
           id == m.id
<1>0. id \in I /\ Loads(I, X, Past)
  BY <1>1
<1> HIDE DEF I, id
<1>2. PICK page \in Buffer, at \in Nat, past \in Past :
        /\ LoadNode(acc, id) = AfterNode(acc, page, at, past)
        /\ page_to_node(page) \in X
        /\ id \in Ids(file) => page = file[id + 1]
  BY <1>0, <1>1, LoadType
<1> DEFINE n == page_to_node(page)
           out == Append(acc.out, n)
<1>3. n \in X /\ (id \in Ids(file) => n = NodeAt(id))
  BY <1>2 DEF NodeAt
<1> HIDE DEF n
<1>4. LoadNode(acc, id) = [acc EXCEPT !.page = page, !.pos = at, !.past = past,
                                        !.out = out]
  BY <1>2 DEF n, AfterNode
<1>5. out \in Seq(X)
  BY <1>1, <1>3
<1> DEFINE next == LoadNode(acc, id)
<1>6. next.out = out
  BY <1>4 DEF ReadAcc
<1>7. next \in ReadAcc(X, Past)
  <2> HIDE DEF out
  <2> QED BY <1>4, <1>5 DEF ReadAcc
<1> QED BY <1>2, <1>3, <1>6, <1>7 DEF id, ReadsOne

(* Reading a list is reading one after the other. *)
ReadStart(junk) == [out |-> << >>, page |-> junk, pos |-> pos, past |-> FALSE]

ReadSteps(nodes, S) ==
  [n \in 1 .. Len(nodes) |-> [acc \in S |-> LoadNode(acc, nodes[n].id)]]

(* There is a row of results that ends with the list read.                 *)
LEMMA ReadPrefixes ==
  ASSUME GoodFile(file), pos \in Nat, NEW M, NEW X, NEW Past,
         Loads(IdsOf(M), X, Past), FALSE \in Past,
         NEW nodes \in Seq(M), NEW junk \in Buffer
  PROVE  \E it : /\ Prefixed(it, Len(nodes), ReadAcc(X, Past), ReadStart(junk),
                             ReadSteps(nodes, ReadAcc(X, Past)))
                 /\ Reads(nodes, junk) = it[1 .. Len(nodes)]
<1> DEFINE N == Len(nodes)
           S == ReadAcc(X, Past)
           base == ReadStart(junk)
           F == ReadSteps(nodes, S)
           Step(h, t) == IF t = {} THEN base
                         ELSE LoadNode(h[t \ {Max(t)}], nodes[Max(t)].id)
           it == CHOOSE it : it = [t \in SUBSET (1 .. N) |-> Step(it, t)]
<1>1. N \in Nat /\ DOMAIN nodes = 1 .. N /\ \A n \in 1 .. N : nodes[n] \in M
  BY LenProperties, ElementOfSeq
<1>2. base \in S
  BY EmptySeq DEF ReadAcc, ReadStart
<1>3. F \in [1 .. N -> [S -> S]]
  BY <1>1, ReadOneType DEF ReadSteps
<1>4. Reads(nodes, junk) = it[1 .. N]
  BY <1>1 DEF Reads, FoldLeft, MapThenFoldSet, ReadStart
<1>5. \A n \in 1 .. N : \A acc \in S : F[n][acc] = LoadNode(acc, nodes[n].id)
  BY DEF ReadSteps
<1> HIDE DEF base, S, N
<1> HIDE DEF F
<1>6. \E h : IsFold(h, N, S, base, F)
  BY <1>1, <1>2, <1>3, FoldExists
<1>7. \A t \in SUBSET (1 .. N) : t # {} => Max(t) \in 1 .. N /\ t \ {Max(t)} \in SUBSET (1 .. N)
  BY <1>1, MaxProperty
<1>8. PICK h : h = [t \in SUBSET (1 .. N) |-> Step(h, t)]
  <2>1. PICK h : IsFold(h, N, S, base, F)
    BY <1>6
  <2>2. \A t \in SUBSET (1 .. N) : t # {} => h[t] = LoadNode(h[t \ {Max(t)}], nodes[Max(t)].id)
    BY <1>5, <1>7, <2>1 DEF IsFold
  <2>3. h = [t \in SUBSET (1 .. N) |-> Step(h, t)]
    BY <2>1, <2>2 DEF IsFold
  <2> QED BY <2>3
<1> HIDE DEF Step
<1>9. it = [t \in SUBSET (1 .. N) |-> Step(it, t)]
  BY <1>8
<1> HIDE DEF it
<1>10. FoldsIn(it, N, S, base, F)
  BY <1>5, <1>7, <1>9 DEF Step, FoldsIn
<1>11. Prefixed(it, N, S, base, F)
  BY <1>1, <1>2, <1>3, <1>10, FoldPrefixes
<1> QED BY <1>4, <1>11 DEF S, N, F, base

(* As many nodes are read as are in the list, and those whose ids are of   *)
(* pages of the file are the nodes in these pages.                         *)
LEMMA ReadsType ==
  ASSUME GoodFile(file), pos \in Nat, NEW M, NEW X, NEW Past,
         Loads(IdsOf(M), X, Past), FALSE \in Past,
         NEW nodes \in Seq(M), NEW junk \in Buffer
  PROVE  LET read == Reads(nodes, junk)
         IN  /\ read.out \in Seq(X) /\ read.pos \in Nat /\ read.past \in Past
             /\ Len(read.out) = Len(nodes)
             /\ \A j \in 1 .. Len(nodes) :
                   nodes[j].id \in Ids(file) => read.out[j] = NodeAt(nodes[j].id)
<1> DEFINE N == Len(nodes)
           S == ReadAcc(X, Past)
<1>1. N \in Nat /\ \A j \in 1 .. N : nodes[j] \in M
  BY LenProperties, ElementOfSeq
<1>2. PICK it : /\ Prefixed(it, N, S, ReadStart(junk), ReadSteps(nodes, S))
                /\ Reads(nodes, junk) = it[1 .. N]
  BY ReadPrefixes
<1>3. /\ it[1 .. 0] = ReadStart(junk)
      /\ \A m \in 0 .. N : it[1 .. m] \in S
      /\ \A m \in 1 .. N : it[1 .. m] = LoadNode(it[1 .. m - 1], nodes[m].id)
  <2>1. \A m \in 1 .. N : m - 1 \in 0 .. N
    BY <1>1
  <2> HIDE DEF S
  <2> QED BY <1>2, <2>1 DEF ReadSteps, Prefixed
<1> DEFINE Good(m) == /\ Len(it[1 .. m].out) = m
                      /\ \A j \in 1 .. m : nodes[j].id \in Ids(file) =>
                                           it[1 .. m].out[j] = NodeAt(nodes[j].id)
           G == {m \in 0 .. N : Good(m)}
<1>4. 0 \in G
  <2>1. it[1 .. 0].out = << >>
    BY <1>3 DEF ReadStart
  <2>2. Len(it[1 .. 0].out) = 0
    BY <2>1, EmptySeq
  <2> QED BY <1>1, <2>2
<1>5. \A m \in 0 .. N - 1 : m \in G => m + 1 \in G
  <2> SUFFICES ASSUME NEW m \in 0 .. N - 1, Good(m)
               PROVE  m + 1 \in 0 .. N /\ Good(m + 1)
    OBVIOUS
  <2> DEFINE acc == it[1 .. m]
             h == m + 1
             next == it[1 .. h]
  <2>1. h \in 1 .. N /\ h - 1 = m /\ m \in 0 .. N /\ h \in 0 .. N
    BY <1>1
  <2>2. acc \in ReadAcc(X, Past) /\ next = LoadNode(acc, nodes[h].id)
    BY <1>3, <2>1
  <2>3. nodes[h] \in M
    BY <1>1, <2>1
  <2>4. Len(acc.out) = m /\ \A j \in 1 .. m : nodes[j].id \in Ids(file) =>
                                              acc.out[j] = NodeAt(nodes[j].id)
    OBVIOUS
  <2> HIDE DEF acc, next, h
  <2>5. PICK n \in X : /\ next.out = Append(acc.out, n)
                       /\ nodes[h].id \in Ids(file) => n = NodeAt(nodes[h].id)
    <3> DEFINE m1 == nodes[h]
    <3>1. m1 \in M
      BY <2>3
    <3> HIDE DEF m1
    <3>2. next = LoadNode(acc, m1.id)
      BY <2>2 DEF m1
    <3>3. ReadsOne(acc, m1, X)
      BY <2>2, <3>1, ReadOneType
    <3>4. \E n \in X : /\ next.out = Append(acc.out, n)
                       /\ m1.id \in Ids(file) => n = NodeAt(m1.id)
      BY <3>2, <3>3 DEF ReadsOne
    <3> QED BY <3>4 DEF m1
  <2>6. acc.out \in Seq(X)
    BY <2>2 DEF ReadAcc
  <2>7. /\ Len(next.out) = h
        /\ \A j \in 1 .. h : next.out[j] = IF j = h THEN n ELSE acc.out[j]
    BY <2>4, <2>5, <2>6 DEF h
  <2>8. \A j \in 1 .. h : j = h \/ j \in 1 .. m
    BY <2>1
  <2>9. \A j \in 1 .. h : nodes[j].id \in Ids(file) => next.out[j] = NodeAt(nodes[j].id)
    BY <2>4, <2>5, <2>7, <2>8
  <2> QED BY <2>1, <2>7, <2>9 DEF next, h
<1>6. \A m \in 0 .. N : m \in G
  <2> HIDE DEF G
  <2> QED BY <1>1, <1>4, <1>5, IntervalInduction
<1>7. Good(N) /\ it[1 .. N] \in S
  <2>1. N \in 0 .. N
    BY <1>1
  <2> QED BY <1>3, <1>6, <2>1
<1> HIDE DEF N
<1> QED BY <1>2, <1>7 DEF ReadAcc, N

(* So a list whose ids are all of pages of the file is read without        *)
(* reading behind its end.                                                 *)
LEMMA ReadsExact ==
  ASSUME GoodFile(file), pos \in Nat, NEW nodes \in Seq(Carried), NEW junk \in Buffer
  PROVE  LET read == Reads(nodes, junk)
         IN  /\ read.out = [j \in DOMAIN nodes |-> NodeAt(nodes[j].id)]
             /\ read.past = FALSE
<1> DEFINE read == Reads(nodes, junk)
<1>1. /\ read.out \in Seq(Carried) /\ read.past \in {FALSE}
      /\ Len(read.out) = Len(nodes)
      /\ \A j \in 1 .. Len(nodes) :
            nodes[j].id \in Ids(file) => read.out[j] = NodeAt(nodes[j].id)
  BY ListLoads, ReadsType
<1> HIDE DEF read
<1>2. DOMAIN nodes = 1 .. Len(nodes) /\ \A j \in 1 .. Len(nodes) : nodes[j].id \in Ids(file)
  BY LenProperties, ElementOfSeq DEF Carried
<1>3. DOMAIN read.out = 1 .. Len(nodes) /\ read.out = [j \in DOMAIN read.out |-> read.out[j]]
  BY <1>1, LenProperties
<1>4. \A j \in 1 .. Len(nodes) : read.out[j] = NodeAt(nodes[j].id)
  BY <1>1, <1>2
<1>5. read.out = [j \in DOMAIN nodes |-> NodeAt(nodes[j].id)]
  BY <1>2, <1>3, <1>4
<1>6. read.past = FALSE
  BY <1>1
<1> QED BY <1>5, <1>6 DEF read

-----------------------------------------------------------------------------
(* Joining.                                                                *)

JoinAcc(X, Past, c) ==
  [out : Seq(X), page : Buffer, pos : Nat, past : Past, used : SUBSET IdsOf(X),
   wild : {FALSE} \cup {c.to \notin AttNames}, b : BOOLEAN]

(* The nodes that any node is joined with are in the file. *)
LEMMA RefType ==
  ASSUME GoodFile(file), NEW n, NEW at \in Nat, NEW c
  PROVE  ref(n, at, c) \in Seq(Current)
<1> DEFINE S == {q \in at .. Len(file) - 1 :
                   /\ Has(n, c.name)
                   /\ Has(NodeAt(q), c.to)
                   /\ Att(NodeAt(q), c.to) = Att(n, c.name)}
<1>1. ref(n, at, c) = NodesAt(S)
  BY DEF ref
<1>2. S \in SUBSET LiveIds(file)
  <2> SUFFICES ASSUME NEW q \in S
               PROVE  q \in LiveIds(file)
    OBVIOUS
  <2>1. q \in Ids(file)
    BY FileType DEF Ids
  <2> QED BY <2>1, HasIsLive
<1> HIDE DEF S
<1>3. S \in SUBSET Ids(file) /\ {NodeAt(p) : p \in S} \subseteq Current
  BY <1>2, CurrentType DEF Current
<1>4. NodesAt(S) \in Seq({NodeAt(p) : p \in S})
  BY <1>3, NodesAtType
<1> DEFINE R == {NodeAt(p) : p \in S}
<1> HIDE DEF R
<1>5. NodesAt(S) \in Seq(R) /\ R \subseteq Current
  BY <1>3, <1>4 DEF R
<1>6. NodesAt(S) \in Seq(Current)
  BY <1>5
<1> QED BY <1>1, <1>6

(* What joining n, read with the page behind it at this position, leaves.  *)
JoinsSeen(acc, n, page, at, past) ==
  [out |-> acc.out \o IF acc.b THEN <<n>> ELSE << >>, page |-> page, pos |-> at,
   past |-> past, used |-> acc.used, wild |-> acc.wild, b |-> acc.b]

JoinsNew(acc, n, page, at, past, c, hits) ==
  [out  |-> acc.out \o hits \o IF hits = << >> THEN << >> ELSE <<n>>,
   page |-> page,
   pos  |-> IF Has(n, c.name) /\ at < Len(file) THEN Len(file) ELSE at,
   past |-> past,
   used |-> acc.used \cup {n.id} \cup {hits[j].id : j \in DOMAIN hits},
   wild |-> acc.wild \/ Misnamed(n, at, c),
   b    |-> FALSE]

(* Joining one node reads it, and puts out only it and nodes of the file.  *)
LEMMA JoinReads ==
  ASSUME GoodFile(file), NEW M, NEW X, NEW Past, Loads(IdsOf(M), X, Past),
         NEW c, NEW acc \in JoinAcc(X, Past, c), NEW m \in M, NEW stray
  PROVE  \E page \in Buffer, at \in Nat, past \in Past, n \in X :
            /\ Join(acc, m, c, stray) =
                 IF n.id \in acc.used \cup stray
                 THEN JoinsSeen(acc, n, page, at, past)
                 ELSE JoinsNew(acc, n, page, at, past, c, ref(n, at, c))
            /\ m.id \in Ids(file) => n = NodeAt(m.id) /\ at = m.id + 1
<1> DEFINE I == IdsOf(M)
           id == m.id
<1>1. id \in I /\ Loads(I, X, Past) /\ Buffered(acc, Past)
  BY DEF IdsOf, JoinAcc, Buffered
<1> HIDE DEF I, id
<1>2. PICK page \in Buffer, at \in Nat, past \in Past :
        /\ Load(acc, id) = AfterLoad(acc, page, at, past)
        /\ page_to_node(page) \in X
        /\ id \in Ids(file) => page = file[id + 1] /\ at = id + 1
  BY <1>1, LoadType
<1> DEFINE n == page_to_node(page)
           read == Load(acc, id)
<1>3. n \in X /\ (id \in Ids(file) => n = NodeAt(id) /\ at = id + 1)
  BY <1>2 DEF NodeAt
<1>4. /\ read = AfterLoad(acc, page, at, past)
      /\ read.page = page /\ read.pos = at
  BY <1>2 DEF AfterLoad, JoinAcc
<1>5. n = page_to_node(read.page)
  BY <1>4
<1>9. read = [out |-> acc.out, page |-> page, pos |-> at, past |-> past,
              used |-> acc.used, wild |-> acc.wild, b |-> acc.b]
  <2>1. acc = [out |-> acc.out, page |-> acc.page, pos |-> acc.pos, past |-> acc.past,
               used |-> acc.used, wild |-> acc.wild, b |-> acc.b]
    BY DEF JoinAcc
  <2> QED BY <1>4, <2>1 DEF AfterLoad
<1> HIDE DEF n, read
<1> DEFINE hits == ref(n, at, c)
           seen == [read EXCEPT !.out = @ \o IF acc.b THEN <<n>> ELSE << >>]
           new  == [read EXCEPT
                      !.out  = @ \o hits \o IF hits = << >> THEN << >> ELSE <<n>>,
                      !.used = @ \cup {n.id} \cup {hits[j].id : j \in DOMAIN hits},
                      !.pos  = IF Has(n, c.name) /\ @ < Len(file) THEN Len(file) ELSE @,
                      !.wild = @ \/ Misnamed(n, at, c),
                      !.b    = FALSE]
<1>6. Join(acc, m, c, stray) = IF n.id \in acc.used \cup stray THEN seen ELSE new
  BY <1>4, <1>5 DEF Join, read, id
<1> DEFINE out0 == acc.out \o IF acc.b THEN <<n>> ELSE << >>
           out1 == acc.out \o hits \o IF hits = << >> THEN << >> ELSE <<n>>
           used == acc.used \cup {n.id} \cup {hits[j].id : j \in DOMAIN hits}
           end  == IF Has(n, c.name) /\ at < Len(file) THEN Len(file) ELSE at
           wild == acc.wild \/ Misnamed(n, at, c)
<1>10. /\ read.out = acc.out /\ read.pos = at /\ read.used = acc.used /\ read.wild = acc.wild
  BY <1>9
<1>11. /\ seen = [read EXCEPT !.out = out0]
       /\ new = [read EXCEPT !.out = out1, !.used = used, !.pos = end, !.wild = wild,
                             !.b = FALSE]
  BY <1>10
<1> HIDE DEF seen, new, out0, out1, used, end, wild
<1>12. /\ seen = [out |-> out0, page |-> page, pos |-> at, past |-> past,
                  used |-> acc.used, wild |-> acc.wild, b |-> acc.b]
       /\ new = [out |-> out1, page |-> page, pos |-> end, past |-> past,
                 used |-> used, wild |-> wild, b |-> FALSE]
  BY <1>9, <1>11
<1>7. seen = JoinsSeen(acc, n, page, at, past)
  BY <1>12 DEF JoinsSeen, out0
<1>8. new = JoinsNew(acc, n, page, at, past, c, hits)
  BY <1>12 DEF JoinsNew, out1, used, end, wild
<1> HIDE DEF seen, new
<1> QED BY <1>3, <1>6, <1>7, <1>8 DEF id

(* So what is joined is of X, if the file is. *)
LEMMA JoinType ==
  ASSUME GoodFile(file), NEW M, NEW X, NEW Past, Loads(IdsOf(M), X, Past),
         Current \subseteq X,
         NEW c, NEW acc \in JoinAcc(X, Past, c), NEW m \in M, NEW stray
  PROVE  Join(acc, m, c, stray) \in JoinAcc(X, Past, c)
<1>1. PICK page \in Buffer, at \in Nat, past \in Past, n \in X :
        Join(acc, m, c, stray) =
                 IF n.id \in acc.used \cup stray
                 THEN JoinsSeen(acc, n, page, at, past)
                 ELSE JoinsNew(acc, n, page, at, past, c, ref(n, at, c))
  BY JoinReads
<1>2. /\ acc.out \in Seq(X) /\ acc.used \in SUBSET IdsOf(X) /\ acc.b \in BOOLEAN
      /\ acc.wild \in {FALSE} \cup {c.to \notin AttNames}
  BY DEF JoinAcc
<1> DEFINE hits == ref(n, at, c)
           seen == acc.out \o IF acc.b THEN <<n>> ELSE << >>
           new  == acc.out \o hits \o IF hits = << >> THEN << >> ELSE <<n>>
           used == acc.used \cup {n.id} \cup {hits[j].id : j \in DOMAIN hits}
           end  == IF Has(n, c.name) /\ at < Len(file) THEN Len(file) ELSE at
           wild == acc.wild \/ Misnamed(n, at, c)
<1>3. hits \in Seq(X)
  BY RefType
<1> HIDE DEF hits
<1>4. seen \in Seq(X) /\ new \in Seq(X)
  BY <1>2, <1>3
<1>5. used \in SUBSET IdsOf(X)
  <2>1. \A j \in DOMAIN hits : hits[j] \in X
    BY <1>3, LenProperties, ElementOfSeq
  <2> QED BY <1>2, <2>1 DEF IdsOf
<1>6. end \in Nat
  BY FileType
<1>7. wild \in {FALSE} \cup {c.to \notin AttNames}
  BY <1>2 DEF Misnamed
<1> HIDE DEF seen, new, used, end, wild
<1>8. [out |-> seen, page |-> page, pos |-> at, past |-> past, used |-> acc.used,
       wild |-> acc.wild, b |-> acc.b] \in JoinAcc(X, Past, c)
  BY <1>2, <1>4 DEF JoinAcc
<1>9. [out |-> new, page |-> page, pos |-> end, past |-> past, used |-> used,
       wild |-> wild, b |-> FALSE] \in JoinAcc(X, Past, c)
  BY <1>4, <1>5, <1>6, <1>7 DEF JoinAcc
<1> QED BY <1>1, <1>8, <1>9 DEF JoinsSeen, JoinsNew, seen, new, used, end, wild, hits

(* Joining a list of them is joining one after the other. *)
JoinStart(junk, b) ==
  [out |-> << >>, page |-> junk, pos |-> pos, past |-> FALSE,
   used |-> {}, wild |-> FALSE, b |-> b]

JoinSteps(nodes, c, stray, S) ==
  [n \in 1 .. Len(nodes) |-> [acc \in S |-> Join(acc, nodes[n], c, stray)]]

OneByOne(it, nodes, c, stray, S, base) ==
  Prefixed(it, Len(nodes), S, base, JoinSteps(nodes, c, stray, S))

(* Nodes of X are joined with nodes of M. *)
Joins(M, X, Past) ==
  Loads(IdsOf(M), X, Past) /\ FALSE \in Past /\ Current \subseteq X

(* A row of results that ends with what is joined. *)
JoinRow(it, nodes, c, junk, stray, b, X, Past) ==
  /\ OneByOne(it, nodes, c, stray, JoinAcc(X, Past, c), JoinStart(junk, b))
  /\ Joined(nodes, c, junk, stray, b) = it[1 .. Len(nodes)]

(* There is one.                                                           *)
LEMMA JoinedPrefixes ==
  ASSUME GoodFile(file), pos \in Nat, NEW M, NEW X, NEW Past, Joins(M, X, Past),
         NEW nodes \in Seq(M), NEW c, NEW junk \in Buffer, NEW stray, NEW b \in BOOLEAN
  PROVE  \E it : JoinRow(it, nodes, c, junk, stray, b, X, Past)
<1> DEFINE N == Len(nodes)
           S == JoinAcc(X, Past, c)
           base == JoinStart(junk, b)
           F == JoinSteps(nodes, c, stray, S)
           Step(h, t) == IF t = {} THEN base
                         ELSE Join(h[t \ {Max(t)}], nodes[Max(t)], c, stray)
           it == CHOOSE it : it = [t \in SUBSET (1 .. N) |-> Step(it, t)]
<1>1. N \in Nat /\ DOMAIN nodes = 1 .. N /\ \A n \in 1 .. N : nodes[n] \in M
  BY LenProperties, ElementOfSeq
<1>2. base \in S
  BY EmptySeq DEF JoinAcc, JoinStart, Joins
<1>3. F \in [1 .. N -> [S -> S]]
  BY <1>1, JoinType DEF JoinSteps, Joins
<1>4. Joined(nodes, c, junk, stray, b) = it[1 .. N]
  BY <1>1 DEF Joined, FoldLeft, MapThenFoldSet, JoinStart
<1>5. \A n \in 1 .. N : \A acc \in S : F[n][acc] = Join(acc, nodes[n], c, stray)
  BY DEF JoinSteps
<1> HIDE DEF base, S, N
<1> HIDE DEF F
<1>6. \E h : IsFold(h, N, S, base, F)
  BY <1>1, <1>2, <1>3, FoldExists
<1>7. \A t \in SUBSET (1 .. N) : t # {} => Max(t) \in 1 .. N /\ t \ {Max(t)} \in SUBSET (1 .. N)
  BY <1>1, MaxProperty
<1>8. PICK h : h = [t \in SUBSET (1 .. N) |-> Step(h, t)]
  <2>1. PICK h : IsFold(h, N, S, base, F)
    BY <1>6
  <2>2. \A t \in SUBSET (1 .. N) :
          t # {} => h[t] = Join(h[t \ {Max(t)}], nodes[Max(t)], c, stray)
    BY <1>5, <1>7, <2>1 DEF IsFold
  <2>3. h = [t \in SUBSET (1 .. N) |-> Step(h, t)]
    BY <2>1, <2>2 DEF IsFold
  <2> QED BY <2>3
<1> HIDE DEF Step
<1>9. it = [t \in SUBSET (1 .. N) |-> Step(it, t)]
  BY <1>8
<1> HIDE DEF it
<1>10. FoldsIn(it, N, S, base, F)
  BY <1>5, <1>7, <1>9 DEF Step, FoldsIn
<1>11. Prefixed(it, N, S, base, F)
  BY <1>1, <1>2, <1>3, <1>10, FoldPrefixes
<1> QED BY <1>4, <1>11 DEF S, N, F, base, OneByOne, JoinRow

(* What is joined is of X. *)
LEMMA JoinedType ==
  ASSUME GoodFile(file), pos \in Nat, NEW M, NEW X, NEW Past, Joins(M, X, Past),
         NEW nodes \in Seq(M), NEW c, NEW junk \in Buffer, NEW stray, NEW b \in BOOLEAN
  PROVE  Joined(nodes, c, junk, stray, b) \in JoinAcc(X, Past, c)
<1>1. Len(nodes) \in Nat
  BY LenProperties
<1>2. PICK it : JoinRow(it, nodes, c, junk, stray, b, X, Past)
  BY JoinedPrefixes
<1> QED BY <1>1, <1>2 DEF OneByOne, Prefixed, JoinRow

-----------------------------------------------------------------------------
(* Following edges.                                                        *)

OutAcc(X, Ok, Past) ==
  [out : Seq(X), page : Buffer, pos : Nat, ok : Ok, past : Past]

(* Along the edges of E one reads nodes of X, and only if Past allows it   *)
(* behind the end of the file.                                             *)
Leads(E, X, Past) == E \subseteq Edge /\ Loads(IdsOf(E), X, Past)

(* Following one edge. *)
LEMMA FollowType ==
  ASSUME GoodFile(file), NEW E, NEW X, NEW Ok, NEW Past, Leads(E, X, Past),
         NEW acc \in OutAcc(X, Ok, Past), NEW e \in E, NEW name
  PROVE  Follow(acc, e, name) \in OutAcc(X, Ok, Past)
<1> DEFINE I == IdsOf(E)
           id == e.id
<1>1. id \in I /\ Loads(I, X, Past) /\ Buffered(acc, Past) /\ acc.out \in Seq(X)
  BY DEF IdsOf, OutAcc, Leads, Buffered
<1> HIDE DEF I, id
<1>2. PICK page \in Buffer, at \in Nat, past \in Past :
        /\ LoadNode(acc, id) = AfterNode(acc, page, at, past)
        /\ page_to_node(page) \in X
  BY <1>1, LoadType
<1> DEFINE out == Append(acc.out, page_to_node(page))
<1>3. out \in Seq(X)
  <2> DEFINE n == page_to_node(page)
  <2>1. n \in X
    BY <1>2
  <2> HIDE DEF n
  <2>2. Append(acc.out, n) \in Seq(X)
    BY <1>1, <2>1
  <2> QED BY <2>2 DEF n
<1>4. Follow(acc, e, name) =
        IF Follows(e, name)
        THEN [acc EXCEPT !.page = page, !.pos = at, !.past = past, !.out = out]
        ELSE acc
  BY <1>2 DEF Follow, AfterNode, id
<1> HIDE DEF out
<1>5. [acc EXCEPT !.page = page, !.pos = at, !.past = past, !.out = out]
        \in OutAcc(X, Ok, Past)
  BY <1>3 DEF OutAcc
<1> QED BY <1>4, <1>5

(* Following the edges of one node is following one after the other.       *)
FollowSteps(edges, name, S) ==
  [n \in 1 .. Len(edges) |-> [acc \in S |-> Follow(acc, edges[n], name)]]

EdgeByEdge(it, edges, name, S, base) ==
  Prefixed(it, Len(edges), S, base, FollowSteps(edges, name, S))

(* There is a row of results that ends with what the edges lead to.        *)
LEMMA FollowPrefixes ==
  ASSUME GoodFile(file), NEW E, NEW X, NEW Ok, NEW Past, Leads(E, X, Past),
         NEW base \in OutAcc(X, Ok, Past), NEW edges \in Seq(E), NEW name
  PROVE  \E it : /\ EdgeByEdge(it, edges, name, OutAcc(X, Ok, Past), base)
                 /\ FollowAll(base, edges, name) = it[1 .. Len(edges)]
<1> DEFINE N == Len(edges)
           S == OutAcc(X, Ok, Past)
           F == FollowSteps(edges, name, S)
           Step(h, t) == IF t = {} THEN base ELSE Follow(h[t \ {Max(t)}], edges[Max(t)], name)
           it == CHOOSE it : it = [t \in SUBSET (1 .. N) |-> Step(it, t)]
<1>1. N \in Nat /\ DOMAIN edges = 1 .. N /\ \A n \in 1 .. N : edges[n] \in E
  BY LenProperties, ElementOfSeq
<1>2. F \in [1 .. N -> [S -> S]]
  BY <1>1, FollowType DEF FollowSteps
<1>3. FollowAll(base, edges, name) = it[1 .. N]
  BY <1>1 DEF FollowAll, FoldLeft, MapThenFoldSet
<1>4. \A n \in 1 .. N : \A acc \in S : F[n][acc] = Follow(acc, edges[n], name)
  BY DEF FollowSteps
<1> HIDE DEF S, N, F
<1>5. base \in S
  BY DEF S
<1>6. \E h : IsFold(h, N, S, base, F)
  BY <1>1, <1>2, <1>5, FoldExists
<1>7. \A t \in SUBSET (1 .. N) : t # {} => Max(t) \in 1 .. N /\ t \ {Max(t)} \in SUBSET (1 .. N)
  BY <1>1, MaxProperty
<1>8. PICK h : h = [t \in SUBSET (1 .. N) |-> Step(h, t)]
  <2>1. PICK h : IsFold(h, N, S, base, F)
    BY <1>6
  <2>2. \A t \in SUBSET (1 .. N) : t # {} => h[t] = Follow(h[t \ {Max(t)}], edges[Max(t)], name)
    BY <1>4, <1>7, <2>1 DEF IsFold
  <2>3. h = [t \in SUBSET (1 .. N) |-> Step(h, t)]
    BY <2>1, <2>2 DEF IsFold
  <2> QED BY <2>3
<1> HIDE DEF Step
<1>9. it = [t \in SUBSET (1 .. N) |-> Step(it, t)]
  BY <1>8
<1> HIDE DEF it
<1>10. FoldsIn(it, N, S, base, F)
  BY <1>4, <1>7, <1>9 DEF Step, FoldsIn
<1>11. Prefixed(it, N, S, base, F)
  BY <1>1, <1>2, <1>5, <1>10, FoldPrefixes
<1> QED BY <1>3, <1>11 DEF S, N, F, EdgeByEdge

(* What they lead to is of X. *)
LEMMA FollowAllType ==
  ASSUME GoodFile(file), NEW E, NEW X, NEW Ok, NEW Past, Leads(E, X, Past),
         NEW base \in OutAcc(X, Ok, Past), NEW edges \in Seq(E), NEW name
  PROVE  FollowAll(base, edges, name) \in OutAcc(X, Ok, Past)
<1>1. Len(edges) \in Nat
  BY LenProperties
<1>2. PICK it : /\ EdgeByEdge(it, edges, name, OutAcc(X, Ok, Past), base)
                /\ FollowAll(base, edges, name) = it[1 .. Len(edges)]
  BY FollowPrefixes
<1> QED BY <1>1, <1>2 DEF EdgeByEdge, Prefixed

(* The nodes of M have edges of E, if they are found, and they are if Ok   *)
(* says so.                                                                *)
Reaches(M, E, Ok) ==
  /\ Ok \subseteq BOOLEAN
  /\ \A m \in M : /\ ~Found(file, m.id) => FALSE \in Ok
                  /\ Found(file, m.id) => get_node_page(file, m.id).edges \in Seq(E)

(* find_edge_page for one node. *)
LEMMA FindEdgePageType ==
  ASSUME GoodFile(file), NEW M, NEW E, NEW X, NEW Ok, NEW Past,
         Leads(E, X, Past), Reaches(M, E, Ok),
         NEW acc \in OutAcc(X, Ok, Past), NEW m \in M, NEW name
  PROVE  find_edge_page(acc, m, name) \in OutAcc(X, Ok, Past)
<1>1. acc.ok \in Ok /\ Ok \subseteq BOOLEAN
  BY DEF OutAcc, Reaches
<1>2. CASE ~acc.ok \/ ~Found(file, m.id)
  <2>1. FALSE \in Ok
    BY <1>1, <1>2 DEF Reaches
  <2>2. [acc EXCEPT !.ok = FALSE] \in OutAcc(X, Ok, Past)
    BY <2>1 DEF OutAcc
  <2> QED BY <1>2, <2>2 DEF find_edge_page
<1>3. CASE ~(~acc.ok \/ ~Found(file, m.id))
  <2> DEFINE n == get_node_page(file, m.id)
             base == [acc EXCEPT !.pos = n.id + 1]
  <2>1. n.edges \in Seq(E)
    BY <1>3 DEF Reaches
  <2>2. n.id \in Nat
    BY <1>3, LookupType, FileType
  <2>3. find_edge_page(acc, m, name) = FollowAll(base, n.edges, name)
    BY <1>3 DEF find_edge_page
  <2> HIDE DEF n
  <2>4. base \in OutAcc(X, Ok, Past)
    BY <2>2 DEF OutAcc
  <2> HIDE DEF base
  <2> QED BY <2>1, <2>3, <2>4, FollowAllType
<1> QED BY <1>2, <1>3

(* From nodes of M an out statement gets to nodes of X.                    *)
Carries(M, E, X, Ok, Past) ==
  /\ Leads(E, X, Past)
  /\ Reaches(M, E, Ok)
  /\ TRUE \in Ok /\ FALSE \in Past

(* It takes one node after the other.                                      *)
OutStart(junk) ==
  [out |-> << >>, page |-> junk, pos |-> pos, ok |-> TRUE, past |-> FALSE]

OutSteps(nodes, name, S) ==
  [n \in 1 .. Len(nodes) |-> [acc \in S |-> find_edge_page(acc, nodes[n], name)]]

NodeByNode(it, nodes, name, S, base) ==
  Prefixed(it, Len(nodes), S, base, OutSteps(nodes, name, S))

(* There is a row of results that ends with what the statement puts out.   *)
LEMMA OutPrefixes ==
  ASSUME GoodFile(file), pos \in Nat,
         NEW M, NEW E, NEW X, NEW Ok, NEW Past, Carries(M, E, X, Ok, Past),
         NEW nodes \in Seq(M), NEW name, NEW junk \in Buffer
  PROVE  \E it : /\ NodeByNode(it, nodes, name, OutAcc(X, Ok, Past), OutStart(junk))
                 /\ Outs(nodes, name, junk) = it[1 .. Len(nodes)]
<1> DEFINE N == Len(nodes)
           S == OutAcc(X, Ok, Past)
           base == OutStart(junk)
           F == OutSteps(nodes, name, S)
           Step(h, t) == IF t = {} THEN base
                         ELSE find_edge_page(h[t \ {Max(t)}], nodes[Max(t)], name)
           it == CHOOSE it : it = [t \in SUBSET (1 .. N) |-> Step(it, t)]
<1>1. N \in Nat /\ DOMAIN nodes = 1 .. N /\ \A n \in 1 .. N : nodes[n] \in M
  BY LenProperties, ElementOfSeq
<1>2. base \in S
  BY EmptySeq DEF OutAcc, OutStart, Carries
<1>3. F \in [1 .. N -> [S -> S]]
  <2>1. ASSUME NEW n \in 1 .. N, NEW acc \in S
        PROVE  find_edge_page(acc, nodes[n], name) \in S
    <3>1. nodes[n] \in M /\ Leads(E, X, Past) /\ Reaches(M, E, Ok)
      BY <1>1 DEF Carries
    <3> QED BY <3>1, FindEdgePageType
  <2> QED BY <2>1 DEF OutSteps
<1>4. Outs(nodes, name, junk) = it[1 .. N]
  BY <1>1 DEF Outs, FoldLeft, MapThenFoldSet, OutStart
<1>5. \A n \in 1 .. N : \A acc \in S : F[n][acc] = find_edge_page(acc, nodes[n], name)
  BY DEF OutSteps
<1> HIDE DEF base, S, N, F
<1>6. \E h : IsFold(h, N, S, base, F)
  BY <1>1, <1>2, <1>3, FoldExists
<1>7. \A t \in SUBSET (1 .. N) : t # {} => Max(t) \in 1 .. N /\ t \ {Max(t)} \in SUBSET (1 .. N)
  BY <1>1, MaxProperty
<1>8. PICK h : h = [t \in SUBSET (1 .. N) |-> Step(h, t)]
  <2>1. PICK h : IsFold(h, N, S, base, F)
    BY <1>6
  <2>2. \A t \in SUBSET (1 .. N) :
          t # {} => h[t] = find_edge_page(h[t \ {Max(t)}], nodes[Max(t)], name)
    BY <1>5, <1>7, <2>1 DEF IsFold
  <2>3. h = [t \in SUBSET (1 .. N) |-> Step(h, t)]
    BY <2>1, <2>2 DEF IsFold
  <2> QED BY <2>3
<1> HIDE DEF Step
<1>9. it = [t \in SUBSET (1 .. N) |-> Step(it, t)]
  BY <1>8
<1> HIDE DEF it
<1>10. FoldsIn(it, N, S, base, F)
  BY <1>5, <1>7, <1>9 DEF Step, FoldsIn
<1>11. Prefixed(it, N, S, base, F)
  BY <1>1, <1>2, <1>3, <1>10, FoldPrefixes
<1> QED BY <1>4, <1>11 DEF S, N, F, base, NodeByNode

(* What it puts out is of X. *)
LEMMA OutsType ==
  ASSUME GoodFile(file), pos \in Nat,
         NEW M, NEW E, NEW X, NEW Ok, NEW Past, Carries(M, E, X, Ok, Past),
         NEW nodes \in Seq(M), NEW name, NEW junk \in Buffer
  PROVE  Outs(nodes, name, junk) \in OutAcc(X, Ok, Past)
<1>1. Len(nodes) \in Nat
  BY LenProperties
<1>2. PICK it : /\ NodeByNode(it, nodes, name, OutAcc(X, Ok, Past), OutStart(junk))
                /\ Outs(nodes, name, junk) = it[1 .. Len(nodes)]
  BY OutPrefixes
<1> QED BY <1>1, <1>2 DEF NodeByNode, Prefixed

(* Whatever the edges, an out statement carries what buffers hold.         *)
LEMMA OutsLoaded ==
  ASSUME GoodFile(file), pos \in Nat, NEW nodes \in Seq(Loaded), NEW name,
         NEW junk \in Buffer
  PROVE  Outs(nodes, name, junk) \in OutAcc(Loaded, BOOLEAN, BOOLEAN)
<1>1. Leads(Edge, Loaded, BOOLEAN)
  <2>1. \A e \in Edge : e.id \in Int
    BY DEF Edge
  <2> QED BY <2>1, NodeAtType DEF Leads, Loads, IdsOf, Carried
<1>2. Reaches(Loaded, Edge, BOOLEAN)
  BY LookupType DEF Reaches, Writable
<1> HIDE DEF Loaded
<1>3. Carries(Loaded, Edge, Loaded, BOOLEAN, BOOLEAN)
  BY <1>1, <1>2 DEF Carries
<1> QED BY <1>3, OutsType

(* The nodes that are found have edges of E, if all that are stored are.   *)
LEMMA FoundEdges ==
  ASSUME GoodFile(file), NEW E, E \subseteq Edge,
         \A p \in LiveIds(file) : \A e \in Range(file[p + 1].edges) : e \in Edge => e \in E,
         NEW id, Found(file, id)
  PROVE  get_node_page(file, id).edges \in Seq(E)
<1>1. PICK q \in LiveIds(file) : get_node_page(file, id) = page_to_node(file[q + 1])
  BY LookupPage
<1> DEFINE s == file[q + 1].edges
<1>2. get_node_page(file, id).edges = Reverse(s)
  BY <1>1 DEF page_to_node
<1>3. s \in Seq(Edge)
  <2>1. file[q + 1] \in Page /\ file[q + 1].type = start_node
    BY FileType DEF LiveIds
  <2>2. EmptyPage.type # start_node
    BY DEF EmptyPage, empty_page, start_node
  <2> QED BY <2>1, <2>2 DEF Page, NodePage
<1>4. \A e \in Range(s) : e \in Edge => e \in E
  OBVIOUS
<1> HIDE DEF s
<1>5. s \in Seq(E)
  <2>1. Len(s) \in Nat /\ s \in [1 .. Len(s) -> Edge]
    BY <1>3, LenProperties
  <2>2. \A j \in 1 .. Len(s) : s[j] \in E
    BY <1>4, <2>1 DEF Range
  <2> QED BY <2>1, <2>2
<1> QED BY <1>2, <1>5, ReverseType

(* While no edge leads behind the end of the file, its nodes are read from *)
(* pages.                                                                  *)
LEMMA OutsInside ==
  ASSUME GoodFile(file), pos \in Nat, Inside, NEW nodes \in Seq(Carried), NEW name,
         NEW junk \in Buffer
  PROVE  Outs(nodes, name, junk) \in OutAcc(Carried, BOOLEAN, {FALSE})
<1> DEFINE E == {e \in Edge : e.id \in Ids(file)}
<1>1. Leads(E, Carried, {FALSE})
  <2>1. \A e \in Edge : e.id \in Int
    BY DEF Edge
  <2> QED BY <2>1, NodeAtType DEF Leads, Loads, IdsOf
<1>2. Reaches(Carried, E, BOOLEAN)
  <2>1. \A p \in LiveIds(file) : \A e \in Range(file[p + 1].edges) : e \in Edge => e \in E
    BY DEF Inside
  <2>2. E \subseteq Edge
    OBVIOUS
  <2> HIDE DEF E
  <2> QED BY <2>1, <2>2, FoundEdges DEF Reaches
<1> HIDE DEF E
<1>3. Carries(Carried, E, Carried, BOOLEAN, {FALSE})
  BY <1>1, <1>2 DEF Carries
<1> QED BY <1>3, OutsType

(* Edges to nodes of the file, and whether an out statement must find all. *)
ClosedEdges == {e \in Edge : e.id \in LiveIds(file)}
FoundAll    == IF Len(file) <= CharRange THEN {TRUE} ELSE BOOLEAN

(* As long as no edge dangles, the nodes of the file have edges that lead  *)
(* to nodes of the file, and they are found if their ids fit a signed      *)
(* char.                                                                   *)
LEMMA ClosedReaches ==
  ASSUME GoodFile(file), Closed
  PROVE  /\ Leads(ClosedEdges, Current, {FALSE})
         /\ Reaches(Current, ClosedEdges, FoundAll)
<1>1. Leads(ClosedEdges, Current, {FALSE})
  <2>1. \A e \in ClosedEdges : /\ e \in Edge /\ e.id \in Int /\ e.id \in Ids(file)
                               /\ NodeAt(e.id) \in Current
    BY DEF ClosedEdges, LiveIds, Current, Edge
  <2> QED BY <2>1 DEF Leads, Loads, IdsOf
<1>2. ASSUME NEW m \in Current
      PROVE  /\ ~Found(file, m.id) => FALSE \in FoundAll
             /\ Found(file, m.id) => get_node_page(file, m.id).edges \in Seq(ClosedEdges)
  <2> DEFINE p == m.id
  <2>1. p \in LiveIds(file)
    BY CurrentType
  <2> HIDE DEF p
  <2>2. ~Found(file, p) => FALSE \in FoundAll
    <3>1. p \in Nat /\ p < Len(file) /\ Len(file) \in Nat
      BY <2>1, FileType DEF LiveIds, Ids
    <3>2. ASSUME Len(file) <= CharRange
          PROVE  Found(file, p)
      BY <2>1, <3>1, <3>2, CharRangeAssumption, LowLookup
    <3> QED BY <3>2 DEF FoundAll
  <2>3. ASSUME Found(file, p)
        PROVE  get_node_page(file, p).edges \in Seq(ClosedEdges)
    <3>1. /\ ClosedEdges \subseteq Edge
          /\ \A q \in LiveIds(file) : \A e \in Range(file[q + 1].edges) :
                e \in Edge => e \in ClosedEdges
      BY DEF Closed, ClosedEdges
    <3> QED BY <2>3, <3>1, FoundEdges
  <2> QED BY <2>2, <2>3 DEF p
<1>3. Reaches(Current, ClosedEdges, FoundAll)
  BY <1>2 DEF Reaches, FoundAll
<1> QED BY <1>1, <1>3

(* So an out statement that starts from nodes of the file carries nodes of *)
(* the file and reads no page behind its end.                              *)
LEMMA OutsCurrent ==
  ASSUME GoodFile(file), pos \in Nat, Closed, NEW nodes \in Seq(Current), NEW name,
         NEW junk \in Buffer
  PROVE  Outs(nodes, name, junk) \in
           OutAcc(Current, IF Len(file) <= CharRange THEN {TRUE} ELSE BOOLEAN, {FALSE})
<1>1. TRUE \in FoundAll
  BY DEF FoundAll
<1>2. Outs(nodes, name, junk) \in OutAcc(Current, FoundAll, {FALSE})
  <2>1. Carries(Current, ClosedEdges, Current, FoundAll, {FALSE})
    BY <1>1, ClosedReaches DEF Carries
  <2> QED BY <2>1, OutsType
<1> QED BY <1>2 DEF FoundAll

-----------------------------------------------------------------------------
(* The requests are operations of the database.                            *)

(* The inductive invariant.  A select that runs has its statements, has    *)
(* put nothing in the reply, and starts with nodes of the file, read to    *)
(* its end.  What it carries later may be read from anything, but from     *)
(* pages as long as no edge leads behind the end of the file and it has    *)
(* deleted nothing, and from nodes of the file as long as no edge dangles. *)
Selecting ==
  /\ req.oper = "select"
  /\ req.statements \in Seq(Statement)
  /\ k \in 1 .. Len(req.statements) + 1
  /\ reply = NoReply
  /\ up /\ k = 1 /\ ~Deleting => pos = Len(file) /\ g \in Seq(Current)
  /\ up /\ Inside /\ ~Deleting => g \in Seq(Carried)
  /\ up /\ Closed /\ ~Deleting => g \in Seq(Current)

JInv ==
  /\ Inv
  /\ req.oper \in {"none", "add_node", "add_edge", "delete_edge", "select"}
  /\ k \in Nat /\ pos \in Nat /\ heap \in BOOLEAN
  /\ g \in Seq(Loaded)
  /\ i \in 1 .. Len(g) + 1
  /\ k = 0 => g = << >>
  /\ k > 0 => Selecting

(* A node of a request is a node that add_node takes, in either order of   *)
(* its attributes.                                                         *)
LEMMA ReversedInput ==
  ASSUME NEW n \in NodeInputs
  PROVE  [n EXCEPT !.att = Reverse(n.att)] \in NodeInputs
<1> DEFINE Atts == UNION {[1 .. m -> Attribute] : m \in 0 .. NewAttBound}
<1>1. n.att \in Atts
  BY DEF NodeInputs
<1>2. PICK m \in 0 .. NewAttBound : n.att \in [1 .. m -> Attribute]
  BY <1>1
<1>3. m \in Nat
  BY BoundsAssumption
<1>4. n.att \in Seq(Attribute) /\ Len(n.att) = m
  BY <1>2, <1>3
<1>5. Reverse(n.att) \in [1 .. m -> Attribute]
  <2>1. Reverse(n.att) \in Seq(Attribute) /\ Len(Reverse(n.att)) = m
    BY <1>4, ReverseType, ReverseElements
  <2> QED BY <2>1, LenProperties
<1>6. Reverse(n.att) \in Atts
  BY <1>5
<1> HIDE DEF Atts
<1>7. \A att \in Atts : [n EXCEPT !.att = att] \in [name : NodeNames, att : Atts, edges : {<< >>}]
  BY DEF NodeInputs, Atts
<1> QED BY <1>6, <1>7 DEF NodeInputs, Atts

(* Every step of the server process is an operation of the database, a     *)
(* scan of it, its end or its start, or does not touch it.                 *)
LEMMA JNextIsNext ==
  ASSUME JInv, JNext
  PROVE  Next \/ UNCHANGED vars
<1>1. ASSUME NEW n \in NodeInputs, ExecuteAddNode(n)
      PROVE  Next
  BY <1>1, ReversedInput DEF ExecuteAddNode, Next
<1>2. ASSUME NEW e \in EdgeInputs, NEW id \in NodeIds, ExecuteAddEdge(e.name, id, e.id)
      PROVE  Next
  <2>1. [name |-> e.name, id |-> e.id] \in EdgeInputs
    BY DEF EdgeInputs
  <2> QED BY <1>2, <2>1 DEF ExecuteAddEdge, Next
<1>3. ASSUME NEW id1 \in NodeIds, NEW id2 \in NodeIds, ExecuteDeleteEdge(id1, id2)
      PROVE  Next
  BY <1>3 DEF ExecuteDeleteEdge, Next
<1>4. ASSUME Flush
      PROVE  Next
  BY <1>4 DEF Next, Find
<1>5. ASSUME Segfault
      PROVE  Next
  BY <1>5 DEF Next, Segfault, Exit
<1>6. CASE DeleteOne
  <2> DEFINE id == g[i].id
  <2>1. DeleteNode(id)
    BY <1>6 DEF DeleteOne
  <2> HIDE DEF id
  <2>2. CASE Found(file, id)
    <3>1. PICK p \in LiveIds(file) : LowByte(file[p + 1].id) = id
      BY <2>2 DEF Found, Matches, LiveIds
    <3>2. p \in Ids(file) /\ file[p + 1].id = p
      BY <3>1 DEF JInv, Inv, GoodFile, LiveIds
    <3>3. id \in FoundIds
      BY <3>1, <3>2 DEF FoundIds
    <3> QED BY <2>1, <3>3 DEF Next
  <2>3. CASE ~Found(file, id)
    BY <1>4, <2>1, <2>3 DEF DeleteNode, OnNode
  <2> QED BY <2>2, <2>3
<1>7. CASE StopServer
  BY <1>7 DEF StopServer, Next
<1>8. CASE Restart
  BY <1>8 DEF Restart, Next
<1>9. CASE \E name, statements : Select(name, statements)
  BY <1>4, <1>9 DEF Select
<1>10. CASE Filter \/ FilterByReference \/ Out
  BY <1>4, <1>5, <1>10 DEF Filter, FilterByReference, Out
<1>12. CASE HeapFails
  BY <1>5, <1>12 DEF HeapFails, Next
<1>11. CASE ExecuteNothing \/ DeleteEnd \/ Respond
  BY <1>11 DEF ExecuteNothing, DeleteEnd, Respond, vars
<1> QED BY <1>1, <1>2, <1>3, <1>6, <1>7, <1>8, <1>9, <1>10, <1>11, <1>12 DEF JNext

-----------------------------------------------------------------------------
(* The invariant of the requests.                                          *)

(* Reading alone leaves what is in the file. *)
LEMMA SameFile ==
  ASSUME file' = file
  PROVE  /\ Carried' = Carried /\ Current' = Current
         /\ Inside' = Inside /\ Closed' = Closed /\ Ids(file') = Ids(file)
BY DEF Carried, Current, Inside, Closed, NodeAt, LiveIds, Ids

(* The end of a statement: its nodes are carried on to the next.           *)
LEMMA StatementEnds ==
  ASSUME JInv, Inv', up, k > 0, k \in DOMAIN req.statements,
         file' = file, heap' \in BOOLEAN, UNCHANGED <<req, reply>>,
         NEW nodes \in Seq(Loaded), NEW at \in Nat, NextStatement(nodes, at),
         Inside /\ ~Deleting => nodes \in Seq(Carried),
         Closed /\ ~Deleting => nodes \in Seq(Current)
  PROVE  JInv'
<1>1. k \in Nat /\ Len(req.statements) \in Nat /\ k <= Len(req.statements)
  BY LenProperties DEF JInv, Selecting
<1>2. g' = nodes /\ pos' = at /\ k' = k + 1 /\ i' = 1 /\ req' = req /\ reply' = reply
  BY DEF NextStatement
<1>3. Carried' = Carried /\ Current' = Current /\ Inside' = Inside /\ Closed' = Closed
  BY SameFile
<1>4. Deleting => Deleting'
  BY <1>1, <1>2 DEF Deleting
<1>5. Selecting'
  <2>1. k' \in 1 .. Len(req'.statements) + 1 /\ k' # 1
    BY <1>1, <1>2
  <2>2. req'.oper = "select" /\ req'.statements \in Seq(Statement) /\ reply' = NoReply
    BY <1>2 DEF JInv, Selecting
  <2>3. /\ Inside' /\ ~Deleting' => g' \in Seq(Carried')
        /\ Closed' /\ ~Deleting' => g' \in Seq(Current')
    BY <1>2, <1>3, <1>4
  <2> QED BY <2>1, <2>2, <2>3 DEF Selecting
<1>6. i' \in 1 .. Len(g') + 1 /\ g' \in Seq(Loaded)
  BY <1>2, LenProperties
<1> QED BY <1>1, <1>2, <1>5, <1>6 DEF JInv

(* A process that has no request. *)
LEMMA NoRequestInv ==
  ASSUME JInv, Inv', NoRequest
  PROVE  JInv'
<1>1. /\ g' = << >> /\ k' = 0 /\ i' = 1 /\ pos' = 0 /\ heap' = FALSE
      /\ req'.oper = "none"
  BY DEF NoRequest
<1>2. g' \in Seq(Loaded) /\ i' \in 1 .. Len(g') + 1
  BY <1>1, EmptySeq
<1>3. heap' \in BOOLEAN
  BY <1>1
<1> QED BY <1>1, <1>2, <1>3 DEF JInv

(* A request of one database call. *)
LEMMA DoneInv ==
  ASSUME JInv, Inv', Ready, NEW r, NEW text, Done(r, text),
         r.oper \in {"none", "add_node", "add_edge", "delete_edge"}
  PROVE  JInv'
<1>1. /\ g' = << >> /\ k' = 0 /\ i' = i /\ pos' = pos /\ heap' = heap /\ req' = r
      /\ g = << >>
  BY DEF Done, Ready, JInv
<1>2. g' \in Seq(Loaded)
  BY <1>1, EmptySeq
<1> QED BY <1>1, <1>2 DEF JInv

(* The file is empty when the server is started for the first time.        *)
LEMMA JInitInv == JInit => JInv
<1> SUFFICES ASSUME JInit
             PROVE  JInv
  OBVIOUS
<1>1. Inv
  BY InitInv DEF JInit
<1>2. g = << >> /\ k = 0 /\ i = 1 /\ pos = 0 /\ heap = FALSE /\ req.oper = "none"
  BY DEF JInit
<1>3. g \in Seq(Loaded) /\ i \in 1 .. Len(g) + 1
  BY <1>2, EmptySeq
<1>4. heap \in BOOLEAN
  BY <1>2
<1> QED BY <1>1, <1>2, <1>3, <1>4 DEF JInv

(* What JInv says of the nodes that are carried. *)
LEMMA CarriedNodes ==
  ASSUME JInv
  PROVE  /\ Len(g) \in Nat /\ DOMAIN g = 1 .. Len(g)
         /\ \A j \in DOMAIN g : g[j].id \in Int
         /\ LiveIds(file) \subseteq Ids(file)
         /\ g \in Seq(Carried) => \A j \in DOMAIN g : g[j].id \in Ids(file)
         /\ g \in Seq(Current) => \A j \in DOMAIN g : /\ g[j].id \in LiveIds(file)
                                                     /\ g[j] = NodeAt(g[j].id)
<1>1. GoodFile(file) /\ g \in Seq(Loaded)
  BY DEF JInv, Inv
<1>2. Len(g) \in Nat /\ DOMAIN g = 1 .. Len(g) /\ \A j \in DOMAIN g : g[j] \in Loaded
  BY <1>1, LenProperties, ElementOfSeq
<1>3. LiveIds(file) \subseteq Ids(file)
  BY DEF LiveIds
<1>4. ASSUME g \in Seq(Current), NEW j \in DOMAIN g
      PROVE  g[j].id \in LiveIds(file) /\ g[j] = NodeAt(g[j].id)
  <2>1. g[j] \in Current
    BY <1>2, <1>4, ElementOfSeq
  <2> QED BY <1>1, <2>1, CurrentType
<1>5. ASSUME g \in Seq(Carried), NEW j \in DOMAIN g
      PROVE  g[j].id \in Ids(file)
  <2>1. g[j] \in Carried
    BY <1>2, <1>5, ElementOfSeq
  <2> QED BY <2>1 DEF Carried
<1>6. \A j \in DOMAIN g : g[j].id \in Int
  BY <1>2, LoadedIds
<1> QED BY <1>2, <1>3, <1>4, <1>5, <1>6

(* What a statement that carries nodes on starts from: nodes of M, that    *)
(* lead to nodes of X.                                                     *)
LEMMA Sources ==
  ASSUME JInv, up, k > 0
  PROVE  /\ GoodFile(file) /\ pos \in Nat /\ g \in Seq(Loaded)
         /\ Inside /\ ~Deleting => g \in Seq(Carried)
         /\ Closed /\ ~Deleting => g \in Seq(Current)
         /\ k = 1 /\ ~Deleting => g \in Seq(Current) /\ pos = Len(file)
BY DEF JInv, Inv, Selecting

(* V(name) selects nodes of the file. *)
LEMMA SelectInv ==
  ASSUME JInv, Inv', NEW name, NEW statements \in Seq(Statement), Select(name, statements)
  PROVE  JInv'
<1>1. /\ file' = file /\ reply' = NoReply /\ g' = find_by_name(name) /\ heap' = heap
      /\ k' = 1 /\ i' = 1 /\ pos' = Len(file)
      /\ req' = [oper |-> "select", name |-> name, statements |-> statements]
  BY DEF Select, Flush
<1>2. GoodFile(file) /\ Len(file) \in Nat
  BY FileType DEF JInv, Inv
<1> DEFINE S == {p \in LiveIds(file) : name \in {AnyName, file[p + 1].name}}
<1>3. S \in SUBSET LiveIds(file) /\ LiveIds(file) \subseteq Ids(file)
  BY DEF LiveIds
<1>4. find_by_name(name) = NodesAt(S)
  BY DEF find_by_name
<1> HIDE DEF S
<1>5. NodesAt(S) \in Seq({NodeAt(p) : p \in S})
  BY <1>2, <1>3, NodesAtType
<1>6. /\ {NodeAt(p) : p \in S} \subseteq Current
      /\ Current \subseteq Carried /\ Carried \subseteq Loaded
  BY <1>2, <1>3, CurrentType DEF Current
<1> DEFINE R == {NodeAt(p) : p \in S}
<1> HIDE DEF R
<1>12. g' \in Seq(R) /\ R \subseteq Current
  BY <1>1, <1>4, <1>5, <1>6 DEF R
<1>7. g' \in Seq(Current) /\ g' \in Seq(Carried) /\ g' \in Seq(Loaded)
  BY <1>6, <1>12
<1>8. Carried' = Carried /\ Current' = Current
  BY <1>1, SameFile
<1>9. g' \in Seq(Current') /\ g' \in Seq(Carried')
  BY <1>7, <1>8
<1>10. Len(g') \in Nat /\ Len(statements) \in Nat
  BY <1>7, LenProperties
<1>11. Selecting'
  BY <1>1, <1>9, <1>10 DEF Selecting
<1> QED BY <1>1, <1>2, <1>7, <1>10, <1>11 DEF JInv

(* A statement that ends the process leaves what it carried.               *)
LEMMA CrashInv ==
  ASSUME JInv, Inv', Segfault, UNCHANGED <<req, reply, g, pos, k, i, heap>>
  PROVE  JInv'
<1>1. ~up'
  BY DEF Segfault
<1>2. k > 0 => Selecting'
  BY <1>1 DEF JInv, Selecting
<1> QED BY <1>2 DEF JInv

(* Some elements of a list are elements of it. *)
LEMMA PickOf ==
  ASSUME NEW S, NEW s \in Seq(S), NEW T, DOMAIN s = T, NEW keep \in SUBSET T
  PROVE  Pick(s, keep) \in Seq(S)
<1>1. keep \in SUBSET (1 .. Len(s))
  BY LenProperties
<1> QED BY <1>1, PickType

(* A has() keeps some of the nodes, read again from their pages.           *)
LEMMA FilterInv ==
  ASSUME JInv, Inv', Filter
  PROVE  JInv'
<1> DEFINE conditions == req.statements[k].conditions
<1>1. /\ up /\ k > 0 /\ k \in DOMAIN req.statements /\ UNCHANGED <<req, reply, heap>>
  BY DEF Filter, Running
<1>2. PICK junk \in Buffers :
        LET now  == Reads(g, junk)
            keep == {j \in DOMAIN g : node_filters(now.out[j], conditions)}
        IN  \/ Flush /\ NextStatement(Pick(now.out, keep), now.pos)
            \/ Segfault /\ UNCHANGED <<g, pos, k, i>>
  BY DEF Filter
<1> DEFINE now  == Reads(g, junk)
           keep == {j \in DOMAIN g : node_filters(now.out[j], conditions)}
           kept == Pick(now.out, keep)
<1>3. /\ \/ Flush /\ NextStatement(kept, now.pos)
         \/ Segfault /\ UNCHANGED <<g, pos, k, i>>
      /\ keep \in SUBSET DOMAIN g
  BY <1>2
<1>4. GoodFile(file) /\ pos \in Nat /\ junk \in Buffer
  BY <1>1, Sources, JunkType
<1>5. ASSUME NEW M, NEW X, NEW Past, g \in Seq(M), Loads(IdsOf(M), X, Past), FALSE \in Past
      PROVE  now.out \in Seq(X) /\ now.pos \in Nat /\ Len(now.out) = Len(g)
  BY <1>4, <1>5, ReadsType
<1> HIDE DEF now, keep
<1>6. ASSUME NEW X, now.out \in Seq(X), Len(now.out) = Len(g)
      PROVE  kept \in Seq(X)
  <2>1. DOMAIN now.out = DOMAIN g
    BY <1>6, CarriedNodes, LenProperties
  <2> QED BY <1>3, <1>6, <2>1, PickOf
<1> HIDE DEF kept
<1>7. kept \in Seq(Loaded) /\ now.pos \in Nat
  BY <1>1, <1>4, <1>5, <1>6, Sources, ListLoads
<1>8. /\ Inside /\ ~Deleting => kept \in Seq(Carried)
      /\ Closed /\ ~Deleting => kept \in Seq(Current)
  BY <1>1, <1>4, <1>5, <1>6, Sources, ListLoads
<1>9. CASE Flush /\ NextStatement(kept, now.pos)
  <2>1. file' = file /\ heap' \in BOOLEAN
    BY <1>1, <1>9 DEF Flush, JInv
  <2> QED BY <1>1, <1>7, <1>8, <1>9, <2>1, StatementEnds
<1>10. CASE Segfault /\ UNCHANGED <<g, pos, k, i>>
  BY <1>1, <1>10, CrashInv
<1> QED BY <1>3, <1>9, <1>10

(* What a has(ref) arrives at that was given nodes of the file. *)
FoundJoined(c) ==
  {joined \in JoinAcc(Current, {FALSE}, c) :
     joined.used \subseteq Ids(file) /\ (c.to \in AttNames => joined.wild = FALSE)}

(* What a has(ref) carries and marks: like its nodes, and only ids of      *)
(* theirs.                                                                 *)
LEMMA JoinedNodes ==
  ASSUME JInv, up, k > 0, NEW c, NEW junk \in Buffer, NEW stray, NEW b \in BOOLEAN
  PROVE  LET joined == Joined(g, c, junk, stray, b)
         IN  /\ joined.out \in Seq(Loaded) /\ joined.pos \in Nat
             /\ Inside /\ ~Deleting => joined.out \in Seq(Carried)
             /\ g \in Seq(Current) => joined \in FoundJoined(c)
<1> DEFINE joined == Joined(g, c, junk, stray, b)
<1>1. /\ GoodFile(file) /\ pos \in Nat /\ g \in Seq(Loaded)
      /\ Inside /\ ~Deleting => g \in Seq(Carried)
  BY Sources
<1>2. Current \subseteq Carried /\ Carried \subseteq Loaded
  BY <1>1, CurrentType
<1>3. /\ Joins(Loaded, Loaded, BOOLEAN)
      /\ Joins(Carried, Carried, {FALSE})
      /\ Joins(Current, Current, {FALSE})
  BY <1>1, <1>2, ListLoads DEF Joins
<1>4. /\ joined \in JoinAcc(Loaded, BOOLEAN, c)
      /\ g \in Seq(Carried) => joined \in JoinAcc(Carried, {FALSE}, c)
      /\ g \in Seq(Current) => joined \in JoinAcc(Current, {FALSE}, c)
  BY <1>1, <1>3, JoinedType
<1> HIDE DEF joined
<1>5. joined.out \in Seq(Loaded) /\ joined.pos \in Nat
  BY <1>4 DEF JoinAcc
<1>6. Inside /\ ~Deleting => joined.out \in Seq(Carried)
  BY <1>1, <1>4 DEF JoinAcc
<1>7. ASSUME g \in Seq(Current)
      PROVE  joined \in FoundJoined(c)
  <2>1. joined \in JoinAcc(Current, {FALSE}, c)
    BY <1>4, <1>7
  <2>2. IdsOf(Current) \subseteq Ids(file)
    BY <1>1, CurrentType DEF IdsOf
  <2> QED BY <2>1, <2>2 DEF JoinAcc, FoundJoined
<1> QED BY <1>5, <1>6, <1>7 DEF joined

(* A has(ref) carries those on.                                            *)
LEMMA FilterByReferenceInv ==
  ASSUME JInv, Inv', FilterByReference
  PROVE  JInv'
<1> DEFINE c == SharedAtt(req.statements[k].conditions)
<1>1. /\ up /\ k > 0 /\ k \in DOMAIN req.statements /\ UNCHANGED <<req, reply>>
      /\ heap \in BOOLEAN
  BY DEF FilterByReference, Running, JInv
<1>2. PICK junk \in Buffers, b \in BOOLEAN,
           stray \in SUBSET ({page.id : page \in Buffers} \ (0 .. pos)) :
        LET joined == Joined(g, c, junk, stray, b)
        IN  \/ /\ Flush /\ NextStatement(joined.out, joined.pos)
               /\ heap' = (heap \/ ~(joined.used \subseteq 0 .. pos))
            \/ Segfault /\ UNCHANGED <<g, pos, k, i, heap>>
  BY DEF FilterByReference
<1> DEFINE joined == Joined(g, c, junk, stray, b)
<1>3. /\ joined.out \in Seq(Loaded) /\ joined.pos \in Nat
      /\ Inside /\ ~Deleting => joined.out \in Seq(Carried)
      /\ g \in Seq(Current) => joined \in FoundJoined(c)
  <2>1. junk \in Buffer
    BY <1>1, Sources, JunkType
  <2> HIDE DEF c
  <2> QED BY <1>1, <2>1, JoinedNodes
<1> HIDE DEF joined
<1>4. \/ Flush /\ NextStatement(joined.out, joined.pos) /\ heap' \in BOOLEAN
      \/ Segfault /\ UNCHANGED <<g, pos, k, i, heap>>
  BY <1>1, <1>2 DEF joined
<1>5. CASE Flush /\ NextStatement(joined.out, joined.pos) /\ heap' \in BOOLEAN
  <2>1. file' = file
    BY <1>5 DEF Flush
  <2>2. Closed /\ ~Deleting => joined.out \in Seq(Current)
    BY <1>1, <1>3, Sources DEF FoundJoined, JoinAcc
  <2> QED BY <1>1, <1>3, <1>5, <2>1, <2>2, StatementEnds
<1>6. CASE Segfault /\ UNCHANGED <<g, pos, k, i, heap>>
  BY <1>1, <1>6, CrashInv
<1> QED BY <1>4, <1>5, <1>6

(* An out statement carries on the nodes at the ends of edges.             *)
LEMMA OutInv ==
  ASSUME JInv, Inv', Out
  PROVE  JInv'
<1> DEFINE name == req.statements[k].value
<1>1. /\ up /\ k > 0 /\ k \in DOMAIN req.statements /\ UNCHANGED <<req, reply, heap>>
  BY DEF Out, Running
<1>2. PICK junk \in Buffers :
        LET outs == Outs(g, name, junk)
        IN  \/ Flush /\ NextStatement(outs.out, outs.pos)
            \/ Segfault /\ UNCHANGED <<g, pos, k, i>>
  BY DEF Out
<1> DEFINE outs == Outs(g, name, junk)
<1>3. /\ GoodFile(file) /\ pos \in Nat /\ g \in Seq(Loaded) /\ junk \in Buffer
      /\ Inside /\ ~Deleting => g \in Seq(Carried)
      /\ Closed /\ ~Deleting => g \in Seq(Current)
  BY <1>1, Sources, JunkType
<1>4. /\ outs \in OutAcc(Loaded, BOOLEAN, BOOLEAN)
      /\ Inside /\ g \in Seq(Carried) => outs \in OutAcc(Carried, BOOLEAN, {FALSE})
      /\ Closed /\ g \in Seq(Current) =>
           outs \in OutAcc(Current, IF Len(file) <= CharRange THEN {TRUE} ELSE BOOLEAN,
                           {FALSE})
  BY <1>3, OutsLoaded, OutsInside, OutsCurrent
<1> HIDE DEF outs
<1>5. /\ outs.out \in Seq(Loaded) /\ outs.pos \in Nat
      /\ Inside /\ ~Deleting => outs.out \in Seq(Carried)
      /\ Closed /\ ~Deleting => outs.out \in Seq(Current)
  BY <1>3, <1>4 DEF OutAcc
<1>6. \/ Flush /\ NextStatement(outs.out, outs.pos)
      \/ Segfault /\ UNCHANGED <<g, pos, k, i>>
  BY <1>2 DEF outs
<1>7. CASE Flush /\ NextStatement(outs.out, outs.pos)
  <2>1. file' = file /\ heap' \in BOOLEAN
    BY <1>1, <1>7 DEF Flush, JInv
  <2> QED BY <1>1, <1>5, <1>7, <2>1, StatementEnds
<1>8. CASE Segfault /\ UNCHANGED <<g, pos, k, i>>
  BY <1>1, <1>8, CrashInv
<1> QED BY <1>6, <1>7, <1>8

(* A delete statement has begun, so that what it carries may be gone.      *)
LEMMA DeleteInv ==
  ASSUME JInv, Inv', DeleteOne \/ DeleteEnd
  PROVE  JInv'
<1>1. /\ up /\ k > 0 /\ k \in DOMAIN req.statements /\ req.statements[k].type = DELETE
      /\ UNCHANGED <<req, reply, heap>>
  BY DEF DeleteOne, DeleteEnd, Running
<1>2. k \in Nat /\ Deleting
  BY <1>1 DEF JInv, Deleting
<1>3. CASE DeleteEnd
  <2>1. /\ file' = file /\ NextStatement(g, pos) /\ pos \in Nat /\ g \in Seq(Loaded)
        /\ heap' \in BOOLEAN
    BY <1>1, <1>3 DEF DeleteEnd, vars, JInv
  <2> QED BY <1>1, <1>2, <2>1, StatementEnds
<1>4. CASE DeleteOne
  <2>1. /\ i <= Len(g) /\ i' = i + 1 /\ UNCHANGED <<k, g>>
        /\ OnNode(g[i].id, delete_node_page(file, g[i].id))
        /\ pos' = IF Found(file, g[i].id) THEN get_node_page(file, g[i].id).id + 1
                                          ELSE Len(file)
    BY <1>4 DEF DeleteOne, DeleteNode
  <2>2. GoodFile(file) /\ Len(file) \in Nat
    BY FileType DEF JInv, Inv
  <2>5. pos' \in Nat
    BY <2>1, <2>2, LookupType, FileType
  <2>6. i' \in 1 .. Len(g') + 1
    BY <2>1, CarriedNodes DEF JInv
  <2>7. Deleting'
    BY <1>1, <1>2, <2>1 DEF Deleting
  <2>8. Selecting'
    BY <1>1, <2>1, <2>7 DEF JInv, Selecting
  <2> QED BY <1>1, <1>2, <2>1, <2>5, <2>6, <2>8 DEF JInv
<1> QED BY <1>3, <1>4

(* The nodes are put in the reply. *)
LEMMA RespondInv ==
  ASSUME JInv, Inv', Respond
  PROVE  JInv'
<1>1. g' = << >> /\ k' = 0 /\ i' = 1 /\ pos' = 0 /\ req' = req /\ heap' = heap
  BY DEF Respond
<1>2. g' \in Seq(Loaded) /\ Len(g') = 0
  BY <1>1, EmptySeq
<1> QED BY <1>1, <1>2 DEF JInv

(* A step that changes nothing. *)
LEMMA SameAll ==
  ASSUME JInv, UNCHANGED all
  PROVE  JInv'
<1>1. /\ file' = file /\ disk' = disk /\ up' = up /\ req' = req /\ reply' = reply
      /\ k' = k /\ g' = g /\ i' = i /\ pos' = pos /\ heap' = heap
  BY DEF all, vars
<1>2. Inv'
  BY <1>1 DEF JInv, Inv, GoodFile, Near, LiveIds, Ids
<1>3. Carried' = Carried /\ Current' = Current /\ Inside' = Inside /\ Closed' = Closed
  BY <1>1, SameFile
<1>4. Deleting' = Deleting
  BY <1>1 DEF Deleting
<1>5. k > 0 => Selecting'
  BY <1>1, <1>3, <1>4 DEF JInv, Selecting
<1> QED BY <1>1, <1>2, <1>5 DEF JInv

(* A process that ends of what was written over leaves what it had. *)
LEMMA HeapFailsInv ==
  ASSUME JInv, Inv', HeapFails
  PROVE  JInv'
<1>1. ~up' /\ reply' = NoReply /\ UNCHANGED <<req, k, g, i, pos, heap>>
  BY DEF HeapFails, Kill, Segfault
<1>2. k > 0 => Selecting'
  BY <1>1 DEF JInv, Selecting
<1> QED BY <1>1, <1>2 DEF JInv

(* Every step of the server process preserves the invariant.               *)
LEMMA JNextInv == JInv /\ [JNext]_all => JInv'
<1> SUFFICES ASSUME JInv, [JNext]_all
             PROVE  JInv'
  OBVIOUS
<1>1. CASE UNCHANGED all
  BY <1>1, SameAll
<1>2. CASE JNext
  <2>1. Inv'
    BY <1>2, JNextIsNext, NextInv DEF JInv
  <2>2. ASSUME NEW n \in NodeInputs, ExecuteAddNode(n)
        PROVE  JInv'
    <3>1. Ready /\ Done([oper |-> "add_node", node |-> n], "Add node")
      BY <2>2 DEF ExecuteAddNode
    <3> QED BY <2>1, <3>1, DoneInv
  <2>3. ASSUME NEW name, NEW id1, NEW id2, ExecuteAddEdge(name, id1, id2)
        PROVE  JInv'
    <3>1. Ready /\ Done([oper |-> "add_edge", name |-> name, id1 |-> id1, id2 |-> id2], "Add edge")
      BY <2>3 DEF ExecuteAddEdge
    <3> QED BY <2>1, <3>1, DoneInv
  <2>4. ASSUME NEW id1, NEW id2, ExecuteDeleteEdge(id1, id2)
        PROVE  JInv'
    <3>1. Ready /\ Done([oper |-> "delete_edge", id1 |-> id1, id2 |-> id2], "Delete edge")
      BY <2>4 DEF ExecuteDeleteEdge
    <3> QED BY <2>1, <3>1, DoneInv
  <2>5. CASE ExecuteNothing
    <3>1. Ready /\ Done([oper |-> "none"], "")
      BY <2>5 DEF ExecuteNothing
    <3> QED BY <2>1, <3>1, DoneInv
  <2>6. ASSUME NEW name, NEW s \in Pipelines, Select(name, s)
        PROVE  JInv'
    BY <2>1, <2>6, PipelinesAssumption, SelectInv
  <2>7. CASE StopServer \/ Restart
    BY <2>1, <2>7, NoRequestInv DEF StopServer, Restart
  <2> QED BY <1>2, <2>1, <2>2, <2>3, <2>4, <2>5, <2>6, <2>7, FilterInv,
             FilterByReferenceInv, OutInv, DeleteInv, RespondInv, HeapFailsInv DEF JNext
<1> QED BY <1>1, <1>2

(* So it holds of every reachable state. *)
LEMMA AlwaysJInv == JSpec => []JInv
BY JInitInv, JNextInv, PTL DEF JSpec

-----------------------------------------------------------------------------
(* Which nodes a request leaves.                                           *)

(* h is f with n in a page that held no node.                              *)
Created(f, h, n) ==
  \E p : /\ p \notin LiveIds(f)
         /\ LiveIds(h) = LiveIds(f) \cup {p}
         /\ h[p + 1] = [type |-> start_node, id |-> p, name |-> n.name,
                        att |-> n.att, edges |-> n.edges]

(* add_node stores the node it is given, in a page that held none.         *)
LEMMA CreateNode ==
  ASSUME NEW f, GoodFile(f), NEW n, Writable(n), NEW h, h = create_node_page(f, n)
  PROVE  Created(f, h, n)
<1>1. CASE EmptyIds(f) # {}
  <2> DEFINE p == Min(EmptyIds(f))
  <2>1. EmptyIds(f) \in SUBSET Nat
    BY FileType DEF EmptyIds
  <2>2. p \in EmptyIds(f)
    BY <1>1, <2>1, MinProperty
  <2>3. h = set_node_page(f, p, n)
    BY <1>1 DEF create_node_page
  <2> HIDE DEF p
  <2>4. p \in Ids(f) /\ p \notin LiveIds(f)
    BY <2>2 DEF EmptyIds, LiveIds, empty_page, start_node
  <2>5. /\ LiveIds(h) = LiveIds(f) \cup {p}
        /\ h[p + 1] = [type |-> start_node, id |-> p, name |-> n.name,
                        att |-> n.att, edges |-> n.edges]
    BY <2>3, <2>4, SetLive
  <2> QED BY <2>4, <2>5 DEF Created
<1>2. CASE EmptyIds(f) = {}
  <2> DEFINE z == Append(f, EmptyPage)
             p == Len(f)
  <2>1. GoodFile(z) /\ LiveIds(z) = LiveIds(f)
    BY AppendPage, AppendLive
  <2>2. f \in Seq(Page) /\ Len(f) \in Nat
    BY FileType DEF GoodFile
  <2>3. Len(z) = Len(f) + 1
    BY <2>2
  <2>4. h = set_node_page(z, p, n)
    BY <1>2 DEF create_node_page
  <2> HIDE DEF z
  <2>5. p \in Ids(z) /\ p \notin LiveIds(f)
    BY <2>2, <2>3 DEF Ids, LiveIds
  <2>6. /\ LiveIds(h) = LiveIds(z) \cup {p}
        /\ h[p + 1] = [type |-> start_node, id |-> p, name |-> n.name,
                        att |-> n.att, edges |-> n.edges]
    BY <2>1, <2>4, <2>5, SetLive
  <2> QED BY <2>1, <2>5, <2>6 DEF Created
<1> QED BY <1>1, <1>2

(* The edge functions rewrite the page of a node, and no page ends or      *)
(* begins to hold one; in a file that a signed char can number, the page   *)
(* is the one that was asked for.                                          *)
LEMMA EdgePagesLive ==
  ASSUME NEW f, GoodFile(f), NEW id, Found(f, id)
  PROVE  /\ \A e \in Edge :
              LET h == add_edge_page(f, e, id)
              IN  /\ LiveIds(h) = LiveIds(f)
                  /\ Len(f) <= CharRange => e \in Range(page_to_node(h[id + 1]).edges)
         /\ \A target :
              LET h == delete_edge_page(f, target, id)
              IN  /\ LiveIds(h) = LiveIds(f)
                  /\ Len(f) <= CharRange =>
                       \A x \in Range(page_to_node(h[id + 1]).edges) : x.id # target
<1> DEFINE n == get_node_page(f, id)
           Write(edges) == set_node_page(f, n.id, [n EXCEPT !.edges = edges])
<1>1. n.id \in LiveIds(f) /\ n.id \in Ids(f) /\ n.edges \in Seq(Edge)
  BY LookupType DEF Writable
<1>2. Len(f) <= CharRange => n.id = id
  BY LookupPage
<1>3. ASSUME NEW edges \in Seq(Edge)
      PROVE  /\ LiveIds(Write(edges)) = LiveIds(f)
             /\ Range(page_to_node(Write(edges)[n.id + 1]).edges) = Range(edges)
  <2> DEFINE m == [n EXCEPT !.edges = edges]
  <2>1. m.edges = edges
    BY LookupType
  <2> DEFINE v == n.id
  <2> HIDE DEF m
  <2>2. v \in LiveIds(f) /\ v \in Ids(f)
    BY <1>1
  <2> HIDE DEF v
  <2> DEFINE w == set_node_page(f, v, m)
  <2>3. /\ LiveIds(w) = LiveIds(f) \cup {v}
        /\ w[v + 1] = [type |-> start_node, id |-> v, name |-> m.name,
                        att |-> m.att, edges |-> m.edges]
    BY <2>2, SetLive
  <2> HIDE DEF w
  <2>4. page_to_node(w[v + 1]).edges = Reverse(edges)
    BY <2>1, <2>3 DEF page_to_node
  <2>5. Range(page_to_node(w[v + 1]).edges) = Range(edges)
    BY <2>4, ReverseElements
  <2>6. LiveIds(w) = LiveIds(f)
    BY <2>2, <2>3
  <2> QED BY <2>5, <2>6 DEF m, w, v
<1>4. ASSUME NEW e \in Edge
      PROVE  LET h == add_edge_page(f, e, id)
             IN  /\ LiveIds(h) = LiveIds(f)
                 /\ Len(f) <= CharRange => e \in Range(page_to_node(h[id + 1]).edges)
  <2> DEFINE added == Append(n.edges, e)
  <2>1. add_edge_page(f, e, id) = Write(added)
    BY DEF add_edge_page
  <2> HIDE DEF n
  <2>2. Len(added) \in DOMAIN added /\ added[Len(added)] = e /\ added \in Seq(Edge)
    BY <1>1
  <2> HIDE DEF added, Write
  <2>3. e \in Range(added)
    BY <2>2 DEF Range
  <2> QED BY <1>2, <1>3, <2>1, <2>2, <2>3
<1>5. ASSUME NEW target
      PROVE  LET h == delete_edge_page(f, target, id)
             IN  /\ LiveIds(h) = LiveIds(f)
                 /\ Len(f) <= CharRange =>
                      \A x \in Range(page_to_node(h[id + 1]).edges) : x.id # target
  <2> DEFINE keep == {j \in 1 .. Len(n.edges) : n.edges[j].id # target}
             kept == Pick(n.edges, keep)
             E == {n.edges[j] : j \in keep}
  <2>1. delete_edge_page(f, target, id) = Write(kept)
    BY DEF delete_edge_page
  <2> HIDE DEF n
  <2>2. keep \in SUBSET (1 .. Len(n.edges)) /\ \A x \in E : x.id # target
    OBVIOUS
  <2> HIDE DEF keep
  <2>3. kept \in Seq(E) /\ kept \in Seq(Edge)
    BY <1>1, <2>2, PickElements, PickType
  <2> HIDE DEF kept, E, Write
  <2>4. Range(kept) \subseteq E
    BY <2>3, LenProperties, ElementOfSeq DEF Range
  <2> QED BY <1>2, <1>3, <2>1, <2>2, <2>3, <2>4
<1> QED BY <1>4, <1>5

-----------------------------------------------------------------------------
(* Theorems.                                                               *)

(* The server process uses the database only through its operations: what  *)
(* holds of Database under all sequences of operations holds of the server *)
(* under all sequences of requests.                                        *)
THEOREM ServerIsDatabase == JSpec => Spec
<1>1. JInit => Init
  BY DEF JInit
<1>2. JInv /\ [JNext]_all => [Next]_vars
  <2>1. UNCHANGED all => UNCHANGED vars
    BY DEF all
  <2> QED BY <2>1, JNextIsNext
<1> QED BY <1>1, <1>2, AlwaysJInv, PTL DEF JSpec, Spec

(* The request and the loop counters are well formed, for any bytes on the *)
(* stack; and the nodes that are carried have ids of pages of the file, as *)
(* long as no edge leads behind its end and nothing has been deleted.      *)
THEOREM JTypeCorrect == JSpec => []JTypeOK
<1>1. JInv => JTypeOK
  <2> SUFFICES ASSUME JInv
               PROVE  JTypeOK
    OBVIOUS
  <2>1. TypeOK
    BY DEF JInv, Inv, GoodFile, TypeOK
  <2>2. k > 0 => req.oper = "select" /\ k <= Len(req.statements) + 1
    BY LenProperties DEF JInv, Selecting
  <2>3. up /\ Inside /\ ~Deleting => \A j \in DOMAIN g : g[j].id \in Ids(file)
    <3>1. CASE k = 0
      BY <3>1, CarriedNodes DEF JInv
    <3>2. CASE k > 0
      BY <3>2, CarriedNodes DEF JInv, Selecting
    <3> QED BY <3>1, <3>2 DEF JInv
  <2> QED BY <2>1, <2>2, <2>3, CarriedNodes DEF JInv, JTypeOK
<1> QED BY <1>1, AlwaysJInv, PTL

(* While no edge dangles and nothing has been deleted, what a pipeline     *)
(* carries is in the file as it carries it.                                *)
THEOREM SelectionAlwaysCurrent == JSpec => []SelectionIsCurrent
<1>1. JInv => SelectionIsCurrent
  BY CarriedNodes DEF JInv, Selecting, SelectionIsCurrent
<1> QED BY <1>1, AlwaysJInv, PTL

(* How a step can leave a select that runs or has ended the process.       *)
LEMMA SelectSteps ==
  ASSUME JInv, JNext, k' > 0
  PROVE  \/ (\E name, s : Select(name, s)) \/ Filter \/ FilterByReference \/ Out
         \/ DeleteOne \/ DeleteEnd \/ HeapFails
<1>1. k \in Nat
  BY DEF JInv
<1>2. ASSUME Ready, NEW r, NEW text, Done(r, text)
      PROVE  FALSE
  BY <1>1, <1>2 DEF Done, Ready
<1>3. ~ ExecuteNothing /\ ~ \E n : ExecuteAddNode(n)
  BY <1>2 DEF ExecuteNothing, ExecuteAddNode
<1>4. ~ \E name, id1, id2 : ExecuteAddEdge(name, id1, id2)
  BY <1>2 DEF ExecuteAddEdge
<1>5. ~ \E id1, id2 : ExecuteDeleteEdge(id1, id2)
  BY <1>2 DEF ExecuteDeleteEdge
<1>6. CASE Respond \/ StopServer \/ Restart
  BY <1>6 DEF Respond, StopServer, Restart, NoRequest
<1> QED BY <1>3, <1>4, <1>5, <1>6 DEF JNext

(* A select that ends the process, when nothing has been written over,     *)
(* changes nothing else.                                                   *)
LEMMA CrashLeaves ==
  ASSUME JInv, JNext, ~up', k' > 0, ~heap'
  PROVE  UNCHANGED <<file, req, k, heap>>
<1>1. CASE (\E name, s : Select(name, s)) \/ DeleteEnd
  BY <1>1 DEF Select, DeleteEnd, Running, Flush, vars
<1>2. CASE DeleteOne
  BY <1>2 DEF DeleteOne, DeleteNode, OnNode, Writes, Flush
<1>3. CASE Filter \/ Out \/ FilterByReference
  BY <1>3 DEF Filter, Running, Out, FilterByReference, Flush, Segfault
<1>4. ~HeapFails
  BY DEF HeapFails
<1> QED BY <1>1, <1>2, <1>3, <1>4, SelectSteps

(* It does so in a has(ref), unless an edge dangles or it has deleted.     *)
LEMMA CrashStep ==
  ASSUME JInv, JNext, ~up', k' > 0, ~heap', Len(file) <= CharRange, Closed, ~Deleting
  PROVE  /\ req.statements[k].type = SELECT_CONDITION
         /\ LET c == SharedAtt(req.statements[k].conditions)
            IN  c.option = reference /\ (k > 1 \/ c.to \notin AttNames)
<1>1. CASE (\E name, s : Select(name, s)) \/ DeleteEnd
  BY <1>1 DEF Select, DeleteEnd, Running, Flush, vars
<1>2. CASE DeleteOne
  BY <1>2 DEF DeleteOne, DeleteNode, OnNode, Writes, Flush
<1>5. CASE Filter
  <2>1. up /\ k > 0
    BY <1>5 DEF Filter, Running
  <2>2. PICK junk \in Buffers : Reads(g, junk).past
    BY <1>5, <2>1 DEF Filter, Flush
  <2>3. GoodFile(file) /\ pos \in Nat /\ g \in Seq(Current)
    BY <2>1, Sources
  <2>4. g \in Seq(Carried)
    BY <2>3, CurrentType
  <2>5. Reads(g, junk).past = FALSE
    BY <2>3, <2>4, JunkType, ReadsExact
  <2> QED BY <2>2, <2>5
<1>6. CASE HeapFails
  BY <1>6 DEF HeapFails
<1>3. CASE Out
  <2> DEFINE name == req.statements[k].value
  <2>1. up /\ k > 0
    BY <1>3 DEF Out, Running
  <2>2. PICK junk \in Buffers :
          ~Outs(g, name, junk).ok \/ Outs(g, name, junk).past
    BY <1>3 DEF Out, Flush
  <2> DEFINE outs == Outs(g, name, junk)
  <2>3. GoodFile(file) /\ pos \in Nat /\ g \in Seq(Current)
    BY <2>1 DEF JInv, Inv, Selecting
  <2>4. outs \in OutAcc(Current, {TRUE}, {FALSE})
    BY <2>3, JunkType, OutsCurrent
  <2> HIDE DEF outs
  <2>5. outs.ok = TRUE /\ outs.past = FALSE
    BY <2>4 DEF OutAcc
  <2> QED BY <2>2, <2>5 DEF outs
<1>4. CASE FilterByReference
  <2> DEFINE c == SharedAtt(req.statements[k].conditions)
  <2>1. /\ up /\ k > 0 /\ req.statements[k].type = SELECT_CONDITION
        /\ c.option = reference /\ UNCHANGED req
    BY <1>4 DEF FilterByReference, Running
  <2>2. PICK junk \in Buffers, b \in BOOLEAN,
             stray \in SUBSET ({page.id : page \in Buffers} \ (0 .. pos)) :
          LET joined == Joined(g, c, junk, stray, b)
          IN  Flush \/ joined.past \/ joined.wild \/ ~(joined.used \subseteq 0 .. pos)
    BY <1>4 DEF FilterByReference
  <2> DEFINE joined == Joined(g, c, junk, stray, b)
  <2>3. joined.past \/ joined.wild \/ ~(joined.used \subseteq 0 .. pos)
    BY <2>1, <2>2 DEF Flush
  <2>4. GoodFile(file) /\ g \in Seq(Current) /\ (k = 1 => pos = Len(file))
    BY <2>1, Sources
  <2>5. joined \in FoundJoined(c)
    <3>1. junk \in Buffer
      BY <2>4, JunkType
    <3> HIDE DEF c
    <3> QED BY <2>1, <2>4, <3>1, JoinedNodes
  <2> HIDE DEF joined
  <2>6. /\ joined.past = FALSE /\ joined.used \subseteq Ids(file)
        /\ c.to \in AttNames => joined.wild = FALSE
    BY <2>5 DEF FoundJoined, JoinAcc
  <2>7. Len(file) \in Nat /\ k \in Nat
    BY FileType DEF JInv, Inv
  <2>8. k = 1 => joined.used \subseteq 0 .. pos
    BY <2>4, <2>6, <2>7 DEF Ids
  <2>9. k > 1 \/ c.to \notin AttNames
    BY <2>1, <2>3, <2>6, <2>7, <2>8
  <2> QED BY <2>1, <2>9
<1> QED BY <1>1, <1>2, <1>3, <1>4, <1>5, <1>6, SelectSteps

(* A select ends the process only for one of the causes.                   *)
THEOREM CrashAlwaysHasCause == JSpec => []CrashNeedsCause
<1>1. JInit => CrashNeedsCause
  BY DEF JInit, CrashNeedsCause
<1>2. JInv /\ CrashNeedsCause /\ [JNext]_all => CrashNeedsCause'
  <2> SUFFICES ASSUME JInv, CrashNeedsCause, [JNext]_all,
                      ~up', k' > 0, ~heap', Len(file') <= CharRange, Closed', ~Deleting'
               PROVE  /\ req'.statements[k'].type = SELECT_CONDITION
                      /\ LET c == SharedAtt(req'.statements[k'].conditions)
                         IN  c.option = reference /\ (k' > 1 \/ c.to \notin AttNames)
    BY DEF CrashNeedsCause
  <2>1. CASE UNCHANGED all
    <3>1. file' = file /\ up' = up /\ k' = k /\ req' = req /\ heap' = heap
      BY <2>1 DEF all, vars
    <3>2. Closed' = Closed /\ Deleting' = Deleting
      BY <3>1, SameFile DEF Deleting
    <3> QED BY <3>1, <3>2 DEF CrashNeedsCause
  <2>2. CASE JNext
    <3>1. UNCHANGED <<file, req, k, heap>>
      BY <2>2, CrashLeaves
    <3>2. Closed' = Closed /\ Deleting' = Deleting
      BY <3>1, SameFile DEF Deleting
    <3> QED BY <2>2, <3>1, <3>2, CrashStep
  <2> QED BY <2>1, <2>2
<1> QED BY <1>1, <1>2, AlwaysJInv, PTL DEF JSpec

(* A has(ref) that begins a pipeline marks no id outside of ref_used, for  *)
(* any name, values and file: what it marks are ids of nodes of the file,  *)
(* and the scan for the name has left the file positioned behind them.     *)
THEOREM FirstReferenceAlwaysStaysInside == JSpec => FirstReferenceStaysInside
<1>1. JInv /\ [JNext]_all => [heap' /\ ~heap => k > 1]_all
  <2> SUFFICES ASSUME JInv, JNext, heap', ~heap
               PROVE  k > 1
    BY DEF all
  <2>1. FilterByReference
    BY DEF JNext, ExecuteAddNode, ExecuteAddEdge, ExecuteDeleteEdge, ExecuteNothing, Done,
           Select, Filter, Out, DeleteOne, DeleteEnd, Respond, HeapFails, StopServer,
           Restart, NoRequest
  <2> DEFINE c == SharedAtt(req.statements[k].conditions)
  <2>2. up /\ k > 0 /\ k \in Nat /\ req.statements[k].type = SELECT_CONDITION
    BY <2>1 DEF FilterByReference, Running, JInv
  <2>3. PICK junk \in Buffers, b \in BOOLEAN,
             stray \in SUBSET ({page.id : page \in Buffers} \ (0 .. pos)) :
          ~(Joined(g, c, junk, stray, b).used \subseteq 0 .. pos)
    BY <2>1 DEF FilterByReference
  <2> DEFINE joined == Joined(g, c, junk, stray, b)
  <2>4. CASE k = 1
    <3>1. ~Deleting
      BY <2>2, <2>4 DEF Deleting, SELECT_CONDITION, DELETE
    <3>2. GoodFile(file) /\ g \in Seq(Current) /\ pos = Len(file)
      BY <2>2, <2>4, <3>1, Sources
    <3>3. junk \in Buffer
      BY <3>2, JunkType
    <3>4. joined \in FoundJoined(c)
      <4> HIDE DEF c
      <4> QED BY <2>2, <3>2, <3>3, JoinedNodes
    <3>5. Ids(file) \subseteq 0 .. pos
      BY <3>2, FileType DEF Ids
    <3> HIDE DEF joined
    <3>6. joined.used \subseteq 0 .. pos
      BY <3>4, <3>5 DEF FoundJoined
    <3> QED BY <2>3, <3>6 DEF joined
  <2> QED BY <2>2, <2>4
<1> QED BY <1>1, AlwaysJInv, PTL DEF JSpec, FirstReferenceStaysInside

(* What the delete statement that runs, and the one that has run before    *)
(* the statement to run next, have removed.                                *)
Removed ==
  up /\ k > 0 /\ Len(file) <= CharRange =>
    /\ Running(DELETE) => \A j \in 1 .. i - 1 : g[j].id \notin LiveIds(file)
    /\ k > 1 /\ req.statements[k - 1].type = DELETE =>
         \A j \in DOMAIN g : g[j].id \notin LiveIds(file)

(* Deleting a node leaves the file as long as it was.                      *)
LEMMA DeleteKeepsLength ==
  ASSUME JInv, DeleteOne
  PROVE  Len(file') = Len(file)
<1>1. OnNode(g[i].id, delete_node_page(file, g[i].id)) /\ GoodFile(file)
  BY DEF DeleteOne, DeleteNode, JInv, Inv
<1> QED BY <1>1, DeleteNodePage DEF OnNode, Writes, Flush, Written, Near

(* Deleting one node of a file that a signed char can number removes it,   *)
(* if it is there, and no other node.                                      *)
LEMMA DeleteOneStep ==
  ASSUME JInv, DeleteOne, Len(file) <= CharRange
  PROVE  /\ i \in DOMAIN g /\ UNCHANGED <<up, k, g, req>> /\ i' = i + 1
         /\ Len(file') = Len(file)
         /\ LiveIds(file') = LiveIds(file) \ {g[i].id}
<1> DEFINE id == g[i].id
<1>1. /\ i <= Len(g) /\ UNCHANGED <<up, k, g, req>> /\ i' = i + 1
      /\ OnNode(id, delete_node_page(file, id))
  BY DEF DeleteOne, DeleteNode, OnNode, Writes, Flush
<1>2. i \in DOMAIN g
  BY <1>1, CarriedNodes DEF JInv
<1>3. GoodFile(file) /\ Len(file) \in Nat
  BY FileType DEF JInv, Inv
<1> HIDE DEF id
<1>4. CASE Found(file, id)
  <2>1. file' = delete_node_page(file, id)
    BY <1>1, <1>4 DEF OnNode, Writes
  <2>2. LiveIds(file') = LiveIds(file) \ {get_node_page(file, id).id}
    BY <1>3, <1>4, <2>1, DeleteLive
  <2>3. get_node_page(file, id).id = id
    BY <1>3, <1>4, LookupPage
  <2>4. Len(file') = Len(file)
    BY <1>3, <1>4, <2>1, DeleteNodePage DEF Written, Near
  <2> QED BY <1>1, <1>2, <2>2, <2>3, <2>4 DEF id
<1>5. CASE ~Found(file, id)
  <2>1. file' = file
    BY <1>1, <1>5 DEF OnNode, Flush
  <2>2. id \notin LiveIds(file)
    <3> SUFFICES ASSUME id \in LiveIds(file)
                 PROVE  FALSE
      OBVIOUS
    <3>1. id \in Nat /\ id < Len(file)
      BY <1>3 DEF LiveIds, Ids
    <3>2. id < CharRange
      BY <1>3, <3>1, CharRangeAssumption
    <3> QED BY <1>3, <1>5, <3>2, LowLookup
  <2> QED BY <1>1, <1>2, <2>1, <2>2 DEF id
<1> QED BY <1>4, <1>5

(* Every step keeps what has been removed out of the file.                 *)
LEMMA RemovedInv ==
  ASSUME JInv, Removed, [JNext]_all
  PROVE  Removed'
<1> USE DEF SELECT_CONDITION, OUT, DELETE
<1> SUFFICES ASSUME up', k' > 0, Len(file') <= CharRange
             PROVE  /\ Running(DELETE)' => \A j \in 1 .. i' - 1 : g'[j].id \notin LiveIds(file')
                    /\ k' > 1 /\ req'.statements[k' - 1].type = DELETE =>
                         \A j \in DOMAIN g' : g'[j].id \notin LiveIds(file')
  BY DEF Removed
<1>1. CASE UNCHANGED all
  <2>1. /\ file' = file /\ up' = up /\ k' = k /\ req' = req /\ g' = g /\ i' = i
        /\ LiveIds(file') = LiveIds(file)
    BY <1>1 DEF all, vars, LiveIds, Ids
  <2> QED BY <2>1 DEF Removed, Running
<1>2. CASE \E name, s : Select(name, s)
  BY <1>2 DEF Select
<1>3. CASE Filter \/ FilterByReference \/ Out
  <2>1. ASSUME Filter
        PROVE  k' = k + 1 /\ i' = 1 /\ req' = req /\ req.statements[k].type # DELETE
    BY <2>1 DEF Filter, Running, NextStatement, Segfault
  <2>2. ASSUME FilterByReference
        PROVE  k' = k + 1 /\ i' = 1 /\ req' = req /\ req.statements[k].type # DELETE
    BY <2>2 DEF FilterByReference, Running, NextStatement, Segfault
  <2>3. ASSUME Out
        PROVE  k' = k + 1 /\ i' = 1 /\ req' = req /\ req.statements[k].type # DELETE
    BY <2>3 DEF Out, Running, NextStatement, Segfault
  <2>4. /\ k' = k + 1 /\ i' = 1 /\ req' = req /\ req.statements[k].type # DELETE
    BY <1>3, <2>1, <2>2, <2>3
  <2>5. k \in Nat
    BY DEF JInv
  <2> QED BY <2>4, <2>5
<1>6. ~HeapFails
  BY DEF HeapFails, Kill, Segfault
<1>4. CASE DeleteEnd
  <2>1. /\ k' = k + 1 /\ i' = 1 /\ req' = req /\ g' = g /\ i > Len(g)
        /\ Running(DELETE) /\ file' = file
    BY <1>4 DEF DeleteEnd, NextStatement, vars
  <2>2. up /\ k > 0
    BY <2>1 DEF Running
  <2>3. \A j \in DOMAIN g : j \in 1 .. i - 1
    BY <2>1, CarriedNodes DEF JInv
  <2>4. \A j \in DOMAIN g : g[j].id \notin LiveIds(file)
    BY <2>1, <2>2, <2>3 DEF Removed
  <2>5. LiveIds(file') = LiveIds(file)
    BY <2>1 DEF LiveIds, Ids
  <2> QED BY <2>1, <2>4, <2>5
<1>5. CASE DeleteOne
  <2>1. up /\ k > 0 /\ Running(DELETE)
    BY <1>5 DEF DeleteOne, Running
  <2>2. Len(file') = Len(file)
    BY <1>5, DeleteKeepsLength
  <2>3. /\ i \in DOMAIN g /\ UNCHANGED <<up, k, g, req>> /\ i' = i + 1
        /\ LiveIds(file') = LiveIds(file) \ {g[i].id}
    BY <1>5, <2>2, DeleteOneStep
  <2>4. \A j \in 1 .. i - 1 : g[j].id \notin LiveIds(file)
    BY <2>1, <2>2 DEF Removed
  <2>5. \A j \in 1 .. i' - 1 : j \in 1 .. i - 1 \/ j = i
    BY <2>3, CarriedNodes
  <2>6. \A j \in 1 .. i' - 1 : g[j].id \notin LiveIds(file')
    BY <2>3, <2>4, <2>5
  <2>7. k > 1 /\ req.statements[k - 1].type = DELETE =>
          \A j \in DOMAIN g : g[j].id \notin LiveIds(file)
    BY <2>1, <2>2 DEF Removed
  <2> QED BY <2>3, <2>6, <2>7
<1> QED BY <1>1, <1>2, <1>3, <1>4, <1>5, <1>6, SelectSteps

(* A finished delete statement leaves no node of its selection, also when  *)
(* the selection names a node more than once.                              *)
THEOREM DeleteAlwaysRemovesSelection == JSpec => []DeleteRemovesSelection
<1>1. JInit => Removed
  BY DEF JInit, Removed
<1>2. JInv /\ Removed /\ [JNext]_all => Removed'
  BY RemovedInv
<1>3. JInv /\ Removed => DeleteRemovesSelection
  <2>1. \A id : IsLive(file, id) => id \in LiveIds(file)
    BY DEF IsLive, LiveIds
  <2>2. JInv => (k > 1 => k > 0)
    BY DEF JInv
  <2> QED BY <2>1, <2>2 DEF Removed, DeleteRemovesSelection
<1> QED BY <1>1, <1>2, <1>3, AlwaysJInv, PTL DEF JSpec

(* A request that adds a node or an edge, or deletes an edge, keeps every  *)
(* node; what it says in its reply is so.                                  *)
LEMMA AddNodeStep ==
  ASSUME JInv, NEW n \in NodeInputs, ExecuteAddNode(n)
  PROVE  \E p : /\ p \notin LiveIds(file)
                /\ LiveIds(file') = LiveIds(file) \cup {p}
                /\ page_to_node(file'[p + 1]) =
                     [id |-> p, name |-> n.name, att |-> n.att, edges |-> << >>]
<1> DEFINE m == [n EXCEPT !.att = Reverse(n.att)]
<1>1. /\ n.name \in NodeNames /\ n.edges = << >>
      /\ m.name = n.name /\ m.att = Reverse(n.att) /\ m.edges = << >>
  BY DEF NodeInputs
<1>2. Writable(m)
  BY ReversedInput, InputTypes
<1>3. n.att \in Seq(Attribute)
  BY InputTypes DEF Writable
<1>4. GoodFile(file) /\ file' = create_node_page(file, m)
  BY DEF ExecuteAddNode, AddNode, JInv, Inv
<1> HIDE DEF m
<1>5. Created(file, file', m)
  BY <1>2, <1>4, CreateNode
<1>6. PICK p : /\ p \notin LiveIds(file)
               /\ LiveIds(file') = LiveIds(file) \cup {p}
               /\ file'[p + 1] = [type |-> start_node, id |-> p, name |-> m.name,
                                  att |-> m.att, edges |-> m.edges]
  BY <1>5 DEF Created
<1>7. page_to_node(file'[p + 1]) =
        [id |-> p, name |-> m.name, att |-> Reverse(m.att), edges |-> Reverse(m.edges)]
  BY <1>6 DEF page_to_node
<1>8. Reverse(m.att) = n.att /\ Reverse(m.edges) = << >>
  <2>1. Reverse(Reverse(n.att)) = n.att
    BY <1>3, ReverseElements
  <2>2. Reverse(<< >>) = << >>
    <3>1. Reverse(<< >>) \in Seq(Attribute) /\ Len(Reverse(<< >>)) = 0
      BY EmptySeq, ReverseType, ReverseElements
    <3> QED BY <3>1, EmptySeq
  <2> QED BY <1>1, <2>1, <2>2
<1> QED BY <1>1, <1>6, <1>7, <1>8

(* The nodes that each step of the process keeps.                          *)
LEMMA KeepsLive ==
  ASSUME JInv, JNext, up', Len(file) <= CharRange, ~DeleteOne
  PROVE  LiveIds(file) \subseteq LiveIds(file')
<1>1. GoodFile(file) /\ (up \/ file = disk)
  BY DEF JInv, Inv
<1>2. ASSUME file' = file
      PROVE  LiveIds(file) \subseteq LiveIds(file')
  BY <1>2 DEF LiveIds, Ids
<1>3. ASSUME NEW n \in NodeInputs, ExecuteAddNode(n)
      PROVE  LiveIds(file) \subseteq LiveIds(file')
  BY <1>3, AddNodeStep
<1>4. ASSUME NEW e \in EdgeInputs, NEW id \in NodeIds, ExecuteAddEdge(e.name, id, e.id)
      PROVE  LiveIds(file) \subseteq LiveIds(file')
  <2> DEFINE edge == [name |-> e.name, id |-> e.id]
  <2>1. edge \in Edge
    BY InputTypes DEF EdgeInputs, Edge
  <2>2. OnNode(id, add_edge_page(file, edge, id))
    BY <1>4 DEF ExecuteAddEdge, AddEdge
  <2> HIDE DEF edge
  <2>3. CASE Found(file, id)
    BY <1>1, <2>1, <2>2, <2>3, EdgePagesLive DEF OnNode, Writes
  <2>4. CASE ~Found(file, id)
    BY <1>2, <2>2, <2>4 DEF OnNode, Flush
  <2> QED BY <2>3, <2>4
<1>5. ASSUME NEW id1 \in NodeIds, NEW id2 \in NodeIds, ExecuteDeleteEdge(id1, id2)
      PROVE  LiveIds(file) \subseteq LiveIds(file')
  <2>1. OnNode(id1, delete_edge_page(file, id2, id1))
    BY <1>5 DEF ExecuteDeleteEdge, DeleteEdge, Segfault
  <2>2. CASE Found(file, id1)
    BY <1>1, <2>1, <2>2, EdgePagesLive DEF OnNode, Writes
  <2>3. CASE ~Found(file, id1)
    BY <1>2, <2>1, <2>3 DEF OnNode, Flush
  <2> QED BY <2>2, <2>3
<1>6. CASE ExecuteNothing \/ (\E name, s : Select(name, s)) \/ DeleteEnd \/ Respond
  BY <1>2, <1>6 DEF ExecuteNothing, Select, DeleteEnd, Respond, Flush, vars
<1>7. CASE Filter \/ FilterByReference \/ Out
  BY <1>2, <1>7 DEF Filter, FilterByReference, Out, Flush, Segfault
<1>8. CASE StopServer \/ HeapFails
  BY <1>8 DEF StopServer, HeapFails, Kill, Exit, Segfault
<1>9. CASE Restart
  BY <1>1, <1>2, <1>9 DEF Restart, start_database
<1> QED BY <1>3, <1>4, <1>5, <1>6, <1>7, <1>8, <1>9 DEF JNext

(* As long as the process lives, a node ends only by a delete statement    *)
(* that has selected it.                                                   *)
THEOREM OnlySelectedAreDeleted == JSpec => DeletesOnlySelected
<1>1. JInv /\ [JNext]_all =>
        [up' /\ Len(file) <= CharRange =>
           \A p \in LiveIds(file) \ LiveIds(file') :
              Running(DELETE) /\ \E j \in DOMAIN g : g[j].id = p]_all
  <2> SUFFICES ASSUME JInv, JNext, up', Len(file) <= CharRange,
                      NEW p \in LiveIds(file) \ LiveIds(file')
               PROVE  Running(DELETE) /\ \E j \in DOMAIN g : g[j].id = p
    BY DEF all
  <2>1. CASE DeleteOne
    <3>1. i \in DOMAIN g /\ LiveIds(file') = LiveIds(file) \ {g[i].id}
      BY <2>1, DeleteOneStep
    <3>2. Running(DELETE)
      BY <2>1 DEF DeleteOne
    <3> QED BY <3>1, <3>2
  <2>2. CASE ~DeleteOne
    BY <2>2, KeepsLive
  <2> QED BY <2>1, <2>2
<1> QED BY <1>1, AlwaysJInv, PTL DEF JSpec, DeletesOnlySelected

-----------------------------------------------------------------------------
(* What a reply says is so.                                                *)

(* A node of a small file is found by its id.                              *)
LEMMA LiveIsFound ==
  ASSUME NEW f, GoodFile(f), Len(f) <= CharRange, NEW id \in LiveIds(f)
  PROVE  Found(f, id)
<1>1. Len(f) \in Nat /\ id \in Nat /\ id < Len(f)
  BY FileType DEF LiveIds, Ids
<1>2. id < CharRange
  BY <1>1, CharRangeAssumption
<1> QED BY <1>2, LowLookup

(* The reply to a request that is done is its text; a process that has     *)
(* ended replies nothing.                                                  *)
LEMMA DoneReply ==
  ASSUME NEW r, NEW text, Done(r, text), up'
  PROVE  req' = r /\ reply'.text = text
BY DEF Done, Text

(* The texts of the replies; a select carries none until it is done.       *)
LEMMA ReplyTexts ==
  NoReply.text = "" /\ (\A t : Text(t).text = t) /\ \A s : Nodes(s).text = "nodes"
BY Zenon DEF NoReply, Text, Nodes

(* The reply to a request to add an edge holds.                            *)
LEMMA AddEdgeReply ==
  ASSUME JInv, NEW e \in EdgeInputs, NEW id \in NodeIds, ExecuteAddEdge(e.name, id, e.id)
  PROVE  RepliesHold'
<1> DEFINE edge == [name |-> e.name, id |-> e.id]
           r == [oper |-> "add_edge", name |-> e.name, id1 |-> id, id2 |-> e.id]
<1>1. edge \in Edge
  BY InputTypes DEF EdgeInputs, Edge
<1>2. OnNode(id, add_edge_page(file, edge, id)) /\ up'
  BY DEF ExecuteAddEdge, AddEdge, OnNode, Writes, Flush, Ready
<1>3. req' = r /\ reply'.text = "Add edge"
  BY <1>2, DoneReply DEF ExecuteAddEdge
<1>4. r.id1 = id /\ [name |-> r.name, id |-> r.id2] = edge
  OBVIOUS
<1> HIDE DEF edge, r
<1>5. GoodFile(file)
  BY DEF JInv, Inv
<1>6. ASSUME id \in LiveIds(file'), Len(file') <= CharRange
      PROVE  edge \in Range(page_to_node(file'[id + 1]).edges)
  <2>1. CASE Found(file, id)
    <3>1. file' = add_edge_page(file, edge, id)
      BY <1>2, <2>1 DEF OnNode, Writes
    <3>2. Len(file') = Len(file)
      BY <1>1, <1>5, <2>1, <3>1, EdgePages DEF Written, Near
    <3> QED BY <1>1, <1>5, <1>6, <2>1, <3>1, <3>2, EdgePagesLive
  <2>2. CASE ~Found(file, id)
    <3>1. file' = file
      BY <1>2, <2>2 DEF OnNode, Flush
    <3> QED BY <1>5, <1>6, <2>2, <3>1, LiveIsFound
  <2> QED BY <2>1, <2>2
<1> QED BY <1>3, <1>4, <1>6 DEF RepliesHold, NodeAt

(* The reply to a request to delete an edge holds.                         *)
LEMMA DeleteEdgeReply ==
  ASSUME JInv, NEW id1 \in NodeIds, NEW id2 \in NodeIds, ExecuteDeleteEdge(id1, id2)
  PROVE  RepliesHold'
<1> DEFINE r == [oper |-> "delete_edge", id1 |-> id1, id2 |-> id2]
<1>1. CASE ~up'
  <2>1. reply' = NoReply
    BY <1>1 DEF ExecuteDeleteEdge, Done
  <2> QED BY <2>1 DEF RepliesHold, NoReply
<1>2. CASE up'
  <2>1. OnNode(id1, delete_edge_page(file, id2, id1))
    BY <1>2 DEF ExecuteDeleteEdge, DeleteEdge, Segfault
  <2>2. req' = r /\ reply'.text = "Delete edge"
    BY <1>2, DoneReply DEF ExecuteDeleteEdge
  <2>3. r.id1 = id1 /\ r.id2 = id2
    OBVIOUS
  <2> HIDE DEF r
  <2>4. GoodFile(file)
    BY DEF JInv, Inv
  <2>5. ASSUME id1 \in LiveIds(file'), Len(file') <= CharRange
        PROVE  \A e \in Range(page_to_node(file'[id1 + 1]).edges) : e.id # id2
    <3>1. CASE Found(file, id1)
      <4>1. file' = delete_edge_page(file, id2, id1)
        BY <2>1, <3>1 DEF OnNode, Writes
      <4>2. Len(file') = Len(file)
        BY <2>4, <3>1, <4>1, EdgePages DEF Written, Near
      <4> QED BY <2>4, <2>5, <3>1, <4>1, <4>2, EdgePagesLive
    <3>2. CASE ~Found(file, id1)
      <4>1. file' = file
        BY <2>1, <3>2 DEF OnNode, Flush
      <4> QED BY <2>4, <2>5, <3>2, <4>1, LiveIsFound
    <3> QED BY <3>1, <3>2
  <2> QED BY <2>2, <2>3, <2>5 DEF RepliesHold, NodeAt
<1> QED BY <1>1, <1>2

(* The reply to a request to add a node holds.                             *)
LEMMA AddNodeReply ==
  ASSUME JInv, NEW n \in NodeInputs, ExecuteAddNode(n)
  PROVE  RepliesHold'
<1>1. up'
  BY DEF ExecuteAddNode, AddNode
<1>2. req' = [oper |-> "add_node", node |-> n] /\ reply'.text = "Add node"
  BY <1>1, DoneReply DEF ExecuteAddNode
<1>3. req'.node = n
  BY <1>2
<1>4. \E p \in LiveIds(file') :
         page_to_node(file'[p + 1]) =
           [id |-> p, name |-> n.name, att |-> n.att, edges |-> << >>]
  BY AddNodeStep
<1> QED BY <1>2, <1>3, <1>4 DEF RepliesHold, NodeAt

(* What a reply says of the database is so when it is sent, and stays so   *)
(* until the next request.                                                 *)
THEOREM RepliesAlwaysHold == JSpec => []RepliesHold
<1>1. JInit => RepliesHold
  BY ReplyTexts DEF JInit, RepliesHold
<1>2. JInv /\ RepliesHold /\ [JNext]_all => RepliesHold'
  <2> SUFFICES ASSUME JInv, RepliesHold, [JNext]_all
               PROVE  RepliesHold'
    OBVIOUS
  <2>1. CASE UNCHANGED all
    BY <2>1 DEF all, vars, RepliesHold, NodeAt, LiveIds, Ids
  <2>2. ASSUME reply'.text \in {"", "nodes"}
        PROVE  RepliesHold'
    BY <2>2 DEF RepliesHold
  <2>3. CASE ExecuteNothing \/ (\E name, s : Select(name, s)) \/ Respond
    <3>1. \/ reply' = NoReply
          \/ reply' = Text("")
          \/ reply' = Nodes(g)
      BY <2>3 DEF ExecuteNothing, Select, Respond, Done
    <3>2. reply'.text \in {"", "nodes"}
      BY <3>1, ReplyTexts
    <3> QED BY <2>2, <3>2
  <2>4. CASE Filter \/ FilterByReference \/ Out \/ DeleteOne \/ DeleteEnd
    <3>1. k > 0 /\ reply' = reply
      BY <2>4 DEF Filter, FilterByReference, Out, DeleteOne, DeleteEnd, Running
    <3>2. reply'.text = ""
      BY <3>1, ReplyTexts DEF JInv, Selecting
    <3> QED BY <2>2, <3>2
  <2>5. CASE StopServer \/ Restart \/ HeapFails
    <3>1. reply'.text = ""
      BY <2>5, ReplyTexts DEF StopServer, Restart, NoRequest, HeapFails
    <3> QED BY <2>2, <3>1
  <2> QED BY <2>1, <2>3, <2>4, <2>5, AddNodeReply, AddEdgeReply, DeleteEdgeReply DEF JNext
<1> QED BY <1>1, <1>2, AlwaysJInv, PTL DEF JSpec


-----------------------------------------------------------------------------
(* A has() with one comparison.                                            *)

(* The numbers in the file of the pages with these ids, and the nodes in   *)
(* pages with these numbers, in order.                                     *)
Numbered(S) == {p + 1 : p \in S}
Listing(K)  == [j \in 1 .. Cardinality(K) |-> page_to_node(file[Kth(K, j)])]

(* What Filter makes of a list of nodes. *)
Filtering(nodes, conditions) ==
  Pick([j \in DOMAIN nodes |-> NodeAt(nodes[j].id)],
       {j \in DOMAIN nodes :
          node_filters([h \in DOMAIN nodes |-> NodeAt(nodes[h].id)][j], conditions)})

(* The nodes of a set of pages are listed by page number. *)
LEMMA NodesAtListing ==
  ASSUME NEW S
  PROVE  NodesAt(S) = Listing(Numbered(S))
<1> DEFINE K == Numbered(S)
           pages == Pick(file, K)
           n == Cardinality(K)
<1>1. NodesAt(S) = [j \in DOMAIN pages |-> page_to_node(pages[j])]
  BY DEF NodesAt, Numbered
<1>2. pages = [j \in 1 .. n |-> file[Kth(K, j)]]
  BY DEF Pick, Kth, Rank
<1> HIDE DEF pages, n, K
<1>3. DOMAIN pages = 1 .. n /\ \A j \in 1 .. n : pages[j] = file[Kth(K, j)]
  BY <1>2
<1>4. NodesAt(S) = [j \in 1 .. n |-> page_to_node(file[Kth(K, j)])]
  BY <1>1, <1>3
<1> QED BY <1>4 DEF Listing, n, K

(* Filtering the nodes of a set of live pages leaves those of the pages    *)
(* whose nodes pass, each in its place: the ids of the nodes lead back to  *)
(* their own pages.                                                        *)
LEMMA FilteringNodes ==
  ASSUME GoodFile(file), NEW S \in SUBSET LiveIds(file), NEW conditions
  PROVE  Filtering(NodesAt(S), conditions) =
           NodesAt({p \in S : node_filters(NodeAt(p), conditions)})
<1> DEFINE K == Numbered(S)
           n == Cardinality(K)
           nodes == NodesAt(S)
           now == [j \in DOMAIN nodes |-> NodeAt(nodes[j].id)]
           T == {j \in DOMAIN nodes : node_filters(now[j], conditions)}
           Passed == {p \in S : node_filters(NodeAt(p), conditions)}
<1>1. Filtering(nodes, conditions) = Pick(now, T)
  BY DEF Filtering
<1>2. /\ Len(file) \in Nat /\ K \in SUBSET (1 .. Len(file))
      /\ \A j \in K : j \in Int /\ j - 1 \in S /\ (j - 1) + 1 = j
  BY FileType DEF Numbered, LiveIds
<1>3. /\ n \in Nat
      /\ \A j \in 1 .. n : Kth(K, j) \in K
      /\ \A q \in K : \E j \in 1 .. n : Kth(K, j) = q
  BY <1>2, Ranks, KthRank
<1>4. nodes = Listing(K)
  BY NodesAtListing
<1> HIDE DEF K, n, nodes
<1>5. /\ DOMAIN nodes = 1 .. n
      /\ \A j \in 1 .. n : nodes[j] = page_to_node(file[Kth(K, j)])
  BY <1>4 DEF Listing, n
<1>6. \A j \in 1 .. n : NodeAt(nodes[j].id) = page_to_node(file[Kth(K, j)])
                        /\ NodeAt(Kth(K, j) - 1) = page_to_node(file[Kth(K, j)])
  <2> SUFFICES ASSUME NEW j \in 1 .. n
               PROVE  NodeAt(nodes[j].id) = page_to_node(file[Kth(K, j)])
                      /\ NodeAt(Kth(K, j) - 1) = page_to_node(file[Kth(K, j)])
    OBVIOUS
  <2> DEFINE q == Kth(K, j)
  <2>1. q \in Int /\ q - 1 \in S /\ (q - 1) + 1 = q
    BY <1>2, <1>3
  <2> HIDE DEF q
  <2>2. NodeAt(q - 1) = page_to_node(file[q])
    BY <2>1 DEF NodeAt
  <2>3. NodeAt(q - 1).id = q - 1
    BY <2>1, NodeAtType DEF LiveIds
  <2>4. nodes[j] = page_to_node(file[q])
    BY <1>5 DEF q
  <2>5. nodes[j].id = q - 1
    BY <2>2, <2>3, <2>4
  <2> QED BY <2>2, <2>5 DEF q
<1>7. /\ now = [j \in 1 .. n |-> page_to_node(file[Kth(K, j)])]
      /\ T = {j \in 1 .. n : node_filters(NodeAt(Kth(K, j) - 1), conditions)}
  BY <1>5, <1>6
<1> HIDE DEF now, T
<1>8. T \in SUBSET (1 .. n)
  BY <1>7
<1>9. Numbered(Passed) = Chosen(K, T)
  <2>1. ASSUME NEW p \in S, node_filters(NodeAt(p), conditions)
        PROVE  p + 1 \in Chosen(K, T)
    <3>1. p + 1 \in K /\ (p + 1) - 1 = p
      <4>1. p \in Int
        BY <1>2 DEF LiveIds, Ids
      <4> QED BY <4>1 DEF K, Numbered
    <3>2. PICK j \in 1 .. n : Kth(K, j) = p + 1
      BY <1>3, <3>1
    <3>3. j \in T
      BY <1>7, <2>1, <3>1, <3>2
    <3> QED BY <3>2, <3>3 DEF Chosen
  <2>2. ASSUME NEW j \in T
        PROVE  Kth(K, j) \in Numbered(Passed)
    <3>1. j \in 1 .. n /\ node_filters(NodeAt(Kth(K, j) - 1), conditions)
      BY <1>7
    <3>2. Kth(K, j) - 1 \in Passed /\ (Kth(K, j) - 1) + 1 = Kth(K, j)
      BY <1>2, <1>3, <3>1
    <3> QED BY <3>2 DEF Numbered
  <2> QED BY <2>1, <2>2 DEF Numbered, Chosen
<1> HIDE DEF Passed
<1>0. InOrder(K, T)
  BY <1>2, <1>8, KthKth DEF n
<1>10. /\ Cardinality(Chosen(K, T)) = Cardinality(T)
       /\ \A m \in 1 .. Cardinality(T) :
             Kth(T, m) \in T /\ Kth(Chosen(K, T), m) = Kth(K, Kth(T, m))
  BY <1>0 DEF InOrder
<1>11. Pick(now, T) = [m \in 1 .. Cardinality(T) |-> now[Kth(T, m)]]
  BY DEF Pick, Kth, Rank
<1>12. Pick(now, T) =
         [m \in 1 .. Cardinality(Chosen(K, T)) |-> page_to_node(file[Kth(Chosen(K, T), m)])]
  <2>1. \A m \in 1 .. Cardinality(T) :
           now[Kth(T, m)] = page_to_node(file[Kth(Chosen(K, T), m)])
    BY <1>7, <1>8, <1>10
  <2> QED BY <1>10, <1>11, <2>1
<1>13. Pick(now, T) = Listing(Numbered(Passed))
  BY <1>9, <1>12 DEF Listing
<1>14. NodesAt(Passed) = Listing(Numbered(Passed))
  BY NodesAtListing
<1> QED BY <1>1, <1>13, <1>14 DEF nodes, Passed

(* What find_by_name selects. *)
ByName(name) == {p \in LiveIds(file) : name \in {AnyName, file[p + 1].name}}

(* What HasIsExact says of one condition. *)
Passes(p, c) ==
  /\ Has(NodeAt(p), c.name)
  /\ Att(NodeAt(p), c.name).type = c.val.type
  /\ <<Att(NodeAt(p), c.name).v, c.val.v>> \in Relation(c.option)

(* An attribute that is found is one of the node's. *)
LEMMA AttType ==
  ASSUME NEW n \in ReadNode, NEW name, Has(n, name)
  PROVE  Att(n, name) \in Values
<1> DEFINE S == Named(n, name)
<1>1. n.att \in Seq(Attribute) /\ S # {}
  BY DEF ReadNode, Has
<1>2. /\ Len(n.att) \in Nat /\ DOMAIN n.att = 1 .. Len(n.att)
      /\ \A j \in DOMAIN n.att : n.att[j] \in Attribute
  BY <1>1, LenProperties, ElementOfSeq
<1>3. S \in SUBSET Nat /\ S \subseteq DOMAIN n.att
  BY <1>2 DEF Named
<1>4. Min(S) \in S
  BY <1>1, <1>3, MinProperty
<1> HIDE DEF S
<1>5. n.att[Min(S)].val \in Values
  BY <1>2, <1>3, <1>4 DEF Attribute
<1> QED BY <1>5 DEF Att, S

(* The condition is not one on the order of strings. *)
Unordered(c) == c.val.type = string => c.option \in {equals, not_equals, like}

(* Comparing two values with Test is comparing them as numbers; of strings *)
(* only whether they are the same.                                         *)
LEMMA TestIsRelation ==
  ASSUME NEW x \in Values, NEW y \in Values, x.type = y.type,
         NEW sel \in (equals .. like) \ {reference},
         y.type = string => sel \in {equals, not_equals, like}
  PROVE  Test(sel, x, y) <=> <<x.v, y.v>> \in Relation(sel)
<1> USE DEF equals, bigger, bigger_eq, smaller, smaller_eq, not_equals, reference, like
<1> DEFINE v == x.v
           w == y.v
           values == {u.v : u \in Values}
<1>1. v \in Int /\ w \in Int
  BY ValuesAssumption
<1>2. v \in values /\ w \in values
  OBVIOUS
<1>3. sel \in {0, 1, 2, 3, 4, 5, 7}
  OBVIOUS
<1>4. \A a, b \in values : <<a, b>> \in Relation(sel) <=>
         CASE sel = 0 -> a = b
           [] sel = 1 -> a > b
           [] sel = 2 -> a >= b
           [] sel = 3 -> a < b
           [] sel = 4 -> a <= b
           [] sel = 5 -> a # b
           [] OTHER   -> TRUE
  BY DEF Relation
<1> HIDE DEF values
<1>5. /\ sel = 0 => (Test(sel, x, y) <=> v = w)
      /\ sel = 1 => (Test(sel, x, y) <=> Above(x, y))
      /\ sel = 2 => (Test(sel, x, y) <=> Above(x, y) \/ v = w)
      /\ sel = 3 => (Test(sel, x, y) <=> Above(y, x))
      /\ sel = 4 => (Test(sel, x, y) <=> Above(y, x) \/ v = w)
      /\ sel = 5 => (Test(sel, x, y) <=> v # w)
      /\ sel = 7 => Test(sel, x, y)
  <2>1. ASSUME sel = 0 PROVE Test(sel, x, y) <=> v = w
    BY <2>1 DEF Test
  <2>2. ASSUME sel = 1 PROVE Test(sel, x, y) <=> Above(x, y)
    BY <2>2 DEF Test
  <2>3. ASSUME sel = 2 PROVE Test(sel, x, y) <=> Above(x, y) \/ v = w
    BY <2>3 DEF Test
  <2>4. ASSUME sel = 3 PROVE Test(sel, x, y) <=> Above(y, x)
    BY <2>4 DEF Test
  <2>5. ASSUME sel = 4 PROVE Test(sel, x, y) <=> Above(y, x) \/ v = w
    BY <2>5 DEF Test
  <2>6. ASSUME sel = 5 PROVE Test(sel, x, y) <=> v # w
    BY <2>6 DEF Test
  <2>7. ASSUME sel = 7 PROVE Test(sel, x, y)
    BY <2>7 DEF Test
  <2> QED BY <2>1, <2>2, <2>3, <2>4, <2>5, <2>6, <2>7
<1> HIDE DEF v, w
<1>6. CASE x.type = string
  <2>1. sel \in {0, 5, 7}
    BY <1>6
  <2> QED BY <1>1, <1>2, <1>4, <1>5, <2>1 DEF v, w
<1>7. CASE x.type # string
  <2>2. (Above(x, y) <=> v > w) /\ (Above(y, x) <=> w > v)
    BY <1>7 DEF Above, v, w
  <2>3. <<v, w>> = <<x.v, y.v>>
    BY DEF v, w
  <2> QED BY <1>1, <1>2, <1>3, <1>4, <1>5, <2>2, <2>3
<1> QED BY <1>6, <1>7

(* A has() with one condition passes the nodes that HasIsExact names. *)
LEMMA OneCondition ==
  ASSUME GoodFile(file), NEW conditions \in Seq(Condition), Len(conditions) = 1,
         Last(conditions).option # reference, Unordered(Last(conditions)),
         NEW p \in LiveIds(file)
  PROVE  node_filters(NodeAt(p), conditions) <=> Passes(p, Last(conditions))
<1> DEFINE c == Last(conditions)
           n == NodeAt(p)
           x == Att(n, c.name)
<1>1. conditions[1] \in Condition /\ c = conditions[1] /\ Range(conditions) = {c}
  <2>1. DOMAIN conditions = 1 .. 1 /\ 1 \in 1 .. 1
    BY LenProperties
  <2>2. conditions[1] \in Condition /\ c = conditions[1]
    BY <2>1, ElementOfSeq DEF Last
  <2> QED BY <2>1, <2>2 DEF Range
<1>2. c.option \in (equals .. like) \ {reference} /\ c.val \in Values
  BY <1>1 DEF Condition
<1>3. Selectors(conditions) = {c.option}
  BY <1>1 DEF Selectors
<1>4. n \in ReadNode
  BY NodeAtType DEF LiveIds
<1>5. node_filters(n, conditions) <=>
        /\ Has(n, c.name)
        /\ x.type = c.val.type
        /\ Test(c.option, x, c.val)
  BY <1>3 DEF node_filters, SharedAtt
<1> HIDE DEF n, c
<1>6. Has(n, c.name) /\ x.type = c.val.type =>
        (Test(c.option, x, c.val) <=> <<x.v, c.val.v>> \in Relation(c.option))
  <2>1. c.val.type = string => c.option \in {equals, not_equals, like}
    BY DEF Unordered, c
  <2> HIDE DEF x
  <2> QED BY <1>2, <1>4, <2>1, AttType, TestIsRelation DEF x
<1> QED BY <1>5, <1>6 DEF Passes, n, c

(* Before the first has() of a pipeline, the selection is that of V(name). *)
Exact ==
  /\ up /\ k = 1 /\ req.statements[1].type = SELECT_CONDITION =>
       g = find_by_name(req.name)
  /\ HasIsExact

(* The first statement, a has(), leaves what HasIsExact says. *)
LEMMA FirstFilter ==
  ASSUME JInv, Exact, Filter, k = 1,
         Len(req.statements[1].conditions) = 1,
         Last(req.statements[1].conditions).option # reference,
         Unordered(Last(req.statements[1].conditions)), up'
  PROVE  g' = NodesAt({p \in ByName(req.name) : Passes(p, Last(req.statements[1].conditions))})
<1> DEFINE conditions == req.statements[1].conditions
           S == ByName(req.name)
<1>1. /\ up /\ k > 0 /\ req.statements[1].type = SELECT_CONDITION
      /\ 1 \in DOMAIN req.statements
  BY DEF Filter, Running
<1>7. g' = Filtering(g, conditions)
  <2>1. ~Deleting
    BY <1>1 DEF Deleting, SELECT_CONDITION, DELETE
  <2>2. GoodFile(file) /\ pos \in Nat /\ g \in Seq(Carried)
    BY <1>1, <2>1, Sources, CurrentType
  <2>3. PICK junk \in Buffers :
          g' = Pick(Reads(g, junk).out,
                    {j \in DOMAIN g : node_filters(Reads(g, junk).out[j], conditions)})
    BY DEF Filter, Segfault, NextStatement
  <2>4. Reads(g, junk).out = [j \in DOMAIN g |-> NodeAt(g[j].id)]
    BY <2>2, JunkType, ReadsExact
  <2> HIDE DEF conditions
  <2> QED BY <2>3, <2>4 DEF Filtering
<1>2. GoodFile(file) /\ S \in SUBSET LiveIds(file)
  BY DEF JInv, Inv, ByName
<1>3. g = NodesAt(S)
  BY <1>1 DEF Exact, find_by_name, ByName
<1>4. conditions \in Seq(Condition)
  <2>1. req.statements \in Seq(Statement)
    BY DEF JInv, Selecting
  <2>2. req.statements[1] \in Statement
    BY <1>1, <2>1, ElementOfSeq, LenProperties
  <2> QED BY <1>1, <2>2 DEF Statement, SELECT_CONDITION, OUT, DELETE
<1> HIDE DEF conditions, S
<1>5. g' = NodesAt({p \in S : node_filters(NodeAt(p), conditions)})
  BY <1>7, <1>2, <1>3, FilteringNodes
<1>6. {p \in S : node_filters(NodeAt(p), conditions)} =
        {p \in S : Passes(p, Last(conditions))}
  BY <1>2, <1>4, OneCondition DEF conditions
<1> QED BY <1>5, <1>6 DEF conditions, S

(* Every step keeps it. *)
LEMMA ExactInv ==
  ASSUME JInv, Exact, [JNext]_all
  PROVE  Exact'
<1> USE DEF SELECT_CONDITION, OUT, DELETE
<1> DEFINE Kept == {p \in ByName(req.name) : Passes(p, Last(req.statements[1].conditions))}
<1>1. ASSUME file' = file
      PROVE  /\ \A S : NodesAt(S)' = NodesAt(S)
             /\ \A name : find_by_name(name)' = find_by_name(name)
             /\ \A p : NodeAt(p)' = NodeAt(p)
             /\ LiveIds(file') = LiveIds(file)
  BY <1>1 DEF NodesAt, find_by_name, NodeAt, LiveIds, Ids
<1>2. CASE UNCHANGED all
  <2>1. /\ file' = file /\ up' = up /\ k' = k /\ req' = req /\ g' = g /\ i' = i
    BY <1>2 DEF all, vars
  <2>2. HasIsExact'
    BY <2>1 DEF Exact, HasIsExact, NodesAt, NodeAt, LiveIds, Ids
  <2> QED BY <1>1, <2>1, <2>2 DEF Exact
<1>3. CASE \E name, s : Select(name, s)
  <2>1. file' = file /\ k' = 1 /\ \E name : g' = find_by_name(name) /\ req'.name = name
    BY <1>3 DEF Select, Flush
  <2>2. HasIsExact'
    BY <2>1 DEF HasIsExact
  <2> QED BY <1>1, <2>1, <2>2 DEF Exact
<1>4. CASE Filter
  <2>1. /\ file' = file /\ k' = k + 1 /\ i' = 1 /\ req' = req /\ k \in Nat /\ k > 0
        \/ ~up'
    BY <1>4 DEF Filter, Running, NextStatement, Flush, Segfault, JInv
  <2>2. CASE k # 1 \/ ~up'
    <3>1. ~(up' /\ k' = 2)
      BY <2>1, <2>2
    <3>2. HasIsExact'
      BY <3>1 DEF HasIsExact
    <3>3. ~up' \/ k' # 1
      BY <2>1
    <3> QED BY <3>2, <3>3 DEF Exact
  <2>3. CASE k = 1 /\ up'
    <3>1. HasIsExact'
      <4> DEFINE c == Last(req.statements[1].conditions)
      <4> SUFFICES ASSUME Len(req.statements[1].conditions) = 1, c.option # reference,
                          Unordered(c)
                   PROVE  g' = NodesAt(Kept)'
        <5>1. Kept' = {p \in LiveIds(file') :
                   /\ req'.name \in {AnyName, file'[p + 1].name}
                   /\ Has(NodeAt(p)', c.name)
                   /\ Att(NodeAt(p)', c.name).type = c.val.type
                   /\ <<Att(NodeAt(p)', c.name).v, c.val.v>> \in Relation(c.option)}
          BY <2>1, <2>3 DEF ByName, Passes
        <5> HIDE DEF Kept
        <5> QED BY <2>1, <2>3, <5>1 DEF HasIsExact, Unordered
      <4>1. g' = NodesAt(Kept)
        BY <1>4, <2>3, FirstFilter
      <4>2. Kept' = Kept
        BY <1>1, <2>1, <2>3 DEF ByName, Passes
      <4> HIDE DEF Kept
      <4> QED BY <1>1, <2>1, <2>3, <4>1, <4>2 DEF NodesAt
    <3> QED BY <2>1, <2>3, <3>1 DEF Exact
  <2> QED BY <2>2, <2>3
<1>5. CASE FilterByReference
  <2>1. /\ file' = file /\ req' = req /\ k \in Nat /\ k > 0
        /\ SharedAtt(req.statements[k].conditions).option = reference
        /\ \/ ~up'
           \/ k' = k + 1
    BY <1>5 DEF FilterByReference, Running, NextStatement, Flush, JInv, Segfault
  <2>2. HasIsExact'
    BY <2>1 DEF HasIsExact, SharedAtt
  <2> QED BY <2>1, <2>2 DEF Exact
<1>6. CASE Out
  <2>1. /\ req' = req /\ k \in Nat /\ k > 0 /\ req.statements[k].type = OUT
        /\ \/ ~up'
           \/ k' = k + 1
    BY <1>6 DEF Out, Running, NextStatement, Flush, JInv, Segfault
  <2>2. HasIsExact'
    BY <2>1 DEF HasIsExact
  <2> QED BY <2>1, <2>2 DEF Exact
<1>7. CASE DeleteOne
  <2>1. /\ req' = req /\ k' = k /\ req.statements[k].type = DELETE /\ i' = i + 1
        /\ i \in Nat /\ i > 0
    BY <1>7, CarriedNodes DEF DeleteOne, Running, JInv
  <2>2. HasIsExact'
    BY <2>1 DEF HasIsExact
  <2> QED BY <2>1, <2>2 DEF Exact
<1>8. CASE DeleteEnd
  <2>1. /\ req' = req /\ k \in Nat /\ k > 0 /\ k' = k + 1 /\ req.statements[k].type = DELETE
    BY <1>8 DEF DeleteEnd, Running, NextStatement, JInv
  <2>2. HasIsExact'
    BY <2>1 DEF HasIsExact
  <2> QED BY <2>1, <2>2 DEF Exact
<1>9. CASE (JNext /\ ~(k' > 0)) \/ HeapFails
  <2>1. ~up' \/ ~(k' > 0)
    BY <1>9 DEF HeapFails, Kill, Segfault
  <2>2. HasIsExact' /\ (~up' \/ k' # 1)
    BY <2>1 DEF HasIsExact
  <2> QED BY <2>2 DEF Exact
<1> QED BY <1>2, <1>3, <1>4, <1>5, <1>6, <1>7, <1>8, <1>9, SelectSteps

(* V(name).has(a, selector(x)) keeps exactly the nodes that it names, each *)
(* once and in the order of their pages, for any file, values and page     *)
(* numbers, unless the order of strings matters: what a has() reads again  *)
(* from the ids of the nodes selected is what was selected.                *)
THEOREM HasIsAlwaysExact == JSpec => []HasIsExact
<1>1. JInit => Exact
  BY DEF JInit, Exact, HasIsExact
<1>2. JInv /\ Exact /\ [JNext]_all => Exact'
  BY ExactInv
<1>3. Exact => HasIsExact
  BY DEF Exact
<1> QED BY <1>1, <1>2, <1>3, AlwaysJInv, PTL DEF JSpec


-----------------------------------------------------------------------------
(* A has() with a reference of an attribute to itself.                     *)

(* s lists the nodes in these pages, each once. *)
Lists(s, T) ==
  /\ s \in Seq({NodeAt(t) : t \in T})
  /\ \A t \in T : \E x \in 1 .. Len(s) : s[x] = NodeAt(t)
  /\ \A x, y \in 1 .. Len(s) : s[x] = s[y] => x = y

(* The nodes of a set of pages are in the order of the pages.              *)
InPageOrder(nodes, S) ==
  /\ nodes \in Seq({NodeAt(p) : p \in S}) /\ Len(nodes) \in Nat
  /\ \A j \in 1 .. Len(nodes) : nodes[j].id \in S /\ nodes[j] = NodeAt(nodes[j].id)
  /\ \A j, h \in 1 .. Len(nodes) : j < h => nodes[j].id < nodes[h].id
  /\ \A p \in S : \E j \in 1 .. Len(nodes) : nodes[j].id = p

(* NodesAt lists them so.                                                  *)
LEMMA NodesAtOrder ==
  ASSUME GoodFile(file), NEW S \in SUBSET LiveIds(file)
  PROVE  InPageOrder(NodesAt(S), S)
<1> DEFINE K == Numbered(S)
           n == Cardinality(K)
           nodes == NodesAt(S)
<1>1. /\ Len(file) \in Nat /\ K \in SUBSET (1 .. Len(file))
      /\ \A j \in K : j \in Int /\ j - 1 \in S /\ (j - 1) + 1 = j
      /\ \A p \in S : p + 1 \in K /\ (p + 1) - 1 = p
  BY FileType DEF Numbered, LiveIds
<1>2. /\ n \in Nat
      /\ \A j \in 1 .. n : Kth(K, j) \in K
      /\ \A q \in K : \E j \in 1 .. n : Kth(K, j) = q
      /\ \A j, h \in 1 .. n : j < h => Kth(K, j) < Kth(K, h)
  BY <1>1, Ranks, KthRank
<1>3. nodes = Listing(K)
  BY NodesAtListing
<1>4. nodes \in Seq({NodeAt(p) : p \in S})
  BY NodesAtType DEF LiveIds
<1> HIDE DEF K, n, nodes
<1>5. Len(nodes) = n /\ \A j \in 1 .. n : nodes[j] = page_to_node(file[Kth(K, j)])
  BY <1>2, <1>3 DEF Listing, n
<1>6. ASSUME NEW j \in 1 .. n
      PROVE  /\ Kth(K, j) \in Int /\ nodes[j].id \in S
             /\ nodes[j] = NodeAt(nodes[j].id)
             /\ nodes[j].id = Kth(K, j) - 1
  <2> DEFINE q == Kth(K, j)
  <2>1. q \in Int /\ q - 1 \in S /\ (q - 1) + 1 = q
    BY <1>1, <1>2
  <2> HIDE DEF q
  <2>2. NodeAt(q - 1) = page_to_node(file[q])
    BY <2>1 DEF NodeAt
  <2>3. NodeAt(q - 1).id = q - 1
    BY <2>1, NodeAtType DEF LiveIds
  <2>4. nodes[j] = page_to_node(file[q])
    BY <1>5 DEF q
  <2> QED BY <2>1, <2>2, <2>3, <2>4 DEF q
<1>7. \A p \in S : \E j \in 1 .. n : nodes[j].id = p
  <2> SUFFICES ASSUME NEW p \in S
               PROVE  \E j \in 1 .. n : nodes[j].id = p
    OBVIOUS
  <2>1. PICK j \in 1 .. n : Kth(K, j) = p + 1
    BY <1>1, <1>2
  <2> QED BY <1>1, <1>6, <2>1
<1>8. ASSUME NEW j \in 1 .. n, NEW h \in 1 .. n, j < h
      PROVE  nodes[j].id < nodes[h].id
  <2> DEFINE x == Kth(K, j)
             y == Kth(K, h)
  <2>1. x \in Int /\ y \in Int /\ nodes[j].id = x - 1 /\ nodes[h].id = y - 1 /\ x < y
    BY <1>2, <1>6, <1>8
  <2> HIDE DEF x, y
  <2>2. x - 1 < y - 1
    BY <2>1
  <2> QED BY <2>1, <2>2
<1> QED BY <1>2, <1>4, <1>5, <1>6, <1>7, <1>8 DEF InPageOrder, nodes

(* Hence each once.                                                        *)
LEMMA ListsNodesAt ==
  ASSUME GoodFile(file), NEW S \in SUBSET LiveIds(file)
  PROVE  Lists(NodesAt(S), S)
<1> DEFINE nodes == NodesAt(S)
           n == Len(nodes)
<1>1. InPageOrder(nodes, S)
  BY NodesAtOrder
<1> HIDE DEF nodes
<1>2. /\ nodes \in Seq({NodeAt(p) : p \in S}) /\ n \in Nat
      /\ \A j \in 1 .. n : nodes[j].id \in S /\ nodes[j] = NodeAt(nodes[j].id)
      /\ \A j, h \in 1 .. n : j < h => nodes[j].id < nodes[h].id
      /\ \A p \in S : \E j \in 1 .. n : nodes[j].id = p
  BY <1>1 DEF InPageOrder
<1> HIDE DEF n
<1>3. ASSUME NEW x \in 1 .. n, NEW y \in 1 .. n, nodes[x] = nodes[y]
      PROVE  x = y
  <2>1. nodes[x].id \in Int
    <3>1. \A p \in LiveIds(file) : p \in Int
      BY DEF LiveIds, Ids
    <3> QED BY <1>2, <3>1
  <2>2. ~(x < y) /\ ~(y < x)
    BY <1>2, <1>3, <2>1
  <2> QED BY <1>2, <2>2
<1> QED BY <1>2, <1>3 DEF Lists, nodes, n

(* Nothing lists nothing, and one node itself. *)
LEMMA ListsOne ==
  /\ Lists(<< >>, {})
  /\ \A p : Lists(<<NodeAt(p)>>, {p})
<1>1. Lists(<< >>, {})
  BY EmptySeq DEF Lists
<1>2. ASSUME NEW p PROVE Lists(<<NodeAt(p)>>, {p})
  <2> DEFINE s == <<NodeAt(p)>>
  <2>1. NodeAt(p) \in {NodeAt(t) : t \in {p}}
    OBVIOUS
  <2>2. s \in Seq({NodeAt(t) : t \in {p}}) /\ Len(s) = 1 /\ s[1] = NodeAt(p)
    BY <2>1
  <2> HIDE DEF s
  <2> QED BY <2>2 DEF Lists, s
<1> QED BY <1>1, <1>2

(* A list behind a list of other pages. *)
LEMMA ListsBehind ==
  ASSUME GoodFile(file), NEW A \in SUBSET LiveIds(file), NEW B \in SUBSET LiveIds(file),
         A \cap B = {}, NEW s, Lists(s, A), NEW t, Lists(t, B)
  PROVE  Lists(s \o t, A \cup B)
<1> DEFINE X == {NodeAt(p) : p \in A}
           Y == {NodeAt(p) : p \in B}
           Z == {NodeAt(p) : p \in A \cup B}
           u == s \o t
           m == Len(s)
           n == Len(t)
<1>1. /\ s \in Seq(X) /\ t \in Seq(Y) /\ X \subseteq Z /\ Y \subseteq Z
      /\ \A p \in A : \E x \in 1 .. m : s[x] = NodeAt(p)
      /\ \A p \in B : \E x \in 1 .. n : t[x] = NodeAt(p)
      /\ \A x, y \in 1 .. m : s[x] = s[y] => x = y
      /\ \A x, y \in 1 .. n : t[x] = t[y] => x = y
  BY DEF Lists
<1>2. X \cap Y = {}
  <2>1. \A p \in LiveIds(file) : NodeAt(p).id = p
    BY NodeAtType DEF LiveIds
  <2> QED BY <2>1
<1> HIDE DEF X, Y, Z
<1>3. s \in Seq(Z) /\ t \in Seq(Z) /\ m \in Nat /\ n \in Nat
  BY <1>1, LenProperties
<1>4. /\ u \in Seq(Z) /\ Len(u) = m + n
      /\ \A x \in 1 .. m + n : u[x] = IF x <= m THEN s[x] ELSE t[x - m]
  BY <1>3, ConcatProperties
<1> HIDE DEF u, m, n
<1>5. /\ \A x \in 1 .. m : x \in 1 .. m + n /\ u[x] = s[x] /\ s[x] \in X
      /\ \A x \in 1 .. n : m + x \in 1 .. m + n /\ u[m + x] = t[x] /\ t[x] \in Y
  <2>1. \A x \in 1 .. m : s[x] \in X
    BY <1>1, ElementOfSeq DEF m
  <2>2. \A x \in 1 .. n : t[x] \in Y
    BY <1>1, ElementOfSeq DEF n
  <2>3. \A x \in 1 .. n : m + x \in 1 .. m + n /\ ~(m + x <= m) /\ (m + x) - m = x
    BY <1>3
  <2>4. \A x \in 1 .. m : x \in 1 .. m + n /\ x <= m
    BY <1>3
  <2> QED BY <1>4, <2>1, <2>2, <2>3, <2>4
<1>6. \A x \in 1 .. m + n : x \in 1 .. m \/ \E y \in 1 .. n : x = m + y
  <2> SUFFICES ASSUME NEW x \in 1 .. m + n, ~(x \in 1 .. m)
               PROVE  \E y \in 1 .. n : x = m + y
    OBVIOUS
  <2>1. x - m \in 1 .. n /\ x = m + (x - m)
    BY <1>3
  <2> QED BY <2>1
<1>7. \A p \in A \cup B : \E x \in 1 .. m + n : u[x] = NodeAt(p)
  BY <1>1, <1>5
<1>8. ASSUME NEW x \in 1 .. m + n, NEW y \in 1 .. m + n, u[x] = u[y]
      PROVE  x = y
  <2>1. CASE x \in 1 .. m /\ y \in 1 .. m
    BY <1>1, <1>5, <1>8, <2>1
  <2>2. CASE x \in 1 .. m /\ \E h \in 1 .. n : y = m + h
    BY <1>2, <1>5, <1>8, <2>2
  <2>3. CASE y \in 1 .. m /\ \E h \in 1 .. n : x = m + h
    BY <1>2, <1>5, <1>8, <2>3
  <2>4. CASE (\E h \in 1 .. n : x = m + h) /\ \E h \in 1 .. n : y = m + h
    BY <1>1, <1>5, <1>8, <2>4
  <2> QED BY <1>6, <2>1, <2>2, <2>3, <2>4
<1> QED BY <1>4, <1>7, <1>8 DEF Lists, Z, u

(* The nodes with the attribute, those of them behind a node of P with the *)
(* same value, and those that joining the nodes of P puts out.             *)
Withs(a) == {p \in LiveIds(file) : Has(NodeAt(p), a)}

Same(p, q, a) == Att(NodeAt(p), a) = Att(NodeAt(q), a)

Reached(P, a) == {q \in Withs(a) : \E p \in P \cap Withs(a) : p < q /\ Same(p, q, a)}

Sharing(P, a) == Reached(P, a) \cup {p \in P \cap Withs(a) : Reached({p}, a) # {}}

(* What joining the nodes of P leaves. *)
JoinedAll(acc, P, a) ==
  /\ acc.used = P \cup Reached(P, a)
  /\ Lists(acc.out, Sharing(P, a))
  /\ P # {} => acc.b = FALSE

(* The nodes a node is joined with. *)
LEMMA RefReaches ==
  ASSUME GoodFile(file), NEW p \in LiveIds(file), NEW c, c.to = c.name
  PROVE  /\ ref(NodeAt(p), p + 1, c) = NodesAt(Reached({p}, c.name))
         /\ Reached({p}, c.name) \in SUBSET LiveIds(file)
<1> DEFINE a == c.name
           R == {q \in p + 1 .. Len(file) - 1 :
                   /\ Has(NodeAt(p), a)
                   /\ Has(NodeAt(q), a)
                   /\ Att(NodeAt(q), a) = Att(NodeAt(p), a)}
<1>1. ref(NodeAt(p), p + 1, c) = NodesAt(R)
  BY DEF ref
<1>2. Len(file) \in Nat /\ p \in 0 .. Len(file) - 1
  BY FileType DEF LiveIds, Ids
<1>3. \A q \in LiveIds(file) : q \in 0 .. Len(file) - 1
  BY DEF LiveIds, Ids
<1>4. R = Reached({p}, a)
  <2>1. ASSUME NEW q \in R PROVE q \in Reached({p}, a)
    <3>1. q \in Ids(file) /\ p < q
      BY <1>2 DEF Ids
    <3>2. q \in LiveIds(file)
      BY <3>1, HasIsLive
    <3> QED BY <3>1, <3>2 DEF Reached, Withs, Same
  <2>2. ASSUME NEW q \in Reached({p}, a) PROVE q \in R
    <3>1. /\ q \in LiveIds(file) /\ Has(NodeAt(q), a) /\ Has(NodeAt(p), a)
          /\ p < q /\ Att(NodeAt(p), a) = Att(NodeAt(q), a)
      BY DEF Reached, Withs, Same
    <3>2. q \in p + 1 .. Len(file) - 1
      <4>1. q \in 0 .. Len(file) - 1 /\ p < q
        BY <1>3, <3>1
      <4> QED BY <1>2, <4>1
    <3> QED BY <3>1, <3>2
  <2> HIDE DEF R
  <2> QED BY <2>1, <2>2
<1> HIDE DEF R
<1> QED BY <1>1, <1>4 DEF Reached, Withs

(* Joining one node more, behind those joined before. *)
LEMMA JoinOneMore ==
  ASSUME GoodFile(file), NEW P \in SUBSET LiveIds(file), NEW p \in LiveIds(file),
         \A q \in P : q < p, NEW c, c.to = c.name,
         NEW acc \in JoinAcc(Current, {FALSE}, c), JoinedAll(acc, P, c.name),
         NEW m \in Current, m.id = p, NEW stray, stray \cap Ids(file) = {}
  PROVE  JoinedAll(Join(acc, m, c, stray), P \cup {p}, c.name)
<1> DEFINE a == c.name
           n == NodeAt(p)
           H == Reached({p}, a)
           hits == ref(n, p + 1, c)
           Q == P \cup {p}
           end == IF hits = << >> THEN << >> ELSE <<n>>
<1>1. /\ acc.used = P \cup Reached(P, a) /\ Lists(acc.out, Sharing(P, a))
      /\ P # {} => acc.b = FALSE
  BY DEF JoinedAll
<1>2. n.id = p
  BY NodeAtType DEF LiveIds
<1>3. hits = NodesAt(H) /\ H \in SUBSET LiveIds(file)
  BY RefReaches
<1>4. Lists(hits, H)
  BY <1>3, ListsNodesAt
<1>5. p \notin P /\ p \in Int /\ \A q \in LiveIds(file) : q \in Int
  <2>1. \A q \in LiveIds(file) : q \in Int
    BY DEF LiveIds, Ids
  <2> QED BY <2>1
<1>6. /\ Reached(Q, a) = Reached(P, a) \cup H
      /\ Sharing(Q, a) = Sharing(P, a) \cup H \cup
                           IF p \in Withs(a) /\ H # {} THEN {p} ELSE {}
  <2>1. Reached(Q, a) = Reached(P, a) \cup H
    BY DEF Reached
  <2>2. {q \in Q \cap Withs(a) : Reached({q}, a) # {}} =
          {q \in P \cap Withs(a) : Reached({q}, a) # {}} \cup
             IF p \in Withs(a) /\ H # {} THEN {p} ELSE {}
    OBVIOUS
  <2> HIDE DEF Q, H
  <2> QED BY <2>1, <2>2 DEF Sharing
<1>7. Sharing(P, a) \subseteq P \cup Reached(P, a) /\ Sharing(P, a) \subseteq LiveIds(file)
  BY DEF Sharing, Reached, Withs
<1> DEFINE next == Join(acc, m, c, stray)
<1> HIDE DEF next, Q, hits, n, H
<1>13. PICK page \in Buffer, at \in Nat, past \in {FALSE} :
        next = IF p \in acc.used THEN JoinsSeen(acc, n, page, at, past)
               ELSE JoinsNew(acc, n, page, at, past, c, hits)
  <2> DEFINE Past == {FALSE}
  <2>1. Loads(IdsOf(Current), Current, Past) /\ acc \in JoinAcc(Current, Past, c)
    BY ListLoads
  <2> HIDE DEF Past
  <2>2. PICK page \in Buffer, at \in Nat, past \in Past, r \in Current :
          /\ Join(acc, m, c, stray) =
               IF r.id \in acc.used \cup stray
               THEN JoinsSeen(acc, r, page, at, past)
               ELSE JoinsNew(acc, r, page, at, past, c, ref(r, at, c))
          /\ m.id \in Ids(file) => r = NodeAt(m.id) /\ at = m.id + 1
    BY <2>1, JoinReads
  <2>3. p \in Ids(file) /\ p \notin stray
    BY DEF LiveIds
  <2>4. r = n /\ at = p + 1
    BY <2>2, <2>3 DEF n
  <2> QED BY <1>2, <2>2, <2>3, <2>4 DEF Past, next, hits
<1>8. next.used = IF p \in acc.used THEN acc.used
        ELSE acc.used \cup {p} \cup {hits[j].id : j \in DOMAIN hits}
  BY <1>2, <1>13 DEF JoinsSeen, JoinsNew
<1>9. next.out = IF p \in acc.used
        THEN acc.out \o IF acc.b THEN <<n>> ELSE << >>
        ELSE acc.out \o hits \o end
  BY <1>13 DEF JoinsSeen, JoinsNew
<1>10. next.b = IF p \in acc.used THEN acc.b ELSE FALSE
  BY <1>13 DEF JoinsSeen, JoinsNew
<1>11. CASE p \in acc.used
  <2>1. PICK q \in P \cap Withs(a) : p \in Withs(a) /\ q < p /\ Same(q, p, a)
    BY <1>1, <1>5, <1>11 DEF Reached
  <2>2. p \in Reached(P, a) /\ acc.b = FALSE
    BY <1>1, <2>1 DEF Reached
  <2>3. H \subseteq Reached(P, a)
    <3> SUFFICES ASSUME NEW t \in H PROVE t \in Reached(P, a)
      OBVIOUS
    <3>1. t \in Withs(a) /\ p < t /\ Same(p, t, a)
      BY DEF H, Reached
    <3>2. q < t /\ Same(q, t, a)
      <4>1. q \in Int /\ p \in Int /\ t \in Int
        BY <1>5, <2>1, <3>1 DEF Withs
      <4> QED BY <2>1, <3>1, <4>1 DEF Same
    <3> QED BY <2>1, <3>1, <3>2 DEF Reached
  <2>4. Reached(Q, a) = Reached(P, a) /\ acc.used = Q \cup Reached(Q, a)
    BY <1>1, <1>6, <2>2, <2>3 DEF Q
  <2>5. Sharing(Q, a) = Sharing(P, a)
    BY <1>6, <2>2, <2>3 DEF Sharing
  <2>6. next.out = acc.out
    <3>1. next.out = acc.out \o << >>
      BY <1>9, <1>11, <2>2 DEF next
    <3>2. acc.out \in Seq(Current)
      BY DEF JoinAcc
    <3> QED BY <3>1, <3>2, ConcatEmptySeq
  <2>7. next.used = acc.used /\ next.b = FALSE
    BY <1>8, <1>10, <1>11, <2>2 DEF next
  <2>8. JoinedAll(next, Q, a)
    BY <1>1, <2>4, <2>5, <2>6, <2>7 DEF JoinedAll
  <2> QED BY <2>8 DEF next, Q
<1>12. CASE p \notin acc.used
  <2>1. {hits[j].id : j \in DOMAIN hits} = H
    <3>1. /\ hits \in Seq({NodeAt(t) : t \in H})
          /\ \A t \in H : \E x \in 1 .. Len(hits) : hits[x] = NodeAt(t)
      BY <1>4 DEF Lists
    <3>2. DOMAIN hits = 1 .. Len(hits) /\ \A x \in 1 .. Len(hits) : \E t \in H : hits[x] = NodeAt(t)
      BY <3>1, LenProperties, ElementOfSeq
    <3>3. \A t \in H : NodeAt(t).id = t
      BY <1>3, NodeAtType DEF LiveIds
    <3> QED BY <3>1, <3>2, <3>3, SMTT(30)
  <2>2. next.used = Q \cup Reached(Q, a) /\ next.b = FALSE
    BY <1>1, <1>6, <1>8, <1>10, <1>12, <2>1 DEF next, Q
  <2>3. hits = << >> <=> H = {}
    <3>1. /\ hits \in Seq({NodeAt(t) : t \in H})
          /\ \A t \in H : \E x \in 1 .. Len(hits) : hits[x] = NodeAt(t)
      BY <1>4 DEF Lists
    <3>2. ASSUME hits = << >> PROVE H = {}
      <4>1. Len(hits) = 0
        BY <3>2
      <4> QED BY <3>1, <4>1
    <3>3. ASSUME H = {} PROVE hits = << >>
      <4>1. ASSUME Len(hits) # 0 PROVE FALSE
        <5>1. Len(hits) \in Nat
          BY <3>1, LenProperties
        <5>2. hits[1] \in {NodeAt(t) : t \in H}
          BY <3>1, <4>1, <5>1, ElementOfSeq
        <5> QED BY <3>3, <5>2
      <4> QED BY <3>1, <4>1, EmptySeq
    <3> QED BY <3>2, <3>3
  <2>4. H # {} => p \in Withs(a)
    BY DEF H, Reached
  <2> DEFINE E == IF H = {} THEN {} ELSE {p}
  <2>5. Lists(end, E)
    BY <2>3, ListsOne DEF n
  <2>6. Sharing(P, a) \cap H = {}
    <3> SUFFICES ASSUME NEW t \in Sharing(P, a), t \in H PROVE FALSE
      OBVIOUS
    <3>1. t \in Withs(a) /\ p \in Withs(a) /\ p < t /\ Same(p, t, a)
      BY DEF H, Reached
    <3>2. p \in Int /\ t \in Int
      BY <1>5, <1>7
    <3>3. t \notin P
      BY <3>1, <3>2
    <3>4. PICK q \in P \cap Withs(a) : q < t /\ Same(q, t, a)
      BY <1>7, <3>3 DEF Reached
    <3>5. p \in Reached(P, a)
      BY <3>1, <3>4 DEF Reached, Same
    <3> QED BY <1>1, <1>12, <3>5
  <2>7. (Sharing(P, a) \cup H) \cap E = {}
    <3>1. p \notin Sharing(P, a)
      BY <1>1, <1>7, <1>12
    <3>2. p \notin H
      BY <1>5 DEF H, Reached
    <3> QED BY <3>1, <3>2
  <2>8. E \in SUBSET LiveIds(file) /\ Sharing(P, a) \cup H \in SUBSET LiveIds(file)
    BY <1>3, <1>7
  <2> HIDE DEF E, end
  <2>9. Lists(acc.out \o hits, Sharing(P, a) \cup H)
    BY <1>1, <1>3, <1>4, <1>7, <2>6, ListsBehind
  <2>10. Lists(acc.out \o hits \o end, Sharing(P, a) \cup H \cup E)
    BY <2>5, <2>7, <2>8, <2>9, ListsBehind
  <2>11. Sharing(Q, a) = Sharing(P, a) \cup H \cup E
    BY <1>6, <2>4 DEF E
  <2>12. next.out = acc.out \o hits \o end
    BY <1>9, <1>12 DEF next
  <2>13. JoinedAll(next, Q, a)
    BY <2>2, <2>10, <2>11, <2>12 DEF JoinedAll
  <2> QED BY <2>13 DEF next, Q
<1> QED BY <1>11, <1>12

(* Joining the nodes of a set of live pages, when none is marked.          *)
LEMMA JoinNodes ==
  ASSUME GoodFile(file), pos \in Nat, NEW S \in SUBSET LiveIds(file),
         NEW c, c.to = c.name, NEW b \in BOOLEAN, NEW junk \in Buffer,
         NEW stray, stray \cap Ids(file) = {}
  PROVE  JoinedAll(Joined(NodesAt(S), c, junk, stray, b), S, c.name)
<1> DEFINE nodes == NodesAt(S)
           N == Len(nodes)
           A == JoinAcc(Current, {FALSE}, c)
           before(m) == {nodes[j].id : j \in 1 .. m}
<1>1. InPageOrder(nodes, S)
  BY NodesAtOrder
<1> HIDE DEF nodes
<1>2. /\ nodes \in Seq({NodeAt(p) : p \in S}) /\ N \in Nat
      /\ \A j \in 1 .. N : nodes[j].id \in S
      /\ \A j, h \in 1 .. N : j < h => nodes[j].id < nodes[h].id
      /\ \A p \in S : \E j \in 1 .. N : nodes[j].id = p
  BY <1>1 DEF InPageOrder
<1>3. nodes \in Seq(Current)
  BY <1>2 DEF Current
<1>10. \A j \in 1 .. N : nodes[j] \in Current
  BY <1>3, ElementOfSeq DEF N
<1>4. PICK it : JoinRow(it, nodes, c, junk, stray, b, Current, {FALSE})
  <2> DEFINE Past == {FALSE}
  <2>1. Joins(Current, Current, Past)
    BY ListLoads DEF Joins
  <2> HIDE DEF Past
  <2>2. PICK it : JoinRow(it, nodes, c, junk, stray, b, Current, Past)
    BY <1>3, <2>1, JoinedPrefixes
  <2> QED BY <2>2 DEF Past
<1> HIDE DEF A, N
<1>5. /\ it[1 .. 0] = JoinStart(junk, b)
      /\ \A m \in 0 .. N : it[1 .. m] \in A
      /\ \A m \in 1 .. N : it[1 .. m] = Join(it[1 .. m - 1], nodes[m], c, stray)
  <2>1. Prefixed(it, N, A, JoinStart(junk, b), JoinSteps(nodes, c, stray, A))
    BY <1>4 DEF JoinRow, OneByOne, N, A
  <2>2. /\ it[1 .. 0] = JoinStart(junk, b)
        /\ \A m \in 0 .. N : it[1 .. m] \in A
        /\ \A m \in 1 .. N : it[1 .. m] = JoinSteps(nodes, c, stray, A)[m][it[1 .. m - 1]]
    BY <2>1 DEF Prefixed
  <2>3. \A m \in 1 .. N : m - 1 \in 0 .. N
    BY <1>2
  <2>4. \A m \in 1 .. N : \A acc \in A :
           JoinSteps(nodes, c, stray, A)[m][acc] = Join(acc, nodes[m], c, stray)
    BY DEF JoinSteps, N
  <2> QED BY <2>2, <2>3, <2>4
<1> DEFINE Good(m) == JoinedAll(it[1 .. m], before(m), c.name)
           G == {m \in 0 .. N : Good(m)}
<1>6. 0 \in G
  <2>1. before(0) = {}
    OBVIOUS
  <2>2. Reached({}, c.name) = {} /\ Sharing({}, c.name) = {}
    BY DEF Reached, Sharing
  <2>3. JoinedAll(JoinStart(junk, b), {}, c.name)
    BY <2>2, ListsOne DEF JoinedAll, JoinStart
  <2> HIDE DEF before
  <2>4. JoinedAll(it[1 .. 0], before(0), c.name)
    BY <1>5, <2>1, <2>3
  <2> QED BY <1>2, <2>4
<1>7. \A m \in 0 .. N - 1 : m \in G => m + 1 \in G
  <2> SUFFICES ASSUME NEW m \in 0 .. N - 1, Good(m)
               PROVE  m + 1 \in 0 .. N /\ Good(m + 1)
    OBVIOUS
  <2> DEFINE p == nodes[m + 1].id
             P == before(m)
             acc == it[1 .. m]
  <2>1. m + 1 \in 1 .. N /\ (m + 1) - 1 = m /\ m \in 0 .. N /\ m + 1 \in 0 .. N
        /\ \A j \in 1 .. m : j \in 1 .. N /\ j < m + 1
    BY <1>2
  <2>2. before(m + 1) = P \cup {p}
    <3>1. 1 .. m + 1 = (1 .. m) \cup {m + 1}
      BY <1>2
    <3> QED BY <3>1
  <2>3. P \in SUBSET LiveIds(file) /\ p \in LiveIds(file) /\ \A q \in P : q < p
    BY <1>2, <2>1
  <2>4. it[1 .. m + 1] = Join(acc, nodes[m + 1], c, stray)
    BY <1>5, <2>1
  <2>5. acc \in JoinAcc(Current, {FALSE}, c)
    BY <1>5, <2>1 DEF A
  <2>6. JoinedAll(acc, P, c.name)
    OBVIOUS
  <2> HIDE DEF P, acc, before
  <2>8. nodes[m + 1] \in Current
    BY <1>10, <2>1
  <2>7. JoinedAll(Join(acc, nodes[m + 1], c, stray), P \cup {p}, c.name)
    BY <2>3, <2>5, <2>6, <2>8, JoinOneMore
  <2> QED BY <2>1, <2>2, <2>4, <2>7
<1>8. \A m \in 0 .. N : m \in G
  <2> HIDE DEF G
  <2> QED BY <1>2, <1>6, <1>7, IntervalInduction
<1>9. Good(N) /\ before(N) = S
  <2>1. N \in 0 .. N
    BY <1>2
  <2>2. before(N) = S
    BY <1>2
  <2> QED BY <1>8, <2>1, <2>2
<1> QED BY <1>4, <1>9 DEF JoinRow, nodes, N

(* After a first statement has(ref(a)) on a, the selection is what joining *)
(* the nodes of V(name) leaves.                                            *)
Once ==
  LET c == SharedAtt(req.statements[1].conditions)
  IN  up /\ k = 2 /\ i = 1 /\ req.statements[1].type = SELECT_CONDITION
        /\ c.option = reference /\ c.to = c.name =>
      Lists(g, Sharing(ByName(req.name), c.name))

(* Two elements are more than one. *)
LEMMA MoreThanOne ==
  ASSUME NEW n \in Nat, NEW S \in SUBSET (0 .. n - 1), NEW x \in S
  PROVE  Cardinality(S) > 1 <=> \E y \in S : y # x
<1>1. IsFiniteSet(S)
  <2>1. IsFiniteSet(0 .. n - 1)
    BY FS_Interval
  <2> QED BY <2>1, FS_Subset
<1>2. IsFiniteSet(S \ {x}) /\ Cardinality(S \ {x}) = Cardinality(S) - 1
  BY <1>1, FS_RemoveElement
<1>3. Cardinality(S \ {x}) \in Nat /\ Cardinality(S) \in Nat
  BY <1>1, <1>2, FS_CardinalityType
<1>4. Cardinality(S \ {x}) = 0 <=> S \ {x} = {}
  BY <1>2, FS_EmptySet
<1>5. S \ {x} = {} <=> ~ \E y \in S : y # x
  OBVIOUS
<1> QED BY <1>2, <1>3, <1>4, <1>5

(* Joining puts out those that share their value, as SharedAreListedOnce   *)
(* has it.                                                                 *)
LEMMA OnceIsShared ==
  ASSUME JInv, Once
  PROVE  SharedAreListedOnce
<1> DEFINE c == SharedAtt(req.statements[1].conditions)
           a == c.name
           With == {p \in LiveIds(file) : Has(NodeAt(p), c.name)}
           value(p) == Att(NodeAt(p), c.name)
           P == ByName(req.name)
           Sharers(p) ==
             {q \in With : /\ value(q) = value(p)
                           /\ \E r \in With : /\ r <= q /\ value(r) = value(p)
                                               /\ req.name \in {AnyName, file[r + 1].name}}
           Times(p) == Cardinality({j \in DOMAIN g : g[j] = NodeAt(p)})
<1> SUFFICES ASSUME up, k = 2, i = 1, req.statements[1].type = SELECT_CONDITION,
                    c.option = reference, c.to = c.name, NEW p \in LiveIds(file)
             PROVE  Times(p) = IF p \in With /\ p \in Sharers(p) /\ Cardinality(Sharers(p)) > 1
                               THEN 1 ELSE 0
  BY DEF SharedAreListedOnce
<1>1. GoodFile(file) /\ Len(file) \in Nat /\ Lists(g, Sharing(P, a))
  BY FileType DEF JInv, Inv, Once
<1>2. \A q \in LiveIds(file) : q \in 0 .. Len(file) - 1 /\ q \in Int /\ NodeAt(q).id = q
  BY <1>1, NodeAtType DEF LiveIds, Ids
<1>3. /\ With = Withs(a)
      /\ \A q, r : Same(q, r, a) <=> value(q) = value(r)
      /\ \A r : r \in P \cap Withs(a) <=>
                r \in With /\ req.name \in {AnyName, file[r + 1].name}
  BY DEF Withs, Same, ByName
<1> HIDE DEF With, value, P, a
<1>4. p \in Sharing(P, a) <=>
        \/ \E r \in P \cap Withs(a) : r < p /\ value(r) = value(p) /\ p \in Withs(a)
        \/ /\ p \in P \cap Withs(a)
           /\ \E q \in Withs(a) : p < q /\ value(p) = value(q)
  BY <1>3 DEF Sharing, Reached
<1>5. \A q : q \in Sharers(p) <=>
        /\ q \in Withs(a) /\ value(q) = value(p)
        /\ \E r \in P \cap Withs(a) : r <= q /\ value(r) = value(p)
  BY <1>3 DEF With, value, a
<1>6. Withs(a) \subseteq LiveIds(file)
  BY DEF Withs
<1> HIDE DEF Sharers
<1>7. p \in With /\ p \in Sharers(p) =>
        (Cardinality(Sharers(p)) > 1 <=> \E y \in Sharers(p) : y # p)
  <2>1. Sharers(p) \in SUBSET (0 .. Len(file) - 1)
    BY <1>2, <1>5, <1>6
  <2> QED BY <1>1, <2>1, MoreThanOne
<1>8. p \in Sharing(P, a) <=>
        p \in With /\ p \in Sharers(p) /\ Cardinality(Sharers(p)) > 1
  <2>1. ASSUME p \in Sharing(P, a)
        PROVE  p \in With /\ p \in Sharers(p) /\ Cardinality(Sharers(p)) > 1
    <3>1. CASE \E r \in P \cap Withs(a) : r < p /\ value(r) = value(p) /\ p \in Withs(a)
      <4>1. PICK r \in P \cap Withs(a) : r < p /\ value(r) = value(p) /\ p \in Withs(a)
        BY <3>1
      <4>2. r \in Int /\ p \in Int /\ r <= p /\ r <= r /\ r # p
        BY <1>2, <1>6, <4>1
      <4>3. p \in Sharers(p) /\ r \in Sharers(p)
        BY <1>5, <4>1, <4>2
      <4> QED BY <1>3, <1>7, <4>1, <4>2, <4>3
    <3>2. CASE p \in P \cap Withs(a) /\ \E q \in Withs(a) : p < q /\ value(p) = value(q)
      <4>1. PICK q \in Withs(a) : p < q /\ value(p) = value(q)
        BY <3>2
      <4>2. q \in Int /\ p \in Int /\ p <= p /\ p <= q /\ q # p
        BY <1>2, <1>6, <4>1
      <4>3. p \in Sharers(p) /\ q \in Sharers(p)
        BY <1>5, <3>2, <4>1, <4>2
      <4> QED BY <1>3, <1>7, <3>2, <4>2, <4>3
    <3> QED BY <1>4, <2>1, <3>1, <3>2
  <2>2. ASSUME p \in With, p \in Sharers(p), Cardinality(Sharers(p)) > 1
        PROVE  p \in Sharing(P, a)
    <3>1. p \in Withs(a) /\ p \in Int
      BY <1>2, <1>3, <2>2
    <3>2. PICK r \in P \cap Withs(a) : r <= p /\ value(r) = value(p)
      BY <1>5, <2>2
    <3>3. PICK q \in Sharers(p) : q # p
      BY <1>7, <2>2
    <3>4. PICK r2 \in P \cap Withs(a) : r2 <= q /\ value(r2) = value(p)
      BY <1>5, <3>3
    <3>5. q \in Withs(a) /\ value(q) = value(p)
      BY <1>5
    <3>6. r \in Int /\ r2 \in Int /\ q \in Int
      BY <1>2, <1>6, <3>2, <3>4, <3>5
    <3>7. CASE r < p
      BY <1>4, <3>1, <3>2, <3>7
    <3>8. CASE r = p /\ p < q
      BY <1>4, <3>2, <3>5, <3>8
    <3>9. CASE q < p
      <4>1. r2 < p
        BY <3>1, <3>4, <3>6, <3>9
      <4> QED BY <1>4, <3>1, <3>4, <4>1
    <3> QED BY <3>1, <3>2, <3>3, <3>6, <3>7, <3>8, <3>9
  <2> QED BY <2>1, <2>2
<1>9. Times(p) = IF p \in Sharing(P, a) THEN 1 ELSE 0
  <2> DEFINE J == {j \in DOMAIN g : g[j] = NodeAt(p)}
  <2>1. /\ g \in Seq({NodeAt(t) : t \in Sharing(P, a)})
        /\ \A t \in Sharing(P, a) : \E x \in 1 .. Len(g) : g[x] = NodeAt(t)
        /\ \A x, y \in 1 .. Len(g) : g[x] = g[y] => x = y
    BY <1>1 DEF Lists
  <2>2. DOMAIN g = 1 .. Len(g) /\ \A x \in 1 .. Len(g) : \E t \in Sharing(P, a) : g[x] = NodeAt(t)
    BY <2>1, LenProperties, ElementOfSeq
  <2>3. Sharing(P, a) \subseteq LiveIds(file)
    BY <1>6 DEF Sharing, Reached
  <2>4. CASE p \in Sharing(P, a)
    <3>1. PICK x \in 1 .. Len(g) : g[x] = NodeAt(p)
      BY <2>1, <2>4
    <3>2. J = {x}
      BY <2>1, <2>2, <3>1
    <3>3. Cardinality({x}) = 1
      BY FS_Singleton
    <3> QED BY <2>4, <3>2, <3>3
  <2>5. CASE p \notin Sharing(P, a)
    <3>1. J = {}
      BY <1>2, <2>2, <2>3, <2>5
    <3>2. Cardinality(J) = 0
      BY <3>1, FS_EmptySet
    <3> QED BY <2>5, <3>2
  <2> QED BY <2>4, <2>5
<1> QED BY <1>8, <1>9

(* The first statement, a has(ref), joins the nodes of V(name): none of    *)
(* them is marked, since the file is positioned at its end.                *)
LEMMA FirstJoin ==
  ASSUME JInv, Exact, FilterByReference, k = 1, up',
         NEW c, c = SharedAtt(req.statements[1].conditions), c.to = c.name
  PROVE  Lists(g', Sharing(ByName(req.name), c.name)) /\ file' = file
<1> USE DEF SELECT_CONDITION, OUT, DELETE
<1>1. up /\ req.statements[1].type = SELECT_CONDITION
  BY DEF FilterByReference, Running
<1>2. /\ GoodFile(file) /\ pos \in Nat /\ pos = Len(file)
      /\ ByName(req.name) \in SUBSET LiveIds(file)
  <2>1. ~Deleting
    BY <1>1 DEF Deleting
  <2> QED BY <1>1, <2>1 DEF JInv, Inv, Selecting, ByName
<1>4. PICK junk \in Buffers, b \in BOOLEAN,
           stray \in SUBSET ({page.id : page \in Buffers} \ (0 .. pos)) :
        Flush /\ NextStatement(Joined(g, c, junk, stray, b).out, Joined(g, c, junk, stray, b).pos)
  BY DEF FilterByReference, Segfault
<1>3. stray \cap Ids(file) = {} /\ junk \in Buffer
  <2>1. Len(file) \in Nat
    BY <1>2, FileType
  <2>2. Ids(file) \subseteq 0 .. pos
    BY <1>2, <2>1 DEF Ids
  <2> QED BY <1>2, <2>2, JunkType
<1>5. g = NodesAt(ByName(req.name))
  BY <1>1 DEF Exact, find_by_name, ByName
<1>6. JoinedAll(Joined(NodesAt(ByName(req.name)), c, junk, stray, b), ByName(req.name), c.name)
  BY <1>2, <1>3, JoinNodes
<1>7. file' = file /\ g' = Joined(NodesAt(ByName(req.name)), c, junk, stray, b).out
  BY <1>4, <1>5 DEF Flush, NextStatement
<1> QED BY <1>6, <1>7 DEF JoinedAll

(* Every step keeps it. *)
LEMMA OnceInv ==
  ASSUME JInv, Exact, Once, [JNext]_all
  PROVE  Once'
<1> USE DEF SELECT_CONDITION, OUT, DELETE
<1>1. ASSUME file' = file
      PROVE  /\ \A s, T : Lists(s, T)' = Lists(s, T)
             /\ \A name, a : Sharing(ByName(name), a)' = Sharing(ByName(name), a)
  BY <1>1 DEF Lists, Sharing, Reached, Withs, Same, ByName, NodeAt, LiveIds, Ids
<1>2. CASE UNCHANGED all
  <2>1. /\ file' = file /\ up' = up /\ k' = k /\ req' = req /\ g' = g /\ i' = i
    BY <1>2 DEF all, vars
  <2> QED BY <1>1, <2>1 DEF Once
<1>3. CASE \E name, s : Select(name, s)
  <2>1. k' = 1
    BY <1>3 DEF Select
  <2> QED BY <2>1 DEF Once
<1>4. CASE Filter
  <2>1. /\ ~up' \/ k' = k + 1
        /\ req' = req /\ k \in Nat
        /\ SharedAtt(req.statements[k].conditions).option # reference
    BY <1>4 DEF Filter, Segfault, NextStatement, JInv
  <2> QED BY <2>1 DEF Once
<1>5. CASE FilterByReference
  <2> DEFINE c == SharedAtt(req.statements[1].conditions)
  <2> SUFFICES ASSUME up', k' = 2, i' = 1, c.to = c.name
               PROVE  Lists(g, Sharing(ByName(req.name), c.name))'
    <3>1. req' = req
      BY <1>5 DEF FilterByReference
    <3> QED BY <3>1 DEF Once
  <2>1. k = 1 /\ req' = req
    BY <1>5 DEF FilterByReference, Segfault, NextStatement, JInv
  <2>2. Lists(g', Sharing(ByName(req.name), c.name)) /\ file' = file
    BY <1>5, <2>1, FirstJoin
  <2> QED BY <1>1, <2>1, <2>2
<1>6. CASE Out
  <2>1. /\ req' = req /\ k \in Nat /\ k > 0 /\ req.statements[k].type = OUT
        /\ \/ ~up'
           \/ k' = k + 1
    BY <1>6 DEF Out, Running, NextStatement, Flush, JInv, Segfault
  <2> QED BY <2>1 DEF Once
<1>7. CASE DeleteOne
  <2>1. i' = i + 1 /\ i \in Nat /\ i > 0
    BY <1>7, CarriedNodes DEF DeleteOne, JInv
  <2> QED BY <2>1 DEF Once
<1>8. CASE DeleteEnd
  <2>1. /\ req' = req /\ k \in Nat /\ k > 0 /\ k' = k + 1 /\ req.statements[k].type = DELETE
    BY <1>8 DEF DeleteEnd, Running, NextStatement, JInv
  <2> QED BY <2>1 DEF Once
<1>9. CASE (JNext /\ ~(k' > 0)) \/ HeapFails
  BY <1>9 DEF HeapFails, Kill, Segfault, Once
<1> QED BY <1>2, <1>3, <1>4, <1>5, <1>6, <1>7, <1>8, <1>9, SelectSteps

(* V(name).has(a, ref(a)) lists each node that shares its a, and does not  *)
(* come before the first that has the name, exactly once, for any file and *)
(* values: the marks of those already joined keep it from listing them     *)
(* again, although each has all sharers behind it joined to it.            *)
THEOREM SharedAreAlwaysListedOnce == JSpec => []SharedAreListedOnce
<1>1. JInit => Exact /\ Once
  BY DEF JInit, Exact, HasIsExact, Once
<1>2. JInv /\ Exact /\ [JNext]_all => Exact'
  BY ExactInv
<1>3. JInv /\ Exact /\ Once /\ [JNext]_all => Once'
  BY OnceInv
<1>4. JInv /\ Once => SharedAreListedOnce
  BY OnceIsShared
<1> QED BY <1>1, <1>2, <1>3, <1>4, AlwaysJInv, PTL DEF JSpec


-----------------------------------------------------------------------------
(* Walks along edges.                                                      *)

(* How often a list has nodes with id t. *)
Times(s, t) == Cardinality({j \in DOMAIN s : s[j].id = t})

(* It is a number. *)
LEMMA TimesType ==
  ASSUME NEW X, NEW s \in Seq(X), NEW t
  PROVE  Times(s, t) \in Nat
<1> DEFINE P == {j \in DOMAIN s : s[j].id = t}
<1>1. Len(s) \in Nat /\ DOMAIN s = 1 .. Len(s)
  BY LenProperties
<1>2. P \cap (1 .. Len(s)) = P
  BY <1>1
<1> HIDE DEF P
<1> QED BY <1>1, <1>2, CountMore DEF Times, P

(* A node more. *)
LEMMA TimesAppend ==
  ASSUME NEW X, NEW s \in Seq(X), NEW x \in X, NEW t
  PROVE  Times(Append(s, x), t) = Times(s, t) + IF x.id = t THEN 1 ELSE 0
<1> DEFINE n == Len(s)
           r == Append(s, x)
           P == {j \in 1 .. n + 1 : r[j].id = t}
<1>1. n \in Nat /\ DOMAIN s = 1 .. n
  BY LenProperties
<1>2. DOMAIN r = 1 .. n + 1 /\ r[n + 1] = x /\ \A j \in 1 .. n : r[j] = s[j]
  OBVIOUS
<1> HIDE DEF r, n
<1>3. /\ P \cap (1 .. n) = {j \in DOMAIN s : s[j].id = t}
      /\ P \cap (1 .. n + 1) = {j \in DOMAIN r : r[j].id = t}
  BY <1>1, <1>2
<1>4. n + 1 \in P <=> x.id = t
  BY <1>1, <1>2
<1> HIDE DEF P
<1> QED BY <1>1, <1>3, <1>4, CountMore DEF Times, r

(* How often a list has an element. *)
Occurrences(s, x) == Cardinality({j \in DOMAIN s : s[j] = x})

(* The edges from p to t with this name. *)
EdgesTo(p, name, t) == Occurrences(file[p + 1].edges, [name |-> name, id |-> t])

(* Nodes of the file carried along, and nothing else read. *)
OutCurrent == OutAcc(Current, {TRUE}, {FALSE})

(* Following an edge adds the node it leads to, if it has the name.        *)
AddsEnd(acc, e, name, t) ==
  Times(Follow(acc, e, name).out, t) =
    Times(acc.out, t) + IF e.name = name /\ e.id = t THEN 1 ELSE 0

(* It does, if the edge leads to a node of the file. *)
LEMMA FollowTimes ==
  ASSUME GoodFile(file), NEW acc \in OutCurrent, NEW e \in ClosedEdges, NEW name, NEW t
  PROVE  AddsEnd(acc, e, name, t)
<1> USE DEF AddsEnd
<1> DEFINE n == NodeAt(e.id)
<1>1. e \in Edge /\ e.id \in LiveIds(file) /\ e.id \in Ids(file) /\ e.id \in Nat
  BY DEF ClosedEdges, LiveIds, Edge, Ids
<1>3. acc.out \in Seq(Current)
  BY DEF OutCurrent, OutAcc
<1>4. n \in Current /\ n.id = e.id
  BY <1>1, NodeAtType DEF Current
<1>7. LoadNode(acc, e.id).out = Append(acc.out, n)
  <2> DEFINE id == e.id
  <2>1. id \in Ids(file) /\ id \in Nat
    BY <1>1
  <2> HIDE DEF id
  <2>2. PageRead(id, acc.page) = file[id + 1]
    BY <2>1 DEF PageRead
  <2>3. Load(acc, id).page = file[id + 1] /\ Load(acc, id).out = acc.out
    BY <2>1, <2>2 DEF Load, OutCurrent, OutAcc
  <2>4. "out" \in DOMAIN Load(acc, id)
    BY DEF Load, OutCurrent, OutAcc
  <2>5. LoadNode(acc, id).out = Append(acc.out, page_to_node(file[id + 1]))
    BY <2>3, <2>4 DEF LoadNode
  <2> QED BY <2>5 DEF n, NodeAt, id
<1> HIDE DEF n
<1>5. CASE e.name # name
  <2>1. Follow(acc, e, name) = acc
    BY <1>5 DEF Follow, Follows
  <2>2. Times(acc.out, t) \in Nat
    BY <1>3, TimesType
  <2> QED BY <1>5, <2>1, <2>2
<1>6. CASE e.name = name
  <2>1. Follow(acc, e, name).out = Append(acc.out, n)
    BY <1>6, <1>7 DEF Follow, Follows
  <2> QED BY <1>3, <1>4, <1>6, <2>1, TimesAppend
<1> QED BY <1>5, <1>6

(* Following them all adds each node as often as edges lead to it.         *)
LEMMA FollowAllTimes ==
  ASSUME GoodFile(file), Leads(ClosedEdges, Current, {FALSE}),
         NEW base \in OutCurrent, NEW edges \in Seq(ClosedEdges), NEW name, NEW t
  PROVE  Times(FollowAll(base, edges, name).out, t) =
           Times(base.out, t) + Occurrences(edges, [name |-> name, id |-> t])
<1> DEFINE N == Len(edges)
           P == {j \in DOMAIN edges : edges[j] = [name |-> name, id |-> t]}
<1>1. N \in Nat /\ DOMAIN edges = 1 .. N /\ \A n \in 1 .. N : edges[n] \in ClosedEdges
  BY LenProperties, ElementOfSeq
<1>2. PICK it : /\ EdgeByEdge(it, edges, name, OutCurrent, base)
                /\ FollowAll(base, edges, name) = it[1 .. Len(edges)]
  BY FollowPrefixes DEF OutCurrent
<1>3. /\ it[1 .. 0] = base
      /\ \A n \in 0 .. N : it[1 .. n] \in OutCurrent
      /\ \A n \in 1 .. N : it[1 .. n] = Follow(it[1 .. n - 1], edges[n], name)
  <2>1. \A n \in 1 .. N : n - 1 \in 0 .. N
    BY <1>1
  <2> QED BY <1>2, <2>1 DEF EdgeByEdge, FollowSteps, Prefixed
<1> DEFINE Right(n) == Times(it[1 .. n].out, t) = Times(base.out, t) + Cardinality(P \cap (1 .. n))
           G == {n \in 0 .. N : Right(n)}
<1>4. Times(base.out, t) \in Nat
  BY TimesType DEF OutCurrent, OutAcc
<1>5. 0 \in G
  <2>1. P \cap (1 .. 0) = {}
    OBVIOUS
  <2>2. Cardinality(P \cap (1 .. 0)) = 0
    BY <2>1, FS_EmptySet
  <2>3. 0 \in 0 .. N
    BY <1>1
  <2> HIDE DEF P
  <2> QED BY <1>3, <1>4, <2>2, <2>3
<1> HIDE DEF P
<1>6. \A n \in 0 .. N - 1 : n \in G => n + 1 \in G
  <2> SUFFICES ASSUME NEW n \in 0 .. N - 1, n \in G
               PROVE  n + 1 \in G
    OBVIOUS
  <2> DEFINE m == n + 1
  <2>1. m \in 1 .. N /\ m - 1 = n /\ n \in Nat /\ n \in 0 .. N /\ m \in 0 .. N
    BY <1>1
  <2>2. /\ Cardinality(P \cap (1 .. n)) \in Nat
        /\ Cardinality(P \cap (1 .. m)) = Cardinality(P \cap (1 .. n)) + IF m \in P THEN 1 ELSE 0
    BY <2>1, CountMore
  <2> HIDE DEF m
  <2>3. it[1 .. m] = Follow(it[1 .. n], edges[m], name) /\ it[1 .. n] \in OutCurrent
    BY <1>3, <2>1
  <2>4. m \in P <=> edges[m] = [name |-> name, id |-> t]
    BY <1>1, <2>1 DEF P
  <2>5. Times(it[1 .. m].out, t) = Times(it[1 .. n].out, t) + IF m \in P THEN 1 ELSE 0
    <3> DEFINE e == edges[m]
               acc == it[1 .. n]
    <3>1. e \in ClosedEdges /\ acc \in OutCurrent
      BY <1>1, <2>1, <2>3
    <3> HIDE DEF e, acc
    <3>2. AddsEnd(acc, e, name, t)
      BY <3>1, FollowTimes
    <3>3. e = [name |-> name, id |-> t] <=> e.name = name /\ e.id = t
      BY <3>1 DEF ClosedEdges, Edge
    <3> QED BY <2>3, <2>4, <3>2, <3>3 DEF e, acc, AddsEnd
  <2>6. Right(n)
    OBVIOUS
  <2>7. Right(m)
    BY <1>4, <2>2, <2>5, <2>6
  <2>8. m \in G
    BY <2>1, <2>7
  <2> QED BY <2>8 DEF m
<1>7. N \in G
  <2> HIDE DEF G
  <2>1. N \in 0 .. N
    BY <1>1
  <2> QED BY <1>1, <1>5, <1>6, <2>1, IntervalInduction
<1>8. P \cap (1 .. N) = P
  BY <1>1 DEF P
<1> QED BY <1>2, <1>7, <1>8 DEF P, Occurrences

(* A list reversed has an element as often, a number of times. *)
LEMMA ReverseTimes ==
  ASSUME NEW S, NEW s \in Seq(S), NEW x
  PROVE  Occurrences(Reverse(s), x) = Occurrences(s, x) /\ Occurrences(s, x) \in Nat
<1> DEFINE n == Len(s)
           r == Reverse(s)
           A == {j \in DOMAIN s : s[j] = x}
           B == {j \in DOMAIN r : r[j] = x}
           f == [j \in A |-> (n - j) + 1]
<1>1. n \in Nat /\ DOMAIN s = 1 .. n
  BY LenProperties
<1>2. r = [j \in 1 .. n |-> s[(n - j) + 1]]
  BY DEF Reverse
<1> HIDE DEF n, r
<1>3. \A j \in 1 .. n : (n - j) + 1 \in 1 .. n /\ (n - ((n - j) + 1)) + 1 = j
  BY <1>1
<1>4. A \subseteq 1 .. n /\ \A j \in 1 .. n : j \in A <=> s[j] = x
  BY <1>1
<1>5. \A j \in 1 .. n : r[j] = s[(n - j) + 1]
  BY <1>2
<1>6. B \subseteq 1 .. n /\ \A j \in 1 .. n : j \in B <=> s[(n - j) + 1] = x
  BY <1>2, <1>5
<1> HIDE DEF A, B
<1>7. f \in [A -> B]
  <2>1. \A j \in A : (n - j) + 1 \in B
    BY <1>3, <1>4, <1>6
  <2> QED BY <2>1
<1>8. \A j, h \in A : f[j] = f[h] => j = h
  <2>1. \A j \in A : f[j] = (n - j) + 1 /\ j \in Int
    BY <1>4
  <2> HIDE DEF f
  <2> QED BY <1>1, <2>1
<1>9. \A y \in B : \E j \in A : f[j] = y
  <2> SUFFICES ASSUME NEW y \in B
               PROVE  \E j \in A : f[j] = y
    OBVIOUS
  <2>1. (n - y) + 1 \in A
    BY <1>3, <1>4, <1>6
  <2>2. f[(n - y) + 1] = y
    BY <1>3, <1>6, <2>1
  <2> QED BY <2>1, <2>2
<1>10. IsFiniteSet(A)
  <2>1. IsFiniteSet(1 .. n)
    BY <1>1, FS_Interval
  <2> QED BY <1>4, <2>1, FS_Subset
<1> HIDE DEF f
<1>11. Cardinality(A) = Cardinality(B)
  BY <1>7, <1>8, <1>9, <1>10, SameCount
<1>12. Cardinality(A) \in Nat
  BY <1>10, FS_CardinalityType
<1> QED BY <1>11, <1>12 DEF A, B, r, Occurrences

(* The edges of a node of the file lead to nodes of the file. *)
LEMMA EdgesClosed ==
  ASSUME GoodFile(file), Closed, NEW p \in LiveIds(file)
  PROVE  file[p + 1].edges \in Seq(ClosedEdges)
<1> DEFINE s == file[p + 1].edges
<1>1. s \in Seq(Edge)
  <2>1. file[p + 1] \in Page /\ file[p + 1].type = start_node
    BY FileType DEF LiveIds
  <2>2. EmptyPage.type # start_node
    BY DEF EmptyPage, empty_page, start_node
  <2> QED BY <2>1, <2>2 DEF Page, NodePage
<1>2. \A e \in Range(s) : e.id \in LiveIds(file)
  BY DEF Closed
<1> HIDE DEF s
<1>3. Len(s) \in Nat /\ s \in [1 .. Len(s) -> Edge]
  BY <1>1, LenProperties
<1>4. \A j \in 1 .. Len(s) : s[j] \in ClosedEdges
  BY <1>2, <1>3 DEF Range, ClosedEdges
<1> QED BY <1>3, <1>4 DEF s

(* One node of an out statement adds as many as edges lead from it.        *)
AddsEnds(acc, p, name, t) ==
  /\ EdgesTo(p, name, t) \in Nat
  /\ Times(find_edge_page(acc, NodeAt(p), name).out, t) =
       Times(acc.out, t) + EdgesTo(p, name, t)

(* It does, if all ids fit a signed char. *)
LEMMA FindEdgePageTimes ==
  ASSUME GoodFile(file), Closed, Len(file) <= CharRange,
         NEW acc \in OutCurrent, NEW p \in LiveIds(file), NEW name, NEW t
  PROVE  AddsEnds(acc, p, name, t)
<1> DEFINE s == file[p + 1].edges
           n == get_node_page(file, p)
           base == [acc EXCEPT !.pos = n.id + 1]
           x == [name |-> name, id |-> t]
<1>1. p \in Nat /\ p < Len(file) /\ Len(file) \in Nat /\ p \in Ids(file)
  BY FileType DEF LiveIds, Ids
<1>2. NodeAt(p).id = p
  BY <1>1, NodeAtType
<1>3. Found(file, p) /\ n = page_to_node(file[p + 1]) /\ n.id = p
  BY <1>1, CharRangeAssumption, LowLookup, LookupPage
<1>4. n.edges = Reverse(s)
  BY <1>3 DEF page_to_node
<1>5. find_edge_page(acc, NodeAt(p), name) = FollowAll(base, n.edges, name)
  BY <1>2, <1>3 DEF find_edge_page, OutCurrent, OutAcc
<1> HIDE DEF n
<1>6. base \in OutCurrent /\ base.out = acc.out
  <2> DEFINE at == n.id + 1
  <2>1. at \in Nat
    BY <1>1, <1>3
  <2> HIDE DEF at
  <2>2. [acc EXCEPT !.pos = at] \in OutCurrent /\ [acc EXCEPT !.pos = at].out = acc.out
    BY <2>1 DEF OutCurrent, OutAcc
  <2> QED BY <2>2 DEF at
<1>7. s \in Seq(ClosedEdges)
  BY EdgesClosed
<1>8. EdgesTo(p, name, t) = Occurrences(s, x)
  BY DEF EdgesTo
<1> HIDE DEF s, base
<1>9. Reverse(s) \in Seq(ClosedEdges)
  BY <1>7, ReverseType
<1>10. Leads(ClosedEdges, Current, {FALSE})
  BY ClosedReaches
<1>11. Times(FollowAll(base, Reverse(s), name).out, t) =
         Times(base.out, t) + Occurrences(Reverse(s), x)
  <2> DEFINE r == Reverse(s)
  <2> HIDE DEF r
  <2>1. Times(FollowAll(base, r, name).out, t) = Times(base.out, t) + Occurrences(r, x)
    BY <1>6, <1>9, <1>10, FollowAllTimes DEF r
  <2> QED BY <2>1 DEF r
<1> HIDE DEF x
<1>12. Occurrences(Reverse(s), x) = Occurrences(s, x) /\ Occurrences(s, x) \in Nat
  BY <1>7, ReverseTimes
<1> QED BY <1>4, <1>5, <1>6, <1>8, <1>11, <1>12 DEF AddsEnds

(* The walks that end in t, one edge after those that w counts; how often  *)
(* a list has each node of the file; and every node with this name once.   *)
Flow(w, name, t) == [p \in LiveIds(file) |-> w[p] * EdgesTo(p, name, t)]
Counts(s)        == [p \in LiveIds(file) |-> Times(s, p)]
Starts(name)     ==
  [p \in LiveIds(file) |-> IF name \in {AnyName, file[p + 1].name} THEN 1 ELSE 0]

Walks == [LiveIds(file) -> Nat]

(* They can be summed. *)
LEMMA FlowHeights ==
  ASSUME GoodFile(file), Closed, NEW w \in Walks, NEW name, NEW t
  PROVE  /\ IsFiniteSet(LiveIds(file))
         /\ \A p \in LiveIds(file) : /\ EdgesTo(p, name, t) \in Nat
                                     /\ Flow(w, name, t)[p] = w[p] * EdgesTo(p, name, t)
         /\ Heights(Flow(w, name, t), LiveIds(file))
<1>1. IsFiniteSet(LiveIds(file))
  <2>1. Len(file) \in Nat /\ LiveIds(file) \subseteq 0 .. Len(file) - 1
    BY FileType DEF LiveIds, Ids
  <2>2. IsFiniteSet(0 .. Len(file) - 1)
    BY <2>1, FS_Interval
  <2> QED BY <2>1, <2>2, FS_Subset
<1>2. ASSUME NEW p \in LiveIds(file)
      PROVE  EdgesTo(p, name, t) \in Nat
  BY EdgesClosed, ReverseTimes DEF EdgesTo
<1>3. \A p \in LiveIds(file) : Flow(w, name, t)[p] = w[p] * EdgesTo(p, name, t)
  BY DEF Flow
<1>4. \A p \in LiveIds(file) : w[p] * EdgesTo(p, name, t) \in Nat
  <2> SUFFICES ASSUME NEW p \in LiveIds(file)
               PROVE  w[p] * EdgesTo(p, name, t) \in Nat
    OBVIOUS
  <2> DEFINE a == w[p]
             b == EdgesTo(p, name, t)
  <2>1. a \in Nat /\ b \in Nat
    BY <1>2 DEF Walks
  <2> HIDE DEF a, b
  <2>2. a * b \in Nat
    BY <2>1
  <2> QED BY <2>2 DEF a, b
<1> QED BY <1>1, <1>2, <1>3, <1>4 DEF Heights

(* v counts one walk more than w, to p. *)
OneWalkMore(v, w, p) ==
  /\ v \in Walks /\ w \in Walks /\ p \in LiveIds(file)
  /\ v[p] = w[p] + 1
  /\ \A q \in LiveIds(file) \ {p} : v[q] = w[q]

(* It is continued along each edge from p. *)
LEMMA FlowOneMore ==
  ASSUME GoodFile(file), Closed, NEW v, NEW w, NEW p, OneWalkMore(v, w, p), NEW name, NEW t
  PROVE  Total(Flow(v, name, t), LiveIds(file)) =
           Total(Flow(w, name, t), LiveIds(file)) + EdgesTo(p, name, t)
<1> DEFINE L == LiveIds(file)
           M == L \ {p}
           fv == Flow(v, name, t)
           fw == Flow(w, name, t)
           e == EdgesTo(p, name, t)
<1>1. /\ v \in Walks /\ w \in Walks /\ p \in L
      /\ v[p] = w[p] + 1 /\ \A q \in M : v[q] = w[q]
  BY DEF OneWalkMore
<1>2. /\ Heights(fv, L) /\ Heights(fw, L) /\ e \in Nat /\ w[p] \in Nat
      /\ \A q \in L : fv[q] = v[q] * EdgesTo(q, name, t) /\ fw[q] = w[q] * EdgesTo(q, name, t)
  <2>1. Heights(fv, L) /\ \A q \in L : fv[q] = v[q] * EdgesTo(q, name, t)
    BY <1>1, FlowHeights
  <2>2. Heights(fw, L) /\ \A q \in L : fw[q] = w[q] * EdgesTo(q, name, t)
    BY <1>1, FlowHeights
  <2>3. e \in Nat
    BY <1>1, FlowHeights
  <2>4. w[p] \in Nat
    BY <1>1 DEF Walks
  <2> QED BY <2>1, <2>2, <2>3, <2>4
<1> HIDE DEF fv, fw
<1>3. \A q \in M : fv[q] = fw[q]
  BY <1>1, <1>2
<1>4. fv[p] = (w[p] + 1) * e /\ fw[p] = w[p] * e
  BY <1>1, <1>2
<1> HIDE DEF e, L, M
<1>5. fv[p] = fw[p] + e /\ fw[p] \in Nat
  <2> DEFINE x == w[p]
  <2>1. x \in Nat
    BY <1>2
  <2> HIDE DEF x
  <2>2. (x + 1) * e = x * e + e /\ x * e \in Nat
    BY <1>2, <2>1
  <2> QED BY <1>4, <2>2 DEF x
<1>6. Total(fv, M) = Total(fw, M)
  BY <1>3, TotalSame
<1>7. /\ Total(fv, L) = fv[p] + Total(fv, M)
      /\ Total(fw, L) = fw[p] + Total(fw, M)
  BY <1>1, <1>2, TotalSum DEF M
<1>8. Total(fw, M) \in Nat
  <2>1. Heights(fw, M)
    BY <1>2, FS_Subset DEF Heights, M
  <2> QED BY <2>1, TotalSum
<1>9. Total(fv, L) = Total(fw, L) + e
  BY <1>2, <1>5, <1>6, <1>7, <1>8
<1> QED BY <1>9 DEF fv, fw, L, e

(* Without walks there are none to continue. *)
LEMMA FlowNone ==
  ASSUME NEW w, \A p \in LiveIds(file) : w[p] = 0, NEW name, NEW t,
         \A p \in LiveIds(file) : EdgesTo(p, name, t) \in Nat
  PROVE  Total(Flow(w, name, t), LiveIds(file)) = 0
<1>1. \A p \in LiveIds(file) : Flow(w, name, t)[p] = 0
  BY DEF Flow
<1>2. Cells(Flow(w, name, t), LiveIds(file)) = {}
  <2> DEFINE f == Flow(w, name, t)
  <2> HIDE DEF f
  <2>1. \A p \in LiveIds(file) : f[p] = 0
    BY <1>1 DEF f
  <2>2. Cells(f, LiveIds(file)) = {}
    BY <2>1 DEF Cells
  <2> QED BY <2>2 DEF f
<1> QED BY <1>2, FS_EmptySet DEF Total

(* An out statement lists t as often as there are walks, of one edge more  *)
(* than to the nodes it starts from, that end in t.                        *)
LEMMA OutsTimes ==
  ASSUME GoodFile(file), Closed, Len(file) <= CharRange, pos \in Nat,
         NEW nodes \in Seq(Current), NEW name, NEW junk \in Buffer, NEW t
  PROVE  Times(Outs(nodes, name, junk).out, t) =
           Total(Flow(Counts(nodes), name, t), LiveIds(file))
<1> DEFINE N == Len(nodes)
           L == LiveIds(file)
           P(p) == {j \in DOMAIN nodes : nodes[j].id = p}
           c(n) == [p \in L |-> Cardinality(P(p) \cap (1 .. n))]
<1>1. N \in Nat /\ DOMAIN nodes = 1 .. N /\ \A n \in 1 .. N : nodes[n] \in Current
  BY LenProperties, ElementOfSeq
<1>2. Carries(Current, ClosedEdges, Current, {TRUE}, {FALSE})
  BY ClosedReaches DEF Carries, FoundAll
<1>3. PICK it : /\ NodeByNode(it, nodes, name, OutCurrent, OutStart(junk))
                /\ Outs(nodes, name, junk) = it[1 .. Len(nodes)]
  BY <1>2, OutPrefixes DEF OutCurrent
<1>4. /\ it[1 .. 0] = OutStart(junk)
      /\ \A n \in 0 .. N : it[1 .. n] \in OutCurrent
      /\ \A n \in 1 .. N : it[1 .. n] = find_edge_page(it[1 .. n - 1], nodes[n], name)
  <2>1. \A n \in 1 .. N : n - 1 \in 0 .. N
    BY <1>1
  <2> QED BY <1>3, <2>1 DEF NodeByNode, OutSteps, Prefixed
<1>5. ASSUME NEW n \in 0 .. N
      PROVE  c(n) \in Walks
  <2>1. \A p \in L : Cardinality(P(p) \cap (1 .. n)) \in Nat
    <3>1. n \in Nat
      BY <1>1
    <3> HIDE DEF P
    <3> QED BY <3>1, CountMore
  <2> QED BY <2>1 DEF Walks
<1>6. ASSUME NEW n \in 1 .. N
      PROVE  \E p \in L : nodes[n] = NodeAt(p) /\ OneWalkMore(c(n), c(n - 1), p)
  <2>1. PICK p \in L : nodes[n] = NodeAt(p)
    BY <1>1 DEF Current
  <2>2. \A q \in L : NodeAt(q).id = q
    BY NodeAtType DEF LiveIds
  <2>3. n \in Nat /\ n - 1 \in Nat /\ n - 1 \in 0 .. N /\ n \in 0 .. N /\ (n - 1) + 1 = n
    BY <1>1
  <2>4. \A q \in L : n \in P(q) <=> q = p
    BY <1>1, <2>1, <2>2
  <2> HIDE DEF P
  <2>5. ASSUME NEW q \in L
        PROVE  c(n)[q] = c(n - 1)[q] + IF n \in P(q) THEN 1 ELSE 0
    <3> DEFINE m == n - 1
    <3>1. m \in Nat /\ m + 1 = n
      BY <2>3
    <3> HIDE DEF m
    <3>2. Cardinality(P(q) \cap (1 .. m + 1)) =
            Cardinality(P(q) \cap (1 .. m)) + IF m + 1 \in P(q) THEN 1 ELSE 0
      BY <3>1, CountMore
    <3>3. Cardinality(P(q) \cap (1 .. n)) =
            Cardinality(P(q) \cap (1 .. m)) + IF n \in P(q) THEN 1 ELSE 0
      BY <3>1, <3>2
    <3> QED BY <3>3 DEF m
  <2>6. c(n) \in Walks /\ c(n - 1) \in Walks
    BY <1>5, <2>3
  <2> HIDE DEF c
  <2>7. OneWalkMore(c(n), c(n - 1), p)
    BY <2>4, <2>5, <2>6 DEF OneWalkMore, Walks
  <2> QED BY <2>1, <2>7
<1> DEFINE Right(n) == Times(it[1 .. n].out, t) = Total(Flow(c(n), name, t), L)
           G == {n \in 0 .. N : Right(n)}
<1>7. 0 \in G
  <2>1. 0 \in 0 .. N
    BY <1>1
  <2>2. \A p \in L : c(0)[p] = 0
    <3>1. \A p \in L : P(p) \cap (1 .. 0) = {}
      OBVIOUS
    <3> HIDE DEF P
    <3> QED BY <3>1, FS_EmptySet
  <2>3. c(0) \in Walks
    BY <1>5, <2>1
  <2> HIDE DEF c
  <2>4. Total(Flow(c(0), name, t), L) = 0
    BY <2>2, <2>3, FlowHeights, FlowNone
  <2>5. Times(it[1 .. 0].out, t) = 0
    <3>1. it[1 .. 0].out = << >> /\ DOMAIN << >> = {}
      BY <1>4 DEF OutStart
    <3>2. {j \in DOMAIN it[1 .. 0].out : it[1 .. 0].out[j].id = t} = {}
      BY <3>1
    <3> QED BY <3>2, FS_EmptySet DEF Times
  <2> QED BY <2>1, <2>4, <2>5
<1>8. \A n \in 0 .. N - 1 : n \in G => n + 1 \in G
  <2> SUFFICES ASSUME NEW n \in 0 .. N - 1, Right(n)
               PROVE  n + 1 \in G
    OBVIOUS
  <2> DEFINE m == n + 1
  <2>1. m \in 1 .. N /\ m - 1 = n /\ n \in Nat /\ n \in 0 .. N /\ m \in 0 .. N
    BY <1>1
  <2> HIDE DEF m, c
  <2>2. PICK p \in L : nodes[m] = NodeAt(p) /\ OneWalkMore(c(m), c(n), p)
    BY <1>6, <2>1
  <2> DEFINE acc == it[1 .. n]
  <2>3. acc \in OutCurrent /\ it[1 .. m] = find_edge_page(acc, NodeAt(p), name)
    BY <1>4, <2>1, <2>2
  <2>4. Times(acc.out, t) = Total(Flow(c(n), name, t), L)
    OBVIOUS
  <2> HIDE DEF acc
  <2>5. AddsEnds(acc, p, name, t)
    BY <2>3, FindEdgePageTimes
  <2>6. Total(Flow(c(m), name, t), L) = Total(Flow(c(n), name, t), L) + EdgesTo(p, name, t)
    BY <2>2, FlowOneMore
  <2>7. Right(m)
    BY <2>3, <2>4, <2>5, <2>6 DEF AddsEnds
  <2>8. m \in G
    BY <2>1, <2>7
  <2> QED BY <2>8 DEF m
<1>9. N \in G
  <2> HIDE DEF G
  <2>1. N \in 0 .. N
    BY <1>1
  <2> QED BY <1>1, <1>7, <1>8, <2>1, IntervalInduction
<1>10. c(N) = Counts(nodes)
  <2>1. \A p \in L : P(p) \cap (1 .. N) = P(p)
    BY <1>1
  <2> QED BY <2>1 DEF Counts, Times
<1> QED BY <1>3, <1>9, <1>10

-----------------------------------------------------------------------------
(* WalkEnds.                                                               *)

(* Its step. *)
WalkStep(w, s) ==
  [t \in LiveIds(file) |->
     MapThenSumSet(
       LAMBDA p : w[p] * Cardinality({j \in DOMAIN file[p + 1].edges :
                    file[p + 1].edges[j] = [name |-> s.value, id |-> t]}),
       LiveIds(file))]

(* It continues the walks along the edges that s names. *)
LEMMA WalkStepFlow ==
  ASSUME GoodFile(file), Closed, NEW w \in Walks, NEW s
  PROVE  /\ WalkStep(w, s) \in Walks
         /\ \A t \in LiveIds(file) :
              WalkStep(w, s)[t] = Total(Flow(w, s.value, t), LiveIds(file))
<1> DEFINE L == LiveIds(file)
           name == s.value
<1>1. ASSUME NEW t \in L
      PROVE  WalkStep(w, s)[t] = Total(Flow(w, name, t), L)
  <2> DEFINE f == Flow(w, name, t)
             term(p) == w[p] * Cardinality({j \in DOMAIN file[p + 1].edges :
                          file[p + 1].edges[j] = [name |-> name, id |-> t]})
             Eq(h) == h = [u \in SUBSET L |->
                        IF u = {} THEN 0
                        ELSE term(CHOOSE x \in u : TRUE) + h[u \ {CHOOSE x \in u : TRUE}]]
             it == CHOOSE it : Eq(it)
  <2>1. WalkStep(w, s)[t] = it[L]
    BY DEF WalkStep, MapThenSumSet, MapThenFoldSet
  <2>2. \A p \in L : term(p) = f[p]
    BY DEF Flow, EdgesTo, Occurrences
  <2>3. Heights(f, L)
    BY FlowHeights
  <2> HIDE DEF f, term
  <2>4. ASSUME NEW h, h = [u \in SUBSET L |-> h[u]]
        PROVE  Eq(h) <=> Sums(h, f, L)
    <3>1. \A u \in SUBSET L : u # {} => (CHOOSE x \in u : TRUE) \in L
      OBVIOUS
    <3>2. \A u \in SUBSET L : u # {} => term(CHOOSE x \in u : TRUE) = f[CHOOSE x \in u : TRUE]
      BY <2>2, <3>1
    <3> QED BY <2>4, <3>2, ZenonT(30) DEF Sums
  <2>5. \E h : Eq(h)
    <3> DEFINE h == [u \in SUBSET L |-> Total(f, u)]
    <3>1. Sums(h, f, L)
      BY <2>3, SumsExist
    <3>2. h = [u \in SUBSET L |-> h[u]]
      OBVIOUS
    <3> HIDE DEF h, Eq
    <3>3. Eq(h)
      BY <2>4, <3>1, <3>2
    <3> QED BY <3>3
  <2>6. Eq(it)
    <3> HIDE DEF Eq
    <3> QED BY <2>5
  <2>7. it = [u \in SUBSET L |-> it[u]]
    <3> HIDE DEF it
    <3> QED BY <2>6
  <2>8. Sums(it, f, L)
    <3> HIDE DEF it, Eq
    <3> QED BY <2>4, <2>6, <2>7
  <2> HIDE DEF it
  <2>9. it[L] = Total(f, L)
    BY <2>3, <2>8, SumsTotal
  <2> QED BY <2>1, <2>9 DEF f
<1>2. \A t \in L : Total(Flow(w, name, t), L) \in Nat
  BY FlowHeights, TotalSum
<1>3. \A t \in L : WalkStep(w, s)[t] \in Nat
  BY <1>1, <1>2
<1>4. WalkStep(w, s) \in Walks
  <2>1. WalkStep(w, s) = [t \in L |-> WalkStep(w, s)[t]]
    BY DEF WalkStep
  <2> QED BY <1>3, <2>1 DEF Walks
<1> QED BY <1>1, <1>4

(* WalkEnds takes one statement after the other. *)
WalkSteps(ss) == [n \in 1 .. Len(ss) |-> [w \in Walks |-> WalkStep(w, ss[n])]]

(* There is a row of results that ends with it. *)
LEMMA WalkFolds ==
  ASSUME GoodFile(file), Closed, NEW X, NEW ss \in Seq(X), NEW name
  PROVE  /\ Starts(name) \in Walks
         /\ WalkSteps(ss) \in [1 .. Len(ss) -> [Walks -> Walks]]
         /\ \E it : /\ FoldsIn(it, Len(ss), Walks, Starts(name), WalkSteps(ss))
                    /\ WalkEnds(name, ss) = it[1 .. Len(ss)]
<1> DEFINE N == Len(ss)
           base == Starts(name)
           F == WalkSteps(ss)
           Step(h, u) == IF u = {} THEN base ELSE WalkStep(h[u \ {Max(u)}], ss[Max(u)])
           it == CHOOSE it : it = [u \in SUBSET (1 .. N) |-> Step(it, u)]
<1>1. N \in Nat /\ DOMAIN ss = 1 .. N
  BY LenProperties
<1>2. base \in Walks
  BY DEF Starts, Walks
<1>3. F \in [1 .. N -> [Walks -> Walks]]
  BY WalkStepFlow DEF WalkSteps
<1>4. WalkEnds(name, ss) = it[1 .. N]
  BY <1>1 DEF WalkEnds, FoldLeft, MapThenFoldSet, Starts, WalkStep
<1>5. \A n \in 1 .. N : \A w \in Walks : F[n][w] = WalkStep(w, ss[n])
  BY DEF WalkSteps
<1> HIDE DEF base, N, F
<1>6. \E h : IsFold(h, N, Walks, base, F)
  BY <1>1, <1>2, <1>3, FoldExists
<1>7. \A u \in SUBSET (1 .. N) : u # {} => Max(u) \in 1 .. N /\ u \ {Max(u)} \in SUBSET (1 .. N)
  BY <1>1, MaxProperty
<1>8. PICK h : h = [u \in SUBSET (1 .. N) |-> Step(h, u)]
  <2>1. PICK h : IsFold(h, N, Walks, base, F)
    BY <1>6
  <2>2. \A u \in SUBSET (1 .. N) : u # {} => h[u] = WalkStep(h[u \ {Max(u)}], ss[Max(u)])
    BY <1>5, <1>7, <2>1 DEF IsFold
  <2>3. h = [u \in SUBSET (1 .. N) |-> Step(h, u)]
    BY <2>1, <2>2 DEF IsFold
  <2> QED BY <2>3
<1> HIDE DEF Step
<1>9. it = [u \in SUBSET (1 .. N) |-> Step(it, u)]
  BY <1>8
<1> HIDE DEF it
<1>10. FoldsIn(it, N, Walks, base, F)
  BY <1>5, <1>7, <1>9 DEF Step, FoldsIn
<1> QED BY <1>2, <1>3, <1>4, <1>10 DEF N, F, base

(* No statement leads nowhere, and one more goes one edge further. *)
LEMMA WalkEndsMore ==
  ASSUME GoodFile(file), Closed, NEW X, NEW ss \in Seq(X), NEW s \in X, NEW name
  PROVE  /\ WalkEnds(name, ss) \in Walks
         /\ WalkEnds(name, Append(ss, s)) = WalkStep(WalkEnds(name, ss), s)
<1> DEFINE N == Len(ss)
           r == Append(ss, s)
           F == WalkSteps(ss)
           H == WalkSteps(r)
           base == Starts(name)
<1>1. N \in Nat /\ DOMAIN ss = 1 .. N
  BY LenProperties
<1>2. r \in Seq(X) /\ Len(r) = N + 1 /\ r[N + 1] = s /\ \A n \in 1 .. N : r[n] = ss[n]
  BY <1>1
<1> HIDE DEF r, N
<1>3. PICK it : FoldsIn(it, N, Walks, base, F) /\ WalkEnds(name, ss) = it[1 .. N]
  BY WalkFolds DEF N
<1>4. PICK next : FoldsIn(next, N + 1, Walks, base, H) /\ WalkEnds(name, r) = next[1 .. N + 1]
  BY <1>2, WalkFolds
<1>5. base \in Walks /\ F \in [1 .. N -> [Walks -> Walks]]
  BY WalkFolds DEF N
<1>6. H \in [1 .. N + 1 -> [Walks -> Walks]]
  BY <1>2, WalkFolds
<1>7. \A n \in 1 .. N : F[n] = H[n]
  <2>1. \A n \in 1 .. N : n \in 1 .. N + 1
    BY <1>1
  <2> QED BY <1>2, <2>1 DEF WalkSteps, N
<1>8. \A w \in Walks : H[N + 1][w] = WalkStep(w, s)
  <2>1. N + 1 \in 1 .. N + 1
    BY <1>1
  <2> QED BY <1>2, <2>1 DEF WalkSteps
<1> HIDE DEF F, H, base
<1>9. OneStepMore(N, Walks, F, H)
  BY <1>5, <1>6, <1>7 DEF OneStepMore
<1>10. Continues(next, it, N, Walks, H)
  BY <1>1, <1>3, <1>4, <1>5, <1>9, FoldAppend
<1> QED BY <1>3, <1>4, <1>8, <1>10 DEF Continues, r

(* Without statements, every node with the name is its own end.            *)
LEMMA WalkEndsNone ==
  ASSUME GoodFile(file), Closed, NEW name
  PROVE  WalkEnds(name, << >>) = Starts(name)
<1>1. << >> \in Seq({}) /\ Len(<< >>) = 0
  BY EmptySeq
<1>2. PICK it : /\ FoldsIn(it, Len(<< >>), Walks, Starts(name), WalkSteps(<< >>))
                /\ WalkEnds(name, << >>) = it[1 .. Len(<< >>)]
  BY <1>1, WalkFolds
<1>3. 1 .. Len(<< >>) = {}
  BY <1>1
<1> QED BY <1>2, <1>3 DEF FoldsIn

(* The nodes are the ends of the walks along ss, each as often. *)
Ends(name, nodes, ss) ==
  \A t \in LiveIds(file) : Times(nodes, t) = WalkEnds(name, ss)[t]

(* V(name) lists them before the first statement. *)
LEMMA EndsStart ==
  ASSUME GoodFile(file), Closed, NEW name
  PROVE  Ends(name, find_by_name(name), << >>)
<1> DEFINE S == ByName(name)
           nodes == NodesAt(S)
<1>1. S \in SUBSET LiveIds(file) /\ find_by_name(name) = nodes
  BY DEF ByName, find_by_name
<1>2. \A t \in LiveIds(file) : Starts(name)[t] = IF t \in S THEN 1 ELSE 0
  BY DEF Starts, ByName
<1>3. \A q \in LiveIds(file) : NodeAt(q).id = q
  BY NodeAtType DEF LiveIds
<1> HIDE DEF S
<1>4. Lists(nodes, S)
  BY <1>1, ListsNodesAt
<1> HIDE DEF nodes
<1>5. /\ nodes \in Seq({NodeAt(t) : t \in S})
      /\ \A t \in S : \E x \in 1 .. Len(nodes) : nodes[x] = NodeAt(t)
      /\ \A x, y \in 1 .. Len(nodes) : nodes[x] = nodes[y] => x = y
  BY <1>4 DEF Lists
<1>6. DOMAIN nodes = 1 .. Len(nodes)
      /\ \A x \in 1 .. Len(nodes) : \E t \in S : nodes[x] = NodeAt(t)
  BY <1>5, LenProperties, ElementOfSeq
<1>7. ASSUME NEW t \in LiveIds(file)
      PROVE  Times(nodes, t) = IF t \in S THEN 1 ELSE 0
  <2> DEFINE J == {j \in DOMAIN nodes : nodes[j].id = t}
  <2>1. CASE t \in S
    <3>1. PICK x \in 1 .. Len(nodes) : nodes[x] = NodeAt(t)
      BY <1>5, <2>1
    <3>2. \A y \in 1 .. Len(nodes) : nodes[y].id = t => nodes[y] = NodeAt(t)
      BY <1>1, <1>3, <1>6
    <3>3. J = {x}
      BY <1>3, <1>5, <1>6, <3>1, <3>2
    <3>4. Cardinality({x}) = 1
      BY FS_Singleton
    <3> QED BY <2>1, <3>3, <3>4 DEF Times
  <2>2. CASE t \notin S
    <3>1. J = {}
      BY <1>1, <1>3, <1>6, <2>2
    <3> QED BY <2>2, <3>1, FS_EmptySet DEF Times
  <2> QED BY <2>1, <2>2
<1> QED BY <1>1, <1>2, <1>7, WalkEndsNone DEF Ends

(* An out statement leads to the ends of the walks that are one edge       *)
(* longer.                                                                 *)
LEMMA EndsMore ==
  ASSUME GoodFile(file), Closed, Len(file) <= CharRange, pos \in Nat,
         NEW X, NEW ss \in Seq(X), NEW s \in X, NEW name,
         NEW nodes \in Seq(Current), Ends(name, nodes, ss), NEW junk \in Buffer
  PROVE  Ends(name, Outs(nodes, s.value, junk).out, Append(ss, s))
<1> DEFINE w == WalkEnds(name, ss)
<1>1. w \in Walks /\ WalkEnds(name, Append(ss, s)) = WalkStep(w, s)
  BY WalkEndsMore
<1>2. Counts(nodes) = w
  <2>1. \A t \in LiveIds(file) : Times(nodes, t) = w[t]
    BY DEF Ends
  <2> HIDE DEF w
  <2>2. w = [t \in LiveIds(file) |-> w[t]]
    BY <1>1 DEF Walks
  <2> QED BY <2>1, <2>2 DEF Counts
<1> HIDE DEF w
<1>3. \A t \in LiveIds(file) :
        WalkStep(w, s)[t] = Total(Flow(w, s.value, t), LiveIds(file))
  BY <1>1, WalkStepFlow
<1> DEFINE label == s.value
<1> HIDE DEF label
<1>4. \A t : Times(Outs(nodes, label, junk).out, t) =
               Total(Flow(Counts(nodes), label, t), LiveIds(file))
  BY OutsTimes
<1> QED BY <1>1, <1>2, <1>3, <1>4 DEF Ends, label

(* next is now and one element of X more, at n. *)
OneFurther(now, next, x, n, X) ==
  /\ now \in Seq(X) /\ x \in X
  /\ next = Append(now, x)
  /\ \A j \in DOMAIN now : j \in DOMAIN next /\ next[j] = now[j]
  /\ n \in DOMAIN next /\ next[n] = x

(* So are the statements up to the next one. *)
LEMMA OneStatementMore ==
  ASSUME NEW X, NEW ss \in Seq(X), NEW n \in 1 .. Len(ss)
  PROVE  OneFurther(SubSeq(ss, 1, n - 1), SubSeq(ss, 1, n), ss[n], n, X)
<1> DEFINE now  == SubSeq(ss, 1, n - 1)
           next == SubSeq(ss, 1, n)
<1>1. Len(ss) \in Nat /\ n \in Nat /\ \A j \in 1 .. Len(ss) : ss[j] \in X
  BY LenProperties, ElementOfSeq
<1>2. now \in Seq(X) /\ Len(now) = n - 1 /\ \A j \in 1 .. n - 1 : now[j] = ss[j]
  <2> DEFINE m == n - 1
  <2>1. m \in Nat /\ 1 \in Int /\ m \in Int /\ \A j \in 1 .. m : j \in 1 .. Len(ss)
    BY <1>1
  <2>2. \A j \in 1 .. m : ss[j] \in X
    BY <1>1, <2>1
  <2> HIDE DEF m
  <2>3. /\ SubSeq(ss, 1, m) \in Seq(X)
        /\ Len(SubSeq(ss, 1, m)) = IF 1 <= m THEN m - 1 + 1 ELSE 0
        /\ \A j \in 1 .. m - 1 + 1 : SubSeq(ss, 1, m)[j] = ss[1 + j - 1]
    BY <2>1, <2>2, SubSeqProperties
  <2>4. m - 1 + 1 = m /\ (~(1 <= m) => m = 0) /\ \A j \in 1 .. m : 1 + j - 1 = j
    BY <2>1
  <2>5. now = SubSeq(ss, 1, m)
    BY DEF m
  <2> HIDE DEF now
  <2>6. now \in Seq(X) /\ Len(now) = m /\ \A j \in 1 .. m : now[j] = ss[j]
    BY <2>3, <2>4, <2>5
  <2> QED BY <2>6 DEF m
<1>3. next = now \o <<ss[n]>>
  BY <1>1, SubSeqRecursiveSecond
<1> HIDE DEF now, next
<1>4. next = Append(now, ss[n])
  BY <1>1, <1>2, <1>3, AppendIsConcat
<1>5. /\ DOMAIN now = 1 .. n - 1 /\ DOMAIN next = 1 .. n
      /\ \A j \in 1 .. n - 1 : next[j] = now[j]
      /\ next[n] = ss[n]
  <2>1. DOMAIN now = 1 .. n - 1
    BY <1>2, LenProperties
  <2>2. Len(now) + 1 = n
    BY <1>1, <1>2
  <2> QED BY <1>1, <1>2, <1>4, <2>1, <2>2
<1>6. n \in 1 .. n /\ \A j \in 1 .. n - 1 : j \in 1 .. n
  BY <1>1
<1>7. ss[n] \in X
  BY <1>1
<1>8. \A j \in DOMAIN now : j \in DOMAIN next /\ next[j] = now[j]
  BY <1>5, <1>6
<1>9. n \in DOMAIN next /\ next[n] = ss[n] /\ now \in Seq(X)
  BY <1>2, <1>5, <1>6
<1>10. OneFurther(now, next, ss[n], n, X)
  BY <1>4, <1>7, <1>8, <1>9 DEF OneFurther
<1> QED BY <1>10 DEF now, next

(* The statements that a select has run. *)
Finished == SubSeq(req.statements, 1, k - 1)

(* Every step keeps them.                                                  *)
LEMMA EndsInv ==
  ASSUME JInv, SelectionIsWalkEnds, [JNext]_all
  PROVE  SelectionIsWalkEnds'
<1> USE DEF SELECT_CONDITION, OUT, DELETE
<1> SUFFICES ASSUME up', k' > 0, Closed', ~Deleting', Len(file') <= CharRange,
                    \A j \in DOMAIN Finished' : Finished'[j].type = OUT
             PROVE  Ends(req.name, g, Finished)'
  BY DEF SelectionIsWalkEnds, Ends, Times, Finished
<1>1. ASSUME file' = file
      PROVE  /\ \A name, nodes, ss : Ends(name, nodes, ss)' = Ends(name, nodes, ss)
             /\ Closed
  <2>1. Closed
    BY <1>1, SameFile
  <2>2. \A name, nodes, ss : Ends(name, nodes, ss)' = Ends(name, nodes, ss)
    BY <1>1 DEF Ends, Times, WalkEnds, FoldLeft, MapThenSumSet, MapThenFoldSet, LiveIds, Ids
  <2> QED BY <2>1, <2>2
<1>2. CASE UNCHANGED all
  <2>1. /\ file' = file /\ up' = up /\ k' = k /\ req' = req /\ g' = g
    BY <1>2 DEF all, vars
  <2>2. Deleting' = Deleting
    BY <2>1 DEF Deleting
  <2>3. Finished' = Finished
    BY <2>1 DEF Finished
  <2>4. \A j \in DOMAIN Finished : Finished[j].type = OUT
    BY <2>3
  <2>5. up /\ k > 0 /\ ~Deleting /\ Len(file) <= CharRange /\ Closed
    BY <1>1, <2>1, <2>2
  <2>6. Ends(req.name, g, Finished)
    BY <2>4, <2>5 DEF SelectionIsWalkEnds, Ends, Times, Finished
  <2> QED BY <1>1, <2>1, <2>3, <2>6
<1>3. CASE \E name, s : Select(name, s)
  <2>1. PICK name, s : Select(name, s)
    BY <1>3
  <2>2. /\ file' = file /\ k' = 1 /\ g' = find_by_name(name) /\ req'.name = name
        /\ req'.statements = s
    BY <2>1 DEF Select, Flush
  <2>3. Finished' = << >>
    BY <2>2, SubSeqEmpty DEF Finished
  <2>4. GoodFile(file)
    BY DEF JInv, Inv
  <2>5. Ends(name, find_by_name(name), << >>)
    BY <1>1, <2>2, <2>4, EndsStart
  <2> QED BY <1>1, <2>2, <2>3, <2>5
<1>4. CASE Out
  <2> DEFINE ss == req.statements
             s == ss[k]
  <2>1. /\ up /\ k > 0 /\ k \in DOMAIN ss /\ s.type = OUT /\ UNCHANGED req
        /\ GoodFile(file) /\ pos \in Nat /\ ss \in Seq(Statement)
    BY <1>4 DEF Out, Running, JInv, Inv, Selecting
  <2>2. PICK junk \in Buffers :
          Flush /\ NextStatement(Outs(g, s.value, junk).out, Outs(g, s.value, junk).pos)
    BY <1>4 DEF Out, Segfault
  <2>3. file' = file /\ k' = k + 1 /\ g' = Outs(g, s.value, junk).out
    BY <2>2 DEF Flush, NextStatement
  <2>4. k \in Nat /\ DOMAIN ss = 1 .. Len(ss) /\ Len(ss) \in Nat
    BY <2>1, LenProperties
  <2>5. ~Deleting
    BY <2>1, <2>3, <2>4 DEF Deleting
  <2>6. Closed /\ Len(file) <= CharRange /\ g \in Seq(Current)
    BY <1>1, <2>1, <2>3, <2>5 DEF JInv, Selecting
  <2>7. /\ Finished \in Seq(Statement) /\ s \in Statement
        /\ Finished' = Append(Finished, s)
        /\ \A j \in DOMAIN Finished : j \in DOMAIN Finished' /\ Finished'[j] = Finished[j]
    <3>1. OneFurther(SubSeq(ss, 1, k - 1), SubSeq(ss, 1, k), ss[k], k, Statement)
      BY <2>1, <2>4, OneStatementMore
    <3>2. Finished = SubSeq(ss, 1, k - 1) /\ Finished' = SubSeq(ss, 1, k)
      BY <2>1, <2>3, <2>4 DEF Finished
    <3> QED BY <3>1, <3>2 DEF OneFurther
  <2>8. \A j \in DOMAIN Finished : Finished[j].type = OUT
    BY <2>7
  <2> HIDE DEF s
  <2>9. Ends(req.name, g, Finished)
    BY <2>1, <2>5, <2>6, <2>8 DEF SelectionIsWalkEnds, Ends, Times, Finished
  <2>10. Ends(req.name, Outs(g, s.value, junk).out, Append(Finished, s))
    BY <2>1, <2>6, <2>7, <2>9, JunkType, EndsMore
  <2> QED BY <1>1, <2>1, <2>3, <2>7, <2>10
<1>5. CASE Filter \/ FilterByReference \/ DeleteEnd
  <2> DEFINE ss == req.statements
  <2>1. /\ k \in DOMAIN ss /\ ss[k].type # OUT /\ k > 0 /\ up /\ UNCHANGED req /\ k' = k + 1
    <3>1. ASSUME Filter
          PROVE  Running(SELECT_CONDITION) /\ UNCHANGED req /\ k' = k + 1
      BY <3>1 DEF Filter, NextStatement, Segfault
    <3>2. ASSUME FilterByReference
          PROVE  Running(SELECT_CONDITION) /\ UNCHANGED req /\ k' = k + 1
      BY <3>2 DEF FilterByReference, NextStatement, Segfault
    <3>3. ASSUME DeleteEnd
          PROVE  Running(DELETE) /\ UNCHANGED req /\ k' = k + 1
      BY <3>3 DEF DeleteEnd, NextStatement
    <3> QED BY <1>5, <3>1, <3>2, <3>3 DEF Running
  <2>2. ss \in Seq(Statement) /\ k \in 1 .. Len(ss)
    BY <2>1, LenProperties DEF JInv, Selecting
  <2>3. Finished' = SubSeq(ss, 1, k)
    BY <2>1, <2>2 DEF Finished
  <2>4. OneFurther(SubSeq(ss, 1, k - 1), SubSeq(ss, 1, k), ss[k], k, Statement)
    BY <2>2, OneStatementMore
  <2>5. k \in DOMAIN Finished' /\ Finished'[k] = ss[k]
    BY <2>3, <2>4 DEF OneFurther
  <2> QED BY <2>1, <2>5
<1>6. CASE DeleteOne
  <2>1. req' = req /\ k' = k /\ k > 0 /\ k \in Nat /\ k \in DOMAIN req.statements
        /\ req.statements[k].type = DELETE
    BY <1>6 DEF DeleteOne, Running, JInv
  <2>2. Deleting'
    BY <2>1 DEF Deleting
  <2> QED BY <2>2
<1>7. ~HeapFails
  BY DEF HeapFails, Kill, Segfault
<1> QED BY <1>2, <1>3, <1>4, <1>5, <1>6, <1>7, SelectSteps

(* V(name).out(e1).out(e2)... lists each node once for every walk along    *)
(* edges with these names that leads to it from a node with the name, for  *)
(* any file without dangling edges and any number of statements: no edge   *)
(* is followed twice, none is missed, and none leads to the wrong page.    *)
THEOREM SelectionIsAlwaysWalkEnds == JSpec => []SelectionIsWalkEnds
<1>1. JInit => SelectionIsWalkEnds
  BY DEF JInit, SelectionIsWalkEnds
<1>2. JInv /\ SelectionIsWalkEnds /\ [JNext]_all => SelectionIsWalkEnds'
  BY EndsInv
<1> QED BY <1>1, <1>2, AlwaysJInv, PTL DEF JSpec

=============================================================================
