--------------------------- MODULE DatabaseProofs ----------------------------
(***************************************************************************)
(* Database's invariants and its step property, for every number of pages  *)
(* and every set of names and values.  Inv is the inductive invariant: the *)
(* two copies of the file must be good on their own, because a kill puts   *)
(* the process back on the one it was not reading; as long as each other,  *)
(* because only then does a kill not shorten the file; and the same while  *)
(* no process runs, because then a restart removes no node.                *)
(***************************************************************************)
EXTENDS Database, PagesProofs

Inv == /\ GoodFile(file)
       /\ GoodFile(disk)
       /\ up \in BOOLEAN
       /\ Near(file, disk)
       /\ up \/ file = disk
       /\ Len(file) <= PageBound

-----------------------------------------------------------------------------
(* The shapes a step can have.                                             *)

(* A file differs from itself in no page. *)
LEMMA NearSelf == ASSUME NEW f PROVE Near(f, f)
BY DEF Near, Ids

(* add_node at the end of the file: zeros first, the node after them. *)
LEMMA AppendPage ==
  ASSUME NEW f, GoodFile(f), NEW n, Writable(n)
  PROVE  LET z == Append(f, EmptyPage)
         IN  GoodFile(z) /\ Written(z, set_node_page(z, Len(f), n))
<1> DEFINE z == Append(f, EmptyPage)
<1>1. f \in Seq(Page) /\ Len(f) \in Nat
  BY FileType DEF GoodFile
<1>2. EmptyPage \in Page
  BY DEF Page
<1>3. /\ z \in Seq(Page)
      /\ Len(z) = Len(f) + 1
      /\ \A j \in 1 .. Len(f) + 1 : z[j] = IF j = Len(f) + 1 THEN EmptyPage ELSE f[j]
  BY <1>1, <1>2
<1> HIDE DEF z
<1>4. Len(f) \in Ids(z)
  BY <1>1, <1>3 DEF Ids
<1>5. EmptyPage.type # start_node
  BY DEF EmptyPage, empty_page, start_node
<1>6. \A id \in LiveIds(z) : z[id + 1].id = id
  <2> SUFFICES ASSUME NEW id \in LiveIds(z)
               PROVE  z[id + 1].id = id
    OBVIOUS
  <2>1. id \in 0 .. Len(f) /\ z[id + 1].type = start_node
    BY <1>1, <1>3 DEF LiveIds, Ids
  <2>2. id # Len(f)
    BY <1>1, <1>3, <1>5, <2>1
  <2>3. id \in Ids(f) /\ z[id + 1] = f[id + 1]
    BY <1>1, <1>3, <2>1, <2>2 DEF Ids
  <2> QED BY <2>1, <2>3 DEF LiveIds, GoodFile
<1>7. GoodFile(z)
  BY <1>3, <1>6 DEF GoodFile
<1> QED BY <1>4, <1>7, SetNodePage DEF z

(* A page of zeros behind the others holds no node. *)
LEMMA AppendLive ==
  ASSUME NEW f, GoodFile(f)
  PROVE  LiveIds(Append(f, EmptyPage)) = LiveIds(f)
<1> DEFINE z == Append(f, EmptyPage)
<1>1. f \in Seq(Page) /\ Len(f) \in Nat
  BY FileType DEF GoodFile
<1>2. /\ Len(z) = Len(f) + 1 /\ z[Len(f) + 1] = EmptyPage
      /\ \A j \in 1 .. Len(f) : z[j] = f[j]
  BY <1>1
<1>3. EmptyPage.type # start_node
  BY DEF EmptyPage, empty_page, start_node
<1> HIDE DEF z
<1>4. \A p : p \in Ids(z) <=> p \in Ids(f) \/ p = Len(f)
  BY <1>1, <1>2 DEF Ids
<1>5. \A p \in Ids(f) : z[p + 1] = f[p + 1]
  BY <1>1, <1>2 DEF Ids
<1>6. z[Len(f) + 1].type # start_node
  BY <1>2, <1>3
<1>7. \A p : p \in LiveIds(z) <=> p \in LiveIds(f)
  BY <1>4, <1>5, <1>6 DEF LiveIds
<1> QED BY <1>7 DEF z

(* What callers hand to the operations can be written to a page. *)
LEMMA InputTypes ==
  /\ \A n \in NodeInputs : Writable(n)
  /\ EdgeInputs \subseteq Edge
<1>1. NodeIds \subseteq Nat
  BY BoundsAssumption DEF NodeIds
<1>2. \A k \in 0 .. NewAttBound : \A s \in [1 .. k -> Attribute] : s \in Seq(Attribute)
  BY BoundsAssumption
<1>3. ASSUME NEW n \in NodeInputs
      PROVE  Writable(n)
  <2>1. /\ n.name \in NodeNames
        /\ n.att \in UNION {[1 .. k -> Attribute] : k \in 0 .. NewAttBound}
        /\ n.edges \in {<< >>}
    BY DEF NodeInputs
  <2>2. n.att \in Seq(Attribute)
    BY <1>2, <2>1
  <2>3. n.edges \in Seq(Edge)
    BY <2>1, EmptySeq
  <2> QED BY <2>1, <2>2, <2>3 DEF Writable
<1>4. EdgeInputs \subseteq Edge
  BY <1>1 DEF EdgeInputs, Edge
<1> QED BY <1>3, <1>4

(* What every step does to the two copies. *)
StepShape ==
  /\ up' \in BOOLEAN
  /\ up' \/ file' = disk'
  /\ \/ file' = file /\ disk' = file
     \/ file' = disk /\ disk' = disk
     \/ Written(file, file') /\ disk' = file
     \/ /\ EmptyIds(file) = {} /\ Len(file) < PageBound
        /\ disk' = Append(file, EmptyPage)
        /\ Len(file') = Len(file) + 1
        /\ GoodFile(disk')
        /\ Written(disk', file')

(* An operation that looks a node up first only reads or writes one page. *)
LEMMA OnNodeShape ==
  ASSUME NEW id, NEW g, up \in BOOLEAN, Found(file, id) => Written(file, g),
         OnNode(id, g)
  PROVE  StepShape
BY DEF OnNode, Writes, Flush, StepShape

(* Every step has one of the shapes: one page is written, or none. *)
LEMMA NextShape ==
  ASSUME Inv, Next
  PROVE  StepShape
<1>1. GoodFile(file) /\ up \in BOOLEAN
  BY DEF Inv
<1>2. ASSUME NEW n \in NodeInputs, AddNode(n)
      PROVE  StepShape
  <2>1. Writable(n)
    BY InputTypes
  <2>2. CASE EmptyIds(file) # {}
    <3>1. EmptyIds(file) \in SUBSET Nat
      BY <1>1, FileType DEF EmptyIds
    <3>2. Min(EmptyIds(file)) \in Ids(file)
      BY <2>2, <3>1, MinProperty DEF EmptyIds
    <3>3. Written(file, file')
      BY <1>1, <1>2, <2>1, <2>2, <3>2, SetNodePage DEF AddNode, create_node_page
    <3> QED BY <1>1, <1>2, <2>2, <3>3 DEF AddNode, StepShape
  <2>3. CASE EmptyIds(file) = {}
    <3>1. /\ disk' = Append(file, EmptyPage)
          /\ file' = set_node_page(disk', Len(file), n)
          /\ up' = up
      BY <1>2, <2>3 DEF AddNode, create_node_page
    <3>2. GoodFile(disk') /\ Written(disk', file')
      BY <1>1, <2>1, <3>1, AppendPage
    <3>3. Len(file') = Len(disk')
      BY <3>2 DEF Written, Near
    <3>4. Len(disk') = Len(file) + 1
      BY <1>1, <3>1 DEF GoodFile
    <3>5. Len(file) < PageBound /\ up'
      BY <1>2, <2>3 DEF AddNode
    <3> QED BY <1>1, <2>3, <3>1, <3>2, <3>3, <3>4, <3>5 DEF StepShape
  <2> QED BY <2>2, <2>3
<1>3. ASSUME NEW id \in NodeIds, NEW n \in NodeInputs, UpdateNode(id, n)
      PROVE  StepShape
  BY <1>1, <1>3, InputTypes, UpdateNodePage, OnNodeShape DEF UpdateNode
<1>4. ASSUME NEW id \in NodeIds \cup FoundIds, DeleteNode(id)
      PROVE  StepShape
  BY <1>1, <1>4, DeleteNodePage, OnNodeShape DEF DeleteNode
<1>5. ASSUME NEW id \in NodeIds, NEW a \in Attribute,
             AddAttribute(id, a) \/ UpdateAttribute(id, a)
      PROVE  StepShape
  BY <1>1, <1>5, AttributePages, OnNodeShape DEF AddAttribute, UpdateAttribute
<1>6. ASSUME NEW id \in NodeIds, NEW e \in EdgeInputs,
             AddEdge(id, e) \/ UpdateEdge(id, e)
      PROVE  StepShape
  BY <1>1, <1>6, InputTypes, EdgePages, OnNodeShape DEF AddEdge, UpdateEdge
<1>7. ASSUME Segfault
      PROVE  StepShape
  BY <1>7 DEF Segfault, StepShape
<1>8. ASSUME NEW id \in NodeIds, NEW name \in AttNames, DeleteAttribute(id, name)
      PROVE  StepShape
  <2>1. Found(file, id) => Written(file, delete_attribute_page(file, name, id))
    BY <1>1, AttributePages
  <2> QED BY <1>1, <1>7, <1>8, <2>1, OnNodeShape DEF DeleteAttribute
<1>9. ASSUME NEW id \in NodeIds, NEW target \in NodeIds, DeleteEdge(id, target)
      PROVE  StepShape
  <2>1. Found(file, id) => Written(file, delete_edge_page(file, target, id))
    BY <1>1, EdgePages
  <2> QED BY <1>1, <1>7, <1>9, <2>1, OnNodeShape DEF DeleteEdge
<1>10. ASSUME Flush \/ (\E id \in NodeIds : FindEdge(id)) \/ Kill \/ Exit \/ start_database
       PROVE  StepShape
  BY <1>1, <1>7, <1>10 DEF FindEdge, Flush, Kill, Exit, start_database, StepShape
<1> QED BY <1>2, <1>3, <1>4, <1>5, <1>6, <1>8, <1>9, <1>10 DEF Next, Find

-----------------------------------------------------------------------------
(* The invariant.                                                          *)

(* The empty file is good. *)
LEMMA InitInv == Init => Inv
<1>1. << >> \in Seq(Page) /\ Ids(<< >>) = {}
  BY DEF Ids
<1>2. GoodFile(<< >>)
  BY <1>1 DEF GoodFile, LiveIds
<1>3. Len(<< >>) <= PageBound
  BY EmptySeq, BoundsAssumption
<1> QED BY <1>2, <1>3, NearSelf DEF Init, Inv

(* Every step keeps both copies good and one page apart. *)
LEMMA NextInv == Inv /\ [Next]_vars => Inv'
<1> SUFFICES ASSUME Inv, [Next]_vars
             PROVE  Inv'
  OBVIOUS
<1>1. CASE UNCHANGED vars
  BY <1>1 DEF vars, Inv, GoodFile, Near, LiveIds, Ids
<1>2. CASE Next
  <2>1. StepShape
    BY <1>2, NextShape
  <2>2. GoodFile(file') /\ GoodFile(disk') /\ Near(file', disk')
    BY <2>1, NearSelf DEF StepShape, Inv, Written
  <2>3. Len(file') <= PageBound
    BY <2>1, BoundsAssumption DEF StepShape, Inv, Written, Near, GoodFile
  <2> QED BY <2>1, <2>2, <2>3 DEF Inv, StepShape
<1> QED BY <1>1, <1>2

(* So the invariant holds of every reachable state. *)
LEMMA AlwaysInv == Spec => []Inv
BY InitInv, NextInv, PTL DEF Spec

-----------------------------------------------------------------------------
(* Theorems.                                                               *)

(* Both copies of the file are always sequences of well-formed pages. *)
THEOREM TypeCorrect == Spec => []TypeOK
<1>1. Inv => TypeOK
  BY DEF Inv, GoodFile, TypeOK
<1> QED BY <1>1, AlwaysInv, PTL

(* A live page's stored id is its position, in both copies of the file. *)
THEOREM IdsArePositions == Spec => []IdIsPosition
<1>1. Inv => IdIsPosition
  BY DEF Inv, GoodFile, IdIsPosition
<1> QED BY <1>1, AlwaysInv, PTL

(* A node whose id fits a signed char is always found by its id, and the   *)
(* node found is the one with that id, for every number of pages.          *)
THEOREM LowIdsAreExact == Spec => []LowIdsExact
<1>1. Inv => LowIdsExact
  BY LowLookup DEF Inv, LowIdsExact
<1> QED BY <1>1, AlwaysInv, PTL

(* What a restart finds differs from what the process saw in one page. *)
THEOREM OneUnsavedPage == Spec => []AtMostOneUnsaved
<1>1. Inv => AtMostOneUnsaved
  BY DEF Inv, Near, AtMostOneUnsaved
<1> QED BY <1>1, AlwaysInv, PTL

(* The file never shrinks, and grows only when no page is empty. *)
THEOREM FileGrowsOnlyWhenFull == Spec => GrowsOnlyWhenFull
<1>1. Inv /\ [Next]_vars =>
        [\/ Len(file') = Len(file)
         \/ Len(file') = Len(file) + 1 /\ EmptyIds(file) = {}]_file
  <2> SUFFICES ASSUME Inv, Next
               PROVE  \/ Len(file') = Len(file)
                      \/ Len(file') = Len(file) + 1 /\ EmptyIds(file) = {}
    BY DEF vars
  <2>1. StepShape
    BY NextShape
  <2> QED BY <2>1 DEF StepShape, Inv, Written, Near
<1> QED BY <1>1, AlwaysInv, PTL DEF Spec, GrowsOnlyWhenFull
=============================================================================
