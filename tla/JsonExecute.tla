----------------------------- MODULE JsonExecute -----------------------------
(***************************************************************************)
(* json_execute.c: the requests of the server, executed one after another  *)
(* on the database.  addVertex, addEdge and deleteEdge are one database    *)
(* call; a select is a pipeline whose statements turn one list of nodes,   *)
(* g, into the next, and whose delete statement removes the nodes one call *)
(* at a time, so that the server may be killed in between.                 *)
(*                                                                         *)
(* The database is read at positions as well as by id: a statement goes    *)
(* from a node's id, or an edge's target, straight to the page at that     *)
(* position, whatever is there now.                                        *)
(***************************************************************************)
EXTENDS Database

CONSTANTS
  AnyName,    \* V() without a name
  Pipelines,  \* the statement lists that clients send after V(...)
  StackPages  \* what the stack may hold where a page is to be read

(* data_struct.h and request_tree.h number these. *)
integer     == 1
float_point == 2
string      == 3
boolean     == 4

equals     == 0
bigger     == 1
bigger_eq  == 2
smaller    == 3
smaller_eq == 4
not_equals == 5
reference  == 6
like       == 7

SELECT_CONDITION == 0
OUT              == 1
DELETE           == 2

ASSUME ValuesAssumption ==
  \A v \in Values : /\ v.type \in {integer, float_point, string, boolean}
                    /\ v.v \in Int

(* A comparison, or a reference: to an attribute, or to a number that was  *)
(* typed in the place of its name.                                         *)
Condition ==
  [option : (equals .. like) \ {reference}, name : AttNames, val : Values]
    \cup [option : {reference}, name : AttNames, to : AttNames \cup Int]

Statement ==
  [type : {OUT}, value : EdgeNames]
    \cup [type : {DELETE}]
    \cup [type : {SELECT_CONDITION}, conditions : Seq(Condition) \ {<< >>}]

ASSUME PipelinesAssumption == Pipelines \subseteq Seq(Statement)

(* Any bytes that can be parsed as a node, with whatever number as its id; *)
(* among them zeros.                                                       *)
StackPage ==
  [type : {start_node, empty_page}, id : Int, name : NodeNames \cup {NoName},
   att : Seq(Attribute), edges : Seq([name : EdgeNames, id : Int])]

ASSUME StackAssumption == StackPages \subseteq StackPage /\ EmptyPage \in StackPages

VARIABLES
  req,    \* the request being executed, or the last one
  reply,  \* what was sent back for it
  k,      \* the statement of a select to run next; 0 between requests
  g,      \* the nodes selected so far
  i,      \* the next node a delete statement removes
  pos,    \* the page at which the file is positioned
  heap    \* a has(ref) has written outside of ref_used

all == <<vars, req, reply, k, g, i, pos, heap>>

NoReply  == [text |-> "", nodes |-> << >>]
Text(t)  == [text |-> t, nodes |-> << >>]
Nodes(s) == [text |-> "nodes", nodes |-> s]

JInit == /\ Init
         /\ req = [oper |-> "none"]
         /\ reply = NoReply
         /\ k = 0 /\ g = << >> /\ i = 1 /\ pos = 0 /\ heap = FALSE

NodeAt(p) == page_to_node(file[p + 1])

(* The nodes in a set of pages, in page order. *)
NodesAt(S) ==
  LET pages == Pick(file, {p + 1 : p \in S})
  IN  [j \in DOMAIN pages |-> page_to_node(pages[j])]

-----------------------------------------------------------------------------
(* Finding nodes.                                                          *)

(* Mutant: the type of the page is not looked at. *)
find_by_name_untyped(name) ==
  NodesAt({p \in Ids(file) : name \in {AnyName, file[p + 1].name}})

find_by_name(name) ==
  NodesAt({p \in LiveIds(file) : name \in {AnyName, file[p + 1].name}})

(* The first attribute of a node with this name. *)
Named(n, name) == {j \in DOMAIN n.att : n.att[j].name = name}
Has(n, name)   == Named(n, name) # {}
Att(n, name)   == n.att[Min(Named(n, name))].val

(* strcmp is tested the wrong way round: a "bigger" string sorts before. *)
Above(x, y) == IF x.type = string THEN x.v < y.v ELSE x.v > y.v

(* One selector on two values of one type.  A reference that is not the    *)
(* first filter of its list is tested as not_equals; like has no case.     *)
Test(sel, x, y) ==
  CASE sel = equals                   -> x.v = y.v
    [] sel = bigger                   -> Above(x, y)
    [] sel = bigger_eq                -> Above(x, y) \/ x.v = y.v
    [] sel = smaller                  -> Above(y, x)
    [] sel = smaller_eq               -> Above(y, x) \/ x.v = y.v
    [] sel \in {not_equals, reference} -> x.v # y.v
    [] sel = like                     -> TRUE

(* json_execute pushes the conditions on the front of the filter list, and *)
(* every filter points at the one attribute variable of the loop, which    *)
(* ends up holding the last condition.                                     *)
Selectors(conditions) == {c.option : c \in Range(conditions)}
SharedAtt(conditions) == Last(conditions)

(* Mutant: the types of the two values are not compared. *)
node_filters_untyped(n, conditions) ==
  LET c == SharedAtt(conditions)
  IN  /\ Has(n, c.name)
      /\ \A sel \in Selectors(conditions) : Test(sel, Att(n, c.name), c.val)

(* The first filter of the list is not a reference, so it refuses a value  *)
(* of another type before a reference behind it is reached.                *)
node_filters(n, conditions) ==
  LET c == SharedAtt(conditions)
  IN  /\ Has(n, c.name)
      /\ Att(n, c.name).type = c.val.type
      /\ \A sel \in Selectors(conditions) : Test(sel, Att(n, c.name), c.val)

(* Mutant: the read starts one page after the target. *)
PageRead_next(p, page) == IF p + 1 \in Ids(file) THEN file[p + 2] ELSE page

PageRead(p, page) == IF p \in Ids(file) THEN file[p + 1] ELSE page

(* What a page buffer may hold before anything is read into it: it is not  *)
(* initialised, and an earlier scan may have left a page in its place.     *)
Buffers == Range(file) \cup StackPages

(* One read, by id, into the buffer acc.page.  fseek refuses a negative    *)
(* offset and leaves the file where it is; a read behind the end leaves    *)
(* the buffer as it was, which past records.                               *)
Load(acc, id) ==
  LET at == IF id >= 0 THEN id ELSE acc.pos
  IN  [acc EXCEPT !.page = PageRead(at, @),
                  !.pos  = IF at \in Ids(file) THEN at + 1 ELSE at,
                  !.past = @ \/ at \notin Ids(file)]

(* And the node that it is parsed as, put out. *)
LoadNode(acc, id) ==
  LET read == Load(acc, id)
  IN  [read EXCEPT !.out = Append(@, page_to_node(read.page))]

(* The nodes of a list, read again from their pages. *)
Reads(nodes, junk) ==
  FoldLeft(LAMBDA acc, m : LoadNode(acc, m.id),
           [out |-> << >>, page |-> junk, pos |-> pos, past |-> FALSE], nodes)

(* Mutant: the scan begins one page too early, at n itself. *)
ref_itself(n, at, c) ==
  NodesAt({q \in at - 1 .. Len(file) - 1 :
             /\ Has(n, c.name)
             /\ Has(NodeAt(q), c.to)
             /\ Att(NodeAt(q), c.to) = Att(n, c.name)})

(* Nodes in the pages from at on, behind n, whose attribute c.to equals    *)
(* attribute c.name of n, in page order.                                   *)
ref(n, at, c) ==
  NodesAt({q \in at .. Len(file) - 1 :
             /\ Has(n, c.name)
             /\ Has(NodeAt(q), c.to)
             /\ Att(NodeAt(q), c.to) = Att(n, c.name)})

(* A number in the place of c.to is taken for a pointer to a name, with    *)
(* which the names of the attributes in these pages are compared.          *)
Misnamed(n, at, c) ==
  /\ c.to \notin AttNames
  /\ Has(n, c.name)
  /\ \E q \in at .. Len(file) - 1 : NodeAt(q).att # << >>

(* find_filter_part_page for one node, when the first filter is a          *)
(* reference: it and those it is joined with are put out, unless its id is *)
(* marked in ref_used, or the byte that stands for it outside of ref_used  *)
(* is not zero.  b is not initialised: for a node that is marked it is     *)
(* what it was before.                                                     *)
Join(acc, m, c, stray) ==
  LET read == Load(acc, m.id)
      n    == page_to_node(read.page)
      hits == ref(n, read.pos, c)
  IN  IF n.id \in acc.used \cup stray
      THEN [read EXCEPT !.out = @ \o IF acc.b THEN <<n>> ELSE << >>]
      ELSE [read EXCEPT
              !.out  = @ \o hits \o IF hits = << >> THEN << >> ELSE <<n>>,
              !.used = @ \cup {n.id} \cup {hits[j].id : j \in DOMAIN hits},
              !.pos  = IF Has(n, c.name) /\ @ < Len(file) THEN Len(file) ELSE @,
              !.wild = @ \/ Misnamed(n, read.pos, c),
              !.b    = FALSE]

(* The nodes joined, the ids marked, and where the file is left. *)
Joined(nodes, c, junk, stray, b) ==
  FoldLeft(LAMBDA acc, m : Join(acc, m, c, stray),
           [out |-> << >>, page |-> junk, pos |-> pos, past |-> FALSE,
            used |-> {}, wild |-> FALSE, b |-> b], nodes)

(* Mutant: the name of the edge is not compared. *)
Follows_any(e, name) == TRUE

Follows(e, name) == e.name = name

(* One edge of a node. *)
Follow(acc, e, name) == IF Follows(e, name) THEN LoadNode(acc, e.id) ELSE acc

FollowAll(acc, edges, name) ==
  FoldLeft(LAMBDA a, e : Follow(a, e, name), acc, edges)

(* ok is lost when the node is not found. *)
find_edge_page(acc, m, name) ==
  IF ~acc.ok \/ ~Found(file, m.id) THEN [acc EXCEPT !.ok = FALSE]
  ELSE LET n == get_node_page(file, m.id)
       IN  FollowAll([acc EXCEPT !.pos = n.id + 1], n.edges, name)

(* find_edge_page for every node in turn, with one buffer. *)
Outs(nodes, name, junk) ==
  FoldLeft(LAMBDA acc, m : find_edge_page(acc, m, name),
           [out |-> << >>, page |-> junk, pos |-> pos, ok |-> TRUE, past |-> FALSE],
           nodes)

-----------------------------------------------------------------------------
(* Requests of at most one database call.                                  *)

Ready == up /\ k = 0

Done(r, text) == /\ req' = r
                 /\ reply' = IF up' THEN Text(text) ELSE NoReply
                 /\ UNCHANGED <<k, g, i, pos, heap>>

(* Mutant: the attributes are put behind one another. *)
ExecuteAddNode_in_order(n) ==
  Ready /\ AddNode(n) /\ Done([oper |-> "add_node", node |-> n], "Add node")

(* The attributes of the request are pushed on the front of n->att. *)
ExecuteAddNode(n) ==
  /\ Ready
  /\ AddNode([n EXCEPT !.att = Reverse(n.att)])
  /\ Done([oper |-> "add_node", node |-> n], "Add node")

(* Mutant: the ends of the edge are swapped. *)
ExecuteAddEdge_swapped(name, id1, id2) ==
  /\ Ready
  /\ AddEdge(id2, [name |-> name, id |-> id1])
  /\ Done([oper |-> "add_edge", name |-> name, id1 |-> id1, id2 |-> id2], "Add edge")

ExecuteAddEdge(name, id1, id2) ==
  /\ Ready
  /\ AddEdge(id1, [name |-> name, id |-> id2])
  /\ Done([oper |-> "add_edge", name |-> name, id1 |-> id1, id2 |-> id2], "Add edge")

ExecuteDeleteEdge(id1, id2) ==
  /\ Ready
  /\ DeleteEdge(id1, id2)
  /\ Done([oper |-> "delete_edge", id1 |-> id1, id2 |-> id2], "Delete edge")

(* UNDEFINED, what an empty request is taken for, and the requests that    *)
(* only the client knows: the database is not touched, not even its buffer *)
(* written out.                                                            *)
ExecuteNothing ==
  /\ Ready /\ UNCHANGED vars
  /\ Done([oper |-> "none"], "")

-----------------------------------------------------------------------------
(* Selects.                                                                *)

(* Mutant: the size of the file is taken before the scan. *)
Select_unscanned(name, statements) ==
  /\ Ready /\ Flush
  /\ req' = [oper |-> "select", name |-> name, statements |-> statements]
  /\ g' = find_by_name(name)
  /\ k' = 1 /\ i' = 1 /\ pos' = 0 /\ reply' = NoReply
  /\ UNCHANGED heap

Select(name, statements) ==
  /\ Ready /\ Flush
  /\ req' = [oper |-> "select", name |-> name, statements |-> statements]
  /\ g' = find_by_name(name)
  /\ k' = 1 /\ i' = 1 /\ pos' = Len(file) /\ reply' = NoReply
  /\ UNCHANGED heap

Running(type) == /\ up /\ k > 0
                 /\ k \in DOMAIN req.statements
                 /\ req.statements[k].type = type

NextStatement(nodes, at) == g' = nodes /\ pos' = at /\ k' = k + 1 /\ i' = 1

Filter ==
  /\ Running(SELECT_CONDITION)
  /\ SharedAtt(req.statements[k].conditions).option # reference
  /\ \E junk \in Buffers :
       LET conditions == req.statements[k].conditions
           now  == Reads(g, junk)
           keep == {j \in DOMAIN g : node_filters(now.out[j], conditions)}
       IN  \/ Flush /\ NextStatement(Pick(now.out, keep), now.pos)
           \/ now.past /\ Segfault /\ UNCHANGED <<g, pos, k, i>>
  /\ UNCHANGED <<req, reply, heap>>

(* ref_used has one entry per page up to the position where the statement  *)
(* began; an id that has none is looked up, and marked, in memory that     *)
(* belongs to others: stray are those that are found marked there.         *)
FilterByReference ==
  /\ Running(SELECT_CONDITION)
  /\ SharedAtt(req.statements[k].conditions).option = reference
  /\ \E junk \in Buffers, b \in BOOLEAN,
        stray \in SUBSET ({page.id : page \in Buffers} \ (0 .. pos)) :
       LET joined == Joined(g, SharedAtt(req.statements[k].conditions), junk, stray, b)
           marksInside == joined.used \subseteq 0 .. pos
       IN  \/ /\ Flush /\ NextStatement(joined.out, joined.pos)
              /\ heap' = (heap \/ ~marksInside)
           \/ /\ joined.past \/ joined.wild \/ ~marksInside
              /\ Segfault /\ UNCHANGED <<g, pos, k, i, heap>>
  /\ UNCHANGED <<req, reply>>

(* What is parsed of the buffer after a read behind the end may be bytes   *)
(* whose lengths lead out of the stack.                                    *)
Out ==
  /\ Running(OUT)
  /\ \E junk \in Buffers :
       LET outs == Outs(g, req.statements[k].value, junk)
       IN  \/ outs.ok /\ Flush /\ NextStatement(outs.out, outs.pos)
           \/ /\ ~outs.ok \/ outs.past
              /\ Segfault /\ UNCHANGED <<g, pos, k, i>>
  /\ UNCHANGED <<req, reply, heap>>

DeleteOne ==
  /\ Running(DELETE) /\ i <= Len(g)
  /\ DeleteNode(g[i].id)
  /\ i' = i + 1
  /\ pos' = IF Found(file, g[i].id) THEN get_node_page(file, g[i].id).id + 1
                                    ELSE Len(file)
  /\ UNCHANGED <<req, reply, k, g, heap>>

(* Mutant: the loop stops one node early. *)
DeleteEnd_early ==
  /\ Running(DELETE) /\ i >= Len(g)
  /\ NextStatement(g, pos)
  /\ UNCHANGED <<vars, req, reply, heap>>

DeleteEnd ==
  /\ Running(DELETE) /\ i > Len(g)
  /\ NextStatement(g, pos)
  /\ UNCHANGED <<vars, req, reply, heap>>

(* The nodes replace whatever the statements have put in the reply. *)
Respond ==
  /\ up /\ k > 0 /\ k > Len(req.statements)
  /\ reply' = Nodes(g)
  /\ k' = 0 /\ g' = << >> /\ i' = 1 /\ pos' = 0
  /\ UNCHANGED <<vars, req, heap>>

-----------------------------------------------------------------------------
(* The process.                                                            *)

NoRequest == /\ req' = [oper |-> "none"]
             /\ reply' = NoReply
             /\ k' = 0 /\ g' = << >> /\ i' = 1 /\ pos' = 0 /\ heap' = FALSE

(* What a has(ref) has written over ends the process at any time after,    *)
(* before or after the buffer of the file has been written out.            *)
HeapFails ==
  /\ heap
  /\ Kill \/ Segfault
  /\ reply' = NoReply
  /\ UNCHANGED <<req, k, g, i, pos, heap>>

StopServer == (Kill \/ (k = 0 /\ Exit)) /\ NoRequest

Restart == start_database /\ NoRequest

JNext ==
  \/ \E n \in NodeInputs : ExecuteAddNode(n)
  \/ \E e \in EdgeInputs, id \in NodeIds : ExecuteAddEdge(e.name, id, e.id)
  \/ \E id1, id2 \in NodeIds : ExecuteDeleteEdge(id1, id2)
  \/ ExecuteNothing
  \/ \E name \in NodeNames \cup {AnyName}, s \in Pipelines : Select(name, s)
  \/ Filter
  \/ FilterByReference
  \/ Out
  \/ DeleteOne
  \/ DeleteEnd
  \/ Respond
  \/ HeapFails
  \/ StopServer
  \/ Restart

JSpec == JInit /\ [][JNext]_all

-----------------------------------------------------------------------------
(* Properties.                                                             *)

(* A delete statement of the pipeline has begun. *)
Deleting == \E j \in 1 .. k : /\ j \in DOMAIN req.statements
                             /\ req.statements[j].type = DELETE

(* No edge leads behind the end of the file. *)
Inside == \A p \in LiveIds(file) : \A e \in Range(file[p + 1].edges) : e.id \in Ids(file)

(* No edge leads to a page without a node. *)
Closed == \A p \in LiveIds(file) : \A e \in Range(file[p + 1].edges) : e.id \in LiveIds(file)

(* The request, the selection and the loop counters are well formed; and   *)
(* as long as no edge leads behind the end of the file and nothing has     *)
(* been deleted, the nodes that are carried have ids of its pages, also    *)
(* those that were read from pages without a node.                         *)
JTypeOK ==
  /\ TypeOK
  /\ req.oper \in {"none", "add_node", "add_edge", "delete_edge", "select"}
  /\ k > 0 => req.oper = "select" /\ k <= Len(req.statements) + 1
  /\ i \in 1 .. Len(g) + 1
  /\ pos \in Nat
  /\ heap \in BOOLEAN
  /\ \A j \in DOMAIN g : g[j].id \in Int
  /\ up /\ Inside /\ ~Deleting => \A j \in DOMAIN g : g[j].id \in Ids(file)

(* While no edge dangles and nothing has been deleted, every node that a   *)
(* pipeline carries is live and equal to what its page holds: going from   *)
(* ids and edge targets straight to pages finds the nodes that were meant. *)
SelectionIsCurrent ==
  up /\ k > 0 /\ Closed /\ ~Deleting =>
    \A j \in DOMAIN g : g[j].id \in LiveIds(file) /\ g[j] = NodeAt(g[j].id)

(* A select ends the process only if an edge dangles, if the pipeline goes *)
(* on after deleting, or if a has(ref) is not its first statement or is    *)
(* given something else than a name; or an earlier has(ref) has written    *)
(* outside of ref_used.                                                    *)
CrashNeedsCause ==
  ~up /\ k > 0 /\ Len(file) <= CharRange =>
    \/ ~Closed
    \/ Deleting
    \/ heap
    \/ /\ req.statements[k].type = SELECT_CONDITION
       /\ LET c == SharedAtt(req.statements[k].conditions)
          IN  c.option = reference /\ (k > 1 \/ c.to \notin AttNames)

(* How many walks along edges with the names of the given out statements   *)
(* lead from a node selected by name to each node.                         *)
WalkEnds(name, statements) ==
  FoldLeft(
    LAMBDA walks, s :
      [t \in LiveIds(file) |->
         MapThenSumSet(
           LAMBDA p : walks[p] * Cardinality({j \in DOMAIN file[p + 1].edges :
                        file[p + 1].edges[j] = [name |-> s.value, id |-> t]}),
           LiveIds(file))],
    [p \in LiveIds(file) |-> IF name \in {AnyName, file[p + 1].name} THEN 1 ELSE 0],
    statements)

(* As long as no edge dangles and nothing has been deleted,                *)
(* V(name).out(e1).out(e2)... lists each node once for every walk that     *)
(* leads to it.                                                            *)
SelectionIsWalkEnds ==
  up /\ k > 0 /\ Closed /\ ~Deleting /\ Len(file) <= CharRange =>
    LET done == SubSeq(req.statements, 1, k - 1)
    IN  (\A j \in DOMAIN done : done[j].type = OUT) =>
          \A t \in LiveIds(file) :
            Cardinality({j \in DOMAIN g : g[j].id = t}) = WalkEnds(req.name, done)[t]

(* The pairs of values, of those that occur, that a selector stands for.   *)
Relation(sel) ==
  LET values == {v.v : v \in Values}
  IN  {xy \in values \X values :
         CASE sel = equals     -> xy[1] = xy[2]
           [] sel = bigger     -> xy[1] > xy[2]
           [] sel = bigger_eq  -> xy[1] >= xy[2]
           [] sel = smaller    -> xy[1] < xy[2]
           [] sel = smaller_eq -> xy[1] <= xy[2]
           [] sel = not_equals -> xy[1] # xy[2]
           [] OTHER            -> TRUE}

(* V(name).has(a, selector(x)) keeps exactly the nodes of that name whose  *)
(* first attribute a is of the type of x and in that relation to x, each   *)
(* once; of strings this is said where their order does not matter.  It    *)
(* holds until a delete behind the filter begins.                          *)
HasIsExact ==
  up /\ k = 2 /\ i = 1 /\ req.statements[1].type = SELECT_CONDITION =>
    LET c    == Last(req.statements[1].conditions)
        kept == {p \in LiveIds(file) :
                   /\ req.name \in {AnyName, file[p + 1].name}
                   /\ Has(NodeAt(p), c.name)
                   /\ Att(NodeAt(p), c.name).type = c.val.type
                   /\ <<Att(NodeAt(p), c.name).v, c.val.v>> \in Relation(c.option)}
    IN  /\ Len(req.statements[1].conditions) = 1 /\ c.option # reference
        /\ c.val.type = string => c.option \in {equals, not_equals, like}
        => g = NodesAt(kept)

(* A has(ref) that begins a pipeline, with the file positioned behind its  *)
(* last page by the scan for the name, marks no id outside of ref_used.    *)
FirstReferenceStaysInside == [][heap' /\ ~heap => k > 1]_all

(* V(name).has(a, ref(a)) lists the nodes that share their a with another  *)
(* node, each once, as far as they do not come before the first of them    *)
(* that has the name: although every node is joined with those behind it,  *)
(* and until a delete behind the filter begins.                            *)
SharedAreListedOnce ==
  up /\ k = 2 /\ i = 1 /\ req.statements[1].type = SELECT_CONDITION =>
    LET c == SharedAtt(req.statements[1].conditions)
        value(p) == Att(NodeAt(p), c.name)
        With == {p \in LiveIds(file) : Has(NodeAt(p), c.name)}
        Sharers(p) ==
          {q \in With : /\ value(q) = value(p)
                        /\ \E r \in With : /\ r <= q /\ value(r) = value(p)
                                            /\ req.name \in {AnyName, file[r + 1].name}}
    IN  c.option = reference /\ c.to = c.name =>
          \A p \in LiveIds(file) :
            Cardinality({j \in DOMAIN g : g[j] = NodeAt(p)}) =
              IF p \in With /\ p \in Sharers(p) /\ Cardinality(Sharers(p)) > 1 THEN 1 ELSE 0

(* A finished delete statement leaves no node of its selection, also when  *)
(* the selection names a node twice.                                       *)
DeleteRemovesSelection ==
  up /\ k > 1 /\ req.statements[k - 1].type = DELETE /\ Len(file) <= CharRange =>
    \A j \in DOMAIN g : ~IsLive(file, g[j].id)

(* Nothing but the delete statement that has selected it removes a node,   *)
(* as long as the process lives.                                           *)
DeletesOnlySelected ==
  [][up' /\ Len(file) <= CharRange =>
       \A p \in LiveIds(file) \ LiveIds(file') :
          Running(DELETE) /\ \E j \in DOMAIN g : g[j].id = p]_all

(* What a reply says is so: the added node reads back with its attributes  *)
(* in the order of the request, although json_execute and page_to_node     *)
(* each reverse them; the deleted edge is gone and, when its first node    *)
(* exists, the added edge is there, and ids are those of the request.      *)
RepliesHold ==
  /\ reply.text = "Add node" =>
       \E p \in LiveIds(file) :
          NodeAt(p) = [id |-> p, name |-> req.node.name, att |-> req.node.att,
                       edges |-> << >>]
  /\ reply.text = "Add edge" /\ req.id1 \in LiveIds(file) /\ Len(file) <= CharRange =>
       [name |-> req.name, id |-> req.id2] \in Range(NodeAt(req.id1).edges)
  /\ reply.text = "Delete edge" /\ req.id1 \in LiveIds(file) /\ Len(file) <= CharRange =>
       \A e \in Range(NodeAt(req.id1).edges) : e.id # req.id2

-----------------------------------------------------------------------------
(* What the code says of itself, and does not do.                          *)

Filtered == up /\ k > 1 /\ req.statements[k - 1].type = SELECT_CONDITION

(* The conditions of a has() that the client lists are each for their own  *)
(* attribute and value.                                                    *)
AllConditionsApply ==
  Filtered /\ (\A c \in Range(req.statements[k - 1].conditions) : c.option # reference) =>
    \A n \in Range(g), c \in Range(req.statements[k - 1].conditions) :
      Has(n, c.name) /\ Att(n, c.name).type = c.val.type
                     /\ Test(c.option, Att(n, c.name), c.val)

(* A comparison of strings keeps those in the relation that the client     *)
(* prints for its option: ">" those that sort behind the string given.     *)
StringsCompareAsPrinted ==
  up /\ k = 2 /\ i = 1 /\ req.statements[1].type = SELECT_CONDITION =>
    LET c == Last(req.statements[1].conditions)
    IN  Len(req.statements[1].conditions) = 1 /\ c.option # reference /\ c.val.type = string =>
          \A n \in Range(g) : <<Att(n, c.name).v, c.val.v>> \in Relation(c.option)
=============================================================================
