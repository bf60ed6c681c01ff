-------------------------------- MODULE Graph --------------------------------
(***************************************************************************)
(* What the operations of database/idata.h promise their caller: a finite  *)
(* map from node ids to nodes.  A node has a name, a bag of attributes and *)
(* a bag of edges (data_struct.h links them in lists, whose order no       *)
(* caller may rely on).  An operation touches the node it names and no     *)
(* other; on an id that no node has it changes nothing; a new node gets    *)
(* the smallest free id.  The process may stop at any time, and then at    *)
(* most its last operation is lost.                                        *)
(***************************************************************************)
EXTENDS BagsExt, FiniteSetsExt, FiniteSets, Naturals

CONSTANTS
  NodeIds,     \* ids that callers ask for
  NodeInputs,  \* nodes handed to add_node and update_node
  AttInputs,   \* attributes handed to add_ and update_attribute
  AttNames,    \* names handed to delete_attribute
  EdgeInputs   \* edges handed to add_ and update_edge

VARIABLES
  graph,  \* the graph as the running process sees it
  saved,  \* the graph a restart would find
  up      \* the process is running

vars == <<graph, saved, up>>

(* The bag of the elements of a list. *)
BagOf(s) ==
  [x \in {s[j] : j \in DOMAIN s} |-> Cardinality({j \in DOMAIN s : s[j] = x})]

Node(n) == [name |-> n.name, att |-> BagOf(n.att), edges |-> BagOf(n.edges)]

Only(B, S) == [x \in DOMAIN B \cap S |-> B[x]]

(* The elements of S in B, one pair for each time that B has them. *)
Copies(B, S) == UNION {{x} \X (1 .. B[x]) : x \in S}

(* Every element of S in B becomes a y, which is in S if it is in B. *)
Merge(B, S, y) ==
  IF S = {} THEN B
  ELSE [x \in (DOMAIN B \ S) \cup {y} |->
          IF x = y THEN Cardinality(Copies(B, S)) ELSE B[x]]

Init == graph = << >> /\ saved = << >> /\ up = TRUE

-----------------------------------------------------------------------------
(* An operation that returns leaves the graph before it in the file, and   *)
(* its own effect in the buffer in front of the file.                      *)
Becomes(g) == /\ up
              /\ graph' = g
              /\ saved' = graph
              /\ up' = up

add_node(n) ==
  LET id == Min((0 .. Cardinality(DOMAIN graph)) \ DOMAIN graph)
  IN  Becomes([i \in DOMAIN graph \cup {id} |->
                 IF i = id THEN Node(n) ELSE graph[i]])

delete_node(id) == Becomes([i \in DOMAIN graph \ {id} |-> graph[i]])

(* EXCEPT leaves the graph alone when no node has this id. *)
update_node(id, n) == Becomes([graph EXCEPT ![id] = Node(n)])

Att(id)   == graph[id].att
Edges(id) == graph[id].edges

ChangeAtt(id, B)   == Becomes([graph EXCEPT ![id].att = B])
ChangeEdges(id, B) == Becomes([graph EXCEPT ![id].edges = B])

add_attribute(id, a) == ChangeAtt(id, BagAdd(Att(id), a))

update_attribute(id, a) ==
  ChangeAtt(id, Merge(Att(id), {x \in DOMAIN Att(id) : x.name = a.name}, a))

delete_attribute(id, name) ==
  ChangeAtt(id, Only(Att(id), {x \in DOMAIN Att(id) : x.name # name}))

add_edge(id, e) == ChangeEdges(id, BagAdd(Edges(id), e))

update_edge(id, e) ==
  ChangeEdges(id, Merge(Edges(id), {x \in DOMAIN Edges(id) : x.id = e.id}, e))

delete_edge(id, target) ==
  ChangeEdges(id, Only(Edges(id), {x \in DOMAIN Edges(id) : x.id # target}))

find == Becomes(graph)

Stop == /\ up
        /\ up' = FALSE
        /\ graph' \in {graph, saved}
        /\ saved' = graph'

open_database == ~up /\ up' = TRUE /\ UNCHANGED <<graph, saved>>

Next ==
  \/ \E n \in NodeInputs : add_node(n)
  \/ \E id \in NodeIds :
       \/ \E n \in NodeInputs : update_node(id, n)
       \/ delete_node(id)
       \/ \E a \in AttInputs : add_attribute(id, a) \/ update_attribute(id, a)
       \/ \E name \in AttNames : delete_attribute(id, name)
       \/ \E e \in EdgeInputs : add_edge(id, e) \/ update_edge(id, e)
       \/ \E target \in NodeIds : delete_edge(id, target)
  \/ find
  \/ Stop
  \/ open_database

Spec == Init /\ [][Next]_vars
=============================================================================
