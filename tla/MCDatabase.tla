----------------------------- MODULE MCDatabase ------------------------------
(***************************************************************************)
(* Instances of Database for TLC, and its refinement of Graph.             *)
(***************************************************************************)
EXTENDS Database

(* The bag of the elements of a list. *)
BagOf(s) ==
  [x \in {s[j] : j \in DOMAIN s} |-> Cardinality({j \in DOMAIN s : s[j] = x})]

(* The node that a page holds, and the graph that a file holds. *)
Held(page) == [name |-> page.name, att |-> BagOf(page.att), edges |-> BagOf(page.edges)]
Abs(f)     == [id \in LiveIds(f) |-> Held(f[id + 1])]

G == INSTANCE Graph WITH graph <- Abs(file), saved <- Abs(disk),
                         AttInputs <- Attribute

(* The database implements the graph of idata.h as long as every id fits a *)
(* signed char: each operation changes the node it names and no other,     *)
(* whatever pages were deleted and reused, and a crash undoes at most the  *)
(* last operation and never half of one.                                   *)
GraphSpec == G!Spec

(* Each function of idata.h has the effect that its own name promises, on  *)
(* the node that it was given and with the argument that it was given; the *)
(* two that can dereference NULL have it, or end the process.              *)
OperationsMatch ==
  [][/\ \A n \in NodeInputs : AddNode(n) => G!add_node(n)
     /\ \A id \in NodeIds :
          /\ DeleteNode(id) => G!delete_node(id)
          /\ \A n \in NodeInputs : UpdateNode(id, n) => G!update_node(id, n)
          /\ \A a \in Attribute : /\ AddAttribute(id, a) => G!add_attribute(id, a)
                                  /\ UpdateAttribute(id, a) => G!update_attribute(id, a)
          /\ \A name \in AttNames :
               DeleteAttribute(id, name) => G!delete_attribute(id, name) \/ G!Stop
          /\ \A e \in EdgeInputs : /\ AddEdge(id, e) => G!add_edge(id, e)
                                   /\ UpdateEdge(id, e) => G!update_edge(id, e)
          /\ \A target \in NodeIds :
               DeleteEdge(id, target) => G!delete_edge(id, target) \/ G!Stop]_vars
=============================================================================
