-------------------------------- MODULE Pages --------------------------------
(***************************************************************************)
(* The page file of database/database.c, one record per PAGE_SIZE page.    *)
(*                                                                         *)
(* Every page function of the code is an operator that takes the contents  *)
(* of the file and returns the contents it leaves behind.  A page holds    *)
(* either zeros (empty_page) or one node (start_node).  This module keeps  *)
(* what the code does with whole records: where a node is put, which page  *)
(* a lookup finds, how the attribute and edge lists are reordered, changed *)
(* and written back, and which lists make the code dereference NULL.  The  *)
(* bytes inside a record are not modelled here: a record is assumed to fit *)
(* its page and strings to be shorter than 128 characters.                 *)
(***************************************************************************)
EXTENDS Integers, Sequences, FiniteSets, FiniteSetsExt, SequencesExt

CONSTANTS
  NodeNames,  \* names a node may be given
  AttNames,   \* names an attribute may be given
  EdgeNames,  \* names an edge may be given
  Values,     \* attribute values, each with its type
  NoName,     \* the zero-length string found in a page of zeros
  CharRange   \* non-negative values of a (signed) char: 128 in the code

ASSUME NoNameAssumption == NoName \notin NodeNames
ASSUME CharRangeAssumption == CharRange \in Nat \ {0}

start_node == 1
empty_page == 0

Attribute == [name : AttNames, val : Values]
Edge      == [name : EdgeNames, id : Nat]

EmptyPage == [type |-> empty_page, id |-> 0, name |-> NoName,
              att |-> << >>, edges |-> << >>]

NodePage == [type : {start_node}, id : Nat, name : NodeNames,
             att : Seq(Attribute), edges : Seq(Edge)]

Page == NodePage \cup {EmptyPage}

(* Pages are numbered from 0; the sequence that models the file from 1. *)
Ids(f)        == 0 .. Len(f) - 1
IsLive(f, id) == id \in Ids(f) /\ f[id + 1].type = start_node
LiveIds(f)    == {id \in Ids(f) : f[id + 1].type = start_node}
EmptyIds(f)   == {id \in Ids(f) : f[id + 1].type = empty_page}

-----------------------------------------------------------------------------
(* Reading and writing one record.                                         *)

(* page_to_node pushes every attribute and edge it reads on the front of a *)
(* list, so the lists come out in the opposite order to the one stored.    *)
page_to_node(page) ==
  [id |-> page.id, name |-> page.name,
   att |-> Reverse(page.att), edges |-> Reverse(page.edges)]

(* Mutant: ids are counted from 1. *)
set_node_page_from_one(f, pos, n) ==
  [f EXCEPT ![pos + 1] = [type |-> start_node, id |-> pos + 1, name |-> n.name,
                          att |-> n.att, edges |-> n.edges]]

(* set_node_page takes the id from the file position it writes at. *)
set_node_page(f, pos, n) ==
  [f EXCEPT ![pos + 1] = [type |-> start_node, id |-> pos, name |-> n.name,
                          att |-> n.att, edges |-> n.edges]]

(* The first byte of a stored id, read back through a signed char. *)
LowByte(id) ==
  LET b == id % (2 * CharRange)
  IN  IF b < CharRange THEN b ELSE b - 2 * CharRange

(* get_node_page compares only page[1], the low byte of the stored id, and *)
(* returns the first page that agrees.                                     *)
Matches(f, id) ==
  {p \in Ids(f) : f[p + 1].type = start_node /\ LowByte(f[p + 1].id) = id}

Found(f, id) == Matches(f, id) # {}

(* Mutant: the scan does not stop at the first match. *)
get_node_page_last(f, id) == page_to_node(f[Max(Matches(f, id)) + 1])

get_node_page(f, id) == page_to_node(f[Min(Matches(f, id)) + 1])

-----------------------------------------------------------------------------
(* Lists.                                                                  *)

(* The elements of s at the positions in keep, in order. *)
Pick(s, keep) ==
  [k \in 1 .. Cardinality(keep) |->
     s[CHOOSE i \in keep : Cardinality({j \in keep : j <= i}) = k]]

(* delete_attribute_page frees matching attributes from the front without  *)
(* looking for the end of the list.                                        *)
DeleteAttributeCrashes(n, name) ==
  /\ n.att # << >>
  /\ \A i \in DOMAIN n.att : n.att[i].name = name

(* delete_edge_page unlinks one matching edge from the front; a second one *)
(* behind it is unlinked through a predecessor pointer that is still NULL. *)
DeleteEdgeCrashes(n, target) ==
  /\ Len(n.edges) > 1
  /\ n.edges[1].id = target
  /\ n.edges[2].id = target

-----------------------------------------------------------------------------
(* The operations.  Those that look a node up are applied only when Found  *)
(* holds: the code returns early otherwise.                                *)

(* Mutant: empty pages are not reused. *)
create_node_page_append(f, n) == set_node_page(Append(f, EmptyPage), Len(f), n)

create_node_page(f, n) ==
  IF EmptyIds(f) # {}
  THEN set_node_page(f, Min(EmptyIds(f)), n)
  ELSE set_node_page(Append(f, EmptyPage), Len(f), n)

update_node_page(f, n, id) ==
  set_node_page(f, get_node_page(f, id).id, n)

(* Mutant: only the flag is overwritten, not the record. *)
delete_node_page_flag(f, id) ==
  [f EXCEPT ![get_node_page(f, id).id + 1].type = empty_page]

(* Mutant: no fseek after the lookup, which has read one page further. *)
delete_node_page_unsought(f, id) ==
  [f EXCEPT ![get_node_page(f, id).id + 2] = EmptyPage]

delete_node_page(f, id) ==
  [f EXCEPT ![get_node_page(f, id).id + 1] = EmptyPage]

add_attribute_page(f, a, id) ==
  LET n == get_node_page(f, id)
  IN  set_node_page(f, n.id, [n EXCEPT !.att = Append(n.att, a)])

(* Mutant: only the first attribute of that name is changed. *)
update_attribute_page_first(f, a, id) ==
  LET n    == get_node_page(f, id)
      same == {i \in 1 .. Len(n.att) : n.att[i].name = a.name}
  IN  set_node_page(f, n.id,
        [n EXCEPT !.att = [i \in 1 .. Len(n.att) |->
           IF i \in same /\ i = Min(same) THEN a ELSE n.att[i]]])

update_attribute_page(f, a, id) ==
  LET n == get_node_page(f, id)
  IN  set_node_page(f, n.id,
        [n EXCEPT !.att = [i \in 1 .. Len(n.att) |->
           IF n.att[i].name = a.name THEN a ELSE n.att[i]]])

delete_attribute_page(f, name, id) ==
  LET n == get_node_page(f, id)
  IN  set_node_page(f, n.id,
        [n EXCEPT !.att =
           Pick(n.att, {i \in 1 .. Len(n.att) : n.att[i].name # name})])

add_edge_page(f, e, id) ==
  LET n == get_node_page(f, id)
  IN  set_node_page(f, n.id, [n EXCEPT !.edges = Append(n.edges, e)])

update_edge_page(f, e, id) ==
  LET n == get_node_page(f, id)
  IN  set_node_page(f, n.id,
        [n EXCEPT !.edges = [i \in 1 .. Len(n.edges) |->
           IF n.edges[i].id = e.id THEN [n.edges[i] EXCEPT !.name = e.name]
                                   ELSE n.edges[i]]])

(* Mutant: only the first edge to that node is unlinked. *)
delete_edge_page_first(f, target, id) ==
  LET n    == get_node_page(f, id)
      same == {i \in 1 .. Len(n.edges) : n.edges[i].id = target}
  IN  set_node_page(f, n.id,
        [n EXCEPT !.edges =
           Pick(n.edges, {i \in 1 .. Len(n.edges) : i \notin same \/ i > Min(same)})])

delete_edge_page(f, target, id) ==
  LET n == get_node_page(f, id)
  IN  set_node_page(f, n.id,
        [n EXCEPT !.edges =
           Pick(n.edges, {i \in 1 .. Len(n.edges) : n.edges[i].id # target})])
=============================================================================
