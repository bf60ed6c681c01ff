------------------------------ MODULE Database -------------------------------
(***************************************************************************)
(* The operations of database/idata.c as the server process runs them, one *)
(* at a time, on the FILE it opened at start.                              *)
(*                                                                         *)
(* stdio keeps what was written last in a buffer: every operation begins   *)
(* with an fseek to the start of the file, which writes that buffer out,   *)
(* and ends with its own record still in it.  `file` is the file as the    *)
(* process reads it, `disk` what the operating system has been given.  A   *)
(* buffer holds at least one page, so a record is never written in parts,  *)
(* and a kill between two steps of an operation leaves the disk of a kill  *)
(* before or after the operation.                                          *)
(***************************************************************************)
EXTENDS Pages

CONSTANTS
  PageBound,   \* bound: pages in the file
  ListBound,   \* bound: attributes and edges of a node, taken together
  NewAttBound  \* bound: attributes in a node handed to add_ or update_node

ASSUME BoundsAssumption == {PageBound, ListBound, NewAttBound} \subseteq Nat

VARIABLES
  file,  \* the pages as the process sees them
  disk,  \* the pages that survive the process
  up     \* the process is running

vars == <<file, disk, up>>

Init == file = << >> /\ disk = << >> /\ up = TRUE

(* Ids that a request may name: those of the pages, and one beyond. *)
NodeIds == 0 .. PageBound

EdgeInputs == [name : EdgeNames, id : NodeIds]

(* No caller gives a new node edges: json_execute leaves them NULL. *)
NodeInputs ==
  [name  : NodeNames,
   att   : UNION {[1 .. k -> Attribute] : k \in 0 .. NewAttBound},
   edges : {<< >>}]

-----------------------------------------------------------------------------
(* How an operation leaves the two copies.                                 *)

(* It wrote a page; the page is in the buffer. *)
Writes(g) == up /\ file' = g /\ disk' = file /\ up' = up

(* It only read, or returned early because no page was found. *)
Flush == up /\ disk' = file /\ UNCHANGED <<file, up>>

(* It dereferenced NULL after reading: what was buffered before it is out. *)
Segfault == up /\ disk' = file /\ up' = FALSE /\ file' = file

(* An operation on the node id, with the lookup and early return that all  *)
(* of them begin with.                                                     *)
OnNode(id, g) == IF Found(file, id) THEN Writes(g) ELSE Flush

(* The lists of n are shorter than the bound on them. *)
Room(n) == Len(n.att) + Len(n.edges) < ListBound

-----------------------------------------------------------------------------
(* Operations.                                                             *)

(* Mutant: the page of zeros stays in the buffer with the node. *)
AddNode_unflushed(n) ==
  /\ EmptyIds(file) # {} \/ Len(file) < PageBound
  /\ up
  /\ file' = create_node_page(file, n)
  /\ disk' = file
  /\ up' = up

(* create_node_page reuses an empty page, or appends one: the fseek after  *)
(* create_new_page writes the page of zeros out before the node.           *)
AddNode(n) ==
  /\ EmptyIds(file) # {} \/ Len(file) < PageBound
  /\ up
  /\ file' = create_node_page(file, n)
  /\ disk' = IF EmptyIds(file) # {} THEN file ELSE Append(file, EmptyPage)
  /\ up' = up

UpdateNode(id, n) == OnNode(id, update_node_page(file, n, id))

DeleteNode(id) == OnNode(id, delete_node_page(file, id))

AddAttribute(id, a) ==
  /\ Found(file, id) => Room(get_node_page(file, id))
  /\ OnNode(id, add_attribute_page(file, a, id))

UpdateAttribute(id, a) == OnNode(id, update_attribute_page(file, a, id))

DeleteAttribute(id, name) ==
  IF Found(file, id) /\ DeleteAttributeCrashes(get_node_page(file, id), name)
  THEN Segfault
  ELSE OnNode(id, delete_attribute_page(file, name, id))

AddEdge(id, e) ==
  /\ Found(file, id) => Room(get_node_page(file, id))
  /\ OnNode(id, add_edge_page(file, e, id))

UpdateEdge(id, e) == OnNode(id, update_edge_page(file, e, id))

DeleteEdge(id, target) ==
  IF Found(file, id) /\ DeleteEdgeCrashes(get_node_page(file, id), target)
  THEN Segfault
  ELSE OnNode(id, delete_edge_page(file, target, id))

(* get_node, find_by_name and the filters scan the file and write nothing. *)
Find == Flush

(* find_edge_page reads the edges of the node it looked up before it has   *)
(* checked that there is one.                                              *)
FindEdge(id) == IF Found(file, id) THEN Flush ELSE Segfault

(* The process is killed: its buffer is gone. *)
Kill == up /\ up' = FALSE /\ file' = disk /\ disk' = disk

(* main returns after a failed read: stdio writes its buffer out. *)
Exit == up /\ disk' = file /\ up' = FALSE /\ file' = file

(* fopen "rb+", after creating the file if there is none. *)
start_database == ~up /\ up' = TRUE /\ file' = disk /\ disk' = disk

(* The ids that some lookup finds: one byte of an id, which has a sign. *)
FoundIds == {LowByte(id) : id \in Ids(file)}

(* delete_node is also called with what a pipeline has parsed as an id: if *)
(* that is neither in NodeIds nor found, the call is a Find.               *)
Next ==
  \/ \E n \in NodeInputs : AddNode(n)
  \/ \E id \in NodeIds, n \in NodeInputs : UpdateNode(id, n)
  \/ \E id \in NodeIds \cup FoundIds : DeleteNode(id)
  \/ \E id \in NodeIds, a \in Attribute : AddAttribute(id, a)
  \/ \E id \in NodeIds, a \in Attribute : UpdateAttribute(id, a)
  \/ \E id \in NodeIds, name \in AttNames : DeleteAttribute(id, name)
  \/ \E id \in NodeIds, e \in EdgeInputs : AddEdge(id, e)
  \/ \E id \in NodeIds, e \in EdgeInputs : UpdateEdge(id, e)
  \/ \E id \in NodeIds, target \in NodeIds : DeleteEdge(id, target)
  \/ Find
  \/ \E id \in NodeIds : FindEdge(id)
  \/ Kill
  \/ Exit
  \/ start_database

Spec == Init /\ [][Next]_vars

-----------------------------------------------------------------------------
(* Properties.                                                             *)

(* Every page is empty or holds one node, in both copies of the file. *)
TypeOK == file \in Seq(Page) /\ disk \in Seq(Page) /\ up \in BOOLEAN

(* The id stored in a node page is the page's position, whatever sequence  *)
(* of deletions, reused pages, rewrites and crashes led to it: the code    *)
(* writes page n of the file as the node whose id field is n, and          *)
(* find_edge_page and find_filter_part_page go from an id to a page by     *)
(* that rule, without looking at the page's own id.                        *)
IdIsPosition ==
  \A f \in {file, disk} : \A id \in LiveIds(f) : f[id + 1].id = id

(* A node whose id fits a signed char is found by its id and only by it,   *)
(* however many pages the file has beyond those: get_node_page compares    *)
(* one byte, but it scans from page 0.                                     *)
LowIdsExact ==
  \A id \in LiveIds(file) : id < CharRange =>
     /\ Found(file, id)
     /\ get_node_page(file, id).id = id

(* A restart finds a file that differs from the one the process was        *)
(* working on in at most one page: stdio never holds back more than the    *)
(* last record, and never a page the file does not yet have.               *)
AtMostOneUnsaved ==
  /\ Len(disk) = Len(file)
  /\ \E p \in Ids(file) \cup {0} : \A q \in Ids(file) \ {p} : disk[q + 1] = file[q + 1]

(* The file never shrinks, and grows by one page only when every page      *)
(* holds a node: deleted pages are reused before the file grows, also      *)
(* when the page of an unfinished add_node survived a kill.                *)
GrowsOnlyWhenFull ==
  [][\/ Len(file') = Len(file)
     \/ Len(file') = Len(file) + 1 /\ EmptyIds(file) = {}]_file

(* What the message of get_node_page, "Haven't page with it's id", tells:  *)
(* a node that is not found is not in the file.                            *)
MissingMeansAbsent ==
  \A id \in NodeIds : ~Found(file, id) => ~IsLive(file, id)
=============================================================================
