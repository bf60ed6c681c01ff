------------------------------ MODULE MCServer -------------------------------
(***************************************************************************)
(* Instances of Server for TLC.                                            *)
(***************************************************************************)
EXTENDS Server

CONSTANT n1

AddOne    == [oper |-> "add_node", node |-> [name |-> n1, att |-> << >>, edges |-> << >>]]
DeleteAll == [oper |-> "select", name |-> AnyName, statements |-> <<[type |-> DELETE]>>]

ListAll   == [oper |-> "select", name |-> AnyName, statements |-> << >>]

ServerPipelines == {<< >>, <<[type |-> DELETE]>>}

(* No statement of these reads a page into what was on the stack. *)
ServerStack == {EmptyPage}

(* Add a node, list or delete all, or send more than fits a buffer. *)
ServerCommands == {AddOne, ListAll, DeleteAll, [oper |-> "too_long", request |-> DeleteAll]}

(* What the theorems about answers ask of the requests. *)
ASSUME PlainAssumption == \A r \in Commands : Plain(r) /\ r.oper # "delete_edge"
ASSUME SmallAssumption == PageBound <= CharRange
=============================================================================
