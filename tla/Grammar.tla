-------------------------------- MODULE Grammar -------------------------------
(***************************************************************************)
(* What a client makes of the command that its user types: the semantic    *)
(* actions of parser/bison.y on the global request tree, the array lists   *)
(* in it, the numbers of parser/lex.l, and tree_to_json of json_tree.c.    *)
(*                                                                         *)
(* The user types a command phrase by phrase; a phrase is what one         *)
(* production with an action stands for.  Anywhere between two phrases,    *)
(* and therefore also within one, which has had no effect yet, a token may *)
(* follow that fits no production, or the input may end: yyparse returns,  *)
(* the client does not look at its result, and sends the tree as it is.    *)
(***************************************************************************)
EXTENDS Integers, Sequences, SequencesExt

CONSTANTS
  Names,            \* words in quotes: names and strings
  Options,          \* the comparisons of has()
  Compared,         \* values that users compare with, as they are typed
  Stored,           \* values that users type into addVertex and addEdge
  Null,             \* the pointer
  Garbage,          \* memory that has been allocated and not written
  InitialCapacity,  \* ARRAYLIST_INITIAL_CAPACITY: 4 in the code
  IntRange,         \* non-negative values of an int: 2^31 in the code
  FloatRange,       \* values of the significand of a float: 2^24 in the code
  RequestSize,      \* phrases that fit the MAX_SIZE bytes of a request
  TypedBound,       \* bound: phrases that the user types
  PairBound         \* bound: attributes of an addVertex

ASSUME GrammarAssumption ==
  /\ {InitialCapacity, IntRange, FloatRange, RequestSize} \subseteq Nat \ {0}
  /\ {TypedBound, PairBound} \subseteq Nat

VARIABLES
  parsed,              \* how far yyparse and then the client have come
  held,                \* the name of an addVertex, on the parser's stack
  tree,
  cur_statement,
  array_list_created,
  typed,               \* the phrases of the user that were parsed
  request              \* what the client has sent, if anything

gvars == <<parsed, held, tree, cur_statement, array_list_created, typed, request>>

ATTR_TYPE_INTEGER == 1
ATTR_TYPE_FLOAT   == 2
ATTR_TYPE_STRING  == 3
ATTR_TYPE_BOOLEAN == 4

SELECT_CONDITION == 0
OUT              == 1
DELETE           == 2

-----------------------------------------------------------------------------
(* array_list.c.                                                           *)

capacity(l) == Len(l.body)

arraylist_create == [size |-> 0, body |-> [j \in 1 .. InitialCapacity |-> Garbage]]

(* Mutant: room is made for the elements there are, not for one more. *)
arraylist_allocate_late(l, size) ==
  IF size <= capacity(l) + 1 THEN l
  ELSE [l EXCEPT !.body = [j \in 1 .. 2 * capacity(l) |->
                             IF j <= capacity(l) THEN l.body[j] ELSE Garbage]]

(* The capacity is doubled until it is enough; here a caller asks for one  *)
(* element more than the list has, so that doubling once is.               *)
arraylist_allocate(l, size) ==
  IF size <= capacity(l) THEN l
  ELSE [l EXCEPT !.body = [j \in 1 .. 2 * capacity(l) |->
                             IF j <= capacity(l) THEN l.body[j] ELSE Garbage]]

arraylist_add(l, item) ==
  LET room == arraylist_allocate(l, l.size + 1)
  IN  [size |-> l.size + 1, body |-> [room.body EXCEPT ![l.size + 1] = item]]

arraylist_size(l) == l.size

(* Beyond the array is memory of others. *)
arraylist_get(l, index) == IF index < capacity(l) THEN l.body[index + 1] ELSE Garbage

(* The loops of json_tree.c over a list. *)
Items(l) == [j \in 1 .. arraylist_size(l) |-> arraylist_get(l, j - 1)]

-----------------------------------------------------------------------------
(* lex.l: the values that users type.                                      *)

(* The values that the rules for words, truth values and numbers match: a  *)
(* number with the minus sign before it, if any, the digits before the     *)
(* point, one behind it, and perhaps an exponent, which is 1.              *)
Scalar ==
  [kind : {"word"}, word : Names]
    \cup [kind : {"truth"}, truth : {0, 1}]
    \cup [kind : {"number"}, negative : BOOLEAN, whole : Nat, tenths : 0 .. 9,
          exponent : BOOLEAN]

ASSUME ScalarsAssumption == Compared \cup Stored \subseteq Scalar

(* (int) of what atoi converts, as far as a long holds it. *)
Wrapped(n) == LET w == n % (2 * IntRange) IN IF w < IntRange THEN w ELSE w - 2 * IntRange

Tenths(s) == (10 * s.whole + s.tenths) * (IF s.exponent THEN 10 ELSE 1)

Integral(s) == s.kind = "number" /\ Tenths(s) % 10 = 0

(* A number that a request carries is num / den. *)
Fraction == [num : Int, den : Nat \ {0}]

Exactly(n) == [num |-> n, den |-> 1]

PowersOfTwo(n) == {p \in 1 .. n : \A d \in 2 .. p : p % d = 0 => d % 2 = 0}

(* n / d to the nearest whole number; of two, to the even one. *)
Nearest(n, d) ==
  LET down == n \div d
      rest == 2 * (n % d)
  IN  IF rest < d \/ (rest = d /\ down % 2 = 0) THEN down ELSE down + 1

(* The float that is nearest to so many tenths: its significand is a whole *)
(* number below FloatRange, its scale the finest power of two that leaves  *)
(* room for it.  The double that atof returns is taken to be the number    *)
(* itself: it has 29 bits more, and no tenth is so near to the middle      *)
(* between two floats that they decide.                                    *)
Float(tenths) ==
  IF tenths < 10 * FloatRange
  THEN LET q == Max(PowersOfTwo((10 * FloatRange - 1) \div tenths))
       IN  [num |-> Nearest(tenths * q, 10), den |-> q]
  ELSE LET p == Max(PowersOfTwo(tenths \div (5 * FloatRange)))
       IN  Exactly(p * Nearest(tenths, 10 * p))

(* Mutant: every number is an INTEGER. *)
Lex_atoi(s) ==
  CASE s.kind = "word"   -> [type |-> ATTR_TYPE_STRING, v |-> s.word]
    [] s.kind = "truth"  -> [type |-> ATTR_TYPE_BOOLEAN, v |-> Exactly(s.truth)]
    [] s.kind = "number" -> [type |-> ATTR_TYPE_INTEGER, v |-> Exactly(Wrapped(s.whole))]

(* No rule takes a minus sign before a digit: flex echoes it and goes on.  *)
(* A number without fraction is an INTEGER, read again by atoi, which      *)
(* stops at a point or an exponent.  A DECIMAL is narrowed to the float of *)
(* yylval, and stays one in the tree.                                      *)
Lex(s) ==
  CASE s.kind = "word"  -> [type |-> ATTR_TYPE_STRING, v |-> s.word]
    [] s.kind = "truth" -> [type |-> ATTR_TYPE_BOOLEAN, v |-> Exactly(s.truth)]
    [] s.kind = "number" ->
         IF Integral(s)
         THEN [type |-> ATTR_TYPE_INTEGER, v |-> Exactly(Wrapped(s.whole))]
         ELSE [type |-> ATTR_TYPE_FLOAT, v |-> Float(Tenths(s))]

-----------------------------------------------------------------------------
(* request_tree.h: what a request consists of.                             *)

List(S) == [size : Nat, body : Seq(S \cup {Garbage})]

Typing    == ATTR_TYPE_INTEGER .. ATTR_TYPE_BOOLEAN
Value     == Names \cup Fraction
Pair      == [name : Names, type : Typing, val : Value]
Condition == [name : Names, option : Options, type : Typing, val : Value]
Statement ==
  [type : {SELECT_CONDITION}, conditions : List(Condition)]
    \cup [type : {OUT}, value : Names]
    \cup [type : {DELETE}]

(* NULL and memory that was not written are none of these. *)
ASSUME PointersAssumption ==
  /\ Null # Garbage
  /\ \A p \in {Null, Garbage} :
       p \notin Names \cup Pair \cup Statement \cup List(Pair) \cup List(Statement \cup {Null})

-----------------------------------------------------------------------------
(* The parser.                                                             *)

GInit ==
  /\ parsed = "nothing" /\ held = Null
  /\ tree = [type |-> "UNDEFINED", schema_name |-> Null, statements |-> Null,
             name |-> Null, attribute_values |-> Null, ids |-> Null]
  /\ cur_statement = Null /\ array_list_created = FALSE
  /\ typed = << >> /\ request = << >>

(* The parser is here, takes this phrase and goes there. *)
Takes(from, phrase, to) ==
  /\ parsed = from /\ parsed' = to
  /\ Len(typed) < TypedBound
  /\ typed' = Append(typed, phrase)
  /\ UNCHANGED request

(* V("name") or V(): select_nodes is a select_command without more ado. *)
select_nodes(name) ==
  /\ Takes("nothing", [what |-> "V", name |-> name], "select")
  /\ tree' = [tree EXCEPT !.type = "SELECT", !.schema_name = name]
  /\ UNCHANGED <<held, cur_statement, array_list_created>>

(* The list of statements, which the first of them creates. *)
Statements == IF array_list_created THEN tree.statements ELSE arraylist_create

AddStatement(s) ==
  /\ tree' = [tree EXCEPT !.statements = arraylist_add(Statements, s)]
  /\ array_list_created' = TRUE
  /\ cur_statement' = Null

(* The beginning of .has(, which has no action. *)
begin_condition ==
  /\ Takes("select", [what |-> "has("], "has")
  /\ UNCHANGED <<held, tree, cur_statement, array_list_created>>

(* The comma between two conditions may be missing, and one may follow the *)
(* last.                                                                   *)
select_statement(name, option, s) ==
  /\ Takes("has", [what |-> "condition", name |-> name, option |-> option, val |-> s], "has")
  /\ LET cur == IF cur_statement # Null THEN cur_statement
                ELSE [type |-> SELECT_CONDITION, conditions |-> arraylist_create]
     IN  cur_statement' = [cur EXCEPT !.conditions =
           arraylist_add(@, [name |-> name, option |-> option,
                             type |-> Lex(s).type, val |-> Lex(s).v])]
  /\ UNCHANGED <<held, tree, array_list_created>>

(* Mutant: cur_statement is not reset. *)
select_condition_kept ==
  /\ Takes("has", [what |-> ")"], "select")
  /\ tree' = [tree EXCEPT !.statements = arraylist_add(Statements, cur_statement)]
  /\ array_list_created' = TRUE
  /\ UNCHANGED <<held, cur_statement>>

(* The closing brace of .has(...).  Without a condition in it,             *)
(* cur_statement is NULL, and that is what is added.                       *)
select_condition ==
  /\ Takes("has", [what |-> ")"], "select")
  /\ AddStatement(cur_statement)
  /\ UNCHANGED held

join(name) ==
  /\ Takes("select", [what |-> "out", name |-> name], "select")
  /\ AddStatement([type |-> OUT, value |-> name])
  /\ UNCHANGED held

delete_command ==
  /\ Takes("select", [what |-> "delete"], "select")
  /\ AddStatement([type |-> DELETE])
  /\ UNCHANGED held

(* addVertex("name": the tree does not know of it yet. *)
begin_vertex(name) ==
  /\ Takes("nothing", [what |-> "addVertex", name |-> name], "vertex")
  /\ held' = name
  /\ UNCHANGED <<tree, cur_statement, array_list_created>>

attribute_value_pair(name, s) ==
  /\ Len(typed) <= PairBound
  /\ Takes("vertex", [what |-> "pair", name |-> name, val |-> s], "vertex")
  /\ LET list == IF array_list_created THEN tree.attribute_values ELSE arraylist_create
     IN  tree' = [tree EXCEPT !.attribute_values =
           arraylist_add(list, [name |-> name, type |-> Lex(s).type, val |-> Lex(s).v])]
  /\ array_list_created' = TRUE
  /\ UNCHANGED <<held, cur_statement>>

add_vertex ==
  /\ Takes("vertex", [what |-> ")"], "command")
  /\ tree' = [tree EXCEPT !.type = "ADD_NODE", !.name = held]
  /\ UNCHANGED <<held, cur_statement, array_list_created>>

(* addEdge and deleteEdge, whose ids have to be integers. *)
edge_command(type, name, s1, s2) ==
  /\ Integral(s1) /\ Integral(s2)
  /\ Takes("nothing", [what |-> type, name |-> name, ids |-> <<s1, s2>>], "command")
  /\ tree' = [tree EXCEPT !.type = type, !.name = name, !.ids = <<Lex(s1).v, Lex(s2).v>>]
  /\ UNCHANGED <<held, cur_statement, array_list_created>>

add_edge(name, s1, s2)    == edge_command("ADD_EDGE", name, s1, s2)
delete_edge(name, s1, s2) == edge_command("DELETE_EDGE", name, s1, s2)

(* open("file"), create("file") and close(). *)
file_command(type) ==
  /\ Takes("nothing", [what |-> type], "command")
  /\ tree' = [tree EXCEPT !.type = type]
  /\ UNCHANGED <<held, cur_statement, array_list_created>>

(* YYACCEPT at a semicolon, or a token that fits no rule, or the end of    *)
(* the input: the caller cannot tell.                                      *)
yyparse_returns ==
  /\ parsed \in {"nothing", "select", "has", "vertex", "command"}
  /\ parsed' = "all"
  /\ UNCHANGED <<held, tree, cur_statement, array_list_created, typed, request>>

-----------------------------------------------------------------------------
(* The client.                                                             *)

(* tree_to_json dereferences a list or a statement that is not there. *)
JsonEnds ==
  \/ tree.type = "ADD_NODE" /\ tree.attribute_values = Null
  \/ /\ tree.type = "SELECT" /\ tree.statements # Null
     /\ {Null, Garbage} \cap Range(Items(tree.statements)) # {}

StatementJson(s) ==
  IF s.type = SELECT_CONDITION THEN [s EXCEPT !.conditions = Items(@)] ELSE s

tree_to_json ==
  CASE tree.type = "ADD_NODE" ->
         [oper |-> "add_node", name |-> tree.name, att |-> Items(tree.attribute_values)]
    [] tree.type = "SELECT" ->
         [oper |-> "select", name |-> tree.schema_name,
          statements |-> IF tree.statements = Null THEN << >>
                         ELSE [j \in DOMAIN Items(tree.statements) |->
                                 StatementJson(Items(tree.statements)[j])]]
    [] tree.type \in {"ADD_EDGE", "DELETE_EDGE"} ->
         [oper |-> tree.type, name |-> tree.name, ids |-> tree.ids]
    [] OTHER -> [oper |-> "none"]

(* The size of a request, in phrases. *)
AddSize(n, s) == n + (IF s.type = SELECT_CONDITION THEN 1 + Len(s.conditions) ELSE 1)

StatementsSize(statements) == FoldLeft(AddSize, 1, statements)

Size(r) ==
  CASE r.oper = "add_node" -> 1 + Len(r.att)
    [] r.oper = "select"   -> StatementsSize(r.statements)
    [] r.oper \notin {"add_node", "select"} -> 1

(* close() ends the client without a request. *)
client_returns ==
  /\ parsed = "all" /\ tree.type = "CLOSE"
  /\ parsed' = "closed"
  /\ UNCHANGED <<held, tree, cur_statement, array_list_created, typed, request>>

client_sends ==
  /\ parsed = "all" /\ tree.type # "CLOSE" /\ ~JsonEnds
  /\ parsed' = "sent"
  /\ request' = <<IF Size(tree_to_json) <= RequestSize THEN tree_to_json
                  ELSE [oper |-> "too_long"]>>
  /\ UNCHANGED <<held, tree, cur_statement, array_list_created, typed>>

(* It dereferences NULL, or strcpy runs over the end of temp_buff, which   *)
(* may end the client, or not.                                             *)
client_crashes ==
  /\ parsed = "all" /\ tree.type # "CLOSE"
  /\ ~JsonEnds => Size(tree_to_json) > RequestSize
  /\ parsed' = "crashed"
  /\ UNCHANGED <<held, tree, cur_statement, array_list_created, typed, request>>

GNext ==
  \/ \E name \in Names \cup {Null} : select_nodes(name)
  \/ begin_condition
  \/ \E name \in Names, option \in Options, s \in Compared : select_statement(name, option, s)
  \/ select_condition
  \/ \E name \in Names : join(name)
  \/ delete_command
  \/ \E name \in Names : begin_vertex(name)
  \/ \E name \in Names, s \in Stored : attribute_value_pair(name, s)
  \/ add_vertex
  \/ \E name \in Names, s1, s2 \in Stored : add_edge(name, s1, s2) \/ delete_edge(name, s1, s2)
  \/ \E type \in {"OPEN", "CREATE", "CLOSE"} : file_command(type)
  \/ yyparse_returns
  \/ client_returns
  \/ client_sends
  \/ client_crashes

GSpec == GInit /\ [][GNext]_gvars

-----------------------------------------------------------------------------
(* Properties.                                                             *)

(* Every list has room for what it holds and holds what was put in it, the *)
(* flag says whether there is a list, and a statement is under             *)
(* construction only between the braces of its has().                      *)
GTypeOK ==
  /\ \A l \in {tree.statements, tree.attribute_values} \ {Null} :
       l.size <= capacity(l) /\ Garbage \notin Range(Items(l))
  /\ array_list_created <=> {tree.statements, tree.attribute_values} # {Null}
  /\ cur_statement # Null => Last(typed).what = "condition"
  /\ request # << >> <=> parsed = "sent"

Json(name, s) == [name |-> name, type |-> Lex(s).type, val |-> Lex(s).v]

(* The statements that were typed to their end, and the has() that was not. *)
Parse(acc, p) ==
  CASE p.what = "condition" ->
         [open |-> Append(acc.open, [name |-> p.name, option |-> p.option,
                                     type |-> Lex(p.val).type, val |-> Lex(p.val).v]),
          done |-> acc.done]
    [] p.what = ")" ->
         [open |-> << >>,
          done |-> Append(acc.done, [type |-> SELECT_CONDITION, conditions |-> acc.open])]
    [] p.what = "out"    -> [open |-> acc.open,
                             done |-> Append(acc.done, [type |-> OUT, value |-> p.name])]
    [] p.what = "delete" -> [open |-> acc.open, done |-> Append(acc.done, [type |-> DELETE])]
    [] p.what \notin {"condition", ")", "out", "delete"} -> acc

Parsed(phrases) == FoldLeft(Parse, [open |-> << >>, done |-> << >>], phrases)

WholeStatements == Parsed(typed).done

(* The request that the user typed: of a V(...) as much as was typed to    *)
(* its end, of any other command all or nothing.                           *)
Asked ==
  CASE typed = << >> -> [oper |-> "none"]
    [] typed # << >> /\ typed[1].what = "V" ->
         [oper |-> "select", name |-> typed[1].name, statements |-> WholeStatements]
    [] typed # << >> /\ typed[1].what = "addVertex" /\ Last(typed).what = ")" ->
         [oper |-> "add_node", name |-> typed[1].name,
          att |-> [j \in 1 .. Len(typed) - 2 |-> Json(typed[j + 1].name, typed[j + 1].val)]]
    [] typed # << >> /\ typed[1].what \in {"ADD_EDGE", "DELETE_EDGE"} ->
         [oper |-> typed[1].what, name |-> typed[1].name,
          ids |-> <<Lex(typed[1].ids[1]).v, Lex(typed[1].ids[2]).v>>]
    [] OTHER -> [oper |-> "none"]

(* What is sent is what was typed up to a syntax error or the end of the   *)
(* input: every has() with its own conditions, all of them, in order, and  *)
(* nothing of an unfinished one; an addVertex or an edge command that was  *)
(* not finished changes nothing.  A delete() is sent only with every       *)
(* statement that was typed before it.                                     *)
SentAsTyped ==
  parsed = "sent" => request[1] = Asked \/ request[1].oper = "too_long"

(* The client ends without sending or closing only for a has() without     *)
(* conditions, an addVertex without attributes or a request that is too    *)
(* long for it; never because of where the input broke off.                *)
CrashesForCause ==
  parsed = "crashed" =>
    \/ \E j \in 1 .. Len(typed) - 1 : typed[j].what = "has(" /\ typed[j + 1].what = ")"
    \/ Len(typed) = 2 /\ typed[1].what = "addVertex" /\ typed[2].what = ")"
    \/ Len(typed) > RequestSize

(* The numbers of a phrase. *)
Numbers(p) ==
  {s \in CASE p.what \in {"condition", "pair"} -> {p.val}
           [] p.what \in {"ADD_EDGE", "DELETE_EDGE"} -> Range(p.ids)
           [] OTHER -> {} : s.kind = "number"}

Meant(s) == IF s.negative THEN -Tenths(s) ELSE Tenths(s)

(* What is sent of s is what its user meant. *)
Kept(s) == 10 * Lex(s).v.num = Meant(s) * Lex(s).v.den

(* A number that was typed is the number that is sent if and only if it is *)
(* zero, or has no sign and is either whole, without an exponent and an    *)
(* int, or a half that a float has the bits for: of the other tenths       *)
(* another number is sent, the float that is nearest.  The least int is    *)
(* sent as well: its sign is lost, and it overflows into it.               *)
NumbersKept ==
  \A j \in DOMAIN typed : \A s \in Numbers(typed[j]) :
    Kept(s) <=>
      \/ Tenths(s) = 0
      \/ ~s.negative /\ Integral(s) /\ ~s.exponent /\ s.whole < IntRange
      \/ ~s.negative /\ ~Integral(s) /\ s.tenths = 5 /\ 2 * s.whole + 1 < FloatRange
      \/ s.negative /\ Integral(s) /\ ~s.exponent /\ s.whole = IntRange
=============================================================================
