---------------------------- MODULE MCJsonExecute ----------------------------
(***************************************************************************)
(* Instances of JsonExecute for TLC.                                       *)
(***************************************************************************)
EXTENDS JsonExecute

CONSTANTS e1, a1, a2

(* Two numbers and a string. *)
TypedValues == {[type |-> integer, v |-> 1], [type |-> integer, v |-> 2],
                [type |-> string, v |-> 1]}

(* Two numbers. *)
NumberValues == {[type |-> integer, v |-> 1], [type |-> integer, v |-> 2]}

(* Two strings, which sort in this order. *)
StringValues == {[type |-> string, v |-> 1], [type |-> string, v |-> 2]}

OutStep    == [type |-> OUT, value |-> e1]
DeleteStep == [type |-> DELETE]
HasStep(conditions) == [type |-> SELECT_CONDITION, conditions |-> conditions]

Compare(option, name, val) == [option |-> option, name |-> name, val |-> val]
RefTo(name, to) == [option |-> reference, name |-> name, to |-> to]

(* Pipelines that walk, and those that walk and delete. *)
OutPipelines    == BoundedSeq({OutStep}, 3)
DeletePipelines == BoundedSeq({OutStep, DeleteStep}, 3)

(* Pipelines that filter: every comparison; a reference, also behind a     *)
(* filter that leaves the file positioned behind the last node selected,   *)
(* behind a delete, to a number, and in a list with a comparison; what     *)
(* either has kept, deleted.                                               *)
One(c) == <<HasStep(<<c>>)>>

Comparisons(vals) == [option : (0 .. 7) \ {reference}, name : {a1}, val : vals]

FilterPipelines ==
  LET v == [type |-> integer, v |-> 1]
      shared == One(RefTo(a1, a1))
  IN  {One(c) : c \in Comparisons(TypedValues)}
        \cup {shared, One(RefTo(a1, 3)), One(Compare(like, a1, v)) \o shared,
              <<HasStep(<<RefTo(a1, a1), Compare(bigger_eq, a1, v)>>)>>}
        \cup {<<DeleteStep>>, <<DeleteStep>> \o shared, shared \o <<DeleteStep>>,
              One(Compare(bigger, a1, v)) \o <<DeleteStep>>}

TwoConditions(vals) ==
  {<<HasStep(<<Compare(o, a1, v), Compare(equals, a2, v)>>)>> :
     o \in {equals, bigger, not_equals}, v \in vals}

(* Walks and deletes; filters of both kinds behind a walk, which may have  *)
(* come from where no node is.                                             *)
DanglingPipelines ==
  LET v == CHOOSE v \in StringValues : TRUE
  IN  DeletePipelines \cup
        {<<OutStep>> \o s : s \in {One(Compare(not_equals, a1, v)), One(RefTo(a1, a1)),
                                   One(RefTo(a1, a1)) \o <<OutStep>>}}

ConditionPipelines == TwoConditions(StringValues)
StringPipelines    == {One(c) : c \in Comparisons(StringValues)}

(* On the stack: nothing; a node whose id is that of no page, behind the   *)
(* file or negative.                                                       *)
ZeroPages == {EmptyPage}

JunkPages ==
  ZeroPages \cup
    {[EmptyPage EXCEPT !.type = start_node, !.id = id] : id \in {-1, PageBound + 1}}
=============================================================================
