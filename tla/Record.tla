-------------------------------- MODULE Record -------------------------------
(***************************************************************************)
(* The bytes of the page file of database/database.c: how set_node_page    *)
(* lays a node out on its page, how page_to_node reads it back, and what   *)
(* is left of both when a record does not fit.                             *)
(*                                                                         *)
(* The module runs the page operations of Pages on bytes and keeps beside  *)
(* them, in `file`, the record last written to each page.  Pages assumes   *)
(* that this is what a page holds: ReadBackIffFits says when it does.      *)
(* A byte is an integer; an id and a number take one byte here, a name is  *)
(* a sequence of characters, a value [type, v] a sequence v.               *)
(***************************************************************************)
EXTENDS Pages

CONSTANTS
  PageSize,   \* PAGE_SIZE: 2048 in the code
  PageBound,  \* bound: pages in the file
  ListBound   \* bound: attributes and edges of a node, taken together

(* fwrite of a longer node name is handed a negative size: not followed.   *)
(* The lexer has no empty words; an empty name would end a list.           *)
ASSUME NamesAssumption ==
  /\ \A name \in NodeNames : Len(name) < CharRange
  /\ << >> \notin AttNames \cup EdgeNames
ASSUME SizesAssumption == {PageSize, PageBound, ListBound} \subseteq Nat \ {0}

string == 3  \* the value of enum type; the others are numbers

Char == -CharRange .. CharRange - 1

(* Every byte is a signed char, and a page has room for any name.          *)
ASSUME BytesAssumption ==
  /\ NodeNames \cup AttNames \cup EdgeNames \subseteq Seq(Char)
  /\ \A val \in Values : /\ val \in [type : Char, v : Seq(Char)]
                         /\ val.type # string => Len(val.v) = 1
  /\ start_node \in Char
  /\ PageBound <= CharRange
  /\ CharRange + 4 <= PageSize

VARIABLES
  bytes,  \* the file
  file,   \* what was written to each page last, as one record of Pages
  lost    \* a record has run over the end of its page, or bytes that are
          \* not a record were read as one: not followed any further

rvars == <<bytes, file, lost>>

-----------------------------------------------------------------------------
(* Writing.                                                                *)

(* (char) strlen(s), read back: the low byte, as a signed char. *)
Length(s) == LowByte(Len(s))

Zeros(k) == [i \in 1 .. k |-> 0]

Text(s) == <<Length(s)>> \o s

AttributeBytes(a) ==
  Text(a.name) \o <<a.val.type>> \o (IF a.val.type = string THEN Text(a.val.v) ELSE a.val.v)

EdgeBytes(e) == Text(e.name) \o <<e.id>>

Bytes(parts) == FoldLeft(LAMBDA s, p : s \o p, << >>, parts)

Attributes(p) == Bytes([i \in DOMAIN p.att |-> AttributeBytes(p.att[i])])
Edges(p)      == Bytes([i \in DOMAIN p.edges |-> EdgeBytes(p.edges[i])])

(* Mutant: the list of edges is not ended. *)
NodeBytes_open(p) ==
  <<start_node, p.id>> \o Text(p.name) \o Attributes(p) \o <<0>>
    \o Edges(p)

(* Mutant: the attributes are not ended when there are none. *)
NodeBytes_none(p) ==
  <<start_node, p.id>> \o Text(p.name) \o Attributes(p)
    \o (IF p.att = << >> THEN << >> ELSE <<0>>) \o Edges(p) \o <<0>>

(* What set_node_page writes: each list ends with a byte 0, and the rest   *)
(* of the page stays as it was.                                            *)
NodeBytes(p) ==
  <<start_node, p.id>> \o Text(p.name) \o Attributes(p) \o <<0>>
    \o Edges(p) \o <<0>>

(* fwrite at a position: over what is there, and beyond the end. *)
WriteAt(b, pos, s) ==
  [i \in 1 .. Max({Len(b), pos + Len(s)}) |->
     IF i \in pos + 1 .. pos + Len(s) THEN s[i - pos] ELSE b[i]]

-----------------------------------------------------------------------------
(* Reading.                                                                *)

(* Stands for whatever comes of it when reading leaves the page. *)
Unreadable(page) == [type |-> start_node, id |-> page[2], name |-> NoName,
                     att |-> << >>, edges |-> << >>]

(* The text whose length is at position c of page, which ends at c + len.  *)
(* A negative length makes calloc return NULL and moves c backwards.       *)
IsText(page, c) ==
  c \in DOMAIN page /\ page[c] >= 0 /\ c + page[c] < Len(page)

TextAt(page, c) == SubSeq(page, c + 1, c + page[c])
After(page, c)  == c + page[c] + 1

(* The attribute at c, and where the next one begins; or next = 0. *)
AttributeAt(page, c) ==
  LET t    == After(page, c)
      bad  == [next |-> 0, val |-> << >>]
      val(v) == [name |-> TextAt(page, c), val |-> [type |-> page[t], v |-> v]]
  IN  IF ~IsText(page, c) THEN bad
      ELSE IF page[t] = string
      THEN IF IsText(page, t + 1)
           THEN [next |-> After(page, t + 1), val |-> val(TextAt(page, t + 1))]
           ELSE bad
      ELSE IF t + 1 < Len(page)
      THEN [next |-> t + 2, val |-> val(<<page[t + 1]>>)]
      ELSE bad

EdgeAt(page, c) ==
  IF IsText(page, c) /\ After(page, c) < Len(page)
  THEN [next |-> After(page, c) + 1,
        val  |-> [name |-> TextAt(page, c), id |-> page[After(page, c)]]]
  ELSE [next |-> 0, val |-> << >>]

(* The elements from position c up to a byte 0, in the order stored, and   *)
(* the position behind that byte; or next = 0 when reading leaves the page *)
(* or runs into a negative length.  elementAt[c] is the element at c.       *)
ListAt(page, elementAt, from) ==
  LET list[c \in 1 .. Len(page)] ==
        IF page[c] = 0 THEN [next |-> c + 1, val |-> << >>]
        ELSE LET x == elementAt[c]
             IN  IF x.next = 0 THEN x
                 ELSE [next |-> list[x.next].next,
                       val  |-> <<x.val>> \o list[x.next].val]
  IN  list[from]

(* page_to_node, with the lists in the order they are stored. *)
ReadPage(page) ==
  IF page[1] # start_node THEN [EmptyPage EXCEPT !.type = page[1]]
  ELSE IF ~IsText(page, 3) THEN Unreadable(page)
  ELSE LET atts == ListAt(page, [c \in DOMAIN page |-> AttributeAt(page, c)], After(page, 3))
       IN  IF atts.next \notin DOMAIN page THEN Unreadable(page)
           ELSE LET edges == ListAt(page, [c \in DOMAIN page |-> EdgeAt(page, c)], atts.next)
                IN  IF edges.next = 0 THEN Unreadable(page)
                    ELSE [type |-> start_node, id |-> page[2], name |-> TextAt(page, 3),
                          att |-> atts.val, edges |-> edges.val]

(* The pages as the program reads them, one fread after the other.  (With  *)
(* the concatenation TLC builds this sequence once, instead of reading a   *)
(* page again for each use of it.)                                         *)
Contents ==
  << >> \o [k \in 1 .. Len(bytes) \div PageSize |->
              ReadPage(SubSeq(bytes, (k - 1) * PageSize + 1, k * PageSize))]

-----------------------------------------------------------------------------
(* The operations, on the bytes and on the pages.                          *)

RInit == bytes = << >> /\ file = << >> /\ lost = FALSE

(* set_node_page at page pos of a file with these bytes and records. *)
Put(b, f, pos, page) ==
  LET s == NodeBytes(page)
  IN  /\ bytes' = WriteAt(b, pos * PageSize, s)
      /\ file' = [f EXCEPT ![pos + 1] = page]
      /\ lost' = (Len(s) > PageSize)

(* Mutant: create_node_page without create_new_page. *)
AddNode_unpadded(n) ==
  LET empty == EmptyIds(Contents)
      pos   == IF empty # {} THEN Min(empty) ELSE Len(Contents)
      page  == create_node_page(Contents, n)[pos + 1]
  IN  /\ ~lost
      /\ IF empty # {}
         THEN Put(bytes, file, pos, page)
         ELSE /\ pos < PageBound
              /\ Put(bytes, Append(file, EmptyPage), pos, page)

(* create_node_page: the first page that begins with empty_page, or a new  *)
(* page of zeros.                                                          *)
AddNode(n) ==
  LET empty == EmptyIds(Contents)
      pos   == IF empty # {} THEN Min(empty) ELSE Len(Contents)
      page  == create_node_page(Contents, n)[pos + 1]
  IN  /\ ~lost
      /\ IF empty # {}
         THEN Put(bytes, file, pos, page)
         ELSE /\ pos < PageBound
              /\ Put(bytes \o Zeros(PageSize), Append(file, EmptyPage), pos, page)

(* An operation that looks a node up in f, which is Contents, changes it   *)
(* and writes it back, so that the pages are new; it returns early when    *)
(* there is no such page.  ok excludes the inputs that Database deals      *)
(* with: those beyond a bound and those that end the process before        *)
(* anything is written.                                                    *)
Rewrite(f, id, new, ok) ==
  /\ ~lost
  /\ Found(f, id) /\ get_node_page(f, id).name # NoName
  /\ ok
  /\ LET pos == get_node_page(f, id).id IN Put(bytes, file, pos, new[pos + 1])

Room(n) == Len(n.att) + Len(n.edges) < ListBound

(* page_to_node ran out of the page, or backwards. *)
Misread(id) ==
  LET f == Contents
  IN  /\ ~lost
      /\ Found(f, id) /\ get_node_page(f, id).name = NoName
      /\ lost' = TRUE /\ UNCHANGED <<bytes, file>>

DeleteNode(id) ==
  LET f == Contents
      n == get_node_page(f, id)
  IN  /\ ~lost
      /\ Found(f, id) /\ n.name # NoName
      /\ bytes' = WriteAt(bytes, n.id * PageSize, Zeros(PageSize))
      /\ file' = [file EXCEPT ![n.id + 1] = EmptyPage]
      /\ UNCHANGED lost

UpdateNode(id, n) ==
  LET f == Contents IN Rewrite(f, id, update_node_page(f, n, id), TRUE)

AddAttribute(id, a) ==
  LET f == Contents
  IN  Rewrite(f, id, add_attribute_page(f, a, id), Room(get_node_page(f, id)))

UpdateAttribute(id, a) ==
  LET f == Contents IN Rewrite(f, id, update_attribute_page(f, a, id), TRUE)

DeleteAttribute(id, name) ==
  LET f == Contents
  IN  Rewrite(f, id, delete_attribute_page(f, name, id),
              ~DeleteAttributeCrashes(get_node_page(f, id), name))

AddEdge(id, e) ==
  LET f == Contents
  IN  Rewrite(f, id, add_edge_page(f, e, id), Room(get_node_page(f, id)))

UpdateEdge(id, e) ==
  LET f == Contents IN Rewrite(f, id, update_edge_page(f, e, id), TRUE)

DeleteEdge(id, target) ==
  LET f == Contents
  IN  Rewrite(f, id, delete_edge_page(f, target, id),
              ~DeleteEdgeCrashes(get_node_page(f, id), target))

NodeIds == 0 .. PageBound - 1

(* New nodes have no attributes here: AddAttribute gives them some. *)
NodeInputs == [name : NodeNames, att : {<< >>}, edges : {<< >>}]

EdgeInputs == [name : EdgeNames, id : NodeIds]

RNext ==
  \/ \E n \in NodeInputs : AddNode(n)
  \/ \E id \in NodeIds :
       \/ Misread(id)
       \/ DeleteNode(id)
       \/ \E n \in NodeInputs : UpdateNode(id, n)
       \/ \E a \in Attribute : AddAttribute(id, a) \/ UpdateAttribute(id, a)
       \/ \E name \in AttNames : DeleteAttribute(id, name)
       \/ \E e \in EdgeInputs : AddEdge(id, e) \/ UpdateEdge(id, e)
       \/ \E target \in NodeIds : DeleteEdge(id, target)

RSpec == RInit /\ [][RNext]_rvars

-----------------------------------------------------------------------------
(* Properties.                                                             *)

(* The file is a row of whole pages as long as no record ran over the end  *)
(* of its page; a record that was read wrongly and written again may hold  *)
(* any strings.                                                            *)
RTypeOK ==
  /\ bytes \in Seq(Int) /\ lost \in BOOLEAN
  /\ \A p \in Ids(file) : file[p + 1].type \in {start_node, empty_page}
  /\ ~lost => Len(bytes) = PageSize * Len(file)

(* The names and strings of a page are shorter than a signed char can say, *)
(* and its record is no longer than a page.                                *)
ShortStrings(page) ==
  /\ \A i \in DOMAIN page.att :
        /\ Len(page.att[i].name) < CharRange
        /\ page.att[i].val.type = string => Len(page.att[i].val.v) < CharRange
  /\ \A i \in DOMAIN page.edges : Len(page.edges[i].name) < CharRange

Fits(page) == ShortStrings(page) /\ Len(NodeBytes(page)) <= PageSize

(* The record of an earlier page is so long that it reaches this one. *)
RunInto(p) ==
  \E q \in 0 .. p - 1 : /\ file[q + 1].type = start_node
                        /\ q * PageSize + Len(NodeBytes(file[q + 1])) > p * PageSize

(* What Pages takes for granted, and nothing less: a node is read back as  *)
(* it was written, whatever longer or shorter records, deletions and       *)
(* reuses of its page came before, when its strings and its record are     *)
(* short enough, and only then; and a record that is too long harms no     *)
(* page but its own and those that it runs into.                           *)
ReadBackIffFits ==
  \A p \in Ids(file) : ~RunInto(p) =>
    (Contents[p + 1] = file[p + 1]
       <=> file[p + 1].type = empty_page \/ Fits(file[p + 1]))
=============================================================================
