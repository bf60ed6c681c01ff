# A specification of the graph database server

The repository is a small client/server graph database. `CLIENT` parses one
Gremlin-like command (`V("noun").has("id", gt(3)).out("wn__hypernym");`), sends it
as JSON over TCP, and prints the answer. `SERVER` executes one request at a time on
a file of 2048-byte pages, one node to a page. This directory specifies what the
client makes of a command, in which order the server serves its clients, what it does
to the file, down to its bytes, and what it answers; it checks all of that with TLC,
and proves with TLAPS, for every number of pages, names, values, clients and
statements, that the four levels of it implement each other, and each of the safety
properties that the passing runs check.

## 1. The system

| Part | Source | State | Operations |
| --- | --- | --- | --- |
| Page file | `database/database.c`, `.h`, `data_struct.h` | the pages of the file; the stdio buffer in front of it | create, update, delete a node page; add, update, delete an attribute or an edge; look a node up; scans |
| Database operations | `database/idata.c`, `.h` | none of its own | the interface of the page file |
| Constructors | `database/data.c`, `.h` | none | allocate and free lists |
| Request execution | `json_execute.c` | the nodes selected so far; file position | addVertex, addEdge, deleteEdge, and the pipeline of a select: `has`, `out`, `delete` |
| Server loop | `server.c` | listening socket, one connection, the FILE | accept, read, execute, write |
| Client | `client.c` | one connection | connect, parse, send, read the answer |
| Grammar, lexer | `parser/bison.y`, `lex.l` | the global request tree, the statement being built | one semantic action per production |
| Request tree | `parser/request_tree.*` | none | printing (debugging) |
| Tree to JSON | `json_tree.c` | none | copies a request tree into a JSON object |
| Array list | `parser/array_list.*` | array, size, capacity | add, get, insert, remove, slice, splice |

How they interact: the client builds a request tree while it parses and turns it
into JSON; the server parses that, `json_execute` calls `idata.h`, which is
`database.c` under other names. Everything in the server shares one `FILE *`: its
position is left where the last read ended, and later code uses that position
(`database.c:771`). Nothing is closed or flushed explicitly.

What is hard in each part, and what makes it correct:

* **Page file.** A node's id is the number of its page, but lookups compare only the
  low byte of the id, through a signed char. Deleted pages are zeroed and reused.
  `page_to_node` reverses both lists of a record and writing stores them as they
  are, so that the stored order changes with every write. Two of the list operations
  dereference NULL for certain lists. The last record written sits in the stdio
  buffer until the next operation. Correct means: ids remain positions, an operation
  changes the node it names and no other, and a crash loses at most the last
  operation and never half of one.
* **Request execution.** A pipeline goes from ids straight to pages, without looking
  at what is there now. Nodes may have been deleted or replaced since an edge was
  made, or by an earlier statement of the same pipeline. Correct means: what is
  selected is in the file, walks end where edges lead, filters keep the right nodes,
  a delete removes exactly what was selected, and answers are true.
* **Server loop and clients.** Single-threaded with blocking reads, connections
  never closed; clients connect before they read their command; the results of `bind`,
  `accept`, `read` and `write` are not looked at. Correct means that a request is
  executed once and in its turn, that an answer is that of its own request, and that
  every client that sends a command is answered; the last fails behind a client that
  has connected and not typed its command yet.
* **Parser.** A syntax error or the end of the input leaves part of a tree, which the
  client sends, since it does not look at the result of `yyparse`. Correct means that
  no part of a command means something that was not typed.

All the hazards found while reading are in `PROJECT.json` (`hazards`), each at
its line with the properties that cover it, or with a note when none does yet.

## 2. The modules

```
Record --> Pages <-- Database <-- JsonExecute <-- Server <-- MCServer
  ^                     ^            ^
MCRecord            MCDatabase   MCJsonExecute          Grammar <-- MCGrammar
                        |
                        +--(refinement)--> Graph

DataLemmas <-- PagesProofs <-- DatabaseProofs <-- JsonExecuteProofs <-- ServerProofs
    ^              ^                 ^
    |              +-- RecordProofs  +-- GraphProofs
    +-- GrammarProofs
```
(`A <-- B`: B extends A. Each module of proofs also extends the module it is about;
`GraphProofs` is about `MCDatabase`, where the refinement mapping is.)

**`Pages`** (`database.c`): the contents of the file as a sequence of pages, and one
operator per page function, from contents to contents. It keeps which page a lookup
finds (`LowByte`, `Matches`), which page a new node gets, the reversal of lists, the
loops over lists, and for which lists the two delete functions dereference NULL
(`DeleteAttributeCrashes`, `DeleteEdgeCrashes`). A record is one value here; `Record`
has its bytes.

**`Record`** (`set_node_page`, `page_to_node`, `create_new_page`): the file as a
sequence of bytes (`bytes`). A write lays a record over what is there and clears
nothing behind it, past the end of its page if it is longer; a read scans for the zero
that ends a list. Each page operation of `Pages` is run on what is read from the bytes,
and `file` keeps the record that was last written to each page: what `Pages` takes a
page to be. Lengths are signed chars. `NodeBytes` has the layout, `ListAt` the two
loops of `page_to_node`. Once a record has run over its page, or a page was read
outside of its bytes, `lost` is set and the model stops: what happens then depends on
memory.

**`Database`** (`idata.c`): the operations as steps of a process.

| Variable | Code |
| --- | --- |
| `file` | the file as the process reads it: on disk plus the FILE's buffer |
| `disk` | what the operating system has been given |
| `up` | the process is running |

Every operation begins with `fseek(f, 0, SEEK_SET)`, which makes stdio write its
buffer out, and ends with its own record in the buffer. Hence `Writes` sets
`disk' = file`, the contents before the operation; an operation that only reads, or
returns early, leaves both copies equal (`Flush`), and so does one that dereferences
NULL, since it has read before (`Segfault`). `AddNode` on a full file has one more
`fseek` between the page of zeros and the node (`database.c:94-99`), so the zeros
reach the disk first. glibc's buffer of 4096 bytes is aligned to its size and a
record fits a page, so that no record is split; a kill within an operation leaves the
disk that a kill before or after it leaves, and needs no step of its own. `Kill`
loses the buffer, `Exit` (a return from `main` after a failed read) writes it out,
`start_database` reopens the file.

**`Graph`**: what `idata.h` promises: a map from ids to nodes with a name and two
bags; each operation changes the node it names or, when there is none, nothing; a new
node gets the smallest free id; `Stop` loses at most the last operation. Where
the code writes over every attribute of a name, the bag has as many copies of the new
one as there were old ones (`Merge`, `Copies`).
`MCDatabase` maps the pages to it (`Abs`) for both copies, and checks the refinement
`GraphSpec == G!Spec`. Since a step of `G!Spec` may be any operation, it also checks
`OperationsMatch`: the step of each operation is that operation's step in `Graph`,
with the same node and the same argument. The crash of a list operation maps to
`Stop`.

**`JsonExecute`** (`json_execute.c`, and the queries of `database.c`): `addVertex`,
`addEdge` and `deleteEdge` are one step each. A select is a step per statement, and a
step per node in a `delete()`, with `k` the loop counter over statements, `i` the one
over nodes, `g` the graph selected so far and `pos` the page at which the file is
positioned. `reply` is what was answered last. The parts of the code a reader would
not guess are modelled as they are:

* All filters of one `has()` point at the same variable, hence at the last condition
  (`SharedAtt`); they are tested in reverse order, and only the type of the head
  decides between `node_filters` and the reference scan.
* String comparisons are inverted (`Above`); `like` has no case and keeps everything
  of its type; a reference that is not the head is tested as `not_equals`.
* `ref` scans forward from the file position; `Joined` follows `ref_used`. Marks
  outside of the array are looked up and written in memory that belongs to others
  (`stray`): what is found there is anything, and what is written there (`heap`) may end
  the process in that statement or at any time after (`HeapFails`), or not at all. A
  reference given a number takes the bytes of the number for a pointer, which may or may
  not end it.
* `find_edge_page` reads at an edge's target, and each statement behind it at the ids
  of what it has read. Behind the end of the file the read leaves the buffer as it was:
  the page read before or, if there is none, whatever is on the stack (`Buffers`): a
  page that an earlier scan has left there, or any bytes, `StackPages`, with any number
  as their id, negative ones included, at which `fseek` fails (`Load`). What was parsed of
  them is carried on, filtered, joined, deleted and answered like any node; it
  may also end the process.

Uninitialised `b` in `find_filter_part_page` (`:779`) keeps, in the default
unoptimised build, the value of the previous round; before the first round it is
anything. Only a node found marked in `ref_used` shows it.

**`Server`** (`server.c`, and `client.c` around it), composed with `JsonExecute` by
extension: its steps are the steps of `json_execute`.

| Variable | Code |
| --- | --- |
| `pc`, `sent`, `answer` | a client: before `connect`, in `yyparse`, in `read`, or at an end; what it and the server have written |
| `queue`, `fds` | the backlog of `listen(5)`; the descriptors of a process, never closed |
| `conn`, `server` | `connfd`, and where the loop is: `accept`, `read`, or `run` up to the `write` |
| `bound`, `portUsed` | whether `bind` got the port, and what keeps it in use |
| `smashed` | an answer was copied behind `temp_buff` |
| `ended`, `kills`, `ran` | connections lost with a process; history: processes that did not end by themselves, requests executed |

`Execute` stands for the `read` and the beginning of `json_execute`: it waits until the
client has sent or gone. A client that went without sending, or a request that one read
does not hold, parses to nothing and is executed as nothing (`ExecuteNothing`).
`AcceptFails` is the loop's only way out: with no descriptor left `accept` returns -1,
so does `read(-1)`, and `main` returns, after exactly `FdLimit` connections and
whether or not anyone waits for another. `StartServer` shows why the result of `bind`
matters: while connections of the last process hold the port, `listen` picks another
port and the server waits there, where no client will come.

**`Grammar`** (`bison.y`, the numbers of `lex.l`, `array_list.c`, `json_tree.c`, and the
end of `client.c`'s `main`): a user types a command phrase by phrase, a phrase being
what one production with an action stands for, and each action does to `tree`,
`cur_statement` and `array_list_created` what its C does. `yyparse_returns` may come
after any phrase: the semicolon, a token that fits nothing and the end of the input
look the same to the caller. Array lists keep their capacity and the memory beyond
their size. `Lex` is what the lexer makes of a number: the sign is echoed and
dropped, a number without fraction is an integer even when written `3.0`, read by
`atoi` up to its point or exponent, and wraps at the width of an int; a number with a
fraction is narrowed to the `float` of `yylval` and of the tree (`Float`: the nearest
multiple of the power of two that a significand below `FloatRange` leaves, of two the
even one). Numbers are typed with one digit behind the point, so that they are tenths,
and sent as fractions `num / den`. `atof`'s double is taken to be the number itself:
below 2^49 no tenth is so near to the middle between two floats that the double's error
decides, and where it does the number is not kept in either case. The request too
long for `temp_buff` is the one of `Server`, where `Commands` are complete requests.

**`DataLemmas`** and the seven modules of proofs: section 5. **`MCDatabase`**,
**`MCJsonExecute`**, **`MCServer`**, **`MCRecord`**, **`MCGrammar`**: instances for TLC.
Operators marked "Mutant" are variants of a definition with a plausible bug in it;
nothing uses them, they document which bugs the properties tell apart.

## 3. What is checked

Bounds are constants, named in the modules. Bounds of the model: `PageBound` (pages),
`ListBound` (attributes and edges of a node together), `NewAttBound` (attributes of a
new node), `ClientBound` (clients), `KillBound` (kills), `TypedBound` (phrases of a
command), `PairBound` (attributes of an addVertex). Limits of the code, made small so
that they are reached: `CharRange` (128), `PageSize` (2048), `QueueSize` (6),
`FdLimit` (about a thousand), `ReplySize` and `RequestSize` (1024 bytes, in nodes and
phrases), `InitialCapacity` (4), `IntRange` (2^31), `FloatRange` (2^24). `StackPages`,
what the stack may hold besides pages of the file, is any set of pages in the theorems;
for TLC zeros, and in `MCJsonExecute_delete` also a node with a negative id and
one with an id behind the file.

| Run | Shows |
| --- | --- |
| `MCDatabase_lists` | `TypeOK`, `OperationsMatch` with one page and up to three attributes and edges together. Three are the least with which a match can be at the head, in the middle and at the end, and twice in a row at either end. |
| `MCDatabase_pages` | `GraphSpec`, `OperationsMatch` with three pages: a page below, at and above the one touched, with an edge to lose. |
| `MCDatabase_alias` | `IdIsPosition`, `LowIdsExact`, `AtMostOneUnsaved`, `GrowsOnlyWhenFull` with six pages and `CharRange = 2`: ids 2 and 3 read back negative, 4 and 5 read back as 0 and 1. |
| `MCDatabase_found` | violation: a node that is in the file is reported missing. |
| `MCJsonExecute_walk` | `SelectionIsWalkEnds`, `RepliesHold`: `V(x).out(a).out(b).out(c)` on two pages with up to two edges each (loops, parallel edges, cycles) of two names, and with up to two attributes, so that their order shows. |
| `MCJsonExecute_delete` | `JTypeOK`, `SelectionIsCurrent`, `CrashNeedsCause`, `DeleteRemovesSelection`, `DeletesOnlySelected`: all pipelines of up to three `out()` and `delete()` on three pages, so that a deleted page can lie before, at and behind a target, be reused, and be selected twice; and filters and references behind an `out()` that may have come from where no node is, with nodes of no page on the stack. |
| `MCJsonExecute_filter` | `HasIsExact`, `SharedAreListedOnce`, `FirstReferenceStaysInside`, `CrashNeedsCause`: every option, and `has(ref)` first, behind a filter, behind a `delete()`, and with a number, on three pages with two node names and an attribute with two numbers or a string. The filter can leave the file positioned at page 1 while page 2 is marked, after which the process may end at any time, and a selection can skip the first node of a value. |
| `MCJsonExecute_conditions` | violation: not all conditions of a `has()` apply. |
| `MCJsonExecute_strings` | violation: a comparison of strings keeps those on the other side of what its option prints. |
| `MCServer` | `STypeOK`, `RequestsInTurn`, `AnswersAreInTurn`, `LostByKillsOnly`, `EndsForCause`, `OnlyIdleClientsBlock`: three clients that add a node, list all, delete all or send too much, may leave at any point, and a kill. Two descriptors: a process serves two clients, and a third meets the next process or none; a queue of two, so that the third client can find it full; answers of one node, so that two nodes overrun the buffer. |
| `MCRecord` | `RTypeOK`, `ReadBackIffFits`: two pages of 16 bytes, a char of -4 .. 3. A node takes 6 bytes, a number 4 more, a string 6 or 8, an edge 3 or 10: two numbers fit, two strings do not. The long string and the long edge fit by their bytes, but their lengths, 4 and 8, read back as -4 and 0. |
| `MCGrammar` | `GTypeOK`, `SentAsTyped`, `CrashesForCause`, `NumbersKept`: all commands of up to eight phrases, broken off anywhere. Lists begin with one place, so that they grow twice; requests of more than six phrases are too long; an int is -4 .. 3, a float has a significand of three bits; fourteen kinds of values, among them numbers that are too long, negative, in exponent form, and the least int, and fractions that a float holds, rounds down (2.1), finds between two (4.5), or has no bit for (9.5). |

What the main properties say:

* `GraphSpec`: refinement of `Graph`, including crashes. `OperationsMatch`: each
  function does what its own name says, to the node it is given.
* `IdIsPosition`: the id stored in a live page is its position, in both copies.
* `LowIdsExact`: nodes whose id fits a char are found by their id and only by it, even
  when higher ids alias them: the scan starts at page 0.
* `AtMostOneUnsaved`, `GrowsOnlyWhenFull`: what a kill loses, when the file grows.
* `SelectionIsCurrent`: as long as no edge dangles and nothing has been deleted by the
  pipeline, what it carries is live and equal to the file. Both conditions are
  needed: without them TLC finds replaced and zeroed nodes in the selection.
* `SelectionIsWalkEnds`: the multiplicity of a node is the number of walks to it,
  computed by counting paths over the file rather than by following reads.
* `JTypeOK`: besides types, that what a pipeline carries has ids of pages of the file as
  long as no edge leads behind its end and nothing has been deleted. Both conditions are
  needed: with a target behind the end, the ids are whatever was on the stack.
* `CrashNeedsCause`: the only ways in which a select ends the process. It says which
  statements are exposed, not that they are right: `out()` after `delete()` is a cause.
* `HasIsExact`: on numbers of one type, and on strings where their order does not matter,
  `has()` with one condition is the relation it is named for.
* `FirstReferenceStaysInside`: a `has(ref)` that is the first statement marks no id
  outside of `ref_used`. Behind another statement it does, as the model has it (`stray`, `heap`).
* `SharedAreListedOnce`: `has(a, ref(a))` lists the nodes that share their `a`, each
  once, although every node is joined with those behind it. Both compare the selection
  with the file, and therefore speak of the time before a `delete()` behind the filter
  has removed its first node; an attempt to prove them without this found that.
* `DeleteRemovesSelection`, `DeletesOnlySelected`: a finished `delete()` has removed
  what it was given, and nothing else ever removes a node.
* `RepliesHold`: what is true after each answer, attribute order included. "Add edge"
  and "Delete edge" are also answered when no node has the first id, and then say
  nothing. "Delete nodes" is never seen: the list of nodes selected is written over it.
* `RequestsInTurn`: each request is executed whole or not at all, at most once, in the
  order in which clients connected, across server processes.
* `AnswersAreInTurn`: what `V()` answers is what the requests of the clients before
  have left, computed from the requests alone (those that are `Plain`: a select lists or deletes
  all nodes, as the requests of the run do); with `RequestsInTurn` it says that
  `AcceptFails` loses nothing, although it ends a process in whose buffer there is a
  node: `main` returns, and `exit` writes the buffer out.
* `LostByKillsOnly`: each kill loses at most one node that was answered "Add node".
* `EndsForCause`: what a client does to its connection does not end the server.
* `OnlyIdleClientsBlock`: section 4.
* `ReadBackIffFits`: the assumption of `Pages`, both ways. If every string is shorter
  than a signed char can say and the record no longer than a page, a node is read back
  as written, whatever was on the page before; if not, it is not, and no page but the
  record's own and those that it reaches is harmed. The sample data (`queries.txt:25`, `:27`, `:48`)
  has strings of 128 characters and more, so this boundary is met by it.
* `SentAsTyped`: from a V(...) that is broken off, exactly the statements that were
  finished are sent, each `has()` with its own conditions; from any other command all
  or nothing. So a `delete()` never loses a filter in front of it. It also says that
  a command without its semicolon is executed.
* `CrashesForCause`: `has()` without conditions, `addVertex` without attributes and
  too long a command are the only ways to end the client.
* `NumbersKept`: exactly which numbers, of those with one digit behind the point, arrive
  as they were typed. Of fractions these are the halves below half of `FloatRange`; 2.1
  arrives as the float next to it. The least int does,
  by two errors: its sign is lost, and what is left overflows into it. The proof found
  that; only since then is such a number among those TLC tries.

Three disagreements between the code and what it says of itself (`findings`, each with
the run that shows it and the lines that say otherwise):

* Ids of 128 and more are never found although the node is there.
* Several conditions of one `has()` are all evaluated with the last one's attribute and
  value.
* `gt` and its three relatives are inverted for strings, though not in what the request
  tree prints of them.

Behaviour that is modelled as it is, and that the properties delimit but do not judge,
since nothing in the code says what should happen:

* `out()` puts out whatever is at an edge's target: zeros, another node, or, behind the
  end of the file, a page read before or the stack; behind a `delete()` it may end the
  process. The properties of selections hold up to there.
* `has(ref)` behind another statement sizes `ref_used` by where that has left the file.
  `FirstReferenceStaysInside` says that the first statement is safe.
* "Add edge" and "Delete edge" are answered whether or not there is such a node.
  `RepliesHold` speaks of the case in which there is.
* `deleteEdge` of two parallel edges at the head of a list, and `delete_attribute` of all
  the attributes a node has, end the process; `Stop` is allowed to both in `Graph`, so
  `OperationsMatch` says what they do where they return.

`CHECK_DEADLOCK` is on where the server can always be stopped or restarted, in the runs
of `Database` and `JsonExecute`. It is off in `MCServer`, where all clients may have
come and gone while the server waits, in `MCRecord`, which stops when `lost` is set, and
in `MCGrammar`, where a client sends its request and ends. In `MCServer`,
`OnlyIdleClientsBlock` says what absence of deadlock would.

## 4. Fairness

`SSpec` assumes weak fairness of

* `ServerStep`: the server is one process that the operating system runs; whenever a
  connection is waiting, a request has arrived, a statement is left to execute or an
  answer to write, it goes on. One condition for the disjunction is enough, since it is
  one thread and at most one of the disjuncts is possible at a time.
* `ReadAnswer(c)` of each client: a blocking read returns when there is something to
  read or the connection has ended.

Nothing is assumed of users (`Connect`, `Send`, `Leave`), of who starts and kills the
server, of the time for which a port stays in use, and of what overwritten memory does.

`OnlyIdleClientsBlock` is as much as this allows: a client that waits for an answer is
answered, or told that the server is gone, unless the server is reading from a client
that has connected and not typed its command. That exception is the code's: there is no
time-out, and `client.c` connects before it parses. `Server` needs no fairness of its own
below `ServerStep`: a request takes finitely many steps.

The other specifications have no fairness; their properties are safety properties.

## 5. What is proved

Each theorem holds for every value of the constants: any number of pages, names,
values, statements in a pipeline, clients, any width of a char, an int and a significand,
and any bytes on the stack. What is
assumed of the constants is in the named assumptions next to their declarations
(`NoNameAssumption`, `CharRangeAssumption`, `BoundsAssumption`, `ValuesAssumption`,
`PipelinesAssumption`, `StackAssumption`, `ServerAssumption`, `CommandsAssumption`, `GrammarAssumption`,
`ScalarsAssumption`, `PointersAssumption`, `NamesAssumption`, `SizesAssumption`,
`BytesAssumption`): bounds are natural numbers, widths are
positive, pipelines are sequences of statements, and the words for "none" are no names,
statements or lists. Those of `Record` say that names and values are made of bytes, that
a page has room for any node name, that node names are shorter than a signed char can
say and no name is empty (section 6), and that ids fit the one byte it gives them. TLC
evaluates the assumptions in each run. Hypotheses that only some theorems need are
stated with these: that ids fit a signed char, and what the theorems on answers ask of
the requests; `MCServer` has TLC confirm that its instance meets them
(`SmallAssumption`, `PlainAssumption`).

| Theorem | States | Rests on |
| --- | --- | --- |
| `TypeCorrect` | `Spec => []TypeOK` | `Inv` |
| `IdsArePositions` | `Spec => []IdIsPosition` | `Inv` |
| `LowIdsAreExact` | `Spec => []LowIdsExact` | `Inv` |
| `OneUnsavedPage` | `Spec => []AtMostOneUnsaved` | `Inv` |
| `FileGrowsOnlyWhenFull` | `Spec => GrowsOnlyWhenFull` | `Inv` |
| `DatabaseIsGraph` | `Spec => GraphSpec`, if `PageBound <= CharRange` | `Inv` |
| `OperationsAlwaysMatch` | `Spec => OperationsMatch`, if `PageBound <= CharRange` | `Inv` |
| `ServerIsDatabase` | `JSpec => Spec` | `JInv` |
| `JTypeCorrect` | `JSpec => []JTypeOK` | `JInv` |
| `SelectionAlwaysCurrent` | `JSpec => []SelectionIsCurrent` | `JInv` |
| `CrashAlwaysHasCause` | `JSpec => []CrashNeedsCause` | `JInv` |
| `FirstReferenceAlwaysStaysInside` | `JSpec => FirstReferenceStaysInside` | `JInv` |
| `DeleteAlwaysRemovesSelection` | `JSpec => []DeleteRemovesSelection` | `JInv`, `Removed` |
| `OnlySelectedAreDeleted` | `JSpec => DeletesOnlySelected` | `JInv` |
| `HasIsAlwaysExact` | `JSpec => []HasIsExact` | `JInv`, `Exact` |
| `SharedAreAlwaysListedOnce` | `JSpec => []SharedAreListedOnce` | `JInv`, `Exact`, `Once` |
| `SelectionIsAlwaysWalkEnds` | `JSpec => []SelectionIsWalkEnds` | `JInv` and the property itself |
| `RepliesAlwaysHold` | `JSpec => []RepliesHold` | `JInv` |
| `SystemRunsRequests` | `SSpec => JSpec` | `SInv` |
| `STypeCorrect` | `SSpec => []STypeOK` | `SInv` |
| `RequestsAlwaysInTurn` | `SSpec => []RequestsInTurn` | `SInv` |
| `LostByKillsAlone` | `SSpec => []LostByKillsOnly` | `SInv`, `JInv`, `Serving`, `Kept` |
| `AnswersAlwaysInTurn` | `SSpec => []AnswersAreInTurn`, if `PageBound <= CharRange` and requests are `Plain` | `SInv`, `JInv`, `Serving`, `Kept`, `InTurn` |
| `EndsAlwaysForCause` | `SSpec => []EndsForCause`, if, besides, no request deletes an edge | the same, `Lasting`, `Told` |
| `RTypeCorrect` | `RSpec => []RTypeOK` | `RInv` |
| `AlwaysReadBackIffFits` | `RSpec => []ReadBackIffFits` | `RInv`, `RoundTrip` |
| `GTypeCorrect` | `GSpec => []GTypeOK` | `GInv` |
| `AlwaysSentAsTyped` | `GSpec => []SentAsTyped` | `GInv` |
| `CrashesAlwaysForCause` | `GSpec => []CrashesForCause` | `GInv` |
| `NumbersAlwaysKept` | `GSpec => []NumbersKept` | `PhrasesOK` |

**The chain.** `SSpec => JSpec => Spec => GraphSpec`: what the whole server, with its
clients, queue, descriptors and kills, does to the file are requests executed one after
another; a request, statement by statement, consists of operations of the database; and
these implement the abstract graph. Hence every theorem about a lower level holds of
the upper ones. The hypothesis of the last link, that every page's id fits a signed char,
is one the code does not check and needs: with more pages a lookup finds another node
than the one it was asked for, or none (run `MCDatabase_found`).

**Database** (`PagesProofs`, `DatabaseProofs`). `GoodFile(f)` says that `f` is a
sequence of well-formed pages whose ids are their positions. Each page function, applied
to a good file, yields a good file that differs in at most one page (`Written`): a lookup
returns a node whose id is the position it was read from, so the page it is written back
to is its own. `Inv` asks for `GoodFile` of *both* copies, that they be `Near`, that they
be equal while the process is down, and that the file be within its bound. The copies
cannot be left out: a kill replaces `file` by `disk`, so neither `IdIsPosition` of `file`
alone nor `GrowsOnlyWhenFull` (a kill must not shorten the file) is inductive; and
without `up \/ file = disk` a restart would not be a step of `Graph`, which reopens what
was left. `NextShape` reduces the disjuncts of `Next` to four shapes of a step.

**Graph** (`GraphProofs`). Per page function, what it does to the lists of a record,
reversal included, is what the operation of `Graph` does to the bag (`BagReverse`,
`BagAppend`, `BagPick`, `BagMerge`, from `Ranks` and `KthRank`: the elements that are
kept are numbered without gaps). `SmallLookup` is where the hypothesis enters: as long as
ids fit a char, a lookup finds a node if and only if it is there. Per operation, a lemma
shows that its step is that of `Graph` under the mapping `Abs` of both copies
(`NodeSteps`, `AttributeSteps`, `EdgeSteps`, `AddNodeSteps`), and `NextGraph` puts them
together. `AddNode` on a full file is one step of `Graph`, although the disk gets a page
of zeros: `Abs` does not see it.

**Request execution** (`JsonExecuteProofs`). `JInv` says of the selection `g` that it
consists of what can be parsed of a page, with any number as its id; that the ids are
pages of the file as long as `Inside /\ ~Deleting`: no edge of a node leads behind the
end of the file, so no read of a target leaves the buffer as it was; and that it
is `Current`, as long as `Closed /\ ~Deleting`. Between the two lie the pages without a
node: zeros have the id of page 0, which is a page of the file, and no edges to follow.
The file position must be in the invariant, since `ref` scans from it, and so must that
it is the end of the file before the first statement, for which it says that what is
marked there is inside of `ref_used`. The two loops over data, over the nodes and over
their edges, are folds; that a fold preserves a set is `FoldPrefixes`, induction over an
interval in the form of a statement about sets (`IntervalInduction`), which needs no
operator as a parameter. `Removed` is the loop invariant of `delete()`: the nodes before
`i` are gone. It needs that ids fit a char, as the property says.

What the first `has()` selects is proved exactly. `Exact` adds that before it the
selection is that of `V(name)`. A comparison then picks from what was picked, and that
is to pick once (`KthKth`: the elements numbered by numbered elements keep their order;
`FilteringNodes`), and what `Test` says of two values is the relation of two numbers
(`TestIsRelation`). Neither needs `Closed` nor a bound on ids, since a first `has()`
goes straight to pages that have just been read. For a reference, `JoinedAll` is the
loop invariant of the join: after the nodes of `P`, in page order, the marks are `P`
and the nodes behind one of `P` with the same value, and the output lists exactly those
of them that share, each once (`Lists`). A node that is marked was output with the first
of its value, so the next is joined only to nodes not yet output (`JoinOneMore`). It
rests on nothing being marked beforehand, which is so for a first statement, because the
file is then positioned at its end (`FirstJoin`).

Where `out()` leads is proved as a count. `SelectionIsWalkEnds` is inductive by itself,
over `JInv`, which says that what is carried is `Current`; the work is in two orders of
summing. The code goes through the selection, node after node, and for each through its
edges; `WalkEnds` sums over the pages, walks to a page times edges from it. An edge adds
the node it leads to (`FollowTimes`), the edges of a node as many as lead there, whatever
order they are read in (`FollowAllTimes`, `ReverseTimes`); a node more in the selection is
one walk more to its page (`OneWalkMore`), which adds its edges to the sum
(`FlowOneMore`), so that the loop ends with the sum over the pages (`OutsTimes`). A sum is
the size of a set of cells (`Total`), which does not depend on the order in which
`MapThenSumSet` chooses pages (`SumsTotal`). Here ids must fit a char, or `find_edge_page`
may find another page than the node's, and no edge may dangle.

**Server** (`ServerProofs`). `SInv` is `Typed /\ Turns /\ Executed`: the queue ascends
and lies behind the client being served, all requests executed so far are of clients
before it (or of it, once it runs), clients start in order. None of the three parts
is inductive without the others. `LostByKillsOnly` is a counting argument: `Kept` says
that as long as nobody asks for deletions, `|Added \cup Pending| <= Live(file) + kills`,
where `Pending` is the client whose node is added and not yet answered, and that the disk
has at most one live node less than the file, which is what one kill can lose.

`AnswersAreInTurn` relates the file to the requests. `InTurn` says that, as long as nobody
kills the server, the live pages between two requests hold, in page order, the names
that `NamesAfter` computes from the requests executed (`Stores`); while one is executed,
that the reply is that of the names before it. A new node goes to the first empty page,
but `NamesAfter` puts its name behind the others: this agrees only because a `delete()`
of everything leaves no live page, so that live pages are always a prefix of the file.
In the middle of a `delete()` they are the pages from the loop counter on, which the
invariant has to say: there the file is neither what it was nor what it will be.
`AcceptFails` keeps `InTurn` because what it ends with is flushed. The hypotheses are
those under which `NamesAfter` is right: a lookup must find its node, and a select must select all nodes.

`EndsForCause` adds `Lasting`: descriptors in use are at most the requests executed, and
one more while the server waits for one; a process that runs out of them has therefore
executed `FdLimit` requests. That an answer overran its buffer is led back to the
requests before it by `Answered`. `delete_edge` is excluded since two parallel edges at
the head of a list end the process (`DeleteEdgeCrashes`), which is a cause that the
property does not know; requests of the run do not have it.

**Record** (`RecordProofs`). The heart is `RoundTrip`: for a record laid out at the
beginning of a page, of which as much is there as the page has room for, `ReadPage`
returns the record if and only if it `Fits`. Its easy half follows the two loops along
the layout. The list that `ListAt` reads is a recursive function of the position; along a
`Chain` of positions, from each element to the next, it is the sequence of their values
(`ChainRead`), and conversely what was read came along such a chain (`ReadChain`).
Where the elements lie is an equation of the fold in `Bytes` (`BytesEnds`: the parts lie
one behind another). For the other half, a record that does not fit must not
happen to be read as itself: what is read never goes beyond the page and no string read
has a negative length, so a record that is read as it was written has room on the page and
short strings (`ReadAs`). `RInv` then says that a page `Holds` its record unless an
earlier record is so long that it reaches the page. It does not say that the rest of the
page is zeros, since `set_node_page` clears nothing: `RoundTrip` holds whatever lies
behind the record, because of its two terminating zeros. The step lemmas need no more than that a write changes the bytes
of its own page and, if it is too long, of those behind (`PutStored`), and that a lookup
through bytes finds what a lookup through records finds (`ContentsSeen`, `LookedUp`);
a node that was misread is written back as what was read, any record of bytes, which is
why the records in `RInv` are `Rec` and not those that the inputs can build.

**Grammar** (`GrammarProofs`). For the numbers, `PhrasesOK`: what was typed are values
that the lexer's rules match; the rest is arithmetic: about `Wrapped`, and about `Float`,
where a number of tenths with a fraction times a power of two is a multiple of ten only
if it ends in 5 and the power is more than one, since five divides no power of two
(`GreatestPower`, `LastDigit`, `FloatValue`). For the tree,
`GInv = ... /\ (Single \/ Selected \/ Vertex)`: after any phrases, the pointers `tree`,
`cur_statement` and `array_list_created` are a function of what was typed: a command of
one phrase, a `V(...)` whose statements are those of `Parsed(typed)`, or an `addVertex`
whose attributes are the pairs typed. The lists enter through `ListAdd`: to add to an
array list is to append to its items, however often it has grown, and no item is ever
read from beyond its size; the specification's own folds over the phrases through
`ParsedAppend` and `SizeAppend`. A statement that is `Null` in the list is one of an
empty `has()` (`EmptyHas`), and the bound on the size of a request that
`CrashesForCause` speaks of is kept by counting: a phrase adds at most one.

Statements that turned out to be wrong when proofs were tried, where the runs were too
small to show it: `NumbersKept` and `HasIsExact`, of which section 3 says what they say
now; that any size will do for a request: with none at all, the empty command is too long
already, so `GrammarAssumption` asks for `RequestSize` to be positive; that `Bytes` joins
its parts in their order: it was a fold whose order is not specified; and that a record
can run into the page behind it only: one that is longer than two pages reaches further
(`RunInto`).

Only model-checked, and why:

* `OnlyIdleClientsBlock`: liveness under fairness, which is out of the provers' reach.
* The three runs that expect a violation: a counterexample is an instance, not a theorem.

## 6. What is not modelled

* Empty names, which the lexer has no word for and a record could not hold. Node names
  of 128 characters and more, for which `fwrite` is handed a negative size; what
  follows a record that has run into the next page or was misread; `malloc(strlen)`
  without the byte for the final zero: these depend on the memory around.
* Failures of `malloc` and the like. Ids so large that `id * PAGE_SIZE` overflows, which
  read at another position, as another id does.
* Numbers with more than one digit behind the point, or with an exponent other than 1.
* The regular expressions of `lex.l`: phrases are given as the parser takes them. A
  quoted keyword, a word in quotes that looks like a file name, or a space before a
  brace are syntax errors, of which `yyparse_returns` covers the effect. Productions
  that nothing reaches (`attribute_pairs`).
* Operations of `array_list.c` that nothing calls (insert, remove, slice, splice, ...);
  `find_filter_page` and `find_by_name_filter_page` of `database.c`, likewise.
* `find_edge_page` and the scans are parts of `JsonExecute`, not a component with
  operations of its own, which is why "Queries" counts as partly modelled.
* A request or an answer that arrives in pieces: one `read` is taken to return what one
  `write` wrote, up to its size. Requests that are not from `client.c`.
* Allocation and freeing (`data.c`): nothing of it depends on state. Debugging output
  (`request_tree.c`). Build files, sample queries, the report: no behaviour.

## 7. Plan

1. *(done)* `Pages`, `Database`, `Graph`, the proofs about them; `JsonExecute`.
2. *(done)* `Server`: connections, backlog, blocking reads, descriptors, liveness.
3. *(done)* `Record`: the bytes of a page; when a record is read back as written.
4. *(done)* `Grammar`: the request tree under the semantic actions, complete and
   broken off; array lists; numbers.
5. *(done)* Proofs: the refinement chain and every safety property that a passing run
   checks.

What could come next, in the order of what it would say: `AnswersAreInTurn` for requests
that select by name and delete edges, which needs an abstract meaning of a whole
pipeline, a map from the graph and a request to an answer, in the place of `NamesAfter`;
and `Record` with ids of four bytes, where `LowByte` reads the first of them.
