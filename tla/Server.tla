-------------------------------- MODULE Server --------------------------------
(***************************************************************************)
(* server.c and the clients of client.c around it.  A client connects, and *)
(* only then reads a command from its user; it sends one request and reads *)
(* one answer.  The server is one thread: it accepts a connection, blocks  *)
(* until that client has sent its request or gone away, executes it with   *)
(* json_execute (module JsonExecute), writes the answer, and accepts the   *)
(* next.  It never closes a connection, and returns from main when it has  *)
(* no descriptor left for another one.                                     *)
(*                                                                         *)
(* The kernel's side is modelled as the code relies on it: connections     *)
(* queue until they are accepted; what was written stays readable after    *)
(* the writer is gone; when a process ends its connections do, and those   *)
(* that the client still holds open keep the port in use for a while.      *)
(***************************************************************************)
EXTENDS JsonExecute

CONSTANTS
  ClientBound, \* bound: client processes that are started
  Commands,   \* the requests that users type
  NoClient,   \* no connection is being served
  QueueSize,  \* connections that may wait to be accepted: listen(5) and one
  FdLimit,    \* descriptors a server process has for connections
  ReplySize,  \* nodes that fit an answer of MAX_SIZE bytes
  KillBound   \* bound: kills up to which somebody kills the server

ASSUME ServerAssumption ==
  /\ NoClient \notin Nat
  /\ ClientBound \in Nat
  /\ QueueSize \in Nat \ {0}
  /\ FdLimit \in Nat \ {0}
  /\ {ReplySize, KillBound} \subseteq Nat

(* What json_execute can be asked to do. *)
Request ==
  [oper : {"none"}]
    \cup [oper : {"add_node"}, node : NodeInputs]
    \cup [oper : {"add_edge"}, name : EdgeNames, id1 : NodeIds, id2 : NodeIds]
    \cup [oper : {"delete_edge"}, id1 : NodeIds, id2 : NodeIds]
    \cup [oper : {"select"}, name : NodeNames \cup {AnyName}, statements : Pipelines]

(* A request may be longer than the buffer it is read into. *)
ASSUME CommandsAssumption ==
  Commands \subseteq Request \cup [oper : {"too_long"}, request : Request]

(* Clients are numbered in the order in which they are started. *)
Clients == 1 .. ClientBound

VARIABLES
  pc,         \* where each client is
  sent,       \* what each client has written: nothing, or one request
  answer,     \* what the server has written to each: nothing, or one answer
  ended,      \* clients whose connection ended with a server process
  queue,      \* connected clients that have not been accepted
  conn,       \* the client being served
  server,     \* where the server is in its loop
  fds,        \* descriptors of connections that this server has open
  bound,      \* the socket it listens on has the port that clients use
  portUsed,   \* connections of a server that has ended still use the port
  smashed,    \* an answer was copied beyond the end of temp_buff
  kills,      \* server processes that ended without writing the FILE's buffer
  ran         \* the requests executed, each with the client it came from

clientVars == <<pc, sent>>
kernel     == <<answer, ended, queue, portUsed>>
process    == <<conn, server, fds, bound, smashed>>
history    == <<kills, ran>>
sys        == <<all, clientVars, kernel, process, history>>

SInit ==
  /\ JInit
  /\ pc = [c \in Clients |-> "off"]
  /\ sent = [c \in Clients |-> << >>]
  /\ answer = [c \in Clients |-> << >>]
  /\ ended = {} /\ queue = << >> /\ portUsed = FALSE
  /\ conn = NoClient /\ server = "accept"
  /\ fds = 0
  /\ bound = TRUE /\ smashed = FALSE
  /\ kills = 0 /\ ran = << >>

(* Clients that hold a connection to the server process that is running. *)
Connected == {c \in Clients : pc[c] \in {"typing", "waiting"} /\ c \notin ended}

-----------------------------------------------------------------------------
(* The end of a server process.                                            *)

(* The connections that the server had accepted, whose client is still     *)
(* there and which have nothing unread, are closed in order and hold the   *)
(* port until some time after their clients have closed them too.          *)
HoldingPort ==
  {c \in Connected \ Range(queue) : ~(server = "read" /\ c = conn /\ sent[c] # << >>)}

ConnectionsEnd ==
  /\ ended' = ended \cup Connected
  /\ portUsed' = (portUsed \/ HoldingPort # {})
  /\ queue' = << >>
  /\ conn' = NoClient /\ server' = "accept" /\ fds' = 0 /\ smashed' = FALSE
  /\ UNCHANGED <<bound, answer>>

-----------------------------------------------------------------------------
(* The server.                                                             *)

(* Mutant: the connection stays in the queue. *)
Accept_peek ==
  /\ up /\ server = "accept" /\ fds < FdLimit
  /\ queue # << >>
  /\ conn' = Head(queue)
  /\ fds' = fds + 1 /\ server' = "read"
  /\ UNCHANGED <<all, clientVars, kernel, bound, smashed, history>>

Accept ==
  /\ up /\ server = "accept" /\ fds < FdLimit
  /\ queue # << >>
  /\ conn' = Head(queue) /\ queue' = Tail(queue)
  /\ fds' = fds + 1 /\ server' = "read"
  /\ UNCHANGED <<all, clientVars, answer, ended, portUsed, bound, smashed, history>>

(* Mutant: main does not return, the process is ended. *)
AcceptFails_abrupt ==
  /\ server = "accept" /\ (fds = FdLimit \/ smashed)
  /\ Kill /\ NoRequest /\ ConnectionsEnd
  /\ UNCHANGED <<clientVars, history>>

(* accept fails for want of a descriptor, whether or not anyone waits, or  *)
(* because listenfd was written over; its result, -1, is read from, and    *)
(* main returns.                                                           *)
AcceptFails ==
  /\ server = "accept" /\ (fds = FdLimit \/ smashed)
  /\ Exit /\ NoRequest /\ ConnectionsEnd
  /\ UNCHANGED <<clientVars, history>>

(* The json_execute of a request. *)
Start(r) ==
  \/ r.oper = "none" /\ ExecuteNothing
  \/ r.oper = "add_node" /\ ExecuteAddNode(r.node)
  \/ r.oper = "add_edge" /\ ExecuteAddEdge(r.name, r.id1, r.id2)
  \/ r.oper = "delete_edge" /\ ExecuteDeleteEdge(r.id1, r.id2)
  \/ r.oper = "select" /\ Select(r.name, r.statements)

(* Mutant: buff keeps the previous request. *)
Received_stale == IF sent[conn] # << >> THEN sent[conn][1] ELSE req

(* One read of at most MAX_SIZE bytes is parsed: nothing, if the client    *)
(* went away without a request, or the beginning of a longer request, are  *)
(* not JSON, and json_execute finds no "oper" in them.                     *)
Received == IF sent[conn] # << >> /\ sent[conn][1].oper # "too_long" THEN sent[conn][1]
            ELSE [oper |-> "none"]

(* Mutant: a read of nothing is taken for an error. *)
Execute_strict ==
  /\ up /\ server = "read"
  /\ sent[conn] # << >> \/ pc[conn] = "gone"
  /\ IF sent[conn] = << >> THEN Exit /\ NoRequest ELSE Start(Received)
  /\ ran' = Append(ran, [client |-> conn, request |-> req'])
  /\ IF up' THEN server' = "run" /\ UNCHANGED <<kernel, conn, fds, bound, smashed>>
            ELSE ConnectionsEnd
  /\ UNCHANGED <<clientVars, kills>>

(* read returns when the client has written or has closed its end.         *)
Execute ==
  /\ up /\ server = "read"
  /\ sent[conn] # << >> \/ pc[conn] = "gone"
  /\ Start(Received)
  /\ ran' = Append(ran, [client |-> conn, request |-> req'])
  /\ IF up' THEN server' = "run" /\ UNCHANGED <<kernel, conn, fds, bound, smashed>>
            ELSE ConnectionsEnd
  /\ UNCHANGED <<clientVars, kills>>

(* The rest of a select. *)
ExecuteStatement ==
  /\ server = "run"
  /\ Filter \/ FilterByReference \/ Out \/ DeleteOne \/ DeleteEnd \/ Respond
  /\ IF up' THEN UNCHANGED <<kernel, process>> ELSE ConnectionsEnd
  /\ UNCHANGED <<clientVars, history>>

TooLong == Len(reply.nodes) > ReplySize

(* Mutant: an empty answer is not written. *)
WriteAnswer_some ==
  /\ up /\ server = "run" /\ k = 0
  /\ \/ reply # NoReply /\ answer' = [answer EXCEPT ![conn] = <<IF TooLong THEN Text("cut off") ELSE reply>>]
     \/ (reply = NoReply \/ TooLong) /\ UNCHANGED answer
  /\ conn' = NoClient /\ server' = "accept"
  /\ smashed' = (smashed \/ TooLong)
  /\ UNCHANGED <<all, clientVars, ended, queue, portUsed, fds, bound, history>>

(* A client that has gone does not make the write fail.  An answer longer  *)
(* than temp_buff is copied over what lies behind it, connfd perhaps; the  *)
(* write is of the whole string, of which the client reads MAX_SIZE bytes. *)
WriteAnswer ==
  /\ up /\ server = "run" /\ k = 0
  /\ \/ answer' = [answer EXCEPT ![conn] = <<IF TooLong THEN Text("cut off") ELSE reply>>]
     \/ TooLong /\ UNCHANGED answer
  /\ conn' = NoClient /\ server' = "accept"
  /\ smashed' = (smashed \/ TooLong)
  /\ UNCHANGED <<all, clientVars, ended, queue, portUsed, fds, bound, history>>

(* What the long answer was copied over ends the process, at once or at    *)
(* any time after; so does what a has(ref) has written over.               *)
Overflow ==
  /\ smashed \/ heap \/ (server = "run" /\ k = 0 /\ TooLong)
  /\ Kill /\ NoRequest /\ ConnectionsEnd
  /\ kills' = kills + 1
  /\ UNCHANGED <<clientVars, ran>>

ServerStep == Accept \/ AcceptFails \/ Execute \/ ExecuteStatement \/ WriteAnswer

-----------------------------------------------------------------------------
(* The clients.                                                            *)

(* connect is refused when no server listens on the port, and times out    *)
(* when the queue of the one that does stays full.                         *)
Connect(c) ==
  /\ pc[c] = "off" /\ \A b \in 1 .. c - 1 : pc[b] # "off"
  /\ \/ /\ up /\ bound /\ Len(queue) < QueueSize
        /\ pc' = [pc EXCEPT ![c] = "typing"]
        /\ queue' = Append(queue, c)
     \/ /\ ~up \/ ~bound \/ Len(queue) = QueueSize
        /\ pc' = [pc EXCEPT ![c] = "refused"]
        /\ UNCHANGED queue
  /\ UNCHANGED <<all, sent, answer, ended, portUsed, process, kills, ran>>

(* yyparse returns and the request is written.  On a connection that has   *)
(* ended the write fails or is lost: there will be nothing to read.  A     *)
(* request longer than temp_buff may end the client instead: see Leave.    *)
Send(c, r) ==
  /\ pc[c] = "typing"
  /\ IF c \in ended
     THEN pc' = [pc EXCEPT ![c] = "lost"] /\ UNCHANGED sent
     ELSE pc' = [pc EXCEPT ![c] = "waiting"] /\ sent' = [sent EXCEPT ![c] = <<r>>]
  /\ UNCHANGED <<all, kernel, process, history>>

(* The client ends before it has its answer: its command was close(), or   *)
(* left a tree on which tree_to_json ends the process, or was too long for *)
(* temp_buff, or its user interrupts it.                                   *)
Leave(c) ==
  /\ pc[c] \in {"typing", "waiting"}
  /\ pc' = [pc EXCEPT ![c] = "gone"]
  /\ UNCHANGED <<all, sent, kernel, process, history>>

ReadAnswer(c) ==
  /\ pc[c] = "waiting"
  /\ \/ answer[c] # << >> /\ pc' = [pc EXCEPT ![c] = "answered"]
     \/ answer[c] = << >> /\ c \in ended /\ pc' = [pc EXCEPT ![c] = "lost"]
  /\ UNCHANGED <<all, sent, kernel, process, history>>

-----------------------------------------------------------------------------
(* Who starts and stops the server.                                        *)

KillServer ==
  /\ kills < KillBound
  /\ Kill /\ NoRequest /\ ConnectionsEnd
  /\ kills' = kills + 1
  /\ UNCHANGED <<clientVars, ran>>

(* The result of bind is not looked at: with the port still in use, listen *)
(* gives the socket another one.                                           *)
StartServer ==
  /\ Restart
  /\ bound' = ~portUsed
  /\ UNCHANGED <<clientVars, kernel, conn, server, fds, smashed, history>>

(* The connections that used the port are gone for good. *)
PortFree ==
  /\ portUsed /\ portUsed' = FALSE
  /\ UNCHANGED <<all, clientVars, answer, ended, queue, process, history>>

SNext ==
  \/ ServerStep
  \/ Overflow
  \/ \E c \in Clients : Connect(c)
  \/ \E c \in Clients, r \in Commands : Send(c, r)
  \/ \E c \in Clients : Leave(c)
  \/ \E c \in Clients : ReadAnswer(c)
  \/ KillServer
  \/ StartServer
  \/ PortFree

(* The server and the clients run; nobody has to start, stop or type.      *)
SSpec == /\ SInit /\ [][SNext]_sys
         /\ WF_sys(ServerStep)
         /\ \A c \in Clients : WF_sys(ReadAnswer(c))

-----------------------------------------------------------------------------
(* Properties.                                                             *)

(* A client is in one place only: waiting to be accepted, being served, or *)
(* done with; the descriptors count the connections accepted.              *)
STypeOK ==
  /\ pc \in [Clients -> {"off", "refused", "typing", "waiting", "answered", "lost", "gone"}]
  /\ Cardinality(Range(queue)) = Len(queue) /\ Len(queue) <= QueueSize
  /\ (conn = NoClient) = (server = "accept") /\ conn \notin Range(queue)
  /\ fds \in 0 .. FdLimit
  /\ Range(queue) \cap (ended \cup {ran[j].client : j \in DOMAIN ran}) = {}

(* What is executed for a client is the request it has sent, all of it or  *)
(* nothing, and at most once, although one server process follows another, *)
(* and clients leave at any point; and requests take their turn as their   *)
(* clients connected, not as their users typed.                            *)
RequestsInTurn ==
  /\ \A j \in DOMAIN ran :
       ran[j].request.oper # "none" => <<ran[j].request>> = sent[ran[j].client]
  /\ \A j \in 1 .. Len(ran) - 1 : ran[j].client < ran[j + 1].client

DeletesAll(r) == r.oper = "select" /\ DELETE \in {s.type : s \in Range(r.statements)}

(* The names of the nodes that requests of Commands leave, in page order. *)
NamesAfter(requests) ==
  FoldLeft(LAMBDA names, r : CASE r.oper = "add_node" -> Append(names, r.node.name)
                               [] DeletesAll(r)       -> << >>
                               [] OTHER               -> names,
           << >>, requests)

(* Requests to which NamesAfter says what is answered: those that select   *)
(* anything select every node, and at most delete it.                      *)
Plain(r) ==
  r.oper = "select" => r.name = AnyName /\ r.statements \in {<< >>, <<[type |-> DELETE]>>}

(* What V() is answered is what the requests of the clients that connected *)
(* before have left, and nothing of those that connected later but typed   *)
(* first: unless a process was killed, also across one that ran out of     *)
(* descriptors.                                                            *)
AnswersAreInTurn ==
  kills = 0 =>
    \A j \in DOMAIN ran :
      LET got == answer[ran[j].client]
      IN  ran[j].request.oper = "select" /\ got # << >> /\ got # <<Text("cut off")>> =>
            [n \in DOMAIN got[1].nodes |-> got[1].nodes[n].name]
              = NamesAfter([m \in 1 .. j - 1 |-> ran[m].request])

(* An addVertex that was answered is lost by a kill at most: one for every *)
(* process that ended without writing its buffer out.                      *)
LostByKillsOnly ==
  (\A c \in Clients : sent[c] = << >> \/ ~DeletesAll(sent[c][1])) =>
    Cardinality({c \in Clients : answer[c] = <<Text("Add node")>>})
      <= Cardinality(LiveIds(file)) + kills

(* The server ends by itself only when it has used up its descriptors, has *)
(* had an answer longer than its buffer; never because of what a client    *)
(* does to its connection.  (The requests of Commands do not end it.)      *)
EndsForCause ==
  ~up /\ kills = 0 =>
    \/ Len(ran) >= FdLimit
    \/ \E j \in DOMAIN ran :
         /\ ran[j].request.oper = "select"
         /\ Len(NamesAfter([m \in 1 .. j - 1 |-> ran[m].request])) > ReplySize

(* Only a client that has connected and not sent its command keeps others  *)
(* waiting, and only while it is its turn: any other client that waits is  *)
(* answered in the end, or learns that the server is gone, even when the   *)
(* server runs out of descriptors or is killed and nobody restarts it.  A  *)
(* long answer copied over connfd is the exception.                        *)
OnlyIdleClientsBlock ==
  \A c \in Clients :
    pc[c] = "waiting" ~>
      pc[c] # "waiting" \/ smashed \/ (server = "read" /\ pc[conn] = "typing")
=============================================================================
