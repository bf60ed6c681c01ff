----------------------------- MODULE ServerProofs -----------------------------
(***************************************************************************)
(* Proofs about Server: whatever clients and the kernel do, the database   *)
(* sees nothing but requests, one after another; each is executed as it    *)
(* was sent, at most once, and in the order in which the clients           *)
(* connected.                                                              *)
(***************************************************************************)
EXTENDS Server, JsonExecuteProofs

-----------------------------------------------------------------------------
(* The inductive invariant.                                                *)

Places == {"off", "refused", "typing", "waiting", "answered", "lost", "gone"}

(* Every variable has its type, a connection is served exactly when the    *)
(* server is not accepting one, and no select is unfinished then.          *)
Typed ==
  /\ pc \in [Clients -> Places]
  /\ sent \in [Clients -> {<< >>} \cup {<<r>> : r \in Commands}]
  /\ ended \in SUBSET Clients
  /\ queue \in Seq(Clients) /\ Len(queue) <= QueueSize
  /\ conn \in Clients \cup {NoClient}
  /\ server \in {"accept", "read", "run"}
  /\ conn = NoClient <=> server = "accept"
  /\ fds \in 0 .. FdLimit
  /\ up /\ server # "run" => k = 0

(* Clients are started in their order, and wait in it behind the one that  *)
(* is served; what a client has sent it has finished typing.               *)
Turns ==
  /\ \A c \in Clients : pc[c] # "off" => \A b \in 1 .. c - 1 : pc[b] # "off"
  /\ \A c \in Range(queue) \cup ended : pc[c] # "off"
  /\ conn \in Clients => pc[conn] # "off"
  /\ \A m, n \in 1 .. Len(queue) : m < n => queue[m] < queue[n]
  /\ \A c \in Range(queue) : c \notin ended /\ (conn \in Clients => conn < c)
  /\ \A c \in Clients : sent[c] # << >> => pc[c] \notin {"off", "typing"}

(* Requests are executed as they were sent, in the order of the clients,   *)
(* before those of the clients that still wait.                            *)
Executed ==
  /\ ran \in Seq([client : Clients, request : Request])
  /\ \A j \in 1 .. Len(ran) :
       /\ pc[ran[j].client] \notin {"off", "typing"}
       /\ ran[j].request.oper # "none" => <<ran[j].request>> = sent[ran[j].client]
       /\ \A c \in Range(queue) : ran[j].client < c
       /\ server = "read" => ran[j].client < conn
       /\ server = "run" => ran[j].client <= conn
  /\ \A j \in 1 .. Len(ran) - 1 : ran[j].client < ran[j + 1].client

SInv == Typed /\ Turns /\ Executed

-----------------------------------------------------------------------------
(* The server executes requests.                                           *)

(* Starting a request that json_execute can be asked is a step of it, and  *)
(* the request that it executes is that request.                           *)
LEMMA StartStep ==
  ASSUME NEW r \in Request, Start(r)
  PROVE  JNext /\ req' = r
<1>1. CASE r \in [oper : {"none"}]
  <2>1. ExecuteNothing /\ r = [oper |-> "none"]
    BY <1>1 DEF Start
  <2> QED BY <2>1 DEF ExecuteNothing, Done, JNext
<1>2. CASE r \in [oper : {"add_node"}, node : NodeInputs]
  <2>1. ExecuteAddNode(r.node) /\ r = [oper |-> "add_node", node |-> r.node]
    BY <1>2 DEF Start
  <2> QED BY <1>2, <2>1 DEF ExecuteAddNode, Done, JNext
<1>3. CASE r \in [oper : {"add_edge"}, name : EdgeNames, id1 : NodeIds, id2 : NodeIds]
  <2>1. /\ ExecuteAddEdge(r.name, r.id1, r.id2)
        /\ r = [oper |-> "add_edge", name |-> r.name, id1 |-> r.id1, id2 |-> r.id2]
    BY <1>3 DEF Start
  <2>2. req' = r
    BY <2>1 DEF ExecuteAddEdge, Done
  <2> DEFINE e == [name |-> r.name, id |-> r.id2]
  <2>3. e \in EdgeInputs /\ r.id1 \in NodeIds /\ e.name = r.name /\ e.id = r.id2
    BY <1>3 DEF EdgeInputs
  <2> HIDE DEF e
  <2>4. ExecuteAddEdge(e.name, r.id1, e.id)
    BY <2>1, <2>3
  <2> QED BY <2>2, <2>3, <2>4 DEF JNext
<1>4. CASE r \in [oper : {"delete_edge"}, id1 : NodeIds, id2 : NodeIds]
  <2>1. /\ ExecuteDeleteEdge(r.id1, r.id2)
        /\ r = [oper |-> "delete_edge", id1 |-> r.id1, id2 |-> r.id2]
    BY <1>4 DEF Start
  <2> QED BY <1>4, <2>1 DEF ExecuteDeleteEdge, Done, JNext
<1>5. CASE r \in [oper : {"select"}, name : NodeNames \cup {AnyName}, statements : Pipelines]
  <2>1. /\ Select(r.name, r.statements)
        /\ r = [oper |-> "select", name |-> r.name, statements |-> r.statements]
    BY <1>5 DEF Start
  <2> QED BY <1>5, <2>1 DEF Select, JNext
<1> QED BY <1>1, <1>2, <1>3, <1>4, <1>5 DEF Request

(* What is received is a request; if it is not empty, it is the one that   *)
(* was sent.                                                               *)
LEMMA ReceivedRequest ==
  ASSUME Typed, conn \in Clients
  PROVE  /\ Received \in Request
         /\ Received.oper # "none" => <<Received>> = sent[conn]
<1>1. [oper |-> "none"] \in Request /\ [oper |-> "none"].oper = "none"
  BY DEF Request
<1>2. CASE sent[conn] # << >> /\ sent[conn][1].oper # "too_long"
  <2>1. PICK r \in Commands : sent[conn] = <<r>>
    BY <1>2 DEF Typed
  <2>2. Received = r /\ r.oper # "too_long"
    BY <1>2, <2>1 DEF Received
  <2>3. r \in Request
    BY <2>2, CommandsAssumption
  <2> QED BY <2>1, <2>2, <2>3
<1>3. CASE ~ (sent[conn] # << >> /\ sent[conn][1].oper # "too_long")
  BY <1>1, <1>3 DEF Received
<1> QED BY <1>2, <1>3

(* Every step of the system is a step of json_execute, or does not touch   *)
(* it.                                                                     *)
LEMMA SNextIsJNext ==
  ASSUME Typed, SNext
  PROVE  JNext \/ UNCHANGED all
<1>1. CASE Execute
  <2>1. server = "read" /\ Start(Received)
    BY <1>1 DEF Execute
  <2>2. Received \in Request
    BY <2>1, ReceivedRequest DEF Typed
  <2> QED BY <2>1, <2>2, StartStep
<1>2. CASE ExecuteStatement
  BY <1>2 DEF ExecuteStatement, JNext
<1>3. CASE AcceptFails \/ Overflow \/ KillServer \/ StartServer
  <2>1. AcceptFails => k = 0 /\ Exit /\ NoRequest
    BY DEF AcceptFails, Typed, Exit
  <2> QED BY <1>3, <2>1 DEF Overflow, KillServer, StartServer, StopServer, JNext
<1>4. CASE Accept \/ WriteAnswer \/ PortFree
  BY <1>4 DEF Accept, WriteAnswer, PortFree
<1>5. CASE \/ \E c \in Clients : Connect(c) \/ Leave(c) \/ ReadAnswer(c)
           \/ \E c \in Clients, r \in Commands : Send(c, r)
  BY <1>5 DEF Connect, Leave, ReadAnswer, Send
<1> QED BY <1>1, <1>2, <1>3, <1>4, <1>5 DEF SNext, ServerStep

-----------------------------------------------------------------------------
(* The invariant is inductive.                                             *)

(* At the start nobody has connected. *)
LEMMA SInitInv == SInit => SInv
<1> SUFFICES ASSUME SInit
             PROVE  SInv
  OBVIOUS
<1> USE ServerAssumption DEF SInit
<1>1. /\ << >> \in Seq(Clients) /\ << >> \in Seq([client : Clients, request : Request])
      /\ Len(<< >>) = 0 /\ Range(<< >>) = {}
  BY EmptySeq DEF Range
<1>2. Typed
  BY <1>1 DEF Typed, Places, JInit
<1>3. Turns
  BY <1>1 DEF Turns, Clients
<1>4. Executed
  BY <1>1 DEF Executed
<1> QED BY <1>2, <1>3, <1>4 DEF SInv

(* The end of a process empties its queue.                                 *)
LEMMA EndTyped ==
  ASSUME SInv, ConnectionsEnd, UNCHANGED clientVars, ~up'
  PROVE  Typed' /\ Turns'
<1> USE ServerAssumption
<1>1. << >> \in Seq(Clients) /\ Len(<< >>) = 0 /\ Range(<< >>) = {}
  BY EmptySeq DEF Range
<1>2. Connected \in SUBSET Clients /\ \A c \in Connected : pc[c] # "off"
  BY DEF Connected
<1>3. /\ ended' = ended \cup Connected /\ queue' = << >> /\ conn' = NoClient
      /\ server' = "accept" /\ fds' = 0 /\ pc' = pc /\ sent' = sent
  BY DEF ConnectionsEnd, clientVars
<1>4. NoClient \notin Clients
  BY DEF Clients
<1>5. Typed'
  BY <1>1, <1>2, <1>3, <1>4 DEF SInv, Typed
<1>6. Turns'
  <2>1. \A c \in Clients : pc[c] # "off" => \A b \in 1 .. c - 1 : pc[b] # "off"
    BY DEF SInv, Turns
  <2>2. \A c \in Clients : sent[c] # << >> => pc[c] \notin {"off", "typing"}
    BY DEF SInv, Turns
  <2>3. \A c \in ended' : pc[c] # "off"
    BY <1>2, <1>3 DEF SInv, Turns
  <2> QED BY <1>1, <1>3, <1>4, <2>1, <2>2, <2>3 DEF Turns
<1> QED BY <1>5, <1>6

(* Executing the request of the client that is being served.               *)
LEMMA ExecuteInv ==
  ASSUME SInv, Execute
  PROVE  SInv'
<1> USE ServerAssumption
<1> DEFINE it == [client |-> conn, request |-> req']
<1>1. /\ up /\ server = "read" /\ Start(Received)
      /\ sent[conn] # << >> \/ pc[conn] = "gone"
      /\ ran' = Append(ran, it)
      /\ pc' = pc /\ sent' = sent
  BY DEF Execute, clientVars
<1>2. conn \in Clients /\ NoClient \notin Clients
  BY <1>1 DEF SInv, Typed, Clients
<1>3. Received \in Request /\ (Received.oper # "none" => <<Received>> = sent[conn])
  BY <1>2, ReceivedRequest DEF SInv
<1>4. req' = Received
  BY <1>1, <1>3, StartStep
<1>5. /\ it \in [client : Clients, request : Request]
      /\ it.client = conn /\ it.request = Received
  BY <1>2, <1>3, <1>4
<1> HIDE DEF it
<1>6. /\ ran' \in Seq([client : Clients, request : Request])
      /\ Len(ran) \in Nat /\ Len(ran') = Len(ran) + 1
      /\ \A j \in 1 .. Len(ran) : ran'[j] = ran[j]
      /\ ran'[Len(ran) + 1] = it
  <2>1. ran \in Seq([client : Clients, request : Request])
    BY DEF SInv, Executed
  <2> QED BY <1>1, <1>5, <2>1, AppendProperties, LenProperties
<1>7. pc[conn] \notin {"off", "typing"}
  BY <1>1, <1>2 DEF SInv, Turns
<1>8. \A j \in 1 .. Len(ran') :
        /\ pc[ran'[j].client] \notin {"off", "typing"}
        /\ ran'[j].request.oper # "none" => <<ran'[j].request>> = sent[ran'[j].client]
        /\ \A c \in Range(queue) : ran'[j].client < c
        /\ ran'[j].client <= conn
  <2> SUFFICES ASSUME NEW j \in 1 .. Len(ran')
               PROVE  /\ pc[ran'[j].client] \notin {"off", "typing"}
                      /\ ran'[j].request.oper # "none" =>
                           <<ran'[j].request>> = sent[ran'[j].client]
                      /\ \A c \in Range(queue) : ran'[j].client < c
                      /\ ran'[j].client <= conn
    OBVIOUS
  <2>1. CASE j = Len(ran) + 1
    <3>1. \A c \in Range(queue) : conn < c
      BY <1>2 DEF SInv, Turns
    <3>2. conn <= conn
      BY <1>2 DEF Clients
    <3> QED BY <1>3, <1>5, <1>6, <1>7, <2>1, <3>1, <3>2
  <2>2. CASE j \in 1 .. Len(ran)
    <3>1. ran[j].client \in Int /\ conn \in Int
      <4>1. ran[j] \in [client : Clients, request : Request]
        BY <2>2, ElementOfSeq DEF SInv, Executed
      <4> QED BY <1>2, <4>1 DEF Clients
    <3>2. ran[j].client < conn
      BY <1>1, <2>2 DEF SInv, Executed
    <3>3. ran[j].client <= conn
      BY <3>1, <3>2
    <3>4. /\ pc[ran[j].client] \notin {"off", "typing"}
          /\ ran[j].request.oper # "none" => <<ran[j].request>> = sent[ran[j].client]
          /\ \A c \in Range(queue) : ran[j].client < c
      BY <2>2 DEF SInv, Executed
    <3>5. ran'[j] = ran[j]
      BY <1>6, <2>2
    <3> QED BY <3>3, <3>4, <3>5
  <2> QED BY <1>6, <2>1, <2>2
<1>9. \A j \in 1 .. Len(ran') - 1 : ran'[j].client < ran'[j + 1].client
  <2> SUFFICES ASSUME NEW j \in 1 .. Len(ran') - 1
               PROVE  ran'[j].client < ran'[j + 1].client
    OBVIOUS
  <2>1. j \in 1 .. Len(ran) /\ ran'[j] = ran[j]
    BY <1>6
  <2>2. CASE j = Len(ran)
    BY <1>1, <1>5, <1>6, <2>1, <2>2 DEF SInv, Executed
  <2>3. CASE j # Len(ran)
    <3>1. j \in 1 .. Len(ran) - 1 /\ ran'[j + 1] = ran[j + 1]
      BY <1>6, <2>1, <2>3
    <3> QED BY <2>1, <3>1 DEF SInv, Executed
  <2> QED BY <2>2, <2>3
<1>10. CASE up'
  <2>1. /\ server' = "run" /\ conn' = conn /\ queue' = queue /\ ended' = ended
        /\ fds' = fds
    BY <1>10 DEF Execute, kernel
  <2>2. Typed'
    BY <1>1, <1>2, <2>1 DEF SInv, Typed
  <2>3. Turns'
    BY <1>1, <2>1 DEF SInv, Turns
  <2>4. Executed'
    BY <1>1, <1>6, <1>8, <1>9, <2>1 DEF Executed
  <2> QED BY <2>2, <2>3, <2>4 DEF SInv
<1>11. CASE ~up'
  <2>1. ConnectionsEnd
    BY <1>11 DEF Execute
  <2>2. Typed' /\ Turns'
    BY <1>1, <1>11, <2>1, EndTyped DEF clientVars
  <2>3. Range(queue') = {} /\ server' = "accept"
    BY <2>1, EmptySeq DEF ConnectionsEnd, Range
  <2>4. Executed'
    BY <1>1, <1>6, <1>8, <1>9, <2>3 DEF Executed
  <2> QED BY <2>2, <2>4 DEF SInv
<1> QED BY <1>10, <1>11

(* The end of a process in which nothing is executed.                      *)
LEMMA EndInv ==
  ASSUME SInv, ConnectionsEnd, UNCHANGED clientVars, ~up', ran' = ran
  PROVE  SInv'
<1>1. Typed' /\ Turns'
  BY EndTyped
<1>2. Range(queue') = {} /\ server' = "accept" /\ pc' = pc /\ sent' = sent
  BY EmptySeq DEF ConnectionsEnd, Range, clientVars
<1>3. Executed'
  BY <1>2 DEF SInv, Executed
<1> QED BY <1>1, <1>3 DEF SInv

(* A statement, the answer, and what happens around the process.           *)
LEMMA ProcessInv ==
  ASSUME SInv,
         ExecuteStatement \/ WriteAnswer \/ AcceptFails \/ Overflow \/ KillServer
           \/ StartServer \/ PortFree
  PROVE  SInv'
<1> USE ServerAssumption
<1>1. NoClient \notin Clients
  BY DEF Clients
<1>2. CASE AcceptFails \/ Overflow \/ KillServer
  <2>1. ConnectionsEnd /\ UNCHANGED clientVars /\ ~up' /\ ran' = ran
    BY <1>2 DEF AcceptFails, Overflow, KillServer, Kill, Exit, history
  <2> QED BY <2>1, EndInv
<1>3. CASE ExecuteStatement
  <2>1. /\ server = "run" /\ UNCHANGED clientVars /\ ran' = ran
        /\ IF up' THEN UNCHANGED <<kernel, process>> ELSE ConnectionsEnd
    BY <1>3 DEF ExecuteStatement, history
  <2>2. CASE up'
    <3>1. UNCHANGED <<pc, sent, ended, queue, conn, server, fds, ran>>
      BY <2>1, <2>2 DEF clientVars, kernel, process
    <3> QED BY <2>1, <3>1 DEF SInv, Typed, Turns, Executed
  <2>3. CASE ~up'
    BY <2>1, <2>3, EndInv
  <2> QED BY <2>2, <2>3
<1>4. CASE WriteAnswer
  <2>1. /\ k = 0 /\ k' = k /\ conn' = NoClient /\ server' = "accept"
        /\ UNCHANGED <<pc, sent, ended, queue, fds, ran, up>>
    BY <1>4 DEF WriteAnswer, all, vars, clientVars, history
  <2>2. Typed'
    BY <2>1 DEF SInv, Typed
  <2>3. Turns'
    BY <1>1, <2>1 DEF SInv, Turns
  <2>4. Executed'
    BY <2>1 DEF SInv, Executed
  <2> QED BY <2>2, <2>3, <2>4 DEF SInv
<1>5. CASE StartServer \/ PortFree
  <2>1. /\ UNCHANGED <<pc, sent, ended, queue, conn, server, fds, ran>>
        /\ k' = 0 \/ UNCHANGED <<k, up>>
    BY <1>5 DEF StartServer, PortFree, Restart, NoRequest, all, vars, clientVars, kernel,
                process, history
  <2>2. Typed'
    BY <2>1 DEF SInv, Typed
  <2>3. Turns'
    BY <2>1 DEF SInv, Turns
  <2>4. Executed'
    BY <2>1 DEF SInv, Executed
  <2> QED BY <2>2, <2>3, <2>4 DEF SInv
<1> QED BY <1>2, <1>3, <1>4, <1>5

(* The client that has waited longest is served next.                      *)
LEMMA AcceptInv ==
  ASSUME SInv, Accept
  PROVE  SInv'
<1> USE ServerAssumption
<1>1. /\ server = "accept" /\ fds < FdLimit /\ queue # << >>
      /\ conn' = Head(queue) /\ queue' = Tail(queue)
      /\ fds' = fds + 1 /\ server' = "read"
      /\ UNCHANGED <<pc, sent, ended, ran, up, k>>
  BY DEF Accept, all, vars, clientVars, history
<1>2. queue \in Seq(Clients) /\ Len(queue) \in Nat /\ Len(queue) > 0 /\ Len(queue) <= QueueSize
  BY <1>1, EmptySeq, LenProperties DEF SInv, Typed
<1>3. /\ conn' = queue[1] /\ conn' \in Clients
      /\ queue' \in Seq(Clients) /\ Len(queue') = Len(queue) - 1
      /\ \A n \in 1 .. Len(queue') : queue'[n] = queue[n + 1]
  BY <1>1, <1>2, HeadTailProperties
<1>4. conn' \in Range(queue) /\ Range(queue') \subseteq Range(queue)
  <2>1. DOMAIN queue = 1 .. Len(queue) /\ DOMAIN queue' = 1 .. Len(queue')
    BY <1>2, <1>3, LenProperties
  <2>2. 1 \in DOMAIN queue /\ \A n \in DOMAIN queue' : n + 1 \in DOMAIN queue
    BY <1>2, <1>3, <2>1
  <2> QED BY <1>3, <2>1, <2>2 DEF Range
<1>5. \A c \in Range(queue') : conn' < c
  <2> SUFFICES ASSUME NEW n \in 1 .. Len(queue')
               PROVE  conn' < queue'[n]
    BY <1>3, LenProperties DEF Range
  <2>1. 1 \in 1 .. Len(queue) /\ n + 1 \in 1 .. Len(queue) /\ 1 < n + 1
    BY <1>2, <1>3
  <2> QED BY <1>3, <2>1 DEF SInv, Turns
<1>6. NoClient \notin Clients
  BY DEF Clients
<1>7. Typed'
  <2>1. fds' \in 0 .. FdLimit /\ Len(queue') <= QueueSize
    BY <1>1, <1>2, <1>3 DEF SInv, Typed
  <2> QED BY <1>1, <1>3, <1>6, <2>1 DEF SInv, Typed
<1>8. Turns'
  <2>1. \A m, n \in 1 .. Len(queue') : m < n => queue'[m] < queue'[n]
    <3> SUFFICES ASSUME NEW m \in 1 .. Len(queue'), NEW n \in 1 .. Len(queue'), m < n
                 PROVE  queue'[m] < queue'[n]
      OBVIOUS
    <3>1. m + 1 \in 1 .. Len(queue) /\ n + 1 \in 1 .. Len(queue) /\ m + 1 < n + 1
      BY <1>2, <1>3
    <3> QED BY <1>3, <3>1 DEF SInv, Turns
  <2> QED BY <1>1, <1>4, <1>5, <2>1 DEF SInv, Turns
<1>9. Executed'
  BY <1>1, <1>4 DEF SInv, Executed
<1> QED BY <1>7, <1>8, <1>9 DEF SInv

(* A client that connects is the last one so far.                          *)
LEMMA ConnectInv ==
  ASSUME SInv, NEW c \in Clients, Connect(c)
  PROVE  SInv'
<1> USE ServerAssumption
<1>1. /\ pc[c] = "off" /\ \A b \in 1 .. c - 1 : pc[b] # "off"
      /\ UNCHANGED <<sent, ended, conn, server, fds, ran, up, k>>
      /\ \/ Len(queue) < QueueSize /\ pc' = [pc EXCEPT ![c] = "typing"] /\ queue' = Append(queue, c)
         \/ pc' = [pc EXCEPT ![c] = "refused"] /\ queue' = queue
  BY DEF Connect, all, vars, process
<1>2. /\ pc \in [Clients -> Places] /\ queue \in Seq(Clients) /\ Len(queue) \in Nat
      /\ DOMAIN queue = 1 .. Len(queue) /\ Len(queue) <= QueueSize
  BY LenProperties DEF SInv, Typed
<1>3. \A b \in Clients : pc[b] # "off" => b < c
  <2> SUFFICES ASSUME NEW b \in Clients, pc[b] # "off", ~ (b < c)
               PROVE  FALSE
    OBVIOUS
  <2>1. c \in Nat /\ b \in Nat /\ 1 <= c
    BY DEF Clients
  <2>2. b # c
    BY <1>1
  <2>3. c \in 1 .. b - 1
    BY <2>1, <2>2
  <2> QED BY <1>1, <2>3 DEF SInv, Turns
<1>4. /\ \A b \in Clients : b # c => pc'[b] = pc[b]
      /\ pc'[c] \in {"typing", "refused"} /\ pc' \in [Clients -> Places]
  BY <1>1, <1>2 DEF Places
<1>5. /\ queue' \in Seq(Clients) /\ Len(queue') <= QueueSize
      /\ Range(queue') \subseteq Range(queue) \cup {c}
      /\ \A m, n \in 1 .. Len(queue') : m < n => queue'[m] < queue'[n]
  <2>1. CASE queue' = queue
    BY <1>2, <2>1 DEF SInv, Turns
  <2>2. CASE Len(queue) < QueueSize /\ queue' = Append(queue, c)
    <3>1. /\ queue' \in Seq(Clients) /\ Len(queue') = Len(queue) + 1
          /\ DOMAIN queue' = 1 .. Len(queue')
          /\ \A n \in 1 .. Len(queue) : queue'[n] = queue[n]
          /\ queue'[Len(queue) + 1] = c
      BY <1>2, <2>2, AppendProperties, LenProperties
    <3>2. \A n \in 1 .. Len(queue) : queue[n] < c
      <4>1. \A n \in 1 .. Len(queue) : queue[n] \in Clients /\ queue[n] \in Range(queue)
        BY <1>2, ElementOfSeq DEF Range
      <4> QED BY <1>3, <4>1 DEF SInv, Turns
    <3>3. Range(queue') \subseteq Range(queue) \cup {c}
      <4>1. \A n \in DOMAIN queue' : n \in DOMAIN queue \/ n = Len(queue) + 1
        BY <1>2, <3>1
      <4> QED BY <1>2, <3>1, <4>1 DEF Range
    <3>4. ASSUME NEW m \in 1 .. Len(queue'), NEW n \in 1 .. Len(queue'), m < n
          PROVE  queue'[m] < queue'[n]
      <4>1. m \in 1 .. Len(queue) /\ (n \in 1 .. Len(queue) \/ n = Len(queue) + 1)
        BY <1>2, <3>1, <3>4
      <4> QED BY <3>1, <3>2, <3>4, <4>1 DEF SInv, Turns
    <3>5. Len(queue') <= QueueSize
      BY <1>2, <2>2, <3>1
    <3> QED BY <3>1, <3>3, <3>4, <3>5
  <2> QED BY <1>1, <2>1, <2>2
<1>6. sent[c] = << >>
  BY <1>1 DEF SInv, Turns
<1>7. c \notin ended /\ conn # c
  BY <1>1 DEF SInv, Turns
<1>8. Typed'
  BY <1>1, <1>4, <1>5 DEF SInv, Typed
<1>9. Turns'
  <2>1. \A a \in Clients : pc'[a] # "off" => \A b \in 1 .. a - 1 : pc'[b] # "off"
    <3> SUFFICES ASSUME NEW a \in Clients, pc'[a] # "off", NEW b \in 1 .. a - 1
                 PROVE  pc'[b] # "off"
      OBVIOUS
    <3>1. b \in Clients
      BY DEF Clients
    <3>2. CASE b = c
      BY <1>4, <3>2
    <3>3. CASE b # c
      <4>1. pc[b] # "off"
        BY <1>1, <1>4 DEF SInv, Turns
      <4> QED BY <1>4, <3>1, <3>3, <4>1
    <3> QED BY <3>2, <3>3
  <2>2. Range(queue) \subseteq Clients /\ ended \in SUBSET Clients
    BY <1>2, ElementOfSeq DEF Range, SInv, Typed
  <2>3. \A a \in Range(queue') \cup ended' : pc'[a] # "off"
    BY <1>1, <1>4, <1>5, <2>2 DEF SInv, Turns
  <2>4. conn' \in Clients => pc'[conn'] # "off"
    BY <1>1, <1>4 DEF SInv, Turns
  <2>5. \A a \in Range(queue') : a \notin ended' /\ (conn' \in Clients => conn' < a)
    <3> SUFFICES ASSUME NEW a \in Range(queue) \cup {c}
                 PROVE  a \notin ended /\ (conn \in Clients => conn < a)
      BY <1>1, <1>5
    <3>1. CASE a \in Range(queue)
      BY <3>1 DEF SInv, Turns
    <3>2. CASE a = c
      <4>1. conn \in Clients => pc[conn] # "off"
        BY DEF SInv, Turns
      <4> QED BY <1>3, <1>7, <3>2, <4>1
    <3> QED BY <3>1, <3>2
  <2>6. \A a \in Clients : sent'[a] # << >> => pc'[a] \notin {"off", "typing"}
    BY <1>1, <1>4, <1>6 DEF SInv, Turns
  <2> QED BY <1>5, <2>1, <2>3, <2>4, <2>5, <2>6 DEF Turns
<1>10. Executed'
  <2> SUFFICES ASSUME NEW j \in 1 .. Len(ran)
               PROVE  /\ pc'[ran[j].client] \notin {"off", "typing"}
                      /\ \A a \in Range(queue') : ran[j].client < a
    BY <1>1 DEF SInv, Executed
  <2>1. ran[j] \in [client : Clients, request : Request]
    BY ElementOfSeq DEF SInv, Executed
  <2>2. ran[j].client \in Clients /\ pc[ran[j].client] \notin {"off", "typing"}
    BY <2>1 DEF SInv, Executed
  <2>3. ran[j].client # c /\ ran[j].client < c
    BY <1>1, <1>3, <2>2
  <2>4. \A a \in Range(queue) : ran[j].client < a
    BY DEF SInv, Executed
  <2> QED BY <1>4, <1>5, <2>2, <2>3, <2>4
<1> QED BY <1>8, <1>9, <1>10 DEF SInv

(* What a client does after it has connected.                              *)
LEMMA ClientInv ==
  ASSUME SInv, NEW c \in Clients,
         (\E r \in Commands : Send(c, r)) \/ Leave(c) \/ ReadAnswer(c)
  PROVE  SInv'
<1> USE ServerAssumption
<1>1. /\ pc[c] \in {"typing", "waiting"}
      /\ UNCHANGED <<ended, queue, conn, server, fds, ran, up, k>>
      /\ \E where \in Places \ {"off", "typing"} : pc' = [pc EXCEPT ![c] = where]
      /\ \/ sent' = sent
         \/ pc[c] = "typing" /\ \E r \in Commands : sent' = [sent EXCEPT ![c] = <<r>>]
  BY DEF Send, Leave, ReadAnswer, all, vars, kernel, process, history, Places
<1>2. /\ pc \in [Clients -> Places]
      /\ sent \in [Clients -> {<< >>} \cup {<<r>> : r \in Commands}]
  BY DEF SInv, Typed
<1>3. /\ pc' \in [Clients -> Places] /\ pc'[c] \notin {"off", "typing"}
      /\ \A b \in Clients : b # c => pc'[b] = pc[b]
  BY <1>1, <1>2
<1>4. /\ sent' \in [Clients -> {<< >>} \cup {<<r>> : r \in Commands}]
      /\ \A b \in Clients : b # c => sent'[b] = sent[b]
      /\ pc[c] # "typing" => sent' = sent
  BY <1>1, <1>2
<1>5. Typed'
  BY <1>1, <1>3, <1>4 DEF SInv, Typed
<1>6. \A b \in Clients : /\ pc'[b] = "off" <=> pc[b] = "off"
                         /\ pc[b] # "typing" => pc'[b] # "typing"
  BY <1>1, <1>3
<1>7. Turns'
  <2>1. \A a \in Clients : pc'[a] # "off" => \A b \in 1 .. a - 1 : pc'[b] # "off"
    <3>1. \A a \in Clients : \A b \in 1 .. a - 1 : b \in Clients
      BY DEF Clients
    <3> QED BY <1>6, <3>1 DEF SInv, Turns
  <2>2. Range(queue) \subseteq Clients /\ ended \in SUBSET Clients
    BY ElementOfSeq, LenProperties DEF Range, SInv, Typed
  <2>3. \A a \in Range(queue) \cup ended : pc'[a] # "off"
    BY <1>6, <2>2 DEF SInv, Turns
  <2>4. \A a \in Clients : sent'[a] # << >> => pc'[a] \notin {"off", "typing"}
    BY <1>3, <1>4 DEF SInv, Turns
  <2>5. conn \in Clients => pc'[conn] # "off"
    BY <1>6 DEF SInv, Turns
  <2> QED BY <1>1, <2>1, <2>3, <2>4, <2>5 DEF SInv, Turns
<1>8. Executed'
  <2> SUFFICES ASSUME NEW j \in 1 .. Len(ran)
               PROVE  /\ pc'[ran[j].client] \notin {"off", "typing"}
                      /\ sent'[ran[j].client] = sent[ran[j].client]
    BY <1>1 DEF SInv, Executed
  <2>1. ran[j] \in [client : Clients, request : Request]
    BY ElementOfSeq DEF SInv, Executed
  <2>2. ran[j].client \in Clients /\ pc[ran[j].client] \notin {"off", "typing"}
    BY <2>1 DEF SInv, Executed
  <2> QED BY <1>3, <1>4, <1>6, <2>2
<1> QED BY <1>5, <1>7, <1>8 DEF SInv

(* Every step keeps the invariant.                                         *)
LEMMA SNextInv ==
  ASSUME SInv, [SNext]_sys
  PROVE  SInv'
<1>1. CASE UNCHANGED sys
  <2>1. /\ UNCHANGED <<pc, sent, ended, queue, conn, server, fds, ran, up, k>>
    BY <1>1 DEF sys, all, vars, clientVars, kernel, process, history
  <2> QED BY <2>1 DEF SInv, Typed, Turns, Executed
<1>2. CASE SNext
  BY <1>2, ExecuteInv, ProcessInv, AcceptInv, ConnectInv, ClientInv DEF SNext, ServerStep
<1> QED BY <1>1, <1>2

(* So it holds of every reachable state.                                   *)
LEMMA AlwaysSInv == SSpec => []SInv
BY SInitInv, SNextInv, PTL DEF SSpec

-----------------------------------------------------------------------------
(* Theorems.                                                               *)

(* The server with its clients implements the execution of requests: what  *)
(* holds of JsonExecute under all sequences of requests and kills holds of *)
(* the whole system, however its clients behave.                           *)
THEOREM SystemRunsRequests == SSpec => JSpec
<1>1. SInit => JInit
  BY DEF SInit
<1>2. SInv /\ [SNext]_sys => [JNext]_all
  BY SNextIsJNext DEF SInv, sys
<1> QED BY <1>1, <1>2, AlwaysSInv, PTL DEF SSpec, JSpec

(* What is executed is what was sent, at most once, in the order in which  *)
(* the clients connected.                                                  *)
THEOREM RequestsAlwaysInTurn == SSpec => []RequestsInTurn
<1>1. SInv => RequestsInTurn
  BY LenProperties DEF SInv, Executed, RequestsInTurn
<1> QED BY <1>1, AlwaysSInv, PTL

(* A list whose elements ascend has as many of them as it is long.         *)
LEMMA AscendingCount ==
  ASSUME NEW s \in Seq(Nat), \A m, n \in 1 .. Len(s) : m < n => s[m] < s[n]
  PROVE  Cardinality(Range(s)) = Len(s)
<1>1. Len(s) \in Nat /\ DOMAIN s = 1 .. Len(s) /\ \A n \in 1 .. Len(s) : s[n] \in Nat
  BY LenProperties, ElementOfSeq
<1>2. s \in [1 .. Len(s) -> Range(s)]
  BY <1>1 DEF Range
<1>3. ASSUME NEW m \in 1 .. Len(s), NEW n \in 1 .. Len(s), s[m] = s[n]
      PROVE  m = n
  <2>1. ~ (m < n) /\ ~ (n < m)
    BY <1>1, <1>3
  <2> QED BY <1>1, <2>1
<1>4. \A x \in Range(s) : \E n \in 1 .. Len(s) : s[n] = x
  BY <1>1 DEF Range
<1>5. s \in Bijection(1 .. Len(s), Range(s))
  BY <1>2, <1>3, <1>4 DEF Bijection, Injection, Surjection, IsInjective
<1>6. ExistsBijection(1 .. Len(s), Range(s))
  BY <1>5 DEF ExistsBijection
<1> QED BY <1>1, <1>6, FS_CountingElements

(* A client waits, is served or is done with, and descriptors are counted. *)
THEOREM STypeCorrect == SSpec => []STypeOK
<1>1. SInv => STypeOK
  <2> SUFFICES ASSUME SInv
               PROVE  STypeOK
    OBVIOUS
  <2>1. Clients \subseteq Nat /\ NoClient \notin Clients
    BY ServerAssumption DEF Clients
  <2>2. queue \in Seq(Clients)
    BY DEF SInv, Typed
  <2>3. queue \in Seq(Nat) /\ Range(queue) \subseteq Clients
    BY <2>1, <2>2, LenProperties, ElementOfSeq DEF Range
  <2>4. Cardinality(Range(queue)) = Len(queue)
    BY <2>3, AscendingCount DEF SInv, Turns
  <2>5. conn \notin Range(queue)
    <3>1. conn \in Clients => ~ (conn < conn)
      BY <2>1
    <3> QED BY <2>1, <2>3, <3>1 DEF SInv, Turns
  <2>6. Range(queue) \cap (ended \cup {ran[j].client : j \in DOMAIN ran}) = {}
    <3> SUFFICES ASSUME NEW c \in Range(queue), c \in ended \/ \E j \in DOMAIN ran : c = ran[j].client
                 PROVE  FALSE
      OBVIOUS
    <3>1. c \notin ended
      BY DEF SInv, Turns
    <3>2. PICK j \in 1 .. Len(ran) : c = ran[j].client
      BY <3>1, LenProperties DEF SInv, Executed
    <3>3. ran[j].client < c
      BY DEF SInv, Executed
    <3>4. c < c /\ c \in Nat
      BY <2>1, <2>3, <3>2, <3>3
    <3> QED BY <3>4
  <2> QED BY <2>4, <2>5, <2>6 DEF SInv, Typed, STypeOK, Places
<1> QED BY <1>1, AlwaysSInv, PTL

-----------------------------------------------------------------------------
(* What a kill can lose.                                                   *)

AddReply == Text("Add node")
NoDelete == \A c \in Clients : sent[c] = << >> \/ ~DeletesAll(sent[c][1])
Added    == {c \in Clients : answer[c] = <<AddReply>>}
Pending  == IF server = "run" /\ reply = AddReply THEN {conn} ELSE {}
Live(f)  == Cardinality(LiveIds(f))

(* Without deletions, a node is in the file for every add_node that has    *)
(* been answered or is about to be, but for one for every kill; and the    *)
(* disk lacks no more than one of them.                                    *)
Kept == NoDelete => /\ Cardinality(Added \cup Pending) <= Live(file) + kills
                    /\ Live(file) <= Live(disk) + 1

(* The request that the server executes is the one that its client sent.   *)
Serving == /\ kills \in Nat
           /\ answer = [c \in Clients |-> answer[c]]
           /\ server = "run" /\ req.oper # "none" => <<req>> = sent[conn]

(* Pages can be counted. *)
LEMMA CountPages ==
  ASSUME NEW f, GoodFile(f)
  PROVE  IsFiniteSet(LiveIds(f)) /\ Live(f) \in Nat
<1>1. Len(f) \in Nat
  BY FileType
<1>2. IsFiniteSet(0 .. Len(f) - 1)
  BY <1>1, FS_Interval
<1>3. LiveIds(f) \subseteq 0 .. Len(f) - 1
  BY DEF LiveIds, Ids
<1> QED BY <1>2, <1>3, FS_Subset, FS_CardinalityType DEF Live

(* Clients can be counted. *)
LEMMA CountClients ==
  ASSUME NEW C \in SUBSET Clients
  PROVE  IsFiniteSet(C) /\ Cardinality(C) \in Nat
<1>1. IsFiniteSet(Clients)
  BY ServerAssumption, FS_Interval DEF Clients
<1> QED BY <1>1, FS_Subset, FS_CardinalityType

(* The texts of replies are different.                                     *)
LEMMA OtherReplies ==
  /\ NoReply # AddReply /\ Text("cut off") # AddReply /\ Text("Add edge") # AddReply
  /\ Text("Delete edge") # AddReply /\ Text("") # AddReply
  /\ Len(AddReply.nodes) = 0
  /\ \A s : Nodes(s) # AddReply
<1>1. AddReply.text = "Add node" /\ AddReply.nodes = << >>
  BY DEF AddReply, Text
<1> QED BY <1>1, ReplyTexts, EmptySeq

(* A request that is started puts a node in a page that held none and says *)
(* so, or leaves every page that holds a node and every other as it is.    *)
LEMMA StartLive ==
  ASSUME JInv, NEW r \in Request, Start(r)
  PROVE  /\ LiveIds(disk') = LiveIds(file) \/ UNCHANGED <<file, disk>>
         /\ \/ /\ up' /\ reply' = AddReply
               /\ \E p : p \notin LiveIds(file) /\ LiveIds(file') = LiveIds(file) \cup {p}
            \/ reply' # AddReply /\ LiveIds(file') = LiveIds(file)
<1>1. GoodFile(file)
  BY DEF JInv, Inv
<1>2. ASSUME NEW id, NEW h, OnNode(id, h), Found(file, id) => LiveIds(h) = LiveIds(file)
      PROVE  disk' = file /\ LiveIds(file') = LiveIds(file)
  <2>1. CASE Found(file, id)
    BY <1>2, <2>1 DEF OnNode, Writes
  <2>2. CASE ~Found(file, id)
    <3>1. disk' = file /\ file' = file
      BY <1>2, <2>2 DEF OnNode, Flush
    <3> QED BY <3>1
  <2> QED BY <2>1, <2>2
<1>3. CASE r \in [oper : {"none"}]
  <2>1. ExecuteNothing
    BY <1>3 DEF Start
  <2>2. file' = file /\ disk' = disk /\ (reply' = Text("") \/ reply' = NoReply)
    BY <2>1 DEF ExecuteNothing, Done, vars
  <2>3. LiveIds(file') = LiveIds(file)
    BY <2>2
  <2> QED BY <2>2, <2>3, OtherReplies
<1>4. CASE r \in [oper : {"add_node"}, node : NodeInputs]
  <2>1. ExecuteAddNode(r.node) /\ r.node \in NodeInputs
    BY <1>4 DEF Start
  <2>2. up' /\ (disk' = file \/ disk' = Append(file, EmptyPage))
    BY <2>1 DEF ExecuteAddNode, AddNode
  <2>3. reply' = AddReply
    BY <2>1, <2>2 DEF ExecuteAddNode, Done, AddReply
  <2>4. LiveIds(disk') = LiveIds(file)
    BY <1>1, <2>2, AppendLive
  <2>5. \E p : p \notin LiveIds(file) /\ LiveIds(file') = LiveIds(file) \cup {p}
    BY <2>1, AddNodeStep
  <2> QED BY <2>2, <2>3, <2>4, <2>5
<1>5. CASE r \in [oper : {"add_edge"}, name : EdgeNames, id1 : NodeIds, id2 : NodeIds]
  <2> DEFINE e == [name |-> r.name, id |-> r.id2]
  <2>1. ExecuteAddEdge(r.name, r.id1, r.id2) /\ r.name \in EdgeNames /\ r.id2 \in Nat
    BY <1>5, BoundsAssumption DEF Start, NodeIds
  <2>2. e \in Edge
    BY <2>1 DEF Edge
  <2>3. OnNode(r.id1, add_edge_page(file, e, r.id1))
    BY <2>1 DEF ExecuteAddEdge, AddEdge
  <2>4. reply' = Text("Add edge") \/ reply' = NoReply
    BY <2>1 DEF ExecuteAddEdge, Done
  <2> HIDE DEF e
  <2>5. disk' = file /\ LiveIds(file') = LiveIds(file)
    BY <1>1, <1>2, <2>2, <2>3, EdgePagesLive
  <2> QED BY <2>4, <2>5, OtherReplies
<1>6. CASE r \in [oper : {"delete_edge"}, id1 : NodeIds, id2 : NodeIds]
  <2>1. ExecuteDeleteEdge(r.id1, r.id2)
    BY <1>6 DEF Start
  <2>2. OnNode(r.id1, delete_edge_page(file, r.id2, r.id1)) \/ Segfault
    BY <2>1 DEF ExecuteDeleteEdge, DeleteEdge
  <2>3. reply' = Text("Delete edge") \/ reply' = NoReply
    BY <2>1 DEF ExecuteDeleteEdge, Done
  <2>4. disk' = file /\ LiveIds(file') = LiveIds(file)
    <3>1. Segfault => disk' = file /\ file' = file
      BY DEF Segfault
    <3>2. Segfault => LiveIds(file') = LiveIds(file)
      BY <3>1
    <3> QED BY <1>1, <1>2, <2>2, <3>1, <3>2, EdgePagesLive
  <2> QED BY <2>3, <2>4, OtherReplies
<1>7. CASE r \in [oper : {"select"}, name : NodeNames \cup {AnyName}, statements : Pipelines]
  <2>1. Select(r.name, r.statements)
    BY <1>7 DEF Start
  <2>2. disk' = file /\ file' = file /\ reply' = NoReply
    BY <2>1 DEF Select, Flush
  <2>3. LiveIds(file') = LiveIds(file)
    BY <2>2
  <2> QED BY <2>2, <2>3, OtherReplies
<1> QED BY <1>3, <1>4, <1>5, <1>6, <1>7 DEF Request

(* A step that loses no node but those that kills account for, and answers *)
(* no more add_nodes than before.                                          *)
LEMMA KeptStill ==
  ASSUME JInv, JInv', Typed, Typed', Serving, Kept, kills' \in Nat,
         NoDelete' => /\ NoDelete
                      /\ Added' \cup Pending' \subseteq Added \cup Pending
                      /\ Live(file) + kills <= Live(file') + kills'
                      /\ Live(file') <= Live(disk') + 1
  PROVE  Kept'
<1> SUFFICES ASSUME NoDelete'
             PROVE  /\ Cardinality(Added' \cup Pending') <= Live(file') + kills'
                    /\ Live(file') <= Live(disk') + 1
  BY DEF Kept
<1>1. /\ IsFiniteSet(Added \cup Pending) /\ Cardinality(Added \cup Pending) \in Nat
      /\ Live(file) \in Nat /\ kills \in Nat
  <2>1. Added \cup Pending \in SUBSET Clients
    BY DEF Added, Pending, Typed
  <2> QED BY <2>1, CountClients, CountPages DEF Serving, JInv, Inv
<1>2. Cardinality(Added' \cup Pending') \in Nat /\ Live(file') \in Nat
  <2>1. Added' \cup Pending' \in SUBSET Clients
    BY DEF Added, Pending, Typed
  <2> QED BY <2>1, CountClients, CountPages DEF JInv, Inv
<1>3. Cardinality(Added' \cup Pending') <= Cardinality(Added \cup Pending)
  BY <1>1, FS_Subset
<1>4. Cardinality(Added \cup Pending) <= Live(file) + kills
  BY DEF Kept
<1> QED BY <1>1, <1>2, <1>3, <1>4

(* A process that has ended answers nobody any more.                       *)
LEMMA EndAnswers ==
  ASSUME ConnectionsEnd
  PROVE  Added' = Added /\ Pending' = {} /\ (kills' \in Nat /\ Serving => Serving')
<1>1. answer' = answer /\ server' = "accept"
  BY DEF ConnectionsEnd
<1> QED BY <1>1 DEF Added, Pending, Serving

(* Both copies of the file are the one that the process worked on.         *)
LEMMA SameLive ==
  ASSUME JInv, file' = file, disk' = file \/ disk' = disk, Kept
  PROVE  Live(file') = Live(file) /\ (NoDelete => Live(file') <= Live(disk') + 1)
<1>1. Live(file) \in Nat
  BY CountPages DEF JInv, Inv
<1>2. CASE disk' = file
  BY <1>1, <1>2
<1>3. CASE disk' = disk
  BY <1>3 DEF Kept
<1> QED BY <1>2, <1>3

(* The process is ended: by a kill, which is counted, or by main.          *)
LEMMA EndKept ==
  ASSUME JInv, JInv', Typed, Typed', Serving, Kept, AcceptFails \/ Overflow \/ KillServer
  PROVE  Serving' /\ Kept'
<1>1. ConnectionsEnd /\ sent' = sent
  BY DEF AcceptFails, Overflow, KillServer, clientVars
<1>2. NoDelete' = NoDelete /\ Added' \cup Pending' \subseteq Added \cup Pending
  BY <1>1, EndAnswers DEF NoDelete
<1>3. kills \in Nat
  BY DEF Serving
<1>4. Live(file) \in Nat /\ Live(disk) \in Nat
  BY CountPages DEF JInv, Inv
<1>5. CASE AcceptFails
  <2>1. file' = file /\ disk' = file /\ kills' = kills
    BY <1>5 DEF AcceptFails, Exit, history
  <2>2. Live(file') = Live(file) /\ (NoDelete => Live(file') <= Live(disk') + 1)
    BY <2>1, SameLive
  <2>3. Live(file) + kills <= Live(file') + kills'
    BY <1>3, <1>4, <2>1, <2>2
  <2>4. Kept'
    BY <1>2, <1>3, <2>1, <2>2, <2>3, KeptStill
  <2> QED BY <1>1, <1>3, <2>1, <2>4, EndAnswers
<1>6. CASE Overflow \/ KillServer
  <2>1. file' = disk /\ disk' = disk /\ kills' = kills + 1
    BY <1>6 DEF Overflow, KillServer, Kill
  <2>2. Live(file') = Live(disk) /\ Live(disk') = Live(disk)
    BY <2>1
  <2>3. NoDelete => Live(file) <= Live(disk) + 1
    BY DEF Kept
  <2>4. kills' \in Nat /\ Live(file') <= Live(disk') + 1
        /\ (NoDelete => Live(file) + kills <= Live(file') + kills')
    BY <1>3, <1>4, <2>1, <2>2, <2>3
  <2>5. Kept'
    BY <1>2, <2>4, KeptStill
  <2> QED BY <1>1, <2>4, <2>5, EndAnswers
<1> QED BY <1>5, <1>6

(* A statement writes nothing, unless it deletes.                          *)
LEMMA StatementKept ==
  ASSUME JInv, JInv', SInv, SInv', Serving, Kept, ExecuteStatement
  PROVE  Serving' /\ Kept'
<1>1. /\ server = "run" /\ sent' = sent /\ kills' = kills
      /\ Filter \/ FilterByReference \/ Out \/ DeleteOne \/ DeleteEnd \/ Respond
      /\ IF up' THEN UNCHANGED <<kernel, process>> ELSE ConnectionsEnd
  BY DEF ExecuteStatement, clientVars, history
<1>2. kills \in Nat /\ Typed /\ Typed'
  BY DEF Serving, SInv
<1>3. NoDelete' = NoDelete
  BY <1>1 DEF NoDelete
<1>4. req' = req
  BY <1>1 DEF Filter, FilterByReference, Out, DeleteOne, DeleteEnd, Respond
<1>5. reply' = reply \/ \E s : reply' = Nodes(s)
  BY <1>1 DEF Filter, FilterByReference, Out, DeleteOne, DeleteEnd, Respond
<1>6. Serving' /\ Added' \cup Pending' \subseteq Added \cup Pending
  <2>1. CASE up'
    <3>1. answer' = answer /\ server' = server /\ conn' = conn
      BY <1>1, <2>1 DEF kernel, process
    <3>2. reply' = AddReply => reply = AddReply
      BY <1>5, OtherReplies
    <3> QED BY <1>1, <1>2, <1>4, <3>1, <3>2 DEF Serving, Added, Pending
  <2>2. CASE ~up'
    BY <1>1, <1>2, <2>2, EndAnswers
  <2> QED BY <2>1, <2>2
<1>7. DeleteOne => ~NoDelete
  <2> SUFFICES ASSUME DeleteOne
               PROVE  ~NoDelete
    OBVIOUS
  <2>1. k > 0 /\ k \in DOMAIN req.statements /\ req.statements[k].type = DELETE
    BY DEF DeleteOne, Running
  <2>2. req.oper = "select"
    BY <2>1 DEF JInv, Selecting
  <2>3. conn \in Clients /\ sent[conn] = <<req>>
    BY <1>1, <1>2, <2>2 DEF Serving, Typed
  <2>4. DeletesAll(req)
    BY <2>1, <2>2 DEF DeletesAll, Range
  <2> QED BY <2>3, <2>4 DEF NoDelete
<1>8. NoDelete => file' = file /\ (disk' = file \/ disk' = disk)
  BY <1>1, <1>7 DEF Filter, FilterByReference, Out, DeleteEnd, Respond, Flush, Segfault, vars
<1>9. NoDelete => /\ Live(file) + kills <= Live(file') + kills'
                  /\ Live(file') <= Live(disk') + 1
  <2> SUFFICES ASSUME NoDelete
               PROVE  /\ Live(file) + kills <= Live(file') + kills'
                      /\ Live(file') <= Live(disk') + 1
    OBVIOUS
  <2>1. Live(file') = Live(file) /\ Live(file') <= Live(disk') + 1
    BY <1>8, SameLive
  <2> QED BY <1>1, <1>2, <2>1, CountPages DEF JInv, Inv
<1> QED BY <1>1, <1>2, <1>3, <1>6, <1>9, KeptStill

(* An executed request adds at most the node it was sent for.              *)
LEMMA ExecuteKept ==
  ASSUME JInv, JInv', SInv, SInv', Serving, Kept, Execute
  PROVE  Serving' /\ Kept'
<1>1. /\ server = "read" /\ Start(Received) /\ sent' = sent /\ kills' = kills
      /\ IF up' THEN server' = "run" /\ UNCHANGED <<kernel, conn, fds, bound, smashed>>
                ELSE ConnectionsEnd
  BY DEF Execute, clientVars
<1>2. conn \in Clients /\ Typed /\ Typed' /\ kills \in Nat
  BY <1>1 DEF SInv, Typed, Serving
<1>3. /\ Received \in Request /\ req' = Received
      /\ Received.oper # "none" => <<Received>> = sent[conn]
  BY <1>1, <1>2, ReceivedRequest, StartStep
<1>4. Serving'
  <2>1. CASE up'
    BY <1>1, <1>3, <2>1 DEF Serving, kernel
  <2>2. CASE ~up'
    BY <1>1, <1>2, <2>2, EndAnswers
  <2> QED BY <2>1, <2>2
<1>5. NoDelete' = NoDelete /\ Pending = {}
  BY <1>1 DEF NoDelete, Pending
<1>6. /\ LiveIds(disk') = LiveIds(file) \/ UNCHANGED <<file, disk>>
      /\ \/ /\ up' /\ reply' = AddReply
            /\ \E p : p \notin LiveIds(file) /\ LiveIds(file') = LiveIds(file) \cup {p}
         \/ reply' # AddReply /\ LiveIds(file') = LiveIds(file)
  BY <1>1, <1>3, StartLive
<1>7. Live(file) \in Nat /\ IsFiniteSet(LiveIds(file))
  BY CountPages DEF JInv, Inv
<1>8. Added' = Added
  <2>1. answer' = answer
    BY <1>1 DEF kernel, ConnectionsEnd
  <2> QED BY <2>1 DEF Added
<1>9. CASE reply' # AddReply /\ LiveIds(file') = LiveIds(file)
  <2>1. Added' \cup Pending' \subseteq Added \cup Pending
    BY <1>8, <1>9 DEF Pending
  <2>2. Live(file') = Live(file)
    BY <1>9 DEF Live
  <2>3. NoDelete => Live(file') <= Live(disk') + 1
    <3>1. CASE LiveIds(disk') = LiveIds(file)
      <4>1. Live(disk') = Live(file)
        BY <3>1 DEF Live
      <4> QED BY <1>7, <2>2, <4>1
    <3>2. CASE UNCHANGED <<file, disk>>
      BY <3>2 DEF Kept
    <3> QED BY <1>6, <3>1, <3>2
  <2>4. Live(file) + kills <= Live(file') + kills'
    BY <1>1, <1>2, <1>7, <2>2
  <2> QED BY <1>1, <1>2, <1>4, <1>5, <2>1, <2>3, <2>4, KeptStill
<1>10. CASE /\ up' /\ reply' = AddReply
            /\ \E p : p \notin LiveIds(file) /\ LiveIds(file') = LiveIds(file) \cup {p}
  <2>1. PICK p : p \notin LiveIds(file) /\ LiveIds(file') = LiveIds(file) \cup {p}
    BY <1>10
  <2>2. Live(file') = Live(file) + 1
    BY <1>7, <2>1, FS_AddElement DEF Live
  <2>3. Pending' = {conn}
    BY <1>1, <1>10 DEF Pending
  <2>4. Added \in SUBSET Clients
    BY DEF Added
  <2>5. IsFiniteSet(Added) /\ Cardinality(Added) \in Nat
    BY <2>4, CountClients
  <2>6. Cardinality(Added' \cup Pending') <= Cardinality(Added) + 1
    BY <1>8, <2>3, <2>5, FS_AddElement
  <2>7. Cardinality(Added' \cup Pending') \in Nat
    BY <1>2, <1>8, <2>3, <2>4, CountClients
  <2>8. NoDelete => Cardinality(Added) <= Live(file) + kills
    BY <1>5 DEF Kept
  <2>9. Live(disk') = Live(file)
    <3>1. LiveIds(file') # LiveIds(file)
      BY <2>1
    <3>2. LiveIds(disk') = LiveIds(file)
      BY <1>6, <3>1
    <3> QED BY <3>2 DEF Live
  <2>10. NoDelete => Cardinality(Added' \cup Pending') <= Live(file') + kills'
    BY <1>1, <1>2, <1>7, <2>2, <2>5, <2>6, <2>7, <2>8
  <2>11. Live(file') <= Live(disk') + 1
    BY <1>7, <2>2, <2>9
  <2> QED BY <1>4, <1>5, <2>10, <2>11 DEF Kept
<1> QED BY <1>6, <1>9, <1>10

(* What was about to be answered is answered.                              *)
LEMMA WriteKept ==
  ASSUME JInv, JInv', SInv, SInv', Serving, Kept, WriteAnswer
  PROVE  Serving' /\ Kept'
<1>1. /\ server = "run" /\ server' = "accept"
      /\ sent' = sent /\ kills' = kills /\ file' = file /\ disk' = disk
      /\ \/ answer' = [answer EXCEPT ![conn] = <<IF TooLong THEN Text("cut off") ELSE reply>>]
         \/ answer' = answer
  BY DEF WriteAnswer, all, vars, clientVars, history
<1>2. Typed /\ Typed' /\ kills \in Nat /\ answer = [c \in Clients |-> answer[c]]
  BY DEF SInv, Serving
<1>3. answer' = [c \in Clients |-> answer'[c]]
  BY <1>1, <1>2
<1>4. Serving'
  BY <1>1, <1>2, <1>3 DEF Serving
<1>5. NoDelete' = NoDelete
  BY <1>1 DEF NoDelete
<1>6. Added' \cup Pending' \subseteq Added \cup Pending
  <2>1. Pending' = {}
    BY <1>1 DEF Pending
  <2>2. ASSUME NEW c \in Clients, answer'[c] = <<AddReply>>
        PROVE  c \in Added \cup Pending
    <3>1. CASE answer'[c] = answer[c]
      BY <2>2, <3>1 DEF Added
    <3>2. CASE answer'[c] # answer[c]
      <4>1. c = conn /\ answer'[c] = <<IF TooLong THEN Text("cut off") ELSE reply>>
        BY <1>1, <1>2, <3>2
      <4> DEFINE it == IF TooLong THEN Text("cut off") ELSE reply
      <4>2. it = AddReply
        <5>1. answer'[c] = <<it>>
          BY <4>1
        <5> HIDE DEF it
        <5> QED BY <2>2, <5>1
      <4>3. reply = AddReply
        BY <4>2, OtherReplies
      <4> QED BY <1>1, <4>1, <4>3 DEF Pending
    <3> QED BY <3>1, <3>2
  <2> QED BY <2>1, <2>2 DEF Added
<1>7. Live(file) + kills <= Live(file') + kills'
  <2>1. Live(file) \in Nat
    BY CountPages DEF JInv, Inv
  <2>2. Live(file') = Live(file)
    BY <1>1
  <2>3. kills \in Nat /\ kills' = kills
    BY <1>1, <1>2
  <2> QED BY <2>1, <2>2, <2>3
<1>8. NoDelete => Live(file') <= Live(disk') + 1
  BY <1>1 DEF Kept
<1> QED BY <1>1, <1>2, <1>4, <1>5, <1>6, <1>7, <1>8, KeptStill

(* What the clients do, and the kernel, changes no node and no answer.     *)
LEMMA OthersKept ==
  ASSUME JInv, JInv', SInv, SInv', Serving, Kept,
         \/ Accept \/ StartServer \/ PortFree \/ UNCHANGED sys
         \/ \E c \in Clients : Connect(c) \/ Leave(c) \/ ReadAnswer(c)
         \/ \E c \in Clients, r \in Commands : Send(c, r)
  PROVE  Serving' /\ Kept'
<1>1. Typed /\ Typed' /\ kills \in Nat
  BY DEF SInv, Serving
<1>2. /\ answer' = answer /\ kills' = kills
      /\ sent' = sent \/ \E c \in Clients : pc[c] = "typing" /\ \E r \in Commands :
                            sent' = [sent EXCEPT ![c] = <<r>>]
  BY DEF Accept, StartServer, PortFree, sys, Connect, Leave, ReadAnswer, Send, clientVars,
         kernel, process, history
<1>3. \/ UNCHANGED <<server, conn, req, reply>>
      \/ server' = "read"
      \/ req'.oper = "none" /\ reply' = NoReply
  BY DEF Accept, StartServer, PortFree, sys, Connect, Leave, ReadAnswer, Send, clientVars,
         kernel, process, history, all, Restart, NoRequest
<1>4. file' = file /\ disk' = disk
  <2>1. StartServer => file' = file /\ disk' = disk
    BY DEF StartServer, Restart, start_database, JInv, Inv
  <2> QED BY <2>1 DEF Accept, PortFree, sys, Connect, Leave, ReadAnswer, Send, all, vars
<1>5. \A c \in Clients : sent[c] = << >> \/ sent'[c] = sent[c]
  BY <1>1, <1>2 DEF Typed, SInv, Turns
<1>6. NoDelete' => NoDelete
  BY <1>5 DEF NoDelete
<1>7. Serving'
  <2>1. conn = NoClient \/ conn \in Clients
    BY <1>1 DEF Typed
  <2>2. CASE UNCHANGED <<server, conn, req, reply>>
    <3>1. server = "run" => conn \in Clients
      BY <1>1 DEF Typed
    <3>2. server = "run" /\ req.oper # "none" => sent[conn] # << >> /\ <<req>> = sent[conn]
      BY DEF Serving
    <3> QED BY <1>1, <1>2, <1>5, <2>2, <3>1, <3>2 DEF Serving
  <2>3. CASE server' = "read" \/ req'.oper = "none"
    BY <1>1, <1>2, <2>3 DEF Serving
  <2> QED BY <1>3, <2>2, <2>3
<1>8. Added' \cup Pending' \subseteq Added \cup Pending
  BY <1>2, <1>3, OtherReplies DEF Added, Pending
<1>9. Live(file) + kills <= Live(file') + kills'
  <2>1. Live(file) \in Nat
    BY CountPages DEF JInv, Inv
  <2>2. Live(file') = Live(file)
    BY <1>4
  <2> QED BY <1>1, <1>2, <2>1, <2>2
<1>10. NoDelete => Live(file') <= Live(disk') + 1
  BY <1>4 DEF Kept
<1> QED BY <1>1, <1>2, <1>6, <1>7, <1>8, <1>9, <1>10, KeptStill

(* What is kept, and whom is served, is so of every reachable state.       *)
LEMMA AlwaysServing == SSpec => [](Serving /\ Kept)
<1>1. SInit => Serving /\ Kept
  <2> SUFFICES ASSUME SInit
               PROVE  Serving /\ Kept
    OBVIOUS
  <2>1. /\ file = << >> /\ disk = << >> /\ kills = 0 /\ server = "accept"
        /\ answer = [c \in Clients |-> << >>]
    BY DEF SInit, JInit, Init
  <2>2. Added = {} /\ Pending = {}
    BY <2>1 DEF Added, Pending
  <2>3. Live(<< >>) = 0
    <3>1. LiveIds(<< >>) = {}
      BY EmptySeq DEF LiveIds, Ids
    <3> QED BY <3>1, FS_EmptySet DEF Live
  <2>4. Cardinality(Added \cup Pending) = 0
    BY <2>2, FS_EmptySet
  <2> QED BY <2>1, <2>3, <2>4 DEF Serving, Kept
<1>2. JInv /\ JInv' /\ SInv /\ SInv' /\ Serving /\ Kept /\ [SNext]_sys => Serving' /\ Kept'
  BY EndKept, StatementKept, ExecuteKept, WriteKept, OthersKept DEF SNext, ServerStep, SInv
<1> QED BY <1>1, <1>2, SystemRunsRequests, AlwaysJInv, AlwaysSInv, PTL DEF SSpec

(* With as many nodes as answers at every point between the two, what was  *)
(* answered can only be lost with a process that is killed: one node each. *)
THEOREM LostByKillsAlone == SSpec => []LostByKillsOnly
<1>3. SInv /\ Kept /\ Serving /\ JInv => LostByKillsOnly
  <2> SUFFICES ASSUME SInv, Kept, Serving, JInv, NoDelete
               PROVE  Cardinality(Added) <= Live(file) + kills
    BY DEF NoDelete, LostByKillsOnly, Added, AddReply, Live
  <2>1. Added \cup Pending \in SUBSET Clients
    BY DEF Added, Pending, SInv, Typed
  <2>2. /\ IsFiniteSet(Added \cup Pending) /\ Cardinality(Added \cup Pending) \in Nat
        /\ Cardinality(Added) \in Nat
    BY <2>1, CountClients
  <2>3. Cardinality(Added) <= Cardinality(Added \cup Pending)
    BY <2>2, FS_Subset
  <2>4. Live(file) \in Nat /\ kills \in Nat
    BY CountPages DEF JInv, Inv, Serving
  <2> QED BY <2>2, <2>3, <2>4 DEF Kept
<1> QED BY <1>3, AlwaysServing, SystemRunsRequests, AlwaysJInv, AlwaysSInv, PTL

-----------------------------------------------------------------------------
(* What requests leave.                                                    *)

NameLists == Seq(NodeNames)

NameStep(names, r) == CASE r.oper = "add_node" -> Append(names, r.node.name)
                        [] DeletesAll(r)       -> << >>
                        [] OTHER               -> names

(* The names that the first n requests executed leave. *)
Left(s, n) == NamesAfter([m \in 1 .. n |-> s[m].request])

(* A request makes a list of names of one.                                 *)
LEMMA NameStepType ==
  ASSUME NEW names \in NameLists, NEW r \in Request
  PROVE  NameStep(names, r) \in NameLists
<1>1. << >> \in NameLists
  BY EmptySeq DEF NameLists
<1>2. CASE r.oper = "add_node"
  <2>1. r \in [oper : {"add_node"}, node : NodeInputs]
    BY <1>2 DEF Request
  <2>2. r.node.name \in NodeNames
    BY <2>1 DEF NodeInputs
  <2>3. Append(names, r.node.name) \in NameLists
    BY <2>2 DEF NameLists
  <2> QED BY <1>2, <2>3 DEF NameStep, DeletesAll
<1>3. CASE r.oper # "add_node"
  BY <1>1, <1>3 DEF NameStep
<1> QED BY <1>2, <1>3

NameSteps(rs) == [n \in 1 .. Len(rs) |-> [names \in NameLists |-> NameStep(names, rs[n])]]

(* The names that requests leave are the end of a row of lists of names.   *)
LEMMA NameFolds ==
  ASSUME NEW rs \in Seq(Request)
  PROVE  /\ << >> \in NameLists
         /\ NameSteps(rs) \in [1 .. Len(rs) -> [NameLists -> NameLists]]
         /\ \E it : /\ FoldsIn(it, Len(rs), NameLists, << >>, NameSteps(rs))
                    /\ NamesAfter(rs) = it[1 .. Len(rs)]
<1> DEFINE N == Len(rs)
           F == NameSteps(rs)
           Step(h, u) == IF u = {} THEN << >> ELSE NameStep(h[u \ {Max(u)}], rs[Max(u)])
           it == CHOOSE it : it = [u \in SUBSET (1 .. N) |-> Step(it, u)]
<1>1. N \in Nat /\ DOMAIN rs = 1 .. N /\ \A n \in 1 .. N : rs[n] \in Request
  BY LenProperties, ElementOfSeq
<1>2. << >> \in NameLists
  BY EmptySeq DEF NameLists
<1>3. F \in [1 .. N -> [NameLists -> NameLists]]
  BY <1>1, NameStepType DEF NameSteps
<1>4. NamesAfter(rs) = it[1 .. N]
  BY <1>1 DEF NamesAfter, FoldLeft, MapThenFoldSet, NameStep
<1>5. \A n \in 1 .. N : \A names \in NameLists : F[n][names] = NameStep(names, rs[n])
  BY DEF NameSteps
<1> HIDE DEF N, F
<1>6. \E h : IsFold(h, N, NameLists, << >>, F)
  BY <1>1, <1>2, <1>3, FoldExists
<1>7. \A u \in SUBSET (1 .. N) : u # {} => Max(u) \in 1 .. N /\ u \ {Max(u)} \in SUBSET (1 .. N)
  BY <1>1, MaxProperty
<1>8. PICK h : h = [u \in SUBSET (1 .. N) |-> Step(h, u)]
  <2>1. PICK h : IsFold(h, N, NameLists, << >>, F)
    BY <1>6
  <2>2. \A u \in SUBSET (1 .. N) : u # {} => h[u] = NameStep(h[u \ {Max(u)}], rs[Max(u)])
    BY <1>5, <1>7, <2>1 DEF IsFold
  <2>3. h = [u \in SUBSET (1 .. N) |-> Step(h, u)]
    BY <2>1, <2>2 DEF IsFold
  <2> QED BY <2>3
<1> HIDE DEF Step
<1>9. it = [u \in SUBSET (1 .. N) |-> Step(it, u)]
  BY <1>8
<1> HIDE DEF it
<1>10. FoldsIn(it, N, NameLists, << >>, F)
  BY <1>5, <1>7, <1>9 DEF Step, FoldsIn
<1> QED BY <1>2, <1>3, <1>4, <1>10 DEF N, F

(* One request more changes the names that were left by itself.            *)
LEMMA NamesAfterMore ==
  ASSUME NEW rs \in Seq(Request), NEW r \in Request
  PROVE  /\ NamesAfter(rs) \in NameLists
         /\ NamesAfter(Append(rs, r)) = NameStep(NamesAfter(rs), r)
<1> DEFINE N == Len(rs)
           s == Append(rs, r)
           F == NameSteps(rs)
           H == NameSteps(s)
<1>1. N \in Nat /\ DOMAIN rs = 1 .. N
  BY LenProperties
<1>2. s \in Seq(Request) /\ Len(s) = N + 1 /\ s[N + 1] = r /\ \A n \in 1 .. N : s[n] = rs[n]
  BY <1>1
<1> HIDE DEF s, N
<1>3. PICK it : FoldsIn(it, N, NameLists, << >>, F) /\ NamesAfter(rs) = it[1 .. N]
  BY NameFolds DEF N
<1>4. PICK next : FoldsIn(next, N + 1, NameLists, << >>, H) /\ NamesAfter(s) = next[1 .. N + 1]
  BY <1>2, NameFolds
<1>5. << >> \in NameLists /\ F \in [1 .. N -> [NameLists -> NameLists]]
  BY NameFolds DEF N
<1>6. H \in [1 .. N + 1 -> [NameLists -> NameLists]]
  BY <1>2, NameFolds
<1>7. \A n \in 1 .. N : F[n] = H[n]
  <2>1. \A n \in 1 .. N : n \in 1 .. N + 1
    BY <1>1
  <2> QED BY <1>2, <2>1 DEF NameSteps, N
<1>8. \A names \in NameLists : H[N + 1][names] = NameStep(names, r)
  <2>1. N + 1 \in 1 .. N + 1
    BY <1>1
  <2> QED BY <1>2, <2>1 DEF NameSteps
<1> HIDE DEF F, H
<1>9. OneStepMore(N, NameLists, F, H)
  BY <1>5, <1>6, <1>7 DEF OneStepMore
<1>10. Continues(next, it, N, NameLists, H)
  BY <1>1, <1>3, <1>4, <1>5, <1>9, FoldAppend
<1> QED BY <1>3, <1>4, <1>8, <1>10 DEF Continues, s

(* Where nothing has been executed, nothing is left.                       *)
LEMMA NamesAfterNone == NamesAfter(<< >>) = << >>
<1>1. << >> \in Seq(Request) /\ Len(<< >>) = 0
  BY EmptySeq
<1>2. PICK it : /\ FoldsIn(it, Len(<< >>), NameLists, << >>, NameSteps(<< >>))
                /\ NamesAfter(<< >>) = it[1 .. Len(<< >>)]
  BY <1>1, NameFolds
<1>3. 1 .. Len(<< >>) = {}
  BY <1>1
<1> QED BY <1>2, <1>3 DEF FoldsIn

Runs == Seq([client : Clients, request : Request])

(* What is left after n of the requests executed does not depend on those  *)
(* that follow.                                                            *)
LEMMA LeftSteps ==
  ASSUME NEW s \in Runs, NEW it \in [client : Clients, request : Request]
  PROVE  /\ Len(s) \in Nat
         /\ Left(s, 0) = << >>
         /\ \A n \in 0 .. Len(s) : /\ Left(s, n) \in NameLists
                                   /\ Left(Append(s, it), n) = Left(s, n)
         /\ Left(Append(s, it), Len(s) + 1) = NameStep(Left(s, Len(s)), it.request)
<1> DEFINE N == Len(s)
           t == Append(s, it)
           Of(u, n) == [m \in 1 .. n |-> u[m].request]
<1>1. N \in Nat /\ \A m \in 1 .. N : s[m] \in [client : Clients, request : Request]
  BY LenProperties, ElementOfSeq DEF Runs
<1>2. t[N + 1] = it /\ \A m \in 1 .. N : t[m] = s[m]
  BY <1>1 DEF Runs
<1> HIDE DEF t, N
<1>3. ASSUME NEW n \in 0 .. N
      PROVE  Of(s, n) \in Seq(Request) /\ Len(Of(s, n)) = n /\ Of(t, n) = Of(s, n)
  <2>1. n \in Nat /\ \A m \in 1 .. n : m \in 1 .. N
    BY <1>1
  <2>2. Of(s, n) \in [1 .. n -> Request]
    BY <1>1, <2>1
  <2>3. Of(t, n) = Of(s, n)
    BY <1>2, <2>1
  <2> QED BY <2>1, <2>2, <2>3
<1>4. Of(s, 0) = << >>
  <2>1. 0 \in 0 .. N
    BY <1>1
  <2> QED BY <1>3, <2>1, EmptySeq
<1>5. Of(t, N + 1) = Append(Of(s, N), it.request)
  <2>1. N \in 0 .. N
    BY <1>1
  <2>2. Of(s, N) \in Seq(Request) /\ Len(Of(s, N)) = N /\ it.request \in Request
    BY <1>3, <2>1
  <2>3. Append(Of(s, N), it.request) =
          [m \in 1 .. N + 1 |-> IF m = N + 1 THEN it.request ELSE Of(s, N)[m]]
    BY <1>1, <2>2
  <2>4. \A m \in 1 .. N + 1 : m # N + 1 => m \in 1 .. N
    BY <1>1
  <2> QED BY <1>2, <2>3, <2>4
<1>6. it.request \in Request /\ N \in 0 .. N
  BY <1>1
<1>7. \A n \in 0 .. N : NamesAfter(Of(s, n)) \in NameLists
  BY <1>3, <1>6, NamesAfterMore
<1>8. NamesAfter(Of(t, N + 1)) = NameStep(NamesAfter(Of(s, N)), it.request)
  <2> DEFINE rs == Of(s, N)
  <2>1. rs \in Seq(Request)
    BY <1>3, <1>6
  <2> HIDE DEF rs
  <2>2. NamesAfter(Append(rs, it.request)) = NameStep(NamesAfter(rs), it.request)
    BY <1>6, <2>1, NamesAfterMore
  <2> QED BY <1>5, <2>2 DEF rs
<1> QED BY <1>1, <1>3, <1>4, <1>7, <1>8, NamesAfterNone DEF Left, N, t

(* The pages of f from a certain one on hold nodes of these names.         *)
Stores(f, from, names) ==
  /\ LiveIds(f) = from .. Len(names) - 1
  /\ \A p \in LiveIds(f) : f[p + 1].name = names[p + 1]

(* A new node comes behind the others, since the pages behind are empty.   *)
LEMMA StoresAdded ==
  ASSUME NEW f, GoodFile(f), NEW n, Writable(n), NEW names \in NameLists, Stores(f, 0, names)
  PROVE  Stores(create_node_page(f, n), 0, Append(names, n.name))
<1> DEFINE c == Len(names)
           h == create_node_page(f, n)
           more == Append(names, n.name)
<1>1. /\ c \in Nat /\ Len(more) = c + 1 /\ more[c + 1] = n.name
      /\ \A p \in 0 .. c - 1 : more[p + 1] = names[p + 1]
  BY DEF NameLists
<1>2. Len(f) \in Nat /\ f \in Seq(Page) /\ \A p \in Ids(f) : f[p + 1] \in Page
  BY FileType DEF GoodFile
<1>3. LiveIds(f) = 0 .. c - 1 /\ \A p \in LiveIds(f) : f[p + 1].name = names[p + 1]
  BY DEF Stores
<1> HIDE DEF c, more
<1>4. \A p \in Ids(f) : p \in EmptyIds(f) <=> p \notin LiveIds(f)
  <2>1. \A page \in Page : page.type = empty_page <=> page.type # start_node
    BY DEF Page, NodePage, EmptyPage, empty_page, start_node
  <2> QED BY <1>2, <2>1 DEF EmptyIds, LiveIds
<1>5. /\ LiveIds(h) = LiveIds(f) \cup {c}
      /\ h[c + 1].name = n.name
      /\ \A p \in LiveIds(f) : h[p + 1] = f[p + 1]
  <2>1. c \notin LiveIds(f) /\ LiveIds(f) \subseteq Ids(f)
    BY <1>1, <1>3 DEF LiveIds
  <2>2. CASE EmptyIds(f) # {}
    <3> DEFINE q == Min(EmptyIds(f))
    <3>1. EmptyIds(f) \in SUBSET Nat
      BY <1>2 DEF EmptyIds, Ids
    <3>2. q \in EmptyIds(f) /\ \A x \in EmptyIds(f) : q <= x
      BY <2>2, <3>1, MinProperty
    <3>3. h = set_node_page(f, q, n)
      BY <2>2 DEF create_node_page
    <3> HIDE DEF q
    <3>4. q \in Ids(f) /\ q \notin LiveIds(f)
      BY <1>4, <3>2 DEF EmptyIds
    <3>5. q = c
      <4>1. q \in Nat /\ q < Len(f) /\ q >= c
        BY <1>1, <1>2, <1>3, <3>4 DEF Ids
      <4>2. c \in Ids(f)
        BY <1>1, <1>2, <4>1 DEF Ids
      <4>3. q <= c
        BY <1>4, <2>1, <3>2, <4>2
      <4> QED BY <1>1, <4>1, <4>3
    <3>6. /\ LiveIds(h) = LiveIds(f) \cup {q}
          /\ h[q + 1] = [type |-> start_node, id |-> q, name |-> n.name,
                          att |-> n.att, edges |-> n.edges]
          /\ \A p \in Ids(f) \ {q} : h[p + 1] = f[p + 1]
      BY <3>3, <3>4, SetLive
    <3> QED BY <2>1, <3>5, <3>6
  <2>3. CASE EmptyIds(f) = {}
    <3> DEFINE z == Append(f, EmptyPage)
               q == Len(f)
    <3>1. GoodFile(z) /\ LiveIds(z) = LiveIds(f)
      BY AppendPage, AppendLive
    <3>2. Len(z) = q + 1 /\ \A p \in Ids(f) : z[p + 1] = f[p + 1]
      BY <1>2 DEF Ids
    <3>3. h = set_node_page(z, q, n)
      BY <2>3 DEF create_node_page
    <3>4. q = c
      <4>1. \A p \in 0 .. q - 1 : p \in 0 .. c - 1
        BY <1>3, <1>4, <2>3 DEF Ids
      <4>2. \A p \in 0 .. c - 1 : p \in 0 .. q - 1
        BY <1>3, <2>1 DEF Ids
      <4>3. ~ (q < c)
        <5>1. q < c => q \in 0 .. c - 1 /\ q \notin 0 .. q - 1
          BY <1>1, <1>2
        <5> QED BY <4>2, <5>1
      <4>4. ~ (c < q)
        <5>1. c < q => c \in 0 .. q - 1 /\ c \notin 0 .. c - 1
          BY <1>1, <1>2
        <5> QED BY <4>1, <5>1
      <4> QED BY <1>1, <1>2, <4>3, <4>4
    <3>5. q \in Nat
      BY <1>2
    <3> HIDE DEF z, q
    <3>6. q \in Ids(z)
      BY <3>2, <3>5 DEF Ids
    <3>7. /\ LiveIds(h) = LiveIds(z) \cup {q}
          /\ h[q + 1] = [type |-> start_node, id |-> q, name |-> n.name,
                          att |-> n.att, edges |-> n.edges]
          /\ \A p \in Ids(z) \ {q} : h[p + 1] = z[p + 1]
      BY <3>1, <3>3, <3>6, SetLive
    <3>8. \A p \in LiveIds(f) : p \in Ids(z) \ {q} /\ p \in Ids(f)
      BY <2>1, <3>1, <3>4 DEF LiveIds
    <3> QED BY <3>1, <3>2, <3>4, <3>7, <3>8
  <2> QED BY <2>2, <2>3
<1> HIDE DEF h
<1>6. LiveIds(h) = 0 .. Len(more) - 1
  <2>1. 0 .. (c + 1) - 1 = (0 .. c - 1) \cup {c}
    BY <1>1
  <2> QED BY <1>1, <1>3, <1>5, <2>1
<1>7. \A p \in LiveIds(h) : h[p + 1].name = more[p + 1]
  BY <1>1, <1>3, <1>5
<1> QED BY <1>6, <1>7 DEF Stores, h, more

(* An operation on edges leaves the nodes where they are, and their names. *)
LEMMA StoresEdges ==
  ASSUME NEW f, GoodFile(f), NEW id, NEW from, NEW names, Stores(f, from, names), Found(f, id)
  PROVE  /\ \A e : Stores(add_edge_page(f, e, id), from, names)
         /\ \A target : Stores(delete_edge_page(f, target, id), from, names)
<1> DEFINE n == get_node_page(f, id)
           v == n.id
<1>1. /\ v \in LiveIds(f) /\ n.name = f[v + 1].name
      /\ n = [id |-> v, name |-> n.name, att |-> n.att, edges |-> n.edges]
  <2>1. PICK p \in LiveIds(f) : n = page_to_node(f[p + 1]) /\ n.id = p
    BY LookupPage
  <2> QED BY <2>1 DEF page_to_node
<1>2. v \in Ids(f)
  BY <1>1 DEF LiveIds
<1>3. ASSUME NEW edges
      PROVE  Stores(set_node_page(f, v, [n EXCEPT !.edges = edges]), from, names)
  <2> DEFINE m == [n EXCEPT !.edges = edges]
             h == set_node_page(f, v, m)
  <2>1. m.name = n.name
    BY <1>1
  <2> HIDE DEF m, n, v
  <2>2. /\ LiveIds(h) = LiveIds(f) \cup {v}
        /\ h[v + 1] = [type |-> start_node, id |-> v, name |-> m.name,
                        att |-> m.att, edges |-> m.edges]
        /\ \A p \in Ids(f) \ {v} : h[p + 1] = f[p + 1]
    BY <1>2, SetLive
  <2> HIDE DEF h
  <2>3. LiveIds(h) = LiveIds(f)
    BY <1>1, <2>2
  <2>4. \A p \in LiveIds(f) : h[p + 1].name = f[p + 1].name
    BY <1>1, <2>1, <2>2 DEF LiveIds
  <2>5. Stores(h, from, names)
    BY <2>3, <2>4 DEF Stores
  <2> QED BY <2>5 DEF h, m
<1> QED BY <1>3 DEF add_edge_page, delete_edge_page

(* Deleting the first of the nodes that are left leaves those behind it.   *)
LEMMA StoresDeleted ==
  ASSUME NEW f, GoodFile(f), Len(f) <= CharRange, NEW from \in Nat, NEW names \in NameLists,
         Stores(f, from, names), from < Len(names)
  PROVE  Found(f, from) /\ Stores(delete_node_page(f, from), from + 1, names)
<1> DEFINE h == delete_node_page(f, from)
           c == Len(names)
<1>1. /\ c \in Nat /\ LiveIds(f) = from .. c - 1
      /\ \A p \in LiveIds(f) : f[p + 1].name = names[p + 1]
  BY DEF NameLists, Stores
<1> HIDE DEF c
<1>2. from \in LiveIds(f) /\ Len(f) \in Nat
  BY <1>1, FileType DEF c
<1>3. from < CharRange
  BY <1>2, CharRangeAssumption DEF LiveIds, Ids
<1>4. Found(f, from) /\ get_node_page(f, from).id = from
  BY <1>2, <1>3, LowLookup
<1>5. /\ LiveIds(h) = LiveIds(f) \ {from}
      /\ h = [f EXCEPT ![from + 1] = EmptyPage]
  BY <1>4, DeleteLive DEF delete_node_page
<1>6. DOMAIN f = 1 .. Len(f)
  BY FileType
<1> HIDE DEF h
<1>7. \A p \in LiveIds(f) \ {from} : h[p + 1] = f[p + 1]
  <2>1. \A p \in LiveIds(f) \ {from} : p + 1 \in 1 .. Len(f) /\ p + 1 # from + 1
    BY <1>2 DEF LiveIds, Ids
  <2> QED BY <1>5, <1>6, <2>1
<1>8. LiveIds(h) = from + 1 .. c - 1
  BY <1>1, <1>5
<1> QED BY <1>1, <1>4, <1>5, <1>7, <1>8 DEF Stores, h, c

NamesOf(nodes) == [j \in DOMAIN nodes |-> nodes[j].name]

(* The nodes with these names, numbered from 0. *)
Numbers(nodes, names) ==
  /\ NamesOf(nodes) = names
  /\ \A j \in DOMAIN nodes : nodes[j].id = j - 1

(* A scan of the file finds its nodes in that order.                       *)
LEMMA StoresScan ==
  ASSUME GoodFile(file), NEW names \in NameLists, Stores(file, 0, names)
  PROVE  Numbers(find_by_name(AnyName), names)
<1> DEFINE c == Len(names)
           K == 1 .. c
           nodes == find_by_name(AnyName)
<1>1. c \in Nat /\ names = [j \in 1 .. c |-> names[j]] /\ DOMAIN names = 1 .. c
  BY DEF NameLists
<1>2. LiveIds(file) = 0 .. c - 1 /\ \A p \in LiveIds(file) : file[p + 1].name = names[p + 1]
  BY DEF Stores
<1> HIDE DEF c
<1>3. nodes = NodesAt(LiveIds(file))
  <2>1. {p \in LiveIds(file) : AnyName \in {AnyName, file[p + 1].name}} = LiveIds(file)
    OBVIOUS
  <2> QED BY <2>1 DEF find_by_name
<1>4. Numbered(LiveIds(file)) = K
  <2>1. \A x \in K : x - 1 \in 0 .. c - 1 /\ x = (x - 1) + 1
    BY <1>1
  <2>2. \A p \in 0 .. c - 1 : p + 1 \in K
    BY <1>1
  <2> QED BY <1>2, <2>1, <2>2 DEF Numbered
<1>5. Cardinality(K) = c /\ \A j \in K : Rank(K, j) = j
  <2>1. \A n \in Nat : Cardinality(1 .. n) = n
    BY FS_Interval
  <2>2. ASSUME NEW j \in K
        PROVE  Rank(K, j) = j
    <3>1. {x \in K : x <= j} = 1 .. j /\ j \in Nat
      BY <1>1
    <3> QED BY <2>1, <3>1 DEF Rank
  <2> QED BY <1>1, <2>1, <2>2
<1>6. \A j \in K : Kth(K, j) = j
  <2>1. \A j \in K : Kth(K, Rank(K, j)) = j
    BY <1>1, KthRank
  <2> QED BY <1>5, <2>1
<1>7. nodes = [j \in 1 .. c |-> page_to_node(file[j])]
  <2>1. nodes = Listing(K)
    BY <1>3, <1>4, NodesAtListing
  <2> QED BY <1>5, <1>6, <2>1 DEF Listing
<1> HIDE DEF nodes
<1>8. ASSUME NEW j \in 1 .. c
      PROVE  nodes[j].name = names[j] /\ nodes[j].id = j - 1
  <2>1. j - 1 \in LiveIds(file) /\ (j - 1) + 1 = j
    BY <1>1, <1>2
  <2>2. nodes[j] = page_to_node(file[j])
    BY <1>7
  <2>3. file[(j - 1) + 1].id = j - 1 /\ file[(j - 1) + 1].name = names[(j - 1) + 1]
    BY <1>2, <2>1 DEF GoodFile
  <2> QED BY <2>1, <2>2, <2>3 DEF page_to_node
<1>9. DOMAIN nodes = 1 .. c
  BY <1>7
<1>10. NamesOf(nodes) = names
  BY <1>1, <1>8, <1>9 DEF NamesOf
<1> QED BY <1>8, <1>9, <1>10 DEF Numbers, nodes

-----------------------------------------------------------------------------
(* What V() is answered.                                                   *)

(* How many of the nodes selected a running select has deleted.            *)
Deleted(count) ==
  IF req.statements = << >> THEN 0 ELSE IF k = 1 THEN i - 1 ELSE count

(* A select carries the nodes that were there, and has deleted some.       *)
Underway(names) ==
  /\ req.statements \in {<< >>, <<[type |-> DELETE]>>}
  /\ Numbers(g, names)
  /\ Stores(file, Deleted(Len(names)), names)

(* The server executes the last of the requests, for its client.           *)
Replying ==
  /\ Len(ran) > 0 /\ ran[Len(ran)] = [client |-> conn, request |-> req]
  /\ \A j \in 1 .. Len(ran) - 1 : ran[j].client < conn
  /\ k > 0 => Underway(Left(ran, Len(ran) - 1))
  /\ k = 0 => Stores(file, 0, Left(ran, Len(ran)))
  /\ k = 0 => NamesOf(reply.nodes) =
                IF req.oper = "select" THEN Left(ran, Len(ran) - 1) ELSE << >>

(* Answers are to requests executed, and true. *)
Answered ==
  /\ \A c \in Clients : answer[c] # << >> => \E j \in 1 .. Len(ran) : ran[j].client = c
  /\ \A j \in 1 .. Len(ran) :
       LET got == answer[ran[j].client]
       IN  ran[j].request.oper = "select" /\ got # << >> /\ got # <<Text("cut off")>> =>
             NamesOf(got[1].nodes) = Left(ran, j - 1)

(* Between requests, the file holds what the requests have left.           *)
InTurn ==
  kills = 0 =>
    /\ Answered
    /\ up \/ server = "accept"
    /\ server = "run" => Replying
    /\ server # "run" => Stores(file, 0, Left(ran, Len(ran)))

(* What is received is plain if what was sent is.                          *)
LEMMA ReceivedPlain ==
  ASSUME Typed, conn \in Clients, \A r \in Commands : Plain(r)
  PROVE  /\ Plain(Received)
         /\ (\A r \in Commands : r.oper # "delete_edge") => Received.oper # "delete_edge"
<1>1. Plain([oper |-> "none"])
  BY DEF Plain
<1>2. CASE sent[conn] # << >> /\ sent[conn][1].oper # "too_long"
  <2>1. PICK r \in Commands : sent[conn] = <<r>>
    BY <1>2 DEF Typed
  <2>2. Received = r
    BY <1>2, <2>1 DEF Received
  <2> QED BY <2>2
<1>3. CASE ~ (sent[conn] # << >> /\ sent[conn][1].oper # "too_long")
  BY <1>1, <1>3 DEF Received
<1> QED BY <1>2, <1>3

(* The text of a reply is no node. *)
LEMMA NoNodes ==
  /\ NamesOf(NoReply.nodes) = << >> /\ Len(NoReply.nodes) = 0
  /\ \A t : NamesOf(Text(t).nodes) = << >> /\ Len(Text(t).nodes) = 0
  /\ \A s : Nodes(s).nodes = s
<1>1. NoReply.nodes = << >> /\ \A t : Text(t).nodes = << >>
  BY DEF NoReply, Text
<1>2. NamesOf(<< >>) = << >> /\ Len(<< >>) = 0
  BY DEF NamesOf
<1>3. \A s : Nodes(s).nodes = s
  BY DEF Nodes
<1> QED BY <1>1, <1>2, <1>3

(* A request of one database call leaves the names that it should; a       *)
(* select begins with all the nodes there are.                             *)
LEMMA StartNames ==
  ASSUME JInv, NEW r \in Request, Plain(r), Start(r), NEW names \in NameLists,
         Stores(file, 0, names)
  PROVE  /\ r.oper # "select" => /\ Stores(file', 0, NameStep(names, r))
                                 /\ k' = 0 /\ NamesOf(reply'.nodes) = << >>
         /\ r.oper = "select" => /\ k' = 1 /\ i' = 1 /\ file' = file
                                 /\ Numbers(g', names)
         /\ r.oper # "delete_edge" => up'
<1>1. GoodFile(file)
  BY DEF JInv, Inv
<1>2. ASSUME NEW id, NEW h, OnNode(id, h), Found(file, id) => Stores(h, 0, names)
      PROVE  Stores(file', 0, names) /\ up'
  BY <1>2 DEF OnNode, Writes, Flush
<1>3. CASE r \in [oper : {"none"}]
  <2>1. ExecuteNothing /\ r.oper = "none"
    BY <1>3 DEF Start
  <2>2. file' = file /\ k' = 0 /\ up' /\ (reply' = Text("") \/ reply' = NoReply)
    BY <2>1 DEF ExecuteNothing, Ready, Done, vars
  <2>3. NameStep(names, r) = names
    BY <2>1 DEF NameStep, DeletesAll
  <2> QED BY <2>1, <2>2, <2>3, NoNodes
<1>4. CASE r \in [oper : {"add_node"}, node : NodeInputs]
  <2> DEFINE n == r.node
             m == [n EXCEPT !.att = Reverse(n.att)]
  <2>1. ExecuteAddNode(n) /\ n \in NodeInputs /\ r.oper = "add_node"
    BY <1>4 DEF Start
  <2>2. m.name = n.name
    BY <2>1 DEF NodeInputs
  <2> HIDE DEF n
  <2>3. Writable(m)
    BY <2>1, ReversedInput, InputTypes
  <2>4. file' = create_node_page(file, m) /\ up' /\ k' = 0
    BY <2>1 DEF ExecuteAddNode, AddNode, Ready, Done
  <2>5. reply' = Text("Add node")
    BY <2>1, <2>4 DEF ExecuteAddNode, Done
  <2> HIDE DEF m
  <2>6. Stores(file', 0, Append(names, n.name))
    BY <1>1, <2>2, <2>3, <2>4, StoresAdded
  <2>7. NameStep(names, r) = Append(names, n.name)
    BY <2>1 DEF NameStep, DeletesAll, n
  <2> QED BY <2>1, <2>4, <2>5, <2>6, <2>7, NoNodes
<1>5. CASE r \in [oper : {"add_edge"}, name : EdgeNames, id1 : NodeIds, id2 : NodeIds]
  <2> DEFINE e == [name |-> r.name, id |-> r.id2]
  <2>1. ExecuteAddEdge(r.name, r.id1, r.id2) /\ r.oper = "add_edge"
    BY <1>5 DEF Start
  <2>2. OnNode(r.id1, add_edge_page(file, e, r.id1)) /\ k' = 0
    BY <2>1 DEF ExecuteAddEdge, AddEdge, Ready, Done
  <2>3. reply' = Text("Add edge") \/ reply' = NoReply
    BY <2>1 DEF ExecuteAddEdge, Done
  <2> HIDE DEF e
  <2>4. Stores(file', 0, names) /\ up'
    BY <1>1, <1>2, <2>2, StoresEdges
  <2>5. NameStep(names, r) = names
    BY <2>1 DEF NameStep, DeletesAll
  <2> QED BY <2>1, <2>2, <2>3, <2>4, <2>5, NoNodes
<1>6. CASE r \in [oper : {"delete_edge"}, id1 : NodeIds, id2 : NodeIds]
  <2>1. ExecuteDeleteEdge(r.id1, r.id2) /\ r.oper = "delete_edge"
    BY <1>6 DEF Start
  <2>2. (OnNode(r.id1, delete_edge_page(file, r.id2, r.id1)) \/ Segfault) /\ k' = 0
    BY <2>1 DEF ExecuteDeleteEdge, DeleteEdge, Ready, Done
  <2>3. reply' = Text("Delete edge") \/ reply' = NoReply
    BY <2>1 DEF ExecuteDeleteEdge, Done
  <2>4. Stores(file', 0, names)
    BY <1>1, <1>2, <2>2, StoresEdges DEF Segfault
  <2>5. NameStep(names, r) = names
    BY <2>1 DEF NameStep, DeletesAll
  <2> QED BY <2>1, <2>2, <2>3, <2>4, <2>5, NoNodes
<1>7. CASE r \in [oper : {"select"}, name : NodeNames \cup {AnyName}, statements : Pipelines]
  <2>1. Select(r.name, r.statements) /\ r.oper = "select" /\ r.name = AnyName
    BY <1>7 DEF Start, Plain
  <2>2. file' = file /\ g' = find_by_name(AnyName) /\ k' = 1 /\ i' = 1 /\ up'
    BY <2>1 DEF Select, Flush
  <2>3. Numbers(g', names)
    BY <1>1, <2>2, StoresScan
  <2> QED BY <2>1, <2>2, <2>3
<1> QED BY <1>3, <1>4, <1>5, <1>6, <1>7 DEF Request

(* A plain select deletes node after node, and lists those there were.     *)
LEMMA StatementNames ==
  ASSUME JInv, PageBound <= CharRange, NEW names \in NameLists, Underway(names), k > 0,
         Filter \/ FilterByReference \/ Out \/ DeleteOne \/ DeleteEnd \/ Respond
  PROVE  /\ up' /\ req' = req
         /\ k' > 0 => Underway(names)'
         /\ k' = 0 => /\ Stores(file', 0, NameStep(names, req))
                      /\ NamesOf(reply'.nodes) = names
<1> DEFINE c == Len(names)
<1>1. /\ GoodFile(file) /\ Len(file) <= CharRange /\ c \in Nat
      /\ k \in Nat /\ i \in 1 .. Len(g) + 1 /\ req.oper = "select"
  <2>1. Len(file) \in Nat /\ PageBound \in Nat /\ CharRange \in Nat
    BY FileType, BoundsAssumption, CharRangeAssumption DEF JInv, Inv
  <2> QED BY <2>1 DEF JInv, Inv, Selecting, NameLists
<1>2. /\ req.statements \in {<< >>, <<[type |-> DELETE]>>}
      /\ NamesOf(g) = names /\ \A j \in DOMAIN g : g[j].id = j - 1
      /\ Stores(file, Deleted(c), names)
  BY DEF Underway, Numbers
<1>3. Len(g) = c /\ DOMAIN g = 1 .. c /\ g \in Seq(Loaded)
  <2>1. g \in Seq(Loaded)
    BY DEF JInv
  <2>2. DOMAIN g = 1 .. Len(g) /\ DOMAIN names = 1 .. c /\ Len(g) \in Nat
    BY <2>1 DEF NameLists
  <2>3. DOMAIN names = DOMAIN g
    BY <1>2 DEF NamesOf
  <2>4. Len(g) = c
    <3>1. 1 .. Len(g) = 1 .. c
      BY <2>2, <2>3
    <3>2. ~ (Len(g) < c)
      <4>1. Len(g) < c => c \in 1 .. c /\ c \notin 1 .. Len(g)
        BY <1>1, <2>2
      <4> QED BY <3>1, <4>1
    <3>3. ~ (c < Len(g))
      <4>1. c < Len(g) => Len(g) \in 1 .. Len(g) /\ Len(g) \notin 1 .. c
        BY <1>1, <2>2
      <4> QED BY <3>1, <4>1
    <3>4. Len(g) \in Nat /\ c \in Nat
      BY <1>1, <2>2
    <3> HIDE DEF c
    <3> QED BY <3>2, <3>3, <3>4
  <2> QED BY <2>1, <2>2, <2>4
<1>4. ASSUME NEW type, Running(type)
      PROVE  k = 1 /\ type = DELETE /\ req.statements = <<[type |-> DELETE]>> /\ up
  <2>1. k \in DOMAIN req.statements /\ req.statements[k].type = type /\ up
    BY <1>4 DEF Running
  <2>2. req.statements = <<[type |-> DELETE]>>
    BY <1>2, <2>1
  <2> QED BY <2>1, <2>2
<1>5. /\ << >> # <<[type |-> DELETE]>> /\ Len(<<[type |-> DELETE]>>) = 1 /\ Len(<< >>) = 0
      /\ SELECT_CONDITION # DELETE /\ OUT # DELETE
  BY DEF SELECT_CONDITION, OUT, DELETE
<1> HIDE DEF c
<1>6. CASE Filter \/ FilterByReference \/ Out
  BY <1>4, <1>5, <1>6 DEF Filter, FilterByReference, Out
<1>7. CASE DeleteOne
  <2>1. /\ k = 1 /\ req.statements = <<[type |-> DELETE]>> /\ up /\ i <= Len(g)
        /\ i' = i + 1 /\ UNCHANGED <<req, reply, k, g>>
        /\ OnNode(g[i].id, delete_node_page(file, g[i].id))
    BY <1>4, <1>7 DEF DeleteOne, DeleteNode
  <2>2. i \in Nat /\ i - 1 \in Nat /\ i - 1 < c /\ g[i].id = i - 1 /\ Deleted(c) = i - 1
    BY <1>1, <1>2, <1>3, <1>5, <2>1 DEF Deleted
  <2> DEFINE m == i - 1
  <2>3. /\ m \in Nat /\ m < c /\ Stores(file, m, names) /\ m + 1 = i
        /\ OnNode(m, delete_node_page(file, m))
    BY <1>2, <2>1, <2>2
  <2> HIDE DEF m
  <2>4. Found(file, m) /\ Stores(delete_node_page(file, m), m + 1, names)
    BY <1>1, <2>3, StoresDeleted DEF c
  <2>5. up' /\ Stores(file', i, names)
    BY <2>3, <2>4 DEF OnNode, Writes
  <2>6. Deleted(c)' = i
    <3>1. i' - 1 = i
      BY <2>1, <2>2
    <3> QED BY <1>5, <2>1, <3>1 DEF Deleted, c
  <2>7. Underway(names)'
    BY <1>2, <2>1, <2>5, <2>6 DEF Underway, Numbers, c
  <2> QED BY <2>1, <2>5, <2>7
<1>8. CASE DeleteEnd
  <2>1. /\ k = 1 /\ req.statements = <<[type |-> DELETE]>> /\ up /\ i > Len(g)
        /\ k' = 2 /\ g' = g /\ UNCHANGED <<req, file, up>>
    BY <1>4, <1>8 DEF DeleteEnd, NextStatement, vars
  <2>2. Deleted(c) = c
    BY <1>1, <1>3, <1>5, <2>1 DEF Deleted
  <2>3. Deleted(c)' = c
    BY <1>5, <2>1 DEF Deleted, c
  <2>4. Stores(file', c, names)
    BY <1>2, <2>1, <2>2
  <2>5. Underway(names)'
    BY <1>2, <2>1, <2>3, <2>4 DEF Underway, Numbers, c
  <2> QED BY <2>1, <2>5
<1>9. CASE Respond
  <2>1. /\ up /\ k > Len(req.statements) /\ reply' = Nodes(g) /\ k' = 0
        /\ UNCHANGED <<req, file, up>>
    BY <1>9 DEF Respond, vars
  <2>2. NamesOf(reply'.nodes) = names
    BY <1>2, <2>1, NoNodes
  <2>3. CASE req.statements = << >>
    <3>1. Deleted(c) = 0
      BY <2>3 DEF Deleted
    <3>2. ~DeletesAll(req)
      BY <2>3 DEF DeletesAll, Range
    <3>3. NameStep(names, req) = names
      BY <1>1, <3>2 DEF NameStep
    <3> QED BY <1>2, <2>1, <2>2, <3>1, <3>3
  <2>4. CASE req.statements = <<[type |-> DELETE]>>
    <3>1. k # 1
      BY <1>1, <1>5, <2>1, <2>4
    <3>2. Deleted(c) = c
      BY <1>5, <2>4, <3>1 DEF Deleted
    <3>3. LiveIds(file) = {}
      <4>1. c .. c - 1 = {}
        BY <1>1
      <4> QED BY <1>2, <3>2, <4>1 DEF Stores, c
    <3>4. Stores(file, 0, << >>)
      <4>1. 0 .. Len(<< >>) - 1 = {}
        BY <1>5
      <4> QED BY <3>3, <4>1 DEF Stores
    <3>5. DeletesAll(req)
      <4>1. req.statements[1].type = DELETE /\ 1 \in DOMAIN req.statements
        BY <2>4
      <4> QED BY <1>1, <4>1 DEF DeletesAll, Range
    <3>6. NameStep(names, req) = << >>
      BY <1>1, <3>5 DEF NameStep
    <3> QED BY <2>1, <2>2, <3>4, <3>6
  <2> QED BY <1>2, <2>3, <2>4
<1> QED BY <1>6, <1>7, <1>8, <1>9

(* What was answered stays true when a client, that has no answer yet, has *)
(* its request executed.                                                   *)
LEMMA AnsweredMore ==
  ASSUME SInv, Serving, Answered, Execute
  PROVE  Answered'
<1> DEFINE it == [client |-> conn, request |-> req']
<1>1. /\ server = "read" /\ Start(Received) /\ ran' = Append(ran, it) /\ answer' = answer
  BY DEF Execute, ConnectionsEnd, kernel
<1>2. conn \in Clients /\ Clients \subseteq Nat
  BY <1>1 DEF SInv, Typed, Clients
<1>3. it \in [client : Clients, request : Request] /\ it.client = conn
  BY <1>1, <1>2, ReceivedRequest, StartStep DEF SInv
<1> HIDE DEF it
<1>4. ran \in Runs
  BY DEF SInv, Executed, Runs
<1>5. /\ Len(ran) \in Nat /\ Len(ran') = Len(ran) + 1 /\ ran'[Len(ran) + 1] = it
      /\ \A j \in 1 .. Len(ran) : ran'[j] = ran[j]
  BY <1>1, <1>3, <1>4 DEF Runs
<1>6. \A n \in 0 .. Len(ran) : Left(ran', n) = Left(ran, n)
  BY <1>1, <1>3, <1>4, LeftSteps
<1>7. answer[conn] = << >>
  <2> SUFFICES ASSUME answer[conn] # << >>
               PROVE  FALSE
    OBVIOUS
  <2>1. PICK j \in 1 .. Len(ran) : ran[j].client = conn
    BY <1>2 DEF Answered
  <2>2. ran[j].client < conn
    BY <1>1, <2>1 DEF SInv, Executed
  <2> QED BY <1>2, <2>1, <2>2
<1>8. \A c \in Clients : answer'[c] # << >> => \E j \in 1 .. Len(ran') : ran'[j].client = c
  <2> SUFFICES ASSUME NEW c \in Clients, answer'[c] # << >>
               PROVE  \E j \in 1 .. Len(ran') : ran'[j].client = c
    OBVIOUS
  <2>1. PICK j \in 1 .. Len(ran) : ran[j].client = c
    BY <1>1 DEF Answered
  <2>2. j \in 1 .. Len(ran') /\ ran'[j] = ran[j]
    BY <1>5
  <2> QED BY <2>1, <2>2
<1>9. ASSUME NEW j \in 1 .. Len(ran')
      PROVE  LET got == answer'[ran'[j].client]
             IN  ran'[j].request.oper = "select" /\ got # << >> /\ got # <<Text("cut off")>> =>
                   NamesOf(got[1].nodes) = Left(ran', j - 1)
  <2>1. CASE j = Len(ran) + 1
    <3>1. answer'[ran'[j].client] = << >>
      BY <1>1, <1>3, <1>5, <1>7, <2>1
    <3> QED BY <3>1
  <2>2. CASE j # Len(ran) + 1
    <3>1. j \in 1 .. Len(ran) /\ j - 1 \in 0 .. Len(ran)
      BY <1>5, <2>2
    <3>2. ran'[j] = ran[j] /\ Left(ran', j - 1) = Left(ran, j - 1)
      BY <1>5, <1>6, <3>1
    <3> QED BY <1>1, <3>1, <3>2 DEF Answered
  <2> QED BY <2>1, <2>2
<1> QED BY <1>8, <1>9 DEF Answered

(* Executing a request: of one call, it is done; of a select, begun.       *)
LEMMA ExecuteTurn ==
  ASSUME JInv, SInv, Serving, InTurn, kills = 0, Execute, \A r \in Commands : Plain(r)
  PROVE  InTurn'
<1> DEFINE it == [client |-> conn, request |-> req']
           N == Len(ran)
<1>1. /\ server = "read" /\ Start(Received) /\ ran' = Append(ran, it) /\ up
      /\ IF up' THEN server' = "run" /\ conn' = conn ELSE server' = "accept"
  BY DEF Execute, ConnectionsEnd
<1>2. conn \in Clients /\ Typed
  BY <1>1 DEF SInv, Typed
<1>3. /\ Received \in Request /\ Plain(Received) /\ req' = Received
  BY <1>1, <1>2, ReceivedRequest, ReceivedPlain, StartStep
<1>4. it \in [client : Clients, request : Request] /\ it.request = req'
  BY <1>2, <1>3
<1>5. Answered'
  BY AnsweredMore DEF InTurn
<1>6. ran \in Runs
  BY DEF SInv, Executed, Runs
<1>7. Stores(file, 0, Left(ran, N))
  BY <1>1 DEF InTurn
<1>8. /\ N \in Nat /\ Left(ran, N) \in NameLists
      /\ Len(ran') = N + 1 /\ ran'[N + 1] = it
      /\ Left(ran', N) = Left(ran, N)
      /\ Left(ran', N + 1) = NameStep(Left(ran, N), req')
  <2>1. N \in Nat /\ N \in 0 .. N
    BY <1>6 DEF Runs
  <2> HIDE DEF it, N
  <2>2. Len(ran') = N + 1 /\ ran'[N + 1] = it
    BY <1>1, <1>4, <1>6 DEF Runs, N
  <2> QED BY <1>1, <1>4, <1>6, <2>1, <2>2, LeftSteps DEF N
<1> HIDE DEF N
<1>20. PICK names : names = Left(ran, N)
  OBVIOUS
<1>9. names \in NameLists /\ Stores(file, 0, names)
  BY <1>7, <1>8, <1>20
<1>10. /\ req'.oper # "select" => /\ Stores(file', 0, NameStep(names, req'))
                                  /\ k' = 0 /\ NamesOf(reply'.nodes) = << >>
       /\ req'.oper = "select" => /\ k' = 1 /\ i' = 1 /\ file' = file
                                  /\ Numbers(g', names)
       /\ req'.oper = "delete_edge" \/ up'
  BY <1>1, <1>3, <1>9, StartNames
<1>11. Len(ran') - 1 = N /\ Len(ran') > 0
  BY <1>8
<1>12. Left(ran', N) = names /\ Left(ran', Len(ran')) = NameStep(names, req')
  BY <1>8, <1>20
<1>13. ~up' => Stores(file', 0, Left(ran', Len(ran')))
  BY <1>10, <1>12
<1>14. ASSUME up'
       PROVE  Replying'
  <2>1. /\ ran'[Len(ran')] = [client |-> conn', request |-> req']
        /\ \A j \in 1 .. Len(ran') - 1 : ran'[j].client < conn'
    <3>1. \A j \in 1 .. N : ran'[j] = ran[j] /\ ran[j].client < conn
      BY <1>1, <1>4, <1>6 DEF SInv, Executed, Runs, N
    <3> QED BY <1>1, <1>8, <1>11, <1>14, <3>1
  <2>2. CASE req'.oper # "select"
    <3>1. ~ (k' > 0)
      BY <1>10, <2>2
    <3> QED BY <1>10, <1>11, <1>12, <2>1, <2>2, <3>1 DEF Replying
  <2>3. CASE req'.oper = "select"
    <3>1. req'.statements \in {<< >>, <<[type |-> DELETE]>>}
      BY <1>3, <2>3 DEF Plain
    <3>2. \A c : Deleted(c)' = 0
      BY <1>10, <2>3 DEF Deleted
    <3>3. Stores(file', Deleted(Len(names))', names)
      BY <1>9, <1>10, <2>3, <3>2
    <3>4. Underway(names)'
      BY <1>10, <2>3, <3>1, <3>3 DEF Underway
    <3>5. k' = 1
      BY <1>10, <2>3
    <3>6. Left(ran', Len(ran') - 1) = names
      BY <1>11, <1>12
    <3> QED BY <1>11, <2>1, <3>4, <3>5, <3>6 DEF Replying, Underway, Deleted
  <2> QED BY <2>2, <2>3
<1> QED BY <1>1, <1>5, <1>13, <1>14 DEF InTurn

(* The last request executed has left what it makes of what was there.     *)
LEMMA LastLeft ==
  ASSUME NEW s \in Runs, Len(s) > 0
  PROVE  /\ Left(s, Len(s) - 1) \in NameLists
         /\ Left(s, Len(s)) = NameStep(Left(s, Len(s) - 1), s[Len(s)].request)
<1> DEFINE N == Len(s)
           S == [client : Clients, request : Request]
           front == [m \in 1 .. N - 1 |-> s[m]]
<1>1. N \in Nat \ {0} /\ DOMAIN s = 1 .. N /\ \A m \in 1 .. N : s[m] \in S
  <2>1. N \in Nat /\ DOMAIN s = 1 .. N
    BY LenProperties DEF Runs
  <2>2. s \in Seq(S)
    BY DEF Runs
  <2> HIDE DEF S
  <2>3. \A m \in 1 .. N : s[m] \in S
    BY <2>2, ElementOfSeq
  <2> QED BY <2>1, <2>3
<1> HIDE DEF N
<1>2. N - 1 \in Nat /\ N \in 1 .. N /\ \A m \in 1 .. N - 1 : m \in 1 .. N
  BY <1>1
<1>3. front \in Runs /\ Len(front) = N - 1
  BY <1>1, <1>2 DEF Runs
<1>4. s = Append(front, s[N])
  <2>1. Append(front, s[N]) = [m \in 1 .. (N - 1) + 1 |-> IF m = (N - 1) + 1 THEN s[N] ELSE front[m]]
    BY <1>1, <1>2, <1>3 DEF Runs
  <2>2. (N - 1) + 1 = N /\ \A m \in 1 .. N : m # N => m \in 1 .. N - 1
    BY <1>1
  <2>3. s = [m \in 1 .. N |-> s[m]]
    BY <1>1 DEF Runs
  <2> QED BY <2>1, <2>2, <2>3
<1>5. s[N] \in S
  BY <1>1, <1>2
<1> HIDE DEF front, S
<1>6. N - 1 \in 0 .. N - 1 /\ (N - 1) + 1 = N
  BY <1>1
<1>7. /\ Left(front, N - 1) \in NameLists
      /\ Left(s, N - 1) = Left(front, N - 1)
      /\ Left(s, N) = NameStep(Left(front, N - 1), s[N].request)
  <2> DEFINE it == s[N]
             t == Append(front, it)
  <2>1. /\ \A n \in 0 .. N - 1 : /\ Left(front, n) \in NameLists
                                 /\ Left(t, n) = Left(front, n)
        /\ Left(t, (N - 1) + 1) = NameStep(Left(front, N - 1), it.request)
    BY <1>3, <1>5, LeftSteps DEF S
  <2> QED BY <1>4, <1>6, <2>1
<1> QED BY <1>7 DEF N

(* Carrying on with a select. *)
LEMMA StatementTurn ==
  ASSUME JInv, SInv, InTurn, kills = 0, ExecuteStatement, PageBound <= CharRange
  PROVE  InTurn' /\ up'
<1>1. /\ server = "run" /\ kills' = kills /\ ran' = ran
      /\ Filter \/ FilterByReference \/ Out \/ DeleteOne \/ DeleteEnd \/ Respond
      /\ IF up' THEN UNCHANGED <<kernel, process>> ELSE ConnectionsEnd
  BY DEF ExecuteStatement, history
<1>2. k > 0
  BY <1>1 DEF Filter, FilterByReference, Out, DeleteOne, DeleteEnd, Respond, Running
<1>3. Replying /\ Answered
  BY <1>1 DEF InTurn
<1>4. ran \in Runs
  BY DEF SInv, Executed, Runs
<1>5. PICK names : names = Left(ran, Len(ran) - 1)
  OBVIOUS
<1>6. /\ names \in NameLists /\ Underway(names)
      /\ ran[Len(ran)] = [client |-> conn, request |-> req]
      /\ Left(ran, Len(ran)) = NameStep(names, req)
  BY <1>2, <1>3, <1>4, <1>5, LastLeft DEF Replying
<1>7. /\ up' /\ req' = req
      /\ k' > 0 => Underway(names)'
      /\ k' = 0 => /\ Stores(file', 0, NameStep(names, req))
                   /\ NamesOf(reply'.nodes) = names
  BY <1>1, <1>2, <1>6, StatementNames
<1>8. answer' = answer /\ server' = server /\ conn' = conn
  BY <1>1, <1>7 DEF kernel, process
<1>9. Answered'
  BY <1>1, <1>3, <1>8 DEF Answered
<1>10. k' = 0 => req'.oper = "select"
  BY <1>2, <1>7 DEF JInv, Selecting
<1>11. Left(ran', Len(ran') - 1) = names /\ Left(ran', Len(ran')) = NameStep(names, req)
  BY <1>1, <1>5, <1>6
<1>12. /\ Len(ran') > 0 /\ ran'[Len(ran')] = [client |-> conn', request |-> req']
       /\ \A j \in 1 .. Len(ran') - 1 : ran'[j].client < conn'
  BY <1>1, <1>3, <1>6, <1>7, <1>8 DEF Replying
<1>13. Replying'
  BY <1>7, <1>10, <1>11, <1>12 DEF Replying, Underway, Deleted
<1> QED BY <1>1, <1>7, <1>8, <1>9, <1>13 DEF InTurn

(* The answer is what the reply says, or is cut off.                       *)
LEMMA WriteTurn ==
  ASSUME JInv, SInv, Serving, InTurn, kills = 0, WriteAnswer
  PROVE  InTurn'
<1>1. /\ up /\ server = "run" /\ server' = "accept" /\ k = 0
      /\ UNCHANGED <<up, file, ran, kills>>
      /\ \/ answer' = [answer EXCEPT ![conn] = <<IF TooLong THEN Text("cut off") ELSE reply>>]
         \/ answer' = answer
  BY DEF WriteAnswer, all, vars, clientVars, history
<1>2. Replying /\ Answered
  BY <1>1 DEF InTurn
<1>3. conn \in Clients /\ Clients \subseteq Nat /\ ran \in Runs
  <2>1. conn \in Clients
    BY <1>1 DEF SInv, Typed
  <2> QED BY <2>1 DEF SInv, Clients, Executed, Runs
<1>4. Len(ran) \in Nat /\ \A j \in 1 .. Len(ran) : ran[j].client \in Clients
  <2>1. \A j \in 1 .. Len(ran) : ran[j] \in [client : Clients, request : Request]
    BY <1>3, ElementOfSeq DEF Runs
  <2> QED BY <1>3, <2>1, LenProperties DEF Runs
<1> DEFINE N == Len(ran)
<1>5. N \in 1 .. N /\ ran[N].client = conn /\ ran[N].request = req
  BY <1>2, <1>4 DEF Replying
<1>6. Stores(file, 0, Left(ran, N))
  BY <1>1, <1>2 DEF Replying
<1>7. req.oper = "select" => NamesOf(reply.nodes) = Left(ran, N - 1)
  BY <1>1, <1>2 DEF Replying
<1>8. ASSUME answer' = [answer EXCEPT ![conn] = <<IF TooLong THEN Text("cut off") ELSE reply>>]
      PROVE  Answered'
  <2> DEFINE it == IF TooLong THEN Text("cut off") ELSE reply
  <2>1. /\ answer'[conn] = <<it>> /\ \A c \in Clients \ {conn} : answer'[c] = answer[c]
        /\ it = Text("cut off") \/ it = reply
    BY <1>3, <1>8 DEF Serving
  <2> HIDE DEF it, N
  <2>2. \A c \in Clients : answer'[c] # << >> => \E j \in 1 .. Len(ran') : ran'[j].client = c
    <3> SUFFICES ASSUME NEW c \in Clients, answer'[c] # << >>
                 PROVE  \E j \in 1 .. Len(ran) : ran[j].client = c
      BY <1>1
    <3>1. CASE c = conn
      BY <1>5, <3>1 DEF N
    <3>2. CASE c # conn
      BY <1>2, <2>1, <3>2 DEF Answered
    <3> QED BY <3>1, <3>2
  <2>3. ASSUME NEW j \in 1 .. Len(ran)
        PROVE  LET got == answer'[ran[j].client]
               IN  ran[j].request.oper = "select" /\ got # << >> /\ got # <<Text("cut off")>> =>
                     NamesOf(got[1].nodes) = Left(ran, j - 1)
    <3>1. CASE ran[j].client # conn
      <4>1. answer'[ran[j].client] = answer[ran[j].client]
        BY <1>4, <2>1, <3>1
      <4> QED BY <1>2, <4>1 DEF Answered
    <3>2. CASE ran[j].client = conn
      <4>1. j = N
        <5>1. ~ (j < N)
          <6> SUFFICES ASSUME j < N
                       PROVE  FALSE
            OBVIOUS
          <6>1. ran[j].client < conn
            <7>1. j \in 1 .. Len(ran) - 1
              BY <1>4 DEF N
            <7> QED BY <1>2, <7>1 DEF Replying
          <6> QED BY <1>3, <1>5, <3>2, <6>1
        <5> QED BY <1>4, <5>1 DEF N
      <4>2. answer'[ran[j].client] = <<it>> /\ <<it>>[1] = it
        BY <2>1, <3>2
      <4>3. ran[j].request = req
        BY <1>5, <4>1
      <4>4. CASE it = Text("cut off")
        BY <4>2, <4>4
      <4>5. CASE it = reply
        BY <1>7, <4>1, <4>2, <4>3, <4>5
      <4> QED BY <2>1, <4>4, <4>5
    <3> QED BY <3>1, <3>2
  <2>4. Len(ran') = Len(ran) /\ \A j : ran'[j] = ran[j] /\ Left(ran', j - 1) = Left(ran, j - 1)
    BY <1>1
  <2> QED BY <1>1, <2>2, <2>3, <2>4 DEF Answered
<1>9. answer' = answer => Answered'
  BY <1>1, <1>2 DEF Answered
<1>10. Stores(file', 0, Left(ran', Len(ran')))
  BY <1>1, <1>6
<1> QED BY <1>1, <1>8, <1>9, <1>10 DEF InTurn

(* What else happens changes no page, no answer and no request executed,   *)
(* or kills a process.                                                     *)
LEMMA OthersTurn ==
  ASSUME JInv, SInv, Serving, InTurn, kills = 0,
         \/ Accept \/ AcceptFails \/ Overflow \/ KillServer \/ StartServer \/ PortFree
         \/ UNCHANGED sys
         \/ \E c \in Clients : Connect(c) \/ Leave(c) \/ ReadAnswer(c)
         \/ \E c \in Clients, r \in Commands : Send(c, r)
  PROVE  InTurn'
<1>1. CASE Overflow \/ KillServer
  BY <1>1 DEF Overflow, KillServer, Serving, InTurn
<1>2. CASE AcceptFails
  <2>1. /\ server = "accept" /\ server' = "accept" /\ UNCHANGED <<answer, ran, kills, file>>
    BY <1>2 DEF AcceptFails, Exit, ConnectionsEnd, history
  <2> QED BY <2>1 DEF InTurn, Answered
<1>3. CASE Accept
  <2>1. /\ server = "accept" /\ up /\ server' = "read" /\ UNCHANGED <<up, answer, ran, kills, file>>
    BY <1>3 DEF Accept, all, vars, history
  <2> QED BY <2>1 DEF InTurn, Answered
<1>4. CASE StartServer
  <2>1. /\ ~up /\ up' /\ UNCHANGED <<server, answer, ran, kills>> /\ file' = disk
    BY <1>4 DEF StartServer, Restart, start_database, kernel, history
  <2>2. file' = file /\ server = "accept"
    BY <2>1 DEF JInv, Inv, InTurn
  <2> QED BY <2>1, <2>2 DEF InTurn, Answered
<1>5. CASE \/ PortFree \/ UNCHANGED sys
           \/ \E c \in Clients : Connect(c) \/ Leave(c) \/ ReadAnswer(c)
           \/ \E c \in Clients, r \in Commands : Send(c, r)
  <2>1. UNCHANGED <<up, server, conn, answer, ran, kills, file, req, reply, k, g, i>>
    BY <1>5 DEF PortFree, sys, Connect, Leave, ReadAnswer, Send, all, vars, clientVars, kernel,
                process, history
  <2>2. Answered' = Answered
    BY <2>1 DEF Answered
  <2>3. Replying' = Replying
    BY <2>1 DEF Replying, Underway, Deleted
  <2> QED BY <2>1, <2>2, <2>3 DEF InTurn
<1> QED BY <1>1, <1>2, <1>3, <1>4, <1>5

(* At the start there is nothing, and nothing has been executed.           *)
LEMMA InitTurn == SInit => InTurn
<1> SUFFICES ASSUME SInit
             PROVE  InTurn
  OBVIOUS
<1>1. /\ file = << >> /\ ran = << >> /\ server = "accept" /\ up
      /\ answer = [c \in Clients |-> << >>]
  BY DEF SInit, JInit, Init
<1>2. Len(ran) = 0 /\ LiveIds(file) = {}
  BY <1>1, EmptySeq DEF LiveIds, Ids
<1>3. Left(ran, 0) = << >>
  <2>1. [m \in 1 .. 0 |-> ran[m].request] = << >>
    <3>1. [m \in 1 .. 0 |-> ran[m].request] \in Seq(Nat)
          /\ Len([m \in 1 .. 0 |-> ran[m].request]) = 0
      OBVIOUS
    <3> QED BY <3>1, EmptySeq
  <2> QED BY <2>1, NamesAfterNone DEF Left
<1>4. Stores(file, 0, Left(ran, Len(ran)))
  <2>1. 0 .. Len(<< >>) - 1 = {}
    BY EmptySeq
  <2> QED BY <1>2, <1>3, <2>1 DEF Stores
<1>5. Answered
  BY <1>1, <1>2 DEF Answered
<1> QED BY <1>1, <1>4, <1>5 DEF InTurn

(* A step, and none, keeps the file what the requests make of it.          *)
LEMMA NextTurn ==
  ASSUME PageBound <= CharRange, \A r \in Commands : Plain(r),
         JInv, SInv, Serving, InTurn, [SNext]_sys
  PROVE  InTurn'
<1>1. CASE kills = 0
  BY <1>1, ExecuteTurn, StatementTurn, WriteTurn, OthersTurn DEF SNext, ServerStep
<1>2. CASE kills # 0
  <2>1. kills' = kills \/ kills' = kills + 1
    <3>1. CASE ServerStep
      BY <3>1 DEF ServerStep, Accept, AcceptFails, Execute, ExecuteStatement, WriteAnswer, history
    <3>2. CASE UNCHANGED sys
      BY <3>2 DEF sys, history
    <3>3. CASE SNext /\ ~ServerStep
      BY <3>3 DEF SNext, Overflow, Connect, Send, Leave, ReadAnswer, KillServer, StartServer,
                  PortFree, history
    <3> QED BY <3>1, <3>2, <3>3
  <2>2. kills' # 0
    BY <1>2, <2>1 DEF Serving
  <2> QED BY <2>2 DEF InTurn
<1> QED BY <1>1, <1>2

(* So it holds of every reachable state.                                   *)
LEMMA AlwaysInTurn ==
  ASSUME PageBound <= CharRange, \A r \in Commands : Plain(r)
  PROVE  SSpec => []InTurn
<1>1. JInv /\ SInv /\ Serving /\ Kept /\ InTurn /\ [SNext]_sys => InTurn'
  BY NextTurn
<1> QED BY <1>1, InitTurn, AlwaysServing, SystemRunsRequests, AlwaysJInv, AlwaysSInv, PTL DEF SSpec

(* Where requests list or delete all the nodes there are, or none, and ids *)
(* fit the char they are looked up with, V() is answered what the requests *)
(* of the clients that connected before have left.                         *)
THEOREM AnswersAlwaysInTurn ==
  ASSUME PageBound <= CharRange, \A r \in Commands : Plain(r)
  PROVE  SSpec => []AnswersAreInTurn
<1>1. InTurn /\ SInv => AnswersAreInTurn
  <2>1. SInv => DOMAIN ran = 1 .. Len(ran)
    BY LenProperties DEF SInv, Executed
  <2> QED BY <2>1 DEF InTurn, Answered, AnswersAreInTurn, NamesOf, Left
<1> QED BY <1>1, AlwaysInTurn, AlwaysSInv, PTL

-----------------------------------------------------------------------------
(* Why a server ends.                                                      *)

(* A select was executed of more nodes than an answer can hold. *)
LongAnswer == \E j \in 1 .. Len(ran) : ran[j].request.oper = "select"
                                       /\ Len(Left(ran, j - 1)) > ReplySize

(* A server that nobody kills uses a descriptor for each request.          *)
Lasting ==
  kills = 0 =>
    /\ up \/ Len(ran) >= FdLimit \/ LongAnswer
    /\ smashed => LongAnswer
    /\ fds <= Len(ran) + (IF server = "read" THEN 1 ELSE 0)

(* A reply lists nodes. *)
Told == reply.nodes \in Seq(Loaded)

(* What is replied is a text, or the nodes that a select carries.          *)
LEMMA ToldNext ==
  ASSUME JInv, Told, [JNext]_all
  PROVE  Told'
<1>1. << >> \in Seq(Loaded)
  BY EmptySeq
<1>2. \/ reply' = reply
      \/ reply' = NoReply
      \/ \E t : reply' = Text(t)
      \/ reply' = Nodes(g)
  BY DEF JNext, all, ExecuteAddNode, ExecuteAddEdge, ExecuteDeleteEdge, ExecuteNothing, Select,
         Filter, FilterByReference, Out, DeleteOne, DeleteEnd, Respond, HeapFails, StopServer,
         Restart, NoRequest, Done
<1>3. /\ NoReply.nodes = << >> /\ \A t : Text(t).nodes = << >>
      /\ Nodes(g).nodes = g
  BY DEF NoReply, Text, Nodes
<1>4. g \in Seq(Loaded)
  BY DEF JInv
<1>5. reply' = Nodes(g) => reply'.nodes = g
  BY <1>3
<1>6. (\E t : reply' = Text(t)) \/ reply' = NoReply => reply'.nodes = << >>
  BY <1>3
<1> QED BY <1>1, <1>2, <1>4, <1>5, <1>6 DEF Told

(* So it is in every reachable state.                                      *)
LEMMA AlwaysTold == JSpec => []Told
<1>1. JInit => Told
  <2>1. << >> \in Seq(Loaded)
    BY EmptySeq
  <2>2. NoReply.nodes = << >>
    BY DEF NoReply
  <2> QED BY <2>1, <2>2 DEF JInit, Told
<1> QED BY <1>1, ToldNext, AlwaysJInv, PTL DEF JSpec

(* A long answer has been asked for for good.                              *)
LEMMA LongStays ==
  ASSUME SInv, LongAnswer, Execute
  PROVE  LongAnswer'
<1> DEFINE it == [client |-> conn, request |-> req']
<1>1. server = "read" /\ Start(Received) /\ ran' = Append(ran, it)
  BY DEF Execute
<1>2. conn \in Clients /\ Typed
  BY <1>1 DEF SInv, Typed
<1>3. it \in [client : Clients, request : Request]
  BY <1>1, <1>2, ReceivedRequest, StartStep
<1> HIDE DEF it
<1>4. ran \in Runs
  BY DEF SInv, Executed, Runs
<1>5. /\ Len(ran) \in Nat /\ Len(ran') = Len(ran) + 1
      /\ \A j \in 1 .. Len(ran) : ran'[j] = ran[j]
  BY <1>1, <1>3, <1>4 DEF Runs
<1>6. \A n \in 0 .. Len(ran) : Left(ran', n) = Left(ran, n)
  BY <1>1, <1>3, <1>4, LeftSteps
<1>7. PICK j \in 1 .. Len(ran) : /\ ran[j].request.oper = "select"
                                 /\ Len(Left(ran, j - 1)) > ReplySize
  BY DEF LongAnswer
<1>8. j \in 1 .. Len(ran') /\ j - 1 \in 0 .. Len(ran)
  BY <1>5
<1>9. ran'[j].request.oper = "select" /\ Len(Left(ran', j - 1)) > ReplySize
  BY <1>5, <1>6, <1>7, <1>8
<1> QED BY <1>8, <1>9 DEF LongAnswer

(* An answer that is too long answers a select.                            *)
LEMMA TooLongAsked ==
  ASSUME SInv, Told, Replying, k = 0, TooLong
  PROVE  LongAnswer
<1> DEFINE N == Len(ran)
           names == Left(ran, N - 1)
<1>1. ran \in Runs /\ N \in Nat /\ N > 0
  BY LenProperties DEF SInv, Executed, Runs, Replying
<1>2. names \in NameLists /\ << >> \in NameLists
  BY <1>1, LastLeft, EmptySeq DEF NameLists
<1>3. ASSUME NEW s \in NameLists, NamesOf(reply.nodes) = s
      PROVE  Len(reply.nodes) = Len(s)
  <2>1. DOMAIN reply.nodes = 1 .. Len(reply.nodes) /\ Len(reply.nodes) \in Nat
    BY LenProperties DEF Told
  <2>2. DOMAIN s = 1 .. Len(s) /\ Len(s) \in Nat
    BY LenProperties DEF NameLists
  <2>3. DOMAIN s = DOMAIN reply.nodes
    BY <1>3 DEF NamesOf
  <2> DEFINE a == Len(reply.nodes)
             b == Len(s)
  <2>4. a \in Nat /\ b \in Nat /\ 1 .. a = 1 .. b
    BY <2>1, <2>2, <2>3
  <2> HIDE DEF a, b
  <2>5. ~ (a < b)
    <3>1. a < b => b \in 1 .. b /\ b \notin 1 .. a
      BY <2>4
    <3> QED BY <2>4, <3>1
  <2>6. ~ (b < a)
    <3>1. b < a => a \in 1 .. a /\ a \notin 1 .. b
      BY <2>4
    <3> QED BY <2>4, <3>1
  <2>7. a = b
    BY <2>4, <2>5, <2>6
  <2> QED BY <2>7 DEF a, b
<1> HIDE DEF names, N
<1>4. NamesOf(reply.nodes) = IF req.oper = "select" THEN names ELSE << >>
  BY DEF Replying, names, N
<1>5. CASE req.oper = "select"
  <2>1. Len(names) > ReplySize
    BY <1>2, <1>3, <1>4, <1>5 DEF TooLong
  <2>2. N \in 1 .. N /\ ran[N].request = req
    BY <1>1 DEF Replying, N
  <2> QED BY <1>5, <2>1, <2>2 DEF LongAnswer, names, N
<1>6. CASE req.oper # "select"
  <2>1. Len(reply.nodes) = 0
    BY <1>2, <1>3, <1>4, <1>6, EmptySeq
  <2>2. ReplySize \in Nat
    BY ServerAssumption
  <2> QED BY <2>1, <2>2 DEF TooLong
<1> QED BY <1>5, <1>6

(* A step, and none, keeps the descriptors at most the requests, and one.  *)
LEMMA NextLasting ==
  ASSUME PageBound <= CharRange, \A r \in Commands : Plain(r) /\ r.oper # "delete_edge",
         JInv, SInv, Serving, InTurn, Told, Lasting, [SNext]_sys
  PROVE  Lasting'
<1> SUFFICES ASSUME kills' = 0
             PROVE  Lasting'
  BY DEF Lasting
<1>1. fds \in Nat /\ FdLimit \in Nat /\ Len(ran) \in Nat /\ kills \in Nat
  BY ServerAssumption, LenProperties DEF SInv, Typed, Executed, Serving
<1>2. CASE Execute
  <2>1. /\ server = "read" /\ Start(Received) /\ kills = 0
        /\ IF up' THEN server' = "run" /\ fds' = fds /\ smashed' = smashed ELSE ConnectionsEnd
    BY <1>2 DEF Execute
  <2>2. conn \in Clients /\ Typed
    BY <2>1 DEF SInv, Typed
  <2>3. /\ Received \in Request /\ Plain(Received) /\ Received.oper # "delete_edge"
    BY <2>2, ReceivedRequest, ReceivedPlain
  <2>4. ran \in Runs
    BY DEF SInv, Executed, Runs
  <2>5. Len(ran) \in 0 .. Len(ran) /\ \A it \in [client : Clients, request : Request] :
                                        Left(ran, Len(ran)) \in NameLists
    BY <1>1, <2>4, LeftSteps
  <2>6. [client |-> conn, request |-> Received] \in [client : Clients, request : Request]
    BY <2>2, <2>3
  <2>7. PICK names : names = Left(ran, Len(ran))
    OBVIOUS
  <2>8. names \in NameLists /\ Stores(file, 0, names)
    BY <2>1, <2>5, <2>6, <2>7 DEF InTurn
  <2>9. up'
    BY <2>1, <2>3, <2>8, StartNames
  <2>10. req' = Received
    BY <2>1, <2>3, StartStep
  <2>11. Len(ran') = Len(ran) + 1
    <3>1. ran' = Append(ran, [client |-> conn, request |-> Received])
      BY <1>2, <2>10 DEF Execute
    <3> QED BY <2>4, <2>6, <3>1 DEF Runs
  <2>12. /\ smashed => LongAnswer
         /\ fds <= Len(ran) + 1
    BY <2>1 DEF Lasting
  <2>13. smashed' => LongAnswer'
    BY <1>2, <2>1, <2>9, <2>12, LongStays
  <2>14. fds' <= Len(ran')
    BY <1>1, <2>1, <2>9, <2>11, <2>12
  <2> QED BY <1>1, <2>1, <2>9, <2>11, <2>13, <2>14 DEF Lasting
<1>3. CASE UNCHANGED <<ran, kills>>
  <2>1. LongAnswer' = LongAnswer
    BY <1>3 DEF LongAnswer
  <2>2. /\ up \/ Len(ran) >= FdLimit \/ LongAnswer
        /\ smashed => LongAnswer
        /\ fds <= Len(ran) + (IF server = "read" THEN 1 ELSE 0)
        /\ kills = 0
    BY <1>3 DEF Lasting
  <2>3. CASE Accept
    <3>1. up' /\ smashed' = smashed /\ server = "accept" /\ server' = "read" /\ fds' = fds + 1
      BY <2>3 DEF Accept, all, vars
    <3> QED BY <1>1, <1>3, <2>1, <2>2, <3>1 DEF Lasting
  <2>4. CASE AcceptFails
    <3>1. server = "accept" /\ (fds = FdLimit \/ smashed) /\ smashed' = FALSE /\ fds' = 0
      BY <2>4 DEF AcceptFails, ConnectionsEnd
    <3>2. Len(ran) >= FdLimit \/ LongAnswer
      BY <1>1, <2>2, <3>1
    <3>3. fds' <= Len(ran') + (IF server' = "read" THEN 1 ELSE 0)
      BY <1>1, <1>3, <3>1
    <3> QED BY <1>3, <2>1, <3>1, <3>2, <3>3 DEF Lasting
  <2>5. CASE ExecuteStatement
    <3>1. up'
      BY <2>2, <2>5, StatementTurn
    <3>2. server' = server /\ fds' = fds /\ smashed' = smashed
      BY <2>5, <3>1 DEF ExecuteStatement, process
    <3> QED BY <1>3, <2>1, <2>2, <3>1, <3>2 DEF Lasting
  <2>6. CASE WriteAnswer
    <3>1. /\ up' /\ server = "run" /\ server' = "accept" /\ fds' = fds /\ k = 0
          /\ smashed' = (smashed \/ TooLong)
      BY <2>6 DEF WriteAnswer, all, vars
    <3>2. Replying
      BY <2>2, <3>1 DEF InTurn
    <3>3. smashed' => LongAnswer
      BY <2>2, <3>1, <3>2, TooLongAsked
    <3> QED BY <1>1, <1>3, <2>1, <2>2, <3>1, <3>3 DEF Lasting
  <2>7. CASE StartServer
    <3>1. up' /\ UNCHANGED <<server, fds, smashed>>
      BY <2>7 DEF StartServer, Restart, start_database
    <3> QED BY <1>3, <2>1, <2>2, <3>1 DEF Lasting
  <2>8. CASE UNCHANGED <<up, server, fds, smashed>>
    BY <1>3, <2>1, <2>2, <2>8 DEF Lasting
  <2>9. CASE Overflow \/ KillServer
    BY <1>1, <1>3, <2>9 DEF Overflow, KillServer
  <2>10. CASE \/ PortFree \/ UNCHANGED sys
              \/ \E c \in Clients : Connect(c) \/ Leave(c) \/ ReadAnswer(c)
              \/ \E c \in Clients, r \in Commands : Send(c, r)
    BY <2>8, <2>10 DEF PortFree, sys, Connect, Leave, ReadAnswer, Send, all, vars, process
  <2> QED BY <1>2, <2>3, <2>4, <2>5, <2>6, <2>7, <2>9, <2>10 DEF SNext, ServerStep
<1>4. CASE Overflow \/ KillServer
  BY <1>1, <1>4 DEF Overflow, KillServer
<1>5. ~Execute /\ ~Overflow /\ ~KillServer => UNCHANGED <<ran, kills>>
  BY DEF SNext, ServerStep, Accept, AcceptFails, ExecuteStatement, WriteAnswer, Connect, Send,
         Leave, ReadAnswer, StartServer, PortFree, sys, history
<1> QED BY <1>2, <1>3, <1>4, <1>5

(* Where requests delete no edge and list or delete all the nodes there    *)
(* are, or none, a server that nobody kills ends because it has used up    *)
(* its descriptors, each for a request, or has had an answer longer than   *)
(* its buffer.                                                             *)
THEOREM EndsAlwaysForCause ==
  ASSUME PageBound <= CharRange, \A r \in Commands : Plain(r) /\ r.oper # "delete_edge"
  PROVE  SSpec => []EndsForCause
<1>1. SInit => Lasting
  <2> SUFFICES ASSUME SInit
               PROVE  Lasting
    OBVIOUS
  <2>1. up /\ ~smashed /\ fds = 0 /\ server = "accept" /\ Len(ran) = 0
    BY EmptySeq DEF SInit, JInit, Init
  <2> QED BY <2>1 DEF Lasting
<1>2. JInv /\ SInv /\ Serving /\ Kept /\ InTurn /\ Told /\ Lasting /\ [SNext]_sys => Lasting'
  BY NextLasting
<1>3. Lasting /\ SInv => EndsForCause
  <2>1. SInv => DOMAIN ran = 1 .. Len(ran)
    BY LenProperties DEF SInv, Executed
  <2> QED BY <2>1 DEF Lasting, LongAnswer, EndsForCause, Left
<1>4. SSpec => []InTurn
  BY AlwaysInTurn
<1> QED BY <1>1, <1>2, <1>3, <1>4, AlwaysServing, AlwaysTold, SystemRunsRequests, AlwaysJInv,
          AlwaysSInv, PTL DEF SSpec
=============================================================================
