----------------------------- MODULE QueueChat -----------------------------
(***************************************************************************)
(* Lab 7/server.c and Lab 7/client.c: the chat over POSIX message queues.  *)
(* mq_receive takes the oldest message of the highest priority; mq_send    *)
(* waits while the queue is full.  A step is one of these calls with what  *)
(* follows it up to the next.                                              *)
(*                                                                         *)
(* A user is one run of client.c: the process that reads the keyboard and, *)
(* once the id has come, the child that prints what it receives.  Opening  *)
(* the server's queue, sending to a queue that is open and fork do not     *)
(* fail; the server is never stopped, for its loop has no end.             *)
(***************************************************************************)
EXTENDS Naturals, Sequences, FiniteSets, Functions

CONSTANTS
  Users, NoText, NoId,
  Limits,           \* the values of MAX_CLIENTS
  MaxMessages,      \* mq_maxmsg: 10
  MaxTexts          \* bound: texts typed by all the users

ASSUME QueueAssumption ==
  /\ IsFiniteSet(Users) /\ NoId \notin Nat /\ NoText \notin Nat
  /\ Limits \subseteq Nat \ {0} /\ MaxMessages \in Nat \ {0} /\ MaxTexts \in Nat

VARIABLES
  MAX_CLIENTS,      \* never changes
  server_queue, client_queue,   \* what is in the queues, the next to be received first
  clients,                      \* the users the server has registered; i is client i - 1
  passing, i,                   \* the text being passed on, and the loop's counter
  user, client_id,              \* where each user is, and the id it was told
  author,                       \* the user that typed each text: texts are numbered
  printed                       \* the texts each user has printed

queues == <<server_queue, client_queue>>
queueVars == <<MAX_CLIENTS, queues, clients, passing, i, user, client_id, author, printed>>

Init_(u) == [type |-> "INIT", priority |-> 1, user |-> u]
IdMessage_Ordinary(id) == [type |-> "ID", priority |-> 0, id |-> id]
IdMessage(id) == [type |-> "ID", priority |-> 1, id |-> id]
Text(priority, id, n) == [type |-> "TEXT", priority |-> priority, id |-> id, text |-> n]

(* A queue is in the order of priorities; mq_send puts a message behind     *)
(* those of its own priority.                                                *)
Inserted(q, k, m) ==
  [j \in 1 .. Len(q) + 1 |-> IF j <= k THEN q[j] ELSE IF j = k + 1 THEN m ELSE q[j - 1]]

Queued(q, m) == Inserted(q, Cardinality({j \in DOMAIN q : q[j].priority >= m.priority}), m)

Full_Never(q) == FALSE
Full(q) == Len(q) >= MaxMessages

-----------------------------------------------------------------------------
(* client.c *)

SendsToServer(m) ==
  /\ ~Full(server_queue)
  /\ server_queue' = Queued(server_queue, m)

UserStarts(u) ==
  /\ user[u] = "off"
  /\ SendsToServer(Init_(u))
  /\ user' = [user EXCEPT ![u] = "waiting"]
  /\ UNCHANGED <<MAX_CLIENTS, client_queue, clients, passing, i, client_id, author, printed>>

(* atoi of whatever comes first. *)
UserGetsId(u) ==
  LET m == Head(client_queue[u])
  IN  /\ user[u] = "waiting" /\ client_queue[u] # <<>>
      /\ client_queue' = [client_queue EXCEPT ![u] = Tail(@)]
      /\ client_id' = [client_id EXCEPT ![u] = IF m.type = "ID" THEN m.id ELSE NoId]
      /\ user' = [user EXCEPT ![u] = "chatting"]
      /\ UNCHANGED <<MAX_CLIENTS, server_queue, clients, passing, i, author, printed>>

UserTypes(u) ==
  /\ user[u] = "chatting" /\ Len(author) < MaxTexts
  /\ author' = Append(author, u)
  /\ SendsToServer(Text(0, client_id[u], Len(author) + 1))
  /\ UNCHANGED <<MAX_CLIENTS, client_queue, clients, passing, i, user, client_id, printed>>

(* receiver_thread, in the child. *)
UserPrints(u) ==
  LET m == Head(client_queue[u])
  IN  /\ user[u] = "chatting" /\ client_queue[u] # <<>>
      /\ client_queue' = [client_queue EXCEPT ![u] = Tail(@)]
      /\ printed' = [printed EXCEPT ![u] = Append(@, IF m.type = "TEXT" THEN m.text ELSE NoText)]
      /\ UNCHANGED <<MAX_CLIENTS, server_queue, clients, passing, i, user, client_id, author>>

(* At the end of the input, or killed.  The server keeps the queue it has    *)
(* opened, and can open that of a client killed before it got its id.        *)
UserEnds(u) ==
  /\ user[u] \in {"waiting", "chatting"}
  /\ user' = [user EXCEPT ![u] = "gone"]
  /\ UNCHANGED <<MAX_CLIENTS, queues, clients, passing, i, client_id, author, printed>>

User(u) == UserStarts(u) \/ UserGetsId(u) \/ UserTypes(u) \/ UserPrints(u) \/ UserEnds(u)

-----------------------------------------------------------------------------
(* server.c *)

ServerReceives(m) ==
  /\ passing = NoText
  /\ server_queue # <<>> /\ m = Head(server_queue)
  /\ server_queue' = Tail(server_queue)

(* Lines 66-91.  Over the limit, the client is not told. *)
ServerRegisters(u) ==
  /\ ServerReceives(Init_(u))
  /\ IF Len(clients) < MAX_CLIENTS
       THEN /\ client_queue' = [client_queue EXCEPT ![u] = Queued(@, IdMessage(Len(clients)))]
            /\ clients' = Append(clients, u)
       ELSE UNCHANGED <<client_queue, clients>>
  /\ UNCHANGED <<MAX_CLIENTS, passing, i, user, client_id, author, printed>>

ServerTakesText ==
  \E n \in DOMAIN author : \E id \in Range(client_id) :
    /\ ServerReceives(Text(0, id, n))
    /\ passing' = [id |-> id, text |-> n]
    /\ i' = 1
    /\ UNCHANGED <<MAX_CLIENTS, client_queue, clients, user, client_id, author, printed>>

PassedToAll_ButLast == i >= Len(clients)
PassedToAll == i > Len(clients)

(* The faulty version takes the length of the text, for which its number     *)
(* stands, for the priority.                                                *)
PassedOn_LengthAsPriority == Text(passing.text, passing.id, passing.text)
PassedOn == Text(1, passing.id, passing.text)

(* Line 107 waits for whoever has a full queue. *)
ServerPassesOn ==
  /\ passing # NoText /\ ~PassedToAll
  /\ i' = i + 1
  /\ IF i - 1 = passing.id
       THEN UNCHANGED client_queue
       ELSE /\ ~Full(client_queue[clients[i]])
            /\ client_queue' = [client_queue EXCEPT
                 ![clients[i]] = Queued(@, PassedOn)]
  /\ UNCHANGED <<MAX_CLIENTS, server_queue, clients, passing, user, client_id, author, printed>>

ServerHasPassedOn ==
  /\ passing # NoText /\ PassedToAll
  /\ passing' = NoText /\ i' = 0
  /\ UNCHANGED <<MAX_CLIENTS, queues, clients, user, client_id, author, printed>>

Server ==
  \/ \E u \in Users : ServerRegisters(u)
  \/ ServerTakesText \/ ServerPassesOn \/ ServerHasPassedOn

-----------------------------------------------------------------------------
(* Before any of some users starts; with none, nothing ever happens. *)
QueueInit(present) ==
  /\ MAX_CLIENTS \in (IF present = {} THEN {1} ELSE Limits)
  /\ server_queue = <<>> /\ client_queue = [u \in Users |-> <<>>]
  /\ clients = <<>> /\ passing = NoText /\ i = 0
  /\ user = [u \in Users |-> IF u \in present THEN "off" ELSE "absent"]
  /\ client_id = [u \in Users |-> NoId]
  /\ author = <<>> /\ printed = [u \in Users |-> <<>>]

QueueNext == Server \/ \E u \in Users : User(u)

(* The server runs, and so do a user's first mq_receive and its child. *)
QueueFairness ==
  /\ WF_queueVars(Server)
  /\ \A u \in Users : WF_queueVars(UserGetsId(u)) /\ WF_queueVars(UserPrints(u))

QueueSpec == QueueInit(Users) /\ [][QueueNext]_queueVars /\ QueueFairness

-----------------------------------------------------------------------------
(* Properties *)

Message == [type : {"INIT"}, priority : {1}, user : Users]
             \union [type : {"ID"}, priority : {1}, id : Nat]
             \union [type : {"TEXT"}, priority : {0, 1}, id : Nat, text : Nat]

QueueTypeOK ==
  /\ MAX_CLIENTS \in Nat /\ server_queue \in Seq(Message) /\ Len(server_queue) <= MaxMessages
  /\ client_queue \in [Users -> Seq(Message)]
  /\ \A u \in Users : Len(client_queue[u]) <= MaxMessages
  /\ clients \in Seq(Users) /\ Len(clients) <= MAX_CLIENTS
  /\ passing \in [id : Nat, text : Nat] \union {NoText} /\ i \in 0 .. MAX_CLIENTS + 1
  /\ user \in [Users -> {"absent", "off", "waiting", "chatting", "gone"}]
  /\ client_id \in [Users -> Nat \union {NoId}]
  /\ author \in Seq(Users) /\ printed \in [Users -> Seq(Nat)]

(* A client takes the first message of its queue for its id (client.c:81)    *)
(* and signs its texts with it; the server skips the client of that number.  *)
(* The first message is the id, whatever the others are sending by then: the *)
(* number a client signs with is the one the server has it under.            *)
IdsAgree ==
  \A u \in Users : user[u] = "chatting" =>
    \E n \in DOMAIN clients : clients[n] = u /\ client_id[u] = n - 1

(* A user that waits for its id has its INIT at the server, or the id first   *)
(* in its queue, or the table is full and the server has told it nothing    *)
(* (server.c:88): no user is forgotten for another reason.                  *)
NobodyForgotten ==
  \A u \in Users : user[u] = "waiting" =>
    \/ Init_(u) \in Range(server_queue)
    \/ client_queue[u] # <<>> /\ Head(client_queue[u]).type = "ID"
    \/ Len(clients) = MAX_CLIENTS

(* Two texts are never printed in one order by one user and in the other by  *)
(* another, and nobody prints a text of its own or one text twice.           *)
OneOrder ==
  \A u, v \in Users :
    /\ \A j, k \in DOMAIN printed[u] : printed[u][j] = printed[u][k] => j = k
    /\ \A n \in Range(printed[u]) : n # NoText => author[n] # u
    /\ \A j, k \in DOMAIN printed[u] : \A l, m \in DOMAIN printed[v] :
         (j < k /\ l < m) => ~(printed[u][j] = printed[v][m] /\ printed[u][k] = printed[v][l])

AtServer(n) == \E j \in DOMAIN server_queue :
                 server_queue[j].type = "TEXT" /\ server_queue[j].text = n

(* A text that waits at the server is printed by every other user registered *)
(* by then, as long as no registered user has gone: the queue of one that    *)
(* has is read by nobody, and in the end stops the server (line 107).        *)
TextsArrive ==
  \A u \in Users : \A n \in 1 .. MaxTexts :
    (AtServer(n) /\ u \in Range(clients) /\ author[n] # u)
      ~> (n \in Range(printed[u]) \/ \E v \in Range(clients) : user[v] = "gone")

=============================================================================
