------------------------------ MODULE TcpChat ------------------------------
(***************************************************************************)
(* Lab 11/server.c and Lab 11/client.c: the chat over connections.  The    *)
(* server has a thread for each connection (handle_client), one that looks *)
(* for dead clients (alive_checker), and main, which accepts.              *)
(*                                                                         *)
(* A thread knows its connection by a descriptor, a number that another    *)
(* thread may close and that accept then uses again; a recv that has begun *)
(* keeps the connection it began on, and keeps it open.  A step is one     *)
(* critical section of clients_mutex, or one system call outside it; recv  *)
(* and the handling of what it returned are one step, for what happens     *)
(* between them could as well have happened before recv returned.          *)
(*                                                                         *)
(* A connection carries a sequence of messages each way.  recv takes one   *)
(* or several at once, of which only the first is recognised.  Of equal    *)
(* messages in a row one is kept: the reader takes them together.  "TEXT"  *)
(* is any command to the server, read as one when it arrives, and whatever *)
(* a client only prints.  A message is not split over two calls of recv,   *)
(* and send does not wait: no connection is full.                          *)
(*                                                                         *)
(* A client is one run of client.c.  Its end of input (line 130) changes   *)
(* nothing but that it types no more.  Allocating memory, starting a       *)
(* thread and accept do not fail.                                          *)
(*                                                                         *)
(* An operator X_Fault stands before the operator X of which it is a       *)
(* faulty version; nothing uses it, the properties are tried against it.   *)
(***************************************************************************)
EXTENDS Integers, Sequences, FiniteSets, Functions

CONSTANTS
  Clients,          \* runs of client.c, numbered as they start; each makes one connection
  Ids, NoId, Nobody,
  PING_TIMEOUT,     \* in units of PING_INTERVAL: 2
  Setups            \* what to run: each client's id, the size of the table, who may
                    \* type commands and STOP, and whether a signal may end the server

ASSUME ConstantsAssumption ==
  /\ IsFiniteSet(Clients) /\ Clients \subseteq Nat /\ Nobody \notin Clients
  /\ NoId \notin Ids
  /\ PING_TIMEOUT \in Nat
  /\ Setups \subseteq [id : [Clients -> Ids], max : Nat \ {0}, commands : SUBSET Clients,
                     stops : SUBSET Clients, signal : BOOLEAN]

VARIABLES
  setup,                   \* one of Setups; it does not change
  clients, client_count,   \* the table; time is counted in runs of alive_checker
  open,                    \* descriptor -> connection
  handler, client_socket,  \* where the thread of each connection is, and its descriptor
  reading,                 \* the connection its recv is on
  main, checker, server_running,
  client,                  \* where each client is
  toServer, toClient,      \* what each connection carries
  delivered,               \* what the step before passed on, and to whom
  reset                    \* connections written to after their client has gone

table == <<clients, client_count>>
threads == <<handler, client_socket, reading>>
process == <<main, checker, server_running>>
streams == <<toServer, toClient>>
vars == <<table, open, threads, process, client, streams, reset, delivered, setup>>

IdOf == setup.id
MAX_CLIENTS == setup.max

Slots == 0 .. MAX_CLIENTS - 1
Descriptors == 1 .. Cardinality(Clients)

Free == [socket |-> 0, id |-> NoId, age |-> 0]
Active == {i \in Slots : clients[i].socket # 0}

Up == main # "over"

(* The server's end of a connection is kept by a number, or by a recv on it. *)
HeldElsewhere(c, h) ==
  (\E n \in Descriptors : open[n] = c) \/ (\E g \in Clients \ {h} : reading[g] = c)
HeldByServer(c) == HeldElsewhere(c, Nobody)

Lowest(S) == CHOOSE n \in S : \A m \in S : n <= m

(* close of some numbers.  What a connection still carries to a server that *)
(* cannot read it any more is forgotten.                                     *)
Closes(N) ==
  /\ open' = [n \in Descriptors |-> IF n \in N THEN Nobody ELSE open[n]]
  /\ toServer' = [c \in Clients |->
       IF (\E n \in N : open[n] = c) /\ \A h \in Clients : reading[h] # c THEN <<>> ELSE toServer[c]]

(* A message behind those under way. *)
Put(s, m) == IF s # <<>> /\ s[Len(s)] = m THEN s ELSE Append(s, m)

(* What recv leaves when it takes all up to some message. *)
Rests(s) == {SubSeq(s, k + 1, Len(s)) : k \in 1 .. Len(s)}

(* In a step that passes no text on. *)
Silent == delivered' = {} /\ UNCHANGED setup

-----------------------------------------------------------------------------
(* client.c *)

ClientSays(c, m) ==
  toServer' = IF handler[c] = "none" \/ HeldByServer(c) THEN [toServer EXCEPT ![c] = Put(@, m)]
                                                       ELSE toServer

ClientConnects(c) ==
  /\ client[c] = "off" /\ \A b \in Clients : b < c => client[b] # "off"
  /\ client' = [client EXCEPT ![c] = "registering"]
  /\ ClientSays(c, "REGI")
  /\ UNCHANGED <<table, open, threads, process, toClient, reset>>

(* Bound: a command is typed when nothing is under way to the server and no  *)
(* answer or text to a client.                                               *)
Quiet == \A c \in Clients : toServer[c] = <<>> /\ "TEXT" \notin Range(toClient[c])

ClientTypes(c) ==
  /\ c \in setup.commands /\ client[c] = "chatting" /\ Quiet
  /\ ClientSays(c, "TEXT")
  /\ UNCHANGED <<table, open, threads, process, client, toClient, reset>>

(* STOP typed (line 166) or Ctrl+C (line 19): in either case the receiver    *)
(* goes on until the recv it is in returns.                                 *)
ClientStops(c) ==
  /\ c \in setup.stops /\ client[c] = "chatting"
  /\ client' = [client EXCEPT ![c] = "stopping"]
  /\ ClientSays(c, "STOP")
  /\ UNCHANGED <<table, open, threads, process, toClient, reset>>

(* recv of the receiver, and the one that waits for OK.  A PING that arrives *)
(* after STOP was typed is still answered, after Ctrl+C it cannot be.       *)
ClientReceives(c) ==
  LET m == Head(toClient[c])
  IN  /\ client[c] \in {"registering", "chatting", "stopping"}
      /\ toClient[c] # <<>>
      /\ client' = [client EXCEPT ![c] =
           IF @ = "chatting" \/ (@ = "registering" /\ m = "OK") THEN "chatting" ELSE "gone"]
      /\ \/ m = "PING" /\ client[c] # "registering" /\ ClientSays(c, "PONG")
         \/ (m = "PING" => client[c] # "chatting") /\ UNCHANGED toServer
      /\ \E rest \in Rests(toClient[c]) :
           toClient' = [toClient EXCEPT ![c] = IF client'[c] = "gone" THEN <<>> ELSE rest]
      /\ UNCHANGED <<table, open, threads, process, reset>>

(* The server has closed the connection, or the client is killed. *)
ClientEnds(c) ==
  /\ client[c] \in {"registering", "chatting", "stopping"}
  /\ client' = [client EXCEPT ![c] = "gone"]
  /\ toClient' = [toClient EXCEPT ![c] = <<>>]
  /\ UNCHANGED <<table, open, threads, process, toServer, reset>>

Client(c) ==
  /\ Up /\ Silent
  /\ \/ ClientConnects(c) \/ ClientTypes(c) \/ ClientStops(c)
     \/ ClientReceives(c) \/ ClientEnds(c)

-----------------------------------------------------------------------------
(* send.  msg gives each of some connections a message.  What is sent to a   *)
(* client that has gone is answered with a reset, and the next send raises  *)
(* SIGPIPE, which the server does not catch.                                *)
Sends(msg) ==
  LET gone == {c \in DOMAIN msg : client[c] = "gone"}
  IN  /\ toClient' = [c \in Clients |-> IF c \in DOMAIN msg \ gone THEN Put(toClient[c], msg[c])
                                                                  ELSE toClient[c]]
      /\ reset' = reset \union gone

Survives == UNCHANGED main
Dies(to) == to \intersect reset # {} /\ main' = "over"

(* A send that returns, and one that returns an error instead. *)
SendsTo(c, m) == Sends([x \in {c} |-> m])
MayFail(c) == c # Nobody => client[c] = "gone"
SendFails(c) ==
  /\ MayFail(c)
  /\ UNCHANGED <<toClient, reset, main>>

-----------------------------------------------------------------------------
(* server.c, main *)

(* Lines 293-319. *)
MainAccepts(c) ==
  LET n == Lowest({k \in Descriptors : open[k] = Nobody})
  IN  /\ main = "accepting"
      /\ client[c] # "off" /\ handler[c] = "none" /\ \A b \in Clients : b < c => handler[b] # "none"
      /\ IF client_count >= MAX_CLIENTS
           THEN /\ SendsTo(c, "TEXT")
                /\ toServer' = [toServer EXCEPT ![c] = <<>>]
                /\ handler' = [handler EXCEPT ![c] = "ended"]
                /\ UNCHANGED <<open, client_socket>>
           ELSE /\ open' = [open EXCEPT ![n] = c]
                /\ client_socket' = [client_socket EXCEPT ![c] = n]
                /\ handler' = [handler EXCEPT ![c] = "first"]
                /\ UNCHANGED <<streams, reset>>
      /\ main' = IF server_running THEN "accepting" ELSE "closing"
      /\ UNCHANGED <<table, reading, checker, server_running, client>>

(* The signal leaves accept waiting: the server ends after one more client. *)
MainInterrupted ==
  /\ setup.signal /\ server_running
  /\ server_running' = FALSE
  /\ UNCHANGED <<table, open, threads, main, checker, client, streams, reset>>

(* Lines 324-332. *)
MainCloses ==
  /\ main = "closing"
  /\ Closes({clients[i].socket : i \in Active})
  /\ main' = "joining"
  /\ UNCHANGED <<table, threads, checker, server_running, client, toClient, reset>>

MainEnds ==
  /\ main = "joining" /\ checker = "ended"
  /\ main' = "over"
  /\ UNCHANGED <<table, open, threads, checker, server_running, client, streams, reset>>

-----------------------------------------------------------------------------
(* server.c, handle_client *)

Goes(h, place) == handler' = [handler EXCEPT ![h] = place]
Ends(h) == Goes(h, "ended") /\ client_socket' = [client_socket EXCEPT ![h] = 0]

InUse_Never(id) == FALSE
InUse(id) == \E i \in Active : clients[i].id = id

(* Lines 91-98: a client of client.c sends REGI first, and nothing more     *)
(* before it has the answer.                                                *)
Greeted(h) ==
  /\ handler[h] = "first"
  /\ toServer[h] # <<>> /\ toServer' = [toServer EXCEPT ![h] = <<>>]

HandlerLosesClient(h) ==
  /\ handler[h] = "first"
  /\ toServer[h] = <<>> /\ client[h] = "gone"
  /\ Closes({client_socket[h]})
  /\ Ends(h)
  /\ UNCHANGED <<table, reading, process, client, toClient, reset>>

(* Lines 103-110. *)
HandlerRefuses(h) ==
  /\ Greeted(h)
  /\ InUse(IdOf[h])
  /\ SendsTo(h, "TEXT")
  /\ Survives \/ Dies({h})
  /\ open' = [open EXCEPT ![client_socket[h]] = Nobody]
  /\ Ends(h)
  /\ UNCHANGED <<table, reading, checker, server_running, client>>

NotRegistered_KeepsNumber(n, id) == [socket |-> n, id |-> id, age |-> 0]
NotRegistered(n, id) == [socket |-> 0, id |-> id, age |-> 0]

(* Lines 113-131; without a free slot nothing is said.  What another's       *)
(* thread, which knew the number before, has sent to the client may make    *)
(* this send raise SIGPIPE.                                                 *)
HandlerRegisters(h) ==
  LET i == Lowest(Slots \ Active)
  IN  /\ Greeted(h)
      /\ ~InUse(IdOf[h])
      /\ \/ /\ Slots \subseteq Active
            /\ UNCHANGED <<table, open, toClient, reset, main>>
         \/ /\ Slots \ Active # {}
            /\ SendsTo(h, "OK")
            /\ Survives \/ Dies({h})
            /\ clients' = [clients EXCEPT ![i] = [socket |-> client_socket[h], id |-> IdOf[h], age |-> 0]]
            /\ client_count' = client_count + 1
            /\ UNCHANGED open
         \/ /\ Slots \ Active # {}
            /\ SendFails(h)
            /\ clients' = [clients EXCEPT ![i] = NotRegistered(client_socket[h], IdOf[h])]
            /\ open' = [open EXCEPT ![client_socket[h]] = Nobody]
            /\ UNCHANGED client_count
      /\ Goes(h, "loop")
      /\ UNCHANGED <<client_socket, reading, checker, server_running, client>>

(* Line 138, and the beginning of recv. *)
HandlerWaits(h) ==
  LET c == open[client_socket[h]]
  IN  /\ handler[h] = "loop"
      /\ IF server_running /\ c # Nobody
           THEN reading' = [reading EXCEPT ![h] = c] /\ Goes(h, "recv")
           ELSE UNCHANGED reading /\ Goes(h, "remove")
      /\ UNCHANGED <<table, open, client_socket, process, client, streams, reset>>

HandlerLosesConnection(h) ==
  /\ handler[h] = "recv"
  /\ toServer[reading[h]] = <<>> /\ client[reading[h]] = "gone"
  /\ reading' = [reading EXCEPT ![h] = Nobody]
  /\ Goes(h, "remove")
  /\ UNCHANGED <<table, open, client_socket, process, client, streams, reset>>

(* recv returns m, and line 138 is next, or line 205. *)
Receives(h, m, next) ==
  LET c == reading[h]
  IN  /\ handler[h] = "recv"
      /\ toServer[c] # <<>> /\ m = Head(toServer[c])
      /\ \E rest \in IF HeldElsewhere(c, h) THEN Rests(toServer[c]) ELSE {<<>>} :
           toServer' = [toServer EXCEPT ![c] = rest]
      /\ reading' = [reading EXCEPT ![h] = Nobody]
      /\ Goes(h, next)
      /\ UNCHANGED <<client_count, open, client_socket, checker, server_running, client>>

SlotOf(n) == {i \in Slots : clients[i].socket = n}

(* Lines 147-155. *)
HandlerTouches(h) ==
  /\ Receives(h, "PONG", "loop")
  /\ clients' = [i \in Slots |-> IF i \in SlotOf(client_socket[h]) THEN [clients[i] EXCEPT !.age = 0]
                                                                 ELSE clients[i]]
  /\ UNCHANGED <<main, toClient, reset>>

(* Lines 158-178: LIST. *)
HandlerLists(h) ==
  LET c == open[client_socket[h]]
  IN  /\ \/ /\ Receives(h, "TEXT", "loop")
            /\ c # Nobody
            /\ SendsTo(c, "TEXT")
            /\ Survives \/ Dies({c})
         \/ Receives(h, "TEXT", "remove") /\ SendFails(c)
      /\ UNCHANGED clients

(* Line 199, for a REGI that another's thread has read. *)
HandlerRejects(h) ==
  LET c == open[client_socket[h]]
  IN  /\ Receives(h, "REGI", "loop")
      /\ \/ /\ c # Nobody
            /\ SendsTo(c, "TEXT")
            /\ Survives \/ Dies({c})
         \/ SendFails(c)
      /\ UNCHANGED clients

(* What the client the thread was started for passes on, by whoever wrote it. *)
PassesOn(h, kind, named, to) ==
  /\ Receives(h, "TEXT", "loop")
  /\ Sends([c \in to |-> "TEXT"])
  /\ Survives \/ Dies(to)
  /\ delivered' = [kind : {kind}, sender : {IdOf[h]}, author : {IdOf[reading[h]]}, named : {named}, to : to]
  /\ UNCHANGED <<clients, setup>>

ConnectionsOf(S) == {open[clients[i].socket] : i \in S} \ {Nobody}

Others_All(sender) == Active
Others(sender) == {i \in Active : clients[i].id # sender}

(* 2ALL: broadcast_message. *)
HandlerBroadcasts(h) == PassesOn(h, "2ALL", NoId, ConnectionsOf(Others(IdOf[h])))

Named(id) == {i \in Active : clients[i].id = id}

(* 2ONE: send_private_message, to the first of that name. *)
HandlerSendsPrivately(h) ==
  \E id \in Ids :
    PassesOn(h, "2ONE", id, IF Named(id) = {} THEN {} ELSE ConnectionsOf({Lowest(Named(id))}))

HandlerStops(h) ==
  /\ Receives(h, "STOP", "remove")
  /\ UNCHANGED <<clients, main, toClient, reset>>

(* remove_client: whoever has that number now. *)
HandlerRemoves(h) ==
  LET n == client_socket[h]
      mine == SlotOf(n)
  IN  /\ handler[h] = "remove"
      /\ IF mine = {}
           THEN UNCHANGED <<table, open, toServer>>
           ELSE /\ clients' = [clients EXCEPT ![Lowest(mine)] = Free]
                /\ client_count' = client_count - 1
                /\ Closes({n})
      /\ Ends(h)
      /\ UNCHANGED <<reading, process, client, toClient, reset>>

Handler(h) ==
  /\ Up /\ UNCHANGED <<checker, server_running, client>>
  /\ \/ HandlerBroadcasts(h) \/ HandlerSendsPrivately(h)
     \/ /\ Silent
        /\ \/ HandlerLosesClient(h) \/ HandlerRefuses(h) \/ HandlerRegisters(h)
           \/ HandlerWaits(h) \/ HandlerLosesConnection(h) \/ HandlerTouches(h)
           \/ HandlerLists(h) \/ HandlerRejects(h) \/ HandlerStops(h) \/ HandlerRemoves(h)

-----------------------------------------------------------------------------
(* server.c, alive_checker.  Line 218, for a client whose last PONG was age  *)
(* intervals before the previous run; at either end time() and sleep()      *)
(* make it seem older or younger by one.                                    *)
TimedOut_Never(i, late) == FALSE
TimedOut(i, late) == clients[i].age + 1 + late > PING_TIMEOUT

Waited_SinceThePing(i) == [clients[i] EXCEPT !.age = 0]
Waited(i) == [clients[i] EXCEPT !.age = @ + 1]

Dropped_StillCounted(gone) == client_count
Dropped(gone) == client_count - Cardinality(gone)

(* Lines 213-236. *)
CheckerPass ==
  /\ Up /\ Silent
  /\ checker = "running"
  /\ checker' = IF server_running THEN "running" ELSE "ended"
  /\ UNCHANGED <<threads, server_running, client>>
  /\ \E late \in [Active -> -1 .. 1] :
       LET old  == {i \in Active : TimedOut(i, late[i])}
           to(i) == open[clients[i].socket]
       IN  \E failed \in SUBSET {i \in Active \ old : MayFail(to(i))} :
             LET gone == old \union failed
                 pinged == {to(i) : i \in Active \ gone}
             IN  /\ Nobody \notin pinged
                 /\ clients' = [i \in Slots |-> IF i \in gone THEN Free
                                                ELSE IF i \in Active THEN Waited(i)
                                                ELSE clients[i]]
                 /\ client_count' = Dropped(gone)
                 /\ Closes({clients[i].socket : i \in gone})
                 /\ Sends([c \in pinged |-> "PING"])
                 /\ Survives \/ Dies(pinged)

-----------------------------------------------------------------------------
Init ==
  /\ setup \in Setups
  /\ clients = [i \in Slots |-> Free] /\ client_count = 0
  /\ open = [n \in Descriptors |-> Nobody]
  /\ handler = [c \in Clients |-> "none"] /\ client_socket = [c \in Clients |-> 0]
  /\ reading = [c \in Clients |-> Nobody]
  /\ main = "accepting" /\ checker = "running" /\ server_running = TRUE
  /\ client = [c \in Clients |-> "off"]
  /\ toServer = [c \in Clients |-> <<>>] /\ toClient = [c \in Clients |-> <<>>]
  /\ reset = {} /\ delivered = {}

Main ==
  /\ Up /\ Silent
  /\ MainInterrupted \/ MainCloses \/ MainEnds \/ \E c \in Clients : MainAccepts(c)

Next ==
  \/ \E c \in Clients : Client(c) \/ Handler(c)
  \/ Main
  \/ CheckerPass

(* The threads of the server run; clients promise nothing. *)
Fairness ==
  /\ \A h \in Clients : WF_vars(Handler(h))
  /\ WF_vars(CheckerPass)

Spec == Init /\ [][Next]_vars /\ Fairness

-----------------------------------------------------------------------------
(* The table as a directory. *)

Listing == {[id |-> clients[i].id, at |-> clients[i].socket] : i \in Active}

AsDirectory == INSTANCE Directory WITH
  Names <- Ids, Places <- Descriptors, registered <- Listing, capacity <- MAX_CLIENTS

-----------------------------------------------------------------------------
(* Properties *)

TypeOK ==
  /\ setup \in Setups
  /\ clients \in [Slots -> [socket : {0} \union Descriptors, id : Ids \union {NoId},
                            age : 0 .. PING_TIMEOUT + 1]]
  /\ client_count \in 0 .. MAX_CLIENTS
  /\ open \in [Descriptors -> Clients \union {Nobody}]
  /\ handler \in [Clients -> {"none", "first", "loop", "recv", "remove", "ended"}]
  /\ client_socket \in [Clients -> {0} \union Descriptors]
  /\ reading \in [Clients -> Clients \union {Nobody}]
  /\ main \in {"accepting", "closing", "joining", "over"} /\ checker \in {"running", "ended"}
  /\ server_running \in BOOLEAN
  /\ client \in [Clients -> {"off", "registering", "chatting", "stopping", "gone"}]
  /\ toServer \in [Clients -> Seq({"REGI", "PONG", "STOP", "TEXT"})]
  /\ toClient \in [Clients -> Seq({"OK", "PING", "TEXT"})]
  /\ delivered \subseteq [kind : {"2ALL", "2ONE"}, sender : Ids, author : Ids,
                         named : Ids \union {NoId}, to : Clients]
  /\ reset \subseteq Clients

(* Four pieces of code count clients in and out (lines 118, 124, 77, 223,    *)
(* 230), two of them for a number that may have changed hands: the count    *)
(* that accept refuses clients by is the number of entries in use.          *)
CountAgrees == client_count = Cardinality(Active)

(* No two clients are registered under one id, though their threads run     *)
(* side by side and ids come back after a drop (lines 103-111).             *)
UniqueIds == \A i, j \in Active : clients[i].id = clients[j].id => i = j

(* The table is the directory: an entry keeps its id and its number from the *)
(* registration to the drop, whoever closes the number, and no id is listed  *)
(* twice.                                                                    *)
IsDirectory == AsDirectory!Spec

(* Numbers are closed by three threads and used again by accept; still, as   *)
(* long as main accepts, the number in an entry leads to a client of the     *)
(* entry's id, whose own thread is alive, knows it by that number, and reads *)
(* what this client writes.                                                  *)
SocketsAreTheirs ==
  main = "accepting" =>
    \A i \in Active :
      LET c == open[clients[i].socket]
      IN  /\ c # Nobody /\ IdOf[c] = clients[i].id
          /\ handler[c] \in {"loop", "recv", "remove"} /\ client_socket[c] = clients[i].socket
          /\ handler[c] = "recv" => reading[c] = c

(* A private text goes to a client of the id it names, and a text to all     *)
(* does not come back to the id it is sent under (lines 40 and 59).          *)
ReachesAddressee ==
  \A d \in delivered : IF d.kind = "2ONE" THEN IdOf[d.to] = d.named ELSE IdOf[d.to] # d.sender

Registered(c) == \E i \in Active : clients[i].id = IdOf[c] /\ open[clients[i].socket] = c

(* A registered client that does not answer PING, because it has gone, has   *)
(* stopped reading or its PONG is not recognised, does not stay registered   *)
(* (lines 209-239 and 140; README.md, point 5), while the server runs.       *)
SilentAreDropped ==
  \A c \in Clients :
    Registered(c) ~> (~Registered(c) \/ "PONG" \in Range(toServer[c]) \/ ~server_running \/ ~Up)

(* README.md, points 2 and 3: the server passes a text on together with *)
(* the id of the client that sent it.  The code names the client the thread  *)
(* was started for (lines 181 and 188).                                      *)
AttributedToAuthor == \A d \in delivered : d.sender = d.author

(* What is left of it: a text goes out under another's id only if the thread *)
(* that passes it on was started for a client that is not registered.  The   *)
(* thread of one that is passes on nothing but its client's texts.           *)
MisattributedOnlyOnceDropped ==
  \A d \in delivered : d.sender # d.author =>
    \E h \in Clients : IdOf[h] = d.sender /\ handler[h] = "loop" /\ ~Registered(h)

=============================================================================
