------------------------------ MODULE UdpChat ------------------------------
(***************************************************************************)
(* Lab 12/server.c and Lab 12/client.c: a chat over datagrams, which the   *)
(* network loses, reorders, duplicates, and keeps as long as it likes.     *)
(*                                                                         *)
(* The server's main thread takes one datagram at a time and handles it in *)
(* up to three critical sections of clients_mutex (find the sender, note   *)
(* that it is alive, do what it asks); between them ping_thread may run.   *)
(* A client is what runs at one address: a start of client.c after another *)
(* may get the same port, and then gets the datagrams sent to the first.   *)
(*                                                                         *)
(* Time passes in units of PING_INTERVAL, one at each run of ping_thread,  *)
(* which waits for nothing.  Equal datagrams under way are one, which may  *)
(* arrive, or be lost, more than once.  A text typed by a user is told by  *)
(* its author (by), which nobody transmits.                                *)
(* The clients are run on a terminal (client.c line 188), so that STOP ends *)
(* them, and Ctrl+C their part in the chat, at once; the server's own end  *)
(* is not modelled.                                                        *)
(*                                                                         *)
(* An operator X_Fault stands before the operator X of which it is a       *)
(* faulty version; nothing uses it, the properties are tried against it.   *)
(***************************************************************************)
EXTENDS Integers, FiniteSets

CONSTANTS
  Addresses,        \* where clients run
  IdsOf,            \* address -> the ids its users start a client with
  NoId, NoAddress, NoRequest,
  MAX_CLIENTS,
  PING_TIMEOUT,     \* in units of PING_INTERVAL: 2
  MaxStarts, MaxCommands, MaxCopies   \* bounds: clients started, commands typed, datagrams doubled

Ids == UNION {IdsOf[a] : a \in Addresses}
Slots == 0 .. MAX_CLIENTS - 1

(* What the server receives, and what its main thread knows of a datagram   *)
(* while it works on it.                                                    *)
Requests ==
  [from : Addresses, type : {"REGI", "2ALL"}, id : Ids, to : {NoId}]
    \union [from : Addresses, type : {"2ONE"}, id : Ids, to : Ids]
    \union [from : Addresses, type : {"PONG", "LIST", "STOP"}, id : {NoId}, to : {NoId}]
Handlings == [request : Requests, idx : Slots \union {-1}, touched : BOOLEAN]

ASSUME ConstantsAssumption ==
  /\ IsFiniteSet(Addresses) /\ IdsOf \in [Addresses -> SUBSET Ids]
  /\ NoId \notin Ids /\ NoAddress \notin Addresses /\ NoRequest \notin Handlings
  /\ MAX_CLIENTS \in Nat \ {0} /\ PING_TIMEOUT \in Nat

VARIABLES
  clients,          \* the server's table
  handling,         \* the datagram the main thread works on, and the locals about it
  requests, replies,  \* datagrams under way to the server, and from it
  client, client_id,  \* what runs at each address, and its id
  starts, commands, copies,
  missed            \* history: entries that since they were noted alive may have missed a sign of life

server == <<clients, handling>>
bounds == <<starts, commands, copies>>
vars == <<server, requests, replies, client, client_id, bounds, missed>>

Active == {i \in Slots : clients[i].active}
EntriesAt(a) == {i \in Active : clients[i].addr = a}

-----------------------------------------------------------------------------
(* Datagrams *)

Request(a, type) == [from |-> a, type |-> type, id |-> NoId, to |-> NoId]
Command(a, type, to) == [from |-> a, type |-> type, id |-> client_id[a], to |-> to]
Reply(a, type) == [to |-> a, type |-> type, sender |-> NoId, by |-> NoId]
Text(a, type, sender, by) == [to |-> a, type |-> type, sender |-> sender, by |-> by]

(* What becomes of the set in when m is received: gone, or there is another. *)
Received(in, m) ==
  \/ in' = in \ {m} /\ UNCHANGED copies
  \/ copies < MaxCopies /\ copies' = copies + 1 /\ UNCHANGED in

LoseRequest(m) ==
  /\ Received(requests, m)
  /\ missed' = missed \union EntriesAt(m.from)
  /\ UNCHANGED <<server, replies, client, client_id, starts, commands>>

(* Lost, or found nobody at its address. *)
LoseReply(m) ==
  /\ Received(replies, m)
  /\ missed' = missed \union EntriesAt(m.to)
  /\ UNCHANGED <<server, requests, client, client_id, starts, commands>>

-----------------------------------------------------------------------------
(* client.c *)

ClientStarts(a) ==
  /\ client[a] = "off" /\ starts < MaxStarts
  /\ starts' = starts + 1
  /\ client' = [client EXCEPT ![a] = "registering"]
  /\ \E id \in IdsOf[a] :
       /\ client_id' = [client_id EXCEPT ![a] = id]
       /\ requests' = requests \union {[from |-> a, type |-> "REGI", id |-> id, to |-> NoId]}
  /\ missed' = missed \union EntriesAt(a)
  /\ UNCHANGED <<server, replies, commands, copies>>

ClientIsOver(a) ==
  /\ client' = [client EXCEPT ![a] = "off"]
  /\ client_id' = [client_id EXCEPT ![a] = NoId]

(* Line 118: whatever arrives first is taken for the answer. *)
ClientIsAnswered(a, m) ==
  /\ client[a] = "registering" /\ m.to = a
  /\ Received(replies, m)
  /\ IF m.type = "OK" THEN client' = [client EXCEPT ![a] = "chatting"] /\ UNCHANGED client_id
                      ELSE ClientIsOver(a)
  /\ UNCHANGED <<server, requests, starts, commands, missed>>

(* Line 119: five seconds without an answer. *)
ClientGivesUp(a) ==
  /\ client[a] = "registering"
  /\ ClientIsOver(a)
  /\ UNCHANGED <<server, requests, replies, bounds, missed>>

(* The receiver thread answers PING and prints the rest. *)
ClientReceives(a, m) ==
  /\ client[a] = "chatting" /\ m.to = a
  /\ Received(replies, m)
  /\ requests' = IF m.type = "PING" THEN requests \union {Request(a, "PONG")}
                                    ELSE requests
  /\ UNCHANGED <<server, client, client_id, starts, commands, missed>>

ClientSends(a) ==
  /\ client[a] = "chatting" /\ commands < MaxCommands
  /\ commands' = commands + 1
  /\ \E m \in {Request(a, "LIST"), Command(a, "2ALL", NoId)}
               \union {Command(a, "2ONE", id) : id \in Ids} :
       requests' = requests \union {m}
  /\ UNCHANGED <<server, replies, client, client_id, starts, copies, missed>>

(* STOP typed, or Ctrl+C. *)
ClientStops(a) ==
  /\ client[a] = "chatting"
  /\ requests' = requests \union {Request(a, "STOP")}
  /\ ClientIsOver(a)
  /\ UNCHANGED <<server, replies, bounds, missed>>

(* Line 148, the end of the input, says nothing to the server; nor does a   *)
(* process that is killed.                                                  *)
ClientVanishes(a) ==
  /\ client[a] = "chatting"
  /\ ClientIsOver(a)
  /\ UNCHANGED <<server, requests, replies, bounds, missed>>

-----------------------------------------------------------------------------
(* server.c, handle_client_message *)

FirstOf(S) == IF S = {} THEN -1 ELSE CHOOSE i \in S : \A j \in S : i <= j

find_client_by_id(id) == FirstOf({i \in Active : clients[i].id = id})
find_client_by_addr_AnyPort(a) == FirstOf(Active)
find_client_by_addr(a) == FirstOf({i \in Active : clients[i].addr = a})

(* Lines 231 and 110. *)
ServerReceives(m) ==
  /\ handling = NoRequest
  /\ Received(requests, m)
  /\ handling' = [request |-> m, idx |-> find_client_by_addr(m.from), touched |-> FALSE]
  /\ UNCHANGED <<clients, replies, client, client_id, starts, commands, missed>>

Handles(type) == handling # NoRequest /\ handling.request.type = type

(* Line 119. *)
InUse_Never(id) == FALSE
InUse(id) == find_client_by_id(id) # -1

(* Lines 118-142: refused when the id or every slot is in use. *)
ServerRegisters ==
  LET a    == handling.request.from
      id   == handling.request.id
      free == Slots \ Active
      slot == FirstOf(free)
  IN  /\ Handles("REGI")
      /\ IF InUse(id) \/ free = {}
           THEN /\ replies' = replies \union {Reply(a, "ERROR")}
                /\ UNCHANGED <<clients, missed>>
           ELSE /\ replies' = replies \union {Reply(a, "OK")}
                /\ clients' = [clients EXCEPT ![slot] =
                                 [active |-> TRUE, id |-> id, addr |-> a, age |-> 0]]
                /\ missed' = missed \ {slot}
      /\ handling' = NoRequest
      /\ UNCHANGED <<requests, client, client_id, bounds>>

HandlesKnown(type) == Handles(type) /\ handling.idx # -1 /\ handling.touched

(* Line 144. *)
ServerRejects ==
  /\ handling # NoRequest /\ ~Handles("REGI") /\ handling.idx = -1
  /\ replies' = replies \union {Reply(handling.request.from, "ERROR")}
  /\ handling' = NoRequest
  /\ UNCHANGED <<clients, requests, client, client_id, bounds, missed>>

(* Line 147.  Another entry of the same address does not hear of it.  PONG   *)
(* asks for nothing more.                                                   *)
ServerTouches ==
  /\ handling # NoRequest /\ ~Handles("REGI") /\ handling.idx # -1 /\ ~handling.touched
  /\ clients' = [clients EXCEPT ![handling.idx].age = 0]
  /\ missed' = (missed \union EntriesAt(handling.request.from)) \ {handling.idx}
  /\ handling' = IF Handles("PONG") THEN NoRequest ELSE [handling EXCEPT !.touched = TRUE]
  /\ UNCHANGED <<requests, replies, client, client_id, bounds>>

(* The names in the answer are left out. *)
ServerLists ==
  /\ HandlesKnown("LIST")
  /\ replies' = replies \union {Reply(handling.request.from, "LIST")}
  /\ handling' = NoRequest
  /\ UNCHANGED <<clients, requests, client, client_id, bounds, missed>>

(* broadcast_message, with the id now in the slot found before. *)
Others(sender) == {i \in Active : clients[i].id # sender}

ServerBroadcasts ==
  LET sender == clients[handling.idx].id
  IN  /\ HandlesKnown("2ALL")
      /\ replies' = replies \union
           {Text(clients[i].addr, "MSGALL", sender, handling.request.id) : i \in Others(sender)}
      /\ handling' = NoRequest
      /\ UNCHANGED <<clients, requests, client, client_id, bounds, missed>>

(* send_private_message: nothing to an unknown recipient. *)
ServerSendsPrivately ==
  LET sender == clients[handling.idx].id
      to     == find_client_by_id(handling.request.to)
  IN  /\ HandlesKnown("2ONE")
      /\ replies' = IF to = -1 THEN replies
                    ELSE replies \union
                           {Text(clients[to].addr, "MSGONE", sender, handling.request.id)}
      /\ handling' = NoRequest
      /\ UNCHANGED <<clients, requests, client, client_id, bounds, missed>>

(* The id stays in the slot, and may still be read; the age is not. *)
Inactive(i) == [active |-> FALSE, id |-> clients[i].id, addr |-> clients[i].addr, age |-> 0]

ServerStopsClient ==
  /\ HandlesKnown("STOP")
  /\ clients' = [clients EXCEPT ![handling.idx] = Inactive(handling.idx)]
  /\ missed' = missed \ {handling.idx}
  /\ handling' = NoRequest
  /\ UNCHANGED <<requests, replies, client, client_id, bounds>>

ServerHandles ==
  \/ ServerRegisters \/ ServerRejects \/ ServerTouches
  \/ ServerLists \/ ServerBroadcasts \/ ServerSendsPrivately \/ ServerStopsClient

(* ping_thread.  Line 94, for a client last heard from age intervals before  *)
(* the previous run: the interval in which it was heard is not a whole one, *)
(* time() cuts fractions off and sleep() oversleeps, so that at either end  *)
(* of that interval the client seems older or younger by one.               *)
TimedOut_Interval(i, late) == clients[i].age + 1 + late > PING_TIMEOUT - 1
TimedOut_TooLate(i, late) == clients[i].age + late > PING_TIMEOUT
TimedOut(i, late) == clients[i].age + 1 + late > PING_TIMEOUT

Waited_SinceThePing(i) == [clients[i] EXCEPT !.age = 0]
Waited(i) == [clients[i] EXCEPT !.age = @ + 1]

(* Lines 88-103, at any time. *)
PingPass ==
  \E late \in [Active -> -1 .. 1] :
    LET gone == {i \in Active : TimedOut(i, late[i])}
    IN  /\ clients' = [i \in Slots |->
                         IF i \in gone THEN Inactive(i)
                         ELSE IF i \in Active THEN Waited(i)
                         ELSE clients[i]]
        /\ replies' = replies \union {Reply(clients[i].addr, "PING") : i \in Active \ gone}
        /\ missed' = missed \ gone
        /\ UNCHANGED <<handling, requests, client, client_id, bounds>>

-----------------------------------------------------------------------------
Init ==
  /\ clients = [i \in Slots |-> [active |-> FALSE, id |-> NoId, addr |-> NoAddress, age |-> 0]]
  /\ handling = NoRequest
  /\ requests = {} /\ replies = {}
  /\ client = [a \in Addresses |-> "off"] /\ client_id = [a \in Addresses |-> NoId]
  /\ starts = 0 /\ commands = 0 /\ copies = 0
  /\ missed = {}

Client(a) ==
  \/ ClientStarts(a) \/ ClientGivesUp(a) \/ ClientSends(a)
  \/ ClientStops(a) \/ ClientVanishes(a)
  \/ \E m \in replies : ClientIsAnswered(a, m) \/ ClientReceives(a, m)

Network ==
  \/ \E m \in requests : LoseRequest(m)
  \/ \E m \in replies : LoseReply(m)

Server == ServerHandles \/ \E m \in requests : ServerReceives(m)

Next ==
  \/ \E a \in Addresses : Client(a)
  \/ Network
  \/ Server
  \/ PingPass

(* The two threads run.  Of the network and the clients nothing is expected. *)
Fairness == WF_vars(Server) /\ WF_vars(PingPass)

Spec == Init /\ [][Next]_vars /\ Fairness

-----------------------------------------------------------------------------
(* The table as a directory. *)

Listing == {[id |-> clients[i].id, at |-> <<i, clients[i].addr>>] : i \in Active}

AsDirectory == INSTANCE Directory WITH
  Names <- Ids, Places <- Slots \X Addresses, registered <- Listing, capacity <- MAX_CLIENTS

-----------------------------------------------------------------------------
(* Properties *)

ReplyTypes == {"OK", "ERROR", "PING", "LIST", "MSGALL", "MSGONE"}

TypeOK ==
  /\ \A i \in Slots :
       /\ clients[i].active \in BOOLEAN
       /\ clients[i].id \in Ids \union {NoId} /\ clients[i].addr \in Addresses \union {NoAddress}
       /\ clients[i].active => clients[i].id # NoId /\ clients[i].addr # NoAddress
       /\ clients[i].age \in 0 .. PING_TIMEOUT + 1
  /\ handling \in Handlings \union {NoRequest} /\ requests \subseteq Requests
  /\ \A m \in replies : m.to \in Addresses /\ m.type \in ReplyTypes
  /\ client \in [Addresses -> {"off", "registering", "chatting"}]
  /\ missed \subseteq Slots

(* Two clients are never registered under one id, with lost answers,        *)
(* repeated and late registrations and clients that vanished meanwhile.     *)
UniqueIds == \A i, j \in Active : clients[i].id = clients[j].id => i = j

(* The table is the directory: who is listed under an id stays so, in its    *)
(* slot and at the address it registered from, until it is dropped.  Late   *)
(* and repeated registrations, lookups used after an unlock and ping_thread *)
(* between them never take an entry over, rename it or list an id twice.    *)
IsDirectory == AsDirectory!Spec

(* Lab 11/README.md, points 2 and 3 (kept by Lab 12/README.md): the server   *)
(* passes a text on with the id of its sender.                              *)
AttributedToAuthor ==
  \A m \in replies : m.type \in {"MSGALL", "MSGONE"} => m.sender = m.by

(* What is left of it: a text goes out under an id started at the address of *)
(* its author, never under that of a client elsewhere.  The slot of the     *)
(* sender is looked up in one critical section and its id read in a later    *)
(* one, when ping_thread may have dropped the client.                       *)
AttributedToAddress ==
  \A m \in replies : m.type \in {"MSGALL", "MSGONE"} =>
    \E a \in Addresses : m.sender \in IdsOf[a] /\ m.by \in IdsOf[a]

AnswerUnderWay(a) ==
  \/ \E m \in replies : m.to = a /\ m.type = "PING"
  \/ \E m \in requests : m.from = a /\ m.type = "PONG"
  \/ handling # NoRequest /\ handling.request.from = a /\ ~handling.touched

(* ping_thread drops the entry of a running client, which answers every      *)
(* PING, only if the answer to a PING of an earlier run, an interval ago or  *)
(* more, is still under way or just being handled, or if, since the entry    *)
(* was noted alive, a datagram between the two was lost, the client was      *)
(* started anew, or a sign of life of its address was noted for another      *)
(* entry (missed).  Rounding and oversleeping never cost a client its place  *)
(* whose answers come within the interval.                                   *)
AnsweringClientStays ==
  [][\A i \in Active :
       LET a == clients[i].addr
       IN  PingPass /\ client[a] = "chatting" /\ ~clients'[i].active
             => i \in missed \/ AnswerUnderWay(a)]_vars

(* A client that is gone, and did not or could not say so, leaves the table *)
(* in the end, whatever late datagrams of it still arrive.                  *)
GhostsVanish ==
  \A i \in Slots, a \in Addresses :
    (clients[i].active /\ clients[i].addr = a /\ client[a] = "off")
      ~> (~clients[i].active \/ client[a] # "off")

=============================================================================
